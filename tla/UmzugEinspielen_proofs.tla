------------------------ MODULE UmzugEinspielen_proofs ------------------------
(***************************************************************************)
(* The invariants of UmzugEinspielen for every data directory, package and *)
(* number of kills and failures: TypeInv, PaketNichtVerloren (IInv), and   *)
(* what holds while nothing has been disturbed, UngestoertGanz (UInv).     *)
(***************************************************************************)
EXTENDS UmzugEinspielen, TLAPS

\* What the loop at pc has still to visit.
SchleifeTyp ==
    /\ pc = "einsetzen" => \A n \in offen : eingang[n] = "paket"
    /\ pc = "zurueck" => offen \subseteq Gebunden
    /\ pc = "datenbank" => offen \subseteq datenbanken

Typ ==
    /\ offen \subseteq Name /\ paket \subseteq Name
    /\ datenbanken \subseteq Name \ paket
    /\ daten \in [Name -> Inhalt] /\ alt \in [Name -> Inhalt]
    /\ eingang \in [Name -> {"nichts", "paket"}]
    /\ anlauf \in 0..3
    /\ marke = "kaputt" => anlauf = 0
    /\ pc \in {"beiseite", "einsetzen"} => anlauf # 0
    /\ SchleifeTyp

\* Where an entry of the package is, from attempt to attempt.  The first finds
\* it in the inbox and puts it in place; the second may put it aside, and while
\* it does, what it has not visited yet is not only in .umzug-alt.
Da(n) ==
    /\ anlauf = 0 /\ marke = "da" => eingang[n] = "paket"
    /\ anlauf = 1 => daten[n] = "paket" \/ eingang[n] = "paket"
    /\ anlauf = 1 /\ pc = "beiseite" => eingang[n] = "paket"
    /\ anlauf = 2 => "paket" \in {daten[n], alt[n], eingang[n]}
    /\ anlauf = 2 /\ pc = "beiseite" /\ n \in offen => "paket" \in {daten[n], eingang[n]}

IInv == Typ /\ \A n \in paket : Da(n)

LEMMA IInvInit == Init => IInv
<1> SUFFICES ASSUME Init PROVE IInv
  OBVIOUS
<1>1. /\ daten \in [Name -> Inhalt] /\ alt \in [Name -> Inhalt]
      /\ eingang \in [Name -> {"nichts", "paket"}]
  BY DEF Init, Inhalt
<1>2. Typ
  BY <1>1 DEF Init, Typ, SchleifeTyp
<1>3. ASSUME NEW n \in paket
      PROVE  Da(n)
  <2>1. n \in Name /\ eingang[n] = "paket" /\ anlauf = 0
    BY DEF Init
  <2>2. QED
    BY <2>1 DEF Da
<1>4. QED
  BY <1>2, <1>3 DEF IInv

LEMMA StartSchritt ==
  ASSUME IInv, StartOhne \/ StartKaputt \/ StartEinspielen
  PROVE  IInv'
<1>1. CASE StartOhne
  BY <1>1 DEF StartOhne, IInv, Typ, SchleifeTyp, Da, umzug
<1>2. CASE StartKaputt
  BY <1>2 DEF StartKaputt, IInv, Typ, SchleifeTyp, Da, umzug
<1>3. CASE StartEinspielen
  <2>1. Typ'
    BY <1>3 DEF StartEinspielen, AltGeleert, Belegt, IInv, Typ, SchleifeTyp, Inhalt, umzug
  <2>2. ASSUME NEW n \in paket
        PROVE  Da(n)'
    BY <1>3 DEF StartEinspielen, IInv, Typ, Da, umzug
  <2>3. paket' = paket
    BY <1>3 DEF StartEinspielen, umzug
  <2>4. QED
    BY <2>1, <2>2, <2>3 DEF IInv
<1>4. QED
  BY <1>1, <1>2, <1>3

LEMMA BeiseiteSchritt ==
  ASSUME IInv, NEW m \in Name, Beiseite(m) \/ BeiseiteScheitert(m)
  PROVE  IInv'
<1>1. CASE Beiseite(m)
  <2>1. Typ'
    BY <1>1 DEF Beiseite, IInv, Typ, SchleifeTyp, Inhalt, umzug
  <2>2. ASSUME NEW n \in paket
        PROVE  Da(n)'
    <3>1. n \in Name /\ Da(n)
      BY DEF IInv, Typ
    <3>2. CASE n = m
      <4>1. alt'[n] = daten[n] /\ n \notin offen' /\ eingang' = eingang
        BY <1>1, <3>1, <3>2 DEF Beiseite, IInv, Typ
      <4>2. QED
        BY <1>1, <3>1, <3>2, <4>1 DEF Beiseite, Da
    <3>3. CASE n # m
      <4>1. alt'[n] = alt[n] /\ daten'[n] = daten[n] /\ eingang' = eingang
        BY <1>1, <3>1, <3>3 DEF Beiseite, IInv, Typ
      <4>2. QED
        BY <1>1, <3>1, <4>1 DEF Beiseite, Da
    <3>4. QED
      BY <3>2, <3>3
  <2>3. QED
    BY <1>1, <2>1, <2>2 DEF IInv, Beiseite, umzug
<1>2. CASE BeiseiteScheitert(m)
  BY <1>2 DEF BeiseiteScheitert, IInv, Typ, SchleifeTyp, Da, umzug
<1>3. QED
  BY <1>1, <1>2

LEMMA EinsetzenSchritt ==
  ASSUME IInv, NEW m \in Name, Einsetzen(m) \/ EinsetzenWirft(m)
  PROVE  IInv'
<1>1. CASE Einsetzen(m)
  <2>1. Typ'
    BY <1>1 DEF Einsetzen, IInv, Typ, SchleifeTyp, Inhalt, umzug
  <2>2. ASSUME NEW n \in paket
        PROVE  Da(n)'
    <3>1. n \in Name /\ Da(n)
      BY DEF IInv, Typ
    <3>2. CASE n = m
      <4>1. daten'[n] = "paket" /\ anlauf' = anlauf /\ pc' = "einsetzen" /\ marke' = marke
        BY <1>1, <3>1, <3>2 DEF Einsetzen, IInv, Typ, SchleifeTyp
      <4>2. anlauf # 0
        BY <1>1 DEF Einsetzen, IInv, Typ
      <4>3. QED
        BY <3>1, <4>1, <4>2 DEF Da
    <3>3. CASE n # m
      <4>1. alt'[n] = alt[n] /\ daten'[n] = daten[n] /\ eingang'[n] = eingang[n]
        BY <1>1, <3>1, <3>3 DEF Einsetzen, IInv, Typ
      <4>2. QED
        BY <1>1, <3>1, <4>1 DEF Einsetzen, Da
    <3>4. QED
      BY <3>2, <3>3
  <2>3. QED
    BY <1>1, <2>1, <2>2 DEF IInv, Einsetzen, umzug
<1>2. CASE EinsetzenWirft(m)
  BY <1>2 DEF EinsetzenWirft, IInv, Typ, SchleifeTyp, Da, umzug
<1>3. QED
  BY <1>1, <1>2

\* The later loops and the stores do not touch an entry of the package that is
\* in place.
LEMMA DanachSchritt ==
  ASSUME IInv, NEW m \in Name,
         Zurueckholen(m) \/ Datenbank(m) \/ DatenbankScheitert(m) \/ StoreLegtAn(m)
  PROVE  IInv'
<1>1. /\ \E x \in Inhalt : daten' = [daten EXCEPT ![m] = x]
      /\ daten'[m] # daten[m] => daten[m] = "nichts" \/ m \notin paket
      /\ offen' \subseteq offen
      /\ pc # "beiseite" /\ pc # "einsetzen"
      /\ UNCHANGED <<pc, alt, eingang, marke, anlauf, paket, datenbanken>>
  <2>1. CASE Zurueckholen(m)
    BY <2>1 DEF Zurueckholen, IInv, Typ, Inhalt, umzug
  <2>2. CASE Datenbank(m)
    BY <2>2 DEF Datenbank, IInv, Typ, SchleifeTyp, Inhalt, umzug
  <2>3. CASE DatenbankScheitert(m)
    <3>1. \E x \in Inhalt : daten' = [daten EXCEPT ![m] = x]
      BY <2>3 DEF DatenbankScheitert, IInv, Typ, Inhalt
    <3>2. QED
      BY <2>3, <3>1 DEF DatenbankScheitert, IInv, Typ, SchleifeTyp, umzug
  <2>4. CASE StoreLegtAn(m)
    BY <2>4 DEF StoreLegtAn, IInv, Typ, Inhalt, umzug
  <2>5. QED
    BY <2>1, <2>2, <2>3, <2>4
<1>2. Typ'
  <2>1. daten' \in [Name -> Inhalt]
    BY <1>1 DEF IInv, Typ
  <2>2. SchleifeTyp'
    BY <1>1 DEF IInv, Typ, SchleifeTyp
  <2>3. offen' \subseteq Name
    BY <1>1 DEF IInv, Typ
  <2>4. QED
    BY <1>1, <2>1, <2>2, <2>3 DEF IInv, Typ
<1>3. ASSUME NEW n \in paket
      PROVE  Da(n)'
  <2>1. n \in Name /\ Da(n)
    BY DEF IInv, Typ
  <2>2. daten[n] = "paket" => daten'[n] = "paket"
    BY <1>1, <2>1 DEF IInv, Typ
  <2>3. QED
    BY <1>1, <2>1, <2>2 DEF Da
<1>4. QED
  BY <1>1, <1>2, <1>3 DEF IInv

LEMMA SchleifenSchritt ==
  ASSUME IInv, NaechsteSchleife
  PROVE  IInv'
<1>1. UNCHANGED <<daten, alt, eingang, marke, anlauf, paket, datenbanken>>
  BY DEF NaechsteSchleife, umzug
<1>2. offen' \subseteq Name /\ SchleifeTyp'
  <2>1. CASE pc = "beiseite" /\ pc' = "einsetzen" /\ offen' = Belegt(eingang)
    <3>1. \A n \in offen' : n \in Name /\ eingang[n] = "paket"
      BY <2>1 DEF Belegt, IInv, Typ
    <3>2. QED
      BY <1>1, <2>1, <3>1 DEF SchleifeTyp
  <2>2. CASE pc = "einsetzen" /\ pc' = "zurueck" /\ offen' = {n \in Gebunden : bindung[n] = "alt"}
    BY <2>2, GebundenAssumption DEF SchleifeTyp
  <2>3. CASE pc = "zurueck" /\ pc' = "datenbank" /\ offen' = datenbanken
    BY <1>1, <2>3 DEF SchleifeTyp, IInv, Typ
  <2>4. CASE pc = "datenbank" /\ pc' = "aufraeumen" /\ offen' = {}
    BY <2>4 DEF SchleifeTyp
  <2>5. QED
    BY <2>1, <2>2, <2>3, <2>4 DEF NaechsteSchleife
<1>3. Typ'
  BY <1>1, <1>2 DEF NaechsteSchleife, IInv, Typ
<1>4. QED
  BY <1>1, <1>3 DEF NaechsteSchleife, IInv, Da

LEMMA SchlussSchritt ==
  ASSUME IInv, Aufraeumen \/ Fertig \/ Fehler \/ Absturz \/ Beenden
  PROVE  IInv'
<1>1. /\ UNCHANGED <<daten, alt, eingang, anlauf, paket, datenbanken>>
      /\ pc' \in {"aus", "laeuft", "letzter", "aufraeumen"}
      /\ offen' \in {offen, {}}
      /\ marke' = marke \/ marke' = "fehlt"
  BY DEF Aufraeumen, Fertig, Fehler, Absturz, Beenden, umzug
<1>2. Typ'
  BY <1>1 DEF IInv, Typ, SchleifeTyp
<1>3. QED
  BY <1>1, <1>2 DEF IInv, Da

LEMMA IInvNext == IInv /\ [Next]_vars => IInv'
<1> SUFFICES ASSUME IInv, [Next]_vars PROVE IInv'
  OBVIOUS
<1>1. CASE StartOhne \/ StartKaputt \/ StartEinspielen
  BY <1>1, StartSchritt
<1>2. ASSUME NEW n \in Name, Beiseite(n) \/ BeiseiteScheitert(n) \/ Einsetzen(n) \/ EinsetzenWirft(n)
      PROVE  IInv'
  BY <1>2, BeiseiteSchritt, EinsetzenSchritt
<1>3. ASSUME NEW n \in Name, Zurueckholen(n) \/ Datenbank(n) \/ DatenbankScheitert(n) \/ StoreLegtAn(n)
      PROVE  IInv'
  BY <1>3, DanachSchritt
<1>4. CASE NaechsteSchleife
  BY <1>4, SchleifenSchritt
<1>5. CASE Aufraeumen \/ Fertig \/ Fehler \/ Absturz \/ Beenden
  BY <1>5, SchlussSchritt
<1>6. CASE UNCHANGED vars
  BY <1>6 DEF vars, umzug, IInv, Typ, SchleifeTyp, Da
<1>7. QED
  BY <1>1, <1>2, <1>3, <1>4, <1>5, <1>6 DEF Next

\* Whatever kills or breaks the first two attempts to apply a move, and however
\* often, no entry of its package is gone from the target.
THEOREM PaketImmerDa == Spec => []PaketNichtVerloren
<1>1. IInv => PaketNichtVerloren
  BY DEF IInv, Da, PaketNichtVerloren
<1>2. QED
  BY <1>1, IInvInit, IInvNext, PTL DEF Spec

-----------------------------------------------------------------------------
(* The types. *)

LEMMA TypeInvInit == Init => TypeInv
<1> SUFFICES ASSUME Init PROVE TypeInv
  OBVIOUS
<1>1. /\ daten \in [Name -> Inhalt] /\ alt \in [Name -> Inhalt]
      /\ eingang \in [Name -> {"nichts", "paket"}]
      /\ bindung \in [Gebunden -> {"daten", "alt", "fehlt", "weg"}]
  BY DEF Init, Inhalt
<1>2. offen \subseteq Name /\ dumps \subseteq datenbanken /\ fertig \in BOOLEAN /\ manifest \in BOOLEAN
  BY DEF Init
<1>3. vorher \subseteq Name /\ paket \subseteq Name /\ datenbanken \subseteq Name
  BY DEF Init
<1>4. /\ pc \in Phase /\ marke \in {"da", "kaputt", "fehlt"}
      /\ anlauf \in 0..3 /\ stoerungen \in 0..MaxStoerungen
  BY StoerungenAssumption DEF Init, Phase
<1>5. QED
  BY <1>1, <1>2, <1>3, <1>4 DEF TypeInv

LEMMA TypeInvNext == TypeInv /\ [Next]_vars => TypeInv'
<1> SUFFICES ASSUME TypeInv, [Next]_vars PROVE TypeInv'
  OBVIOUS
<1> USE StoerungenAssumption DEF TypeInv
<1>1. CASE StartOhne \/ StartKaputt
  BY <1>1 DEF StartOhne, StartKaputt, Phase, umzug
<1>2. CASE StartEinspielen
  <2>1. alt' \in [Name -> Inhalt] /\ offen' \subseteq Name
    BY <1>2 DEF StartEinspielen, AltGeleert, Belegt, Inhalt
  <2>2. bindung' \in [Gebunden -> {"daten", "alt", "fehlt", "weg"}]
    BY <1>2 DEF StartEinspielen
  <2>3. anlauf' \in 0..3
    BY <1>2 DEF StartEinspielen
  <2>4. QED
    BY <1>2, <2>1, <2>2, <2>3 DEF StartEinspielen, Phase, umzug
<1>3. ASSUME NEW n \in Name, Beiseite(n) \/ BeiseiteScheitert(n)
      PROVE  TypeInv'
  <2>1. bindung' \in [Gebunden -> {"daten", "alt", "fehlt", "weg"}]
    BY <1>3 DEF Beiseite, BeiseiteScheitert, Mit
  <2>2. daten' \in [Name -> Inhalt] /\ alt' \in [Name -> Inhalt]
    BY <1>3 DEF Beiseite, BeiseiteScheitert, Inhalt
  <2>3. QED
    BY <1>3, <2>1, <2>2 DEF Beiseite, BeiseiteScheitert, umzug
<1>4. ASSUME NEW n \in Name, Einsetzen(n) \/ EinsetzenWirft(n)
      PROVE  TypeInv'
  BY <1>4 DEF Einsetzen, EinsetzenWirft, Phase, Inhalt, umzug
<1>5. ASSUME NEW n \in Name, Zurueckholen(n) \/ Datenbank(n) \/ DatenbankScheitert(n) \/ StoreLegtAn(n)
      PROVE  TypeInv'
  <2>1. daten' \in [Name -> Inhalt]
    BY <1>5 DEF Zurueckholen, Datenbank, DatenbankScheitert, StoreLegtAn, Inhalt
  <2>2. bindung' \in [Gebunden -> {"daten", "alt", "fehlt", "weg"}]
    BY <1>5 DEF Zurueckholen, Datenbank, DatenbankScheitert, StoreLegtAn
  <2>3. QED
    BY <1>5, <2>1, <2>2 DEF Zurueckholen, Datenbank, DatenbankScheitert, StoreLegtAn, umzug
<1>6. CASE NaechsteSchleife
  BY <1>6, GebundenAssumption DEF NaechsteSchleife, Belegt, Phase, umzug
<1>7. CASE Aufraeumen \/ Fertig
  BY <1>7 DEF Aufraeumen, Fertig, Phase, umzug
<1>8. CASE Fehler \/ Absturz \/ Beenden
  BY <1>8 DEF Fehler, Absturz, Beenden, Phase, umzug
<1>9. CASE UNCHANGED vars
  BY <1>9 DEF vars, umzug
<1>10. QED
  BY <1>1, <1>2, <1>3, <1>4, <1>5, <1>6, <1>7, <1>8, <1>9 DEF Next

\* Every place of an entry, a dump or a bound file is one that the code knows.
THEOREM TypeInvImmer == Spec => []TypeInv
  BY TypeInvInit, TypeInvNext, PTL DEF Spec
-----------------------------------------------------------------------------
(* What holds while nothing is killed and no step fails.                    *)

Schleifen == {"beiseite", "einsetzen", "zurueck", "datenbank"}

\* Before the package is touched, and for ever if bereit.json is no JSON.
VorDemAnlauf ==
    /\ pc \in {"aus", "laeuft"} /\ ~fertig
    /\ \A n \in vorher : daten[n] = "vorher"
    /\ \A n \in Gebunden : bindung[n] \in {"daten", "fehlt"}
    /\ marke # "fehlt" => pc = "aus" /\ manifest
    /\ marke = "da" => dumps = datenbanken /\ \A n \in paket : eingang[n] = "paket"

BeimBeiseite ==
    /\ \A n \in offen \cap vorher : daten[n] = "vorher"
    /\ \A n \in Name \ offen : daten[n] = "nichts" /\ (n \in vorher => alt[n] = "vorher")
    /\ \A n \in paket : eingang[n] = "paket"

AltGanz == \A n \in vorher : alt[n] = "vorher"

\* Nothing is in the way of what has still to be put in place.
BeimEinsetzen ==
    /\ \A n \in offen : daten[n] = "nichts"
    /\ \A n \in paket : n \in offen \/ daten[n] = "paket"

PaketDa == \A n \in paket : daten[n] = "paket"

BeimZurueck == PaketDa /\ \A n \in Gebunden : bindung[n] = "alt" => n \in offen

NichtsGebunden == \A n \in Gebunden : bindung[n] # "alt"

BeiDatenbank ==
    PaketDa /\ NichtsGebunden /\ \A n \in datenbanken : n \in offen \/ daten[n] = "paket"

Danach ==
    /\ PaketDa /\ NichtsGebunden /\ \A n \in datenbanken : daten[n] = "paket"
    /\ pc # "aufraeumen" => marke = "fehlt"

\* One attempt, loop by loop: what a loop leaves to the next.
InEinemZug ==
    /\ pc \in Schleifen => ~fertig /\ dumps = datenbanken
    /\ pc = "beiseite"   => BeimBeiseite
    /\ pc # "beiseite"   => AltGanz
    /\ pc = "einsetzen"  => BeimEinsetzen
    /\ pc = "zurueck"    => BeimZurueck
    /\ pc = "datenbank"  => BeiDatenbank
    /\ pc \notin Schleifen => Danach

Ungestoert ==
    /\ \A n \in Gebunden : bindung[n] # "weg"
    /\ \/ anlauf = 0 /\ VorDemAnlauf
       \/ anlauf = 1 /\ InEinemZug

UInv == stoerungen = 0 => Ungestoert

LEMMA UInvInit == Init => UInv
<1> SUFFICES ASSUME Init PROVE Ungestoert
  BY DEF UInv
<1>1. /\ \A n \in Gebunden : bindung[n] \in {"daten", "fehlt"}
      /\ \A n \in vorher : daten[n] = "vorher"
      /\ \A n \in paket : eingang[n] = "paket"
  BY DEF Init
<1>2. VorDemAnlauf /\ anlauf = 0
  BY <1>1 DEF Init, VorDemAnlauf
<1>3. QED
  BY <1>1, <1>2 DEF Ungestoert

LEMMA UStart ==
  ASSUME TypeInv, Ungestoert, StartOhne \/ StartKaputt \/ StartEinspielen
  PROVE  Ungestoert'
<1>1. CASE StartOhne
  <2>1. UNCHANGED <<offen, daten, alt, eingang, dumps, marke, manifest, bindung, fertig, anlauf, umzug>>
    BY <1>1 DEF StartOhne
  <2>2. CASE anlauf = 0 /\ VorDemAnlauf
    <3>1. VorDemAnlauf'
      BY <1>1, <2>1, <2>2 DEF StartOhne, VorDemAnlauf, umzug
    <3>2. QED
      BY <2>1, <2>2, <3>1 DEF Ungestoert
  <2>3. CASE anlauf = 1 /\ InEinemZug
    <3>1. Danach /\ AltGanz /\ pc' = "laeuft"
      BY <1>1, <2>3 DEF StartOhne, InEinemZug, Schleifen
    <3>2. marke = "fehlt"
      BY <1>1, <3>1 DEF StartOhne, Danach
    <3>3. Danach' /\ AltGanz'
      BY <2>1, <3>1, <3>2 DEF Danach, AltGanz, PaketDa, NichtsGebunden, umzug
    <3>4. InEinemZug'
      BY <3>1, <3>3 DEF InEinemZug, Schleifen
    <3>5. QED
      BY <2>1, <2>3, <3>4 DEF Ungestoert
  <2>4. QED
    BY <2>2, <2>3 DEF Ungestoert
<1>2. CASE StartKaputt
  <2>1. anlauf = 0 /\ VorDemAnlauf
    BY <1>2 DEF StartKaputt, Ungestoert, InEinemZug, Danach, Schleifen
  <2>2. VorDemAnlauf'
    BY <1>2, <2>1 DEF StartKaputt, VorDemAnlauf, umzug
  <2>3. QED
    BY <1>2, <2>1, <2>2 DEF StartKaputt, Ungestoert
<1>3. CASE StartEinspielen
  <2>1. anlauf = 0 /\ VorDemAnlauf
    BY <1>3 DEF StartEinspielen, Ungestoert, InEinemZug, Danach, Schleifen
  <2>2. \A n \in Gebunden : bindung'[n] # "weg"
    BY <1>3, <2>1 DEF StartEinspielen, VorDemAnlauf
  <2>3. \A n \in Name \ offen' : daten[n] = "nichts" /\ n \notin vorher
    BY <1>3, <2>1 DEF StartEinspielen, VorDemAnlauf, Belegt
  <2>4. BeimBeiseite'
    BY <1>3, <2>1, <2>3 DEF StartEinspielen, VorDemAnlauf, BeimBeiseite, umzug
  <2>5. InEinemZug' /\ anlauf' = 1
    BY <1>3, <2>1, <2>4 DEF StartEinspielen, VorDemAnlauf, InEinemZug, Schleifen, umzug
  <2>6. QED
    BY <2>2, <2>5 DEF Ungestoert
<1>4. QED
  BY <1>1, <1>2, <1>3

\* While a loop runs it is the first attempt.
LEMMA ImZug ==
  ASSUME Ungestoert, pc \notin {"aus", "laeuft"}
  PROVE  anlauf = 1 /\ InEinemZug
  BY DEF Ungestoert, VorDemAnlauf

LEMMA UBeiseite ==
  ASSUME TypeInv, Ungestoert, NEW m \in Name, Beiseite(m)
  PROVE  Ungestoert'
<1>1. anlauf = 1 /\ InEinemZug /\ BeimBeiseite /\ pc' = "beiseite"
  BY ImZug DEF Beiseite, InEinemZug
<1>2. \A n \in Gebunden : bindung'[n] # "weg"
  BY DEF Beiseite, Mit, Ungestoert, TypeInv
<1>3. BeimBeiseite'
  <2>1. \A n \in Name : IF n = m THEN daten'[n] = "nichts" /\ alt'[n] = daten[n]
                                 ELSE daten'[n] = daten[n] /\ alt'[n] = alt[n]
    BY DEF Beiseite, TypeInv
  <2>2. UNCHANGED <<eingang, vorher, paket>> /\ offen' = offen \ {m} /\ m \in offen
    BY DEF Beiseite, umzug
  <2>3. vorher \subseteq Name
    BY DEF TypeInv
  <2>4. QED
    BY <1>1, <2>1, <2>2, <2>3 DEF BeimBeiseite
<1>4. InEinemZug'
  BY <1>1, <1>3 DEF InEinemZug, Schleifen, Beiseite, umzug
<1>5. QED
  BY <1>1, <1>2, <1>4 DEF Ungestoert, Beiseite

LEMMA UEinsetzen ==
  ASSUME TypeInv, IInv, Ungestoert, NEW m \in Name, Einsetzen(m) \/ EinsetzenWirft(m)
  PROVE  Ungestoert'
<1>1. anlauf = 1 /\ InEinemZug /\ BeimEinsetzen /\ AltGanz /\ pc = "einsetzen"
  BY ImZug DEF Einsetzen, EinsetzenWirft, InEinemZug
<1>2. Einsetzen(m)
  BY <1>1 DEF EinsetzenWirft, BeimEinsetzen
<1>3. BeimEinsetzen'
  <2>1. \A n \in Name : daten'[n] = IF n = m THEN "paket" ELSE daten[n]
    BY <1>2 DEF Einsetzen, TypeInv, IInv, Typ, SchleifeTyp
  <2>2. UNCHANGED paket /\ offen' = offen \ {m} /\ paket \subseteq Name /\ offen \subseteq Name
    BY <1>2 DEF Einsetzen, umzug, TypeInv
  <2>3. QED
    BY <1>1, <2>1, <2>2 DEF BeimEinsetzen
<1>4. AltGanz'
  BY <1>1, <1>2 DEF AltGanz, Einsetzen, umzug
<1>5. InEinemZug'
  BY <1>1, <1>2, <1>3, <1>4 DEF InEinemZug, Schleifen, Einsetzen, umzug
<1>6. QED
  BY <1>1, <1>2, <1>5 DEF Ungestoert, Einsetzen

\* The later loops and the stores leave an entry of the package as it is.
LEMMA UDanach ==
  ASSUME TypeInv, IInv, Ungestoert, NEW m \in Name, Zurueckholen(m) \/ Datenbank(m) \/ StoreLegtAn(m)
  PROVE  Ungestoert'
<1>1. CASE Zurueckholen(m)
  <2>1. anlauf = 1 /\ InEinemZug /\ BeimZurueck /\ AltGanz /\ pc' = "zurueck"
    BY <1>1, ImZug DEF Zurueckholen, InEinemZug
  <2>2. \A n \in Gebunden : bindung'[n] = IF n = m THEN "daten" ELSE bindung[n]
    BY <1>1 DEF Zurueckholen, TypeInv
  <2>3. PaketDa'
    <3>1. paket \subseteq Name /\ paket' = paket
      BY <1>1 DEF TypeInv, Zurueckholen, umzug
    <3>2. QED
      BY <1>1, <2>1, <3>1 DEF Zurueckholen, BeimZurueck, PaketDa, TypeInv
  <2>4. BeimZurueck' /\ AltGanz'
    BY <1>1, <2>1, <2>2, <2>3 DEF Zurueckholen, BeimZurueck, AltGanz, umzug
  <2>5. InEinemZug'
    BY <1>1, <2>1, <2>4 DEF InEinemZug, Schleifen, Zurueckholen, umzug
  <2>6. QED
    BY <1>1, <2>1, <2>2, <2>5 DEF Ungestoert, Zurueckholen
<1>2. CASE Datenbank(m)
  <2>1. anlauf = 1 /\ InEinemZug /\ BeiDatenbank /\ AltGanz /\ pc' = "datenbank" /\ dumps = datenbanken
    BY <1>2, ImZug DEF Datenbank, InEinemZug, Schleifen
  <2>2. m \in datenbanken /\ m \notin paket
    BY <1>2 DEF Datenbank, IInv, Typ, SchleifeTyp
  <2>3. \A n \in Name : daten'[n] = IF n = m THEN "paket" ELSE daten[n]
    BY <1>2, <2>1, <2>2 DEF Datenbank, TypeInv
  <2>4. UNCHANGED <<alt, bindung, paket, datenbanken, vorher>> /\ offen' = offen \ {m}
    BY <1>2 DEF Datenbank, umzug
  <2>5. paket \subseteq Name /\ datenbanken \subseteq Name
    BY DEF TypeInv
  <2>6. BeiDatenbank' /\ AltGanz'
    BY <2>1, <2>2, <2>3, <2>4, <2>5 DEF BeiDatenbank, PaketDa, NichtsGebunden, AltGanz
  <2>7. InEinemZug'
    BY <1>2, <2>1, <2>6 DEF InEinemZug, Schleifen, Datenbank, umzug
  <2>8. QED
    BY <1>2, <2>1, <2>7 DEF Ungestoert, Datenbank
<1>3. CASE StoreLegtAn(m)
  <2>1. \A n \in Name : daten[n] # "nichts" => daten'[n] = daten[n]
    BY <1>3 DEF StoreLegtAn, TypeInv
  <2>2. /\ UNCHANGED <<pc, alt, bindung, fertig, manifest, marke, eingang, dumps, anlauf, vorher, paket, datenbanken>>
        /\ pc = "laeuft"
    BY <1>3 DEF StoreLegtAn, umzug
  <2>3. paket \subseteq Name /\ datenbanken \subseteq Name /\ vorher \subseteq Name
    BY DEF TypeInv
  <2>4. CASE anlauf = 0 /\ VorDemAnlauf
    <3>1. VorDemAnlauf'
      BY <2>1, <2>2, <2>3, <2>4 DEF VorDemAnlauf
    <3>2. QED
      BY <2>2, <2>4, <3>1 DEF Ungestoert
  <2>5. CASE anlauf = 1 /\ InEinemZug
    <3>1. Danach' /\ AltGanz'
      BY <2>1, <2>2, <2>3, <2>5 DEF InEinemZug, Danach, AltGanz, PaketDa, NichtsGebunden, Schleifen
    <3>2. InEinemZug'
      BY <2>2, <3>1 DEF InEinemZug, Schleifen
    <3>3. QED
      BY <2>2, <2>5, <3>2 DEF Ungestoert
  <2>6. QED
    BY <2>4, <2>5 DEF Ungestoert
<1>4. QED
  BY <1>1, <1>2, <1>3

LEMMA USchleife ==
  ASSUME TypeInv, Ungestoert, NaechsteSchleife
  PROVE  Ungestoert'
<1>1. anlauf = 1 /\ InEinemZug /\ offen = {}
  BY ImZug DEF NaechsteSchleife
<1>2. UNCHANGED <<daten, alt, eingang, dumps, marke, bindung, fertig, anlauf, vorher, paket, datenbanken>>
  BY DEF NaechsteSchleife, umzug
<1>3. vorher \subseteq Name /\ paket \subseteq Name
  BY DEF TypeInv
<1>4. InEinemZug'
  <2>1. CASE pc = "beiseite" /\ pc' = "einsetzen" /\ offen' = Belegt(eingang)
    <3>1. BeimBeiseite
      BY <1>1, <2>1 DEF InEinemZug
    <3>2. AltGanz' /\ BeimEinsetzen'
      BY <1>1, <1>2, <1>3, <2>1, <3>1 DEF BeimBeiseite, AltGanz, BeimEinsetzen, Belegt
    <3>3. QED
      BY <1>1, <1>2, <2>1, <3>2 DEF InEinemZug, Schleifen
  <2>2. CASE pc = "einsetzen" /\ pc' = "zurueck" /\ offen' = {n \in Gebunden : bindung[n] = "alt"}
    <3>1. AltGanz' /\ BeimZurueck'
      BY <1>1, <1>2, <2>2 DEF InEinemZug, AltGanz, BeimEinsetzen, BeimZurueck, PaketDa
    <3>2. QED
      BY <1>1, <1>2, <2>2, <3>1 DEF InEinemZug, Schleifen
  <2>3. CASE pc = "zurueck" /\ pc' = "datenbank" /\ offen' = datenbanken
    <3>1. AltGanz' /\ BeiDatenbank'
      BY <1>1, <1>2, <2>3 DEF InEinemZug, AltGanz, BeimZurueck, BeiDatenbank, PaketDa, NichtsGebunden
    <3>2. QED
      BY <1>1, <1>2, <2>3, <3>1 DEF InEinemZug, Schleifen
  <2>4. CASE pc = "datenbank" /\ pc' = "aufraeumen" /\ offen' = {}
    <3>1. AltGanz' /\ Danach'
      BY <1>1, <1>2, <2>4 DEF InEinemZug, AltGanz, BeiDatenbank, Danach, PaketDa, NichtsGebunden
    <3>2. QED
      BY <2>4, <3>1 DEF InEinemZug, Schleifen
  <2>5. QED
    BY <2>1, <2>2, <2>3, <2>4 DEF NaechsteSchleife
<1>5. QED
  BY <1>1, <1>2, <1>4 DEF Ungestoert

LEMMA USchluss ==
  ASSUME TypeInv, Ungestoert, Aufraeumen \/ Fertig
  PROVE  Ungestoert'
<1>1. anlauf = 1 /\ InEinemZug /\ pc \notin Schleifen
  BY ImZug DEF Aufraeumen, Fertig, Schleifen
<1>2. Danach /\ AltGanz
  BY <1>1 DEF InEinemZug, Schleifen
<1>3. UNCHANGED <<daten, alt, bindung, anlauf, vorher, paket, datenbanken>>
  BY DEF Aufraeumen, Fertig, umzug
<1>4. pc' \notin Schleifen /\ (pc' # "aufraeumen" => marke' = "fehlt")
  BY <1>2 DEF Aufraeumen, Fertig, Danach, Schleifen
<1>5. Danach' /\ AltGanz'
  BY <1>2, <1>3, <1>4 DEF Danach, AltGanz, PaketDa, NichtsGebunden
<1>6. QED
  BY <1>1, <1>3, <1>4, <1>5 DEF Ungestoert, InEinemZug, Schleifen

LEMMA UBeenden ==
  ASSUME TypeInv, Ungestoert, Beenden
  PROVE  Ungestoert'
<1>1. UNCHANGED <<offen, daten, alt, eingang, dumps, marke, manifest, bindung, fertig, anlauf, vorher, paket, datenbanken>>
  BY DEF Beenden, umzug
<1>2. pc = "laeuft" /\ pc' = "aus"
  BY DEF Beenden
<1>3. CASE anlauf = 0 /\ VorDemAnlauf
  <2>1. VorDemAnlauf'
    BY <1>1, <1>2, <1>3 DEF VorDemAnlauf
  <2>2. QED
    BY <1>1, <1>3, <2>1 DEF Ungestoert
<1>4. CASE anlauf = 1 /\ InEinemZug
  <2>1. Danach' /\ AltGanz'
    BY <1>1, <1>2, <1>4 DEF InEinemZug, Schleifen, Danach, AltGanz, PaketDa, NichtsGebunden
  <2>2. InEinemZug'
    BY <1>2, <2>1 DEF InEinemZug, Schleifen
  <2>3. QED
    BY <1>1, <1>4, <2>2 DEF Ungestoert
<1>5. QED
  BY <1>3, <1>4 DEF Ungestoert

LEMMA UInvNext == TypeInv /\ IInv /\ UInv /\ [Next]_vars => UInv'
<1> SUFFICES ASSUME TypeInv, IInv, UInv, [Next]_vars, stoerungen' = 0 PROVE Ungestoert'
  BY DEF UInv
<1>1. stoerungen \in Nat
  BY StoerungenAssumption DEF TypeInv
<1>2. /\ ~Fehler /\ ~Absturz
      /\ \A n \in Name : ~BeiseiteScheitert(n) /\ ~DatenbankScheitert(n)
  BY <1>1 DEF Fehler, Absturz, BeiseiteScheitert, DatenbankScheitert
<1>3. CASE UNCHANGED vars
  <2>1. Ungestoert
    BY <1>3 DEF vars, UInv
  <2>2. QED
    BY <1>3, <2>1 DEF vars, umzug, Ungestoert, VorDemAnlauf, InEinemZug, BeimBeiseite, AltGanz, BeimEinsetzen,
                      BeimZurueck, BeiDatenbank, Danach, PaketDa, NichtsGebunden
<1>4. CASE StartOhne \/ StartKaputt \/ StartEinspielen
  <2>1. Ungestoert
    BY <1>4 DEF StartOhne, StartKaputt, StartEinspielen, UInv
  <2>2. QED
    BY <1>4, <2>1, UStart
<1>5. ASSUME NEW n \in Name,
             \/ Beiseite(n) \/ Einsetzen(n) \/ EinsetzenWirft(n)
             \/ Zurueckholen(n) \/ Datenbank(n) \/ StoreLegtAn(n)
      PROVE  Ungestoert'
  <2>1. Ungestoert
    BY <1>5 DEF Beiseite, Einsetzen, EinsetzenWirft, Zurueckholen, Datenbank, StoreLegtAn, UInv
  <2>2. QED
    BY <1>5, <2>1, UBeiseite, UEinsetzen, UDanach
<1>6. CASE NaechsteSchleife \/ Aufraeumen \/ Fertig \/ Beenden
  <2>1. Ungestoert
    BY <1>6 DEF NaechsteSchleife, Aufraeumen, Fertig, Beenden, UInv
  <2>2. QED
    BY <1>6, <2>1, USchleife, USchluss, UBeenden
<1>7. QED
  BY <1>2, <1>3, <1>4, <1>5, <1>6, Zenon DEF Next

\* As long as nothing is killed and no step fails, every step of a move keeps the
\* former state and what is bound to the instance; when it is done, the package
\* is in place, databases included: no rename of the code itself meets an entry
\* that is in its way.
THEOREM UngestoertImmerGanz == Spec => []UngestoertGanz
<1>1. TypeInv /\ UInv => UngestoertGanz
  <2> SUFFICES ASSUME TypeInv, Ungestoert
               PROVE  /\ AlterStandBleibt /\ GebundenBleibt /\ FertigIstVollstaendig
                      /\ fertig => \A n \in datenbanken : daten[n] = "paket"
    BY DEF UInv, UngestoertGanz
  <2>1. CASE anlauf = 0 /\ VorDemAnlauf
    BY <2>1 DEF VorDemAnlauf, AlterStandBleibt, GebundenBleibt, FertigIstVollstaendig
  <2>2. CASE anlauf = 1 /\ InEinemZug
    <3>1. AlterStandBleibt
      BY <2>2 DEF InEinemZug, BeimBeiseite, AltGanz, AlterStandBleibt, TypeInv
    <3>2. fertig => Danach
      BY <2>2 DEF InEinemZug
    <3>3. QED
      BY <3>1, <3>2 DEF Ungestoert, GebundenBleibt, FertigIstVollstaendig, Danach, PaketDa, NichtsGebunden
  <2>3. QED
    BY <2>1, <2>2 DEF Ungestoert
<1>2. QED
  BY <1>1, TypeInvInit, TypeInvNext, IInvInit, IInvNext, UInvInit, UInvNext, PTL DEF Spec
=============================================================================
