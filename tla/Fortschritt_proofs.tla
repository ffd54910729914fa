--------------------------- MODULE Fortschritt_proofs ---------------------------
(***************************************************************************)
(* Proofs about Fortschritt, for any number of events, persist events,     *)
(* retries, restarts and attempts.  EndstandStimmt speaks of the end of a  *)
(* run's messages; the inductive invariant says at every moment where the  *)
(* end of an undisturbed run is: in the row, in an event on its way, or in *)
(* a persist event.                                                        *)
(***************************************************************************)
EXTENDS Fortschritt, TLAPS

\* What a persist event makes of the row in the end.
Bleibt(i) == IF i = "ergebnis" THEN "completed" ELSE "failed"

\* An event of which the row can learn the end.
SagtEnde(e) == e \notin {"keins", "in_progress"}

EndeUnterwegs == \E m \in Sendung : SagtEnde(unterwegs[m])
EndeImPersist == \E p \in Platz : persist[p] # Kein /\ persist[p].inhalt # "zwischen"

\* A run nobody has interfered with is asked for, under way, or has come to its end.
LaufInv ==
    /\ \A a \in Anfrage : anfrage[a] = "frei"
    /\ auftrag => lauf = "keiner"
    /\ bilanz = "offen" <=> auftrag \/ lauf # "keiner"

\* Its messages say how it has ended, and nothing else.
BotenInv ==
    /\ \A m \in Sendung : SagtEnde(unterwegs[m]) => Zustand(unterwegs[m]) = bilanz
    /\ \A p \in Platz : persist[p] # Kein =>
          IF persist[p].inhalt = "zwischen" THEN persist[p].befund = "wartet"
          ELSE /\ Bleibt(persist[p].inhalt) = bilanz
               /\ persist[p].befund \in {"wartet"} \cup Danach(persist[p].inhalt)

\* Where its end is.
EndeInv ==
    \/ state = bilanz
    \/ ~Ende(state) /\ (bilanz = "offen" \/ EndeUnterwegs \/ EndeImPersist)

Ungestoert == bilanz # "egal" => LaufInv /\ BotenInv /\ EndeInv

IInv == TypeInv /\ Ungestoert

-----------------------------------------------------------------------------
(* Types. *)

LEMMA HoechstensTyp == \A n \in Nat : Hoechstens(n) \in 0..GRENZE_ANFRAGE
  BY GrenzenAssumption DEF Hoechstens

LEMMA ZustandTyp == \A e \in Ereignis \cup (Befund \ {"wartet"}) : Zustand(e) \in State /\ Zustand(e) # "fehlt"
  BY DEF Ereignis, Befund, Zustand, State, Endzustand

\* What a handler leaves in its place has its type.
LEMMA LegtTyp ==
    ASSUME persist \in [Platz -> Persist], NEW p \in Platz, NEW i \in Inhalt, NEW b \in Befund \cup {"kein"},
           Legt(p, i, b)
    PROVE  persist' \in [Platz -> Persist]
  <1>1. CASE b = "kein"  BY <1>1 DEF Legt, Persist
  <1>2. CASE b # "kein"
    <2>1. [inhalt |-> i, befund |-> b] \in Persist  BY <1>2 DEF Persist
    <2> QED  BY <1>2, <2>1 DEF Legt
  <1> QED  BY <1>1, <1>2

LEMMA DanachTyp == \A i \in Inhalt : Danach(i) \subseteq Befund \cup {"kein"}
  BY DEF Inhalt, Danach, Befund

\* A persist event that waits has a content.
LEMMA WartetTyp ==
    ASSUME TypeInv, NEW p \in Platz, persist[p].befund # "kein"
    PROVE  persist[p].inhalt \in Inhalt /\ persist[p].befund \in Befund /\ persist[p] # Kein
  BY DEF TypeInv, Persist, Kein

\* The persist bus's write keeps the types of the row.
LEMMA VerbuchtTyp ==
    ASSUME TypeInv, NEW e \in {"completed", "skipped", "failed", "failedDauer"}, Verbucht(e)
    PROVE  /\ state' = Zustand(e) /\ state' \in State /\ versuche' \in 0..GRENZE_ANFRAGE
           /\ naechster' \in {"null", "spaeter", "reif"} /\ aufgegeben' \in BOOLEAN /\ stumm' \in BOOLEAN
  <1>1. stumm' \in BOOLEAN  BY DEF Verbucht, Jetzt
  <1>2. state' = Zustand(e) /\ state' \in State  BY DEF Verbucht, Zustand, State, Endzustand
  <1>3. versuche + 1 \in Nat /\ 0 \in 0..GRENZE_ANFRAGE  BY GrenzenAssumption DEF TypeInv
  <1>4. versuche' \in 0..GRENZE_ANFRAGE  BY <1>3, HoechstensTyp DEF Verbucht
  <1>5. naechster' \in {"null", "spaeter", "reif"}  BY DEF Verbucht
  <1>6. aufgegeben' \in BOOLEAN
    <2>1. CASE Zustand(e) = "failed"
      <3>1. PICK alt24 \in BOOLEAN : aufgegeben' = (e = "failedDauer" \/ aufgegeben \/ (versuche + 1 >= GRENZE /\ alt24))
            BY <2>1 DEF Verbucht
      <3> DEFINE gross == versuche + 1 >= GRENZE
      <3>2. aufgegeben' = (e = "failedDauer" \/ aufgegeben \/ (gross /\ alt24))  BY <3>1
      <3> HIDE DEF gross
      <3> QED  BY <3>2, Zenon
    <2>2. CASE Zustand(e) # "failed"  BY <2>2 DEF Verbucht
    <2> QED  BY <2>1, <2>2
  <1> QED  BY <1>1, <1>2, <1>4, <1>5, <1>6

LEMMA TypAnfang == Init => TypeInv
  <1>1. Kein \in Persist  BY DEF Persist
  <1>2. 0 \in 0..GRENZE_ANFRAGE /\ 0 \in 0..MaxHand /\ 0 \in 0..MaxStoerungen  BY GrenzenAssumption
  <1> SUFFICES ASSUME Init PROVE TypeInv  OBVIOUS
  <1>3. /\ state \in State /\ versuche \in 0..GRENZE_ANFRAGE /\ naechster \in {"null", "spaeter", "reif"}
        /\ hand \in 0..MaxHand /\ stoerungen \in 0..MaxStoerungen /\ lauf \in {"keiner", "laeuft", "recherche"}
        /\ bilanz \in {"offen", "egal"} \cup Endzustand
        BY <1>2 DEF Init, State
  <1>4. aufgegeben \in BOOLEAN /\ stumm \in BOOLEAN /\ frisch \in BOOLEAN /\ auftrag \in BOOLEAN /\ tot \in BOOLEAN
        BY DEF Init
  <1>5. unterwegs \in [Sendung -> Ereignis \cup {"keins"}]  BY DEF Init
  <1>6. /\ persist \in [Platz -> Persist]
        /\ anfrage \in [Anfrage -> {"frei", "dispatch", "angenommen", "abgelehnt", "aussichtslos"}]
        BY <1>1 DEF Init
  <1> QED  BY <1>3, <1>4, <1>5, <1>6 DEF TypeInv

\* One step per action.
LEMMA TypSchritt == TypeInv /\ [Next]_vars => TypeInv'
  <1> SUFFICES ASSUME TypeInv, [Next]_vars PROVE TypeInv'  OBVIOUS
  <1> USE GrenzenAssumption
  <1> DEFINE ZeileTyp == /\ state \in State /\ versuche \in 0..GRENZE_ANFRAGE
                         /\ naechster \in {"null", "spaeter", "reif"} /\ aufgegeben \in BOOLEAN /\ stumm \in BOOLEAN
             WegTyp   == unterwegs \in [Sendung -> Ereignis \cup {"keins"}]
             PersTyp  == persist \in [Platz -> Persist]
             WeltTyp  == /\ frisch \in BOOLEAN /\ auftrag \in BOOLEAN /\ lauf \in {"keiner", "laeuft", "recherche"}
                         /\ anfrage \in [Anfrage -> {"frei", "dispatch", "angenommen", "abgelehnt", "aussichtslos"}]
                         /\ tot \in BOOLEAN /\ bilanz \in {"offen", "egal"} \cup Endzustand
                         /\ hand \in 0..MaxHand /\ stoerungen \in 0..MaxStoerungen
  <1>t. ZeileTyp /\ WegTyp /\ PersTyp /\ WeltTyp  BY DEF TypeInv
  <1>u. ZeileTyp' /\ WegTyp' /\ PersTyp' /\ WeltTyp' => TypeInv'  BY DEF TypeInv
  <1>z. UNCHANGED zeile => ZeileTyp'  BY <1>t DEF zeile
  <1>w. UNCHANGED welt => WeltTyp'  BY <1>t DEF welt
  <1>s. ASSUME NEW e \in Ereignis, Sendet(e) PROVE WegTyp'
        BY <1>s, <1>t DEF Sendet
  <1>m. ASSUME Misslingt, UNCHANGED anfrage PROVE ZeileTyp' /\ WeltTyp'
    <2>1. stoerungen' \in 0..MaxStoerungen /\ bilanz' = "egal" /\ UNCHANGED <<zeile, frisch, auftrag, lauf, tot, hand>>
          BY <1>m, <1>t DEF Misslingt
    <2> QED  BY <2>1, <1>m, <1>t, <1>z
  <1>1. CASE LaufBeginnt
    <2>1. "in_progress" \in Ereignis  BY DEF Ereignis
    <2>2. WegTyp' /\ ZeileTyp' /\ PersTyp'  BY <1>1, <1>s, <1>t, <1>z, <2>1 DEF LaufBeginnt
    <2>3. WeltTyp'  BY <1>1, <1>t DEF LaufBeginnt
    <2> QED  BY <2>2, <2>3, <1>u
  <1>2. CASE LaufMeldetEnde
    <2>1. PICK e \in Ereignis \ {"in_progress"} : Sendet(e) /\ Bilanz(Zustand(e))  BY <1>2 DEF LaufMeldetEnde
    <2>2. WegTyp' /\ ZeileTyp' /\ PersTyp'  BY <1>2, <1>s, <1>t, <1>z, <2>1 DEF LaufMeldetEnde
    <2>3. bilanz' \in {"offen", "egal"} \cup Endzustand  BY <2>1, <1>t DEF Bilanz, Zustand, Ereignis, Endzustand
    <2>4. WeltTyp'  BY <1>2, <1>t, <2>3 DEF LaufMeldetEnde
    <2> QED  BY <2>2, <2>4, <1>u
  <1>3. CASE LaufBricht
    <2>1. WegTyp' /\ ZeileTyp' /\ PersTyp'  BY <1>3, <1>t, <1>z DEF LaufBricht
    <2>2. stoerungen' \in 0..MaxStoerungen /\ lauf' = "keiner" /\ bilanz' = "egal"  BY <1>3, <1>t DEF LaufBricht
    <2>3. auftrag' \in BOOLEAN /\ UNCHANGED <<frisch, anfrage, tot, hand>>
      <3>1. auftrag' \in {auftrag, TRUE} /\ UNCHANGED <<frisch, anfrage, tot, hand>>  BY <1>3 DEF LaufBricht
      <3> QED  BY <3>1, <1>t, Zenon
    <2>4. WeltTyp'  BY <2>2, <2>3, <1>t
    <2> QED  BY <2>1, <2>4, <1>u
  <1>4. ASSUME NEW m \in Sendung, NEW neuer \in BOOLEAN, EreignisVerarbeiten(m, neuer) PROVE TypeInv'
    <2> DEFINE e == unterwegs[m]
    <2>1. e \in Ereignis  BY <1>4, <1>t DEF EreignisVerarbeiten
    <2>2. WegTyp' /\ PersTyp' /\ UNCHANGED anfrage  BY <1>4, <1>t DEF EreignisVerarbeiten
    <2>3. CASE Misslingt  BY <2>2, <2>3, <1>m, <1>u
    <2>4. CASE ~Misslingt
      <3>1. /\ UNCHANGED <<versuche, naechster, frisch, auftrag, lauf, tot, bilanz, hand, stoerungen>>
            /\ IF Darf(Zustand(e), neuer)
               THEN /\ state' = Zustand(e) /\ stumm' = FALSE
                    /\ aufgegeben' = (e = "failedDauer" \/ (e \in {"in_progress", "failed"} /\ aufgegeben))
               ELSE UNCHANGED <<state, aufgegeben, stumm>>
            BY <1>4, <2>4 DEF EreignisVerarbeiten
      <3>2. WeltTyp'  BY <2>2, <3>1, <1>t
      <3>3. state' \in State  BY <3>1, <2>1, <1>t, ZustandTyp
      <3>4. aufgegeben' \in BOOLEAN /\ stumm' \in BOOLEAN  BY <3>1, <1>t, Zenon
      <3> QED  BY <2>2, <3>1, <3>2, <3>3, <3>4, <1>t, <1>u
    <2> QED  BY <2>3, <2>4
  <1>5. ASSUME NEW p \in Platz, LaufLiefert(p) PROVE TypeInv'
    <2>1. PICK i \in Inhalt :
             /\ persist' = [persist EXCEPT ![p] = [inhalt |-> i, befund |-> "wartet"]]
             /\ lauf' = IF i = "zwischen" THEN "recherche" ELSE "keiner"
             /\ IF i = "zwischen" THEN UNCHANGED bilanz
                                  ELSE Bilanz(IF i = "ergebnis" THEN "completed" ELSE "failed")
          BY <1>5 DEF LaufLiefert
    <2>2. [inhalt |-> i, befund |-> "wartet"] \in Persist  BY DEF Persist, Befund
    <2>3. PersTyp'  BY <2>1, <2>2, <1>t
    <2>4. bilanz' \in {"offen", "egal"} \cup Endzustand  BY <2>1, <1>t DEF Bilanz, Endzustand
    <2>5. WeltTyp'  BY <1>5, <1>t, <2>1, <2>4 DEF LaufLiefert
    <2>6. WegTyp' /\ ZeileTyp'  BY <1>5, <1>t, <1>z DEF LaufLiefert
    <2> QED  BY <2>3, <2>5, <2>6, <1>u
  <1>6. ASSUME NEW p \in Platz, PersistAnwenden(p) PROVE TypeInv'
    <2>1. persist[p].inhalt \in Inhalt  BY <1>6, WartetTyp DEF PersistAnwenden
    <2>2. PICK b \in Danach(persist[p].inhalt) : Legt(p, persist[p].inhalt, b)  BY <1>6 DEF PersistAnwenden
    <2>3. PersTyp'  BY <2>1, <2>2, <1>t, LegtTyp, DanachTyp
    <2>4. WegTyp' /\ ZeileTyp'  BY <1>6, <1>t, <1>z DEF PersistAnwenden
    <2>5. WeltTyp'  BY <1>6, <1>t DEF PersistAnwenden
    <2> QED  BY <2>3, <2>4, <2>5, <1>u
  <1>7. ASSUME NEW p \in Platz, PersistVerwerfen(p) PROVE TypeInv'
    <2>1. persist[p].inhalt \in Inhalt  BY <1>7, WartetTyp DEF PersistVerwerfen
    <2>2. PICK b \in Danach(persist[p].inhalt) : Legt(p, persist[p].inhalt, b)  BY <1>7 DEF PersistVerwerfen
    <2>3. PersTyp'  BY <2>1, <2>2, <1>t, LegtTyp, DanachTyp
    <2>4. WegTyp' /\ UNCHANGED anfrage  BY <1>7, <1>t DEF PersistVerwerfen
    <2>5. CASE Misslingt  BY <2>3, <2>4, <2>5, <1>m, <1>u
    <2>6. CASE ~Misslingt
      <3>1. Verbucht("skipped") /\ bilanz' = "egal" /\ UNCHANGED <<frisch, auftrag, lauf, tot, hand, stoerungen>>
            BY <1>7, <2>6 DEF PersistVerwerfen
      <3>2. ZeileTyp'  BY <3>1, VerbuchtTyp
      <3>3. WeltTyp'  BY <3>1, <2>4, <1>t
      <3> QED  BY <2>3, <2>4, <3>2, <3>3, <1>u
    <2> QED  BY <2>5, <2>6
  <1>8. ASSUME NEW p \in Platz, PersistWirft(p) PROVE TypeInv'
    <2>1. persist[p].inhalt \in Inhalt  BY <1>8, WartetTyp DEF PersistWirft
    <2>2. PICK b \in {"failed", "failedDauer"} : Legt(p, persist[p].inhalt, b)  BY <1>8 DEF PersistWirft
    <2>a. b \in Befund \cup {"kein"}  BY DEF Befund
    <2>3. PersTyp'  BY <2>1, <2>2, <2>a, <1>t, LegtTyp
    <2>4. WegTyp' /\ ZeileTyp'  BY <1>8, <1>t, <1>z DEF PersistWirft
    <2>5. WeltTyp'  BY <1>8, <1>t DEF PersistWirft
    <2> QED  BY <2>3, <2>4, <2>5, <1>u
  <1>9. ASSUME NEW p \in Platz, PersistMelden(p) PROVE TypeInv'
    <2>1. persist[p].befund \in {"completed", "failed", "failedDauer"}
          BY <1>9, WartetTyp DEF PersistMelden, Befund
    <2>2. PersTyp'  BY <1>9, <1>t DEF PersistMelden, Persist
    <2>3. WegTyp' /\ UNCHANGED anfrage  BY <1>9, <1>t DEF PersistMelden
    <2>4. CASE Misslingt  BY <2>2, <2>3, <2>4, <1>m, <1>u
    <2>5. CASE ~Misslingt
      <3>1. Verbucht(persist[p].befund) /\ UNCHANGED <<frisch, auftrag, lauf, tot, bilanz, hand, stoerungen>>
            BY <1>9, <2>5 DEF PersistMelden
      <3>2. ZeileTyp'  BY <2>1, <3>1, VerbuchtTyp
      <3>3. WeltTyp'  BY <2>3, <3>1, <1>t
      <3> QED  BY <2>2, <2>3, <3>2, <3>3, <1>u
    <2> QED  BY <2>4, <2>5
  <1>10. CASE Seed
    <2>a. WegTyp' /\ stumm' \in BOOLEAN  BY <1>10, <1>t DEF Seed, Jetzt
    <2>1. WegTyp' /\ ZeileTyp' /\ PersTyp'  BY <1>10, <2>a, <1>t DEF Seed, State
    <2>2. WeltTyp'  BY <1>10, <1>w DEF Seed
    <2> QED  BY <2>1, <2>2, <1>u
  <1>11. CASE Reaper
    <2>a. WegTyp' /\ stumm' \in BOOLEAN  BY <1>11, <1>t DEF Reaper, Jetzt
    <2>1. WegTyp' /\ ZeileTyp' /\ PersTyp'  BY <1>11, <2>a, <1>t DEF Reaper, State, Endzustand
    <2>2. WeltTyp'  BY <1>11, <1>t DEF Reaper
    <2> QED  BY <2>1, <2>2, <1>u
  <1>12. CASE Abbrechen
    <2>a. WegTyp' /\ stumm' \in BOOLEAN  BY <1>12, <1>t DEF Abbrechen, Jetzt
    <2>1. WegTyp' /\ ZeileTyp' /\ PersTyp'  BY <1>12, <2>a, <1>t DEF Abbrechen, State, Endzustand
    <2>2. WeltTyp'  BY <1>12, <1>t DEF Abbrechen
    <2> QED  BY <2>1, <2>2, <1>u
  <1>13. ASSUME NEW a \in Anfrage, NEW h \in BOOLEAN, Anfragen(a, h) PROVE TypeInv'
    <2>1. WegTyp' /\ ZeileTyp' /\ PersTyp'  BY <1>13, <1>t, <1>z DEF Anfragen
    <2>a. hand' \in 0..MaxHand
      <3>1. hand' = hand \/ (hand < MaxHand /\ hand' = hand + 1)  BY <1>13, Zenon DEF Anfragen
      <3> QED  BY <3>1, <1>t
    <2>b. frisch' \in BOOLEAN
      <3>1. frisch' \in {frisch, FALSE} \/ frisch' = frisch  BY <1>13 DEF Anfragen
      <3> QED  BY <3>1, <1>t, Zenon
    <2>2. WeltTyp'  BY <1>13, <1>t, <2>a, <2>b DEF Anfragen
    <2> QED  BY <2>1, <2>2, <1>u
  <1>14. ASSUME NEW a \in Anfrage, Dispatch(a) PROVE TypeInv'
    <2>1. WegTyp' /\ ZeileTyp' /\ PersTyp'  BY <1>14, <1>t, <1>z DEF Dispatch
    <2>2. WeltTyp'  BY <1>14, <1>t DEF Dispatch
    <2> QED  BY <2>1, <2>2, <1>u
  <1>15. ASSUME NEW a \in Anfrage, AngenommenSchreiben(a) PROVE TypeInv'
    <2>1. WegTyp' /\ PersTyp'  BY <1>15, <1>t DEF AngenommenSchreiben
    <2>2. anfrage' = [anfrage EXCEPT ![a] = "frei"]  BY <1>15 DEF AngenommenSchreiben
    <2>3. CASE Misslingt  BY <2>1, <2>2, <2>3, <1>t, <1>z, <1>u DEF Misslingt
    <2>4. CASE ~Misslingt
      <3>1. /\ UNCHANGED <<versuche, naechster, aufgegeben, frisch, auftrag, lauf, tot, bilanz, hand, stoerungen>>
            /\ (state' = "in_progress" /\ Jetzt) \/ UNCHANGED <<state, stumm>>
            BY <1>15, <2>4 DEF AngenommenSchreiben
      <3>2. WeltTyp'  BY <2>2, <3>1, <1>t
      <3>3. state' \in State /\ stumm' \in BOOLEAN  BY <3>1, <1>t DEF State, Jetzt
      <3> QED  BY <2>1, <3>1, <3>2, <3>3, <1>t, <1>u
    <2> QED  BY <2>3, <2>4
  <1>16. ASSUME NEW a \in Anfrage, AblehnungSchreiben(a) PROVE TypeInv'
    <2>1. WegTyp' /\ PersTyp'  BY <1>16, <1>t DEF AblehnungSchreiben
    <2>2. anfrage' = [anfrage EXCEPT ![a] = "frei"]  BY <1>16 DEF AblehnungSchreiben
    <2>3. CASE Misslingt  BY <2>1, <2>2, <2>3, <1>t, <1>z, <1>u DEF Misslingt
    <2>4. CASE ~Misslingt
      <3>1. UNCHANGED <<frisch, auftrag, lauf, tot, bilanz, hand, stoerungen>>  BY <1>16, <2>4 DEF AblehnungSchreiben
      <3>2. WeltTyp'  BY <2>2, <3>1, <1>t
      <3>3. CASE ~Betrifft
        <4>1. UNCHANGED zeile  BY <1>16, <2>4, <3>3 DEF AblehnungSchreiben
        <4> QED  BY <2>1, <3>2, <4>1, <1>z, <1>u
      <3>4. CASE Betrifft
        <4>1. state' = state /\ stumm' = FALSE  BY <1>16, <2>4, <3>4 DEF AblehnungSchreiben, Jetzt
        <4>2. CASE anfrage[a] = "aussichtslos"
          <5>1. aufgegeben' = TRUE /\ UNCHANGED <<versuche, naechster>>
                BY <1>16, <2>4, <3>4, <4>2 DEF AblehnungSchreiben
          <5> QED  BY <2>1, <3>2, <4>1, <5>1, <1>t, <1>u
        <4>3. CASE anfrage[a] # "aussichtslos"
          <5>1. /\ versuche' = Zaehlt(versuche) /\ naechster' = "spaeter"
                /\ aufgegeben' = (versuche' >= GRENZE_ANFRAGE)
                BY <1>16, <2>4, <3>4, <4>3 DEF AblehnungSchreiben
          <5>2. versuche + 1 \in Nat  BY <1>t
          <5>3. versuche' \in 0..GRENZE_ANFRAGE  BY <5>1, <5>2, HoechstensTyp DEF Zaehlt
          <5>4. aufgegeben' \in BOOLEAN
            <6> DEFINE viele == versuche' >= GRENZE_ANFRAGE
            <6>1. aufgegeben' = viele  BY <5>1
            <6>2. viele \in BOOLEAN  BY <5>3
            <6> QED  BY <6>1, <6>2, Zenon
          <5> QED  BY <2>1, <3>2, <4>1, <5>1, <5>3, <5>4, <1>t, <1>u
        <4> QED  BY <4>2, <4>3
      <3> QED  BY <3>3, <3>4
    <2> QED  BY <2>3, <2>4
  <1>17. CASE WirdReif
    <2>1. WegTyp' /\ ZeileTyp' /\ PersTyp'  BY <1>17, <1>t DEF WirdReif
    <2> QED  BY <2>1, <1>17, <1>w, <1>u DEF WirdReif
  <1>18. CASE WirdStumm
    <2>1. WegTyp' /\ ZeileTyp' /\ PersTyp'  BY <1>18, <1>t DEF WirdStumm
    <2> QED  BY <2>1, <1>18, <1>w, <1>u DEF WirdStumm
  <1>19. CASE UpstreamStirbt
    <2>1. WegTyp' /\ ZeileTyp' /\ PersTyp'  BY <1>19, <1>t, <1>z DEF UpstreamStirbt
    <2>2. WeltTyp'  BY <1>19, <1>t DEF UpstreamStirbt
    <2> QED  BY <2>1, <2>2, <1>u
  <1>20. CASE GatewayNeustart
    <2>1. WeltTyp'  BY <1>20, <1>t DEF GatewayNeustart
    <2>2. PersTyp'
      <3>1. ASSUME NEW q \in Platz
            PROVE  (IF persist[q] = Kein THEN Kein ELSE [persist[q] EXCEPT !.befund = "wartet"]) \in Persist
            BY <1>t DEF Persist, Befund
      <3>2. persist' = [q \in Platz |-> IF persist[q] = Kein THEN Kein ELSE [persist[q] EXCEPT !.befund = "wartet"]]
            BY <1>20 DEF GatewayNeustart
      <3> QED  BY <3>1, <3>2
    <2>3. WegTyp'
      <3>1. PICK verloren \in SUBSET Sendung :
               unterwegs' = [m \in Sendung |-> IF m \in verloren THEN "keins" ELSE unterwegs[m]]
            BY <1>20 DEF GatewayNeustart
      <3> QED  BY <3>1, <1>t
    <2> QED  BY <1>20, <2>1, <2>2, <2>3, <1>z, <1>u DEF GatewayNeustart
  <1>21. CASE UNCHANGED vars
    <2>1. UNCHANGED zeile /\ UNCHANGED welt /\ UNCHANGED <<unterwegs, persist>>  BY <1>21 DEF vars
    <2> QED  BY <2>1, <1>t, <1>z, <1>w, <1>u
  <1> QED  BY <1>1, <1>2, <1>3, <1>4, <1>5, <1>6, <1>7, <1>8, <1>9, <1>10, <1>11, <1>12, <1>13, <1>14, <1>15, <1>16,
              <1>17, <1>18, <1>19, <1>20, <1>21 DEF Next

\* TypeInv in every reachable state, for any number of events, retries and attempts.
THEOREM TypeInvImmer == Spec => []TypeInv
  BY TypAnfang, TypSchritt, PTL DEF Spec

-----------------------------------------------------------------------------
(* A finished step is not given up. *)

LEMMA FertigSchritt == TypeInv /\ FertigNichtAufgegeben /\ [Next]_vars => FertigNichtAufgegeben'
  <1> SUFFICES ASSUME TypeInv, FertigNichtAufgegeben, [Next]_vars PROVE FertigNichtAufgegeben'  OBVIOUS
  <1>g. ASSUME UNCHANGED <<state, aufgegeben>> PROVE FertigNichtAufgegeben'  BY <1>g DEF FertigNichtAufgegeben
  <1>v. ASSUME NEW e, Verbucht(e) PROVE FertigNichtAufgegeben'
        BY <1>v, Zenon DEF Verbucht, FertigNichtAufgegeben
  <1>1. CASE LaufBeginnt \/ LaufMeldetEnde \/ LaufBricht
        BY <1>1, <1>g DEF LaufBeginnt, LaufMeldetEnde, LaufBricht, zeile
  <1>m. ASSUME Misslingt PROVE FertigNichtAufgegeben'  BY <1>m, <1>g DEF Misslingt, zeile
  <1>2. ASSUME NEW m \in Sendung, NEW neuer \in BOOLEAN, EreignisVerarbeiten(m, neuer)
        PROVE  FertigNichtAufgegeben'
    <2> DEFINE e == unterwegs[m]
    <2>1. CASE Darf(Zustand(e), neuer) /\ ~Misslingt
      <3>1. /\ state' = Zustand(e)
            /\ aufgegeben' = (e = "failedDauer" \/ (e \in {"in_progress", "failed"} /\ aufgegeben))
            BY <1>2, <2>1 DEF EreignisVerarbeiten
      <3>2. state' \in {"completed", "skipped"} => e \notin {"failedDauer", "in_progress", "failed"}
            BY <3>1 DEF Zustand
      <3> QED  BY <3>1, <3>2, Zenon DEF FertigNichtAufgegeben
    <2>2. CASE ~Darf(Zustand(e), neuer) /\ ~Misslingt
          BY <1>2, <2>2, <1>g DEF EreignisVerarbeiten
    <2> QED  BY <2>1, <2>2, <1>m
  <1>3. ASSUME NEW p \in Platz, LaufLiefert(p) \/ PersistAnwenden(p) \/ PersistWirft(p) PROVE FertigNichtAufgegeben'
        BY <1>3, <1>g DEF LaufLiefert, PersistAnwenden, PersistWirft, zeile
  <1>4. ASSUME NEW p \in Platz, PersistVerwerfen(p) \/ PersistMelden(p) PROVE FertigNichtAufgegeben'
        BY <1>4, <1>v, <1>m DEF PersistVerwerfen, PersistMelden
  <1>5. CASE Seed \/ Reaper \/ Abbrechen
        BY <1>5 DEF Seed, Reaper, Abbrechen, FertigNichtAufgegeben
  <1>6. ASSUME NEW a \in Anfrage, NEW h \in BOOLEAN, Anfragen(a, h) \/ Dispatch(a) PROVE FertigNichtAufgegeben'
        BY <1>6, <1>g DEF Anfragen, Dispatch, zeile
  <1>7. ASSUME NEW a \in Anfrage, AngenommenSchreiben(a) PROVE FertigNichtAufgegeben'
    <2>1. CASE Misslingt  BY <2>1, <1>m
    <2>2. CASE ~Misslingt
      <3>1. aufgegeben' = aufgegeben /\ (state' = "in_progress" \/ state' = state)
            BY <1>7, <2>2 DEF AngenommenSchreiben
      <3> QED  BY <3>1 DEF FertigNichtAufgegeben
    <2> QED  BY <2>1, <2>2
  <1>8. ASSUME NEW a \in Anfrage, AblehnungSchreiben(a) PROVE FertigNichtAufgegeben'
    <2>1. CASE Betrifft /\ ~Misslingt
      <3>1. state' = "failed"  BY <1>8, <2>1 DEF AblehnungSchreiben, Betrifft
      <3> QED  BY <3>1 DEF FertigNichtAufgegeben
    <2>2. CASE ~Betrifft /\ ~Misslingt  BY <1>8, <2>2, <1>g DEF AblehnungSchreiben, zeile
    <2> QED  BY <2>1, <2>2, <1>m
  <1>9. CASE WirdReif \/ WirdStumm \/ UpstreamStirbt \/ GatewayNeustart \/ UNCHANGED vars
        BY <1>9, <1>g DEF WirdReif, WirdStumm, UpstreamStirbt, GatewayNeustart, vars, zeile
  <1> QED  BY <1>1, <1>2, <1>3, <1>4, <1>5, <1>6, <1>7, <1>8, <1>9 DEF Next

\* FertigNichtAufgegeben in every reachable state: no late answer of a retry's
\* dispatch gives up a step that has been finished meanwhile.
THEOREM FertigImmer == Spec => []FertigNichtAufgegeben
  <1>1. Init => FertigNichtAufgegeben  BY DEF Init, FertigNichtAufgegeben
  <1> QED  BY <1>1, FertigSchritt, TypeInvImmer, PTL DEF Spec

-----------------------------------------------------------------------------
(* The row shows how an undisturbed run has ended. *)

\* While the run is not over nothing says that it were.
LEMMA Offen ==
    ASSUME TypeInv, Ungestoert, bilanz = "offen"
    PROVE  /\ ~Ende(state)
           /\ \A m \in Sendung : ~SagtEnde(unterwegs[m])
           /\ \A p \in Platz : persist[p] # Kein => persist[p].inhalt = "zwischen" /\ persist[p].befund = "wartet"
  <1>1. LaufInv /\ BotenInv /\ EndeInv  BY DEF Ungestoert
  <1>2. \A m \in Sendung : ~SagtEnde(unterwegs[m])
    <2>1. \A m \in Sendung : unterwegs[m] \in Ereignis \cup {"keins"}  BY DEF TypeInv
    <2> QED  BY <1>1, <2>1 DEF BotenInv, Ereignis, Zustand, SagtEnde
  <1>3. \A p \in Platz : persist[p] # Kein => persist[p].inhalt = "zwischen" /\ persist[p].befund = "wartet"
        BY <1>1 DEF BotenInv, Bleibt
  <1>4. state # "offen"  BY DEF TypeInv, State, Endzustand
  <1> QED  BY <1>1, <1>2, <1>3, <1>4 DEF EndeInv

\* How a run has ended is an end.
LEMMA BilanzEnde == TypeInv /\ bilanz \notin {"egal", "offen"} => Ende(bilanz)
  BY DEF TypeInv, Ende

LEMMA EndeAnfang == Init => Ungestoert
  <1> SUFFICES ASSUME Init PROVE LaufInv /\ BotenInv /\ EndeInv  BY DEF Ungestoert
  <1>1. LaufInv  BY DEF Init, LaufInv
  <1>2. BotenInv  BY DEF Init, BotenInv, SagtEnde
  <1>3. EndeInv  BY DEF Init, EndeInv, Ende, Endzustand
  <1> QED  BY <1>1, <1>2, <1>3

\* A step that leaves all of it alone.
LEMMA EndeUnberuehrt ==
    ASSUME Ungestoert, UNCHANGED <<state, unterwegs, persist, auftrag, lauf, anfrage, bilanz>>
    PROVE  Ungestoert'
  <1>1. LaufInv => LaufInv'  BY DEF LaufInv
  <1>2. BotenInv => BotenInv'  BY DEF BotenInv
  <1>3. EndeInv => EndeInv'  BY DEF EndeInv, EndeUnterwegs, EndeImPersist
  <1> QED  BY <1>1, <1>2, <1>3 DEF Ungestoert

\* An event is handled: the one the row needs is not lost before it is written,
\* whatever the comparison of the clocks says.
LEMMA EndeEreignis ==
    ASSUME TypeInv, Ungestoert, NEW m \in Sendung, NEW neuer \in BOOLEAN, EreignisVerarbeiten(m, neuer)
    PROVE  Ungestoert'
  <1> SUFFICES ASSUME bilanz' # "egal" PROVE LaufInv' /\ BotenInv' /\ EndeInv'  BY DEF Ungestoert
  <1> DEFINE e == unterwegs[m]
  <1>0. ~Misslingt  BY DEF Misslingt
  <1>1. UNCHANGED <<persist, auftrag, lauf, anfrage, bilanz>>  BY <1>0 DEF EreignisVerarbeiten
  <1>2. LaufInv /\ BotenInv /\ EndeInv  BY <1>1 DEF Ungestoert
  <1>3. /\ e \in Ereignis /\ unterwegs'[m] = "keins"
        /\ \A k \in Sendung \ {m} : unterwegs'[k] = unterwegs[k]
        BY DEF EreignisVerarbeiten, TypeInv
  <1>4. ~SagtEnde(unterwegs'[m])  BY <1>3 DEF SagtEnde
  <1>5. LaufInv'  BY <1>1, <1>2 DEF LaufInv
  <1>6. BotenInv'  BY <1>1, <1>2, <1>3, <1>4 DEF BotenInv
  <1>7. EndeImPersist' = EndeImPersist  BY <1>1 DEF EndeImPersist
  <1>8. e = "in_progress" /\ EndeUnterwegs => EndeUnterwegs'
    <2> SUFFICES ASSUME e = "in_progress", NEW k \in Sendung, SagtEnde(unterwegs[k]) PROVE SagtEnde(unterwegs'[k])
        BY DEF EndeUnterwegs
    <2>1. k # m  BY DEF SagtEnde
    <2> QED  BY <2>1, <1>3
  <1>9. EndeInv'
    <2>1. CASE e = "in_progress"
      <3>1. ~Ende(Zustand(e)) /\ Zustand(e) = "in_progress"  BY <2>1 DEF Zustand, Ende, Endzustand
      <3>2. CASE Darf(Zustand(e), neuer)
        <4>1. ~Ende(state)  BY <3>1, <3>2 DEF Darf, Ende, Endzustand
        <4>2. state' = "in_progress" /\ ~Ende(state')
              BY <1>0, <3>1, <3>2 DEF EreignisVerarbeiten, Ende, Endzustand
        <4>3. state # bilanz
              BY <4>1, <1>1, BilanzEnde DEF TypeInv, State, Endzustand
        <4> QED  BY <4>1, <4>2, <4>3, <2>1, <1>1, <1>2, <1>7, <1>8 DEF EndeInv
      <3>3. CASE ~Darf(Zustand(e), neuer)
        <4>1. state' = state  BY <1>0, <3>3 DEF EreignisVerarbeiten
        <4> QED  BY <4>1, <2>1, <1>1, <1>2, <1>7, <1>8 DEF EndeInv
      <3> QED  BY <3>2, <3>3
    <2>2. CASE e # "in_progress"
      <3>1. SagtEnde(e)  BY <2>2, <1>3 DEF Ereignis, SagtEnde
      <3>2. Zustand(e) = bilanz /\ Ende(Zustand(e))
            BY <2>2, <3>1, <1>2, <1>3 DEF BotenInv, Ereignis, Zustand, Ende, Endzustand
      <3>3. CASE Darf(Zustand(e), neuer)
            BY <1>0, <3>2, <3>3, <1>1 DEF EreignisVerarbeiten, EndeInv
      <3>4. CASE ~Darf(Zustand(e), neuer)
        <4>1. state' = state  BY <1>0, <3>4 DEF EreignisVerarbeiten
        <4>2. Ende(state)  BY <3>2, <3>4 DEF Darf
        <4> QED  BY <4>1, <4>2, <1>1, <1>2, <1>7 DEF EndeInv
      <3> QED  BY <3>3, <3>4
    <2> QED  BY <2>1, <2>2
  <1> QED  BY <1>5, <1>6, <1>9

\* A persist event is handled: the end it holds stays in it until it is written.
LEMMA EndePersist ==
    ASSUME TypeInv, Ungestoert, NEW p \in Platz, PersistAnwenden(p) \/ PersistMelden(p)
    PROVE  Ungestoert'
  <1> SUFFICES ASSUME bilanz' # "egal" PROVE LaufInv' /\ BotenInv' /\ EndeInv'  BY DEF Ungestoert
  <1> DEFINE i == persist[p].inhalt
  <1>0. ~Misslingt  BY DEF Misslingt
  <1>1. UNCHANGED <<unterwegs, auftrag, lauf, anfrage, bilanz>>
        BY <1>0 DEF PersistAnwenden, PersistMelden
  <1>2. LaufInv /\ BotenInv /\ EndeInv  BY <1>1 DEF Ungestoert
  <1>3. i \in Inhalt /\ persist[p] # Kein /\ persist \in [Platz -> Persist]
        BY WartetTyp DEF PersistAnwenden, PersistMelden, TypeInv
  <1>4. LaufInv'  BY <1>1, <1>2 DEF LaufInv
  <1>5. /\ \A q \in Platz \ {p} : persist'[q] = persist[q]
        /\ DOMAIN persist' = Platz
        BY <1>3 DEF PersistAnwenden, PersistMelden, Legt
  <1>u. EndeUnterwegs' = EndeUnterwegs  BY <1>1 DEF EndeUnterwegs
  <1>6. CASE PersistMelden(p)
    <2>1. persist'[p] = Kein  BY <1>3, <1>6 DEF PersistMelden
    <2>2. i # "zwischen" /\ Bleibt(i) = bilanz /\ persist[p].befund \in Danach(i) /\ persist[p].befund # "kein"
          BY <1>2, <1>3, <1>6 DEF PersistMelden, BotenInv
    <2>3. Zustand(persist[p].befund) = bilanz
          BY <2>2, <1>3 DEF Inhalt, Danach, Bleibt, Zustand
    <2>4. EndeInv'  BY <2>3, <1>0, <1>1, <1>6 DEF PersistMelden, Verbucht, EndeInv
    <2>5. BotenInv'  BY <2>1, <1>1, <1>2, <1>5 DEF BotenInv
    <2> QED  BY <2>4, <2>5, <1>4
  <1>7. CASE i = "zwischen" /\ ~PersistMelden(p)
    <2>1. PersistAnwenden(p)  BY <1>7
    <2>2. persist'[p] = Kein /\ state' = state
          BY <2>1, <1>3, <1>7 DEF PersistAnwenden, Danach, Legt, zeile
    <2>3. EndeImPersist => EndeImPersist'
      <3> SUFFICES ASSUME NEW q \in Platz, persist[q] # Kein, persist[q].inhalt # "zwischen" PROVE EndeImPersist'
          BY DEF EndeImPersist
      <3>1. q # p  BY <1>7
      <3> QED  BY <3>1, <1>5 DEF EndeImPersist
    <2>4. EndeInv'  BY <2>2, <2>3, <1>1, <1>2, <1>u DEF EndeInv
    <2>5. BotenInv'  BY <2>2, <1>1, <1>2, <1>5 DEF BotenInv
    <2> QED  BY <2>4, <2>5, <1>4
  <1>8. CASE i # "zwischen" /\ ~PersistMelden(p)
    <2>1. PICK b \in Danach(i) : Legt(p, i, b)  BY <1>8 DEF PersistAnwenden
    <2>2. b # "kein"  BY <1>3, <1>8, <2>1 DEF Danach, Inhalt
    <2>3. persist'[p] = [inhalt |-> i, befund |-> b]  BY <1>3, <2>1, <2>2 DEF Legt
    <2>4. persist'[p] # Kein /\ persist'[p].inhalt = i /\ persist'[p].befund = b  BY <2>2, <2>3 DEF Kein
    <2>5. EndeImPersist'  BY <1>8, <2>4 DEF EndeImPersist
    <2>6. Bleibt(i) = bilanz  BY <1>2, <1>3, <1>8 DEF BotenInv
    <2>7. BotenInv'  BY <2>1, <2>4, <2>6, <1>1, <1>2, <1>5, <1>8 DEF BotenInv
    <2>8. state' = state  BY <1>8 DEF PersistAnwenden, zeile
    <2>9. EndeInv'  BY <2>5, <2>8, <1>1, <1>2, <1>u DEF EndeInv
    <2> QED  BY <2>7, <2>9, <1>4
  <1> QED  BY <1>6, <1>7, <1>8

\* The run itself: it begins, delivers, or says how it has ended.
LEMMA EndeLauf ==
    ASSUME TypeInv, Ungestoert,
           LaufBeginnt \/ LaufMeldetEnde \/ \E p \in Platz : LaufLiefert(p)
    PROVE  Ungestoert'
  <1> SUFFICES ASSUME bilanz' # "egal" PROVE LaufInv' /\ BotenInv' /\ EndeInv'  BY DEF Ungestoert
  <1>1. bilanz # "egal"  BY DEF LaufBeginnt, LaufMeldetEnde, LaufLiefert, Bilanz
  <1>2. LaufInv /\ BotenInv /\ EndeInv  BY <1>1 DEF Ungestoert
  <1>3. bilanz = "offen"  BY <1>2 DEF LaufBeginnt, LaufMeldetEnde, LaufLiefert, LaufInv
  <1>4. /\ ~Ende(state) /\ state' = state
        /\ \A m \in Sendung : ~SagtEnde(unterwegs[m])
        /\ \A p \in Platz : persist[p] # Kein => persist[p].inhalt = "zwischen" /\ persist[p].befund = "wartet"
        BY <1>3, Offen DEF LaufBeginnt, LaufMeldetEnde, LaufLiefert, zeile
  <1>5. ASSUME NEW e \in Ereignis, Sendet(e)
        PROVE  /\ \E m \in Sendung : unterwegs'[m] = e
               /\ \A m \in Sendung : SagtEnde(unterwegs'[m]) => unterwegs'[m] = e
        BY <1>4, <1>5 DEF Sendet, TypeInv
  <1>6. CASE LaufBeginnt
    <2>1. bilanz' = bilanz /\ persist' = persist /\ LaufInv'
          BY <1>2, <1>3, <1>6 DEF LaufBeginnt, LaufInv
    <2>2. Sendet("in_progress") /\ "in_progress" \in Ereignis  BY <1>6 DEF LaufBeginnt, Ereignis
    <2>3. BotenInv'  BY <2>1, <2>2, <1>2, <1>5 DEF BotenInv, SagtEnde
    <2>4. EndeInv'  BY <2>1, <1>3, <1>4 DEF EndeInv
    <2> QED  BY <2>1, <2>3, <2>4
  <1>7. CASE LaufMeldetEnde
    <2>1. PICK e \in Ereignis \ {"in_progress"} : Sendet(e) /\ bilanz' = Zustand(e)
          BY <1>3, <1>7 DEF LaufMeldetEnde, Bilanz
    <2>2. Zustand(e) # "offen"  BY DEF Ereignis, Zustand
    <2>3. persist' = persist /\ LaufInv'
          BY <1>2, <1>7, <2>1, <2>2 DEF LaufMeldetEnde, LaufInv
    <2>4. BotenInv'  BY <2>1, <2>3, <1>4, <1>5 DEF BotenInv
    <2>a. SagtEnde(e)  BY DEF Ereignis, SagtEnde
    <2>5. EndeUnterwegs'  BY <2>1, <2>a, <1>5 DEF EndeUnterwegs
    <2>6. EndeInv'  BY <2>5, <1>4 DEF EndeInv
    <2> QED  BY <2>3, <2>4, <2>6
  <1>8. ASSUME NEW p \in Platz, LaufLiefert(p) PROVE LaufInv' /\ BotenInv' /\ EndeInv'
    <2>1. PICK i \in Inhalt :
             /\ persist' = [persist EXCEPT ![p] = [inhalt |-> i, befund |-> "wartet"]]
             /\ lauf' = IF i = "zwischen" THEN "recherche" ELSE "keiner"
             /\ IF i = "zwischen" THEN UNCHANGED bilanz
                                  ELSE Bilanz(IF i = "ergebnis" THEN "completed" ELSE "failed")
          BY <1>8 DEF LaufLiefert
    <2>2. unterwegs' = unterwegs /\ auftrag' = auftrag /\ anfrage' = anfrage /\ lauf # "keiner"
          BY <1>8 DEF LaufLiefert
    <2>3. /\ persist'[p] = [inhalt |-> i, befund |-> "wartet"]
          /\ \A q \in Platz \ {p} : persist'[q] = persist[q]
          BY <2>1 DEF TypeInv
    <2>4. persist'[p] # Kein /\ persist'[p].inhalt = i /\ persist'[p].befund = "wartet"  BY <2>3 DEF Kein
    <2>5. bilanz' = IF i = "zwischen" THEN "offen" ELSE Bleibt(i)
          BY <2>1, <1>3 DEF Bilanz, Bleibt
    <2>6. LaufInv'  BY <2>1, <2>2, <2>5, <1>2 DEF LaufInv, Bleibt
    <2>7. BotenInv'
      <3>1. \A m \in Sendung : ~SagtEnde(unterwegs'[m])  BY <2>2, <1>4
      <3>2. ASSUME NEW q \in Platz, persist'[q] # Kein
            PROVE  IF persist'[q].inhalt = "zwischen" THEN persist'[q].befund = "wartet"
                   ELSE /\ Bleibt(persist'[q].inhalt) = bilanz'
                        /\ persist'[q].befund \in {"wartet"} \cup Danach(persist'[q].inhalt)
        <4>1. CASE q = p  BY <4>1, <2>4, <2>5
        <4>2. CASE q # p  BY <4>2, <3>2, <2>3, <1>4
        <4> QED  BY <4>1, <4>2
      <3> QED  BY <3>1, <3>2 DEF BotenInv
    <2>8. EndeInv'
      <3>1. CASE i = "zwischen"  BY <3>1, <2>5, <1>4 DEF EndeInv
      <3>2. CASE i # "zwischen"
        <4>1. EndeImPersist'  BY <3>2, <2>4 DEF EndeImPersist
        <4> QED  BY <4>1, <1>4 DEF EndeInv
      <3> QED  BY <3>1, <3>2
    <2> QED  BY <2>6, <2>7, <2>8
  <1> QED  BY <1>6, <1>7, <1>8

\* One step per action: what is left either interferes or does not matter.
LEMMA EndeSchritt == IInv /\ [Next]_vars => Ungestoert'
  <1> SUFFICES ASSUME TypeInv, Ungestoert, [Next]_vars PROVE Ungestoert'  BY DEF IInv
  <1>e. ASSUME bilanz' = "egal" PROVE Ungestoert'  BY <1>e DEF Ungestoert
  <1>f. ASSUME NEW a \in Anfrage, anfrage[a] # "frei", bilanz' = bilanz PROVE Ungestoert'
        BY <1>f DEF Ungestoert, LaufInv
  <1>1. CASE LaufBeginnt \/ LaufMeldetEnde \/ \E p \in Platz : LaufLiefert(p)  BY <1>1, EndeLauf
  <1>2. ASSUME NEW m \in Sendung, NEW neuer \in BOOLEAN, EreignisVerarbeiten(m, neuer) PROVE Ungestoert'
        BY <1>2, EndeEreignis
  <1>3. ASSUME NEW p \in Platz, PersistAnwenden(p) \/ PersistMelden(p) PROVE Ungestoert'
        BY <1>3, EndePersist
  <1>4. CASE LaufBricht \/ (\E p \in Platz : PersistWirft(p) \/ PersistVerwerfen(p)) \/ Reaper \/ Abbrechen
             \/ (\E a \in Anfrage, h \in BOOLEAN : Anfragen(a, h)) \/ GatewayNeustart
        BY <1>4, <1>e
        DEF LaufBricht, PersistWirft, PersistVerwerfen, Misslingt, Reaper, Abbrechen, Anfragen, GatewayNeustart
  <1>5. ASSUME NEW a \in Anfrage, Dispatch(a) \/ AngenommenSchreiben(a) \/ AblehnungSchreiben(a) PROVE Ungestoert'
        BY <1>5, <1>e, <1>f DEF Dispatch, AngenommenSchreiben, AblehnungSchreiben, Misslingt
  <1>6. CASE Seed
    <2> SUFFICES ASSUME bilanz' # "egal" PROVE LaufInv' /\ BotenInv' /\ EndeInv'  BY DEF Ungestoert
    <2>1. UNCHANGED <<unterwegs, persist, auftrag, lauf, anfrage, bilanz>>  BY <1>6 DEF Seed, welt
    <2>2. LaufInv /\ BotenInv /\ EndeInv  BY <2>1 DEF Ungestoert
    <2>3. LaufInv' /\ BotenInv'  BY <2>1, <2>2 DEF LaufInv, BotenInv
    <2>4. state = "fehlt" /\ state' = "pending"  BY <1>6 DEF Seed
    <2>5. ~Ende(state) /\ ~Ende(state') /\ state # bilanz
          BY <2>4 DEF Ende, Endzustand, TypeInv
    <2>6. EndeInv'  BY <2>1, <2>2, <2>5 DEF EndeInv, EndeUnterwegs, EndeImPersist
    <2> QED  BY <2>3, <2>6
  <1>7. CASE WirdReif \/ WirdStumm \/ UpstreamStirbt \/ UNCHANGED vars
        BY <1>7, EndeUnberuehrt DEF WirdReif, WirdStumm, UpstreamStirbt, vars, zeile, welt
  <1> QED  BY <1>1, <1>2, <1>3, <1>4, <1>5, <1>6, <1>7 DEF Next

\* EndstandStimmt in every reachable state: in whatever order its messages are
\* handled and whatever the clocks say, the row shows how a run has ended with which
\* nobody interfered, of which no write failed and no gate refused anything.
THEOREM EndstandImmer == Spec => []EndstandStimmt
  <1>1. Init => IInv  BY TypAnfang, EndeAnfang DEF IInv
  <1>2. IInv /\ [Next]_vars => IInv'  BY TypSchritt, EndeSchritt DEF IInv
  <1>3. IInv => EndstandStimmt
    <2> SUFFICES ASSUME IInv, bilanz \in Endzustand, \A m \in Sendung : unterwegs[m] = "keins",
                        \A p \in Platz : persist[p] = Kein
                 PROVE  state = bilanz
        BY DEF EndstandStimmt
    <2>1. bilanz # "egal" /\ bilanz # "offen"  BY DEF Endzustand
    <2>2. EndeInv  BY <2>1 DEF IInv, Ungestoert
    <2>3. ~EndeUnterwegs /\ ~EndeImPersist  BY DEF EndeUnterwegs, EndeImPersist, SagtEnde
    <2> QED  BY <2>1, <2>2, <2>3 DEF EndeInv
  <1> QED  BY <1>1, <1>2, <1>3, PTL DEF Spec
=============================================================================
