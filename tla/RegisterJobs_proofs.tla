-------------------------- MODULE RegisterJobs_proofs --------------------------
(***************************************************************************)
(* Theorems about RegisterJobs, for every number of rows, workers and      *)
(* attempts.  Each invariant is proved from an inductive one of its own.   *)
(***************************************************************************)
EXTENDS RegisterJobs, TLAPS

\* A worker that is not idle is busy with a row.
TaetigHatJob == \A w \in Worker : worker[w].phase # "frei" => worker[w].job \in Jobs

Typ == TypeInv /\ TaetigHatJob

\* The phases of a report whose writes have begun, and one write of it.
Schreibend == {"geaendert", "eingetragen", "ergaenzt", "geschrieben"}

Schreibt(a, p) ==
    \/ Schreiben(a) /\ p \in {"geaendert", "eingetragen"}
    \/ VeraltetMarkieren(a) /\ p = "eingetragen"
    \/ InhaltSchreiben(a) /\ p = "ergaenzt"
    \/ FolgeSchreiben(a) /\ p = "geschrieben"

Teilschritt(a) ==
    Schreiben(a) \/ VeraltetMarkieren(a) \/ InhaltSchreiben(a) \/ FolgeSchreiben(a)

LEMMA FreiTyp == Frei \in Taetigkeit
  BY DEF Frei, Taetigkeit, Aufruf, Meldung

LEMMA NeueAnfrageTyp ==
  ASSUME NEW w \in Worker, NEW j \in Jobs, NEW art \in Aufruf, NEW n \in {1, 2}
  PROVE  NeueAnfrage(w, j, art, n) \in Anfrage
  BY MaxVersucheAssumption DEF NeueAnfrage, Anfrage

LEMMA WartetTyp ==
  ASSUME NEW j \in Jobs, NEW art \in Aufruf, NEW n \in {1, 2}
  PROVE  Wartet(j, art, n) \in Taetigkeit /\ Wartet(j, art, n).job = j
  BY DEF Wartet, Taetigkeit

LEMMA NaechsterAufrufTyp ==
  ASSUME NEW art, NEW n, NEW v
  PROVE  NaechsterAufruf(art, n, v) \subseteq [art: Aufruf, versuch: {1, 2}]
  BY DEF NaechsterAufruf, Aufruf

\* What a worker does after a call is well typed, and it is idle or has a row.
LEMMA NachAufrufenTyp ==
  ASSUME NEW j \in Jobs, NEW n \in SUBSET [art: Aufruf, versuch: {1, 2}]
  PROVE  /\ NachAufrufen(j, n) \in Taetigkeit
         /\ NachAufrufen(j, n).phase # "frei" => NachAufrufen(j, n).job \in Jobs
<1>1. CASE n = {}
  BY <1>1, FreiTyp DEF NachAufrufen, Frei
<1>2. CASE n # {}
  <2> DEFINE c == CHOOSE c \in n : TRUE
  <2>1. c \in n
    BY <1>2
  <2>2. c.art \in Aufruf /\ c.versuch \in {1, 2}
    BY <2>1
  <2>3. NachAufrufen(j, n) = Wartet(j, c.art, c.versuch)
    BY <1>2 DEF NachAufrufen
  <2> HIDE DEF c
  <2>4. QED
    BY <2>2, <2>3, WartetTyp
<1>3. QED
  BY <1>1, <1>2

LEMMA NeueAnfragenTyp ==
  ASSUME NEW w \in Worker, NEW j \in Jobs, NEW n \in SUBSET [art: Aufruf, versuch: {1, 2}]
  PROVE  {NeueAnfrage(w, j, c.art, c.versuch) : c \in n} \subseteq Anfrage
<1>1. \A c \in n : c.art \in Aufruf /\ c.versuch \in {1, 2}
  OBVIOUS
<1>2. QED
  BY <1>1, NeueAnfrageTyp

LEMMA ZeilenTyp ==
  ASSUME NEW z \in Zeile
  PROVE  /\ EndgueltigMarkiert(z) \in Zeile
         /\ Wiedervorgelegt(z) \in Zeile
         /\ \A w \in Worker : z.versuche < MaxVersuche => Vergeben(z, w) \in Zeile
<1>1. EndgueltigMarkiert(z) \in Zeile
  BY DEF Zeile, Status, EndgueltigMarkiert
<1>2. Wiedervorgelegt(z) \in Zeile
  BY MaxVersucheAssumption DEF Zeile, Status, Wiedervorgelegt
<1>3. ASSUME NEW w \in Worker, z.versuche < MaxVersuche
      PROVE  Vergeben(z, w) \in Zeile
  <2>1. z.versuche + 1 \in 0..MaxVersuche
    BY <1>3, MaxVersucheAssumption DEF Zeile
  <2>2. QED
    BY <2>1 DEF Zeile, Status, Vergeben
<1>4. QED
  BY <1>1, <1>2, <1>3

-----------------------------------------------------------------------------
LEMMA TypInit == Init => Typ
  BY FreiTyp, MaxVersucheAssumption
  DEF Init, Typ, TypeInv, TaetigHatJob, Zeile, Status, Frei

\* The end of a handler leaves requests and workers well typed.
LEMMA EndeTyp ==
  ASSUME Typ, NEW a \in anfragen, NEW ok \in BOOLEAN, Ende(a, ok)
  PROVE  /\ anfragen' \subseteq Anfrage
         /\ worker' \in [Worker -> Taetigkeit]
         /\ TaetigHatJob'
<1> DEFINE n == IF ok THEN {} ELSE NaechsterAufruf(a.art, a.versuch, FALSE)
<1>1. a.w \in Worker /\ a.j \in Jobs
  BY DEF Typ, TypeInv, Anfrage
<1>2. n \in SUBSET [art: Aufruf, versuch: {1, 2}]
  BY NaechsterAufrufTyp
<1>3. anfragen' \subseteq Anfrage
  <2>1. anfragen' \subseteq anfragen \cup {NeueAnfrage(a.w, a.j, c.art, c.versuch) : c \in n}
    BY DEF Ende
  <2>2. QED
    BY <1>1, <1>2, <2>1, NeueAnfragenTyp DEF Typ, TypeInv
<1>4. worker' = worker \/ worker' = [worker EXCEPT ![a.w] = NachAufrufen(a.j, n)]
  BY DEF Ende
<1> HIDE DEF n
<1>5. CASE worker' = worker
  BY <1>3, <1>5 DEF Typ, TypeInv, TaetigHatJob
<1>6. CASE worker' = [worker EXCEPT ![a.w] = NachAufrufen(a.j, n)]
  <2>1. worker' \in [Worker -> Taetigkeit]
    BY <1>1, <1>2, <1>6, NachAufrufenTyp DEF Typ, TypeInv
  <2>2. ASSUME NEW w \in Worker, worker'[w].phase # "frei"
        PROVE  worker'[w].job \in Jobs
    <3>1. CASE w = a.w
      <4>1. worker'[w] = NachAufrufen(a.j, n)
        BY <1>1, <1>6, <3>1 DEF Typ, TypeInv
      <4>2. QED
        BY <1>1, <1>2, <2>2, <4>1, NachAufrufenTyp
    <3>2. CASE w # a.w
      BY <1>6, <2>2, <3>2 DEF Typ, TypeInv, TaetigHatJob
    <3>3. QED
      BY <3>1, <3>2
  <2>3. QED
    BY <1>3, <2>1, <2>2 DEF TaetigHatJob
<1>7. QED
  BY <1>4, <1>5, <1>6

LEMMA WeiterTyp ==
  ASSUME Typ, NEW a \in anfragen, NEW p \in {"markiert", "frisch"} \cup Schreibend, Weiter(a, p)
  PROVE  /\ anfragen' \subseteq Anfrage
         /\ worker' \in [Worker -> Taetigkeit]
         /\ TaetigHatJob'
  BY DEF Typ, TypeInv, TaetigHatJob, Weiter, Anfrage, Schreibend

\* One write of a report: the phase it leads to, and what it touches.
LEMMA TeilschrittPhase ==
  ASSUME NEW a, Teilschritt(a)
  PROVE  \E p \in Schreibend : Schreibt(a, p) /\ Weiter(a, p)
  BY DEF Teilschritt, Schreibt, Schreibend, Schreiben, VeraltetMarkieren, InhaltSchreiben, FolgeSchreiben

LEMMA TeilschrittFakten ==
  ASSUME NEW a, Teilschritt(a)
  PROVE  /\ job' = job /\ sperre' = sperre /\ verbucht' = verbucht
         /\ geschrieben \subseteq geschrieben'
         /\ geschrieben' \subseteq geschrieben \cup ({a.j} \X Teil)
         /\ a.phase \in {"angenommen"} \cup Schreibend
  BY DEF Teilschritt, Teil, Schreibend, Schreiben, VeraltetMarkieren, InhaltSchreiben, FolgeSchreiben

LEMMA VerlassenTyp ==
  ASSUME Typ, NEW w, NEW folge \in SUBSET Anfrage, Verlassen(w, folge)
  PROVE  anfragen' \subseteq Anfrage
<1> DEFINE eigene == {a \in anfragen : a.w = w /\ a.offen}
<1>1. PICK verloren \in SUBSET {a \in eigene : a.phase = "neu"} :
        anfragen' = (anfragen \ eigene) \cup folge
                      \cup {[a EXCEPT !.offen = FALSE, !.versuch = 1] : a \in eigene \ verloren}
  BY DEF Verlassen
<1>2. \A a \in anfragen : [a EXCEPT !.offen = FALSE, !.versuch = 1] \in Anfrage
  BY DEF Typ, TypeInv, Anfrage
<1>3. QED
  BY <1>1, <1>2 DEF Typ, TypeInv

LEMMA SperreTyp ==
  ASSUME Typ, NEW a \in anfragen
  PROVE  /\ SperreNachAntwort(a) \in [Worker -> [eigen: BOOLEAN, gebucht: BOOLEAN]]
         /\ [SperreNachAntwort(a) EXCEPT ![a.w].gebucht = TRUE]
               \in [Worker -> [eigen: BOOLEAN, gebucht: BOOLEAN]]
  BY DEF Typ, TypeInv, Anfrage, SperreNachAntwort

LEMMA TypStep == Typ /\ [Next]_vars => Typ'
<1> SUFFICES ASSUME Typ, [Next]_vars PROVE Typ'
  OBVIOUS
<1> USE DEF Typ
<1>1. ASSUME NEW j \in Jobs, LegeJobAn(j) PROVE Typ'
  BY <1>1 DEF LegeJobAn, TypeInv, TaetigHatJob, Zeile, Status
<1>2. ASSUME NEW w \in Worker, NEW j \in Jobs, LeaseJob(w, j) PROVE Typ'
  <2>1. job[j] \in Zeile /\ job[j].versuche < MaxVersuche
    BY <1>2 DEF LeaseJob, LeaseAus, ErsterVon, Vergebbar, TypeInv
  <2>2. job' \in [Jobs -> Zeile]
    BY <1>2, <2>1, ZeilenTyp DEF LeaseJob, TypeInv
  <2>3. anfragen' \subseteq Anfrage
    BY <1>2, NeueAnfrageTyp DEF LeaseJob, TypeInv, Aufruf
  <2>4. Wartet(j, "lease", 1) \in Taetigkeit /\ Wartet(j, "lease", 1).job = j
    BY WartetTyp DEF Aufruf
  <2>5. QED
    BY <1>2, <2>2, <2>3, <2>4 DEF LeaseJob, TypeInv, TaetigHatJob
<1>3. ASSUME NEW w \in Worker, LeaseLeer(w) PROVE Typ'
  BY <1>3, ZeilenTyp DEF LeaseLeer, TypeInv, TaetigHatJob
<1>4. ASSUME NEW j \in Jobs, LeaseLaeuftAb(j) \/ ZwoelfStunden(j) PROVE Typ'
  BY <1>4 DEF LeaseLaeuftAb, ZwoelfStunden, TypeInv, TaetigHatJob, Zeile
<1>5. ASSUME Wiedervorlage PROVE Typ'
  BY <1>5, ZeilenTyp DEF Wiedervorlage, TypeInv, TaetigHatJob
<1>6. ASSUME NEW w \in Worker, NEW art \in Meldung, Melden(w, art) PROVE Typ'
  <2>1. worker[w].job \in Jobs /\ art \in Aufruf
    BY <1>6 DEF Melden, TaetigHatJob, Aufruf
  <2>2. Wartet(worker[w].job, art, 1) \in Taetigkeit
        /\ Wartet(worker[w].job, art, 1).job = worker[w].job
    BY <2>1, WartetTyp
  <2>3. NeueAnfrage(w, worker[w].job, art, 1) \in Anfrage
    BY <2>1, NeueAnfrageTyp
  <2>4. QED
    BY <1>6, <2>1, <2>2, <2>3 DEF Melden, TypeInv, TaetigHatJob
<1>7. ASSUME NEW w \in Worker, VerbindungWeg(w) PROVE Typ'
  <2> DEFINE n == NaechsterAufruf(worker[w].art, worker[w].versuch, TRUE)
             j == worker[w].job
             folge == {NeueAnfrage(w, j, c.art, c.versuch) : c \in n}
  <2>1. j \in Jobs
    BY <1>7 DEF VerbindungWeg, TaetigHatJob
  <2>2. n \in SUBSET [art: Aufruf, versuch: {1, 2}]
    BY NaechsterAufrufTyp
  <2>3. folge \in SUBSET Anfrage
    BY <2>1, <2>2, NeueAnfragenTyp
  <2>4. Verlassen(w, folge) /\ worker' = [worker EXCEPT ![w] = NachAufrufen(j, n)]
    BY <1>7 DEF VerbindungWeg
  <2> HIDE DEF n, folge
  <2>5. anfragen' \subseteq Anfrage
    BY <2>3, <2>4, VerlassenTyp
  <2>6. worker' \in [Worker -> Taetigkeit] /\ TaetigHatJob'
    BY <2>1, <2>2, <2>4, NachAufrufenTyp DEF TypeInv, TaetigHatJob
  <2>7. QED
    BY <1>7, <2>5, <2>6 DEF VerbindungWeg, TypeInv
<1>8. ASSUME NEW w \in Worker, StundeVorbei(w) PROVE Typ'
  BY <1>8 DEF StundeVorbei, TypeInv, TaetigHatJob
<1>9. ASSUME NEW w \in Worker, WorkerNeustart(w) PROVE Typ'
  <2>1. anfragen' \subseteq Anfrage
    BY <1>9, VerlassenTyp DEF WorkerNeustart
  <2>2. worker' \in [Worker -> Taetigkeit] /\ TaetigHatJob'
    BY <1>9, FreiTyp DEF WorkerNeustart, TypeInv, TaetigHatJob, Frei
  <2>3. QED
    BY <1>9, <2>1, <2>2 DEF WorkerNeustart, TypeInv
<1>10. ASSUME NEW a \in anfragen, Bearbeiten(a) PROVE Typ'
  <2>0. a \in Anfrage /\ a.w \in Worker /\ a.j \in Jobs /\ job[a.j] \in Zeile
    BY DEF TypeInv, Anfrage
  <2>1. CASE ErschoepfteMarkieren(a)
    BY <2>1, WeiterTyp, ZeilenTyp DEF ErschoepfteMarkieren, TypeInv
  <2>2. CASE LeaseBeantworten(a)
    <3>1. job' \in [Jobs -> Zeile]
      BY <2>2 DEF LeaseBeantworten, TypeInv, Zeile, Status
    <3>2. worker' \in [Worker -> Taetigkeit] /\ TaetigHatJob'
      BY <2>0, <2>2 DEF LeaseBeantworten, TypeInv, TaetigHatJob, Taetigkeit, Frei, Aufruf, Meldung
    <3>3. QED
      BY <2>2, <3>1, <3>2 DEF LeaseBeantworten, TypeInv
  <2>3. CASE WiederholungPruefen(a)
    <3>1. CASE Wiederholt(a)
      BY <2>3, <3>1, EndeTyp, SperreTyp DEF WiederholungPruefen, TypeInv
    <3>2. CASE ~Wiederholt(a)
      BY <2>3, <3>2, WeiterTyp DEF WiederholungPruefen, TypeInv
    <3>3. QED
      BY <3>1, <3>2
  <2>4. CASE LeasePruefen(a)
    <3>1. CASE LeaseGueltig(a)
      <4>1. Angenommen(a) \in Anfrage
        <5>1. (IF a.art = "fehler" THEN job[a.j].versuche ELSE 0) \in 0..MaxVersuche
          BY <2>0, MaxVersucheAssumption DEF Zeile
        <5>2. QED
          BY <2>0, <5>1 DEF Angenommen, Anfrage
      <4>2. QED
        BY <2>4, <3>1, <4>1 DEF LeasePruefen, TypeInv, TaetigHatJob
    <3>2. CASE ~LeaseGueltig(a)
      BY <2>4, <3>2, EndeTyp DEF LeasePruefen, TypeInv
    <3>3. QED
      BY <3>1, <3>2
  <2>5. CASE Zurueckstellen(a)
    <3>1. job' \in [Jobs -> Zeile]
      BY <2>0, <2>5 DEF Zurueckstellen, TypeInv, Zeile, Status
    <3>2. QED
      BY <2>5, <3>1, EndeTyp, SperreTyp DEF Zurueckstellen, TypeInv
  <2>6. CASE Teilschritt(a)
    <3>1. PICK p \in Schreibend : Schreibt(a, p) /\ Weiter(a, p)
      BY <2>6, TeilschrittPhase
    <3>2. job' = job /\ sperre' = sperre /\ verbucht' = verbucht /\ geschrieben' \subseteq Jobs \X Teil
      BY <2>0, <2>6, TeilschrittFakten DEF TypeInv
    <3>3. QED
      BY <3>1, <3>2, WeiterTyp DEF TypeInv
  <2>7. CASE SchreibenScheitert(a)
    BY <2>7, EndeTyp DEF SchreibenScheitert, TypeInv
  <2>8. CASE Verbuchen(a)
    <3>1. job' \in [Jobs -> Zeile]
      BY <2>0, <2>8 DEF Verbuchen, TypeInv, Zeile, Status
    <3>2. verbucht' \subseteq Jobs \X Worker
      BY <2>0, <2>8 DEF Verbuchen, TypeInv
    <3>3. QED
      BY <2>8, <3>1, <3>2, EndeTyp DEF Verbuchen, TypeInv
  <2>9. CASE FehlerBuchen(a)
    <3>1. job' \in [Jobs -> Zeile]
      BY <2>0, <2>9 DEF FehlerBuchen, TypeInv, Zeile, Status
    <3>2. QED
      BY <2>9, <3>1, EndeTyp DEF FehlerBuchen, TypeInv
  <2>10. QED
    BY <1>10, <2>1, <2>2, <2>3, <2>4, <2>5, <2>6, <2>7, <2>8, <2>9 DEF Bearbeiten, Teilschritt
<1>11. CASE GatewayNeustart
  BY <1>11 DEF GatewayNeustart, TypeInv, TaetigHatJob
<1>12. CASE UNCHANGED vars
  BY <1>12 DEF vars, TypeInv, TaetigHatJob
<1>13. QED
  BY <1>1, <1>2, <1>3, <1>4, <1>5, <1>6, <1>7, <1>8, <1>9, <1>10, <1>11, <1>12 DEF Next, Zeit

\* Rows, requests and workers keep their types, and a busy worker has a row.
THEOREM TypKorrekt == Spec => []Typ
  BY TypInit, TypStep, PTL DEF Spec

THEOREM TypeInvImmer == Spec => []TypeInv
  BY TypKorrekt, PTL DEF Typ

-----------------------------------------------------------------------------
(* Where a request of the next state comes from: it is new, it is an old one *)
(* whose caller may be gone, or a handler has just moved it to this phase.   *)

Unveraendert(b) ==
    \/ b.phase \in {"vergeben", "markiert", "neu", "frisch"}
    \/ \E a \in anfragen : a.j = b.j /\ a.phase = b.phase /\ a.stand = b.stand

Herkunft(b) ==
    \/ Unveraendert(b)
    \/ \E a \in anfragen : LeasePruefen(a) /\ LeaseGueltig(a) /\ b = Angenommen(a)
    \/ \E a \in anfragen : \E p \in Schreibend : Schreibt(a, p) /\ b = [a EXCEPT !.phase = p]

LEMMA NeueAnfragePhase ==
  ASSUME NEW w, NEW j, NEW art, NEW n
  PROVE  NeueAnfrage(w, j, art, n).phase \in {"vergeben", "neu"}
  BY DEF NeueAnfrage

LEMMA EndeHerkunft ==
  ASSUME NEW a \in anfragen, NEW ok, Ende(a, ok), NEW b \in anfragen'
  PROVE  Unveraendert(b)
<1>1. b \in anfragen \/ \E c \in [art: Meldung, versuch: {1, 2}] :
                             b = NeueAnfrage(a.w, a.j, c.art, c.versuch)
  BY DEF Ende, NaechsterAufruf
<1>2. QED
  BY <1>1, NeueAnfragePhase DEF Unveraendert

LEMMA VerlassenHerkunft ==
  ASSUME Typ, NEW w, NEW folge, Verlassen(w, folge), \A c \in folge : c.phase \in {"vergeben", "neu"},
         NEW b \in anfragen'
  PROVE  Unveraendert(b)
<1>1. b \in anfragen \/ b \in folge \/ \E a \in anfragen : b = [a EXCEPT !.offen = FALSE, !.versuch = 1]
  BY DEF Verlassen
<1>2. ASSUME NEW a \in anfragen, b = [a EXCEPT !.offen = FALSE, !.versuch = 1]
      PROVE  a.j = b.j /\ a.phase = b.phase /\ a.stand = b.stand
  BY <1>2 DEF Typ, TypeInv, Anfrage
<1>3. QED
  BY <1>1, <1>2 DEF Unveraendert

LEMMA WeiterHerkunft ==
  ASSUME Typ, NEW a \in anfragen, NEW phase \in {"markiert", "frisch"}, Weiter(a, phase), NEW b \in anfragen'
  PROVE  Unveraendert(b)
  BY DEF Typ, TypeInv, Anfrage, Weiter, Unveraendert

LEMMA HerkunftDerAnfragen ==
  ASSUME Typ, [Next]_vars, NEW b \in anfragen'
  PROVE  Herkunft(b)
<1> USE DEF Herkunft
<1>1. ASSUME anfragen' = anfragen PROVE Herkunft(b)
  BY <1>1 DEF Unveraendert
<1>2. ASSUME NEW w \in Worker, NEW j \in Jobs, LeaseJob(w, j) PROVE Herkunft(b)
  BY <1>2, NeueAnfragePhase DEF LeaseJob, Unveraendert
<1>3. ASSUME NEW w \in Worker, NEW art \in Meldung, Melden(w, art) PROVE Herkunft(b)
  BY <1>3, NeueAnfragePhase DEF Melden, Unveraendert
<1>4. ASSUME NEW w \in Worker, VerbindungWeg(w) PROVE Herkunft(b)
  <2> DEFINE folge == {NeueAnfrage(w, worker[w].job, c.art, c.versuch) :
                         c \in NaechsterAufruf(worker[w].art, worker[w].versuch, TRUE)}
  <2>1. Verlassen(w, folge)
    BY <1>4 DEF VerbindungWeg
  <2>2. \A c \in folge : c.phase \in {"vergeben", "neu"}
    BY NeueAnfragePhase
  <2> HIDE DEF folge
  <2>3. QED
    BY <2>1, <2>2, VerlassenHerkunft
<1>5. ASSUME NEW w \in Worker, WorkerNeustart(w) PROVE Herkunft(b)
  BY <1>5, VerlassenHerkunft DEF WorkerNeustart
<1>6. ASSUME NEW a \in anfragen, Bearbeiten(a) PROVE Herkunft(b)
  <2>1. CASE ErschoepfteMarkieren(a)
    BY <2>1, WeiterHerkunft DEF ErschoepfteMarkieren
  <2>2. CASE LeaseBeantworten(a)
    BY <2>2 DEF LeaseBeantworten, Unveraendert
  <2>3. CASE WiederholungPruefen(a)
    BY <2>3, WeiterHerkunft, EndeHerkunft DEF WiederholungPruefen
  <2>4. CASE LeasePruefen(a)
    <3>1. CASE LeaseGueltig(a)
      BY <2>4, <3>1 DEF LeasePruefen, Unveraendert
    <3>2. CASE ~LeaseGueltig(a)
      BY <2>4, <3>2, EndeHerkunft DEF LeasePruefen
    <3>3. QED
      BY <3>1, <3>2
  <2>5. CASE Zurueckstellen(a)
    BY <2>5, EndeHerkunft DEF Zurueckstellen
  <2>6. CASE Teilschritt(a)
    <3>1. PICK p \in Schreibend : Schreibt(a, p) /\ Weiter(a, p)
      BY <2>6, TeilschrittPhase
    <3>2. b \in anfragen \/ b = [a EXCEPT !.phase = p]
      BY <3>1 DEF Weiter
    <3>3. QED
      BY <3>1, <3>2 DEF Unveraendert
  <2>7. CASE SchreibenScheitert(a)
    BY <2>7, EndeHerkunft DEF SchreibenScheitert
  <2>8. CASE Verbuchen(a)
    BY <2>8, EndeHerkunft DEF Verbuchen
  <2>9. CASE FehlerBuchen(a)
    BY <2>9, EndeHerkunft DEF FehlerBuchen
  <2>10. QED
    BY <1>6, <2>1, <2>2, <2>3, <2>4, <2>5, <2>6, <2>7, <2>8, <2>9 DEF Bearbeiten, Teilschritt
<1>7. CASE GatewayNeustart
  BY <1>7 DEF GatewayNeustart
<1>8. QED
  BY <1>1, <1>2, <1>3, <1>4, <1>5, <1>6, <1>7
  DEF Next, Zeit, LegeJobAn, LeaseLeer, LeaseLaeuftAb, ZwoelfStunden, Wiedervorlage, StundeVorbei, vars

-----------------------------------------------------------------------------
(* A done job is written.                                                    *)

\* A handler that is past a write has made it.
GeschriebenBelegt ==
    \A a \in anfragen :
        /\ a.phase \in Schreibend => <<a.j, "registerblatt">> \in geschrieben
        /\ a.phase = "geschrieben" => Eingetragen(a.j)

ErledigtInv == ErledigtIstGeschrieben /\ GeschriebenBelegt

\* Which rows a step marks as done, and what it books.
LEMMA NurVerbuchenErledigt ==
  ASSUME Typ, [Next]_vars
  PROVE  /\ \A j \in Jobs : job'[j].status = "erledigt" =>
               \/ job[j].status = "erledigt"
               \/ \E a \in anfragen : a.phase = "geschrieben" /\ a.j = j
         /\ \A p \in verbucht' \ verbucht :
               \E a \in anfragen : a.phase = "geschrieben" /\ a.j = p[1]
         /\ geschrieben \subseteq geschrieben'
<1> DEFINE Ziel == /\ \A j \in Jobs : job'[j].status = "erledigt" =>
                        \/ job[j].status = "erledigt"
                        \/ \E a \in anfragen : a.phase = "geschrieben" /\ a.j = j
                   /\ \A p \in verbucht' \ verbucht :
                        \E a \in anfragen : a.phase = "geschrieben" /\ a.j = p[1]
                   /\ geschrieben \subseteq geschrieben'
<1> SUFFICES Ziel
  OBVIOUS
<1> job \in [Jobs -> Zeile] /\ \A a \in anfragen : a \in Anfrage
  BY DEF Typ, TypeInv
<1>1. ASSUME job' = job, verbucht' = verbucht, geschrieben \subseteq geschrieben' PROVE Ziel
  BY <1>1
<1>2. ASSUME NEW j \in Jobs, LegeJobAn(j) PROVE Ziel
  BY <1>2 DEF LegeJobAn, Zeile
<1>3. ASSUME NEW w \in Worker, NEW j \in Jobs, LeaseJob(w, j) PROVE Ziel
  BY <1>3 DEF LeaseJob, Vergeben, Zeile
<1>4. ASSUME NEW w \in Worker, LeaseLeer(w) PROVE Ziel
  BY <1>4 DEF LeaseLeer, EndgueltigMarkiert, Zeile
<1>5. ASSUME NEW j \in Jobs, LeaseLaeuftAb(j) \/ ZwoelfStunden(j) PROVE Ziel
  BY <1>5 DEF LeaseLaeuftAb, ZwoelfStunden, Zeile
<1>6. ASSUME Wiedervorlage PROVE Ziel
  BY <1>6 DEF Wiedervorlage, Wiedervorgelegt, Zeile
<1>7. ASSUME NEW a \in anfragen, ErschoepfteMarkieren(a) PROVE Ziel
  BY <1>7 DEF ErschoepfteMarkieren, EndgueltigMarkiert, Zeile
<1>8. ASSUME NEW a \in anfragen, LeaseBeantworten(a) PROVE Ziel
  BY <1>8 DEF LeaseBeantworten, Zeile
<1>9. ASSUME NEW a \in anfragen, Zurueckstellen(a) \/ FehlerBuchen(a) PROVE Ziel
  <2>1. \A j \in Jobs : job'[j].status = "erledigt" => job[j].status = "erledigt"
    <3>1. CASE Zurueckstellen(a)
      BY <3>1 DEF Zurueckstellen, Zeile, Anfrage
    <3>2. CASE FehlerBuchen(a)
      BY <3>2 DEF FehlerBuchen, Zeile, Anfrage
    <3>3. QED
      BY <1>9, <3>1, <3>2
  <2>2. QED
    BY <1>9, <2>1 DEF Zurueckstellen, FehlerBuchen
<1>10. ASSUME NEW a \in anfragen, Verbuchen(a) PROVE Ziel
  BY <1>10 DEF Verbuchen, Zeile, Anfrage
<1>11. ASSUME NEW a \in anfragen, Teilschritt(a) PROVE Ziel
  BY <1>1, <1>11, TeilschrittFakten
<1>12. QED
  BY <1>1, <1>2, <1>3, <1>4, <1>5, <1>6, <1>7, <1>8, <1>9, <1>10, <1>11
  DEF Next, Zeit, Bearbeiten, Teilschritt, Melden, VerbindungWeg, StundeVorbei, WorkerNeustart,
      GatewayNeustart, WiederholungPruefen, LeasePruefen, SchreibenScheitert, vars

LEMMA ErledigtStep == Typ /\ ErledigtInv /\ [Next]_vars => ErledigtInv'
<1> SUFFICES ASSUME Typ, ErledigtInv, [Next]_vars PROVE ErledigtInv'
  OBVIOUS
<1>0. \A j : Eingetragen(j) => Eingetragen(j)'
  BY NurVerbuchenErledigt DEF Eingetragen
<1>1. ErledigtIstGeschrieben'
  BY <1>0, NurVerbuchenErledigt DEF ErledigtInv, ErledigtIstGeschrieben, GeschriebenBelegt
<1>2. ASSUME NEW b \in anfragen'
      PROVE  /\ b.phase \in Schreibend => <<b.j, "registerblatt">> \in geschrieben'
             /\ b.phase = "geschrieben" => Eingetragen(b.j)'
  <2>1. Herkunft(b) /\ geschrieben \subseteq geschrieben'
    BY HerkunftDerAnfragen, NurVerbuchenErledigt
  <2>2. CASE Unveraendert(b)
    <3>1. CASE b.phase \in {"vergeben", "markiert", "neu", "frisch"}
      BY <3>1 DEF Schreibend
    <3>2. CASE \E a \in anfragen : a.j = b.j /\ a.phase = b.phase /\ a.stand = b.stand
      BY <1>0, <2>1, <3>2 DEF ErledigtInv, GeschriebenBelegt
    <3>3. QED
      BY <2>2, <3>1, <3>2 DEF Unveraendert
  <2>3. CASE \E a \in anfragen : b = Angenommen(a)
    BY <2>3 DEF Angenommen, Schreibend, Typ, TypeInv, Anfrage
  <2>4. ASSUME NEW a \in anfragen, NEW p \in Schreibend, Schreibt(a, p), b = [a EXCEPT !.phase = p]
        PROVE  /\ <<b.j, "registerblatt">> \in geschrieben'
               /\ b.phase = "geschrieben" => Eingetragen(b.j)'
    <3>1. b.j = a.j /\ b.phase = p
      BY <2>4 DEF Typ, TypeInv, Anfrage
    <3>2. CASE Schreiben(a) /\ p \in {"geaendert", "eingetragen"}
      BY <3>1, <3>2 DEF Schreiben
    <3>3. CASE VeraltetMarkieren(a) /\ p = "eingetragen"
      BY <2>1, <3>1, <3>3 DEF VeraltetMarkieren, ErledigtInv, GeschriebenBelegt, Schreibend
    <3>4. CASE InhaltSchreiben(a) /\ p = "ergaenzt"
      BY <2>1, <3>1, <3>4 DEF InhaltSchreiben, ErledigtInv, GeschriebenBelegt, Schreibend
    <3>5. CASE FolgeSchreiben(a) /\ p = "geschrieben"
      <4>1. <<a.j, "registerblatt">> \in geschrieben
        BY <3>5 DEF FolgeSchreiben, ErledigtInv, GeschriebenBelegt, Schreibend
      <4>2. geschrieben' = geschrieben \cup {<<a.j, "folge">>}
        BY <3>5 DEF FolgeSchreiben
      <4>3. QED
        BY <3>1, <4>1, <4>2 DEF Eingetragen
    <3>6. QED
      BY <2>4, <3>2, <3>3, <3>4, <3>5 DEF Schreibt
  <2>5. QED
    BY <2>1, <2>2, <2>3, <2>4 DEF Herkunft
<1>3. QED
  BY <1>1, <1>2 DEF ErledigtInv, GeschriebenBelegt

\* A job is done only when the register sheets of a result and all that follows
\* from them are written, whichever reports broke off half-way before.
THEOREM ErledigtImmerGeschrieben == Spec => []ErledigtIstGeschrieben
<1>1. Init => ErledigtInv
  BY DEF Init, ErledigtInv, ErledigtIstGeschrieben, GeschriebenBelegt
<1>2. QED
  BY <1>1, ErledigtStep, TypKorrekt, PTL DEF Spec, ErledigtInv

-----------------------------------------------------------------------------
(* A job is given up only after all of its attempts.                         *)

Tragend(a) == a.phase \in {"angenommen"} \cup Schreibend

\* The count a handler read is never ahead of the row, and no accepted report
\* is in flight for a row that waits for its Wiedervorlage.
StandGedeckt == \A a \in anfragen : Tragend(a) => a.stand <= job[a.j].versuche

RuhtOhneAnfrage ==
    \A a \in anfragen : Tragend(a) => ~(job[a.j].status = "fehlgeschlagen" /\ job[a.j].faellig)

AufgegebenInv == AufgegebenErstNachAllenVersuchen /\ StandGedeckt /\ RuhtOhneAnfrage

\* What a step may do to one row, as far as the attempts are concerned.
ZeileSchritt(j) ==
    \/ job'[j] = job[j]
    \/ /\ job'[j].status # "fehlgeschlagen"
       /\ job'[j].versuche \in {job[j].versuche, job[j].versuche + 1}
    \/ /\ job'[j].status = "fehlgeschlagen" /\ ~job'[j].faellig
       /\ job'[j].versuche = job[j].versuche
       /\ \/ job[j].versuche >= MaxVersuche
          \/ \E a \in anfragen : Tragend(a) /\ a.j = j /\ a.stand >= MaxVersuche
    \/ /\ job'[j].status = "fehlgeschlagen" /\ job[j].status = "fehlgeschlagen"
       /\ job'[j].versuche = job[j].versuche
       /\ \A a \in anfragen : a.j # j
    \/ /\ job'[j].status = "offen"
       /\ job[j].status = "fehlgeschlagen" /\ job[j].faellig

LEMMA SchritteDerZeilen ==
  ASSUME Typ, [Next]_vars, NEW j \in Jobs
  PROVE  ZeileSchritt(j)
<1> job \in [Jobs -> Zeile] /\ \A a \in anfragen : a \in Anfrage
  BY DEF Typ, TypeInv
<1> USE DEF ZeileSchritt
<1>1. ASSUME job' = job PROVE ZeileSchritt(j)
  BY <1>1
<1>2. ASSUME NEW k \in Jobs, LegeJobAn(k) PROVE ZeileSchritt(j)
  BY <1>2 DEF LegeJobAn, Zeile
<1>3. ASSUME NEW w \in Worker, NEW k \in Jobs, LeaseJob(w, k) PROVE ZeileSchritt(j)
  BY <1>3 DEF LeaseJob, Vergeben, Zeile
<1>4. ASSUME job'[j] = EndgueltigMarkiert(job[j]) PROVE ZeileSchritt(j)
  BY <1>4 DEF EndgueltigMarkiert, Ausgeschoepft, Zeile
<1>5. ASSUME NEW k \in Jobs, LeaseLaeuftAb(k) PROVE ZeileSchritt(j)
  BY <1>5 DEF LeaseLaeuftAb, Zeile
<1>6. ASSUME NEW k \in Jobs, ZwoelfStunden(k) PROVE ZeileSchritt(j)
  BY <1>6 DEF ZwoelfStunden, Zeile
<1>7. ASSUME Wiedervorlage PROVE ZeileSchritt(j)
  BY <1>7 DEF Wiedervorlage, Wiedervorgelegt, Zeile
<1>8. ASSUME NEW a \in anfragen, LeaseBeantworten(a) PROVE ZeileSchritt(j)
  BY <1>8 DEF LeaseBeantworten, Zeile
<1>9. ASSUME NEW a \in anfragen, Zurueckstellen(a) PROVE ZeileSchritt(j)
  BY <1>9 DEF Zurueckstellen, Zeile, Anfrage
<1>10. ASSUME NEW a \in anfragen, Verbuchen(a) PROVE ZeileSchritt(j)
  BY <1>10 DEF Verbuchen, Zeile, Anfrage
<1>11. ASSUME NEW a \in anfragen, FehlerBuchen(a) PROVE ZeileSchritt(j)
  <2>1. CASE a.j # j
    BY <1>11, <2>1 DEF FehlerBuchen, Anfrage
  <2>2. CASE a.j = j /\ Endgueltig(a.stand)
    BY <1>11, <2>2 DEF FehlerBuchen, Endgueltig, Tragend, Zeile, Anfrage
  <2>3. CASE a.j = j /\ ~Endgueltig(a.stand)
    BY <1>11, <2>3 DEF FehlerBuchen, Zeile, Anfrage
  <2>4. QED
    BY <2>1, <2>2, <2>3
<1>12. QED
  BY <1>1, <1>2, <1>3, <1>4, <1>5, <1>6, <1>7, <1>8, <1>9, <1>10, <1>11
  DEF Next, Zeit, Bearbeiten, LeaseLeer, ErschoepfteMarkieren, Melden, VerbindungWeg, StundeVorbei,
      WorkerNeustart, GatewayNeustart, WiederholungPruefen, LeasePruefen, Schreiben, VeraltetMarkieren,
      InhaltSchreiben, FolgeSchreiben, SchreibenScheitert, vars

\* Where an accepted report of the next state comes from.
LEMMA TragendHerkunft ==
  ASSUME Typ, [Next]_vars, NEW b \in anfragen', Tragend(b)
  PROVE  \/ \E a \in anfragen : Tragend(a) /\ a.j = b.j /\ a.stand = b.stand
         \/ /\ job' = job /\ job[b.j].status = "laeuft"
            /\ b.stand \in {0, job[b.j].versuche}
<1>1. Herkunft(b) /\ \A a \in anfragen : a \in Anfrage
  BY HerkunftDerAnfragen DEF Typ, TypeInv
<1>2. CASE Unveraendert(b)
  BY <1>2 DEF Unveraendert, Tragend, Schreibend
<1>3. CASE \E a \in anfragen : LeasePruefen(a) /\ LeaseGueltig(a) /\ b = Angenommen(a)
  BY <1>1, <1>3 DEF LeasePruefen, LeaseGueltig, Angenommen, Anfrage
<1>4. ASSUME NEW a \in anfragen, NEW p \in Schreibend, Schreibt(a, p), b = [a EXCEPT !.phase = p]
      PROVE  Tragend(a) /\ a.j = b.j /\ a.stand = b.stand
  <2>1. Tragend(a)
    BY <1>4, TeilschrittFakten DEF Schreibt, Teilschritt, Tragend
  <2>2. QED
    BY <1>1, <1>4, <2>1 DEF Anfrage
<1>5. QED
  BY <1>1, <1>2, <1>3, <1>4 DEF Herkunft

LEMMA AufgegebenStep == Typ /\ AufgegebenInv /\ [Next]_vars => AufgegebenInv'
<1> SUFFICES ASSUME Typ, AufgegebenInv, [Next]_vars PROVE AufgegebenInv'
  OBVIOUS
<1>0. /\ job \in [Jobs -> Zeile] /\ job' \in [Jobs -> Zeile]
      /\ \A a \in anfragen : a \in Anfrage
      /\ \A b \in anfragen' : b \in Anfrage
  BY TypStep DEF Typ, TypeInv
<1>1. ASSUME NEW j \in Jobs, job'[j].status = "fehlgeschlagen" PROVE job'[j].versuche = MaxVersuche
  <2>1. ZeileSchritt(j)
    BY SchritteDerZeilen
  <2>2. job[j].versuche \in 0..MaxVersuche /\ job'[j].versuche \in 0..MaxVersuche
    BY <1>0 DEF Zeile
  <2>3. \A a \in anfragen : Tragend(a) /\ a.j = j => a.stand <= job[j].versuche /\ a.stand \in Nat
    BY <1>0 DEF AufgegebenInv, StandGedeckt, Anfrage
  <2>4. job[j].status = "fehlgeschlagen" => job[j].versuche = MaxVersuche
    BY DEF AufgegebenInv, AufgegebenErstNachAllenVersuchen
  <2>5. QED
    BY <1>1, <2>1, <2>2, <2>3, <2>4, MaxVersucheAssumption DEF ZeileSchritt
<1>2. ASSUME NEW b \in anfragen', Tragend(b)
      PROVE  \/ \E a \in anfragen : Tragend(a) /\ a.j = b.j /\ a.stand = b.stand
             \/ /\ job' = job /\ job[b.j].status = "laeuft"
                /\ b.stand \in {0, job[b.j].versuche}
  BY <1>2, TragendHerkunft
<1>3. ASSUME NEW b \in anfragen', Tragend(b)
      PROVE  /\ b.stand <= job'[b.j].versuche
             /\ ~(job'[b.j].status = "fehlgeschlagen" /\ job'[b.j].faellig)
  <2>1. /\ b.j \in Jobs /\ b.stand \in 0..MaxVersuche
        /\ job[b.j].versuche \in 0..MaxVersuche /\ job'[b.j].versuche \in 0..MaxVersuche
    BY <1>0 DEF Anfrage, Zeile
  <2>2. CASE job' = job /\ job[b.j].status = "laeuft" /\ b.stand \in {0, job[b.j].versuche}
    BY <2>1, <2>2, MaxVersucheAssumption
  <2>3. CASE \E a \in anfragen : Tragend(a) /\ a.j = b.j /\ a.stand = b.stand
    <3>1. /\ b.stand <= job[b.j].versuche
          /\ ~(job[b.j].status = "fehlgeschlagen" /\ job[b.j].faellig)
          /\ ~(\A a \in anfragen : a.j # b.j)
      BY <2>3 DEF AufgegebenInv, StandGedeckt, RuhtOhneAnfrage
    <3>2. ZeileSchritt(b.j)
      BY <2>1, SchritteDerZeilen
    <3>3. QED
      BY <2>1, <3>1, <3>2, MaxVersucheAssumption DEF ZeileSchritt
  <2>4. QED
    BY <1>2, <1>3, <2>2, <2>3
<1>4. QED
  BY <1>1, <1>3 DEF AufgegebenInv, AufgegebenErstNachAllenVersuchen, StandGedeckt, RuhtOhneAnfrage, Tragend

\* A job is given up only after all of its attempts, whatever a handler read
\* before it waited.
THEOREM AufgegebenNurErschoepft == Spec => []AufgegebenErstNachAllenVersuchen
<1>1. Init => AufgegebenInv
  BY DEF Init, AufgegebenInv, AufgegebenErstNachAllenVersuchen, StandGedeckt, RuhtOhneAnfrage
<1>2. QED
  BY <1>1, AufgegebenStep, TypKorrekt, PTL DEF Spec, AufgegebenInv

-----------------------------------------------------------------------------
(* A running lease is not handed on.                                         *)

HandAn(j) ==
    /\ job[j].status = "laeuft" /\ ~job[j].faellig
    /\ job'[j].leasedBy # job[j].leasedBy
    => job'[j].leasedBy = Niemand /\ job'[j].status # "laeuft"

LEMMA HandAnStep == Typ /\ [Next]_vars => \A j \in Jobs : HandAn(j)
<1> SUFFICES ASSUME Typ, [Next]_vars, NEW j \in Jobs PROVE HandAn(j)
  OBVIOUS
<1> job \in [Jobs -> Zeile] /\ \A a \in anfragen : a \in Anfrage
  BY DEF Typ, TypeInv
<1> USE DEF HandAn
<1>1. ASSUME job' = job PROVE HandAn(j)
  BY <1>1
<1>2. ASSUME NEW k \in Jobs, LegeJobAn(k) \/ LeaseLaeuftAb(k) \/ ZwoelfStunden(k) PROVE HandAn(j)
  BY <1>2 DEF LegeJobAn, LeaseLaeuftAb, ZwoelfStunden, Zeile
<1>3. ASSUME NEW w \in Worker, NEW k \in Jobs, LeaseJob(w, k) PROVE HandAn(j)
  BY <1>3 DEF LeaseJob, LeaseAus, ErsterVon, Vergebbar
<1>4. ASSUME job'[j] = EndgueltigMarkiert(job[j]) PROVE HandAn(j)
  BY <1>4 DEF EndgueltigMarkiert, Ausgeschoepft
<1>5. ASSUME Wiedervorlage PROVE HandAn(j)
  BY <1>5 DEF Wiedervorlage, Wiedervorgelegt
<1>6. ASSUME NEW a \in anfragen, LeaseBeantworten(a) PROVE HandAn(j)
  BY <1>6 DEF LeaseBeantworten, Ueberholt
<1>7. ASSUME NEW a \in anfragen, Zurueckstellen(a) PROVE HandAn(j)
  BY <1>7 DEF Zurueckstellen, Zeile, Anfrage
<1>8. ASSUME NEW a \in anfragen, FehlerBuchen(a) PROVE HandAn(j)
  BY <1>8 DEF FehlerBuchen, Zeile, Anfrage
<1>9. ASSUME NEW a \in anfragen, Verbuchen(a) PROVE HandAn(j)
  BY <1>9 DEF Verbuchen, Zeile, Anfrage
<1>10. QED
  BY <1>1, <1>2, <1>3, <1>4, <1>5, <1>6, <1>7, <1>8, <1>9
  DEF Next, Zeit, Bearbeiten, LeaseLeer, ErschoepfteMarkieren, Melden, VerbindungWeg, StundeVorbei,
      WorkerNeustart, GatewayNeustart, WiederholungPruefen, LeasePruefen, Schreiben, VeraltetMarkieren,
      InhaltSchreiben, FolgeSchreiben, SchreibenScheitert, vars

\* A row does not pass from one worker to another while its lease runs.
THEOREM KeineWeitergabe == Spec => WiedervergabeNurNachAblauf
<1>1. Typ /\ [Next]_vars => [\A j \in Jobs : HandAn(j)]_vars
  BY HandAnStep
<1>2. QED
  BY <1>1, TypKorrekt, PTL DEF Spec, WiedervergabeNurNachAblauf, HandAn

-----------------------------------------------------------------------------
(* The queue implements the ledger of Auftragsbuch.                          *)

\* A row that runs, or for which an accepted report is in flight, has been
\* handed out since it was created or renewed.
UnterwegsInv ==
    /\ \A j \in Jobs : job[j].status = "laeuft" => job[j].versuche > 0
    /\ \A a \in anfragen : Tragend(a) => job[a.j].versuche > 0

BuchInv == Typ /\ ErledigtInv /\ AufgegebenInv /\ UnterwegsInv

\* A row that starts to run has one attempt more.
LEMMA LaeuftSchritt ==
  ASSUME Typ, [Next]_vars, NEW j \in Jobs, job'[j].status = "laeuft"
  PROVE  \/ job[j].status = "laeuft" /\ job'[j].versuche = job[j].versuche
         \/ job'[j].versuche = job[j].versuche + 1
<1> DEFINE Ziel == \/ job[j].status = "laeuft" /\ job'[j].versuche = job[j].versuche
                   \/ job'[j].versuche = job[j].versuche + 1
<1> SUFFICES Ziel
  OBVIOUS
<1> job \in [Jobs -> Zeile] /\ \A a \in anfragen : a \in Anfrage
  BY DEF Typ, TypeInv
<1>1. ASSUME job' = job PROVE Ziel
  BY <1>1
<1>2. ASSUME NEW k \in Jobs, LegeJobAn(k) \/ LeaseLaeuftAb(k) \/ ZwoelfStunden(k) PROVE Ziel
  BY <1>2 DEF LegeJobAn, LeaseLaeuftAb, ZwoelfStunden, Zeile
<1>3. ASSUME NEW w \in Worker, NEW k \in Jobs, LeaseJob(w, k) PROVE Ziel
  BY <1>3 DEF LeaseJob, Vergeben, Zeile
<1>4. ASSUME job'[j] = EndgueltigMarkiert(job[j]) PROVE Ziel
  BY <1>4 DEF EndgueltigMarkiert, Zeile
<1>5. ASSUME Wiedervorlage PROVE Ziel
  BY <1>5 DEF Wiedervorlage, Wiedervorgelegt, Zeile
<1>6. ASSUME NEW a \in anfragen, LeaseBeantworten(a) PROVE Ziel
  BY <1>6 DEF LeaseBeantworten, Zeile
<1>7. ASSUME NEW a \in anfragen, Zurueckstellen(a) PROVE Ziel
  BY <1>7 DEF Zurueckstellen, Zeile, Anfrage
<1>8. ASSUME NEW a \in anfragen, Verbuchen(a) PROVE Ziel
  BY <1>8 DEF Verbuchen, Zeile, Anfrage
<1>9. ASSUME NEW a \in anfragen, FehlerBuchen(a) PROVE Ziel
  BY <1>9 DEF FehlerBuchen, Zeile, Anfrage
<1>10. QED
  BY <1>1, <1>2, <1>3, <1>4, <1>5, <1>6, <1>7, <1>8, <1>9
  DEF Next, Zeit, Bearbeiten, LeaseLeer, ErschoepfteMarkieren, Melden, VerbindungWeg, StundeVorbei,
      WorkerNeustart, GatewayNeustart, WiederholungPruefen, LeasePruefen, Schreiben, VeraltetMarkieren,
      InhaltSchreiben, FolgeSchreiben, SchreibenScheitert, vars

LEMMA UnterwegsStep == BuchInv /\ [Next]_vars => UnterwegsInv'
<1> SUFFICES ASSUME BuchInv, [Next]_vars PROVE UnterwegsInv'
  OBVIOUS
<1>0. /\ Typ /\ job \in [Jobs -> Zeile] /\ job' \in [Jobs -> Zeile]
      /\ \A b \in anfragen' : b \in Anfrage
  BY TypStep DEF BuchInv, Typ, TypeInv
<1>1. ASSUME NEW j \in Jobs, job'[j].status = "laeuft" PROVE job'[j].versuche > 0
  <2>1. job[j].versuche \in Nat
    BY <1>0, MaxVersucheAssumption DEF Zeile
  <2>2. QED
    BY <1>0, <1>1, <2>1, LaeuftSchritt DEF BuchInv, UnterwegsInv
<1>2. ASSUME NEW b \in anfragen', Tragend(b) PROVE job'[b.j].versuche > 0
  <2>1. b.j \in Jobs /\ job[b.j].versuche \in Nat
    BY <1>0, MaxVersucheAssumption DEF Anfrage, Zeile
  <2>2. CASE job' = job /\ job[b.j].status = "laeuft"
    BY <2>1, <2>2 DEF BuchInv, UnterwegsInv
  <2>3. CASE \E a \in anfragen : Tragend(a) /\ a.j = b.j
    <3>1. /\ job[b.j].versuche > 0
          /\ ~(job[b.j].status = "fehlgeschlagen" /\ job[b.j].faellig)
      BY <2>3 DEF BuchInv, UnterwegsInv, AufgegebenInv, RuhtOhneAnfrage
    <3>2. ZeileSchritt(b.j)
      BY <1>0, <2>1, SchritteDerZeilen
    <3>3. QED
      BY <2>1, <3>1, <3>2 DEF ZeileSchritt
  <2>4. QED
    BY <1>0, <1>2, <2>2, <2>3, TragendHerkunft
<1>3. QED
  BY <1>1, <1>2 DEF UnterwegsInv, Tragend

LEMMA BuchStep == BuchInv /\ [Next]_vars => [Buch!Next]_(Buch!buch)
<1> SUFFICES ASSUME BuchInv, [Next]_vars PROVE Buch!Next \/ UNCHANGED Buch!buch
  OBVIOUS
<1> DEFINE Ziel == Buch!Next \/ UNCHANGED Buch!buch
<1>0. /\ Typ /\ job \in [Jobs -> Zeile] /\ job' \in [Jobs -> Zeile]
      /\ \A a \in anfragen : a \in Anfrage
      /\ \A j \in Jobs : job[j].versuche \in 0..MaxVersuche
      /\ \A a \in anfragen : Tragend(a) => job[a.j].versuche > 0
  BY TypStep, MaxVersucheAssumption DEF BuchInv, Typ, TypeInv, Zeile, UnterwegsInv
<1>0a. geschrieben' = geschrieben => Eingetragene' = Eingetragene
  BY DEF Eingetragene, Eingetragen
<1>1. ASSUME job' = job, geschrieben' = geschrieben PROVE Ziel
  BY <1>1, <1>0a DEF Buch!buch
<1>2. ASSUME NEW j \in Jobs, LegeJobAn(j) PROVE Ziel
  <2>1. Buch!Anlegen(j)
    BY <1>0, <1>2, <1>0a DEF LegeJobAn, Buch!Anlegen, Zeile
  <2>2. QED
    BY <2>1 DEF Buch!Next
<1>3. ASSUME NEW w \in Worker, NEW j \in Jobs, LeaseJob(w, j) PROVE Ziel
  <2>1. job[j].status \in {"offen", "laeuft"} /\ job[j].versuche < MaxVersuche
    BY <1>3 DEF LeaseJob, LeaseAus, ErsterVon, Vergebbar
  <2>2. Buch!Vergeben(j)
    BY <1>0, <1>3, <2>1, <1>0a DEF LeaseJob, Vergeben, Buch!Vergeben, Zeile
  <2>3. QED
    BY <2>2 DEF Buch!Next
<1>4. ASSUME \A j \in Jobs : job'[j] = EndgueltigMarkiert(job[j]), geschrieben' = geschrieben PROVE Ziel
  <2>0. PICK Zeilen \in SUBSET Jobs : Zeilen = {j \in Jobs : Ausgeschoepft(job[j])}
    OBVIOUS
  <2>1. \A j \in Zeilen : job[j].versuche > 0 /\ job[j].versuche = MaxVersuche
    BY <1>0, <2>0, MaxVersucheAssumption DEF Ausgeschoepft
  <2>2. \A j \in Jobs : /\ job'[j].versuche = job[j].versuche
                        /\ job'[j].status = IF j \in Zeilen THEN "fehlgeschlagen" ELSE job[j].status
    BY <1>0, <1>4, <2>0 DEF EndgueltigMarkiert, Zeile
  <2>3. Buch!Aufgeben(Zeilen)
    BY <1>4, <2>1, <2>2, <1>0a DEF Buch!Aufgeben, Buch!Unterwegs
  <2>4. QED
    BY <2>3 DEF Buch!Next
<1>5. ASSUME NEW j \in Jobs, LeaseLaeuftAb(j) \/ ZwoelfStunden(j) PROVE Ziel
  <2>1. \A k \in Jobs : job'[k].status = job[k].status /\ job'[k].versuche = job[k].versuche
    BY <1>0, <1>5 DEF LeaseLaeuftAb, ZwoelfStunden, Zeile
  <2>2. geschrieben' = geschrieben
    BY <1>5 DEF LeaseLaeuftAb, ZwoelfStunden
  <2>3. QED
    BY <2>1, <2>2, <1>0a DEF Buch!buch
<1>6. ASSUME Wiedervorlage PROVE Ziel
  <2>0. PICK Zeilen \in SUBSET Jobs : Zeilen = {j \in Jobs : job[j].status = "fehlgeschlagen" /\ job[j].faellig}
    OBVIOUS
  <2>1. \A j \in Jobs : /\ job'[j].versuche = IF j \in Zeilen THEN 0 ELSE job[j].versuche
                        /\ job'[j].status = IF j \in Zeilen THEN "offen" ELSE job[j].status
    BY <1>0, <1>6, <2>0 DEF Wiedervorlage, Wiedervorgelegt
  <2>2. \A j \in Zeilen : job[j].status = "fehlgeschlagen"
    BY <2>0
  <2>3. geschrieben' = geschrieben
    BY <1>6 DEF Wiedervorlage
  <2>4. Buch!Erneuern(Zeilen)
    BY <2>1, <2>2, <2>3, <1>0a DEF Buch!Erneuern
  <2>5. QED
    BY <2>4 DEF Buch!Next
<1>7. ASSUME NEW a \in anfragen, LeaseBeantworten(a) PROVE Ziel
  <2>1. CASE UNCHANGED job
    BY <1>1, <1>7, <2>1 DEF LeaseBeantworten
  <2>2. CASE job' = [k \in Jobs |-> IF Ueberholt(a.j, k) THEN [job[k] EXCEPT !.status = "ueberholt"] ELSE job[k]]
    <3>0. PICK Zeilen \in SUBSET Jobs : Zeilen = {k \in Jobs : Ueberholt(a.j, k)}
      OBVIOUS
    <3>1. \A k \in Jobs : /\ job'[k].versuche = job[k].versuche
                          /\ job'[k].status = IF k \in Zeilen THEN "ueberholt" ELSE job[k].status
      BY <1>0, <2>2, <3>0 DEF Zeile
    <3>2. \A k \in Zeilen : job[k].status = "offen"
      BY <3>0 DEF Ueberholt
    <3>3. geschrieben' = geschrieben
      BY <1>7 DEF LeaseBeantworten
    <3>4. Buch!Ersetzen(Zeilen)
      BY <3>1, <3>2, <3>3, <1>0a DEF Buch!Ersetzen
    <3>5. QED
      BY <3>4 DEF Buch!Next
  <2>3. QED
    BY <1>7, <2>1, <2>2 DEF LeaseBeantworten
<1>8. ASSUME NEW a \in anfragen, Zurueckstellen(a) PROVE Ziel
  <2>1. a.j \in Jobs /\ job[a.j].versuche > 0
    BY <1>0, <1>8 DEF Zurueckstellen, Tragend, Anfrage
  <2>2. Buch!Zuruecklegen(a.j)
    BY <1>0, <1>8, <2>1, <1>0a DEF Zurueckstellen, Buch!Zuruecklegen, Buch!Unterwegs, Zeile
  <2>3. QED
    BY <2>1, <2>2 DEF Buch!Next
<1>9. ASSUME NEW a \in anfragen, Teilschritt(a) PROVE Ziel
  <2>1. a.j \in Jobs /\ Tragend(a) /\ job[a.j].versuche > 0
    BY <1>0, <1>9, TeilschrittFakten DEF Tragend, Anfrage
  <2>2. job' = job /\ geschrieben \subseteq geschrieben'
        /\ geschrieben' \subseteq geschrieben \cup ({a.j} \X Teil)
    BY <1>9, TeilschrittFakten
  <2>3. \A j \in Jobs : /\ Eingetragen(j) => Eingetragen(j)'
                        /\ j # a.j /\ Eingetragen(j)' => Eingetragen(j)
    BY <2>2 DEF Eingetragen
  <2>4. CASE Eingetragen(a.j)' /\ ~Eingetragen(a.j)
    <3>1. Eingetragene' = Eingetragene \cup {a.j}
      BY <2>1, <2>3, <2>4 DEF Eingetragene
    <3>2. Buch!Eintragen(a.j)
      BY <2>1, <2>2, <3>1 DEF Buch!Eintragen, Buch!Unterwegs
    <3>3. QED
      BY <2>1, <3>2 DEF Buch!Next
  <2>5. CASE ~(Eingetragen(a.j)' /\ ~Eingetragen(a.j))
    <3>1. Eingetragene' = Eingetragene
      BY <2>1, <2>3, <2>5 DEF Eingetragene
    <3>2. QED
      BY <2>2, <3>1, <1>0a DEF Buch!buch
  <2>6. QED
    BY <2>4, <2>5
<1>10. ASSUME NEW a \in anfragen, Verbuchen(a) PROVE Ziel
  <2>0. a.j \in Jobs /\ a.phase = "geschrieben" /\ Tragend(a)
    BY <1>0, <1>10 DEF Verbuchen, Tragend, Schreibend, Anfrage
  <2>1. a.j \in Jobs /\ job[a.j].versuche > 0 /\ a.j \in Eingetragene
    BY <1>0, <2>0 DEF BuchInv, ErledigtInv, GeschriebenBelegt, Eingetragene
  <2>2. Buch!Abschliessen(a.j)
    BY <1>0, <1>10, <2>1, <1>0a DEF Verbuchen, Buch!Abschliessen, Buch!Unterwegs, Zeile
  <2>3. QED
    BY <2>1, <2>2 DEF Buch!Next
<1>11. ASSUME NEW a \in anfragen, FehlerBuchen(a) PROVE Ziel
  <2>1. a.j \in Jobs /\ job[a.j].versuche > 0 /\ a.stand <= job[a.j].versuche /\ a.stand \in 0..MaxVersuche
    BY <1>0, <1>11 DEF FehlerBuchen, Tragend, Anfrage, BuchInv, AufgegebenInv, StandGedeckt
  <2>2. CASE Endgueltig(a.stand)
    <3>1. job[a.j].versuche = MaxVersuche
      BY <1>0, <2>1, <2>2, MaxVersucheAssumption DEF Endgueltig
    <3>2. \A k \in Jobs : /\ job'[k].versuche = job[k].versuche
                          /\ job'[k].status = IF k \in {a.j} THEN "fehlgeschlagen" ELSE job[k].status
      BY <1>0, <1>11, <2>1, <2>2 DEF FehlerBuchen, Zeile
    <3>3. geschrieben' = geschrieben
      BY <1>11 DEF FehlerBuchen
    <3>4. Buch!Aufgeben({a.j})
      BY <2>1, <3>1, <3>2, <3>3, <1>0a DEF Buch!Aufgeben, Buch!Unterwegs
    <3>5. QED
      BY <2>1, <3>4 DEF Buch!Next
  <2>3. CASE ~Endgueltig(a.stand)
    <3>1. Buch!Zuruecklegen(a.j)
      BY <1>0, <1>11, <2>1, <2>3, <1>0a DEF FehlerBuchen, Buch!Zuruecklegen, Buch!Unterwegs, Zeile
    <3>2. QED
      BY <2>1, <3>1 DEF Buch!Next
  <2>4. QED
    BY <2>2, <2>3
<1>12. QED
  BY <1>1, <1>2, <1>3, <1>4, <1>5, <1>6, <1>7, <1>8, <1>9, <1>10, <1>11
  DEF Next, Zeit, Bearbeiten, Teilschritt, LeaseLeer, ErschoepfteMarkieren, Melden, VerbindungWeg, StundeVorbei,
      WorkerNeustart, GatewayNeustart, WiederholungPruefen, LeasePruefen, SchreibenScheitert, vars

\* The queue implements the ledger: whatever is lost, repeated or late, no job is
\* closed without the sheets of its result and what follows from them, handed
\* out too often or touched by a report from before its renewal.
THEOREM BuchGefuehrt == Spec => FuehrtBuch
<1>1. Init => BuchInv /\ Buch!Init
  BY TypInit, MaxVersucheAssumption
  DEF Init, BuchInv, ErledigtInv, ErledigtIstGeschrieben, GeschriebenBelegt, AufgegebenInv,
      AufgegebenErstNachAllenVersuchen, StandGedeckt, RuhtOhneAnfrage, UnterwegsInv, Buch!Init, Eingetragene, Eingetragen
<1>2. BuchInv /\ [Next]_vars => BuchInv'
  BY TypStep, ErledigtStep, AufgegebenStep, UnterwegsStep DEF BuchInv
<1>3. QED
  BY <1>1, <1>2, BuchStep, PTL DEF Spec, FuehrtBuch, Buch!Spec
=============================================================================
