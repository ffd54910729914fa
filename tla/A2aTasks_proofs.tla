----------------------------- MODULE A2aTasks_proofs -----------------------------
(***************************************************************************)
(* Proofs about A2aTasks, for any number of handlers, companies, addresses *)
(* and attempts.  The inductive invariant adds to TypeInv that a push that *)
(* is still owed has an attempt left: the count of a Takt that has read    *)
(* such a row stays within the table.                                      *)
(***************************************************************************)
EXTENDS A2aTasks, TLAPS

VersuchBleibt == ~erledigt => versuche <= ABSTAENDE

IInv == TypeInv /\ VersuchBleibt /\ FaelligBleibt

\* What a handler notes has its type.
LEMMA ArbeitTypen ==
    /\ Ruht \in ArbeitTyp /\ [Ruht EXCEPT !.art = "ausfuehren"] \in ArbeitTyp
    /\ \A z \in TaskZustand : Setzt(z) \in ArbeitTyp /\ Prueft(z) \in ArbeitTyp
    /\ Ruht.art = "frei"
  <1>1. 0 \in 0..MaxAdressen /\ 0 \in 0..ABSTAENDE  BY ZahlenAssumption
  <1> QED  BY <1>1 DEF Ruht, Setzt, Prueft, ArbeitTyp, TaskZustand

\* The verdict is a state, and never one of no task.
LEMMA BefundTyp == ASSUME NEW z PROVE Befund(z) \in TaskZustand
  BY DEF Befund, TaskZustand, TERMINAL

\* Noting something with its type keeps the type of all notes.
LEMMA TutTyp ==
    ASSUME arbeit \in [Laeufer -> ArbeitTyp], NEW l \in Laeufer, NEW a \in ArbeitTyp, Tut(l, a)
    PROVE  arbeit' \in [Laeufer -> ArbeitTyp]
  BY DEF Tut

\* taskZustand keeps the invariant of the row.
LEMMA ZustandErhaelt ==
    ASSUME IInv, NEW z \in TaskZustand, NEW v \in BOOLEAN, Zustand(z, v)
    PROVE  /\ zustand' \in TaskZustand /\ vorgang' \in BOOLEAN
           /\ url' \in 0..MaxAdressen /\ versuche' \in Versuche
           /\ naechster' \in {"nie", "spaeter", "jetzt"} /\ erledigt' \in BOOLEAN
           /\ VersuchBleibt' /\ FaelligBleibt'
  BY DEF IInv, TypeInv, Zustand, PushGeplant, VersuchBleibt, FaelligBleibt, Terminal

LEMMA Anfang == Init => IInv
  <1>1. 0 \in 0..MaxAdressen /\ 0 \in Versuche /\ 0 \in 0..MaxAbstuerze /\ 0 \in 0..MaxOeffnungen /\ 0 <= ABSTAENDE
        BY ZahlenAssumption DEF Versuche
  <1> QED  BY <1>1, ArbeitTypen DEF Init, IInv, TypeInv, VersuchBleibt, FaelligBleibt, Terminal, TERMINAL,
                                    TaskZustand, Schritt

\* One step per action.
LEMMA Schrittweise == IInv /\ [Next]_vars => IInv'
  <1> SUFFICES ASSUME IInv, [Next]_vars PROVE IInv'  OBVIOUS
  <1> USE ZahlenAssumption
  <1> DEFINE Rest == UNCHANGED <<alt, schritt, abstuerze, oeffnungen>>
  <1>a. arbeit \in [Laeufer -> ArbeitTyp]  BY DEF IInv, TypeInv
  <1>b. ASSUME NEW z \in TaskZustand, NEW v \in BOOLEAN, Zustand(z, v), Rest,
               arbeit' \in [Laeufer -> ArbeitTyp]
        PROVE  IInv'
        BY <1>b, ZustandErhaelt DEF IInv, TypeInv
  <1>c. ASSUME UNCHANGED zeile, Rest, arbeit' \in [Laeufer -> ArbeitTyp] PROVE IInv'
        BY <1>c DEF IInv, TypeInv, zeile, VersuchBleibt, FaelligBleibt, Terminal
  <1>1. ASSUME NEW l \in Laeufer, TaskAnlegen(l) PROVE IInv'
    <2>1. arbeit' \in [Laeufer -> ArbeitTyp]  BY <1>1, <1>a, TutTyp, ArbeitTypen DEF TaskAnlegen
    <2>2. url' \in 0..MaxAdressen /\ zustand' = "submitted"  BY <1>1 DEF TaskAnlegen
    <2> QED  BY <1>1, <2>1, <2>2 DEF TaskAnlegen, IInv, TypeInv, VersuchBleibt, FaelligBleibt, Terminal,
                                    TERMINAL, TaskZustand
  <1>2. ASSUME NEW l \in Laeufer, AusfuehrenEndet(l) PROVE IInv'
    <2>1. arbeit' \in [Laeufer -> ArbeitTyp]  BY <1>2, <1>a, TutTyp, ArbeitTypen DEF AusfuehrenEndet
    <2>2. PICK z \in {"rejected", "failed", "completed"} : Zustand(z, FALSE)  BY <1>2 DEF AusfuehrenEndet
    <2> QED  BY <1>2, <1>b, <2>1, <2>2 DEF AusfuehrenEndet, TaskZustand, TERMINAL
  <1>3. ASSUME NEW l \in Laeufer, AusfuehrenAuftrag(l) PROVE IInv'
    <2>1. "working" \in TaskZustand  BY DEF TaskZustand
    <2>2. arbeit' \in [Laeufer -> ArbeitTyp]  BY <1>3, <1>a, <2>1, TutTyp, ArbeitTypen DEF AusfuehrenAuftrag
    <2> QED  BY <1>3, <1>b, <2>1, <2>2 DEF AusfuehrenAuftrag
  <1>4. ASSUME NEW l \in Laeufer, PruefenLesen(l) PROVE IInv'
    <2>1. zustand \in TaskZustand  BY DEF IInv, TypeInv
    <2>2. arbeit' \in [Laeufer -> ArbeitTyp]  BY <1>4, <1>a, <2>1, TutTyp, ArbeitTypen DEF PruefenLesen
    <2> QED  BY <1>4, <1>c, <2>2 DEF PruefenLesen
  <1>5. ASSUME NEW l \in Laeufer, StandLesen(l) PROVE IInv'
    <2>1. arbeit' \in [Laeufer -> ArbeitTyp]  BY <1>5, <1>a, BefundTyp, TutTyp, ArbeitTypen DEF StandLesen
    <2> QED  BY <1>5, <1>c, <2>1 DEF StandLesen
  <1>6. ASSUME NEW l \in Laeufer, AbbrechenLesen(l) PROVE IInv'
    <2>1. "canceled" \in TaskZustand  BY DEF TaskZustand, TERMINAL
    <2>2. arbeit' \in [Laeufer -> ArbeitTyp]  BY <1>6, <1>a, <2>1, TutTyp, ArbeitTypen DEF AbbrechenLesen
    <2> QED  BY <1>6, <1>c, <2>2 DEF AbbrechenLesen
  <1>7. ASSUME NEW l \in Laeufer, Setzen(l) PROVE IInv'
    <2>1. arbeit[l].zustand \in TaskZustand  BY <1>a DEF ArbeitTyp
    <2>2. arbeit' \in [Laeufer -> ArbeitTyp]  BY <1>7, <1>a, TutTyp, ArbeitTypen DEF Setzen
    <2> QED  BY <1>7, <1>b, <2>1, <2>2 DEF Setzen
  <1>8. ASSUME NEW l \in Laeufer, PushLesen(l) PROVE IInv'
    <2> DEFINE a == [art |-> "push", zustand |-> zustand, url |-> url, versuche |-> versuche]
    <2>1. versuche \in 0..ABSTAENDE
          BY <1>8 DEF PushLesen, IInv, TypeInv, VersuchBleibt, Versuche
    <2>2. a \in ArbeitTyp  BY <2>1 DEF ArbeitTyp, IInv, TypeInv
    <2>3. arbeit' \in [Laeufer -> ArbeitTyp]  BY <1>8, <1>a, <2>2, TutTyp DEF PushLesen
    <2> QED  BY <1>8, <1>c, <2>3 DEF PushLesen
  <1>9. ASSUME NEW l \in Laeufer, PushAntwort(l) PROVE IInv'
    <2>1. arbeit' \in [Laeufer -> ArbeitTyp]  BY <1>9, <1>a, TutTyp, ArbeitTypen DEF PushAntwort
    <2>2. arbeit[l].versuche \in 0..ABSTAENDE  BY <1>a DEF ArbeitTyp
    <2>3. PICK ok \in BOOLEAN : /\ versuche' = arbeit[l].versuche + 1
                                /\ erledigt' = (ok \/ versuche' > ABSTAENDE)
                                /\ naechster' = IF erledigt' THEN "nie" ELSE "spaeter"
          BY <1>9 DEF PushAntwort, Gezaehlt, Schluss
    <2> DEFINE n == versuche'
    <2>a. n \in Versuche /\ n \in Nat  BY <2>2, <2>3 DEF Versuche
    <2>b. ~(n > ABSTAENDE) => n <= ABSTAENDE  BY <2>a
    <2>c. ~erledigt' => ~(n > ABSTAENDE)  BY <2>3, Zenon
    <2>4. n \in Versuche /\ VersuchBleibt'  BY <2>a, <2>b, <2>c, Zenon DEF VersuchBleibt
    <2>5. FaelligBleibt' /\ naechster' \in {"nie", "spaeter", "jetzt"} /\ erledigt' \in BOOLEAN
          BY <2>3 DEF FaelligBleibt
    <2> QED  BY <1>9, <2>1, <2>4, <2>5 DEF PushAntwort, IInv, TypeInv
  <1>10. CASE KonfigSetzen
    <2>1. url' \in 0..MaxAdressen /\ versuche' \in Versuche /\ VersuchBleibt'
          BY <1>10 DEF KonfigSetzen, IInv, TypeInv, Versuche, VersuchBleibt
    <2>2. FaelligBleibt' /\ naechster' \in {"nie", "spaeter", "jetzt"}
          BY <1>10 DEF KonfigSetzen, FaelligBleibt, Terminal
    <2> QED  BY <1>10, <2>1, <2>2 DEF KonfigSetzen, IInv, TypeInv
  <1>11. CASE PushFaellig
         BY <1>11 DEF PushFaellig, IInv, TypeInv, VersuchBleibt, FaelligBleibt, Terminal
  <1>12. CASE Verfaellt
         BY <1>12 DEF Verfaellt, zeile, IInv, TypeInv, VersuchBleibt, FaelligBleibt, Terminal
  <1>13. CASE GatewayNeustart
    <2>1. arbeit' \in [Laeufer -> ArbeitTyp]  BY <1>13, ArbeitTypen DEF GatewayNeustart
    <2>2. abstuerze' \in 0..MaxAbstuerze  BY <1>13 DEF GatewayNeustart, IInv, TypeInv
    <2> QED  BY <1>13, <2>1, <2>2 DEF GatewayNeustart, zeile, IInv, TypeInv, VersuchBleibt, FaelligBleibt, Terminal
  <1>14. ASSUME NEW f \in Firma, NEW p \in Producer, NEW s \in Schritt, SchrittGeht(f, p, s) PROVE IInv'
    <2>1. oeffnungen' \in 0..MaxOeffnungen  BY <1>14 DEF SchrittGeht, IInv, TypeInv
    <2>2. schritt' \in [Firma -> [Producer -> Schritt]]  BY <1>14 DEF SchrittGeht, IInv, TypeInv
    <2> QED  BY <1>14, <2>1, <2>2 DEF SchrittGeht, zeile, IInv, TypeInv, VersuchBleibt, FaelligBleibt, Terminal
  <1>15. CASE UNCHANGED vars
         BY <1>15 DEF vars, zeile, IInv, TypeInv, VersuchBleibt, FaelligBleibt, Terminal
  <1> QED  BY <1>1, <1>2, <1>3, <1>4, <1>5, <1>6, <1>7, <1>8, <1>9, <1>10, <1>11, <1>12, <1>13, <1>14, <1>15
           DEF Next

LEMMA Immer == Spec => []IInv
  BY Anfang, Schrittweise, PTL DEF Spec

\* TypeInv in every reachable state: stale counts never leave the table.
THEOREM TypeInvImmer == Spec => []TypeInv
  <1>1. IInv => TypeInv  BY DEF IInv
  <1> QED  BY Immer, <1>1, PTL

\* FaelligBleibt in every reachable state: a push that is owed is never forgotten.
THEOREM FaelligImmer == Spec => []FaelligBleibt
  <1>1. IInv => FaelligBleibt  BY DEF IInv
  <1> QED  BY Immer, <1>1, PTL

\* EndgueltigOhneWettlauf of every behaviour: no reader of an ended task writes it.
THEOREM NurWettlauf == Spec => EndgueltigOhneWettlauf
  <1> DEFINE Still == Terminal /\ \A l \in Laeufer : arbeit[l].art \in {"frei", "push"}
             Bleibt == zustand' = zustand /\ \A l \in Laeufer : arbeit'[l].art \in {"frei", "push"}
  <1>1. ASSUME IInv, [Next]_vars, Still PROVE Bleibt
    <2>a. arbeit \in [Laeufer -> ArbeitTyp]  BY <1>1 DEF IInv, TypeInv
    <2>b. zustand # "keiner"  BY <1>1 DEF Terminal, TERMINAL
    <2>1. ASSUME NEW l \in Laeufer,
                 TaskAnlegen(l) \/ AusfuehrenEndet(l) \/ AusfuehrenAuftrag(l) \/ PruefenLesen(l)
                 \/ StandLesen(l) \/ AbbrechenLesen(l) \/ Setzen(l)
          PROVE  FALSE
          BY <1>1, <2>1, <2>b DEF TaskAnlegen, AusfuehrenEndet, AusfuehrenAuftrag, PruefenLesen, Pruefbar,
                                  StandLesen, AbbrechenLesen, Setzen
    <2>2. ASSUME NEW l \in Laeufer, PushLesen(l) PROVE Bleibt
          BY <1>1, <2>2, <2>a DEF PushLesen, Tut, zeile
    <2>3. ASSUME NEW l \in Laeufer, PushAntwort(l) PROVE Bleibt
          BY <1>1, <2>3, <2>a, ArbeitTypen DEF PushAntwort, Tut
    <2>4. CASE KonfigSetzen \/ PushFaellig \/ Verfaellt
          BY <1>1, <2>4 DEF KonfigSetzen, PushFaellig, Verfaellt, zeile
    <2>5. CASE GatewayNeustart  BY <1>1, <2>5, ArbeitTypen DEF GatewayNeustart, zeile
    <2>6. ASSUME NEW f \in Firma, NEW p \in Producer, NEW s \in Schritt, SchrittGeht(f, p, s) PROVE Bleibt
          BY <1>1, <2>6 DEF SchrittGeht, zeile
    <2>7. CASE UNCHANGED vars  BY <1>1, <2>7 DEF vars, zeile
    <2> QED  BY <1>1, <2>1, <2>2, <2>3, <2>4, <2>5, <2>6, <2>7 DEF Next
  <1>2. IInv /\ [Next]_vars => [Still => Bleibt]_vars  BY <1>1
  <1> QED  BY Immer, <1>2, PTL DEF Spec, EndgueltigOhneWettlauf
=============================================================================
