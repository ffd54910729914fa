----------------------------- MODULE Sitze_proofs -----------------------------
(***************************************************************************)
(* Proofs about Sitze, for any members, seats, plans and requests.         *)
(*                                                                         *)
(* Every step is one of nine kinds (Faelle).  Four inductive invariants,   *)
(* each on top of the one before it:                                       *)
(*   Typen     the values, and which members a transaction still has to    *)
(*             look at, is at, and has changed;                            *)
(*   Laufend   a seat that somebody has, has got from a transaction that   *)
(*             is not at its end, or that is chosen, is not marked to end; *)
(*   Einzeln   unless transactions for one member overlap: a lock is only  *)
(*             on seats that are free or belong to members the transaction *)
(*             has changed, these have no other seats, and what it will    *)
(*             write at COMMIT is one seat, its plan and its period;       *)
(*   Verbucht  under the same condition, a transaction changes exactly the *)
(*             members who have not got the plan they are to get.          *)
(* The last shows that every step is one of Sitzbuch.                      *)
(***************************************************************************)
EXTENDS Sitze, TLAPS

\* A request that is only noted looks at no member, any other at each it names.
Zusammen(a, was, welche) ==
    /\ \A m \in welche : was[m] # "kein"
    /\ a = "vormerken" => welche = {}
    /\ a # "vormerken" => \A m \in Mitglied : was[m] # "kein" => m \in welche
    /\ a = "austritt" => \A m \in Mitglied : was[m] \in {"kein", "free"}

Anfang(l) ==
    /\ bewegt' \in 0..MaxWechsel /\ gestoert' = gestoert
    /\ liste' \in [Laeufe -> [Mitglied -> Offen]]
    /\ \E a \in Arten, was \in [Mitglied -> Offen], z \in {"liste", "naechster"},
          welche \in SUBSET Mitglied :
          /\ Zusammen(a, was, welche)
          /\ Beginnt(l, a, was, z, welche)

Listet(l) == ListeLesen(l) \/ ListeSchreiben(l)
Waehlt(l) == FreienWaehlen(l) \/ Dazukaufen(l)

Endet(l) ==
    /\ Ruhe(l) /\ UNCHANGED daten
    /\ bewegt' = bewegt /\ gestoert' \in 0..MaxStoerungen

\* The actions without a transaction, and what they may change.
Anweisung ==
    \/ \E m \in Mitglied : Beitritt(m)
    \/ \E s \in Hand : Kaufen(s) \/ Reduzieren(s) \/ ReduktionFaellig(s)
    \/ \E p \in Plan : ReduktionWiderrufen(p)

Einzelne ==
    /\ Anweisung /\ RestGleich
    /\ UNCHANGED <<inhaber, konto, zeitraum, geplant, gestoert>>
    /\ bewegt' \in 0..MaxWechsel
    /\ mitglieder \subseteq mitglieder' /\ mitglieder' \subseteq Mitglied /\ laeuft' \subseteq Sitz /\ reduziert' \subseteq laeuft'
    /\ \A s \in Sitz : (s \in reduziert' /\ s \notin reduziert) \/ (s \in laeuft /\ s \notin laeuft')
                           => inhaber[s] = Niemand /\ sperre[s] = Niemand

\* Every step is of one of these kinds.
LEMMA Faelle ==
    ASSUME TypeInv, [Next]_vars
    PROVE  \/ \E l \in Laeufe :
                 \/ Anfang(l) \/ Listet(l) \/ SitzLesen(l) \/ Waehlt(l) \/ Freigeben(l)
                 \/ Commit(l) \/ Endet(l)
                 \/ \E m \in Mitglied : Naechster(l, m)
           \/ Einzelne
           \/ UNCHANGED vars
<1>1. ASSUME NEW l \in Lauf, NEW m \in Mitglied, NEW p \in Ziel, Sofort(l, m, p) \/ Vormerken(l, m, p)
      PROVE  Anfang(l)
  <2> DEFINE w == [Keiner EXCEPT ![m] = p]
  <2>1. /\ w \in [Mitglied -> Offen]
        /\ Zusammen("sofort", w, {m}) /\ Zusammen("vormerken", w, {})
    BY <1>1, SitzAnnahme DEF Keiner, Offen, Ziel, Zusammen
  <2>2. l \in Laeufe /\ bewegt' \in 0..MaxWechsel /\ gestoert' = gestoert /\ liste' = liste
    BY <1>1 DEF Laeufe, Sofort, Vormerken, zaehler, TypeInv
  <2>3. CASE Sofort(l, m, p)
    BY <2>1, <2>2, <2>3, Zenon DEF Sofort, Anfang, TypeInv, Arten
  <2>4. CASE Vormerken(l, m, p)
    BY <2>1, <2>2, <2>4, Zenon DEF Vormerken, Anfang, TypeInv, Arten
  <2> QED BY <1>1, <2>3, <2>4
<1>2. ASSUME NEW l \in Lauf, NEW m \in Mitglied, Austritt(l, m)
      PROVE  Anfang(l)
  <2> DEFINE w == [Keiner EXCEPT ![m] = "free"]
  <2>1. w \in [Mitglied -> Offen] /\ Zusammen("austritt", w, {m})
    BY <1>2, SitzAnnahme DEF Keiner, Offen, Ziel, Zusammen
  <2>2. bewegt' \in 0..MaxWechsel /\ gestoert' = gestoert /\ liste' = liste
    BY <1>2, SitzAnnahme DEF Austritt, TypeInv
  <2> QED BY <1>2, <2>1, <2>2, Zenon DEF Austritt, Anfang, TypeInv, Arten
<1>3. ASSUME NEW ihre \in SUBSET Mitglied, CronBeginnt(ihre)
      PROVE  Anfang(Cron)
  <2> DEFINE w == [m \in Mitglied |-> IF m \in ihre THEN geplant[m] ELSE "kein"]
  <2>1. w \in [Mitglied -> Offen] /\ Zusammen("cron", w, ihre)
    BY <1>3 DEF CronBeginnt, TypeInv, Offen, Zusammen
  <2>2. bewegt' \in 0..MaxWechsel /\ gestoert' = gestoert
    BY <1>3 DEF CronBeginnt, zaehler, TypeInv
  <2>3. liste' \in [Laeufe -> [Mitglied -> Offen]]
    BY <1>3 DEF CronBeginnt, TypeInv, Laeufe
  <2>4. Beginnt(Cron, "cron", w, "naechster", ihre)
    BY <1>3, Zenon DEF CronBeginnt
  <2> QED BY <2>1, <2>2, <2>3, <2>4, Zenon DEF Anfang, Arten
<1>4. ASSUME NEW l \in Laeufe, Schritt(l)
      PROVE  \/ Listet(l) \/ SitzLesen(l) \/ Waehlt(l) \/ Freigeben(l) \/ Commit(l) \/ Endet(l)
             \/ \E m \in Mitglied : Naechster(l, m)
  <2>1. KeinMitglied(l) \/ KeinFreier(l) \/ Opfer(l) => Endet(l)
    BY DEF KeinMitglied, KeinFreier, Opfer, Rollback, Endet, zaehler, TypeInv
  <2> QED BY <1>4, <2>1, Zenon DEF Schritt, Listet, Waehlt
<1>5. ASSUME NEW l \in Laeufe, Abgelehnt(l) \/ Stoerung(l)
      PROVE  Endet(l)
  BY <1>5, SitzAnnahme DEF Abgelehnt, Stoerung, Rollback, Endet, zaehler, TypeInv
<1>6. ASSUME NEW m \in Mitglied, Beitritt(m)
      PROVE  Einzelne
  BY <1>6, SitzAnnahme DEF Beitritt, Einzelne, Anweisung, TypeInv, zaehler
<1>7. ASSUME NEW s \in Hand, Kaufen(s) \/ Reduzieren(s) \/ ReduktionFaellig(s)
      PROVE  Einzelne
  <2>1. s \in Sitz
    BY SitzAnnahme
  <2>2. CASE Kaufen(s)
    BY <2>1, <2>2 DEF Kaufen, Einzelne, Anweisung, TypeInv, zaehler
  <2>3. CASE Reduzieren(s)
    BY <2>1, <2>3 DEF Reduzieren, Reduzierbar, Einzelne, Anweisung, TypeInv, zaehler
  <2>4. CASE ReduktionFaellig(s)
    BY <2>1, <2>4 DEF ReduktionFaellig, Einzelne, Anweisung, TypeInv, zaehler
  <2> QED BY <1>7, <2>2, <2>3, <2>4
<1>8. ASSUME NEW p \in Plan, ReduktionWiderrufen(p)
      PROVE  Einzelne
  BY <1>8 DEF ReduktionWiderrufen, Einzelne, Anweisung, TypeInv, zaehler
<1>9. Cron \in Laeufe /\ Lauf \subseteq Laeufe
  BY DEF Laeufe
<1> QED BY <1>1, <1>2, <1>3, <1>4, <1>5, <1>6, <1>7, <1>8, <1>9, Zenon DEF Next

-----------------------------------------------------------------------------
(* The values, and the order in which a transaction goes through members.   *)

\* The members a transaction has to look at, or has changed, are its own, and
\* it looks at each once.
Vorne ==
    \A l \in Laeufe, m \in Mitglied :
        /\ m \in rest[l] \/ m \in fertig[l] => auftrag[l][m] # "kein"
        /\ ~(m \in rest[l] /\ m \in fertig[l])

\* None is when it is not running.
RuhtLeer == \A l \in Laeufe, m \in Mitglied : schritt[l] = "ruht" => auftrag[l][m] = "kein"

\* So is the one it is at.
Dran ==
    \A l \in Laeufe : schritt[l] \in {"sitz", "waehlen", "freigeben"} =>
        /\ wer[l] \in Mitglied /\ auftrag[l][wer[l]] # "kein"
        /\ wer[l] \notin rest[l] /\ wer[l] \notin fertig[l]

Typen == TypeInv /\ Vorne /\ RuhtLeer /\ Dran

LEMMA TypenAnfangs == Init => Typen
  BY SitzAnnahme DEF Init, Typen, TypeInv, Vorne, RuhtLeer, Dran, Ziel, Offen, Laeufe, Schritte, Arten, Keiner

LEMMA TypAnfang == ASSUME Typen, NEW l \in Laeufe, Anfang(l) PROVE Typen'
<1>1. PICK a \in Arten, was \in [Mitglied -> Offen], z \in {"liste", "naechster"},
           welche \in SUBSET Mitglied :
           (\A m \in welche : was[m] # "kein") /\ Beginnt(l, a, was, z, welche)
  BY DEF Anfang, Zusammen
<1>2. TypeInv'
  BY <1>1, SitzAnnahme DEF Anfang, Beginnt, Typen, TypeInv, daten, locks, zeiger, Schritte
<1>3. Vorne' /\ RuhtLeer' /\ Dran'
  BY <1>1 DEF Anfang, Beginnt, Typen, TypeInv, Vorne, RuhtLeer, Dran, zeiger
<1> QED BY <1>2, <1>3 DEF Typen

LEMMA TypListet == ASSUME Typen, NEW l \in Laeufe, Listet(l) PROVE Typen'
<1>1. TypeInv'
  <2>1. CASE ListeLesen(l)
    BY <2>1 DEF ListeLesen, Typen, TypeInv, daten, locks, zeiger, zaehler, Schritte
  <2>2. CASE ListeSchreiben(l)
    BY <2>2 DEF ListeSchreiben, Typen, TypeInv, daten, zeiger, zaehler, Schritte
  <2> QED BY <2>1, <2>2 DEF Listet
<1>2. Vorne' /\ RuhtLeer' /\ Dran'
  BY DEF Listet, ListeLesen, ListeSchreiben, Typen, TypeInv, Vorne, RuhtLeer, Dran, daten, locks, zeiger, zaehler
<1> QED BY <1>1, <1>2 DEF Typen

LEMMA TypNaechster ==
    ASSUME Typen, NEW l \in Laeufe, NEW m \in Mitglied, Naechster(l, m) PROVE Typen'
<1>1. TypeInv'
  BY DEF Naechster, Typen, TypeInv, daten, locks, zeiger, zaehler, Schritte
<1>2. Vorne' /\ RuhtLeer' /\ Dran'
  BY DEF Naechster, Typen, TypeInv, Vorne, RuhtLeer, Dran, zeiger
<1> QED BY <1>1, <1>2 DEF Typen

LEMMA TypSitzLesen == ASSUME Typen, NEW l \in Laeufe, SitzLesen(l) PROVE Typen'
<1>1. TypeInv'
  BY DEF SitzLesen, SitzeVon, Vorhanden, Typen, TypeInv, daten, locks, zaehler, Schritte
<1>2. Vorne' /\ RuhtLeer' /\ Dran'
  BY DEF SitzLesen, Typen, TypeInv, Vorne, RuhtLeer, Dran
<1> QED BY <1>1, <1>2 DEF Typen

LEMMA TypWaehlt == ASSUME Typen, NEW l \in Laeufe, Waehlt(l) PROVE Typen'
<1>1. PICK s \in Sitz : Gewaehlt(l, s) /\ org' \in {org, l} /\ schritt[l] = "waehlen"
  BY DEF Waehlt, FreienWaehlen, Dazukaufen, Waehlbar, Vorhanden, Kaeuflich, Typen, TypeInv
<1>2. TypeInv'
  BY <1>1 DEF Gewaehlt, Typen, TypeInv, daten, zaehler, Schritte
<1>3. Vorne' /\ RuhtLeer' /\ Dran'
  BY <1>1 DEF Gewaehlt, Typen, TypeInv, Vorne, RuhtLeer, Dran
<1> QED BY <1>2, <1>3 DEF Typen

LEMMA TypFreigeben == ASSUME Typen, NEW l \in Laeufe, Freigeben(l) PROVE Typen'
<1>1. wer[l] \in Mitglied /\ auftrag[l][wer[l]] # "kein" /\ wer[l] \notin rest[l]
  BY DEF Freigeben, Typen, Dran
<1>2. alt' \in [Laeufe -> [Mitglied -> SUBSET (Sitz \cup {Niemand})]]
  BY <1>1 DEF Freigeben, Typen, TypeInv
<1>3. /\ sperre' \in [Sitz -> Laeufe \cup {Niemand}] /\ neu' \in [Sitz -> Mitglied \cup {Niemand}]
      /\ fertig' \in [Laeufe -> SUBSET Mitglied]
      /\ bisher' \in [Laeufe -> Sitz \cup {Niemand}] /\ wahl' \in [Laeufe -> Sitz \cup {Niemand}]
      /\ schritt' \in [Laeufe -> Schritte]
  BY <1>1 DEF Freigeben, Typen, TypeInv, Schritte
<1>4. TypeInv'
  BY <1>2, <1>3 DEF Freigeben, Typen, TypeInv, daten, zaehler
<1>5. Vorne' /\ RuhtLeer' /\ Dran'
  BY <1>1 DEF Freigeben, Typen, TypeInv, Vorne, RuhtLeer, Dran
<1> QED BY <1>4, <1>5 DEF Typen

\* What Ruhe leaves behind.
LEMMA TypRuhe ==
    ASSUME Typen, NEW l \in Laeufe, Ruhe(l)
    PROVE  /\ sperre' \in [Sitz -> Laeufe \cup {Niemand}] /\ neu' \in [Sitz -> Mitglied \cup {Niemand}]
           /\ org' \in Laeufe \cup {Niemand} /\ schritt' \in [Laeufe -> Schritte]
           /\ art' \in [Laeufe -> Arten] /\ auftrag' \in [Laeufe -> [Mitglied -> Offen]]
           /\ rest' \in [Laeufe -> SUBSET Mitglied] /\ wer' \in [Laeufe -> Mitglied \cup {Niemand}]
           /\ liste' \in [Laeufe -> [Mitglied -> Offen]]
           /\ bisher' \in [Laeufe -> Sitz \cup {Niemand}] /\ wahl' \in [Laeufe -> Sitz \cup {Niemand}]
           /\ fertig' \in [Laeufe -> SUBSET Mitglied]
           /\ alt' \in [Laeufe -> [Mitglied -> SUBSET (Sitz \cup {Niemand})]]
           /\ Vorne' /\ RuhtLeer' /\ Dran'
<1>1. Keiner \in [Mitglied -> Offen] /\ [m \in Mitglied |-> {}] \in [Mitglied -> SUBSET (Sitz \cup {Niemand})]
  BY DEF Keiner, Offen
<1>2. Vorne' /\ RuhtLeer' /\ Dran'
  BY DEF Ruhe, Typen, TypeInv, Vorne, RuhtLeer, Dran, Keiner
<1> QED BY <1>1, <1>2 DEF Ruhe, Typen, TypeInv, Schritte, Arten

LEMMA TypCommit == ASSUME Typen, NEW l \in Laeufe, Commit(l) PROVE Typen'
<1>1. inhaber' \in [Sitz -> Mitglied \cup {Niemand}]
  BY DEF Commit, Inhaber, Typen, TypeInv
<1>2. laeuft' \subseteq Sitz /\ reduziert' \subseteq laeuft'
  BY DEF Commit, Vorhanden, Typen, TypeInv
<1>3. \A m \in Mitglied : m \in fertig[l] => auftrag[l][m] \in Ziel
  BY DEF Typen, TypeInv, Vorne, Offen
<1>4. konto' \in [Mitglied -> Ziel]
  BY <1>3 DEF Commit, Typen, TypeInv
<1>5. \A m \in Mitglied : Neuer(l, m) \subseteq Sitz \cup {Niemand}
  BY DEF Neuer, Meine
<1>6. zeitraum' \in [Mitglied -> SUBSET (Sitz \cup {Niemand})]
  BY <1>5 DEF Commit, Typen, TypeInv
<1>7. geplant' \in [Mitglied -> Offen]
  BY DEF Commit, NeueListe, Typen, TypeInv, Offen
<1>8. mitglieder' \subseteq Mitglied /\ bewegt' = bewegt /\ gestoert' = gestoert
  BY DEF Commit, Typen, TypeInv, zaehler
<1>9. Ruhe(l)
  BY DEF Commit
<1> QED BY <1>1, <1>2, <1>4, <1>6, <1>7, <1>8, <1>9, TypRuhe DEF Typen, TypeInv

LEMMA TypEndet == ASSUME Typen, NEW l \in Laeufe, Endet(l) PROVE Typen'
  BY TypRuhe DEF Endet, daten, Typen, TypeInv

LEMMA TypEinzelne == ASSUME Typen, Einzelne PROVE Typen'
<1>1. UNCHANGED <<locks, schritt, art, auftrag, rest, wer, liste, zeiger, inhaber, konto, zeitraum, geplant, gestoert>>
  BY DEF Einzelne, RestGleich
<1>2. TypeInv'
  BY <1>1 DEF Einzelne, Typen, TypeInv, locks, zeiger
<1>3. Vorne' /\ RuhtLeer' /\ Dran'
  BY <1>1 DEF Typen, Vorne, RuhtLeer, Dran, zeiger
<1> QED BY <1>2, <1>3 DEF Typen

LEMMA TypSchritt == Typen /\ [Next]_vars => Typen'
<1> SUFFICES ASSUME Typen, [Next]_vars PROVE Typen'
  OBVIOUS
<1>1. CASE UNCHANGED vars
  BY <1>1 DEF vars, daten, locks, zeiger, zaehler, Typen, TypeInv, Vorne, RuhtLeer, Dran
<1> QED BY <1>1, Faelle, TypAnfang, TypListet, TypNaechster, TypSitzLesen, TypWaehlt, TypFreigeben,
           TypCommit, TypEndet, TypEinzelne DEF Typen

\* Every state a run reaches has the types of TypeInv, for any parameters.
THEOREM TypeInvImmer == Spec => []TypeInv
<1>1. Typen => TypeInv
  BY DEF Typen
<1> QED BY <1>1, TypenAnfangs, TypSchritt, PTL DEF Spec

-----------------------------------------------------------------------------
(* Seats that somebody has do not end.                                      *)

\* What a transaction has given, it has locked, and the seat goes on.
Gegeben == \A s \in Sitz : neu[s] # Niemand => sperre[s] # Niemand /\ s \notin reduziert

\* So is what it has chosen.
WahlHaelt == \A l \in Laeufe : wahl[l] # Niemand => sperre[wahl[l]] = l /\ wahl[l] \notin reduziert

Laufend == Typen /\ Gegeben /\ WahlHaelt /\ BelegtLaeuft

LEMMA LaufendAnfangs == Init => Laufend
  BY TypenAnfangs DEF Init, Laufend, Gegeben, WahlHaelt, BelegtLaeuft

\* Steps that leave the seats, the locks and the choices alone.
LEMMA LaufendBleibt ==
    ASSUME Laufend, UNCHANGED <<inhaber, laeuft, reduziert, sperre, neu, wahl>>
    PROVE  Gegeben' /\ WahlHaelt' /\ BelegtLaeuft'
  BY DEF Laufend, Gegeben, WahlHaelt, BelegtLaeuft

\* A seat that can be chosen is neither marked nor locked by another.
LEMMA WaehltWas ==
    ASSUME Typen, NEW l \in Laeufe, Waehlt(l)
    PROVE  \E s \in Sitz : /\ Gewaehlt(l, s) /\ s \notin reduziert /\ sperre[s] \in {Niemand, l}
                           /\ s \in laeuft /\ sperre[s] = Niemand => inhaber[s] = Niemand
                           /\ sperre[s] = l => neu[s] = Niemand
                           /\ s \notin laeuft => sperre[s] = Niemand \/ sperre[s] = l
                           /\ PlanVon[s] = ZielVon(l) /\ schritt[l] = "waehlen"
<1>1. CASE FreienWaehlen(l)
  BY <1>1, SitzAnnahme DEF FreienWaehlen, Waehlbar, Vorhanden, Inhaber, Typen, TypeInv
<1>2. CASE Dazukaufen(l)
  <2>1. PICK s \in Sitz : s \in Kaeuflich(l) /\ Gewaehlt(l, s)
    BY <1>2 DEF Dazukaufen, Kaeuflich
  <2>2. s \notin reduziert /\ sperre[s] = Niemand /\ s \notin laeuft /\ PlanVon[s] = ZielVon(l) /\ Niemand # l
    BY <2>1, SitzAnnahme DEF Kaeuflich, Unbenutzt, Typen, TypeInv
  <2> QED BY <1>2, <2>1, <2>2 DEF Dazukaufen
<1> QED BY <1>1, <1>2 DEF Waehlt

LEMMA LaufendWaehlt ==
    ASSUME Laufend, NEW l \in Laeufe, Waehlt(l) PROVE Gegeben' /\ WahlHaelt' /\ BelegtLaeuft'
<1>1. PICK s \in Sitz : Gewaehlt(l, s) /\ s \notin reduziert /\ sperre[s] \in {Niemand, l}
  BY WaehltWas DEF Laufend
<1>2. UNCHANGED daten /\ sperre' = [sperre EXCEPT ![s] = l] /\ neu' = [neu EXCEPT ![s] = Niemand]
      /\ wahl' = [wahl EXCEPT ![l] = s]
  BY <1>1 DEF Gewaehlt
<1>3. l # Niemand
  BY SitzAnnahme
<1>4. Gegeben'
  BY <1>1, <1>2, <1>3 DEF daten, Laufend, Typen, TypeInv, Gegeben
<1>5. WahlHaelt'
  <2>1. SUFFICES ASSUME NEW k \in Laeufe, wahl'[k] # Niemand
                 PROVE  sperre'[wahl'[k]] = k /\ wahl'[k] \notin reduziert
    BY <1>2 DEF WahlHaelt, daten
  <2>2. CASE k = l
    BY <1>1, <1>2, <2>2 DEF Laufend, Typen, TypeInv
  <2>3. CASE k # l
    <3>1. wahl'[k] = wahl[k] /\ sperre[wahl[k]] = k /\ wahl[k] \notin reduziert /\ wahl[k] # s
      BY <1>1, <1>2, <2>1, <2>3, SitzAnnahme DEF Laufend, Typen, TypeInv, WahlHaelt
    <3> QED BY <1>2, <3>1 DEF Laufend, Typen, TypeInv
  <2> QED BY <2>2, <2>3
<1> QED BY <1>2, <1>4, <1>5 DEF daten, Laufend, BelegtLaeuft

LEMMA LaufendFreigeben ==
    ASSUME Laufend, NEW l \in Laeufe, Freigeben(l) PROVE Gegeben' /\ WahlHaelt' /\ BelegtLaeuft'
<1>1. UNCHANGED daten /\ wahl' = [wahl EXCEPT ![l] = Niemand]
  BY DEF Freigeben
<1>2. ASSUME NEW s \in Sitz
      PROVE  /\ sperre'[s] = sperre[s] \/ (sperre'[s] = l /\ sperre[s] \in {Niemand, l})
             /\ neu'[s] # Niemand => s = wahl[l] \/ neu'[s] = neu[s]
  BY SitzAnnahme DEF Freigeben, Laufend, Typen, TypeInv
<1>3. l # Niemand /\ Niemand \notin Sitz /\ \A k \in Laeufe : k # Niemand
  BY SitzAnnahme
<1>4. Gegeben'
  <2>1. SUFFICES ASSUME NEW s \in Sitz, neu'[s] # Niemand
                 PROVE  sperre'[s] # Niemand /\ s \notin reduziert
    BY <1>1 DEF Gegeben, daten
  <2>2. sperre[s] # Niemand /\ s \notin reduziert
    BY <1>2, <1>3, <2>1 DEF Laufend, Gegeben, WahlHaelt
  <2> QED BY <1>2, <1>3, <2>2
<1>5. WahlHaelt'
  BY <1>1, <1>2, <1>3 DEF daten, Laufend, Typen, TypeInv, WahlHaelt
<1> QED BY <1>1, <1>4, <1>5 DEF daten, Laufend, BelegtLaeuft

\* Nobody loses a choice by the end of another transaction.
LEMMA LaufendRuhe ==
    ASSUME Laufend, NEW l \in Laeufe, Ruhe(l), reduziert' = reduziert PROVE Gegeben' /\ WahlHaelt'
<1>1. \A s \in Sitz : /\ sperre[s] = l => sperre'[s] = Niemand /\ neu'[s] = Niemand
                      /\ sperre[s] # l => sperre'[s] = sperre[s] /\ neu'[s] = neu[s]
  BY DEF Ruhe
<1>2. wahl' = [wahl EXCEPT ![l] = Niemand]
  BY DEF Ruhe
<1> QED BY <1>1, <1>2, SitzAnnahme DEF Laufend, Typen, TypeInv, Gegeben, WahlHaelt

LEMMA LaufendCommit ==
    ASSUME Laufend, NEW l \in Laeufe, Commit(l) PROVE Gegeben' /\ WahlHaelt' /\ BelegtLaeuft'
<1>1. Gegeben' /\ WahlHaelt'
  BY LaufendRuhe DEF Commit
<1>2. BelegtLaeuft'
  <2>1. SUFFICES ASSUME NEW s \in Sitz, inhaber'[s] # Niemand
                 PROVE  s \in laeuft' /\ s \notin reduziert
    BY DEF Commit, BelegtLaeuft
  <2>2. inhaber'[s] = Inhaber(l, s) /\ laeuft' = Vorhanden(l)
    BY DEF Commit
  <2>3. CASE sperre[s] = l
    BY <2>1, <2>2, <2>3 DEF Inhaber, Vorhanden, Laufend, Gegeben
  <2>4. CASE sperre[s] # l
    BY <2>1, <2>2, <2>4 DEF Inhaber, Vorhanden, Laufend, BelegtLaeuft
  <2> QED BY <2>3, <2>4
<1> QED BY <1>1, <1>2

LEMMA LaufendEinzelne ==
    ASSUME Laufend, Einzelne PROVE Gegeben' /\ WahlHaelt' /\ BelegtLaeuft'
<1>1. UNCHANGED <<inhaber, sperre, neu, wahl>>
  BY DEF Einzelne, RestGleich, locks, zeiger
<1>2. \A s \in Sitz : inhaber[s] # Niemand \/ sperre[s] # Niemand =>
         (s \in reduziert' => s \in reduziert) /\ (s \in laeuft => s \in laeuft')
  BY DEF Einzelne
<1>3. \A l \in Laeufe : wahl[l] # Niemand => wahl[l] \in Sitz
  BY DEF Laufend, Typen, TypeInv
<1>4. \A l \in Laeufe : l # Niemand
  BY SitzAnnahme
<1> QED BY <1>1, <1>2, <1>3, <1>4 DEF Laufend, Gegeben, WahlHaelt, BelegtLaeuft

LEMMA LaufendSchritt == Laufend /\ [Next]_vars => Laufend'
<1> SUFFICES ASSUME Laufend, [Next]_vars PROVE Laufend'
  OBVIOUS
<1>1. Typen'
  BY TypSchritt DEF Laufend
<1>2. ASSUME NEW l \in Laeufe, Anfang(l) \/ Listet(l) \/ SitzLesen(l) \/ \E m \in Mitglied : Naechster(l, m)
      PROVE  UNCHANGED <<inhaber, laeuft, reduziert, sperre, neu, wahl>>
  BY <1>2 DEF Anfang, Beginnt, Listet, ListeLesen, ListeSchreiben, SitzLesen, Naechster, daten, locks, zeiger
<1>3. ASSUME NEW l \in Laeufe, Endet(l)
      PROVE  Gegeben' /\ WahlHaelt' /\ BelegtLaeuft'
  BY <1>3, LaufendRuhe DEF Endet, daten, Laufend, BelegtLaeuft
<1>4. UNCHANGED vars => Gegeben' /\ WahlHaelt' /\ BelegtLaeuft'
  BY LaufendBleibt DEF vars, daten, locks, zeiger
<1>5. Gegeben' /\ WahlHaelt' /\ BelegtLaeuft'
  BY <1>2, <1>3, <1>4, Faelle, LaufendBleibt, LaufendWaehlt, LaufendFreigeben, LaufendCommit,
     LaufendEinzelne DEF Laufend, Typen
<1> QED BY <1>1, <1>5 DEF Laufend

\* No seat somebody has ends or is marked to end, for any number of requests,
\* whether or not two of them are for one member.
THEOREM BelegtImmer == Spec => []BelegtLaeuft
<1>1. Laufend => BelegtLaeuft
  BY DEF Laufend
<1> QED BY <1>1, LaufendAnfangs, LaufendSchritt, PTL DEF Spec

-----------------------------------------------------------------------------
(* Transactions for different members keep apart.                           *)

Allein ==
    \A l, k \in Laeufe, m \in Mitglied : l # k => auftrag[l][m] = "kein" \/ auftrag[k][m] = "kein"

\* A lock is on a seat that is free, or belongs to somebody the transaction
\* has changed; and gives it to nobody else.
Gesperrt ==
    \A s \in Sitz :
        /\ sperre[s] = Niemand => neu[s] = Niemand
        /\ \A l \in Laeufe : sperre[s] = l => /\ inhaber[s] = Niemand \/ inhaber[s] \in fertig[l]
                                              /\ neu[s] = Niemand \/ neu[s] \in fertig[l]

\* What a transaction will write at COMMIT for a member it has changed.
Umgesetzt ==
    \A l \in Laeufe : \A m \in fertig[l] :
        /\ alt[l][m] = zeitraum[m]
        /\ \A s \in Sitz : inhaber[s] = m => sperre[s] = l /\ neu[s] # m
        /\ auftrag[l][m] = "free" => \A s \in Sitz : sperre[s] = l => neu[s] # m
        /\ auftrag[l][m] # "free" =>
              \E s \in Sitz : /\ PlanVon[s] = auftrag[l][m]
                              /\ \A t \in Sitz : sperre[t] = l /\ neu[t] = m <=> t = s

Gewaehlter ==
    \A l \in Laeufe :
        /\ wahl[l] # Niemand => /\ schritt[l] = "freigeben" /\ auftrag[l][wer[l]] # "free"
                                /\ neu[wahl[l]] = Niemand
                                /\ PlanVon[wahl[l]] = auftrag[l][wer[l]]
        /\ schritt[l] = "freigeben" /\ wahl[l] = Niemand => auftrag[l][wer[l]] = "free"
        /\ schritt[l] = "waehlen" => auftrag[l][wer[l]] # "free"

\* What a transaction has read of its member's seat stays true.
Bisheriger ==
    \A l \in Laeufe : schritt[l] \in {"waehlen", "freigeben"} =>
        \A s \in Sitz : inhaber[s] = wer[l] <=> s = bisher[l]

Apart == Allein /\ Gesperrt /\ Umgesetzt /\ Gewaehlter /\ Bisheriger
Einzeln == Laufend /\ Apart /\ GetrenntStimmt

\* Facts that every step needs.
LEMMA Fakten ==
    ASSUME Laufend, Apart
    PROVE  /\ Niemand \notin Sitz /\ Niemand \notin Mitglied /\ Niemand \notin Laeufe
           /\ \A l \in Laeufe : /\ fertig[l] \subseteq Mitglied
                                /\ wer[l] \in Mitglied \cup {Niemand}
                                /\ bisher[l] \in Sitz \cup {Niemand} /\ wahl[l] \in Sitz \cup {Niemand}
           /\ \A l \in Laeufe, m \in Mitglied : m \in fertig[l] => auftrag[l][m] # "kein"
           /\ \A l, k \in Laeufe, m \in Mitglied :
                 l # k /\ m \in fertig[l] => auftrag[k][m] = "kein" /\ m \notin fertig[k]
  BY SitzAnnahme DEF Laufend, Typen, TypeInv, Vorne, Apart, Allein

\* The seat of a member that a transaction is at is locked by nobody.
LEMMA Ungesperrt ==
    ASSUME Laufend, Apart, NEW l \in Laeufe, schritt[l] \in {"sitz", "waehlen", "freigeben"},
           NEW s \in Sitz, inhaber[s] = wer[l]
    PROVE  sperre[s] = Niemand /\ neu[s] = Niemand /\ s \in laeuft
<1>1. wer[l] \in Mitglied /\ auftrag[l][wer[l]] # "kein" /\ wer[l] \notin fertig[l]
  BY DEF Laufend, Typen, Dran
<1>2. \A k \in Laeufe : wer[l] \notin fertig[k]
  BY <1>1, Fakten
<1>3. \A k \in Laeufe : sperre[s] # k
  BY <1>1, <1>2, Fakten DEF Apart, Gesperrt
<1>4. sperre[s] = Niemand
  BY <1>3 DEF Laufend, Typen, TypeInv
<1> QED BY <1>1, <1>4, Fakten DEF Apart, Gesperrt, Laufend, BelegtLaeuft

LEMMA ApartAnfangs == Init => Apart /\ GetrenntStimmt
  BY SitzAnnahme DEF Init, Apart, Allein, Gesperrt, Umgesetzt, Gewaehlter, Bisheriger, GetrenntStimmt,
     HatSitz, Keiner, Laeufe

LEMMA ApartAnfang ==
    ASSUME Laufend, Apart, ~Doppelt, NEW l \in Laeufe, Anfang(l) PROVE Apart'
<1>1. PICK a \in Arten, was \in [Mitglied -> Offen], z \in {"liste", "naechster"},
           welche \in SUBSET Mitglied : Beginnt(l, a, was, z, welche)
  BY DEF Anfang
<1>2. /\ schritt[l] = "ruht" /\ schritt' = [schritt EXCEPT ![l] = z]
      /\ auftrag' = [auftrag EXCEPT ![l] = was]
      /\ \A k \in Laeufe, m \in Mitglied : was[m] = "kein" \/ auftrag[k][m] = "kein"
      /\ UNCHANGED <<inhaber, zeitraum, sperre, neu, wer, bisher, wahl, fertig, alt>>
  BY <1>1 DEF Beginnt, daten, locks, zeiger
<1>3. fertig[l] = {} /\ wahl[l] = Niemand
  BY <1>2, Fakten DEF Laufend, Typen, RuhtLeer, Apart, Gewaehlter
<1>4. /\ schritt'[l] = z /\ auftrag'[l] = was
      /\ \A k \in Laeufe : k # l => schritt'[k] = schritt[k] /\ auftrag'[k] = auftrag[k]
  BY <1>2 DEF Laufend, Typen, TypeInv
<1>5. Allein'
  BY <1>2, <1>4 DEF Apart, Allein
<1>6. Gesperrt'
  BY <1>2 DEF Apart, Gesperrt
<1>7. Umgesetzt'
  BY <1>2, <1>3, <1>4 DEF Apart, Umgesetzt
<1>8. Gewaehlter'
  BY <1>2, <1>3, <1>4 DEF Apart, Gewaehlter
<1>9. Bisheriger'
  BY <1>2, <1>4 DEF Apart, Bisheriger
<1> QED BY <1>5, <1>6, <1>7, <1>8, <1>9 DEF Apart

\* Steps that change only where a transaction stands, before it has chosen.
LEMMA ApartSchritt ==
    ASSUME Laufend, Apart, NEW l \in Laeufe, NEW z,
           schritt' = [schritt EXCEPT ![l] = z],
           z \in {"schreiben", "naechster", "sitz"}, schritt[l] # "freigeben",
           UNCHANGED <<inhaber, zeitraum, sperre, neu, auftrag, bisher, wahl, fertig, alt>>,
           \A k \in Laeufe : k # l => wer'[k] = wer[k]
    PROVE  Apart'
<1>1. schritt'[l] = z /\ \A k \in Laeufe : k # l => schritt'[k] = schritt[k]
  BY DEF Laufend, Typen, TypeInv
<1>2. wahl[l] = Niemand
  BY DEF Apart, Gewaehlter
<1>3. Allein' /\ Gesperrt' /\ Umgesetzt'
  BY DEF Apart, Allein, Gesperrt, Umgesetzt
<1>4. Gewaehlter'
  BY <1>1, <1>2 DEF Apart, Gewaehlter
<1>5. Bisheriger'
  BY <1>1 DEF Apart, Bisheriger
<1> QED BY <1>3, <1>4, <1>5 DEF Apart

LEMMA ApartListet == ASSUME Laufend, Apart, NEW l \in Laeufe, Listet(l) PROVE Apart'
<1>1. \E z \in {"schreiben", "naechster"} : schritt' = [schritt EXCEPT ![l] = z]
  BY DEF Listet, ListeLesen, ListeSchreiben
<1>2. schritt[l] # "freigeben" /\ wer' = wer
      /\ UNCHANGED <<inhaber, zeitraum, sperre, neu, auftrag, bisher, wahl, fertig, alt>>
  BY DEF Listet, ListeLesen, ListeSchreiben, daten, locks, zeiger
<1> QED BY <1>1, <1>2, ApartSchritt

LEMMA ApartNaechster ==
    ASSUME Laufend, Apart, NEW l \in Laeufe, NEW m \in Mitglied, Naechster(l, m) PROVE Apart'
<1>1. /\ schritt' = [schritt EXCEPT ![l] = "sitz"] /\ schritt[l] # "freigeben"
      /\ UNCHANGED <<inhaber, zeitraum, sperre, neu, auftrag, bisher, wahl, fertig, alt>>
  BY DEF Naechster, daten, locks, zeiger
<1>2. \A k \in Laeufe : k # l => wer'[k] = wer[k]
  BY DEF Naechster, Laufend, Typen, TypeInv
<1> QED BY <1>1, <1>2, ApartSchritt

\* sitzVon sees the one seat the member has, which is the plan of the account.
LEMMA SitzGelesen ==
    ASSUME Einzeln, ~Doppelt, NEW l \in Laeufe, SitzLesen(l)
    PROVE  \E b \in Sitz \cup {Niemand} :
              /\ \A s \in Sitz : inhaber[s] = wer[l] <=> s = b
              /\ bisher' = [bisher EXCEPT ![l] = b]
              /\ schritt' = [schritt EXCEPT ![l] =
                   IF konto[wer[l]] = auftrag[l][wer[l]] THEN "naechster"
                   ELSE IF auftrag[l][wer[l]] = "free" THEN "freigeben" ELSE "waehlen"]
<1>0. Laufend /\ Apart /\ schritt[l] = "sitz"
  BY DEF Einzeln, SitzLesen
<1>1. wer[l] \in Mitglied /\ wer[l] # Niemand /\ wer[l] \notin fertig[l]
  BY <1>0, Fakten DEF Laufend, Typen, Dran
<1>2. \A s \in Sitz : s \in SitzeVon(l, wer[l]) <=> inhaber[s] = wer[l]
  <2>1. ASSUME NEW s \in Sitz, inhaber[s] = wer[l] PROVE s \in SitzeVon(l, wer[l])
    BY <1>0, <2>1, Ungesperrt, Fakten DEF SitzeVon, Vorhanden, Inhaber
  <2>2. ASSUME NEW s \in Sitz, s \in SitzeVon(l, wer[l]) PROVE inhaber[s] = wer[l]
    BY <1>0, <1>1, <2>2 DEF SitzeVon, Inhaber, Apart, Gesperrt
  <2> QED BY <2>1, <2>2
<1>3. SitzeVon(l, wer[l]) \subseteq Sitz
  BY <1>0 DEF SitzeVon, Vorhanden, Laufend, Typen, TypeInv
<1>4. \/ HatSitz(wer[l]) = {} /\ konto[wer[l]] = "free"
      \/ \E s \in Sitz : HatSitz(wer[l]) = {s} /\ konto[wer[l]] = PlanVon[s]
  BY <1>1 DEF Einzeln, GetrenntStimmt
<1>5. PICK b \in (IF SitzeVon(l, wer[l]) = {} THEN {Niemand} ELSE SitzeVon(l, wer[l])) :
         /\ bisher' = [bisher EXCEPT ![l] = b]
         /\ schritt' = [schritt EXCEPT ![l] =
              IF (IF b = Niemand THEN ZielVon(l) = "free" ELSE PlanVon[b] = ZielVon(l)) THEN "naechster"
              ELSE IF ZielVon(l) = "free" THEN "freigeben" ELSE "waehlen"]
  BY DEF SitzLesen
<1>6. b \in Sitz \cup {Niemand} /\ \A s \in Sitz : inhaber[s] = wer[l] <=> s = b
  BY <1>0, <1>2, <1>3, <1>4, <1>5, Fakten DEF HatSitz
<1>7. konto[wer[l]] = IF b = Niemand THEN "free" ELSE PlanVon[b]
  BY <1>0, <1>4, <1>6, Fakten DEF HatSitz
<1>8. (IF b = Niemand THEN ZielVon(l) = "free" ELSE PlanVon[b] = ZielVon(l))
         <=> konto[wer[l]] = auftrag[l][wer[l]]
  BY <1>7 DEF ZielVon
<1> QED BY <1>5, <1>6, <1>8 DEF ZielVon

LEMMA ApartSitzLesen ==
    ASSUME Einzeln, ~Doppelt, NEW l \in Laeufe, SitzLesen(l) PROVE Apart'
<1>0. Laufend /\ Apart /\ schritt[l] = "sitz"
  BY DEF Einzeln, SitzLesen
<1>1. PICK b \in Sitz \cup {Niemand} :
         /\ \A s \in Sitz : inhaber[s] = wer[l] <=> s = b
         /\ bisher' = [bisher EXCEPT ![l] = b]
         /\ schritt' = [schritt EXCEPT ![l] =
              IF konto[wer[l]] = auftrag[l][wer[l]] THEN "naechster"
              ELSE IF auftrag[l][wer[l]] = "free" THEN "freigeben" ELSE "waehlen"]
  BY SitzGelesen
<1>2. /\ UNCHANGED <<inhaber, zeitraum, sperre, neu, auftrag, wer, wahl, fertig, alt>>
      /\ bisher'[l] = b /\ \A k \in Laeufe : k # l => bisher'[k] = bisher[k] /\ schritt'[k] = schritt[k]
  BY <1>0, <1>1 DEF SitzLesen, daten, locks, Laufend, Typen, TypeInv
<1>3. /\ schritt'[l] \in {"naechster", "freigeben", "waehlen"}
      /\ schritt'[l] = "freigeben" => auftrag[l][wer[l]] = "free"
      /\ schritt'[l] = "waehlen" => auftrag[l][wer[l]] # "free"
  BY <1>0, <1>1 DEF Laufend, Typen, TypeInv
<1>4. wahl[l] = Niemand
  BY <1>0 DEF Apart, Gewaehlter
<1>5. Allein' /\ Gesperrt' /\ Umgesetzt'
  BY <1>0, <1>2 DEF Apart, Allein, Gesperrt, Umgesetzt
<1>6. Gewaehlter'
  BY <1>0, <1>2, <1>3, <1>4 DEF Apart, Gewaehlter
<1>7. Bisheriger'
  BY <1>0, <1>1, <1>2 DEF Apart, Bisheriger
<1> QED BY <1>5, <1>6, <1>7 DEF Apart

LEMMA ApartWaehlt == ASSUME Laufend, Apart, NEW l \in Laeufe, Waehlt(l) PROVE Apart'
<1>1. PICK s \in Sitz : /\ Gewaehlt(l, s) /\ sperre[s] \in {Niemand, l}
                        /\ s \in laeuft /\ sperre[s] = Niemand => inhaber[s] = Niemand
                        /\ sperre[s] = l => neu[s] = Niemand
                        /\ PlanVon[s] = ZielVon(l) /\ schritt[l] = "waehlen"
  BY WaehltWas DEF Laufend
<1>2. neu[s] = Niemand /\ (sperre[s] = Niemand => inhaber[s] = Niemand)
  BY <1>1, Fakten DEF Apart, Gesperrt, Laufend, BelegtLaeuft
<1>3. /\ UNCHANGED <<inhaber, zeitraum, auftrag, wer, bisher, fertig, alt>>
      /\ sperre' = [sperre EXCEPT ![s] = l] /\ neu' = neu
      /\ wahl' = [wahl EXCEPT ![l] = s] /\ schritt' = [schritt EXCEPT ![l] = "freigeben"]
  BY <1>1, <1>2 DEF Gewaehlt, daten, Laufend, Typen, TypeInv
<1>4. /\ sperre'[s] = l /\ \A t \in Sitz : t # s => sperre'[t] = sperre[t]
      /\ wahl'[l] = s /\ schritt'[l] = "freigeben"
      /\ \A k \in Laeufe : k # l => wahl'[k] = wahl[k] /\ schritt'[k] = schritt[k]
  BY <1>3 DEF Laufend, Typen, TypeInv
<1>5. Allein'
  BY <1>3 DEF Apart, Allein
<1>6. Gesperrt'
  BY <1>1, <1>2, <1>3, <1>4, Fakten DEF Apart, Gesperrt
<1>7. Umgesetzt'
  <2>1. ASSUME NEW k \in Laeufe, NEW m \in fertig[k]
        PROVE  /\ \A t \in Sitz : inhaber[t] = m => sperre'[t] = k /\ neu[t] # m
               /\ \A t \in Sitz : sperre'[t] = k /\ neu[t] = m <=> sperre[t] = k /\ neu[t] = m
    BY <1>1, <1>2, <1>4, Fakten DEF Apart, Umgesetzt
  <2> QED BY <1>3, <2>1 DEF Apart, Umgesetzt
<1>8. Gewaehlter'
  <2>1. s # Niemand /\ auftrag[l][wer[l]] # "free" /\ PlanVon[s] = auftrag[l][wer[l]]
    BY <1>1, Fakten DEF Apart, Gewaehlter, ZielVon
  <2> QED BY <1>2, <1>3, <1>4, <2>1 DEF Apart, Gewaehlter
<1>9. Bisheriger'
  BY <1>1, <1>3, <1>4 DEF Apart, Bisheriger
<1> QED BY <1>5, <1>6, <1>7, <1>8, <1>9 DEF Apart

LEMMA ApartFreigeben == ASSUME Laufend, Apart, NEW l \in Laeufe, Freigeben(l) PROVE Apart'
<1> DEFINE b == bisher[l]
           w == wahl[l]
           m0 == wer[l]
<1>1. schritt[l] = "freigeben" /\ m0 \in Mitglied /\ m0 # Niemand /\ auftrag[l][m0] # "kein"
      /\ m0 \notin fertig[l] /\ \A k \in Laeufe : m0 \notin fertig[k]
  BY Fakten DEF Freigeben, Laufend, Typen, Dran
<1>2. \A s \in Sitz : inhaber[s] = m0 <=> s = b
  BY <1>1 DEF Apart, Bisheriger
<1>3. b \in Sitz => sperre[b] = Niemand /\ neu[b] = Niemand /\ b \in laeuft
  BY <1>1, <1>2, Ungesperrt
<1>4. w # Niemand => sperre[w] = l /\ neu[w] = Niemand /\ w \in Sitz
  BY Fakten DEF Laufend, WahlHaelt, Apart, Gewaehlter
<1>5. \A s \in Sitz : /\ sperre'[s] = IF s = b THEN l ELSE sperre[s]
                      /\ neu'[s] = IF s = w THEN m0 ELSE neu[s]
  BY <1>3, Fakten DEF Freigeben
<1>6. /\ UNCHANGED <<inhaber, zeitraum, auftrag, wer>>
      /\ fertig'[l] = fertig[l] \cup {m0} /\ wahl'[l] = Niemand /\ schritt'[l] = "naechster"
      /\ \A k \in Laeufe : k # l => /\ fertig'[k] = fertig[k] /\ wahl'[k] = wahl[k]
                                    /\ schritt'[k] = schritt[k] /\ bisher'[k] = bisher[k]
                                    /\ alt'[k] = alt[k]
  BY DEF Freigeben, daten, Laufend, Typen, TypeInv
<1>7. alt'[l][m0] = zeitraum[m0] /\ \A m \in Mitglied : m # m0 => alt'[l][m] = alt[l][m]
  BY <1>1 DEF Freigeben, Laufend, Typen, TypeInv
<1>8. Allein'
  BY <1>6 DEF Apart, Allein
<1>9. Gesperrt'
  BY <1>2, <1>3, <1>4, <1>5, <1>6, Fakten DEF Apart, Gesperrt
<1>10. Umgesetzt'
  <2>1. SUFFICES ASSUME NEW k \in Laeufe, NEW m \in fertig'[k]
        PROVE  /\ alt'[k][m] = zeitraum[m]
               /\ \A s \in Sitz : inhaber[s] = m => sperre'[s] = k /\ neu'[s] # m
               /\ auftrag[k][m] = "free" => \A s \in Sitz : sperre'[s] = k => neu'[s] # m
               /\ auftrag[k][m] # "free" =>
                     \E s \in Sitz : /\ PlanVon[s] = auftrag[k][m]
                                     /\ \A t \in Sitz : sperre'[t] = k /\ neu'[t] = m <=> t = s
    BY <1>6 DEF Umgesetzt
  <2>2. CASE m # m0
    <3>1. m \in fertig[k] /\ m \in Mitglied
      BY <1>6, <2>2, Fakten
    <3>2. alt'[k][m] = zeitraum[m]
      BY <1>6, <1>7, <2>2, <3>1 DEF Apart, Umgesetzt
    <3>3. \A s \in Sitz : inhaber[s] = m => sperre[s] = k /\ neu[s] # m /\ s # b
      BY <1>2, <2>2, <3>1 DEF Apart, Umgesetzt
    <3>4. \A s \in Sitz : inhaber[s] = m => sperre'[s] = k /\ neu'[s] # m
      BY <1>5, <2>2, <3>3
    <3>5. \A t \in Sitz : sperre'[t] = k /\ neu'[t] = m <=> sperre[t] = k /\ neu[t] = m
      BY <1>3, <1>4, <1>5, <2>2, <3>1, Fakten
    <3> QED BY <3>1, <3>2, <3>4, <3>5 DEF Apart, Umgesetzt
  <2>3. CASE m = m0
    <3>1. k = l
      BY <1>1, <1>6, <2>3
    <3>2. \A s \in Sitz : sperre[s] = l => neu[s] # m0
      BY <1>1 DEF Apart, Gesperrt
    <3>3. \A t \in Sitz : sperre'[t] = l /\ neu'[t] = m0 <=> t = w
      <4>1. w \in Sitz => w # Niemand /\ sperre'[w] = l /\ neu'[w] = m0
        BY <1>4, <1>5, Fakten
      <4>2. ASSUME NEW t \in Sitz, sperre'[t] = l, neu'[t] = m0 PROVE t = w
        BY <1>1, <1>3, <1>5, <3>2, <4>2
      <4> QED BY <4>1, <4>2
    <3>4. \A s \in Sitz : inhaber[s] = m0 => sperre'[s] = l /\ neu'[s] # m0
      <4>1. b \in Sitz => w # b
        BY <1>3, <1>4, Fakten
      <4> QED BY <1>1, <1>2, <1>3, <1>5, <4>1
    <3>5. auftrag[l][m0] = "free" => w = Niemand
      BY DEF Apart, Gewaehlter
    <3>6. auftrag[l][m0] # "free" => w \in Sitz /\ PlanVon[w] = auftrag[l][m0]
      BY <1>1, <1>4 DEF Apart, Gewaehlter
    <3> QED BY <1>7, <2>3, <3>1, <3>3, <3>4, <3>5, <3>6, Fakten
  <2> QED BY <2>2, <2>3
<1>11. Gewaehlter'
  <2>1. \A k \in Laeufe : k # l /\ wahl[k] # Niemand => wahl[k] \in Sitz /\ wahl[k] # w
    BY <1>4, Fakten DEF Laufend, WahlHaelt
  <2> QED BY <1>5, <1>6, <2>1 DEF Apart, Gewaehlter
<1>12. Bisheriger'
  BY <1>6 DEF Apart, Bisheriger
<1> QED BY <1>8, <1>9, <1>10, <1>11, <1>12 DEF Apart

\* The end of a transaction, which may write what it has kept in its locks
\* and change the periods of members it has changed.
LEMMA ApartRuhe ==
    ASSUME Laufend, Apart, NEW l \in Laeufe, Ruhe(l),
           \A s \in Sitz : inhaber'[s] = IF sperre[s] = l THEN inhaber'[s] ELSE inhaber[s],
           \A s \in Sitz : sperre[s] = l => inhaber'[s] \in {inhaber[s], neu[s]},
           \A m \in Mitglied : m \notin fertig[l] => zeitraum'[m] = zeitraum[m]
    PROVE  Apart'
<1>1. /\ auftrag'[l] = Keiner /\ fertig'[l] = {} /\ wahl'[l] = Niemand /\ schritt'[l] = "ruht"
      /\ \A k \in Laeufe : k # l =>
            /\ auftrag'[k] = auftrag[k] /\ fertig'[k] = fertig[k] /\ wahl'[k] = wahl[k]
            /\ schritt'[k] = schritt[k] /\ wer'[k] = wer[k] /\ bisher'[k] = bisher[k] /\ alt'[k] = alt[k]
  BY DEF Ruhe, Laufend, Typen, TypeInv
<1>2. \A s \in Sitz : /\ sperre[s] = l => sperre'[s] = Niemand /\ neu'[s] = Niemand
                      /\ sperre[s] # l => sperre'[s] = sperre[s] /\ neu'[s] = neu[s]
  BY DEF Ruhe
\* Nobody whom the transaction has not changed gets or loses a seat.
<1>3. ASSUME NEW m \in Mitglied, m \notin fertig[l], NEW s \in Sitz
      PROVE  inhaber'[s] = m <=> inhaber[s] = m
  BY <1>3, Fakten DEF Apart, Gesperrt
<1>4. Allein'
  BY <1>1 DEF Apart, Allein, Keiner
<1>5. Gesperrt'
  BY <1>1, <1>2, Fakten DEF Apart, Gesperrt
<1>6. Umgesetzt'
  <2>1. SUFFICES ASSUME NEW k \in Laeufe, k # l, NEW m \in fertig[k]
        PROVE  /\ alt[k][m] = zeitraum'[m]
               /\ \A s \in Sitz : inhaber'[s] = m => sperre'[s] = k /\ neu'[s] # m
               /\ auftrag[k][m] = "free" => \A s \in Sitz : sperre'[s] = k => neu'[s] # m
               /\ auftrag[k][m] # "free" =>
                     \E s \in Sitz : /\ PlanVon[s] = auftrag[k][m]
                                     /\ \A t \in Sitz : sperre'[t] = k /\ neu'[t] = m <=> t = s
    BY <1>1 DEF Umgesetzt
  <2>2. m \in Mitglied /\ m \notin fertig[l]
    BY <2>1, Fakten
  <2>3. \A s \in Sitz : inhaber'[s] = m => sperre'[s] = k /\ neu'[s] # m
    BY <1>2, <1>3, <2>1, <2>2 DEF Apart, Umgesetzt
  <2>4. \A t \in Sitz : sperre'[t] = k /\ neu'[t] = m <=> sperre[t] = k /\ neu[t] = m
    BY <1>2, <2>1, <2>2, Fakten
  <2> QED BY <2>1, <2>2, <2>3, <2>4 DEF Apart, Umgesetzt
<1>7. Gewaehlter'
  <2>1. \A k \in Laeufe : k # l /\ wahl[k] # Niemand => wahl[k] \in Sitz /\ sperre[wahl[k]] # l
    BY Fakten DEF Laufend, WahlHaelt
  <2> QED BY <1>1, <1>2, <2>1 DEF Apart, Gewaehlter
<1>8. Bisheriger'
  <2>1. SUFFICES ASSUME NEW k \in Laeufe, k # l, schritt[k] \in {"waehlen", "freigeben"}, NEW s \in Sitz
        PROVE  inhaber'[s] = wer[k] <=> s = bisher[k]
    BY <1>1 DEF Bisheriger
  <2>2. wer[k] \in Mitglied /\ auftrag[k][wer[k]] # "kein"
    BY <2>1 DEF Laufend, Typen, Dran
  <2>3. wer[k] \notin fertig[l]
    BY <2>1, <2>2, Fakten
  <2> QED BY <1>3, <2>1, <2>2, <2>3 DEF Apart, Bisheriger
<1> QED BY <1>4, <1>5, <1>6, <1>7, <1>8 DEF Apart

LEMMA ApartEndet == ASSUME Laufend, Apart, NEW l \in Laeufe, Endet(l) PROVE Apart'
<1>1. Ruhe(l) /\ inhaber' = inhaber /\ zeitraum' = zeitraum
  BY DEF Endet, daten
<1> QED BY <1>1, ApartRuhe

LEMMA ApartCommit == ASSUME Laufend, Apart, NEW l \in Laeufe, Commit(l) PROVE Apart'
<1>1. Ruhe(l) /\ \A s \in Sitz : inhaber'[s] = IF sperre[s] = l THEN neu[s] ELSE inhaber[s]
  BY DEF Commit, Inhaber
<1>2. \A m \in Mitglied : m \notin fertig[l] => zeitraum'[m] = zeitraum[m]
  BY DEF Commit
<1> QED BY <1>1, <1>2, ApartRuhe

\* At COMMIT the three tables agree about everybody.
LEMMA StimmtCommit ==
    ASSUME Einzeln, ~Doppelt, NEW l \in Laeufe, Commit(l) PROVE GetrenntStimmt'
<1>0. Laufend /\ Apart
  BY DEF Einzeln
<1>1. \A s \in Sitz : inhaber'[s] = IF sperre[s] = l THEN neu[s] ELSE inhaber[s]
  BY DEF Commit, Inhaber
<1>2. SUFFICES ASSUME NEW m \in Mitglied
               PROVE  \/ /\ \A s \in Sitz : inhaber'[s] # m
                         /\ konto'[m] = "free" /\ zeitraum'[m] \subseteq {Niemand}
                      \/ \E s \in Sitz : /\ \A t \in Sitz : inhaber'[t] = m <=> t = s
                                         /\ konto'[m] = PlanVon[s] /\ zeitraum'[m] = {s}
  <2>1. ASSUME NEW m \in Mitglied, \A s \in Sitz : inhaber'[s] # m PROVE HatSitz(m)' = {}
    BY <2>1 DEF HatSitz
  <2>2. ASSUME NEW m \in Mitglied, NEW s \in Sitz, \A t \in Sitz : inhaber'[t] = m <=> t = s
        PROVE  HatSitz(m)' = {s}
    BY <2>2 DEF HatSitz
  <2> QED BY <1>2, <2>1, <2>2 DEF GetrenntStimmt
<1>3. CASE m \notin fertig[l]
  <2>1. \A s \in Sitz : inhaber'[s] = m <=> inhaber[s] = m
    BY <1>0, <1>1, <1>3, Fakten DEF Apart, Gesperrt
  <2>2. konto'[m] = konto[m] /\ zeitraum'[m] = zeitraum[m]
    BY <1>3 DEF Commit
  <2>3. \/ HatSitz(m) = {} /\ konto[m] = "free" /\ zeitraum[m] \subseteq {Niemand}
        \/ \E s \in Sitz : HatSitz(m) = {s} /\ konto[m] = PlanVon[s] /\ zeitraum[m] = {s}
    BY DEF Einzeln, GetrenntStimmt
  <2> QED BY <2>1, <2>2, <2>3 DEF HatSitz
<1>4. CASE m \in fertig[l]
  <2>1. \A s \in Sitz : inhaber'[s] = m <=> sperre[s] = l /\ neu[s] = m
    BY <1>0, <1>1, <1>4 DEF Apart, Umgesetzt
  <2>2. konto'[m] = auftrag[l][m] /\ zeitraum'[m] = Neuer(l, m)
    BY <1>0, <1>4 DEF Commit, Apart, Umgesetzt
  <2>3. CASE auftrag[l][m] = "free"
    <3>1. \A s \in Sitz : sperre[s] = l => neu[s] # m
      BY <1>0, <1>4, <2>3 DEF Apart, Umgesetzt
    <3>2. Neuer(l, m) = {Niemand}
      BY <3>1 DEF Neuer, Meine
    <3> QED BY <2>1, <2>2, <2>3, <3>1, <3>2
  <2>4. CASE auftrag[l][m] # "free"
    <3>1. PICK s \in Sitz : /\ PlanVon[s] = auftrag[l][m]
                            /\ \A t \in Sitz : sperre[t] = l /\ neu[t] = m <=> t = s
      BY <1>0, <1>4, <2>4 DEF Apart, Umgesetzt
    <3>2. Neuer(l, m) = {s}
      BY <3>1 DEF Neuer, Meine
    <3> QED BY <2>1, <2>2, <3>1, <3>2
  <2> QED BY <2>3, <2>4
<1> QED BY <1>3, <1>4

LEMMA ApartEinzelne == ASSUME Laufend, Apart, Einzelne PROVE Apart'
  BY DEF Einzelne, RestGleich, locks, zeiger, Apart, Allein, Gesperrt, Umgesetzt, Gewaehlter, Bisheriger

\* Only a COMMIT changes the tables, apart from the rows of free seats.
LEMMA NurCommit ==
    ASSUME TypeInv, [Next]_vars, \A l \in Laeufe : ~Commit(l)
    PROVE  UNCHANGED <<inhaber, konto, zeitraum>>
<1>1. ASSUME NEW l \in Laeufe, \/ Anfang(l) \/ Listet(l) \/ SitzLesen(l) \/ Freigeben(l)
                               \/ Waehlt(l) \/ Endet(l) \/ \E m \in Mitglied : Naechster(l, m)
      PROVE  UNCHANGED daten
  BY <1>1, Zenon DEF Anfang, Beginnt, Listet, ListeLesen, ListeSchreiben, SitzLesen, Freigeben, Waehlt, FreienWaehlen,
     Dazukaufen, Gewaehlt, Endet, Naechster
<1>2. Einzelne => UNCHANGED <<inhaber, konto, zeitraum>>
  BY DEF Einzelne
<1> QED BY <1>1, <1>2, Faelle DEF vars, daten

LEMMA EinzelnSchritt == ASSUME Einzeln, ~Doppelt, [Next]_vars PROVE Einzeln'
<1>0. Laufend /\ Apart /\ TypeInv
  BY DEF Einzeln, Laufend, Typen
<1>1. Laufend'
  BY <1>0, LaufendSchritt
<1>2. UNCHANGED vars => Apart'
  BY <1>0 DEF vars, daten, locks, zeiger, Apart, Allein, Gesperrt, Umgesetzt, Gewaehlter, Bisheriger
<1>3. Apart'
  BY <1>0, <1>2, Faelle, ApartAnfang, ApartListet, ApartNaechster, ApartSitzLesen, ApartWaehlt,
     ApartFreigeben, ApartCommit, ApartEndet, ApartEinzelne
<1>4. UNCHANGED <<inhaber, konto, zeitraum>> => GetrenntStimmt'
  BY DEF Einzeln, GetrenntStimmt, HatSitz
<1>5. GetrenntStimmt'
  BY <1>0, <1>4, NurCommit, StimmtCommit
<1> QED BY <1>1, <1>3, <1>5 DEF Einzeln

Getrennt == Laufend /\ (~Doppelt => Einzeln)

LEMMA GetrenntInvariant == Spec => []Getrennt
<1>1. Init => Getrennt
  BY LaufendAnfangs, ApartAnfangs DEF Getrennt, Einzeln
<1>2. Getrennt /\ [Next]_vars => Getrennt'
  BY LaufendSchritt, EinzelnSchritt DEF Getrennt
<1> QED BY <1>1, <1>2, PTL DEF Spec

\* Seat, tier and open period agree, unless two transactions for one member
\* overlap, for any number of members, seats, plans and requests.
THEOREM GetrenntImmer == Spec => []GetrenntStimmt
<1>1. Getrennt => GetrenntStimmt
  BY DEF Getrennt, Einzeln, GetrenntStimmt
<1> QED BY <1>1, GetrenntInvariant, PTL

\* Under that condition nobody waits for the lock of a seat.
THEOREM KeinWartenImmer == Spec => []KeinWarten
<1>1. Getrennt => KeinWarten
  <2>1. SUFFICES ASSUME Getrennt, ~Doppelt, NEW l \in Laeufe, schritt[l] = "freigeben", bisher[l] # Niemand
                 PROVE  sperre[bisher[l]] \in {Niemand, l}
    BY DEF KeinWarten
  <2>2. Laufend /\ Apart
    BY <2>1 DEF Getrennt, Einzeln
  <2>3. bisher[l] \in Sitz /\ inhaber[bisher[l]] = wer[l]
    BY <2>1, <2>2, Fakten DEF Apart, Bisheriger
  <2> QED BY <2>1, <2>2, <2>3, Ungesperrt
<1> QED BY <1>1, GetrenntInvariant, PTL

\* Nor does anybody lose a seat by a transaction that is about others.
THEOREM NurDieEigenenImmer == Spec => NurDieEigenen
<1>1. Getrennt /\ [Next]_vars =>
         [~Doppelt => \A s \in Sitz : inhaber[s] # Niemand /\ inhaber'[s] # inhaber[s]
                          => \E l \in Laeufe : inhaber[s] \in fertig[l]]_vars
  <2>1. SUFFICES ASSUME Getrennt, [Next]_vars, ~Doppelt, NEW s \in Sitz,
                        inhaber[s] # Niemand, inhaber'[s] # inhaber[s]
                 PROVE  \E l \in Laeufe : inhaber[s] \in fertig[l]
    OBVIOUS
  <2>2. Laufend /\ Apart /\ TypeInv
    BY <2>1 DEF Getrennt, Einzeln, Laufend, Typen
  <2>3. PICK l \in Laeufe : Commit(l)
    BY <2>1, <2>2, NurCommit
  <2>4. sperre[s] = l
    BY <2>1, <2>3 DEF Commit, Inhaber
  <2> QED BY <2>1, <2>2, <2>4 DEF Apart, Gesperrt
<1> QED BY <1>1, GetrenntInvariant, PTL DEF Spec, NurDieEigenen

-----------------------------------------------------------------------------
(* Requests as if in one step: the book Sitzbuch.                           *)

\* A transaction changes a member only if the plan is another, and gives one
\* only to a member of the organisation.
Noetig ==
    \A l \in Laeufe, m \in Mitglied :
        m \in fertig[l] \/ (m = wer[l] /\ schritt[l] \in {"waehlen", "freigeben"}) =>
            konto[m] # auftrag[l][m] /\ (auftrag[l][m] # "free" => m \in mitglieder)

\* Whom it has passed over has the plan already.
Uebergangen ==
    \A l \in Laeufe, m \in Mitglied :
        art[l] # "vormerken" /\ auftrag[l][m] # "kein" =>
            \/ m \in rest[l] \/ m \in fertig[l]
            \/ m = wer[l] /\ schritt[l] \in {"sitz", "waehlen", "freigeben"}
            \/ konto[m] = auftrag[l][m]

\* A change that is only noted touches nobody; who leaves gets nothing.
NachArt ==
    \A l \in Laeufe :
        /\ art[l] = "vormerken" => /\ rest[l] = {} /\ fertig[l] = {}
                                   /\ schritt[l] \notin {"sitz", "waehlen", "freigeben"}
        /\ art[l] = "austritt" => \A m \in Mitglied : auftrag[l][m] \in {"kein", "free"}

\* A seat that is being bought is chosen or given.
Gekauft ==
    \A l \in Laeufe, s \in Sitz :
        sperre[s] = l /\ s \notin laeuft => s = wahl[l] \/ neu[s] # Niemand

\* Only members of the organisation have seats.
NurMitglieder == \A s \in Sitz : inhaber[s] # Niemand => inhaber[s] \in mitglieder

Vollzug == Noetig /\ Uebergangen /\ NachArt /\ Gekauft /\ NurMitglieder


LEMMA VollzugAnfangs == Init => Vollzug
  BY SitzAnnahme DEF Init, Vollzug, Noetig, Uebergangen, NachArt, Gekauft, NurMitglieder, Keiner, Laeufe

LEMMA VollzugAnfang ==
    ASSUME Einzeln, Vollzug, NEW l \in Laeufe, Anfang(l) PROVE Vollzug'
<1>1. PICK a \in Arten, was \in [Mitglied -> Offen], z \in {"liste", "naechster"},
           welche \in SUBSET Mitglied : Zusammen(a, was, welche) /\ Beginnt(l, a, was, z, welche)
  BY DEF Anfang
<1>2. /\ UNCHANGED <<daten, sperre, neu, wer, wahl, fertig>>
      /\ art'[l] = a /\ auftrag'[l] = was /\ rest'[l] = welche /\ schritt'[l] = z
      /\ \A k \in Laeufe : k # l => /\ art'[k] = art[k] /\ auftrag'[k] = auftrag[k]
                                    /\ rest'[k] = rest[k] /\ schritt'[k] = schritt[k]
  BY <1>1 DEF Beginnt, locks, zeiger, Einzeln, Laufend, Typen, TypeInv
<1>3. fertig[l] = {}
  BY <1>1, Fakten DEF Beginnt, Einzeln, Laufend, Typen, RuhtLeer
<1>4. Noetig' /\ Gekauft' /\ NurMitglieder'
  BY <1>2, <1>3 DEF daten, Vollzug, Noetig, Gekauft, NurMitglieder
<1>5. Uebergangen'
  BY <1>1, <1>2 DEF daten, Zusammen, Vollzug, Uebergangen
<1>6. NachArt'
  BY <1>1, <1>2, <1>3 DEF Zusammen, Vollzug, NachArt
<1> QED BY <1>4, <1>5, <1>6 DEF Vollzug

LEMMA VollzugListet ==
    ASSUME Einzeln, Vollzug, NEW l \in Laeufe, Listet(l) PROVE Vollzug'
<1>1. /\ UNCHANGED <<daten, sperre, neu, art, auftrag, rest, wer, wahl, fertig>>
      /\ schritt[l] \in {"liste", "schreiben"} /\ schritt'[l] \in {"schreiben", "naechster"}
      /\ \A k \in Laeufe : k # l => schritt'[k] = schritt[k]
  BY DEF Listet, ListeLesen, ListeSchreiben, locks, zeiger, Einzeln, Laufend, Typen, TypeInv
<1> QED BY <1>1 DEF daten, Vollzug, Noetig, Uebergangen, NachArt, Gekauft, NurMitglieder

LEMMA VollzugNaechster ==
    ASSUME Einzeln, Vollzug, NEW l \in Laeufe, NEW m \in Mitglied, Naechster(l, m) PROVE Vollzug'
<1>1. /\ UNCHANGED <<daten, sperre, neu, art, auftrag, wahl, fertig>>
      /\ schritt[l] = "naechster" /\ schritt'[l] = "sitz"
      /\ m \in rest[l] /\ wer'[l] = m /\ rest'[l] = rest[l] \ {m}
      /\ \A k \in Laeufe : k # l => schritt'[k] = schritt[k] /\ wer'[k] = wer[k] /\ rest'[k] = rest[k]
  BY DEF Naechster, locks, zeiger, Einzeln, Laufend, Typen, TypeInv
<1>2. Noetig' /\ Gekauft' /\ NurMitglieder'
  BY <1>1 DEF daten, Vollzug, Noetig, Gekauft, NurMitglieder
<1>3. Uebergangen'
  BY <1>1 DEF daten, Vollzug, Uebergangen
<1>4. NachArt'
  BY <1>1 DEF Vollzug, NachArt
<1> QED BY <1>2, <1>3, <1>4 DEF Vollzug

LEMMA VollzugSitzLesen ==
    ASSUME Einzeln, ~Doppelt, Vollzug, NEW l \in Laeufe, SitzLesen(l) PROVE Vollzug'
<1>1. /\ UNCHANGED <<daten, sperre, neu, art, auftrag, rest, wer, wahl, fertig>>
      /\ schritt[l] = "sitz" /\ Darf(l)
  BY DEF SitzLesen, locks
<1>2. /\ schritt'[l] = IF konto[wer[l]] = auftrag[l][wer[l]] THEN "naechster"
                       ELSE IF auftrag[l][wer[l]] = "free" THEN "freigeben" ELSE "waehlen"
      /\ \A k \in Laeufe : k # l => schritt'[k] = schritt[k]
  BY SitzGelesen DEF Einzeln, Laufend, Typen, TypeInv
<1>3. Noetig'
  BY <1>1, <1>2 DEF daten, Darf, ZielVon, Vollzug, Noetig
<1>4. Uebergangen'
  BY <1>1, <1>2 DEF daten, Vollzug, Uebergangen
<1>5. NachArt' /\ Gekauft' /\ NurMitglieder'
  BY <1>1, <1>2 DEF daten, Vollzug, NachArt, Gekauft, NurMitglieder
<1> QED BY <1>3, <1>4, <1>5 DEF Vollzug

LEMMA VollzugWaehlt ==
    ASSUME Einzeln, Vollzug, NEW l \in Laeufe, Waehlt(l) PROVE Vollzug'
<1>1. PICK s \in Sitz : Gewaehlt(l, s) /\ sperre[s] \in {Niemand, l} /\ schritt[l] = "waehlen"
  BY WaehltWas DEF Einzeln, Laufend
<1>2. /\ UNCHANGED <<daten, art, auftrag, rest, wer, fertig>>
      /\ schritt'[l] = "freigeben" /\ wahl'[l] = s
      /\ \A k \in Laeufe : k # l => schritt'[k] = schritt[k] /\ wahl'[k] = wahl[k]
      /\ sperre'[s] = l /\ \A t \in Sitz : t # s => sperre'[t] = sperre[t] /\ neu'[t] = neu[t]
  BY <1>1 DEF Gewaehlt, Einzeln, Laufend, Typen, TypeInv
<1>3. wahl[l] = Niemand
  BY <1>1 DEF Einzeln, Apart, Gewaehlter
<1>4. Gekauft'
  BY <1>2, <1>3, SitzAnnahme DEF daten, Vollzug, Gekauft
<1> QED BY <1>1, <1>2, <1>4 DEF daten, Vollzug, Noetig, Uebergangen, NachArt, NurMitglieder

LEMMA VollzugFreigeben ==
    ASSUME Einzeln, Vollzug, NEW l \in Laeufe, Freigeben(l) PROVE Vollzug'
<1> DEFINE b == bisher[l]
           w == wahl[l]
           m0 == wer[l]
<1>1. schritt[l] = "freigeben" /\ m0 \in Mitglied /\ m0 # Niemand
  BY Fakten DEF Freigeben, Einzeln, Laufend, Typen, Dran
<1>2. b \in Sitz => b \in laeuft
  BY <1>1, Ungesperrt DEF Einzeln, Apart, Bisheriger
<1>3. /\ UNCHANGED <<daten, art, auftrag, rest, wer>>
      /\ schritt'[l] = "naechster" /\ fertig'[l] = fertig[l] \cup {m0}
      /\ \A k \in Laeufe : k # l => schritt'[k] = schritt[k] /\ fertig'[k] = fertig[k] /\ wahl'[k] = wahl[k]
  BY DEF Freigeben, Einzeln, Laufend, Typen, TypeInv
<1>4. \A s \in Sitz : s # b => sperre'[s] = sperre[s] /\ neu'[s] = IF s = w THEN m0 ELSE neu[s]
  BY DEF Freigeben
<1>5. \A k \in Laeufe, s \in Sitz : k # l /\ s = wahl[k] => s # w
  BY Fakten DEF Einzeln, Laufend, WahlHaelt
<1>6. Gekauft'
  BY <1>1, <1>2, <1>3, <1>4, <1>5 DEF daten, Vollzug, Gekauft
<1>7. Noetig'
  BY <1>1, <1>3 DEF daten, Vollzug, Noetig
<1>8. Uebergangen'
  BY <1>1, <1>3 DEF daten, Vollzug, Uebergangen
<1>9. NachArt' /\ NurMitglieder'
  BY <1>1, <1>3 DEF daten, Vollzug, NachArt, NurMitglieder
<1> QED BY <1>6, <1>7, <1>8, <1>9 DEF Vollzug

\* The end of a transaction, for the others.
LEMMA VollzugRuhe ==
    ASSUME Einzeln, Vollzug, NEW l \in Laeufe, Ruhe(l), laeuft \subseteq laeuft',
           \A k \in Laeufe, m \in Mitglied : k # l /\ auftrag[k][m] # "kein" =>
              konto'[m] = konto[m] /\ (m \in mitglieder => m \in mitglieder')
    PROVE  Noetig' /\ Uebergangen' /\ NachArt' /\ Gekauft'
<1>1. /\ auftrag'[l] = Keiner /\ fertig'[l] = {} /\ rest'[l] = {} /\ schritt'[l] = "ruht"
      /\ art'[l] = "sofort"
      /\ \A k \in Laeufe : k # l =>
            /\ auftrag'[k] = auftrag[k] /\ fertig'[k] = fertig[k] /\ rest'[k] = rest[k]
            /\ schritt'[k] = schritt[k] /\ art'[k] = art[k] /\ wer'[k] = wer[k] /\ wahl'[k] = wahl[k]
  BY DEF Ruhe, Einzeln, Laufend, Typen, TypeInv
<1>2. \A s \in Sitz : /\ sperre[s] = l => sperre'[s] = Niemand /\ neu'[s] = Niemand
                      /\ sperre[s] # l => sperre'[s] = sperre[s] /\ neu'[s] = neu[s]
  BY DEF Ruhe
<1>3. \A k \in Laeufe, m \in Mitglied :
         m \in fertig[k] \/ (m = wer[k] /\ schritt[k] \in {"waehlen", "freigeben"}) => auftrag[k][m] # "kein"
  BY Fakten DEF Einzeln, Laufend, Typen, Dran
<1>4. Noetig'
  BY <1>1, <1>3 DEF Vollzug, Noetig
<1>5. Uebergangen'
  BY <1>1 DEF Keiner, Vollzug, Uebergangen
<1>6. NachArt'
  BY <1>1 DEF Vollzug, NachArt
<1>7. Gekauft'
  BY <1>1, <1>2, SitzAnnahme DEF Vollzug, Gekauft
<1> QED BY <1>4, <1>5, <1>6, <1>7

LEMMA VollzugEndet ==
    ASSUME Einzeln, Vollzug, NEW l \in Laeufe, Endet(l) PROVE Vollzug'
<1>1. Ruhe(l) /\ UNCHANGED <<inhaber, laeuft, konto, mitglieder>>
  BY DEF Endet, daten
<1> QED BY <1>1, VollzugRuhe DEF Vollzug, NurMitglieder

\* Who gets a seat at COMMIT is a member, and who leaves has none.
LEMMA VollzugCommit ==
    ASSUME Einzeln, ~Doppelt, Vollzug, NEW l \in Laeufe, Commit(l) PROVE Vollzug'
<1>1. /\ Ruhe(l) /\ schritt[l] = "naechster" /\ rest[l] = {}
      /\ \A s \in Sitz : inhaber'[s] = IF sperre[s] = l THEN neu[s] ELSE inhaber[s]
      /\ laeuft \subseteq laeuft'
      /\ \A m \in Mitglied : m \notin fertig[l] => konto'[m] = konto[m]
      /\ mitglieder' = IF art[l] = "austritt" THEN mitglieder \ Betroffen(l) ELSE mitglieder
  BY DEF Commit, Inhaber, Vorhanden
<1>2. \A k \in Laeufe, m \in Mitglied : k # l /\ auftrag[k][m] # "kein" =>
         konto'[m] = konto[m] /\ (m \in mitglieder => m \in mitglieder')
  BY <1>1, Fakten DEF Betroffen, Einzeln, Apart, Allein
<1>3. Noetig' /\ Uebergangen' /\ NachArt' /\ Gekauft'
  BY <1>1, <1>2, VollzugRuhe
<1>4. NurMitglieder'
  <2>1. SUFFICES ASSUME NEW s \in Sitz, inhaber'[s] # Niemand
                 PROVE  inhaber'[s] \in mitglieder'
    BY DEF NurMitglieder
  <2>2. CASE sperre[s] = l
    <3>1. inhaber'[s] = neu[s] /\ neu[s] \in fertig[l]
      BY <1>1, <2>1, <2>2 DEF Einzeln, Apart, Gesperrt
    <3>2. auftrag[l][neu[s]] # "free" /\ auftrag[l][neu[s]] # "kein" /\ neu[s] \in Mitglied
      BY <2>2, <3>1, Fakten DEF Einzeln, Apart, Umgesetzt
    <3>3. neu[s] \in mitglieder /\ art[l] # "austritt"
      BY <3>1, <3>2 DEF Vollzug, Noetig, NachArt
    <3> QED BY <1>1, <3>1, <3>3
  <2>3. CASE sperre[s] # l
    <3> DEFINE m == inhaber[s]
    <3>1. inhaber'[s] = m /\ m \in Mitglied /\ m \in mitglieder
      BY <1>1, <2>1, <2>3 DEF Einzeln, Laufend, Typen, TypeInv, Vollzug, NurMitglieder
    <3>2. m \notin fertig[l]
      BY <2>3 DEF Einzeln, Apart, Umgesetzt
    <3>3. konto[m] # "free"
      <4>1. HatSitz(m) # {}
        BY DEF HatSitz
      <4>2. \A t \in Sitz : PlanVon[t] # "free"
        BY SitzAnnahme
      <4> QED BY <3>1, <4>1, <4>2 DEF Einzeln, GetrenntStimmt
    <3>4. art[l] = "austritt" => auftrag[l][m] = "kein"
      BY <1>1, <3>1, <3>2, <3>3 DEF Vollzug, NachArt, Uebergangen
    <3> QED BY <1>1, <3>1, <3>4 DEF Betroffen
  <2> QED BY <2>2, <2>3
<1> QED BY <1>3, <1>4 DEF Vollzug

LEMMA VollzugEinzelne ==
    ASSUME Einzeln, Vollzug, Einzelne PROVE Vollzug'
<1>1. /\ UNCHANGED <<inhaber, konto, sperre, neu, schritt, art, auftrag, rest, wer, wahl, fertig>>
      /\ mitglieder \subseteq mitglieder'
      /\ \A s \in Sitz : s \in laeuft /\ s \notin laeuft' => sperre[s] = Niemand
  BY DEF Einzelne, RestGleich, locks, zeiger
<1>2. Gekauft'
  BY <1>1, SitzAnnahme DEF Vollzug, Gekauft
<1> QED BY <1>1, <1>2 DEF Vollzug, Noetig, Uebergangen, NachArt, NurMitglieder

LEMMA VollzugSchritt ==
    ASSUME Einzeln, ~Doppelt, Vollzug, [Next]_vars PROVE Vollzug'
<1>1. TypeInv
  BY DEF Einzeln, Laufend, Typen
<1>2. UNCHANGED vars => Vollzug'
  BY DEF vars, daten, locks, zeiger, Vollzug, Noetig, Uebergangen, NachArt, Gekauft, NurMitglieder
<1> QED BY <1>1, <1>2, Faelle, VollzugAnfang, VollzugListet, VollzugNaechster, VollzugSitzLesen, VollzugWaehlt,
           VollzugFreigeben, VollzugCommit, VollzugEndet, VollzugEinzelne

Verbucht == Getrennt /\ (~Doppelt => Vollzug)

LEMMA VerbuchtInvariant == Spec => []Verbucht
<1>1. Init => Vollzug
  BY VollzugAnfangs
<1>2. Getrennt /\ (~Doppelt => Vollzug) /\ [Next]_vars => (~Doppelt => Vollzug)'
  BY VollzugSchritt DEF Getrennt
<1> QED BY <1>1, <1>2, GetrenntInvariant, PTL DEF Spec, Verbucht


-----------------------------------------------------------------------------
(* Every step is one of Sitzbuch, or a stutter.                             *)

\* The seat of a member is the one whose row names the member.
Stimmig ==
    \A m \in Mitglied :
        /\ SitzDes(m) \in Sitz \cup {Niemand}
        /\ \A s \in Sitz : inhaber[s] = m <=> s = SitzDes(m)
        /\ konto[m] = Buch!PlanDer(SitzDes(m))

LEMMA SitzStimmt == GetrenntStimmt /\ ~Doppelt => Stimmig
<1> SUFFICES ASSUME GetrenntStimmt, ~Doppelt, NEW m \in Mitglied
             PROVE  /\ SitzDes(m) \in Sitz \cup {Niemand}
                    /\ \A s \in Sitz : inhaber[s] = m <=> s = SitzDes(m)
                    /\ konto[m] = Buch!PlanDer(SitzDes(m))
  BY DEF Stimmig
<1>1. Niemand \notin Sitz
  BY SitzAnnahme
<1>2. CASE HatSitz(m) = {}
  <2>1. SitzDes(m) = Niemand /\ konto[m] = "free"
    BY <1>2 DEF SitzDes, GetrenntStimmt
  <2> QED BY <1>1, <1>2, <2>1 DEF HatSitz, Buch!PlanDer
<1>3. ASSUME NEW s \in Sitz, HatSitz(m) = {s}, konto[m] = PlanVon[s]
      PROVE  /\ SitzDes(m) \in Sitz \cup {Niemand}
             /\ \A t \in Sitz : inhaber[t] = m <=> t = SitzDes(m)
             /\ konto[m] = Buch!PlanDer(SitzDes(m))
  <2>1. \A t \in Sitz : inhaber[t] = m <=> t = s
    BY <1>3 DEF HatSitz
  <2>2. SitzDes(m) = s
    BY <1>3, <2>1 DEF SitzDes
  <2> QED BY <1>1, <1>3, <2>1, <2>2 DEF Buch!PlanDer
<1> QED BY <1>2, <1>3 DEF GetrenntStimmt

LEMMA SitzStimmtDanach == (GetrenntStimmt /\ ~Doppelt)' => Stimmig'
  BY SitzStimmt, PTL

\* In that book nobody shares a seat, what somebody has goes on, and only
\* members of the organisation have a seat, although the join, the leaving and
\* the giving of seats look at TenantMember at different times.
THEOREM OrdnungImmer == Spec => [](~Doppelt => Buch!Ordnung)
<1>1. Verbucht => (~Doppelt => Buch!Ordnung)
  <2>1. SUFFICES ASSUME Verbucht, ~Doppelt, NEW m \in Mitglied, SitzDes(m) # Niemand
                 PROVE  /\ m \in mitglieder
                        /\ SitzDes(m) \in laeuft \ reduziert
                        /\ \A n \in Mitglied \ {m} : SitzDes(n) # SitzDes(m)
    BY DEF Buch!Ordnung
  <2>2. Stimmig /\ BelegtLaeuft /\ NurMitglieder
    BY <2>1, SitzStimmt DEF Verbucht, Getrennt, Einzeln, Laufend, Vollzug
  <2>3. SitzDes(m) \in Sitz /\ inhaber[SitzDes(m)] = m /\ m # Niemand
    BY <2>1, <2>2, SitzAnnahme DEF Stimmig
  <2>4. \A n \in Mitglied \ {m} : SitzDes(n) # SitzDes(m)
    BY <2>2, <2>3 DEF Stimmig
  <2> QED BY <2>2, <2>3, <2>4 DEF BelegtLaeuft, NurMitglieder
<1> QED BY <1>1, VerbuchtInvariant, PTL

LEMMA BuchAnfangs == Init => Buch!Init
<1> SUFFICES ASSUME Init PROVE Buch!Init
  OBVIOUS
<1>1. \A m \in Mitglied : SitzDes(m) = Niemand
  BY SitzAnnahme DEF Init, SitzDes, HatSitz
<1>2. [m \in Mitglied |-> SitzDes(m)] = [m \in Mitglied |-> Niemand]
  BY <1>1
<1> QED BY <1>2 DEF Init, Buch!Init, Buch!Keiner, Keiner

LEMMA BuchGleich ==
    ASSUME UNCHANGED inhaber PROVE UNCHANGED [m \in Mitglied |-> SitzDes(m)]
  BY DEF SitzDes, HatSitz

LEMMA BuchStellt ==
    ASSUME Laufend, ~Doppelt, NEW l \in Laeufe, Anfang(l) PROVE Buch!Next
<1>1. PICK a \in Arten, was \in [Mitglied -> Offen], z \in {"liste", "naechster"},
           welche \in SUBSET Mitglied : Zusammen(a, was, welche) /\ Beginnt(l, a, was, z, welche)
  BY DEF Anfang
<1>2. auftrag[l] = Buch!Keiner
  BY <1>1 DEF Beginnt, Laufend, Typen, TypeInv, RuhtLeer, Buch!Keiner
<1>3. Buch!Stellen(l, a, was)
  BY <1>1, <1>2, BuchGleich DEF Beginnt, Zusammen, daten, Buch!Stellen
<1>4. a \in Buch!Arten /\ was \in [Mitglied -> Buch!Offen]
  BY DEF Arten, Buch!Arten, Offen, Ziel, Buch!Offen, Buch!Ziel
<1> QED BY <1>3, <1>4, Zenon DEF Buch!Next

\* A request that does nothing: refused, failed, or only noted.
LEMMA BuchVerwirft ==
    ASSUME NEW l \in Laeufe, Ruhe(l), UNCHANGED <<inhaber, laeuft, reduziert, mitglieder>>
    PROVE  Buch!Next
<1>1. Buch!Verwerfen(l)
  BY BuchGleich DEF Ruhe, Keiner, Buch!Verwerfen, Buch!Erledigt, Buch!Keiner
<1> QED BY <1>1, Zenon DEF Buch!Next

LEMMA BuchGemerkt ==
    ASSUME Einzeln, Vollzug, NEW l \in Laeufe, Commit(l), art[l] = "vormerken" PROVE Buch!Next
<1>1. fertig[l] = {} /\ wahl[l] = Niemand
  BY DEF Commit, Vollzug, NachArt, Einzeln, Apart, Gewaehlter
<1>2. \A s \in Sitz : sperre[s] = l => inhaber[s] = Niemand /\ neu[s] = Niemand /\ s \in laeuft
  BY <1>1, SitzAnnahme DEF Einzeln, Apart, Gesperrt, Vollzug, Gekauft
<1>3. inhaber' = inhaber
  BY <1>2 DEF Commit, Inhaber, Einzeln, Laufend, Typen, TypeInv
<1>4. laeuft' = laeuft
  BY <1>2 DEF Commit, Vorhanden
<1> QED BY <1>3, <1>4, BuchVerwirft DEF Commit

\* A COMMIT carries the request out in one step.
LEMMA BuchFuehrtAus ==
    ASSUME Einzeln, ~Doppelt, Vollzug, NEW l \in Laeufe, Commit(l), art[l] # "vormerken",
           GetrenntStimmt'
    PROVE  Buch!Next
<1> DEFINE F == fertig[l]
<1>1. /\ schritt[l] = "naechster" /\ rest[l] = {} /\ wahl[l] = Niemand /\ F \subseteq Mitglied
      /\ \A m \in F : auftrag[l][m] # "kein"
  BY Fakten DEF Commit, Einzeln, Apart, Gewaehlter
<1>2. \A m \in Mitglied : /\ SitzDes(m) \in Sitz \cup {Niemand}
                          /\ \A s \in Sitz : inhaber[s] = m <=> s = SitzDes(m)
                          /\ konto[m] = Buch!PlanDer(SitzDes(m))
  BY SitzStimmt DEF Einzeln, Stimmig
<1>3. \A m \in Mitglied : /\ SitzDes(m)' \in Sitz \cup {Niemand}
                          /\ \A s \in Sitz : inhaber'[s] = m <=> s = SitzDes(m)'
                          /\ konto'[m] = Buch!PlanDer(SitzDes(m)')
  BY SitzStimmtDanach DEF Stimmig
<1>4. Buch!Geaendert(l) = F
  BY <1>1, <1>2 DEF Buch!Geaendert, Buch!Betroffen, Vollzug, Noetig, Uebergangen
<1>5. \A s \in Sitz : inhaber'[s] = IF sperre[s] = l THEN neu[s] ELSE inhaber[s]
  BY DEF Commit, Inhaber
\* What a member gets is locked and free, or given up by a member of the same request.
<1>6. ASSUME NEW m \in F, NEW s \in Sitz, s = SitzDes(m)'
      PROVE  /\ sperre[s] = l /\ neu[s] = m /\ s \notin reduziert
             /\ \A n \in Mitglied \ F : SitzDes(n) # s
             /\ \A n \in F \ {m} : SitzDes(n)' # s
             /\ m \in mitglieder
  <2>1. inhaber'[s] = m /\ m # Niemand
    BY <1>1, <1>3, <1>6, SitzAnnahme
  <2>2. sperre[s] = l /\ neu[s] = m
    BY <1>5, <2>1 DEF Einzeln, Apart, Umgesetzt
  <2>3. s \notin reduziert /\ (inhaber[s] = Niemand \/ inhaber[s] \in F)
    BY <2>1, <2>2 DEF Einzeln, Laufend, Gegeben, Apart, Gesperrt
  <2>4. auftrag[l][m] # "free"
    BY <2>2 DEF Einzeln, Apart, Umgesetzt
  <2>5. m \in mitglieder
    BY <1>1, <2>4 DEF Vollzug, Noetig
  <2>6. \A n \in Mitglied \ F : SitzDes(n) # s
    BY <1>2, <2>3, SitzAnnahme
  <2>7. \A n \in F \ {m} : SitzDes(n)' # s
    BY <1>1, <1>3, <2>1
  <2> QED BY <2>2, <2>3, <2>5, <2>6, <2>7
<1>7. ASSUME NEW m \in Mitglied \ F
      PROVE  SitzDes(m)' = SitzDes(m)
  <2>1. \A s \in Sitz : inhaber'[s] = m <=> inhaber[s] = m
    BY <1>5, <1>7, Fakten DEF Einzeln, Apart, Gesperrt
  <2> QED BY <1>2, <1>3, <1>7, <2>1, SitzAnnahme
<1>8. PICK wen \in [F -> Sitz \cup {Niemand}] : \A m \in F : wen[m] = SitzDes(m)'
  <2> DEFINE w == [m \in F |-> SitzDes(m)']
  <2>1. w \in [F -> Sitz \cup {Niemand}] /\ \A m \in F : w[m] = SitzDes(m)'
    BY <1>1, <1>3
  <2> QED BY <2>1
<1>9. wen \in [F -> Buch!Moeglich(l) \cup {Niemand}]
  <2>1. \A m \in F : wen[m] # Niemand => wen[m] \in Buch!Moeglich(l)
    BY <1>4, <1>6, <1>8 DEF Buch!Moeglich
  <2> QED BY <1>8, <2>1
<1>10. ASSUME NEW m \in F
       PROVE  /\ Buch!PlanDer(wen[m]) = auftrag[l][m]
              /\ wen[m] # Niemand => m \in mitglieder /\ \A n \in F \ {m} : wen[n] # wen[m]
  <2>1. konto'[m] = auftrag[l][m]
    BY <1>1 DEF Commit
  <2> QED BY <1>1, <1>3, <1>6, <1>8, <2>1
<1>11. [m \in Mitglied |-> SitzDes(m)]'
          = [m \in Mitglied |-> IF m \in F THEN wen[m] ELSE [n \in Mitglied |-> SitzDes(n)][m]]
  BY <1>7, <1>8
<1>12. laeuft' = laeuft \cup {s \in Sitz : \E m \in F : wen[m] = s}
  <2>1. laeuft' = laeuft \cup {s \in Sitz : sperre[s] = l}
    BY DEF Commit, Vorhanden
  <2>2. ASSUME NEW s \in Sitz, sperre[s] = l, s \notin laeuft
        PROVE  \E m \in F : wen[m] = s
    <3>1. neu[s] \in F
      BY <1>1, <2>2, SitzAnnahme DEF Vollzug, Gekauft, Einzeln, Apart, Gesperrt
    <3>2. inhaber'[s] = neu[s]
      BY <1>5, <2>2
    <3> QED BY <1>1, <1>3, <1>8, <3>1, <3>2
  <2>3. \A s \in Sitz : (\E m \in F : wen[m] = s) => sperre[s] = l
    BY <1>6, <1>8
  <2> QED BY <2>1, <2>2, <2>3
<1>13. /\ mitglieder' = IF art[l] = "austritt" THEN mitglieder \ Buch!Betroffen(l) ELSE mitglieder
       /\ reduziert' = reduziert
  BY DEF Commit, Betroffen, Buch!Betroffen
<1>14. Buch!Erledigt(l)
  BY DEF Commit, Ruhe, Keiner, Buch!Erledigt, Buch!Keiner
<1>15. Buch!Ausfuehren(l, wen)
  BY <1>4, <1>9, <1>10, <1>11, <1>12, <1>13, <1>14 DEF Buch!Ausfuehren
<1>16. wen \in [Buch!Geaendert(l) -> Buch!Moeglich(l) \cup {Niemand}]
  BY <1>4, <1>9
<1> QED BY <1>15, <1>16, Zenon DEF Buch!Next

\* Seats that are bought or cut down on their own, and who comes back.
LEMMA BuchAnweisung ==
    ASSUME Laufend, GetrenntStimmt, ~Doppelt, Anweisung PROVE Buch!Next
<1>1. \A m \in Mitglied, s \in Sitz : inhaber[s] = m <=> s = SitzDes(m)
  BY SitzStimmt DEF Stimmig
<1>2. UNCHANGED inhaber => UNCHANGED [m \in Mitglied |-> SitzDes(m)]
  BY BuchGleich
<1>3. ASSUME NEW m \in Mitglied, Beitritt(m)
      PROVE  Buch!Next
  <2>1. Buch!Beitreten(m)
    BY <1>2, <1>3 DEF Beitritt, RestGleich, Buch!Beitreten
  <2> QED BY <2>1, Zenon DEF Buch!Next
<1>4. ASSUME NEW s \in Hand, Kaufen(s) \/ Reduzieren(s) \/ ReduktionFaellig(s)
      PROVE  Buch!Next
  <2>1. s \in Sitz /\ Niemand \notin Mitglied
    BY SitzAnnahme
  <2>2. Kaufen(s) => Buch!Kaufen(s)
    BY <1>2 DEF Kaufen, Unbenutzt, RestGleich, Buch!Kaufen
  <2>3. inhaber[s] = Niemand => Buch!Frei(s)
    BY <1>1, <2>1 DEF Buch!Frei
  <2>4. Reduzieren(s) => Buch!Kuerzen(s)
    BY <1>2, <2>3 DEF Reduzieren, Reduzierbar, RestGleich, Buch!Kuerzen
  <2>5. ReduktionFaellig(s) => Buch!Beenden(s)
    BY <1>2, <2>3 DEF ReduktionFaellig, RestGleich, Buch!Beenden
  <2> QED BY <1>4, <2>1, <2>2, <2>4, <2>5, Zenon DEF Buch!Next
<1>5. ASSUME NEW p \in Plan, ReduktionWiderrufen(p)
      PROVE  Buch!Next
  <2>1. Buch!Widerrufen(p)
    BY <1>2, <1>5 DEF ReduktionWiderrufen, RestGleich, Buch!Widerrufen
  <2> QED BY <2>1, Zenon DEF Buch!Next
<1> QED BY <1>3, <1>4, <1>5 DEF Anweisung

LEMMA BuchSchritt ==
    ASSUME Einzeln, ~Doppelt, Vollzug, [Next]_vars, GetrenntStimmt' PROVE [Buch!Next]_(Buch!buch)
<1>1. Laufend /\ TypeInv /\ GetrenntStimmt
  BY DEF Einzeln, Laufend, Typen
<1>2. UNCHANGED <<inhaber, laeuft, reduziert, mitglieder, art, auftrag>> => UNCHANGED Buch!buch
  BY BuchGleich DEF Buch!buch
<1>3. ASSUME NEW l \in Laeufe, \/ Listet(l) \/ SitzLesen(l) \/ Waehlt(l) \/ Freigeben(l)
                               \/ \E m \in Mitglied : Naechster(l, m)
      PROVE  UNCHANGED Buch!buch
  BY <1>2, <1>3, Zenon DEF Listet, ListeLesen, ListeSchreiben, SitzLesen, Waehlt, FreienWaehlen, Dazukaufen,
     Gewaehlt, Freigeben, Naechster, daten
<1>4. UNCHANGED vars => UNCHANGED Buch!buch
  BY <1>2 DEF vars, daten
<1>5. ASSUME NEW l \in Laeufe, Endet(l)
      PROVE  Buch!Next
  BY <1>5, BuchVerwirft DEF Endet, daten
<1>6. ASSUME NEW l \in Laeufe, Commit(l)
      PROVE  Buch!Next
  BY <1>6, BuchGemerkt, BuchFuehrtAus
<1>7. Einzelne => Buch!Next
  BY <1>1, BuchAnweisung DEF Einzelne
<1> QED BY <1>1, <1>3, <1>4, <1>5, <1>6, <1>7, Faelle, BuchStellt

\* Requests have the effect of one step each, for any number of members,
\* seats, plans and requests: statements of different transactions interleave
\* without anything being seen of it.
THEOREM SitzbuchGefuehrt == Spec => FuehrtSitzbuch
<1>1. Verbucht /\ Verbucht' /\ [Next]_vars => [~Doppelt => Buch!Next]_(Buch!buch)
  BY BuchSchritt DEF Verbucht, Getrennt, Einzeln
<1> QED BY <1>1, BuchAnfangs, VerbuchtInvariant, PTL DEF Spec, FuehrtSitzbuch

=============================================================================
