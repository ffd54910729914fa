------------------------------ MODULE Fortschritt ------------------------------
(***************************************************************************)
(* The row of EntityProgress of one step (transaction, company, producer), *)
(* and all that writes it in services/db-gateway: the seed, the progress   *)
(* events (lib/event-bus.ts), the persist events behind their gates        *)
(* (lib/persist-bus.ts), the reaper of stuck rows, the retry and the abort *)
(* of routes/v1/transactions.ts.  Producers run on the user's machine and  *)
(* are modelled by what they send.                                         *)
(*                                                                         *)
(* Times: an event bears the time of the producer's clock, clamped by the  *)
(* gateway's; most rows bear the time of the database.  Nothing is assumed *)
(* of the three clocks: whether an event is newer than the row is left     *)
(* open whenever the code compares them.                                   *)
(***************************************************************************)
EXTENDS Naturals

CONSTANTS
    Sendung,         \* progress events that can be on their way
    Platz,           \* persist events that can be on their way
    Anfrage,         \* retry requests that can be under way
    GRENZE,          \* attempts of persist-bus before it may give up (5)
    GRENZE_ANFRAGE,  \* attempts of the retry route (10)
    MaxHand,         \* bound: requests of the user and of resumes, not of the heartbeat
    MaxStoerungen    \* bound: restarts of the gateway, runs that break, writes that fail

ASSUME GrenzenAssumption ==
    /\ GRENZE \in Nat \ {0} /\ GRENZE_ANFRAGE \in Nat \ {0} /\ GRENZE <= GRENZE_ANFRAGE
    /\ MaxHand \in Nat /\ MaxStoerungen \in Nat

VARIABLES
    state, versuche, naechster, aufgegeben, \* state, attempts, nextRetryAt, giveUpAt IS NOT NULL
    stumm,         \* updatedAt is longer ago than the reaper waits
    unterwegs,     \* progress events
    persist,       \* persist events, with what their handler has found out
    frisch,        \* a ContentFreshness row or a rule of the tenant lets a gate refuse
    auftrag, lauf, \* a message in the producer's queue; its run
    anfrage,       \* retry requests
    tot,           \* no target takes a dispatch any more
    bilanz,        \* history: how the first run ended, "egal" once anything has interfered or a gate refused
    hand, stoerungen

zeile == <<state, versuche, naechster, aufgegeben, stumm>>
welt  == <<frisch, auftrag, lauf, anfrage, tot, bilanz, hand, stoerungen>>
vars  == <<zeile, unterwegs, persist, welt>>

Endzustand == {"completed", "failed", "skipped"}
Ende(s) == s \in Endzustand
State == {"fehlt", "pending", "in_progress"} \cup Endzustand

\* What a progress event says; what a persist event holds and what becomes of it:
\* "zwischen" is a website whose research follows, "leer" one that was not found,
\* "fehler" a research of which nothing succeeded.
Ereignis == {"in_progress", "completed", "failed", "failedDauer", "skipped"}
Inhalt == {"ergebnis", "zwischen", "leer", "fehler"}
Befund == {"wartet", "completed", "failed", "failedDauer"}
Kein == [inhalt |-> "ergebnis", befund |-> "kein"]
Persist == [inhalt : Inhalt, befund : Befund] \cup {Kein}

Init ==
    /\ state = "fehlt" /\ versuche = 0 /\ naechster = "null" /\ aufgegeben = FALSE /\ stumm = FALSE
    /\ unterwegs = [m \in Sendung |-> "keins"]
    /\ persist = [p \in Platz |-> Kein]
    /\ frisch \in BOOLEAN
    /\ auftrag = TRUE /\ lauf = "keiner"
    /\ anfrage = [a \in Anfrage |-> "frei"]
    /\ tot = FALSE /\ bilanz = "offen" /\ hand = 0 /\ stoerungen = 0

\* Mutant of Zustand: what the event says is written as it stands.
Zustand_Roh(e) == e

Zustand(e) == IF e = "failedDauer" THEN "failed" ELSE e
Hoechstens(n) == IF n > GRENZE_ANFRAGE THEN GRENZE_ANFRAGE ELSE n

-----------------------------------------------------------------------------
(* The producer. *)

Sendet(e) == \E m \in Sendung : unterwegs[m] = "keins" /\ unterwegs' = [unterwegs EXCEPT ![m] = e]

LaufBeginnt ==
    /\ auftrag /\ lauf = "keiner"
    /\ auftrag' = FALSE /\ lauf' = "laeuft"
    /\ Sendet("in_progress")
    /\ UNCHANGED <<zeile, persist, frisch, anfrage, tot, bilanz, hand, stoerungen>>

Bilanz(b) == bilanz' = IF bilanz = "egal" THEN "egal" ELSE b

\* A run that fails or skips says so itself, some that are done do.
LaufMeldetEnde ==
    /\ lauf # "keiner"
    /\ \E e \in Ereignis \ {"in_progress"} : Sendet(e) /\ Bilanz(Zustand(e))
    /\ lauf' = "keiner"
    /\ UNCHANGED <<zeile, persist, frisch, auftrag, anfrage, tot, hand, stoerungen>>

\* A result is sent as a persist event; a website's research sends a second one.
LaufLiefert(p) ==
    /\ lauf # "keiner" /\ persist[p] = Kein
    /\ \E i \in Inhalt :
          /\ i \in {"zwischen", "leer"} => lauf = "laeuft"
          /\ i = "fehler" => lauf = "recherche"
          /\ persist' = [persist EXCEPT ![p] = [inhalt |-> i, befund |-> "wartet"]]
          /\ lauf' = IF i = "zwischen" THEN "recherche" ELSE "keiner"
          /\ IF i = "zwischen" THEN UNCHANGED bilanz
                               ELSE Bilanz(IF i = "ergebnis" THEN "completed" ELSE "failed")
    /\ UNCHANGED <<zeile, unterwegs, frisch, auftrag, anfrage, tot, hand, stoerungen>>

\* The worker dies; its message is delivered anew, or it is lost.
LaufBricht ==
    /\ lauf # "keiner" /\ stoerungen < MaxStoerungen
    /\ stoerungen' = stoerungen + 1
    /\ lauf' = "keiner" /\ auftrag' \in {auftrag, TRUE} /\ bilanz' = "egal"
    /\ UNCHANGED <<zeile, unterwegs, persist, frisch, anfrage, tot, hand>>

-----------------------------------------------------------------------------
(* writeEntityProgressFromEvent: handlers do not wait for each other. *)

\* A write that fails is logged and that is all: the message has its ack, or gets it.
Misslingt ==
    /\ stoerungen < MaxStoerungen /\ stoerungen' = stoerungen + 1
    /\ bilanz' = "egal"
    /\ UNCHANGED <<zeile, frisch, auftrag, lauf, tot, hand>>

\* Mutant of Darf: an event that is newer may always write.
Darf_OhneEnde(e, neuer) == state \in {"fehlt", "pending"} \/ (Ende(e) /\ ~Ende(state)) \/ neuer

\* The WHERE of the upsert.
Darf(e, neuer) ==
    \/ state = "fehlt"
    \/ /\ state = "pending" \/ (Ende(e) /\ ~Ende(state)) \/ neuer
       /\ ~Ende(state) \/ Ende(e)

EreignisVerarbeiten(m, neuer) ==
    /\ unterwegs[m] # "keins"
    /\ LET e == unterwegs[m]
       IN \/ /\ IF Darf(Zustand(e), neuer)
                THEN /\ state' = Zustand(e) /\ stumm' = FALSE
                     /\ aufgegeben' = (e = "failedDauer" \/ (e \in {"in_progress", "failed"} /\ aufgegeben))
                ELSE UNCHANGED <<state, aufgegeben, stumm>>
             /\ UNCHANGED <<versuche, naechster, frisch, auftrag, lauf, tot, bilanz, hand, stoerungen>>
          \/ Misslingt
    /\ unterwegs' = [unterwegs EXCEPT ![m] = "keins"]
    /\ UNCHANGED <<persist, anfrage>>

-----------------------------------------------------------------------------
(* The persist bus. *)

\* Every write with NOW(): the row has just given a sign of life.
Jetzt == stumm' = FALSE

\* recordEntityProgress.  Whether the first failure is a day old is left open.
Verbucht(e) ==
    /\ Jetzt
    /\ state' = Zustand(e)
    /\ IF Zustand(e) = "failed"
       THEN /\ versuche' = Hoechstens(versuche + 1) /\ naechster' = "spaeter"
            /\ \E alt24 \in BOOLEAN :
                  aufgegeben' = (e = "failedDauer" \/ aufgegeben \/ (versuche + 1 >= GRENZE /\ alt24))
       ELSE versuche' = 0 /\ naechster' = "null" /\ aufgegeben' = FALSE

\* withFeatureGate, withTierGate, gatePersist, the producer's apply and what the
\* consumer makes of its return.  A website is not done before its research.
Danach(i) == CASE i = "ergebnis" -> {"completed"} [] i = "leer" -> {"failedDauer"}
               [] i = "zwischen" -> {"kein"} [] i = "fehler" -> {"failed", "failedDauer"}

Legt(p, i, b) == persist' = [persist EXCEPT ![p] = IF b = "kein" THEN Kein ELSE [inhalt |-> i, befund |-> b]]

PersistAnwenden(p) ==
    /\ persist[p].befund = "wartet"
    /\ \E b \in Danach(persist[p].inhalt) : Legt(p, persist[p].inhalt, b)
    /\ frisch' \in {frisch, TRUE}
    /\ UNCHANGED <<zeile, unterwegs, auftrag, lauf, anfrage, tot, bilanz, hand, stoerungen>>

\* Refused: the gate writes 'skipped', and the consumer goes on all the same.
PersistVerwerfen(p) ==
    /\ persist[p].befund = "wartet" /\ frisch
    /\ \E b \in Danach(persist[p].inhalt) : Legt(p, persist[p].inhalt, b)
    /\ \/ Verbucht("skipped") /\ bilanz' = "egal" /\ UNCHANGED <<frisch, auftrag, lauf, tot, hand, stoerungen>>
       \/ Misslingt
    /\ UNCHANGED <<unterwegs, anfrage>>

PersistWirft(p) ==
    /\ persist[p].befund = "wartet"
    /\ \E b \in {"failed", "failedDauer"} : Legt(p, persist[p].inhalt, b)
    /\ bilanz' = "egal"
    /\ UNCHANGED <<zeile, unterwegs, frisch, auftrag, lauf, anfrage, tot, hand, stoerungen>>

\* The second half of the consumer.  Without the message's ack it comes again.
PersistMelden(p) ==
    /\ persist[p].befund \notin {"kein", "wartet"}
    /\ \/ Verbucht(persist[p].befund) /\ UNCHANGED <<frisch, auftrag, lauf, tot, bilanz, hand, stoerungen>>
       \/ Misslingt
    /\ persist' = [persist EXCEPT ![p] = Kein]
    /\ UNCHANGED <<unterwegs, anfrage>>

-----------------------------------------------------------------------------
(* Seed, reaper, abort. *)

Seed ==
    /\ state = "fehlt"
    /\ state' = "pending" /\ Jetzt
    /\ UNCHANGED <<versuche, naechster, aufgegeben, unterwegs, persist, welt>>

\* Mutant of Haengt: what is given up is left alone.
Haengt_NichtAufgegeben == state = "in_progress" /\ stumm /\ ~aufgegeben

Haengt == state = "in_progress" /\ stumm

Reaper ==
    /\ Haengt
    /\ state' = "failed" /\ Jetzt /\ bilanz' = "egal"
    /\ UNCHANGED <<versuche, naechster, aufgegeben, unterwegs, persist, frisch, auftrag, lauf, anfrage, tot,
                   hand, stoerungen>>

Abbrechen ==
    /\ state \in {"pending", "in_progress"}
    /\ state' = "failed" /\ Jetzt /\ bilanz' = "egal"
    /\ UNCHANGED <<versuche, naechster, aufgegeben, unterwegs, persist, frisch, auftrag, lauf, anfrage, tot,
                   hand, stoerungen>>

-----------------------------------------------------------------------------
(* Retry: the queue the heartbeat reads, the route, its write after its awaits. *)

\* Mutant of Reif: a row without a time is not ripe.
Reif_NurMitZeit == state = "failed" /\ ~aufgegeben /\ naechster = "reif"

Reif == state = "failed" /\ ~aufgegeben /\ naechster \in {"null", "reif"}

\* A request to retry; erzwingen clears the freshness before the dispatch.
Anfragen(a, h) ==
    /\ anfrage[a] = "frei"
    /\ IF h THEN hand < MaxHand /\ hand' = hand + 1 /\ frisch' \in {frisch, FALSE}
            ELSE Reif /\ UNCHANGED <<hand, frisch>>
    /\ anfrage' = [anfrage EXCEPT ![a] = "dispatch"]
    /\ bilanz' = "egal"
    /\ UNCHANGED <<zeile, unterwegs, persist, auftrag, lauf, tot, stoerungen>>

\* The awaited dispatch: some target takes it, none does, or all answer 404.
Dispatch(a) ==
    /\ anfrage[a] = "dispatch"
    /\ \/ /\ ~tot /\ auftrag' = TRUE
          /\ anfrage' = [anfrage EXCEPT ![a] = "angenommen"]
       \/ /\ \E r \in {"abgelehnt", "aussichtslos"} : anfrage' = [anfrage EXCEPT ![a] = r]
          /\ UNCHANGED auftrag
    /\ UNCHANGED <<zeile, unterwegs, persist, frisch, lauf, tot, bilanz, hand, stoerungen>>

AngenommenSchreiben(a) ==
    /\ anfrage[a] = "angenommen"
    /\ \/ /\ IF state \in Endzustand \cup {"pending", "fehlt"}
             THEN state' = "in_progress" /\ Jetzt
             ELSE UNCHANGED <<state, stumm>>
          /\ UNCHANGED <<versuche, naechster, aufgegeben, frisch, auftrag, lauf, tot, bilanz, hand, stoerungen>>
       \/ Misslingt
    /\ anfrage' = [anfrage EXCEPT ![a] = "frei"]
    /\ UNCHANGED <<unterwegs, persist>>

\* Mutant of Betrifft: the row is taken to be as it was before the dispatch.
Betrifft_Immer == TRUE

\* The WHERE of both updates.
Betrifft == state = "failed" /\ ~aufgegeben

\* Mutant of Zaehlt: the attempt is not counted.
Zaehlt_Nicht(n) == n

Zaehlt(n) == Hoechstens(n + 1)

AblehnungSchreiben(a) ==
    /\ anfrage[a] \in {"abgelehnt", "aussichtslos"}
    /\ \/ /\ IF ~Betrifft THEN UNCHANGED zeile
             ELSE /\ Jetzt /\ UNCHANGED state
                  /\ IF anfrage[a] = "aussichtslos"
                     THEN aufgegeben' = TRUE /\ UNCHANGED <<versuche, naechster>>
                     ELSE /\ versuche' = Zaehlt(versuche) /\ naechster' = "spaeter"
                          /\ aufgegeben' = (versuche' >= GRENZE_ANFRAGE)
          /\ UNCHANGED <<frisch, auftrag, lauf, tot, bilanz, hand, stoerungen>>
       \/ Misslingt
    /\ anfrage' = [anfrage EXCEPT ![a] = "frei"]
    /\ UNCHANGED <<unterwegs, persist>>

-----------------------------------------------------------------------------
(* Time and failures. *)

WirdReif ==
    /\ naechster = "spaeter" /\ naechster' = "reif"
    /\ UNCHANGED <<state, versuche, aufgegeben, stumm, unterwegs, persist, welt>>

\* It matters of a yellow row only.
WirdStumm ==
    /\ state = "in_progress" /\ ~stumm /\ stumm' = TRUE
    /\ UNCHANGED <<state, versuche, naechster, aufgegeben, unterwegs, persist, welt>>

UpstreamStirbt == ~tot /\ tot' = TRUE
    /\ UNCHANGED <<zeile, unterwegs, persist, frisch, auftrag, lauf, anfrage, bilanz, hand, stoerungen>>

\* Requests end, persist events without an ack come again, progress events that
\* have their ack but are not written are lost.
GatewayNeustart ==
    /\ stoerungen < MaxStoerungen
    /\ stoerungen' = stoerungen + 1 /\ bilanz' = "egal"
    /\ anfrage' = [a \in Anfrage |-> "frei"]
    /\ persist' = [p \in Platz |-> IF persist[p] = Kein THEN Kein ELSE [persist[p] EXCEPT !.befund = "wartet"]]
    /\ \E verloren \in SUBSET Sendung :
          unterwegs' = [m \in Sendung |-> IF m \in verloren THEN "keins" ELSE unterwegs[m]]
    /\ UNCHANGED <<zeile, frisch, auftrag, lauf, tot, hand>>

Next ==
    \/ LaufBeginnt \/ LaufMeldetEnde \/ LaufBricht
    \/ \E m \in Sendung, neuer \in BOOLEAN : EreignisVerarbeiten(m, neuer)
    \/ \E p \in Platz : \/ LaufLiefert(p) \/ PersistAnwenden(p) \/ PersistVerwerfen(p)
                        \/ PersistWirft(p) \/ PersistMelden(p)
    \/ Seed \/ Reaper \/ Abbrechen
    \/ \E a \in Anfrage : \/ \E h \in BOOLEAN : Anfragen(a, h)
                          \/ Dispatch(a) \/ AngenommenSchreiben(a) \/ AblehnungSchreiben(a)
    \/ WirdReif \/ WirdStumm \/ UpstreamStirbt \/ GatewayNeustart

Spec == Init /\ [][Next]_vars

\* The gateway's handlers and timers go on, time goes by, and the user's AVA runs:
\* its heartbeat, with the automatic retry switched on, asks for what is ripe.  A
\* producer may never come to its end.
Fairness ==
    /\ WF_vars(\E m \in Sendung, neuer \in BOOLEAN : EreignisVerarbeiten(m, neuer))
    /\ \A p \in Platz : WF_vars(PersistAnwenden(p) \/ PersistVerwerfen(p) \/ PersistWirft(p))
                        /\ WF_vars(PersistMelden(p))
    /\ \A a \in Anfrage : WF_vars(Dispatch(a)) /\ WF_vars(AngenommenSchreiben(a))
                          /\ WF_vars(AblehnungSchreiben(a))
    /\ SF_vars(\E a \in Anfrage : Anfragen(a, FALSE))
    /\ WF_vars(WirdReif) /\ WF_vars(WirdStumm) /\ WF_vars(Reaper)

FairSpec == Spec /\ Fairness

-----------------------------------------------------------------------------
(* Properties. *)

TypeInv ==
    /\ state \in State /\ versuche \in 0..GRENZE_ANFRAGE
    /\ naechster \in {"null", "spaeter", "reif"} /\ aufgegeben \in BOOLEAN /\ stumm \in BOOLEAN
    /\ unterwegs \in [Sendung -> Ereignis \cup {"keins"}]
    /\ persist \in [Platz -> Persist]
    /\ frisch \in BOOLEAN /\ auftrag \in BOOLEAN /\ lauf \in {"keiner", "laeuft", "recherche"}
    /\ anfrage \in [Anfrage -> {"frei", "dispatch", "angenommen", "abgelehnt", "aussichtslos"}]
    /\ tot \in BOOLEAN /\ bilanz \in {"offen", "egal"} \cup Endzustand
    /\ hand \in 0..MaxHand /\ stoerungen \in 0..MaxStoerungen

\* A step that is done is not given up, whatever a retry finds out late
\* (transactions.ts:1864): otherwise its next failure would never be tried again.
FertigNichtAufgegeben == state \in {"completed", "skipped"} => ~aufgegeben

\* event-bus.ts:93.  When nobody interferes, no write fails and no gate refuses,
\* the row shows how the run has ended once all its messages have been handled: in
\* whatever order, and whatever the clocks say.
EndstandStimmt ==
    /\ bilanz \in Endzustand
    /\ \A m \in Sendung : unterwegs[m] = "keins"
    /\ \A p \in Platz : persist[p] = Kein
    => state = bilanz

\* stuck-progress-reaper.ts:18.  No step stays yellow for ever, not even when its
\* run never ends.
NieEwigGelb == state = "in_progress" ~> state # "in_progress"

\* transactions.ts:1435.  While the automatic retry is switched on, a failed step
\* that is not given up is tried again, by whichever of the writers it has failed.
NichtVergessen ==
    state = "failed" /\ ~aufgegeben ~> state # "failed" \/ aufgegeben \/ \E a \in Anfrage : anfrage[a] # "frei"

\* transactions.ts:1848.  When no target takes a dispatch any more, the retries of
\* a failed step come to an end.
ToterUpstreamGibtAuf == <>tot => <>[](state = "failed" => aufgegeben)

\* persist-bus.ts:430 "If write is denied, logs the reason + records a `skipped`
\* EntityProgress row": it stays so when the handler is done.
VerworfenBleibt ==
    [][\A p \in Platz : persist[p].befund = "completed" /\ persist'[p] = Kein /\ state = "skipped"
                          => state' = "skipped"]_vars
=============================================================================
