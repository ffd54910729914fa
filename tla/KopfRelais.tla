------------------------------ MODULE KopfRelais ------------------------------
(***************************************************************************)
(* The relay between the running AVAs of one account ("Koepfe") and the    *)
(* gateway: class KopfRelais of services/db-gateway/src/lib/kopf-relais.ts *)
(* and its client of the same name in services/desktop/src/core/relais.    *)
(*                                                                         *)
(* A connection has two ends that learn of its end at different times, and *)
(* a line that may be cut without either of them noticing.  The gateway    *)
(* keeps the registered connections of the account in a map, here the set  *)
(* "koepfe"; a connection that has not said "hallo" is in it under a       *)
(* provisional id.  Accounts do not meet, one is enough.  Of several heads *)
(* of the same rank the code asks the oldest, the model any of them.       *)
(***************************************************************************)
EXTENDS Naturals

CONSTANTS
    Instanz,     \* instance ids of the account's AVAs
    Server,      \* the instances with art = "server"
    Verb,        \* connection objects, reused when both ends are closed
    Aufruf,      \* calls made through the relay
    Keine,       \* null
    MaxRisse,    \* bound: cut lines and restarts of the gateway
    MaxStopps    \* bound: how often an AVA stops its client

ASSUME ServerAssumption == Server \subseteq Instanz
ASSUME KeineAssumption == Keine \notin Verb \cup Instanz
ASSUME GrenzenAssumption == MaxRisse \in Nat /\ MaxStopps \in Nat

VARIABLES
    verb,        \* the connections
    koepfe,      \* gateway: connections in the map of the account
    vergangen,   \* gateway: instances shown as disconnected
    gesehen,     \* history: instances this gateway process has known
    kopf,        \* client: its loop
    aufruf,      \* gateway: the promises of aufrufBei and appAnfrage
    risse, stopps

gateway == <<koepfe, vergangen, gesehen, aufruf>>
vars == <<verb, koepfe, vergangen, gesehen, kopf, aufruf, risse, stopps>>

\* "hallo": the message is under way.  "bekannt": it has been processed, the
\* connection goes by the id of its instance.  "leitung": the line still works.
Verbindung == [von: Instanz \cup {Keine}, hallo: BOOLEAN, bekannt: BOOLEAN,
               mcp: BOOLEAN, lebt: BOOLEAN, leitung: BOOLEAN,
               kopf: {"auf", "schliesst", "zu"}, gate: {"auf", "schliesst", "zu"}]

Frei == [von |-> Keine, hallo |-> FALSE, bekannt |-> FALSE, mcp |-> FALSE, lebt |-> FALSE,
         leitung |-> FALSE, kopf |-> "zu", gate |-> "zu"]

\* annehmen and verbinden: both ends open, "hallo" follows.
Neu(i) == [von |-> i, hallo |-> TRUE, bekannt |-> FALSE, mcp |-> TRUE, lebt |-> TRUE,
           leitung |-> TRUE, kopf |-> "auf", gate |-> "auf"]

MaxVerbindet == 2   \* bound: calls of verbinden() that wait for the access token

Kopf == [laeuft: BOOLEAN, ws: Verb \cup {Keine}, timer: BOOLEAN, verbindet: 0..MaxVerbindet]

Init ==
    /\ verb = [k \in Verb |-> Frei]
    /\ koepfe = {} /\ vergangen = {} /\ gesehen = {}
    /\ kopf = [i \in Instanz |-> [laeuft |-> FALSE, ws |-> Keine, timer |-> FALSE, verbindet |-> 0]]
    /\ aufruf = [c \in Aufruf |-> [stand |-> "neu", bei |-> Keine]]
    /\ risse = 0 /\ stopps = 0

\* A connection both of whose ends are closed is forgotten.
Ohne(v) == IF v.kopf = "zu" /\ v.gate = "zu" THEN Frei ELSE v

\* The connections of the set K registered under the id of instance i.
Unter(i, K) == {k \in K : verb[k].bekannt /\ verb[k].von = i}

-----------------------------------------------------------------------------
(* The client's loop. *)

\* spaeter: nothing when stopped; one timer.
Spaeter(h) == [h EXCEPT !.timer = @ \/ h.laeuft]

\* verbinden waits for the token; then it ends, perhaps with the socket k.
Verbindet(h) == [h EXCEPT !.verbindet = @ + 1]
Zurueck(h) == [h EXCEPT !.verbindet = @ - 1]
Verbunden(h, k) == [Zurueck(h) EXCEPT !.ws = k]

Start(i) ==
    /\ ~kopf[i].laeuft /\ kopf[i].verbindet < MaxVerbindet
    /\ kopf' = [kopf EXCEPT ![i] = Verbindet([@ EXCEPT !.laeuft = TRUE])]
    /\ UNCHANGED <<verb, gateway, risse, stopps>>

Angehalten(h) == [h EXCEPT !.laeuft = FALSE, !.timer = FALSE, !.ws = Keine]

Stop(i) ==
    /\ kopf[i].laeuft /\ stopps < MaxStopps
    /\ stopps' = stopps + 1
    /\ kopf' = [kopf EXCEPT ![i] = Angehalten(@)]
    /\ verb' = [k \in Verb |-> IF k = kopf[i].ws /\ verb[k].kopf = "auf"
                               THEN [verb[k] EXCEPT !.kopf = "schliesst"] ELSE verb[k]]
    /\ UNCHANGED <<gateway, risse>>

TimerFeuert(i) ==
    /\ kopf[i].timer /\ kopf[i].verbindet < MaxVerbindet
    /\ kopf' = [kopf EXCEPT ![i] = Verbindet([@ EXCEPT !.timer = FALSE])]
    /\ UNCHANGED <<verb, gateway, risse, stopps>>

\* verbinden without a token, or turned away: again later.
KeinToken(i) ==
    /\ kopf[i].verbindet > 0
    /\ kopf' = [kopf EXCEPT ![i] = Spaeter(Zurueck(@))]
    /\ UNCHANGED <<verb, gateway, risse, stopps>>

\* verbinden after its await: the upgrade is accepted, the gateway enters the
\* connection.
Verbinden(i, k) ==
    /\ kopf[i].verbindet > 0 /\ verb[k] = Frei
    /\ verb' = [verb EXCEPT ![k] = Neu(i)]
    /\ koepfe' = koepfe \cup {k}
    /\ kopf' = [kopf EXCEPT ![i] = Verbunden(@, k)]
    /\ UNCHANGED <<vergangen, gesehen, aufruf, risse, stopps>>

\* Mutant of KopfGetrennt: no retry after a close that was no fault of the line.
KopfGetrennt_NurBeiRiss(k) ==
    LET i == verb[k].von
        h == [kopf[i] EXCEPT !.ws = IF @ = k THEN Keine ELSE @]
    IN  /\ \/ verb[k].kopf = "schliesst"
           \/ verb[k].kopf = "auf" /\ (verb[k].gate # "auf" \/ ~verb[k].leitung)
        /\ verb' = [verb EXCEPT ![k] = Ohne([@ EXCEPT !.kopf = "zu"])]
        /\ kopf' = [kopf EXCEPT ![i] = IF verb[k].gate = "auf" THEN Spaeter(h) ELSE h]
        /\ UNCHANGED <<gateway, risse, stopps>>

\* The client's "close" event, whatever the reason.
KopfGetrennt(k) ==
    LET i == verb[k].von
        h == [kopf[i] EXCEPT !.ws = IF @ = k THEN Keine ELSE @]
    IN  /\ \/ verb[k].kopf = "schliesst"
           \/ verb[k].kopf = "auf" /\ (verb[k].gate # "auf" \/ ~verb[k].leitung)
        /\ verb' = [verb EXCEPT ![k] = Ohne([@ EXCEPT !.kopf = "zu"])]
        /\ kopf' = [kopf EXCEPT ![i] = Spaeter(h)]
        /\ UNCHANGED <<gateway, risse, stopps>>

-----------------------------------------------------------------------------
(* The gateway. *)

\* The promises still open at one of the connections K are settled with an error.
Abgebrochen(K) ==
    [c \in Aufruf |-> IF aufruf[c].stand = "offen" /\ aufruf[c].bei \in K
                      THEN [stand |-> "fehler", bei |-> Keine] ELSE aufruf[c]]

\* The map after k has replaced alt under its id.  aufraeumen(alt) drops the
\* account's map when it is empty; k is then entered in the dropped one.
Ersetzt(k, alt) ==
    LET rest == (koepfe \ {k}) \ alt
    IN  IF alt # {} /\ rest = {} THEN {} ELSE rest \cup {k}

\* From now on under the id of its instance.
Bekannt(v, mcp) == [v EXCEPT !.hallo = FALSE, !.bekannt = TRUE, !.mcp = mcp]

\* nachricht, typ "hallo", the first of its connection.
Hallo(k, mcp) ==
    LET i   == verb[k].von
        alt == Unter(i, koepfe \ {k})
    IN  /\ verb[k].hallo /\ verb[k].leitung /\ verb[k].gate = "auf"
        /\ koepfe' = Ersetzt(k, alt)
        /\ verb' = [j \in Verb |->
                      IF j = k THEN Bekannt(verb[k], mcp)
                      ELSE IF j \in alt THEN [verb[j] EXCEPT !.gate = "schliesst"] ELSE verb[j]]
        /\ aufruf' = Abgebrochen(alt)
        /\ vergangen' = vergangen \ {i}
        /\ gesehen' = gesehen \cup {i}
        /\ UNCHANGED <<kopf, risse, stopps>>

\* nachricht, typ "zustand": the MCP switch may have changed.
Zustand(k) ==
    /\ verb[k].bekannt /\ verb[k].leitung /\ verb[k].kopf = "auf" /\ verb[k].gate = "auf"
    /\ verb' = [verb EXCEPT ![k].mcp = ~@]
    /\ UNCHANGED <<gateway, kopf, risse, stopps>>

\* Mutant of Gemerkt: the provisional id of the connection is remembered.
Gemerkt_Vorlaeufig(k) == vergangen \cup (IF verb[k].bekannt THEN {k} ELSE {})

\* Mutant of Gemerkt: a closed connection is not remembered.
Gemerkt_Nie(k) == vergangen

\* aufraeumen with merken: shown as disconnected, if it had said hallo.
Gemerkt(k) == vergangen \cup (IF verb[k].bekannt THEN {verb[k].von} ELSE {})

\* Mutant of Ausgetragen: deleted by id, without a look at who is entered there.
Ausgetragen_NachId(k) == (koepfe \ {k}) \ (IF verb[k].bekannt THEN Unter(verb[k].von, koepfe) ELSE {})

\* aufraeumen: the entry under the id of k is deleted if it is k.
Ausgetragen(k) == koepfe \ {k}

\* Mutant of GateGetrennt: the connection leaves the map, its calls stay.
GateGetrennt_OhneAbbruch(k) ==
    /\ \/ verb[k].gate = "schliesst"
       \/ verb[k].gate = "auf" /\ (verb[k].kopf # "auf" \/ ~verb[k].leitung)
    /\ verb' = [verb EXCEPT ![k] = Ohne([@ EXCEPT !.gate = "zu", !.hallo = FALSE])]
    /\ koepfe' = Ausgetragen(k)
    /\ vergangen' = Gemerkt(k)
    /\ UNCHANGED <<aufruf, gesehen, kopf, risse, stopps>>

\* The gateway's "close" event: aufraeumen(k, "geschlossen").
GateGetrennt(k) ==
    /\ \/ verb[k].gate = "schliesst"
       \/ verb[k].gate = "auf" /\ (verb[k].kopf # "auf" \/ ~verb[k].leitung)
    /\ verb' = [verb EXCEPT ![k] = Ohne([@ EXCEPT !.gate = "zu", !.hallo = FALSE])]
    /\ koepfe' = Ausgetragen(k)
    /\ aufruf' = Abgebrochen({k})
    /\ vergangen' = Gemerkt(k)
    /\ UNCHANGED <<gesehen, kopf, risse, stopps>>

Antwortet(k) == verb[k].leitung /\ verb[k].kopf = "auf"

\* Mutant of NachPing: the mark is never taken away.
NachPing_Milde(v) == IF v.lebt THEN v ELSE [v EXCEPT !.gate = "schliesst"]

NachPing(v) == IF v.lebt THEN [v EXCEPT !.lebt = FALSE] ELSE [v EXCEPT !.gate = "schliesst"]

\* Every 30 s; a pong takes less, so a connection that works has its mark.
Ping ==
    /\ koepfe # {}
    /\ \A k \in koepfe : Antwortet(k) /\ verb[k].gate = "auf" => verb[k].lebt
    /\ verb' = [k \in Verb |-> IF k \in koepfe THEN NachPing(verb[k]) ELSE verb[k]]
    /\ UNCHANGED <<gateway, kopf, risse, stopps>>

Pong(k) ==
    /\ Antwortet(k) /\ verb[k].gate = "auf" /\ ~verb[k].lebt
    /\ verb' = [verb EXCEPT ![k].lebt = TRUE]
    /\ UNCHANGED <<gateway, kopf, risse, stopps>>

-----------------------------------------------------------------------------
(* Calls. *)

\* The best of K: a server before a desktop.
Beste(K) == IF \E k \in K : verb[k].von \in Server THEN {k \in K : verb[k].von \in Server} ELSE K

Bekannte == {k \in koepfe : verb[k].bekannt}

McpKopf == Beste({k \in Bekannte : verb[k].mcp})

\* The head the app asked for, if it is connected; else any, by a rank in which
\* the version comes first.  The MCP switch is ignored.
AppKopf(wunsch) == IF Unter(wunsch, koepfe) # {} THEN Unter(wunsch, koepfe) ELSE Bekannte

\* aufrufBei: a promise, a timer and a message to one of K; or the answer that
\* nobody is connected.
AufrufBei(c, K) ==
    /\ aufruf[c].stand = "neu"
    /\ IF K = {} THEN aufruf' = [aufruf EXCEPT ![c].stand = "fehler"]
       ELSE \E k \in K : aufruf' = [aufruf EXCEPT ![c] = [stand |-> "offen", bei |-> k]]
    /\ UNCHANGED <<verb, koepfe, vergangen, gesehen, kopf, risse, stopps>>

Aufrufen(c) == AufrufBei(c, McpKopf)

Beendet(c, stand) == aufruf' = [aufruf EXCEPT ![c] = [stand |-> stand, bei |-> Keine]]

\* The head's version is older than the app channel: answered at once.
ZuAlt(c, wunsch) ==
    /\ aufruf[c].stand = "neu" /\ AppKopf(wunsch) # {}
    /\ Beendet(c, "fehler")
    /\ UNCHANGED <<verb, koepfe, vergangen, gesehen, kopf, risse, stopps>>

AppAnfrage(c, wunsch) == AufrufBei(c, AppKopf(wunsch)) \/ ZuAlt(c, wunsch)

\* One of the calls of aufrufenAlle.
AufrufenAlle(c) == Bekannte # {} /\ AufrufBei(c, Bekannte)

\* nachricht, typ "ergebnis", from the connection that was asked.
Ergebnis(c) ==
    /\ aufruf[c].stand = "offen" /\ Antwortet(aufruf[c].bei) /\ verb[aufruf[c].bei].gate = "auf"
    /\ Beendet(c, "antwort")
    /\ UNCHANGED <<verb, koepfe, vergangen, gesehen, kopf, risse, stopps>>

\* The timer of aufrufBei.
Zeitablauf(c) ==
    /\ aufruf[c].stand = "offen"
    /\ Beendet(c, "fehler")
    /\ UNCHANGED <<verb, koepfe, vergangen, gesehen, kopf, risse, stopps>>

-----------------------------------------------------------------------------
(* Faults. *)

LeitungReisst(k) ==
    /\ verb[k].leitung /\ risse < MaxRisse
    /\ risse' = risse + 1
    /\ verb' = [verb EXCEPT ![k].leitung = FALSE]
    /\ UNCHANGED <<gateway, kopf, stopps>>

\* All of the gateway's state is in memory.
GatewayNeustart ==
    /\ risse < MaxRisse
    /\ risse' = risse + 1
    /\ verb' = [k \in Verb |-> Ohne([verb[k] EXCEPT !.gate = "zu", !.hallo = FALSE])]
    /\ koepfe' = {} /\ vergangen' = {} /\ gesehen' = {}
    /\ aufruf' = Abgebrochen(Verb)
    /\ UNCHANGED <<kopf, stopps>>

Next ==
    \/ \E i \in Instanz : Start(i) \/ Stop(i) \/ TimerFeuert(i) \/ KeinToken(i)
                          \/ \E k \in Verb : Verbinden(i, k)
    \/ \E k \in Verb : \/ KopfGetrennt(k) \/ GateGetrennt(k) \/ Zustand(k) \/ Pong(k)
                       \/ LeitungReisst(k) \/ \E mcp \in BOOLEAN : Hallo(k, mcp)
    \/ Ping
    \/ \E c \in Aufruf : \/ Aufrufen(c) \/ AufrufenAlle(c) \/ Ergebnis(c) \/ Zeitablauf(c)
                         \/ \E i \in Instanz : AppAnfrage(c, i)
    \/ GatewayNeustart

Spec == Init /\ [][Next]_vars

\* Timers fire, messages of a working line arrive, and over such a line an end
\* learns that the other has closed; a token is to be had now and then.  The
\* client sends its state every five minutes and so notices a dead line; nothing
\* says when the gateway does.
ErfaehrtEs(k) == verb[k].gate = "schliesst" \/ (verb[k].kopf # "auf" /\ verb[k].leitung)

Fairness ==
    /\ WF_vars(Ping)
    /\ \A k \in Verb : /\ WF_vars(Pong(k))
                       /\ WF_vars(\E mcp \in BOOLEAN : Hallo(k, mcp))
                       /\ WF_vars(KopfGetrennt(k))
                       /\ WF_vars(ErfaehrtEs(k) /\ GateGetrennt(k))
    /\ \A i \in Instanz : /\ WF_vars(TimerFeuert(i))
                          /\ SF_vars(\E k \in Verb : Verbinden(i, k))

FairSpec == Spec /\ Fairness

-----------------------------------------------------------------------------
(* Properties. *)

TypeInv ==
    /\ verb \in [Verb -> Verbindung]
    /\ koepfe \subseteq Verb /\ vergangen \subseteq Instanz /\ gesehen \subseteq Instanz
    /\ kopf \in [Instanz -> Kopf]
    /\ aufruf \in [Aufruf -> [stand: {"neu", "offen", "antwort", "fehler"}, bei: Verb \cup {Keine}]]
    /\ risse \in 0..MaxRisse /\ stopps \in 0..MaxStopps

\* A connection that has said hallo leaves the map only with its own end at the
\* gateway: closed, terminated, replaced, lost with the process.  The late close
\* of a connection it has replaced goes by the same id and takes nothing away.
NurMitEigenemEnde ==
    [][\A k \in koepfe : verb[k].bekannt /\ k \notin koepfe' => verb'[k].gate # "auf"]_vars

\* A call waits only at a connection in the map, which pings watch over; one
\* that was replaced, closed or dropped has settled its calls.
AufrufNurBeiKopf == \A c \in Aufruf : aufruf[c].stand = "offen" => aufruf[c].bei \in koepfe

\* In the list, or on its way there: aufraeumen will enter it as past.
Gelistet(k) == verb[k].bekannt /\ (k \in koepfe \/ verb[k].gate = "schliesst")

\* An instance the gateway has known does not vanish from the list: it is shown
\* as connected or as past, or a connection of it is still being closed.  That
\* holds even when its newest connection is lost to the map (see Ersetzt).
ListeVollstaendig ==
    \A i \in gesehen : i \in vergangen \/ \E k \in Verb : verb[k].von = i /\ Gelistet(k)

\* A connection whose line is dead leaves the map: the pings find it although
\* neither end hears anything.
ToteVerschwinden == \A k \in Verb : k \in koepfe /\ ~verb[k].leitung ~> k \notin koepfe

\* kopf-relais.ts:11: "dieselbe Instanz-ID ersetzt ihre alte Verbindung
\* (Wiederverbinden)".  The connection that has replaced another is in the map.
ErsetztIstErreichbar ==
    [][\A k \in Verb : ~verb[k].bekannt /\ verb'[k].bekannt => k \in koepfe']_vars

\* PLAN_AVA_CLOUD.md:819: "im Worker-Modus angehalten".  A stopped client opens
\* no connection.
AngehaltenBleibtGetrennt ==
    [][\A i \in Instanz : ~kopf[i].laeuft => kopf'[i].ws \in {kopf[i].ws, Keine}]_vars

\* After the last fault a client that was never stopped keeps one connection for
\* good: no close is left without a retry, and its own reconnections do not push
\* each other out for ever.  (With a stop and start within one verbinden() they
\* do: two sockets of one client then replace each other for ever.)
KommtZurRuhe == \A i \in Instanz : [](kopf[i].laeuft => \E k \in Verb : <>[](kopf[i].ws = k))
=============================================================================
