----------------------------- MODULE RegisterJobs -----------------------------
(***************************************************************************)
(* The register-delta job queue: the table "RegisterJob" of the gateway    *)
(* (services/db-gateway/src/lib/register-jobs.ts), the HTTP handlers that  *)
(* change it, the workers that poll it (packages/register-delta/src/       *)
(* worker.ts) and the client that repeats a call whose connection broke    *)
(* (gateway-client.ts).                                                    *)
(*                                                                         *)
(* A handler is split where the code awaits: a request in flight is a      *)
(* record in "anfragen" whose phase says which statement comes next, so    *)
(* that two reports for one job, or a report and a lease, interleave as    *)
(* their SQL statements do.  Clocks are abstract: "faellig" says that the  *)
(* time a row waits for has passed (its lease ran out, or it has been      *)
(* given up for 12 hours).                                                 *)
(***************************************************************************)
EXTENDS Integers, FiniteSets

CONSTANTS
    Jobs,         \* rows of RegisterJob, numbered in the order of "prioritaet", "id"
    Front,        \* the rows with art = 'front', all of one (Gericht, Art)
    Worker,       \* worker ids
    Kann,         \* Kann[w]: the rows of the arten worker w asks for
    Niemand,      \* NULL in "leasedBy"
    Sterblich,    \* bound: the workers whose process may end
    MaxVersuche,  \* MAX_VERSUCHE
    MaxWaisen     \* bound: handlers that run on after their caller's connection broke

KeinJob == 0

ASSUME JobsAssumption == Jobs \subseteq Nat \ {KeinJob} /\ IsFiniteSet(Jobs)
ASSUME FrontAssumption == Front \subseteq Jobs
ASSUME KannAssumption == Kann \in [Worker -> SUBSET Jobs]
ASSUME SterblichAssumption == Sterblich \subseteq Worker
ASSUME NiemandAssumption == Niemand \notin Worker
ASSUME MaxVersucheAssumption == MaxVersuche \in Nat \ {0}
ASSUME MaxWaisenAssumption == MaxWaisen \in Nat

VARIABLES
    job,          \* the table RegisterJob
    anfragen,     \* requests the gateway is working on
    worker,       \* what each worker process is doing
    sperre,       \* a portal lock: known to the worker / booked by the gateway
    geschrieben,  \* pairs <<j, t>>: part t of a result for j has been written
    verbucht      \* pairs <<j, w>>: the result w reported for j has been booked

vars == <<job, anfragen, worker, sperre, geschrieben, verbucht>>

Status == {"keiner", "offen", "laeuft", "erledigt", "fehlgeschlagen", "ueberholt"}

\* What a worker reports: a result, a result with gesperrt = true, an error.
Meldung == {"treffer", "gesperrt", "fehler"}

Aufruf == Meldung \cup {"lease"}

\* The parts of a result: the register sheets in master-data; the mark that
\* their structured contents are out of date; the contents sent along (and the
\* close of a UK download); the follow-up jobs, fronts and insolvencies.
Teil == {"registerblatt", "veraltet", "inhalt", "folge"}

Zeile == [status: Status, leasedBy: Worker \cup {Niemand},
          versuche: 0..MaxVersuche, faellig: BOOLEAN]

\* A lease: "vergeben", then "markiert".  A report: "neu", nothing read yet;
\* "frisch", not recognised as a repetition; "angenommen", the lease was
\* checked; then the writes: "geaendert", the sheets are in and were new;
\* "eingetragen", marked or nothing to mark; "ergaenzt", the contents were
\* tried; "geschrieben", only the booking is left.  "stand" is "versuche" as
\* the handler read it; "offen" says that the caller still listens.
Anfrage == [w: Worker, j: Jobs, art: Aufruf, versuch: {1, 2},
            phase: {"vergeben", "markiert", "neu", "frisch", "angenommen", "geaendert",
                    "eingetragen", "ergaenzt", "geschrieben"},
            stand: 0..MaxVersuche, offen: BOOLEAN]

Taetigkeit == [phase: {"frei", "arbeitet", "wartet"}, job: Jobs \cup {KeinJob},
               art: Aufruf, versuch: {1, 2}]

Frei == [phase |-> "frei", job |-> KeinJob, art |-> "treffer", versuch |-> 1]

Waisen == {a \in anfragen : ~a.offen}

NeueAnfrage(w, j, art, n) ==
    [w |-> w, j |-> j, art |-> art, versuch |-> n, stand |-> 0, offen |-> TRUE,
     phase |-> IF art = "lease" THEN "vergeben" ELSE "neu"]

Wartet(j, art, n) == [phase |-> "wartet", job |-> j, art |-> art, versuch |-> n]

Init ==
    /\ job = [j \in Jobs |-> [status |-> "keiner", leasedBy |-> Niemand,
                              versuche |-> 0, faellig |-> FALSE]]
    /\ anfragen = {}
    /\ worker = [w \in Worker |-> Frei]
    /\ sperre = [w \in Worker |-> [eigen |-> FALSE, gebucht |-> FALSE]]
    /\ geschrieben = {}
    /\ verbucht = {}

-----------------------------------------------------------------------------
(* The table: creation, lease, cron and time. *)

\* legeJobAn: INSERT ... ON CONFLICT ("schluessel") DO NOTHING.
LegeJobAn(j) ==
    /\ job[j].status = "keiner"
    /\ job' = [job EXCEPT ![j].status = "offen"]
    /\ UNCHANGED <<anfragen, worker, sperre, geschrieben, verbucht>>

\* Mutants of Vergebbar: no limit on the attempts; a running lease is no obstacle.
Vergebbar_OhneGrenze(j) ==
    job[j].status = "offen" \/ (job[j].status = "laeuft" /\ job[j].faellig)

Vergebbar_OhneAblauf(j) ==
    job[j].status \in {"offen", "laeuft"} /\ job[j].versuche < MaxVersuche

\* The WHERE of leaseAus, without the order.
Vergebbar(j) ==
    /\ \/ job[j].status = "offen"
       \/ job[j].status = "laeuft" /\ job[j].faellig
    /\ job[j].versuche < MaxVersuche

\* ORDER BY "prioritaet", "id" LIMIT 1 among the rows of M.
ErsterVon(j, M) ==
    /\ j \in M /\ Vergebbar(j)
    /\ \A k \in M : Vergebbar(k) => j <= k

\* Mutant of LeaseAus: no share for the fronts.
LeaseAus_OhneVorrang(w, j) == ErsterVon(j, Kann[w])

\* leaseAus, called with ["front"] first for a share of the calls.
LeaseAus(w, j) == ErsterVon(j, Kann[w]) \/ ErsterVon(j, Kann[w] \cap Front)

\* Mutant of Ausgeschoepft: one attempt too many is waited for.
Ausgeschoepft_EinerMehr(z) == z.status = "laeuft" /\ z.faellig /\ z.versuche > MaxVersuche

\* An expired lease whose attempts are used up.
Ausgeschoepft(z) == z.status = "laeuft" /\ z.faellig /\ z.versuche >= MaxVersuche

EndgueltigMarkiert(z) ==
    IF Ausgeschoepft(z) THEN [z EXCEPT !.status = "fehlgeschlagen", !.faellig = FALSE] ELSE z

Vergeben(z, w) ==
    [z EXCEPT !.status = "laeuft", !.leasedBy = w, !.versuche = @ + 1, !.faellig = FALSE]

\* leaseJob called by an idle worker: its first statement takes a row.  A lost
\* lease call is repeated like any other; that is a new call of an idle worker.
LeaseJob(w, j) ==
    /\ worker[w].phase = "frei" /\ ~sperre[w].eigen
    /\ LeaseAus(w, j)
    /\ job' = [job EXCEPT ![j] = Vergeben(job[j], w)]
    /\ anfragen' = anfragen \cup {NeueAnfrage(w, j, "lease", 1)}
    /\ worker' = [worker EXCEPT ![w] = Wartet(j, "lease", 1)]
    /\ UNCHANGED <<sperre, geschrieben, verbucht>>

\* leaseJob finds no row (204); it still gives up exhausted leases.
LeaseLeer(w) ==
    /\ worker[w].phase = "frei" /\ ~sperre[w].eigen
    /\ \A j \in Kann[w] : ~Vergebbar(j)
    /\ job' = [j \in Jobs |-> EndgueltigMarkiert(job[j])]
    /\ UNCHANGED <<anfragen, worker, sperre, geschrieben, verbucht>>

\* 20 minutes after the lease.
LeaseLaeuftAb(j) ==
    /\ job[j].status = "laeuft" /\ ~job[j].faellig
    /\ job' = [job EXCEPT ![j].faellig = TRUE]
    /\ UNCHANGED <<anfragen, worker, sperre, geschrieben, verbucht>>

\* 12 hours after a row was given up; no request for it lives that long.
ZwoelfStunden(j) ==
    /\ job[j].status = "fehlgeschlagen" /\ ~job[j].faellig
    /\ \A a \in anfragen : a.j # j
    /\ job' = [job EXCEPT ![j].faellig = TRUE]
    /\ UNCHANGED <<anfragen, worker, sperre, geschrieben, verbucht>>

\* Mutant of Wiedervorgelegt: the status is not looked at, so that a row whose
\* lease ran out starts again at 0.
Wiedervorgelegt_AuchLaufende(z) ==
    IF z.faellig
    THEN [status |-> "offen", leasedBy |-> Niemand, versuche |-> 0, faellig |-> FALSE] ELSE z

\* wiedervorlage, the hourly cron.
Wiedervorgelegt(z) ==
    IF z.status = "fehlgeschlagen" /\ z.faellig
    THEN [status |-> "offen", leasedBy |-> Niemand, versuche |-> 0, faellig |-> FALSE] ELSE z

Wiedervorlage ==
    /\ job' = [j \in Jobs |-> Wiedervorgelegt(job[j])]
    /\ UNCHANGED <<anfragen, worker, sperre, geschrieben, verbucht>>

-----------------------------------------------------------------------------
(* The worker process and its client. *)

\* fuehreJobAus ends: with a result, with a lock of the portal, or by throwing.
Melden(w, art) ==
    /\ worker[w].phase = "arbeitet"
    /\ anfragen' = anfragen \cup {NeueAnfrage(w, worker[w].job, art, 1)}
    /\ worker' = [worker EXCEPT ![w] = Wartet(worker[w].job, art, 1)]
    /\ UNCHANGED <<job, sperre, geschrieben, verbucht>>

\* Mutant of NaechsterAufruf: every broken connection is followed by a repetition.
NaechsterAufruf_Endlos(art, n, verbindung) ==
    {c \in [art: Meldung, versuch: {1, 2}] :
        /\ art # "lease"
        /\ IF verbindung THEN c = [art |-> art, versuch |-> 2]
           ELSE art # "fehler" /\ c = [art |-> "fehler", versuch |-> 1]}

\* The call that follows when a call of the kind art failed at attempt n, if
\* any: one repetition after a broken connection, then /fehler, then nothing.
NaechsterAufruf(art, n, verbindung) ==
    {c \in [art: Meldung, versuch: {1, 2}] :
        /\ art # "lease"
        /\ IF verbindung /\ n = 1 THEN c = [art |-> art, versuch |-> 2]
           ELSE art # "fehler" /\ c = [art |-> "fehler", versuch |-> 1]}

NachAufrufen(j, n) ==
    IF n = {} THEN Frei ELSE LET c == CHOOSE c \in n : TRUE IN Wartet(j, c.art, c.versuch)

\* The caller of w's request is gone and makes the calls of "folge" instead: a
\* request that reached the gateway runs on without a listener, one that did
\* not is lost.
Verlassen(w, folge) ==
    LET eigene == {a \in anfragen : a.w = w /\ a.offen}
    IN  /\ eigene # {} => Cardinality(Waisen) < MaxWaisen
        /\ \E verloren \in SUBSET {a \in eigene : a.phase = "neu"} :
              anfragen' = (anfragen \ eigene) \cup folge
                            \cup {[a EXCEPT !.offen = FALSE, !.versuch = 1] : a \in eigene \ verloren}

\* fetch throws: the request or its answer is lost.
VerbindungWeg(w) ==
    LET t == worker[w]
        n == NaechsterAufruf(t.art, t.versuch, TRUE)
    IN  /\ t.phase = "wartet"
        /\ Verlassen(w, {NeueAnfrage(w, t.job, c.art, c.versuch) : c \in n})
        /\ worker' = [worker EXCEPT ![w] = NachAufrufen(t.job, n)]
        /\ UNCHANGED <<job, sperre, geschrieben, verbucht>>

\* gesperrtBis is over.
StundeVorbei(w) ==
    /\ sperre[w].eigen \/ sperre[w].gebucht
    /\ sperre' = [sperre EXCEPT ![w] = [eigen |-> FALSE, gebucht |-> FALSE]]
    /\ UNCHANGED <<job, anfragen, worker, geschrieben, verbucht>>

\* The process ends (crash, stop, shutdown) and is started again; what it knew
\* was in memory only.
WorkerNeustart(w) ==
    /\ w \in Sterblich /\ worker[w].phase # "frei"
    /\ Verlassen(w, {})
    /\ worker' = [worker EXCEPT ![w] = Frei]
    /\ sperre' = [sperre EXCEPT ![w].eigen = FALSE]
    /\ UNCHANGED <<job, geschrieben, verbucht>>

-----------------------------------------------------------------------------
(* The handlers.  Ende(a, ok) is the end of a handler: its answer, 2xx or   *)
(* not, reaches the worker that still waits for it.                         *)

Ende(a, ok) ==
    LET n == IF ok THEN {} ELSE NaechsterAufruf(a.art, a.versuch, FALSE)
    IN  /\ anfragen' = (anfragen \ {a}) \cup
                          {NeueAnfrage(a.w, a.j, c.art, c.versuch) : c \in {c \in n : a.offen}}
        /\ worker' = IF a.offen THEN [worker EXCEPT ![a.w] = NachAufrufen(a.j, n)] ELSE worker

Weiter(a, phase) ==
    /\ anfragen' = (anfragen \ {a}) \cup {[a EXCEPT !.phase = phase]}
    /\ UNCHANGED worker

\* Second statement of leaseJob: exhausted leases are given up.
ErschoepfteMarkieren(a) ==
    /\ a.phase = "vergeben"
    /\ job' = [j \in Jobs |-> EndgueltigMarkiert(job[j])]
    /\ Weiter(a, "markiert")
    /\ UNCHANGED <<sperre, geschrieben, verbucht>>

\* aeltereFrontenUeberholt after the lease of a front row: every other open row
\* of that front.  Its failure is logged only.  Then the row is the answer.
Ueberholt(j, k) == {j, k} \subseteq Front /\ k # j /\ job[k].status = "offen"

LeaseBeantworten(a) ==
    /\ a.phase = "markiert"
    /\ \/ job' = [k \in Jobs |-> IF Ueberholt(a.j, k) THEN [job[k] EXCEPT !.status = "ueberholt"]
                                  ELSE job[k]]
       \/ a.j \in Front /\ UNCHANGED job
    /\ anfragen' = anfragen \ {a}
    /\ worker' = IF a.offen
                 THEN [worker EXCEPT ![a.w] = [Frei EXCEPT !.phase = "arbeitet", !.job = a.j]]
                 ELSE worker
    /\ UNCHANGED <<sperre, geschrieben, verbucht>>

\* The worker keeps the pause it learns of from its own, answered report.
SperreNachAntwort(a) ==
    IF a.offen /\ a.art = "gesperrt" THEN [sperre EXCEPT ![a.w].eigen = TRUE] ELSE sperre

\* First statement of verarbeiteErgebnis: the job is done and still carries
\* this worker's name, so the report is a repetition and is answered 200.
Wiederholt(a) == job[a.j].status = "erledigt" /\ job[a.j].leasedBy = a.w

WiederholungPruefen(a) ==
    /\ a.phase = "neu" /\ a.art \in {"treffer", "gesperrt"}
    /\ IF Wiederholt(a)
       THEN /\ Ende(a, TRUE)
            /\ sperre' = SperreNachAntwort(a)
       ELSE Weiter(a, "frisch") /\ UNCHANGED sperre
    /\ UNCHANGED <<job, geschrieben, verbucht>>

\* ladeGeleastenJob: 409 unless the row runs under this worker's name.
LeaseGueltig(a) == job[a.j].status = "laeuft" /\ job[a.j].leasedBy = a.w

Angenommen(a) ==
    [a EXCEPT !.phase = "angenommen", !.stand = IF a.art = "fehler" THEN job[a.j].versuche ELSE 0]

LeasePruefen(a) ==
    /\ a.phase = IF a.art = "fehler" THEN "neu" ELSE "frisch"
    /\ IF LeaseGueltig(a)
       THEN anfragen' = (anfragen \ {a}) \cup {Angenommen(a)} /\ UNCHANGED worker
       ELSE Ende(a, FALSE)
    /\ UNCHANGED <<job, sperre, geschrieben, verbucht>>

\* gesperrt: the row goes back, the lock is booked on the worker's row.
Zurueckstellen(a) ==
    /\ a.phase = "angenommen" /\ a.art = "gesperrt"
    /\ job' = [job EXCEPT ![a.j].status = "offen", ![a.j].leasedBy = Niemand,
                          ![a.j].faellig = FALSE]
    /\ Ende(a, TRUE)
    /\ sperre' = [SperreNachAntwort(a) EXCEPT ![a.w].gebucht = TRUE]
    /\ UNCHANGED <<geschrieben, verbucht>>

\* Mutant of Schreiben: what master-data knows already needs no follow-up.
Schreiben_NurNeues(a) ==
    /\ a.phase = "angenommen" /\ a.art = "treffer"
    /\ geschrieben' = geschrieben \cup {<<a.j, "registerblatt">>}
    /\ Weiter(a, IF <<a.j, "registerblatt">> \in geschrieben THEN "geschrieben" ELSE "geaendert")
    /\ UNCHANGED <<job, sperre, verbucht>>

\* schreibeTreffer and its sisters.  Only what master-data calls "geaendert" is
\* marked afterwards; sheets that an earlier report brought are not.
Schreiben(a) ==
    /\ a.phase = "angenommen" /\ a.art = "treffer"
    /\ geschrieben' = geschrieben \cup {<<a.j, "registerblatt">>}
    /\ Weiter(a, IF <<a.j, "registerblatt">> \in geschrieben THEN "eingetragen" ELSE "geaendert")
    /\ UNCHANGED <<job, sperre, verbucht>>

\* markiereVeraltet.
VeraltetMarkieren(a) ==
    /\ a.phase = "geaendert"
    /\ geschrieben' = geschrieben \cup {<<a.j, "veraltet">>}
    /\ Weiter(a, "eingetragen")
    /\ UNCHANGED <<job, sperre, verbucht>>

\* schreibeSiAusDelta per company, ukBulkAbschluss: a failure is caught and
\* logged, and the handler goes on.
InhaltSchreiben(a) ==
    /\ a.phase = "eingetragen"
    /\ \/ geschrieben' = geschrieben \cup {<<a.j, "inhalt">>}
       \/ UNCHANGED geschrieben
    /\ Weiter(a, "ergaenzt")
    /\ UNCHANGED <<job, sperre, verbucht>>

\* insolvenzAnfordern, refreshAnfordern, the next section of a front, the
\* insolvencies: idempotent keys, so a second report finds or adds them.
FolgeSchreiben(a) ==
    /\ a.phase = "ergaenzt"
    /\ geschrieben' = geschrieben \cup {<<a.j, "folge">>}
    /\ Weiter(a, "geschrieben")
    /\ UNCHANGED <<job, sperre, verbucht>>

\* Any other write that fails, the booking included, throws: 500.  What was
\* written before stays.
SchreibenScheitert(a) ==
    /\ a.art = "treffer"
    /\ a.phase \in {"angenommen", "geaendert", "ergaenzt", "geschrieben"}
    /\ Ende(a, FALSE)
    /\ UNCHANGED <<job, sperre, geschrieben, verbucht>>

\* The last UPDATE of verarbeiteErgebnis: WHERE "id" only, "leasedBy" stays.
\* The worker's own row is updated after it; when that fails, the booked report
\* is answered 500.
Verbuchen(a) ==
    /\ a.phase = "geschrieben"
    /\ job' = [job EXCEPT ![a.j].status = "erledigt", ![a.j].faellig = FALSE]
    /\ \E ok \in BOOLEAN : Ende(a, ok)
    /\ verbucht' = verbucht \cup {<<a.j, a.w>>}
    /\ UNCHANGED <<sperre, geschrieben>>

\* Mutant of Endgueltig: off by one.
Endgueltig_EinerZuFrueh(versuche) == versuche >= MaxVersuche - 1

\* meldeFehler: given up when the attempts read with the row were used up.
Endgueltig(versuche) == versuche >= MaxVersuche

FehlerBuchen(a) ==
    /\ a.phase = "angenommen" /\ a.art = "fehler"
    /\ job' = [job EXCEPT ![a.j].status = IF Endgueltig(a.stand) THEN "fehlgeschlagen" ELSE "offen",
                          ![a.j].leasedBy = Niemand, ![a.j].faellig = FALSE]
    /\ Ende(a, TRUE)
    /\ UNCHANGED <<sperre, geschrieben, verbucht>>

\* The gateway process ends; its requests die with it, the tables stay.
GatewayNeustart ==
    /\ anfragen # {}
    /\ anfragen' = {}
    /\ UNCHANGED <<job, worker, sperre, geschrieben, verbucht>>

-----------------------------------------------------------------------------
Bearbeiten(a) ==
    \/ ErschoepfteMarkieren(a) \/ LeaseBeantworten(a)
    \/ WiederholungPruefen(a) \/ LeasePruefen(a) \/ Zurueckstellen(a)
    \/ Schreiben(a) \/ VeraltetMarkieren(a) \/ InhaltSchreiben(a) \/ FolgeSchreiben(a)
    \/ SchreibenScheitert(a) \/ Verbuchen(a) \/ FehlerBuchen(a)

Zeit == \E j \in Jobs : LeaseLaeuftAb(j) \/ ZwoelfStunden(j)

Next ==
    \/ \E j \in Jobs : LegeJobAn(j)
    \/ \E w \in Worker, j \in Jobs : LeaseJob(w, j)
    \/ \E w \in Worker : LeaseLeer(w)
    \/ Zeit
    \/ Wiedervorlage
    \/ \E w \in Worker, art \in Meldung : Melden(w, art)
    \/ \E w \in Worker : VerbindungWeg(w)
    \/ \E w \in Worker : StundeVorbei(w)
    \/ \E w \in Worker : WorkerNeustart(w)
    \/ \E a \in anfragen : Bearbeiten(a)
    \/ GatewayNeustart

Spec == Init /\ [][Next]_vars

\* A live gateway works on its requests, fetch ends with an answer or throws, a
\* job ends, clocks run, and an idle worker polls.  A poll every few minutes
\* against leases of 20 minutes and a Wiedervorlage after 12 hours: an idle
\* worker that finds a row again and again does take it (SF).
Fairness ==
    /\ \A w \in Worker :
          /\ WF_vars(\E a \in anfragen : a.w = w /\ ~a.offen /\ Bearbeiten(a))
          /\ WF_vars(VerbindungWeg(w) \/ \E a \in anfragen : a.w = w /\ a.offen /\ Bearbeiten(a))
          /\ WF_vars(\E art \in Meldung : Melden(w, art))
          /\ WF_vars(StundeVorbei(w))
          /\ SF_vars(LeaseLeer(w))
          /\ \A j \in Jobs : SF_vars(LeaseJob(w, j))
    /\ \A j \in Jobs : WF_vars(LeaseLaeuftAb(j))

FairSpec == Spec /\ Fairness

-----------------------------------------------------------------------------
(* Properties. *)

\* Every row, request and worker record has its type.
TypeInv ==
    /\ job \in [Jobs -> Zeile]
    /\ anfragen \subseteq Anfrage
    /\ worker \in [Worker -> Taetigkeit]
    /\ sperre \in [Worker -> [eigen: BOOLEAN, gebucht: BOOLEAN]]
    /\ geschrieben \subseteq Jobs \X Teil
    /\ verbucht \subseteq Jobs \X Worker

\* The parts of a result that a closed row is sure to have.
Eingetragen(j) == {<<j, "registerblatt">>, <<j, "folge">>} \subseteq geschrieben

Eingetragene == {j \in Jobs : Eingetragen(j)}

\* A job is done only when the register sheets of a result for it and all that
\* follows from them are written, wherever earlier reports broke off: a second
\* report meets half of the writes made and still makes the rest.  A booked
\* result stays written even when a slower report reopens the row.  The mark
\* and the contents sent along are not promised (see the last two properties).
ErledigtIstGeschrieben ==
    /\ \A j \in Jobs : job[j].status = "erledigt" => Eingetragen(j)
    /\ \A p \in verbucht : Eingetragen(p[1])

\* A job is given up only after all of its attempts, although meldeFehler
\* decides on a count it read before an await.
AufgegebenErstNachAllenVersuchen ==
    \A j \in Jobs : job[j].status = "fehlgeschlagen" => job[j].versuche = MaxVersuche

\* A row does not pass from one worker to another while its lease runs: a lost
\* lease, an error or a superseded front never moves it directly.
WiedervergabeNurNachAblauf ==
    [][\A j \in Jobs :
          /\ job[j].status = "laeuft" /\ ~job[j].faellig
          /\ job'[j].leasedBy # job[j].leasedBy
          => job'[j].leasedBy = Niemand /\ job'[j].status # "laeuft"]_vars

\* The queue as a ledger: the rows without their leases, and the rows that have
\* the parts of a result a close needs.
Buch == INSTANCE Auftragsbuch
        WITH stand    <- [j \in Jobs |-> job[j].status],
             versuche <- [j \in Jobs |-> job[j].versuche],
             ergebnis <- Eingetragene

\* Every behaviour of the table, the workers and the network, late and repeated
\* reports included, is one of the ledger: nothing is closed without these
\* parts of a result, handed out too often, or touched by a report from before its renewal.
FuehrtBuch == Buch!Spec

\* No job runs for ever: it ends, goes back to the queue or is given up, even
\* if every worker that leases it dies.
LeaseEndet == \A j \in Jobs : job[j].status = "laeuft" ~> job[j].status # "laeuft"

\* A worker does not hang in a call: the client's repetition and the /fehler
\* call after it come to an end.
WorkerKommtFrei == \A w \in Worker : worker[w].phase = "wartet" ~> worker[w].phase # "wartet"

\* register-jobs.ts:1241: a standing backlog of rows with a better priority does
\* not starve a front: an open front row with attempts left is leased,
\* superseded or closed by a late report in the end.
FrontHungertNicht ==
    \A j \in Front :
        job[j].status = "offen" /\ job[j].versuche < MaxVersuche ~> job[j].status # "offen"

\* register-jobs.ts:1311: "Portal hat gesperrt: Job zurueck in die Queue".  An
\* open job can be leased, so it has an attempt left.
ZurueckInDerQueue == \A j \in Jobs : job[j].status = "offen" => Vergebbar(j)

\* PLAN_STAMMDATEN_DELTA.md:129: "Ergebnis: idempotent (meldet derselbe Worker
\* ein bereits verbuchtes Ergebnis erneut, kommt die gespeicherte
\* Zusammenfassung)".  A repetition of a booked report is not taken for a new one.
WiederholungErkannt ==
    [][\A a \in anfragen :
          a.phase = "neu" /\ a.art = "treffer" /\ a.versuch = 2 /\ <<a.j, a.w>> \in verbucht
          => [a EXCEPT !.phase = "frisch"] \notin anfragen']_vars

\* gateway-client.ts:135: "Einmal wiederholen; Ergebnis-Meldungen sind
\* serverseitig idempotent".  A worker whose lock the gateway has booked does
\* not ask for the next job.
SperreBeachtet ==
    [][\A w \in Worker :
          worker[w].phase = "frei" /\ worker'[w].phase = "wartet" => ~sperre[w].gebucht]_vars

\* register-jobs.ts:1259: "Je (Gericht, Art) zaehlt nur der juengste Front-Job:
\* aeltere offene Jobs derselben Front wuerden ab einer veralteten Nummer
\* zaehlen".  A row is superseded only by a younger one.
NurDerJuengste ==
    [][\A a \in anfragen, k \in Front :
          /\ a.phase = "markiert" /\ a \notin anfragen'
          /\ job[k].status = "offen" /\ job'[k].status = "ueberholt"
          => k < a.j]_vars

\* register-jobs.ts:1326: "S7: geaendertes Registerblatt → strukturierte Inhalte
\* veraltet".  A closed row has marked the contents of its changed sheets.
GeaendertesIstVeraltet ==
    \A j \in Jobs : job[j].status = "erledigt" => <<j, "veraltet">> \in geschrieben

\* A closed row has written the structured contents that came with its result.
\* The code means to do without (register-jobs.ts:1329: "ein Fehler hier laesst
\* den Registertreffer stehen"), and nothing tries again.
InhaltVollstaendig ==
    \A j \in Jobs : job[j].status = "erledigt" => <<j, "inhalt">> \in geschrieben
=============================================================================
