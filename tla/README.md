# ava-services in TLA+

TLA+ models of the protocols in ava-services: what several processes, requests,
timers and machines do to shared state, in the orders nobody writes a test for.
TLC checks them on small instances, TLAPS proves the central safety properties for
all values of the constants. Paths below are relative to the repository
(`services/db-gateway/src/lib/x.ts` is written `lib/x.ts` where it is the gateway's).

Run a model with `tlc -workers 2 -config Sitze_einzeln.cfg MCSitze`, a proof with
`tlapm Sitze_proofs.tla`. `PROJECT.json` maps every definition to the lines it models
and lists the runs, the mutants (one plausible bug per property, which the property
must find), the hazards and the theorems.

## The system

The AVA of a user is a desktop app or a server instance: agent, producers (child
processes that research companies) and, optionally, a worker that reads public
registers. It reaches the cloud through one service, `db-gateway`, which has a
Postgres of its own and talks to `master-data`. The two sides meet in four ways:
HTTP requests, AMQP queues, a WebSocket ("Kopf-Relais") that the AVA opens, and
timers in the gateway. The web app, MCP clients and foreign agents (A2A) reach an
AVA through the gateway only.

What makes this hard is common to all parts. A handler in Node runs without
interruption up to its next `await`; what it has read before may be stale after it.
Statements that belong together are often several statements without a transaction,
or a transaction at READ COMMITTED. Processes are stopped at any point (the AVA is
an app that users quit), and what is in memory goes with them. Messages are
repeated, lost or overtake each other.

### Inventory of what is modelled

| Part | State | Operations | Talks to | What is hard | What makes it correct |
|---|---|---|---|---|---|
| Register-delta queue: `lib/register-jobs.ts`, `routes/v1/register-jobs.ts`, `packages/register-delta` (worker, client) | tables RegisterJob, RegisterWorker; the worker's loop; results in master-data | create, lease, report a result, a lock or an error, renew, supersede old fronts | worker by HTTP with one repetition; master-data by HTTP | late and repeated reports, leases that run out under a report, half-written results, starving fronts | a job is closed only with the sheets of its result and their follow-ups written, given up only after all attempts, never handed over while it runs, never stuck |
| Kopf-Relais: `lib/kopf-relais.ts`, `services/desktop/src/core/relais/kopf-relais.ts` | the gateway's map of connections, open calls, list of past instances; the client's loop | upgrade, hello, state, ping, close on both ends, calls, reconnect, stop | WebSocket | both ends learn of a close at different times, dead lines, reconnect before close | a connection leaves the map only with its own end, no call waits at one that has gone, the list is complete, the client settles |
| Umzug, transfer: `services/desktop/src/core/umzug/umzug.ts` | target and source state, inbox | fetch, send, start, part, acknowledgement, end, abort, timer | messages over the relay | lost messages, windows, two moves at once, restarts | only a whole package is ever marked ready; nobody waits for ever |
| Umzug, applying: `wendeUmzugAn` | data directory, `.umzug-alt`, inbox, files bound to the instance | put aside, put in place, fetch back, import, clean up | file system; next start of AVA | killed or failing at any rename, then begun anew | nothing of the package or the former state is lost |
| A2A tasks: `lib/a2a-tasks.ts`, `routes/a2a.ts` | one row per task: state, push address, attempts | send, get, cancel, set address, the minute's tick (check, push) | EntityProgress; webhooks | decisions on stale rows, slow webhooks, restarts | a task ends, stays ended, and its end is told |
| Pipeline progress: `lib/event-bus.ts`, `lib/persist-bus.ts`, `lib/stuck-progress-reaper.ts`, `routes/v1/transactions.ts` | EntityProgress row per step | seed, progress event, persist event behind its gates, reaper, abort, retry | two AMQP queues, heartbeat of the AVA | messages out of order, clocks of two machines, retries that are decided minutes before they are written | the row ends as the run did, nothing stays yellow, nothing is forgotten or retried for ever |
| Seats: `lib/sitze.ts`, `routes/v1/sitze.ts`, removal and join in `lib/tenants.ts` | Sitz, TenantBilling (tier, noted changes), PlanZeitraum, TenantMember | buy, assign, free, cut down, note a change, withdraw it, hourly cron | Postgres row locks | five statements of which another transaction sees any prefix; locks in two orders | seat, tier and open period agree; a noted change comes about or is lost only in known ways; nothing hangs |

The parts that are not modelled are listed under "Not modelled" below and, with their
files, in `PROJECT.json`.

## Modules

| Module | Models |
|---|---|
| `Auftragsbuch` | abstract ledger of jobs: what the queue promises, without leases, workers, requests |
| `RegisterJobs`, `MCRegisterJobs`, `RegisterJobs_proofs` | the queue, its workers and client; implements `Auftragsbuch` |
| `KopfRelais`, `MCKopfRelais`, `KopfRelais_proofs` | both ends of the relay |
| `Umzug`, `MCUmzug`, `Umzug_proofs` | transfer of a package between AVAs |
| `UmzugEinspielen`, `MCUmzugEinspielen`, `UmzugEinspielen_proofs` | applying it at the next start |
| `A2aTasks`, `MCA2aTasks`, `A2aTasks_proofs` | one task of a foreign agent |
| `Fortschritt`, `MCFortschritt`, `Fortschritt_proofs` | one step's progress row and everything that writes it |
| `Sitzbuch` | abstract book of who has which seat, with requests that are carried out in one step |
| `Sitze`, `MCSitze`, `Sitze_proofs` | the seats of one organisation; implements `Sitzbuch` |

The names of variables and actions are those of the code (German) where there is one.
MC modules hold only the values of constants and the symmetry. `X_Y` after an operator `X`
is its mutant: `X` with one plausible bug.

**RegisterJobs.** `job` is the table, `worker` the loop of each process, `anfragen` the
requests the gateway is working on. A request's `phase` says which statement comes next,
so an accepted result is seven steps (`WiederholungPruefen`, `LeasePruefen`, `Schreiben`,
`VeraltetMarkieren`, `InhaltSchreiben`, `FolgeSchreiben`, `Verbuchen`) between which anything
may happen, and a lease three. `geschrieben` says which parts of a result are written (`Teil`).
Writes fail as the code lets them: one of the contents, or the close of a UK download, is
swallowed and the report goes on; any other breaks it off with what it has written
(`SchreibenScheitert`), and the next report finds that. So "written", in the run's properties and
in the ledger, means the register sheets and the follow-ups; the other two parts are not
promised (see `GeaendertesIstVeraltet` and `InhaltVollstaendig` below).
`VerbindungWeg` is a `fetch` that throws: the request may or may not have arrived and may
run on without a listener, while `NaechsterAufruf` is the client's retry policy. Clocks
are one bit per row (`faellig`). `Buch == INSTANCE Auftragsbuch WITH ...` maps the rows,
without leases, to the ledger.

**KopfRelais.** A connection is a record with two ends (`kopf`, `gate`) and a line that may
be dead without either end knowing. The gateway's map is the set `koepfe`; that it has one
entry per AVA is its type (`Map<instanzId, Kopf>`) and no property. `verbinden` of
the client waits for a token: `kopf[i].verbindet` counts the calls in that await. `Hallo`,
with `Ersetzt`, is the replacement of an old connection exactly as the code does it.

**Umzug.** Two queues per AVA (to the gateway and back); a cut line empties both. `Empfange`
takes one message and does what `nachricht` does for its type, one operator per type.
`Stille` is the target's timer of two minutes, `AlteStille` (with `uhr`) that of a target which was
replaced while it ran: nobody clears it. A move is applied in one step (`Startet`);
`UmzugEinspielen` is that step in detail, with the file system as functions from names to
what is there (`vorher`, `paket`, `frisch`). The two modules meet at `eingang` with
`bereit.json`: `NurGanz` is what `UmzugEinspielen!Init` relies on (a whole package, or a
marker cut short).

**A2aTasks.** `arbeit[l]` is what a handler or tick has read and is about to write. Ticks do
not wait for each other, so several of them run at a time.

**Fortschritt.** `unterwegs` holds the progress events that are on their way, in no order. Whether
one is newer than the row is left open each time it is handled (`neuer`): three clocks meet there,
and the gateway clamps only a producer's clock that is ahead. Every write to the row may
fail (`Misslingt`): it is logged, and its message is gone. A persist event is two steps (`PersistAnwenden`, `PersistVerwerfen` or `PersistWirft`, then
`PersistMelden`), a retry three (`Anfragen`, `Dispatch`, then a write). `bilanz` is a history
variable: how the run has ended, or `egal` once somebody has interfered, a write has failed or a
gate has refused the result (then `skipped` is the right end, which the code does not keep: `VerworfenBleibt`).

**Sitze.** Postgres at READ COMMITTED: `Inhaber(l, s)` is what transaction `l` sees, `sperre`
and `org` are row locks, `neu` its uncommitted writes. Every statement that can wait or be
overtaken is a step; `Opfer` is the deadlock detector. With `Doppelt = FALSE` no two
transactions for the same member overlap, the one assumption under which the code keeps
its tables consistent. With `TRUE` they may. `Buch == INSTANCE Sitzbuch WITH ...` maps the
tables and the open requests to the book: `sitz[m]` is the seat whose row names `m`, the
transactions' positions, locks and uncommitted writes disappear, `Commit` is `Ausfuehren` (of
a change that is only noted: `Verwerfen`), every other end of a transaction is `Verwerfen`.

## Runs

All counts of faults are bounds and are named `Max...`; what they bound is in the comment
of the constant. `CHECK_DEADLOCK FALSE` stands where the system may rest (no request, no
fault left); `ue_stoerung` checks deadlock, AVA can always be quit and started.

| Run | Instance | What it shows |
|---|---|---|
| `rj_ein_job` | 1 row, 2 workers that may die, 2 attempts, 1 orphaned handler | every interleaving of leases, reports, retries and expiries keeps the ledger; a close has the sheets and the follow-ups, wherever earlier reports broke off |
| `rj_leben` | a refresh row before a front row, 1 worker that may die, no orphans | every lease ends, the front does not starve, the worker gets out of every call |
| `kr_zwei` | desktop and server, 3 connections, 1 call, 1 fault, 1 stop | map, calls and list agree whatever order the two ends learn of a close in; a late close takes nothing from the connection that replaced it |
| `kr_leben` | 1 AVA, 3 connections, 2 faults, no stop | dead connections leave the map; the client ends with one connection |
| `kr_ersetzt` | 1 AVA, 2 connections, 1 fault | **violation**: see Findings |
| `ue_stoerung` | 3 names (1 with a bound file), every former state and package, 2 kills or failing steps | the package survives two attempts; undisturbed, all is whole |
| `um_zwei` | 2 AVAs, 2 moves, 3 parts, window 2, 1 fault (cut line, crash or failing write), 2 expiries of timers | only whole packages without a gap; the window never locks a move; the target never waits for ever |
| `a2a_leben` | 2 handlers, 1 company with 2 steps, 1 distance, 2 addresses, 1 restart, 1 reopened step | tasks end, their push is never forgotten and ends; only a race changes an ended task |
| `fs_sicher` | 1 persist event, 2 progress events, 1 retry by hand beside the heartbeat's, 2 faults (restarts, dead runs, failing writes) | a finished step is not given up; the end of a run in which nobody interferes, no write fails and no gate refuses is shown in every order and with any clocks |
| `fs_leben` | 1 persist event, 1 progress event, the heartbeat's retries, 1 fault | nothing yellow for ever, nothing forgotten, no retry for ever against a dead upstream |
| `sz_einzeln` | 2 members, 3 seats of 2 plans (none bought or cut down on its own), 1 request beside the cron, 1 leave and the return, `Doppelt = FALSE` | tables agree, nobody waits for a seat, requests have the effect of one step of `Sitzbuch` (its steps for seats that are bought or cut down on their own are left to the proof), a noted change comes about unless a request takes it up, another transaction's stale list erases it, or somebody who left with one blocks the cron |
| `sz_doppelt` | 1 member, 3 seats (one bought and cut down on its own), a request and the cron that overlap, 1 failure | an occupied seat never ends; every transaction ends |

Why these bounds: the rules that matter relate two actors at one record, so the record is
single and the actors are two. `RegisterJobs` needs two attempts for "given up by a stale count",
two workers for "handed over", and two rows only for the order of rows, which the
liveness run has. `KopfRelais` needs three connections for a replacement of a replacement.
In `Umzug` three parts against a window of two make the window fill and reopen, and two moves let
messages of an old one meet a new one. `A2aTasks` needs two addresses for an answer that
belongs to the former one. `Fortschritt` needs `GRENZE_ANFRAGE > GRENZE`, as in the code (10 and 5), two
progress events for an order, and in `fs_sicher` two faults for a failure after a failed write. In `Sitze` two seats of one plan and one of another make
up-, down- and sidegrades possible; in `sz_doppelt` the third seat can be bought and cut down on its own. The safety
properties named under "Proofs" hold for every value of these constants.

### Fairness

- `RegisterJobs`: a live gateway works on its requests, a `fetch` ends or throws, a job ends,
  leases run out (WF). Idle workers poll every few minutes against leases of 20 minutes and a
  renewal after 12 hours, so a row that is leasable again and again is taken (SF). A worker
  need not live: `WorkerNeustart` is unfair and may happen for ever.
- `KopfRelais`: pings every 30 s, messages of a working line arrive, timers fire (WF); a token
  is to be had now and then (SF). A gateway's end of a *dead* line closes only by the ping: for it no
  fairness is assumed. Start and stop are the user's and have none.
- `Umzug`: `um_zwei` assumes only that the target's timer runs out (`StilleSpec`), because
  `ZielEndet` must not depend on the other side. `MaxStille` equals the number of moves, so
  the timer is never disabled by its bound.
- `A2aTasks`: handlers end (fetches have time limits), time goes by (WF); the tick runs every
  minute and comes to every row in time (SF).
- `Fortschritt`: consumers, timers and the reaper run (WF); the AVA's heartbeat, with the automatic
  retry switched on, asks for ripe rows again and again (SF). Producers have none: a run may hang for ever.
- `Sitze`: a transaction goes on, and Postgres's lock queue does not let a waiting statement
  be overtaken for ever (SF); the cron comes every hour and a due change stays due (SF).

## Findings

`kr_ersetzt` finds a real disagreement. `hallo` of a reconnecting AVA deletes the new
connection's provisional id from the account's map and calls `aufraeumen` for the old one.
If that was the last entry, `aufraeumen` (`lib/kopf-relais.ts:279`) drops the account's map
from `koepfe`, and line 214 enters the new connection into the dropped map. It is
connected but gets no calls, no list and no pings, until it reconnects. Lines 11-12 say that
the same instance id replaces its old connection. A user with a single AVA can
meet this when the line breaks without a close: the client reconnects within seconds of
noticing, the gateway may notice the old line later.

### Known divergences

These properties are stated in the modules, each with the text of the repository that it
quotes; the code does not keep them. They are not part of the runs. Add one to the named
configuration as `INVARIANT` or `PROPERTY` to see the trace.

| Property (module, configuration) | What happens |
|---|---|
| `ZurueckInDerQueue` (RegisterJobs, `ein_job`) | a lock reported on the last attempt puts the row back as `offen` with `versuche = MAX_VERSUCHE`: no lease takes it, no cron marks or renews it |
| `WiederholungErkannt` (RegisterJobs, `ein_job`) | a repeated result is recognised only while the row is still `erledigt` under that worker; after a slower report has reopened it, it is refused or written again |
| `SperreBeachtet` (RegisterJobs, `ein_job`) | the answer to a lock report is lost, the repetition gets 409, and the worker asks for the next job although the gateway has booked the lock |
| `GeaendertesIstVeraltet` (RegisterJobs, `ein_job`) | a report breaks off after the sheets are written and before their contents are marked out of date; the repetition finds the sheets unchanged and marks nothing (`lib/register-jobs.ts:1326`) |
| `InhaltVollstaendig` (RegisterJobs, `ein_job`) | a failing write of the structured contents is logged and the row booked `erledigt` (1329, 1336-1341 and its three sisters): nothing writes them later |
| `NurDerJuengste` (RegisterJobs, `leben` with `Front = {1, 2}`) | the lease of an *older* front row supersedes younger ones |
| `AngehaltenBleibtGetrennt` (KopfRelais, `zwei`) | `stop()` while `verbinden()` awaits its token: the socket is opened all the same |
| `AlterStandBleibt`, `GebundenBleibt`, `FertigIstVollstaendig` (UmzugEinspielen, `stoerung`) | every attempt begins by deleting `.umzug-alt`: a kill between two renames costs former entries and bound files, a third attempt or a failing step costs entries of the package although `umzug-letzter.json` is written |
| `QuelleEndet`, `BitteEndet` (Umzug, `zwei` with `FairSpec`) | the source's wait for acknowledgements and the asking side's wait for an answer have no timer: a lost abort leaves them busy until AVA restarts |
| `NichtZugleich` (Umzug, `zwei`) | `umzug-start` does not ask whether this AVA is a target itself: two moves in opposite directions run |
| `BereitBleibt` (Umzug, `zwei`) | a move that begins within the 2.5 s before the restart deletes the package that is ready |
| `EndzustandBleibt` (A2aTasks, `leben`) | `taskZustand` does not look at the state: a check that has read an open task overwrites its end |
| `AngenommenEndet` (A2aTasks, `leben`) | a restart while the skill runs leaves `submitted` without a transaction, which the tick does not select: not even the seven days end it |
| `VerworfenBleibt` (Fortschritt, `sicher`) | the gate writes `skipped`, the consumer then `completed` over it (`lib/persist-bus.ts:2297`): the guard at line 276 compares `NOW()` with a time in the past |
| `HoechstensEinSitz` (Sitze, `doppelt`) | two requests for one member give two seats |
| `WechselEndet` (Sitze, `einzeln`) | a member leaves with a noted change to a paid plan: the 404 rolls back the cron's transaction for everybody, every hour |
| `VormerkungBleibt` (Sitze, `einzeln`) | the list of noted changes is written back whole: one noted meanwhile for another member is lost |

Two comments are wrong without a property: `prisma/schema.prisma:60` says that a manual retry
clears `giveUpAt` (the retry route does not; the `in_progress` event of the run keeps it), and
`lib/stuck-progress-reaper.ts:28-29` says that re-runs are not driven by the heartbeat (they are:
the queue takes `nextRetryAt IS NULL` for ripe, and `NichtVergessen` depends on it).

Hazards met while reading, outside the models: a UK bulk job is booked `erledigt` although
`ukBulkAbschluss` after it may fail and is only logged (`lib/register-jobs.ts:1462-1470`); a repeated `teilergebnis` of a bulk job is a
lost update of its payload (`lib/register-jobs.ts:1207-1220`), and `ukBulkAbschluss` is a race of
the same kind (1228); the remainder of a refresh is lost when the follow-up's key equals its own
(1359-1364); the front's number is written without a condition (1493); the day's creation is
lost when `erzeugeJobs` throws (1627); a repeated lease call whose answer was lost leaves a
lease to run out (`gateway-client.ts:142`); the quota is reserved and debited in separate calls
(`routes/internal-quota.ts:30-160`); the tick looks at 200 rows, oldest first
(`lib/a2a-tasks.ts:299`).

## Proofs

| Theorem | For all | Argument |
|---|---|---|
| `RegisterJobs_proofs!TypeInvImmer` | rows, workers, attempts | `Typ` adds that a busy worker has a row |
| `ErledigtImmerGeschrieben` | " | `ErledigtInv`: what a request has passed is written, phase by phase: a request that is about to book has sheets and follow-ups, whoever of the row's reports wrote them |
| `AufgegebenNurErschoepft` | " | `AufgegebenInv`: the count a report has read is never ahead of the row's while the report lives. It needs the assumption that no request outlives the 12 hours of a renewal (guard of `ZwoelfStunden`) |
| `KeineWeitergabe` | " | by cases on the step: only a lease names a worker, and it takes no running row whose lease lasts |
| `BuchGefuehrt` | " | refinement: `BuchInv` (the invariants above, and that a row with an accepted report has been handed out since its last renewal), then every step is a step of the ledger or a stutter |
| `KopfRelais_proofs!TypeInvImmer`, `EigenesEndeImmer`, `AufrufImmerBeiKopf`, `ListeImmerVollstaendig` | AVAs, connections, calls, faults | `Typ` (a registered connection is open at the gateway, one whose hello is under way is unknown) and `Sicher` (one entry per AVA, and the last two properties, with calls at *known* connections, not only at those in the map: one that has still to say hello may be dropped with the account's old map and would take a call with it) |
| `UmzugEinspielen_proofs!TypeInvImmer`, `PaketImmerDa` | names, bound directories, kills | `Da`: where an entry of the package is at each place of each attempt |
| `UngestoertImmerGanz` | " | `UInv`: a start that nothing has disturbed is in its first attempt, and each of the five loops (put aside, put in place, fetch back, import, clean up) is described by what it has done and has still to do; the manifest is there until the last |
| `Umzug_proofs!TypeInvImmer`, `ImmerGanz`, `ImmerOhneLuecke` | AVAs, moves, parts, windows, faults | `IInv`: every message says what its kind allows (a part is one of the package's, an end says the right number), and `Passt` relates target and inbox: what is there is the beginning of the package up to `erwartet` |
| `NieVerklemmtImmer` | " | `NInv`: an undisturbed single move is asked for, announced, under way, sent or over. While it is under way, all that was sent is acknowledged, or the last part or the answer to it is on its way (`Fortgang`); the window has room in the first case. The contents of the queues are not needed beyond that, and which kinds of message are on them |
| `A2aTasks_proofs!TypeInvImmer`, `FaelligImmer`, `NurWettlauf` | handlers, companies, addresses, distances | `VersuchBleibt`: a push that is owed has an attempt left, so that a stale count stays in the table |
| `Fortschritt_proofs!TypeInvImmer`, `FertigImmer`, `EndstandImmer` | events, retries, faults | `EndeInv`: at every moment the end of a run in which nobody interferes, no write fails and no gate refuses is in the row, in an event on its way, or in a persist event; no clock is needed for it |
| `Sitze_proofs!TypeInvImmer`, `BelegtImmer` | members, seats, plans, transactions, overlapping or not | `Laufend`: a seat that a running transaction has chosen is locked and not marked to end, one it is to give is not either |
| `GetrenntImmer`, `KeinWartenImmer`, `NurDieEigenenImmer` | the same, `Doppelt = FALSE` | `Einzeln`: locks are only on free seats and on seats of members the transaction has changed; what it will commit is one seat, its plan and its period |
| `SitzbuchGefuehrt`, `OrdnungImmer` | " | refinement: `Verbucht` adds that a transaction has changed exactly the members whose account differs from the plan they are to get, that these are members of the organisation if the plan is a paid one, and that a seat being bought is chosen or given; then a COMMIT is one step of the book, whose witness is the seats after it, and every statement before it a stutter. `OrdnungImmer` has no run: TLC checked `NurMitglieder`, the part of it that is new, with the other conjuncts of `Verbucht` |

Assumptions are the `ASSUME`s of the modules: finiteness and typing of constants, bounds that
are numbers, `NULL` values outside the sets, `GRENZE <= GRENZE_ANFRAGE`. TLC evaluates all of them.

Every invariant and every action property of the runs is a theorem. TLC checked the inductive
invariants on the instances of the runs before they were proved. Model-checked only: the
liveness properties, for fairness and `ENABLED` are beyond the prover.

## Not modelled

Abstractions inside the modelled parts:

- *RegisterJobs*: the payload of bulk jobs (`teilergebnis`), the front's highest number, keys of
  follow-up jobs, the day guard of the cron. Whether sheets are new is master-data's answer: new the
  first time, unchanged afterwards (`docs/PLAN_STAMMDATEN_DELTA.md:179`). A row is not renewed while a
  report for it runs (twelve hours against minutes), so a renewal within a slow report is left out.
  `rj_leben` has no orphaned handlers: with them the state space is too large for a liveness check.
- *KopfRelais*: expiry of past instances after seven days, a repeated `hallo` on one connection,
  the token check, frames of the app, messages between AVAs (these are `Umzug`), and the execution
  of a tool in the client. Of heads of equal rank the code asks the oldest, the model any.
  `kr_leben` has no stop: a stop and start within one await make two sockets of one client
  which replace each other for ever.
- *Umzug*: what is in a package, encryption and checksums (a checksum is "the parts are those
  sent, in order"). Writing the marker and the manifest is one step, which succeeds or fails. Of two
  timers that replaced targets have left behind, only one is kept. `MaxUmzuege` bounds the
  moves, an id is never reused.
- *UmzugEinspielen*: `.umzug-alt` holds one former state; deleting it is one step.
- *A2aTasks*: one task, so that the tick's limit of 200 rows plays no part; texts and artefacts.
- *Fortschritt*: one row; companies held back (409 before the dispatch), deleted companies, other writers of the
  table (`routes/v1/org-shares.ts:170`, `routes/v1/buying-center.ts:1217`,
  `routes/v1/companies-research.ts:97`), the live stream to the browser. Whether the first failure
  is a day old is left open. `fs_leben` has no retries by hand, with which a user keeps a step
  yellow as long as he likes.
- *Sitze*: waits on the rows of a member's account and periods (`lib/sitze.ts:103-105`, `139-147`), which
  only transactions for one member can meet at; a cut of several seats in one request (`240-243`) is one
  request for each; the membership check and the reading of the old seat (`180-182`) are one step. The
  cron's list is read before its `BEGIN` (`317-327`): the model starts the transaction there, so that
  `Doppelt = FALSE` also keeps requests for the same member out between the two. Purchase or join that
  assigns a seat in the same transaction, Stripe, enterprise
  accounts, a second organisation of the same person, how many free places there are (a refusal is
  possible at any time), several open periods at once in one table cell.

Parts left out, with the reason in `PROJECT.json`: organisations and members, billing and
Stripe, quota, the apply functions of the persist bus, LLM proxy, service webhooks and the app's
stream, reading routes, retention crons, login, the desktop's agent, producers, databases, mail,
Telegram, LinkedIn, scheduler and workflows, the user interface, adapters and infrastructure.
Most of them are functions of data, views or adapters, where a model would say
nothing that the code does not. By lines they are nearly all of the repository: the
models cover a small share of it, the share in which orders of events matter most.

## What is left

In this order: the order of Stripe's webhooks against `sitze-stripe.ts`; quota (reservation, debit,
parked companies and their resumption); an interrupted run of `main/workflows/runner.ts`; the stream of
the app with its resumption (`lib/app-strom.ts`); the payload of bulk jobs in `RegisterJobs`; a member who
changes organisations in `Sitze`. Of the proofs: abstract specifications like `Auftragsbuch` and
`Sitzbuch` for the transfer of a package (one step from asked for to ready, whatever the window
does) and for a step's progress row, which the two components can be shown to implement.
