# Verification of Counterparty

TLA+ models of Counterparty (`counterparty/`, `sharedos/`), the runs that model-check them with
TLC, and the theorems about them that TLAPS checks. Source references are to the repository's
paths; `PROJECT.json` maps every definition to its lines.

## 1. The system

A **buyer** in a SharedNet Room posts a request for one of three services, pays for it with a
room-visible credit transfer and posts the request again with the transfer's id. A **watcher**
(`sharednet watch --run ... --reply`) hands batches of Room messages to the **Arena service
loop**, which checks the payment, binds it, runs a SharedOS **Router** turn that calls the
**private backend** over HTTP, and prints one reply per batch that the watcher posts.

| Component | Source | State | Operations | Hard part |
|---|---|---|---|---|
| Arena service loop | `sharedos/arena-service.ts` | none of its own between runs | `runArenaBatch`, `processRequest` | awaits between check and claim; crash at any point; batch retried three times, then the watcher stops; one stdout line for the whole batch |
| ArenaStore | `sharedos/arena-store.ts` | `arena_payments`, `arena_responses`, `grants`, `grant_usage`, `trusted_deliveries`, `sharedos_audit` (SQLite) | `claimPayment`, `cachedResponse`, `saveResponse`, `storeGrant`, `tryConsume`, ... | unique keys on two columns, overlapping processes, upsert of the same fingerprint |
| SharedNet CLI adapter | `sharedos/sharednet-cli.ts` | none | `verifyPayment`, `sendCanary` | ledger window of 100, memo by substring, polling with a deadline |
| Drivers and tools | `sharedos/router-driver.ts`, `tools.ts`, `grants.ts`, `host.ts` | phase of a turn; one-use grants | Router: probe, record, service; Probe: one canary | nested turns with nested timeouts; failure becomes a successful INCONCLUSIVE completion |
| Backend handlers | `counterparty/app.py` | none | `trust_snapshot`, `verify_delivery`, `probe_observation`, `best_execution` | handlers run in a thread pool; reads are not in one transaction |
| CounterpartyStore | `counterparty/storage.py` | `observations`, `protocol_observations`, `audit_events` | `record_verification`, `record_protocol_observation`, `append_audit`, reads | row and receipt commit together; UNIQUE constraints decide what a replay is |
| Verification | `counterparty/verification.py` | pure | probes, `aggregate` | missing evidence must not become PASS |
| Reputation, routing | `counterparty/reputation.py`, `routing.py` | pure | scores, verdicts, ranking | thresholds at small counts |
| Launcher | `scripts/arena_host.py` | backend and watch processes | start, health check, signals | signals at any moment; processes that die or hang; a port held by somebody else; the backend dies and the watcher goes on |
| Preflight, middleware | `scripts/arena_preflight.py`, middleware of `app.py` | none | READY, token check | not modelled (section 8): stateless, though with launcher and service loop they are four places that look at one environment, and not alike |
| Other scripts, agent card, audit upload | `scripts/*.py`, `app.py`, `arena-store.ts` | none | | not modelled (section 8) |

How they interact:

- Watcher and service loop: one process per batch, the batch on stdin, at most one line on stdout.
  The process keeps no memory; everything that survives it is in SQLite (`ArenaStore`) or in the
  Room. The watcher acknowledges the batch when the process exits with success.
- Service loop and ledger: one CLI call that lists the latest 100 entries, awaited between the
  cache lookup and the claim of the payment.
- Service loop and Router turn: two one-use grants minted under ids of the attempt, one admission,
  and a completion whose `state` may be INCONCLUSIVE although the turn succeeded.
- Router and backend: one HTTP call per service tool and one for the outcome of a canary. The
  backend's handlers are synchronous functions, so several of them run at a time.
- Handlers and `CounterpartyStore`: one connection per store call. Writers are one
  `BEGIN IMMEDIATE` transaction each; a report is several reads and one append, each on its own.
- Launcher, backend, watcher: child processes on one machine, with the launcher's environment. The
  launcher talks to the backend over `/health` and to both over signals; the service loops that the
  watcher starts show the backend the token of that environment.

What makes each component correct:

- **Service loop and ArenaStore**: nothing is executed unpaid; a transfer buys one delivery; a
  transaction and a request_id belong to one request; a saved response is the answer for good;
  no request is lost with a run that dies; what is delivered was run for that buyer; grants neither run
  out nor pile up; every message is handled.
- **Ledger adapter**: a receipt counts only for the seat, price, payee, Room and memo of the request.
- **Backend and CounterpartyStore**: rows and receipts agree; a delivery counts once however it is
  replayed; a suppressed report had been counted; a report can be justified from the trail.
- **Verification**: no PASS without the whole contract there and met, no FAIL without a part found broken.
- **Reputation, routing**: the tiers and verdicts leave no case out; a verdict is earned by enough counted
  deliveries, and no further report moves it the wrong way; a safe recommendation has its reason in what its
  call read.
- **Drivers, grants and canaries**: only what the named seat acknowledged in the Room is recorded as
  its canary; a seller is contacted only on an unspent ticket for its seat; turns that spend each
  other's grants leave none without; a fresh verdict is among the counts it is reported with; an
  ended turn begins nothing; every turn ends.
- **Hash chain**: it verifies after every step, and a receipt resolves to the event of its call for good.
- **Launcher**: one that comes to its own end leaves no backend on the port, so the next one is answered
  by its own; the watched seat is public; everything ends with the watcher.

The hard behaviours, line by line, are the `hazards` of `PROJECT.json`.

## 2. Modules and plan

| Module | Kind | Status |
|---|---|---|
| `ArenaLedger` | requests, prices, transfers, `verifyPayment`, responses | done |
| `ArenaService` | EXTENDS `ArenaLedger`: watcher, `processRequest`, ArenaStore, Room, ledger, backend outages | done |
| `PaidDelivery` | EXTENDS `ArenaLedger`: the abstract promise to a buyer; `ArenaService!Promise` instantiates it | done |
| `ArenaServiceProofs` | theorems about `ArenaService`: payment, claims, answers, for any number of watchers | done |
| `ArenaTurnsProofs` | EXTENDS `ArenaServiceProofs`: turns, deliveries and grants, for any number of watchers | done |
| `OneWatcherProofs` | EXTENDS `ArenaTurnsProofs`: what needs a seat with one watcher; the refinement of `PaidDelivery` | done |
| `Verification`, `Reputation` | the pure algorithms | done |
| `EvidenceService` | EXTENDS both: handlers, evidence tables, audit trail | done |
| `EvidenceServiceProofs` | theorems about `EvidenceService` | all checked invariants done |
| `EvidenceStore` | EXTENDS `EvidenceService`, which it implements: the store's transactions statement by statement, the write lock, rollback, the hash chain, receipts | done |
| `EvidenceStoreProofs` | EXTENDS `EvidenceStore`, `EvidenceServiceProofs`: the refinement, the chain, the receipts | all checked safety properties done |
| `VerdictProofs` | EXTENDS `EvidenceStoreProofs`: the thresholds of the verdicts as numbers of deliveries, and that the trail had them | done |
| `MCArenaService`, `MCEvidenceService`, `MCEvidenceStore` | instances for TLC | done |
| `RouterTurn` | phases of the two role drivers, one-use grants of both roles, `messageTransport`, the nested Probe turn, canary polling, `record_probe`, timers | done |
| `RouterTurnProofs` | theorems about `RouterTurn` | all checked safety properties done |
| `MCRouterTurn` | instances for TLC | done |
| `ArenaHost` | launchers on one machine, their backends and watchers, signals, the selected seat | done |
| `ArenaHostProofs` | theorems about `ArenaHost` | all checked safety properties done |
| `MCArenaHost` | instance for TLC | done |
| `Routing` | `utility` in exact integers: that more and better evidence never ranks a seller lower (it does, section 4) | planned |
| `Counterparty` | composition: paid turns of `ArenaService` are turns of `RouterTurn`, whose posts are the canaries of `EvidenceService` | planned |

Every safety property and every refinement that a run checks is a theorem by now (section 6), of the
model that the run checks.

## 3. Models and code

### ArenaLedger, ArenaService

A *request* is an atom of `Requests` and stands for its fingerprint, which covers sender seat,
request_id, service and input (`requestFingerprint`). Constant functions give its parts: `IdOf`,
`SeatOf`, `ServiceOf`. `MemoFits[r]` is the set of requests whose id and service occur in the memo
written for `r`, because `ledgerPaymentMatches` looks for substrings; the only assumption is that
it contains the requests with the same id and service. `Invalid` are the requests whose input
`validateInput` refuses, `NotARequest` is a message `parseRequest` returns undefined for. The ledger is a
sequence and a `txn_` id a position in it; `Window` stands for the 100 of `ledger --last`.

| State | Code |
|---|---|
| `inbox`, `posted` | the Room's messages to and from the seat |
| `ledger`, `coreUp` | SharedNet ledger; does the backend answer |
| `payments`, `responses`, `grants` | `arena_payments`, `arena_responses`, unspent uses of Router execution grants |
| `turns` | history: admissions of the executor |
| `pc`, `at`, `upto`, `out`, `trace` | where one run of `runArenaBatch` stands, its message, its batch, its `responses` array, its turn |
| `cursor`, `attempts` | the watcher's read position and failed attempts in a row |

A run is cut into steps where the code awaits or one SQL statement commits:

| Action | Code |
|---|---|
| `Wake`, `Exit` | `sharednet watch` hands a batch over; success acknowledges it and posts stdout |
| `SkipChatter`, `RefuseInput` | `parseRequest`, `validateInput` |
| `ReplayCached`, `RefuseReusedId` | `cachedResponse` returns or throws |
| `QuotePrice`, `RefuseMalformedTxn`, `AskLedger` | the checks of `payment_txn_id`; `AskLedger` is the start of the await |
| `LedgerUnavailable`, `PaymentNotVerified`, `PaymentVerified` | the three outcomes of `verifyPayment` |
| `ClaimPayment`, `ClaimAgain`, `ClaimConflict` | `claimPayment`: claimed, same_request, conflict |
| `MintGrants`, `StartTurn` | `storeGrant`s; `tryConsume` at the executor's admission |
| `TurnSucceeds`, `TurnFails` | DELIVERED is saved and answered; anything else is answered as INCONCLUSIVE and not saved |
| `Die`, `Restart` | the process dies or throws at any step; after `MaxAttempts` failures in a row the watcher stops until somebody starts it |
| `Post`, `Pay`, `CoreFails`, `CoreRecovers` | buyers, payers and the backend; nothing is assumed about them |

The cache lookup and the branch taken on it are one step: there is no await between them, and
SQLite serialises the statement. With two watchers the lookup of one can be stale by the time it claims,
because the ledger call lies in between.

### PaidDelivery

The promise with no process in it: transfers are made, bound to one request of the paying seat,
a bound request is delivered once, and what buyers are told is what was delivered. The mapping is
`bound <- payments`, `delivered <- responses`, `told <-` the DELIVERED responses in the Room. Crashes,
retries, receipts, quotes and batches disappear in it.

### Verification, Reputation

What a probe finds in a text is data: a record of `Evidence` says whether the schema is absent, empty,
invalid, satisfied or violated, what became of the assertions, whether markers or contradictions
were found, whether URLs were cited and what checks the host attached. The states of the probes and
their aggregation are the code's. Scores are the exact fractions of `BayesianReputation`, cross-multiplied, with the confidence
capped at 0.99 from 792 observations on; `score_100` rounds to two decimals before a threshold is
compared, which is the `200 * k - 1`.

### EvidenceService

`observations` and `protocol_observations` are the tables, `audit` the trail as a sequence (a
receipt is a position). A row keeps its request and outcome; the UNIQUE constraints are
`DeliveryTaken` and `CanaryTaken`. `verify_delivery(q)` and `probe_observation(q)` are one action each,
because everything they read or write of the store is one transaction. `trust_snapshot` and
`best_execution` take one step per read (`Begin`, `ReadReputation`, `ReadProtocolReputation` per
seller) and one for the append that ends the call; `Die` ends a call anywhere. Prices and fits
come with the request, so the ranking may put any eligible seller first: the model chooses among
`Eligible`. `since` is a history variable: the length of the trail when the call began.

### EvidenceStore

The variables of `EvidenceService` are the committed database; in WAL mode that is all a reader sees.
`stage`, `work` and `tx` are where a worker's transaction stands, the record call it has in hand and
what it has read and inserted; `links` are the columns `seq`, `previous_hash` and `hash` of
`audit_events`; `receipts` is a history of the answers.

| Action | Code |
|---|---|
| `TakeRecord`, `TakeReport`, `Read` | a worker takes a call; the reads of a report, each on a connection of its own |
| `BeginImmediate`, `Locked` | `BEGIN IMMEDIATE` gets the write lock, or the busy timeout expires |
| `InsertRow` | the `INSERT` that a UNIQUE constraint may refuse, the error being caught |
| `ReadHead`, `Link` | `_append_audit_tx` |
| `CommitRecord`, `CommitReport` | the event's `INSERT` and `COMMIT`; the caller is answered |
| `Fails` | a statement raises or the worker dies, and the transaction is undone |

SHA-256 is taken to be injective, so the hash of an event is the triple it is computed from. The
receipt is handed out with the COMMIT: `append_audit` returns from inside the `with` block, but the
generator commits before the caller has the value, and a COMMIT that raises replaces it. `PageLimit` is the 1000 of
`audit_events` (storage.py:236, app.py:429): what is older than the newest page is in no list a caller can
ask for, and `get_audit_event` still finds it.

### ArenaHost

One step per statement of `main()` that another process can notice; `phase` is the statement. `Bare`
are the statements under Python's own signal handlers and outside of `try`; `Handled` those under
`stop_backend`. A launcher is started once; several launchers are the restarts of the operator, or two of them.
`Bind` fails when the port is taken, and `HealthOk` does not ask by whom. Ctrl-C reaches the whole process group,
SIGTERM and SIGKILL the launcher. What the operator exported is a record of `Environment`, which
`validate_environment` accepts or refuses; a payee with a letter that is not ASCII is accepted.

### RouterTurn

What `StartTurn` and the end of a turn are in `ArenaService` is taken apart here, for turns of
overlapping processes. A turn `k` is one attempt of `processRequest`; the UUIDs drawn for it (grant
ids, probe_id, nonce) are `k` itself. An order is the Router's message, what it is about
(`service`, `target`) and the grants that are stored for it; `processRequest` stores all five for a
snapshot. Orders with a grant missing stand for the other hosts of `host.ts`, whose grant source is theirs.

| State | Code |
|---|---|
| `granted`, `used`, `lasting` | `grants` and `grant_usage`: one-use grants, their counts, grants without a bound |
| `asked`, `replies` | the canaries handed to `sharednet say`; the sellers' messages in the Room |
| `posts`, `canaries` | `record_probe` requests on their way; `protocol_observations` |
| `phase`, `fresh` | `RouterPhase` and `freshProbe` of `CounterpartyRouterDriver`, with the ends of a turn |
| `probe`, `after`, `reply` | the nested Probe turn, `sendCanary`'s read position and what it returned |

| Action | Code |
|---|---|
| `Mint` | the `storeGrant`s of an attempt and the setup of the turn; one step, since no other attempt looks for its ids |
| `Admit`, `NotAdmitted`, `ProbeAdmitted` | the executor spends an execution grant, or denies the turn |
| `Unavailable`, `AskProbe`, `NoActiveProbe` | `phase === "start"` |
| `Record`, `ProbeInconclusive` | `await_probe` |
| `Recorded`, `RecordFails` | `await_record`; a failed call may have been, or may still be, applied |
| `ServiceAnswers`, `ServiceFails` | `await_service` |
| `TakeTicket` | `messages.request` to the seller is authorized: `load` (refused after an abort), `getUsage`, `tryConsume` |
| `SayCanary`, `ReadReply`, `SkipPage` | `sendCanary` on the spent ticket: say, and the pages of the poll |
| `TimesOut`, `Die` | the Router's timer with its signal, and the death of the process |
| `Answer`, `Store`, `Lose` | sellers and the backend |

Between the ticket and the canary the audit record of the authorization is awaited over the network (arena-store.ts:112-146), and
neither `sendCanary` nor `#run` tests the signal before it spawns `say` (sharednet-cli.ts:114-130, 183-206). A Probe turn that
its timer, its Router's timer or a result ends in between is `adrift`: it may still say its canary, and does nothing else.
An abort while `say` runs kills it; the message may or may not have been posted by then, which is the choice
between `SayCanary` before the abort and no `SayCanary` at all. A death of the process leaves nothing adrift.

An authorization itself (`load`, `getUsage`, `tryConsume`) is one step. They are three awaits of functions that call SQLite
synchronously, so only microtasks run in between, and no timer or reply comes in. Another process may:
then the conditional UPDATE of `tryConsume` (arena-store.ts:103-110) decides, as the model's step does.

`tryConsume` picks any unspent grant that covers the call, because the authorizer, a library, gets
all grants of the actor from `load` and no order is promised. A tool that the turn cannot see and a tool whose
last grant is spent by another turn in the meantime end alike, in the snapshot without a canary, so the model
decides where the call is made. The Probe's own timers and failures are `ProbeInconclusive`, which may
happen at any time. A reply says one of three things: the acknowledgement, the acknowledgement beside
text that the manipulation or consistency probe flags (the backend's verdict on it is FAIL), or something else.

## 4. Runs

| Run | Checks | Instance |
|---|---|---|
| `one` | payment, idempotence and grant invariants; refinement of `PaidDelivery` | one watcher; requests x, xy, bx of two seats: x and bx share a request_id, and the memo of xy also names x and bx; 2 transfers, 3 messages, batches of 2, 1 crash |
| `retry` | liveness and replies | one watcher stopping after 2 failures; a refused input, chatter, all bad receipts, a transfer to another payee, window 1, 2 crashes, 1 outage |
| `overlap` | what the SQL alone guarantees: payment, unique claims, deliveries that were run, grants | two watchers on the same tables, requests x and xy, 2 transfers, 2 messages, 1 crash |
| `coredown` | *violated*: `NoDeliveryWhileCoreDown` | as `one`, 1 outage |
| `receipt` | *violated*: `DeliveredReceiptIsBound` | as `one` |
| `replay` | types, trail and tables, counting once, suppression, reasons of outcomes, earned verdicts | 4 events out of 8 reports on 3 deliveries and 3 on 2 canaries, and a thread that reads |
| `race` | statement by statement: types, snapshots and recommendations against the trail, hash chain, receipts and their listing, refinement of `EvidenceService`, every call ends | 2 workers, 2 queries, one delivery reported for two sellers, 2 canaries, 4 events, pages of 2 |
| `rejected` | *violated*: `RejectedIsNotRouted` | 1 thread, 4 events |
| `turn_arena` | observation, tickets, grants, fresh verdicts, what an ended turn may still do | two turns side by side about one or two sellers, with all their grants; 2 replies from either seller |
| `turn_host` | types (no grant is used twice), liveness | two turns in a row, all services, every authority missing once, also about the own seat; 1 reply |
| `wrongack` | *violated*: `WrongAnswerFails` | one turn, 1 reply |
| `host` | orphans of launchers that come to their own end, who answers on the port, the public seat, everything ends | 2 launchers on one port, 2 seats, 3 signals, 2 changes of seat |

The bounds. Three messages let a request be asked for, paid, and asked for again with another receipt
or by another seat; two transfers are the least with which one can be used for two requests or two for
one. Batches of two are the least with which one message's failure takes another's answer along. One crash is
enough to land between any two steps; `retry` takes two so that the watcher stops. A window of one
makes a transfer drop out after the next one. In `replay`, four events fit a delivery that is first
unfinished, then good, then bad, then replayed under another seller, and three passes with the snapshot
that first says CAUTION; BUY takes 15 passes and is left to the theorem. In `race`, four
events are two writes, of which one may be refused, a report and a write the report may or may not have seen; two
workers are the least that compete for the lock and report from different moments. Pages of two let
a receipt leave the list while others are still in it. In `host`, a second launcher
is what finds an orphan or holds the port, three signals are one that is handled, one that comes in the middle
of that and one for the other launcher, and two changes of seat leave the watched seat and come back to it. In `turn_arena`, two turns about the same seller compete for
the same tickets, and two about different ones show a ticket for the wrong seat; two replies are
enough for a wrong one before a right one, and for one canary answered in the other's name. In
`turn_host` the second turn finds what the first left, also where it has no such grant itself. Turns are
interchangeable in `turn_arena`, watchers in `overlap`, and neither run checks liveness. Deadlock is not checked: buyers may fall
silent, a stopped watcher waits for its operator, and the bounds end every run.

### What the documents say and the code does not do

- `coredown`: docs/ARENA_RUNBOOK.md says that with an unhealthy core the service stops advertising
  successful delivery "rather than fabricate/cached-success responses". A Router turn whose service tool
  failed still succeeds, with state INCONCLUSIVE inside; `processRequest` answers DELIVERED, saves the
  response, and the paid request returns it for good.
- `receipt`: README.md says the verified transaction is "durably bound to one request/fingerprint".
  A request that was claimed with one transfer and is sent again with a second verified one is delivered
  under the second, which no row binds.
- `rejected`: README.md says a failed-canary majority "is not routeable in safe mode". One counted
  delivery, even a failed one, makes the seller VERIFIED and the canaries are no longer looked at.
- `wrongack`: docs/ARENA_RUNBOOK.md says "Wrong canary nonce/schema → deterministic `FAIL`."
  `sendCanary` skips a reply without the exact nonce or without `ack: true` and gives up at its deadline, so the
  snapshot is INCONCLUSIVE and nothing is recorded; docs/SHAREDNET_ARENA.md says so too. Of the
  replies, only those with flagged text can make a canary fail.

Met while modelling, and part of the models, but not a run of its own:

- A Ctrl-C between the health check and the start of the watcher stops the backend only: the watcher
  is started afterwards and serves without one until it is told again. `EndsTogether` is stated from the
  watcher's start on.
- SIGTERM to the launcher stops the backend and nothing else, for as long as the watcher likes.
- A turn that ended after its ticket for the seller was taken still says its canary: nobody tests the signal
  between the two (sharednet-cli.ts:114-130). The seller is contacted for nobody; its answer is never recorded
  (`EndedTurnsStartNothing` allows for this one canary and for nothing else).
- A receipt older than the newest 1000 events is in no audit listing (storage.py:236, app.py:429). Looked up by
  itself it resolves for good; `ReceiptsResolve` says exactly when the listing shows it.
- The first verified PASS of a seller with a passing canary moves its verdict from TRY_SMALL to AVOID
  (score 51.11; two passes are 53.33), three are needed to come back to CAUTION.
- `rep.confidence >= 0.5` beside `score >= 75` (app.py:144) never decides: a score of 75 takes 15 passes, and
  8 observations are a confidence of one half (`BuyTakes`).
- The fallback of `probe_observation` that turns an undecided canary into FAIL (app.py:228) is never
  taken, as its comment says (`CanaryDecided`).
- A contract with an empty schema `{}` is eligible (`is not None`, app.py:296-301) while `schema_probe` calls it
  missing (`not expected_schema`): such a delivery can count as FAIL and never as PASS.
- The ranking, too, puts a seller lower for its first verified PASS, in the formulas of routing.py:6-24 and app.py:343-352 and not in a model: with price, fit and
  latency equal, a seller with one passing canary and nothing else has a safe utility 0.042 (leaving the
  equal terms out), with a verified PASS on top -0.033, with three 0.0417. README.md:43 says "preferring
  VERIFIED task evidence"; a safe `best_execution` prefers the seller that was only probed.

Met while reading, and in no model, because one call shows it whatever came before:

- Preflight, launcher and service loop strip the token (arena_preflight.py:34, arena_host.py:66,
  arena-service.ts:375); the backend compares it as exported (app.py:65, 84). A token with white space
  behind it passes every check, READY included, and then every `/v1` call is answered 401. One with a
  character that is not ASCII passes them too, and `compare_digest` raises a TypeError on it: 500 on every call that comes there.
- `isalnum()` (arena_preflight.py:42, arena_host.py:70) lets a payee with letters that are not ASCII pass, which the pattern of
  the service loop (sharednet-cli.ts:44) refuses: the launcher starts, and every batch throws until the watcher
  stops. The service loop's checks of its room and member (arena-service.ts:368-369) are in no gate.
- `contradiction_probe` (verification.py:74) tests a reason with `in {None, ""}`, which raises a TypeError when the reason is a
  list or an object. Such a delivery or canary is answered 500 and recorded nowhere: in the models a call that
  changes nothing, and `RecordFails` of the turn.

## 5. Fairness

`ArenaService` assumes weak fairness of each live watcher's `Step`, and nothing else. The CLI call is
killed after 10 seconds (sharednet-cli.ts:111, 126), the turn ends after 15 (arena-service.ts:508) and the
other steps are synchronous, so a process that has a step to take takes one. A ledger call that
never comes back is `LedgerUnavailable`, a turn that does not is `TurnFails`: fairness of the
disjunction does not promise which. Nobody has to write, pay, crash, restart a stopped watcher or repair
the backend, so `EveryMessageHandled` allows for a watcher that has stopped. `EvidenceService` claims no
liveness and has no fairness.

`EvidenceStore` assumes weak fairness of each worker's next statement, where waiting for the lock
ends with the lock or with the busy timeout of 10 seconds (storage.py:35, 38). Nobody has to
call or to fail. Without the timeout `CallsEnd` does not hold: SQLite's lock is not a queue.

`ArenaHost` assumes that a launcher under its own handlers goes on, each of its waits but the one for the
watcher having a timeout (15, 2 and 5 seconds), and that a watcher that got SIGINT ends. A backend may ignore SIGTERM for
good, nobody has to send a signal, and no process has to end by itself.

`RouterTurn` assumes, of each turn, that the executor comes to admit or deny it and that its timer goes off
(`defaultTimeoutMs`). No reply, no answer of the backend and no step of the Probe is assumed:
`TurnsEnd` holds when everybody else is silent, and fails if one wait is left out of the timer's reach.

## 6. Proofs

### ArenaServiceProofs

For any `Requests`, `MemoFits`, `Watchers`, `Transfers`, bounds and receipts, from
`RequestsAssumption` and `WatchAssumption` only: `TypeCorrect`, `TurnsArePaid`, `ClaimsStayUnique`,
`HandledAreAnswered`, `TransfersBuyOnce`. The invariants are not inductive alone. `Inductive` proves

- `InHand`: `cursor <= upto <= Len(inbox)`, and past the lookup there is a request in hand, so that
  `req(w)` and `txn(w)` mean something;
- `HandPaid`: at `claim` the receipt in hand pays for the request in hand, and from `grants` on a row
  for it exists. It survives other processes because the ledger and `payments` only grow;
- `ClaimsArePaid`: every row's entry pays for its request, from `HandPaid` at the moment of the claim;
- `DeliveriesClaimed`: every DELIVERED response, saved, collected or posted, has a row for its request;
- `BatchAnswered`: what the run has passed in its batch is in `out`, so that `Exit` posts it.

`PaidBeforeTurn` follows at `StartTurn` from `HandPaid` and `ClaimsArePaid`. `OneTransferOneDelivery`
needs no invariant of its own: map each delivered request to the transaction of its row; the map
is injective because `ClaimsAreUnique`. All of it holds for overlapping watchers.

### ArenaTurnsProofs

For any number of overlapping watchers. `TurnsInductive` proves, together with the invariant above,

- `TurnInHand`, `TurnsApart`: the turn a process waits for was started for its message, and nobody
  else waits for it;
- `RanItsTurn`, `OneAnswerPerTurn`: every delivery saved, collected or posted comes from a turn for its request
  that nobody waits for any more, so that the next delivery is of another turn. `NewDelivery` shows
  that only `TurnSucceeds` makes one;
- `SavedDeliveries`: `arena_responses` holds deliveries only, one for each request_id. `saveResponse` is an
  upsert, and what makes it an upsert of the same request is the claim: a request_id is claimed for
  one request (`ClaimsAreUnique`), and what is delivered has been claimed.

`DeliveredWasRun` and `DeliveriesWerePaidTurns` follow, and the action property `SavedForGood`: the later of two
overlapping processes may overwrite the earlier's response, but a request that has a saved response keeps one.

`GrantsAreSpent` is about a count of processes and assumes `IsFiniteSet(Watchers)`: there are at least as many
unspent grants as processes about to start a turn (`Starting`), so `StartTurn` never waits, and at most as
many more as attempts that died. It needs `TypeOK` and nothing else of the above.

### OneWatcherProofs

Its theorems assume `OneWatcher`: one watcher for the seat, which is what one launcher starts (arena_host.py:175-190). `OneInv` adds
`NothingSaved` (from the lookup to the answer, nothing is saved under the request_id in hand: only this process
could have), `LatestTurn` (the turn in hand is the last one, so a delivery follows every other turn of
its request), and `ToldWasSaved` (what is collected or posted is in `arena_responses` as it stands, since
nothing is overwritten any more). `NoTurnAfterDelivery` is inductive with these, and `OneAnswerPerRequest`
follows from `ToldWasSaved` and `SavedDeliveries`.

`PromiseIsKept` is the refinement, step by step: `ClaimPayment` is `Bind`, `TurnSucceeds` is `Deliver`, `Exit` is
`Tell` of what the batch collected, `Pay` is the transfer, and every other step, a crash included, is a stutter.
With two watchers neither holds: both may find nothing saved and run the request, and the later response
overwrites the earlier, which may have been posted.
### EvidenceServiceProofs

For any sellers, task types, requests, queries and threads, from `EvidenceAssumption`: every
invariant of the passing runs. The inductive invariant has four parts.

- `TypeInv`: types; the tables are finite (or `Cardinality` would mean nothing); a thread in the middle of a
  call has a query and a seller left to read. It includes that the cases of tiers and verdicts leave
  nothing out, which for the verdict needs that a score of 75 is a score of 55 (`ScoreOrder`).
- `TrailInv`: the tables are what the trail's updates rebuild; no two updates share a delivery_id or
  probe_id; a suppressed eligible report has an earlier update; a row's outcome is what the probes
  say. The key is `TakenIsCounted`: the UNIQUE constraints refuse a row exactly when an update of the
  trail has its id. Equal fingerprints imply equal ids.
- `ReadsOK`: what a thread has read is what the trail said at moments of its call, a seller's deliveries
  no later than its canaries. `ReadIsNow` proves that a read of the tables is what the trail says now
  (rows and updates are in bijection), `PastStays` that an appended event never revises the past.
- `ReportsInv`: the two properties of what reports say, from `ReadsOK` at the append.

`OutcomesAreShown` follows from `RowsJudged` with `OutcomeProven` and `OutcomeRefuted`, the lemmas about `aggregate`,
for the canaries because their contract is always decided (`CanaryDecided`).

### EvidenceStoreProofs

For any workers, requests, failures and page limits, from `EvidenceAssumption` and `StoreAssumption`. `StoreImplements` shows that every
statement is a step of `EvidenceService` or none: a COMMIT is the whole handler, giving up is `Die` or a
stutter, the rest changes nothing committed. It needs `OneWriter`, since what a transaction found
out about the UNIQUE constraints (`Prepared`) is stale as soon as somebody else commits, and `IdleHands`, since
giving up a record call must leave the reading side of the thread as it is. `StoreSnapshots` and `StoreRoutes`
then follow from the theorems about the handlers, and so does `StoreEvidence` for the tables. The chain has an invariant of its own: `Chained`,
`HeadKnown` (who is about to append knows the head, which nobody else can move) and `Receipted`. A
receipt resolves to one event only because the seq is part of what is hashed; and since the seq is its place in the
trail, it is on a page exactly while fewer events came after it than the page holds.

### VerdictProofs

From `EvidenceAssumption`, for any counts. The thresholds of the score are turned into numbers of
deliveries (`BuyTakes`, `CautionTakes`, `CleanReaches`): multiplied out, the score of up to 791 deliveries is a
quadratic inequality in the number of passes and of deliveries (`FewForBuy`, `FewForCaution`), and a linear one
beyond, where the confidence is capped (`ScoreOfMany`). `VerdictEarned` puts them together for every verdict.

`VerdictsAreEarned` says it of the trail: a snapshot's verdict is the one of the two counts in it
(`VerdictsFollow`, inductive with `TypeInv`), and those counts were true during the call
(`SnapshotIsOfTheCall`). `StoreVerdicts` is the same through the refinement. `ReportsMoveVerdicts` compares a seller
with itself one report later: with deliveries counted, a PASS never costs it its verdict and a FAIL never
improves it. That the first delivery is excepted is the TRY_SMALL to AVOID of section 4.

### ArenaHostProofs

For any launchers, seats and bounds, from `HostAssumption`. The strengthening says where a backend cannot be
(`BackendPlaced`: before Popen, and after a launcher's own end), where a watcher cannot (`WatcherPlaced`), and that the
seat in hand is public past `sharednet reach` (`SeatPublic`). `OwnBackendsAnswer` follows from `BackendPlaced`: a
backend that answers is its launcher's, and a launcher that is off, was refused or came to its own end has none.

### RouterTurnProofs

For any turns, seats, orders and replies, from `TurnAssumption`: every safety property of the two runs.
`Inductive` proves

- `Places`: where the Probe's turn can stand while the Router's is in a phase, and what is known by
  then; `EndedTurnsStartNothing` follows, because `TakeTicket` and `Record` are bound to the Probe's turn, of
  which an ended turn has at most one adrift;
- `GrantsBegun`: a stored grant is of a turn that has begun, whose order never changes, so that what a ticket
  is good for never changes;
- `RepliesHeard`, `PostsHeard`: from the poll to the table, an observation is a message of the target in
  the Room that acknowledges the turn's nonce. They survive other steps because the Room only grows (`Frame`);
- `FreshStored`: what the turn knows as PASS or FAIL is in the table, which only grows, so that
  a snapshot read later counts it (`FreshIsCounted`);
- `TicketsAreSpent`, the strengthening of `ContactsAreTicketed` to the turns that hold a ticket and have not said
  their canary yet (`Holders`): the map from them to spent tickets is extended at `TakeTicket` by the ticket just spent, which
  was unspent and so is not in its range, and `SayCanary` leaves it as it is, because nobody who was asked holds a
  ticket again (`AskedHoldNone`).

`NobodyLacksAGrant` assumes of the orders what `processRequest` does (`GivenAll`) and needs an invariant
of its own, since a turn may be given another's grant: `Backed(kind)` says that the turns that have still to
spend a grant of a kind can be given an unspent one each that fits. A turn that spends the grant set aside for
another leaves that one its own (`BackedSpent`): two tickets that fit the same turn are for the same seat.

## 7. Only model-checked

- `EveryMessageHandled`, `CallsEnd`, `EndsTogether`, `TurnsEnd`: liveness under fairness is out of the prover's
  reach.
- The four violated runs: a counterexample is a behaviour, which TLC finds.

## 8. Not modelled

- The budgets of a turn (6 steps and 3 calls; 4 and 1 for the Probe): the phases stay below them.
- A page limit of 100 messages in the poll, malformed payloads of the Router (`processRequest` sends none),
  the Judge's and Attestor's grants (nothing mints them), and `trusted_deliveries`, which nothing in the
  service writes: a paid Verify Delivery is answered INCONCLUSIVE.
- The composition of launcher and service loop: `coreUp` may change at any time in `ArenaService`, which
  includes what a launcher does to its backend.
- The preflight gate and the HTTP middleware: stateless checks of the environment, of the token and of the length of a
  body, no order of events in them. They do not agree with each other (section 4), so there is no agreement
  to prove; what a disagreement comes to is in `ArenaService`, attempts that die (`Die`) and a backend that
  does not answer (`CoreFails`).
- A second backend that is asked while the first is stopping, and a port used by another program.
- `utility` and the conservative score: they order candidates that the model leaves unordered.
- JSON parsing, JSON path and schema evaluation, the agent card: stateless, and reached by unit tests.
- SHA-256 itself, and rows changed behind the program's back, which `verify_audit` is there to find.
- The demo, rehearsal, soak and stress scripts: each plays a fixed sequence of calls, as a test does.
- The SharedOS audit upload: best effort, its failure is only logged.
- `record_observation`: nothing calls it outside tests.
- Loss of the database file, and two hosts with databases of their own.
- A paid request whose retry comes after more newer transfers than the ledger window is refused
  although its payment is claimed. The model has this behaviour (`Window`); no document promises
  otherwise, so no property is stated.
