---------------------------- MODULE ArenaService ----------------------------
(***************************************************************************)
(* Counterparty's paid service loop: the `sharednet watch` process that    *)
(* hands batches of Room messages to arena-service.ts, processRequest step *)
(* by step, and the tables of ArenaStore it reads and writes.  A process   *)
(* may die between any two steps; the tables survive it, and the watcher   *)
(* runs the unhandled messages again until three attempts in a row failed. *)
(*                                                                         *)
(* Steps are cut where the code awaits and where one autocommitted SQL     *)
(* statement ends and the next begins.                                     *)
(***************************************************************************)
EXTENDS ArenaLedger

CONSTANTS
  Watchers,       \* the watch processes of the seat: one, or two that overlap
  NotARequest,    \* the content of a message parseRequest returns undefined for
  MaxAttempts,    \* failed attempts after which a watcher stops
  Contents,       \* bound: what members post, requests and NotARequest
  Receipts,       \* bound: the receipts they show beside those the ledger issued
  MaxMessages,    \* bound: messages posted to the Room
  MaxTransfers,   \* bound: ledger entries
  MaxBatch,       \* bound: messages in one batch
  MaxFailures,    \* bound: runs that die
  MaxOutages      \* bound: outages of the backend

ASSUME WatchAssumption ==
  /\ NotARequest \notin Requests
  /\ Contents \subseteq Requests \cup {NotARequest}
  /\ Receipts \subseteq {NoTxn, MalformedTxn, UnknownTxn}
  /\ MaxAttempts \in Nat /\ MaxBatch \in Nat

VARIABLES
  \* the outside
  inbox,          \* Room messages in order: the request and its payment_txn_id
  ledger,         \* the SharedNet ledger
  coreUp,         \* the private backend answers the service tools
  failures,       \* how many runs died so far
  outages,        \* how many outages of the backend began so far
  \* ArenaStore
  payments,       \* table arena_payments: [txn, req]
  responses,      \* table arena_responses, keyed by request_id
  grants,         \* unspent uses of grant-router-exec-* grants
  \* history
  turns,          \* turns[k]: the request the k-th Router turn was started for
  posted,         \* the responses posted to the Room
  \* one watch process each
  pc,             \* where processRequest stands
  cursor,         \* messages handled for good
  upto,           \* the last message of the batch in hand
  at,             \* the message of the batch being processed
  out,            \* responses collected for the batch's single stdout line
  trace,          \* the turn in hand
  attempts        \* failed attempts in a row

world   == <<inbox, ledger, coreUp, outages>>
tables  == <<payments, responses, grants>>
history == <<turns, posted>>
process == <<pc, cursor, upto, at, out, trace, attempts>>
vars    == <<world, failures, tables, history, process>>
-----------------------------------------------------------------------------
Message == [req : Requests \cup {NotARequest}, txn : TxnField]

Row == [txn : Nat, req : Requests]

\* The message in hand, as ParsedRequest.
req(w) == inbox[at[w]].req
txn(w) == inbox[at[w]].txn

\* arena_responses by primary key.
Cached(id) == {p \in responses : IdOf[p.req] = id}

\* Variants: one half of the WHERE clause is missing.
Bound_ByTxn(t, id) == {row \in payments : row.txn = t}
Bound_ByRequestId(t, id) == {row \in payments : IdOf[row.req] = id}

\* SELECT ... WHERE txn_id=? OR request_id=?
Bound(t, id) == {row \in payments : row.txn = t \/ IdOf[row.req] = id}
-----------------------------------------------------------------------------
Init ==
  /\ inbox = <<>> /\ ledger = <<>> /\ coreUp = TRUE /\ outages = 0 /\ failures = 0
  /\ payments = {} /\ responses = {} /\ grants = 0
  /\ turns = <<>> /\ posted = {}
  /\ pc = [w \in Watchers |-> "idle"]
  /\ cursor = [w \in Watchers |-> 0]
  /\ upto = [w \in Watchers |-> 0]
  /\ at = [w \in Watchers |-> 1]
  /\ out = [w \in Watchers |-> {}]
  /\ trace = [w \in Watchers |-> 0]
  /\ attempts = [w \in Watchers |-> 0]
-----------------------------------------------------------------------------
(* The outside: buyers, the ledger, the backend.                           *)

\* A member posts a message: a request, first or again, with any receipt it can see
\* or make up, or something that is not a request.
Post ==
  /\ Len(inbox) < MaxMessages
  /\ \E r \in Contents, t \in Receipts \cup 1..Len(ledger) :
       inbox' = Append(inbox, [req |-> r, txn |-> t])
  /\ UNCHANGED <<ledger, coreUp, outages, failures, tables, history, process>>

\* Someone makes a transfer.
Pay ==
  /\ Len(ledger) < MaxTransfers
  /\ \E item \in Transfers : ledger' = Append(ledger, item)
  /\ UNCHANGED <<inbox, coreUp, outages, failures, tables, history, process>>

CoreFails ==
  /\ coreUp /\ outages < MaxOutages
  /\ coreUp' = FALSE /\ outages' = outages + 1
  /\ UNCHANGED <<inbox, ledger, failures, tables, history, process>>

CoreRecovers ==
  /\ ~coreUp
  /\ coreUp' = TRUE
  /\ UNCHANGED <<inbox, ledger, outages, failures, tables, history, process>>
-----------------------------------------------------------------------------
(* sharednet watch.                                                        *)

\* New messages wake the watcher: the command runs on a batch of them.
Wake(w) ==
  /\ pc[w] = "idle"
  /\ \E n \in 1..MaxBatch :
       /\ cursor[w] + n <= Len(inbox)
       /\ upto' = [upto EXCEPT ![w] = cursor[w] + n]
  /\ at' = [at EXCEPT ![w] = cursor[w] + 1]
  /\ pc' = [pc EXCEPT ![w] = "request"]
  /\ UNCHANGED <<world, failures, tables, history, cursor, out, trace, attempts>>

\* Variant: a batch without a reply is not acknowledged.
Exit_OnlyReplies(w) ==
  /\ pc[w] = "request" /\ at[w] > upto[w] /\ out[w] # {}
  /\ posted' = posted \cup out[w]
  /\ cursor' = [cursor EXCEPT ![w] = upto[w]]
  /\ out' = [out EXCEPT ![w] = {}]
  /\ trace' = [trace EXCEPT ![w] = 0]
  /\ attempts' = [attempts EXCEPT ![w] = 0]
  /\ pc' = [pc EXCEPT ![w] = "idle"]
  /\ UNCHANGED <<world, failures, tables, turns, upto, at>>

\* The command exits with success: its stdout, if any, is posted to the Room.
Exit(w) ==
  /\ pc[w] = "request" /\ at[w] > upto[w]
  /\ posted' = posted \cup out[w]
  /\ cursor' = [cursor EXCEPT ![w] = upto[w]]
  /\ out' = [out EXCEPT ![w] = {}]
  /\ trace' = [trace EXCEPT ![w] = 0]
  /\ attempts' = [attempts EXCEPT ![w] = 0]
  /\ pc' = [pc EXCEPT ![w] = "idle"]
  /\ UNCHANGED <<world, failures, tables, turns, upto, at>>

\* Variant: the watcher moves on although the command failed.
Die_DropsBatch(w) ==
  /\ pc[w] \notin {"idle", "stopped"} /\ failures < MaxFailures
  /\ failures' = failures + 1
  /\ cursor' = [cursor EXCEPT ![w] = upto[w]]
  /\ pc' = [pc EXCEPT ![w] = "idle"]
  /\ out' = [out EXCEPT ![w] = {}]
  /\ trace' = [trace EXCEPT ![w] = 0]
  /\ UNCHANGED <<world, tables, history, upto, at, attempts>>

\* The command dies or throws wherever it stands: what it had collected for stdout is
\* gone and the batch stays unhandled.
Die(w) ==
  /\ pc[w] \notin {"idle", "stopped"} /\ failures < MaxFailures
  /\ failures' = failures + 1
  /\ attempts' = [attempts EXCEPT ![w] = attempts[w] + 1]
  /\ pc' = [pc EXCEPT ![w] = IF attempts[w] + 1 < MaxAttempts THEN "idle" ELSE "stopped"]
  /\ out' = [out EXCEPT ![w] = {}]
  /\ trace' = [trace EXCEPT ![w] = 0]
  /\ UNCHANGED <<world, tables, history, cursor, upto, at>>

\* The operator starts a stopped watcher again.
Restart(w) ==
  /\ pc[w] = "stopped"
  /\ pc' = [pc EXCEPT ![w] = "idle"]
  /\ attempts' = [attempts EXCEPT ![w] = 0]
  /\ UNCHANGED <<world, failures, tables, history, cursor, upto, at, out, trace>>
-----------------------------------------------------------------------------
(* processRequest.                                                         *)

\* It returns p for the message in hand; the loop goes on to the next one.
Answer(w, p) ==
  /\ out' = [out EXCEPT ![w] = out[w] \cup {p}]
  /\ at' = [at EXCEPT ![w] = at[w] + 1]
  /\ pc' = [pc EXCEPT ![w] = "request"]
  /\ UNCHANGED <<world, failures, history, cursor, upto, attempts>>

Refuse(w, state) ==
  /\ Answer(w, Refusal(req(w), state))
  /\ UNCHANGED <<tables, trace>>

\* A request is in hand and nothing was done for it yet.
AtRequest(w) ==
  /\ pc[w] = "request" /\ at[w] <= upto[w]
  /\ req(w) \in Requests

\* Variant: the store is not asked.
Uncached_NoLookup(w) == AtRequest(w) /\ req(w) \notin Invalid

\* ... and the store has no row that settles it.
Uncached(w) == AtRequest(w) /\ req(w) \notin Invalid /\ Cached(IdOf[req(w)]) = {}

\* parseRequest is undefined on the message: it is left out of the batch.
SkipChatter(w) ==
  /\ pc[w] = "request" /\ at[w] <= upto[w]
  /\ req(w) \notin Requests
  /\ at' = [at EXCEPT ![w] = at[w] + 1]
  /\ UNCHANGED <<world, failures, tables, history, pc, cursor, upto, out, trace, attempts>>

RefuseInput(w) ==
  /\ AtRequest(w) /\ req(w) \in Invalid
  /\ Refuse(w, "INVALID_REQUEST")

\* Variant: the saved response is returned under the receipt of the message in hand.
ReplayCached_NewReceipt(w) ==
  /\ AtRequest(w) /\ req(w) \notin Invalid
  /\ \E p \in Cached(IdOf[req(w)]) :
       p.req = req(w) /\ Answer(w, [p EXCEPT !.txn = txn(w)])
  /\ UNCHANGED <<tables, trace>>

\* cachedResponse finds this fingerprint's response: it is returned as it was saved.
ReplayCached(w) ==
  /\ AtRequest(w) /\ req(w) \notin Invalid
  /\ \E p \in Cached(IdOf[req(w)]) : p.req = req(w) /\ Answer(w, p)
  /\ UNCHANGED <<tables, trace>>

\* cachedResponse throws: the request_id answered another fingerprint.
RefuseReusedId(w) ==
  /\ AtRequest(w) /\ req(w) \notin Invalid
  /\ \E p \in Cached(IdOf[req(w)]) : p.req # req(w)
  /\ Refuse(w, "REJECTED")

QuotePrice(w) ==
  /\ Uncached(w) /\ txn(w) = NoTxn
  /\ Refuse(w, "PAYMENT_REQUIRED")

RefuseMalformedTxn(w) ==
  /\ Uncached(w) /\ txn(w) = MalformedTxn
  /\ Refuse(w, "PAYMENT_NOT_VERIFIED")

\* await cli.verifyPayment(...)
AskLedger(w) ==
  /\ Uncached(w) /\ txn(w) \notin {NoTxn, MalformedTxn}
  /\ pc' = [pc EXCEPT ![w] = "ledger"]
  /\ UNCHANGED <<world, failures, tables, history, cursor, upto, at, out, trace, attempts>>

LedgerUnavailable(w) ==
  /\ pc[w] = "ledger"
  /\ Refuse(w, "INCONCLUSIVE")

PaymentNotVerified(w) ==
  /\ pc[w] = "ledger" /\ ~verifyPayment(ledger, txn(w), req(w))
  /\ Refuse(w, "PAYMENT_NOT_VERIFIED")

PaymentVerified(w) ==
  /\ pc[w] = "ledger" /\ verifyPayment(ledger, txn(w), req(w))
  /\ pc' = [pc EXCEPT ![w] = "claim"]
  /\ UNCHANGED <<world, failures, tables, history, cursor, upto, at, out, trace, attempts>>

\* claimPayment, one BEGIN IMMEDIATE transaction: no row for the txn or the id.
ClaimPayment(w) ==
  /\ pc[w] = "claim" /\ Bound(txn(w), IdOf[req(w)]) = {}
  /\ payments' = payments \cup {[txn |-> txn(w), req |-> req(w)]}
  /\ pc' = [pc EXCEPT ![w] = "grants"]
  /\ UNCHANGED <<world, failures, responses, grants, history,
                 cursor, upto, at, out, trace, attempts>>

\* "same_request".  One row by txn and another by id may both exist; LIMIT 1 without
\* an ORDER BY returns either.
ClaimAgain(w) ==
  /\ pc[w] = "claim"
  /\ \E row \in Bound(txn(w), IdOf[req(w)]) : row.req = req(w)
  /\ pc' = [pc EXCEPT ![w] = "grants"]
  /\ UNCHANGED <<world, failures, tables, history, cursor, upto, at, out, trace, attempts>>

\* "conflict"
ClaimConflict(w) ==
  /\ pc[w] = "claim"
  /\ \E row \in Bound(txn(w), IdOf[req(w)]) : row.req # req(w)
  /\ Refuse(w, "REJECTED")

\* Variant: the execution grant has two uses.
MintGrants_Twice(w) ==
  /\ pc[w] = "grants"
  /\ grants' = grants + 2
  /\ pc' = [pc EXCEPT ![w] = "start"]
  /\ UNCHANGED <<world, failures, payments, responses, history,
                 cursor, upto, at, out, trace, attempts>>

\* Variant: every attempt uses the same grant id.
MintGrants_FixedId(w) ==
  /\ pc[w] = "grants"
  /\ grants' = IF grants = 0 THEN 1 ELSE grants
  /\ pc' = [pc EXCEPT ![w] = "start"]
  /\ UNCHANGED <<world, failures, payments, responses, history,
                 cursor, upto, at, out, trace, attempts>>

\* The attempt's grants are stored; the one that admits a turn has one use.
MintGrants(w) ==
  /\ pc[w] = "grants"
  /\ grants' = grants + 1
  /\ pc' = [pc EXCEPT ![w] = "start"]
  /\ UNCHANGED <<world, failures, payments, responses, history,
                 cursor, upto, at, out, trace, attempts>>

\* The executor admits the Router turn and spends a use.
StartTurn(w) ==
  /\ pc[w] = "start" /\ grants > 0
  /\ grants' = grants - 1
  /\ turns' = Append(turns, req(w))
  /\ trace' = [trace EXCEPT ![w] = Len(turns')]
  /\ pc' = [pc EXCEPT ![w] = "turn"]
  /\ UNCHANGED <<world, failures, payments, responses, posted,
                 cursor, upto, at, out, attempts>>

\* What the Router completes a turn with: a service tool that did not succeed becomes
\* an INCONCLUSIVE completion of a turn that still succeeded.
TurnResult == IF coreUp THEN {"served", "INCONCLUSIVE"} ELSE {"INCONCLUSIVE"}

\* saveResponse: an insert, or an update of this fingerprint's own row.
saveResponse(p) ==
  LET old == Cached(IdOf[p.req])
  IN  responses' = IF \A q \in old : q.req = p.req THEN (responses \ old) \cup {p}
                                                   ELSE responses

\* The turn succeeded: the response is saved, then returned.
TurnSucceeds(w) ==
  /\ pc[w] = "turn"
  /\ \E result \in TurnResult :
       LET p == [req |-> req(w), state |-> "DELIVERED", txn |-> txn(w),
                 trace |-> trace[w], result |-> result]
       IN  saveResponse(p) /\ Answer(w, p)
  /\ trace' = [trace EXCEPT ![w] = 0]
  /\ UNCHANGED <<payments, grants>>

\* Variant: whatever the turn came to is saved.
TurnFails_Saved(w) ==
  LET p == [req |-> req(w), state |-> "INCONCLUSIVE", txn |-> txn(w),
            trace |-> trace[w], result |-> "INCONCLUSIVE"]
  IN  /\ pc[w] = "turn"
      /\ Answer(w, p) /\ saveResponse(p)
      /\ trace' = [trace EXCEPT ![w] = 0]
      /\ UNCHANGED <<payments, grants>>

\* The turn timed out, was denied or ran out of its budget: nothing is saved.
TurnFails(w) ==
  /\ pc[w] = "turn"
  /\ Answer(w, [req |-> req(w), state |-> "INCONCLUSIVE", txn |-> txn(w),
                trace |-> trace[w], result |-> "INCONCLUSIVE"])
  /\ trace' = [trace EXCEPT ![w] = 0]
  /\ UNCHANGED tables
-----------------------------------------------------------------------------
\* What a live process does next by itself.
Step(w) ==
  \/ Wake(w) \/ Exit(w) \/ SkipChatter(w) \/ RefuseInput(w)
  \/ ReplayCached(w) \/ RefuseReusedId(w) \/ QuotePrice(w) \/ RefuseMalformedTxn(w)
  \/ AskLedger(w) \/ LedgerUnavailable(w) \/ PaymentNotVerified(w) \/ PaymentVerified(w)
  \/ ClaimPayment(w) \/ ClaimAgain(w) \/ ClaimConflict(w)
  \/ MintGrants(w) \/ StartTurn(w) \/ TurnSucceeds(w) \/ TurnFails(w)

Outside == Post \/ Pay \/ CoreFails \/ CoreRecovers

Next == Outside \/ \E w \in Watchers : Step(w) \/ Die(w) \/ Restart(w)

\* The ledger call is killed after 10 seconds and the turn after 15, so a live process
\* always goes on.  Nobody has to write, pay, crash, or restart a stopped watcher.
Fairness == \A w \in Watchers : WF_vars(Step(w))

Spec == Init /\ [][Next]_vars /\ Fairness
-----------------------------------------------------------------------------
(* Properties.                                                             *)

WorldOK ==
  /\ inbox \in Seq(Message) /\ ledger \in Seq(Transfer)
  /\ coreUp \in BOOLEAN /\ outages \in Nat /\ failures \in Nat

StoreOK ==
  /\ payments \subseteq Row /\ responses \subseteq Response /\ grants \in Nat
  /\ turns \in Seq(Requests) /\ posted \subseteq Response

ProcessOK ==
  /\ pc \in [Watchers -> {"idle", "stopped", "request", "ledger", "claim",
                          "grants", "start", "turn"}]
  /\ cursor \in [Watchers -> Nat] /\ upto \in [Watchers -> Nat] /\ at \in [Watchers -> Nat]
  /\ out \in [Watchers -> SUBSET Response]
  /\ trace \in [Watchers -> Nat] /\ attempts \in [Watchers -> Nat]

\* Every variable keeps to its type, and every response built is one of Response.
TypeOK == WorldOK /\ StoreOK /\ ProcessOK

Delivered == {p \in posted : p.state = "DELIVERED"}

\* No Router turn is started, by any attempt of any watcher and however often a message
\* is retried, for a request that no transfer of its own seat and price, claimed for
\* it alone, has paid (SHAREDNET_ARENA.md: "only then does the paid turn execute").
PaidBeforeTurn ==
  \A k \in 1..Len(turns) :
    \E row \in payments : row.req = turns[k] /\ PaysFor(ledger, row.txn, row.req)

\* A credit transfer does not buy two deliveries: the requests delivered so far can be
\* given each a ledger entry of its own that pays for it, whatever receipts the
\* buyers showed and whatever other requests the memos also name.
OneTransferOneDelivery ==
  LET served == {p.req : p \in Delivered}
  IN  \E f \in [served -> 1..Len(ledger)] :
        /\ \A r \in served : PaysFor(ledger, f[r], r)
        /\ \A r, s \in served : f[r] = f[s] => r = s

\* arena_payments: a transaction and a request_id each belong to one request.
ClaimsAreUnique ==
  \A a, b \in payments : a.txn = b.txn \/ IdOf[a.req] = IdOf[b.req] => a = b

\* Once a response is saved its request is never executed again, by a retry of the
\* batch, a repeated message, or a message with another receipt.  (One watcher.)
NoTurnAfterDelivery ==
  \A p \in responses, k \in 1..Len(turns) : turns[k] = p.req => k <= p.trace

\* Every delivery of a request that is ever posted is the same one: the receipt, the
\* turn and the result do not change when it is asked for again.  (One watcher.)
OneAnswerPerRequest ==
  \A p, q \in Delivered : p.req = q.req => p = q

\* A message the watcher has passed for good and that was a request was answered in
\* the Room: a run that dies takes no request with it.
HandledIsAnswered ==
  \A w \in Watchers : \A i \in 1..cursor[w] :
    inbox[i].req \in Requests => \E p \in posted : p.req = inbox[i].req

\* A delivery comes from a Router turn run for its own request, and a turn comes to one
\* answer: replayed or run side by side by overlapping watchers, no two deliveries that
\* differ in receipt, result or request name the same turn.
DeliveredWasRun ==
  /\ \A p \in Delivered : p.trace \in 1..Len(turns) /\ turns[p.trace] = p.req
  /\ \A p, q \in Delivered : p.trace = q.trace => p = q

\* The watchers about to start a turn.
Starting == {w \in Watchers : pc[w] = "start"}

\* There is an execution grant for each process that minted one and has not started, so
\* none is refused; and one-use grants are left over only from attempts that died
\* in between: a turn that ends, however it ends, leaves none behind.
LeftoverGrants ==
  /\ Cardinality(Starting) <= grants
  /\ grants <= failures + Cardinality(Starting)

\* Every message is handled for good, unless the watcher has stopped after too many
\* failed attempts in a row.
EveryMessageHandled ==
  \A w \in Watchers : \A n \in 1..MaxMessages :
    Len(inbox) >= n ~> cursor[w] >= n \/ pc[w] = "stopped"

\* With one watcher the service implements what PaidDelivery promises.
Promise == INSTANCE PaidDelivery WITH
  bound <- payments, delivered <- responses, told <- Delivered

KeepsPromise == Promise!Init /\ [][Promise!Next]_Promise!vars

-----------------------------------------------------------------------------
(* What the documents say and the code does not do.                        *)

\* ARENA_RUNBOOK.md: "Core unhealthy -> stop advertising successful delivery rather
\* than fabricate/cached-success responses."  No delivery is saved while it is down.
NoDeliveryWhileCoreDown == [][~coreUp => responses' = responses]_vars

\* README.md: the verified transaction "is then durably bound to one
\* request/fingerprint".
DeliveredReceiptIsBound ==
  \A p \in Delivered : [txn |-> p.txn, req |-> p.req] \in payments
=============================================================================
