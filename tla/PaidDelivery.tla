---------------------------- MODULE PaidDelivery ----------------------------
(***************************************************************************)
(* What Counterparty promises its buyers, with no processes, retries,      *)
(* crashes or receipts in it: a transfer is bound to one request of the    *)
(* seat that made it, a request_id belongs to one request, a bound request *)
(* is delivered once, and what buyers are told is what was delivered.      *)
(***************************************************************************)
EXTENDS ArenaLedger

VARIABLES
  ledger,       \* the transfers made so far
  bound,        \* [txn, req]: the transfer bought the request
  delivered,    \* the deliveries made
  told          \* the deliveries posted to the Room

vars == <<ledger, bound, delivered, told>>

Init == ledger = <<>> /\ bound = {} /\ delivered = {} /\ told = {}

Pay ==
  /\ \E item \in Transfers : ledger' = Append(ledger, item)
  /\ UNCHANGED <<bound, delivered, told>>

Bind ==
  /\ \E t \in 1..Len(ledger), r \in Requests :
       /\ PaysFor(ledger, t, r)
       /\ \A b \in bound : b.txn # t /\ IdOf[b.req] # IdOf[r]
       /\ bound' = bound \cup {[txn |-> t, req |-> r]}
  /\ UNCHANGED <<ledger, delivered, told>>

Deliver ==
  /\ \E p \in delivered' :
       /\ p.state = "DELIVERED"
       /\ \E b \in bound : b.req = p.req
       /\ \A d \in delivered : IdOf[d.req] # IdOf[p.req]
       /\ delivered' = delivered \cup {p}
  /\ UNCHANGED <<ledger, bound, told>>

Tell ==
  /\ told \subseteq told' /\ told' \subseteq delivered
  /\ UNCHANGED <<ledger, bound, delivered>>

Next == Pay \/ Bind \/ Deliver \/ Tell

Spec == Init /\ [][Next]_vars
=============================================================================
