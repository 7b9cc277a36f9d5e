-------------------------- MODULE RouterTurnProofs --------------------------
(***************************************************************************)
(* What Router turns keep true for any number of turns side by side, any   *)
(* seats and orders, any replies, and crashes and timeouts anywhere.       *)
(***************************************************************************)
EXTENDS RouterTurn, TLAPS

\* How the two drivers' places go together.
Places ==
  \A k \in Turns :
    /\ order[k] = NoOrder <=> phase[k] = "none"
    /\ probe[k] \in {"open", "ticketed", "polling", "observed", "failed"} => phase[k] = "await_probe"
    /\ phase[k] \in {"none", "minted", "start"} => probe[k] = "off" /\ fresh[k] = "none"
    /\ phase[k] = "none" => result[k] = NoResult
    /\ probe[k] \in {"off", "open", "ticketed", "adrift"} => k \notin asked
    /\ probe[k] \in {"polling", "observed"} => k \in asked
    /\ phase[k] \in {"await_probe", "await_record"} => order[k].service = "trust_snapshot"
    /\ fresh[k] \in {"PASS", "FAIL"} => order[k].service = "trust_snapshot"

\* One-use grants belong to turns that have begun, and only they were ever used.
GrantsBegun ==
  \A g \in Grant :
    /\ g \in granted => order[g.attempt] # NoOrder
    /\ used[g] > 0 => g \in granted

\* The seller's acknowledgement of a turn's canary.
Heard(m, k) ==
  /\ m \in Reply /\ m.from = target(k) /\ m.nonce = k /\ m.says # "other"
  /\ \E i \in 1..Len(replies) : replies[i] = m

RepliesHeard == \A k \in Turns : probe[k] = "observed" => Heard(reply[k], k)

\* What is sent to the backend is as good as what it stores.
PostsHeard ==
  \A c \in posts \cup canaries :
    c.probe \in asked /\ c.provider = target(c.probe) /\ Heard(c.output, c.probe)

\* What a turn knows of its canary is what the backend has stored.
FreshStored ==
  \A k \in Turns : fresh[k] \in {"PASS", "FAIL"} =>
    \E c \in canaries : c.probe = k /\ c.provider = target(k) /\ verdict(c) = fresh[k]

\* The turns with a ticket spent: their canary is said, or may still be.
Holders == asked \cup {k \in Turns : HoldsTicket(k)}

\* Each of them has spent one of its own.
TicketsAreSpent ==
  \E f \in [Holders -> granted] :
    /\ \A k \in Holders :
         /\ f[k].kind = "probe-target" /\ target(f[k].attempt) = target(k)
         /\ used[f[k]] > 0
    /\ \A j, k \in Holders : f[j] = f[k] => j = k

IInv ==
  /\ TypeOK /\ Places /\ GrantsBegun /\ RepliesHeard /\ PostsHeard /\ FreshStored
  /\ FreshIsCounted /\ TicketsAreSpent

\* The turns that have still to spend a grant of a kind.
Pending(kind) ==
  {k \in Turns :
    \/ phase[k] = "minted" /\ kind = "router-exec"
    \/ /\ order[k] # NoOrder /\ order[k].service = "trust_snapshot"
       /\ \/ phase[k] \in {"minted", "start"} /\ kind # "router-exec"
          \/ phase[k] = "await_probe" /\ probe[k] = "off" /\ kind \in {"probe-exec", "probe-target"}
          \/ phase[k] = "await_probe" /\ probe[k] = "open" /\ kind = "probe-target"}

\* They can be given an unspent grant each that fits.
Backed(kind) ==
  \E f \in [Pending(kind) -> granted] :
    /\ \A k \in Pending(kind) : Covers(f[k], kind, target(k)) /\ used[f[k]] = 0
    /\ \A j, k \in Pending(kind) : f[j] = f[k] => j = k

AllBacked == \A kind \in OneUse : Backed(kind)
-----------------------------------------------------------------------------
(* Types.                                                                  *)

\* Using a grant keeps the counts at one.
LEMMA ConsumeTyped ==
  ASSUME TypeOK, NEW kind \in OneUse, NEW seat, tryConsume(kind, seat)
  PROVE  used' \in [Grant -> 0..1]
  <1>1. PICK g \in Usable(kind, seat) : used' = [used EXCEPT ![g] = @ + 1]
    BY DEF tryConsume
  <1>2. g \in Grant /\ used[g] = 0
    BY DEF Usable, TypeOK
  <1> QED
    BY <1>1, <1>2 DEF TypeOK

\* An ended turn has a result.
LEMMA EndTyped ==
  ASSUME TypeOK, NEW k \in Turns,
         NEW status \in {"succeeded", "escalated", "denied", "timed_out"},
         NEW state \in FreshStates, NEW seen \in SUBSET canaries, End(k, status, state, seen)
  PROVE  TypeOK'
  <1>1. [status |-> status, fresh |-> state, seen |-> seen] \in Result
    BY DEF TypeOK, Result
  <1>2. result' \in [Turns -> Result \cup {NoResult}]
    BY <1>1 DEF TypeOK, End
  <1>3. /\ phase' \in [Turns -> {"none", "minted", "start", "ended", "died"} \cup Waiting]
        /\ probe' \in [Turns -> ProbePlaces]
    BY DEF TypeOK, End, LeaveProbe, ProbePlaces
  <1> QED
    BY <1>2, <1>3 DEF TypeOK, End, store, room, backend

LEMMA InitTyped == Init => TypeOK
  BY DEF Init, TypeOK, FreshStates, Grant, ProbePlaces

\* A turn that has begun has a seat to be about.
LEMMA TargetTyped ==
  ASSUME TypeOK, NEW k \in Turns, order[k] # NoOrder
  PROVE  target(k) \in Seats
  BY TurnAssumption DEF TypeOK, target

LEMMA NextTyped ==
  ASSUME TypeOK, Places, RepliesHeard, [Next]_vars
  PROVE  TypeOK'
  <1>1. ASSUME NEW k \in Turns, NEW o \in Orders, Mint(k, o)
        PROVE  TypeOK'
    <2>1. MintedFor(k, o) \subseteq Grant
      BY DEF MintedFor, Grant
    <2>2. after' \in [Turns -> 0..Len(replies)]
      BY <1>1 DEF Mint, TypeOK
    <2>3. lasting' \subseteq Lasting
      BY <1>1 DEF Mint, TypeOK
    <2> QED
      BY <1>1, <2>1, <2>2, <2>3 DEF Mint, TypeOK, room, backend
  <1>2. ASSUME NEW k \in Turns, Admit(k)
        PROVE  TypeOK'
    <2>1. used' \in [Grant -> 0..1]
      BY <1>2, ConsumeTyped DEF Admit, OneUse
    <2> QED
      BY <1>2, <2>1 DEF Admit, TypeOK, room, backend
  <1>3. ASSUME NEW k \in Turns, NotAdmitted(k)
        PROVE  TypeOK'
    BY <1>3, EndTyped DEF NotAdmitted, FreshStates
  <1>4. ASSUME NEW k \in Turns, Unavailable(k)
        PROVE  TypeOK'
    BY <1>4, EndTyped DEF Unavailable, FreshStates
  <1>5. ASSUME NEW k \in Turns, AskProbe(k)
        PROVE  TypeOK'
    <2>1. used' \in [Grant -> 0..1]
      BY <1>5, ConsumeTyped DEF AskProbe, OneUse
    <2> QED
      BY <1>5, <2>1 DEF AskProbe, TypeOK, room, backend, Waiting
  <1>6. ASSUME NEW k \in Turns, NoActiveProbe(k)
        PROVE  TypeOK'
    BY <1>6 DEF NoActiveProbe, CallService, TypeOK, store, room, backend, Waiting, FreshStates
  <1>7. ASSUME NEW k \in Turns, Record(k)
        PROVE  TypeOK'
    <2>1. target(k) \in Seats
      BY <1>7, TargetTyped DEF Record, Places
    <2>2. reply[k] \in Reply
      BY <1>7 DEF Record, RepliesHeard, Heard
    <2>3. posts' \subseteq Observation
      BY <1>7, <2>1, <2>2 DEF Record, TypeOK, Observation
    <2> QED
      BY <1>7, <2>3 DEF Record, TypeOK, store, room, Waiting, ProbePlaces
  <1>8. ASSUME NEW k \in Turns, ProbeInconclusive(k)
        PROVE  TypeOK'
    BY <1>8 DEF ProbeInconclusive, LeaveProbe, ProbePlaces, CallService, TypeOK, store, room,
       backend, Waiting, FreshStates
  <1>9. ASSUME NEW k \in Turns, Recorded(k)
        PROVE  TypeOK'
    BY <1>9 DEF Recorded, CallService, TypeOK, store, room, backend, Waiting, FreshStates, verdict
  <1>10. ASSUME NEW k \in Turns, RecordFails(k)
         PROVE  TypeOK'
    BY <1>10 DEF RecordFails, CallService, TypeOK, store, room, backend, Waiting, FreshStates
  <1>11. ASSUME NEW k \in Turns, ServiceAnswers(k)
         PROVE  TypeOK'
    <2>1. fresh[k] \in FreshStates
      BY DEF TypeOK
    <2> QED
      BY <1>11, <2>1, EndTyped DEF ServiceAnswers
  <1>12. ASSUME NEW k \in Turns, ServiceFails(k)
         PROVE  TypeOK'
    BY <1>12, EndTyped DEF ServiceFails, FreshStates
  <1>13. ASSUME NEW k \in Turns, ProbeAdmitted(k)
         PROVE  TypeOK'
    <2>1. used' \in [Grant -> 0..1]
      BY <1>13, ConsumeTyped DEF ProbeAdmitted, OneUse
    <2> QED
      BY <1>13, <2>1 DEF ProbeAdmitted, TypeOK, room, backend, ProbePlaces
  <1>14. ASSUME NEW k \in Turns, SayCanary(k)
         PROVE  TypeOK'
    <2>1. asked' \subseteq Turns /\ probe' \in [Turns -> ProbePlaces]
      BY <1>14 DEF SayCanary, TypeOK, ProbePlaces
    <2> QED
      BY <1>14, <2>1 DEF SayCanary, TypeOK, store, backend
  <1>15. ASSUME NEW k \in Turns, ReadReply(k)
         PROVE  TypeOK'
    <2>1. PICK i \in Matches(k) : /\ reply' = [reply EXCEPT ![k] = replies[i]]
                                  /\ after' = [after EXCEPT ![k] = i]
      BY <1>15 DEF ReadReply
    <2>2. i \in 1..Len(replies)
      BY DEF Matches, Page, TypeOK
    <2>3. replies[i] \in Reply
      BY <2>2 DEF TypeOK
    <2>4. after' \in [Turns -> 0..Len(replies)] /\ reply' \in [Turns -> Reply \cup {NoReply}]
      BY <2>1, <2>2, <2>3 DEF TypeOK
    <2> QED
      BY <1>15, <2>4 DEF ReadReply, TypeOK, store, room, backend, ProbePlaces
  <1>16. ASSUME NEW k \in Turns, SkipPage(k)
         PROVE  TypeOK'
    <2>1. PICK i \in Page(k) : after' = [after EXCEPT ![k] = i]
      BY <1>16 DEF SkipPage
    <2>2. i \in 1..Len(replies)
      BY DEF Page, TypeOK
    <2>3. after' \in [Turns -> 0..Len(replies)]
      BY <2>1, <2>2 DEF TypeOK
    <2> QED
      BY <1>16, <2>3 DEF SkipPage, TypeOK, store, room, backend
  <1>17. ASSUME NEW k \in Turns, TimesOut(k)
         PROVE  TypeOK'
    BY <1>17, EndTyped DEF TimesOut, FreshStates
  <1>18. ASSUME NEW k \in Turns, Die(k)
         PROVE  TypeOK'
    BY <1>18 DEF Die, TypeOK, store, room, backend, ProbePlaces
  <1>19. CASE Answer
    <2>1. PICK m \in Reply : replies' = Append(replies, m)
      BY <1>19 DEF Answer
    <2>2. replies' \in Seq(Reply) /\ Len(replies') = Len(replies) + 1
      BY <2>1 DEF TypeOK
    <2>3. after \in [Turns -> 0..Len(replies')]
      BY <2>2 DEF TypeOK
    <2> QED
      BY <1>19, <2>2, <2>3 DEF Answer, TypeOK, store, backend, turn
  <1>20. ASSUME NEW c \in posts, Store(c) \/ Lose(c)
         PROVE  TypeOK'
    BY <1>20 DEF Store, Lose, TypeOK, store, room, turn
  <1>21. ASSUME NEW k \in Turns, TakeTicket(k)
         PROVE  TypeOK'
    <2>1. used' \in [Grant -> 0..1]
      BY <1>21, ConsumeTyped DEF TakeTicket, OneUse
    <2> QED
      BY <1>21, <2>1 DEF TakeTicket, TypeOK, room, backend, ProbePlaces
  <1>22. CASE UNCHANGED vars
    BY <1>22 DEF vars, TypeOK, store, room, backend, turn
  <1> QED
    BY <1>1, <1>2, <1>3, <1>4, <1>5, <1>6, <1>7, <1>8, <1>9, <1>10, <1>11, <1>12, <1>13, <1>14,
       <1>15, <1>16, <1>17, <1>18, <1>19, <1>20, <1>21, <1>22 DEF Next, RouterStep, ProbeStep
-----------------------------------------------------------------------------
(* What no step takes back.                                                *)

\* The order of a turn stands; canaries, replies and grants stay; uses only go up.
LEMMA Frame ==
  ASSUME TypeOK, Places, [Next]_vars
  PROVE  /\ \A k \in Turns : order[k] # NoOrder => order'[k] = order[k]
         /\ asked \subseteq asked' /\ canaries \subseteq canaries' /\ granted \subseteq granted'
         /\ \A i \in 1..Len(replies) : i \in 1..Len(replies') /\ replies'[i] = replies[i]
  <1>1. /\ \A k \in Turns : order[k] # NoOrder => order'[k] = order[k]
        /\ granted \subseteq granted'
    <2>1. ASSUME NEW k \in Turns, NEW o \in Orders, Mint(k, o)
          PROVE  /\ \A j \in Turns : order[j] # NoOrder => order'[j] = order[j]
                 /\ granted \subseteq granted'
      BY <2>1 DEF Mint, TypeOK, Places
    <2>2. CASE order' = order /\ granted' = granted
      BY <2>2
    <2>3. ASSUME NEW k \in Turns, RouterStep(k) \/ ProbeStep(k) \/ TimesOut(k) \/ Die(k)
          PROVE  order' = order /\ granted' = granted
      BY <2>3 DEF RouterStep, ProbeStep, TimesOut, Die, Admit, NotAdmitted, Unavailable,
         AskProbe, NoActiveProbe, Record, ProbeInconclusive, Recorded, RecordFails,
         ServiceAnswers, ServiceFails, ProbeAdmitted, TakeTicket, SayCanary, ReadReply, SkipPage, End, store
    <2>4. ASSUME Answer \/ (\E c \in posts : Store(c) \/ Lose(c)) \/ UNCHANGED vars
          PROVE  order' = order /\ granted' = granted
      BY <2>4 DEF Answer, Store, Lose, vars, turn, store
    <2> QED
      BY <2>1, <2>2, <2>3, <2>4 DEF Next
  <1>2. asked \subseteq asked' /\ canaries \subseteq canaries'
    <2>1. ASSUME NEW k \in Turns, NEW o \in Orders, Mint(k, o)
          PROVE  asked' = asked /\ canaries' = canaries
      BY <2>1 DEF Mint, room, backend
    <2>2. ASSUME NEW k \in Turns, RouterStep(k) \/ ProbeStep(k) \/ TimesOut(k) \/ Die(k)
          PROVE  asked \subseteq asked' /\ canaries' = canaries
      BY <2>2 DEF RouterStep, ProbeStep, TimesOut, Die, Admit, NotAdmitted, Unavailable,
         AskProbe, NoActiveProbe, Record, ProbeInconclusive, Recorded, RecordFails,
         ServiceAnswers, ServiceFails, ProbeAdmitted, TakeTicket, SayCanary, ReadReply, SkipPage, End,
         room, backend
    <2>3. ASSUME Answer \/ (\E c \in posts : Store(c) \/ Lose(c)) \/ UNCHANGED vars
          PROVE  asked' = asked /\ canaries \subseteq canaries'
      BY <2>3 DEF Answer, Store, Lose, vars, room, backend
    <2> QED
      BY <2>1, <2>2, <2>3 DEF Next
  <1>3. replies' = replies \/ \E m \in Reply : replies' = Append(replies, m)
    <2>1. ASSUME NEW k \in Turns, NEW o \in Orders, Mint(k, o)
          PROVE  replies' = replies
      BY <2>1 DEF Mint, room
    <2>2. ASSUME NEW k \in Turns, RouterStep(k) \/ ProbeStep(k) \/ TimesOut(k) \/ Die(k)
          PROVE  replies' = replies
      BY <2>2 DEF RouterStep, ProbeStep, TimesOut, Die, Admit, NotAdmitted, Unavailable,
         AskProbe, NoActiveProbe, Record, ProbeInconclusive, Recorded, RecordFails,
         ServiceAnswers, ServiceFails, ProbeAdmitted, TakeTicket, SayCanary, ReadReply, SkipPage, End, room
    <2>3. CASE Answer
      BY <2>3 DEF Answer
    <2>4. ASSUME (\E c \in posts : Store(c) \/ Lose(c)) \/ UNCHANGED vars
          PROVE  replies' = replies
      BY <2>4 DEF Store, Lose, vars, room
    <2> QED
      BY <2>1, <2>2, <2>3, <2>4 DEF Next
  <1>4. \A i \in 1..Len(replies) : i \in 1..Len(replies') /\ replies'[i] = replies[i]
    <2>1. replies \in Seq(Reply) /\ Len(replies) \in Nat
      BY DEF TypeOK
    <2> QED
      BY <1>3, <2>1
  <1> QED
    BY <1>1, <1>2, <1>4

\* What was heard stays heard.
LEMMA HeardStays ==
  ASSUME TypeOK, Places, [Next]_vars, NEW m, NEW k \in Turns, Heard(m, k), order[k] # NoOrder
  PROVE  Heard(m, k)'
  <1>1. order'[k] = order[k]
    BY Frame
  <1>2. PICK i \in 1..Len(replies) : replies[i] = m
    BY DEF Heard
  <1>3. i \in 1..Len(replies') /\ replies'[i] = m
    BY <1>2, Frame
  <1> QED
    BY <1>1, <1>3 DEF Heard, target
-----------------------------------------------------------------------------
(* The inductive invariant.                                                *)

LEMMA InitInv == Init => IInv
  <1> SUFFICES ASSUME Init PROVE IInv
    OBVIOUS
  <1>1. TypeOK
    BY InitTyped
  <1>2. Places /\ GrantsBegun /\ RepliesHeard /\ PostsHeard /\ FreshStored /\ FreshIsCounted
    BY DEF Init, Places, GrantsBegun, RepliesHeard, PostsHeard, FreshStored, FreshIsCounted
  <1>3. TicketsAreSpent
    <2>1. Holders = {}
      BY DEF Init, Holders, HoldsTicket
    <2>2. [k \in Holders |-> NoReply] \in [Holders -> granted]
      BY <2>1
    <2> QED
      BY <2>1, <2>2 DEF TicketsAreSpent
  <1> QED
    BY <1>1, <1>2, <1>3 DEF IInv

LEMMA PlacesStep ==
  ASSUME TypeOK, Places, [Next]_vars
  PROVE  Places'
  <1> USE DEF Places, TypeOK
  <1>1. ASSUME NEW k \in Turns, NEW o \in Orders, Mint(k, o)
        PROVE  Places'
    BY <1>1, TurnAssumption DEF Mint, room
  <1>2. ASSUME NEW k \in Turns, Admit(k) \/ AskProbe(k)
        PROVE  Places'
    BY <1>2 DEF Admit, AskProbe, canActivelyProbe, room
  <1>3. ASSUME NEW k \in Turns, NEW status, NEW state, NEW seen, End(k, status, state, seen),
               Live(k)
        PROVE  Places'
    BY <1>3 DEF End, LeaveProbe, HoldsTicket, room, Live, Waiting
  <1>4. ASSUME NEW k \in Turns,
               NotAdmitted(k) \/ Unavailable(k) \/ ServiceAnswers(k) \/ ServiceFails(k)
                 \/ TimesOut(k)
        PROVE  Places'
    BY <1>3, <1>4 DEF NotAdmitted, Unavailable, ServiceAnswers, ServiceFails, TimesOut, Live, Waiting
  <1>5. ASSUME NEW k \in Turns, NoActiveProbe(k)
        PROVE  Places'
    BY <1>5 DEF NoActiveProbe, CallService, room
  <1>6. ASSUME NEW k \in Turns, Record(k)
        PROVE  Places'
    BY <1>6 DEF Record, room
  <1>7. ASSUME NEW k \in Turns, ProbeInconclusive(k)
        PROVE  Places'
    BY <1>7 DEF ProbeInconclusive, LeaveProbe, HoldsTicket, CallService, room
  <1>8. ASSUME NEW k \in Turns, Recorded(k) \/ RecordFails(k)
        PROVE  Places'
    BY <1>8 DEF Recorded, RecordFails, CallService, room
  <1>9. ASSUME NEW k \in Turns, ProbeAdmitted(k) \/ TakeTicket(k)
        PROVE  Places'
    BY <1>9 DEF ProbeAdmitted, TakeTicket, room
  <1>10. ASSUME NEW k \in Turns, SayCanary(k)
         PROVE  Places'
    BY <1>10 DEF SayCanary, HoldsTicket
  <1>11. ASSUME NEW k \in Turns, ReadReply(k) \/ SkipPage(k)
         PROVE  Places'
    BY <1>11 DEF ReadReply, SkipPage, room
  <1>12. ASSUME NEW k \in Turns, Die(k)
         PROVE  Places'
    BY <1>12 DEF Die, Live, Waiting, room
  <1>13. ASSUME Answer \/ (\E c \in posts : Store(c) \/ Lose(c)) \/ UNCHANGED vars
         PROVE  Places'
    BY <1>13 DEF Answer, Store, Lose, vars, turn, room
  <1> QED
    BY <1>1, <1>2, <1>4, <1>5, <1>6, <1>7, <1>8, <1>9, <1>10, <1>11, <1>12, <1>13
       DEF Next, RouterStep, ProbeStep

\* Steps that neither mint nor use a grant leave the grant table alone.
LEMMA StoreStep ==
  ASSUME [Next]_vars
  PROVE  \/ \E k \in Turns, o \in Orders : Mint(k, o)
         \/ /\ granted' = granted
            /\ \E k \in Turns :
                 \/ phase[k] = "minted" /\ Admit(k) /\ tryConsume("router-exec", target(k))
                 \/ AskProbe(k) /\ tryConsume("router-probe", target(k))
                 \/ ProbeAdmitted(k) /\ tryConsume("probe-exec", target(k))
                 \/ TakeTicket(k) /\ tryConsume("probe-target", target(k))
         \/ UNCHANGED store
  <1>1. ASSUME NEW k \in Turns, RouterStep(k) \/ ProbeStep(k) \/ TimesOut(k) \/ Die(k),
               ~ Admit(k), ~ AskProbe(k), ~ ProbeAdmitted(k), ~ TakeTicket(k)
        PROVE  UNCHANGED store
    BY <1>1 DEF RouterStep, ProbeStep, TimesOut, Die, NotAdmitted, Unavailable, NoActiveProbe,
       Record, ProbeInconclusive, Recorded, RecordFails, ServiceAnswers, ServiceFails,
       SayCanary, ReadReply, SkipPage, End
  <1>2. ASSUME Answer \/ (\E c \in posts : Store(c) \/ Lose(c)) \/ UNCHANGED vars
        PROVE  UNCHANGED store
    BY <1>2 DEF Answer, Store, Lose, vars, store
  <1>3. \A k \in Turns :
          /\ Admit(k) => phase[k] = "minted" /\ tryConsume("router-exec", target(k)) /\ granted' = granted
          /\ AskProbe(k) => tryConsume("router-probe", target(k)) /\ granted' = granted
          /\ ProbeAdmitted(k) => tryConsume("probe-exec", target(k)) /\ granted' = granted
          /\ TakeTicket(k) => tryConsume("probe-target", target(k)) /\ granted' = granted
    BY DEF Admit, AskProbe, ProbeAdmitted, TakeTicket
  <1> QED
    BY <1>1, <1>2, <1>3 DEF Next

LEMMA GrantsBegunStep ==
  ASSUME TypeOK, Places, GrantsBegun, [Next]_vars
  PROVE  GrantsBegun'
  <1>1. ASSUME NEW k \in Turns, NEW o \in Orders, Mint(k, o)
        PROVE  GrantsBegun'
    <2>1. order' = [order EXCEPT ![k] = o] /\ o # NoOrder /\ used' = used
      BY <1>1, TurnAssumption DEF Mint
    <2>2. \A g \in granted' : g \in granted \/ g.attempt = k
      BY <1>1 DEF Mint, MintedFor
    <2>3. granted \subseteq granted'
      BY <1>1 DEF Mint
    <2>4. \A g \in Grant : g.attempt \in Turns
      BY DEF Grant
    <2> QED
      BY <2>1, <2>2, <2>3, <2>4 DEF GrantsBegun, TypeOK
  <1>2. ASSUME NEW kind, NEW seat, tryConsume(kind, seat), granted' = granted
        PROVE  GrantsBegun'
    <2>1. PICK g \in Usable(kind, seat) : used' = [used EXCEPT ![g] = @ + 1]
      BY <1>2 DEF tryConsume
    <2>2. g \in granted
      BY DEF Usable
    <2>3. \A h \in Grant : used'[h] > 0 => h \in granted
      BY <2>1, <2>2 DEF GrantsBegun, TypeOK
    <2>4. \A h \in Grant : h.attempt \in Turns
      BY DEF Grant
    <2> QED
      BY <1>2, <2>3, <2>4, Frame DEF GrantsBegun
  <1>3. CASE UNCHANGED store
    <2>1. \A h \in Grant : h.attempt \in Turns
      BY DEF Grant
    <2> QED
      BY <1>3, <2>1, Frame DEF GrantsBegun, store
  <1> QED
    BY <1>1, <1>2, <1>3, StoreStep

\* sendCanary takes only an acknowledgement from the target's own seat.
LEMMA RepliesHeardStep ==
  ASSUME TypeOK, Places, RepliesHeard, [Next]_vars
  PROVE  RepliesHeard'
  <1>1. ASSUME reply' = reply, \A j \in Turns : probe'[j] = "observed" => probe[j] = "observed"
        PROVE  RepliesHeard'
    <2>1. \A j \in Turns : probe[j] = "observed" => order[j] # NoOrder
      BY DEF Places
    <2>2. \A j \in Turns : probe[j] = "observed" => Heard(reply[j], j)'
      BY <1>1, <2>1, HeardStays DEF RepliesHeard
    <2> QED
      BY <1>1, <2>2 DEF RepliesHeard
  <1>2. ASSUME NEW k \in Turns, ReadReply(k)
        PROVE  RepliesHeard'
    <2>1. PICK i \in Matches(k) : reply' = [reply EXCEPT ![k] = replies[i]]
      BY <1>2 DEF ReadReply
    <2>2. i \in 1..Len(replies) /\ replies[i] \in Reply
      BY DEF Matches, Page, TypeOK
    <2>3. replies[i].from = target(k) /\ replies[i].nonce = k /\ replies[i].says # "other"
      BY <2>2 DEF Matches, Page, Acknowledges
    <2>4. Heard(replies[i], k)
      BY <2>2, <2>3 DEF Heard
    <2>5. order' = order /\ replies' = replies
      BY <1>2 DEF ReadReply, room
    <2>6. \A j \in Turns : j # k => reply'[j] = reply[j] /\ probe'[j] = probe[j]
      BY <1>2, <2>1 DEF ReadReply, TypeOK
    <2>7. reply'[k] = replies[i]
      BY <2>1 DEF TypeOK
    <2> QED
      BY <2>4, <2>5, <2>6, <2>7 DEF RepliesHeard, Heard, target
  <1>3. ASSUME NEW k \in Turns, NEW o \in Orders, Mint(k, o)
        PROVE  reply' = reply /\ probe' = probe
    BY <1>3 DEF Mint
  <1>4. ASSUME NEW k \in Turns, RouterStep(k) \/ ProbeStep(k) \/ TimesOut(k) \/ Die(k),
               ~ ReadReply(k)
        PROVE  reply' = reply /\ \A j \in Turns : probe'[j] = "observed" => probe[j] = "observed"
    BY <1>4 DEF RouterStep, ProbeStep, TimesOut, Die, Admit, NotAdmitted, Unavailable,
       AskProbe, NoActiveProbe, Record, ProbeInconclusive, Recorded, RecordFails,
       ServiceAnswers, ServiceFails, ProbeAdmitted, TakeTicket, SayCanary, SkipPage, End,
       LeaveProbe, TypeOK
  <1>5. ASSUME Answer \/ (\E c \in posts : Store(c) \/ Lose(c)) \/ UNCHANGED vars
        PROVE  reply' = reply /\ probe' = probe
    BY <1>5 DEF Answer, Store, Lose, vars, turn
  <1> QED
    BY <1>1, <1>2, <1>3, <1>4, <1>5 DEF Next

\* Only such acknowledgements are sent, and only what was sent is stored.
LEMMA PostsHeardStep ==
  ASSUME TypeOK, Places, RepliesHeard, PostsHeard, [Next]_vars
  PROVE  PostsHeard'
  <1>1. \A c \in posts \cup canaries :
          /\ c.probe \in asked' /\ c.provider = target(c.probe)' /\ Heard(c.output, c.probe)'
    <2>1. ASSUME NEW c \in posts \cup canaries
          PROVE  /\ c.probe \in asked' /\ c.provider = target(c.probe)'
                 /\ Heard(c.output, c.probe)'
      <3>1. /\ c.probe \in asked /\ c.provider = target(c.probe) /\ Heard(c.output, c.probe)
            /\ c.probe \in Turns
        BY DEF PostsHeard, TypeOK
      <3>2. order[c.probe] # NoOrder
        BY <3>1 DEF Places, TypeOK
      <3>3. order'[c.probe] = order[c.probe] /\ c.probe \in asked'
        BY <3>1, <3>2, Frame
      <3> QED
        BY <3>1, <3>2, <3>3, HeardStays DEF target
    <2> QED
      BY <2>1
  <1>2. CASE posts' \cup canaries' \subseteq posts \cup canaries
    BY <1>1, <1>2 DEF PostsHeard
  <1>3. ASSUME NEW k \in Turns, Record(k)
        PROVE  PostsHeard'
    <2>1. PICK c : c = [probe |-> k, provider |-> target(k), output |-> reply[k]]
      OBVIOUS
    <2>2. posts' = posts \cup {c} /\ canaries' = canaries
      BY <1>3, <2>1 DEF Record
    <2>3. k \in asked /\ order[k] # NoOrder /\ Heard(c.output, k)
      BY <1>3, <2>1 DEF Record, Places, RepliesHeard
    <2>4. k \in asked' /\ order'[k] = order[k] /\ Heard(c.output, k)'
      BY <2>3, Frame, HeardStays
    <2>5. c.probe \in asked' /\ c.provider = target(c.probe)' /\ Heard(c.output, c.probe)'
      BY <2>1, <2>4 DEF target
    <2> QED
      BY <1>1, <2>2, <2>5 DEF PostsHeard
  <1>4. ASSUME NEW k \in Turns, NEW o \in Orders, Mint(k, o)
        PROVE  posts' = posts /\ canaries' = canaries
    BY <1>4 DEF Mint, backend
  <1>5. ASSUME NEW k \in Turns, RouterStep(k) \/ ProbeStep(k) \/ TimesOut(k) \/ Die(k),
               ~ Record(k)
        PROVE  posts' = posts /\ canaries' = canaries
    BY <1>5 DEF RouterStep, ProbeStep, TimesOut, Die, Admit, NotAdmitted, Unavailable,
       AskProbe, NoActiveProbe, ProbeInconclusive, Recorded, RecordFails, ServiceAnswers,
       ServiceFails, ProbeAdmitted, TakeTicket, SayCanary, ReadReply, SkipPage, End, backend
  <1>6. ASSUME Answer \/ (\E c \in posts : Store(c) \/ Lose(c)) \/ UNCHANGED vars
        PROVE  posts' \cup canaries' \subseteq posts \cup canaries
    BY <1>6 DEF Answer, Store, Lose, vars, backend
  <1> QED
    BY <1>2, <1>3, <1>4, <1>5, <1>6 DEF Next

\* Steps that leave what a turn knows of its canary, or make it know less.
LEMMA FreshStep ==
  ASSUME TypeOK, [Next]_vars
  PROVE  \A j \in Turns : fresh'[j] \in {"PASS", "FAIL"} =>
           fresh'[j] = fresh[j] \/ \E c \in canaries : c.probe = j /\ fresh'[j] = verdict(c)
                                                     /\ phase[j] = "await_record"
  <1>1. ASSUME NEW k \in Turns, NEW o \in Orders, Mint(k, o)
        PROVE  fresh' = fresh
    BY <1>1 DEF Mint
  <1>2. ASSUME NEW k \in Turns, RouterStep(k) \/ ProbeStep(k) \/ TimesOut(k) \/ Die(k),
               ~ NoActiveProbe(k), ~ ProbeInconclusive(k), ~ Recorded(k), ~ RecordFails(k)
        PROVE  fresh' = fresh
    BY <1>2 DEF RouterStep, ProbeStep, TimesOut, Die, Admit, NotAdmitted, Unavailable,
       AskProbe, Record, ServiceAnswers, ServiceFails, ProbeAdmitted, TakeTicket, SayCanary, ReadReply,
       SkipPage, End
  <1>3. ASSUME NEW k \in Turns, NoActiveProbe(k) \/ ProbeInconclusive(k) \/ RecordFails(k),
               NEW j \in Turns, fresh'[j] \in {"PASS", "FAIL"}
        PROVE  fresh'[j] = fresh[j]
    BY <1>3 DEF NoActiveProbe, ProbeInconclusive, RecordFails, CallService, TypeOK
  <1>4. ASSUME NEW k \in Turns, Recorded(k), NEW j \in Turns
        PROVE  fresh'[j] = fresh[j] \/ \E c \in canaries : c.probe = j /\ fresh'[j] = verdict(c)
                                                        /\ phase[j] = "await_record"
    BY <1>4 DEF Recorded, CallService, TypeOK
  <1>5. ASSUME Answer \/ (\E c \in posts : Store(c) \/ Lose(c)) \/ UNCHANGED vars
        PROVE  fresh' = fresh
    BY <1>5 DEF Answer, Store, Lose, vars, turn
  <1> QED
    BY <1>1, <1>2, <1>3, <1>4, <1>5 DEF Next

LEMMA FreshStoredStep ==
  ASSUME TypeOK, Places, PostsHeard, FreshStored, [Next]_vars
  PROVE  FreshStored'
  <1> SUFFICES ASSUME NEW k \in Turns, fresh'[k] \in {"PASS", "FAIL"}
               PROVE  \E c \in canaries' : c.probe = k /\ c.provider = target(k)'
                                           /\ verdict(c)' = fresh'[k]
    BY DEF FreshStored
  <1>1. PICK c \in canaries : c.probe = k /\ c.provider = target(k) /\ verdict(c) = fresh'[k]
    <2>1. CASE fresh'[k] = fresh[k]
      BY <2>1 DEF FreshStored
    <2>2. ASSUME NEW c \in canaries, c.probe = k, fresh'[k] = verdict(c)
          PROVE  c.provider = target(k)
      BY <2>2 DEF PostsHeard
    <2> QED
      BY <2>1, <2>2, FreshStep
  <1>2. order[k] # NoOrder
    BY <1>1 DEF PostsHeard, Places, TypeOK
  <1>3. order'[k] = order[k] /\ c \in canaries'
    BY <1>2, Frame
  <1> QED
    BY <1>1, <1>3 DEF target, verdict, Acknowledges

\* A fresh canary is reported by ServiceAnswers only, of what the snapshot counts.
LEMMA FreshIsCountedStep ==
  ASSUME TypeOK, Places, FreshStored, FreshIsCounted, [Next]_vars
  PROVE  FreshIsCounted'
  <1> DEFINE Says(j, state) == \E c \in result'[j].seen :
               c.probe = j /\ c.provider = target(j) /\ verdict(c) = state
  <1>1. ASSUME NEW j \in Turns, result'[j] = result[j], result[j] # NoResult,
               result[j].status = "succeeded", result[j].fresh \in {"PASS", "FAIL"}
        PROVE  Says(j, result'[j].fresh)
    BY <1>1 DEF FreshIsCounted
  <1>2. ASSUME NEW k \in Turns, NEW status, NEW seen, End(k, status, "none", seen),
               NEW j \in Turns, result'[j].fresh \in {"PASS", "FAIL"}
        PROVE  result'[j] = result[j]
    BY <1>2 DEF End, TypeOK
  <1>3. ASSUME NEW k \in Turns, NotAdmitted(k) \/ Unavailable(k) \/ ServiceFails(k) \/ TimesOut(k),
               NEW j \in Turns, result'[j].fresh \in {"PASS", "FAIL"}
        PROVE  result'[j] = result[j]
    BY <1>2, <1>3 DEF NotAdmitted, Unavailable, ServiceFails, TimesOut
  <1>4. ASSUME NEW k \in Turns, ServiceAnswers(k), NEW j \in Turns,
               result'[j].fresh \in {"PASS", "FAIL"}
        PROVE  result'[j] = result[j] \/ (phase[j] # "none" /\ Says(j, result'[j].fresh))
    <2>1. CASE j # k
      BY <1>4, <2>1 DEF ServiceAnswers, End, TypeOK
    <2>2. CASE j = k
      <3> DEFINE counted == IF order[k].service = "trust_snapshot"
                            THEN {c \in canaries : c.provider = target(k)} ELSE {}
      <3>1. result'[k] = [status |-> "succeeded", fresh |-> fresh[k], seen |-> counted]
        BY <1>4 DEF ServiceAnswers, End, TypeOK
      <3>2. result'[k].fresh = fresh[k] /\ result'[k].seen = counted
        BY <3>1
      <3>3. order[k].service = "trust_snapshot"
        BY <1>4, <2>2, <3>2 DEF Places
      <3>4. PICK c \in canaries : c.probe = k /\ c.provider = target(k) /\ verdict(c) = fresh[k]
        BY <1>4, <2>2, <3>2 DEF FreshStored
      <3>5. c \in counted
        BY <3>3, <3>4
      <3>6. phase[k] # "none"
        BY <1>4 DEF ServiceAnswers
      <3> QED
        BY <2>2, <3>2, <3>4, <3>5, <3>6
    <2> QED
      BY <2>1, <2>2
  <1>5. ASSUME NEW k \in Turns, RouterStep(k) \/ ProbeStep(k) \/ Die(k),
               ~ NotAdmitted(k), ~ Unavailable(k), ~ ServiceFails(k), ~ ServiceAnswers(k)
        PROVE  result' = result
    BY <1>5 DEF RouterStep, ProbeStep, Die, Admit, AskProbe, NoActiveProbe, Record,
       ProbeInconclusive, Recorded, RecordFails, ProbeAdmitted, TakeTicket, SayCanary, ReadReply, SkipPage
  <1>6. ASSUME NEW k \in Turns, NEW o \in Orders, Mint(k, o)
        PROVE  result' = result
    BY <1>6 DEF Mint
  <1>7. ASSUME Answer \/ (\E c \in posts : Store(c) \/ Lose(c)) \/ UNCHANGED vars
        PROVE  result' = result
    BY <1>7 DEF Answer, Store, Lose, vars, turn
  <1>8. ASSUME NEW j \in Turns, result'[j].fresh \in {"PASS", "FAIL"}
        PROVE  result'[j] = result[j] \/ (phase[j] # "none" /\ Says(j, result'[j].fresh))
    <2> HIDE DEF Says
    <2> QED
      BY <1>3, <1>4, <1>5, <1>6, <1>7, <1>8 DEF Next
  <1>9. \A j \in Turns : /\ phase[j] = "none" => result[j] = NoResult
                         /\ phase[j] # "none" => order[j] # NoOrder
    BY DEF Places
  <1>10. ASSUME NEW j \in Turns, Says(j, result'[j].fresh), order[j] # NoOrder
         PROVE  \E c \in result'[j].seen :
                  c.probe = j /\ c.provider = target(j)' /\ verdict(c)' = result'[j].fresh
    <2>1. order'[j] = order[j]
      BY <1>10, Frame
    <2> QED
      BY <1>10, <2>1 DEF target, verdict, Acknowledges
  <1>11. ASSUME NEW j \in Turns, result'[j] # NoResult, result'[j].status = "succeeded",
                result'[j].fresh \in {"PASS", "FAIL"}
         PROVE  Says(j, result'[j].fresh) /\ order[j] # NoOrder
    <2> HIDE DEF Says
    <2> QED
      BY <1>1, <1>8, <1>9, <1>11
  <1> QED
    <2> HIDE DEF Says
    <2> QED
      BY <1>10, <1>11 DEF FreshIsCounted
-----------------------------------------------------------------------------
(* Tickets.                                                                *)

\* A use of one unspent grant that fits.
LEMMA Consumes ==
  ASSUME TypeOK, NEW kind, NEW seat, tryConsume(kind, seat)
  PROVE  \E g \in Usable(kind, seat) :
           /\ used[g] = 0 /\ used'[g] > 0
           /\ \A h \in Grant : used[h] > 0 => used'[h] > 0
           /\ \A h \in Grant : h # g => used'[h] = used[h]
  <1>1. PICK g \in Usable(kind, seat) : used' = [used EXCEPT ![g] = @ + 1]
    BY DEF tryConsume
  <1>2. g \in Grant /\ used[g] = 0
    BY DEF Usable, TypeOK
  <1> QED
    BY <1>1, <1>2 DEF TypeOK

\* Nobody comes to hold a ticket but by taking one.
LEMMA HoldersStep ==
  ASSUME TypeOK, Places, [Next]_vars, ~ \E k \in Turns : TakeTicket(k)
  PROVE  Holders' \subseteq Holders
  <1>1. ASSUME asked' = asked, \A j \in Turns : HoldsTicket(j)' => HoldsTicket(j)
        PROVE  Holders' \subseteq Holders
    BY <1>1 DEF Holders
  <1>2. ASSUME NEW k \in Turns, SayCanary(k)
        PROVE  Holders' \subseteq Holders
    BY <1>2 DEF SayCanary, Holders, HoldsTicket, TypeOK
  <1>3. ASSUME NEW k \in Turns, NEW o \in Orders, Mint(k, o)
        PROVE  Holders' \subseteq Holders
    BY <1>1, <1>3 DEF Mint, HoldsTicket, room
  <1>4. ASSUME NEW k \in Turns, RouterStep(k) \/ ProbeStep(k) \/ TimesOut(k) \/ Die(k),
               ~ SayCanary(k), ~ TakeTicket(k)
        PROVE  asked' = asked /\ \A j \in Turns : HoldsTicket(j)' => HoldsTicket(j)
    BY <1>4 DEF RouterStep, ProbeStep, TimesOut, Die, Admit, NotAdmitted, Unavailable,
       AskProbe, NoActiveProbe, Record, ProbeInconclusive, Recorded, RecordFails,
       ServiceAnswers, ServiceFails, ProbeAdmitted, ReadReply, SkipPage, End, LeaveProbe,
       HoldsTicket, room, TypeOK
  <1>5. ASSUME Answer \/ (\E c \in posts : Store(c) \/ Lose(c)) \/ UNCHANGED vars
        PROVE  asked' = asked /\ probe' = probe
    BY <1>5 DEF Answer, Store, Lose, vars, turn, room
  <1>6. CASE Answer \/ (\E c \in posts : Store(c) \/ Lose(c)) \/ UNCHANGED vars
    BY <1>1, <1>5, <1>6 DEF HoldsTicket
  <1> QED
    BY <1>1, <1>2, <1>3, <1>4, <1>6 DEF Next

\* A turn asks once: who has asked holds no ticket any more.
LEMMA AskedHoldNone ==
  ASSUME TypeOK, Places, [Next]_vars
  PROVE  \A k \in asked : ~ HoldsTicket(k)'
  <1>1. \A k \in asked' : k \in Turns => ~ HoldsTicket(k)'
    BY PlacesStep DEF Places, HoldsTicket
  <1> QED
    BY <1>1, Frame DEF TypeOK

\* A ticket is unspent when it is taken, so the tickets spent go round.
LEMMA TicketsStep ==
  ASSUME TypeOK, Places, GrantsBegun, TicketsAreSpent, [Next]_vars
  PROVE  TicketsAreSpent'
  <1>1. PICK f \in [Holders -> granted] :
          /\ \A k \in Holders : /\ f[k].kind = "probe-target"
                               /\ target(f[k].attempt) = target(k) /\ used[f[k]] > 0
          /\ \A j, k \in Holders : f[j] = f[k] => j = k
    BY DEF TicketsAreSpent
  <1>2. \A g \in granted : g \in Grant /\ g.attempt \in Turns /\ target(g.attempt)' = target(g.attempt)
    <2>1. \A g \in granted : g \in Grant /\ g.attempt \in Turns /\ order[g.attempt] # NoOrder
      BY DEF GrantsBegun, TypeOK, Grant
    <2> QED
      BY <2>1, Frame DEF target
  <1>3. \A k \in Holders : k \in Turns /\ target(k)' = target(k)
    <2>1. \A k \in Holders : k \in Turns /\ order[k] # NoOrder
      BY DEF Holders, HoldsTicket, Places, TypeOK
    <2> QED
      BY <2>1, Frame DEF target
  <1>4. ASSUME Holders' \subseteq Holders, \A g \in granted : used[g] > 0 => used'[g] > 0
        PROVE  TicketsAreSpent'
    <2>1. PICK h \in [Holders' -> granted'] : \A k \in Holders' : h[k] = f[k]
      <3>1. [k \in Holders' |-> f[k]] \in [Holders' -> granted']
        BY <1>1, <1>4, Frame
      <3> QED
        BY <3>1
    <2>2. \A k \in Holders : f[k] \in granted /\ used'[f[k]] > 0
      BY <1>1, <1>4
    <2> QED
      BY <1>1, <1>2, <1>3, <1>4, <2>1, <2>2 DEF TicketsAreSpent
  <1>5. ASSUME NEW k \in Turns, NEW kind, tryConsume(kind, target(k)), Holders' \subseteq Holders
        PROVE  TicketsAreSpent'
    BY <1>2, <1>4, <1>5, Consumes
  <1>6. ASSUME NEW k \in Turns, TakeTicket(k)
        PROVE  TicketsAreSpent'
    <2>1. PICK g \in Usable("probe-target", target(k)) :
            /\ \A h \in Grant : used[h] > 0 => used'[h] > 0
            /\ used[g] = 0 /\ used'[g] > 0
      BY <1>6, Consumes DEF TakeTicket
    <2>2. g \in granted /\ g.kind = "probe-target" /\ target(g.attempt) = target(k)
      BY DEF Usable, Covers
    <2>3. target(k)' = target(k)
      BY <1>6 DEF TakeTicket, target
    <2>4. Holders' = Holders \cup {k}
      BY <1>6 DEF TakeTicket, Holders, HoldsTicket, room, TypeOK
    <2>5. PICK h \in [Holders' -> granted'] : \A j \in Holders' : h[j] = IF j = k THEN g ELSE f[j]
      <3>1. [j \in Holders' |-> IF j = k THEN g ELSE f[j]] \in [Holders' -> granted']
        BY <1>1, <2>2, <2>4, Frame
      <3> QED
        BY <3>1
    <2>6. \A j \in Holders : f[j] # g /\ f[j] \in granted /\ used'[f[j]] > 0
      BY <1>1, <1>2, <2>1
    <2>7. ASSUME NEW j \in Holders'
          PROVE  /\ h[j].kind = "probe-target"
                 /\ target(h[j].attempt)' = target(j)' /\ used'[h[j]] > 0
      <3>1. CASE j = k
        <4>1. h[j] = g
          BY <2>5, <3>1
        <4> QED
          BY <1>2, <2>1, <2>2, <2>3, <3>1, <4>1
      <3>2. CASE j # k
        <4>1. j \in Holders /\ h[j] = f[j]
          BY <2>4, <2>5, <3>2
        <4>2. target(f[j].attempt)' = target(f[j].attempt)
          BY <1>2, <2>6, <4>1
        <4> QED
          BY <1>1, <1>3, <2>6, <4>1, <4>2
      <3> QED
        BY <3>1, <3>2
    <2>8. ASSUME NEW i \in Holders', NEW j \in Holders', h[i] = h[j]
          PROVE  i = j
      <3>1. /\ h[i] = IF i = k THEN g ELSE f[i]
            /\ h[j] = IF j = k THEN g ELSE f[j]
        BY <2>5
      <3>2. (i = k \/ i \in Holders) /\ (j = k \/ j \in Holders)
        BY <2>4
      <3> QED
        BY <1>1, <2>6, <2>8, <3>1, <3>2
    <2> QED
      BY <2>5, <2>7, <2>8 DEF TicketsAreSpent
  <1>7. ASSUME ~ \E k \in Turns : TakeTicket(k)
        PROVE  Holders' \subseteq Holders
    BY <1>7, HoldersStep
  <1>8. ASSUME NEW k \in Turns, Admit(k) \/ AskProbe(k) \/ ProbeAdmitted(k)
        PROVE  probe[k] = "off" /\ ~ \E j \in Turns : TakeTicket(j)
    BY <1>8 DEF Admit, AskProbe, ProbeAdmitted, TakeTicket, Places, TypeOK
  <1>9. ASSUME NEW k \in Turns, NEW o \in Orders, Mint(k, o)
        PROVE  used' = used /\ ~ \E j \in Turns : TakeTicket(j)
    BY <1>9, Consumes DEF Mint, TakeTicket
  <1>10. CASE UNCHANGED store /\ ~ \E k \in Turns : TakeTicket(k)
    BY <1>4, <1>7, <1>10 DEF store
  <1> QED
    BY <1>4, <1>5, <1>6, <1>7, <1>8, <1>9, <1>10, StoreStep

\* Only a new turn joins those that have still to spend a grant; spending one leaves them.
LEMMA PendingShrinks ==
  ASSUME TypeOK, Places, [Next]_vars, NEW kind \in OneUse,
         ~ \E k \in Turns, o \in Orders : Mint(k, o)
  PROVE  Pending(kind)' \subseteq Pending(kind)
  <1>1. ASSUME NEW k \in Turns, Admit(k) \/ AskProbe(k) \/ ProbeAdmitted(k) \/ TakeTicket(k)
        PROVE  Pending(kind)' \subseteq Pending(kind)
    <2>1. order' = order
      BY <1>1 DEF Admit, AskProbe, ProbeAdmitted, TakeTicket
    <2>2. \A j \in Turns : j # k => phase'[j] = phase[j] /\ probe'[j] = probe[j]
      BY <1>1 DEF Admit, AskProbe, ProbeAdmitted, TakeTicket, TypeOK
    <2>3. \/ phase[k] = "minted" /\ phase'[k] = "start"
          \/ phase[k] = "start" /\ phase'[k] = "await_probe"
          \/ phase[k] = "await_probe" /\ phase'[k] = "await_probe" /\ probe[k] = "off" /\ probe'[k] = "open"
          \/ phase'[k] = "await_probe" /\ probe'[k] \notin {"off", "open"}
      BY <1>1 DEF Admit, AskProbe, ProbeAdmitted, TakeTicket, TypeOK, Places
    <2>4. k \in Pending(kind)' => k \in Pending(kind)
      BY <2>1, <2>3 DEF Pending, OneUse
    <2> QED
      BY <2>1, <2>2, <2>4 DEF Pending
  <1>2. ASSUME order' = order,
               \A j \in Turns : /\ phase'[j] = phase[j] \/ phase'[j] \notin {"minted", "start", "await_probe"}
                                /\ probe'[j] = probe[j] \/ probe'[j] \notin {"off", "open"}
        PROVE  Pending(kind)' \subseteq Pending(kind)
    BY <1>2 DEF Pending
  <1>3. CASE Answer \/ (\E c \in posts : Store(c) \/ Lose(c)) \/ UNCHANGED vars
    <2>1. order' = order /\ phase' = phase /\ probe' = probe
      BY <1>3 DEF Answer, Store, Lose, vars, turn
    <2> QED
      BY <2>1 DEF Pending
  <1>4. ASSUME NEW k \in Turns, RouterStep(k) \/ ProbeStep(k) \/ TimesOut(k) \/ Die(k)
        PROVE  Pending(kind)' \subseteq Pending(kind)
    <2>1. CASE Admit(k) \/ AskProbe(k) \/ ProbeAdmitted(k) \/ TakeTicket(k)
      BY <1>1, <2>1
    <2>2. CASE ~ Admit(k) /\ ~ AskProbe(k) /\ ~ ProbeAdmitted(k) /\ ~ TakeTicket(k)
      <3>1. /\ order' = order
            /\ \A j \in Turns :
                 /\ phase'[j] = phase[j] \/ phase'[j] \notin {"minted", "start", "await_probe"}
                 /\ probe'[j] = probe[j] \/ probe'[j] \notin {"off", "open"}
        BY <1>4, <2>2 DEF RouterStep, ProbeStep, TimesOut, Die, NotAdmitted, Unavailable,
           NoActiveProbe, Record, ProbeInconclusive, Recorded, RecordFails, ServiceAnswers,
           ServiceFails, SayCanary, ReadReply, SkipPage, End, LeaveProbe, CallService, TypeOK
      <3> QED
        BY <1>2, <3>1
    <2> QED
      BY <2>1, <2>2
  <1> QED
    BY <1>3, <1>4 DEF Next

\* Begun turns and the attempts of grants keep their targets.
LEMMA TargetsStay ==
  ASSUME TypeOK, Places, GrantsBegun, [Next]_vars
  PROVE  /\ \A kind \in OneUse : \A k \in Pending(kind) : target(k)' = target(k)
         /\ \A g \in granted : target(g.attempt)' = target(g.attempt)
  <1>1. \A kind \in OneUse : \A k \in Pending(kind) : k \in Turns /\ order[k] # NoOrder
    BY DEF Pending, Places
  <1>2. \A g \in granted : g.attempt \in Turns /\ order[g.attempt] # NoOrder
    BY DEF GrantsBegun, TypeOK, Grant
  <1> QED
    BY <1>1, <1>2, Frame DEF target

\* Nobody who has to spend a grant of a kind comes or goes but by leaving.
LEMMA BackedKept ==
  ASSUME TypeOK, Places, GrantsBegun, [Next]_vars, NEW kind \in OneUse, Backed(kind),
         Pending(kind)' \subseteq Pending(kind),
         \A g \in granted : g.kind = kind => used'[g] = used[g]
  PROVE  Backed(kind)'
  <1>1. PICK f \in [Pending(kind) -> granted] :
          /\ \A k \in Pending(kind) : Covers(f[k], kind, target(k)) /\ used[f[k]] = 0
          /\ \A j, k \in Pending(kind) : f[j] = f[k] => j = k
    BY DEF Backed
  <1>2. PICK h \in [Pending(kind)' -> granted'] : \A k \in Pending(kind)' : h[k] = f[k]
    <2>1. [k \in Pending(kind)' |-> f[k]] \in [Pending(kind)' -> granted']
      BY <1>1, Frame
    <2> QED
      BY <2>1
  <1>3. ASSUME NEW k \in Pending(kind)'
        PROVE  Covers(h[k], kind, target(k))' /\ used'[h[k]] = 0
    <2>1. k \in Pending(kind) /\ h[k] = f[k] /\ f[k] \in granted
      BY <1>1, <1>2, <1>3
    <2>2. target(k)' = target(k) /\ target(f[k].attempt)' = target(f[k].attempt)
      BY <2>1, TargetsStay
    <2>3. Covers(f[k], kind, target(k)) /\ used[f[k]] = 0
      BY <1>1, <2>1
    <2> QED
      BY <2>1, <2>2, <2>3 DEF Covers
  <1>4. \A j, k \in Pending(kind)' : h[j] = h[k] => j = k
    BY <1>1, <1>2
  <1> QED
    BY <1>3, <1>4 DEF Backed

\* Whoever spends a grant takes its own or swaps with the turn it was set aside for.
LEMMA BackedSpent ==
  ASSUME TypeOK, Places, GrantsBegun, [Next]_vars, NEW kind \in OneUse, Backed(kind),
         NEW k \in Pending(kind), tryConsume(kind, target(k)),
         Pending(kind)' \subseteq Pending(kind) \ {k}
  PROVE  Backed(kind)'
  <1>1. PICK f \in [Pending(kind) -> granted] :
          /\ \A j \in Pending(kind) : Covers(f[j], kind, target(j)) /\ used[f[j]] = 0
          /\ \A i, j \in Pending(kind) : f[i] = f[j] => i = j
    BY DEF Backed
  <1>2. PICK g \in Usable(kind, target(k)) : \A h \in Grant : h # g => used'[h] = used[h]
    BY Consumes
  <1>3. g \in granted /\ Covers(g, kind, target(k))
    BY DEF Usable
  <1>4. PICK h \in [Pending(kind)' -> granted'] :
          \A j \in Pending(kind)' : h[j] = IF f[j] = g THEN f[k] ELSE f[j]
    <2>1. [j \in Pending(kind)' |-> IF f[j] = g THEN f[k] ELSE f[j]] \in [Pending(kind)' -> granted']
      BY <1>1, Frame
    <2> QED
      BY <2>1
  <1>5. ASSUME NEW j \in Pending(kind)'
        PROVE  /\ h[j] \in granted /\ h[j] # g
               /\ Covers(h[j], kind, target(j)) /\ used[h[j]] = 0
    <2>1. j \in Pending(kind) /\ j # k
      BY <1>5
    <2>2. CASE f[j] = g
      <3>1. h[j] = f[k] /\ f[k] # g
        BY <1>1, <1>4, <1>5, <2>1, <2>2
      <3>2. Covers(f[k], kind, target(j))
        BY <1>1, <1>3, <2>1, <2>2 DEF Covers
      <3> QED
        BY <1>1, <3>1, <3>2
    <2>3. CASE f[j] # g
      BY <1>1, <1>4, <1>5, <2>1, <2>3
    <2> QED
      BY <2>2, <2>3
  <1>6. ASSUME NEW j \in Pending(kind)'
        PROVE  Covers(h[j], kind, target(j))' /\ used'[h[j]] = 0
    <2>1. target(j)' = target(j) /\ target(h[j].attempt)' = target(h[j].attempt)
      BY <1>5, <1>6, TargetsStay
    <2>2. used'[h[j]] = used[h[j]]
      BY <1>2, <1>5, <1>6 DEF TypeOK
    <2> QED
      BY <1>5, <1>6, <2>1, <2>2 DEF Covers
  <1>7. \A i, j \in Pending(kind)' : h[i] = h[j] => i = j
    BY <1>1, <1>4
  <1> QED
    BY <1>6, <1>7 DEF Backed

\* What processRequest mints: a snapshot's turn gets one of each.
GivenAll ==
  \A o \in Orders :
    /\ "router-exec" \in o.grants
    /\ o.service = "trust_snapshot" => OneUse \subseteq o.grants

\* A new turn brings its own grants.
LEMMA BackedMinted ==
  ASSUME TypeOK, Places, GrantsBegun, GivenAll, NEW kind \in OneUse, Backed(kind),
         NEW k \in Turns, NEW o \in Orders, Mint(k, o), [Next]_vars
  PROVE  Backed(kind)'
  <1>1. PICK f \in [Pending(kind) -> granted] :
          /\ \A j \in Pending(kind) : Covers(f[j], kind, target(j)) /\ used[f[j]] = 0
          /\ \A i, j \in Pending(kind) : f[i] = f[j] => i = j
    BY DEF Backed
  <1>2. PICK g : g = [kind |-> kind, attempt |-> k]
    OBVIOUS
  <1>3. /\ used' = used /\ g \in Grant /\ g \notin granted /\ used[g] = 0
    <2>1. order[k] = NoOrder /\ used' = used
      BY DEF Mint, Places
    <2>2. g \in Grant
      BY <1>2 DEF Grant
    <2> QED
      BY <1>2, <2>1, <2>2 DEF GrantsBegun, TypeOK
  <1>4. \A j \in Pending(kind)' : j \in Pending(kind) \/ (j = k /\ g \in granted')
    <2>1. /\ order' = [order EXCEPT ![k] = o] /\ phase' = [phase EXCEPT ![k] = "minted"]
          /\ probe' = probe /\ granted' = granted \cup MintedFor(k, o)
      BY DEF Mint
    <2>2. ASSUME NEW j \in Pending(kind)', j # k
          PROVE  j \in Pending(kind)
      BY <2>1, <2>2 DEF Pending, TypeOK
    <2>3. ASSUME k \in Pending(kind)'
          PROVE  g \in granted'
      <3>1. order'[k] = o /\ phase'[k] = "minted"
        BY <2>1 DEF TypeOK
      <3>2. kind = "router-exec" \/ o.service = "trust_snapshot"
        BY <2>3, <3>1 DEF Pending
      <3>3. kind \in o.grants
        BY <3>2 DEF GivenAll
      <3> QED
        BY <1>2, <2>1, <3>3 DEF MintedFor
    <2> QED
      BY <2>2, <2>3
  <1>5. k \notin Pending(kind)
    BY DEF Mint, Pending
  <1>6. PICK h \in [Pending(kind)' -> granted'] :
          \A j \in Pending(kind)' : h[j] = IF j = k THEN g ELSE f[j]
    <2>1. [j \in Pending(kind)' |-> IF j = k THEN g ELSE f[j]] \in [Pending(kind)' -> granted']
      BY <1>1, <1>4, <1>5, Frame
    <2> QED
      BY <2>1
  <1>7. ASSUME NEW j \in Pending(kind)'
        PROVE  Covers(h[j], kind, target(j))' /\ used'[h[j]] = 0
    <2>1. CASE j = k
      <3>1. h[j] = g
        BY <1>6, <1>7, <2>1
      <3> QED
        BY <1>2, <1>3, <2>1, <3>1 DEF Covers
    <2>2. CASE j # k
      <3>1. j \in Pending(kind) /\ h[j] = f[j] /\ f[j] \in granted
        BY <1>1, <1>4, <1>6, <1>7, <2>2
      <3>2. target(j)' = target(j) /\ target(f[j].attempt)' = target(f[j].attempt)
        BY <3>1, TargetsStay
      <3>3. Covers(f[j], kind, target(j)) /\ used[f[j]] = 0
        BY <1>1, <3>1
      <3> QED
        BY <1>3, <3>1, <3>2, <3>3 DEF Covers
    <2> QED
      BY <2>1, <2>2
  <1>8. ASSUME NEW i \in Pending(kind)', NEW j \in Pending(kind)', h[i] = h[j]
        PROVE  i = j
    <2>1. \A l \in Pending(kind) : f[l] \in granted
      BY <1>1
    <2> QED
      BY <1>1, <1>3, <1>4, <1>6, <1>8, <2>1
  <1> QED
    BY <1>7, <1>8 DEF Backed

LEMMA BackedStep ==
  ASSUME TypeOK, Places, GrantsBegun, GivenAll, AllBacked, [Next]_vars
  PROVE  AllBacked'
  <1> SUFFICES ASSUME NEW kind \in OneUse PROVE Backed(kind)'
    BY DEF AllBacked
  <1>1. Backed(kind)
    BY DEF AllBacked
  <1>2. CASE \E k \in Turns, o \in Orders : Mint(k, o)
    BY <1>1, <1>2, BackedMinted
  <1>3. CASE ~ \E k \in Turns, o \in Orders : Mint(k, o)
    <2>1. Pending(kind)' \subseteq Pending(kind)
      BY <1>3, PendingShrinks
    <2>2. ASSUME NEW other \in OneUse, other # kind, NEW k \in Turns, tryConsume(other, target(k))
          PROVE  Backed(kind)'
      <3>1. \A g \in granted : g.kind = kind => used'[g] = used[g]
        BY <2>2, Consumes DEF Usable, Covers, TypeOK
      <3> QED
        BY <1>1, <2>1, <3>1, BackedKept
    <2>3. ASSUME NEW k \in Pending(kind), tryConsume(kind, target(k)), k \notin Pending(kind)'
          PROVE  Backed(kind)'
      BY <1>1, <2>1, <2>3, BackedSpent
    <2>4. CASE UNCHANGED store
      BY <1>1, <2>1, <2>4, BackedKept DEF store
    <2>5. ASSUME NEW k \in Turns, Admit(k)
          PROVE  Backed(kind)'
      <3>1. kind = "router-exec" => k \in Pending(kind) /\ k \notin Pending(kind)'
        BY <2>5 DEF Admit, Pending, TypeOK
      <3> QED
        BY <2>2, <2>3, <2>5, <3>1 DEF Admit, OneUse
    <2>6. ASSUME NEW k \in Turns, AskProbe(k)
          PROVE  Backed(kind)'
      <3>1. kind = "router-probe" => k \in Pending(kind) /\ k \notin Pending(kind)'
        BY <2>6 DEF AskProbe, canActivelyProbe, Pending, TypeOK, Places
      <3> QED
        BY <2>2, <2>3, <2>6, <3>1 DEF AskProbe, OneUse
    <2>7. ASSUME NEW k \in Turns, ProbeAdmitted(k)
          PROVE  Backed(kind)'
      <3>1. kind = "probe-exec" => k \in Pending(kind) /\ k \notin Pending(kind)'
        BY <2>7 DEF ProbeAdmitted, Pending, TypeOK, Places
      <3> QED
        BY <2>2, <2>3, <2>7, <3>1 DEF ProbeAdmitted, OneUse
    <2>8. ASSUME NEW k \in Turns, TakeTicket(k)
          PROVE  Backed(kind)'
      <3>1. kind = "probe-target" => k \in Pending(kind) /\ k \notin Pending(kind)'
        BY <2>8 DEF TakeTicket, Pending, TypeOK, Places
      <3> QED
        BY <2>2, <2>3, <2>8, <3>1 DEF TakeTicket, OneUse
    <2> QED
      BY <1>3, <2>4, <2>5, <2>6, <2>7, <2>8, StoreStep
  <1> QED
    BY <1>2, <1>3
-----------------------------------------------------------------------------
(* The theorems.                                                           *)

\* The invariant that all the others follow from.
THEOREM Inductive == Spec => []IInv
  <1>1. IInv /\ [Next]_vars => IInv'
    <2> SUFFICES ASSUME IInv, [Next]_vars PROVE IInv'
      OBVIOUS
    <2> USE DEF IInv
    <2>1. TypeOK' /\ Places'
      BY NextTyped, PlacesStep
    <2>2. GrantsBegun' /\ RepliesHeard' /\ PostsHeard'
      BY GrantsBegunStep, RepliesHeardStep, PostsHeardStep
    <2>3. FreshStored' /\ FreshIsCounted' /\ TicketsAreSpent'
      BY FreshStoredStep, FreshIsCountedStep, TicketsStep
    <2> QED
      BY <2>1, <2>2, <2>3
  <1> QED
    BY <1>1, InitInv, PTL DEF Spec

\* Every variable keeps its type, and no grant is used more than once.
THEOREM TypeCorrect == Spec => []TypeOK
  <1>1. IInv => TypeOK
    BY DEF IInv
  <1> QED
    BY <1>1, Inductive, PTL

\* Whatever sellers post and whenever the backend applies it: the evidence holds no canary
\* but those the named seller acknowledged in the Room.
THEOREM RecordsAreObserved == Spec => []RecordedIsObserved
  <1>1. IInv => RecordedIsObserved
    BY DEF IInv, PostsHeard, Heard, RecordedIsObserved
  <1> QED
    BY <1>1, Inductive, PTL

\* A fresh verdict a snapshot reports is among the canaries its counts were read from.
THEOREM FreshCanariesCount == Spec => []FreshIsCounted
  <1>1. IInv => FreshIsCounted
    BY DEF IInv
  <1> QED
    BY <1>1, Inductive, PTL

\* The sellers contacted never outnumber the one-use tickets spent on them, seat by seat.
THEOREM ContactsTicketed == Spec => []ContactsAreTicketed
  <1>1. IInv => ContactsAreTicketed
    <2> SUFFICES ASSUME IInv PROVE ContactsAreTicketed
      OBVIOUS
    <2>1. PICK f \in [Holders -> granted] :
            /\ \A k \in Holders : /\ f[k].kind = "probe-target"
                                 /\ target(f[k].attempt) = target(k) /\ used[f[k]] > 0
            /\ \A j, k \in Holders : f[j] = f[k] => j = k
      BY DEF IInv, TicketsAreSpent
    <2>2. asked \subseteq Holders
      BY DEF Holders
    <2>3. PICK h \in [asked -> granted] : \A k \in asked : h[k] = f[k]
      <3>1. [k \in asked |-> f[k]] \in [asked -> granted]
        BY <2>1, <2>2
      <3> QED
        BY <3>1
    <2> QED
      BY <2>1, <2>2, <2>3 DEF ContactsAreTicketed
  <1> QED
    BY <1>1, Inductive, PTL

\* When each order brings what its turn needs, no turn is ever denied for a grant that
\* another turn took.
THEOREM NobodyLacksAGrant ==
  ASSUME GivenAll
  PROVE  Spec => []NobodyIsShort
  <1>1. Init => AllBacked
    <2> SUFFICES ASSUME Init, NEW kind \in OneUse PROVE Backed(kind)
      BY DEF AllBacked
    <2>1. Pending(kind) = {}
      BY DEF Init, Pending
    <2>2. [k \in Pending(kind) |-> NoReply] \in [Pending(kind) -> granted]
      BY <2>1
    <2> QED
      BY <2>1, <2>2 DEF Backed
  <1>2. IInv /\ AllBacked /\ [Next]_vars => AllBacked'
    BY BackedStep, GivenAll DEF IInv
  <1>3. IInv /\ AllBacked => NobodyIsShort
    <2> SUFFICES ASSUME IInv, AllBacked, NEW k \in Turns, NEW kind \in OneUse, Needs(k, kind)
                 PROVE  Usable(kind, target(k)) # {}
      BY DEF NobodyIsShort
    <2>1. k \in Pending(kind)
      BY DEF Needs, Pending, IInv, Places
    <2>2. PICK f \in [Pending(kind) -> granted] :
            \A j \in Pending(kind) : Covers(f[j], kind, target(j)) /\ used[f[j]] = 0
      BY DEF AllBacked, Backed
    <2> QED
      BY <2>1, <2>2 DEF Usable
  <1> QED
    BY <1>1, <1>2, <1>3, Inductive, PTL DEF Spec

\* A turn that ended or died takes no ticket, sends the backend nothing, keeps its result,
\* and reaches a seller only with a canary whose ticket it had taken before.
THEOREM EndedStartNothing == Spec => EndedTurnsStartNothing
  <1>1. ASSUME IInv, Next, NEW k \in Turns, ~ Live(k), order[k] # NoOrder
        PROVE  /\ HoldsTicket(k)' => HoldsTicket(k)
               /\ k \in asked' => k \in asked \/ HoldsTicket(k)
               /\ \A c \in posts' : c.probe = k => c \in posts
               /\ result'[k] = result[k]
    <2>1. /\ phase[k] \in {"ended", "died"}
          /\ probe[k] \notin {"open", "ticketed", "polling", "observed", "failed"}
      BY <1>1 DEF IInv, TypeOK, Places, Live, Waiting
    <2>2. /\ Holders' \subseteq Holders \/ \E j \in Turns : TakeTicket(j)
          /\ \A j \in Turns : TakeTicket(j) => j # k /\ Holders' \subseteq Holders \cup {j}
      <3>1. \A j \in Turns : TakeTicket(j) => j # k /\ Holders' \subseteq Holders \cup {j}
        BY <2>1 DEF TakeTicket, Holders, HoldsTicket, room, IInv, TypeOK
      <3> QED
        BY <1>1, <3>1, HoldersStep DEF IInv
    <2>3. k \in Holders' => k \in Holders
      BY <2>2
    <2>4. k \in asked => ~ HoldsTicket(k)'
      BY <1>1, AskedHoldNone DEF IInv
    <2>5. /\ HoldsTicket(k)' => HoldsTicket(k)
          /\ k \in asked' => k \in asked \/ HoldsTicket(k)
      BY <2>3, <2>4 DEF Holders
    <2>6. ASSUME NEW j \in Turns, NEW o \in Orders, Mint(j, o)
          PROVE  posts' = posts /\ result' = result
      BY <2>6 DEF Mint, backend
    <2>7. ASSUME NEW j \in Turns, RouterStep(j) \/ ProbeStep(j) \/ TimesOut(j) \/ Die(j)
          PROVE  /\ posts' = posts \/ (phase[j] = "await_probe" /\ \A c \in posts' : c.probe = j \/ c \in posts)
                 /\ result' = result \/ (Live(j) /\ \A i \in Turns : i # j => result'[i] = result[i])
      <3>1. CASE Record(j)
        BY <3>1 DEF Record
      <3>2. ASSUME NEW status, NEW state, NEW seen, End(j, status, state, seen)
            PROVE  posts' = posts /\ \A i \in Turns : i # j => result'[i] = result[i]
        BY <3>2 DEF End, backend, IInv, TypeOK
      <3>3. CASE NotAdmitted(j) \/ Unavailable(j) \/ ServiceAnswers(j) \/ ServiceFails(j) \/ TimesOut(j)
        BY <3>2, <3>3 DEF NotAdmitted, Unavailable, ServiceAnswers, ServiceFails, TimesOut, Live,
           Waiting
      <3>4. CASE Admit(j) \/ AskProbe(j) \/ NoActiveProbe(j) \/ ProbeInconclusive(j)
                   \/ Recorded(j) \/ RecordFails(j)
        BY <3>4 DEF Admit, AskProbe, NoActiveProbe, ProbeInconclusive, Recorded, RecordFails,
           backend
      <3>5. CASE ProbeStep(j) \/ Die(j)
        BY <3>5 DEF ProbeStep, ProbeAdmitted, TakeTicket, SayCanary, ReadReply, SkipPage, Die,
           backend
      <3> QED
        BY <2>7, <3>1, <3>3, <3>4, <3>5 DEF RouterStep
    <2>8. ASSUME Answer \/ \E c \in posts : Store(c) \/ Lose(c)
          PROVE  posts' \subseteq posts /\ result' = result
      BY <2>8 DEF Answer, Store, Lose, backend, turn
    <2>9. ASSUME NEW j \in Turns, RouterStep(j) \/ ProbeStep(j) \/ TimesOut(j) \/ Die(j)
          PROVE  /\ \A c \in posts' : c.probe = k => c \in posts
                 /\ result'[k] = result[k]
      BY <1>1, <2>1, <2>7, <2>9
    <2> QED
      BY <1>1, <2>5, <2>6, <2>8, <2>9 DEF Next
  <1>2. IInv /\ [Next]_vars =>
          [\A k \in Turns : ~Live(k) /\ order[k] # NoOrder =>
             /\ HoldsTicket(k)' => HoldsTicket(k)
             /\ k \in asked' => k \in asked \/ HoldsTicket(k)
             /\ \A c \in posts' : c.probe = k => c \in posts
             /\ result'[k] = result[k]]_vars
    BY <1>1
  <1> QED
    BY <1>2, Inductive, PTL DEF Spec, EndedTurnsStartNothing
=============================================================================
