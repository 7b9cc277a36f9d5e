-------------------------- MODULE ArenaHostProofs --------------------------
(***************************************************************************)
(* What the launcher keeps true, for any number of launchers, seats and    *)
(* signals.                                                                *)
(***************************************************************************)
EXTENDS ArenaHost, TLAPS

\* There is no backend before Popen, and none runs after main() has ended.
BackendPlaced ==
  \A l \in Launchers :
    /\ phase[l] \in {"off", "refused", "whoami", "reach", "redeem", "popen"}
       => backend[l] = "none"
    /\ phase[l] = "ended" => ~Running(l)

\* Whoever goes on past `sharednet reach` has a seat, and that seat is public.
SeatPublic ==
  \A l \in Launchers :
    /\ phase[l] = "reach" => member[l] \in Seats
    /\ phase[l] \in {"redeem", "popen", "handlers"} \cup Handled => member[l] \in reachable

\* No watcher runs before its launcher has come past all of that.
WatcherPlaced ==
  \A l \in Launchers :
    phase[l] \in {"off", "refused"} \cup Bare \cup {"health", "ready"} => watcher[l] = "none"

IInv ==
  /\ TypeOK /\ BackendPlaced /\ SeatPublic /\ WatcherPlaced
  /\ WatchedIsReachable

LEMMA InitInv == ASSUME Init PROVE IInv
  BY HostAssumption
     DEF Init, sharednet, IInv, TypeOK, BackendPlaced, SeatPublic, WatcherPlaced,
         WatchedIsReachable, Running, Bare, Handled

\* What a step does to one launcher's phase does not touch the others; each conjunct is
\* about one launcher, its own processes and the seats made public, which only grow.
LEMMA StepInv == ASSUME IInv, [Next]_vars PROVE IInv'
  <1> USE HostAssumption
      DEF IInv, TypeOK, BackendPlaced, SeatPublic, WatcherPlaced, WatchedIsReachable,
          sharednet, GoTo, Bare, Handled, Running
  <1>1. CASE UNCHANGED vars
    BY <1>1 DEF vars
  <1>2. CASE SwitchSeat
    BY <1>2 DEF SwitchSeat
  <1>3. ASSUME NEW l \in Launchers, Launch(l) PROVE IInv'
    BY <1>3 DEF Launch
  <1>4. ASSUME NEW l \in Launchers, Whoami(l) PROVE IInv'
    BY <1>4 DEF Whoami
  <1>5. ASSUME NEW l \in Launchers, Reach(l) PROVE IInv'
    BY <1>5 DEF Reach
  <1>6. ASSUME NEW l \in Launchers, Redeem(l) PROVE IInv'
    BY <1>6 DEF Redeem
  <1>7. ASSUME NEW l \in Launchers, CommandFails(l) PROVE IInv'
    BY <1>7 DEF CommandFails
  <1>8. ASSUME NEW l \in Launchers, Popen(l) PROVE IInv'
    BY <1>8 DEF Popen
  <1>9. ASSUME NEW l \in Launchers, InstallHandlers(l) PROVE IInv'
    BY <1>9 DEF InstallHandlers
  <1>10. ASSUME NEW l \in Launchers, HealthOk(l) PROVE IInv'
    BY <1>10 DEF HealthOk
  <1>11. ASSUME NEW l \in Launchers, HealthFails(l) PROVE IInv'
    BY <1>11 DEF HealthFails
  <1>12. ASSUME NEW l \in Launchers, StartWatch(l) PROVE IInv'
    BY <1>12 DEF StartWatch
  <1>13. ASSUME NEW l \in Launchers, WatchReturns(l) PROVE IInv'
    BY <1>13 DEF WatchReturns
  <1>14. ASSUME NEW l \in Launchers, StopBackend(l) PROVE IInv'
    BY <1>14 DEF StopBackend, Stopped
  <1>15. ASSUME NEW l \in Launchers, BackendGone(l) PROVE IInv'
    BY <1>15 DEF BackendGone
  <1>16. ASSUME NEW l \in Launchers, WaitExpires(l) PROVE IInv'
    BY <1>16 DEF WaitExpires
  <1>17. ASSUME NEW l \in Launchers, Bind(l) PROVE IInv'
    BY <1>17 DEF Bind
  <1>18. ASSUME NEW l \in Launchers, BackendEnds(l) PROVE IInv'
    BY <1>18 DEF BackendEnds
  <1>19. ASSUME NEW l \in Launchers, WatcherEnds(l) PROVE IInv'
    BY <1>19 DEF WatcherEnds
  <1>20. ASSUME NEW l \in Launchers, Terminate(l) PROVE IInv'
    BY <1>20 DEF Terminate, Stopped
  <1>21. ASSUME NEW l \in Launchers, CtrlC(l) PROVE IInv'
    BY <1>21 DEF CtrlC, Stopped
  <1>22. ASSUME NEW l \in Launchers, Kill(l) PROVE IInv'
    BY <1>22 DEF Kill
  <1> QED
    BY <1>1, <1>2, <1>3, <1>4, <1>5, <1>6, <1>7, <1>8, <1>9, <1>10, <1>11, <1>12,
       <1>13, <1>14, <1>15, <1>16, <1>17, <1>18, <1>19, <1>20, <1>21, <1>22 DEF Next, Supervise

\* The inductive invariant of the launchers.
THEOREM Inductive == Spec => []IInv
  <1>1. Init => IInv
    BY InitInv
  <1>2. IInv /\ [Next]_vars => IInv'
    BY StepInv
  <1> QED
    BY <1>1, <1>2, PTL DEF Spec

\* Every variable of the launchers and their processes keeps to its type.
THEOREM TypeCorrect == Spec => []TypeOK
  <1>1. IInv => TypeOK
    BY DEF IInv
  <1> QED
    BY <1>1, Inductive, PTL

\* A launcher that comes to its own end leaves no backend running, whatever signals it got
\* and whatever hung: main() ends after stop_backend and a wait, or before Popen.
THEOREM NoneOrphaned == Spec => []NoOrphanBackend
  <1>1. IInv => NoOrphanBackend
    BY DEF IInv, BackendPlaced, NoOrphanBackend
  <1> QED
    BY <1>1, Inductive, PTL

\* Every seat that is watched was made public before, whatever seat the CLI selects by then.
THEOREM WatchedSeatsPublic == Spec => []WatchedIsReachable
  <1>1. IInv => WatchedIsReachable
    BY DEF IInv
  <1> QED
    BY <1>1, Inductive, PTL

\* Launchers that are started one after the other, none of them killed, never take the
\* backend of one for that of another: whoever has ended has left none on the port.
THEOREM OwnBackendsAnswer == Spec => []OwnBackendAnswers
  <1>1. IInv => OwnBackendAnswers
    BY DEF IInv, BackendPlaced, OwnBackendAnswers, Serving, Running
  <1> QED
    BY <1>1, Inductive, PTL
=============================================================================
