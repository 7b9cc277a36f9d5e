------------------------------ MODULE ArenaHost ------------------------------
(***************************************************************************)
(* scripts/arena_host.py on the machine it runs on: a launcher starts the  *)
(* private backend on the port, waits until /health answers there, runs    *)
(* sharednet watch, and stops the backend when that returns.  Any of the   *)
(* three processes can be signalled, can die, or hang; a launcher can be   *)
(* started again while processes of an earlier one are still there.        *)
(***************************************************************************)
EXTENDS Integers, FiniteSets

CONSTANTS
  Launchers,     \* runs of arena_host.py, all with the same --backend-port
  Seats,         \* i_ seats of the SharedNet account of this machine
  NoSeat,        \* the checkout is not seated in a Room
  MaxSignals,    \* bound: signals sent
  MaxSwitches    \* bound: changes of the selected seat

ASSUME HostAssumption ==
  NoSeat \notin Seats /\ MaxSignals \in Nat /\ MaxSwitches \in Nat

VARIABLES
  phase,      \* where each launcher stands in main()
  member,     \* member_id: the seat whoami told it
  backend,    \* its uvicorn process
  watcher,    \* its sharednet watch process
  selected,   \* the seat the CLI selects when none is named
  reachable,  \* seats made public with sharednet reach
  signals, switches

sharednet == <<selected, reachable, switches>>
vars == <<phase, member, backend, watcher, sharednet, signals>>
-----------------------------------------------------------------------------
\* What the operator may have exported.  A lookalike has the form of an address with a
\* letter in it that is not ASCII: isalnum() lets it through here, and the pattern of the
\* service loop does not later.
Environment == [token : {"long", "short"}, payee : {"address", "lookalike", "other"}]

validate_environment(e) == e.token = "long" /\ e.payee \in {"address", "lookalike"}

Init ==
  /\ phase = [l \in Launchers |-> "off"]
  /\ member = [l \in Launchers |-> NoSeat]
  /\ backend = [l \in Launchers |-> "none"]
  /\ watcher = [l \in Launchers |-> "none"]
  /\ selected \in Seats \cup {NoSeat} /\ reachable = {}
  /\ signals = 0 /\ switches = 0

GoTo(l, p) == phase' = [phase EXCEPT ![l] = p]

\* Python's default handlers: no try is open yet.
Bare == {"whoami", "reach", "redeem", "popen", "handlers"}
Handled == {"health", "ready", "watching", "finally", "waiting"}

Running(b) == backend[b] \in {"starting", "up", "stopping"}

\* Who answers on the port; uvicorn stops listening first when it is told to stop.
Serving == {b \in Launchers : backend[b] = "up"}

\* The operator starts the launcher.
Launch(l) ==
  /\ phase[l] = "off"
  /\ \E e \in Environment : GoTo(l, IF validate_environment(e) THEN "whoami" ELSE "refused")
  /\ UNCHANGED <<member, backend, watcher, sharednet, signals>>

\* The operator joins or selects another seat, in another terminal.
SwitchSeat ==
  /\ switches < MaxSwitches /\ switches' = switches + 1
  /\ selected' \in (Seats \cup {NoSeat}) \ {selected}
  /\ UNCHANGED <<phase, member, backend, watcher, reachable, signals>>

\* Variant: the seat is not looked at.
Whoami_Unseated(l) ==
  /\ phase[l] = "whoami" /\ GoTo(l, "reach")
  /\ member' = [member EXCEPT ![l] = selected]
  /\ UNCHANGED <<backend, watcher, sharednet, signals>>

\* sharednet whoami; without a seat main() raises.
Whoami(l) ==
  /\ phase[l] = "whoami"
  /\ member' = [member EXCEPT ![l] = selected]
  /\ GoTo(l, IF selected = NoSeat THEN "ended" ELSE "reach")
  /\ UNCHANGED <<backend, watcher, sharednet, signals>>

\* Variant: reach goes by the seat selected now.
Reach_Selected(l) ==
  /\ phase[l] = "reach"
  /\ reachable' = reachable \cup ({selected} \cap Seats)
  /\ \E p \in {"redeem", "popen"} : GoTo(l, p)
  /\ UNCHANGED <<member, backend, watcher, selected, switches, signals>>

\* sharednet reach public, with SHAREDNET_SEAT set to the member; --redeem-hack100 or not.
Reach(l) ==
  /\ phase[l] = "reach"
  /\ reachable' = reachable \cup {member[l]}
  /\ \E p \in {"redeem", "popen"} : GoTo(l, p)
  /\ UNCHANGED <<member, backend, watcher, selected, switches, signals>>

Redeem(l) ==
  /\ phase[l] = "redeem" /\ GoTo(l, "popen")
  /\ UNCHANGED <<member, backend, watcher, sharednet, signals>>

\* A command that is run with check=True fails, or uvicorn cannot be started.
CommandFails(l) ==
  /\ phase[l] \in {"whoami", "reach", "redeem", "popen"} /\ GoTo(l, "ended")
  /\ UNCHANGED <<member, backend, watcher, sharednet, signals>>

Popen(l) ==
  /\ phase[l] = "popen" /\ GoTo(l, "handlers")
  /\ backend' = [backend EXCEPT ![l] = "starting"]
  /\ UNCHANGED <<member, watcher, sharednet, signals>>

\* signal.signal twice; the try block begins.
InstallHandlers(l) ==
  /\ phase[l] = "handlers" /\ GoTo(l, "health")
  /\ UNCHANGED <<member, backend, watcher, sharednet, signals>>

\* /health answers as it should: whoever it is that has the port.
HealthOk(l) ==
  /\ phase[l] = "health" /\ Serving # {} /\ GoTo(l, "ready")
  /\ UNCHANGED <<member, backend, watcher, sharednet, signals>>

\* Variant: the backend is waited for outside of the try block.
HealthFails_OutsideTry(l) ==
  /\ phase[l] = "health" /\ GoTo(l, "ended")
  /\ UNCHANGED <<member, backend, watcher, sharednet, signals>>

\* Not within 15 seconds, or with an exception that wait_health lets pass.
HealthFails(l) ==
  /\ phase[l] = "health" /\ GoTo(l, "finally")
  /\ UNCHANGED <<member, backend, watcher, sharednet, signals>>

\* "counterparty": "ready"; then sharednet watch --as member, or npx is not found.
StartWatch(l) ==
  /\ phase[l] = "ready"
  /\ \/ GoTo(l, "watching") /\ watcher' = [watcher EXCEPT ![l] = "running"]
     \/ GoTo(l, "finally") /\ UNCHANGED watcher
  /\ UNCHANGED <<member, backend, sharednet, signals>>

\* subprocess.run returns when the watcher has ended; a signal handler does not end it.
WatchReturns(l) ==
  /\ phase[l] = "watching" /\ watcher[l] = "gone" /\ GoTo(l, "finally")
  /\ UNCHANGED <<member, backend, watcher, sharednet, signals>>

\* stop_backend: terminate, if it has not ended.  A process that has not come up dies of it.
Stopped(b) ==
  CASE backend[b] = "starting" -> "down"
    [] backend[b] = "up" -> "stopping"
    [] OTHER -> backend[b]

StopBackend(l) ==
  /\ phase[l] = "finally" /\ GoTo(l, "waiting")
  /\ backend' = [backend EXCEPT ![l] = Stopped(l)]
  /\ UNCHANGED <<member, watcher, sharednet, signals>>

\* backend.wait(timeout=5) returns.
BackendGone(l) ==
  /\ phase[l] = "waiting" /\ ~Running(l) /\ GoTo(l, "ended")
  /\ UNCHANGED <<member, backend, watcher, sharednet, signals>>

\* Variant: a backend that hangs in its shutdown is left to itself.
WaitExpires_NoKill(l) ==
  /\ phase[l] = "waiting" /\ Running(l) /\ GoTo(l, "ended")
  /\ UNCHANGED <<member, backend, watcher, sharednet, signals>>

\* Variant: wait() without a timeout.
WaitExpires_Never(l) == phase[l] = "waiting" /\ ~Running(l) /\ BackendGone(l)

\* It does not, and the backend is killed.
WaitExpires(l) ==
  /\ phase[l] = "waiting" /\ Running(l) /\ GoTo(l, "ended")
  /\ backend' = [backend EXCEPT ![l] = "down"]
  /\ UNCHANGED <<member, watcher, sharednet, signals>>

\* What main() does on its own once its signal handlers are there.
Supervise(l) ==
  \/ HealthOk(l) \/ HealthFails(l) \/ StartWatch(l) \/ WatchReturns(l)
  \/ StopBackend(l) \/ BackendGone(l) \/ WaitExpires(l)
-----------------------------------------------------------------------------
(* The processes, and the signals sent to them.                            *)

\* uvicorn listens, unless the port is taken.
Bind(b) ==
  /\ backend[b] = "starting"
  /\ backend' = [backend EXCEPT ![b] = IF Serving = {} THEN "up" ELSE "down"]
  /\ UNCHANGED <<phase, member, watcher, sharednet, signals>>

\* It ends, having been told to or not.  One that was told may also hang.
BackendEnds(b) ==
  /\ Running(b)
  /\ backend' = [backend EXCEPT ![b] = "down"]
  /\ UNCHANGED <<phase, member, watcher, sharednet, signals>>

\* --max-runs is reached, three attempts at a batch failed, or Ctrl-C.
WatcherEnds(l) ==
  /\ watcher[l] \in {"running", "told"}
  /\ watcher' = [watcher EXCEPT ![l] = "gone"]
  /\ UNCHANGED <<phase, member, backend, sharednet, signals>>

\* SIGTERM to the launcher alone.
Terminate(l) ==
  /\ signals < MaxSignals /\ signals' = signals + 1
  /\ \/ phase[l] \in Bare /\ GoTo(l, "dead") /\ UNCHANGED backend
     \/ /\ phase[l] \in Handled
        /\ backend' = [backend EXCEPT ![l] = Stopped(l)] /\ UNCHANGED phase
  /\ UNCHANGED <<member, watcher, sharednet>>

\* Ctrl-C: SIGINT to the launcher and the children in its process group.
CtrlC(l) ==
  /\ signals < MaxSignals /\ signals' = signals + 1
  /\ phase[l] \in Bare \cup Handled
  /\ backend' = [backend EXCEPT ![l] = Stopped(l)]
  /\ watcher' = [watcher EXCEPT ![l] = IF @ = "running" THEN "told" ELSE @]
  /\ IF phase[l] \in Bare
     THEN GoTo(l, "dead") ELSE UNCHANGED phase
  /\ UNCHANGED <<member, sharednet>>

\* SIGKILL to the launcher.
Kill(l) ==
  /\ signals < MaxSignals /\ signals' = signals + 1
  /\ phase[l] \in Bare \cup Handled /\ GoTo(l, "dead")
  /\ UNCHANGED <<member, backend, watcher, sharednet>>

Next ==
  \/ SwitchSeat
  \/ \E l \in Launchers :
       \/ Launch(l) \/ Whoami(l) \/ Reach(l) \/ Redeem(l) \/ CommandFails(l)
       \/ Popen(l) \/ InstallHandlers(l) \/ Supervise(l)
       \/ Bind(l) \/ BackendEnds(l) \/ WatcherEnds(l)
       \/ Terminate(l) \/ CtrlC(l) \/ Kill(l)

\* The launcher goes on, each of its waits being bounded but the one for the watcher, and a
\* watcher that got SIGINT ends.
Fairness ==
  \A l \in Launchers : WF_vars(Supervise(l)) /\ WF_vars(watcher[l] = "told" /\ WatcherEnds(l))

Spec == Init /\ [][Next]_vars /\ Fairness
-----------------------------------------------------------------------------
(* Properties.                                                             *)

TypeOK ==
  /\ phase \in [Launchers -> Bare \cup Handled \cup {"off", "refused", "ended", "dead"}]
  /\ member \in [Launchers -> Seats \cup {NoSeat}]
  /\ backend \in [Launchers -> {"none", "starting", "up", "stopping", "down"}]
  /\ watcher \in [Launchers -> {"none", "running", "told", "gone"}]
  /\ selected \in Seats \cup {NoSeat} /\ reachable \subseteq Seats
  /\ signals \in 0..MaxSignals /\ switches \in 0..MaxSwitches

\* A launcher that ends by itself, with its watcher, by an exception or after signals it
\* has handled, leaves no backend behind that holds the port.
NoOrphanBackend == \A l \in Launchers : phase[l] = "ended" => ~Running(l)

\* Whose seat is watched is the seat that was made public, also when another was selected
\* meanwhile.
WatchedIsReachable ==
  \A l \in Launchers : watcher[l] # "none" => member[l] \in reachable

\* wait_health takes whoever has the port for its own backend.  It is right as long as
\* launchers are started one after the other and none of them is killed: the only backend
\* that answers one that is ready or watching is its own.
OwnBackendAnswers ==
  \A l \in Launchers :
    /\ phase[l] \in {"ready", "watching"}
    /\ \A m \in Launchers \ {l} : phase[m] \in {"off", "refused", "ended"}
    => Serving \subseteq {l}

\* When the watcher has ended, or has got a Ctrl-C, the launcher comes to its end and so do
\* its children, unless the launcher is killed first.
EndsTogether ==
  \A l \in Launchers :
    watcher[l] \in {"told", "gone"}
    ~> \/ phase[l] = "ended" /\ ~Running(l) /\ watcher[l] = "gone"
       \/ phase[l] = "dead"
=============================================================================
