------------------------------- MODULE Manager -------------------------------
(***************************************************************************)
(* The supervisor with the manager's side of a session: the worker event   *)
(* loop, the command handler's routing table and the devices the core      *)
(* runtime has been told of (an external component: only the calls made to *)
(* it from src/ are modelled).                                             *)
(***************************************************************************)
EXTENDS Supervisor

CONSTANT Identity(_)    \* hardware_id of the panel at a path

\* Panels present together have hardware ids of their own.
ASSUME ManagerAssumption ==
    \A p, q \in Paths : p # q /\ Identity(p) = Identity(q) => Exclusive(p, q)

Devices == {Identity(p) : p \in Paths}

VARIABLES
    command_map,    \* command_map[d]: the worker commands for d go to, or None
    core_devices,   \* the devices the core has
    loop            \* where worker_event_loop stands, and with which event

mgrvars == <<command_map, core_devices, loop>>
vars == <<svars, mgrvars>>

Receiving == [at |-> "recv"]
Calling(call, event) == [at |-> call, event |-> event]
Calls == {"set_device", "remove_device", "handle_hardware_message"}

TypeOK ==
    /\ STypeOK
    /\ command_map \in [Devices -> 0..MaxWorkers]
    /\ core_devices \subseteq Devices
    /\ loop.at \in {"recv", "aborted"} \cup Calls

Init ==
    /\ SInit
    /\ command_map = [d \in Devices |-> None]
    /\ core_devices = {}
    /\ loop = Receiving

-----------------------------------------------------------------------------
(* worker_event_loop: the routing table first, then the core, which answers *)
(* in its own time.                                                         *)

Received == Head(manager_tx)

\* The devices of the core once it has answered the call under way.
AfterCall ==
    CASE loop.at = "set_device" -> core_devices \cup {Identity(loop.event.path_key)}
      [] loop.at = "remove_device" -> core_devices \ {Identity(loop.event.path_key)}
      [] OTHER -> core_devices

RegisterDevice ==
    /\ Received.kind = "Connected"
    /\ command_map' = [command_map EXCEPT ![Identity(Received.path_key)] = Received.worker_id]
    /\ loop' = Calling("set_device", Received)

\* Mutations: the route of a panel that is gone stays; all routes go with it.
UnregisterNothing ==
    /\ Received.kind = "Disconnected"
    /\ loop' = Calling("remove_device", Received)
    /\ UNCHANGED command_map
UnregisterAll ==
    /\ Received.kind = "Disconnected"
    /\ command_map' = [d \in Devices |-> None]
    /\ loop' = Calling("remove_device", Received)

UnregisterDevice ==
    /\ Received.kind = "Disconnected"
    /\ command_map' = [command_map EXCEPT ![Identity(Received.path_key)] = None]
    /\ loop' = Calling("remove_device", Received)

RouteInput ==
    /\ Received.kind = "Input"
    /\ loop' = Calling("handle_hardware_message", Received)
    /\ UNCHANGED command_map

\* A failure is only logged.
NoteFailure ==
    /\ Received.kind = "Failed"
    /\ UNCHANGED <<command_map, loop>>

ReceiveEvent ==
    /\ loop = Receiving
    /\ manager_tx # <<>>
    /\ manager_tx' = Tail(manager_tx)
    /\ RegisterDevice \/ UnregisterDevice \/ RouteInput \/ NoteFailure
    /\ UNCHANGED <<core_devices, environment, threads, registry, phase, snapshot, shutdown,
                   listening>>

CoreAnswers ==
    /\ loop.at \in Calls
    /\ core_devices' = AfterCall
    /\ loop' = Receiving
    /\ UNCHANGED <<command_map, svars>>

\* The loop ends on an error of the core, or is aborted after shutdown_tx was sent;
\* its receiver goes with it, and the session ends.
EndLoop ==
    /\ loop.at # "aborted"
    /\ loop.at # "recv" \/ shutdown
    /\ loop' = [at |-> "aborted"]
    /\ listening' = FALSE
    /\ manager_tx' = <<>>
    /\ shutdown' = TRUE
    /\ UNCHANGED <<command_map, core_devices, environment, threads, registry, phase,
                   snapshot>>

LoopStep == ReceiveEvent \/ CoreAnswers

Next ==
    \/ SNext /\ UNCHANGED mgrvars
    \/ LoopStep
    \/ EndLoop

\* Every thread and task runs, a USB operation ends by its deadline, and the
\* supervisor's select! picks among its ready branches at random.
Fairness ==
    /\ \A i \in Workers : WF_vars(ThreadStep(i) /\ UNCHANGED mgrvars)
    /\ SF_vars(HandleWorkerReport /\ UNCHANGED mgrvars)
    /\ WF_vars(Enumerate /\ UNCHANGED mgrvars)
    /\ WF_vars(Reconcile /\ UNCHANGED mgrvars)
    /\ WF_vars(ObserveShutdown /\ UNCHANGED mgrvars)
    /\ WF_vars((StopAll \/ JoinAll) /\ UNCHANGED mgrvars)
    /\ WF_vars(LoopStep)

Spec == Init /\ [][Next]_vars
FairSpec == Spec /\ Fairness

-----------------------------------------------------------------------------
(* Properties. *)

\* The last of the first n events on their way that says where commands for d go, if any.
LastMove(d, n) ==
    SelectLastInSubSeq(manager_tx, 1, n, LAMBDA e :
        e.kind \in {"Connected", "Disconnected"} /\ Identity(e.path_key) = d)

\* What the routing table and the core will hold once these n have been worked off.
RouteAfter(d, n) ==
    LET k == LastMove(d, n) IN
    IF k = 0 THEN command_map[d]
    ELSE IF manager_tx[k].kind = "Connected" THEN manager_tx[k].worker_id ELSE None

KnownAfter(n) ==
    {d \in Devices : LET k == LastMove(d, n) IN
                     IF k = 0 THEN d \in AfterCall ELSE manager_tx[k].kind = "Connected"}

\* The stream of events the supervisor sends is complete and in order: worked off,
\* it routes the commands of each panel to the worker active for it, and leaves
\* the core with exactly the panels that have one, whatever reports were stale,
\* lost to a panic or overtaken by an enumeration.
RoutesFollowWorkers ==
    listening /\ phase # "done" =>
        LET Settled(d) == RouteAfter(d, Len(manager_tx)) IN
        /\ \A d \in Devices :
              Settled(d) # None <=> \E p \in Paths : Identity(p) = d /\ active[p] # None
        /\ \A p \in Paths : active[p] # None => Settled(Identity(p)) = active[p]
        /\ KnownAfter(Len(manager_tx)) = {d \in Devices : Settled(d) # None}

\* Input of a panel reaches the core only while the core has the panel, and only
\* from the worker its commands go to.
InputInSession ==
    listening /\ loop = Receiving /\ manager_tx # <<>> /\ Received.kind = "Input" =>
        /\ Identity(Received.path_key) \in core_devices
        /\ command_map[Identity(Received.path_key)] = Received.worker_id

\* The call to the core as it is seen there.
CallUnderWay ==
    IF loop.at \in Calls
    THEN [at |-> loop.at, device |-> Identity(loop.event.path_key),
          worker |-> loop.event.worker_id]
    ELSE loop

Registry == INSTANCE DeviceRegistry WITH
                route <- command_map, known <- core_devices, call <- CallUnderWay

\* However panels come, go and fail, the core sees sessions: no device set twice, none
\* removed but by the end of the worker it was set for, no input outside.
ImplementsRegistry == Registry!DSpec

\* Commands keep going to a worker that has ended only until the supervisor has
\* worked off its last report or joined its thread.
DeadRouteIsKnown ==
    \A d \in Devices :
        LET i == command_map[d] IN
        i # None /\ ~Alive(i) =>
            \/ \E k \in DOMAIN worker_rx :
                  worker_rx[k].worker_id = i /\ worker_rx[k].kind \in {"Disconnected", "Failed"}
            \/ \E k \in DOMAIN manager_tx :
                  manager_tx[k].worker_id = i /\ manager_tx[k].kind = "Disconnected"
            \/ thread[i] = "panicked" /\ i \in owned
            \/ shutdown \/ phase \in {"stop", "join", "done"}

\* A shutdown ends with the supervisor's return, wherever the threads are.
ShutdownEnds == shutdown ~> phase = "done"

\* Once the panels stop coming and going, each that is present is served by a
\* worker with a live handle and known to the core, and no other is known, unless
\* the session ends.
Converged ==
    /\ core_devices = {Identity(p) : p \in plugged}
    /\ \A p \in plugged : active[p] # None /\ thread[active[p]] = "serving"
                          /\ active[p] \notin dead

EventuallyServed == <>[]Converged \/ <>(shutdown \/ phase = "stop")

=============================================================================
