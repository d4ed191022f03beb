------------------------------ MODULE Supervisor ------------------------------
(***************************************************************************)
(* The device supervisor of manager.rs: it enumerates the USB panels every *)
(* second, owns one worker thread per panel, follows the reports of the    *)
(* threads and tells the manager which panels come and go.                 *)
(*                                                                         *)
(* A worker thread is reduced to what the supervisor can tell of it; its   *)
(* loop is module DeviceWorker. A thread takes a command only once it is   *)
(* serving, so of its queue the supervisor's side needs one bit: whether a *)
(* stop was sent. Device ids follow from the path (Identity): the model    *)
(* does not put another unit at the address of one that left.              *)
(***************************************************************************)
EXTENDS Naturals, Sequences, FiniteSets, SequencesExt

CONSTANTS
    Paths,          \* The path keys: bus and address
    MaxWorkers,     \* Bound of the model: worker ids
    MaxFaults,      \* Bound of the model: plugs, unplugs, failures and panics
    MaxInputs,      \* Bound of the model: Input reports
    Exclusive(_, _) \* Two paths that one unit has in turn: never both present

ASSUME SupervisorAssumption ==
    /\ IsFiniteSet(Paths) /\ Paths # {}
    /\ MaxWorkers \in Nat
    /\ MaxFaults \in Nat
    /\ MaxInputs \in Nat

Workers == 1..MaxWorkers
None == 0

ThreadStates == {"unborn", "starting", "opened", "serving", "reported", "finished",
                 "panicked"}

VARIABLES
    plugged,        \* the paths at which a panel is present
    faults,         \* plugs, unplugs, failures and panics so far
    inputs,         \* Input reports so far
    path_key,       \* path_key[i]: the path worker i was launched for
    thread,         \* thread[i]: how far the thread of worker i is
    dead,           \* the workers whose USB handle lost its panel
    stopped,        \* the workers to which a stop was sent
    worker_rx,      \* the reports on their way to the supervisor
    next_worker_id, \* next_worker_id
    launched,       \* launched_workers: the worker id launched for a path, or None
    active,         \* active_workers: the worker id active at a path, or None
    owned,          \* workers: the ids of the threads not joined yet
    phase,          \* where Supervisor::run stands
    snapshot,       \* the paths enumerate_canonical returned
    manager_tx,     \* the events on their way to the manager
    shutdown,       \* shutdown_tx was sent
    listening       \* the manager still receives events

environment == <<plugged, faults, inputs>>
threads == <<path_key, thread, dead, stopped, worker_rx>>
registry == <<next_worker_id, launched, active, owned>>
control == <<phase, snapshot, manager_tx, shutdown, listening>>
svars == <<environment, threads, registry, control>>

Report(kind, i) == [kind |-> kind, worker_id |-> i, path_key |-> path_key[i]]
Event(kind, i) == [kind |-> kind, worker_id |-> i, path_key |-> path_key[i]]
ReportKinds == {"Connected", "Input", "Disconnected", "Failed"}

STypeOK ==
    /\ plugged \subseteq Paths
    /\ faults \in 0..MaxFaults /\ inputs \in 0..MaxInputs
    /\ path_key \in [Workers -> Paths]
    /\ thread \in [Workers -> ThreadStates]
    /\ dead \subseteq Workers /\ stopped \subseteq Workers
    /\ worker_rx \in Seq([kind : ReportKinds, worker_id : Workers, path_key : Paths])
    /\ next_worker_id \in 0..MaxWorkers
    /\ launched \in [Paths -> 0..MaxWorkers]
    /\ active \in [Paths -> 0..MaxWorkers]
    /\ owned \subseteq Workers
    /\ phase \in {"select", "reconcile", "stop", "join", "done"}
    /\ snapshot \subseteq Paths
    /\ manager_tx \in Seq([kind : ReportKinds, worker_id : Workers, path_key : Paths])
    /\ shutdown \in BOOLEAN /\ listening \in BOOLEAN

SInit ==
    /\ plugged \in SUBSET Paths
    /\ \A p, q \in plugged : p # q => ~Exclusive(p, q)
    /\ faults = 0 /\ inputs = 0
    /\ path_key = [i \in Workers |-> CHOOSE p \in Paths : TRUE]
    /\ thread = [i \in Workers |-> "unborn"]
    /\ dead = {} /\ stopped = {} /\ worker_rx = <<>>
    /\ next_worker_id = 0
    /\ launched = [p \in Paths |-> None]
    /\ active = [p \in Paths |-> None]
    /\ owned = {}
    /\ phase = "select" /\ snapshot = {}
    /\ manager_tx = <<>>
    /\ shutdown = FALSE /\ listening = TRUE

-----------------------------------------------------------------------------
(* The panels. *)

Fault ==
    /\ faults < MaxFaults
    /\ faults' = faults + 1

Plug(p) ==
    /\ Fault
    /\ p \notin plugged
    /\ \A q \in plugged : ~Exclusive(p, q)
    /\ plugged' = plugged \cup {p}
    /\ UNCHANGED <<inputs, threads, registry, control>>

\* A handle opened before the panel left stays dead, even if it comes back.
Unplug(p) ==
    /\ Fault
    /\ p \in plugged
    /\ plugged' = plugged \ {p}
    /\ dead' = dead \cup {i \in Workers : path_key[i] = p /\ thread[i] \in {"opened", "serving"}}
    /\ UNCHANGED <<inputs, path_key, thread, stopped, worker_rx, registry, control>>

-----------------------------------------------------------------------------
(* The worker threads. *)

Move(i, state) == thread' = [thread EXCEPT ![i] = state]

Send(report) == worker_rx' = Append(worker_rx, report)

ReportAnd(i, kind, state) ==
    /\ Move(i, state)
    /\ Send(Report(kind, i))
    /\ UNCHANGED <<path_key, dead, stopped>>

OpenDevice(i) ==
    /\ thread[i] = "starting"
    /\ path_key[i] \in plugged
    /\ Move(i, "opened")
    /\ UNCHANGED <<path_key, dead, stopped, worker_rx, environment>>

\* find_device: the panel is no longer present.
OpenFails(i) ==
    /\ thread[i] = "starting"
    /\ path_key[i] \notin plugged
    /\ ReportAnd(i, "Failed", "reported")
    /\ UNCHANGED environment

Announce(i) ==
    /\ thread[i] = "opened"
    /\ i \notin dead
    /\ ReportAnd(i, "Connected", "serving")
    /\ UNCHANGED environment

\* A stop is looked at in the loop only; the reset it asks for fails on a dead handle.
ObserveStop(i) ==
    /\ thread[i] = "serving"
    /\ i \in stopped
    /\ ReportAnd(i, IF i \in dead THEN "Failed" ELSE "Disconnected", "reported")
    /\ UNCHANGED environment

\* The next USB operation on a dead handle fails.
FailDead(i) ==
    /\ thread[i] \in {"opened", "serving"}
    /\ i \in dead
    /\ ReportAnd(i, "Failed", "reported")
    /\ UNCHANGED environment

\* The thread ends a moment after its final report.
Finish(i) ==
    /\ thread[i] = "reported"
    /\ Move(i, "finished")
    /\ UNCHANGED <<path_key, dead, stopped, worker_rx, environment>>

ThreadStep(i) ==
    /\ OpenDevice(i) \/ OpenFails(i) \/ Announce(i) \/ ObserveStop(i) \/ FailDead(i)
          \/ Finish(i)
    /\ UNCHANGED <<registry, control>>

SendInput(i) ==
    /\ thread[i] = "serving"
    /\ i \notin dead
    /\ inputs < MaxInputs
    /\ inputs' = inputs + 1
    /\ Send(Report("Input", i))
    /\ UNCHANGED <<plugged, faults, path_key, thread, dead, stopped, registry, control>>

\* Any USB operation may fail on a panel that is present.
FailUsb(i) ==
    /\ Fault
    /\ thread[i] \in {"starting", "opened", "serving"}
    /\ ReportAnd(i, "Failed", "reported")
    /\ UNCHANGED <<plugged, inputs, registry, control>>

\* A panic (of a build that unwinds) ends the thread without a report.
Panic(i) ==
    /\ Fault
    /\ thread[i] \in {"starting", "opened", "serving"}
    /\ Move(i, "panicked")
    /\ UNCHANGED <<plugged, inputs, path_key, dead, stopped, worker_rx, registry, control>>

-----------------------------------------------------------------------------
(* The supervisor. Sending to a manager that no longer listens has no effect, *)
(* nor has a stop sent to a worker that dropped its queue.                    *)

Emit(events) ==
    manager_tx' = IF listening THEN manager_tx \o events ELSE manager_tx

SendStop(ids) == stopped' = stopped \cup (ids \ {None})

Forget(table, ids) == [p \in Paths |-> IF table[p] \in ids THEN None ELSE table[p]]

Next1 == Head(worker_rx)

HandleConnected ==
    /\ Next1.kind = "Connected"
    /\ IF launched[Next1.path_key] = Next1.worker_id
       THEN /\ launched' = [launched EXCEPT ![Next1.path_key] = None]
            /\ active' = [active EXCEPT ![Next1.path_key] = Next1.worker_id]
            /\ Emit(<<Event("Connected", Next1.worker_id)>>)
            /\ UNCHANGED stopped
       ELSE /\ SendStop({Next1.worker_id})
            /\ UNCHANGED <<launched, active, manager_tx>>

\* Mutation: input of a worker that is not the active one passes.
HandleAnyInput ==
    /\ Next1.kind = "Input"
    /\ Emit(<<Event("Input", Next1.worker_id)>>)
    /\ UNCHANGED <<launched, active, stopped>>

HandleInput ==
    /\ Next1.kind = "Input"
    /\ Emit(IF active[Next1.path_key] = Next1.worker_id
            THEN <<Event("Input", Next1.worker_id)>> ELSE <<>>)
    /\ UNCHANGED <<launched, active, stopped>>

HandleDisconnected ==
    /\ Next1.kind = "Disconnected"
    /\ active' = Forget(active, {Next1.worker_id})
    /\ Emit(IF active[Next1.path_key] = Next1.worker_id
            THEN <<Event("Disconnected", Next1.worker_id)>> ELSE <<>>)
    /\ launched' = IF active[Next1.path_key] = None
                   THEN Forget(launched, {Next1.worker_id}) ELSE launched
    /\ UNCHANGED stopped

\* Mutation: the manager is not told that the panel is gone.
FailureEventOnly(i) ==
    IF active[path_key[i]] = i \/ launched[path_key[i]] = i THEN <<Event("Failed", i)>>
    ELSE <<>>

\* What a Failed report of worker i makes the supervisor tell the manager.
FailedEvents(i) ==
    IF active[path_key[i]] = i
    THEN <<Event("Disconnected", i), Event("Failed", i)>>
    ELSE IF active[path_key[i]] = None /\ launched[path_key[i]] = i
    THEN <<Event("Failed", i)>>
    ELSE <<>>

\* Mutation: a worker that failed before it connected stays launched.
StillLaunched(ids) == launched

WithoutLaunched(ids) ==
    [p \in Paths |-> IF active[p] = None /\ launched[p] \in ids THEN None ELSE launched[p]]

\* Mutation: a late report of an earlier worker ends the one launched now.
HandleStaleFailed ==
    /\ Next1.kind = "Failed"
    /\ active' = Forget(active, {Next1.worker_id})
    /\ launched' = [launched EXCEPT ![Next1.path_key] = None]
    /\ Emit(FailedEvents(Next1.worker_id))
    /\ UNCHANGED stopped

HandleFailed ==
    /\ Next1.kind = "Failed"
    /\ active' = Forget(active, {Next1.worker_id})
    /\ launched' = WithoutLaunched({Next1.worker_id})
    /\ Emit(FailedEvents(Next1.worker_id))
    /\ UNCHANGED stopped

HandleWorkerReport ==
    /\ phase = "select"
    /\ worker_rx # <<>>
    /\ worker_rx' = Tail(worker_rx)
    /\ HandleConnected \/ HandleInput \/ HandleDisconnected \/ HandleFailed
    /\ UNCHANGED <<environment, path_key, thread, dead, next_worker_id, owned, phase,
                   snapshot, shutdown, listening>>

\* The discovery tick. What enumerate_canonical saw may be old when it is used.
Enumerate ==
    /\ phase = "select"
    /\ phase' = "reconcile"
    /\ snapshot' = plugged
    /\ UNCHANGED <<environment, threads, registry, manager_tx, shutdown, listening>>

EnumerateFails ==
    /\ phase = "select"
    /\ phase' = "stop"
    /\ UNCHANGED <<environment, threads, registry, snapshot, manager_tx, shutdown,
                   listening>>

\* The orders in which a set of events may be told: one by one, but the failure of a
\* worker that was active comes right behind the loss of its panel.
Tellings(events) ==
    {s \in SetToSeqs(events) : \A k \in DOMAIN s :
        LET loss == [s[k] EXCEPT !.kind = "Disconnected"] IN
        s[k].kind = "Failed" /\ loss \in events => k > 1 /\ s[k - 1] = loss}

\* The manager is told of the panics, then of the panels that left, each in any order.
TellGone(crashed, gone_active) ==
    \E e1 \in Tellings(UNION {ToSet(FailedEvents(i)) : i \in crashed}),
       e2 \in Tellings({Event("Disconnected", i) : i \in gone_active}) :
          Emit(e1 \o e2)

\* The present panels that need a worker: none is launched or active there, and no
\* thread that still runs is left.
\*
\* Mutation: a thread on its way out does not count.
UnservedTables(active1, launched1, left) ==
    {p \in snapshot : active1[p] = None /\ launched1[p] = None}

Unserved(active1, launched1, left) ==
    {p \in snapshot : /\ active1[p] = None /\ launched1[p] = None
                      /\ \A i \in left : path_key[i] # p}

\* reap_finished_workers, then reconcile_usb_presence: threads that ended are
\* joined, a panic standing in for the report that never came; what is gone from
\* the bus is stopped and forgotten; what has no worker, and no thread that still
\* runs, gets one.
Reconcile ==
    /\ phase = "reconcile"
    /\ phase' = "select"
    /\ snapshot' = {}
    /\ LET reaped == {i \in owned : thread[i] \in {"finished", "panicked"}}
           crashed == {i \in reaped : thread[i] = "panicked"}
           active1 == Forget(active, crashed)
           launched1 == WithoutLaunched(crashed)
           gone == Paths \ snapshot
           gone_active == {active1[p] : p \in gone} \ {None}
           gone_launched == {launched1[p] : p \in gone} \ {None}
           active2 == Forget(active1, gone_active)
           launched2 == Forget(launched1, gone_launched)
           fresh == SetToSeq(Unserved(active2, launched2, owned \ reaped))
           Id(k) == next_worker_id + k
           new == {Id(k) : k \in DOMAIN fresh}
       IN  /\ next_worker_id + Len(fresh) <= MaxWorkers
           /\ next_worker_id' = next_worker_id + Len(fresh)
           /\ active' = active2
           /\ launched' = [p \in Paths |->
                 IF \E k \in DOMAIN fresh : fresh[k] = p
                 THEN Id(CHOOSE k \in DOMAIN fresh : fresh[k] = p)
                 ELSE launched2[p]]
           /\ owned' = (owned \ reaped) \cup new
           /\ path_key' = [i \in Workers |->
                 IF i \in new THEN fresh[i - next_worker_id] ELSE path_key[i]]
           /\ thread' = [i \in Workers |-> IF i \in new THEN "starting" ELSE thread[i]]
           /\ SendStop(gone_active \cup gone_launched)
           /\ TellGone(crashed, gone_active)
    /\ UNCHANGED <<environment, dead, worker_rx, shutdown, listening>>

\* Whatever ends the session: the signal, or a task of it that ended.
Shutdown ==
    /\ ~shutdown
    /\ shutdown' = TRUE
    /\ UNCHANGED <<environment, threads, registry, phase, snapshot, manager_tx, listening>>

ObserveShutdown ==
    /\ phase \in {"select", "reconcile"}
    /\ shutdown
    /\ phase' = "stop"
    /\ UNCHANGED <<environment, threads, registry, snapshot, manager_tx, shutdown,
                   listening>>

\* stop_all_workers: every thread is asked to stop ...
\*
\* Mutation: only the workers that have connected are asked.
StopActive ==
    /\ phase = "stop"
    /\ phase' = "join"
    /\ SendStop({active[p] : p \in Paths})
    /\ UNCHANGED <<environment, path_key, thread, dead, worker_rx, registry, snapshot,
                   manager_tx, shutdown, listening>>

StopAll ==
    /\ phase = "stop"
    /\ phase' = "join"
    /\ SendStop(owned \cup {launched[p] : p \in Paths} \cup {active[p] : p \in Paths})
    /\ UNCHANGED <<environment, path_key, thread, dead, worker_rx, registry, snapshot,
                   manager_tx, shutdown, listening>>

\* ... and joined.
\*
\* Mutation: only the threads of the workers in the tables are waited for.
JoinListed ==
    /\ phase = "join"
    /\ \A i \in owned : (\E p \in Paths : i \in {launched[p], active[p]})
                            => thread[i] \in {"finished", "panicked"}
    /\ phase' = "done"
    /\ owned' = {}
    /\ launched' = [p \in Paths |-> None]
    /\ active' = [p \in Paths |-> None]
    /\ UNCHANGED <<environment, threads, next_worker_id, snapshot, manager_tx, shutdown,
                   listening>>

JoinAll ==
    /\ phase = "join"
    /\ \A i \in owned : thread[i] \in {"finished", "panicked"}
    /\ phase' = "done"
    /\ owned' = {}
    /\ launched' = [p \in Paths |-> None]
    /\ active' = [p \in Paths |-> None]
    /\ UNCHANGED <<environment, threads, next_worker_id, snapshot, manager_tx, shutdown,
                   listening>>

SNext ==
    \/ \E p \in Paths : Plug(p) \/ Unplug(p)
    \/ \E i \in Workers : ThreadStep(i) \/ SendInput(i) \/ FailUsb(i) \/ Panic(i)
    \/ HandleWorkerReport \/ Enumerate \/ EnumerateFails \/ Reconcile
    \/ Shutdown \/ ObserveShutdown \/ StopAll \/ JoinAll

SSpec == SInit /\ [][SNext]_svars

-----------------------------------------------------------------------------
(* Properties. *)

Alive(i) == thread[i] \in {"starting", "opened", "serving"}
Ended(i) == thread[i] \in {"finished", "panicked"}

\* Two threads never work on the same panel: a thread is launched at a path only
\* once the last one there has ended and released its interfaces.
OneThreadPerPath ==
    \A i, j \in Workers :
        i # j /\ path_key[i] = path_key[j] => ~ (thread[i] \in {"starting", "opened",
            "serving", "reported"} /\ thread[j] \in {"starting", "opened", "serving",
            "reported"})

\* No thread is forgotten while it runs: the supervisor has it launched or active
\* at its path, or has asked it to stop. A thread that is neither would hold the
\* panel's interfaces and keep its path from ever being served again.
NoOrphan ==
    \A i \in Workers :
        Alive(i) => \/ launched[path_key[i]] = i
                    \/ active[path_key[i]] = i
                    \/ i \in stopped

\* When the supervisor returns, every thread it ever launched has ended (README:
\* "waits for every USB worker to finish its reset and release its interfaces").
AllJoined == phase = "done" => \A i \in Workers : thread[i] = "unborn" \/ Ended(i)

\* A worker's failure is passed on for the log, so none is left unread when the
\* supervisor returns (README: "Worker failures retain the underlying USB error in
\* the log"). The code does not keep this: run manager_log.
NoFailureUnread ==
    phase = "done" => \A k \in DOMAIN worker_rx : worker_rx[k].kind # "Failed"

=============================================================================
