-------------------------------- MODULE Session --------------------------------
(***************************************************************************)
(* The manager's life: run_until waits for the signal, retry_sessions runs *)
(* one session after the other, run_connected_session starts the parts of  *)
(* a session, waits until one of them ends, and takes all of them down.    *)
(*                                                                         *)
(* Everything runs in one task: a step goes from one await to the next, and *)
(* the signal comes between two steps. The parts of a session are tasks of *)
(* their own: the device supervisor, the event loop and the core's tasks.  *)
(* Errors are the name of what failed; the text is left out.               *)
(***************************************************************************)
EXTENDS Naturals

CONSTANTS
    CoreTasks,      \* The tasks that hardware_runtime.start spawns
    MaxBackoff      \* MAX_BACKOFF_SECS

ASSUME SessionAssumption ==
    /\ MaxBackoff \in Nat \ {0}
    /\ CoreTasks \cap {"supervisor", "event_loop"} = {}

Ok == "ok"
Errors == {"signal", "connect", "setup", "startup", "supervisor", "task", "remote"}
Results == {Ok} \cup Errors

Tasks == CoreTasks \cup {"supervisor", "event_loop"}

Stages == {"begin", "connect", "setup", "start", "serve", "undo", "cleanup", "join",
           "close", "backoff", "returned"}

VARIABLES
    signal,             \* what shutdown_signal returned, "waiting" before
    at,                 \* the await at which the manager's task stands
    backoff,            \* seconds to wait before the next session
    connected,          \* deckr_runtime holds its NATS sources
    authority,          \* the core's runtime is set up and not stopped yet
    running,            \* the tasks of the session that run
    ended,              \* the tasks that ended and were not joined
    asked,              \* shutdown_tx was sent and the event loop aborted
    supervisor_finished,\* supervisor_finished
    supervisor_result,  \* what Supervisor::run returned
    result,             \* result: why the session stopped
    usb_cleanup,        \* usb_cleanup
    hardware_cleanup,   \* hardware_cleanup
    final               \* what run_until returned

parts == <<connected, authority, running, ended, asked>>
outcome == <<supervisor_finished, supervisor_result, result, usb_cleanup, hardware_cleanup>>
vars == <<signal, at, backoff, parts, outcome, final>>

TypeOK ==
    /\ signal \in {"waiting", Ok, "signal"}
    /\ at \in Stages
    /\ backoff \in 1..MaxBackoff
    /\ connected \in BOOLEAN /\ authority \in BOOLEAN
    /\ running \subseteq Tasks /\ ended \subseteq Tasks
    /\ asked \in BOOLEAN
    /\ supervisor_finished \in BOOLEAN
    /\ supervisor_result \in {Ok, "supervisor"}
    /\ result \in Results
    /\ usb_cleanup \in {Ok, "supervisor"}
    /\ hardware_cleanup \in {Ok, "remote"}
    /\ final \in Results

\* The signal handlers may fail to install; shutdown_signal then returns at once.
Init ==
    /\ signal \in {"waiting", "signal"}
    /\ at = "begin"
    /\ backoff = 1
    /\ connected = FALSE /\ authority = FALSE
    /\ running = {} /\ ended = {} /\ asked = FALSE
    /\ supervisor_finished = FALSE /\ supervisor_result = Ok
    /\ result = Ok /\ usb_cleanup = Ok /\ hardware_cleanup = Ok
    /\ final = Ok

-----------------------------------------------------------------------------
(* Results and the ends of a session. *)

\* shutdown.cancel() follows the signal without an await.
Cancelled == signal # "waiting"

\* Result::and.
And(r, s) == IF r = Ok THEN s ELSE r

Signal ==
    /\ signal = "waiting"
    /\ at # "returned"
    /\ signal' = Ok
    /\ UNCHANGED <<at, backoff, parts, outcome, final>>

\* retry_sessions returned r.
Return(r) ==
    /\ at' = "returned"
    /\ final' = IF Cancelled THEN And(signal, r) ELSE r

\* The locals of run_connected_session, as a session finds them.
Fresh ==
    /\ asked' = FALSE
    /\ supervisor_finished' = FALSE /\ supervisor_result' = Ok
    /\ result' = Ok /\ usb_cleanup' = Ok /\ hardware_cleanup' = Ok

\* The error of a session is logged and another one is due.
Retry == at' = "backoff" /\ Fresh /\ UNCHANGED final

\* Mutation: a cleanup error after the signal is treated as any other.
SessionOverRetry(r) ==
    \/ r = Ok /\ Return(r) /\ UNCHANGED <<asked, outcome>>
    \/ r # Ok /\ Retry

\* run_connected_session returned r: only an error of a session that was not
\* cancelled leads to another one.
SessionOver(r) ==
    \/ (r = Ok \/ Cancelled) /\ Return(r) /\ UNCHANGED <<asked, outcome>>
    \/ r # Ok /\ ~Cancelled /\ Retry

\* Mutation: the delay is not capped.
Doubled == backoff * 2

NextBackoff == IF backoff * 2 <= MaxBackoff THEN backoff * 2 ELSE MaxBackoff

Begin ==
    /\ at = "begin"
    /\ IF Cancelled THEN Return(Ok) ELSE at' = "connect" /\ UNCHANGED final
    /\ UNCHANGED <<signal, backoff, parts, outcome>>

\* The delay before the next session, cut short by the signal.
Backoff ==
    /\ at = "backoff"
    /\ \/ Cancelled /\ Return(Ok) /\ UNCHANGED backoff
       \/ ~Cancelled /\ at' = "connect" /\ backoff' = NextBackoff /\ UNCHANGED final
    /\ UNCHANGED <<signal, parts, outcome>>

-----------------------------------------------------------------------------
(* The start of a session; at each await the signal goes before the answer. *)

Connect ==
    /\ at = "connect"
    /\ \/ Cancelled /\ SessionOver(Ok) /\ UNCHANGED connected
       \/ ~Cancelled /\ SessionOver("connect") /\ UNCHANGED connected
       \/ /\ ~Cancelled /\ at' = "setup" /\ connected' = TRUE
          /\ UNCHANGED <<asked, outcome, final>>
    /\ UNCHANGED <<signal, backoff, authority, running, ended>>

SetUp ==
    /\ at = "setup"
    /\ \/ Cancelled /\ at' = "close" /\ result' = Ok /\ UNCHANGED authority
       \/ ~Cancelled /\ at' = "close" /\ result' = "setup" /\ UNCHANGED authority
       \/ ~Cancelled /\ at' = "start" /\ authority' = TRUE /\ UNCHANGED result
    /\ UNCHANGED <<signal, backoff, connected, running, ended, asked, supervisor_finished,
                   supervisor_result, usb_cleanup, hardware_cleanup, final>>

\* A start that fails or is cut short may have spawned some of the core's tasks.
Start ==
    /\ at = "start"
    /\ \/ ~Cancelled /\ at' = "serve" /\ running' = Tasks /\ UNCHANGED result
       \/ /\ at' = "undo"
          /\ running' \in SUBSET CoreTasks
          /\ result' = IF Cancelled THEN Ok ELSE "startup"
    /\ UNCHANGED <<signal, backoff, connected, authority, ended, asked, supervisor_finished,
                   supervisor_result, usb_cleanup, hardware_cleanup, final>>

\* hardware_runtime.stop() after a start that failed, then the core's tasks are joined.
UndoStop ==
    /\ at = "undo"
    /\ authority
    /\ authority' = FALSE
    /\ \E r \in {Ok, "remote"} :
          hardware_cleanup' = r /\ result' = And(result, r)
    /\ UNCHANGED <<signal, at, backoff, connected, running, ended, asked,
                   supervisor_finished, supervisor_result, usb_cleanup, final>>

UndoJoin ==
    /\ at = "undo"
    /\ ~authority
    /\ running = {}
    /\ ended' = {}
    /\ at' = "close"
    /\ UNCHANGED <<signal, backoff, connected, authority, running, asked, outcome, final>>

-----------------------------------------------------------------------------
(* The tasks of a session. *)

End(t) ==
    /\ t \in running
    /\ running' = running \ {t}
    /\ ended' = ended \cup {t}

\* Supervisor::run ends well only when asked to; it may fail at any time.
SupervisorEnds ==
    /\ End("supervisor")
    /\ supervisor_result' \in {"supervisor"} \cup (IF asked THEN {Ok} ELSE {})
    /\ UNCHANGED <<signal, at, backoff, connected, authority, asked, supervisor_finished,
                   result, usb_cleanup, hardware_cleanup, final>>

\* The event loop or a task of the core, which end for reasons of their own.
TaskEnds(t) ==
    /\ t # "supervisor"
    /\ End(t)
    /\ UNCHANGED <<signal, at, backoff, connected, authority, asked, outcome, final>>

-----------------------------------------------------------------------------
(* The end of a session. *)

\* shutdown_tx.send and tasks.abort_all.
\*
\* Mutation: the supervisor is not told.
LeaveUntold(r) ==
    /\ at' = "cleanup"
    /\ result' = r
    /\ UNCHANGED asked

Leave(r) ==
    /\ at' = "cleanup"
    /\ result' = r
    /\ asked' = TRUE

\* The biased select: the signal, then the supervisor, the event loop, the core.
ServeCancelled ==
    /\ Cancelled
    /\ Leave(Ok)
    /\ UNCHANGED <<ended, supervisor_finished>>

ServeSupervisor ==
    /\ ~Cancelled
    /\ "supervisor" \in ended
    /\ ended' = ended \ {"supervisor"}
    /\ supervisor_finished' = TRUE
    /\ Leave("supervisor")

\* Mutation: an event loop that ends is taken for the end of the session.
ServeEventLoopOk ==
    /\ ~Cancelled
    /\ "supervisor" \notin ended
    /\ "event_loop" \in ended
    /\ ended' = ended \ {"event_loop"}
    /\ Leave(Ok)
    /\ UNCHANGED supervisor_finished

ServeEventLoop ==
    /\ ~Cancelled
    /\ "supervisor" \notin ended
    /\ "event_loop" \in ended
    /\ ended' = ended \ {"event_loop"}
    /\ Leave("task")
    /\ UNCHANGED supervisor_finished

\* Mutation: nobody looks after the core's tasks.
ServeNoCore == FALSE /\ UNCHANGED <<at, ended, result, asked, supervisor_finished>>

ServeCore ==
    /\ ~Cancelled
    /\ ended \cap {"supervisor", "event_loop"} = {}
    /\ \E t \in ended : ended' = ended \ {t}
    /\ Leave("task")
    /\ UNCHANGED supervisor_finished

Serve ==
    /\ at = "serve"
    /\ ServeCancelled \/ ServeSupervisor \/ ServeEventLoop \/ ServeCore
    /\ UNCHANGED <<signal, backoff, connected, authority, running, supervisor_result,
                   usb_cleanup, hardware_cleanup, final>>

\* tokio::join!: hardware_runtime.stop() and the supervisor's end, in any order.
StopRuntime ==
    /\ at = "cleanup"
    /\ authority
    /\ authority' = FALSE
    /\ hardware_cleanup' \in {Ok, "remote"}
    /\ UNCHANGED <<signal, at, backoff, connected, running, ended, asked,
                   supervisor_finished, supervisor_result, result, usb_cleanup, final>>

JoinSupervisor ==
    /\ at = "cleanup"
    /\ ~supervisor_finished
    /\ "supervisor" \in ended
    /\ ended' = ended \ {"supervisor"}
    /\ supervisor_finished' = TRUE
    /\ usb_cleanup' = supervisor_result
    /\ UNCHANGED <<signal, at, backoff, connected, authority, running, asked,
                   supervisor_result, result, hardware_cleanup, final>>

\* Mutation: the remote cleanup's result is forgotten.
LocalResult == And(result, usb_cleanup)

SessionResult == And(And(result, usb_cleanup), hardware_cleanup)

CleanupDone ==
    /\ at = "cleanup"
    /\ ~authority
    /\ supervisor_finished
    /\ at' = "join"
    /\ UNCHANGED <<signal, backoff, parts, outcome, final>>

\* The event loop, then the core's tasks are joined.
\*
\* Mutation: the core's tasks are not waited for.
JoinEventLoop ==
    /\ at = "join"
    /\ "event_loop" \notin running
    /\ ended' = {}
    /\ at' = "close"
    /\ result' = SessionResult
    /\ UNCHANGED <<signal, backoff, connected, authority, running, asked,
                   supervisor_finished, supervisor_result, usb_cleanup, hardware_cleanup,
                   final>>

JoinTasks ==
    /\ at = "join"
    /\ running = {}
    /\ ended' = {}
    /\ at' = "close"
    /\ result' = SessionResult
    /\ UNCHANGED <<signal, backoff, connected, authority, running, asked,
                   supervisor_finished, supervisor_result, usb_cleanup, hardware_cleanup,
                   final>>

Close ==
    /\ at = "close"
    /\ connected' = FALSE
    /\ SessionOver(result)
    /\ UNCHANGED <<signal, backoff, authority, running, ended>>

Step ==
    \/ Begin \/ Backoff \/ Connect \/ SetUp \/ Start \/ UndoStop \/ UndoJoin
    \/ Serve \/ StopRuntime \/ JoinSupervisor \/ CleanupDone \/ JoinTasks \/ Close

Next ==
    \/ Signal \/ Step
    \/ SupervisorEnds
    \/ \E t \in Tasks : TaskEnds(t)

Spec == Init /\ [][Next]_vars

\* The network may never answer at "connect", "setup" and "start": there only the
\* signal is sure to be taken. The supervisor ends once it is asked (Manager's
\* ShutdownEnds), an aborted event loop ends, and stopping the core ends its tasks.
FairSpec ==
    /\ Spec
    /\ WF_vars(Step /\ (at \in {"connect", "setup", "start"} => Cancelled))
    /\ WF_vars(asked /\ SupervisorEnds)
    /\ WF_vars(asked /\ TaskEnds("event_loop"))
    /\ \A t \in CoreTasks : WF_vars(~authority /\ TaskEnds(t))

-----------------------------------------------------------------------------
(* Properties. *)

\* Nothing of a session is left when it is over: before the next one connects, and
\* when the manager returns, the connection is closed, the core's runtime stopped
\* and every task joined.
NothingOutlives ==
    at \in {"begin", "backoff", "connect", "returned"} =>
        /\ ~connected /\ ~authority
        /\ running = {} /\ ended = {}

\* The manager returns for the signal only, however its sessions fail (README:
\* "SIGINT and SIGTERM stop the manager").
OnlySignalEnds == at = "returned" => Cancelled

\* The signal is terminal: no session gets any further after it, and no other one
\* starts (run_until: "Shutdown remains terminal even when remote cleanup fails").
SignalIsTerminal ==
    [][Cancelled /\ at' # at =>
           at' \notin {"connect", "setup", "start", "serve", "backoff"}]_vars

\* A cleanup that fails in the last session makes the manager return an error:
\* the remote cleanup's, the supervisor's or the one that ended the session.
FailureIsReported ==
    at = "returned" /\ (hardware_cleanup # Ok \/ usb_cleanup # Ok) => final # Ok

\* "A remote cleanup failure is reported on exit" (README), whatever else failed.
\* The code does not keep this: run session_remote.
RemoteFailureIsNamed ==
    at = "returned" /\ hardware_cleanup # Ok => final = "remote"

\* The signal ends the manager, at whatever stage it finds it.
SignalEnds == Cancelled ~> at = "returned"

\* A session that lost one of its tasks is taken down as a whole: another session
\* connects, or the manager returns.
BrokenSessionEnds == (at = "serve" /\ ended # {}) ~> (at \in {"connect", "returned"})

=============================================================================
