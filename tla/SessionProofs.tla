----------------------------- MODULE SessionProofs -----------------------------
(***************************************************************************)
(* Proofs about Session, for every set of core tasks and every cap of the  *)
(* retry delay: nothing outlives its session, only the signal ends the     *)
(* manager, the signal is terminal, and a failed cleanup is reported.      *)
(***************************************************************************)
EXTENDS Session, TLAPS

-----------------------------------------------------------------------------
(* The inductive invariant: what each stage has and has not. *)

\* Outside the stages that start tasks and take them down, none is there.
Tasked == {"serve", "undo", "cleanup", "join"}

Emptied == at \notin Tasked => running = {} /\ ended = {}

\* The core's runtime is held from the end of its set-up to stop() only, and the
\* connection to the end of the session.
Held ==
    /\ at \notin {"start", "serve", "undo", "cleanup"} => ~authority
    /\ at \in {"begin", "backoff", "connect", "returned"} => ~connected

\* A session that ends well was cancelled.
Excused ==
    /\ at \in {"undo", "cleanup", "join", "close"} /\ result = Ok => Cancelled
    /\ at = "returned" => Cancelled

\* A cleanup that failed is in the result, once the result is made up.
Accounted ==
    /\ at \in {"begin", "backoff", "connect", "setup", "start"} =>
          hardware_cleanup = Ok /\ usb_cleanup = Ok
    /\ at = "undo" => usb_cleanup = Ok
    /\ at \in {"undo", "close"} /\ (hardware_cleanup # Ok \/ usb_cleanup # Ok) =>
          result # Ok
    /\ FailureIsReported

IInv == TypeOK /\ Emptied /\ Held /\ Excused /\ Accounted

\* The names of the stages and of the results are told apart by what they stand for.
USE DEF Ok, Errors, Results, Tasks, Stages, Cancelled

\* The initial state has nothing and owes nothing.
LEMMA InitHolds == Init => IInv
  <1> SUFFICES ASSUME Init PROVE IInv
    OBVIOUS
  <1>1. TypeOK
    <2>1. backoff \in 1..MaxBackoff
      BY SessionAssumption DEF Init
    <2>2. {connected, authority, asked, supervisor_finished} \subseteq BOOLEAN
      BY DEF Init
    <2> QED
      BY <2>1, <2>2 DEF Init, TypeOK
  <1>2. Emptied /\ Held /\ Excused /\ Accounted
    BY DEF Init, Emptied, Held, Excused, Accounted, Tasked, FailureIsReported
  <1> QED
    BY <1>1, <1>2 DEF IInv

\* The delay stays within its cap.
LEMMA BackoffCapped ==
  ASSUME backoff \in 1..MaxBackoff
  PROVE  NextBackoff \in 1..MaxBackoff
  BY SessionAssumption DEF NextBackoff

\* Result::and is Ok only of two results that are.
LEMMA AndResults ==
  ASSUME NEW r \in Results, NEW s \in Results
  PROVE  /\ And(r, s) \in Results
         /\ And(r, s) = Ok <=> r = Ok /\ s = Ok
  BY DEF And

\* What a session that is over leaves, whether the manager returns or retries.
LEMMA OverKeeps ==
  ASSUME IInv, NEW r \in Results, SessionOver(r), UNCHANGED signal,
         r = Ok => Cancelled,
         r = Ok => hardware_cleanup = Ok /\ usb_cleanup = Ok
  PROVE  /\ at' \in {"returned", "backoff"}
         /\ final' \in Results
         /\ asked' \in BOOLEAN
         /\ supervisor_finished' \in BOOLEAN /\ supervisor_result' \in {Ok, "supervisor"}
         /\ result' \in Results /\ usb_cleanup' \in {Ok, "supervisor"}
         /\ hardware_cleanup' \in {Ok, "remote"}
         /\ at' = "returned" => Cancelled'
         /\ at' = "backoff" => hardware_cleanup' = Ok /\ usb_cleanup' = Ok
         /\ FailureIsReported'
  <1>1. CASE Return(r) /\ UNCHANGED <<asked, outcome>> /\ Cancelled
    <2>1. And(signal, r) \in Results /\ (And(signal, r) = Ok => r = Ok)
      BY <1>1, AndResults DEF IInv, TypeOK
    <2> QED
      BY <1>1, <2>1 DEF Return, outcome, IInv, TypeOK, FailureIsReported
  <1>2. CASE Retry
    BY <1>2 DEF Retry, Fresh, IInv, TypeOK, FailureIsReported
  <1> QED
    BY <1>1, <1>2 DEF SessionOver

\* The same of a return to retry_sessions without a session.
LEMMA ReturnKeeps ==
  ASSUME IInv, Return(Ok), UNCHANGED signal, Cancelled
  PROVE  at' = "returned" /\ final' \in Results
  <1>1. And(signal, Ok) \in Results
    BY AndResults DEF IInv, TypeOK
  <1> QED
    BY <1>1 DEF Return

\* Every step keeps the invariant.
LEMMA NextHolds == IInv /\ [Next]_vars => IInv'
  <1> SUFFICES ASSUME IInv, [Next]_vars PROVE IInv'
    OBVIOUS
  <1> USE DEF IInv, TypeOK, Emptied, Held, Excused, Accounted, Tasked, FailureIsReported
  <1>1. CASE Signal
    BY <1>1 DEF Signal, parts, outcome
  <1>2. CASE Begin
    <2>1. CASE Cancelled
      BY <1>2, <2>1, ReturnKeeps DEF Begin, parts, outcome
    <2>2. CASE ~Cancelled
      BY <1>2, <2>2 DEF Begin, parts, outcome
    <2> QED
      BY <2>1, <2>2
  <1>3. CASE Backoff
    <2>1. CASE Cancelled
      BY <1>3, <2>1, ReturnKeeps DEF Backoff, parts, outcome
    <2>2. CASE ~Cancelled
      BY <1>3, <2>2, BackoffCapped DEF Backoff, parts, outcome
    <2> QED
      BY <2>1, <2>2
  <1>4. CASE Connect
    <2>1. CASE Cancelled /\ SessionOver(Ok) /\ UNCHANGED connected
      BY <1>4, <2>1, OverKeeps DEF Connect
    <2>2. CASE ~Cancelled /\ SessionOver("connect") /\ UNCHANGED connected
      BY <1>4, <2>2, OverKeeps DEF Connect
    <2>3. CASE at' = "setup" /\ UNCHANGED <<asked, outcome, final>> /\ connected' = TRUE
      BY <1>4, <2>3 DEF Connect, outcome
    <2> QED
      BY <1>4, <2>1, <2>2, <2>3 DEF Connect
  <1>5. CASE SetUp
    <2>1. authority' \in BOOLEAN
      BY <1>5 DEF SetUp
    <2> QED
      BY <1>5, <2>1 DEF SetUp
  <1>6. CASE Start
    BY <1>6 DEF Start
  <1>7. CASE UndoStop
    <2> PICK r \in {Ok, "remote"} :
            hardware_cleanup' = r /\ result' = And(result, r)
      BY <1>7 DEF UndoStop
    <2>1. result' \in Results /\ (result' = Ok <=> result = Ok /\ r = Ok)
      BY AndResults
    <2>2. authority' \in BOOLEAN
      BY <1>7 DEF UndoStop
    <2> QED
      BY <1>7, <2>1, <2>2 DEF UndoStop
  <1>8. CASE UndoJoin
    BY <1>8 DEF UndoJoin, outcome
  <1>9. CASE Serve
    <2>1. /\ at' = "cleanup" /\ asked' \in BOOLEAN /\ supervisor_finished' \in BOOLEAN
          /\ ended' \subseteq ended
          /\ result' \in Results /\ (result' = Ok => Cancelled)
      BY <1>9 DEF Serve, ServeCancelled, ServeSupervisor, ServeEventLoop, ServeCore, Leave
    <2> QED
      BY <1>9, <2>1 DEF Serve
  <1>10. CASE StopRuntime
    <2>1. authority' \in BOOLEAN
      BY <1>10 DEF StopRuntime
    <2> QED
      BY <1>10, <2>1 DEF StopRuntime
  <1>11. CASE JoinSupervisor
    BY <1>11 DEF JoinSupervisor
  <1>12. CASE CleanupDone
    BY <1>12 DEF CleanupDone, parts, outcome
  <1>13. CASE JoinTasks
    <2>1. /\ SessionResult \in Results
          /\ SessionResult = Ok => result = Ok /\ usb_cleanup = Ok /\ hardware_cleanup = Ok
      BY AndResults DEF SessionResult
    <2> QED
      BY <1>13, <2>1 DEF JoinTasks
  <1>14. CASE Close
    BY <1>14, OverKeeps DEF Close
  <1>15. CASE SupervisorEnds
    BY <1>15 DEF SupervisorEnds, End
  <1>16. ASSUME NEW t \in Tasks, TaskEnds(t) PROVE IInv'
    BY <1>16 DEF TaskEnds, End, outcome
  <1>17. CASE UNCHANGED vars
    BY <1>17 DEF vars, parts, outcome
  <1> QED
    BY <1>1, <1>2, <1>3, <1>4, <1>5, <1>6, <1>7, <1>8, <1>9, <1>10, <1>11, <1>12,
       <1>13, <1>14, <1>15, <1>16, <1>17 DEF Next, Step

-----------------------------------------------------------------------------
(* The theorems. *)

\* The invariant holds throughout.
LEMMA Invariance == Spec => []IInv
  BY InitHolds, NextHolds, PTL DEF Spec

\* The manager's state stays well typed; the delay stays within MAX_BACKOFF_SECS.
THEOREM TypeCorrect == Spec => []TypeOK
  <1>1. IInv => TypeOK
    BY DEF IInv
  <1> QED
    BY <1>1, Invariance, PTL

\* Nothing of a session is left when the next one connects or the manager returns.
THEOREM SessionsLeaveNothing == Spec => []NothingOutlives
  <1>1. IInv => NothingOutlives
    BY DEF IInv, Emptied, Held, Tasked, NothingOutlives
  <1> QED
    BY <1>1, Invariance, PTL

\* The manager returns for the signal only.
THEOREM ReturnsForTheSignal == Spec => []OnlySignalEnds
  <1>1. IInv => OnlySignalEnds
    BY DEF IInv, Excused, OnlySignalEnds
  <1> QED
    BY <1>1, Invariance, PTL

\* A cleanup that fails in the last session makes the manager return an error.
THEOREM CleanupFailuresSurface == Spec => []FailureIsReported
  <1>1. IInv => FailureIsReported
    BY DEF IInv, Accounted
  <1> QED
    BY <1>1, Invariance, PTL

\* After the signal no session gets further and none is started.
THEOREM TerminalSignal == Spec => SignalIsTerminal
  <1> DEFINE Live == {"connect", "setup", "start", "serve", "backoff"}
  <1>1. ASSUME [Next]_vars, Cancelled, at' # at PROVE at' \notin Live
    <2>1. CASE Step
      BY <1>1, <2>1
         DEF Step, Begin, Backoff, Connect, SetUp, Start, UndoStop, UndoJoin, Serve,
             ServeCancelled, ServeSupervisor, ServeEventLoop, ServeCore, Leave,
             StopRuntime, JoinSupervisor, CleanupDone, JoinTasks, Close, SessionOver, Return
    <2>2. CASE ~Step
      BY <1>1, <2>2 DEF Next, Signal, SupervisorEnds, TaskEnds, vars
    <2> QED
      BY <2>1, <2>2
  <1>2. [Next]_vars =>
            [Cancelled /\ at' # at =>
                 at' \notin {"connect", "setup", "start", "serve", "backoff"}]_vars
    BY <1>1
  <1> QED
    BY <1>2, PTL DEF Spec, SignalIsTerminal

=============================================================================
