----------------------------- MODULE ManagerProofs -----------------------------
(***************************************************************************)
(* Proofs about the supervisor within the manager, for every set of paths, *)
(* any number of workers and faults: no two threads work on one panel, no  *)
(* thread is forgotten while it runs, and all have ended when the          *)
(* supervisor returns.                                                     *)
(***************************************************************************)
EXTENDS Manager, FiniteSetTheorems, TLAPS

-----------------------------------------------------------------------------
(* The inductive invariant. *)

InFlight == [kind : ReportKinds, worker_id : Workers, path_key : Paths]

\* Everything but the events to the manager, which never come back.
Typed ==
    /\ path_key \in [Workers -> Paths]
    /\ thread \in [Workers -> ThreadStates]
    /\ stopped \subseteq Workers
    /\ worker_rx \in Seq(InFlight)
    /\ next_worker_id \in 0..MaxWorkers
    /\ launched \in [Paths -> 0..MaxWorkers]
    /\ active \in [Paths -> 0..MaxWorkers]
    /\ owned \subseteq Workers
    /\ snapshot \subseteq Paths /\ plugged \subseteq Paths

\* Ids are given out in order: a worker beyond the last one has no thread.
Numbered == \A i \in Workers : i > next_worker_id <=> thread[i] = "unborn"

\* A thread that runs is owned, and the threads owned are of different paths.
Busy == {"starting", "opened", "serving", "reported"}
Owned ==
    /\ \A i \in Workers : thread[i] \in Busy => i \in owned
    /\ \A i \in owned : thread[i] # "unborn"
    /\ \A i, j \in owned : path_key[i] = path_key[j] => i = j
    /\ phase = "done" => owned = {}

\* The tables hold workers of their path, and never one launched beside one active.
Tables ==
    \A p \in Paths :
        /\ launched[p] # None => path_key[launched[p]] = p /\ thread[launched[p]] # "unborn"
        /\ active[p] # None => path_key[active[p]] = p /\ thread[active[p]] # "unborn"
        /\ launched[p] # None => active[p] = None

\* A report names its worker's path, and a final one comes from a thread past its work.
Truthful ==
    \A k \in 1..Len(worker_rx) :
        LET report == worker_rx[k] IN
        /\ report.path_key = path_key[report.worker_id]
        /\ thread[report.worker_id] # "unborn"
        /\ report.kind \in {"Disconnected", "Failed"} => ~Alive(report.worker_id)

IInv == Typed /\ Numbered /\ Owned /\ Tables /\ Truthful /\ NoOrphan

USE DEF None, ThreadStates

-----------------------------------------------------------------------------
(* The threads. *)

\* A thread moves on, perhaps with a report: it does not come back to life, and a
\* final report comes with the end of its work.
LEMMA ThreadMoves ==
    ASSUME IInv, NEW i \in Workers, NEW state \in ThreadStates \ {"unborn"},
           thread[i] # "unborn", Move(i, state),
           state \in Busy => thread[i] \in Busy,
           state \in {"starting", "opened", "serving"} => Alive(i),
           \/ UNCHANGED worker_rx
           \/ \E kind \in ReportKinds :
                 /\ Send(Report(kind, i))
                 /\ kind \in {"Disconnected", "Failed"} =>
                        state \notin {"starting", "opened", "serving"},
           UNCHANGED <<path_key, stopped, registry, phase, snapshot, plugged>>
    PROVE  IInv'
<1> USE DEF IInv, Typed, Move, registry, Alive
<1>1. /\ thread' \in [Workers -> ThreadStates]
      /\ thread'[i] = state
      /\ \A j \in Workers : j # i => thread'[j] = thread[j]
  OBVIOUS
<1>2. Numbered'
  BY <1>1 DEF Numbered
<1>3. Owned'
  BY <1>1 DEF Owned, Busy
<1>4. Tables'
  BY <1>1 DEF Tables, Workers
<1>5. NoOrphan'
  BY <1>1 DEF NoOrphan
<1>6. CASE UNCHANGED worker_rx
  <2>1. Truthful'
    BY <1>1, <1>6 DEF Truthful, InFlight
  <2> QED
    BY <1>1, <1>2, <1>3, <1>4, <1>5, <1>6, <2>1
<1>7. ASSUME NEW kind \in ReportKinds, Send(Report(kind, i)),
             kind \in {"Disconnected", "Failed"} =>
                 state \notin {"starting", "opened", "serving"}
      PROVE  IInv'
  <2> DEFINE report == Report(kind, i)
  <2>1. /\ report \in InFlight
        /\ report.kind = kind /\ report.worker_id = i /\ report.path_key = path_key[i]
    BY DEF Report, InFlight
  <2>2. /\ worker_rx' \in Seq(InFlight)
        /\ Len(worker_rx') = Len(worker_rx) + 1
        /\ worker_rx'[Len(worker_rx) + 1] = report
        /\ \A k \in 1..Len(worker_rx) : worker_rx'[k] = worker_rx[k]
    BY <1>7, <2>1 DEF Send
  <2>3. Truthful'
    <3> SUFFICES ASSUME NEW k \in 1..Len(worker_rx')
                 PROVE  /\ worker_rx'[k].path_key = path_key[worker_rx'[k].worker_id]
                        /\ thread'[worker_rx'[k].worker_id] # "unborn"
                        /\ worker_rx'[k].kind \in {"Disconnected", "Failed"} =>
                               thread'[worker_rx'[k].worker_id]
                                   \notin {"starting", "opened", "serving"}
      BY DEF Truthful
    <3>1. CASE k = Len(worker_rx) + 1
      BY <1>1, <1>7, <2>1, <2>2, <3>1
    <3>2. CASE k \in 1..Len(worker_rx)
      <4>1. worker_rx[k] \in InFlight /\ worker_rx'[k] = worker_rx[k]
        BY <2>2, <3>2
      <4> QED
        BY <1>1, <3>2, <4>1 DEF Truthful, InFlight
    <3> QED
      BY <2>2, <3>1, <3>2
  <2> HIDE DEF report
  <2> QED
    BY <1>1, <1>2, <1>3, <1>4, <1>5, <2>2, <2>3
<1> QED
  BY <1>6, <1>7

\* What a thread does by itself, what a panel makes it do, and what ends it.
LEMMA ThreadsKeep ==
    ASSUME IInv, NEW i \in Workers,
           ThreadStep(i) \/ SendInput(i) \/ FailUsb(i) \/ Panic(i)
    PROVE  IInv'
<1> USE DEF environment, control, ReportAnd, Busy, Alive
<1>0. thread[i] = thread[i] /\ thread \in [Workers -> ThreadStates]
  BY DEF IInv, Typed
<1>1. CASE ThreadStep(i)
  <2> USE <1>1 DEF ThreadStep
  <2>1. CASE OpenDevice(i)
    BY <2>1, ThreadMoves DEF OpenDevice
  <2>2. CASE OpenFails(i)
    BY <2>2, ThreadMoves DEF OpenFails, ReportKinds
  <2>3. CASE Announce(i)
    BY <2>3, ThreadMoves DEF Announce, ReportKinds
  <2>4. CASE ObserveStop(i)
    BY <2>4, ThreadMoves DEF ObserveStop, ReportKinds
  <2>5. CASE FailDead(i)
    BY <2>5, ThreadMoves DEF FailDead, ReportKinds
  <2>6. CASE Finish(i)
    BY <2>6, ThreadMoves DEF Finish
  <2> QED
    BY <2>1, <2>2, <2>3, <2>4, <2>5, <2>6
<1>2. CASE SendInput(i)
  <2>1. Move(i, "serving")
    BY <1>0, <1>2 DEF SendInput, Move
  <2> QED
    BY <1>2, <2>1, ThreadMoves DEF SendInput, ReportKinds
<1>3. CASE FailUsb(i)
  BY <1>3, ThreadMoves DEF FailUsb, ReportKinds
<1>4. CASE Panic(i)
  BY <1>4, ThreadMoves DEF Panic
<1> QED
  BY <1>1, <1>2, <1>3, <1>4

-----------------------------------------------------------------------------
(* The supervisor's handling of a report. *)

\* The report in hand is about a worker that was launched, at its path; those behind
\* it stay as they are.
LEMMA ReportInHand ==
    ASSUME IInv, worker_rx # <<>>
    PROVE  /\ Next1 \in InFlight
           /\ Next1.path_key = path_key[Next1.worker_id]
           /\ thread[Next1.worker_id] # "unborn"
           /\ Next1.kind \in {"Disconnected", "Failed"} => ~Alive(Next1.worker_id)
           /\ Tail(worker_rx) \in Seq(InFlight)
           /\ Len(Tail(worker_rx)) = Len(worker_rx) - 1
           /\ \A k \in 1..Len(Tail(worker_rx)) :
                 k + 1 \in 1..Len(worker_rx) /\ Tail(worker_rx)[k] = worker_rx[k + 1]
<1>1. worker_rx \in Seq(InFlight) /\ Len(worker_rx) \in Nat \ {0}
  BY DEF IInv, Typed
<1>2. 1 \in 1..Len(worker_rx) /\ Next1 = worker_rx[1]
  BY <1>1 DEF Next1
<1>3. Next1 \in InFlight
  BY <1>1, <1>2
<1>4. /\ Tail(worker_rx) \in Seq(InFlight)
      /\ Len(Tail(worker_rx)) = Len(worker_rx) - 1
      /\ \A k \in 1..Len(Tail(worker_rx)) :
            k + 1 \in 1..Len(worker_rx) /\ Tail(worker_rx)[k] = worker_rx[k + 1]
  BY <1>1
<1> QED
  BY <1>2, <1>3, <1>4 DEF IInv, Truthful

\* A report handled: the tables change for its worker at most, and a worker that
\* falls out of them is past its work or told to stop.
LEMMA ReportKeeps == IInv /\ HandleWorkerReport => IInv'
<1> SUFFICES ASSUME IInv, HandleWorkerReport
             PROVE  IInv'
  OBVIOUS
<1> DEFINE i == Next1.worker_id
           q == Next1.path_key
<1>1. /\ worker_rx # <<>>
      /\ worker_rx' = Tail(worker_rx)
      /\ UNCHANGED <<path_key, thread, next_worker_id, owned, phase, snapshot, plugged>>
  BY DEF HandleWorkerReport, environment
<1>2. /\ i \in Workers /\ q \in Paths /\ q = path_key[i] /\ thread[i] # "unborn"
      /\ i # None
      /\ Next1.kind \in {"Disconnected", "Failed"} => ~Alive(i)
  BY <1>1, ReportInHand DEF InFlight, Workers
<1>3. Numbered' /\ Owned'
  BY <1>1 DEF IInv, Numbered, Owned
<1>4. Truthful' /\ worker_rx' \in Seq(InFlight)
  BY <1>1, ReportInHand DEF IInv, Truthful, Alive
<1>5. ASSUME launched' \in [Paths -> 0..MaxWorkers], active' \in [Paths -> 0..MaxWorkers],
             stopped' \subseteq Workers, Tables', NoOrphan'
      PROVE  IInv'
  BY <1>1, <1>3, <1>4, <1>5 DEF IInv, Typed
<1> HIDE DEF i, q
<1>6. /\ launched \in [Paths -> 0..MaxWorkers] /\ active \in [Paths -> 0..MaxWorkers]
      /\ stopped \subseteq Workers
  BY DEF IInv, Typed
<1>7. CASE HandleConnected
  <2>1. CASE launched[q] = i
    <3>1. /\ launched' = [launched EXCEPT ![q] = None]
          /\ active' = [active EXCEPT ![q] = i]
          /\ UNCHANGED stopped
      BY <1>7, <2>1 DEF HandleConnected, i, q
    <3>2. /\ launched' \in [Paths -> 0..MaxWorkers] /\ active' \in [Paths -> 0..MaxWorkers]
          /\ launched'[q] = None /\ active'[q] = i
          /\ \A p \in Paths \ {q} : launched'[p] = launched[p] /\ active'[p] = active[p]
      BY <1>2, <1>6, <3>1, SupervisorAssumption DEF Workers
    <3>3. Tables'
      BY <1>1, <1>2, <3>2 DEF IInv, Tables
    <3>4. NoOrphan'
      <4> SUFFICES ASSUME NEW j \in Workers, Alive(j)'
                   PROVE  (\/ launched[path_key[j]] = j
                           \/ active[path_key[j]] = j
                           \/ j \in stopped)'
        BY DEF NoOrphan
      <4>1. Alive(j) /\ path_key[j] \in Paths
        BY <1>1 DEF Alive, IInv, Typed
      <4>2. CASE path_key[j] = q
        BY <1>1, <1>2, <2>1, <3>1, <3>2, <4>1, <4>2 DEF IInv, NoOrphan, Tables
      <4>3. CASE path_key[j] # q
        BY <1>1, <3>1, <3>2, <4>1, <4>3 DEF IInv, NoOrphan
      <4> QED
        BY <4>2, <4>3
    <3> QED
      BY <1>5, <1>6, <3>1, <3>2, <3>3, <3>4
  <2>2. CASE launched[q] # i
    <3>1. stopped' = stopped \cup {i} /\ UNCHANGED <<launched, active>>
      BY <1>2, <1>7, <2>2 DEF HandleConnected, SendStop, i, q
    <3>2. Tables' /\ NoOrphan'
      BY <1>1, <3>1 DEF IInv, Tables, NoOrphan, Alive
    <3> QED
      BY <1>2, <1>5, <1>6, <3>1, <3>2
  <2> QED
    BY <2>1, <2>2
<1>8. CASE HandleInput
  <2>1. UNCHANGED <<launched, active, stopped>>
    BY <1>8 DEF HandleInput
  <2>2. Tables' /\ NoOrphan'
    BY <1>1, <2>1 DEF IInv, Tables, NoOrphan, Alive
  <2> QED
    BY <1>5, <1>6, <2>1, <2>2
<1>9. ASSUME ~Alive(i), UNCHANGED stopped,
             active' \in [Paths -> 0..MaxWorkers],
             \A p \in Paths : active'[p] = active[p] \/ (active[p] = i /\ active'[p] = None),
             launched' \in [Paths -> 0..MaxWorkers],
             \A p \in Paths :
                 launched'[p] = launched[p] \/ (launched[p] = i /\ launched'[p] = None)
      PROVE  IInv'
  <2>1. Tables'
    BY <1>1, <1>9 DEF IInv, Tables
  <2>2. NoOrphan'
    <3> SUFFICES ASSUME NEW j \in Workers, Alive(j)'
                 PROVE  (\/ launched[path_key[j]] = j
                         \/ active[path_key[j]] = j
                         \/ j \in stopped)'
      BY DEF NoOrphan
    <3>1. Alive(j) /\ path_key[j] \in Paths /\ j # i
      BY <1>1, <1>9 DEF Alive, IInv, Typed
    <3> QED
      BY <1>1, <1>9, <3>1 DEF IInv, NoOrphan
  <2> QED
    BY <1>5, <1>6, <1>9, <2>1, <2>2
<1>10. CASE HandleDisconnected
  <2>1. /\ ~Alive(i)
        /\ active' = Forget(active, {i})
        /\ launched' = launched \/ launched' = Forget(launched, {i})
        /\ UNCHANGED stopped
    BY <1>2, <1>10 DEF HandleDisconnected, i
  <2>2. /\ active' \in [Paths -> 0..MaxWorkers]
        /\ \A p \in Paths : active'[p] = active[p] \/ (active[p] = i /\ active'[p] = None)
    BY <1>6, <2>1, SupervisorAssumption DEF Forget
  <2>3. /\ launched' \in [Paths -> 0..MaxWorkers]
        /\ \A p \in Paths :
              launched'[p] = launched[p] \/ (launched[p] = i /\ launched'[p] = None)
    BY <1>6, <2>1, SupervisorAssumption DEF Forget
  <2> QED
    BY <1>9, <2>1, <2>2, <2>3
<1>11. CASE HandleFailed
  <2>1. /\ ~Alive(i)
        /\ active' = Forget(active, {i})
        /\ launched' = [p \in Paths |->
              IF active[p] = None /\ launched[p] \in {i} THEN None ELSE launched[p]]
        /\ UNCHANGED stopped
    BY <1>2, <1>11 DEF HandleFailed, WithoutLaunched, i
  <2>2. /\ active' \in [Paths -> 0..MaxWorkers]
        /\ \A p \in Paths : active'[p] = active[p] \/ (active[p] = i /\ active'[p] = None)
    BY <1>6, <2>1, SupervisorAssumption DEF Forget
  <2>3. /\ launched' \in [Paths -> 0..MaxWorkers]
        /\ \A p \in Paths :
              launched'[p] = launched[p] \/ (launched[p] = i /\ launched'[p] = None)
    BY <1>6, <2>1, SupervisorAssumption
  <2> QED
    BY <1>9, <2>1, <2>2, <2>3
<1> QED
  BY <1>7, <1>8, <1>10, <1>11 DEF HandleWorkerReport

-----------------------------------------------------------------------------
(* Reconciliation. *)

\* A finite set listed as a sequence: each element of the sequence is of the set and
\* comes once.
LEMMA Listed ==
    ASSUME NEW S, IsFiniteSet(S)
    PROVE  /\ SetToSeq(S) \in Seq(S)
           /\ DOMAIN SetToSeq(S) = 1..Len(SetToSeq(S))
           /\ Len(SetToSeq(S)) \in Nat
           /\ \A j, k \in 1..Len(SetToSeq(S)) : SetToSeq(S)[j] = SetToSeq(S)[k] => j = k
<1>1. Cardinality(S) \in Nat /\ ExistsBijection(1..Cardinality(S), S)
  BY FS_CardinalityType
<1>2. PICK f \in [1..Cardinality(S) -> S] : IsInjective(f)
  BY <1>1 DEF ExistsBijection, Bijection, Injection
<1>3. SetToSeq(S) \in [1..Cardinality(S) -> S] /\ IsInjective(SetToSeq(S))
  BY <1>2 DEF SetToSeq
<1>4. SetToSeq(S) \in Seq(S) /\ Len(SetToSeq(S)) = Cardinality(S)
  BY <1>1, <1>3
<1> QED
  BY <1>1, <1>3, <1>4 DEF IsInjective

\* Discovery keeps the invariant: a path gets a thread only when no thread that is
\* still owned is of that path, and whoever loses its place in the tables has ended
\* in a panic or is told to stop.
LEMMA ReconcileKeeps == IInv /\ Reconcile => IInv'
<1> SUFFICES ASSUME IInv, Reconcile
             PROVE  IInv'
  OBVIOUS
<1> DEFINE reaped == {i \in owned : thread[i] \in {"finished", "panicked"}}
           crashed == {i \in reaped : thread[i] = "panicked"}
           active1 == Forget(active, crashed)
           launched1 == WithoutLaunched(crashed)
           gone == Paths \ snapshot
           gone_active == {active1[p] : p \in gone} \ {None}
           gone_launched == {launched1[p] : p \in gone} \ {None}
           active2 == Forget(active1, gone_active)
           launched2 == Forget(launched1, gone_launched)
           left == owned \ reaped
           fresh == SetToSeq(Unserved(active2, launched2, left))
           Id(k) == next_worker_id + k
           new == {Id(k) : k \in DOMAIN fresh}
<1>1. /\ next_worker_id + Len(fresh) <= MaxWorkers
      /\ next_worker_id' = next_worker_id + Len(fresh)
      /\ active' = active2
      /\ launched' = [p \in Paths |->
            IF \E k \in DOMAIN fresh : fresh[k] = p
            THEN Id(CHOOSE k \in DOMAIN fresh : fresh[k] = p)
            ELSE launched2[p]]
      /\ owned' = left \cup new
      /\ path_key' = [i \in Workers |->
            IF i \in new THEN fresh[i - next_worker_id] ELSE path_key[i]]
      /\ thread' = [i \in Workers |-> IF i \in new THEN "starting" ELSE thread[i]]
      /\ SendStop(gone_active \cup gone_launched)
      /\ phase' = "select" /\ snapshot' = {}
      /\ UNCHANGED <<worker_rx, plugged>>
  BY DEF Reconcile, environment
<1> HIDE DEF active2, launched2, fresh, new
<1>2. /\ fresh \in Seq(Paths) /\ DOMAIN fresh = 1..Len(fresh) /\ Len(fresh) \in Nat
      /\ \A j, k \in 1..Len(fresh) : fresh[j] = fresh[k] => j = k
      /\ \A k \in 1..Len(fresh) : fresh[k] \in Unserved(active2, launched2, left)
  <2> DEFINE U == Unserved(active2, launched2, left)
  <2>1. U \subseteq Paths /\ IsFiniteSet(U)
    BY SupervisorAssumption, FS_Subset DEF Unserved, IInv, Typed
  <2> HIDE DEF U
  <2>2. fresh = SetToSeq(U)
    BY DEF fresh, U
  <2>3. /\ fresh \in Seq(U) /\ DOMAIN fresh = 1..Len(fresh) /\ Len(fresh) \in Nat
        /\ \A j, k \in 1..Len(fresh) : fresh[j] = fresh[k] => j = k
    BY <2>1, <2>2, Listed
  <2>4. \A k \in 1..Len(fresh) : fresh[k] \in U
    BY <2>3
  <2>5. fresh \in Seq(Paths)
    BY <2>1, <2>3
  <2> QED
    BY <2>3, <2>4, <2>5 DEF U
<1>3. \A i \in Workers : /\ i \in new <=> i > next_worker_id /\ i <= next_worker_id'
                         /\ i \in new => i - next_worker_id \in 1..Len(fresh)
  <2>1. next_worker_id \in Nat
    BY DEF IInv, Typed
  <2> TAKE i \in Workers
  <2>2. ASSUME i \in new
        PROVE  /\ i > next_worker_id /\ i <= next_worker_id'
               /\ i - next_worker_id \in 1..Len(fresh)
    BY <1>1, <1>2, <2>1, <2>2 DEF new
  <2>3. ASSUME i > next_worker_id, i <= next_worker_id'
        PROVE  i \in new
    <3>1. i - next_worker_id \in DOMAIN fresh /\ i = Id(i - next_worker_id)
      BY <1>1, <1>2, <2>1, <2>3 DEF Workers
    <3> QED
      BY <3>1 DEF new
  <2> QED
    BY <2>2, <2>3
<1>4. new \subseteq Workers /\ next_worker_id' \in 0..MaxWorkers
  <2>1. next_worker_id \in Nat /\ MaxWorkers \in Nat
    BY SupervisorAssumption DEF IInv, Typed
  <2> QED
    BY <1>1, <1>2, <2>1 DEF new, Workers
<1>5. \A i \in Workers : thread[i] # "unborn" => i \notin new
  BY <1>3 DEF IInv, Numbered
<1>6. \A i \in Workers : /\ i \in new => /\ thread'[i] = "starting"
                                       /\ path_key'[i] = fresh[i - next_worker_id]
                                       /\ path_key'[i] \in Paths
                         /\ i \notin new => thread'[i] = thread[i] /\ path_key'[i] = path_key[i]
  BY <1>1, <1>2, <1>3
<1>7. /\ active2 \in [Paths -> 0..MaxWorkers]
      /\ \A p \in Paths :
            \/ active2[p] = active[p]
            \/ active2[p] = None /\ active[p] \in crashed \cup gone_active
  <2>1. /\ active1 \in [Paths -> 0..MaxWorkers]
        /\ \A p \in Paths : \/ active1[p] = active[p]
                            \/ active1[p] = None /\ active[p] \in crashed
    BY SupervisorAssumption DEF Forget, IInv, Typed
  <2> HIDE DEF active1, crashed, gone_active
  <2>2. /\ active2 \in [Paths -> 0..MaxWorkers]
        /\ \A p \in Paths : \/ active2[p] = active1[p]
                            \/ active2[p] = None /\ active1[p] \in gone_active
    BY <2>1, SupervisorAssumption DEF Forget, active2
  <2> QED
    BY <2>1, <2>2
<1>8. /\ launched2 \in [Paths -> 0..MaxWorkers]
      /\ \A p \in Paths :
            \/ launched2[p] = launched[p]
            \/ launched2[p] = None /\ launched[p] \in crashed \cup gone_launched
  <2>1. /\ launched1 \in [Paths -> 0..MaxWorkers]
        /\ \A p \in Paths : \/ launched1[p] = launched[p]
                            \/ launched1[p] = None /\ launched[p] \in crashed
    BY SupervisorAssumption DEF WithoutLaunched, IInv, Typed
  <2> HIDE DEF launched1, crashed, gone_launched
  <2>2. /\ launched2 \in [Paths -> 0..MaxWorkers]
        /\ \A p \in Paths : \/ launched2[p] = launched1[p]
                            \/ launched2[p] = None /\ launched1[p] \in gone_launched
    BY <2>1, SupervisorAssumption DEF Forget, launched2
  <2> QED
    BY <2>1, <2>2
<1>9. ASSUME NEW p \in Paths
      PROVE  \/ /\ launched'[p] \in new
                /\ path_key'[launched'[p]] = p
                /\ active2[p] = None /\ launched2[p] = None
                /\ \A i \in left : path_key[i] # p
             \/ /\ launched'[p] = launched2[p]
                /\ \A i \in new : path_key'[i] # p
  <2>1. CASE \E k \in DOMAIN fresh : fresh[k] = p
    <3> DEFINE k == CHOOSE k \in DOMAIN fresh : fresh[k] = p
    <3>1. k \in DOMAIN fresh /\ fresh[k] = p
      BY <2>1
    <3> HIDE DEF k
    <3>2. launched'[p] = Id(k)
      BY <1>1, <2>1 DEF k
    <3>3. Id(k) \in new /\ Id(k) \in Workers /\ Id(k) - next_worker_id = k
      <4>1. next_worker_id \in Nat /\ k \in Nat
        BY <1>2, <3>1 DEF IInv, Typed
      <4> QED
        BY <1>4, <3>1, <4>1 DEF new
    <3>4. path_key'[Id(k)] = p
      BY <1>6, <3>1, <3>3
    <3>5. p \in Unserved(active2, launched2, left)
      BY <1>2, <3>1
    <3> QED
      BY <3>2, <3>3, <3>4, <3>5 DEF Unserved
  <2>2. CASE ~ \E k \in DOMAIN fresh : fresh[k] = p
    <3>1. launched'[p] = launched2[p]
      BY <1>1, <2>2
    <3>2. \A i \in new : path_key'[i] # p
      BY <1>2, <1>3, <1>4, <1>6, <2>2
    <3> QED
      BY <3>1, <3>2
  <2> QED
    BY <2>1, <2>2
<1>10. left \subseteq owned /\ (\A i \in owned : thread[i] \in Busy => i \in left)
  BY DEF Busy
<1>11. /\ gone_active \subseteq Workers /\ gone_launched \subseteq Workers
       /\ stopped' = stopped \cup gone_active \cup gone_launched
  <2>1. active1 \in [Paths -> 0..MaxWorkers] /\ launched1 \in [Paths -> 0..MaxWorkers]
    BY SupervisorAssumption DEF Forget, WithoutLaunched, IInv, Typed
  <2> HIDE DEF active1, launched1
  <2>2. gone_active \subseteq Workers /\ gone_launched \subseteq Workers
    BY <2>1, SupervisorAssumption DEF Workers
  <2>3. None \notin gone_active \cup gone_launched
    OBVIOUS
  <2> HIDE DEF gone_active, gone_launched
  <2> QED
    BY <1>1, <2>2, <2>3 DEF SendStop
<1>12. \A i \in crashed : ~Alive(i)
  BY DEF Alive
<1> HIDE DEF crashed, gone_active, gone_launched, left
<1>13. Typed'
  <2>1. path_key' \in [Workers -> Paths] /\ thread' \in [Workers -> ThreadStates]
    BY <1>1, <1>6 DEF IInv, Typed
  <2>2. launched' \in [Paths -> 0..MaxWorkers]
    <3>1. new \subseteq 0..MaxWorkers
      BY <1>4, SupervisorAssumption DEF Workers
    <3>2. \A p \in Paths : launched2[p] \in 0..MaxWorkers
      BY <1>8
    <3>3. \A p \in Paths : launched'[p] \in 0..MaxWorkers
      BY <1>9, <3>1, <3>2
    <3> QED
      BY <1>1, <3>3
  <2>3. owned' \subseteq Workers /\ stopped' \subseteq Workers
    BY <1>1, <1>4, <1>10, <1>11 DEF IInv, Typed
  <2> QED
    BY <1>1, <1>4, <1>7, <2>1, <2>2, <2>3 DEF IInv, Typed
<1>14. Numbered'
  <2> SUFFICES ASSUME NEW i \in Workers
               PROVE  i > next_worker_id' <=> thread'[i] = "unborn"
    BY DEF Numbered
  <2>1. next_worker_id \in Nat /\ next_worker_id <= next_worker_id' /\ i \in Nat
        /\ next_worker_id' \in Nat
    BY <1>1, <1>2, <1>4 DEF IInv, Typed, Workers
  <2>2. CASE i \in new
    BY <1>3, <1>6, <2>1, <2>2
  <2>3. CASE i \notin new
    BY <1>3, <1>6, <2>1, <2>3 DEF IInv, Numbered
  <2> QED
    BY <2>2, <2>3
<1>15. Owned'
  <2>1. \A i \in Workers : thread'[i] \in Busy => i \in owned'
    BY <1>1, <1>6, <1>10 DEF IInv, Owned
  <2>2. \A i \in owned' : thread'[i] # "unborn"
    BY <1>1, <1>4, <1>6, <1>10 DEF IInv, Owned, Typed
  <2>3. ASSUME NEW i \in owned', NEW j \in owned', path_key'[i] = path_key'[j]
        PROVE  i = j
    <3>1. i \in Workers /\ j \in Workers
      BY <1>13 DEF Typed
    <3>2. CASE i \in new /\ j \in new
      <4>1. i - next_worker_id = j - next_worker_id
        BY <1>2, <1>3, <1>6, <2>3, <3>1, <3>2
      <4> QED
        BY <3>1, <4>1 DEF Workers, IInv, Typed
    <3>3. CASE i \notin new /\ j \notin new
      BY <1>1, <1>6, <1>10, <2>3, <3>1, <3>3 DEF IInv, Owned
    <3>4. ASSUME NEW a \in new, NEW b \in left, b \notin new
          PROVE  path_key'[a] # path_key'[b]
      <4>1. path_key'[a] \in Paths /\ path_key'[b] = path_key[b]
        BY <1>4, <1>6, <1>10, <3>4 DEF IInv, Typed
      <4> QED
        BY <1>9, <3>4, <4>1
    <3>5. CASE i \in new /\ j \notin new
      BY <1>1, <2>3, <3>4, <3>5
    <3>6. CASE i \notin new /\ j \in new
      BY <1>1, <2>3, <3>4, <3>6
    <3> QED
      BY <3>2, <3>3, <3>5, <3>6
  <2> QED
    BY <1>1, <2>1, <2>2, <2>3 DEF Owned
<1>16. Tables'
  <2> SUFFICES ASSUME NEW p \in Paths
               PROVE  (/\ launched[p] # None =>
                             path_key[launched[p]] = p /\ thread[launched[p]] # "unborn"
                       /\ active[p] # None =>
                             path_key[active[p]] = p /\ thread[active[p]] # "unborn"
                       /\ launched[p] # None => active[p] = None)'
    BY DEF Tables
  <2>1. ASSUME NEW i \in 0..MaxWorkers, i # None, path_key[i] = p, thread[i] # "unborn"
        PROVE  path_key'[i] = p /\ thread'[i] # "unborn"
    BY <1>5, <1>6, <2>1, SupervisorAssumption DEF Workers
  <2>2. active'[p] # None => path_key'[active'[p]] = p /\ thread'[active'[p]] # "unborn"
    BY <1>1, <1>7, <2>1 DEF IInv, Typed, Tables
  <2>3. CASE launched'[p] = launched2[p]
    <3>1. launched2[p] # None =>
             path_key'[launched2[p]] = p /\ thread'[launched2[p]] # "unborn"
      BY <1>8, <2>1 DEF IInv, Typed, Tables
    <3>2. launched2[p] # None => active2[p] = None
      BY <1>7, <1>8 DEF IInv, Tables
    <3> QED
      BY <1>1, <2>2, <2>3, <3>1, <3>2
  <2>4. CASE launched'[p] \in new /\ path_key'[launched'[p]] = p /\ active2[p] = None
    BY <1>1, <1>4, <1>6, <2>2, <2>4
  <2> QED
    BY <1>9, <2>3, <2>4
<1>17. Truthful'
  <2>1. worker_rx \in Seq(InFlight)
    BY DEF IInv, Typed
  <2>2. ASSUME NEW k \in 1..Len(worker_rx)
        PROVE  /\ worker_rx[k].path_key = path_key'[worker_rx[k].worker_id]
               /\ thread'[worker_rx[k].worker_id] # "unborn"
               /\ worker_rx[k].kind \in {"Disconnected", "Failed"} =>
                      ~(Alive(worker_rx[k].worker_id)')
    <3>1. worker_rx[k] \in InFlight
      BY <2>1
    <3>2. worker_rx[k].worker_id \in Workers
      BY <3>1 DEF InFlight
    <3>3. /\ worker_rx[k].path_key = path_key[worker_rx[k].worker_id]
          /\ thread[worker_rx[k].worker_id] # "unborn"
          /\ worker_rx[k].kind \in {"Disconnected", "Failed"} =>
                 ~Alive(worker_rx[k].worker_id)
      <4>1. Truthful
        BY DEF IInv
      <4> QED
        BY <4>1 DEF Truthful
    <3>4. \A j \in Workers : thread[j] # "unborn" =>
             /\ path_key'[j] = path_key[j] /\ thread'[j] = thread[j]
      BY <1>5, <1>6
    <3> QED
      BY <1>1, <3>2, <3>3, <3>4 DEF Alive
  <2> QED
    BY <1>1, <2>2 DEF Truthful
<1>18. NoOrphan'
  <2> SUFFICES ASSUME NEW j \in Workers, Alive(j)'
               PROVE  (\/ launched[path_key[j]] = j
                       \/ active[path_key[j]] = j
                       \/ j \in stopped)'
    BY DEF NoOrphan
  <2>1. CASE j \in new
    <3> DEFINE p == path_key'[j]
    <3>1. p \in Paths
      BY <1>6, <2>1
    <3>2. launched'[p] \in new /\ path_key'[launched'[p]] = p
      BY <1>9, <2>1, <3>1
    <3>3. launched'[p] = j
      BY <1>1, <1>15, <2>1, <3>2 DEF Owned
    <3> QED
      BY <3>3
  <2>2. CASE j \notin new
    <3> DEFINE p == path_key[j]
    <3>1. Alive(j) /\ path_key'[j] = p /\ p \in Paths /\ j \notin crashed
      BY <1>6, <1>12, <2>2 DEF Alive, IInv, Typed
    <3> HIDE DEF p
    <3>2. CASE active[p] = j
      BY <1>1, <1>7, <1>11, <3>1, <3>2
    <3>3. CASE launched[p] = j
      <4>1. CASE launched2[p] = j
        BY <1>9, <3>1, <4>1 DEF Workers
      <4>2. CASE launched2[p] # j
        BY <1>8, <1>11, <3>1, <3>3, <4>2
      <4> QED
        BY <4>1, <4>2
    <3>4. CASE j \in stopped
      BY <1>11, <3>4
    <3> QED
      BY <3>1, <3>2, <3>3, <3>4 DEF IInv, NoOrphan, p
  <2> QED
    BY <2>1, <2>2
<1> QED
  BY <1>13, <1>14, <1>15, <1>16, <1>17, <1>18 DEF IInv

-----------------------------------------------------------------------------
(* The other steps, and the theorems. *)

\* The initial state: no worker yet.
LEMMA InitHolds == Init => IInv
<1> SUFFICES ASSUME Init
             PROVE  IInv
  OBVIOUS
<1> USE DEF Init, SInit
<1>1. Typed
  <2>1. (CHOOSE p \in Paths : TRUE) \in Paths
    BY SupervisorAssumption
  <2>2. 0 \in 0..MaxWorkers
    BY SupervisorAssumption
  <2>3. worker_rx \in Seq(InFlight)
    OBVIOUS
  <2> QED
    BY <2>1, <2>2, <2>3 DEF Typed
<1>2. Numbered
  BY DEF Numbered, Workers
<1>3. Owned /\ Tables /\ NoOrphan
  BY DEF Owned, Busy, Tables, NoOrphan, Alive
<1>4. Truthful
  BY DEF Truthful
<1> QED
  BY <1>1, <1>2, <1>3, <1>4 DEF IInv

\* Steps that touch neither threads nor tables, except to stop threads.
LEMMA StopsKeep ==
    ASSUME IInv, stopped \subseteq stopped', stopped' \subseteq Workers,
           snapshot' \subseteq Paths, plugged' \subseteq Paths,
           phase' = "done" => phase = "done",
           UNCHANGED <<path_key, thread, worker_rx, registry>>
    PROVE  IInv'
<1> USE DEF IInv, registry
<1>1. Typed' /\ Numbered' /\ Tables'
  BY DEF Typed, Numbered, Tables
<1>2. Owned'
  BY DEF Owned
<1>3. Truthful' /\ NoOrphan'
  BY DEF Truthful, NoOrphan, Alive
<1> QED
  BY <1>1, <1>2, <1>3

\* The join: every owned thread has ended, and with that every thread.
LEMMA JoinKeeps == IInv /\ JoinAll => IInv'
<1> SUFFICES ASSUME IInv, JoinAll
             PROVE  IInv'
  OBVIOUS
<1>1. /\ \A i \in owned : thread[i] \in {"finished", "panicked"}
      /\ owned' = {}
      /\ launched' = [p \in Paths |-> None] /\ active' = [p \in Paths |-> None]
      /\ UNCHANGED <<path_key, thread, stopped, worker_rx, next_worker_id, snapshot, plugged>>
  BY DEF JoinAll, threads, environment
<1>2. \A i \in Workers : thread[i] \notin Busy
  BY <1>1 DEF IInv, Owned, Busy
<1>3. Typed' /\ Numbered' /\ Tables'
  BY <1>1, SupervisorAssumption DEF IInv, Typed, Numbered, Tables
<1>4. Owned' /\ NoOrphan'
  BY <1>1, <1>2 DEF Owned, NoOrphan, Alive, Busy
<1>5. Truthful'
  BY <1>1 DEF IInv, Truthful, Alive
<1> QED
  BY <1>3, <1>4, <1>5 DEF IInv

\* Every step of the manager keeps the invariant.
LEMMA NextHolds == IInv /\ [Next]_vars => IInv'
<1> SUFFICES ASSUME IInv, [Next]_vars
             PROVE  IInv'
  OBVIOUS
<1> USE DEF environment, threads, control
<1>0. stopped \subseteq Workers /\ snapshot \subseteq Paths /\ plugged \subseteq Paths /\ owned \subseteq Workers
      /\ launched \in [Paths -> 0..MaxWorkers] /\ active \in [Paths -> 0..MaxWorkers]
  BY DEF IInv, Typed
<1>1. ASSUME NEW p \in Paths, Plug(p) \/ Unplug(p)
      PROVE  IInv'
  BY <1>0, <1>1, StopsKeep DEF Plug, Unplug
<1>2. ASSUME NEW i \in Workers, ThreadStep(i) \/ SendInput(i) \/ FailUsb(i) \/ Panic(i)
      PROVE  IInv'
  BY <1>2, ThreadsKeep
<1>3. CASE HandleWorkerReport
  BY <1>3, ReportKeeps
<1>4. CASE Reconcile
  BY <1>4, ReconcileKeeps
<1>5. CASE JoinAll
  BY <1>5, JoinKeeps
<1>6. CASE Enumerate
  <2>1. snapshot' \subseteq Paths
    BY <1>0, <1>6 DEF Enumerate
  <2> QED
    BY <1>0, <1>6, <2>1, StopsKeep DEF Enumerate
<1>7. CASE EnumerateFails \/ Shutdown \/ ObserveShutdown
  BY <1>0, <1>7, StopsKeep DEF EnumerateFails, Shutdown, ObserveShutdown
<1>8. CASE StopAll
  <2>1. stopped' = stopped \cup ((owned \cup {launched[p] : p \in Paths}
                                  \cup {active[p] : p \in Paths}) \ {None})
    BY <1>8 DEF StopAll, SendStop
  <2>2. /\ {launched[p] : p \in Paths} \subseteq 0..MaxWorkers
        /\ {active[p] : p \in Paths} \subseteq 0..MaxWorkers
    BY <1>0
  <2>3. (0..MaxWorkers) \ {None} \subseteq Workers
    BY SupervisorAssumption DEF Workers
  <2>4. stopped \subseteq stopped' /\ stopped' \subseteq Workers
    BY <1>0, <2>1, <2>2, <2>3
  <2> QED
    BY <1>0, <1>8, <2>4, StopsKeep DEF StopAll
<1>9. CASE LoopStep \/ EndLoop
  BY <1>0, <1>9, StopsKeep DEF LoopStep, ReceiveEvent, CoreAnswers, EndLoop, svars
<1>10. CASE UNCHANGED vars
  BY <1>0, <1>10, StopsKeep DEF vars, svars
<1> QED
  BY <1>1, <1>2, <1>3, <1>4, <1>5, <1>6, <1>7, <1>8, <1>9, <1>10 DEF Next, SNext

\* The invariant holds throughout.
LEMMA Invariance == Spec => []IInv
  BY InitHolds, NextHolds, PTL DEF Spec

\* Two threads never work on the same panel.
THEOREM NeverTwoThreads == Spec => []OneThreadPerPath
<1>1. IInv => OneThreadPerPath
  BY DEF IInv, Owned, Busy, OneThreadPerPath
<1> QED
  BY <1>1, Invariance, PTL

\* A thread that works is known to the supervisor or told to stop.
THEOREM NoneForgotten == Spec => []NoOrphan
<1>1. IInv => NoOrphan
  BY DEF IInv
<1> QED
  BY <1>1, Invariance, PTL

\* When the supervisor returns, every thread has ended.
THEOREM AllEnded == Spec => []AllJoined
<1>1. IInv => AllJoined
  BY DEF IInv, Typed, Owned, Busy, AllJoined, Ended
<1> QED
  BY <1>1, Invariance, PTL

=============================================================================
