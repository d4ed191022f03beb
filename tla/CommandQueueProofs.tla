-------------------------- MODULE CommandQueueProofs --------------------------
(***************************************************************************)
(* Proofs about the command channel, for every set of controls, outputs    *)
(* and senders and every capacity of at least two.                         *)
(***************************************************************************)
EXTENDS CommandQueue, FiniteSetTheorems, WellFoundedInduction, TLAPS

-----------------------------------------------------------------------------
(* The first command of a queue. *)

\* A non-empty set of numbers has a least one: the intervals up to its members
\* are finite sets, and of those one is minimal for inclusion.
LEMMA LeastNumber ==
    ASSUME NEW T, T \subseteq Nat, T # {}
    PROVE  \E least \in T : \A n \in T : least <= n
<1> DEFINE U == {1..n : n \in T}
<1>1. U \subseteq FiniteSubsetsOf(Nat) /\ U # {}
  <2>1. \A n \in T : IsFiniteSet(1..n) /\ 1..n \subseteq Nat
    BY FS_Interval
  <2> QED
    BY <2>1 DEF FiniteSubsetsOf
<1>2. PICK u \in U : \A v \in U : ~ (<<v, u>> \in StrictSubsetOrdering(Nat))
  BY <1>1, FS_StrictSubsetOrderingWellFounded, WFMin
<1>3. PICK least \in T : u = 1..least
  BY <1>2
<1>4. ASSUME NEW n \in T, n < least
      PROVE  FALSE
  <2>1. 1..n \subseteq 1..least /\ least \in 1..least /\ least \notin 1..n
    BY <1>4
  <2>2. <<1..n, 1..least>> \in StrictSubsetOrdering(Nat)
    BY <2>1, 1..n \subseteq Nat, 1..least \subseteq Nat DEF StrictSubsetOrdering
  <2> QED
    BY <2>2, <1>2, <1>3
<1> QED
  BY <1>4

\* A non-empty set of stamped commands has one with the least stamp, and First
\* is it: pop_front takes the oldest waiting command.
LEMMA FirstIsLeast ==
    ASSUME NEW q, q \subseteq Stamped, q # {}
    PROVE  /\ First(q) \in q
           /\ \A n \in q : First(q).at <= n.at
<1> DEFINE T == {m.at : m \in q}
<1>1. T \subseteq Nat /\ T # {}
  BY MaxSendsAssumption DEF Stamped
<1>2. PICK least \in T : \A s \in T : least <= s
  <2> HIDE DEF T
  <2> QED
    BY <1>1, LeastNumber
<1>3. \E m \in q : \A n \in q : m.at <= n.at
  BY <1>2
<1> QED
  BY <1>3 DEF First

-----------------------------------------------------------------------------
(* enqueue_bounded_command. *)

\* The queues enqueue_bounded_command is called with: bounded, and at most one
\* order waits, the newer having taken the older's place.
QueueOK(q) ==
    /\ q \subseteq Stamped
    /\ IsFiniteSet(q)
    /\ Cardinality(q) <= Capacity
    /\ \A m, n \in q : ~ IsOutput(m) /\ ~ IsOutput(n) => m = n

\* What is given up is an output that waits, and there is one if an output waits.
LEMMA VictimsAreOutputs ==
    ASSUME NEW q, q \subseteq Stamped
    PROVE  /\ \A m \in Victims(q) : m \in q /\ IsOutput(m)
           /\ (\E m \in q : IsOutput(m)) => \E v \in q : Victims(q) = {v}
<1> DEFINE frames == {m \in q : IsRasterFrame(m)}
           outputs == {m \in q : IsOutput(m)}
<1>1. frames \subseteq Stamped /\ outputs \subseteq Stamped
  OBVIOUS
<1>2. frames # {} => First(frames) \in frames
  <2> HIDE DEF frames
  <2> QED
    BY <1>1, FirstIsLeast
<1>3. outputs # {} => First(outputs) \in outputs
  <2> HIDE DEF outputs
  <2> QED
    BY <1>1, FirstIsLeast
<1>4. \A m \in frames : m \in outputs
  BY DEF IsRasterFrame
<1>5. Victims(q) = IF frames # {} THEN {First(frames)}
                   ELSE IF outputs # {} THEN {First(outputs)} ELSE {}
  BY DEF Victims
<1> QED
  BY <1>2, <1>3, <1>4, <1>5

\* Room is always made: a full queue holds an output, since no two orders wait
\* together.
LEMMA RoomIsMade ==
    ASSUME NEW q, QueueOK(q)
    PROVE  /\ MakeRoom(q) \subseteq q
           /\ \A m \in q \ MakeRoom(q) : IsOutput(m)
           /\ \A m, n \in q \ MakeRoom(q) : m = n
           /\ IsFiniteSet(MakeRoom(q))
           /\ Cardinality(MakeRoom(q)) < Capacity
           /\ Cardinality(q) < Capacity => MakeRoom(q) = q
<1>1. Cardinality(q) \in Nat
  BY FS_CardinalityType DEF QueueOK
<1>2. CASE Cardinality(q) < Capacity
  BY <1>1, <1>2, CapacityAssumption DEF MakeRoom, QueueOK
<1>3. CASE ~ (Cardinality(q) < Capacity)
  <2>1. Cardinality(q) = Capacity /\ Cardinality(q) >= 2
    BY <1>1, <1>3, CapacityAssumption DEF QueueOK
  <2>2. \E m \in q : IsOutput(m)
    <3>1. q # {}
      BY <2>1, FS_EmptySet
    <3>2. PICK m \in q : TRUE
      BY <3>1
    <3>3. q # {m}
      BY <2>1, FS_Singleton
    <3> QED
      BY <3>2, <3>3 DEF QueueOK
  <2>3. PICK v \in q : Victims(q) = {v} /\ IsOutput(v)
    BY <2>2, VictimsAreOutputs DEF QueueOK
  <2>4. MakeRoom(q) = q \ {v}
    BY <2>1, <2>3, CapacityAssumption DEF MakeRoom
  <2>5. IsFiniteSet(q \ {v}) /\ Cardinality(q \ {v}) = Cardinality(q) - 1
    BY FS_RemoveElement DEF QueueOK
  <2> QED
    BY <2>1, <2>3, <2>4, <2>5, <1>1, CapacityAssumption
<1> QED
  BY <1>2, <1>3

\* The command just sent always gets its place; of the others only the old
\* output of its control and, at capacity, one more output leave the queue.
LEMMA EnqueueKeepsRoom ==
    ASSUME NEW q, QueueOK(q), NEW m
    PROVE  LET kept == Retain(q, m.command.control)
               new == EnqueueBounded(q, m)
           IN  /\ m \in new
               /\ new \subseteq kept \cup {m}
               /\ \A n \in kept \ new : IsOutput(n)
               /\ \A n, other \in kept \ new : n = other
               /\ IsFiniteSet(new)
               /\ Cardinality(new) <= Capacity
               /\ Cardinality(kept) < Capacity => new = kept \cup {m}
<1> DEFINE kept == Retain(q, m.command.control)
           room == MakeRoom(kept)
           new == EnqueueBounded(q, m)
<1>1. kept \subseteq q
  BY DEF Retain
<1>2. IsFiniteSet(kept) /\ Cardinality(kept) <= Cardinality(q)
  BY <1>1, FS_Subset DEF QueueOK
<1>3. Cardinality(kept) <= Capacity
  BY <1>1, <1>2, FS_CardinalityType, CapacityAssumption DEF QueueOK
<1>4. QueueOK(kept)
  BY <1>1, <1>2, <1>3 DEF QueueOK
<1>5. /\ room \subseteq kept
      /\ \A n \in kept \ room : IsOutput(n)
      /\ \A n, other \in kept \ room : n = other
      /\ IsFiniteSet(room)
      /\ Cardinality(room) < Capacity
      /\ Cardinality(kept) < Capacity => room = kept
  BY <1>4, RoomIsMade
<1>6. new = room \cup {m}
  BY <1>5 DEF EnqueueBounded
<1>7. IsFiniteSet(new) /\ Cardinality(new) <= Capacity
  <2> HIDE DEF room, new
  <2>1. Cardinality(room) \in Nat
    BY <1>5, FS_CardinalityType
  <2>2. /\ IsFiniteSet(room \cup {m})
        /\ Cardinality(room \cup {m}) \in {Cardinality(room), Cardinality(room) + 1}
    BY <1>5, FS_AddElement
  <2> QED
    BY <1>5, <1>6, <2>1, <2>2, CapacityAssumption
<1> QED
  BY <1>5, <1>6, <1>7

-----------------------------------------------------------------------------
(* The inductive invariant. *)

\* Every accepted command has a stamp of its own.
Stamps ==
    /\ \A m \in sent : m.at <= clock
    /\ \A m, n \in sent : m.at = n.at => m = n

\* What waits was sent, and was sent after all the worker has received.
Placement ==
    /\ queue \subseteq sent
    /\ \A m \in taken : \A n \in queue : m.at < n.at

\* Only a stop makes the channel stop, and the worker cannot have received one
\* before; nobody is left to send when the worker learns of the disconnection.
StopKnown ==
    /\ \A m \in sent : m.command = Stop => stopping
    /\ got = Stop => stopping
    /\ got = Disconnected => senders = {}

Safety ==
    /\ Bounded
    /\ NothingStaleWaits
    /\ NothingLost
    /\ OnlyOutputsEvicted
    /\ StopIsLast

IInv ==
    /\ TypeOK
    /\ Stamps
    /\ Placement
    /\ StopKnown
    /\ IsFiniteSet(queue)
    /\ Safety

\* The commands are told apart by their kinds; only an output is an output.
LEMMA Kinds ==
    /\ ResetDevice # Stop /\ Stop # Disconnected /\ Stop # Nothing
    /\ ResetDevice # Nothing /\ ResetDevice # Disconnected
    /\ Disconnected # Nothing
    /\ Stop \notin Outputs /\ ResetDevice \notin Outputs
    /\ Nothing \notin Commands /\ Disconnected \notin Commands
    /\ \A o \in Outputs : o.control \in Controls /\ o.control # NoControl
    /\ Orders = {ResetDevice, Stop} /\ Commands = Outputs \cup Orders
    /\ ResetDevice.control = NoControl /\ Stop.control = NoControl
BY OutputsAssumption, NoControlAssumption
   DEF ResetDevice, Stop, Disconnected, Nothing, Commands, Orders, OutputKinds

\* No two commands of one control wait, the two orders counting as one.
LEMMA OnePerControl ==
    ASSUME IInv
    PROVE  /\ \A m, n \in queue : m.command.control = n.command.control => m = n
           /\ QueueOK(queue)
<1>1. \A m, n \in queue : m.command.control = n.command.control => m = n
  <2> SUFFICES ASSUME NEW m \in queue, NEW n \in queue,
                      m.command.control = n.command.control, m.at <= n.at
               PROVE  m = n
    BY MaxSendsAssumption DEF IInv, TypeOK, Stamped
  <2>1. ~ (n.at > m.at)
    BY DEF IInv, Safety, NothingStaleWaits, Overrides, Placement
  <2> QED
    BY <2>1, MaxSendsAssumption DEF IInv, TypeOK, Stamped, Stamps, Placement
<1>2. \A m \in queue : ~ IsOutput(m) => m.command.control = NoControl
  BY Kinds DEF IInv, TypeOK, Stamped, IsOutput
<1> QED
  BY <1>1, <1>2 DEF QueueOK, IInv, TypeOK, Safety, Bounded

\* The channel starts empty.
LEMMA InitEstablishes == Init => IInv
<1> SUFFICES ASSUME Init
             PROVE  IInv
  OBVIOUS
<1>1. TypeOK
  <2>1. clock \in 0..MaxSends
    BY MaxSendsAssumption DEF Init
  <2> QED
    BY <2>1, HandlesAssumption, Zenon DEF Init, TypeOK
<1>5. Stamps /\ Placement
  BY DEF Init, Stamps, Placement
<1>2. StopKnown
  BY Kinds DEF Init, StopKnown
<1>3. IsFiniteSet(queue) /\ Bounded
  BY FS_EmptySet, CapacityAssumption DEF Init, Bounded
<1>4. NothingStaleWaits /\ NothingLost /\ OnlyOutputsEvicted /\ StopIsLast
  BY DEF Init, NothingStaleWaits, NothingLost, OnlyOutputsEvicted, StopIsLast
<1> QED
  BY <1>1, <1>2, <1>3, <1>4, <1>5 DEF IInv, Safety

\* Handles come and go without touching a command.
LEMMA SendersPreserve ==
    ASSUME IInv, NEW h \in Handles, NEW copy \in Handles,
           Clone(h, copy) \/ DropSender(h)
    PROVE  IInv'
<1>1. /\ UNCHANGED <<queue, stopping, receiver_alive, got, clock>>
      /\ UNCHANGED history
      /\ senders' \subseteq Handles
      /\ senders = {} => senders' = {}
  BY DEF Clone, DropSender, IInv, TypeOK
<1>2. TypeOK'
  BY <1>1 DEF IInv, TypeOK, history
<1>3. Stamps' /\ Placement'
  BY <1>1 DEF IInv, Stamps, Placement, history
<1>4. StopKnown'
  BY <1>1 DEF IInv, StopKnown, history
<1>5. IsFiniteSet(queue)' /\ Bounded'
  BY <1>1 DEF IInv, Safety, Bounded
<1>6. (NothingStaleWaits /\ NothingLost /\ OnlyOutputsEvicted /\ StopIsLast)'
  BY <1>1 DEF IInv, Safety, NothingStaleWaits, NothingLost, OnlyOutputsEvicted,
              StopIsLast, Overrides, IsOutput, history
<1> QED
  BY <1>2, <1>3, <1>4, <1>5, <1>6 DEF IInv, Safety

\* The stamp of an accepted command is above all others.
LEMMA StampIsNew ==
    ASSUME IInv, NEW command \in Commands, clock < MaxSends
    PROVE  /\ Stamp(command) \in Stamped
           /\ Stamp(command).command = command
           /\ Stamp(command).at = clock + 1
           /\ clock + 1 \in 0..MaxSends
           /\ \A m \in sent : m.at < Stamp(command).at
           /\ Stamp(command) \notin sent
           /\ Stamp(command) \notin taken
           /\ Stamp(command) \notin evicted
<1>1. /\ clock \in Nat /\ \A m \in sent : m.at \in Nat /\ m.at <= clock
      /\ taken \subseteq sent /\ evicted \subseteq sent
  BY MaxSendsAssumption DEF IInv, TypeOK, Stamps, Stamped
<1>2. Stamp(command).at = clock + 1 /\ Stamp(command).command = command
  BY DEF Stamp
<1>3. clock + 1 \in 1..MaxSends
  BY MaxSendsAssumption DEF IInv, TypeOK
<1>4. Stamp(command) \in Stamped
  BY <1>3 DEF Stamp, Stamped
<1> QED
  BY <1>1, <1>2, <1>3, <1>4

\* What every accepted send keeps, whatever it does to the queue.
LEMMA AcceptKeeps ==
    ASSUME IInv, NEW h \in Handles, NEW command \in Commands, Accept(h, command)
    PROVE  /\ sent' = sent \cup {Stamp(command)}
           /\ taken' = taken /\ senders' = senders /\ got' = got
           /\ senders # {} /\ got # Disconnected
           /\ clock' \in 0..MaxSends /\ clock' = clock + 1 /\ sent' \subseteq Stamped
           /\ Stamps'
<1>1. /\ sent' = sent \cup {Stamp(command)} /\ clock' = clock + 1 /\ clock < MaxSends
      /\ taken' = taken /\ senders' = senders /\ got' = got /\ h \in senders
  BY DEF Accept
<1>2. clock' \in 0..MaxSends /\ sent' \subseteq Stamped
  BY <1>1, StampIsNew DEF IInv, TypeOK
<1>3. Stamps'
  <2>1. \A m \in sent' : m.at <= clock'
    BY <1>1, StampIsNew, MaxSendsAssumption DEF IInv, TypeOK, Stamps, Stamped
  <2>2. \A m, n \in sent' : m.at = n.at => m = n
    BY <1>1, StampIsNew, MaxSendsAssumption DEF IInv, TypeOK, Stamps, Stamped
  <2> QED
    BY <2>1, <2>2 DEF Stamps
<1>4. senders # {} /\ got # Disconnected
  BY <1>1 DEF IInv, StopKnown
<1> QED
  BY <1>1, <1>2, <1>3, <1>4

\* A reset or a stop overrides all that waits, and takes its place.
LEMMA OrderPreserves ==
    ASSUME IInv, NEW h \in Handles, NEW command \in Orders, Accept(h, command),
           queue' = {Stamp(command)}, evicted' = evicted,
           stopping' \in BOOLEAN,
           (command = Stop /\ stopping') \/ (~stopping /\ command = ResetDevice /\ ~stopping')
    PROVE  IInv'
<1> DEFINE new == Stamp(command)
<1>1. command \in Commands
  BY DEF Commands
<1>2. /\ sent' = sent \cup {new} /\ new \in Stamped /\ new.command = command
      /\ taken' = taken /\ got' = got /\ senders' = senders
      /\ \A m \in sent : m.at < new.at
      /\ new \notin sent /\ new \notin taken
  BY <1>1, AcceptKeeps, StampIsNew DEF Accept
<1>3. TypeOK'
  <2>1. receiver_alive' = receiver_alive
    BY DEF Accept
  <2>2. sent' \subseteq Stamped /\ clock' \in 0..MaxSends
    BY <1>1, AcceptKeeps
  <2> QED
    BY <1>2, <2>1, <2>2, Zenon DEF IInv, TypeOK
<1>4. Stamps'
  BY <1>1, AcceptKeeps
<1>5. Placement'
  BY <1>2 DEF IInv, TypeOK, Placement
<1>6. StopKnown'
  BY <1>2, Kinds DEF IInv, StopKnown
<1>7. IsFiniteSet(queue)' /\ Bounded'
  <2>1. IsFiniteSet({new}) /\ Cardinality({new}) = 1
    BY FS_Singleton
  <2> QED
    BY <2>1, CapacityAssumption DEF Bounded
<1>8. NothingStaleWaits'
  <2>1. \A n \in sent' : ~ (n.at > new.at)
    BY <1>2, <1>3, MaxSendsAssumption DEF TypeOK, Stamped
  <2> QED
    BY <2>1 DEF NothingStaleWaits, Overrides
<1>9. NothingLost'
  <2>1. \A m \in sent : Overrides(new, m)
    BY <1>2 DEF Overrides, IInv, TypeOK
  <2> QED
    BY <2>1, <1>2 DEF NothingLost, Overrides
<1>10. OnlyOutputsEvicted'
  BY <1>2 DEF IInv, Safety, OnlyOutputsEvicted, IsOutput
<1>11. StopIsLast'
  BY <1>2 DEF StopIsLast
<1> QED
  BY <1>3, <1>4, <1>5, <1>6, <1>7, <1>8, <1>9, <1>10, <1>11 DEF IInv, Safety

\* A stop keeps the invariant.
LEMMA SendStopPreserves ==
    ASSUME IInv, NEW h \in Handles, SendStop(h)
    PROVE  IInv'
<1>1. Stop \in Orders
  BY DEF Orders
<1> QED
  BY <1>1, OrderPreserves DEF SendStop

\* A reset does.
LEMMA SendResetPreserves ==
    ASSUME IInv, NEW h \in Handles, SendReset(h)
    PROVE  IInv'
<1>1. ResetDevice \in Orders
  BY DEF Orders
<1>2. Accept(h, ResetDevice) /\ queue' = {Stamp(ResetDevice)} /\ evicted' = evicted
  BY DEF SendReset
<1>3. stopping' \in BOOLEAN /\ ~stopping /\ ~stopping'
  BY Zenon DEF SendReset, IInv, TypeOK
<1> QED
  BY <1>1, <1>2, <1>3, OrderPreserves

\* An output is queued behind the others: it voids the waiting output of its
\* control, which is gone, and at most pushes one more output out.
LEMMA SendOutputPreserves ==
    ASSUME IInv, NEW h \in Handles, NEW output \in Outputs, SendOutput(h, output)
    PROVE  IInv'
<1> DEFINE new == Stamp(output)
           kept == Retain(queue, output.control)
<1>1. /\ output \in Commands /\ output \notin Orders /\ output # Stop
      /\ Accept(h, output) /\ queue' = EnqueueBounded(queue, new)
      /\ evicted' = evicted \cup ((kept \cup {new}) \ queue')
      /\ stopping' = stopping /\ ~stopping
  BY Kinds DEF SendOutput
<1>2. /\ sent' = sent \cup {new} /\ new \in Stamped /\ new.command = output
      /\ taken' = taken /\ got' = got /\ senders' = senders
      /\ got # Disconnected
      /\ \A m \in sent : m.at < new.at
      /\ new \notin sent /\ new \notin taken
      /\ sent' \subseteq Stamped /\ clock' \in 0..MaxSends
  BY <1>1, AcceptKeeps, StampIsNew DEF Accept
<1>3. /\ new \in queue' /\ queue' \subseteq kept \cup {new}
      /\ \A n \in kept \ queue' : IsOutput(n)
      /\ IsFiniteSet(queue') /\ Cardinality(queue') <= Capacity
  <2> HIDE DEF new
  <2> QED
    BY <1>1, <1>2, OnePerControl, EnqueueKeepsRoom
<1>4. kept = {m \in queue : m.command.control # output.control}
  BY DEF Retain
<1> HIDE DEF new, kept
<1>5. queue \subseteq sent /\ taken \subseteq sent /\ evicted \subseteq sent
  BY DEF IInv, TypeOK, Placement
<1>6. evicted' = evicted \cup (kept \ queue') /\ queue' \subseteq sent'
      /\ evicted' \subseteq sent'
  BY <1>1, <1>2, <1>3, <1>4, <1>5
<1>7. TypeOK'
  <2>1. receiver_alive' = receiver_alive
    BY <1>1 DEF Accept
  <2>2. queue' \subseteq Stamped /\ taken' \subseteq sent'
    BY <1>2, <1>5, <1>6
  <2>3. senders' \subseteq Handles /\ stopping' \in BOOLEAN /\ receiver_alive' \in BOOLEAN
        /\ got' \in Commands \cup {Nothing, Disconnected}
    BY <2>1, <1>1, <1>2, Zenon DEF IInv, TypeOK
  <2> QED
    BY <1>2, <1>6, <2>2, <2>3, Zenon DEF TypeOK
<1>8. Stamps'
  BY <1>1, AcceptKeeps
<1>9. Placement'
  BY <1>2, <1>3, <1>4, <1>5, <1>6 DEF IInv, Placement
<1>10. StopKnown'
  BY <1>1, <1>2 DEF IInv, StopKnown
<1>11. IsFiniteSet(queue)' /\ Bounded'
  BY <1>3 DEF Bounded
<1>12. NothingStaleWaits'
  <2>1. \A m \in kept, n \in sent' : ~ Overrides(n, m)
    BY <1>1, <1>2, <1>4 DEF IInv, Safety, NothingStaleWaits, Overrides
  <2>2. \A n \in sent' : ~ (n.at > new.at)
    BY <1>2, MaxSendsAssumption DEF Stamped
  <2> QED
    BY <1>3, <2>1, <2>2 DEF NothingStaleWaits, Overrides
<1>13. NothingLost'
  <2> SUFFICES ASSUME NEW m \in sent' \ (queue' \cup taken' \cup evicted')
               PROVE  \E n \in sent' : Overrides(n, m)
    BY DEF NothingLost, Overrides
  <2>1. m \in sent /\ m \notin taken /\ m \notin evicted /\ m \notin kept
    BY <1>2, <1>3, <1>6
  <2>2. CASE m \in queue
    BY <1>2, <1>4, <2>1, <2>2 DEF Overrides, IInv, TypeOK
  <2>3. CASE m \notin queue
    BY <1>2, <2>1, <2>3 DEF IInv, Safety, NothingLost
  <2> QED
    BY <2>2, <2>3
<1>14. OnlyOutputsEvicted'
  <2>1. \A m \in evicted : IsOutput(m) /\ \E n \in sent' : n.at > m.at
    BY <1>2 DEF IInv, Safety, OnlyOutputsEvicted
  <2>2. \A m \in kept \ queue' : IsOutput(m) /\ new.at > m.at
    BY <1>2, <1>3, <1>4, <1>5, MaxSendsAssumption DEF IInv, TypeOK, Stamped
  <2> QED
    BY <1>2, <1>6, <2>1, <2>2 DEF OnlyOutputsEvicted, IsOutput
<1>15. StopIsLast'
  BY <1>1 DEF StopIsLast
<1> QED
  BY <1>7, <1>8, <1>9, <1>10, <1>11, <1>12, <1>13, <1>14, <1>15 DEF IInv, Safety

\* The worker takes the oldest command; a stop is alone in the queue.
LEMMA TryRecvPreserves ==
    ASSUME IInv, TryRecv
    PROVE  /\ IInv'
           /\ \A m \in taken' \ taken : \A n \in taken : n.at < m.at
           /\ got = Stop => got' \in {Stop, Disconnected}
<1>1. UNCHANGED <<senders, stopping, receiver_alive, clock, sent, evicted>>
  BY DEF TryRecv
<1>2. CASE queue # {}
  <2> DEFINE first == First(queue)
  <2>1. first \in queue /\ \A n \in queue : first.at <= n.at
    BY <1>2, FirstIsLeast DEF IInv, TypeOK
  <2>2. queue' = queue \ {first} /\ got' = first.command /\ taken' = taken \cup {first}
    BY <1>2 DEF TryRecv
  <2> HIDE DEF first
  <2>3. queue \subseteq Stamped /\ queue \subseteq sent /\ sent \subseteq Stamped
    BY DEF IInv, TypeOK, Placement
  <2>4. first.command \in Commands
    BY <2>1, <2>3 DEF Stamped
  <2>5. TypeOK'
    <3>1. queue' \subseteq Stamped /\ taken' \subseteq sent'
      BY <1>1, <2>1, <2>2, <2>3 DEF IInv, TypeOK
    <3> QED
      BY <1>1, <2>2, <2>4, <3>1, Zenon DEF IInv, TypeOK
  <2>6. Stamps'
    BY <1>1 DEF IInv, Stamps
  <2>7. Placement'
    <3>1. \A n \in queue' : first.at < n.at
      BY <2>1, <2>2, <2>3, MaxSendsAssumption DEF IInv, Stamps, Stamped
    <3> QED
      BY <1>1, <2>2, <2>3, <3>1 DEF IInv, Placement
  <2>8. StopKnown'
    BY <1>1, <2>1, <2>2, <2>3, <2>4, Kinds DEF IInv, StopKnown
  <2>9. IsFiniteSet(queue)' /\ Bounded'
    <3>1. Cardinality(queue) \in Nat /\ IsFiniteSet(queue)
      BY FS_CardinalityType DEF IInv
    <3>2. /\ IsFiniteSet(queue \ {first})
          /\ Cardinality(queue \ {first}) = Cardinality(queue) - 1
      BY <2>1, <3>1, FS_RemoveElement
    <3> QED
      BY <2>2, <3>1, <3>2, CapacityAssumption DEF IInv, Safety, Bounded
  <2>10. NothingStaleWaits'
    BY <1>1, <2>2 DEF IInv, Safety, NothingStaleWaits, Overrides
  <2>11. NothingLost'
    BY <1>1, <2>2 DEF IInv, Safety, NothingLost, Overrides
  <2>12. OnlyOutputsEvicted' /\ StopIsLast'
    BY <1>1, <2>2 DEF IInv, Safety, OnlyOutputsEvicted, StopIsLast, IsOutput
  <2>13. \A m \in taken' \ taken : \A n \in taken : n.at < m.at
    BY <2>1, <2>2 DEF IInv, Placement
  <2>14. got = Stop => got' = Stop
    BY <2>1, <2>2 DEF IInv, StopKnown, Safety, StopIsLast
  <2> QED
    BY <2>5, <2>6, <2>7, <2>8, <2>9, <2>10, <2>11, <2>12, <2>13, <2>14
       DEF IInv, Safety
<1>3. CASE queue = {}
  <2>1. senders = {} /\ got' = Disconnected /\ UNCHANGED <<queue, taken>>
    BY <1>3 DEF TryRecv
  <2>2. TypeOK'
    BY <1>1, <2>1, Zenon DEF IInv, TypeOK
  <2>3. Stamps' /\ Placement'
    BY <1>1, <2>1 DEF IInv, Stamps, Placement
  <2>4. StopKnown'
    BY <1>1, <2>1, Kinds DEF IInv, StopKnown
  <2>5. IsFiniteSet(queue)' /\ Bounded'
    BY <2>1 DEF IInv, Safety, Bounded
  <2>6. (NothingStaleWaits /\ NothingLost /\ OnlyOutputsEvicted /\ StopIsLast)'
    BY <1>1, <2>1 DEF IInv, Safety, NothingStaleWaits, NothingLost,
                      OnlyOutputsEvicted, StopIsLast, Overrides, IsOutput
  <2> QED
    BY <2>1, <2>2, <2>3, <2>4, <2>5, <2>6 DEF IInv, Safety
<1> QED
  BY <1>2, <1>3

\* Nothing but the receiver's own flag changes when the worker goes, and
\* nothing at all in a stuttering step.
LEMMA DropReceiverPreserves ==
    ASSUME IInv, DropReceiver \/ UNCHANGED vars
    PROVE  IInv'
<1>1. /\ UNCHANGED <<queue, senders, stopping, got, clock>>
      /\ UNCHANGED history
      /\ receiver_alive' \in BOOLEAN
  BY DEF DropReceiver, IInv, TypeOK, vars, history
<1>2. TypeOK'
  BY <1>1, Zenon DEF IInv, TypeOK, history
<1>3. Stamps' /\ Placement' /\ StopKnown'
  BY <1>1 DEF IInv, Stamps, Placement, StopKnown, history
<1>4. IsFiniteSet(queue)' /\ Bounded'
  BY <1>1 DEF IInv, Safety, Bounded
<1>5. (NothingStaleWaits /\ NothingLost /\ OnlyOutputsEvicted /\ StopIsLast)'
  BY <1>1 DEF IInv, Safety, NothingStaleWaits, NothingLost, OnlyOutputsEvicted,
              StopIsLast, Overrides, IsOutput, history
<1> QED
  BY <1>2, <1>3, <1>4, <1>5 DEF IInv, Safety

-----------------------------------------------------------------------------
(* The theorems. *)

\* IInv is inductive: no step of the channel breaks it.
LEMMA NextPreserves == IInv /\ [Next]_vars => IInv'
<1> SUFFICES ASSUME IInv, [Next]_vars
             PROVE  IInv'
  OBVIOUS
<1>1. ASSUME NEW h \in Handles, NEW copy \in Handles, Clone(h, copy)
      PROVE  IInv'
  BY <1>1, SendersPreserve
<1>2. ASSUME NEW h \in Handles, DropSender(h)
      PROVE  IInv'
  BY <1>2, SendersPreserve
<1>3. ASSUME NEW h \in Handles, SendStop(h)
      PROVE  IInv'
  BY <1>3, SendStopPreserves
<1>4. ASSUME NEW h \in Handles, SendReset(h)
      PROVE  IInv'
  BY <1>4, SendResetPreserves
<1>5. ASSUME NEW h \in Handles, NEW o \in Outputs, SendOutput(h, o)
      PROVE  IInv'
  BY <1>5, SendOutputPreserves
<1>6. CASE TryRecv
  BY <1>6, TryRecvPreserves
<1>7. CASE DropReceiver
  BY <1>7, DropReceiverPreserves
<1>8. CASE UNCHANGED vars
  BY <1>8, DropReceiverPreserves
<1> QED
  BY <1>1, <1>2, <1>3, <1>4, <1>5, <1>6, <1>7, <1>8 DEF Next

\* The invariant holds throughout every behaviour of the channel.
LEMMA Invariance == Spec => []IInv
<1>1. Init => IInv
  BY InitEstablishes
<1>2. IInv /\ [Next]_vars => IInv'
  BY NextPreserves
<1> QED
  BY <1>1, <1>2, PTL DEF Spec

\* The channel's state stays well typed (command_channel, CommandSender,
\* CommandReceiver).
THEOREM TypeCorrect == Spec => []TypeOK
<1>1. IInv => TypeOK
  BY DEF IInv
<1> QED
  BY <1>1, Invariance, PTL

\* The queue never outgrows COMMAND_QUEUE_CAPACITY (enqueue_bounded_command).
THEOREM QueueIsBounded == Spec => []Bounded
<1>1. IInv => Bounded
  BY DEF IInv, Safety
<1> QED
  BY <1>1, Invariance, PTL

\* No command waits that a later one has overridden: the worker never works off
\* an old lamp state, an old frame or an output from before a reset.
THEOREM NeverStale == Spec => []NothingStaleWaits
<1>1. IInv => NothingStaleWaits
  BY DEF IInv, Safety
<1> QED
  BY <1>1, Invariance, PTL

\* No accepted command is lost but to a later one that overrides it, or to the
\* capacity.
THEOREM NeverLost == Spec => []NothingLost
<1>1. IInv => NothingLost
  BY DEF IInv, Safety
<1> QED
  BY <1>1, Invariance, PTL

\* The capacity costs only older outputs, never a reset, a stop or the command
\* being sent, whatever the capacity from two on.
THEOREM OrdersSurvive == Spec => []OnlyOutputsEvicted
<1>1. IInv => OnlyOutputsEvicted
  BY DEF IInv, Safety
<1> QED
  BY <1>1, Invariance, PTL

\* A stopping channel holds nothing but the stop: no late reset or output can
\* displace it (CommandSender::send).
THEOREM StopStaysLast == Spec => []StopIsLast
<1>1. IInv => StopIsLast
  BY DEF IInv, Safety
<1> QED
  BY <1>1, Invariance, PTL

\* The worker receives the commands in the order of their sends, and after a
\* stop nothing but a stop or the disconnection (CommandReceiver::try_recv).
THEOREM ReceivedInOrder == Spec => InOrder
<1> DEFINE A == /\ \A m \in taken' \ taken : \A n \in taken : n.at < m.at
                /\ got = Stop => got' \in {Stop, Disconnected}
<1>1. IInv /\ [Next]_vars => [A]_vars
  <2> SUFFICES ASSUME IInv, Next
               PROVE  A
    OBVIOUS
  <2>1. CASE TryRecv
    BY <2>1, TryRecvPreserves
  <2>2. CASE ~ TryRecv
    <3>1. taken' = taken /\ got' = got
      BY <2>2 DEF Next, Clone, DropSender, SendStop, SendReset, SendOutput, Accept,
                  DropReceiver, history
    <3> QED
      BY <3>1
  <2> QED
    BY <2>1, <2>2
<1> HIDE DEF A
<1>2. Spec => [][A]_vars
  BY <1>1, Invariance, PTL DEF Spec
<1> QED
  BY <1>2 DEF InOrder, A

-----------------------------------------------------------------------------
(* A channel with room for all controls. *)

\* Besides the output being sent, one command of every other control and one
\* order can wait: as many as there are controls.
LEMMA KeptFitsControls ==
    ASSUME IInv, IsFiniteSet(Controls), NEW c \in Controls
    PROVE  Cardinality(Retain(queue, c)) <= Cardinality(Controls)
<1> DEFINE kept == Retain(queue, c)
           others == (Controls \ {c}) \cup {NoControl}
           f == [m \in kept |-> m.command.control]
<1>1. kept \subseteq queue /\ \A m \in kept : m.command.control # c
  BY DEF Retain
<1>2. \A m \in kept : m.command.control \in others
  BY <1>1, Kinds DEF IInv, TypeOK, Stamped
<1>3. \A m, n \in kept : m.command.control = n.command.control => m = n
  BY <1>1, OnePerControl
<1> HIDE DEF kept
<1>4. f \in Injection(kept, others)
  BY <1>2, <1>3 DEF Injection, IsInjective
<1>5. /\ IsFiniteSet(Controls \ {c})
      /\ Cardinality(Controls \ {c}) = Cardinality(Controls) - 1
  BY FS_RemoveElement
<1>6. IsFiniteSet(others) /\ Cardinality(others) = Cardinality(Controls)
  <2>1. NoControl \notin Controls \ {c}
    BY NoControlAssumption
  <2>2. Cardinality(others) = Cardinality(Controls \ {c}) + 1 /\ IsFiniteSet(others)
    BY <1>5, <2>1, FS_AddElement
  <2>3. Cardinality(Controls) \in Nat
    BY FS_CardinalityType
  <2> QED
    BY <1>5, <2>2, <2>3
<1> HIDE DEF others, f
<1>7. Cardinality(kept) <= Cardinality(others)
  BY <1>4, <1>6, FS_Injection
<1> QED
  BY <1>6, <1>7 DEF kept

\* With fewer controls than places the channel never gives anything up: the eight
\* lamps and the screen cannot overrun the 32 places.
THEOREM NoEviction ==
    ASSUME IsFiniteSet(Controls)
    PROVE  Spec => []RoomForAllControls
<1>1. Init => RoomForAllControls
  BY DEF Init, RoomForAllControls
<1>2. IInv /\ RoomForAllControls /\ [Next]_vars => RoomForAllControls'
  <2> SUFFICES ASSUME IInv, evicted = {}, [Next]_vars,
                      Cardinality(Controls) < Capacity
               PROVE  evicted' = {}
    BY DEF RoomForAllControls
  <2>1. ASSUME NEW h \in Handles, NEW o \in Outputs, SendOutput(h, o)
        PROVE  evicted' = {}
    <3> DEFINE kept == Retain(queue, o.control)
               new == Stamp(o)
    <3>1. o.control \in Controls /\ new.command.control = o.control
      BY Kinds DEF Stamp
    <3>2. Cardinality(kept) <= Cardinality(Controls)
      BY <3>1, KeptFitsControls
    <3>3. IsFiniteSet(kept)
      BY FS_Subset DEF Retain, IInv
    <3>4. Cardinality(kept) < Capacity
      <4> HIDE DEF kept
      <4>1. Cardinality(kept) \in Nat /\ Cardinality(Controls) \in Nat
        BY <3>3, FS_CardinalityType
      <4> QED
        BY <3>2, <4>1, CapacityAssumption
    <3>5. EnqueueBounded(queue, new) = kept \cup {new}
      <4> HIDE DEF new
      <4> QED
        BY <3>1, <3>4, OnePerControl, EnqueueKeepsRoom
    <3>6. evicted' = evicted \cup ((kept \cup {new}) \ queue')
          /\ queue' = EnqueueBounded(queue, new)
      BY <2>1 DEF SendOutput
    <3> QED
      BY <3>5, <3>6
  <2>2. ASSUME ~ \E h \in Handles, o \in Outputs : SendOutput(h, o)
        PROVE  evicted' = evicted
    BY <2>2 DEF Next, Clone, DropSender, SendStop, SendReset, TryRecv, DropReceiver,
                history, vars
  <2> QED
    BY <2>1, <2>2
<1> QED
  BY <1>1, <1>2, Invariance, PTL DEF Spec

-----------------------------------------------------------------------------
(* The channel implements the mailbox. *)

\* The refinement mapping as a function of the queue.
SlotOf(q) == [c \in Controls |->
                 IF \E m \in q : m.command.control = c
                 THEN (CHOOSE m \in q : m.command.control = c).command
                 ELSE Nothing]
OrderOf(q) == IF \E m \in q : m.command \in Orders
              THEN (CHOOSE m \in q : m.command \in Orders).command
              ELSE Nothing

OnePer(q) ==
    /\ q \subseteq Stamped
    /\ \A m, n \in q : m.command.control = n.command.control => m = n

\* A slot holds the output that waits for its control, the order slot the order.
LEMMA Mapping ==
    ASSUME NEW q, OnePer(q)
    PROVE  /\ \A m \in q : m.command \in Outputs =>
                 SlotOf(q)[m.command.control] = m.command
           /\ \A c \in Controls : (\A m \in q : m.command.control # c) =>
                 SlotOf(q)[c] = Nothing
           /\ \A c \in Controls : SlotOf(q)[c] # Nothing =>
                 \E m \in q : m.command.control = c /\ m.command \in Outputs
           /\ \A m \in q : m.command \in Orders => OrderOf(q) = m.command
           /\ (\A m \in q : m.command \notin Orders) => OrderOf(q) = Nothing
<1>1. ASSUME NEW m \in q, m.command \in Outputs
      PROVE  SlotOf(q)[m.command.control] = m.command
  <2>1. m.command.control \in Controls
    BY <1>1, Kinds
  <2>2. (CHOOSE n \in q : n.command.control = m.command.control) = m
    BY DEF OnePer
  <2> QED
    BY <2>1, <2>2 DEF SlotOf
<1>2. ASSUME NEW c \in Controls, \A m \in q : m.command.control # c
      PROVE  SlotOf(q)[c] = Nothing
  BY <1>2 DEF SlotOf
<1>3. ASSUME NEW c \in Controls, SlotOf(q)[c] # Nothing
      PROVE  \E m \in q : m.command.control = c /\ m.command \in Outputs
  <2>1. PICK m \in q : m.command.control = c
    BY <1>2, <1>3
  <2>2. m.command \in Outputs
    BY <2>1, Kinds, NoControlAssumption DEF OnePer, Stamped
  <2> QED
    BY <2>1, <2>2
<1>4. ASSUME NEW m \in q, m.command \in Orders
      PROVE  OrderOf(q) = m.command
  <2>1. \A n \in q : n.command \in Orders => n = m
    BY <1>4, Kinds DEF OnePer
  <2>2. (CHOOSE n \in q : n.command \in Orders) = m
    BY <1>4, <2>1
  <2> QED
    BY <1>4, <2>2 DEF OrderOf
<1>5. (\A m \in q : m.command \notin Orders) => OrderOf(q) = Nothing
  BY DEF OrderOf
<1> QED
  BY <1>1, <1>2, <1>3, <1>4, <1>5

\* The mapping of CommandQueue is this one, before a step ...
LEMMA MappingNow == Slot = SlotOf(queue) /\ Order = OrderOf(queue)
BY DEF Slot, Order, SlotOf, OrderOf

\* ... and after it.
LEMMA MappingThen == Slot' = SlotOf(queue') /\ Order' = OrderOf(queue')
BY DEF Slot, Order, SlotOf, OrderOf

\* In the channel each control has one command, before a step ...
LEMMA InvOnePer == IInv => OnePer(queue)
BY OnePerControl DEF OnePer, IInv, TypeOK

\* ... and after it.
LEMMA InvOnePerThen == IInv' => OnePer(queue')
<1>1. IInv => OnePer(queue)
  BY InvOnePer
<1>2. IInv' => OnePer(queue)'
  BY <1>1, PTL
<1> QED
  BY <1>2

\* The mailbox counts as the channel does.
LEMMA SameCardinality == \A S : Mailbox!Cardinality(S) = Cardinality(S)
BY DEF Mailbox!Cardinality, Cardinality, Mailbox!IsFiniteSet, IsFiniteSet

\* The mailbox's values are the channel's.
LEMMA SameValues ==
    /\ Mailbox!Nothing = Nothing /\ Mailbox!ResetDevice = ResetDevice
    /\ Mailbox!Stop = Stop /\ Mailbox!Disconnected = Disconnected
    /\ Mailbox!Commands = Commands
BY DEF Mailbox!Nothing, Nothing, Mailbox!ResetDevice, ResetDevice, Mailbox!Stop, Stop,
       Mailbox!Disconnected, Disconnected, Mailbox!Commands, Commands,
       Mailbox!Orders, Orders

\* An empty channel is an empty mailbox.
LEMMA InitMaps == Init => Mailbox!MInit
<1> SUFFICES ASSUME Init
             PROVE  Mailbox!MInit
  OBVIOUS
<1>1. Slot = Mailbox!Empty /\ Order = Mailbox!Nothing
  BY SameValues DEF Init, Slot, Order, Mailbox!Empty
<1> QED
  BY <1>1, SameValues, Zenon DEF Init, Mailbox!MInit

\* A queue that holds one order is the mailbox that holds just that order.
LEMMA OrderMaps ==
    ASSUME NEW m \in Stamped, m.command \in Orders
    PROVE  SlotOf({m}) = Mailbox!Empty /\ OrderOf({m}) = m.command
<1>1. OnePer({m})
  BY DEF OnePer
<1>2. \A c \in Controls : SlotOf({m})[c] = Nothing
  BY <1>1, Mapping, Kinds, NoControlAssumption
<1>3. SlotOf({m}) = [c \in Controls |-> Nothing]
  BY <1>2 DEF SlotOf
<1>4. OrderOf({m}) = m.command
  BY <1>1, Mapping
<1> QED
  BY <1>3, <1>4, SameValues DEF Mailbox!Empty

\* A stop sent is a stop put into the mailbox.
LEMMA SendStopMaps ==
    ASSUME IInv, NEW h \in Handles, SendStop(h)
    PROVE  Mailbox!PutStop
<1>1. Stop \in Orders /\ Stop \in Commands
  BY Kinds
<1>2. receiver_alive /\ clock < MaxSends /\ got # Disconnected
      /\ receiver_alive' = receiver_alive /\ got' = got
  BY <1>1, AcceptKeeps DEF SendStop, Accept
<1>3. Slot' = Mailbox!Empty /\ Order' = Stop
  BY <1>1, <1>2, StampIsNew, OrderMaps, MappingThen DEF SendStop
<1> QED
  BY <1>2, <1>3, SameValues, Zenon DEF SendStop, Mailbox!PutStop

\* A reset sent is a reset put into the mailbox.
LEMMA SendResetMaps ==
    ASSUME IInv, NEW h \in Handles, SendReset(h)
    PROVE  Mailbox!PutReset
<1>1. ResetDevice \in Orders /\ ResetDevice \in Commands
  BY Kinds
<1>2. receiver_alive /\ clock < MaxSends /\ got # Disconnected
      /\ receiver_alive' = receiver_alive /\ got' = got
  BY <1>1, AcceptKeeps DEF SendReset, Accept
<1>3. Slot' = Mailbox!Empty /\ Order' = ResetDevice
  BY <1>1, <1>2, StampIsNew, OrderMaps, MappingThen DEF SendReset
<1> QED
  BY <1>2, <1>3, SameValues, Zenon DEF SendReset, Mailbox!PutReset, Mailbox!Accepting

\* Every waiting output of the mailbox is one of the queue.
LEMMA WaitingIsFinite ==
    ASSUME IInv
    PROVE  /\ \A d \in Mailbox!Waiting :
                 d \in Controls /\ \E m \in queue : m.command.control = d
           /\ \A c : IsFiniteSet(Mailbox!Waiting \ {c})
<1> DEFINE W == Mailbox!Waiting
           g == [d \in W |-> CHOOSE m \in queue : m.command.control = d]
<1>1. \A d \in W : d \in Controls /\ \E m \in queue : m.command.control = d
  BY InvOnePer, Mapping, MappingNow, SameValues DEF Mailbox!Waiting
<1>2. g \in Injection(W, queue)
  BY <1>1 DEF Injection, IsInjective
<1>3. IsFiniteSet(W)
  <2> HIDE DEF W, g
  <2> QED
    BY <1>2, FS_Injection DEF IInv
<1> QED
  BY <1>1, <1>3, FS_RemoveElement

\* The mailbox counts at least as many other commands as the channel keeps.
LEMMA BacklogCounts ==
    ASSUME IInv, NEW c \in Controls
    PROVE  Cardinality(Retain(queue, c)) <= Mailbox!Backlog(c)
<1> DEFINE kept == Retain(queue, c)
           W == Mailbox!Waiting \ {c}
           orders == IF Order = Nothing THEN {} ELSE {NoControl}
           f == [m \in kept |-> m.command.control]
<1>1. kept \subseteq queue /\ \A m \in kept : m.command.control # c
  BY DEF Retain
<1>2. OnePer(queue)
  BY InvOnePer
<1>3. W \subseteq Controls
  BY WaitingIsFinite
<1>4. IsFiniteSet(W)
  BY WaitingIsFinite
<1>5. \A m \in kept : m.command.control \in W \cup orders
  <2> SUFFICES ASSUME NEW m \in kept
               PROVE  m.command.control \in W \cup orders
    OBVIOUS
  <2>1. m \in queue /\ m.command \in Commands /\ m.command.control # c
    BY <1>1, <1>2 DEF OnePer, Stamped
  <2>2. CASE m.command \in Outputs
    <3>1. m.command.control \in Controls /\ m.command # Nothing
      BY <2>2, Kinds
    <3>2. Slot[m.command.control] = m.command
      BY <1>2, <2>1, <2>2, Mapping, MappingNow
    <3> QED
      BY <2>1, <3>1, <3>2, SameValues DEF Mailbox!Waiting
  <2>3. CASE m.command \in Orders
    <3>1. Order = m.command /\ m.command # Nothing /\ m.command.control = NoControl
      BY <1>2, <2>1, <2>3, Mapping, MappingNow, Kinds
    <3> QED
      BY <3>1
  <2> QED
    BY <2>1, <2>2, <2>3, Kinds
<1>6. \A m, n \in kept : m.command.control = n.command.control => m = n
  BY <1>1, <1>2 DEF OnePer
<1>7. f \in Injection(kept, W \cup orders)
  BY <1>5, <1>6 DEF Injection, IsInjective
<1>8. Mailbox!Backlog(c) = Cardinality(W) + (IF Order = Nothing THEN 0 ELSE 1)
  BY SameValues, SameCardinality DEF Mailbox!Backlog
<1>9. NoControl \notin W
  BY <1>3, NoControlAssumption
<1> HIDE DEF kept, W, f
<1>10. /\ IsFiniteSet(W \cup orders)
       /\ Cardinality(W \cup orders) = Mailbox!Backlog(c)
  <2>1. Cardinality(W) \in Nat
    BY <1>4, FS_CardinalityType
  <2>2. CASE Order = Nothing
    BY <1>4, <1>8, <2>1, <2>2
  <2>3. CASE Order # Nothing
    BY <1>4, <1>8, <1>9, <2>1, <2>3, FS_AddElement
  <2> QED
    BY <2>2, <2>3
<1> HIDE DEF orders
<1>11. Cardinality(kept) <= Cardinality(W \cup orders)
  BY <1>7, <1>10, FS_Injection
<1> QED
  BY <1>10, <1>11 DEF kept

\* An output sent is an output put into the mailbox.
LEMMA SendOutputMaps ==
    ASSUME IInv, NEW h \in Handles, NEW output \in Outputs, SendOutput(h, output)
    PROVE  Mailbox!Put(output)
<1> DEFINE new == Stamp(output)
           kept == Retain(queue, output.control)
           gone == kept \ queue'
           lost == {c \in Controls : \E n \in gone : n.command.control = c}
<1>1. /\ output \in Commands /\ output.control \in Controls
      /\ output.control # NoControl /\ output # Nothing
      /\ Accept(h, output) /\ queue' = EnqueueBounded(queue, new)
      /\ stopping' = stopping /\ ~stopping
  BY Kinds DEF SendOutput
<1>2. /\ new.command = output /\ got' = got /\ got # Disconnected
      /\ receiver_alive /\ receiver_alive' = receiver_alive
  BY <1>1, AcceptKeeps, StampIsNew DEF Accept
<1>3. /\ new \in queue' /\ queue' \subseteq kept \cup {new}
      /\ \A n \in gone : IsOutput(n)
      /\ \A n, other \in gone : n = other
      /\ Cardinality(kept) < Capacity => gone = {}
  <2> HIDE DEF new
  <2> QED
    BY <1>1, <1>2, OnePerControl, EnqueueKeepsRoom
<1>4. kept = {m \in queue : m.command.control # output.control}
  BY DEF Retain
<1>5. OnePer(queue) /\ OnePer(queue')
  BY SendOutputPreserves, InvOnePer, InvOnePerThen
<1> HIDE DEF new, kept
<1>6. \A m \in queue : m.command \in Outputs \/ (m.command \in Orders /\ m.command.control = NoControl)
  BY <1>5, Kinds DEF OnePer, Stamped
<1>7. \A c \in lost : Slot[c] # Nothing /\ c # output.control
  <2> SUFFICES ASSUME NEW n \in gone, n.command.control \in Controls
               PROVE  Slot[n.command.control] # Nothing
                      /\ n.command.control # output.control
    OBVIOUS
  <2>1. n \in queue /\ n.command \in Outputs /\ n.command.control # output.control
    BY <1>3, <1>4 DEF IsOutput
  <2> QED
    BY <1>5, <2>1, Mapping, MappingNow, Kinds
<1>8. lost \in SUBSET (Mailbox!Waiting \ {output.control})
  BY <1>7, SameValues DEF Mailbox!Waiting
<1>9. lost # {} => Cardinality(lost) = 1 /\ Mailbox!Backlog(output.control) >= Capacity
  <2> SUFFICES ASSUME lost # {}
               PROVE  Cardinality(lost) = 1 /\ Mailbox!Backlog(output.control) >= Capacity
    OBVIOUS
  <2>1. PICK c \in lost : lost = {c}
    BY <1>3
  <2>2. Cardinality(lost) = 1
    BY <2>1, FS_Singleton
  <2>3. ~ (Cardinality(kept) < Capacity)
    BY <1>3
  <2>4. Cardinality(kept) <= Mailbox!Backlog(output.control)
    BY <1>1, BacklogCounts DEF kept
  <2>5. IsFiniteSet(kept)
    BY <1>4, FS_Subset DEF IInv
  <2>6. Cardinality(kept) \in Nat
    BY <2>5, FS_CardinalityType
  <2>7. Mailbox!Backlog(output.control) \in Nat
    <3>1. IsFiniteSet(Mailbox!Waiting \ {output.control})
      BY <1>1, WaitingIsFinite
    <3>2. Cardinality(Mailbox!Waiting \ {output.control}) \in Nat
      BY <3>1, FS_CardinalityType
    <3> QED
      BY <3>2, SameCardinality DEF Mailbox!Backlog
  <2> QED
    BY <2>2, <2>3, <2>4, <2>6, <2>7, CapacityAssumption
<1>10. Slot' = [c \in Controls |-> IF c = output.control THEN output
                                   ELSE IF c \in lost THEN Mailbox!Nothing
                                   ELSE Slot[c]]
  <2>1. SlotOf(queue')[output.control] = output
    BY <1>2, <1>3, <1>5, Mapping
  <2>2. ASSUME NEW c \in Controls, c # output.control, c \in lost
        PROVE  SlotOf(queue')[c] = Nothing
    <3>1. PICK n \in gone : n.command.control = c
      BY <2>2
    <3>2. \A m \in queue' : m.command.control # c
      BY <1>2, <1>3, <1>4, <1>5, <2>2, <3>1 DEF OnePer
    <3> QED
      BY <1>5, <3>2, Mapping
  <2>3. ASSUME NEW c \in Controls, c # output.control, c \notin lost
        PROVE  SlotOf(queue')[c] = SlotOf(queue)[c]
    <3>1. CASE \E m \in queue : m.command.control = c
      <4>1. PICK m \in queue : m.command.control = c
        BY <3>1
      <4>2. m \in queue' /\ m.command \in Outputs
        BY <1>4, <1>6, <2>3, <4>1, NoControlAssumption
      <4> QED
        BY <1>5, <4>1, <4>2, Mapping
    <3>2. CASE \A m \in queue : m.command.control # c
      <4>1. \A m \in queue' : m.command.control # c
        BY <1>2, <1>3, <1>4, <2>3, <3>2
      <4> QED
        BY <1>5, <3>2, <4>1, Mapping
    <3> QED
      BY <3>1, <3>2
  <2> HIDE DEF lost
  <2>4. \A c \in Controls : SlotOf(queue')[c] = IF c = output.control THEN output
                                                ELSE IF c \in lost THEN Mailbox!Nothing
                                                ELSE SlotOf(queue)[c]
    BY <2>1, <2>2, <2>3, SameValues
  <2>5. SlotOf(queue') = [c \in Controls |-> SlotOf(queue')[c]]
    BY DEF SlotOf
  <2> QED
    BY <2>4, <2>5, MappingNow, MappingThen
<1>11. Order' = Order
  <2>1. \A m \in queue : m.command \in Orders => m \in queue'
    BY <1>1, <1>3, <1>4, <1>6, Kinds DEF IsOutput
  <2>2. CASE \E m \in queue : m.command \in Orders
    BY <1>5, <2>1, <2>2, Mapping, MappingNow, MappingThen
  <2>3. CASE \A m \in queue : m.command \notin Orders
    <3>1. \A m \in queue' : m.command \notin Orders
      BY <1>2, <1>3, <1>4, <2>3, Kinds
    <3> QED
      BY <1>5, <2>3, <3>1, Mapping, MappingNow, MappingThen
  <2> QED
    BY <2>2, <2>3
<1> HIDE DEF lost
<1>12. Mailbox!Accepting
  BY <1>1, <1>2, SameValues, Zenon DEF Mailbox!Accepting
<1>13. lost # {} => /\ Mailbox!Cardinality(lost) = 1
                    /\ Mailbox!Backlog(output.control) >= Capacity
  BY <1>9, SameCardinality
<1> QED
  BY <1>1, <1>2, <1>8, <1>10, <1>11, <1>12, <1>13, Zenon DEF Mailbox!Put

\* What try_recv returns comes out of the mailbox: the order first, for whatever
\* waits beside an order was sent after it.
LEMMA TryRecvMaps ==
    ASSUME IInv, TryRecv
    PROVE  Mailbox!Take
<1>1. OnePer(queue) /\ OnePer(queue')
  BY TryRecvPreserves, InvOnePer, InvOnePerThen
<1>2. receiver_alive /\ receiver_alive' = receiver_alive /\ stopping' = stopping
  BY DEF TryRecv
<1>3. CASE queue = {}
  <2>1. queue' = queue /\ got' = Disconnected
    BY <1>3 DEF TryRecv
  <2>2. Order = Nothing /\ \A c \in Controls : Slot[c] = Nothing
    BY <1>1, <1>3, Mapping, MappingNow
  <2>3. Slot' = Slot /\ Order' = Order
    BY <2>1, MappingNow, MappingThen
  <2>4. Mailbox!Waiting = {}
    BY <2>2, SameValues DEF Mailbox!Waiting
  <2>5. Mailbox!TakeDisconnected
    BY <1>2, <2>1, <2>2, <2>3, <2>4, SameValues, Zenon DEF Mailbox!TakeDisconnected
  <2> QED
    BY <2>5 DEF Mailbox!Take
<1>4. CASE queue # {}
  <2> DEFINE first == First(queue)
  <2>1. first \in queue /\ \A n \in queue : first.at <= n.at
    BY <1>4, FirstIsLeast DEF IInv, TypeOK
  <2>2. queue' = queue \ {first} /\ got' = first.command
    BY <1>4 DEF TryRecv
  <2> HIDE DEF first
  <2>3. first.command \in Commands
    BY <1>1, <2>1 DEF OnePer, Stamped
  <2>4. CASE first.command \in Orders
    <3>1. Order = first.command /\ Order # Nothing
      BY <1>1, <2>1, <2>4, Mapping, MappingNow, Kinds
    <3>2. \A m \in queue' : m.command \notin Orders
      BY <1>1, <2>1, <2>2, <2>4, Kinds DEF OnePer
    <3>3. Order' = Nothing
      BY <1>1, <3>2, Mapping, MappingThen
    <3>4. Slot' = Slot
      <4>1. \A c \in Controls : SlotOf(queue')[c] = SlotOf(queue)[c]
        <5> SUFFICES ASSUME NEW c \in Controls
                     PROVE  SlotOf(queue')[c] = SlotOf(queue)[c]
          OBVIOUS
        <5>1. first.command.control # c
          BY <2>4, Kinds, NoControlAssumption
        <5>2. CASE \E m \in queue : m.command.control = c
          <6>1. PICK m \in queue : m.command.control = c
            BY <5>2
          <6>2. m \in queue' /\ m.command \in Outputs
            BY <1>1, <2>2, <5>1, <6>1, Kinds, NoControlAssumption DEF OnePer, Stamped
          <6> QED
            BY <1>1, <6>1, <6>2, Mapping
        <5>3. CASE \A m \in queue : m.command.control # c
          BY <1>1, <2>2, <5>3, Mapping
        <5> QED
          BY <5>2, <5>3
      <4>2. SlotOf(queue') = [c \in Controls |-> SlotOf(queue')[c]]
            /\ SlotOf(queue) = [c \in Controls |-> SlotOf(queue)[c]]
        BY DEF SlotOf
      <4> QED
        BY <4>1, <4>2, MappingNow, MappingThen
    <3>5. Mailbox!TakeOrder
      BY <1>2, <2>2, <3>1, <3>3, <3>4, SameValues, Zenon DEF Mailbox!TakeOrder
    <3> QED
      BY <3>5 DEF Mailbox!Take
  <2>5. CASE first.command \in Outputs
    <3> DEFINE c == first.command.control
    <3>1. c \in Controls /\ first.command # Nothing /\ Slot[c] = first.command
      BY <1>1, <2>1, <2>5, Mapping, MappingNow, Kinds
    <3>2. \A m \in queue : m.command \notin Orders
      <4> SUFFICES ASSUME NEW m \in queue, m.command \in Orders
                   PROVE  FALSE
        OBVIOUS
      <4>1. ~ (m.at > first.at)
        BY <2>1 DEF IInv, Safety, NothingStaleWaits, Overrides, Placement
      <4>2. m = first
        BY <2>1, <4>1, MaxSendsAssumption
           DEF IInv, TypeOK, Stamped, Stamps, Placement
      <4> QED
        BY <2>5, <4>2, Kinds
    <3>3. Order = Nothing /\ Order' = Nothing
      BY <1>1, <2>2, <3>2, Mapping, MappingNow, MappingThen
    <3>4. SlotOf(queue')[c] = Nothing
      <4>1. \A m \in queue' : m.command.control # c
        BY <1>1, <2>1, <2>2 DEF OnePer
      <4> QED
        BY <1>1, <3>1, <4>1, Mapping
    <3>5. ASSUME NEW d \in Controls, d # c
          PROVE  SlotOf(queue')[d] = SlotOf(queue)[d]
      <4>1. CASE \E m \in queue : m.command.control = d
        <5>1. PICK m \in queue : m.command.control = d
          BY <4>1
        <5>2. m \in queue' /\ m.command \in Outputs
          BY <1>1, <2>2, <3>5, <5>1, Kinds, NoControlAssumption DEF OnePer, Stamped
        <5> QED
          BY <1>1, <5>1, <5>2, Mapping
      <4>2. CASE \A m \in queue : m.command.control # d
        BY <1>1, <2>2, <4>2, Mapping
      <4> QED
        BY <4>1, <4>2
    <3>6. Slot' = [Slot EXCEPT ![c] = Nothing]
      <4>1. SlotOf(queue') = [d \in Controls |-> SlotOf(queue')[d]]
            /\ SlotOf(queue) = [d \in Controls |-> SlotOf(queue)[d]]
        BY DEF SlotOf
      <4> HIDE DEF c
      <4>2. SlotOf(queue') = [SlotOf(queue) EXCEPT ![c] = Nothing]
        BY <3>1, <3>4, <3>5, <4>1
      <4> QED
        BY <4>2, MappingNow, MappingThen
    <3>7. Mailbox!TakeOutput(c)
      <4> HIDE DEF c
      <4> QED
        BY <1>2, <2>2, <3>1, <3>3, <3>6, SameValues, Zenon DEF Mailbox!TakeOutput
    <3> QED
      BY <3>1, <3>7 DEF Mailbox!Take
  <2> QED
    BY <2>3, <2>4, <2>5, Kinds
<1> QED
  BY <1>3, <1>4

\* Every step of the channel is a step of the mailbox or leaves it as it is.
LEMMA NextMaps == IInv /\ [Next]_vars => [Mailbox!MNext]_(Mailbox!mvars)
<1> SUFFICES ASSUME IInv, [Next]_vars
             PROVE  Mailbox!MNext \/ UNCHANGED Mailbox!mvars
  OBVIOUS
<1>1. ASSUME UNCHANGED <<queue, stopping, receiver_alive, got>>
      PROVE  UNCHANGED Mailbox!mvars
  <2>1. Slot' = Slot /\ Order' = Order
    BY <1>1, MappingNow, MappingThen
  <2> QED
    BY <1>1, <2>1 DEF Mailbox!mvars
<1>2. ASSUME NEW h \in Handles, NEW copy \in Handles, Clone(h, copy) \/ DropSender(h)
      PROVE  UNCHANGED Mailbox!mvars
  BY <1>1, <1>2 DEF Clone, DropSender
<1>3. ASSUME NEW h \in Handles, SendStop(h)
      PROVE  Mailbox!MNext
  BY <1>3, SendStopMaps DEF Mailbox!MNext
<1>4. ASSUME NEW h \in Handles, SendReset(h)
      PROVE  Mailbox!MNext
  BY <1>4, SendResetMaps DEF Mailbox!MNext
<1>5. ASSUME NEW h \in Handles, NEW o \in Outputs, SendOutput(h, o)
      PROVE  Mailbox!MNext
  BY <1>5, SendOutputMaps DEF Mailbox!MNext
<1>6. CASE TryRecv
  BY <1>6, TryRecvMaps DEF Mailbox!MNext
<1>7. CASE DropReceiver
  <2>1. /\ receiver_alive /\ receiver_alive' = FALSE
        /\ UNCHANGED <<queue, stopping, got>>
    BY <1>7 DEF DropReceiver
  <2>2. Slot' = Slot /\ Order' = Order
    BY <2>1, MappingNow, MappingThen
  <2>3. Mailbox!CloseReceiver
    BY <2>1, <2>2, Zenon DEF Mailbox!CloseReceiver
  <2> QED
    BY <2>3 DEF Mailbox!MNext
<1>8. CASE UNCHANGED vars
  BY <1>1, <1>8 DEF vars
<1> QED
  BY <1>2, <1>3, <1>4, <1>5, <1>6, <1>7, <1>8 DEF Next

\* command_channel, CommandSender and CommandReceiver implement the mailbox the
\* worker's model is built on: what is shown of the worker above the mailbox
\* holds above the channel.
THEOREM QueueImplementsMailbox == Spec => ImplementsMailbox
<1>1. Init => Mailbox!MInit
  BY InitMaps
<1>2. IInv /\ [Next]_vars => [Mailbox!MNext]_(Mailbox!mvars)
  BY NextMaps
<1> QED
  BY <1>1, <1>2, Invariance, PTL DEF Spec, ImplementsMailbox, Mailbox!MSpec

=============================================================================
