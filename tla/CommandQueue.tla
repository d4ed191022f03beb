----------------------------- MODULE CommandQueue -----------------------------
(***************************************************************************)
(* The command channel of manager.rs (command_channel, CommandSender,      *)
(* CommandReceiver): the bounded queue through which the command handler   *)
(* and the supervisor drive one USB worker. Every operation runs under the *)
(* channel's mutex and is one action.                                      *)
(*                                                                         *)
(* The VecDeque is the set of its commands, each stamped with the number   *)
(* of its send: push_front happens only on a queue just cleared, so the    *)
(* order of the queue is always the order of the stamps.                   *)
(***************************************************************************)
EXTENDS Naturals, FiniteSets

CONSTANTS
    Controls,       \* The control ids outputs are addressed to
    Outputs,        \* The hardware outputs: records with a kind and a control
    NoControl,      \* The control of a command that addresses none
    Capacity,       \* COMMAND_QUEUE_CAPACITY
    Handles,        \* The CommandSender values that may exist
    FirstHandle,    \* The one command_channel returns
    MaxSends        \* Bound of the model: accepted sends

OutputKinds == {"SetLed", "SetRasterFrame", "ClearRaster"}

ASSUME OutputsAssumption ==
    \A o \in Outputs : o.kind \in OutputKinds /\ o.control \in Controls
ASSUME NoControlAssumption == NoControl \notin Controls
ASSUME CapacityAssumption == Capacity \in Nat /\ Capacity >= 2
ASSUME HandlesAssumption == FirstHandle \in Handles
ASSUME MaxSendsAssumption == MaxSends \in Nat

ResetDevice == [kind |-> "ResetDevice", control |-> NoControl]
Stop == [kind |-> "Stop", control |-> NoControl]
Orders == {ResetDevice, Stop}
Commands == Outputs \cup Orders
Disconnected == [kind |-> "Disconnected", control |-> NoControl]
Nothing == [kind |-> "Nothing", control |-> NoControl]

VARIABLES
    queue,          \* the waiting commands, each with the stamp of its send
    senders,        \* the live CommandSender handles (sender_count of them)
    stopping,       \* a stop was accepted
    receiver_alive, \* the CommandReceiver was not dropped
    got,            \* what try_recv returned last, Empty apart
    clock,          \* the accepted sends so far
    sent,           \* history: every accepted command, with its stamp
    taken,          \* history: those the worker received
    evicted         \* history: those given up at capacity

qvars == <<queue, senders, stopping, receiver_alive, got, clock>>
history == <<sent, taken, evicted>>
vars == <<queue, senders, stopping, receiver_alive, got, clock, sent, taken, evicted>>

Stamped == [at : 1..MaxSends, command : Commands]

TypeOK ==
    /\ queue \subseteq Stamped
    /\ senders \subseteq Handles
    /\ stopping \in BOOLEAN
    /\ receiver_alive \in BOOLEAN
    /\ got \in Commands \cup {Nothing, Disconnected}
    /\ clock \in 0..MaxSends
    /\ sent \subseteq Stamped
    /\ taken \subseteq sent
    /\ evicted \subseteq sent

Init ==
    /\ queue = {}
    /\ senders = {FirstHandle}
    /\ stopping = FALSE
    /\ receiver_alive = TRUE
    /\ got = Nothing
    /\ clock = 0
    /\ sent = {}
    /\ taken = {}
    /\ evicted = {}

-----------------------------------------------------------------------------
(* The queue. *)

IsOutput(m) == m.command \in Outputs
IsRasterFrame(m) == IsOutput(m) /\ m.command.kind = "SetRasterFrame"

\* Mutation: the newest command leaves first.
NewestFirst(q) == CHOOSE m \in q : \A n \in q : m.at >= n.at

First(q) == CHOOSE m \in q : \A n \in q : m.at <= n.at

\* Mutations: the old output stays; coalescing takes a waiting reset along.
RetainAll(q, control) == q
RetainOtherOutputs(q, control) == {m \in q : m.command.control \notin {control, NoControl}}

\* Coalescing: a new output of a control replaces the one that waits.
Retain(q, control) == {m \in q : m.command.control # control}

\* What a full queue gives up: its first raster frame, else its first output;
\* a reset or a stop is never given up.
\*
\* Mutation: without a frame the first command goes, whatever it is.
VictimsAny(q) ==
    LET frames == {m \in q : IsRasterFrame(m)}
    IN  IF frames # {} THEN {First(frames)}
        ELSE IF q # {} THEN {First(q)}
        ELSE {}

Victims(q) ==
    LET frames == {m \in q : IsRasterFrame(m)}
        outputs == {m \in q : IsOutput(m)}
    IN  IF frames # {} THEN {First(frames)}
        ELSE IF outputs # {} THEN {First(outputs)}
        ELSE {}

\* The queue never holds more than Capacity, so the loop's body runs at most once.
MakeRoom(q) == IF Cardinality(q) >= Capacity THEN q \ Victims(q) ELSE q

EnqueueBounded(q, m) ==
    LET room == MakeRoom(Retain(q, m.command.control))
    IN  IF Cardinality(room) < Capacity THEN room \cup {m} ELSE room

-----------------------------------------------------------------------------
(* The sending ends. *)

Stamp(command) == [at |-> clock + 1, command |-> command]

Clone(h, copy) ==
    /\ h \in senders
    /\ copy \notin senders
    /\ senders' = senders \cup {copy}
    /\ UNCHANGED <<queue, stopping, receiver_alive, got, clock>>
    /\ UNCHANGED history

DropSender(h) ==
    /\ h \in senders
    /\ senders' = senders \ {h}
    /\ UNCHANGED <<queue, stopping, receiver_alive, got, clock>>
    /\ UNCHANGED history

\* A send on a channel whose receiver is gone is an error and one on a stopping
\* channel is dropped: both leave the channel as it is.
Accept(h, command) ==
    /\ h \in senders
    /\ receiver_alive
    /\ clock < MaxSends
    /\ clock' = clock + 1
    /\ sent' = sent \cup {Stamp(command)}
    /\ UNCHANGED <<senders, receiver_alive, got, taken>>

SendStop(h) ==
    /\ Accept(h, Stop)
    /\ stopping' = TRUE
    /\ queue' = {Stamp(Stop)}
    /\ UNCHANGED evicted

\* Mutations: a reset revives a stopping channel; a reset leaves the outputs.
SendResetAlways(h) ==
    /\ Accept(h, ResetDevice)
    /\ queue' = {Stamp(ResetDevice)}
    /\ UNCHANGED <<stopping, evicted>>
SendResetBehind(h) ==
    /\ ~stopping
    /\ Accept(h, ResetDevice)
    /\ queue' = queue \cup {Stamp(ResetDevice)}
    /\ UNCHANGED <<stopping, evicted>>

SendReset(h) ==
    /\ ~stopping
    /\ Accept(h, ResetDevice)
    /\ queue' = {Stamp(ResetDevice)}
    /\ UNCHANGED <<stopping, evicted>>

SendOutput(h, output) ==
    /\ ~stopping
    /\ Accept(h, output)
    /\ queue' = EnqueueBounded(queue, Stamp(output))
    /\ evicted' = evicted \cup
          ((Retain(queue, output.control) \cup {Stamp(output)}) \ queue')
    /\ UNCHANGED stopping

-----------------------------------------------------------------------------
(* The receiving end. *)

\* An empty queue with a sender left is Empty: nothing changes.
TryRecv ==
    /\ receiver_alive
    /\ IF queue # {}
       THEN /\ queue' = queue \ {First(queue)}
            /\ got' = First(queue).command
            /\ taken' = taken \cup {First(queue)}
       ELSE /\ senders = {}
            /\ got' = Disconnected
            /\ UNCHANGED <<queue, taken>>
    /\ UNCHANGED <<senders, stopping, receiver_alive, clock, sent, evicted>>

DropReceiver ==
    /\ receiver_alive
    /\ receiver_alive' = FALSE
    /\ UNCHANGED <<queue, senders, stopping, got, clock>>
    /\ UNCHANGED history

Next ==
    \/ \E h, copy \in Handles : Clone(h, copy)
    \/ \E h \in Handles : DropSender(h)
    \/ \E h \in Handles : SendStop(h)
    \/ \E h \in Handles : SendReset(h)
    \/ \E h \in Handles, o \in Outputs : SendOutput(h, o)
    \/ TryRecv
    \/ DropReceiver

\* The worker polls the channel in every turn of its loop.
Spec == Init /\ [][Next]_vars /\ WF_vars(TryRecv)

-----------------------------------------------------------------------------
(* Properties. *)

\* n makes m void: it was accepted later, and it is an order, or an output for
\* the same control.
Overrides(n, m) ==
    /\ n.at > m.at
    /\ n.command \in Orders \/ n.command.control = m.command.control

\* Nothing that waits has been overridden: the worker never works off an old
\* value of a lamp or an old frame, and never an output from before a reset
\* (README: "Pending outputs coalesce per control ... Reset takes priority and
\* drops pending outputs").
NothingStaleWaits ==
    \A m \in queue : \A n \in sent : ~ Overrides(n, m)

\* An accepted command is received, or waits, or was overridden by a later one,
\* or was given up at capacity: no sequence of sends loses the newest state of a
\* control, a reset or a stop in any other way.
NothingLost ==
    \A m \in sent \ (queue \cup taken \cup evicted) :
        \E n \in sent : Overrides(n, m)

\* However full the queue, it never gives up a reset or a stop, nor the command
\* just sent while an older output waits.
OnlyOutputsEvicted ==
    \A m \in evicted : IsOutput(m) /\ \E n \in sent : n.at > m.at

\* With fewer controls than places nothing is ever given up: the 32 places hold
\* the eight lamps, the screen and an order with room to spare, so that only
\* raster commands for controls the panel does not have could fill them.
RoomForAllControls == Cardinality(Controls) < Capacity => evicted = {}

\* The queue never outgrows its capacity.
Bounded == Cardinality(queue) <= Capacity

\* Once a stop was accepted nothing else waits, whatever the senders that still
\* hold a handle do afterwards (test: "A reset racing with shutdown must not
\* revive the drained queue").
StopIsLast == stopping => \A m \in queue : m.command = Stop

\* The commands leave in the order of their sends, and after a stop the worker
\* receives nothing but a repeated stop or the disconnection.
InOrder ==
    [][/\ \A m \in taken' \ taken : \A n \in taken : n.at < m.at
       /\ got = Stop => got' \in {Stop, Disconnected}]_vars

\* A stop accepted while the worker listens is received unless the worker closes
\* its end first, however many commands arrive meanwhile.
StopArrives == stopping ~> (got \in {Stop, Disconnected} \/ ~receiver_alive)

-----------------------------------------------------------------------------
(* The channel implements the mailbox. *)

Slot == [c \in Controls |->
            IF \E m \in queue : m.command.control = c
            THEN (CHOOSE m \in queue : m.command.control = c).command
            ELSE Nothing]
Order == IF \E m \in queue : m.command \in Orders
         THEN (CHOOSE m \in queue : m.command \in Orders).command
         ELSE Nothing

Mailbox == INSTANCE CommandMailbox WITH slot <- Slot, order <- Order

\* Forgetting the order among outputs, every operation of the channel is one of
\* the mailbox, or changes nothing of it.
ImplementsMailbox == Mailbox!MSpec

=============================================================================
