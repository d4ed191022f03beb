---------------------------- MODULE CommandMailbox ----------------------------
(***************************************************************************)
(* What the command channel of manager.rs promises to its two ends, with   *)
(* the order in which the outputs wait left out: a mailbox that holds, for *)
(* each control, at most the newest output not yet received, and in front  *)
(* of them at most one order (reset the device, or stop).                  *)
(*                                                                         *)
(* CommandQueue implements this specification, and DeviceWorker is built   *)
(* on it, so what is shown of the worker holds for any channel that keeps  *)
(* these promises.                                                         *)
(***************************************************************************)
EXTENDS Naturals, FiniteSets

CONSTANTS
    Controls,       \* The control ids outputs are addressed to
    Outputs,        \* The hardware outputs: records with a kind and a control
    NoControl,      \* The control of a command that addresses none
    Capacity        \* COMMAND_QUEUE_CAPACITY

OutputKinds == {"SetLed", "SetRasterFrame", "ClearRaster"}

ASSUME OutputsAssumption ==
    \A o \in Outputs : o.kind \in OutputKinds /\ o.control \in Controls
ASSUME NoControlAssumption == NoControl \notin Controls
ASSUME CapacityAssumption == Capacity \in Nat /\ Capacity >= 2

ResetDevice == [kind |-> "ResetDevice", control |-> NoControl]
Stop == [kind |-> "Stop", control |-> NoControl]
Orders == {ResetDevice, Stop}
Commands == Outputs \cup Orders

\* What try_recv reports on an empty queue with no sender left.
Disconnected == [kind |-> "Disconnected", control |-> NoControl]
\* No command: an empty slot, no order, nothing received so far.
Nothing == [kind |-> "Nothing", control |-> NoControl]

VARIABLES
    slot,           \* slot[c]: the output waiting for control c, or Nothing
    order,          \* the order waiting in front of the outputs, or Nothing
    stopping,       \* a stop was accepted
    receiver_alive, \* the worker still owns the receiving end
    got             \* what the worker received last

mvars == <<slot, order, stopping, receiver_alive, got>>

Empty == [c \in Controls |-> Nothing]
Waiting == {c \in Controls : slot[c] # Nothing}

\* Commands other than the slot of c that are waiting.
Backlog(c) == Cardinality(Waiting \ {c}) + (IF order = Nothing THEN 0 ELSE 1)

MInit ==
    /\ slot = Empty
    /\ order = Nothing
    /\ stopping = FALSE
    /\ receiver_alive = TRUE
    /\ got = Nothing

\* A send is accepted while the worker listens and somebody can still send.
Accepting == receiver_alive /\ ~stopping /\ got # Disconnected

\* The newest output of a control replaces the one waiting. Only when the
\* other commands alone fill the channel may one other output be given up.
Put(o) ==
    /\ Accepting
    /\ \E lost \in SUBSET (Waiting \ {o.control}) :
          /\ lost # {} => Cardinality(lost) = 1 /\ Backlog(o.control) >= Capacity
          /\ slot' = [c \in Controls |-> IF c = o.control THEN o
                                         ELSE IF c \in lost THEN Nothing
                                         ELSE slot[c]]
    /\ UNCHANGED <<order, stopping, receiver_alive, got>>

\* A reset drops every waiting output and goes first.
PutReset ==
    /\ Accepting
    /\ slot' = Empty
    /\ order' = ResetDevice
    /\ UNCHANGED <<stopping, receiver_alive, got>>

\* A stop drops everything, goes first and is the last command accepted. It may
\* be repeated.
PutStop ==
    /\ receiver_alive
    /\ got # Disconnected
    /\ slot' = Empty
    /\ order' = Stop
    /\ stopping' = TRUE
    /\ UNCHANGED <<receiver_alive, got>>

TakeOrder ==
    /\ receiver_alive
    /\ order # Nothing
    /\ got' = order
    /\ order' = Nothing
    /\ UNCHANGED <<slot, stopping, receiver_alive>>

\* The outputs leave in some order, but none before a waiting order.
TakeOutput(c) ==
    /\ receiver_alive
    /\ order = Nothing
    /\ slot[c] # Nothing
    /\ got' = slot[c]
    /\ slot' = [slot EXCEPT ![c] = Nothing]
    /\ UNCHANGED <<order, stopping, receiver_alive>>

\* The receiver learns that nothing is waiting and nobody can send any more.
TakeDisconnected ==
    /\ receiver_alive
    /\ order = Nothing
    /\ Waiting = {}
    /\ got' = Disconnected
    /\ UNCHANGED <<slot, order, stopping, receiver_alive>>

\* The worker has worked off what it received.
Use ==
    /\ receiver_alive
    /\ got \in Commands
    /\ got' = Nothing
    /\ UNCHANGED <<slot, order, stopping, receiver_alive>>

Take == TakeOrder \/ (\E c \in Controls : TakeOutput(c)) \/ TakeDisconnected

CloseReceiver ==
    /\ receiver_alive
    /\ receiver_alive' = FALSE
    /\ UNCHANGED <<slot, order, stopping, got>>

MNext ==
    \/ \E o \in Outputs : Put(o)
    \/ PutReset
    \/ PutStop
    \/ Take
    \/ Use
    \/ CloseReceiver

MSpec == MInit /\ [][MNext]_mvars

=============================================================================
