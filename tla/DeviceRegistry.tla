---------------------------- MODULE DeviceRegistry ----------------------------
(***************************************************************************)
(* What the manager promises the core and the command handler, with the    *)
(* panels, the threads and the supervisor left out: each device has one    *)
(* session at a time, with one worker. A session opens with set_device and *)
(* closes with remove_device, the core has the device and commands have a  *)
(* route only in between, and so does its worker's input come.             *)
(*                                                                         *)
(* Manager implements this specification.                                  *)
(***************************************************************************)
EXTENDS Naturals

CONSTANTS
    Devices,    \* The hardware ids
    Workers,    \* The worker ids
    None        \* No worker

VARIABLES
    route,      \* route[d]: the worker of the session of d, or None
    known,      \* the devices the core has
    call        \* the call the core is working on

dvars == <<route, known, call>>

Idle == [at |-> "recv"]
Ended == [at |-> "aborted"]
Call(at, d, i) == [at |-> at, device |-> d, worker |-> i]

DInit ==
    /\ route = [d \in Devices |-> None]
    /\ known = {}
    /\ call = Idle

Open(d, i) ==
    /\ call = Idle
    /\ route[d] = None /\ d \notin known
    /\ route' = [route EXCEPT ![d] = i]
    /\ call' = Call("set_device", d, i)
    /\ UNCHANGED known

Deliver(d, i) ==
    /\ call = Idle
    /\ route[d] = i /\ d \in known
    /\ call' = Call("handle_hardware_message", d, i)
    /\ UNCHANGED <<route, known>>

Close(d, i) ==
    /\ call = Idle
    /\ route[d] = i /\ d \in known
    /\ route' = [route EXCEPT ![d] = None]
    /\ call' = Call("remove_device", d, i)
    /\ UNCHANGED known

Answer ==
    /\ call \notin {Idle, Ended}
    /\ known' = CASE call.at = "set_device" -> known \cup {call.device}
                  [] call.at = "remove_device" -> known \ {call.device}
                  [] OTHER -> known
    /\ call' = Idle
    /\ UNCHANGED route

\* The session of the manager ends: wherever it stood, nothing is called any more.
End ==
    /\ call # Ended
    /\ call' = Ended
    /\ UNCHANGED <<route, known>>

DNext ==
    \/ \E d \in Devices, i \in Workers : Open(d, i) \/ Deliver(d, i) \/ Close(d, i)
    \/ Answer
    \/ End

DSpec == DInit /\ [][DNext]_dvars

=============================================================================
