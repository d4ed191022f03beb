------------------------------- MODULE UsbHandle -------------------------------
(***************************************************************************)
(* The USB handle of one panel (backend.rs): enumerate picks the endpoints *)
(* to use from the panel's configuration; UsbBackend::open claims the      *)
(* vendor interface and, if it can, the HID interface, detaching the       *)
(* kernel's drivers; transceive runs a command under one deadline; drop    *)
(* gives everything back. Every libusb call is a step and may fail.        *)
(*                                                                         *)
(* Of libusb and the kernel: an interface is claimed only while no driver  *)
(* is bound to it, a driver binds only while nobody holds the interface,   *)
(* closing a handle releases what it still holds, a call with a timeout    *)
(* returns by then or a little late, and a timeout of zero is none at all. *)
(***************************************************************************)
EXTENDS Naturals, Sequences, SequencesExt

CONSTANTS
    Interfaces,     \* The interfaces a panel may have, by number
    Configs,        \* Configurations: sequences of interface descriptors
    Timeout,        \* The time of one command, in ticks of the clock
    TicksPerMilli,  \* Ticks in a millisecond, the unit of libusb's timeouts
    MaxCalls,       \* Bound of the model: the transfers of one command
    MaxLate         \* Bound of the model: ticks by which a call may be late

NoInterface == "none"
EndpointKinds == {"bulk_out", "bulk_in", "interrupt_in"}

ASSUME UsbHandleAssumption ==
    /\ NoInterface \notin Interfaces
    /\ Configs \subseteq Seq([number : Interfaces, class : {"vendor", "hid", "other"},
                              endpoints : SUBSET EndpointKinds])
    /\ Timeout \in Nat /\ MaxLate \in Nat
    /\ TicksPerMilli \in Nat \ {0}
    /\ MaxCalls \in Nat /\ MaxCalls >= 2

Opening == {"query", "detach", "claim", "restore"}
Working == {"open", "ready", "call"}
Closing == {"release", "attach"}

VARIABLES
    at,             \* the call that comes next, or the state of the handle
    interface,      \* the interface being claimed
    config,         \* the configuration of the panel
    candidate,      \* the DeviceCandidate the last enumeration made of it
    hid_input,      \* has_hid_input()
    claimed,        \* claimed
    detached,       \* detached
    detached_here,  \* detached_here
    before,         \* claimed_before and detached_before
    driver,         \* the interfaces a kernel driver is bound to
    held,           \* the interfaces the kernel has given to this handle
    had,            \* history: driver when the handle was opened
    refused,        \* history: interfaces whose release or attach call failed
    now,            \* ticks since the command began
    deadline,       \* deadline
    calls,          \* the transfers the command still has to make
    wait            \* the timeout of the transfer under way, in milliseconds

books == <<config, candidate, hid_input, claimed, detached, detached_here, before>>
device == <<driver, held, had, refused>>
timing == <<now, deadline, calls, wait>>
vars == <<at, interface, books, device, timing>>

MaxNow == Timeout + MaxLate

\* An endpoint is named by the descriptor it belongs to and its kind.
Endpoint(i, kind) == [descriptor |-> i, kind |-> kind]
NoEndpoint == Endpoint(0, "none")
NoCandidate == [vendor_interface |-> NoInterface, bulk_out |-> NoEndpoint,
                bulk_in |-> NoEndpoint, hid_interface |-> NoInterface,
                hid_interrupt_in |-> NoEndpoint]

TypeOK ==
    /\ at \in {"idle"} \cup Opening \cup Working \cup Closing
    /\ interface \in Interfaces \cup {NoInterface}
    /\ config \in Configs
    /\ {candidate.vendor_interface, candidate.hid_interface}
          \subseteq Interfaces \cup {NoInterface}
    /\ hid_input \in BOOLEAN
    /\ claimed \in Seq(Interfaces) /\ Len(claimed) <= 2
    /\ detached \in Seq(Interfaces) /\ Len(detached) <= 2
    /\ detached_here \in BOOLEAN
    /\ before \in (0..2) \X (0..2)
    /\ driver \subseteq Interfaces /\ held \subseteq Interfaces
    /\ had \subseteq Interfaces /\ refused \subseteq Interfaces
    /\ now \in 0..MaxNow
    /\ deadline \in 0..Timeout
    /\ calls \in 0..MaxCalls
    /\ wait \in 0..Timeout

Init ==
    /\ at = "idle" /\ interface = NoInterface
    /\ config \in Configs /\ candidate = NoCandidate
    /\ hid_input = FALSE
    /\ claimed = <<>> /\ detached = <<>>
    /\ detached_here = FALSE /\ before = <<0, 0>>
    /\ driver \in SUBSET {config[i].number : i \in DOMAIN config}
    /\ held = {} /\ had = driver /\ refused = {}
    /\ now = 0 /\ deadline = 0 /\ calls = 0 /\ wait = 0

-----------------------------------------------------------------------------
(* Enumeration. *)

\* The descriptors of a class that have the endpoints looked for; the last one wins.
Having(class, kinds) ==
    {i \in DOMAIN config : config[i].class = class /\ kinds \subseteq config[i].endpoints}
LastOf(found) == CHOOSE i \in found : \A j \in found : j <= i

NumberOf(found) == IF found = {} THEN NoInterface ELSE config[LastOf(found)].number
EndpointOf(found, kind) == IF found = {} THEN NoEndpoint ELSE Endpoint(LastOf(found), kind)

\* find_fip_endpoints. Mutation: the bulk endpoints found so far are not forgotten
\* between one interface and the next.
FindCarriedOver ==
    LET outs == Having("vendor", {"bulk_out"})
        ins == Having("vendor", {"bulk_in"})
        reads == Having("hid", {"interrupt_in"})
    IN  IF outs = {} \/ ins = {} THEN NoCandidate
        ELSE [vendor_interface |-> NumberOf(outs \cup ins),
              bulk_out |-> EndpointOf(outs, "bulk_out"),
              bulk_in |-> EndpointOf(ins, "bulk_in"),
              hid_interface |-> NumberOf(reads),
              hid_interrupt_in |-> EndpointOf(reads, "interrupt_in")]

FindFipEndpoints ==
    LET pairs == Having("vendor", {"bulk_out", "bulk_in"})
        reads == Having("hid", {"interrupt_in"})
    IN  IF pairs = {} THEN NoCandidate
        ELSE [vendor_interface |-> NumberOf(pairs),
              bulk_out |-> EndpointOf(pairs, "bulk_out"),
              bulk_in |-> EndpointOf(pairs, "bulk_in"),
              hid_interface |-> NumberOf(reads),
              hid_interrupt_in |-> EndpointOf(reads, "interrupt_in")]

\* A panel whose configuration cannot be read is skipped, as one without the endpoints.
Enumerate ==
    /\ at = "idle"
    /\ candidate' \in {FindFipEndpoints, NoCandidate}
    /\ UNCHANGED <<at, interface, config, hid_input, claimed, detached, detached_here, before,
                   device, timing>>

-----------------------------------------------------------------------------
(* Opening. *)

Open ==
    /\ at = "idle"
    /\ candidate # NoCandidate
    /\ at' = "query"
    /\ interface' = candidate.vendor_interface
    /\ hid_input' = (candidate.hid_interface # NoInterface)
    /\ had' = driver /\ refused' = {}
    /\ UNCHANGED <<config, candidate, claimed, detached, detached_here, before, driver, held,
                   timing>>

\* kernel_driver_active; a query that fails counts as no.
Query ==
    /\ at = "query"
    /\ detached_here' \in {(interface \in driver), FALSE}
    /\ at' = IF detached_here' THEN "detach" ELSE "claim"
    /\ UNCHANGED <<interface, config, candidate, hid_input, claimed, detached, before, device,
                   timing>>

\* The handle is opened with what has been claimed.
Opened == at' = "open" /\ UNCHANGED <<interface, before>>

\* After the vendor interface comes the HID interface, if it is another one.
ClaimNext ==
    IF /\ interface = candidate.vendor_interface
       /\ candidate.hid_interface \notin {NoInterface, candidate.vendor_interface}
    THEN /\ at' = "query"
         /\ interface' = candidate.hid_interface
         /\ before' = <<Len(claimed'), Len(detached')>>
    ELSE Opened

\* rollback_interfaces, which finds nothing beyond what the claim before it added.
Rollback ==
    /\ claimed' = SubSeq(claimed, 1, before[1])
    /\ detached' = SubSeq(detached, 1, before[2])
    /\ held' = held \ ToSet(SubSeq(claimed, before[1] + 1, Len(claimed)))

\* claim_interface failed: without the vendor interface there is no handle, without
\* the HID interface one without input.
ClaimFailed ==
    \/ /\ interface = candidate.vendor_interface
       /\ at' = "idle"
       /\ hid_input' = FALSE
       /\ UNCHANGED <<interface, before, claimed, detached, held>>
    \/ /\ interface # candidate.vendor_interface
       /\ Rollback
       /\ hid_input' = FALSE
       /\ Opened

Detach ==
    /\ at = "detach"
    /\ \/ /\ driver' = driver \ {interface}
          /\ at' = "claim"
          /\ UNCHANGED <<interface, hid_input, claimed, detached, before, held>>
       \/ ClaimFailed /\ UNCHANGED driver
    /\ UNCHANGED <<config, candidate, detached_here, had, refused, timing>>

Claim ==
    /\ at = "claim"
    /\ interface \notin driver
    /\ held' = held \cup {interface}
    /\ claimed' = Append(claimed, interface)
    /\ detached' = IF detached_here THEN Append(detached, interface) ELSE detached
    /\ ClaimNext
    /\ UNCHANGED <<config, candidate, hid_input, detached_here, driver, had, refused, timing>>

\* Mutation: a failed claim leaves the kernel's driver detached.
ClaimRefusedBare ==
    /\ at = "claim"
    /\ ClaimFailed
    /\ UNCHANGED <<config, candidate, detached_here, driver, had, refused, timing>>

ClaimRefused ==
    /\ at = "claim"
    /\ \/ /\ detached_here
          /\ at' = "restore"
          /\ UNCHANGED <<interface, hid_input, claimed, detached, before, held>>
       \/ ~detached_here /\ ClaimFailed
    /\ UNCHANGED <<config, candidate, detached_here, driver, had, refused, timing>>

\* attach_kernel_driver(i): it cannot succeed while the interface is held.
Attach(i) ==
    \/ i \notin held /\ driver' = driver \cup {i} /\ UNCHANGED refused
    \/ i \notin held /\ refused' = refused \cup {i} /\ UNCHANGED driver
    \/ i \in held /\ UNCHANGED <<driver, refused>>

\* The driver detached for a claim that failed is attached again.
Restore ==
    /\ at = "restore"
    /\ Attach(interface)
    /\ ClaimFailed
    /\ UNCHANGED <<config, candidate, detached_here, had, timing>>

-----------------------------------------------------------------------------
(* A command: its transfers share one deadline. *)

Transceive ==
    /\ at = "open"
    /\ at' = "ready"
    /\ now' = 0 /\ deadline' = Timeout
    /\ calls' \in 2..MaxCalls
    /\ wait' = 0
    /\ UNCHANGED <<interface, books, device>>

\* Mutation: every transfer gets the whole time.
WholeTimeout == Timeout \div TicksPerMilli

\* remaining_timeout in whole milliseconds; zero stands for its error.
RemainingTimeout == IF now <= deadline THEN (deadline - now) \div TicksPerMilli ELSE 0

\* Mutation: a rest below a millisecond is passed on to libusb.
IssueTruncated ==
    /\ at = "ready"
    /\ wait' = RemainingTimeout
    /\ at' = IF now < deadline THEN "call" ELSE "open"
    /\ UNCHANGED <<interface, books, device, now, deadline, calls>>

Issue ==
    /\ at = "ready"
    /\ wait' = RemainingTimeout
    /\ at' = IF RemainingTimeout > 0 THEN "call" ELSE "open"
    /\ UNCHANGED <<interface, books, device, now, deadline, calls>>

\* Mutation: one transfer too many.
CallReturnsOnce ==
    /\ at = "call"
    /\ \E t \in now..MaxNow :
          /\ wait > 0 => t <= now + wait * TicksPerMilli + MaxLate
          /\ now' = t
    /\ calls' = calls - 1
    /\ at' = IF calls = 0 THEN "open" ELSE "ready"
    /\ UNCHANGED <<interface, books, device, deadline, wait>>

\* The panel takes or sends the bytes; the last transfer is the reply.
CallReturns ==
    /\ at = "call"
    /\ \E t \in now..MaxNow :
          /\ wait > 0 => t <= now + wait * TicksPerMilli + MaxLate
          /\ now' = t
    /\ calls' = calls - 1
    /\ at' = IF calls = 1 THEN "open" ELSE "ready"
    /\ UNCHANGED <<interface, books, device, deadline, wait>>

\* The transfer fails, is short, or its time is over; the command ends.
CallFails ==
    /\ at = "call"
    /\ at' = "open"
    /\ UNCHANGED <<interface, books, device, timing>>

-----------------------------------------------------------------------------
(* Drop: the interfaces are released, then the drivers attached, last first. *)

Close ==
    /\ at = "open"
    /\ at' = "release"
    /\ UNCHANGED <<interface, books, device, timing>>

Release ==
    /\ at = "release"
    /\ claimed # <<>>
    /\ claimed' = Front(claimed)
    /\ \/ held' = held \ {Last(claimed)} /\ UNCHANGED refused
       \/ refused' = refused \cup {Last(claimed)} /\ UNCHANGED held
    /\ UNCHANGED <<at, interface, config, candidate, hid_input, detached, detached_here, before,
                   driver, had, timing>>

Released ==
    /\ at = "release"
    /\ claimed = <<>>
    /\ at' = "attach"
    /\ UNCHANGED <<interface, books, device, timing>>

AttachLast ==
    /\ at = "attach"
    /\ detached # <<>>
    /\ detached' = Front(detached)
    /\ Attach(Last(detached))
    /\ UNCHANGED <<at, interface, config, candidate, hid_input, claimed, detached_here, before,
                   held, had, timing>>

\* libusb closes the handle, and with it what it still holds.
Closed ==
    /\ at = "attach"
    /\ detached = <<>>
    /\ at' = "idle"
    /\ held' = {}
    /\ hid_input' = FALSE
    /\ UNCHANGED <<interface, config, candidate, claimed, detached, detached_here, before,
                   driver, had, refused, timing>>

Next ==
    \/ Enumerate \/ Open \/ Query \/ Detach \/ Claim \/ ClaimRefused \/ Restore
    \/ Transceive \/ Issue \/ CallReturns \/ CallFails
    \/ Close \/ Release \/ Released \/ AttachLast \/ Closed

Spec == Init /\ [][Next]_vars

\* The worker goes on from one transfer to the next, and libusb ends one that has a
\* timeout. Nothing ends one that has none.
FairSpec ==
    /\ Spec
    /\ WF_vars(Issue)
    /\ WF_vars(wait > 0 /\ (CallReturns \/ CallFails))

-----------------------------------------------------------------------------
(* Properties. *)

\* While the handle works, the only drivers missing are those of the interfaces it
\* holds (README: "A failed interface claim restores any kernel driver detached
\* during that attempt"). A handle that is closed, or was never opened for want of
\* the vendor interface, holds nothing, so the panel is left as it was found but for
\* release and attach calls that failed.
Restored ==
    /\ at = "idle" => held = {} /\ claimed = <<>> /\ detached = <<>>
    /\ at \in Working \cup {"idle"} => had \ driver \subseteq held \cup refused

\* A handle that works holds the interface that both its bulk endpoints belong to, and
\* the one of the HID endpoint if it says it has input: whatever interfaces the panel
\* has, and in whatever order, and although the HID interface could not be claimed
\* (README: "The manager treats HID input as optional").
EndpointsClaimed ==
    LET Owner(endpoint) == config[endpoint.descriptor].number
    IN  at \in Working =>
            /\ {Owner(candidate.bulk_out), Owner(candidate.bulk_in)} \subseteq held
            /\ hid_input => Owner(candidate.hid_interrupt_in) \in held

\* No transfer of a command may last beyond the command's one deadline (README: "Each
\* USB command has one five-second deadline covering its header, payload, and reply").
DeadlineHolds == at = "call" => now + wait * TicksPerMilli <= Timeout

\* Every command ends: no transfer is started that libusb would wait for for ever.
CommandEnds == (at \in {"ready", "call"}) ~> (at = "open")

=============================================================================
