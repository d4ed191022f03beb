----------------------------- MODULE PanelSession -----------------------------
(***************************************************************************)
(* What a controller sees of a panel and what the panel does of its        *)
(* commands, over the sessions of successive workers (device_worker and    *)
(* apply_hardware_output of manager.rs): reports become masks, masks       *)
(* events and events messages; messages become outputs, outputs packets,   *)
(* and packets are answered. When a worker runs, who may command it and in *)
(* which order its commands come is DeviceWorker's and CommandQueue's      *)
(* business; here every order of them is possible.                         *)
(*                                                                         *)
(* The panel (external): its parts are named by what is printed on them.   *)
(* Report bits, words of a packet and lamp numbers are those of README.md  *)
(* ("Button lamps") and of the tests of protocol.rs. A packet is carried   *)
(* out, or refused by an error in the reply; a reply waits in the panel    *)
(* until somebody reads it, the worker or, if that one gave up, the next   *)
(* one. A report not read yet is overwritten by the next.                  *)
(***************************************************************************)
EXTENDS FipProtocol, FiniteSets

CONSTANTS
    Bodies,         \* The command messages controllers send
    Touched,        \* The contacts that move
    MaxEvents,      \* Bound of the model: moves, commands, resets and notices
    MaxSessions,    \* Bound of the model: workers in turn
    MaxStale        \* Bound of the model: replies nobody has read

\* The bit of each contact; Spare stands for the bits that no control has.
Contact ==
    [Up |-> 0, Down |-> 1, RightBack |-> 2, RightOn |-> 3, Spare |-> 4, S1 |-> 8, S2 |-> 9,
     S3 |-> 10, S4 |-> 11, S5 |-> 12, S6 |-> 13, LeftBack |-> 14, LeftOn |-> 15]

ASSUME PanelAssumption ==
    /\ Touched \subseteq DOMAIN Contact
    /\ MaxEvents \in Nat /\ MaxSessions \in Nat /\ MaxStale \in Nat

Lamps == <<"S1", "S2", "S3", "S4", "S5", "S6", "Up", "Down">>
LampNames == {"S1", "S2", "S3", "S4", "S5", "S6", "Up", "Down"}
KnobNames == {"Left", "Right"}
On == [Left |-> "LeftOn", Right |-> "RightOn"]
Back == [Left |-> "LeftBack", Right |-> "RightBack"]

NoDevice == {}
NoReport == <<>>

VARIABLES
    closed,         \* the contacts of the panel closed now
    report,         \* the report waiting in the panel: two bytes
    lit,            \* the lamps lit
    picture,        \* what the screen shows
    replies,        \* the replies nobody has read
    serving,        \* a worker is in its loop
    has_hid,        \* has_hid_input()
    previous_mask,  \* previous_mask
    armed,          \* watchdog: last_frame is Some
    notice_shown,   \* watchdog: notice_shown
    effect,         \* the effect of the last command that had one
    device,         \* the controls of the device announced to controllers
    inputs,         \* the Input messages of the last report read
    down,           \* a controller's view: the buttons down
    angle,          \* a controller's view: how far each knob was turned
    waiting,        \* history: the contacts closed at the report waiting
    read,           \* history: the contacts closed at the last report read
    turned,         \* history: how far each knob was turned between the reports read
    ordered,        \* history: the lamps last ordered lit, by control
    events,         \* moves, commands, resets and notices so far
    sessions        \* workers so far

hand == <<closed, report, waiting>>
panel == <<lit, picture, replies>>
worker == <<serving, has_hid, previous_mask, armed, notice_shown, effect>>
view == <<device, inputs, down, angle, read, turned>>
vars == <<hand, panel, worker, view, ordered, events, sessions>>

Unturned == [k \in DOMAIN KNOB_CONTROLS |-> 0]
Unmoved == [n \in KnobNames |-> 0]

TypeOK ==
    /\ closed \subseteq DOMAIN Contact /\ read \subseteq DOMAIN Contact
    /\ waiting \subseteq DOMAIN Contact
    /\ report = NoReport \/ report \in (SUBSET (0..7)) \X (SUBSET (0..7))
    /\ lit \subseteq LampNames /\ ordered \subseteq DOMAIN BUTTON_CONTROLS
    /\ picture \in {"nothing", "leftover", "frame", "notice"}
    /\ replies \in Seq(FipControlPacket) /\ Len(replies) <= MaxStale
    /\ serving \in BOOLEAN /\ has_hid \in BOOLEAN
    /\ armed \in BOOLEAN /\ notice_shown \in BOOLEAN
    /\ previous_mask \subseteq 0..15
    /\ effect \in {"None", "Frame", "Clear", "Reset"}
    /\ device \in {NoDevice, ControlDescriptors(TRUE), ControlDescriptors(FALSE)}
    /\ down \subseteq DOMAIN BUTTON_CONTROLS
    /\ angle \in [DOMAIN KNOB_CONTROLS -> Int] /\ turned \in [KnobNames -> Int]
    /\ events \in 0..MaxEvents /\ sessions \in 0..MaxSessions

Init ==
    /\ closed = {} /\ report = NoReport /\ waiting = {}
    /\ lit = {"Up"} /\ ordered = {"up"} /\ picture = "leftover" /\ replies = <<>>
    /\ serving = FALSE /\ has_hid = FALSE /\ previous_mask = {}
    /\ armed = FALSE /\ notice_shown = FALSE /\ effect = "None"
    /\ device = NoDevice /\ inputs = {} /\ down = {} /\ angle = Unturned
    /\ read = {} /\ turned = Unmoved
    /\ events = 0 /\ sessions = 0

Count == events < MaxEvents /\ events' = events + 1 /\ UNCHANGED sessions

-----------------------------------------------------------------------------
(* The panel. *)

\* Two bytes, big end first.
PanelReport(contacts) ==
    LET bits == {Contact[c] : c \in contacts}
    IN  <<{bit \in 0..7 : bit + 8 \in bits}, {bit \in 0..7 : bit \in bits}>>

\* A contact closes or opens, and the panel reports where all of them stand.
Touch(c) ==
    /\ Count
    /\ closed' = (closed \cup {c}) \ (closed \cap {c})
    /\ report' = PanelReport(closed')
    /\ waiting' = closed'
    /\ UNCHANGED <<panel, worker, view, ordered>>

\* What a packet asks for, its words numbered from zero.
Request(raw) == WordAt(raw, 5)
AsksLamp(raw) ==
    /\ Request(raw) = REQ_SET_LED /\ WordAt(raw, 1) = 1 /\ WordAt(raw, 6) = 1
    /\ WordAt(raw, 7) \in 1..8
AsksScreen(raw) == Request(raw) \in {REQ_SET_IMAGE, REQ_CLEAR_IMAGE} /\ WordAt(raw, 1) = 1

\* The lamps and the screen once it is carried out.
LitBy(raw, lamps) ==
    IF AsksLamp(raw)
    THEN (lamps \ {Lamps[WordAt(raw, 7)]})
            \cup (IF WordAt(raw, 8) = 1 THEN {Lamps[WordAt(raw, 7)]} ELSE {})
    ELSE lamps

PictureBy(raw, payload) ==
    CASE AsksScreen(raw) /\ Request(raw) = REQ_SET_IMAGE -> payload
      [] AsksScreen(raw) /\ Request(raw) = REQ_CLEAR_IMAGE -> "nothing"
      [] OTHER -> picture

\* A reply echoes the request and its page, and says whether it was refused.
Reply(raw, refused) ==
    [FipPacket(Request(raw), WordAt(raw, 1), 0, 0, 0, 0)
        EXCEPT !.request_error = IF refused THEN 1 ELSE 0]

-----------------------------------------------------------------------------
(* A worker: transceive. *)

Raw(packets) == [i \in DOMAIN packets |-> ToBytes(packets[i])]

\* The replies in the panel after packets, those numbered in refused refused, and
\* after as many replies, or all but some of them, have been read.
Answered(packets, refused) ==
    replies \o [i \in DOMAIN packets |-> Reply(Raw(packets)[i], i \in refused)]
Exchange(packets, refused) ==
    replies' = SubSeq(Answered(packets, refused), Len(packets) + 1,
                      Len(replies) + Len(packets))
ExchangeBut(unread, packets, refused) ==
    /\ Len(replies) + unread <= MaxStale
    /\ replies' = SubSeq(Answered(packets, refused), Len(packets) - unread + 1,
                         Len(replies) + Len(packets))
ExchangeButLast(packets, refused) == ExchangeBut(1, packets, refused)

\* The first reply it reads.
Received(packets, refused) == FromBytes(ToBytes(Answered(packets, refused)[1]))

\* clear_leds looks at no reply. The lamps left lit after packets are those refused.
ClearLeds == [i \in 1..8 |-> SetLedPacket(DEFAULT_PAGE_ID, i, FALSE)]
LampsKept(packets, refused) ==
    {l \in lit : \A i \in DOMAIN packets \ refused : l \in LitBy(Raw(packets)[i], lit)}
OrdersKept(numbers, refused) ==
    {b \in ordered : \E i \in 1..8 : Lamps[i] = BUTTON_CONTROLS[b] /\ i \notin numbers \ refused}

\* reset_device. The lamps that are not lit do not matter.
Refusals == SUBSET {i \in 1..8 : Lamps[i] \in lit}

ResetPanel ==
    \E refused \in Refusals, kept \in BOOLEAN :
        /\ lit' = LampsKept(ClearLeds, refused)
        /\ ordered' = OrdersKept(1..8, refused)
        /\ picture' = IF kept THEN picture
                      ELSE PictureBy(ToBytes(ClearImagePacket(DEFAULT_PAGE_ID)), "none")
        /\ Exchange(Append(ClearLeds, ClearImagePacket(DEFAULT_PAGE_ID)),
                    refused \cup IF kept THEN {9} ELSE {})

\* The USB fails at the n-th lamp, which has the packet, or before the next one, if any,
\* has it. The screen is cleared all the same, if that does not fail too. Either failure
\* may leave a reply unread.
ResetFails ==
    \E n \in 0..8, cleared \in BOOLEAN, unread \in 0..2 :
        /\ unread <= (IF n > 0 THEN 1 ELSE 0) + (IF cleared THEN 1 ELSE 0)
        /\ lit' = LampsKept(SubSeq(ClearLeds, 1, n), {})
        /\ ordered' = OrdersKept(1..n, {})
        /\ picture' = IF cleared
                      THEN PictureBy(ToBytes(ClearImagePacket(DEFAULT_PAGE_ID)), "none")
                      ELSE picture
        /\ ExchangeBut(unread,
                       SubSeq(ClearLeds, 1, n)
                          \o IF cleared THEN <<ClearImagePacket(DEFAULT_PAGE_ID)>> ELSE <<>>,
                       {})

-----------------------------------------------------------------------------
(* Its session. *)

\* The Connected report; a controller starts over with the device.
Serve(input) ==
    /\ serving' = TRUE
    /\ has_hid' = input
    /\ previous_mask' = {}
    /\ armed' = TRUE /\ notice_shown' = FALSE /\ effect' = "None"
    /\ device' = ControlDescriptors(input)
    /\ inputs' = {} /\ down' = {} /\ angle' = Unturned
    /\ read' = {} /\ turned' = Unmoved

\* The worker returns: the device is gone, whatever the reason.
Leave ==
    /\ serving' = FALSE
    /\ has_hid' = FALSE
    /\ previous_mask' = {}
    /\ armed' = FALSE /\ notice_shown' = FALSE /\ effect' = "None"
    /\ device' = NoDevice
    /\ inputs' = {} /\ down' = {} /\ angle' = Unturned
    /\ read' = {} /\ turned' = Unmoved

Attempt == ~serving /\ sessions < MaxSessions /\ sessions' = sessions + 1 /\ UNCHANGED events

\* Open, probe and clear the lamps.
Connect(input) ==
    /\ Attempt
    /\ ValidProbeReply(Received(<<ProbePacket>>, {}))
    /\ \E refused \in Refusals :
          /\ lit' = LampsKept(ClearLeds, refused)
          /\ ordered' = OrdersKept(1..8, refused)
          /\ Exchange(<<ProbePacket>> \o ClearLeds, {i + 1 : i \in refused})
    /\ Serve(input)
    /\ UNCHANGED <<hand, picture>>

\* The panel cannot be opened; the reply to the probe is another one, or never comes, or
\* comes too late; or the USB fails at the n-th lamp or the next.
ConnectFails ==
    /\ Attempt
    /\ \/ UNCHANGED <<lit, ordered, replies>>
       \/ /\ ~ValidProbeReply(Received(<<ProbePacket>>, {}))
          /\ Exchange(<<ProbePacket>>, {})
          /\ UNCHANGED <<lit, ordered>>
       \/ ExchangeButLast(<<ProbePacket>>, {}) /\ UNCHANGED <<lit, ordered>>
       \/ /\ ValidProbeReply(Received(<<ProbePacket>>, {}))
          /\ \E n \in 0..8 :
                /\ \/ ExchangeButLast(<<ProbePacket>> \o SubSeq(ClearLeds, 1, n), {})
                   \/ Exchange(<<ProbePacket>> \o SubSeq(ClearLeds, 1, n), {})
                /\ lit' = LampsKept(SubSeq(ClearLeds, 1, n), {})
                /\ ordered' = OrdersKept(1..n, {})
    /\ UNCHANGED <<hand, picture, worker, view>>

\* A stop or a reset that fails (reset_device and return), another USB failure, or a
\* panel that is pulled and plugged in again.
StopOrFail ==
    /\ serving
    /\ Leave
    /\ \/ (ResetPanel \/ ResetFails) /\ UNCHANGED hand
       \/ UNCHANGED <<hand, panel, ordered>>
       \/ /\ report' = NoReport /\ waiting' = {} /\ replies' = <<>>
          /\ lit' = {} /\ ordered' = {} /\ picture' = "leftover"
          /\ UNCHANGED closed
    /\ UNCHANGED <<events, sessions>>

-----------------------------------------------------------------------------
(* Input. *)

\* What a controller makes of the messages of one report.
Tell(messages) ==
    /\ inputs' = messages
    /\ down' = {b \in DOMAIN BUTTON_CONTROLS :
                  \/ ButtonInput(b, TRUE) \in messages
                  \/ b \in down /\ ButtonInput(b, FALSE) \notin messages}
    /\ angle' = [k \in DOMAIN KNOB_CONTROLS |->
                    angle[k] + (IF EncoderInput(k, 1) \in messages THEN 1 ELSE 0)
                             - (IF EncoderInput(k, -1) \in messages THEN 1 ELSE 0)]

Turn(n) ==
    turned[n] + (IF On[n] \in waiting \ read THEN 1 ELSE 0)
              - (IF Back[n] \in waiting \ read THEN 1 ELSE 0)

\* Mutation: the mask is not kept.
ReadReportForgetful ==
    /\ serving /\ has_hid
    /\ report # NoReport
    /\ Tell(UNION {TranslateHidEvent(e) : e \in ChangedEvents(previous_mask, DecodeHidMask(report))})
    /\ report' = NoReport
    /\ read' = waiting
    /\ turned' = [n \in KnobNames |-> Turn(n)]
    /\ UNCHANGED <<closed, waiting, panel, serving, has_hid, previous_mask, armed,
                   notice_shown, effect, device, ordered, events, sessions>>

ReadReport ==
    /\ serving /\ has_hid
    /\ report # NoReport
    /\ LET mask == DecodeHidMask(report)
       IN  /\ Tell(UNION {TranslateHidEvent(e) : e \in ChangedEvents(previous_mask, mask)})
           /\ previous_mask' = mask
    /\ report' = NoReport
    /\ read' = waiting
    /\ turned' = [n \in KnobNames |-> Turn(n)]
    /\ UNCHANGED <<closed, waiting, panel, serving, has_hid, armed, notice_shown, effect,
                   device, ordered, events, sessions>>

\* A report of one byte.
ShortReport ==
    /\ serving /\ has_hid
    /\ report # NoReport
    /\ report' = NoReport
    /\ Leave
    /\ UNCHANGED <<closed, waiting, panel, ordered, events, sessions>>

-----------------------------------------------------------------------------
(* Output. *)

\* Commands for a control that is no screen, and what the handler cannot read, are
\* dropped.
Ignored(o) == o = Unsupported \/ (o.kind # "SetLed" /\ o.control_id # SCREEN)

PacketOf(o) ==
    CASE o.kind = "SetLed" ->
            SetLedPacket(DEFAULT_PAGE_ID, LedIndex(o.control_id), o.value = "true")
      [] o.kind = "SetRasterFrame" -> SetImagePacket(DEFAULT_PAGE_ID)
      [] o.kind = "ClearRaster" -> ClearImagePacket(DEFAULT_PAGE_ID)

\* The panel carries out the packet of an output, or refuses it.
CarryOut(o, refused) ==
    IF refused THEN UNCHANGED <<lit, picture, ordered>>
    ELSE /\ lit' = LitBy(ToBytes(PacketOf(o)), lit)
         /\ picture' = PictureBy(ToBytes(PacketOf(o)), "frame")
         /\ ordered' = CASE o.kind # "SetLed" -> ordered
                         [] o.kind = "SetLed" /\ o.value = "true" -> ordered \cup {o.control_id}
                         [] o.kind = "SetLed" /\ o.value = "false" -> ordered \ {o.control_id}

Refused(refused) == IF refused THEN {1} ELSE {}

\* FrameWatchdog::observe
Observe(e) ==
    /\ effect' = IF e = "None" THEN effect ELSE e
    /\ armed' = (e = "Frame" \/ (armed /\ e # "Clear"))
    /\ notice_shown' = (notice_shown /\ e = "None")
    /\ UNCHANGED <<serving, has_hid, previous_mask, view>>

Ignore(body) ==
    /\ serving /\ Count
    /\ Ignored(HardwareOutputFromBody(body))
    /\ UNCHANGED <<hand, panel, worker, view, ordered>>

\* encoded_image_to_fip_frame fails.
Undecodable(body) ==
    /\ serving /\ Count
    /\ LET o == HardwareOutputFromBody(body)
       IN  ~Ignored(o) /\ o.kind = "SetRasterFrame" /\ o.value = "noise"
    /\ Leave
    /\ UNCHANGED <<hand, panel, ordered>>

\* Nobody looks at the reply to a lamp command or to a clear.
Apply(body) ==
    /\ serving /\ Count
    /\ LET o == HardwareOutputFromBody(body)
       IN  /\ ~Ignored(o) /\ o.value # "noise"
           /\ \E refused \in BOOLEAN :
                 /\ CarryOut(o, refused)
                 /\ Exchange(<<PacketOf(o)>>, Refused(refused))
                 /\ CASE o.kind = "SetLed" -> Observe("None")
                      [] o.kind = "ClearRaster" -> Observe("Clear")
                      [] o.kind = "SetRasterFrame" ->
                            IF ValidSetImageReply(Received(<<PacketOf(o)>>, Refused(refused)),
                                                  DEFAULT_PAGE_ID)
                            THEN Observe("Frame") ELSE Leave
    /\ UNCHANGED hand

\* The USB fails when the panel has the packet already: the reply stays unread.
Interrupted(body) ==
    /\ serving /\ Count
    /\ LET o == HardwareOutputFromBody(body)
       IN  /\ ~Ignored(o) /\ o.value # "noise"
           /\ \E refused \in BOOLEAN :
                 /\ CarryOut(o, refused)
                 /\ ExchangeButLast(<<PacketOf(o)>>, Refused(refused))
    /\ Leave
    /\ UNCHANGED hand

\* RuntimeCommand::ResetDevice
ResetDevice ==
    /\ serving /\ Count
    /\ ResetPanel
    /\ Observe("Reset")
    /\ UNCHANGED hand

\* FrameWatchdog::check, when the deadline is over.
ShowNotice ==
    /\ serving /\ Count
    /\ armed /\ ~notice_shown
    /\ LET packet == SetImagePacket(DEFAULT_PAGE_ID)
       IN  \E refused \in BOOLEAN :
              /\ picture' = IF refused THEN picture ELSE PictureBy(ToBytes(packet), "notice")
              /\ Exchange(<<packet>>, Refused(refused))
              /\ IF ValidSetImageReply(Received(<<packet>>, Refused(refused)), DEFAULT_PAGE_ID)
                 THEN /\ notice_shown' = TRUE
                      /\ UNCHANGED <<serving, has_hid, previous_mask, armed, effect, view>>
                 ELSE Leave
    /\ UNCHANGED <<hand, lit, ordered>>

Next ==
    \/ \E c \in Touched : Touch(c)
    \/ \E input \in BOOLEAN : Connect(input)
    \/ ConnectFails \/ StopOrFail \/ ReadReport \/ ShortReport \/ ResetDevice \/ ShowNotice
    \/ \E body \in Bodies :
          Ignore(body) \/ Undecodable(body) \/ Apply(body) \/ Interrupted(body)

Spec == Init /\ [][Next]_vars

-----------------------------------------------------------------------------
(* Properties. *)

\* A controller never loses step with the panel: the buttons it takes to be down, and
\* the way it takes each knob to have gone, are those of the reports read in this
\* session, whichever reports were overwritten, wherever the contacts stood when the
\* session began, and whatever the bits without a control do.
ControllerInStep ==
    /\ {BUTTON_CONTROLS[b] : b \in down} = read \cap LampNames
    /\ \A k \in DOMAIN KNOB_CONTROLS : angle[k] = turned[KNOB_CONTROLS[k]]

\* The parameters the schema of each command type allows.
Schema ==
    [set |-> [{"on"} -> {"true", "false"}], clear |-> [{} -> {}],
     set_frame |-> {p \in [{"image", "encoding"} -> {"photo", "jpeg", "png"}] :
                        p["image"] = "photo" /\ p["encoding"] \in {"jpeg", "png"}}]

InputIsOffered ==
    \A m \in inputs : \E c \in device : \E cap \in c.input_capabilities :
        /\ c.control_id = m.control_id
        /\ cap.capability_id = m.capability_id
        /\ m.event_type \in cap.event_types

AnnouncedIsServed ==
    \A c \in device : \A cap \in c.output_capabilities : \A type \in cap.command_types :
        \A params \in Schema[type] :
            ~Ignored(HardwareOutputFromBody(
                [control_id |-> c.control_id, capability_id |-> cap.capability_id,
                 command_type |-> type, params |-> params]))

\* The descriptor a device is announced with is kept to in both directions. Every input
\* message is of a control, a capability and an event type in it, so a panel announced
\* without input sends none; and every command its schemas allow is read by the handler
\* and carried out by the worker, not unsupported or dropped.
DescriptorIsKept == InputIsOffered /\ AnnouncedIsServed

\* A lamp is lit if and only if the last command that reached its control, of those
\* the panel agreed to, was to light it: the lamp is the one beside the label under
\* which the control is announced, and a reset puts out all of them.
LampsAsOrdered == lit = {BUTTON_CONTROLS[b] : b \in ordered}

\* A frame that counts as displayed is displayed, until the notice or a reset: neither
\* a refusal nor the late reply to an earlier command, even to an earlier frame, is
\* taken for the panel's consent.
FrameIsShown == effect = "Frame" => picture \in {"frame", "notice"}

\* An image on the screen is watched: unless the watchdog is armed, nothing that could
\* look live is on the screen of a served panel (image.rs: "never leave an old radar
\* image looking live").
ImageIsWatched == serving /\ ~armed => picture # "frame"
=============================================================================
