----------------------------- MODULE FipProtocol -----------------------------
(***************************************************************************)
(* What the manager and a panel say to each other, and what a controller   *)
(* is told of it: the control packets and HID masks of protocol.rs, the    *)
(* controls, capabilities and input messages of descriptor.rs, and the     *)
(* reading of a command message by manager.rs (hardware_output_from_body). *)
(*                                                                         *)
(* A 16-bit mask is the set of its bits, and so is a byte of a HID report. *)
(* A JSON value is named by a word: "true" and "false" are the booleans,   *)
(* "jpeg" and "png" strings, "photo" and "noise" strings that are base64   *)
(* (of an image, or of something else), "other" any other value.           *)
(***************************************************************************)
EXTENDS Integers, Sequences

-----------------------------------------------------------------------------
(* Control packets: eleven words, sent as 44 bytes, big end first. *)

WIDTH == 320
HEIGHT == 240
FRAME_BYTES == WIDTH * HEIGHT * 3

REQ_SET_IMAGE == 6
REQ_PROBE == 10
REQ_CLEAR_IMAGE == 19
REQ_SET_LED == 24

\* u32, its bound written as TLC's integers can say it.
Word == {w \in Nat : w \div 16777216 < 256}
CONTROL_PACKET_WORDS == 11
CONTROL_PACKET_SIZE == CONTROL_PACKET_WORDS * 4

FipControlPacket ==
    [server_id : Word, page : Word, data_size : Word, header_error : Word,
     header_info : Word, request : Word, param_1 : Word, param_2 : Word,
     param_3 : Word, request_error : Word, request_info : Word]

AsWords(p) ==
    <<p.server_id, p.page, p.data_size, p.header_error, p.header_info, p.request,
      p.param_1, p.param_2, p.param_3, p.request_error, p.request_info>>

ToBeBytes(word) ==
    <<word \div 16777216, (word \div 65536) % 256, (word \div 256) % 256, word % 256>>

FromBeBytes(chunk) ==
    chunk[1] * 16777216 + chunk[2] * 65536 + chunk[3] * 256 + chunk[4]

ToBytes(p) ==
    [i \in 1..CONTROL_PACKET_SIZE |->
        ToBeBytes(AsWords(p)[((i - 1) \div 4) + 1])[((i - 1) % 4) + 1]]

WordAt(raw, k) == FromBeBytes(<<raw[4*k + 1], raw[4*k + 2], raw[4*k + 3], raw[4*k + 4]>>)

FromBytes(raw) ==
    [server_id |-> WordAt(raw, 0), page |-> WordAt(raw, 1), data_size |-> WordAt(raw, 2),
     header_error |-> WordAt(raw, 3), header_info |-> WordAt(raw, 4),
     request |-> WordAt(raw, 5), param_1 |-> WordAt(raw, 6), param_2 |-> WordAt(raw, 7),
     param_3 |-> WordAt(raw, 8), request_error |-> WordAt(raw, 9),
     request_info |-> WordAt(raw, 10)]

FipPacket(request, page, data_size, param_1, param_2, param_3) ==
    [server_id |-> 0, page |-> page, data_size |-> data_size, header_error |-> 0,
     header_info |-> 0, request |-> request, param_1 |-> param_1, param_2 |-> param_2,
     param_3 |-> param_3, request_error |-> 0, request_info |-> 0]

ProbePacket == FipPacket(REQ_PROBE, 0, 0, 0, 0, 0)
SetImagePacket(page) == FipPacket(REQ_SET_IMAGE, page, FRAME_BYTES, 0, 0, 0)
ClearImagePacket(page) == FipPacket(REQ_CLEAR_IMAGE, page, 0, 0, 0, 0)

SetLedPacket(page, index, value) ==
    FipPacket(REQ_SET_LED, 1, 0, page, index, IF value THEN 1 ELSE 0)

\* The replies that are looked at: nobody looks at those to ClearImage and SetLed.
ValidProbeReply(reply) == reply.request = REQ_PROBE

\* Mutation: the errors of the request are not looked at.
ValidSetImageReplyLax(reply, page) ==
    /\ reply.request = REQ_SET_IMAGE
    /\ reply.page = page
    /\ reply.data_size = 0
    /\ reply.header_error = 0

ValidSetImageReply(reply, page) ==
    /\ reply.request = REQ_SET_IMAGE
    /\ reply.page = page
    /\ reply.data_size = 0
    /\ reply.header_error = 0
    /\ reply.request_error = 0

-----------------------------------------------------------------------------
(* HID reports. *)

HID_CONTROLS ==
    [UP |-> 0, DOWN |-> 1, RIGHT_ANTICLOCKWISE |-> 2, RIGHT_CLOCKWISE |-> 3,
     S1 |-> 8, S2 |-> 9, S3 |-> 10, S4 |-> 11, S5 |-> 12, S6 |-> 13,
     LEFT_ANTICLOCKWISE |-> 14, LEFT_CLOCKWISE |-> 15]

\* u16::from_be_bytes.
DecodeHidMask(report) == {bit + 8 : bit \in report[1]} \cup report[2]

ChangedEvents(previous_mask, current_mask) ==
    {[control |-> c, pressed |-> HID_CONTROLS[c] \in current_mask] :
        c \in {c \in DOMAIN HID_CONTROLS :
                  (HID_CONTROLS[c] \in previous_mask) # (HID_CONTROLS[c] \in current_mask)}}

-----------------------------------------------------------------------------
(* Controls, capabilities and input messages. *)

BUTTON_CONTROLS ==
    [up |-> "Up", down |-> "Down", s1 |-> "S1", s2 |-> "S2", s3 |-> "S3", s4 |-> "S4",
     s5 |-> "S5", s6 |-> "S6"]
KNOB_CONTROLS == [left_encoder |-> "Left", right_encoder |-> "Right"]
SCREEN == "screen"

DEFAULT_PAGE_ID == 1

Capability(id, event_types, command_types) ==
    [capability_id |-> id, event_types |-> event_types, command_types |-> command_types]
Raster == Capability("raster.bitmap", {}, {"set_frame", "clear"})
Led == Capability("led.binary", {}, {"set"})
Button == Capability("button.momentary", {"down", "up"}, {})
Encoder == Capability("encoder.relative", {"rotate"}, {})

ControlDescriptor(id, label, inputs, outputs) ==
    [control_id |-> id, label |-> label, input_capabilities |-> inputs,
     output_capabilities |-> outputs]

ScreenControl == ControlDescriptor(SCREEN, "Screen", {}, {Raster})
ButtonControls(inputs) ==
    {ControlDescriptor(b, BUTTON_CONTROLS[b], inputs, {Led}) : b \in DOMAIN BUTTON_CONTROLS}
KnobControls ==
    {ControlDescriptor(k, KNOB_CONTROLS[k], {Encoder}, {}) : k \in DOMAIN KNOB_CONTROLS}

\* Mutation: the knobs are forgotten.
ControlDescriptorsKnobless(input_enabled) ==
    {ScreenControl} \cup ButtonControls(IF input_enabled THEN {Button} ELSE {})

ControlDescriptors(input_enabled) ==
    {ScreenControl}
        \cup ButtonControls(IF input_enabled THEN {Button} ELSE {})
        \cup (IF input_enabled THEN KnobControls ELSE {})

ControlInput(control_id, capability_id, event_type, delta) ==
    [control_id |-> control_id, capability_id |-> capability_id,
     event_type |-> event_type, delta |-> delta]

ButtonInput(control_id, pressed) ==
    ControlInput(control_id, "button.momentary", IF pressed THEN "down" ELSE "up", 0)
EncoderInput(control_id, delta) ==
    ControlInput(control_id, "encoder.relative", "rotate", delta)

ButtonOf ==
    [UP |-> "up", DOWN |-> "down", S1 |-> "s1", S2 |-> "s2", S3 |-> "s3", S4 |-> "s4",
     S5 |-> "s5", S6 |-> "s6"]

\* The messages of one event: one or none. A contact of a knob counts as it closes.
TranslateHidEvent(event) ==
    CASE event.control \in DOMAIN ButtonOf ->
            {ButtonInput(ButtonOf[event.control], event.pressed)}
      [] event.control \notin DOMAIN ButtonOf /\ ~event.pressed -> {}
      [] event.control = "LEFT_CLOCKWISE" /\ event.pressed ->
            {EncoderInput("left_encoder", 1)}
      [] event.control = "LEFT_ANTICLOCKWISE" /\ event.pressed ->
            {EncoderInput("left_encoder", -1)}
      [] event.control = "RIGHT_CLOCKWISE" /\ event.pressed ->
            {EncoderInput("right_encoder", 1)}
      [] event.control = "RIGHT_ANTICLOCKWISE" /\ event.pressed ->
            {EncoderInput("right_encoder", -1)}

-----------------------------------------------------------------------------
(* Commands. *)

LED_INDEX ==
    [s1 |-> 1, s2 |-> 2, s3 |-> 3, s4 |-> 4, s5 |-> 5, s6 |-> 6, up |-> 7, down |-> 8]

\* led_index. Mutations: None for the last lamp; Up and Down are swapped.
HasLedButDown(control_id) == control_id \in DOMAIN LED_INDEX \ {"down"}
HasLed(control_id) == control_id \in DOMAIN LED_INDEX
LedIndexSwapped(control_id) ==
    IF control_id = "up" THEN 8 ELSE IF control_id = "down" THEN 7 ELSE LED_INDEX[control_id]
LedIndex(control_id) == LED_INDEX[control_id]

NoControl == "none"

HardwareOutput(kind, control_id, value) ==
    [kind |-> kind, control_id |-> control_id, value |-> value]
Unsupported == HardwareOutput("Unsupported", NoControl, "none")

\* A command message: params is a function from keys to JSON values.
IsCommand(body, capability_id, command_type) ==
    body.capability_id = capability_id /\ body.command_type = command_type

LedSet(body) ==
    /\ IsCommand(body, "led.binary", "set")
    /\ HasLed(body.control_id)
    /\ DOMAIN body.params = {"on"}
    /\ body.params["on"] \in {"true", "false"}

SetFrame(body) ==
    /\ IsCommand(body, "raster.bitmap", "set_frame")
    /\ body.control_id # NoControl
    /\ {"image", "encoding"} \subseteq DOMAIN body.params
    /\ body.params["encoding"] \in {"jpeg", "png"}
    /\ body.params["image"] \in {"photo", "noise"}

Clear(body) ==
    /\ IsCommand(body, "raster.bitmap", "clear")
    /\ body.control_id # NoControl
    /\ DOMAIN body.params = {}

\* hardware_output_from_body; Unsupported stands for its error.
HardwareOutputFromBody(body) ==
    IF LedSet(body) THEN HardwareOutput("SetLed", body.control_id, body.params["on"])
    ELSE IF SetFrame(body)
         THEN HardwareOutput("SetRasterFrame", body.control_id, body.params["image"])
    ELSE IF Clear(body) THEN HardwareOutput("ClearRaster", body.control_id, "none")
    ELSE Unsupported
=============================================================================
