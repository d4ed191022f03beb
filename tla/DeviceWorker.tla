----------------------------- MODULE DeviceWorker -----------------------------
(***************************************************************************)
(* One USB worker thread of manager.rs (device_worker and what it calls)   *)
(* with the display watchdog, the panel it drives, the command handler     *)
(* that feeds it and the claim that authorises its commands.               *)
(*                                                                         *)
(* The worker is one thread: pc says where it stands, and everything       *)
(* between two points where another party can act is one step. Parts of    *)
(* the panel break and heal as the environment likes; an operation on a    *)
(* broken part fails. Time passes in ticks, Timeout of them being          *)
(* frame_timeout.                                                          *)
(***************************************************************************)
EXTENDS CommandMailbox

CONSTANTS
    Lamps,          \* The controls led_index knows
    Screen,         \* SCREEN_CONTROL_ID
    Buttons,        \* The HID controls
    Fragile,        \* The parts of the panel that may break
    MaxClaims,      \* Bound of the model: claims granted in turn
    Timeout,        \* frame_timeout, in ticks
    Batch           \* OUTPUT_BATCH_SIZE

Parts == {"control", "lamps", "screen", "hid"}

ASSUME WorkerAssumption ==
    /\ Lamps \subseteq Controls
    /\ Screen \in Controls \ Lamps
    /\ \A o \in Outputs : o.kind = "SetLed" => o.control \in Lamps
    /\ MaxClaims \in Nat
    /\ \A o \in Outputs : o.claim \in 1..MaxClaims
    /\ Fragile \subseteq Parts
    /\ Timeout \in Nat \ {0}
    /\ Batch \in Nat \ {0}

VARIABLES
    pc,             \* where the worker thread stands
    outputs,        \* outputs: commands worked off in this turn of the loop
    previous_mask,  \* previous_mask: the buttons down at the last HID report
    has_hid,        \* has_hid_input: the HID interface could be claimed
    exit,           \* the final report, once the thread is done
    age,            \* watchdog: ticks since last_frame, up to Timeout
    armed,          \* watchdog: last_frame is Some
    notice_shown,   \* watchdog: notice_shown
    lamp,           \* lamp[l]: what the lamp shows, and under which claim
    screen,         \* what the screen shows, and under which claim
    broken,         \* the parts of the panel that fail now
    pressed,        \* the buttons down
    hid_report,     \* a HID report waits in the panel: it carries pressed
    claim,          \* the claim in force, 0 if there is none
    granted,        \* the claims granted so far
    reset_due,      \* the core has revoked a claim and not called reset yet
    handling,       \* the command between the handler's last check and its send
    silent,         \* history: ticks since a frame was displayed, or since startup
    blanked,        \* history: an authorised clear was displayed since the last frame
    late,           \* history: outputs displayed since the last revocation without a claim
    seen            \* history: the buttons down by the Input reports so far

watchdog == <<age, armed, notice_shown>>
panel == <<lamp, screen>>
buttons == <<pressed, hid_report>>
core == <<claim, granted, reset_due, handling>>
history == <<silent, blanked, late, seen>>
wvars == <<mvars, pc, outputs, previous_mask, has_hid, exit, watchdog, panel, broken,
           buttons, core, history>>

Off == [shows |-> "nothing", claim |-> 0]
Leftover == [shows |-> "leftover", claim |-> 0]
Notice == [shows |-> "notice", claim |-> 0]
Content(what, c) == [shows |-> what, claim |-> c]

Running == [kind |-> "Running", cause |-> {}]
Causes == Parts \cup {"image", "report"}

Points == {"open", "probe", "dark", "announce", "drain", "apply", "convert",
           "write", "check", "hid", "reset", "gone"}

WTypeOK ==
    /\ slot \in [Controls -> Outputs \cup {Nothing}]
    /\ order \in Orders \cup {Nothing}
    /\ got \in Commands \cup {Nothing, Disconnected}
    /\ {stopping, receiver_alive, has_hid, armed, notice_shown, hid_report, reset_due,
        blanked} \subseteq BOOLEAN
    /\ pc \in Points
    /\ outputs \in 0..Batch
    /\ previous_mask \subseteq Buttons /\ pressed \subseteq Buttons /\ seen \subseteq Buttons
    /\ exit \in [kind : {"Running", "Disconnected", "Failed"}, cause : SUBSET Causes]
    /\ age \in 0..Timeout /\ silent \in 0..Timeout
    /\ lamp \in [Lamps -> [shows : {"nothing", "leftover", "light"}, claim : 0..MaxClaims]]
    /\ screen \in [shows : {"nothing", "leftover", "notice", "frame"}, claim : 0..MaxClaims]
    /\ broken \subseteq Fragile
    /\ granted \in 0..MaxClaims /\ claim \in 0..granted
    /\ handling \in Outputs \cup {Nothing}
    /\ late \in Nat

WInit ==
    /\ MInit
    /\ pc = "open"
    /\ outputs = 0
    /\ previous_mask = {}
    /\ has_hid \in BOOLEAN
    /\ exit = Running
    /\ age = 0 /\ armed = FALSE /\ notice_shown = FALSE
    /\ lamp = [l \in Lamps |-> Leftover]
    /\ screen = Leftover
    /\ broken = {}
    /\ pressed = {} /\ hid_report = FALSE
    /\ claim = 0 /\ granted = 0 /\ reset_due = FALSE
    /\ handling = Nothing
    /\ silent = 0 /\ blanked = FALSE /\ late = 0 /\ seen = {}

-----------------------------------------------------------------------------
(* Around the worker: the panel, the clock, the core and the supervisor. *)

outside == <<pc, outputs, previous_mask, has_hid, exit>>

Break(part) ==
    /\ part \in Fragile \ broken
    /\ broken' = broken \cup {part}
    /\ UNCHANGED <<mvars, outside, watchdog, panel, buttons, core, history>>

Heal(part) ==
    /\ part \in broken
    /\ broken' = broken \ {part}
    /\ UNCHANGED <<mvars, outside, watchdog, panel, buttons, core, history>>

\* The panel reports every change of its buttons; an unread report is overwritten.
Press(b) ==
    /\ pressed' = (pressed \cup {b}) \ (pressed \cap {b})
    /\ hid_report' = TRUE
    /\ UNCHANGED <<mvars, outside, watchdog, panel, broken, core, history>>

Older(t) == IF t < Timeout THEN t + 1 ELSE t

Tick ==
    /\ pc \notin {"open", "probe", "dark", "announce", "gone"}
    /\ age' = Older(age)
    /\ silent' = Older(silent)
    /\ UNCHANGED <<mvars, outside, armed, notice_shown, panel, broken, buttons, core,
                   blanked, late, seen>>

Grant ==
    /\ claim = 0
    /\ granted < MaxClaims
    /\ granted' = granted + 1
    /\ claim' = granted + 1
    /\ UNCHANGED <<mvars, outside, watchdog, panel, broken, buttons, reset_due, handling,
                   history>>

\* A claim ends; the core then has the panel reset.
Revoke ==
    /\ claim # 0
    /\ claim' = 0
    /\ reset_due' = TRUE
    /\ late' = 0
    /\ UNCHANGED <<mvars, outside, watchdog, panel, broken, buttons, granted, handling,
                   silent, blanked, seen>>

\* The outcome of a send is not looked at.
SendReset ==
    /\ reset_due
    /\ reset_due' = FALSE
    /\ PutReset \/ (~Accepting /\ UNCHANGED mvars)
    /\ UNCHANGED <<outside, watchdog, panel, broken, buttons, claim, granted, handling,
                   history>>

SendStop ==
    /\ PutStop
    /\ UNCHANGED <<outside, watchdog, panel, broken, buttons, core, history>>

\* context.authorize(): the claim the command came with is still in force.
Authorized(o) == o.claim = claim

\* The handler's checks, the last of them just before the send ...
HandleCommand(o) ==
    /\ handling = Nothing
    /\ Authorized(o)
    /\ handling' = o
    /\ UNCHANGED <<mvars, outside, watchdog, panel, broken, buttons, claim, granted,
                   reset_due, history>>

\* ... which may come after anything else happened.
SendCommand ==
    /\ handling # Nothing
    /\ handling' = Nothing
    /\ Put(handling) \/ (~Accepting /\ UNCHANGED mvars)
    /\ UNCHANGED <<outside, watchdog, panel, broken, buttons, claim, granted, reset_due,
                   history>>

-----------------------------------------------------------------------------
(* The steps of the worker thread. *)

around == <<broken, buttons, core>>

Works(part) == part \notin broken

Goto(point) == pc' = point /\ UNCHANGED <<exit, receiver_alive>>

\* Returning drops the command receiver and sends the one final report.
Return(causes) ==
    /\ pc' = "gone"
    /\ receiver_alive' = FALSE
    /\ exit' = [kind |-> IF causes = {} THEN "Disconnected" ELSE "Failed", cause |-> causes]

Fail(cause) ==
    /\ Return({cause})
    /\ UNCHANGED <<slot, order, stopping, got, outputs, previous_mask, has_hid, watchdog,
                   history>>

OpenAndProbe ==
    /\ pc \in {"open", "probe"}
    /\ IF Works("control")
       THEN /\ Goto(IF pc = "open" THEN "probe" ELSE "dark")
            /\ UNCHANGED <<mvars, outputs, previous_mask, has_hid, watchdog, history>>
       ELSE Fail("control")
    /\ UNCHANGED <<panel, around>>

\* clear_leds, which stops at the first failure.
ClearLeds ==
    IF Works("lamps")
    THEN lamp' = [l \in Lamps |-> Off]
    ELSE \E done \in SUBSET Lamps : lamp' = [l \in Lamps |-> IF l \in done THEN Off ELSE lamp[l]]

ClearImage ==
    IF Works("screen") THEN screen' = Off ELSE screen' \in {Off, screen}

StartDark ==
    /\ pc = "dark"
    /\ ClearLeds
    /\ IF Works("lamps")
       THEN /\ Goto("announce")
            /\ UNCHANGED <<mvars, outputs, previous_mask, has_hid, watchdog, history>>
       ELSE Fail("lamps")
    /\ UNCHANGED <<screen, around>>

\* The Connected report, and the start of the loop; or nobody listens any more.
Announce ==
    /\ pc = "announce"
    /\ Goto("drain") \/ Goto("reset")
    /\ age' = 0 /\ armed' = TRUE /\ notice_shown' = FALSE
    /\ silent' = 0
    /\ UNCHANGED <<slot, order, stopping, got, outputs, previous_mask, has_hid, panel,
                   around, blanked, late, seen>>

\* try_recv, at most Batch times in a turn.
\*
\* Mutations: one command too many in a turn; a stop is a command like others.
DrainOneMore ==
    /\ pc = "drain"
    /\ \/ /\ outputs <= Batch
          /\ Take
          /\ pc' = IF got' \in {Stop, Disconnected} THEN "reset" ELSE "apply"
       \/ /\ outputs > Batch \/ (order = Nothing /\ Waiting = {})
          /\ pc' = "check"
          /\ UNCHANGED mvars
    /\ UNCHANGED <<outputs, previous_mask, has_hid, exit, watchdog, panel, around, history>>
DrainStop ==
    /\ pc = "drain"
    /\ \/ /\ outputs < Batch
          /\ Take
          /\ pc' = IF got' = ResetDevice \/ got' \in Outputs THEN "apply" ELSE "drain"
       \/ /\ outputs = Batch \/ (order = Nothing /\ Waiting = {})
          /\ pc' = "check"
          /\ UNCHANGED mvars
    /\ UNCHANGED <<outputs, previous_mask, has_hid, exit, watchdog, panel, around, history>>

Drain ==
    /\ pc = "drain"
    /\ \/ /\ outputs < Batch
          /\ Take
          /\ pc' = IF got' \in {Stop, Disconnected} THEN "reset" ELSE "apply"
       \/ /\ outputs = Batch \/ (order = Nothing /\ Waiting = {})
          /\ pc' = "check"
          /\ UNCHANGED mvars
    /\ UNCHANGED <<outputs, previous_mask, has_hid, exit, watchdog, panel, around, history>>

\* FrameWatchdog::observe. A reset keeps the deadline.
\*
\* Mutation: a reset starts the deadline anew.
ObserveResetAsFrame(effect) ==
    CASE effect \in {"Frame", "Reset"} -> age' = 0 /\ armed' = TRUE /\ notice_shown' = FALSE
      [] effect = "Clear" -> armed' = FALSE /\ notice_shown' = FALSE /\ UNCHANGED age
      [] effect = "None" -> UNCHANGED watchdog

Observe(effect) ==
    CASE effect = "Frame" -> age' = 0 /\ armed' = TRUE /\ notice_shown' = FALSE
      [] effect = "Clear" -> armed' = FALSE /\ notice_shown' = FALSE /\ UNCHANGED age
      [] effect = "Reset" -> notice_shown' = FALSE /\ UNCHANGED <<age, armed>>
      [] effect = "None" -> UNCHANGED watchdog

\* A command is done: the watchdog observes its effect and the turn goes on.
\*
\* Mutation: the commands of a turn are not counted.
DoneUncounted(effect) ==
    /\ Observe(effect)
    /\ silent' = IF effect = "Frame" THEN 0 ELSE silent
    /\ blanked' = (effect = "Clear" \/ (blanked /\ effect # "Frame"))
    /\ Use
    /\ pc' = "drain"
    /\ UNCHANGED <<outputs, previous_mask, has_hid, exit, seen>>

Done(effect) ==
    /\ Observe(effect)
    /\ silent' = IF effect = "Frame" THEN 0 ELSE silent
    /\ blanked' = (effect = "Clear" \/ (blanked /\ effect # "Frame"))
    /\ outputs' = outputs + 1
    /\ Use
    /\ pc' = "drain"
    /\ UNCHANGED <<previous_mask, has_hid, exit, seen>>

\* reset_device tries the lamps and the screen, whatever fails.
\*
\* Mutation: a lamp that fails keeps the screen from being cleared.
ResetUntilFailure == ClearLeds /\ IF Works("lamps") THEN ClearImage ELSE UNCHANGED screen

Reset == ClearLeds /\ ClearImage

\* What its caller gets to know: the lamps' error hides the screen's.
ResetFailure == IF Works("lamps") THEN {"screen"} \cap broken ELSE {"lamps"}

ApplyReset ==
    /\ pc = "apply"
    /\ got = ResetDevice
    /\ Reset
    /\ IF ResetFailure = {}
       THEN Done("Reset") /\ UNCHANGED late
       ELSE /\ Return(ResetFailure)
            /\ UNCHANGED <<slot, order, stopping, got, outputs, previous_mask, has_hid,
                           watchdog, history>>
    /\ UNCHANGED around

\* Without a current claim, or for a control that is no screen, a command is
\* dropped and the worker goes on.
\*
\* Mutations: the claim is not looked at again; its loss is taken for a failure.
DiscardedUnfenced(o) == o.kind # "SetLed" /\ o.control # Screen

Discarded(o) == ~Authorized(o) \/ (o.kind # "SetLed" /\ o.control # Screen)

ApplyDiscardFails ==
    /\ pc = "apply"
    /\ got \in Outputs
    /\ Discarded(got)
    /\ Fail("claim")
    /\ UNCHANGED <<panel, around>>

ApplyDiscard ==
    /\ pc = "apply"
    /\ got \in Outputs
    /\ Discarded(got)
    /\ Done("None")
    /\ UNCHANGED <<late, panel, around>>

ApplyOutput ==
    /\ pc = "apply"
    /\ got \in Outputs
    /\ ~Discarded(got)
    /\ Goto(IF got.kind = "SetRasterFrame" THEN "convert" ELSE "write")
    /\ UNCHANGED <<slot, order, stopping, got, outputs, previous_mask, has_hid, watchdog,
                   panel, around, history>>

\* encoded_image_to_fip_frame, and the second look at the claim.
Convert ==
    /\ pc = "convert"
    /\ \/ got.value = "bad" /\ Fail("image")
       \/ got.value # "bad" /\ ~Authorized(got) /\ Done("None") /\ UNCHANGED late
       \/ /\ got.value # "bad" /\ Authorized(got)
          /\ Goto("write")
          /\ UNCHANGED <<slot, order, stopping, got, outputs, previous_mask, has_hid,
                         watchdog, history>>
    /\ UNCHANGED <<panel, around>>

\* What the panel shows once the command has been written to it.
Shown(o) ==
    CASE o.kind = "SetLed" ->
            lamp' = [lamp EXCEPT ![o.control] =
                        IF o.value = "on" THEN Content("light", o.claim) ELSE Off]
            /\ UNCHANGED screen
      [] o.kind = "SetRasterFrame" ->
            screen' = Content("frame", o.claim) /\ UNCHANGED lamp
      [] o.kind = "ClearRaster" ->
            screen' = Off /\ UNCHANGED lamp

Effect(o) ==
    CASE o.kind = "SetLed" -> "None"
      [] o.kind = "SetRasterFrame" -> "Frame"
      [] o.kind = "ClearRaster" -> "Clear"

PartOf(o) == IF o.kind = "SetLed" THEN "lamps" ELSE "screen"

\* The claim may be lost before the write arrives, and a write that fails may
\* have arrived.
Write ==
    /\ pc = "write"
    /\ IF Works(PartOf(got))
       THEN /\ Shown(got)
            /\ Done(Effect(got))
            /\ late' = IF Authorized(got) THEN late ELSE late + 1
       ELSE /\ Shown(got) \/ UNCHANGED panel
            /\ Fail(PartOf(got))
    /\ UNCHANGED around

\* FrameWatchdog::check
\*
\* Mutation: a screen blanked on purpose counts as a lost stream.
StreamLostUnarmed == ~notice_shown /\ age >= Timeout

StreamLost == ~notice_shown /\ armed /\ age >= Timeout

Check ==
    /\ pc = "check"
    /\ \/ /\ ~StreamLost
          /\ Goto("hid")
          /\ UNCHANGED <<slot, order, stopping, got, outputs, previous_mask, has_hid,
                         watchdog, panel, history>>
       \/ /\ StreamLost /\ Works("screen")
          /\ screen' = Notice
          /\ notice_shown' = TRUE
          /\ Goto("hid")
          /\ UNCHANGED <<slot, order, stopping, got, outputs, previous_mask, has_hid,
                         age, armed, lamp, history>>
       \/ /\ StreamLost /\ ~Works("screen")
          /\ screen' \in {Notice, screen}
          /\ Fail("screen")
          /\ UNCHANGED lamp
    /\ UNCHANGED around

\* changed_events and translate_hid_event: the buttons whose bit changed.
Reported(mask) ==
    LET changed == (mask \ previous_mask) \cup (previous_mask \ mask)
    IN  (seen \ changed) \cup (changed \cap mask)

\* The next turn of the loop.
Continue ==
    /\ pc' = "drain"
    /\ outputs' = 0
    /\ UNCHANGED <<mvars, has_hid, exit, watchdog, silent, blanked, late>>

\* read_hid_report: a report, a timeout, a report too short, or an error.
ReadHid ==
    /\ pc = "hid"
    /\ \/ /\ has_hid /\ Works("hid") /\ hid_report
          /\ hid_report' = FALSE
          /\ previous_mask' = pressed
          /\ seen' = Reported(pressed)
          /\ Continue
       \/ /\ ~has_hid \/ (Works("hid") /\ ~hid_report)
          /\ Continue
          /\ UNCHANGED <<hid_report, previous_mask, seen>>
       \/ /\ has_hid /\ ~Works("hid")
          /\ \E cause \in {"hid", "report"} : Fail(cause)
          /\ UNCHANGED hid_report
    /\ UNCHANGED <<panel, broken, pressed, core>>

\* The way out after a stop: reset the panel and return.
StopReset ==
    /\ pc = "reset"
    /\ Reset
    /\ Return(ResetFailure)
    /\ UNCHANGED <<slot, order, stopping, got, outputs, previous_mask, has_hid, watchdog,
                   around, history>>

WorkerStep ==
    \/ OpenAndProbe \/ StartDark \/ Announce \/ Drain
    \/ ApplyReset \/ ApplyDiscard \/ ApplyOutput \/ Convert \/ Write
    \/ Check \/ ReadHid \/ StopReset

WNext ==
    \/ WorkerStep
    \/ \E part \in Parts : Break(part) \/ Heal(part)
    \/ \E b \in Buttons : Press(b)
    \/ Tick
    \/ Grant \/ Revoke \/ SendReset \/ SendStop
    \/ \E o \in Outputs : HandleCommand(o)
    \/ SendCommand

\* The thread runs until it returns: every USB operation ends by its deadline.
\* The core does call reset after a revocation.
WSpec == WInit /\ [][WNext]_wvars /\ WF_wvars(WorkerStep)

-----------------------------------------------------------------------------
(* Properties. *)

Contents == {lamp[l] : l \in Lamps} \cup {screen}

\* A reset or a stop is on its way to the panel.
Clearing ==
    \/ reset_due \/ order \in Orders \/ pc = "reset"
    \/ pc = "apply" /\ got = ResetDevice

\* What a lost claim put on the panel does not outlive the reset that follows the
\* loss: whenever a lamp or the screen shows something of a claim no longer in
\* force, a reset is still to come, or the thread ended on a USB failure. A
\* command that slips into the channel behind the reset, or is being written when
\* the claim ends, does not bring it back.
LostClaimIsCleared ==
    (\E x \in Contents : x.claim \notin {0, claim}) => Clearing \/ exit.kind = "Failed"

\* After a revocation at most the one command already at the USB reaches the panel
\* (README: rechecked "before execution and after image conversion, immediately
\* before USB output").
OneLateOutput == late <= 1

\* However a worker comes to its end after a stop, each part of the panel that works by
\* then is left dark, whether or not the other does ("Try both even when one reset
\* fails"). Where anything is left the worker reports a failure: that of the lamps
\* if they stay lit, whatever becomes of the screen.
StopLeavesDark ==
    [][pc # "gone" /\ pc' = "gone" /\ got \in {Stop, Disconnected} =>
          /\ Works("lamps") => \A l \in Lamps : lamp'[l] = Off
          /\ Works("screen") => screen' = Off
          /\ (\A l \in Lamps : lamp'[l] = Off) \/ exit'.cause = {"lamps"}
          /\ screen' = Off \/ exit'.kind = "Failed"]_wvars

\* A worker that was not told to stop ends only over a part of the panel that
\* fails, or over an image that does not decode: neither a lost claim, nor an
\* unknown control, nor any order of commands and time makes it give up (README:
\* "discarded without disconnecting the device").
OnlyFaultsEndTheWorker ==
    [][pc # "gone" /\ pc' = "gone" =>
          pc = "reset" \/ broken # {} \/ (pc = "convert" /\ got.value = "bad")]_wvars

\* Whenever the watchdog has been consulted, Timeout without a displayed frame
\* shows as the notice, whatever resets, lamp commands and rejected frames came
\* between, unless an authorised clear blanked the screen on purpose (README:
\* "Lamp commands, rejected frames and claim resets do not extend the deadline").
SilenceIsShown ==
    [][pc = "check" /\ pc' = "hid" /\ silent = Timeout /\ ~blanked => screen' = Notice]_wvars

\* The notice never covers a live screen: it stands only after Timeout of silence,
\* and neither a frame nor a clear leaves it standing.
NoticeMeansSilence == screen = Notice => silent = Timeout /\ ~blanked

\* A stop ends the thread, whatever it is doing and whatever is sent to it.
StopEnds == stopping ~> pc = "gone"

\* A button change reaches the manager, or is undone, however many outputs keep
\* coming (README: "a continuous stream of frames cannot starve buttons and
\* encoders").
InputArrives ==
    \A b \in Buttons :
        (has_hid /\ (b \in pressed) # (b \in seen))
            ~> ((b \in pressed) = (b \in seen) \/ pc \in {"reset", "gone"})

=============================================================================
