-------------------------- MODULE DeviceWorkerProofs --------------------------
(***************************************************************************)
(* Proofs about DeviceWorker, for every set of controls, outputs, claims   *)
(* and buttons, every timeout, and a panel that breaks and heals at will:  *)
(* what a lost claim leaves on the panel, what a stop leaves there, what   *)
(* ends the thread, and when the notice stands. StageInv says what is      *)
(* known of the thread wherever it stands; each group of properties adds   *)
(* an invariant of its own.                                                *)
(***************************************************************************)
EXTENDS DeviceWorker, TLAPS

-----------------------------------------------------------------------------
(* The stages of the thread. *)

\* Commands, orders and what stands for none of them are told apart by their kind.
LEMMA Distinct ==
    /\ \A o \in Outputs : o \notin {Stop, ResetDevice, Disconnected, Nothing}
    /\ Stop # ResetDevice /\ Stop # Disconnected /\ Stop # Nothing
    /\ ResetDevice # Disconnected /\ ResetDevice # Nothing /\ Disconnected # Nothing
<1>1. /\ Stop.kind = "Stop" /\ ResetDevice.kind = "ResetDevice"
      /\ Disconnected.kind = "Disconnected" /\ Nothing.kind = "Nothing"
  BY DEF Stop, ResetDevice, Disconnected, Nothing
<1>2. \A o \in Outputs : o.kind \notin {"Stop", "ResetDevice", "Disconnected", "Nothing"}
  BY OutputsAssumption DEF OutputKinds
<1> QED BY <1>1, <1>2

Dark == screen = Off /\ \A l \in Lamps : lamp[l] = Off

Leaving == {"reset", "gone"}

StageInv ==
    /\ pc \in Points
    /\ order \in {ResetDevice, Stop, Nothing}
    /\ receiver_alive <=> pc # "gone"
    /\ pc # "gone" => exit = Running
    /\ pc = "gone" => exit.kind = "Failed" \/ Dark
    /\ got \in {Stop, Disconnected} => pc \in Leaving
    /\ pc \in {"convert", "write"} => got \in Outputs
    /\ stopping => order = Stop \/ pc \in Leaving

\* What the steps around the worker leave alone, whatever they do to the queue.
Around == UNCHANGED <<pc, exit, receiver_alive, got, panel>>

\* Such a step keeps the stages.
LEMMA StageAround ==
    ASSUME StageInv, Around,
           UNCHANGED <<order, stopping>> \/ (order' = ResetDevice /\ ~stopping')
               \/ order' = Stop
    PROVE  StageInv'
BY Distinct DEF StageInv, Around, Dark, panel, Leaving

\* The thread returns: over a failure, or with the panel dark.
LEMMA StageReturn ==
    ASSUME StageInv, pc # "gone", NEW causes, Return(causes), causes # {} \/ Dark',
           UNCHANGED <<order, stopping, got>>
    PROVE  StageInv'
<1>1. exit'.kind = "Failed" \/ Dark'
  BY DEF Return
<1> QED BY <1>1 DEF StageInv, Return, Points, Leaving

\* A worker that goes on with the same command, or has done with it.
LEMMA StageGoes ==
    ASSUME StageInv, pc \notin Leaving, pc' \in Points \ {"gone"},
           UNCHANGED <<order, stopping, receiver_alive, exit>>, got' = got \/ got' = Nothing,
           pc' \in {"convert", "write"} => got' \in Outputs
    PROVE  StageInv'
BY Distinct DEF StageInv, Leaving

\* Every step keeps the stages.
LEMMA StageStep ==
    ASSUME StageInv, [WNext]_wvars
    PROVE  StageInv'
<1> USE DEF Points, Leaving
<1>1. ASSUME NEW causes, Return(causes), pc # "gone", causes # {} \/ Dark',
             UNCHANGED <<order, stopping, got>>
      PROVE  StageInv'
  BY <1>1, StageReturn
<1>2. ASSUME NEW cause, Fail(cause), pc # "gone"
      PROVE  StageInv'
  BY <1>1, <1>2 DEF Fail
<1>3. CASE OpenAndProbe
  <2>1. CASE Works("control")
    BY <1>3, <2>1, StageGoes DEF OpenAndProbe, Goto, mvars
  <2>2. CASE ~Works("control")
    BY <1>2, <1>3, <2>2 DEF OpenAndProbe
  <2> QED BY <2>1, <2>2
<1>4. CASE StartDark
  <2>1. CASE Works("lamps")
    BY <1>4, <2>1, StageGoes DEF StartDark, Goto, mvars
  <2>2. CASE ~Works("lamps")
    BY <1>2, <1>4, <2>2 DEF StartDark
  <2> QED BY <2>1, <2>2
<1>5. CASE Announce
  BY <1>5, StageGoes DEF Announce, Goto
<1>6. CASE Drain
  <2>1. CASE UNCHANGED mvars /\ pc' = "check"
    BY <1>6, <2>1, StageGoes DEF Drain, mvars
  <2>2. CASE Take /\ pc' = IF got' \in {Stop, Disconnected} THEN "reset" ELSE "apply"
    <3>1. pc = "drain" /\ UNCHANGED <<exit, receiver_alive, stopping>>
      BY <1>6, <2>2 DEF Drain, Take, TakeOrder, TakeOutput, TakeDisconnected
    <3>2. CASE TakeOrder
      BY <2>2, <3>1, <3>2, Distinct DEF TakeOrder, StageInv
    <3>3. CASE \E c \in Controls : TakeOutput(c)
      BY <2>2, <3>1, <3>3, Distinct DEF TakeOutput, StageInv
    <3>4. CASE TakeDisconnected
      BY <2>2, <3>1, <3>4, Distinct DEF TakeDisconnected, StageInv
    <3> QED BY <2>2, <3>2, <3>3, <3>4 DEF Take
  <2> QED BY <1>6, <2>1, <2>2 DEF Drain
<1>7. ASSUME NEW effect, Done(effect), pc \notin Leaving
      PROVE  StageInv'
  BY <1>7, StageGoes DEF Done, Use
<1>8. CASE ApplyReset
  <2>1. CASE ResetFailure = {}
    BY <1>7, <1>8, <2>1 DEF ApplyReset
  <2>2. CASE ResetFailure # {}
    BY <1>1, <1>8, <2>2 DEF ApplyReset
  <2> QED BY <2>1, <2>2
<1>9. CASE ApplyDiscard
  BY <1>7, <1>9 DEF ApplyDiscard
<1>10. CASE ApplyOutput
  BY <1>10, StageGoes DEF ApplyOutput, Goto
<1>11. CASE Convert
  <2>1. CASE Fail("image")
    BY <1>2, <1>11, <2>1 DEF Convert
  <2>2. CASE Done("None")
    BY <1>7, <1>11, <2>2 DEF Convert
  <2>3. CASE Goto("write") /\ UNCHANGED <<order, stopping, got>>
    BY <1>11, <2>3, StageGoes DEF Convert, Goto, StageInv
  <2> QED BY <1>11, <2>1, <2>2, <2>3 DEF Convert
<1>12. CASE Write
  <2>1. CASE Works(PartOf(got))
    BY <1>7, <1>12, <2>1 DEF Write
  <2>2. CASE ~Works(PartOf(got))
    BY <1>2, <1>12, <2>2 DEF Write
  <2> QED BY <2>1, <2>2
<1>13. CASE Check
  <2>1. CASE Fail("screen")
    BY <1>2, <1>13, <2>1 DEF Check
  <2>2. CASE Goto("hid") /\ UNCHANGED <<order, stopping, got>>
    BY <1>13, <2>2, StageGoes DEF Check, Goto
  <2> QED BY <1>13, <2>1, <2>2 DEF Check
<1>14. CASE ReadHid
  <2>1. CASE \E cause \in {"hid", "report"} : Fail(cause)
    BY <1>2, <1>14, <2>1 DEF ReadHid
  <2>2. CASE Continue
    BY <1>14, <2>2, StageGoes DEF ReadHid, Continue, mvars
  <2> QED BY <1>14, <2>1, <2>2 DEF ReadHid
<1>15. CASE StopReset
  <2>1. ResetFailure # {} \/ Dark'
    BY <1>15 DEF StopReset, Reset, ResetFailure, ClearLeds, ClearImage, Works, Dark
  <2> QED BY <1>1, <1>15, <2>1 DEF StopReset
<1>16. CASE \E part \in Parts : Break(part) \/ Heal(part)
  BY <1>16, StageAround DEF Break, Heal, Around, outside, mvars
<1>17. CASE (\E b \in Buttons : Press(b)) \/ Tick
  BY <1>17, StageAround DEF Press, Tick, Around, outside, mvars
<1>18. CASE Grant \/ Revoke
  BY <1>18, StageAround DEF Grant, Revoke, Around, outside, mvars
<1>19. CASE SendReset
  BY <1>19, StageAround DEF SendReset, PutReset, Accepting, Around, outside, mvars
<1>20. CASE SendStop
  BY <1>20, StageAround DEF SendStop, PutStop, Around, outside
<1>21. CASE (\E o \in Outputs : HandleCommand(o)) \/ SendCommand
  BY <1>21, StageAround DEF HandleCommand, SendCommand, Put, Around, outside, mvars
<1>22. CASE UNCHANGED wvars
  BY <1>22, StageAround DEF wvars, Around, mvars
<1> QED
  BY <1>3, <1>4, <1>5, <1>6, <1>8, <1>9, <1>10, <1>11, <1>12, <1>13, <1>14, <1>15, <1>16,
     <1>17, <1>18, <1>19, <1>20, <1>21, <1>22 DEF WNext, WorkerStep

\* The stages hold from the start.
LEMMA StageHolds == WSpec => []StageInv
<1>1. WInit => StageInv
  BY Distinct DEF WInit, MInit, StageInv, Points, Leaving
<1>2. StageInv /\ [WNext]_wvars => StageInv'
  BY StageStep
<1> QED BY <1>1, <1>2, PTL DEF WSpec

\* After a stop every part that works by then is left dark, the other one failing or not,
\* and where anything is left the worker reports a failure.
THEOREM LeavesDark == WSpec => StopLeavesDark
<1> DEFINE Left == /\ Works("lamps") => \A l \in Lamps : lamp'[l] = Off
                   /\ Works("screen") => screen' = Off
                   /\ (\A l \in Lamps : lamp'[l] = Off) \/ exit'.cause = {"lamps"}
                   /\ screen' = Off \/ exit'.kind = "Failed"
<1>1. ASSUME StopReset
      PROVE  Left
  <2>1. CASE Works("lamps")
    BY <1>1, <2>1 DEF StopReset, Reset, ClearLeds, ClearImage, Works, ResetFailure, Return
  <2>2. CASE ~Works("lamps")
    BY <1>1, <2>2 DEF StopReset, Reset, ClearImage, Works, ResetFailure, Return
  <2> QED BY <2>1, <2>2
\* No other step takes the thread from its reset to its end.
<1>2. ASSUME [WNext]_wvars, pc = "reset", pc' = "gone"
      PROVE  StopReset
  <2>1. CASE OpenAndProbe \/ StartDark \/ Announce \/ Drain
    BY <1>2, <2>1 DEF OpenAndProbe, StartDark, Announce, Drain
  <2>2. CASE ApplyReset \/ ApplyDiscard \/ ApplyOutput \/ Convert
    BY <1>2, <2>2 DEF ApplyReset, ApplyDiscard, ApplyOutput, Convert
  <2>3. CASE Write \/ Check \/ ReadHid
    BY <1>2, <2>3 DEF Write, Check, ReadHid
  <2>4. CASE pc' = pc
    BY <1>2, <2>4
  <2>5. CASE UNCHANGED wvars \/ \E part \in Parts : Break(part) \/ Heal(part)
    BY <2>4, <2>5 DEF wvars, Break, Heal, outside
  <2>6. CASE (\E b \in Buttons : Press(b)) \/ Tick \/ Grant \/ Revoke
    BY <2>4, <2>6 DEF Press, Tick, Grant, Revoke, outside
  <2>7. CASE SendReset \/ SendStop \/ SendCommand \/ \E o \in Outputs : HandleCommand(o)
    BY <2>4, <2>7 DEF SendReset, SendStop, SendCommand, HandleCommand, outside
  <2> QED BY <1>2, <2>1, <2>2, <2>3, <2>5, <2>6, <2>7 DEF WNext, WorkerStep
<1>3. ASSUME StageInv, [WNext]_wvars, pc # "gone", pc' = "gone", got \in {Stop, Disconnected}
      PROVE  Left
  <2>1. pc = "reset"
    BY <1>3 DEF StageInv, Leaving
  <2> QED BY <1>1, <1>2, <1>3, <2>1
<1> QED BY <1>3, StageHolds, PTL DEF WSpec, StopLeavesDark

\* Only faults end a worker that was not told to stop: no claim, no control and no
\* order of commands does.
THEOREM FaultsOnly == WSpec => OnlyFaultsEndTheWorker
<1> DEFINE Excused == pc = "reset" \/ broken # {} \/ (pc = "convert" /\ got.value = "bad")
<1>1. ASSUME [WNext]_wvars, pc # "gone", pc' = "gone"
      PROVE  Excused
  <2>1. CASE OpenAndProbe \/ StartDark \/ Announce \/ Drain
    BY <1>1, <2>1 DEF OpenAndProbe, StartDark, Announce, Drain, Goto, Works
  <2>2. CASE ApplyReset \/ ApplyDiscard \/ ApplyOutput
    BY <1>1, <2>2 DEF ApplyReset, ApplyDiscard, ApplyOutput, Goto, Done, ResetFailure, Works
  <2>3. CASE Convert \/ Write
    BY <1>1, <2>3 DEF Convert, Write, Goto, Done, Works
  <2>4. CASE Check \/ ReadHid \/ StopReset
    BY <1>1, <2>4 DEF Check, ReadHid, StopReset, Goto, Continue, Works
  <2>5. CASE pc' = pc
    BY <1>1, <2>5
  <2>6. CASE UNCHANGED wvars \/ \E part \in Parts : Break(part) \/ Heal(part)
    BY <2>5, <2>6 DEF wvars, Break, Heal, outside
  <2>7. CASE \/ (\E b \in Buttons : Press(b)) \/ Tick \/ Grant \/ Revoke
             \/ SendReset \/ SendStop
             \/ (\E o \in Outputs : HandleCommand(o)) \/ SendCommand
    BY <2>5, <2>7 DEF Press, Tick, Grant, Revoke, SendReset, SendStop, HandleCommand,
                      SendCommand, outside
  <2> QED BY <1>1, <2>1, <2>2, <2>3, <2>4, <2>6, <2>7 DEF WNext, WorkerStep
<1> QED BY <1>1, PTL DEF WSpec, OnlyFaultsEndTheWorker

-----------------------------------------------------------------------------
(* The watchdog. *)

Starting == {"open", "probe", "dark", "announce"}

\* The watchdog's clock is the real one, it is armed unless the screen was blanked on
\* purpose, and it knows when its notice stands.
WatchInv ==
    /\ age = silent /\ silent \in 0..Timeout
    /\ pc \in Starting => ~blanked /\ screen # Notice
    /\ pc \notin Starting \cup {"gone"} => (armed <=> ~blanked)
    /\ pc \notin Starting \cup {"gone"} => (notice_shown => screen = Notice)
    /\ pc \in Starting => ~notice_shown
    /\ NoticeMeansSilence

\* Contents of a screen.
LEMMA Shows ==
    /\ Off # Notice /\ Leftover # Notice
    /\ \A c : Content("frame", c) # Notice
BY DEF Off, Notice, Leftover, Content

\* Every step keeps the watchdog right.
LEMMA WatchStep ==
    ASSUME StageInv, WatchInv, [WNext]_wvars
    PROVE  WatchInv'
<1> USE DEF Starting, NoticeMeansSilence
<1>0. Timeout \in Nat \ {0}
  BY WorkerAssumption
<1> DEFINE Inside == pc \notin Starting \cup {"gone"}
<1>1. CASE UNCHANGED <<pc, watchdog, screen, silent, blanked>>
  BY <1>1 DEF WatchInv, watchdog
<1>2. ASSUME Inside, Inside', UNCHANGED <<watchdog, silent, screen>>, blanked' <=> blanked
      PROVE  WatchInv'
  BY <1>2 DEF WatchInv, watchdog
<1>3. ASSUME pc' = "gone", UNCHANGED <<watchdog, silent, blanked>>,
             screen' # Notice \/ screen' = screen \/ (Inside /\ StreamLost)
      PROVE  WatchInv'
  BY <1>0, <1>3 DEF WatchInv, watchdog, StreamLost
<1>4. ASSUME Inside, Done("None"), UNCHANGED screen
      PROVE  WatchInv'
  <2>1. UNCHANGED <<watchdog, silent>> /\ pc' = "drain"
    BY <1>4 DEF Done, Observe
  <2>2. blanked' <=> blanked
    BY <1>4 DEF Done
  <2> QED BY <1>2, <1>4, <2>1, <2>2
<1>5. ASSUME Inside, Done("Reset") \/ Done("Clear") \/ Done("Frame"), screen' # Notice
      PROVE  WatchInv'
  <2>1. pc' = "drain"
    BY <1>5 DEF Done
  <2>2. CASE Done("Reset")
    <3>1. UNCHANGED <<age, armed, silent>> /\ notice_shown' = FALSE /\ (blanked' <=> blanked)
      BY <2>2 DEF Done, Observe
    <3> QED BY <1>5, <2>1, <3>1 DEF WatchInv
  <2>3. CASE Done("Clear")
    <3>1. /\ UNCHANGED <<age, silent>> /\ armed' = FALSE /\ notice_shown' = FALSE
          /\ blanked' = TRUE
      BY <2>3 DEF Done, Observe
    <3> QED BY <1>5, <2>1, <3>1 DEF WatchInv
  <2>4. CASE Done("Frame")
    <3>1. /\ age' = 0 /\ silent' = 0 /\ armed' = TRUE /\ notice_shown' = FALSE
          /\ ~blanked'
      BY <2>4 DEF Done, Observe
    <3> QED BY <1>0, <1>5, <2>1, <3>1 DEF WatchInv
  <2> QED BY <1>5, <2>2, <2>3, <2>4
<1>6. ASSUME ClearImage
      PROVE  screen' # Notice \/ screen' = screen
  BY <1>6, Shows DEF ClearImage
<1>7. CASE OpenAndProbe \/ StartDark
  <2>1. UNCHANGED <<watchdog, silent, blanked, screen>>
    BY <1>7 DEF OpenAndProbe, StartDark, Fail, panel, history
  <2>2. pc \in Starting /\ pc' \in Starting \cup {"gone"}
    BY <1>7 DEF OpenAndProbe, StartDark, Fail, Return, Goto
  <2> QED BY <2>1, <2>2 DEF WatchInv, watchdog
<1>8. CASE Announce
  BY <1>0, <1>8 DEF Announce, Goto, WatchInv, panel
<1>9. CASE Drain
  BY <1>2, <1>9 DEF Drain, panel, history
<1>10. CASE ApplyReset
  <2>1. screen' # Notice \/ screen' = screen
    BY <1>6, <1>10 DEF ApplyReset, Reset
  <2>2. CASE ResetFailure = {}
    <3>1. screen' = Off
      BY <1>10, <2>2 DEF ApplyReset, Reset, ResetFailure, ClearImage, Works
    <3> QED BY <1>5, <1>10, <2>2, <3>1, Shows DEF ApplyReset
  <2>3. CASE ResetFailure # {}
    BY <1>3, <1>10, <2>1, <2>3 DEF ApplyReset, Return, history
  <2> QED BY <2>2, <2>3
<1>11. CASE ApplyDiscard
  BY <1>4, <1>11 DEF ApplyDiscard, panel
<1>12. CASE ApplyOutput
  BY <1>2, <1>12 DEF ApplyOutput, Goto, panel, history
<1>13. ASSUME NEW cause, Fail(cause), screen' # Notice \/ screen' = screen
      PROVE  WatchInv'
  BY <1>3, <1>13 DEF Fail, Return, history
<1>14. CASE Convert
  <2>1. CASE Fail("image")
    BY <1>13, <1>14, <2>1 DEF Convert, panel
  <2>2. CASE Done("None")
    BY <1>4, <1>14, <2>2 DEF Convert, panel
  <2>3. CASE Goto("write") /\ UNCHANGED <<watchdog, history>>
    BY <1>2, <1>14, <2>3 DEF Convert, Goto, panel, history
  <2> QED BY <1>14, <2>1, <2>2, <2>3 DEF Convert
<1>15. CASE Write
  <2>1. got \in Outputs /\ got.kind \in OutputKinds
    BY <1>15, OutputsAssumption DEF Write, StageInv
  <2>2. ASSUME Shown(got)
        PROVE  /\ Effect(got) = "None" => screen' = screen
               /\ Effect(got) \in {"None", "Frame", "Clear"}
               /\ Effect(got) # "None" => screen' # Notice
    BY <2>1, <2>2, Shows DEF Shown, Effect, OutputKinds
  <2>3. CASE Works(PartOf(got))
    <3>1. Shown(got) /\ Done(Effect(got)) /\ Inside
      BY <1>15, <2>3 DEF Write
    <3> QED BY <1>4, <1>5, <2>2, <3>1
  <2>4. CASE ~Works(PartOf(got))
    BY <1>13, <1>15, <2>2, <2>4 DEF Write, panel
  <2> QED BY <2>3, <2>4
<1>16. CASE Check
  <2>1. CASE ~StreamLost /\ Goto("hid") /\ UNCHANGED <<watchdog, panel, history>>
    BY <1>2, <1>16, <2>1 DEF Check, Goto, panel, history
  <2>2. CASE /\ StreamLost /\ screen' = Notice /\ notice_shown' = TRUE /\ pc' = "hid"
             /\ UNCHANGED <<age, armed, history>>
    BY <1>0, <1>16, <2>2 DEF Check, StreamLost, WatchInv, history
  <2>3. CASE StreamLost /\ Fail("screen")
    BY <1>3, <1>16, <2>3 DEF Check, Fail, Return, history
  <2> QED BY <1>16, <2>1, <2>2, <2>3 DEF Check, Goto
<1>17. CASE ReadHid
  <2>1. CASE Continue
    BY <1>2, <1>17, <2>1 DEF ReadHid, Continue, panel
  <2>2. CASE \E cause \in {"hid", "report"} : Fail(cause)
    BY <1>13, <1>17, <2>2 DEF ReadHid, panel
  <2> QED BY <1>17, <2>1, <2>2 DEF ReadHid
<1>18. CASE StopReset
  BY <1>3, <1>6, <1>18 DEF StopReset, Reset, Return, history
<1>19. CASE \E part \in Parts : Break(part) \/ Heal(part)
  BY <1>1, <1>19 DEF Break, Heal, outside, panel, history
<1>20. CASE Tick
  BY <1>0, <1>20 DEF Tick, Older, WatchInv, outside, panel
<1>21. CASE (\E b \in Buttons : Press(b)) \/ Grant \/ Revoke \/ SendReset \/ SendStop
  BY <1>1, <1>21 DEF Press, Grant, Revoke, SendReset, SendStop, outside, panel, history
<1>22. CASE (\E o \in Outputs : HandleCommand(o)) \/ SendCommand
  BY <1>1, <1>22 DEF HandleCommand, SendCommand, outside, panel, history
<1>23. CASE UNCHANGED wvars
  BY <1>1, <1>23 DEF wvars, panel, history
<1> QED
  BY <1>7, <1>8, <1>9, <1>10, <1>11, <1>12, <1>14, <1>15, <1>16, <1>17, <1>18, <1>19, <1>20,
     <1>21, <1>22, <1>23 DEF WNext, WorkerStep

\* The watchdog is right from the start.
LEMMA WatchHolds == WSpec => []WatchInv
<1>1. WInit => WatchInv
  BY Shows, WorkerAssumption DEF WInit, WatchInv, Starting, NoticeMeansSilence
<1>2. StageInv /\ WatchInv /\ [WNext]_wvars => WatchInv'
  BY WatchStep
<1> QED BY <1>1, <1>2, StageHolds, PTL DEF WSpec

\* The notice never covers a live screen.
THEOREM NoticeOnlyInSilence == WSpec => []NoticeMeansSilence
<1>1. WatchInv => NoticeMeansSilence
  BY DEF WatchInv
<1> QED BY <1>1, WatchHolds, PTL

\* Silence shows, once the watchdog is consulted.
THEOREM SilenceShows == WSpec => SilenceIsShown
<1>1. ASSUME WatchInv, [WNext]_wvars, pc = "check", pc' = "hid", silent = Timeout, ~blanked
      PROVE  screen' = Notice
  <2>1. Check
    <3>1. pc' # pc
      BY <1>1
    <3>2. ~UNCHANGED wvars /\ WNext
      BY <1>1, <3>1 DEF wvars
    <3>3. WorkerStep
      BY <3>1, <3>2 DEF WNext, Break, Heal, Press, Tick, Grant, Revoke, SendReset, SendStop,
                        HandleCommand, SendCommand, outside
    <3> QED BY <1>1, <3>3
            DEF WorkerStep, OpenAndProbe, StartDark, Announce, Drain, ApplyReset, ApplyDiscard,
                ApplyOutput, Convert, Write, ReadHid, StopReset
  <2>2. armed /\ age >= Timeout /\ (notice_shown => screen = Notice)
    BY <1>1, WorkerAssumption DEF WatchInv, Starting
  <2> QED BY <1>1, <2>1, <2>2 DEF Check, StreamLost, Fail, Return, panel
<1> QED BY <1>1, WatchHolds, PTL DEF WSpec, SilenceIsShown

-----------------------------------------------------------------------------
(* The claim. *)

\* After a late output nothing is at the USB but what is authorised.
LateInv ==
    /\ late \in 0..1
    /\ late = 1 /\ pc = "write" => Authorized(got)

\* Every step keeps to the one late output.
LEMMA LateStep ==
    ASSUME StageInv, LateInv, [WNext]_wvars
    PROVE  LateInv'
<1>1. ASSUME UNCHANGED <<late, claim>>, pc' = "write" => Authorized(got)'
      PROVE  LateInv'
  BY <1>1 DEF LateInv
<1>2. ASSUME UNCHANGED <<late, claim>>, pc' # "write" \/ UNCHANGED <<pc, got>>
      PROVE  LateInv'
  BY <1>2 DEF LateInv, Authorized
<1>3. CASE OpenAndProbe \/ StartDark \/ Announce \/ Drain
  BY <1>2, <1>3 DEF OpenAndProbe, StartDark, Announce, Drain, Fail, Return, Goto, history, around,
                    core
<1>4. CASE ApplyReset \/ ApplyDiscard
  BY <1>2, <1>4 DEF ApplyReset, ApplyDiscard, Done, Return, history, around, core
<1>5. CASE ApplyOutput
  BY <1>1, <1>5 DEF ApplyOutput, Discarded, Authorized, history, around, core
<1>6. CASE Convert
  <2>1. CASE Fail("image") \/ (Done("None") /\ UNCHANGED late)
    BY <1>2, <1>6, <2>1 DEF Convert, Fail, Return, Done, history, around, core
  <2>2. CASE Authorized(got) /\ UNCHANGED <<got, history>>
    BY <1>1, <1>6, <2>2 DEF Convert, Authorized, history, around, core
  <2> QED BY <1>6, <2>1, <2>2 DEF Convert
<1>7. CASE Write
  <2>1. CASE Works(PartOf(got))
    <3>1. pc = "write" /\ pc' = "drain" /\ late' = IF Authorized(got) THEN late ELSE late + 1
      BY <1>7, <2>1 DEF Write, Done
    <3>2. late' \in 0..1
      BY <3>1 DEF LateInv
    <3> QED BY <3>1, <3>2 DEF LateInv
  <2>2. CASE ~Works(PartOf(got))
    BY <1>2, <1>7, <2>2 DEF Write, Fail, Return, history, around, core
  <2> QED BY <2>1, <2>2
<1>8. CASE Check \/ ReadHid
  BY <1>2, <1>8 DEF Check, ReadHid, Fail, Return, Goto, Continue, history, around, core
<1>9. CASE StopReset
  BY <1>2, <1>9 DEF StopReset, Return, history, around, core
<1>10. CASE (\E part \in Parts : Break(part) \/ Heal(part)) \/ (\E b \in Buttons : Press(b)) \/ Tick
  BY <1>2, <1>10 DEF Break, Heal, Press, Tick, outside, mvars, core, history
<1>11. CASE Grant
  <2>1. got \in Outputs /\ Authorized(got) => FALSE
    BY <1>11, WorkerAssumption DEF Grant, Authorized
  <2> QED BY <1>11, <2>1 DEF Grant, LateInv, StageInv, outside, mvars, history
<1>12. CASE Revoke
  BY <1>12 DEF Revoke, LateInv
<1>13. CASE SendReset \/ SendStop
  BY <1>2, <1>13 DEF SendReset, SendStop, PutReset, PutStop, outside, mvars, core, history
<1>14. CASE (\E o \in Outputs : HandleCommand(o)) \/ SendCommand
  BY <1>2, <1>14 DEF HandleCommand, SendCommand, Put, outside, mvars, history
<1>15. CASE UNCHANGED wvars
  BY <1>2, <1>15 DEF wvars, mvars, history, core
<1> QED
  BY <1>3, <1>4, <1>5, <1>6, <1>7, <1>8, <1>9, <1>10, <1>11, <1>12, <1>13, <1>14, <1>15
     DEF WNext, WorkerStep

\* Not more than the one command already at the USB reaches the panel after a revocation.
THEOREM LateOnce == WSpec => []OneLateOutput
<1>1. WInit => LateInv
  BY DEF WInit, LateInv
<1>2. StageInv /\ LateInv /\ [WNext]_wvars => LateInv'
  BY LateStep
<1>3. LateInv => OneLateOutput
  BY DEF LateInv, OneLateOutput
<1> QED BY <1>1, <1>2, <1>3, StageHolds, PTL DEF WSpec

\* Nothing on the panel is of a claim that ended.
Fresh == screen.claim \in {0, claim} /\ \A l \in Lamps : lamp[l].claim \in {0, claim}

\* If something is, or is about to be, it will be cleared.
ClearInv ==
    /\ lamp = [l \in Lamps |-> lamp[l]]
    /\ Fresh \/ Clearing \/ exit.kind = "Failed"
    /\ pc = "write" => Authorized(got) \/ Clearing

\* What is not content is of no claim, and content of its own.
LEMMA OfClaim ==
    /\ Off.claim = 0 /\ Leftover.claim = 0 /\ Notice.claim = 0
    /\ \A what, c : Content(what, c).claim = c
BY DEF Off, Leftover, Notice, Content

\* Every step leaves stale content only where it will be cleared.
LEMMA ClearStep ==
    ASSUME StageInv, ClearInv, [WNext]_wvars
    PROVE  ClearInv'
\* A clearing that is due stays due until the worker is at it.
<1>1. ASSUME UNCHANGED <<reset_due, order>>, pc # "reset", pc = "apply" => got # ResetDevice
      PROVE  Clearing => Clearing'
  BY <1>1 DEF Clearing
\* A step of the worker that neither clears nor writes.
<1>2. ASSUME UNCHANGED <<core, order>>, pc \notin Leaving, pc = "apply" => got # ResetDevice,
             Fresh => Fresh' \/ exit'.kind = "Failed", lamp' = [l \in Lamps |-> lamp'[l]],
             pc' = "write" => Authorized(got)'
      PROVE  ClearInv'
  <2>1. Fresh \/ Clearing
    BY <1>2 DEF ClearInv, StageInv, Leaving, Running
  <2> QED BY <1>1, <1>2, <2>1 DEF ClearInv, core, Leaving
<1>3. ASSUME UNCHANGED <<core, order, panel>>, pc \notin Leaving, pc = "apply" => got # ResetDevice,
             pc' = "write" => Authorized(got)'
      PROVE  ClearInv'
  BY <1>2, <1>3 DEF Fresh, ClearInv, core, panel
<1>4. ASSUME UNCHANGED <<core, order>>, pc \notin Leaving, pc = "apply" => got # ResetDevice,
             NEW cause, Fail(cause), lamp' = [l \in Lamps |-> lamp'[l]]
      PROVE  ClearInv'
  BY <1>2, <1>4 DEF Fail, Return
<1>5. ASSUME ClearLeds
      PROVE  /\ lamp' = [l \in Lamps |-> lamp'[l]]
             /\ \A l \in Lamps : lamp'[l] \in {Off, lamp[l]}
             /\ Works("lamps") => \A l \in Lamps : lamp'[l] = Off
  BY <1>5 DEF ClearLeds
<1>6. CASE OpenAndProbe
  <2>1. UNCHANGED <<core, order, panel>> /\ pc \notin Leaving \cup {"apply"} /\ pc' # "write"
    BY <1>6 DEF OpenAndProbe, Goto, Fail, Return, around, mvars, Leaving
  <2> QED BY <1>3, <2>1
<1>7. CASE StartDark
  <2>1. /\ UNCHANGED <<core, order, screen>> /\ pc \notin Leaving \cup {"apply"}
        /\ pc' # "write" /\ ClearLeds
    BY <1>7 DEF StartDark, Goto, Fail, Return, around, mvars, Leaving
  <2>2. Fresh => Fresh'
    BY <1>5, <2>1, OfClaim DEF Fresh, core
  <2> QED BY <1>2, <1>5, <2>1, <2>2
<1>8. CASE Announce
  BY <1>3, <1>8 DEF Announce, Goto, around, Leaving
<1>9. CASE Drain
  <2>1. UNCHANGED <<core, panel, exit>> /\ pc = "drain" /\ pc' # "write"
    BY <1>9 DEF Drain, around
  <2>2. CASE UNCHANGED mvars
    BY <1>3, <2>1, <2>2 DEF mvars, Leaving
  <2>3. CASE Take /\ UNCHANGED order
    BY <1>3, <2>1, <2>3 DEF Leaving
  <2>4. CASE TakeOrder /\ pc' = IF got' \in {Stop, Disconnected} THEN "reset" ELSE "apply"
    <3>1. Clearing'
      BY <2>4 DEF TakeOrder, Clearing, StageInv
    <3> QED BY <2>1, <3>1 DEF ClearInv, panel
  <2> QED BY <1>9, <2>2, <2>3, <2>4 DEF Drain, Take, TakeOutput, TakeDisconnected
<1>10. CASE ApplyReset
  <2>1. ClearLeds /\ ClearImage /\ UNCHANGED core
    BY <1>10 DEF ApplyReset, Reset, around
  <2>2. CASE ResetFailure = {}
    <3>1. Fresh'
      BY <1>5, <2>1, <2>2, OfClaim DEF ResetFailure, ClearImage, Works, Fresh
    <3> QED BY <1>5, <1>10, <2>1, <2>2, <3>1 DEF ApplyReset, Done, ClearInv
  <2>3. CASE ResetFailure # {}
    BY <1>5, <1>10, <2>1, <2>3 DEF ApplyReset, Return, ClearInv
  <2> QED BY <2>2, <2>3
<1>11. CASE ApplyDiscard
  BY <1>3, <1>11, Distinct DEF ApplyDiscard, Done, Use, around, Leaving
<1>12. CASE ApplyOutput
  <2>1. Authorized(got)' /\ UNCHANGED <<core, order, panel>> /\ pc = "apply" /\ got \in Outputs
    BY <1>12 DEF ApplyOutput, Discarded, Authorized, around, core
  <2> QED BY <1>3, <2>1, Distinct DEF Leaving
<1>13. CASE Convert
  <2>1. UNCHANGED <<core, panel>> /\ pc \notin Leaving \cup {"apply"}
    BY <1>13 DEF Convert, around, Leaving
  <2>2. CASE Fail("image") \/ Done("None")
    BY <1>3, <2>1, <2>2 DEF Fail, Return, Done, Use
  <2>3. CASE Authorized(got) /\ UNCHANGED <<order, got>>
    BY <1>3, <2>1, <2>3 DEF Authorized, core
  <2> QED BY <1>13, <2>2, <2>3 DEF Convert
<1>14. CASE Write
  <2>1. /\ got \in Outputs /\ got.kind \in OutputKinds /\ UNCHANGED core
        /\ pc \notin Leaving \cup {"apply"} /\ (got.kind = "SetLed" => got.control \in Lamps)
    BY <1>14, OutputsAssumption, WorkerAssumption DEF Write, StageInv, around, Leaving
  <2>2. ASSUME Shown(got)
        PROVE  /\ lamp' = [l \in Lamps |-> lamp'[l]]
               /\ \A l \in Lamps : lamp'[l].claim \in {0, got.claim, lamp[l].claim}
               /\ screen'.claim \in {0, got.claim, screen.claim}
    <3>1. CASE got.kind = "SetLed"
      <4>1. UNCHANGED screen
            /\ lamp' = [lamp EXCEPT ![got.control] =
                            IF got.value = "on" THEN Content("light", got.claim) ELSE Off]
        BY <2>2, <3>1 DEF Shown
      <4> QED BY <2>1, <4>1, OfClaim DEF ClearInv
    <3>2. CASE got.kind # "SetLed"
      <4>1. UNCHANGED lamp /\ screen' \in {Content("frame", got.claim), Off}
        BY <2>1, <2>2, <3>2 DEF Shown, OutputKinds
      <4> QED BY <4>1, OfClaim DEF ClearInv
    <3> QED BY <3>1, <3>2
  <2>3. CASE Works(PartOf(got))
    <3>1. Shown(got) /\ pc' = "drain" /\ UNCHANGED <<order, exit>>
      BY <1>14, <2>3 DEF Write, Done, Use
    <3>2. CASE Authorized(got)
      <4>1. Fresh => Fresh'
        BY <2>1, <2>2, <3>1, <3>2 DEF Fresh, Authorized, core
      <4> QED BY <1>2, <2>1, <2>2, <3>1, <4>1
    <3>3. CASE ~Authorized(got)
      <4>1. Clearing
        BY <1>14, <3>3 DEF Write, ClearInv
      <4>2. Clearing'
        BY <1>1, <2>1, <3>1, <4>1 DEF core, Leaving
      <4> QED BY <2>2, <3>1, <4>2 DEF ClearInv
    <3> QED BY <3>2, <3>3
  <2>4. CASE ~Works(PartOf(got))
    <3>1. lamp' = [l \in Lamps |-> lamp'[l]] /\ Fail(PartOf(got)) /\ UNCHANGED order
      BY <1>14, <2>2, <2>4 DEF Write, Fail, ClearInv, panel
    <3> QED BY <1>4, <2>1, <3>1
  <2> QED BY <2>3, <2>4
<1>15. CASE Check
  <2>1. /\ UNCHANGED <<core, order, lamp>> /\ pc \notin Leaving \cup {"apply"} /\ pc' # "write"
        /\ screen' \in {Notice, screen}
    BY <1>15 DEF Check, around, Goto, Fail, Return, panel, Leaving
  <2>2. Fresh => Fresh'
    BY <2>1, OfClaim DEF Fresh, core
  <2> QED BY <1>2, <2>1, <2>2 DEF ClearInv
<1>16. CASE ReadHid
  <2>1. UNCHANGED <<core, order, panel>> /\ pc \notin Leaving \cup {"apply"} /\ pc' # "write"
    BY <1>16 DEF ReadHid, Continue, Fail, Return, mvars, Leaving
  <2> QED BY <1>3, <2>1
<1>17. CASE StopReset
  <2>1. ClearLeds /\ ClearImage /\ pc' = "gone" /\ Return(ResetFailure) /\ UNCHANGED core
    BY <1>17 DEF StopReset, Reset, Return, around
  <2>2. Fresh' \/ exit'.kind = "Failed"
    BY <1>5, <2>1, OfClaim DEF ResetFailure, ClearImage, Works, Fresh, Return
  <2> QED BY <1>5, <2>1, <2>2 DEF ClearInv
\* Steps around the worker.
<1>18. ASSUME UNCHANGED <<pc, got, exit, panel, claim>>, Clearing => Clearing'
       PROVE  ClearInv'
  BY <1>18 DEF ClearInv, Fresh, Authorized, panel
<1>19. CASE (\E part \in Parts : Break(part) \/ Heal(part)) \/ (\E b \in Buttons : Press(b)) \/ Tick
  BY <1>18, <1>19 DEF Break, Heal, Press, Tick, outside, mvars, core, Clearing
<1>20. CASE Grant
  <2>1. claim = 0 /\ UNCHANGED <<pc, got, exit, panel, order, reset_due>>
    BY <1>20 DEF Grant, outside, mvars
  <2>2. Fresh => Fresh'
    BY <2>1 DEF Fresh, panel
  <2>3. pc = "write" => ~Authorized(got)
    BY <2>1, WorkerAssumption DEF StageInv, Authorized
  <2> QED BY <2>1, <2>2, <2>3 DEF ClearInv, Clearing, panel
<1>21. CASE Revoke
  BY <1>21 DEF Revoke, ClearInv, Clearing, outside, panel
<1>22. CASE SendReset
  <2>1. UNCHANGED <<pc, got, exit, panel, claim>>
    BY <1>22 DEF SendReset, PutReset, outside, mvars
  <2>2. CASE PutReset
    <3>1. Clearing'
      BY <2>2 DEF PutReset, Clearing, Orders
    <3> QED BY <1>18, <2>1, <3>1
  <2>3. CASE ~Accepting /\ UNCHANGED mvars
    <3>1. order = Stop \/ pc = "reset" \/ pc = "gone"
      BY <2>3 DEF StageInv, Accepting, Leaving
    <3>2. CASE order = Stop \/ pc = "reset"
      <4>1. Clearing'
        BY <2>1, <2>3, <3>2 DEF Clearing, Orders, mvars
      <4> QED BY <1>18, <2>1, <4>1
    <3>3. CASE pc = "gone"
      <4>1. Fresh' \/ exit'.kind = "Failed"
        BY <2>1, <3>3, OfClaim DEF StageInv, Dark, Fresh, panel
      <4> QED BY <2>1, <3>3, <4>1 DEF ClearInv, panel
    <3> QED BY <3>1, <3>2, <3>3
  <2> QED BY <1>22, <2>2, <2>3 DEF SendReset
<1>23. CASE SendStop
  <2>1. UNCHANGED <<pc, got, exit, panel, claim>> /\ Clearing'
    BY <1>23 DEF SendStop, PutStop, outside, core, Clearing, Orders
  <2> QED BY <1>18, <2>1
<1>24. CASE (\E o \in Outputs : HandleCommand(o)) \/ SendCommand
  BY <1>18, <1>24 DEF HandleCommand, SendCommand, Put, outside, mvars, Clearing
<1>25. CASE UNCHANGED wvars
  BY <1>18, <1>25 DEF wvars, mvars, core, Clearing
<1> QED
  BY <1>6, <1>7, <1>8, <1>9, <1>10, <1>11, <1>12, <1>13, <1>14, <1>15, <1>16, <1>17, <1>19,
     <1>20, <1>21, <1>22, <1>23, <1>24, <1>25 DEF WNext, WorkerStep

\* What a lost claim left on the panel is cleared, or the worker has failed.
THEOREM LostClaimsCleared == WSpec => []LostClaimIsCleared
<1>1. WInit => ClearInv
  BY OfClaim DEF WInit, ClearInv, Fresh
<1>2. StageInv /\ ClearInv /\ [WNext]_wvars => ClearInv'
  BY ClearStep
<1>3. ClearInv => LostClaimIsCleared
  BY DEF ClearInv, Fresh, LostClaimIsCleared, Contents
<1> QED BY <1>1, <1>2, <1>3, StageHolds, PTL DEF WSpec

-----------------------------------------------------------------------------
(* Types. *)

\* A turn has room for the command in hand.
Counted == pc \in {"apply", "convert", "write"} => outputs < Batch

ChannelTyped ==
    /\ slot \in [Controls -> Outputs \cup {Nothing}]
    /\ order \in Orders \cup {Nothing}
    /\ got \in Commands \cup {Nothing, Disconnected}
    /\ handling \in Outputs \cup {Nothing}

FlagsTyped ==
    /\ stopping \in BOOLEAN /\ receiver_alive \in BOOLEAN /\ has_hid \in BOOLEAN
    /\ armed \in BOOLEAN /\ notice_shown \in BOOLEAN /\ hid_report \in BOOLEAN
    /\ reset_due \in BOOLEAN /\ blanked \in BOOLEAN

ThreadTyped ==
    /\ pc \in Points
    /\ outputs \in 0..Batch /\ Counted
    /\ exit \in [kind : {"Running", "Disconnected", "Failed"}, cause : SUBSET Causes]
    /\ age \in 0..Timeout /\ silent \in 0..Timeout
    /\ late \in Nat

ButtonsTyped ==
    /\ previous_mask \subseteq Buttons /\ pressed \subseteq Buttons /\ seen \subseteq Buttons
    /\ broken \subseteq Fragile

LampContent == [shows : {"nothing", "leftover", "light"}, claim : 0..MaxClaims]
ScreenContent == [shows : {"nothing", "leftover", "notice", "frame"}, claim : 0..MaxClaims]

PanelTyped ==
    /\ lamp \in [Lamps -> LampContent]
    /\ screen \in ScreenContent
    /\ granted \in 0..MaxClaims /\ claim \in 0..granted

\* The channel and the handler's hand hold commands.
LEMMA ChannelStep ==
    ASSUME ChannelTyped, [WNext]_wvars
    PROVE  ChannelTyped'
<1>1. CASE UNCHANGED <<slot, order, handling>> /\ got' \in {got, Nothing}
  BY <1>1 DEF ChannelTyped
<1>2. CASE OpenAndProbe \/ StartDark \/ Announce \/ StopReset
  BY <1>1, <1>2 DEF OpenAndProbe, StartDark, Announce, StopReset, Fail, mvars, around, core
<1>3. CASE Drain
  <2>1. handling' = handling /\ (Take \/ UNCHANGED mvars)
    BY <1>3 DEF Drain, around, core
  <2>2. CASE TakeOrder
    BY <2>1, <2>2 DEF TakeOrder, ChannelTyped, Commands
  <2>3. ASSUME NEW c \in Controls, TakeOutput(c)
        PROVE  ChannelTyped'
    BY <2>1, <2>3 DEF TakeOutput, ChannelTyped, Commands
  <2>4. CASE TakeDisconnected
    BY <2>1, <2>4 DEF TakeDisconnected, ChannelTyped
  <2>5. CASE UNCHANGED mvars
    BY <1>1, <2>1, <2>5 DEF mvars
  <2> QED BY <2>1, <2>2, <2>3, <2>4, <2>5 DEF Take
<1>4. CASE ApplyReset \/ ApplyDiscard \/ ApplyOutput \/ Convert
  BY <1>1, <1>4 DEF ApplyReset, ApplyDiscard, ApplyOutput, Convert, Fail, Done, Use, around, core
<1>5. CASE Write \/ Check \/ ReadHid
  BY <1>1, <1>5 DEF Write, Check, ReadHid, Fail, Done, Use, Continue, mvars, around, core
<1>6. CASE (\E part \in Parts : Break(part) \/ Heal(part)) \/ (\E b \in Buttons : Press(b)) \/ Tick
  BY <1>1, <1>6 DEF Break, Heal, Press, Tick, mvars, core
<1>7. CASE Grant \/ Revoke
  BY <1>1, <1>7 DEF Grant, Revoke, mvars
<1>8. CASE SendReset \/ SendStop
  BY <1>8 DEF SendReset, SendStop, PutReset, PutStop, ChannelTyped, Empty, Orders, mvars, core
<1>9. CASE \E o \in Outputs : HandleCommand(o)
  BY <1>9 DEF HandleCommand, ChannelTyped, mvars
<1>10. CASE SendCommand
  <2>1. CASE Put(handling)
    BY <1>10, <2>1 DEF SendCommand, Put, ChannelTyped
  <2>2. CASE UNCHANGED mvars
    BY <1>10, <2>2 DEF SendCommand, ChannelTyped, mvars
  <2> QED BY <1>10, <2>1, <2>2 DEF SendCommand
<1>11. CASE UNCHANGED wvars
  BY <1>1, <1>11 DEF wvars, mvars, core
<1> QED BY <1>2, <1>3, <1>4, <1>5, <1>6, <1>7, <1>8, <1>9, <1>10, <1>11 DEF WNext, WorkerStep

\* The flags are Boolean.
LEMMA FlagsStep ==
    ASSUME StageInv, FlagsTyped, [WNext]_wvars
    PROVE  FlagsTyped'
<1> USE DEF FlagsTyped
<1>1. CASE OpenAndProbe \/ StartDark \/ Announce
  BY <1>1 DEF OpenAndProbe, StartDark, Announce, Goto, Fail, Return, mvars, around, core, buttons,
              watchdog, history
<1>2. CASE Drain
  BY <1>2 DEF Drain, Take, TakeOrder, TakeOutput, TakeDisconnected, mvars, around, core, buttons,
              watchdog, history
<1>3. ASSUME NEW effect \in {"None", "Frame", "Clear", "Reset"}, Done(effect), UNCHANGED around
      PROVE  FlagsTyped'
  BY <1>3 DEF Done, Observe, Use, around, core, buttons, watchdog
<1>4. CASE ApplyReset
  BY <1>3, <1>4 DEF ApplyReset, Return, around, core, buttons, watchdog, history
<1>5. CASE ApplyDiscard
  BY <1>3, <1>5 DEF ApplyDiscard
<1>6. CASE ApplyOutput
  BY <1>6 DEF ApplyOutput, Goto, around, core, buttons, watchdog, history
<1>7. CASE Convert
  BY <1>3, <1>7 DEF Convert, Goto, Fail, Return, around, core, buttons, watchdog, history
<1>8. CASE Write
  <2>1. Effect(got) \in {"None", "Frame", "Clear"}
    BY <1>8, OutputsAssumption DEF Write, StageInv, Effect, OutputKinds
  <2> QED BY <1>3, <1>8, <2>1 DEF Write, Fail, Return, around, core, buttons, watchdog, history
<1>9. CASE Check
  BY <1>9 DEF Check, Goto, Fail, Return, around, core, buttons, watchdog, history
<1>10. CASE ReadHid
  BY <1>10 DEF ReadHid, Continue, Fail, Return, mvars, core, buttons, watchdog, history
<1>11. CASE StopReset
  BY <1>11 DEF StopReset, Return, around, core, buttons, watchdog, history
<1>12. CASE (\E part \in Parts : Break(part) \/ Heal(part)) \/ (\E b \in Buttons : Press(b)) \/ Tick
  BY <1>12 DEF Break, Heal, Press, Tick, outside, mvars, core, buttons, watchdog, history
<1>13. CASE Grant \/ Revoke
  BY <1>13 DEF Grant, Revoke, outside, mvars, core, buttons, watchdog, history
<1>14. CASE SendReset \/ SendStop
  BY <1>14 DEF SendReset, SendStop, PutReset, PutStop, outside, mvars, core, buttons, watchdog,
               history
<1>15. CASE (\E o \in Outputs : HandleCommand(o)) \/ SendCommand
  BY <1>15 DEF HandleCommand, SendCommand, Put, outside, mvars, buttons, watchdog, history
<1>16. CASE UNCHANGED wvars
  BY <1>16 DEF wvars, mvars, core, buttons, watchdog, history
<1> QED BY <1>1, <1>2, <1>4, <1>5, <1>6, <1>7, <1>8, <1>9, <1>10, <1>11, <1>12, <1>13, <1>14,
           <1>15, <1>16 DEF WNext, WorkerStep

\* The thread counts at most a batch, and its clocks stop at the timeout.
LEMMA ThreadStep ==
    ASSUME StageInv, ThreadTyped, [WNext]_wvars
    PROVE  ThreadTyped'
<1> USE WorkerAssumption DEF ThreadTyped, Counted, Points
<1>1. ASSUME NEW causes \in SUBSET Causes, Return(causes), UNCHANGED <<outputs, watchdog, history>>
      PROVE  ThreadTyped'
  BY <1>1 DEF Return, watchdog, history
<1>2. ASSUME NEW cause \in Causes, Fail(cause)
      PROVE  ThreadTyped'
  BY <1>1, <1>2 DEF Fail
<1>3. ASSUME NEW point \in Points, Goto(point), UNCHANGED <<outputs, watchdog, history>>,
             point \in {"apply", "convert", "write"} => outputs < Batch
      PROVE  ThreadTyped'
  BY <1>3 DEF Goto, watchdog, history
<1>4. ASSUME NEW effect \in {"None", "Frame", "Clear", "Reset"}, Done(effect), outputs < Batch,
             late' \in Nat
      PROVE  ThreadTyped'
  <2>1. pc' = "drain" /\ outputs' = outputs + 1 /\ exit' = exit /\ silent' \in {0, silent}
    BY <1>4 DEF Done
  <2>2. age' \in {0, age}
    BY <1>4 DEF Done, Observe, watchdog
  <2>3. outputs' \in 0..Batch
    BY <1>4, <2>1
  <2> QED BY <1>4, <2>1, <2>2, <2>3
<1>5. CASE OpenAndProbe
  BY <1>2, <1>3, <1>5 DEF OpenAndProbe, Causes, Parts
<1>6. CASE StartDark
  BY <1>2, <1>3, <1>6 DEF StartDark, Causes, Parts
<1>7. CASE Announce
  BY <1>7 DEF Announce, Goto
<1>8. CASE Drain
  BY <1>8 DEF Drain, watchdog, history
<1>9. CASE ApplyReset
  <2>1. CASE ResetFailure = {}
    BY <1>4, <1>9, <2>1 DEF ApplyReset
  <2>2. CASE ResetFailure # {}
    BY <1>1, <1>9, <2>2 DEF ApplyReset, ResetFailure, Causes, Parts
  <2> QED BY <2>1, <2>2
<1>10. CASE ApplyDiscard
  BY <1>4, <1>10 DEF ApplyDiscard
<1>11. CASE ApplyOutput
  BY <1>3, <1>11 DEF ApplyOutput
<1>12. CASE Convert
  BY <1>2, <1>3, <1>4, <1>12 DEF Convert, Causes
<1>13. CASE Write
  <2>1. Effect(got) \in {"None", "Frame", "Clear"}
    BY <1>13, OutputsAssumption DEF Write, StageInv, Effect, OutputKinds
  <2>2. CASE Works(PartOf(got))
    BY <1>4, <1>13, <2>1, <2>2 DEF Write
  <2>3. CASE ~Works(PartOf(got))
    BY <1>2, <1>13, <2>3 DEF Write, PartOf, Causes, Parts
  <2> QED BY <2>2, <2>3
<1>14. CASE Check
  <2>1. CASE Fail("screen")
    BY <1>2, <2>1 DEF Causes, Parts
  <2>2. CASE Goto("hid") /\ UNCHANGED <<outputs, age, history>>
    BY <1>14, <2>2 DEF Goto, history
  <2> QED BY <1>14, <2>1, <2>2 DEF Check, watchdog
<1>15. CASE ReadHid
  <2>1. CASE \E cause \in {"hid", "report"} : Fail(cause)
    BY <1>2, <2>1 DEF Causes, Parts
  <2>2. CASE Continue
    BY <2>2 DEF Continue, watchdog
  <2> QED BY <1>15, <2>1, <2>2 DEF ReadHid
<1>16. CASE StopReset
  BY <1>1, <1>16 DEF StopReset, ResetFailure, Causes, Parts
<1>17. CASE (\E part \in Parts : Break(part) \/ Heal(part)) \/ (\E b \in Buttons : Press(b))
  BY <1>17 DEF Break, Heal, Press, outside, watchdog, history
<1>18. CASE Tick
  BY <1>18 DEF Tick, Older, outside
<1>19. CASE Grant \/ Revoke
  BY <1>19 DEF Grant, Revoke, outside, watchdog, history
<1>20. CASE SendReset \/ SendStop
  BY <1>20 DEF SendReset, SendStop, outside, watchdog, history
<1>21. CASE (\E o \in Outputs : HandleCommand(o)) \/ SendCommand
  BY <1>21 DEF HandleCommand, SendCommand, outside, watchdog, history
<1>22. CASE UNCHANGED wvars
  BY <1>22 DEF wvars, watchdog, history
<1> QED BY <1>5, <1>6, <1>7, <1>8, <1>9, <1>10, <1>11, <1>12, <1>13, <1>14, <1>15, <1>16, <1>17,
           <1>18, <1>19, <1>20, <1>21, <1>22 DEF WNext, WorkerStep

\* Masks are masks of buttons.
LEMMA ButtonsStep ==
    ASSUME ButtonsTyped, [WNext]_wvars
    PROVE  ButtonsTyped'
<1> USE DEF ButtonsTyped
<1>1. CASE UNCHANGED <<previous_mask, pressed, seen, broken>>
  BY <1>1
<1>2. CASE OpenAndProbe \/ StartDark \/ Announce \/ Drain
  BY <1>2 DEF OpenAndProbe, StartDark, Announce, Drain, Fail, around, buttons, history
<1>3. CASE ApplyReset \/ ApplyDiscard \/ ApplyOutput \/ Convert
  BY <1>3 DEF ApplyReset, ApplyDiscard, ApplyOutput, Convert, Fail, Done, around, buttons, history
<1>4. CASE Write \/ Check \/ StopReset
  BY <1>4 DEF Write, Check, StopReset, Fail, Done, around, buttons, history
<1>5. CASE ReadHid
  BY <1>5 DEF ReadHid, Reported, Continue, Fail, history
<1>6. CASE (\E part \in Parts : Break(part) \/ Heal(part)) \/ (\E b \in Buttons : Press(b))
  BY <1>6 DEF Break, Heal, Press, outside, buttons, history
<1>7. CASE Tick \/ Grant \/ Revoke \/ SendReset \/ SendStop
  BY <1>7 DEF Tick, Grant, Revoke, SendReset, SendStop, outside, buttons, history
<1>8. CASE (\E o \in Outputs : HandleCommand(o)) \/ SendCommand
  BY <1>8 DEF HandleCommand, SendCommand, outside, buttons, history
<1>9. CASE UNCHANGED wvars
  BY <1>9 DEF wvars, buttons, history
<1> QED BY <1>2, <1>3, <1>4, <1>5, <1>6, <1>7, <1>8, <1>9 DEF WNext, WorkerStep

\* The panel shows what claims granted so far put there.
LEMMA PanelStep ==
    ASSUME StageInv, PanelTyped, [WNext]_wvars
    PROVE  PanelTyped'
<1>1. CASE UNCHANGED <<panel, granted, claim>>
  BY <1>1 DEF PanelTyped, panel
<1>2. /\ MaxClaims \in Nat
      /\ Off \in LampContent \cap ScreenContent /\ Notice \in ScreenContent
      /\ \A c \in 1..MaxClaims :
            Content("light", c) \in LampContent /\ Content("frame", c) \in ScreenContent
  BY WorkerAssumption DEF Off, Notice, Content, LampContent, ScreenContent
<1>3. ASSUME ClearLeds \/ UNCHANGED lamp
      PROVE  lamp' \in [Lamps -> LampContent]
  BY <1>2, <1>3 DEF ClearLeds, PanelTyped
<1>4. ASSUME ClearImage
      PROVE  screen' \in ScreenContent
  BY <1>2, <1>4 DEF ClearImage, PanelTyped
<1>5. CASE OpenAndProbe \/ Announce \/ Drain
  BY <1>1, <1>5 DEF OpenAndProbe, Announce, Drain, around, core
<1>6. CASE StartDark
  BY <1>3, <1>6 DEF StartDark, PanelTyped, around, core
<1>7. CASE ApplyReset \/ StopReset
  BY <1>3, <1>4, <1>7 DEF ApplyReset, StopReset, Reset, PanelTyped, around, core
<1>8. CASE ApplyDiscard \/ ApplyOutput \/ Convert
  BY <1>1, <1>8 DEF ApplyDiscard, ApplyOutput, Convert, around, core
<1>9. CASE Write
  <2>1. /\ got \in Outputs /\ got.kind \in OutputKinds /\ got.claim \in 1..MaxClaims
        /\ UNCHANGED <<granted, claim>>
    BY <1>9, OutputsAssumption, WorkerAssumption DEF Write, StageInv, around, core
  <2>2. ASSUME Shown(got)
        PROVE  lamp' \in [Lamps -> LampContent] /\ screen' \in ScreenContent
    <3>1. CASE got.kind = "SetLed"
      <4>1. /\ UNCHANGED screen
            /\ lamp' = [lamp EXCEPT ![got.control] =
                            IF got.value = "on" THEN Content("light", got.claim) ELSE Off]
        BY <2>2, <3>1 DEF Shown
      <4> QED BY <1>2, <2>1, <4>1 DEF PanelTyped
    <3>2. CASE got.kind # "SetLed"
      <4>1. UNCHANGED lamp /\ screen' \in {Content("frame", got.claim), Off}
        BY <2>1, <2>2, <3>2 DEF Shown, OutputKinds
      <4> QED BY <1>2, <2>1, <4>1 DEF PanelTyped
    <3> QED BY <3>1, <3>2
  <2> QED BY <1>9, <2>1, <2>2 DEF Write, PanelTyped, panel
<1>10. CASE Check
  <2>1. UNCHANGED <<lamp, granted, claim>> /\ screen' \in {Notice, screen}
    BY <1>10 DEF Check, panel, around, core
  <2> QED BY <1>2, <2>1 DEF PanelTyped
<1>11. CASE ReadHid
  BY <1>1, <1>11 DEF ReadHid, core
<1>12. CASE (\E part \in Parts : Break(part) \/ Heal(part)) \/ (\E b \in Buttons : Press(b)) \/ Tick
  BY <1>1, <1>12 DEF Break, Heal, Press, Tick, core
<1>13. CASE Grant \/ Revoke
  BY <1>2, <1>13 DEF Grant, Revoke, PanelTyped, panel
<1>14. CASE SendReset \/ SendStop
  BY <1>1, <1>14 DEF SendReset, SendStop, core
<1>15. CASE (\E o \in Outputs : HandleCommand(o)) \/ SendCommand
  BY <1>1, <1>15 DEF HandleCommand, SendCommand
<1>16. CASE UNCHANGED wvars
  BY <1>1, <1>16 DEF wvars, core
<1> QED BY <1>5, <1>6, <1>7, <1>8, <1>9, <1>10, <1>11, <1>12, <1>13, <1>14, <1>15, <1>16
        DEF WNext, WorkerStep

\* The state of the worker, its channel, its panel and the claim stays well typed.
THEOREM TypeCorrect == WSpec => []WTypeOK
<1> DEFINE Typed == ChannelTyped /\ FlagsTyped /\ ThreadTyped /\ ButtonsTyped /\ PanelTyped
<1>1. WInit => Typed
  <2> SUFFICES ASSUME WInit PROVE Typed
    OBVIOUS
  <2>1. ChannelTyped
    BY DEF WInit, MInit, ChannelTyped, Empty
  <2>2. FlagsTyped
    BY DEF WInit, MInit, FlagsTyped
  <2>3. ThreadTyped
    BY WorkerAssumption DEF WInit, ThreadTyped, Counted, Points, Running
  <2>4. ButtonsTyped
    BY DEF WInit, ButtonsTyped
  <2>5. PanelTyped
    BY WorkerAssumption DEF WInit, PanelTyped, LampContent, ScreenContent, Leftover
  <2> QED BY <2>1, <2>2, <2>3, <2>4, <2>5
<1>2. StageInv /\ Typed /\ [WNext]_wvars => Typed'
  BY ChannelStep, FlagsStep, ThreadStep, ButtonsStep, PanelStep
<1>3. Typed => WTypeOK
  BY DEF ChannelTyped, FlagsTyped, ThreadTyped, ButtonsTyped, PanelTyped, WTypeOK, LampContent,
         ScreenContent
<1> HIDE DEF Typed
<1> QED BY <1>1, <1>2, <1>3, StageHolds, PTL DEF WSpec

=============================================================================
