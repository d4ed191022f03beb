---------------------------- MODULE MCCommandQueue ----------------------------
(* Two senders, a lamp, a second lamp and the screen. *)
EXTENDS CommandQueue, TLC

CONSTANTS lamp1, lamp2, screen

MCControls == {lamp1, lamp2, screen}
MCOutputs == {[kind |-> "SetLed", control |-> lamp1],
              [kind |-> "SetLed", control |-> lamp2],
              [kind |-> "SetRasterFrame", control |-> screen],
              [kind |-> "ClearRaster", control |-> screen]}
=============================================================================
