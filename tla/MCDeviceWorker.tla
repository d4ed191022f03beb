---------------------------- MODULE MCDeviceWorker ----------------------------
EXTENDS DeviceWorker, TLC

CONSTANTS lamp1, display, elsewhere, button1, button2

MCControls == {lamp1, display, elsewhere}

Output(kind, control, value, claims) ==
    {[kind |-> kind, control |-> control, value |-> value, claim |-> c] : c \in claims}

\* Two claims in turn: a lamp, a frame and a clear of each.
ClaimOutputs ==
    Output("SetLed", lamp1, "on", 1..2) \cup Output("SetRasterFrame", display, "good", 1..2)
        \cup Output("ClearRaster", display, "none", 1..1)

\* One claim: all that is displayed, and all that is refused.
DisplayOutputs ==
    Output("SetLed", lamp1, "on", 1..1) \cup Output("SetRasterFrame", display, "good", 1..1)
        \cup Output("SetRasterFrame", display, "bad", 1..1)
        \cup Output("ClearRaster", display, "none", 1..1)
        \cup Output("SetRasterFrame", elsewhere, "good", 1..1)

\* One claim: an endless stream of frames.
StreamOutputs ==
    Output("SetLed", lamp1, "on", 1..1) \cup Output("SetRasterFrame", display, "good", 1..1)
=============================================================================
