---------------------------- MODULE MCPanelSession ----------------------------
EXTENDS PanelSession

Body(control, capability, type, params) ==
    {[control_id |-> c, capability_id |-> capability, command_type |-> type,
      params |-> p] : c \in control, p \in params}

\* Lamps that exist and one that does not; frames that decode, that do not, and that
\* are no frames; commands no control has.
MCBodies ==
    Body({"up", "s6"}, "led.binary", "set", [{"on"} -> {"true", "false"}])
    \cup Body({SCREEN}, "led.binary", "set", [{"on"} -> {"true"}])
    \cup Body({SCREEN, "up"}, "raster.bitmap", "set_frame",
              {[image |-> "photo", encoding |-> "png"]})
    \cup Body({SCREEN}, "raster.bitmap", "set_frame",
              {[image |-> "noise", encoding |-> "png"]})
    \cup Body({SCREEN}, "raster.bitmap", "clear", [{} -> {}])
=============================================================================
