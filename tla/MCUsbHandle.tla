----------------------------- MODULE MCUsbHandle -----------------------------
(* Half-millisecond ticks: a rest below a millisecond occurs. *)
EXTENDS UsbHandle

Descriptor(number, class, endpoints) ==
    [number |-> number, class |-> class, endpoints |-> endpoints]

HidOn(n) == Descriptor(n, "hid", {"interrupt_in"})
VendorOn(n) == Descriptor(n, "vendor", {"bulk_out", "bulk_in"})
HalfOn(n, kind) == Descriptor(n, "vendor", {kind})

\* The panel as it is, without input, with everything on one interface, with its bulk
\* endpoints apart or followed by half a pair, with interfaces twice, and with none
\* that can be used.
MCConfigs ==
    { <<HidOn("0"), VendorOn("1")>>,
      <<VendorOn("0"), Descriptor("1", "hid", {}), Descriptor("2", "other", {"bulk_in"})>>,
      <<VendorOn("0"), HidOn("0")>>,
      <<HalfOn("0", "bulk_out"), HalfOn("1", "bulk_in"), HidOn("2")>>,
      <<VendorOn("0"), HalfOn("1", "bulk_in"), HidOn("2")>>,
      <<HidOn("0"), VendorOn("1"), HidOn("2"), VendorOn("0")>>,
      <<HidOn("0")>> }
=============================================================================
