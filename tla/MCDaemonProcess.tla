--------------------------- MODULE MCDaemonProcess ---------------------------
(* Instances of DaemonProcess for TLC.                                      *)
EXTENDS DaemonProcess, TLC

CONSTANTS d1, d2, c1, c2

TwoDaemons == {d1, d2}
OneCli == {c1}
TwoClis == {c1, c2}
=============================================================================
