--------------------------- MODULE MCNativeSystem ---------------------------
(* Instances of NativeSystem for TLC.                                      *)
EXTENDS NativeSystem

OutputCalls ==
  {"write", "writev", "flush", "control", "drain", "close", "lose", "consume"}
FinishCalls == {"write", "drain", "read", "teardown"}
NoCredits == {}
OneCredit == {<<2, 2>>}
=============================================================================
