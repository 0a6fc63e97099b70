--------------------------- MODULE MCStreamSystem ---------------------------
(* Instances of StreamSystem for TLC.                                      *)
EXTENDS StreamSystem

LifeCalls == {"destroy", "write", "read", "update", "refuse"}
ReopenCalls == {"write", "nested"}
=============================================================================
