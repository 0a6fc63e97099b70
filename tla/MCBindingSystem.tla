--------------------------- MODULE MCBindingSystem ---------------------------
(* Instances of BindingSystem for TLC.                                     *)
EXTENDS BindingSystem

OutputMethods == {"write", "control", "flush", "drain"}
ReadMethods == {"write", "lose"}
FinishMethods == {"write", "drain", "close", "cancel", "lose"}
TwoWrites == {<<2>>, <<1, 1>>}
OneWrite == {<<1>>}
VectorWrite == {<<1, 1>>}
None == {}
=============================================================================
