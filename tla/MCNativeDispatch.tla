--------------------------- MODULE MCNativeDispatch ---------------------------
(* Small instances of NativeDispatch for TLC.                              *)
EXTENDS NativeDispatch, TLC

CONSTANTS p1, p2

TwoProcs == {p1, p2}
OwnIds == (p1 :> 1) @@ (p2 :> 2)
SharedId == (p1 :> 1) @@ (p2 :> 1)
=============================================================================
