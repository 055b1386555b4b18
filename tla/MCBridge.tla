------------------------------ MODULE MCBridge ------------------------------
(* Instances of Bridge for TLC: the workers are created in a fixed order.   *)
EXTENDS Bridge, TLC

CONSTANTS w1, w2

TwoInOrder == <<w1, w2>>
=============================================================================
