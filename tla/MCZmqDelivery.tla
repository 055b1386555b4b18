--------------------------- MODULE MCZmqDelivery ---------------------------
(* Instances of ZmqDelivery for TLC. *)
EXTENDS ZmqDelivery, TLC

PayloadSymmetry == Permutations(Payloads)
=============================================================================
