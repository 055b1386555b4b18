---------------------------- MODULE MCCollector ----------------------------
(* Instances of Collector for TLC: the workers are created in a fixed order. *)
EXTENDS Collector, TLC

CONSTANTS w1, w2

TwoInOrder == <<w1, w2>>
=============================================================================
