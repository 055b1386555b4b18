------------------------------ MODULE MCSrvFsm ------------------------------
(* The instance of SrvFsm for TLC; the liveness properties allow no symmetry. *)
EXTENDS SrvFsm, TLC
=============================================================================
