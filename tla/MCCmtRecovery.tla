--------------------------- MODULE MCCmtRecovery ---------------------------
(***************************************************************************)
(* CmtRecovery for TLC: the first heights of a chain, a head file of two   *)
(* or three records, crashes at every point.                               *)
(***************************************************************************)
EXTENDS CmtRecovery
=============================================================================
