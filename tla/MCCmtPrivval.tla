---------------------------- MODULE MCCmtPrivval ----------------------------
(* Small instances of the private validator for TLC.                       *)
EXTENDS CmtPrivval

MCHeights == {1}
MCRounds == 0..1

=============================================================================
