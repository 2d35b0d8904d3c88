----------------------------- MODULE MCCmtBsync -----------------------------
(***************************************************************************)
(* Instances of CmtBsync: an honest and a faulty peer (MCCmtBsync.cfg), two*)
(* honest ones (MCCmtBsyncStall.cfg).  The chain is three blocks high, so  *)
(* two can be applied; a second peer is asked for the two lowest heights.  *)
(***************************************************************************)
EXTENDS CmtBsync

CONSTANTS peerA, peerF

MCPeers == {peerA, peerF}
MCFaulty == {peerF}
MCNoFaulty == {}
MCLocalBlocks == {0}
MCNeverBlocks == {}
MCRanges == {<<1, 2>>, <<2, 3>>, <<1, 3>>}
=============================================================================
