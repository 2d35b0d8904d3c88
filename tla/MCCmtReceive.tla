--------------------------- MODULE MCCmtReceive ---------------------------
(* The event loop with queues of three entries and drains of four calls.   *)
EXTENDS CmtReceive

\* Two steps of a round, a later round and a later height: every level of the
\* ticker's comparison decides for some pair.
MCTimeouts == {<<1, 0, 1>>, <<1, 0, 3>>, <<1, 1, 3>>, <<2, 0, 1>>}

=============================================================================
