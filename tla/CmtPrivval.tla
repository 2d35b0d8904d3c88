----------------------------- MODULE CmtPrivval -----------------------------
(***************************************************************************)
(* The file private validator: shared/dnac/cmt_privval.c (signVote,        *)
(* signProposal, CheckHRS, saveSigned), its durable last-sign state        *)
(* (nodus_witness_cmt_privval.c) and the consensus state machine's use of  *)
(* it (cs_sign_vote and cmt_cs_default_decide_proposal in cmt_cs.c).       *)
(*                                                                         *)
(* The process keeps the last-sign state in memory (mem) and in a file     *)
(* (disk).  A crash loses mem and asked; a restart reads the file and may  *)
(* ask for every vote and proposal of the height again, with other         *)
(* contents, since the WAL replay may have lost peer messages.             *)
(***************************************************************************)
EXTENDS Integers

CONSTANTS
    Heights,     \* heights a message may name
    Rounds,      \* rounds a message may name
    BlockIds,    \* what a vote or a proposal may name
    Times        \* timestamps

ASSUME HeightsAssumption == Heights \subseteq Nat \ {0}
ASSUME RoundsAssumption == Rounds \subseteq Nat

VARIABLES
    mem,         \* cmt_file_pv_t.last_sign_state
    disk,        \* the contents of the last-sign-state file
    up,          \* the process runs
    asked,       \* the last <<height, round, step>> the state machine asked for
    signed       \* the sign bytes whose signature was handed to the caller

vars == <<mem, disk, up, asked, signed>>

-----------------------------------------------------------------------------
(* The sign bytes of a proposal (step 1), a prevote (2) or a precommit     *)
(* (3): two messages are equal exactly when their sign bytes are.          *)
StepNone == 0
StepPropose == 1
StepPrevote == 2
StepPrecommit == 3

SignBytes == [height : Heights, round : Rounds, step : StepPropose..StepPrecommit,
              block : BlockIds, time : Times]

HRS(m) == <<m.height, m.round, m.step>>

\* Lexicographic order on <<height, round, step>>.
Before(a, b) == \/ a[1] < b[1]
                \/ a[1] = b[1] /\ a[2] < b[2]
                \/ a[1] = b[1] /\ a[2] = b[2] /\ a[3] < b[3]

\* The absent sign bytes of a fresh last-sign state (SignBytes = nil).
NoBytes == [height |-> 0, round |-> 0, step |-> StepNone]

LastSign == [height : Heights \cup {0}, round : Rounds \cup {0},
             step : StepNone..StepPrecommit, bytes : SignBytes \cup {NoBytes}]

\* cmt_lss_reset and the zeroed state nodus_cmt_privval_open starts from.
ResetLss == [height |-> 0, round |-> 0, step |-> StepNone, bytes |-> NoBytes]

\* What cmt_pv_save_signed records for the sign bytes m.
Signed(m) == [height |-> m.height, round |-> m.round, step |-> m.step, bytes |-> m]

\* Faulty variant: a step regression is not refused.
CheckHRSNoStep(lss, m) ==
    IF Before(<<m.height, m.round, 0>>, <<lss.height, lss.round, 0>>) THEN "reject"
    ELSE IF HRS(m) # HRS(lss) THEN "sign"
    ELSE IF lss.bytes # NoBytes THEN "same" ELSE "reject"

\* Faulty variant: a round regression is not refused.
CheckHRSNoRound(lss, m) ==
    IF m.height < lss.height THEN "reject"
    ELSE IF HRS(m) # HRS(lss) THEN "sign"
    ELSE IF lss.bytes # NoBytes THEN "same" ELSE "reject"

\* cmt_lss_check_hrs: a regression is refused, so is a match without sign
\* bytes; a match with sign bytes may reuse the signature.
CheckHRS(lss, m) ==
    IF Before(HRS(m), HRS(lss)) THEN "reject"
    ELSE IF HRS(m) # HRS(lss) THEN "sign"
    ELSE IF lss.bytes # NoBytes THEN "same" ELSE "reject"

\* canonical_vote_equal / canonical_proposal_equal once both timestamps have
\* been overwritten with the same value.
OnlyDifferByTimestamp(a, b) == [a EXCEPT !.time = b.time] = b

-----------------------------------------------------------------------------
Init == /\ mem = ResetLss
        /\ disk = ResetLss
        /\ up = TRUE
        /\ asked = <<0, 0, StepNone>>
        /\ signed = {}

\* The enter* guards of cmt_cs.c: one request per (height, round, step), in
\* increasing order, for the life of the process.
Ask(m) == /\ up
          /\ Before(asked, HRS(m))
          /\ asked' = HRS(m)

\* The request is refused (a regression, conflicting data at the same HRS, or
\* raw_sign failed): the caller logs it and sends nothing.
Refuse(m) == /\ \/ CheckHRS(mem, m) = "reject"
                \/ CheckHRS(mem, m) = "same" /\ ~OnlyDifferByTimestamp(mem.bytes, m)
                \/ CheckHRS(mem, m) = "sign"
             /\ UNCHANGED <<mem, disk, up, signed>>

\* The same HRS with the same data up to the timestamp: the old timestamp and
\* the old signature are handed out again.
Reuse(m) == /\ CheckHRS(mem, m) = "same"
            /\ OnlyDifferByTimestamp(mem.bytes, m)
            /\ signed' = signed \cup {mem.bytes}
            /\ UNCHANGED <<mem, disk, up>>

\* Faulty variant: the signature is handed out before the state is durable.
SignBeforeSave(m) == /\ CheckHRS(mem, m) = "sign"
                     /\ mem' = Signed(m)
                     /\ signed' = signed \cup {m}
                     /\ UNCHANGED <<disk, up>>

\* saveSigned made the state durable, then the signature is handed out.
SignAndSave(m) == /\ CheckHRS(mem, m) = "sign"
                  /\ mem' = Signed(m)
                  /\ disk' = Signed(m)
                  /\ signed' = signed \cup {m}
                  /\ UNCHANGED up

\* saveSigned failed.  The file holds the old state, or the new one when the
\* rename was done and the fsync of the directory failed.
SaveFails(m) == /\ CheckHRS(mem, m) = "sign"
                /\ mem' = Signed(m)
                /\ disk' \in {disk, Signed(m)}
                /\ UNCHANGED signed

\* host.sign_vote reached from cs_sign_vote: CMT_FAULT stops the node.
SignVote(m) == /\ m.step \in {StepPrevote, StepPrecommit}
               /\ Ask(m)
               /\ \/ Refuse(m)
                  \/ Reuse(m)
                  \/ SignAndSave(m)
                  \/ SaveFails(m) /\ up' = FALSE

\* host.sign_proposal reached from cmt_cs_default_decide_proposal: every
\* failure, CMT_FAULT included, is logged and the node goes on.
SignProposal(m) == /\ m.step = StepPropose
                   /\ Ask(m)
                   /\ \/ Refuse(m)
                      \/ Reuse(m)
                      \/ SignAndSave(m)
                      \/ SaveFails(m) /\ UNCHANGED up

\* The process dies between two requests.
Crash == /\ up
         /\ up' = FALSE
         /\ UNCHANGED <<mem, disk, asked, signed>>

\* The process dies inside nodus_cmt_write_file_atomic.
CrashInSave(m) == /\ Ask(m)
                  /\ CheckHRS(mem, m) = "sign"
                  /\ disk' \in {disk, Signed(m)}
                  /\ up' = FALSE
                  /\ UNCHANGED <<mem, signed>>

\* nodus_cmt_privval_open with load_state.
Restart == /\ ~up
           /\ up' = TRUE
           /\ mem' = disk
           /\ asked' = <<0, 0, StepNone>>
           /\ UNCHANGED <<disk, signed>>

Next == \/ \E m \in SignBytes : SignVote(m) \/ SignProposal(m) \/ CrashInSave(m)
        \/ Crash
        \/ Restart

Spec == Init /\ [][Next]_vars

-----------------------------------------------------------------------------
\* Every variable has its type; mem and disk are well-formed last-sign states.
TypeOK == /\ mem \in LastSign
          /\ disk \in LastSign
          /\ up \in BOOLEAN
          /\ asked \in (Heights \cup {0}) \X (Rounds \cup {0}) \X (StepNone..StepPrecommit)
          /\ signed \subseteq SignBytes

\* Across crashes, restarts, failed saves and replays with other contents, the
\* validator never hands out signatures on two different sign bytes for one
\* (height, round, step): not even two timestamps (cmt_pv_sign_vote,
\* cmt_pv_sign_proposal).
NoConflictingSignatures ==
    \A a, b \in signed : HRS(a) = HRS(b) => a = b

\* A signature that left the signer is covered by the file: what a restart
\* would load refuses or reproduces it.  This holds although
\* cmt_cs_default_decide_proposal goes on after a failed save.
DurableBeforeRelease ==
    \A m \in signed : Before(HRS(m), HRS(disk)) \/ disk = Signed(m)

\* A signature is never handed out for a (height, round, step) at or below one
\* that was handed out before, except the very same one again.
ReleasedInOrder ==
    [][\A m \in signed' \ signed : \A a \in signed : Before(HRS(a), HRS(m))]_vars

=============================================================================
