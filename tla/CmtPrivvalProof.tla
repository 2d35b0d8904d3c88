--------------------------- MODULE CmtPrivvalProof ---------------------------
(***************************************************************************)
(* Proofs about the private validator: no conflicting signatures, and a    *)
(* released signature is durable, for every set of heights, rounds, block  *)
(* identifiers and timestamps.                                             *)
(***************************************************************************)
EXTENDS CmtPrivval, TLAPS

\* A last-sign state is the reset one or the record of the sign bytes it holds.
WellFormed(lss) == lss = ResetLss \/ \E m \in SignBytes : lss = Signed(m)

\* What the signer holds in memory is never behind the file, and it is ahead of
\* the file only after a failed save, at the position asked for last.
MemCoversDisk ==
    up => \/ mem = disk
          \/ Before(HRS(disk), HRS(mem)) /\ ~Before(asked, HRS(mem))

\* The inductive invariant.
IInv == /\ TypeOK
        /\ WellFormed(mem)
        /\ WellFormed(disk)
        /\ MemCoversDisk
        /\ NoConflictingSignatures
        /\ DurableBeforeRelease

-----------------------------------------------------------------------------
\* Positions: triples of naturals.
Position == Nat \X Nat \X Nat

\* Sign bytes and last-sign states name naturals.
LEMMA SignBytesFields ==
    ASSUME NEW m \in SignBytes
    PROVE  /\ m.height \in Nat /\ m.height > 0
           /\ m.round \in Nat
           /\ m.step \in Nat /\ m.step > 0
<1>0. m.height \in Heights
  BY DEF SignBytes
<1>1. m.height \in Nat /\ m.height # 0
  BY <1>0, HeightsAssumption
<1>2. m.round \in Nat
  BY RoundsAssumption DEF SignBytes
<1>3. m.step \in Nat /\ m.step > 0
  BY DEF SignBytes, StepPropose, StepPrecommit
<1>4. m.height > 0
  BY <1>1
<1> QED BY <1>1, <1>2, <1>3, <1>4

\* The position of a message is a triple of naturals above the initial one.
LEMMA SignBytesPosition ==
    ASSUME NEW m \in SignBytes
    PROVE  HRS(m) \in Position /\ Before(<<0, 0, StepNone>>, HRS(m))
<1>1. HRS(m) \in Position
  BY SignBytesFields DEF HRS, Position
<1>2. Before(<<0, 0, StepNone>>, HRS(m))
  BY SignBytesFields DEF HRS, Before, StepNone
<1> QED BY <1>1, <1>2

\* Before is a strict total order on positions.
LEMMA BeforeOrder ==
    /\ \A a \in Position : ~Before(a, a)
    /\ \A a, b, c \in Position : Before(a, b) /\ Before(b, c) => Before(a, c)
    /\ \A a, b \in Position : Before(a, b) \/ a = b \/ Before(b, a)
  BY DEF Before, Position

\* Signed(m) is a last-sign state at m's position that holds m.
LEMMA SignedFacts ==
    ASSUME NEW m \in SignBytes
    PROVE  /\ Signed(m) \in LastSign
           /\ HRS(Signed(m)) = HRS(m)
           /\ Signed(m).bytes = m
           /\ WellFormed(Signed(m))
<1>1. Signed(m) \in LastSign
  BY DEF Signed, SignBytes, LastSign, StepNone, StepPropose, StepPrecommit
<1>2. HRS(Signed(m)) = HRS(m) /\ Signed(m).bytes = m
  BY DEF Signed, HRS
<1>3. WellFormed(Signed(m))
  BY DEF WellFormed
<1> QED BY <1>1, <1>2, <1>3

\* The reset state sits at the initial position.
LEMMA ResetFacts ==
    /\ ResetLss \in LastSign
    /\ HRS(ResetLss) = <<0, 0, StepNone>>
    /\ <<0, 0, StepNone>> \in Position
    /\ ResetLss.bytes = NoBytes
  BY DEF ResetLss, LastSign, HRS, Position, StepNone, StepPrecommit, NoBytes

\* A well-formed last-sign state sits at a position; if it is at the position
\* of a message, it was written for a message of that position.
LEMMA WellFormedFacts ==
    ASSUME NEW l, WellFormed(l)
    PROVE  /\ HRS(l) \in Position
           /\ \A m \in SignBytes : HRS(l) = HRS(m) =>
                 \E k \in SignBytes : l = Signed(k) /\ l.bytes = k /\ HRS(k) = HRS(m)
<1>1. CASE l = ResetLss
  BY <1>1, ResetFacts, SignBytesPosition, BeforeOrder
<1>2. CASE \E m \in SignBytes : l = Signed(m)
  BY <1>2, SignedFacts, SignBytesPosition
<1> QED BY <1>1, <1>2 DEF WellFormed

\* The three answers of cmt_lss_check_hrs, as positions.
LEMMA CheckHRSFacts ==
    ASSUME NEW l, WellFormed(l), NEW m \in SignBytes
    PROVE  /\ CheckHRS(l, m) = "sign" => Before(HRS(l), HRS(m))
           /\ CheckHRS(l, m) = "same" => HRS(m) = HRS(l)
<1>1. HRS(l) \in Position /\ HRS(m) \in Position
  BY WellFormedFacts, SignBytesPosition
<1>2. Before(HRS(l), HRS(m)) \/ HRS(l) = HRS(m) \/ Before(HRS(m), HRS(l))
  BY <1>1, BeforeOrder
<1> QED BY <1>2 DEF CheckHRS

\* Whatever a request does to the signer's state, the new state is well formed.
LEMMA TypesOfASignedState ==
    ASSUME NEW m \in SignBytes
    PROVE  HRS(m) \in (Heights \cup {0}) \X (Rounds \cup {0}) \X (StepNone..StepPrecommit)
  BY DEF HRS, SignBytes, StepNone, StepPropose, StepPrecommit

\* A process that has asked for nothing yet.
LEMMA NothingAsked ==
    <<0, 0, StepNone>> \in (Heights \cup {0}) \X (Rounds \cup {0}) \X (StepNone..StepPrecommit)
<1>1. StepNone \in StepNone..StepPrecommit
  BY DEF StepNone, StepPrecommit
<1> QED BY <1>1

\* The request the state machine made last is a position.
LEMMA AskedPosition ==
    ASSUME TypeOK
    PROVE  asked \in Position
<1>1. Heights \cup {0} \subseteq Nat
  BY HeightsAssumption
<1>2. Rounds \cup {0} \subseteq Nat
  BY RoundsAssumption
<1>3. StepNone..StepPrecommit \subseteq Nat
  BY DEF StepNone, StepPrecommit
<1> QED BY <1>1, <1>2, <1>3 DEF TypeOK, Position

-----------------------------------------------------------------------------
\* The four outcomes of a request and a crash inside the save preserve IInv.
LEMMA RefuseStep ==
    ASSUME IInv, NEW m \in SignBytes, Ask(m), Refuse(m)
    PROVE  IInv'
<1> USE DEF IInv
<1>1. TypeOK'
  BY TypesOfASignedState DEF Ask, Refuse, TypeOK
<1>2. WellFormed(mem)' /\ WellFormed(disk)'
  BY DEF Refuse, WellFormed
<1>3. MemCoversDisk'
  <2>1. HRS(mem) \in Position /\ HRS(m) \in Position /\ asked \in Position
    BY WellFormedFacts, SignBytesPosition, AskedPosition
  <2>2. ~Before(asked, HRS(mem)) => ~Before(HRS(m), HRS(mem))
    BY <2>1, BeforeOrder DEF Ask
  <2> QED BY <2>2 DEF MemCoversDisk, Ask, Refuse
<1>4. NoConflictingSignatures' /\ DurableBeforeRelease'
  BY DEF Refuse, NoConflictingSignatures, DurableBeforeRelease
<1> QED BY <1>1, <1>2, <1>3, <1>4

LEMMA ReuseStep ==
    ASSUME IInv, NEW m \in SignBytes, Ask(m), Reuse(m)
    PROVE  IInv'
<1> USE DEF IInv
<1>0. PICK k \in SignBytes : mem = Signed(k) /\ mem.bytes = k /\ HRS(k) = HRS(m)
  BY CheckHRSFacts, WellFormedFacts DEF Reuse
<1>1. HRS(mem) = HRS(m) /\ signed' = signed \cup {k}
  BY <1>0, CheckHRSFacts DEF Reuse
<1>2. mem = disk
  BY <1>1 DEF MemCoversDisk, Ask
<1>3. TypeOK'
  BY <1>1, TypesOfASignedState DEF Ask, Reuse, TypeOK
<1>4. WellFormed(mem)' /\ WellFormed(disk)' /\ MemCoversDisk'
  BY <1>2 DEF Reuse, WellFormed, MemCoversDisk
<1>5. DurableBeforeRelease'
  BY <1>0, <1>1, <1>2 DEF Reuse, DurableBeforeRelease
<1>6. NoConflictingSignatures'
  <2>1. \A a \in signed : HRS(a) = HRS(k) => a = k
    <3> SUFFICES ASSUME NEW a \in signed, HRS(a) = HRS(k) PROVE a = k
      OBVIOUS
    <3>1. a \in SignBytes
      BY DEF TypeOK
    <3>2. ~Before(HRS(a), HRS(disk))
      BY <1>0, <1>1, <1>2, <3>1, SignBytesPosition, BeforeOrder
    <3>3. disk = Signed(a)
      BY <3>2 DEF DurableBeforeRelease
    <3> QED BY <1>0, <1>2, <3>1, <3>3, SignedFacts
  <2> QED BY <1>1, <2>1 DEF NoConflictingSignatures
<1> QED BY <1>3, <1>4, <1>5, <1>6

\* When a request is to be signed, everything released and stored is below it.
LEMMA SignIsAhead ==
    ASSUME IInv, up, NEW m \in SignBytes, CheckHRS(mem, m) = "sign"
    PROVE  /\ Before(HRS(disk), HRS(m))
           /\ \A a \in signed : Before(HRS(a), HRS(m))
<1>1. /\ HRS(mem) \in Position /\ HRS(disk) \in Position /\ HRS(m) \in Position
      /\ \A a \in signed : HRS(a) \in Position /\ HRS(Signed(a)) = HRS(a)
  BY WellFormedFacts, SignBytesPosition, SignedFacts DEF IInv, TypeOK
<1>2. Before(HRS(mem), HRS(m))
  BY CheckHRSFacts DEF IInv
<1>3. Before(HRS(disk), HRS(m))
  BY <1>1, <1>2, BeforeOrder DEF IInv, MemCoversDisk
<1>4. \A a \in signed : Before(HRS(a), HRS(m))
  BY <1>1, <1>3, BeforeOrder DEF IInv, DurableBeforeRelease
<1> QED BY <1>3, <1>4

LEMMA SignAndSaveStep ==
    ASSUME IInv, NEW m \in SignBytes, Ask(m), SignAndSave(m)
    PROVE  IInv'
<1>1. Before(HRS(disk), HRS(m)) /\ \A a \in signed : Before(HRS(a), HRS(m))
  BY SignIsAhead DEF Ask, SignAndSave
<1>2. TypeOK'
  BY TypesOfASignedState, SignedFacts DEF IInv, Ask, SignAndSave, TypeOK
<1>3. WellFormed(mem)' /\ WellFormed(disk)' /\ MemCoversDisk'
  BY DEF SignAndSave, WellFormed, MemCoversDisk
<1>4. DurableBeforeRelease'
  BY <1>1, SignedFacts DEF SignAndSave, DurableBeforeRelease
<1>5. NoConflictingSignatures'
  <2>1. \A a \in signed : HRS(a) # HRS(m)
    BY <1>1, SignBytesPosition, BeforeOrder
  <2> QED BY <2>1 DEF IInv, SignAndSave, NoConflictingSignatures
<1> QED BY <1>2, <1>3, <1>4, <1>5 DEF IInv

\* A failed save and a crash inside the save leave the old file or the new one;
\* nothing is released.
LEMMA NewFileKeepsDurability ==
    ASSUME IInv, up, NEW m \in SignBytes, CheckHRS(mem, m) = "sign",
           disk' \in {disk, Signed(m)}, UNCHANGED signed
    PROVE  WellFormed(disk)' /\ disk' \in LastSign /\ DurableBeforeRelease' /\ NoConflictingSignatures'
<1>1. \A a \in signed : Before(HRS(a), HRS(m))
  BY SignIsAhead
<1>2. WellFormed(disk)' /\ disk' \in LastSign
  BY SignedFacts DEF IInv, TypeOK, WellFormed
<1>3. DurableBeforeRelease'
  BY <1>1, SignedFacts DEF IInv, DurableBeforeRelease
<1>4. NoConflictingSignatures'
  BY DEF IInv, NoConflictingSignatures
<1> QED BY <1>2, <1>3, <1>4

LEMMA SaveFailsStep ==
    ASSUME IInv, NEW m \in SignBytes, Ask(m), SaveFails(m), up' \in BOOLEAN
    PROVE  IInv'
<1>1. WellFormed(disk)' /\ disk' \in LastSign /\ DurableBeforeRelease' /\ NoConflictingSignatures'
  BY NewFileKeepsDurability DEF Ask, SaveFails
<1>2. TypeOK'
  BY <1>1, TypesOfASignedState, SignedFacts DEF IInv, Ask, SaveFails, TypeOK
<1>3. WellFormed(mem)'
  BY DEF SaveFails, WellFormed
<1>4. MemCoversDisk'
  <2>1. Before(HRS(disk), HRS(m))
    BY SignIsAhead DEF Ask, SaveFails
  <2>2. ~Before(HRS(m), HRS(m))
    BY SignBytesPosition, BeforeOrder
  <2>3. HRS(Signed(m)) = HRS(m)
    BY SignedFacts
  <2> QED BY <2>1, <2>2, <2>3 DEF Ask, SaveFails, MemCoversDisk
<1> QED BY <1>1, <1>2, <1>3, <1>4 DEF IInv

LEMMA CrashInSaveStep ==
    ASSUME IInv, NEW m \in SignBytes, CrashInSave(m)
    PROVE  IInv'
<1>1. WellFormed(disk)' /\ disk' \in LastSign /\ DurableBeforeRelease' /\ NoConflictingSignatures'
  BY NewFileKeepsDurability DEF Ask, CrashInSave
<1>2. TypeOK'
  BY <1>1, TypesOfASignedState DEF IInv, Ask, CrashInSave, TypeOK
<1>3. WellFormed(mem)' /\ MemCoversDisk'
  BY DEF IInv, CrashInSave, WellFormed, MemCoversDisk
<1> QED BY <1>1, <1>2, <1>3 DEF IInv

-----------------------------------------------------------------------------
\* The initial state satisfies the invariant.
LEMMA InitInvariant == Init => IInv
<1> SUFFICES ASSUME Init PROVE IInv
  OBVIOUS
<1>1. TypeOK
  BY ResetFacts, NothingAsked DEF Init, TypeOK
<1> QED BY <1>1 DEF Init, IInv, WellFormed, MemCoversDisk, NoConflictingSignatures,
                    DurableBeforeRelease

\* Every step preserves the invariant.
LEMMA NextInvariant == IInv /\ [Next]_vars => IInv'
<1> SUFFICES ASSUME IInv, [Next]_vars PROVE IInv'
  OBVIOUS
<1>1. ASSUME NEW m \in SignBytes, SignVote(m) PROVE IInv'
  BY <1>1, RefuseStep, ReuseStep, SignAndSaveStep, SaveFailsStep DEF SignVote
<1>2. ASSUME NEW m \in SignBytes, SignProposal(m) PROVE IInv'
  <2>1. up' = up => up' \in BOOLEAN
    BY DEF IInv, TypeOK
  <2> QED BY <1>2, <2>1, RefuseStep, ReuseStep, SignAndSaveStep, SaveFailsStep DEF SignProposal
<1>3. ASSUME NEW m \in SignBytes, CrashInSave(m) PROVE IInv'
  BY <1>3, CrashInSaveStep
<1>4. CASE Crash
  BY <1>4 DEF Crash, IInv, TypeOK, WellFormed, MemCoversDisk, NoConflictingSignatures,
              DurableBeforeRelease
<1>5. CASE Restart
  <2>1. TypeOK'
    BY <1>5, NothingAsked DEF Restart, IInv, TypeOK
  <2> QED BY <1>5, <2>1 DEF Restart, IInv, WellFormed, MemCoversDisk,
                            NoConflictingSignatures, DurableBeforeRelease
<1>6. CASE UNCHANGED vars
  BY <1>6 DEF vars, IInv, TypeOK, WellFormed, MemCoversDisk, NoConflictingSignatures,
              DurableBeforeRelease
<1> QED BY <1>1, <1>2, <1>3, <1>4, <1>5, <1>6 DEF Next

\* The inductive invariant holds in every reachable state.
THEOREM Invariance == Spec => []IInv
  BY InitInvariant, NextInvariant, PTL DEF Spec

\* cmt_pv_sign_vote and cmt_pv_sign_proposal never release two different
\* signatures for one (height, round, step), across crashes and failed saves.
THEOREM NeverConflicting == Spec => []NoConflictingSignatures
<1>1. IInv => NoConflictingSignatures
  BY DEF IInv
<1> QED BY <1>1, Invariance, PTL

\* Every released signature is covered by the last-sign-state file.
THEOREM AlwaysDurable == Spec => []DurableBeforeRelease
<1>1. IInv => DurableBeforeRelease
  BY DEF IInv
<1> QED BY <1>1, Invariance, PTL

\* New signatures are released in strictly increasing (height, round, step).
THEOREM InOrder == Spec => ReleasedInOrder
<1>1. IInv /\ [Next]_vars =>
        [\A m \in signed' \ signed : \A a \in signed : Before(HRS(a), HRS(m))]_vars
  <2> SUFFICES ASSUME IInv, Next, NEW m \in signed' \ signed, NEW a \in signed
               PROVE  Before(HRS(a), HRS(m))
    BY DEF vars
  <2>1. ASSUME NEW n \in SignBytes, Ask(n), SignAndSave(n)
        PROVE  Before(HRS(a), HRS(m))
    <3>1. m = n
      BY <2>1 DEF SignAndSave
    <3> QED BY <2>1, <3>1, SignIsAhead DEF Ask, SignAndSave
  <2>2. ASSUME NEW n \in SignBytes, Ask(n), Reuse(n)
        PROVE  Before(HRS(a), HRS(m))
    <3>1. PICK k \in SignBytes : mem = Signed(k) /\ mem.bytes = k /\ HRS(k) = HRS(n)
      BY <2>2, CheckHRSFacts, WellFormedFacts DEF Reuse, IInv
    <3>2. m = k /\ HRS(mem) = HRS(k)
      BY <2>2, <3>1, SignedFacts DEF Reuse
    <3>3. mem = disk
      BY <2>2, <3>1, <3>2 DEF IInv, MemCoversDisk, Ask
    <3>4. disk # Signed(a)
      BY <3>1, <3>2, <3>3, SignedFacts DEF IInv, TypeOK
    <3> QED BY <3>2, <3>3, <3>4 DEF IInv, DurableBeforeRelease
  <2>3. ASSUME NEW n \in SignBytes, SignVote(n) \/ SignProposal(n)
        PROVE  Before(HRS(a), HRS(m))
    BY <2>1, <2>2, <2>3 DEF SignVote, SignProposal, Refuse, SaveFails
  <2> QED BY <2>3 DEF Next, CrashInSave, Crash, Restart
<1> QED BY <1>1, Invariance, PTL DEF ReleasedInOrder, Spec

=============================================================================
