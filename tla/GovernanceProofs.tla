-------------------------- MODULE GovernanceProofs --------------------------
(***************************************************************************)
(* Proofs about Governance for every value of the constants: the type     *)
(* invariant, and that the slots of every vote record agree with the      *)
(* status of its peer (SlotsMatchStatus), which is what keeps the checks  *)
(* of the four commit helpers from ever failing, and that a blacklisted   *)
(* key still in the pool is Black.                                        *)
(***************************************************************************)
EXTENDS Governance, FiniteSetTheorems, TLAPS

USE ConstantsAssumption

-----------------------------------------------------------------------------
(* Lemmas about the record helpers                                          *)

\* uint64 arithmetic stays in range.
LEMMA U64Type ==
    ASSUME NEW x \in Int
    PROVE  U64(x) \in 0..(Word - 1)
BY DEF U64

\* The fields of a stored GlobalParam.
LEMMA GlobalParamFields ==
    ASSUME NEW g \in GlobalParamType
    PROVE  /\ g.penalty \in 0..100
           /\ g.posLimit \in Nat /\ g.candidateNum \in Nat /\ g.minInitStake \in Nat
BY DEF GlobalParamType

\* Penalty percent of x, rounded up, is at most x.
LEMMA PenaltyArith ==
    ASSUME NEW x \in Nat, NEW pen \in 0..100
    PROVE  (pen * x + 99) \div 100 \in 0..x
BY Z3

\* The penalty of blackQuit never exceeds the locked stake it is taken from.
LEMMA PenaltyBound ==
    ASSUME NEW r \in VoteInfo, globalParam.penalty \in 0..100
    PROVE  /\ Locked(r) \in Nat
           /\ PenaltyOf(r) \in 0..Locked(r)
<1>1. Locked(r) \in Nat
  BY DEF VoteInfo, Locked, Active
<1>2. PenaltyOf(r) \in 0..Locked(r)
  BY <1>1, PenaltyArith DEF PenaltyOf
<1>. QED  BY <1>1, <1>2

\* Each status helper and settlement routine maps a record to a record.
LEMMA HelpersType ==
    ASSUME NEW r \in VoteInfo, NEW n \in Nat, globalParam.penalty \in 0..100
    PROVE  /\ ShiftWithdraw(r) \in VoteInfo
           /\ ConsensusToConsensus(r) \in VoteInfo
           /\ UnConsensusToConsensus(r) \in VoteInfo
           /\ ConsensusToUnConsensus(r) \in VoteInfo
           /\ UnConsensusToUnConsensus(r) \in VoteInfo
           /\ NormalQuit(r, n) \in VoteInfo
           /\ BlackQuit(r) \in VoteInfo
<1>1. /\ r.withdrawUnfreezePos + r.withdrawFreezePos \in Nat
      /\ r.consensusPos + r.newPos \in Nat
      /\ r.consensusPos + r.freezePos + r.newPos \in Nat
      /\ r.newPos + r.freezePos \in Nat
      /\ Locked(r) + r.withdrawUnfreezePos + n \in Nat
      /\ Locked(r) - PenaltyOf(r) + r.withdrawUnfreezePos \in Nat
  BY PenaltyBound DEF VoteInfo
<1>2. ShiftWithdraw(r) \in VoteInfo
  BY <1>1 DEF ShiftWithdraw, VoteInfo
<1>3. NormalQuit(r, n) \in VoteInfo
  BY <1>1 DEF NormalQuit, NoVote, VoteInfo
<1>4. BlackQuit(r) \in VoteInfo
  BY <1>1 DEF BlackQuit, NoVote, VoteInfo
<1>5. ConsensusToConsensus(r) \in VoteInfo
  BY <1>1 DEF ConsensusToConsensus, ShiftWithdraw, VoteInfo
<1>6. UnConsensusToConsensus(r) \in VoteInfo
  BY <1>1 DEF UnConsensusToConsensus, ShiftWithdraw, VoteInfo
<1>7. ConsensusToUnConsensus(r) \in VoteInfo
  BY <1>1 DEF ConsensusToUnConsensus, ShiftWithdraw, VoteInfo
<1>8. UnConsensusToUnConsensus(r) \in VoteInfo
  BY <1>1 DEF UnConsensusToUnConsensus, ShiftWithdraw, VoteInfo
<1>. QED  BY <1>2, <1>3, <1>4, <1>5, <1>6, <1>7, <1>8

\* The two shapes of the record unVoteForPeer writes when pos exceeds NewPos.
LEMMA UnVoteShapes ==
    ASSUME NEW r \in VoteInfo, NEW x \in Nat, NEW y \in Nat, NEW z \in Nat
    PROVE  /\ [r EXCEPT !.consensusPos = x, !.newPos = 0, !.withdrawUnfreezePos = y,
                        !.withdrawPos = z] \in VoteInfo
           /\ [r EXCEPT !.freezePos = x, !.newPos = 0, !.withdrawUnfreezePos = y,
                        !.withdrawFreezePos = z] \in VoteInfo
BY DEF VoteInfo

\* unVoteForPeer's record stays a record when its "not enough" check passes.
LEMMA UnVoteType ==
    ASSUME NEW r \in VoteInfo, NEW st, NEW pos \in Nat, UnVoteAllowed(r, st, pos)
    PROVE  UnVoteRecord(r, st, pos) \in VoteInfo
<1>1. CASE r.newPos >= pos
  <2>1. /\ r.newPos - pos \in Nat
        /\ r.withdrawUnfreezePos + pos \in Nat
    BY <1>1 DEF VoteInfo
  <2>. QED  BY <1>1, <2>1 DEF UnVoteRecord, VoteInfo
<1>2. CASE r.newPos < pos /\ st = "Consensus"
  <2>1. /\ r.consensusPos + r.newPos - pos \in Nat
        /\ r.withdrawUnfreezePos + r.newPos \in Nat
        /\ r.withdrawPos + pos \in Nat
    BY <1>2 DEF UnVoteAllowed, VoteInfo
  <2>2. UnVoteRecord(r, st, pos) =
          [r EXCEPT !.consensusPos = r.consensusPos + r.newPos - pos, !.newPos = 0,
                    !.withdrawUnfreezePos = @ + r.newPos, !.withdrawPos = @ + pos]
    BY <1>2 DEF UnVoteRecord, VoteInfo
  <2>3. [r EXCEPT !.consensusPos = r.consensusPos + r.newPos - pos, !.newPos = 0,
                  !.withdrawUnfreezePos = @ + r.newPos, !.withdrawPos = @ + pos] \in VoteInfo
    BY <2>1, UnVoteShapes
  <2>. QED  BY <2>2, <2>3
<1>3. CASE r.newPos < pos /\ st # "Consensus"
  <2>1. /\ r.freezePos + r.newPos - pos \in Nat
        /\ r.withdrawUnfreezePos + r.newPos \in Nat
        /\ r.withdrawFreezePos + pos \in Nat
    BY <1>3 DEF UnVoteAllowed, VoteInfo
  <2>2. UnVoteRecord(r, st, pos) =
          [r EXCEPT !.freezePos = r.freezePos + r.newPos - pos, !.newPos = 0,
                    !.withdrawUnfreezePos = @ + r.newPos, !.withdrawFreezePos = @ + pos]
    BY <1>3 DEF UnVoteRecord, VoteInfo
  <2>3. [r EXCEPT !.freezePos = r.freezePos + r.newPos - pos, !.newPos = 0,
                  !.withdrawUnfreezePos = @ + r.newPos, !.withdrawFreezePos = @ + pos] \in VoteInfo
    BY <2>1, UnVoteShapes
  <2>. QED  BY <2>2, <2>3
<1>. QED  BY <1>1, <1>2, <1>3 DEF VoteInfo

\* Every record a commit writes is a record.
LEMMA CommitVoteType ==
    ASSUME NEW pl, pl \in [DOMAIN pl -> PeerPoolItem],
           voteInfo \in [Peers -> [Addrs -> VoteInfo]], globalParam.penalty \in 0..100,
           NEW p \in Peers, NEW a \in Addrs
    PROVE  CommitVote(pl, p, a) \in VoteInfo
<1>. DEFINE r == voteInfo[p][a]
<1>1. r \in VoteInfo  OBVIOUS
<1>2. p \in DOMAIN pl => pl[p].initPos \in Nat
  BY DEF PeerPoolItem
<1>. QED  BY <1>1, <1>2, HelpersType DEF CommitVote

\* The peers of a pool, and its Candidate/Consensus peers, are counted by a natural.
LEMMA PoolCount ==
    ASSUME NEW pl, DOMAIN pl \subseteq Peers
    PROVE  /\ Cardinality(DOMAIN pl) \in Nat
           /\ Cardinality(Eligible(pl)) \in Nat
<1>1. IsFiniteSet(DOMAIN pl) /\ IsFiniteSet(Eligible(pl))
  BY FS_Subset DEF Eligible, WithStatus
<1>. QED  BY <1>1, FS_CardinalityType

\* The state a commit leaves is well typed.
LEMMA CommitType ==
    ASSUME TypeOK, NEW pl, DOMAIN pl \subseteq Peers, pl \in [DOMAIN pl -> PeerPoolItem],
           ExecuteCommitDpos(pl)
    PROVE  /\ DOMAIN peerPool' \subseteq Peers
           /\ peerPool' \in [DOMAIN peerPool' -> PeerPoolItem]
           /\ voteInfo' \in [Peers -> [Addrs -> VoteInfo]]
           /\ totalStake' \in [Addrs -> Nat]
           /\ penaltyStake' \in [Peers -> PenaltyStake]
           /\ view' \in Nat /\ viewHeight' \in Nat
           /\ confK' \in Nat \ {0} /\ prevEligible' \in Nat
           /\ globalParam' = globalParam
<1>1. \A p \in DOMAIN pl : NewStatus(pl, p) \in Status
  BY DEF NewStatus, PeerPoolItem, Status
<1>2. /\ DOMAIN peerPool' \subseteq Peers
      /\ peerPool' \in [DOMAIN peerPool' -> PeerPoolItem]
  BY <1>1 DEF ExecuteCommitDpos, PeerPoolItem
<1>3. voteInfo' \in [Peers -> [Addrs -> VoteInfo]]
  BY CommitVoteType, GlobalParamFields DEF ExecuteCommitDpos, TypeOK
<1>4. totalStake' \in [Addrs -> Nat]
  BY DEF ExecuteCommitDpos
<1>5. penaltyStake' \in [Peers -> PenaltyStake]
  BY DEF ExecuteCommitDpos
<1>6. view' \in Nat /\ viewHeight' \in Nat
  BY DEF ExecuteCommitDpos, TypeOK
<1>7. confK' \in Nat \ {0} /\ prevEligible' \in Nat
  BY PoolCount DEF ExecuteCommitDpos, TypeOK
<1>8. globalParam' = globalParam
  BY DEF ExecuteCommitDpos
<1>. QED  BY <1>2, <1>3, <1>4, <1>5, <1>6, <1>7, <1>8

\* Writing one well-typed record back keeps the vote pool and the peer pool typed.
LEMMA VoteInfoUpdate ==
    ASSUME NEW vi \in [Peers -> [Addrs -> VoteInfo]], NEW p \in Peers, NEW a \in Addrs,
           NEW r \in VoteInfo
    PROVE  [vi EXCEPT ![p][a] = r] \in [Peers -> [Addrs -> VoteInfo]]
OBVIOUS

\* A value of 0..n is a natural.
LEMMA RangeNat == \A n \in Nat : \A y \in 0..n : y \in Nat
OBVIOUS

\* Setting the status or the TotalPos of a pool item keeps it a pool item.
LEMMA ItemShape ==
    ASSUME NEW it \in PeerPoolItem, NEW st \in Status
    PROVE  [it EXCEPT !.status = st] \in PeerPoolItem
BY DEF PeerPoolItem

LEMMA ItemTotalShape ==
    ASSUME NEW it \in PeerPoolItem, NEW t \in Nat
    PROVE  [it EXCEPT !.totalPos = t] \in PeerPoolItem
BY DEF PeerPoolItem

LEMMA PeerPoolUpdate ==
    ASSUME NEW pl, pl \in [DOMAIN pl -> PeerPoolItem], NEW p \in DOMAIN pl,
           NEW it \in PeerPoolItem
    PROVE  /\ DOMAIN [pl EXCEPT ![p] = it] = DOMAIN pl
           /\ [pl EXCEPT ![p] = it] \in [DOMAIN pl -> PeerPoolItem]
OBVIOUS

-----------------------------------------------------------------------------
(* Type correctness                                                         *)

LEMMA TypeInit == Init => TypeOK
<1>1. Cardinality(DOMAIN InitPool) \in Nat
  <2>1. DOMAIN InitPool \subseteq Peers  BY DEF InitPool
  <2>. QED  BY <2>1, PoolCount
<1>. QED
BY <1>1, InitStakeAssumption DEF InitPool, Init, TypeOK, PeerPoolItem, Status, VoteInfo, NoVote,
   PenaltyStake, NoPenalty, InitGlobalParam, GlobalParamType

LEMMA TypeStep == TypeOK /\ [Next]_vars => TypeOK'
  <2> SUFFICES ASSUME TypeOK, [Next]_vars PROVE TypeOK'
    OBVIOUS
  <2>1. ASSUME NEW p \in Peers, NEW a \in Addrs, NEW n \in Amounts,
               RegisterCandidate(p, a, n)
        PROVE  TypeOK'
    BY <2>1 DEF RegisterCandidate, TypeOK, PeerPoolItem, Status
  <2>2. ASSUME NEW p \in Peers, UnRegisterCandidate(p) PROVE TypeOK'
    BY <2>2 DEF UnRegisterCandidate, TypeOK, PeerPoolItem, Status, NoVote, VoteInfo
  <2>3. ASSUME NEW p \in Peers, ApproveCandidate(p) PROVE TypeOK'
    BY <2>3 DEF ApproveCandidate, TypeOK, PeerPoolItem, Status
  <2>4. ASSUME NEW p \in Peers, RejectCandidate(p) PROVE TypeOK'
    BY <2>4 DEF RejectCandidate, TypeOK, PeerPoolItem, Status
  <2>5. ASSUME NEW p \in Peers, WhiteNode(p) PROVE TypeOK'
    BY <2>5 DEF WhiteNode, TypeOK
  <2>6. ASSUME NEW p \in Peers, QuitNode(p) PROVE TypeOK'
    <3>1. p \in DOMAIN peerPool  BY <2>6 DEF QuitNode
    <3>2. [peerPool[p] EXCEPT !.status = IF @ = "Consensus" THEN "QuitConsensus" ELSE "Quiting"]
            \in PeerPoolItem
      <4>1. peerPool[p] \in PeerPoolItem  BY <3>1 DEF TypeOK
      <4>2. (IF peerPool[p].status = "Consensus" THEN "QuitConsensus" ELSE "Quiting") \in Status
        BY DEF Status
      <4>. QED  BY <4>1, <4>2, ItemShape
    <3>3. DOMAIN peerPool' = DOMAIN peerPool /\ peerPool' \in [DOMAIN peerPool -> PeerPoolItem]
      BY <2>6, <3>1, <3>2, PeerPoolUpdate DEF QuitNode, TypeOK
    <3>. QED  BY <2>6, <3>3 DEF QuitNode, TypeOK
  <2>7. ASSUME NEW p \in Peers, CheckVoteInfo(p) PROVE TypeOK'
    <3>1. p \in DOMAIN peerPool  BY <2>7 DEF CheckVoteInfo
    <3>2. globalParam.posLimit * peerPool[p].initPos \in Nat
      BY <3>1, GlobalParamFields DEF TypeOK, PeerPoolItem
    <3>3. PICK t \in Nat : peerPool' = [peerPool EXCEPT ![p].totalPos = t]
      BY <2>7, <3>2, RangeNat, Zenon DEF CheckVoteInfo
    <3>4. [peerPool[p] EXCEPT !.totalPos = t] \in PeerPoolItem
      <4>1. peerPool[p] \in PeerPoolItem  BY <3>1 DEF TypeOK
      <4>. QED  BY <4>1, ItemTotalShape
    <3>5. DOMAIN peerPool' = DOMAIN peerPool /\ peerPool' \in [DOMAIN peerPool -> PeerPoolItem]
      BY <3>1, <3>3, <3>4, PeerPoolUpdate DEF TypeOK
    <3>. QED  BY <2>7, <3>5 DEF CheckVoteInfo, TypeOK
  <2>8. ASSUME NEW S \in SUBSET Peers, BlackNode(S) PROVE TypeOK'
    <3> DEFINE pl == [q \in DOMAIN peerPool |->
                        IF q \in S THEN [peerPool[q] EXCEPT !.status = "Black"] ELSE peerPool[q]]
    <3>1. DOMAIN pl \subseteq Peers /\ pl \in [DOMAIN pl -> PeerPoolItem]
      BY DEF TypeOK, PeerPoolItem, Status
    <3>2. blackList' \subseteq Peers
      BY <2>8 DEF BlackNode, TypeOK
    <3>3. CASE ExecuteCommitDpos(pl) /\ UNCHANGED <<zptBalance, height>>
      BY <3>1, <3>2, <3>3, CommitType DEF TypeOK
    <3>4. CASE peerPool' = pl
               /\ UNCHANGED <<voteInfo, totalStake, penaltyStake, zptBalance, view, viewHeight, height,
                              confK, prevEligible, globalParam>>
      BY <3>1, <3>2, <3>4 DEF TypeOK
    <3>. QED  BY <2>8, <3>3, <3>4 DEF BlackNode
  <2>9. ASSUME NEW a \in Addrs, NEW p \in Peers, NEW n \in Amounts, VoteForPeer(a, p, n)
        PROVE  TypeOK'
    <3>1. p \in DOMAIN peerPool  BY <2>9 DEF VoteForPeer
    <3>2. [voteInfo[p][a] EXCEPT !.newPos = @ + n] \in VoteInfo
      <4>1. voteInfo[p][a] \in VoteInfo /\ voteInfo[p][a].newPos + n \in Nat
        BY DEF TypeOK, VoteInfo
      <4>. QED  BY <4>1 DEF VoteInfo
    <3>3. voteInfo' \in [Peers -> [Addrs -> VoteInfo]]
      BY <2>9, <3>2, VoteInfoUpdate DEF VoteForPeer, TypeOK
    <3>4. [peerPool[p] EXCEPT !.totalPos = U64(@ + n)] \in PeerPoolItem
      BY <3>1, U64Type DEF TypeOK, PeerPoolItem
    <3>5. DOMAIN peerPool' = DOMAIN peerPool /\ peerPool' \in [DOMAIN peerPool -> PeerPoolItem]
      BY <2>9, <3>1, <3>4, PeerPoolUpdate DEF VoteForPeer, TypeOK
    <3>. QED  BY <2>9, <3>3, <3>5 DEF VoteForPeer, TypeOK
  <2>10. ASSUME NEW a \in Addrs, NEW p \in Peers, NEW n \in Amounts, UnVoteForPeer(a, p, n)
         PROVE  TypeOK'
    <3>1. p \in DOMAIN peerPool  BY <2>10 DEF UnVoteForPeer
    <3>2. UnVoteRecord(voteInfo[p][a], peerPool[p].status, n) \in VoteInfo
      BY <2>10, UnVoteType DEF UnVoteForPeer, TypeOK
    <3>3. voteInfo' \in [Peers -> [Addrs -> VoteInfo]]
      BY <2>10, <3>2, VoteInfoUpdate DEF UnVoteForPeer, TypeOK
    <3>4. [peerPool[p] EXCEPT !.totalPos = U64(@ - n)] \in PeerPoolItem
      BY <3>1, U64Type DEF TypeOK, PeerPoolItem
    <3>5. DOMAIN peerPool' = DOMAIN peerPool /\ peerPool' \in [DOMAIN peerPool -> PeerPoolItem]
      BY <2>10, <3>1, <3>4, PeerPoolUpdate DEF UnVoteForPeer, TypeOK
    <3>. QED  BY <2>10, <3>3, <3>5 DEF UnVoteForPeer, TypeOK
  <2>11. ASSUME NEW a \in Addrs, NEW p \in Peers, NEW n \in Amounts, Withdraw(a, p, n)
         PROVE  TypeOK'
    <3>1. [voteInfo[p][a] EXCEPT !.withdrawUnfreezePos = @ - n] \in VoteInfo
      <4>1. voteInfo[p][a] \in VoteInfo /\ voteInfo[p][a].withdrawUnfreezePos - n \in Nat
        BY <2>11 DEF Withdraw, TypeOK, VoteInfo
      <4>. QED  BY <4>1 DEF VoteInfo
    <3>2. voteInfo' \in [Peers -> [Addrs -> VoteInfo]]
      BY <2>11, <3>1, VoteInfoUpdate DEF Withdraw, TypeOK
    <3>. QED  BY <2>11, <3>2 DEF Withdraw, TypeOK
  <2>12. CASE CommitDpos
    BY <2>12, CommitType DEF CommitDpos, TypeOK
  <2>13. ASSUME NEW p \in Peers, NEW a \in Addrs, TransferPenalty(p, a) PROVE TypeOK'
    BY <2>13 DEF TransferPenalty, TypeOK, PenaltyStake, NoPenalty
  <2>14. CASE NewBlock
    BY <2>14 DEF NewBlock, TypeOK
  <2>15. CASE UNCHANGED vars
    BY <2>15 DEF vars, TypeOK
  <2>16. ASSUME NEW k \in KRange, UpdateConfig(k) PROVE TypeOK'
    BY <2>16 DEF UpdateConfig, TypeOK
  <2>17. ASSUME NEW g \in GlobalParamInputs, UpdateGlobalParam(g) PROVE TypeOK'
    <3>1. g \in GlobalParamType
      BY <2>17 DEF UpdateGlobalParam, GlobalParamType
    <3>. QED  BY <2>17, <3>1 DEF UpdateGlobalParam, TypeOK
  <2>. QED
    BY <2>1, <2>2, <2>3, <2>4, <2>5, <2>6, <2>7, <2>8, <2>9, <2>10, <2>11, <2>12,
       <2>13, <2>14, <2>15, <2>16, <2>17 DEF Next

\* Every handler, the commit included, leaves every variable well typed:
\* no pool item, vote record, stake or penalty ever holds a negative amount.
THEOREM TypeCorrect == Spec => []TypeOK
BY TypeInit, TypeStep, PTL DEF Spec

-----------------------------------------------------------------------------
(* The slots of every vote record agree with the status of its peer         *)

\* SlotsMatchStatus for a given pool and vote pool.
SlotsOf(pl, vi) ==
    \A p \in Peers, a \in Addrs :
        LET r == vi[p][a] IN
        /\ p \notin DOMAIN pl =>
              r.consensusPos + r.freezePos + r.newPos + r.withdrawPos + r.withdrawFreezePos = 0
        /\ p \in WithStatus(pl, {"RegisterCandidate", "Candidate"}) => r.consensusPos = 0
        /\ p \in WithStatus(pl, {"RegisterCandidate", "Consensus", "QuitConsensus"}) => r.freezePos = 0

\* The commit, run on a pool whose records match it, leaves records that
\* match the pool it writes: settled peers hold only withdrawable stake,
\* elected peers no FreezePos, the others no ConsensusPos.
LEMMA CommitSlots ==
    ASSUME TypeOK, NEW pl, DOMAIN pl \subseteq Peers, pl \in [DOMAIN pl -> PeerPoolItem],
           SlotsOf(pl, voteInfo), ExecuteCommitDpos(pl)
    PROVE  SlotsOf(peerPool', voteInfo')
<1> SUFFICES ASSUME NEW p \in Peers, NEW a \in Addrs
             PROVE  LET r == voteInfo'[p][a] IN
                    /\ p \notin DOMAIN peerPool' =>
                          r.consensusPos + r.freezePos + r.newPos + r.withdrawPos + r.withdrawFreezePos = 0
                    /\ p \in WithStatus(peerPool', {"RegisterCandidate", "Candidate"}) => r.consensusPos = 0
                    /\ p \in WithStatus(peerPool', {"RegisterCandidate", "Consensus", "QuitConsensus"})
                          => r.freezePos = 0
  BY DEF SlotsOf
<1> DEFINE r == voteInfo[p][a]
           gone == WithStatus(pl, {"Quiting", "Black", "QuitCandidate"})
<1>1. r \in VoteInfo  BY DEF TypeOK
<1>2. voteInfo'[p][a] = CommitVote(pl, p, a)
  BY DEF ExecuteCommitDpos
<1>3. /\ DOMAIN peerPool' = DOMAIN pl \ gone
      /\ \A q \in DOMAIN pl \ gone : peerPool'[q].status = NewStatus(pl, q)
  BY DEF ExecuteCommitDpos, PeerPoolItem
<1>4. p \notin DOMAIN pl => r.consensusPos + r.freezePos + r.newPos + r.withdrawPos + r.withdrawFreezePos = 0
  BY DEF SlotsOf
<1>5. p \in WithStatus(pl, {"RegisterCandidate", "Candidate"}) => r.consensusPos = 0
  BY DEF SlotsOf
<1>6. p \in WithStatus(pl, {"RegisterCandidate", "Consensus", "QuitConsensus"}) => r.freezePos = 0
  BY DEF SlotsOf
<1>7. CASE p \notin DOMAIN pl
  BY <1>2, <1>3, <1>4, <1>7 DEF CommitVote, WithStatus
<1>8. CASE p \in DOMAIN pl /\ pl[p].status \in {"Quiting", "QuitCandidate"}
  <2>1. p \notin DOMAIN peerPool'  BY <1>3, <1>8 DEF WithStatus
  <2>2. CommitVote(pl, p, a) = NormalQuit(r, IF pl[p].address = a THEN pl[p].initPos ELSE 0)
    BY <1>8 DEF CommitVote
  <2>. QED  BY <1>2, <2>1, <2>2 DEF NormalQuit, NoVote, WithStatus
<1>9. CASE p \in DOMAIN pl /\ pl[p].status = "Black"
  <2>1. p \notin DOMAIN peerPool'  BY <1>3, <1>9 DEF WithStatus
  <2>2. CommitVote(pl, p, a) = BlackQuit(r)
    BY <1>9 DEF CommitVote
  <2>. QED  BY <1>2, <2>1, <2>2 DEF BlackQuit, NoVote, WithStatus
<1>10. CASE p \in DOMAIN pl /\ pl[p].status = "QuitConsensus"
  <2>1. p \in DOMAIN peerPool' /\ peerPool'[p].status = "Quiting"
    BY <1>3, <1>10 DEF WithStatus, NewStatus, Elected, Eligible
  <2>. QED  BY <2>1 DEF WithStatus
<1>11. CASE p \in DOMAIN pl /\ pl[p].status = "RegisterCandidate"
  <2>1. p \in DOMAIN peerPool' /\ peerPool'[p].status = "RegisterCandidate"
    BY <1>3, <1>11 DEF WithStatus, NewStatus, Elected, Eligible
  <2>2. CommitVote(pl, p, a) = r
    BY <1>11 DEF CommitVote
  <2>. QED  BY <1>2, <1>5, <1>6, <1>11, <2>1, <2>2 DEF WithStatus
<1>12. CASE p \in DOMAIN pl /\ pl[p].status \in {"Consensus", "Candidate"} /\ p \in Elected(pl)
  <2>1. p \in DOMAIN peerPool' /\ peerPool'[p].status = "Consensus"
    BY <1>3, <1>12 DEF WithStatus, NewStatus, Elected, Eligible
  <2>2. CASE pl[p].status = "Consensus"
    <3>1. CommitVote(pl, p, a) = ConsensusToConsensus(r)  BY <1>12, <2>2 DEF CommitVote
    <3>2. r.freezePos = 0  BY <1>6, <1>12, <2>2 DEF WithStatus
    <3>. QED  BY <1>1, <1>2, <2>1, <3>1, <3>2 DEF ConsensusToConsensus, ShiftWithdraw, VoteInfo, WithStatus
  <2>3. CASE pl[p].status = "Candidate"
    <3>1. CommitVote(pl, p, a) = UnConsensusToConsensus(r)  BY <1>12, <2>3 DEF CommitVote
    <3>. QED  BY <1>1, <1>2, <2>1, <3>1 DEF UnConsensusToConsensus, ShiftWithdraw, VoteInfo, WithStatus
  <2>. QED  BY <1>12, <2>2, <2>3
<1>13. CASE p \in DOMAIN pl /\ pl[p].status \in {"Consensus", "Candidate"} /\ p \notin Elected(pl)
  <2>1. p \in DOMAIN peerPool' /\ peerPool'[p].status = "Candidate"
    BY <1>3, <1>13 DEF WithStatus, NewStatus, Eligible
  <2>2. CASE pl[p].status = "Consensus"
    <3>1. CommitVote(pl, p, a) = ConsensusToUnConsensus(r)  BY <1>13, <2>2 DEF CommitVote
    <3>. QED  BY <1>1, <1>2, <2>1, <3>1 DEF ConsensusToUnConsensus, ShiftWithdraw, VoteInfo, WithStatus
  <2>3. CASE pl[p].status = "Candidate"
    <3>1. CommitVote(pl, p, a) = UnConsensusToUnConsensus(r)  BY <1>13, <2>3 DEF CommitVote
    <3>2. r.consensusPos = 0  BY <1>5, <1>13, <2>3 DEF WithStatus
    <3>. QED  BY <1>1, <1>2, <2>1, <3>1, <3>2 DEF UnConsensusToUnConsensus, ShiftWithdraw, VoteInfo, WithStatus
  <2>. QED  BY <1>13, <2>2, <2>3
<1>. QED
  <2>1. p \in DOMAIN pl => pl[p].status \in Status  BY DEF PeerPoolItem
  <2>. QED  BY <2>1, <1>7, <1>8, <1>9, <1>10, <1>11, <1>12, <1>13 DEF Status

LEMMA SlotsDef == SlotsMatchStatus <=> SlotsOf(peerPool, voteInfo)
BY DEF SlotsMatchStatus, SlotsOf

LEMMA SlotsInit == Init => SlotsMatchStatus
BY DEF Init, SlotsMatchStatus, NoVote, WithStatus

LEMMA SlotsStep == TypeOK /\ SlotsMatchStatus /\ [Next]_vars => SlotsMatchStatus'
<1> SUFFICES ASSUME TypeOK, SlotsOf(peerPool, voteInfo), [Next]_vars
             PROVE  SlotsOf(peerPool, voteInfo)'
  BY DEF SlotsMatchStatus, SlotsOf
<1>1. ASSUME NEW p \in Peers, NEW a \in Addrs, NEW n \in Amounts, RegisterCandidate(p, a, n)
      PROVE  SlotsOf(peerPool, voteInfo)'
  <2> SUFFICES ASSUME NEW q \in Peers, NEW b \in Addrs
               PROVE  LET r == voteInfo[q][b] IN
                      /\ q \notin DOMAIN peerPool' =>
                            r.consensusPos + r.freezePos + r.newPos + r.withdrawPos + r.withdrawFreezePos = 0
                      /\ q \in WithStatus(peerPool', {"RegisterCandidate", "Candidate"}) => r.consensusPos = 0
                      /\ q \in WithStatus(peerPool', {"RegisterCandidate", "Consensus", "QuitConsensus"})
                            => r.freezePos = 0
    BY <1>1 DEF RegisterCandidate, SlotsOf
  <2>1. voteInfo[q][b] \in VoteInfo  BY DEF TypeOK
  <2>2. CASE q = p
    <3>1. p \notin DOMAIN peerPool  BY <1>1 DEF RegisterCandidate
    <3>2. voteInfo[p][b].consensusPos + voteInfo[p][b].freezePos + voteInfo[p][b].newPos
          + voteInfo[p][b].withdrawPos + voteInfo[p][b].withdrawFreezePos = 0
      BY <3>1 DEF SlotsOf
    <3>3. voteInfo[p][b].consensusPos = 0 /\ voteInfo[p][b].freezePos = 0
      BY <2>1, <2>2, <3>2 DEF VoteInfo
    <3>. QED  BY <1>1, <2>2, <3>3 DEF RegisterCandidate, WithStatus
  <2>3. CASE q # p
    BY <1>1, <2>3 DEF RegisterCandidate, SlotsOf, WithStatus
  <2>. QED  BY <2>2, <2>3
<1>2. ASSUME NEW p \in Peers, UnRegisterCandidate(p) PROVE SlotsOf(peerPool, voteInfo)'
  BY <1>2 DEF UnRegisterCandidate, SlotsOf, WithStatus, NoVote, TypeOK
<1>3. ASSUME NEW p \in Peers, ApproveCandidate(p) PROVE SlotsOf(peerPool, voteInfo)'
  BY <1>3 DEF ApproveCandidate, SlotsOf, WithStatus, TypeOK
<1>4. ASSUME NEW p \in Peers, RejectCandidate(p) PROVE SlotsOf(peerPool, voteInfo)'
  BY <1>4 DEF RejectCandidate, SlotsOf, WithStatus, TypeOK
<1>5. ASSUME NEW p \in Peers, WhiteNode(p) PROVE SlotsOf(peerPool, voteInfo)'
  BY <1>5 DEF WhiteNode, SlotsOf, WithStatus
<1>6. ASSUME NEW p \in Peers, QuitNode(p) PROVE SlotsOf(peerPool, voteInfo)'
  BY <1>6 DEF QuitNode, SlotsOf, WithStatus, TypeOK
<1>7. ASSUME NEW p \in Peers, CheckVoteInfo(p) PROVE SlotsOf(peerPool, voteInfo)'
  BY <1>7 DEF CheckVoteInfo, SlotsOf, WithStatus, TypeOK
<1>8. ASSUME NEW S \in SUBSET Peers, BlackNode(S) PROVE SlotsOf(peerPool, voteInfo)'
  <2> DEFINE pl == [q \in DOMAIN peerPool |->
                      IF q \in S THEN [peerPool[q] EXCEPT !.status = "Black"] ELSE peerPool[q]]
  <2>1. DOMAIN pl \subseteq Peers /\ pl \in [DOMAIN pl -> PeerPoolItem]
    BY DEF TypeOK, PeerPoolItem, Status
  <2>2. SlotsOf(pl, voteInfo)
    BY DEF SlotsOf, WithStatus, TypeOK
  <2>3. CASE ExecuteCommitDpos(pl)
    BY <2>1, <2>2, <2>3, CommitSlots
  <2>4. CASE peerPool' = pl /\ voteInfo' = voteInfo
    BY <2>2, <2>4 DEF SlotsOf
  <2>. QED  BY <1>8, <2>3, <2>4 DEF BlackNode
<1>9. ASSUME NEW a \in Addrs, NEW p \in Peers, NEW n \in Amounts, VoteForPeer(a, p, n)
      PROVE  SlotsOf(peerPool, voteInfo)'
  BY <1>9 DEF VoteForPeer, SlotsOf, WithStatus, TypeOK
<1>10. ASSUME NEW a \in Addrs, NEW p \in Peers, NEW n \in Amounts, UnVoteForPeer(a, p, n)
       PROVE  SlotsOf(peerPool, voteInfo)'
  BY <1>10 DEF UnVoteForPeer, UnVoteRecord, UnVoteAllowed, SlotsOf, WithStatus, TypeOK, VoteInfo
<1>11. ASSUME NEW a \in Addrs, NEW p \in Peers, NEW n \in Amounts, Withdraw(a, p, n)
       PROVE  SlotsOf(peerPool, voteInfo)'
  BY <1>11 DEF Withdraw, SlotsOf, WithStatus, TypeOK
<1>12. CASE CommitDpos
  BY <1>12, CommitSlots DEF CommitDpos, TypeOK
<1>13. ASSUME NEW p \in Peers, NEW a \in Addrs, TransferPenalty(p, a)
       PROVE  SlotsOf(peerPool, voteInfo)'
  BY <1>13 DEF TransferPenalty, SlotsOf, WithStatus
<1>14. CASE NewBlock
  BY <1>14 DEF NewBlock, SlotsOf, WithStatus
<1>15. CASE UNCHANGED vars
  BY <1>15 DEF vars, SlotsOf, WithStatus
<1>16. ASSUME NEW k \in KRange, UpdateConfig(k) PROVE SlotsOf(peerPool, voteInfo)'
  BY <1>16 DEF UpdateConfig, SlotsOf, WithStatus
<1>17. ASSUME NEW g \in GlobalParamInputs, UpdateGlobalParam(g) PROVE SlotsOf(peerPool, voteInfo)'
  BY <1>17 DEF UpdateGlobalParam, SlotsOf, WithStatus
<1>. QED
  BY <1>1, <1>2, <1>3, <1>4, <1>5, <1>6, <1>7, <1>8, <1>9, <1>10, <1>11, <1>12,
     <1>13, <1>14, <1>15, <1>16, <1>17 DEF Next

\* The slots of every vote record agree with the status of its peer in every
\* reachable state, so the "freezePos should be 0" and "consensusPos should
\* be 0" checks of the commit helpers never fail.  TypeOK is the
\* strengthening that makes it inductive.
THEOREM SlotsInvariant == Spec => []SlotsMatchStatus
<1>1. Init => TypeOK /\ SlotsMatchStatus
  BY TypeInit, SlotsInit
<1>2. TypeOK /\ SlotsMatchStatus /\ [Next]_vars => (TypeOK /\ SlotsMatchStatus)'
  BY TypeStep, SlotsStep
<1>. QED  BY <1>1, <1>2, PTL DEF Spec

-----------------------------------------------------------------------------
(* Blacklisted keys stay out of the candidates                             *)

\* A pool step that keeps every blacklisted peer's status keeps the black
\* list's peers Black.
LEMMA KeepBlack ==
    ASSUME NEW pl, NEW pl2, NEW BL,
           \A q \in BL \cap DOMAIN pl : pl[q].status = "Black",
           DOMAIN pl2 = DOMAIN pl,
           \A q \in DOMAIN pl : q \in BL => pl2[q].status = pl[q].status
    PROVE  \A q \in BL \cap DOMAIN pl2 : pl2[q].status = "Black"
OBVIOUS

\* A commit on a pool whose blacklisted peers are Black leaves no
\* blacklisted peer in the pool: they are all settled and dropped.
LEMMA CommitBlack ==
    ASSUME NEW pl, NEW BL, \A q \in BL \cap DOMAIN pl : pl[q].status = "Black",
           ExecuteCommitDpos(pl)
    PROVE  BL \cap DOMAIN peerPool' = {}
<1>1. DOMAIN peerPool' = DOMAIN pl \ WithStatus(pl, {"Quiting", "Black", "QuitCandidate"})
  BY DEF ExecuteCommitDpos
<1>. QED  BY <1>1 DEF WithStatus

\* Setting one non-Black peer's fields keeps the blacklisted peers' statuses.
LEMMA OneNonBlack ==
    ASSUME TypeOK, BlackListedStaysBlack, NEW p \in DOMAIN peerPool,
           peerPool[p].status # "Black",
           DOMAIN peerPool' = DOMAIN peerPool,
           \A q \in DOMAIN peerPool \ {p} : peerPool'[q] = peerPool[q],
           blackList' = blackList
    PROVE  BlackListedStaysBlack'
<1>1. p \notin blackList  BY DEF BlackListedStaysBlack
<1>. QED  BY <1>1, KeepBlack DEF BlackListedStaysBlack

LEMMA BlackStep ==
    TypeOK /\ BlackListedStaysBlack /\ [Next]_vars => BlackListedStaysBlack'
<1> SUFFICES ASSUME TypeOK, BlackListedStaysBlack, [Next]_vars PROVE BlackListedStaysBlack'
  OBVIOUS
<1> USE DEF TypeOK
<1>1. ASSUME NEW p \in Peers, NEW a \in Addrs, NEW n \in Amounts, RegisterCandidate(p, a, n)
      PROVE  BlackListedStaysBlack'
  BY <1>1 DEF RegisterCandidate, BlackListedStaysBlack
<1>2. ASSUME NEW p \in Peers, UnRegisterCandidate(p) PROVE BlackListedStaysBlack'
  BY <1>2, OneNonBlack DEF UnRegisterCandidate
<1>3. ASSUME NEW p \in Peers, ApproveCandidate(p) PROVE BlackListedStaysBlack'
  BY <1>3, OneNonBlack DEF ApproveCandidate
<1>4. ASSUME NEW p \in Peers, RejectCandidate(p) PROVE BlackListedStaysBlack'
  BY <1>4, OneNonBlack DEF RejectCandidate
<1>5. ASSUME NEW p \in Peers, WhiteNode(p) PROVE BlackListedStaysBlack'
  BY <1>5 DEF WhiteNode, BlackListedStaysBlack
<1>6. ASSUME NEW p \in Peers, QuitNode(p) PROVE BlackListedStaysBlack'
  BY <1>6, OneNonBlack DEF QuitNode
<1>7. ASSUME NEW p \in Peers, CheckVoteInfo(p) PROVE BlackListedStaysBlack'
  BY <1>7, OneNonBlack DEF CheckVoteInfo
<1>8. ASSUME NEW S \in SUBSET Peers, BlackNode(S) PROVE BlackListedStaysBlack'
  <2> DEFINE pl == [q \in DOMAIN peerPool |->
                      IF q \in S THEN [peerPool[q] EXCEPT !.status = "Black"] ELSE peerPool[q]]
  <2>1. \A q \in blackList' \cap DOMAIN pl : pl[q].status = "Black"
    BY <1>8 DEF BlackNode, BlackListedStaysBlack, PeerPoolItem
  <2>2. CASE ExecuteCommitDpos(pl)
    BY <2>1, <2>2, CommitBlack DEF BlackListedStaysBlack
  <2>3. CASE peerPool' = pl
    BY <2>1, <2>3 DEF BlackListedStaysBlack
  <2>. QED  BY <1>8, <2>2, <2>3 DEF BlackNode
<1>9. ASSUME NEW a \in Addrs, NEW p \in Peers, NEW n \in Amounts, VoteForPeer(a, p, n)
      PROVE  BlackListedStaysBlack'
  BY <1>9, OneNonBlack DEF VoteForPeer
<1>10. ASSUME NEW a \in Addrs, NEW p \in Peers, NEW n \in Amounts, UnVoteForPeer(a, p, n)
       PROVE  BlackListedStaysBlack'
  BY <1>10, OneNonBlack DEF UnVoteForPeer
<1>11. ASSUME NEW a \in Addrs, NEW p \in Peers, NEW n \in Amounts, Withdraw(a, p, n)
       PROVE  BlackListedStaysBlack'
  BY <1>11 DEF Withdraw, BlackListedStaysBlack
<1>12. CASE CommitDpos
  <2>1. \A q \in blackList \cap DOMAIN peerPool : peerPool[q].status = "Black"
    BY DEF BlackListedStaysBlack
  <2>. QED  BY <1>12, <2>1, CommitBlack DEF CommitDpos, BlackListedStaysBlack
<1>13. ASSUME NEW p \in Peers, NEW a \in Addrs, TransferPenalty(p, a)
       PROVE  BlackListedStaysBlack'
  BY <1>13 DEF TransferPenalty, BlackListedStaysBlack
<1>14. CASE NewBlock
  BY <1>14 DEF NewBlock, BlackListedStaysBlack
<1>15. CASE UNCHANGED vars
  BY <1>15 DEF vars, BlackListedStaysBlack
<1>16. ASSUME NEW k \in KRange, UpdateConfig(k) PROVE BlackListedStaysBlack'
  BY <1>16 DEF UpdateConfig, BlackListedStaysBlack
<1>17. ASSUME NEW g \in GlobalParamInputs, UpdateGlobalParam(g) PROVE BlackListedStaysBlack'
  BY <1>17 DEF UpdateGlobalParam, BlackListedStaysBlack
<1>. QED
  BY <1>1, <1>2, <1>3, <1>4, <1>5, <1>6, <1>7, <1>8, <1>9, <1>10, <1>11, <1>12,
     <1>13, <1>14, <1>15, <1>16, <1>17 DEF Next

\* In every reachable state a blacklisted key that is still in the pool is
\* Black: registerCandidate's black list check, blackNode's marking and the
\* commit's removal of Black peers keep every blacklisted key out of the
\* candidates and the committee.  TypeOK is the strengthening.
THEOREM BlackListInvariant == Spec => []BlackListedStaysBlack
<1>1. Init => TypeOK /\ BlackListedStaysBlack
  BY TypeInit DEF Init, BlackListedStaysBlack
<1>2. TypeOK /\ BlackListedStaysBlack /\ [Next]_vars => (TypeOK /\ BlackListedStaysBlack)'
  BY TypeStep, BlackStep
<1>. QED  BY <1>1, <1>2, PTL DEF Spec

=============
