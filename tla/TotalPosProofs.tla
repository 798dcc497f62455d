--------------------------- MODULE TotalPosProofs ---------------------------
(***************************************************************************)
(* Proof that a votable peer's TotalPos is the sum of the active stake of  *)
(* its voters (TotalPosMatchesVotes), for every value of the constants on  *)
(* the chain after the approveCandidate fork, whenever no TotalPos that    *)
(* the PosLimit check admits can wrap around 2^64.                         *)
(*                                                                         *)
(* voteForPeer and unVoteForPeer keep TotalPos and the vote record of one *)
(* voter in step (SumUpdate); checkVoteInfo writes the sum itself; the    *)
(* commit moves a record's active stake between ConsensusPos, FreezePos   *)
(* and NewPos without changing its total; every other handler touches     *)
(* neither.  The invariant is not inductive alone: TotalPos must stay     *)
(* below 2^64 for the uint64 additions not to wrap, so the strengthening  *)
(* TotalPosCapped bounds it by a PosLimit times the peer's InitPos.       *)
(***************************************************************************)
EXTENDS ElectionProofs, SumLemmas

-----------------------------------------------------------------------------
(* The hypotheses on the constants                                          *)

\* The height the model starts at is past the fork at which approveCandidate
\* stopped resetting TotalPos (governance.go, approveCandidate).
PostFork == ApproveResetHeight = 0

\* The PosLimits GlobalParam can hold, and the InitPos a peer can have.
PosLimits == {PosLimit} \cup {g.posLimit : g \in GlobalParamInputs}
InitPosValues == Amounts \cup {InitStake[p] : p \in InitPeers}

\* No TotalPos the PosLimit check admits, plus one vote, reaches 2^64: the
\* ZPT supply is far below 2^64 / PosLimit.
NoWrap == \A l \in PosLimits, ip \in InitPosValues, n \in Amounts \cup {0} : l * ip + n < Word

-----------------------------------------------------------------------------
(* The invariant and its strengthening                                      *)

Votable == {"RegisterCandidate", "Candidate", "Consensus"}

\* The active stake of each voter of p in the vote pool vi.
VotedIn(vi, p) == [a \in Addrs |-> ActivePos(vi[p][a])]

\* TotalPosMatchesVotes for a pool pl and vote pool vi, with the sum over a
\* function.
TotalPosMatch(pl, vi) ==
    \A p \in WithStatus(pl, Votable) : pl[p].totalPos = SumFunctionOnSet(VotedIn(vi, p), Addrs)

\* Every pool peer's TotalPos is within a PosLimit times its InitPos, and
\* the stored PosLimit is one of the possible ones.
TotalPosCapped(pl, gp) ==
    /\ gp.posLimit \in PosLimits
    /\ \A p \in DOMAIN pl :
          /\ pl[p].initPos \in InitPosValues
          /\ \E l \in PosLimits : pl[p].totalPos <= l * pl[p].initPos

\* The model's sum of p's votes is the sum of the function VotedIn.
LEMMA VoteSumIs ==
    ASSUME NEW p
    PROVE  MapThenSumSet(LAMBDA a : ActivePos(voteInfo[p][a]), Addrs)
             = SumFunctionOnSet(VotedIn(voteInfo, p), Addrs)
BY DEF VotedIn, MapThenSumSet, SumFunctionOnSet, FoldFunctionOnSet, MapThenFoldSet

LEMMA MatchIs == TotalPosMatchesVotes <=> TotalPosMatch(peerPool, voteInfo)
BY VoteSumIs DEF TotalPosMatchesVotes, TotalPosMatch, Votable

\* checkVoteInfo's sum is the same sum.
LEMMA CheckSumIs ==
    ASSUME NEW p
    PROVE  MapThenSumSet(LAMBDA a : Active(voteInfo[p][a]), Addrs)
             = SumFunctionOnSet(VotedIn(voteInfo, p), Addrs)
BY DEF VotedIn, Active, ActivePos, MapThenSumSet, SumFunctionOnSet, FoldFunctionOnSet, MapThenFoldSet

USE ConstantsAssumption

LEMMA PosLimitsNat == PosLimits \subseteq Nat /\ InitPosValues \subseteq Nat
BY DEF PosLimits, InitPosValues

\* A record's active stake is a natural.
LEMMA VotedNat ==
    ASSUME NEW vi \in [Peers -> [Addrs -> VoteInfo]], NEW p \in Peers
    PROVE  \A a \in Addrs : VotedIn(vi, p)[a] \in Nat
BY DEF VotedIn, ActivePos, VoteInfo

\* Under NoWrap a capped TotalPos, plus one vote, is below 2^64.
LEMMA CappedNoWrap ==
    ASSUME NoWrap, NEW pl, NEW gp, TotalPosCapped(pl, gp), NEW p \in DOMAIN pl,
           pl[p].totalPos \in Nat, NEW n \in Amounts \cup {0}
    PROVE  pl[p].totalPos + n < Word
<1>1. PICK l \in PosLimits : pl[p].totalPos <= l * pl[p].initPos
  BY DEF TotalPosCapped
<1>2. pl[p].initPos \in InitPosValues
  BY DEF TotalPosCapped
<1>3. l * pl[p].initPos + n < Word
  BY <1>1, <1>2 DEF NoWrap
<1>4. l \in Nat
  BY PosLimitsNat
<1>5. pl[p].initPos \in Nat
  BY <1>2, PosLimitsNat
<1>6. n \in Nat
  BY DEF ConstantsAssumption
<1>. QED  BY <1>1, <1>3, <1>4, <1>5, <1>6

-----------------------------------------------------------------------------
(* Initial state                                                            *)

LEMMA MatchInit == Init => TotalPosMatch(peerPool, voteInfo) /\ TotalPosCapped(peerPool, globalParam)
<1> SUFFICES ASSUME Init PROVE TotalPosMatch(peerPool, voteInfo) /\ TotalPosCapped(peerPool, globalParam)
  OBVIOUS
<1>1. ASSUME NEW p \in Peers PROVE SumFunctionOnSet(VotedIn(voteInfo, p), Addrs) = 0
  <2>1. \A a \in Addrs : VotedIn(voteInfo, p)[a] = 0
    BY DEF Init, VotedIn, ActivePos, NoVote
  <2>. QED  BY <2>1, SumZero
<1>2. TotalPosMatch(peerPool, voteInfo)
  BY <1>1 DEF Init, InitPool, TotalPosMatch, WithStatus
<1>3. TotalPosCapped(peerPool, globalParam)
  <2>1. PosLimit \in PosLimits /\ PosLimit \in Nat
    BY DEF PosLimits
  <2>2. \A p \in InitPeers : InitStake[p] \in InitPosValues /\ InitStake[p] \in Nat
    BY DEF InitPosValues
  <2>3. \A p \in InitPeers : 0 <= PosLimit * InitStake[p]
    BY <2>1, <2>2
  <2>. QED  BY <2>1, <2>2, <2>3 DEF Init, InitPool, TotalPosCapped, InitGlobalParam
<1>. QED  BY <1>2, <1>3

-----------------------------------------------------------------------------
(* The commit                                                               *)

\* executeCommitDpos moves a votable peer's active stake between
\* ConsensusPos, FreezePos and NewPos and keeps its total.  For a demoted
\* Consensus peer this needs FreezePos = 0, the check consensusToUnConsensus
\* makes before it overwrites FreezePos.
LEMMA CommitKeepsActive ==
    ASSUME TypeOK, NEW pl, WellFormed(pl), CommitChecksPass(pl), NEW x \in DOMAIN pl,
           pl[x].status \in Votable, NEW a \in Addrs
    PROVE  ActivePos(CommitVote(pl, x, a)) = ActivePos(voteInfo[x][a])
<1>. DEFINE r == voteInfo[x][a]
<1>1. r \in VoteInfo
  BY DEF WellFormed, TypeOK
<1>2. CASE pl[x].status = "RegisterCandidate"
  <2>1. CommitVote(pl, x, a) = r
    BY <1>2 DEF CommitVote
  <2>. QED  BY <2>1
<1>3. CASE pl[x].status = "Consensus" /\ x \in Elected(pl)
  <2>1. CommitVote(pl, x, a) = ConsensusToConsensus(r)
    BY <1>3 DEF CommitVote
  <2>. QED  BY <1>1, <2>1 DEF ConsensusToConsensus, ShiftWithdraw, ActivePos, VoteInfo
<1>4. CASE pl[x].status = "Candidate" /\ x \in Elected(pl)
  <2>1. CommitVote(pl, x, a) = UnConsensusToConsensus(r)
    BY <1>4 DEF CommitVote
  <2>. QED  BY <1>1, <2>1 DEF UnConsensusToConsensus, ShiftWithdraw, ActivePos, VoteInfo
<1>5. CASE pl[x].status = "Consensus" /\ x \notin Elected(pl)
  <2>1. CommitVote(pl, x, a) = ConsensusToUnConsensus(r)
    BY <1>5 DEF CommitVote
  <2>2. r.freezePos = 0
    BY <1>5 DEF CommitChecksPass, Eligible, WithStatus
  <2>. QED  BY <1>1, <2>1, <2>2 DEF ConsensusToUnConsensus, ShiftWithdraw, ActivePos, VoteInfo
<1>6. CASE pl[x].status = "Candidate" /\ x \notin Elected(pl)
  <2>1. CommitVote(pl, x, a) = UnConsensusToUnConsensus(r)
    BY <1>6 DEF CommitVote
  <2>. QED  BY <1>1, <2>1 DEF UnConsensusToUnConsensus, ShiftWithdraw, ActivePos, VoteInfo
<1>. QED  BY <1>2, <1>3, <1>4, <1>5, <1>6 DEF Votable

\* A commit from pool pl keeps TotalPosMatch and the cap: the peers it
\* leaves votable were votable in pl, with the same TotalPos and InitPos.
LEMMA CommitMatch ==
    ASSUME TypeOK, NEW pl, WellFormed(pl), TotalPosMatch(pl, voteInfo),
           TotalPosCapped(pl, globalParam), ExecuteCommitDpos(pl)
    PROVE  TotalPosMatch(peerPool', voteInfo') /\ TotalPosCapped(peerPool', globalParam')
<1>1. /\ DOMAIN peerPool' = DOMAIN pl \ WithStatus(pl, {"Quiting", "Black", "QuitCandidate"})
      /\ \A x \in DOMAIN peerPool' :
            /\ peerPool'[x].status = NewStatus(pl, x)
            /\ peerPool'[x].totalPos = pl[x].totalPos
            /\ peerPool'[x].initPos = pl[x].initPos
  BY PoolAfterCommit
<1>2. CommitChecksPass(pl) /\ globalParam' = globalParam
      /\ voteInfo' = [p \in Peers |-> [a \in Addrs |-> CommitVote(pl, p, a)]]
  BY DEF ExecuteCommitDpos
<1>3. ASSUME NEW x \in WithStatus(peerPool', Votable)
      PROVE  peerPool'[x].totalPos = SumFunctionOnSet(VotedIn(voteInfo', x), Addrs)
  <2>1. x \in DOMAIN pl /\ x \in Peers /\ NewStatus(pl, x) \in Votable
    BY <1>1 DEF WithStatus, WellFormed
  <2>2. pl[x].status \in Votable
    BY <2>1, NewStatusCases DEF Votable
  <2>3. pl[x].totalPos = SumFunctionOnSet(VotedIn(voteInfo, x), Addrs)
    BY <2>1, <2>2 DEF TotalPosMatch, WithStatus
  <2>4. \A a \in Addrs : ActivePos(CommitVote(pl, x, a)) = ActivePos(voteInfo[x][a])
    BY <1>2, <2>1, <2>2, CommitKeepsActive
  <2>5. VotedIn(voteInfo', x) = VotedIn(voteInfo, x)
    BY <1>2, <2>1, <2>4 DEF VotedIn
  <2>. QED  BY <1>1, <2>3, <2>5 DEF WithStatus
<1>4. TotalPosCapped(peerPool', globalParam')
  BY <1>1, <1>2 DEF TotalPosCapped
<1>. QED  BY <1>3, <1>4 DEF TotalPosMatch

-----------------------------------------------------------------------------
(* Voting and unvoting                                                      *)

\* uint64 arithmetic below 2^64 does not wrap.
LEMMA U64Id ==
    ASSUME NEW x \in Nat, x < Word
    PROVE  U64(x) = x
BY DEF U64

\* unVoteForPeer takes exactly pos off the record's active stake, and its
\* "pos is not enough" check makes sure there is that much.
LEMMA UnVoteActive ==
    ASSUME NEW r \in VoteInfo, NEW st, NEW n \in Nat, UnVoteAllowed(r, st, n)
    PROVE  /\ n <= ActivePos(r)
           /\ ActivePos(UnVoteRecord(r, st, n)) = ActivePos(r) - n
<1>1. CASE r.newPos >= n
  BY <1>1 DEF UnVoteRecord, ActivePos, VoteInfo
<1>2. CASE r.newPos < n /\ st = "Consensus"
  BY <1>2 DEF UnVoteAllowed, UnVoteRecord, ActivePos, VoteInfo
<1>3. CASE r.newPos < n /\ st # "Consensus"
  BY <1>3 DEF UnVoteAllowed, UnVoteRecord, ActivePos, VoteInfo
<1>. QED  BY <1>1, <1>2, <1>3 DEF VoteInfo

\* A step that writes one record voteInfo[p][a] of a votable peer p and
\* sets p's TotalPos to t keeps TotalPosMatch and the cap when the record's
\* active stake moves by as much as TotalPos and t stays under a PosLimit
\* times InitPos.  Shared by voteForPeer and unVoteForPeer.
LEMMA OneRecordStep ==
    ASSUME TypeOK, TotalPosMatch(peerPool, voteInfo), TotalPosCapped(peerPool, globalParam),
           NEW p \in Peers, NEW a \in Addrs, NEW t \in Nat, NEW r \in VoteInfo,
           p \in DOMAIN peerPool, peerPool[p].status \in Votable,
           ActivePos(r) + peerPool[p].totalPos = ActivePos(voteInfo[p][a]) + t,
           voteInfo' = [voteInfo EXCEPT ![p][a] = r],
           peerPool' = [peerPool EXCEPT ![p].totalPos = t],
           \E l \in PosLimits : t <= l * peerPool[p].initPos,
           globalParam' = globalParam
    PROVE  TotalPosMatch(peerPool', voteInfo') /\ TotalPosCapped(peerPool', globalParam')
<1>. DEFINE F == VotedIn(voteInfo, p)
            G == VotedIn(voteInfo', p)
<1>1. voteInfo' \in [Peers -> [Addrs -> VoteInfo]]
  BY VoteInfoUpdate DEF TypeOK
<1>2. IsFiniteSet(Addrs) /\ \A x \in Addrs : F[x] \in Nat
  BY VotedNat DEF TypeOK
<1>3. G[a] = ActivePos(r) /\ F[a] = ActivePos(voteInfo[p][a]) /\ \A x \in Addrs \ {a} : G[x] = F[x]
  BY DEF VotedIn, TypeOK
<1>4. SumFunctionOnSet(G, Addrs) = t
  <2>1. G[a] \in Int /\ \A x \in Addrs : F[x] \in Int
    BY <1>2, <1>3 DEF ActivePos, VoteInfo
  <2>2. SumFunctionOnSet(G, Addrs) = SumFunctionOnSet(F, Addrs) - F[a] + G[a]
    <3>. HIDE DEF F, G
    <3>. QED  BY <1>2, <1>3, <2>1, SumUpdate
  <2>3. peerPool[p].totalPos = SumFunctionOnSet(F, Addrs)
    BY DEF TotalPosMatch, WithStatus
  <2>4. F[a] \in Nat /\ G[a] \in Nat /\ peerPool[p].totalPos \in Nat
    BY <1>2, <1>3 DEF ActivePos, VoteInfo, TypeOK, PeerPoolItem
  <2>. QED  BY <1>3, <2>2, <2>3, <2>4
<1>5. \A q \in Peers \ {p} : VotedIn(voteInfo', q) = VotedIn(voteInfo, q)
  BY DEF VotedIn, TypeOK
<1>6. /\ DOMAIN peerPool' = DOMAIN peerPool
      /\ \A q \in DOMAIN peerPool : /\ peerPool'[q].status = peerPool[q].status
                                    /\ peerPool'[q].initPos = peerPool[q].initPos
      /\ peerPool'[p].totalPos = t
      /\ \A q \in DOMAIN peerPool \ {p} : peerPool'[q] = peerPool[q]
  BY DEF TypeOK, PeerPoolItem
<1>7. TotalPosMatch(peerPool', voteInfo')
  BY <1>4, <1>5, <1>6 DEF TotalPosMatch, WithStatus, TypeOK
<1>8. TotalPosCapped(peerPool', globalParam')
  BY <1>6 DEF TotalPosCapped
<1>. QED  BY <1>7, <1>8

LEMMA VoteStep ==
    ASSUME NoWrap, TypeOK, TotalPosMatch(peerPool, voteInfo), TotalPosCapped(peerPool, globalParam),
           NEW a \in Addrs, NEW p \in Peers, NEW n \in Amounts, VoteForPeer(a, p, n)
    PROVE  TotalPosMatch(peerPool', voteInfo') /\ TotalPosCapped(peerPool', globalParam')
<1>. DEFINE tp == peerPool[p].totalPos
            r == [voteInfo[p][a] EXCEPT !.newPos = @ + n]
<1>1. p \in DOMAIN peerPool /\ peerPool[p].status \in Votable
  BY DEF VoteForPeer, Votable
<1>2. tp \in Nat /\ n \in Nat /\ tp + n < Word
  BY <1>1, CappedNoWrap DEF TypeOK, PeerPoolItem
<1>3. U64(tp + n) = tp + n
  BY <1>2, U64Id
<1>4. voteInfo[p][a] \in VoteInfo
  BY DEF TypeOK
<1>5. r \in VoteInfo /\ ActivePos(r) + tp = ActivePos(voteInfo[p][a]) + (tp + n)
  BY <1>2, <1>4 DEF VoteInfo, ActivePos
<1>6. voteInfo' = [voteInfo EXCEPT ![p][a] = r]
  BY DEF VoteForPeer
<1>7. peerPool' = [peerPool EXCEPT ![p].totalPos = tp + n]
  BY <1>3 DEF VoteForPeer
<1>8. \E l \in PosLimits : tp + n <= l * peerPool[p].initPos
  BY <1>3 DEF VoteForPeer, TotalPosCapped
<1>9. globalParam' = globalParam /\ tp + n \in Nat
  BY <1>2 DEF VoteForPeer
<1>. HIDE DEF r
<1>. QED  BY <1>1, <1>5, <1>6, <1>7, <1>8, <1>9, OneRecordStep

LEMMA UnVoteStep ==
    ASSUME NoWrap, TypeOK, TotalPosMatch(peerPool, voteInfo), TotalPosCapped(peerPool, globalParam),
           NEW a \in Addrs, NEW p \in Peers, NEW n \in Amounts, UnVoteForPeer(a, p, n)
    PROVE  TotalPosMatch(peerPool', voteInfo') /\ TotalPosCapped(peerPool', globalParam')
<1>. DEFINE tp == peerPool[p].totalPos
            r == UnVoteRecord(voteInfo[p][a], peerPool[p].status, n)
<1>1. p \in DOMAIN peerPool /\ peerPool[p].status \in Votable
  BY DEF UnVoteForPeer, Votable
<1>2. tp \in Nat /\ n \in Nat /\ tp < Word
  BY <1>1, CappedNoWrap DEF TypeOK, PeerPoolItem
<1>3. voteInfo[p][a] \in VoteInfo /\ UnVoteAllowed(voteInfo[p][a], peerPool[p].status, n)
  BY DEF TypeOK, UnVoteForPeer
<1>4. n <= ActivePos(voteInfo[p][a]) /\ ActivePos(r) = ActivePos(voteInfo[p][a]) - n
  BY <1>2, <1>3, UnVoteActive
<1>5. ActivePos(voteInfo[p][a]) <= tp /\ ActivePos(voteInfo[p][a]) \in Nat
  <2>1. \A x \in Addrs : VotedIn(voteInfo, p)[x] \in Nat
    BY VotedNat DEF TypeOK
  <2>2. tp = SumFunctionOnSet(VotedIn(voteInfo, p), Addrs)
    BY <1>1 DEF TotalPosMatch, WithStatus
  <2>3. VotedIn(voteInfo, p)[a] <= SumFunctionOnSet(VotedIn(voteInfo, p), Addrs)
    BY <2>1, SumGeq
  <2>. QED  BY <2>1, <2>2, <2>3 DEF VotedIn
<1>6. tp - n \in Nat /\ tp - n < Word
  BY <1>2, <1>4, <1>5
<1>7. U64(tp - n) = tp - n
  BY <1>6, U64Id
<1>8. r \in VoteInfo
  BY <1>2, <1>3, UnVoteType
<1>9. ActivePos(r) + tp = ActivePos(voteInfo[p][a]) + (tp - n)
  BY <1>2, <1>4, <1>5
<1>10. voteInfo' = [voteInfo EXCEPT ![p][a] = r]
  BY DEF UnVoteForPeer
<1>11. peerPool' = [peerPool EXCEPT ![p].totalPos = tp - n]
  BY <1>7 DEF UnVoteForPeer
<1>12. \E l \in PosLimits : tp - n <= l * peerPool[p].initPos
  <2>1. PICK l \in PosLimits : tp <= l * peerPool[p].initPos
    BY <1>1 DEF TotalPosCapped
  <2>2. l \in Nat /\ peerPool[p].initPos \in Nat
    BY <1>1, PosLimitsNat DEF TypeOK, PeerPoolItem
  <2>. QED  BY <1>2, <2>1, <2>2
<1>13. globalParam' = globalParam
  BY DEF UnVoteForPeer
<1>. HIDE DEF r
<1>. QED  BY <1>1, <1>6, <1>8, <1>9, <1>10, <1>11, <1>12, <1>13, OneRecordStep

-----------------------------------------------------------------------------
(* The handlers that change neither TotalPos nor active stake               *)

\* A step that leaves every votable peer's TotalPos and InitPos, and the
\* active stake of its voters, as they were (and adds no votable peer)
\* keeps TotalPosMatch and the cap.
LEMMA QuietStep ==
    ASSUME TypeOK, TotalPosMatch(peerPool, voteInfo), TotalPosCapped(peerPool, globalParam),
           DOMAIN peerPool' = DOMAIN peerPool,
           \A q \in DOMAIN peerPool :
              /\ peerPool'[q].initPos = peerPool[q].initPos
              /\ peerPool'[q].status \in Votable =>
                    /\ peerPool[q].status \in Votable
                    /\ peerPool'[q].totalPos = peerPool[q].totalPos
                    /\ VotedIn(voteInfo', q) = VotedIn(voteInfo, q)
              /\ peerPool'[q].totalPos = peerPool[q].totalPos,
           globalParam' = globalParam
    PROVE  TotalPosMatch(peerPool', voteInfo') /\ TotalPosCapped(peerPool', globalParam')
<1>1. TotalPosMatch(peerPool', voteInfo')
  BY DEF TotalPosMatch, WithStatus
<1>2. TotalPosCapped(peerPool', globalParam')
  BY DEF TotalPosCapped
<1>. QED  BY <1>1, <1>2

\* registerCandidate adds a peer with TotalPos 0; it had left the pool (or
\* never joined), so by SlotsMatchStatus its voters hold no active stake.
LEMMA RegisterStep ==
    ASSUME TypeOK, SlotsMatchStatus, TotalPosMatch(peerPool, voteInfo),
           TotalPosCapped(peerPool, globalParam),
           NEW p \in Peers, NEW a \in Addrs, NEW n \in Amounts, RegisterCandidate(p, a, n)
    PROVE  TotalPosMatch(peerPool', voteInfo') /\ TotalPosCapped(peerPool', globalParam')
<1>1. p \notin DOMAIN peerPool /\ voteInfo' = voteInfo /\ globalParam' = globalParam
  BY DEF RegisterCandidate
<1>2. SumFunctionOnSet(VotedIn(voteInfo, p), Addrs) = 0
  <2>1. ASSUME NEW b \in Addrs PROVE VotedIn(voteInfo, p)[b] = 0
    <3>. DEFINE r == voteInfo[p][b]
    <3>1. r \in VoteInfo
      BY DEF TypeOK
    <3>2. r.consensusPos + r.freezePos + r.newPos + r.withdrawPos + r.withdrawFreezePos = 0
      BY <1>1 DEF SlotsMatchStatus
    <3>. QED  BY <3>1, <3>2 DEF VotedIn, ActivePos, VoteInfo
  <2>. QED  BY <2>1, SumZero
<1>3. /\ DOMAIN peerPool' = DOMAIN peerPool \cup {p}
      /\ peerPool'[p].totalPos = 0 /\ peerPool'[p].initPos = n
      /\ \A q \in DOMAIN peerPool : peerPool'[q] = peerPool[q]
  BY <1>1 DEF RegisterCandidate
<1>4. TotalPosMatch(peerPool', voteInfo')
  BY <1>1, <1>2, <1>3 DEF TotalPosMatch, WithStatus
<1>5. TotalPosCapped(peerPool', globalParam')
  <2>1. globalParam.posLimit \in PosLimits /\ globalParam.posLimit \in Nat
    BY PosLimitsNat DEF TotalPosCapped
  <2>2. n \in InitPosValues /\ n \in Nat
    BY DEF InitPosValues
  <2>3. 0 <= globalParam.posLimit * n
    BY <2>1, <2>2
  <2>. QED  BY <1>1, <1>3, <2>1, <2>2, <2>3 DEF TotalPosCapped
<1>. QED  BY <1>4, <1>5

\* checkVoteInfo writes the sum itself: the peer is votable, so the sum is
\* its TotalPos, below 2^64, and the uint64 conversion keeps it.
LEMMA CheckStep ==
    ASSUME NoWrap, TypeOK, TotalPosMatch(peerPool, voteInfo), TotalPosCapped(peerPool, globalParam),
           NEW p \in Peers, CheckVoteInfo(p)
    PROVE  TotalPosMatch(peerPool', voteInfo') /\ TotalPosCapped(peerPool', globalParam')
<1>. DEFINE sum == SumFunctionOnSet(VotedIn(voteInfo, p), Addrs)
<1>1. p \in DOMAIN peerPool /\ peerPool[p].status \in Votable
  BY DEF CheckVoteInfo, Votable
<1>2. peerPool[p].totalPos = sum
  BY <1>1 DEF TotalPosMatch, WithStatus
<1>3. sum \in Nat /\ sum < Word
  <2>1. peerPool[p].totalPos \in Nat
    BY <1>1 DEF TypeOK, PeerPoolItem
  <2>2. 0 \in Amounts \cup {0}
    OBVIOUS
  <2>3. peerPool[p].totalPos + 0 < Word
    BY <1>1, <2>1, <2>2, CappedNoWrap
  <2>. QED  BY <1>2, <2>1, <2>3
<1>4. U64(sum) = sum
  BY <1>3, U64Id
<1>5. peerPool' = [peerPool EXCEPT ![p].totalPos = sum]
      /\ sum \in 0..(globalParam.posLimit * peerPool[p].initPos)
  BY <1>4, CheckSumIs DEF CheckVoteInfo
<1>6. peerPool' = peerPool
  BY <1>2, <1>5 DEF TypeOK, PeerPoolItem
<1>. QED  BY <1>6 DEF CheckVoteInfo

-----------------------------------------------------------------------------
(* Every step                                                               *)

LEMMA TotalPosStep ==
    ASSUME PostFork, NoWrap, TypeOK, SlotsMatchStatus,
           TotalPosMatch(peerPool, voteInfo), TotalPosCapped(peerPool, globalParam),
           [Next]_vars
    PROVE  TotalPosMatch(peerPool', voteInfo') /\ TotalPosCapped(peerPool', globalParam')
<1>. DEFINE Goal == TotalPosMatch(peerPool', voteInfo') /\ TotalPosCapped(peerPool', globalParam')
<1>1. ASSUME NEW p \in Peers, NEW a \in Addrs, NEW n \in Amounts, RegisterCandidate(p, a, n)
      PROVE  Goal
  BY <1>1, RegisterStep
<1>2. ASSUME NEW p \in Peers, UnRegisterCandidate(p) PROVE Goal
  <2>1. \A q \in Peers \ {p} : VotedIn(voteInfo', q) = VotedIn(voteInfo, q)
    BY <1>2 DEF UnRegisterCandidate, VotedIn, TypeOK
  <2>. QED  BY <1>2, <2>1, QuietStep DEF UnRegisterCandidate, Votable, TypeOK, PeerPoolItem
<1>3. ASSUME NEW p \in Peers, ApproveCandidate(p) PROVE Goal
  <2>1. ~(height < ApproveResetHeight)
    BY DEF PostFork, TypeOK
  <2>2. peerPool' = [peerPool EXCEPT ![p].status = "Candidate"]
    BY <1>3, <2>1 DEF ApproveCandidate
  <2>3. /\ DOMAIN peerPool' = DOMAIN peerPool
        /\ \A q \in DOMAIN peerPool :
              /\ peerPool'[q].initPos = peerPool[q].initPos
              /\ peerPool'[q].totalPos = peerPool[q].totalPos
              /\ peerPool'[q].status \in Votable => peerPool[q].status \in Votable
    <3>1. p \in DOMAIN peerPool /\ peerPool[p].status = "RegisterCandidate"
      BY <1>3 DEF ApproveCandidate
    <3>2. peerPool[p] \in PeerPoolItem
      BY <3>1 DEF TypeOK
    <3>. QED  BY <2>2, <3>1, <3>2 DEF PeerPoolItem, Votable
  <2>4. voteInfo' = voteInfo /\ globalParam' = globalParam
    BY <1>3 DEF ApproveCandidate
  <2>. QED  BY <2>3, <2>4, QuietStep
<1>4. ASSUME NEW p \in Peers, RejectCandidate(p) PROVE Goal
  BY <1>4, QuietStep DEF RejectCandidate, Votable, TypeOK, PeerPoolItem
<1>5. ASSUME NEW p \in Peers, WhiteNode(p) PROVE Goal
  BY <1>5, QuietStep DEF WhiteNode
<1>6. ASSUME NEW p \in Peers, QuitNode(p) PROVE Goal
  BY <1>6, QuietStep DEF QuitNode, Votable, TypeOK, PeerPoolItem
<1>7. ASSUME NEW p \in Peers, CheckVoteInfo(p) PROVE Goal
  BY <1>7, CheckStep
<1>8. ASSUME NEW S \in SUBSET Peers, BlackNode(S) PROVE Goal
  <2>. DEFINE pl == BlackPool(S)
  <2>1. WellFormed(pl)
    BY BlackPoolWellFormed
  <2>2. /\ DOMAIN pl = DOMAIN peerPool
        /\ \A q \in DOMAIN pl : /\ pl[q].totalPos = peerPool[q].totalPos
                                /\ pl[q].initPos = peerPool[q].initPos
                                /\ pl[q].status \in Votable => peerPool[q].status = pl[q].status
    BY DEF BlackPool, TypeOK, PeerPoolItem, Votable
  <2>3. TotalPosMatch(pl, voteInfo) /\ TotalPosCapped(pl, globalParam)
    BY <2>2 DEF TotalPosMatch, TotalPosCapped, WithStatus
  <2>4. CASE ExecuteCommitDpos(pl)
    BY <2>1, <2>3, <2>4, CommitMatch
  <2>5. CASE peerPool' = pl /\ voteInfo' = voteInfo /\ globalParam' = globalParam
    BY <2>3, <2>5
  <2>. QED  BY <1>8, <2>4, <2>5 DEF BlackNode, BlackPool
<1>9. ASSUME NEW a \in Addrs, NEW p \in Peers, NEW n \in Amounts, VoteForPeer(a, p, n)
      PROVE  Goal
  BY <1>9, VoteStep
<1>10. ASSUME NEW a \in Addrs, NEW p \in Peers, NEW n \in Amounts, UnVoteForPeer(a, p, n)
       PROVE  Goal
  BY <1>10, UnVoteStep
<1>11. ASSUME NEW a \in Addrs, NEW p \in Peers, NEW n \in Amounts, Withdraw(a, p, n)
       PROVE  Goal
  <2>1. \A q \in Peers : VotedIn(voteInfo', q) = VotedIn(voteInfo, q)
    BY <1>11 DEF Withdraw, VotedIn, ActivePos, TypeOK, VoteInfo
  <2>. QED  BY <1>11, <2>1, QuietStep DEF Withdraw, TypeOK
<1>12. CASE CommitDpos
  <2>1. WellFormed(peerPool)
    BY DEF WellFormed, TypeOK
  <2>. QED  BY <1>12, <2>1, CommitMatch DEF CommitDpos
<1>13. ASSUME NEW p \in Peers, NEW a \in Addrs, TransferPenalty(p, a) PROVE Goal
  BY <1>13, QuietStep DEF TransferPenalty
<1>14. ASSUME NEW k \in KRange, UpdateConfig(k) PROVE Goal
  BY <1>14, QuietStep DEF UpdateConfig
<1>15. ASSUME NEW g \in GlobalParamInputs, UpdateGlobalParam(g) PROVE Goal
  <2>1. g.posLimit \in PosLimits
    BY DEF PosLimits
  <2>. QED  BY <1>15, <2>1 DEF UpdateGlobalParam, TotalPosMatch, TotalPosCapped, WithStatus
<1>16. CASE NewBlock
  BY <1>16, QuietStep DEF NewBlock
<1>17. CASE UNCHANGED vars
  BY <1>17, QuietStep DEF vars
<1>. QED
  BY <1>1, <1>2, <1>3, <1>4, <1>5, <1>6, <1>7, <1>8, <1>9, <1>10, <1>11, <1>12,
     <1>13, <1>14, <1>15, <1>16, <1>17 DEF Next

-----------------------------------------------------------------------------
(* The theorem                                                              *)

\* After the approveCandidate fork, and when no TotalPos the PosLimit check
\* admits can wrap, every RegisterCandidate, Candidate or Consensus peer's
\* TotalPos equals the active stake its voters hold for it in every
\* reachable state, across any interleaving of votes, unvotes, withdrawals,
\* blacks, quits, checkVoteInfo repairs and commits.  The inductive
\* invariant is TotalPosMatch with TotalPosCapped, under the proved
\* invariants TypeOK and SlotsMatchStatus.
THEOREM TotalPosInvariant ==
    ASSUME PostFork, NoWrap
    PROVE  Spec => []TotalPosMatchesVotes
<1>. DEFINE IInv == TotalPosMatch(peerPool, voteInfo) /\ TotalPosCapped(peerPool, globalParam)
<1>1. Init => IInv
  BY MatchInit
<1>2. TypeOK /\ SlotsMatchStatus /\ IInv /\ [Next]_vars => IInv'
  BY TotalPosStep
<1>3. IInv => TotalPosMatchesVotes
  BY MatchIs
<1>4. Spec => []TypeOK /\ []SlotsMatchStatus
  BY TypeCorrect, SlotsInvariant
<1>. QED  BY <1>1, <1>2, <1>3, <1>4, PTL DEF Spec
=============================================================================
