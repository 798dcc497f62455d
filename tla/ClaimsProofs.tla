---------------------------- MODULE ClaimsProofs ----------------------------
(***************************************************************************)
(* Proof that executeCommitDpos creates and destroys no ZPT claim          *)
(* (CommitConservesClaims), for every value of the constants.              *)
(*                                                                         *)
(* Claims adds three sums: the InitPos of the pool's peers, every slot of  *)
(* every vote record, and the penalty stakes.  The proof regroups them     *)
(* into one sum over the peers of what each peer accounts for (PeerClaim)  *)
(* and shows the commit keeps each peer's share: a quitting peer's InitPos *)
(* moves to its owner's WithdrawUnfreezePos, a black peer's InitPos and    *)
(* the penalty of each of its records move to its penalty stake, and the   *)
(* status helpers move stake between the slots of a record.                *)
(***************************************************************************)
EXTENDS ElectionProofs, SumLemmas

-----------------------------------------------------------------------------
(* Claims regrouped by peer                                                 *)

\* What the voters of p hold in p's vote records, as Claims sums it.
HeldSum(vi, p) == MapThenSumSet(LAMBDA a : Held(vi[p][a]), Addrs)

\* Claims for a pool pl, a vote pool vi and penalty stakes ps.
ClaimsFor(pl, vi, ps) ==
    MapThenSumSet(LAMBDA p : pl[p].initPos, DOMAIN pl)
    + MapThenSumSet(LAMBDA p : HeldSum(vi, p), Peers)
    + MapThenSumSet(LAMBDA p : ps[p].initPos + ps[p].votePos, Peers)

\* A peer's InitPos while it is in the pool, 0 once it has left.
PoolInit(pl) == [p \in Peers |-> IF p \in DOMAIN pl THEN pl[p].initPos ELSE 0]

\* The stake each voter of p holds in p's vote records.
HeldIn(vi, p) == [a \in Addrs |-> Held(vi[p][a])]

\* Everything the contract owes on account of peer p.
PeerClaim(pl, vi, ps) ==
    [p \in Peers |-> PoolInit(pl)[p] + SumFunctionOnSet(HeldIn(vi, p), Addrs)
                     + (ps[p].initPos + ps[p].votePos)]

ClaimsOf(pl, vi, ps) == SumFunctionOnSet(PeerClaim(pl, vi, ps), Peers)

LEMMA ClaimsIsFor ==
    /\ Claims = ClaimsFor(peerPool, voteInfo, penaltyStake)
    /\ Claims' = ClaimsFor(peerPool', voteInfo', penaltyStake')
<1>1. Claims = ClaimsFor(peerPool, voteInfo, penaltyStake)
  BY Zenon DEF Claims, ClaimsFor, HeldSum
<1>2. Claims' = ClaimsFor(peerPool', voteInfo', penaltyStake')
  BY DEF Claims, ClaimsFor, HeldSum, MapThenSumSet, MapThenFoldSet
<1>. QED  BY <1>1, <1>2

LEMMA PoolSumIs ==
    ASSUME NEW pl
    PROVE  MapThenSumSet(LAMBDA p : pl[p].initPos, DOMAIN pl)
             = SumFunctionOnSet([p \in DOMAIN pl |-> pl[p].initPos], DOMAIN pl)
BY DEF MapThenSumSet, SumFunctionOnSet, FoldFunctionOnSet, MapThenFoldSet

LEMMA HeldSumIs ==
    ASSUME NEW vi, NEW p
    PROVE  HeldSum(vi, p) = SumFunctionOnSet(HeldIn(vi, p), Addrs)
BY DEF HeldSum, HeldIn, MapThenSumSet, SumFunctionOnSet, FoldFunctionOnSet, MapThenFoldSet

LEMMA OuterSumIs ==
    ASSUME NEW vi
    PROVE  MapThenSumSet(LAMBDA p : HeldSum(vi, p), Peers)
             = SumFunctionOnSet([p \in Peers |-> HeldSum(vi, p)], Peers)
BY DEF MapThenSumSet, SumFunctionOnSet, FoldFunctionOnSet, MapThenFoldSet

LEMMA PenSumIs ==
    ASSUME NEW ps
    PROVE  MapThenSumSet(LAMBDA p : ps[p].initPos + ps[p].votePos, Peers)
             = SumFunctionOnSet([p \in Peers |-> ps[p].initPos + ps[p].votePos], Peers)
BY DEF MapThenSumSet, SumFunctionOnSet, FoldFunctionOnSet, MapThenFoldSet

\* The penalties a commit takes from a black peer's records.
LEMMA PenaltySumIs ==
    ASSUME NEW p
    PROVE  MapThenSumSet(LAMBDA a : PenaltyOf(voteInfo[p][a]), Addrs)
             = SumFunctionOnSet([a \in Addrs |-> PenaltyOf(voteInfo[p][a])], Addrs)
BY DEF MapThenSumSet, SumFunctionOnSet, FoldFunctionOnSet, MapThenFoldSet

USE ConstantsAssumption


\* A record holds a natural amount.
LEMMA HeldNat ==
    ASSUME NEW vi \in [Peers -> [Addrs -> VoteInfo]], NEW p \in Peers
    PROVE  /\ \A a \in Addrs : HeldIn(vi, p)[a] \in Nat
           /\ SumFunctionOnSet(HeldIn(vi, p), Addrs) \in Nat
<1>1. \A a \in Addrs : HeldIn(vi, p)[a] \in Nat
  BY DEF HeldIn, Held, ActivePos, VoteInfo
<1>. QED  BY <1>1, SumType

\* Claims is the sum over the peers of what each accounts for.
LEMMA ClaimsOfIs ==
    ASSUME NEW pl, DOMAIN pl \subseteq Peers, pl \in [DOMAIN pl -> PeerPoolItem],
           NEW vi \in [Peers -> [Addrs -> VoteInfo]], NEW ps \in [Peers -> PenaltyStake]
    PROVE  ClaimsFor(pl, vi, ps) = ClaimsOf(pl, vi, ps)
<1>. DEFINE HS == [p \in Peers |-> SumFunctionOnSet(HeldIn(vi, p), Addrs)]
            PS == [p \in Peers |-> ps[p].initPos + ps[p].votePos]
            M == [p \in Peers |-> PoolInit(pl)[p] + HS[p]]
<1>1. \A p \in Peers : HS[p] \in Nat
  BY HeldNat
<1>2. \A p \in Peers : PoolInit(pl)[p] \in Nat /\ PS[p] \in Nat
  BY DEF PoolInit, PeerPoolItem, PenaltyStake
<1>3. MapThenSumSet(LAMBDA p : pl[p].initPos, DOMAIN pl) = SumFunctionOnSet(PoolInit(pl), Peers)
  <2>1. SumFunctionOnSet([p \in DOMAIN pl |-> pl[p].initPos], DOMAIN pl)
          = SumFunctionOnSet(PoolInit(pl), DOMAIN pl)
    <3>1. IsFiniteSet(DOMAIN pl)
      BY FS_Subset
    <3>2. \A x \in DOMAIN pl : [p \in DOMAIN pl |-> pl[p].initPos][x] = PoolInit(pl)[x]
      BY DEF PoolInit
    <3>. HIDE DEF PoolInit
    <3>. QED  BY <3>1, <3>2, SumExt
  <2>2. SumFunctionOnSet(PoolInit(pl), Peers) = SumFunctionOnSet(PoolInit(pl), DOMAIN pl)
    <3>1. \A x \in Peers \ DOMAIN pl : PoolInit(pl)[x] = 0
      BY DEF PoolInit
    <3>. QED  BY <1>2, <3>1, SumOnSubset
  <2>. QED  BY <2>1, <2>2, PoolSumIs
<1>4. MapThenSumSet(LAMBDA p : HeldSum(vi, p), Peers) = SumFunctionOnSet(HS, Peers)
  <2>1. [p \in Peers |-> HeldSum(vi, p)] = HS
    BY HeldSumIs
  <2>2. MapThenSumSet(LAMBDA p : HeldSum(vi, p), Peers)
          = SumFunctionOnSet([p \in Peers |-> HeldSum(vi, p)], Peers)
    BY OuterSumIs
  <2>. HIDE DEF HS
  <2>. QED  BY <2>1, <2>2
<1>5. MapThenSumSet(LAMBDA p : ps[p].initPos + ps[p].votePos, Peers) = SumFunctionOnSet(PS, Peers)
  BY PenSumIs
<1>6. SumFunctionOnSet(M, Peers) = SumFunctionOnSet(PoolInit(pl), Peers) + SumFunctionOnSet(HS, Peers)
  <2>. HIDE DEF HS
  <2>. QED  BY <1>1, <1>2, SumAdd
<1>7. SumFunctionOnSet(PeerClaim(pl, vi, ps), Peers) = SumFunctionOnSet(M, Peers) + SumFunctionOnSet(PS, Peers)
  <2>1. \A p \in Peers : M[p] \in Int /\ PS[p] \in Int /\ PeerClaim(pl, vi, ps)[p] = M[p] + PS[p]
    BY <1>1, <1>2 DEF PeerClaim
  <2>. HIDE DEF M, PS
  <2>. QED  BY <2>1, SumAdd
<1>. QED  BY <1>3, <1>4, <1>5, <1>6, <1>7 DEF ClaimsFor, ClaimsOf

-----------------------------------------------------------------------------
(* One peer at a commit                                                     *)

\* The status helpers move stake between the slots of a record and keep
\* what it holds; consensusToUnConsensus overwrites FreezePos, which the
\* commit's "freezePos should be 0" check makes 0 first.
LEMMA CommitKeepsHeld ==
    ASSUME TypeOK, NEW pl, WellFormed(pl), CommitChecksPass(pl), NEW x \in DOMAIN pl,
           pl[x].status \in {"RegisterCandidate", "Candidate", "Consensus", "QuitConsensus"},
           NEW a \in Addrs
    PROVE  Held(CommitVote(pl, x, a)) = Held(voteInfo[x][a])
<1>. DEFINE r == voteInfo[x][a]
<1>1. r \in VoteInfo
  BY DEF WellFormed, TypeOK
<1>2. CASE pl[x].status \in {"RegisterCandidate", "QuitConsensus"}
  <2>1. CommitVote(pl, x, a) = r
    BY <1>2 DEF CommitVote
  <2>. QED  BY <2>1
<1>3. CASE pl[x].status = "Consensus" /\ x \in Elected(pl)
  <2>1. CommitVote(pl, x, a) = ConsensusToConsensus(r)
    BY <1>3 DEF CommitVote
  <2>. QED  BY <1>1, <2>1 DEF ConsensusToConsensus, ShiftWithdraw, Held, ActivePos, VoteInfo
<1>4. CASE pl[x].status = "Candidate" /\ x \in Elected(pl)
  <2>1. CommitVote(pl, x, a) = UnConsensusToConsensus(r)
    BY <1>4 DEF CommitVote
  <2>. QED  BY <1>1, <2>1 DEF UnConsensusToConsensus, ShiftWithdraw, Held, ActivePos, VoteInfo
<1>5. CASE pl[x].status = "Consensus" /\ x \notin Elected(pl)
  <2>1. CommitVote(pl, x, a) = ConsensusToUnConsensus(r)
    BY <1>5 DEF CommitVote
  <2>2. r.freezePos = 0
    BY <1>5 DEF CommitChecksPass, Eligible, WithStatus
  <2>. QED  BY <1>1, <2>1, <2>2 DEF ConsensusToUnConsensus, ShiftWithdraw, Held, ActivePos, VoteInfo
<1>6. CASE pl[x].status = "Candidate" /\ x \notin Elected(pl)
  <2>1. CommitVote(pl, x, a) = UnConsensusToUnConsensus(r)
    BY <1>6 DEF CommitVote
  <2>. QED  BY <1>1, <2>1 DEF UnConsensusToUnConsensus, ShiftWithdraw, Held, ActivePos, VoteInfo
<1>. QED  BY <1>2, <1>3, <1>4, <1>5, <1>6

\* Over the voters, an amount paid to the owner address o alone sums to it.
LEMMA SumOwner ==
    ASSUME NEW o \in Addrs, NEW v \in Nat
    PROVE  SumFunctionOnSet([a \in Addrs |-> IF o = a THEN v ELSE 0], Addrs) = v
<1>. DEFINE F == [a \in Addrs |-> IF o = a THEN v ELSE 0]
<1>1. \A a \in Addrs : F[a] \in Int
  OBVIOUS
<1>2. SumFunctionOnSet(F, Addrs) = SumFunctionOnSet(F, {o})
  <2>1. \A a \in Addrs \ {o} : F[a] = 0
    OBVIOUS
  <2>. HIDE DEF F
  <2>. QED  BY <1>1, <2>1, SumOnSubset
<1>3. IsFiniteSet({o}) /\ IsFiniteSet({})
  BY FS_Singleton, FS_EmptySet
<1>4. SumFunctionOnSet(F, {o}) = F[o] + SumFunctionOnSet(F, {o} \ {o})
  <2>. HIDE DEF F
  <2>. QED  BY <1>1, <1>3, SumRemove
<1>5. SumFunctionOnSet(F, {}) = 0
  <2>. HIDE DEF F
  <2>. QED  BY <1>3, SumZero
<1>6. {o} \ {o} = {}
  OBVIOUS
<1>. QED  BY <1>2, <1>4, <1>5, <1>6

\* A commit from pool pl keeps what each peer accounts for.
LEMMA PeerConserved ==
    ASSUME TypeOK, NEW pl, WellFormed(pl), ExecuteCommitDpos(pl), NEW p \in Peers
    PROVE  PeerClaim(peerPool', voteInfo', penaltyStake')[p] = PeerClaim(pl, voteInfo, penaltyStake)[p]
<1>. DEFINE gone == WithStatus(pl, {"Quiting", "Black", "QuitCandidate"})
            H == HeldIn(voteInfo, p)
            H2 == HeldIn(voteInfo', p)
            ps0 == penaltyStake[p].initPos + penaltyStake[p].votePos
<1>1. /\ DOMAIN peerPool' = DOMAIN pl \ gone
      /\ \A x \in DOMAIN peerPool' : peerPool'[x].initPos = pl[x].initPos
  BY PoolAfterCommit
<1>2. /\ voteInfo' = [q \in Peers |-> [a \in Addrs |-> CommitVote(pl, q, a)]]
      /\ CommitChecksPass(pl)
      /\ penaltyStake'[p] = IF p \in WithStatus(pl, {"Black"})
                            THEN [initPos |-> penaltyStake[p].initPos + pl[p].initPos,
                                  votePos |-> penaltyStake[p].votePos
                                              + MapThenSumSet(LAMBDA a : PenaltyOf(voteInfo[p][a]), Addrs)]
                            ELSE penaltyStake[p]
  BY DEF ExecuteCommitDpos
<1>0. /\ \A a \in Addrs : H2[a] \in Nat
      /\ SumFunctionOnSet(H2, Addrs) \in Nat
  <2>1. voteInfo' \in [Peers -> [Addrs -> VoteInfo]]
    BY CommitType DEF WellFormed
  <2>. QED  BY <2>1, HeldNat
<1>3. \A a \in Addrs : H2[a] = Held(CommitVote(pl, p, a)) /\ H[a] = Held(voteInfo[p][a])
  BY <1>2 DEF HeldIn
<1>4. /\ \A a \in Addrs : voteInfo[p][a] \in VoteInfo /\ H[a] \in Nat
      /\ SumFunctionOnSet(H, Addrs) \in Nat
      /\ globalParam.penalty \in 0..100
      /\ penaltyStake[p] \in PenaltyStake
  BY HeldNat, GlobalParamFields DEF TypeOK
<1>5. CASE p \notin DOMAIN pl
  <2>1. H2 = H
    BY <1>3, <1>5 DEF CommitVote, HeldIn
  <2>2. p \notin DOMAIN peerPool' /\ penaltyStake'[p] = penaltyStake[p]
    BY <1>1, <1>2, <1>5 DEF WithStatus
  <2>. QED  BY <1>5, <2>1, <2>2 DEF PeerClaim, PoolInit
<1>6. CASE p \in DOMAIN pl /\ pl[p].status \in {"Quiting", "QuitCandidate"}
  <2>. DEFINE ip == pl[p].initPos
              o == pl[p].address
              Own == [a \in Addrs |-> IF o = a THEN ip ELSE 0]
  <2>1. ip \in Nat /\ o \in Addrs
    BY <1>6 DEF WellFormed, PeerPoolItem
  <2>2. \A a \in Addrs : H2[a] = H[a] + Own[a] /\ Own[a] \in Int
    <3>1. \A a \in Addrs : CommitVote(pl, p, a) = NormalQuit(voteInfo[p][a], IF o = a THEN ip ELSE 0)
      BY <1>6 DEF CommitVote
    <3>. QED  BY <1>3, <1>4, <2>1, <3>1 DEF NormalQuit, NoVote, Held, Locked, Active, ActivePos, VoteInfo
  <2>3. SumFunctionOnSet(H2, Addrs) = SumFunctionOnSet(H, Addrs) + ip
    <3>1. SumFunctionOnSet(Own, Addrs) = ip
      BY <2>1, SumOwner
    <3>2. SumFunctionOnSet(H2, Addrs) = SumFunctionOnSet(H, Addrs) + SumFunctionOnSet(Own, Addrs)
      <4>. HIDE DEF H, H2, Own
      <4>. QED  BY <1>4, <2>2, SumAdd
    <3>. QED  BY <3>1, <3>2
  <2>4. p \notin DOMAIN peerPool' /\ penaltyStake'[p] = penaltyStake[p]
    BY <1>1, <1>2, <1>6 DEF WithStatus
  <2>. QED  BY <1>4, <1>6, <2>1, <2>3, <2>4 DEF PeerClaim, PoolInit
<1>7. CASE p \in DOMAIN pl /\ pl[p].status = "Black"
  <2>. DEFINE ip == pl[p].initPos
              Pen == [a \in Addrs |-> PenaltyOf(voteInfo[p][a])]
  <2>1. ip \in Nat
    BY <1>7 DEF WellFormed, PeerPoolItem
  <2>2. \A a \in Addrs : H[a] = H2[a] + Pen[a] /\ H2[a] \in Int /\ Pen[a] \in Int
    <3>1. \A a \in Addrs : CommitVote(pl, p, a) = BlackQuit(voteInfo[p][a])
      BY <1>7 DEF CommitVote
    <3>2. \A a \in Addrs : PenaltyOf(voteInfo[p][a]) \in 0..Locked(voteInfo[p][a])
                           /\ Locked(voteInfo[p][a]) \in Nat
      BY <1>4, PenaltyBound
    <3>. QED  BY <1>3, <1>4, <3>1, <3>2 DEF BlackQuit, NoVote, Held, Locked, Active, ActivePos, VoteInfo
  <2>3. SumFunctionOnSet(H, Addrs) = SumFunctionOnSet(H2, Addrs) + SumFunctionOnSet(Pen, Addrs)
    <3>. HIDE DEF H, H2, Pen
    <3>. QED  BY <2>2, SumAdd
  <2>4. SumFunctionOnSet(Pen, Addrs) \in Nat
    <3>1. \A a \in Addrs : Pen[a] \in Nat
      BY <1>4, PenaltyBound
    <3>. HIDE DEF Pen
    <3>. QED  BY <3>1, SumType
  <2>5. penaltyStake'[p].initPos + penaltyStake'[p].votePos = ps0 + ip + SumFunctionOnSet(Pen, Addrs)
    <3>1. p \in WithStatus(pl, {"Black"})
      BY <1>7 DEF WithStatus
    <3>2. MapThenSumSet(LAMBDA a : PenaltyOf(voteInfo[p][a]), Addrs) = SumFunctionOnSet(Pen, Addrs)
      BY PenaltySumIs
    <3>3. penaltyStake'[p] = [initPos |-> penaltyStake[p].initPos + ip,
                              votePos |-> penaltyStake[p].votePos + SumFunctionOnSet(Pen, Addrs)]
      BY <1>2, <3>1, <3>2
    <3>4. penaltyStake[p].initPos \in Nat /\ penaltyStake[p].votePos \in Nat
      BY <1>4 DEF PenaltyStake
    <3>. QED  BY <2>1, <2>4, <3>3, <3>4
  <2>6. p \notin DOMAIN peerPool' /\ PoolInit(pl)[p] = ip /\ PoolInit(peerPool')[p] = 0
    BY <1>1, <1>7 DEF WithStatus, PoolInit
  <2>7. ps0 \in Nat
    BY <1>4 DEF PenaltyStake
  <2>. QED  BY <1>0, <1>4, <2>1, <2>3, <2>4, <2>5, <2>6, <2>7 DEF PeerClaim
<1>8. CASE p \in DOMAIN pl /\ pl[p].status \notin {"Quiting", "QuitCandidate", "Black"}
  <2>1. pl[p].status \in {"RegisterCandidate", "Candidate", "Consensus", "QuitConsensus"}
    BY <1>8 DEF WellFormed, PeerPoolItem, Status
  <2>2. H2 = H
    <3>1. \A a \in Addrs : Held(CommitVote(pl, p, a)) = Held(voteInfo[p][a])
      BY <1>2, <1>8, <2>1, CommitKeepsHeld
    <3>. QED  BY <1>3, <3>1 DEF HeldIn
  <2>3. p \in DOMAIN peerPool' /\ penaltyStake'[p] = penaltyStake[p]
    BY <1>1, <1>2, <1>8 DEF WithStatus
  <2>. QED  BY <1>1, <2>2, <2>3 DEF PeerClaim, PoolInit
<1>. QED  BY <1>5, <1>6, <1>7, <1>8

-----------------------------------------------------------------------------
(* The commit                                                               *)

\* A commit from a pool pl with the current pool's InitPos keeps Claims.
LEMMA CommitClaims ==
    ASSUME TypeOK, NEW pl, WellFormed(pl), DOMAIN pl = DOMAIN peerPool,
           \A p \in DOMAIN pl : pl[p].initPos = peerPool[p].initPos,
           ExecuteCommitDpos(pl)
    PROVE  Claims' = Claims
<1>1. /\ DOMAIN peerPool' \subseteq Peers
      /\ peerPool' \in [DOMAIN peerPool' -> PeerPoolItem]
      /\ voteInfo' \in [Peers -> [Addrs -> VoteInfo]]
      /\ penaltyStake' \in [Peers -> PenaltyStake]
  BY CommitType DEF WellFormed
<1>2. Claims' = ClaimsOf(peerPool', voteInfo', penaltyStake')
  BY <1>1, ClaimsIsFor, ClaimsOfIs
<1>3. Claims = ClaimsOf(peerPool, voteInfo, penaltyStake)
  BY ClaimsIsFor, ClaimsOfIs DEF TypeOK
<1>4. PeerClaim(pl, voteInfo, penaltyStake) = PeerClaim(peerPool, voteInfo, penaltyStake)
  <2>1. PoolInit(pl) = PoolInit(peerPool)
    BY DEF PoolInit
  <2>. QED  BY <2>1 DEF PeerClaim
<1>5. ClaimsOf(peerPool', voteInfo', penaltyStake') = ClaimsOf(pl, voteInfo, penaltyStake)
  <2>1. \A p \in Peers : PeerClaim(peerPool', voteInfo', penaltyStake')[p]
                           = PeerClaim(pl, voteInfo, penaltyStake)[p]
    BY PeerConserved
  <2>. HIDE DEF PeerClaim
  <2>. QED  BY <2>1, SumExt DEF ClaimsOf
<1>. QED  BY <1>2, <1>3, <1>4, <1>5 DEF ClaimsOf

\* Every step that changes the view, commitDpos or the blackNode of a
\* Consensus peer, keeps the total the contract owes: executeCommitDpos
\* moves InitPos to the owners of quitting peers and to the penalty stakes
\* of black ones, slashes black peers' records into their penalty stakes,
\* and shifts the rest between slots, in every reachable state.
THEOREM CommitConserves == Spec => CommitConservesClaims
<1>1. TypeOK /\ [Next]_vars => [view' # view => Claims' = Claims]_vars
  <2> SUFFICES ASSUME TypeOK, [Next]_vars, view' # view PROVE Claims' = Claims
    BY DEF vars
  <2>1. CASE ExecuteCommitDpos(peerPool)
    <3>1. WellFormed(peerPool)
      BY DEF WellFormed, TypeOK
    <3>. QED  BY <2>1, <3>1, CommitClaims
  <2>2. ASSUME NEW S \in SUBSET Peers, ExecuteCommitDpos(BlackPool(S)) PROVE Claims' = Claims
    <3>1. WellFormed(BlackPool(S))
      BY BlackPoolWellFormed
    <3>2. DOMAIN BlackPool(S) = DOMAIN peerPool
          /\ \A p \in DOMAIN peerPool : BlackPool(S)[p].initPos = peerPool[p].initPos
      BY DEF BlackPool, TypeOK, PeerPoolItem
    <3>. QED  BY <2>2, <3>1, <3>2, CommitClaims
  <2>. QED  BY <2>1, <2>2, ViewChangeIsCommit
<1>. QED  BY <1>1, TypeCorrect, PTL DEF Spec, CommitConservesClaims
=============================================================================
