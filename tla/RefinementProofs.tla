-------------------------- MODULE RefinementProofs --------------------------
(***************************************************************************)
(* The governance contract implements the peer lifecycle of PeerLifecycle *)
(* under the mapping of Governance (Life): every handler step is a step   *)
(* of the lifecycle or leaves the status of every peer, the black list,   *)
(* the view, K and CandidateNum alone.  The commit step rests on          *)
(* ElectedCount: the contract elects exactly K peers.                     *)
(***************************************************************************)
EXTENDS ElectionProofs

USE ConstantsAssumption

\* The lifecycle status of every peer in a pool pl.
StatusOf(pl) == [p \in Peers |-> IF p \in DOMAIN pl THEN pl[p].status ELSE "Absent"]

\* The lifecycle counts peers with the same Cardinality.
LEMMA LifeCardinality == \A S : Life!Cardinality(S) = Cardinality(S)
BY DEF Life!Cardinality, Cardinality

\* No stored status is "Absent".
LEMMA AbsentNotStatus == "Absent" \notin Status
BY DEF Status

\* The Candidate/Consensus peers of the lifecycle are those of the pool.
LEMMA ActiveIsEligible ==
    ASSUME NEW pl, WellFormed(pl)
    PROVE  Life!Active(StatusOf(pl)) = Eligible(pl)
BY DEF Life!Active, StatusOf, Eligible, WithStatus, WellFormed

\* A step that keeps the keys of the pool and the status of every peer
\* leaves the lifecycle status alone.
LEMMA StatusKept ==
    ASSUME NEW pl, NEW pl2, DOMAIN pl2 = DOMAIN pl,
           \A x \in DOMAIN pl : pl2[x].status = pl[x].status
    PROVE  StatusOf(pl2) = StatusOf(pl)
BY DEF StatusOf

\* The lifecycle status after a commit from pl is the lifecycle's
\* AfterCommit with the elected peers as the committee.
LEMMA CommitMaps ==
    ASSUME NEW pl, WellFormed(pl), ExecuteCommitDpos(pl)
    PROVE  StatusOf(peerPool') = Life!AfterCommit(StatusOf(pl), Elected(pl))
<1> DEFINE st == StatusOf(pl)
           C == Elected(pl)
<1>1. C \subseteq Eligible(pl)  BY DEF Elected
<1>2. Life!Active(st) = Eligible(pl)  BY ActiveIsEligible
<1>3. DOMAIN peerPool' = DOMAIN pl \ WithStatus(pl, {"Quiting", "Black", "QuitCandidate"})
  BY PoolAfterCommit
<1>4. ASSUME NEW x \in Peers
      PROVE  StatusOf(peerPool')[x] = Life!AfterCommit(st, C)[x]
  <2>1. CASE x \notin DOMAIN pl
    <3>1. st[x] = "Absent" /\ x \notin C /\ x \notin Life!Active(st)
      BY <2>1, <1>1, <1>2 DEF StatusOf, Eligible, WithStatus
    <3>2. Life!AfterCommit(st, C)[x] = "Absent"
      BY <3>1 DEF Life!AfterCommit, Life!Terminal
    <3>. QED  BY <2>1, <1>3, <3>2 DEF StatusOf
  <2>2. CASE x \in DOMAIN pl /\ pl[x].status \in {"Quiting", "Black", "QuitCandidate"}
    <3>1. st[x] \in Life!Terminal  BY <2>2 DEF StatusOf, Life!Terminal
    <3>2. x \notin C /\ x \notin Life!Active(st)
      BY <2>2, <1>1, <1>2 DEF Eligible, WithStatus
    <3>3. Life!AfterCommit(st, C)[x] = "Absent"
      BY <3>1, <3>2 DEF Life!AfterCommit, Life!Terminal
    <3>. QED  BY <2>2, <1>3, <3>3 DEF StatusOf, WithStatus
  <2>3. CASE x \in DOMAIN pl /\ pl[x].status \notin {"Quiting", "Black", "QuitCandidate"}
    <3>1. x \in DOMAIN peerPool' /\ StatusOf(peerPool')[x] = NewStatus(pl, x)
      BY <2>3, <1>3, PoolAfterCommit DEF StatusOf, WithStatus
    <3>2. st[x] = pl[x].status /\ st[x] \notin Life!Terminal
      BY <2>3 DEF StatusOf, Life!Terminal
    <3>3. pl[x].status \in Status  BY <2>3 DEF WellFormed, PeerPoolItem
    <3>4. CASE x \in C
      BY <3>1, <3>2, <3>4, <1>1, NewStatusCases DEF Life!AfterCommit, Eligible, WithStatus
    <3>5. CASE x \in Eligible(pl) \ C
      BY <3>1, <3>2, <3>5, <1>2, NewStatusCases DEF Life!AfterCommit, Eligible, WithStatus
    <3>6. CASE x \notin Eligible(pl)
      BY <2>3, <3>1, <3>2, <3>3, <3>6, <1>1, <1>2, NewStatusCases
         DEF Life!AfterCommit, Eligible, WithStatus, Status
    <3>. QED  BY <3>4, <3>5, <3>6
  <2>. QED  BY <2>1, <2>2, <2>3
<1>. QED  BY <1>4 DEF StatusOf, Life!AfterCommit

\* The lifecycle status of the mapping is that of the current pool.
LEMMA PoolStatusIs == PoolStatus = StatusOf(peerPool) /\ PoolStatus' = StatusOf(peerPool')
BY DEF PoolStatus, StatusOf

\* A commit from a pool whose lifecycle status is st is a commit of the
\* lifecycle from st, electing the peers the contract elects.
LEMMA CommitRefines ==
    ASSUME TypeOK, NEW pl, WellFormed(pl), ExecuteCommitDpos(pl)
    PROVE  Life!CommitFrom(StatusOf(pl))
<1> DEFINE st == StatusOf(pl)
<1>1. Life!Active(st) = Eligible(pl)  BY ActiveIsEligible
<1>2. confK \in Nat /\ Cardinality(Eligible(pl)) >= confK
  BY DEF TypeOK, ExecuteCommitDpos
<1>3. Elected(pl) \subseteq Life!Active(st) /\ Cardinality(Elected(pl)) = confK
  BY <1>1, <1>2, ElectedCount DEF Elected
<1>4. PoolStatus' = Life!AfterCommit(st, Elected(pl))
  BY CommitMaps, PoolStatusIs
<1>5. view' = view + 1  BY DEF ExecuteCommitDpos
<1>. QED  BY <1>1, <1>2, <1>3, <1>4, <1>5, LifeCardinality DEF Life!CommitFrom

\* The contract implements the lifecycle: the genesis pool is the
\* lifecycle's initial state, and every handler either is a lifecycle step
\* (registerCandidate a Register, unRegisterCandidate and rejectCandidate
\* a Withdrawn, approveCandidate an Approve under CandidateNum, quitNode a
\* Quit with more than K peers left, blackNode a Blacklist, whiteNode an
\* Unblacklist, updateConfig a Reconfigure, updateGlobalParam a
\* Recapacity, commitDpos a Commit electing exactly K peers) or leaves the
\* statuses, the black list, the view, K and CandidateNum alone.
THEOREM LifecycleRefinement == Spec => LifecycleRefined
<1>1. Init => Life!LInit
  <2> SUFFICES ASSUME Init PROVE Life!LInit
    OBVIOUS
  <2>1. PoolStatus = [p \in Peers |-> IF p \in InitPeers THEN "Consensus" ELSE "Absent"]
    BY DEF Init, InitPool, PoolStatus
  <2>. QED  BY <2>1 DEF Init, InitGlobalParam, Life!LInit
<1>2. TypeOK /\ [Next]_vars => [Life!LNext]_Life!lvars
  <2> SUFFICES ASSUME TypeOK, [Next]_vars PROVE [Life!LNext]_Life!lvars
    OBVIOUS
  <2>0. WellFormed(peerPool)  BY DEF TypeOK, WellFormed
  <2>1. ASSUME NEW p \in Peers, NEW a \in Addrs, NEW n \in Amounts,
               RegisterCandidate(p, a, n)
        PROVE  Life!Register(p)
    <3>1. PoolStatus[p] = "Absent"  BY <2>1 DEF RegisterCandidate, PoolStatus
    <3>2. PoolStatus' = [PoolStatus EXCEPT ![p] = "RegisterCandidate"]
      <4>1. /\ DOMAIN peerPool' = DOMAIN peerPool \cup {p}
            /\ peerPool'[p].status = "RegisterCandidate"
            /\ \A x \in DOMAIN peerPool \ {p} : peerPool'[x].status = peerPool[x].status
        BY <2>1 DEF RegisterCandidate
      <4>2. StatusOf(peerPool') = [StatusOf(peerPool) EXCEPT ![p] = "RegisterCandidate"]
        BY <4>1 DEF StatusOf
      <4>. QED  BY <4>2, PoolStatusIs
    <3>. QED  BY <2>1, <3>1, <3>2 DEF RegisterCandidate, Life!Register
  <2>2. ASSUME NEW p \in Peers, UnRegisterCandidate(p) \/ RejectCandidate(p)
        PROVE  Life!Withdrawn(p)
    <3>1. p \in DOMAIN peerPool /\ peerPool[p].status = "RegisterCandidate"
          /\ peerPool' = [peerPool EXCEPT ![p].status = "QuitCandidate"]
          /\ UNCHANGED <<blackList, view, confK, globalParam>>
      BY <2>2 DEF UnRegisterCandidate, RejectCandidate
    <3>2. PoolStatus' = [PoolStatus EXCEPT ![p] = "QuitCandidate"]
      <4>1. /\ DOMAIN peerPool' = DOMAIN peerPool \cup {p}
            /\ peerPool'[p].status = "QuitCandidate"
            /\ \A x \in DOMAIN peerPool \ {p} : peerPool'[x].status = peerPool[x].status
        BY <3>1 DEF TypeOK, PeerPoolItem
      <4>2. StatusOf(peerPool') = [StatusOf(peerPool) EXCEPT ![p] = "QuitCandidate"]
        BY <4>1 DEF StatusOf
      <4>. QED  BY <4>2, PoolStatusIs
    <3>. QED  BY <3>1, <3>2 DEF PoolStatus, Life!Withdrawn
  <2>3. ASSUME NEW p \in Peers, ApproveCandidate(p) PROVE Life!Approve(p)
    <3>1. p \in DOMAIN peerPool /\ peerPool[p].status = "RegisterCandidate"
      BY <2>3 DEF ApproveCandidate
    <3>2. PoolStatus' = [PoolStatus EXCEPT ![p] = "Candidate"]
      <4>1. /\ DOMAIN peerPool' = DOMAIN peerPool \cup {p}
            /\ peerPool'[p].status = "Candidate"
            /\ \A x \in DOMAIN peerPool \ {p} : peerPool'[x].status = peerPool[x].status
        BY <2>3, <3>1 DEF ApproveCandidate, TypeOK, PeerPoolItem
      <4>2. StatusOf(peerPool') = [StatusOf(peerPool) EXCEPT ![p] = "Candidate"]
        BY <4>1 DEF StatusOf
      <4>. QED  BY <4>2, PoolStatusIs
    <3>3. Cardinality(Life!Active(PoolStatus)) < globalParam.candidateNum
      BY <2>0, <2>3, ActiveIsEligible, PoolStatusIs DEF ApproveCandidate
    <3>. QED  BY <2>3, <3>1, <3>2, <3>3, LifeCardinality DEF ApproveCandidate, PoolStatus, Life!Approve
  <2>4. ASSUME NEW p \in Peers, WhiteNode(p) PROVE Life!Unblacklist(p)
    BY <2>4 DEF WhiteNode, PoolStatus, Life!Unblacklist
  <2>5. ASSUME NEW p \in Peers, QuitNode(p) PROVE Life!Quit(p)
    <3>1. p \in DOMAIN peerPool /\ peerPool[p].status \in {"Candidate", "Consensus"}
      BY <2>5 DEF QuitNode
    <3> DEFINE new == IF peerPool[p].status = "Consensus" THEN "QuitConsensus" ELSE "Quiting"
    <3>2. PoolStatus' = [PoolStatus EXCEPT ![p] = IF @ = "Consensus" THEN "QuitConsensus" ELSE "Quiting"]
      <4>1. /\ DOMAIN peerPool' = DOMAIN peerPool \cup {p}
            /\ peerPool'[p].status = new
            /\ \A x \in DOMAIN peerPool \ {p} : peerPool'[x].status = peerPool[x].status
        BY <2>5, <3>1 DEF QuitNode, TypeOK, PeerPoolItem
      <4>2. StatusOf(peerPool') = [StatusOf(peerPool) EXCEPT ![p] = new]
        BY <4>1 DEF StatusOf
      <4>3. PoolStatus[p] = peerPool[p].status  BY <3>1 DEF PoolStatus
      <4>. QED  BY <4>2, <4>3, PoolStatusIs
    <3>3. Cardinality(Life!Active(PoolStatus)) > confK
      BY <2>0, <2>5, ActiveIsEligible, PoolStatusIs DEF QuitNode
    <3>. QED  BY <2>5, <3>1, <3>2, <3>3, LifeCardinality DEF QuitNode, PoolStatus, Life!Quit
  <2>6. ASSUME NEW k \in KRange, UpdateConfig(k) PROVE Life!Reconfigure(k)
    <3>1. k <= Cardinality(Life!Active(PoolStatus))
      BY <2>0, <2>6, ActiveIsEligible, PoolStatusIs DEF UpdateConfig
    <3>. QED  BY <2>6, <3>1, LifeCardinality DEF UpdateConfig, PoolStatus, Life!Reconfigure
  <2>7. ASSUME NEW g \in GlobalParamInputs, UpdateGlobalParam(g) PROVE Life!Recapacity
    <3>1. g.candidateNum \in Nat  OBVIOUS
    <3>. QED  BY <2>7, <3>1 DEF UpdateGlobalParam, PoolStatus, Life!Recapacity
  <2>8. ASSUME CommitDpos PROVE Life!Commit
    <3>1. Life!CommitFrom(PoolStatus)
      BY <2>0, <2>8, CommitRefines, PoolStatusIs DEF CommitDpos
    <3>2. UNCHANGED <<blackList, confK, globalParam>>
      BY <2>8 DEF CommitDpos, ExecuteCommitDpos
    <3>. QED  BY <3>1, <3>2 DEF Life!Commit
  <2>9. ASSUME NEW S \in SUBSET Peers, S # {}, BlackNode(S)
        PROVE  Life!Blacklist(S) \/ Life!BlacklistSettled(S)
    <3> DEFINE st == [q \in Peers |-> IF q \in S THEN "Black" ELSE PoolStatus[q]]
    <3>1. S \subseteq DOMAIN peerPool /\ blackList' = blackList \cup S
      BY <2>9 DEF BlackNode
    <3>2. S \subseteq Life!InPool(PoolStatus)
      BY <3>1, AbsentNotStatus DEF TypeOK, PeerPoolItem, PoolStatus, Life!InPool
    <3>3. StatusOf(BlackPool(S)) = st
      BY <3>1 DEF StatusOf, BlackPool, PoolStatus
    <3>4. WellFormed(BlackPool(S))  BY BlackPoolWellFormed
    <3>5. Life!BlackFrom(S, Life!InPool(PoolStatus))
      <4>1. CASE \E p \in S : peerPool[p].status = "Consensus"
        <5>1. ExecuteCommitDpos(BlackPool(S))  BY <2>9, <4>1 DEF BlackNode, BlackPool
        <5>2. Life!CommitFrom(st)  BY <3>3, <3>4, <5>1, CommitRefines
        <5>3. \E p \in S : PoolStatus[p] = "Consensus"  BY <3>1, <4>1 DEF PoolStatus
        <5>4. UNCHANGED <<confK, globalParam>>  BY <5>1 DEF ExecuteCommitDpos
        <5>. QED  BY <2>9, <3>1, <3>2, <5>2, <5>3, <5>4 DEF Life!BlackFrom
      <4>2. CASE \A p \in S : peerPool[p].status # "Consensus"
        <5>1. peerPool' = BlackPool(S) /\ UNCHANGED <<view, confK, globalParam>>
          <6>1. ~\E p \in S : peerPool[p].status = "Consensus"  BY <4>2
          <6>. QED  BY <2>9, <6>1 DEF BlackNode, BlackPool
        <5>2. PoolStatus' = st  BY <3>3, <5>1, PoolStatusIs
        <5>3. \A p \in S : PoolStatus[p] # "Consensus"  BY <3>1, <4>2 DEF PoolStatus
        <5>. QED  BY <2>9, <3>1, <3>2, <5>1, <5>2, <5>3 DEF Life!BlackFrom
      <4>. QED  BY <4>1, <4>2
    \* A blackNode of non-terminal peers only is a step of spec.md 4.1.
    <3>6. CASE S \subseteq Life!NonTerminal(PoolStatus)
      BY <3>5, <3>6 DEF Life!BlackFrom, Life!Blacklist
    <3>7. CASE ~(S \subseteq Life!NonTerminal(PoolStatus))
      BY <3>5, <3>7 DEF Life!BlacklistSettled
    <3>. QED  BY <3>6, <3>7
  <2>10. ASSUME UNCHANGED <<blackList, view, confK, globalParam>>,
                DOMAIN peerPool' = DOMAIN peerPool,
                \A x \in DOMAIN peerPool : peerPool'[x].status = peerPool[x].status
         PROVE  UNCHANGED Life!lvars
    <3>1. PoolStatus' = PoolStatus  BY <2>10, StatusKept, PoolStatusIs
    <3>. QED  BY <2>10, <3>1 DEF Life!lvars
  <2>11. ASSUME NEW p \in Peers, CheckVoteInfo(p) PROVE UNCHANGED Life!lvars
    <3>1. p \in DOMAIN peerPool  BY <2>11 DEF CheckVoteInfo
    <3>2. PICK t \in Nat : peerPool' = [peerPool EXCEPT ![p].totalPos = t]
      <4>1. globalParam.posLimit * peerPool[p].initPos \in Nat
        BY <3>1, GlobalParamFields DEF TypeOK, PeerPoolItem
      <4>. QED  BY <2>11, <4>1, RangeNat, Zenon DEF CheckVoteInfo
    <3>. QED  BY <2>11, <3>1, <3>2, <2>10 DEF CheckVoteInfo
  <2>12. ASSUME NEW a \in Addrs, NEW p \in Peers, NEW n \in Amounts,
                VoteForPeer(a, p, n) \/ UnVoteForPeer(a, p, n)
         PROVE  UNCHANGED Life!lvars
    <3>1. p \in DOMAIN peerPool  BY <2>12 DEF VoteForPeer, UnVoteForPeer
    <3>2. \E t : peerPool' = [peerPool EXCEPT ![p].totalPos = t]
      BY <2>12 DEF VoteForPeer, UnVoteForPeer
    <3>3. UNCHANGED <<blackList, view, confK, globalParam>>
      BY <2>12 DEF VoteForPeer, UnVoteForPeer
    <3>. QED  BY <3>1, <3>2, <3>3, <2>10
  <2>13. ASSUME NEW a \in Addrs, NEW p \in Peers, NEW n \in Amounts, Withdraw(a, p, n)
         PROVE  UNCHANGED Life!lvars
    BY <2>13, <2>10 DEF Withdraw
  <2>14. ASSUME NEW p \in Peers, NEW a \in Addrs, TransferPenalty(p, a)
         PROVE  UNCHANGED Life!lvars
    BY <2>14, <2>10 DEF TransferPenalty
  <2>15. CASE NewBlock \/ UNCHANGED vars
    BY <2>15, <2>10 DEF NewBlock, vars
  <2>16. ASSUME BlackNode({}) PROVE UNCHANGED Life!lvars
    <3>1. peerPool' = [q \in DOMAIN peerPool |-> peerPool[q]] /\ blackList' = blackList
          /\ UNCHANGED <<view, confK, globalParam>>
      BY <2>16 DEF BlackNode
    <3>. QED  BY <3>1, <2>10
  <2>. QED
    BY <2>1, <2>2, <2>3, <2>4, <2>5, <2>6, <2>7, <2>8, <2>9, <2>16, <2>11, <2>12, <2>13, <2>14, <2>15
       DEF Next, Life!LNext, Life!PromisedNext
<1>. QED  BY <1>1, <1>2, TypeCorrect, PTL DEF Spec, LifecycleRefined, Life!LSpec

=============================================================================
