--------------------------- MODULE ElectionProofs ---------------------------
(***************************************************************************)
(* The election of executeCommitDpos for every value of the constants.    *)
(* The commit sorts the Candidate/Consensus peers by stake, then by       *)
(* pubkey, and takes the first K of the list.  The model writes the       *)
(* first K as the peers with fewer than K peers ahead of them (Elected).  *)
(* That this set has exactly K members is not obvious: it needs the sort  *)
(* order to be a strict total order, so that the number of peers ahead of *)
(* a peer (its rank) is different for every peer, and the ranks of n     *)
(* peers are then exactly 0..n-1.                                          *)
(***************************************************************************)
EXTENDS GovernanceProofs

USE ConstantsAssumption

-----------------------------------------------------------------------------
(* The rank of a peer in the sorted list                                    *)

\* The Candidate/Consensus peers sorted before p.
Ahead(pl, p) == {q \in Eligible(pl) : Beats(pl, q, p)}

\* The index of p in the sorted list.
Rank(pl, p) == Cardinality(Ahead(pl, p))

\* A pool a commit is run on: its keys are peers, its values pool items.
WellFormed(pl) == DOMAIN pl \subseteq Peers /\ pl \in [DOMAIN pl -> PeerPoolItem]

\* The sort order of executeCommitDpos is a strict total order on the pool:
\* stakes are naturals and pubkeys are distinct naturals.
LEMMA BeatsOrder ==
    ASSUME NEW pl, WellFormed(pl), NEW p \in DOMAIN pl, NEW q \in DOMAIN pl, NEW r \in DOMAIN pl
    PROVE  /\ ~Beats(pl, p, p)
           /\ Beats(pl, p, q) /\ Beats(pl, q, r) => Beats(pl, p, r)
           /\ p # q => Beats(pl, p, q) \/ Beats(pl, q, p)
           /\ Beats(pl, p, q) => ~Beats(pl, q, p)
<1>0. \A x \in DOMAIN pl : pl[x].totalPos + pl[x].initPos \in Nat
  BY DEF WellFormed, PeerPoolItem
<1>1. /\ Stake(pl, p) \in Nat /\ Stake(pl, q) \in Nat /\ Stake(pl, r) \in Nat
      /\ p \in Nat /\ q \in Nat /\ r \in Nat
  BY <1>0 DEF WellFormed, Stake, U64
<1>. QED  BY <1>1 DEF Beats

\* The Candidate/Consensus peers of a pool are finitely many, and so are
\* the peers ahead of any of them.
LEMMA EligibleFinite ==
    ASSUME NEW pl, WellFormed(pl)
    PROVE  /\ IsFiniteSet(Eligible(pl))
           /\ Cardinality(Eligible(pl)) \in Nat
           /\ \A p \in Eligible(pl) : IsFiniteSet(Ahead(pl, p)) /\ Rank(pl, p) \in Nat
<1>1. IsFiniteSet(Eligible(pl))
  BY FS_Subset DEF WellFormed, Eligible, WithStatus
<1>2. \A p \in Eligible(pl) : IsFiniteSet(Ahead(pl, p))
  BY <1>1, FS_Subset DEF Ahead
<1>. QED  BY <1>1, <1>2, FS_CardinalityType DEF Rank

\* A peer has fewer peers ahead of it than there are other peers.
LEMMA RankBound ==
    ASSUME NEW pl, WellFormed(pl), NEW p \in Eligible(pl)
    PROVE  Rank(pl, p) \in 0..(Cardinality(Eligible(pl)) - 1)
<1>1. IsFiniteSet(Eligible(pl)) /\ Cardinality(Eligible(pl)) \in Nat
  BY EligibleFinite
<1>2. Ahead(pl, p) \subseteq Eligible(pl) \ {p}
  <2>1. p \in DOMAIN pl  BY DEF Eligible, WithStatus
  <2>. QED  BY <2>1, BeatsOrder DEF Ahead, Eligible, WithStatus
<1>3. IsFiniteSet(Eligible(pl) \ {p})
      /\ Cardinality(Eligible(pl) \ {p}) = Cardinality(Eligible(pl)) - 1
  BY <1>1, FS_RemoveElement
<1>4. Cardinality(Ahead(pl, p)) <= Cardinality(Eligible(pl) \ {p})
  BY <1>2, <1>3, FS_Subset
<1>5. Rank(pl, p) \in Nat  BY EligibleFinite
<1>. QED  BY <1>3, <1>4, <1>5 DEF Rank

\* A peer sorted before another has a smaller rank: the peers ahead of it
\* are ahead of the other one too, and it is itself ahead of the other.
LEMMA RankMonotone ==
    ASSUME NEW pl, WellFormed(pl), NEW p \in Eligible(pl), NEW q \in Eligible(pl),
           Beats(pl, p, q)
    PROVE  Rank(pl, p) < Rank(pl, q)
<1>1. p \in DOMAIN pl /\ q \in DOMAIN pl  BY DEF Eligible, WithStatus
<1>2. Ahead(pl, p) \subseteq Ahead(pl, q)
  BY <1>1, BeatsOrder DEF Ahead, Eligible, WithStatus
<1>3. p \in Ahead(pl, q) /\ p \notin Ahead(pl, p)
  BY <1>1, BeatsOrder DEF Ahead
<1>4. IsFiniteSet(Ahead(pl, q)) /\ Rank(pl, p) \in Nat /\ Rank(pl, q) \in Nat
  BY EligibleFinite
<1>5. Rank(pl, p) <= Rank(pl, q) /\ (Rank(pl, p) = Rank(pl, q) => Ahead(pl, p) = Ahead(pl, q))
  BY <1>2, <1>4, FS_Subset DEF Rank
<1>. QED  BY <1>3, <1>4, <1>5

\* Two different peers have different ranks.
LEMMA RankInjective ==
    ASSUME NEW pl, WellFormed(pl), NEW p \in Eligible(pl), NEW q \in Eligible(pl), p # q
    PROVE  Rank(pl, p) # Rank(pl, q)
<1>1. Beats(pl, p, q) \/ Beats(pl, q, p)
  BY BeatsOrder DEF Eligible, WithStatus
<1>2. CASE Beats(pl, p, q)
  BY <1>2, RankMonotone, EligibleFinite
<1>3. CASE Beats(pl, q, p)
  BY <1>3, RankMonotone, EligibleFinite
<1>. QED  BY <1>1, <1>2, <1>3

\* The ranks of the n Candidate/Consensus peers are exactly 0..n-1: n
\* different ranks below n.
LEMMA RankOnto ==
    ASSUME NEW pl, WellFormed(pl)
    PROVE  \A i \in 0..(Cardinality(Eligible(pl)) - 1) : \E p \in Eligible(pl) : Rank(pl, p) = i
<1> DEFINE E == Eligible(pl)
           n == Cardinality(E)
           f == [p \in E |-> Rank(pl, p)]
<1>1. IsFiniteSet(E) /\ n \in Nat  BY EligibleFinite
<1>2. f \in Injection(E, 0..(n - 1))
  <2>1. f \in [E -> 0..(n - 1)]  BY RankBound
  <2>2. \A p, q \in E : f[p] = f[q] => p = q  BY RankInjective
  <2>. QED  BY <2>1, <2>2 DEF Injection, IsInjective
<1>3. IsFiniteSet(0..(n - 1)) /\ Cardinality(0..(n - 1)) = n
  <2>1. /\ IsFiniteSet(0..(n - 1))
        /\ Cardinality(0..(n - 1)) = IF 0 > n - 1 THEN 0 ELSE (n - 1) - 0 + 1
    <3>1. 0 \in Int /\ n - 1 \in Int  BY <1>1
    <3>. QED  BY <3>1, FS_Interval, Zenon
  <2>. QED  BY <1>1, <2>1
<1>4. f \in Surjection(E, 0..(n - 1))
  BY <1>2, <1>3, FS_Injection
<1>. QED  BY <1>4 DEF Surjection

\* executeCommitDpos elects exactly K peers when at least K are
\* Candidate/Consensus: the peers with fewer than K peers ahead of them
\* are the ones of rank 0..K-1, one for each rank.
LEMMA ElectedCount ==
    ASSUME NEW pl, WellFormed(pl), confK \in Nat, Cardinality(Eligible(pl)) >= confK
    PROVE  /\ IsFiniteSet(Elected(pl))
           /\ Cardinality(Elected(pl)) = confK
<1> DEFINE E == Eligible(pl)
           g == [p \in Elected(pl) |-> Rank(pl, p)]
<1>1. Elected(pl) = {p \in E : Rank(pl, p) < confK}
  BY DEF Elected, Rank, Ahead
<1>2. IsFiniteSet(E) /\ Cardinality(E) \in Nat  BY EligibleFinite
<1>3. IsFiniteSet(Elected(pl))  BY <1>1, <1>2, FS_Subset
<1>4. g \in [Elected(pl) -> 0..(confK - 1)]  BY <1>1, EligibleFinite
<1>5. \A p, q \in Elected(pl) : g[p] = g[q] => p = q  BY <1>1, RankInjective
<1>6. \A i \in 0..(confK - 1) : \E p \in Elected(pl) : g[p] = i
  <2> SUFFICES ASSUME NEW i \in 0..(confK - 1) PROVE \E p \in Elected(pl) : g[p] = i
    OBVIOUS
  <2>1. i \in 0..(Cardinality(E) - 1)  BY <1>2
  <2>2. PICK p \in E : Rank(pl, p) = i  BY <2>1, RankOnto
  <2>. QED  BY <2>2, <1>1
<1>7. g \in Bijection(Elected(pl), 0..(confK - 1))
  BY <1>4, <1>5, <1>6 DEF Bijection, Injection, IsInjective, Surjection
<1>8. Cardinality(0..(confK - 1)) = Cardinality(Elected(pl))
  BY <1>3, <1>7, FS_Bijection DEF ExistsBijection
<1>9. Cardinality(0..(confK - 1)) = confK
  <2>1. confK - 1 \in Int /\ (confK - 1) - 0 + 1 = confK  OBVIOUS
  <2>. QED  BY <2>1, FS_Interval
<1>. QED  BY <1>3, <1>8, <1>9

-----------------------------------------------------------------------------
(* The pool a commit leaves                                                 *)

\* The status executeCommitDpos gives each peer it keeps.
LEMMA NewStatusCases ==
    ASSUME NEW pl, WellFormed(pl), NEW x \in DOMAIN pl
    PROVE  /\ x \in Elected(pl) => NewStatus(pl, x) = "Consensus"
           /\ x \in Eligible(pl) \ Elected(pl) => NewStatus(pl, x) = "Candidate"
           /\ pl[x].status = "QuitConsensus" => NewStatus(pl, x) = "Quiting"
           /\ pl[x].status \notin {"Candidate", "Consensus", "QuitConsensus"}
                 => NewStatus(pl, x) = pl[x].status
<1>1. Elected(pl) \subseteq Eligible(pl)  BY DEF Elected
<1>. QED  BY <1>1 DEF NewStatus, Eligible, WithStatus

\* The peers a commit keeps, with the new status and the old stake.
LEMMA PoolAfterCommit ==
    ASSUME NEW pl, WellFormed(pl), ExecuteCommitDpos(pl)
    PROVE  /\ DOMAIN peerPool' = DOMAIN pl \ WithStatus(pl, {"Quiting", "Black", "QuitCandidate"})
           /\ \A x \in DOMAIN peerPool' :
                 /\ peerPool'[x].status = NewStatus(pl, x)
                 /\ peerPool'[x].totalPos = pl[x].totalPos
                 /\ peerPool'[x].initPos = pl[x].initPos
                 /\ peerPool'[x].address = pl[x].address
BY DEF ExecuteCommitDpos, WellFormed, PeerPoolItem

\* After a commit the Consensus peers are the elected ones, the Candidates
\* the other Candidate/Consensus peers of the pool it ran on.
LEMMA CommitStatuses ==
    ASSUME NEW pl, WellFormed(pl), ExecuteCommitDpos(pl)
    PROVE  /\ WithStatus(peerPool', {"Consensus"}) = Elected(pl)
           /\ WithStatus(peerPool', {"Candidate"}) = Eligible(pl) \ Elected(pl)
<1>1. Elected(pl) \subseteq Eligible(pl)  BY DEF Elected
<1>2. ASSUME NEW x \in DOMAIN peerPool'
      PROVE  /\ peerPool'[x].status = "Consensus" <=> x \in Elected(pl)
             /\ peerPool'[x].status = "Candidate" <=> x \in Eligible(pl) \ Elected(pl)
  <2>1. x \in DOMAIN pl /\ pl[x].status \notin {"Quiting", "Black", "QuitCandidate"}
    BY PoolAfterCommit DEF WithStatus
  <2>2. peerPool'[x].status = NewStatus(pl, x)  BY PoolAfterCommit
  <2>. QED  BY <1>1, <2>1, <2>2, NewStatusCases DEF Eligible, WithStatus
<1>3. Eligible(pl) \subseteq DOMAIN peerPool'
  <2>1. DOMAIN peerPool' = DOMAIN pl \ WithStatus(pl, {"Quiting", "Black", "QuitCandidate"})
    BY PoolAfterCommit
  <2>. QED  BY <2>1 DEF Eligible, WithStatus
<1>. QED  BY <1>2, <1>3, <1>1 DEF WithStatus

\* The elected peers are sorted before every other Candidate/Consensus peer.
LEMMA ElectedBeatOthers ==
    ASSUME NEW pl, WellFormed(pl), confK \in Nat,
           NEW c \in Elected(pl), NEW u \in Eligible(pl) \ Elected(pl)
    PROVE  Beats(pl, c, u)
<1>1. c \in Eligible(pl) /\ Rank(pl, c) < confK  BY DEF Elected, Rank, Ahead
<1>2. Rank(pl, u) >= confK
  <2>1. ~(Rank(pl, u) < confK)  BY DEF Elected, Rank, Ahead
  <2>2. Rank(pl, u) \in Nat  BY EligibleFinite
  <2>. QED  BY <2>1, <2>2
<1>3. c # u  OBVIOUS
<1>4. ~Beats(pl, u, c)
  BY <1>1, <1>2, RankMonotone, EligibleFinite
<1>. QED  BY <1>1, <1>3, <1>4, BeatsOrder DEF Eligible, WithStatus

-----------------------------------------------------------------------------
(* The steps that commit                                                    *)

\* The pool blackNode(S) commits from: the peers of S marked Black.
BlackPool(S) == [p \in DOMAIN peerPool |->
                   IF p \in S THEN [peerPool[p] EXCEPT !.status = "Black"] ELSE peerPool[p]]

LEMMA BlackPoolWellFormed ==
    ASSUME TypeOK, NEW S
    PROVE  /\ WellFormed(BlackPool(S))
           /\ Eligible(BlackPool(S)) \subseteq Eligible(peerPool)
<1>1. WellFormed(BlackPool(S))
  <2>1. \A p \in DOMAIN peerPool \cap S : [peerPool[p] EXCEPT !.status = "Black"] \in PeerPoolItem
    <3>1. "Black" \in Status  BY DEF Status
    <3>. QED  BY <3>1, ItemShape DEF TypeOK
  <2>. QED  BY <2>1 DEF TypeOK, WellFormed, BlackPool
<1>2. \A p \in DOMAIN peerPool :
        BlackPool(S)[p].status \in {"Candidate", "Consensus"} => peerPool[p].status \in {"Candidate", "Consensus"}
  BY DEF TypeOK, BlackPool, PeerPoolItem
<1>. QED  BY <1>1, <1>2 DEF BlackPool, Eligible, WithStatus

\* Only commitDpos and the blackNode of a Consensus peer change the view,
\* and both run executeCommitDpos.
LEMMA ViewChangeIsCommit ==
    ASSUME TypeOK, [Next]_vars, view' # view
    PROVE  \/ ExecuteCommitDpos(peerPool)
           \/ \E S \in SUBSET Peers : ExecuteCommitDpos(BlackPool(S))
<1>1. ASSUME NEW S \in SUBSET Peers, BlackNode(S)
      PROVE  ExecuteCommitDpos(BlackPool(S))
  BY <1>1 DEF BlackNode, BlackPool
<1>2. CASE CommitDpos
  BY <1>2 DEF CommitDpos
<1>3. ~\E p \in Peers, a \in Addrs, n \in Amounts : RegisterCandidate(p, a, n)
  BY DEF RegisterCandidate
<1>4. ~\E p \in Peers : UnRegisterCandidate(p) \/ ApproveCandidate(p) \/ RejectCandidate(p)
                          \/ WhiteNode(p) \/ QuitNode(p) \/ CheckVoteInfo(p)
  BY DEF UnRegisterCandidate, ApproveCandidate, RejectCandidate, WhiteNode, QuitNode, CheckVoteInfo
<1>5. ~\E a \in Addrs, p \in Peers, n \in Amounts :
          VoteForPeer(a, p, n) \/ UnVoteForPeer(a, p, n) \/ Withdraw(a, p, n)
  BY DEF VoteForPeer, UnVoteForPeer, Withdraw
<1>6. ~\E p \in Peers, a \in Addrs : TransferPenalty(p, a)
  BY DEF TransferPenalty
<1>7. ~\E k \in KRange : UpdateConfig(k)
  BY DEF UpdateConfig
<1>8. ~\E g \in GlobalParamInputs : UpdateGlobalParam(g)
  BY DEF UpdateGlobalParam
<1>9. ~NewBlock /\ ~UNCHANGED vars
  BY DEF NewBlock, vars
<1>. QED  BY <1>1, <1>2, <1>3, <1>4, <1>5, <1>6, <1>7, <1>8, <1>9 DEF Next

\* What CommitElectsTopK requires of a step that changes the view.
CommitOutcome ==
    LET C == WithStatus(peerPool', {"Consensus"})
        U == WithStatus(peerPool', {"Candidate"})
    IN /\ Cardinality(C) = confK
       /\ \A c \in C, u \in U : Outranks(peerPool', c, u)
       /\ C \cup U \subseteq Eligible(peerPool)

\* The commit step of a pool whose Candidate/Consensus peers are among
\* those of the current pool elects exactly K of them, each sorted before
\* every one left a Candidate.
LEMMA CommitElects ==
    ASSUME TypeOK, NEW pl, WellFormed(pl), Eligible(pl) \subseteq Eligible(peerPool),
           ExecuteCommitDpos(pl)
    PROVE  CommitOutcome
<1>1. confK \in Nat /\ Cardinality(Eligible(pl)) >= confK
  BY DEF TypeOK, ExecuteCommitDpos
<1>2. /\ WithStatus(peerPool', {"Consensus"}) = Elected(pl)
      /\ WithStatus(peerPool', {"Candidate"}) = Eligible(pl) \ Elected(pl)
  BY CommitStatuses
<1>3. Cardinality(Elected(pl)) = confK
  BY <1>1, ElectedCount
<1>4. ASSUME NEW c \in Elected(pl), NEW u \in Eligible(pl) \ Elected(pl)
      PROVE  Outranks(peerPool', c, u)
  <2>1. Beats(pl, c, u)  BY <1>1, ElectedBeatOthers
  <2>2. c \in DOMAIN peerPool' /\ u \in DOMAIN peerPool'
    BY <1>2 DEF WithStatus
  <2>3. /\ peerPool'[c].totalPos = pl[c].totalPos /\ peerPool'[c].initPos = pl[c].initPos
        /\ peerPool'[u].totalPos = pl[u].totalPos /\ peerPool'[u].initPos = pl[u].initPos
    BY <2>2, PoolAfterCommit
  <2>. QED  BY <2>1, <2>3 DEF Beats, Stake, U64, Outranks
<1>5. Elected(pl) \subseteq Eligible(pl)  BY DEF Elected
<1>. QED  BY <1>2, <1>3, <1>4, <1>5 DEF CommitOutcome

\* Every commit, by commitDpos or by the blackNode of a Consensus peer,
\* leaves exactly K Consensus peers, each ranked above every remaining
\* Candidate, all of them Candidate/Consensus peers before the commit.
\* For every number of peers and every K: the election of
\* executeCommitDpos never elects fewer or more than K.
THEOREM ElectsTopK == Spec => CommitElectsTopK
<1>1. TypeOK /\ [Next]_vars =>
        [view' # view => CommitOutcome]_vars
  <2> SUFFICES ASSUME TypeOK, [Next]_vars, view' # view
               PROVE  CommitOutcome
    OBVIOUS
  <2>1. CASE ExecuteCommitDpos(peerPool)
    <3>1. WellFormed(peerPool)  BY DEF TypeOK, WellFormed
    <3>. QED  BY <2>1, <3>1, CommitElects
  <2>2. CASE \E S \in SUBSET Peers : ExecuteCommitDpos(BlackPool(S))
    <3>1. PICK S \in SUBSET Peers : ExecuteCommitDpos(BlackPool(S))  BY <2>2
    <3>2. WellFormed(BlackPool(S)) /\ Eligible(BlackPool(S)) \subseteq Eligible(peerPool)
      BY BlackPoolWellFormed
    <3>. QED  BY <3>1, <3>2, CommitElects
  <2>. QED  BY <2>1, <2>2, ViewChangeIsCommit
<1>. QED  BY <1>1, TypeCorrect, PTL DEF Spec, CommitElectsTopK, CommitOutcome

=============================================================================
