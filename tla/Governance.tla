----------------------------- MODULE Governance -----------------------------
(***************************************************************************)
(* The governance native contract of ZeepinChain                          *)
(* (src/smartcontract/service/native/governance): the peer pool of the     *)
(* current view, the per (peer, voter) vote ledger, the per-address stake  *)
(* ledger, the penalty stakes of blacklisted peers, the black list, and    *)
(* the epoch commit that re-elects the consensus committee.                *)
(*                                                                         *)
(* Every handler runs inside one transaction whose writes are discarded on *)
(* error, so a handler is one atomic action whose guard is the conjunction *)
(* of all of its checks.  A handler taking a list of peers (voteForPeer,   *)
(* unVoteForPeer, withdraw) is modelled one element per call: a list call  *)
(* succeeds only if every element succeeds in turn, so its effect is a     *)
(* sequence of single calls.  blackNode is kept with a set of peers,       *)
(* because it commits once after marking all of them.                      *)
(*                                                                         *)
(* Left out: the GALA side (candidate fee, unbound GALA paid on each stake *)
(* change, the fee split), peer indexes, key encodings and logging.        *)
(***************************************************************************)
EXTENDS Integers, FiniteSets, FiniteSetsExt

CONSTANTS
    Peers,          \* peer public keys; their numeric order is the order of the hex strings
    Addrs,          \* account addresses
    InitPeers,      \* the peers of the VBFT configuration given to initConfig
    InitOwner,      \* their owner addresses
    InitStake,      \* their InitPos
    K,              \* Configuration.K given to initConfig, size of the consensus committee
    KRange,         \* the K values of the configurations updateConfig is called with
    CandidateNum,   \* GlobalParam.CandidateNum given by initConfig, capacity of the pool
    MinInitStake,   \* GlobalParam.MinInitStake given by initConfig
    PosLimit,       \* GlobalParam.PosLimit given by initConfig
    Penalty,        \* GlobalParam.Penalty given by initConfig, percent slashed on black
    GlobalParamInputs, \* the GlobalParams updateGlobalParam is called with
    MaxBlockChangeView, \* Configuration.MaxBlockChangeView
    ApproveResetHeight, \* 619000: below it approveCandidate resets TotalPos
    Word,           \* 2^64, the range of uint64
    Amounts,        \* the InitPos and vote amounts callers pass
    MaxStake,       \* bound: most ZPT one address deposits
    MaxView,        \* bound: last view reached
    MaxHeight       \* bound: last block height reached

ASSUME ConstantsAssumption ==
    /\ Peers \subseteq Nat /\ IsFiniteSet(Peers)
    /\ IsFiniteSet(Addrs)
    /\ InitPeers \subseteq Peers
    /\ InitOwner \in [InitPeers -> Addrs]
    /\ InitStake \in [InitPeers -> Nat]
    /\ K \in Nat \ {0}
    /\ KRange \subseteq Nat \ {0}
    /\ {CandidateNum, MinInitStake, PosLimit, MaxBlockChangeView} \subseteq Nat
    /\ Penalty \in 0..100
    /\ GlobalParamInputs \subseteq [candidateNum: Nat, minInitStake: Nat, posLimit: Nat, penalty: Nat]
    /\ ApproveResetHeight \in Nat
    /\ Word \in Nat \ {0}
    /\ Amounts \subseteq Nat \ {0}
    /\ {MaxStake, MaxView, MaxHeight} \subseteq Nat

\* A PenaltyStake without TimeOffset and Amount (its GALA side).
PenaltyStake == [initPos: Nat, votePos: Nat]
NoPenalty == [initPos |-> 0, votePos |-> 0]

Status == {"RegisterCandidate", "Candidate", "Consensus", "QuitConsensus",
           "Quiting", "QuitCandidate", "Black"}

\* A PeerPoolItem without Index and PeerPubkey (the key of the pool).
PeerPoolItem == [address: Addrs, initPos: Nat, totalPos: Nat, status: Status]

\* A VoteInfo without its key; an absent record reads as all zero.
VoteInfo == [consensusPos: Nat, freezePos: Nat, newPos: Nat, withdrawPos: Nat,
             withdrawFreezePos: Nat, withdrawUnfreezePos: Nat]
NoVote == [consensusPos |-> 0, freezePos |-> 0, newPos |-> 0, withdrawPos |-> 0,
           withdrawFreezePos |-> 0, withdrawUnfreezePos |-> 0]

\* The stake from initConfig's depositTotalStake calls, per address.
InitTotalStake(a) == MapThenSumSet(LAMBDA p : IF InitOwner[p] = a THEN InitStake[p] ELSE 0, InitPeers)
\* The ZPT initConfig deposits, in total and per owner, is a natural number.
GenesisZpt == MapThenSumSet(LAMBDA p : InitStake[p], InitPeers)
ASSUME InitStakeAssumption ==
    /\ GenesisZpt \in Nat
    /\ \A a \in Addrs : InitTotalStake(a) \in Nat

VARIABLES
    peerPool,       \* peerPoolMap of the current view: pubkey -> PeerPoolItem
    voteInfo,       \* voteInfoPool: pubkey -> address -> VoteInfo
    totalStake,     \* totalStake: address -> Stake
    penaltyStake,   \* penaltyStake: pubkey -> [initPos, votePos]
    blackList,      \* pubkeys with a blackList record
    zptBalance,     \* ZPT held by the governance contract (ZPT contract ledger)
    view,           \* GovernanceView.View
    viewHeight,     \* GovernanceView.Height
    height,         \* native.Height of the block being executed
    confK,          \* Configuration.K in storage
    prevEligible,   \* Candidate/Consensus peers in the pool of view - 1, the
                    \* length of the list the fee split indexes
    globalParam     \* GlobalParam in storage: candidateNum, minInitStake, posLimit, penalty

vars == <<peerPool, voteInfo, totalStake, penaltyStake, blackList, zptBalance,
          view, viewHeight, height, confK, prevEligible, globalParam>>

-----------------------------------------------------------------------------
(* Helpers                                                                  *)

U64(x) == x % Word

Active(r) == r.consensusPos + r.freezePos + r.newPos

\* Fault variant: the ranking stake summed without the uint64 wrap-around.
StakeUnwrapped(pl, p) == pl[p].totalPos + pl[p].initPos

\* The stake of a peer in the ranking: TotalPos + InitPos, a uint64 sum.
Stake(pl, p) == U64(pl[p].totalPos + pl[p].initPos)

\* Fault variants, each defined before the definition it replaces: a
\* property that no such fault can break says nothing about the code.
\* Ties broken towards the smaller pubkey.
BeatsLowKey(pl, q, p) == Stake(pl, q) > Stake(pl, p) \/ (Stake(pl, q) = Stake(pl, p) /\ q < p)

\* The sort order of executeCommitDpos and executeSplit: stake descending,
\* then pubkey descending.
Beats(pl, q, p) == Stake(pl, q) > Stake(pl, p) \/ (Stake(pl, q) = Stake(pl, p) /\ q > p)

WithStatus(pl, S) == {p \in DOMAIN pl : pl[p].status \in S}
Eligible(pl) == WithStatus(pl, {"Candidate", "Consensus"})

\* The first K peers of the sorted list.
Elected(pl) == {p \in Eligible(pl) : Cardinality({q \in Eligible(pl) : Beats(pl, q, p)}) < confK}

\* withdraw pipeline step shared by the four status helpers.
ShiftWithdraw(r) == [r EXCEPT !.withdrawPos = 0, !.withdrawFreezePos = r.withdrawPos,
                              !.withdrawUnfreezePos = r.withdrawUnfreezePos + r.withdrawFreezePos]

ConsensusToConsensus(r) ==
    [ShiftWithdraw(r) EXCEPT !.consensusPos = r.consensusPos + r.newPos, !.newPos = 0]
\* Fault variant: FreezePos promoted but not cleared.
UnConsensusToConsensusKeepFreeze(r) ==
    [ShiftWithdraw(r) EXCEPT !.consensusPos = r.consensusPos + r.freezePos + r.newPos, !.newPos = 0]
UnConsensusToConsensus(r) ==
    [ShiftWithdraw(r) EXCEPT !.consensusPos = r.consensusPos + r.freezePos + r.newPos,
                             !.freezePos = 0, !.newPos = 0]
ConsensusToUnConsensus(r) ==
    [ShiftWithdraw(r) EXCEPT !.freezePos = r.consensusPos + r.newPos,
                             !.consensusPos = 0, !.newPos = 0]
UnConsensusToUnConsensus(r) ==
    [ShiftWithdraw(r) EXCEPT !.freezePos = r.newPos + r.freezePos, !.newPos = 0]

\* Stake of a record that is still locked (everything but WithdrawUnfreezePos).
Locked(r) == Active(r) + r.withdrawPos + r.withdrawFreezePos

\* Fault variant: the owner's InitPos not refunded.
NormalQuitNoRefund(r, initPos) == [NoVote EXCEPT !.withdrawUnfreezePos = Locked(r) + r.withdrawUnfreezePos]

\* normalQuit: every position becomes withdrawable, the owner also gets InitPos.
NormalQuit(r, initPos) == [NoVote EXCEPT !.withdrawUnfreezePos = Locked(r) + r.withdrawUnfreezePos + initPos]

\* blackQuit: Penalty percent of the locked stake, rounded up, is slashed.
PenaltyOf(r) == (globalParam.penalty * Locked(r) + 99) \div 100
\* Fault variant: NewPos not cleared.
BlackQuitKeepNew(r) == [NoVote EXCEPT !.newPos = r.newPos,
                                      !.withdrawUnfreezePos = Locked(r) - PenaltyOf(r) + r.withdrawUnfreezePos]
BlackQuit(r) == [NoVote EXCEPT !.withdrawUnfreezePos = Locked(r) - PenaltyOf(r) + r.withdrawUnfreezePos]

\* The new record of voter a of peer p at a commit from pool pl.
CommitVote(pl, p, a) ==
    LET r == voteInfo[p][a] IN
    IF p \notin DOMAIN pl THEN r
    ELSE CASE pl[p].status \in {"Quiting", "QuitCandidate"} ->
                  NormalQuit(r, IF pl[p].address = a THEN pl[p].initPos ELSE 0)
           [] pl[p].status = "Black" -> BlackQuit(r)
           [] pl[p].status = "Consensus" /\ p \in Elected(pl) -> ConsensusToConsensus(r)
           [] pl[p].status = "Candidate" /\ p \in Elected(pl) -> UnConsensusToConsensus(r)
           [] pl[p].status = "Consensus" /\ p \notin Elected(pl) -> ConsensusToUnConsensus(r)
           [] pl[p].status = "Candidate" /\ p \notin Elected(pl) -> UnConsensusToUnConsensus(r)
           [] OTHER -> r

\* The "freezePos should be 0" / "consensusPos should be 0" checks of the helpers.
CommitChecksPass(pl) ==
    \A p \in Eligible(pl), a \in Addrs :
        IF pl[p].status = "Consensus" THEN voteInfo[p][a].freezePos = 0
                                      ELSE voteInfo[p][a].consensusPos = 0

\* ZPT withdrawn from a's total stake by the blackQuit calls of a commit.
BlackDebit(pl, a) ==
    MapThenSumSet(LAMBDA p : (IF pl[p].address = a THEN pl[p].initPos ELSE 0)
                             + PenaltyOf(voteInfo[p][a]),
                  WithStatus(pl, {"Black"}))

NewStatus(pl, p) ==
    CASE pl[p].status = "QuitConsensus" -> "Quiting"
      [] p \in Elected(pl) -> "Consensus"
      [] p \in Eligible(pl) \ Elected(pl) -> "Candidate"
      [] OTHER -> pl[p].status

\* executeSplit, run first by every commit on the pool of view - 1: it
\* moves GALA only, but it reads peersCandidate[0..K-1] of that pool's
\* Candidate/Consensus peers without a length check, and with fewer peers
\* the commit panics (index out of range) and does not take place.
ExecuteSplit == prevEligible >= confK

(***************************************************************************)
(* executeCommitDpos on the pool pl: settle and drop the quitting and      *)
(* black peers, flip QuitConsensus to Quiting, elect the first K peers by  *)
(* stake, move every vote record to its new slots, advance the view.  The  *)
(* fee split that runs first only moves GALA; of it the model keeps the   *)
(* read of the first K peers of the pool of view - 1 (see README).        *)
(***************************************************************************)
ExecuteCommitDpos(pl) ==
    LET gone == WithStatus(pl, {"Quiting", "Black", "QuitCandidate"})
        ts == [a \in Addrs |-> totalStake[a] - BlackDebit(pl, a)]
        ps == [p \in Peers |->
                 IF p \in WithStatus(pl, {"Black"})
                 THEN [initPos |-> penaltyStake[p].initPos + pl[p].initPos,
                       votePos |-> penaltyStake[p].votePos
                                   + MapThenSumSet(LAMBDA a : PenaltyOf(voteInfo[p][a]), Addrs)]
                 ELSE penaltyStake[p]]
    IN
    /\ view < MaxView
    /\ ExecuteSplit
    /\ Cardinality(Eligible(pl)) >= confK
    /\ CommitChecksPass(pl)
    \* withdrawTotalStake's "zpt deposit is not enough" check; the penalty
    \* sums of depositPenaltyStake are natural numbers.
    /\ ts \in [Addrs -> Nat]
    /\ totalStake' = ts
    /\ peerPool' = [p \in DOMAIN pl \ gone |-> [pl[p] EXCEPT !.status = NewStatus(pl, p)]]
    /\ voteInfo' = [p \in Peers |-> [a \in Addrs |-> CommitVote(pl, p, a)]]
    /\ ps \in [Peers -> PenaltyStake]
    /\ penaltyStake' = ps
    /\ view' = view + 1
    /\ viewHeight' = height
    /\ prevEligible' = Cardinality(Eligible(pl))
    /\ UNCHANGED <<confK, globalParam>>

-----------------------------------------------------------------------------
(* Initial state: the state initConfig leaves.                              *)

\* The pool initConfig writes for view 0 and view 1.
InitPool == [p \in InitPeers |-> [address |-> InitOwner[p], initPos |-> InitStake[p],
                                 totalPos |-> 0, status |-> "Consensus"]]

\* A GlobalParam without its GALA fields (A, B, Yita, CandidateFee).
GlobalParamType == [candidateNum: Nat, minInitStake: Nat, posLimit: Nat, penalty: 0..100]

\* The GlobalParam initConfig writes.
InitGlobalParam == [candidateNum |-> CandidateNum, minInitStake |-> MinInitStake,
                    posLimit |-> PosLimit, penalty |-> Penalty]

Init ==
    /\ peerPool = InitPool
    /\ voteInfo = [p \in Peers |-> [a \in Addrs |-> NoVote]]
    /\ totalStake = [a \in Addrs |-> InitTotalStake(a)]
    /\ penaltyStake = [p \in Peers |-> NoPenalty]
    /\ blackList = {}
    /\ zptBalance = GenesisZpt
    /\ view = 1
    /\ viewHeight = 0
    /\ height = 0
    /\ confK = K
    /\ prevEligible = Cardinality(DOMAIN InitPool)
    /\ globalParam = InitGlobalParam

-----------------------------------------------------------------------------
(* Handlers                                                                 *)

\* Fault variant: registerCandidate without the black list check.
RegisterCandidateUnchecked(p, a, initPos) ==
    /\ p \notin DOMAIN peerPool
    /\ initPos >= globalParam.minInitStake
    /\ totalStake[a] + initPos <= MaxStake
    /\ peerPool' = [q \in DOMAIN peerPool \cup {p} |->
          IF q = p THEN [address |-> a, initPos |-> initPos, totalPos |-> 0,
                         status |-> "RegisterCandidate"]
          ELSE peerPool[q]]
    /\ zptBalance' = zptBalance + initPos
    /\ totalStake' = [totalStake EXCEPT ![a] = @ + initPos]
    /\ UNCHANGED <<voteInfo, penaltyStake, blackList, view, viewHeight, height, confK, prevEligible, globalParam>>

RegisterCandidate(p, a, initPos) ==
    /\ p \notin blackList
    /\ p \notin DOMAIN peerPool
    /\ initPos >= globalParam.minInitStake
    /\ totalStake[a] + initPos <= MaxStake
    /\ peerPool' = [q \in DOMAIN peerPool \cup {p} |->
          IF q = p THEN [address |-> a, initPos |-> initPos, totalPos |-> 0,
                         status |-> "RegisterCandidate"]
          ELSE peerPool[q]]
    /\ zptBalance' = zptBalance + initPos
    /\ totalStake' = [totalStake EXCEPT ![a] = @ + initPos]
    /\ UNCHANGED <<voteInfo, penaltyStake, blackList, view, viewHeight, height, confK, prevEligible, globalParam>>

\* The owner's vote record is overwritten by an empty one.
UnRegisterCandidate(p) ==
    /\ p \in DOMAIN peerPool
    /\ peerPool[p].status = "RegisterCandidate"
    /\ voteInfo' = [voteInfo EXCEPT ![p][peerPool[p].address] = NoVote]
    /\ peerPool' = [peerPool EXCEPT ![p].status = "QuitCandidate"]
    /\ UNCHANGED <<totalStake, penaltyStake, blackList, zptBalance, view, viewHeight, height, confK, prevEligible, globalParam>>

ApproveCandidate(p) ==
    /\ Cardinality(Eligible(peerPool)) < globalParam.candidateNum
    /\ p \in DOMAIN peerPool
    /\ peerPool[p].initPos >= globalParam.minInitStake
    /\ peerPool[p].status = "RegisterCandidate"
    /\ peerPool' = [peerPool EXCEPT ![p].status = "Candidate",
                                    ![p].totalPos = IF height < ApproveResetHeight THEN 0 ELSE @]
    /\ UNCHANGED <<voteInfo, totalStake, penaltyStake, blackList, zptBalance, view, viewHeight, height, confK, prevEligible, globalParam>>

RejectCandidate(p) ==
    /\ p \in DOMAIN peerPool
    /\ peerPool[p].status = "RegisterCandidate"
    /\ peerPool' = [peerPool EXCEPT ![p].status = "QuitCandidate"]
    /\ UNCHANGED <<voteInfo, totalStake, penaltyStake, blackList, zptBalance, view, viewHeight, height, confK, prevEligible, globalParam>>

\* Black every peer of S; when one of them was Consensus, commit at once.
BlackNode(S) ==
    LET pl == [p \in DOMAIN peerPool |->
                 IF p \in S THEN [peerPool[p] EXCEPT !.status = "Black"] ELSE peerPool[p]]
    IN
    /\ S \subseteq DOMAIN peerPool
    /\ blackList' = blackList \cup S
    /\ \/ /\ \E p \in S : peerPool[p].status = "Consensus"
          /\ ExecuteCommitDpos(pl)
          /\ UNCHANGED <<zptBalance, height>>
       \/ /\ \A p \in S : peerPool[p].status # "Consensus"
          /\ peerPool' = pl
          /\ UNCHANGED <<voteInfo, totalStake, penaltyStake, zptBalance, view, viewHeight, height, confK, prevEligible, globalParam>>

WhiteNode(p) ==
    /\ p \in blackList
    /\ blackList' = blackList \ {p}
    /\ UNCHANGED <<peerPool, voteInfo, totalStake, penaltyStake, zptBalance, view, viewHeight, height, confK, prevEligible, globalParam>>

\* Fault variant: quitNode without the check on the number of peers left.
QuitNodeUnchecked(p) ==
    /\ p \in DOMAIN peerPool
    /\ peerPool[p].status \in {"Candidate", "Consensus"}
    /\ peerPool' = [peerPool EXCEPT ![p].status =
                      IF @ = "Consensus" THEN "QuitConsensus" ELSE "Quiting"]
    /\ UNCHANGED <<voteInfo, totalStake, penaltyStake, blackList, zptBalance, view, viewHeight, height, confK, prevEligible, globalParam>>

QuitNode(p) ==
    /\ p \in DOMAIN peerPool
    /\ peerPool[p].status \in {"Candidate", "Consensus"}
    /\ Cardinality(Eligible(peerPool)) > confK
    /\ peerPool' = [peerPool EXCEPT ![p].status =
                      IF @ = "Consensus" THEN "QuitConsensus" ELSE "Quiting"]
    /\ UNCHANGED <<voteInfo, totalStake, penaltyStake, blackList, zptBalance, view, viewHeight, height, confK, prevEligible, globalParam>>

VoteForPeer(a, p, pos) ==
    /\ p \in DOMAIN peerPool
    /\ peerPool[p].status \in {"Candidate", "Consensus", "RegisterCandidate"}
    /\ totalStake[a] + pos <= MaxStake
    /\ U64(peerPool[p].totalPos + pos) <= globalParam.posLimit * peerPool[p].initPos
    /\ voteInfo' = [voteInfo EXCEPT ![p][a].newPos = @ + pos]
    /\ peerPool' = [peerPool EXCEPT ![p].totalPos = U64(@ + pos)]
    /\ zptBalance' = zptBalance + pos
    /\ totalStake' = [totalStake EXCEPT ![a] = @ + pos]
    /\ UNCHANGED <<penaltyStake, blackList, view, viewHeight, height, confK, prevEligible, globalParam>>

\* Fault variant: the NewPos branch does not lower NewPos.
UnVoteRecordKeepNew(r, st, pos) ==
    IF r.newPos >= pos
    THEN [r EXCEPT !.withdrawUnfreezePos = @ + pos]
    ELSE IF st = "Consensus"
    THEN [r EXCEPT !.consensusPos = r.consensusPos + r.newPos - pos, !.newPos = 0,
                   !.withdrawUnfreezePos = @ + r.newPos, !.withdrawPos = @ + pos]
    ELSE [r EXCEPT !.freezePos = r.freezePos + r.newPos - pos, !.newPos = 0,
                   !.withdrawUnfreezePos = @ + r.newPos, !.withdrawFreezePos = @ + pos]

\* The record after unvoting pos, as the code computes it.  When pos exceeds
\* NewPos, the code adds "pos - voteInfo.NewPos" to the Withdraw* field after
\* it has already set NewPos to 0, so the whole pos is added there while
\* the old NewPos also goes to WithdrawUnfreezePos.
UnVoteRecord(r, st, pos) ==
    IF r.newPos >= pos
    THEN [r EXCEPT !.newPos = @ - pos, !.withdrawUnfreezePos = @ + pos]
    ELSE IF st = "Consensus"
    THEN [r EXCEPT !.consensusPos = r.consensusPos + r.newPos - pos, !.newPos = 0,
                   !.withdrawUnfreezePos = @ + r.newPos, !.withdrawPos = @ + pos]
    ELSE [r EXCEPT !.freezePos = r.freezePos + r.newPos - pos, !.newPos = 0,
                   !.withdrawUnfreezePos = @ + r.newPos, !.withdrawFreezePos = @ + pos]

\* The "your pos of this peerPubkey is not enough" check.
UnVoteAllowed(r, st, pos) ==
    \/ r.newPos >= pos
    \/ st = "Consensus" /\ r.consensusPos >= pos - r.newPos
    \/ st # "Consensus" /\ r.freezePos >= pos - r.newPos

UnVoteForPeer(a, p, pos) ==
    LET r == voteInfo[p][a]
        st == peerPool[p].status
    IN
    /\ p \in DOMAIN peerPool
    /\ st \in {"Candidate", "Consensus", "RegisterCandidate"}
    /\ UnVoteAllowed(r, st, pos)
    /\ voteInfo' = [voteInfo EXCEPT ![p][a] = UnVoteRecord(r, st, pos)]
    /\ peerPool' = [peerPool EXCEPT ![p].totalPos = U64(@ - pos)]
    /\ UNCHANGED <<totalStake, penaltyStake, blackList, zptBalance, view, viewHeight, height, confK, prevEligible, globalParam>>

\* Fault variant: the WithdrawUnfreezePos check left out.
WithdrawUnchecked(a, p, pos) ==
    /\ zptBalance >= pos
    /\ totalStake[a] >= pos
    /\ voteInfo' = [voteInfo EXCEPT ![p][a].withdrawUnfreezePos = @ - pos]
    /\ zptBalance' = zptBalance - pos
    /\ totalStake' = [totalStake EXCEPT ![a] = @ - pos]
    /\ UNCHANGED <<peerPool, penaltyStake, blackList, view, viewHeight, height, confK, prevEligible, globalParam>>

Withdraw(a, p, pos) ==
    /\ voteInfo[p][a].withdrawUnfreezePos >= pos
    /\ zptBalance >= pos
    /\ totalStake[a] >= pos
    /\ voteInfo' = [voteInfo EXCEPT ![p][a].withdrawUnfreezePos = @ - pos]
    /\ zptBalance' = zptBalance - pos
    /\ totalStake' = [totalStake EXCEPT ![a] = @ - pos]
    /\ UNCHANGED <<peerPool, penaltyStake, blackList, view, viewHeight, height, confK, prevEligible, globalParam>>

\* Admin repair: TotalPos recomputed from the vote records of the peer.
CheckVoteInfo(p) ==
    LET t == U64(MapThenSumSet(LAMBDA a : Active(voteInfo[p][a]), Addrs)) IN
    /\ p \in DOMAIN peerPool
    /\ peerPool[p].status \in {"Candidate", "Consensus", "RegisterCandidate"}
    /\ t \in 0..(globalParam.posLimit * peerPool[p].initPos)
    /\ peerPool' = [peerPool EXCEPT ![p].totalPos = t]
    /\ UNCHANGED <<voteInfo, totalStake, penaltyStake, blackList, zptBalance, view, viewHeight, height, confK, prevEligible, globalParam>>

\* Called by the admin, or by anyone once MaxBlockChangeView blocks have passed.
CommitDpos ==
    /\ \E admin \in BOOLEAN : admin \/ height - viewHeight >= MaxBlockChangeView
    /\ ExecuteCommitDpos(peerPool)
    /\ UNCHANGED <<blackList, zptBalance, height>>

\* Admin sends the slashed ZPT of a black peer to address a.
TransferPenalty(p, a) ==
    LET amount == penaltyStake[p].initPos + penaltyStake[p].votePos IN
    /\ zptBalance >= amount
    /\ zptBalance' = zptBalance - amount
    /\ penaltyStake' = [penaltyStake EXCEPT ![p] = NoPenalty]
    /\ UNCHANGED <<peerPool, voteInfo, totalStake, blackList, view, viewHeight, height, confK, prevEligible, globalParam>>

\* Admin stores a new configuration.  Its checks on C, L, N, the delays and
\* K >= 2C + 1, K >= 9 depend on the input alone and are folded into KRange;
\* the ones on the state count the Candidate/Consensus peers of the
\* current view's pool and compare with CandidateNum.
UpdateConfig(k) ==
    /\ k <= Cardinality(Eligible(peerPool))
    /\ 4 * k <= globalParam.candidateNum
    /\ confK' = k
    /\ UNCHANGED <<peerPool, voteInfo, totalStake, penaltyStake, blackList, zptBalance,
                   view, viewHeight, height, prevEligible, globalParam>>

\* Admin stores new global parameters.  The checks A + B = 100, Yita > 0 and
\* the candidate fee's are on the GALA fields, which the model leaves out;
\* CandidateNum is checked against the K in storage only, and neither it nor
\* PosLimit against the peers already in the pool.
UpdateGlobalParam(g) ==
    /\ g.penalty <= 100
    /\ g.posLimit >= 1
    /\ g.candidateNum >= 4 * confK
    /\ globalParam' = g
    /\ UNCHANGED <<peerPool, voteInfo, totalStake, penaltyStake, blackList, zptBalance,
                   view, viewHeight, height, confK, prevEligible>>

\* A new block (the environment): the height the next transactions see.
NewBlock ==
    /\ height < MaxHeight
    /\ height' = height + 1
    /\ UNCHANGED <<peerPool, voteInfo, totalStake, penaltyStake, blackList, zptBalance, view, viewHeight, confK, prevEligible, globalParam>>

Next ==
    \/ \E p \in Peers, a \in Addrs, n \in Amounts : RegisterCandidate(p, a, n)
    \/ \E p \in Peers : UnRegisterCandidate(p) \/ ApproveCandidate(p) \/ RejectCandidate(p)
                        \/ WhiteNode(p) \/ QuitNode(p) \/ CheckVoteInfo(p)
    \/ \E S \in SUBSET Peers : BlackNode(S)
    \/ \E a \in Addrs, p \in Peers, n \in Amounts :
          VoteForPeer(a, p, n) \/ UnVoteForPeer(a, p, n) \/ Withdraw(a, p, n)
    \/ CommitDpos
    \/ \E p \in Peers, a \in Addrs : TransferPenalty(p, a)
    \/ \E k \in KRange : UpdateConfig(k)
    \/ \E g \in GlobalParamInputs : UpdateGlobalParam(g)
    \/ NewBlock

Spec == Init /\ [][Next]_vars

\* commitDpos is called by the consensus engine once MaxBlockChangeView
\* blocks have passed in the view, and by the admin at will: a commit that
\* stays possible is eventually made.  No handler of users or of the admin
\* is assumed to happen.
Fairness == WF_vars(CommitDpos)

LiveSpec == Spec /\ Fairness

\* The peer lifecycle the contract implements: each peer's status in the
\* pool of the current view ("Absent" when it has none), the black list,
\* the view, and the committee size and pool capacity in force.
PoolStatus == [p \in Peers |-> IF p \in DOMAIN peerPool THEN peerPool[p].status ELSE "Absent"]

Life == INSTANCE PeerLifecycle
            WITH status <- PoolStatus, black <- blackList, epoch <- view, committee <- confK,
                 capacity <- globalParam.candidateNum

-----------------------------------------------------------------------------
(* Properties                                                               *)

\* Every variable holds a value of the shape the contract's storage records
\* have, every amount a natural number (no uint64 field goes negative).
TypeOK ==
    /\ DOMAIN peerPool \subseteq Peers
    /\ peerPool \in [DOMAIN peerPool -> PeerPoolItem]
    /\ voteInfo \in [Peers -> [Addrs -> VoteInfo]]
    /\ totalStake \in [Addrs -> Nat]
    /\ penaltyStake \in [Peers -> PenaltyStake]
    /\ blackList \subseteq Peers
    /\ zptBalance \in Nat
    /\ view \in Nat /\ viewHeight \in Nat /\ height \in Nat
    /\ confK \in Nat \ {0}
    /\ prevEligible \in Nat
    /\ globalParam \in GlobalParamType

\* The slots of a vote record agree with the status of its peer: a peer no
\* longer in the pool holds only withdrawable stake (normalQuit/blackQuit
\* emptied it), a peer never elected since it joined has no ConsensusPos,
\* a peer in the committee has no FreezePos.  This is what makes the
\* "freezePos should be 0" / "consensusPos should be 0" checks of the four
\* commit helpers never fail, across votes, unvotes, quits, blacks and
\* commits in any order.
SlotsMatchStatus ==
    \A p \in Peers, a \in Addrs :
        LET r == voteInfo[p][a] IN
        /\ p \notin DOMAIN peerPool =>
              r.consensusPos + r.freezePos + r.newPos + r.withdrawPos + r.withdrawFreezePos = 0
        /\ p \in WithStatus(peerPool, {"RegisterCandidate", "Candidate"}) => r.consensusPos = 0
        /\ p \in WithStatus(peerPool, {"RegisterCandidate", "Consensus", "QuitConsensus"}) => r.freezePos = 0

\* The active (not withdrawing) stake of a vote record.
ActivePos(r) == r.consensusPos + r.freezePos + r.newPos

\* The TotalPos of a peer that can be voted or elected is the sum of the
\* active stake of its voters: voteForPeer, unVoteForPeer and the commit
\* helpers keep the pool item and the vote records in step, so the ranking
\* of executeCommitDpos uses the stake the voters really hold.
TotalPosMatchesVotes ==
    \A p \in WithStatus(peerPool, {"RegisterCandidate", "Candidate", "Consensus"}) :
        peerPool[p].totalPos = MapThenSumSet(LAMBDA a : ActivePos(voteInfo[p][a]), Addrs)

\* The order of executeCommitDpos's sort: stake, then pubkey, descending,
\* where the stake is TotalPos + InitPos computed in uint64.
Outranks(pl, q, p) ==
    LET sq == (pl[q].totalPos + pl[q].initPos) % Word
        sp == (pl[p].totalPos + pl[p].initPos) % Word
    IN sq > sp \/ (sq = sp /\ q > p)

\* A commit (commitDpos, or blackNode of a consensus peer) leaves exactly K
\* consensus peers, each ranked above every remaining candidate, all taken
\* from the peers that were candidates or consensus peers before it.
CommitElectsTopK ==
    [][view' # view =>
         LET C == WithStatus(peerPool', {"Consensus"})
             U == WithStatus(peerPool', {"Candidate"})
         IN /\ Cardinality(C) = confK
            /\ \A c \in C, u \in U : Outranks(peerPool', c, u)
            /\ C \cup U \subseteq Eligible(peerPool)]_vars

\* All the ZPT the contract owes: the InitPos of the peers in the pool, every
\* slot of every vote record, and the penalty stakes not yet transferred.
Held(r) == ActivePos(r) + r.withdrawPos + r.withdrawFreezePos + r.withdrawUnfreezePos
Claims ==
    MapThenSumSet(LAMBDA p : peerPool[p].initPos, DOMAIN peerPool)
    + MapThenSumSet(LAMBDA p : MapThenSumSet(LAMBDA a : Held(voteInfo[p][a]), Addrs), Peers)
    + MapThenSumSet(LAMBDA p : penaltyStake[p].initPos + penaltyStake[p].votePos, Peers)

\* A commit moves stake between slots, to the owners of quitting peers and
\* to the penalty stakes, and creates or destroys none.
CommitConservesClaims == [][view' # view => Claims' = Claims]_vars

\* The spec's peer lifecycle: any peer in the committee can be blacklisted by
\* the admin (blackNode), which commits at once.  blackNode is refused when
\* the commit it triggers is (fewer than K eligible peers would remain).
BlackNodeAlwaysAllowed ==
    view < MaxView => \A p \in WithStatus(peerPool, {"Consensus"}) : ENABLED BlackNode({p})

\* A blacklisted key that is still in the pool is Black: registerCandidate
\* refuses blacklisted keys, blackNode marks its peers Black as it lists
\* them, and the commit drops the Black peers; so no blacklisted key is a
\* candidate, votable, or elected to the committee.
BlackListedStaysBlack ==
    \A p \in blackList \cap DOMAIN peerPool : peerPool[p].status = "Black"

\* spec.md 3: TotalPos never exceeds PosLimit times InitPos.  voteForPeer
\* and checkVoteInfo check the bound whenever they raise TotalPos, while
\* updateGlobalParam stores a new PosLimit without looking at the pool.
TotalPosWithinLimit ==
    \A p \in DOMAIN peerPool : peerPool[p].totalPos <= globalParam.posLimit * peerPool[p].initPos

\* The ZPT the contract holds covers everything it owes.
ZptCoversClaims == zptBalance >= Claims

\* Everything the contract holds is owed to someone: no deposit is stranded.
ClaimsCoverZpt == Claims >= zptBalance


\* executeSplit indexes peersCandidate[i] for every i < K over the
\* Candidate/Consensus peers of the pool of view - 1, while updateConfig
\* checks a new K against the pool of the current view only: the list the
\* next commit's fee split reads is always at least K long.
SplitReadsEnoughPeers == prevEligible >= confK

\* A peer that quits (quitNode, unRegisterCandidate, rejectCandidate) or is
\* blacklisted (blackNode) is settled by normalQuit or blackQuit and leaves
\* the pool at a later commit, unless the views of the model run out: its
\* owner's InitPos and its voters' stake are not locked forever.
SettledEventually ==
    \A p \in Peers :
        p \in WithStatus(peerPool, {"Quiting", "QuitCandidate", "Black"})
            ~> (p \notin DOMAIN peerPool \/ view = MaxView)

\* Every step of the handlers is a step of the peer lifecycle (or leaves it
\* alone): registration, approval, withdrawal, quitting with more than K
\* peers left, blacklisting, and commits that settle the terminal peers and
\* elect exactly K of the Candidate/Consensus peers.  The lifecycle is that
\* of spec.md 4.1 with one step added, BlacklistSettled: blackNode also
\* takes a peer that has quit or is Black (see BlackOnlyNonTerminal).
LifecycleRefined == Life!LSpec

\* spec.md 4.1: Quiting and QuitCandidate are terminal, and only a
\* non-terminal peer goes to Black; blackNode never turns a peer that has
\* quit into a black one (which would slash the stake quitNode refunds).
BlackOnlyNonTerminal ==
    [][\A p \in WithStatus(peerPool, {"Quiting", "QuitCandidate"}) :
         PoolStatus'[p] # "Black"]_vars

=============================================================================
