# Verification of the ZeepinChain governance contract

This directory holds TLA+ models of the governance native contract
(`src/smartcontract/service/native/governance/`). It has TLC configurations
that check the models on small instances and TLAPS proofs of the main
invariants for every value of the constants.

## The system

The contract keeps these records in the chain's storage:

| Record | Contents |
|---|---|
| peer pool | one per view; pubkey -> {Address, InitPos, TotalPos, Status} |
| vote ledger | one VoteInfo per (peer, voter), with the slots ConsensusPos, FreezePos, NewPos, WithdrawPos, WithdrawFreezePos, WithdrawUnfreezePos |
| total stake | per address |
| penalty stake | per blacklisted peer |
| black list | the blacklisted pubkeys |
| governance view | View and Height |

The ZPT itself sits in the ZPT contract, on the governance contract's address.

Handlers (`governance.go`, with their helpers in `method.go`):

- **Owner operations:** registerCandidate, unRegisterCandidate and quitNode.
- **Voter operations:** voteForPeer, unVoteForPeer and withdraw.
- **Admin operations:** approveCandidate, rejectCandidate, blackNode, whiteNode, checkVoteInfo and transferPenalty.
- **Admin configuration:** updateConfig stores a new Configuration (K among it), updateGlobalParam a new GlobalParam (CandidateNum, MinInitStake, PosLimit, Penalty and GALA-side fields).
- **Epoch change:** commitDpos. The admin can call it at any time; anyone can call it once MaxBlockChangeView blocks have passed.
  - It runs `executeCommitDpos`, which first runs the fee split `executeSplit` on the pool of view - 1. The split moves GALA only, but it indexes the first K Candidate/Consensus peers of that pool.
  - It settles the quitting and black peers: normalQuit refunds them, and blackQuit slashes Penalty % of each vote into the penalty stake.
  - It turns QuitConsensus into Quiting.
  - It ranks the Candidate and Consensus peers by TotalPos + InitPos, then by pubkey, and elects the first K.
  - It moves every vote record's slots with the four helpers: consensusToConsensus, unConsensusToConsensus, consensusToUnConsensus and unConsensusToUnConsensus.
  - It advances the view.
- **blackNode of a Consensus peer** runs the same commit at once.

Each handler runs in one transaction, and any error discards all of its writes.

## Modules

- `Governance.tla` models the contract. Each handler is one action, and its guard is the conjunction of all of its checks and early returns.
  - Variables:
    - `peerPool` is the pool of the current view. Older snapshots are never read by the modelled handlers.
    - `voteInfo`, `totalStake`, `penaltyStake` and `blackList` are the records above.
    - `zptBalance` is the governance contract's ZPT balance.
    - `view` and `viewHeight` are the governance view.
    - `height` is the block height.
    - `confK` is the K of the stored Configuration, and `globalParam` the stored GlobalParam without its GALA fields.
    - `prevEligible` is the number of Candidate/Consensus peers in the pool of view - 1. It is the only thing about older snapshots that a handler reads: the length of the list `executeSplit` indexes (`ExecuteSplit`).
  - Handlers that take a list (voteForPeer, unVoteForPeer, withdraw) are modelled one element per action. A list call succeeds only if each element succeeds in turn, so its effect is a sequence of these actions. blackNode takes a set, because it commits once after marking all of its peers.
  - Amounts are natural numbers. `U64(x) = x % Word` is applied where the code can wrap: TotalPos in voteForPeer and unVoteForPeer, the sum in checkVoteInfo, and the ranking stake TotalPos + InitPos of the commit's sort (`Stake`, `method.go:720`).
  - `ApproveResetHeight` models the fork at height 619000, below which approveCandidate resets TotalPos.
  - updateConfig's checks on N, C, L and the delays, and updateGlobalParam's on A, B, Yita and the fee, depend on the input alone. They are folded into the input sets `KRange` and `GlobalParamInputs`. The checks that read the state are guards.
  - Each `...KeepFreeze`, `...NoRefund`, `...Unchecked`, `...LowKey` and `...KeepNew` operator, and `StakeUnwrapped`, is a fault variant. It is defined just before the definition it can replace, and is used only to show that each property can fail.
  - PROJECT.json's `map` gives the code lines behind every definition.
- `MCGovernance.tla` gives TLC the instance.
  - Peers are 1..3 and voters are two model values.
  - Peers 2 and 3 are the genesis committee, with InitPos 2 each and K = 2.
  - Peer 1 is the newcomer. It has the lowest pubkey, so it loses ties.
  - `MCInitStakeOne` and `MCGlobalParamInputs` give the refinement run a smaller genesis stake and two GlobalParams to switch to.
- `PeerLifecycle.tla` is the abstract specification of the peer lifecycle, without any stake. `PromisedSpec` is spec.md 4.1's lifecycle. `LSpec` is that lifecycle plus one step the contract takes and spec.md 4.1 forbids; it is the one the contract is shown to implement.
  - Its state is each peer's status ("Absent" outside the pool), the black list, the view, the committee size and the pool capacity.
  - Its actions are register, approve (under the capacity), withdrawn (unregister or reject), quit (with more than K Candidate/Consensus peers left), blacklist, unblacklist, reconfigure, recapacity and commit.
  - A commit settles the terminal peers, turns QuitConsensus into Quiting and splits the Candidate/Consensus peers into exactly K Consensus peers and the rest Candidates. Which K are elected is left open.
  - Blacklist takes non-terminal peers only, as spec.md 4.1 says. When one of them was Consensus, a commit follows in the same step.
  - BlacklistSettled is the added step: a blacklist whose peers include a Quiting, QuitCandidate or Black one. blackNode checks only that a peer is in the pool (`governance.go:665`), so the contract takes it. The `black_after_quit` run shows what it costs.
  - `Governance.tla` instantiates it as `Life`, with the mapping: status from the pool of the current view, black list, view, `confK` and `globalParam.candidateNum`.
- `GovernanceProofs.tla` holds the TLAPS proofs of the invariants. `ElectionProofs.tla` extends it with the rank argument behind the election. `RefinementProofs.tla` extends that with the proof of the refinement.
- `SumLemmas.tla` holds the facts about the sums over vote records. These are `SumFunctionOnSet` of Functions and `MapThenSumSet` of FiniteSetsExt. `TotalPosProofs.tla` and `ClaimsProofs.tla` extend `ElectionProofs` and `SumLemmas`. They prove the TotalPos invariant and the conservation of claims at a commit.

## Runs

The checked runs are:

| Run | cfg | Checks |
|---|---|---|
| governance_core | `MCGovernance.cfg` | TypeOK, SlotsMatchStatus, TotalPosMatchesVotes, BlackListedStaysBlack, CommitElectsTopK, CommitConservesClaims |
| prefork_election | `MCGovernancePrefork.cfg` | CommitElectsTopK |
| lifecycle_refinement | `MCGovernanceRefine.cfg` | LifecycleRefined (`Life!LSpec`) |

**governance_core** runs at heights after the fork, with vote amount 1, at most 3 ZPT per address and views 1..3. K and the GlobalParam stay fixed. It reaches about 1.57M distinct states in roughly 80 s. What each property says:

- **SlotsMatchStatus:**
  - a peer that has left the pool holds only withdrawable stake;
  - a RegisterCandidate or Candidate peer has no ConsensusPos;
  - a committee peer has no FreezePos.

  This is why the zero checks of the four commit helpers never fail.
- **TotalPosMatchesVotes:** the ranking stake equals the votes of the peer's voters.
- **BlackListedStaysBlack:** a blacklisted key still in the pool is Black. registerCandidate's black list check, blackNode's marking and the commit's removal of Black peers act together here. So a blacklisted key is never a candidate, votable or elected.
- **CommitElectsTopK:** every commit leaves exactly K Consensus peers, each ranked above every Candidate by the uint64 stake, then pubkey.
- **CommitConservesClaims:** every commit conserves the ZPT owed. That is the pool's InitPos, plus all vote slots, plus the penalty stakes.

**prefork_election** runs with ApproveResetHeight = 1 and one block step, and uses Word = 8. Before the fork approveCandidate zeroes the TotalPos of a candidate that already has votes, and an unvote then wraps it (`governance.go:905`). The commit's sum TotalPos + InitPos wraps again (`method.go:720`). So the committee is chosen by the wrapped uint64 stake. K can be raised to 3 by updateConfig. The run checks that every commit still elects exactly K peers, each ahead of every Candidate in that uint64 order. With the ranking taken on the unwrapped sum (`StakeUnwrapped`), TLC finds the property violated within about a thousand states, so the wrap really decides elections in this run.

**lifecycle_refinement** checks that the contract implements the abstract lifecycle `LSpec`: every handler step is a `PeerLifecycle` step or leaves its variables alone. The only step it allows beyond spec.md 4.1 is BlacklistSettled. So the run shows that blacklisting a settled peer is the contract's only lifecycle step outside spec.md 4.1; `black_after_quit` shows that this step is reached.
- updateConfig can raise K to 3.
- updateGlobalParam can switch to a tighter PosLimit, or to a capacity of 8 with a higher MinInitStake and Penalty.
- The genesis stake is 1 per peer, so at most 2 ZPT per address leaves room for a newcomer and a vote. There are 4 views.
- It reaches about 220k distinct states in roughly 30 s.

Why these bounds:
- Three peers with K = 2 is the smallest pool in which a commit both elects and demotes a peer.
- Two voters let one peer's owner and another address both vote.
- Three views let a vote pass through NewPos, then Consensus or Freeze, then the withdraw pipeline. That covers the two-step freeze of the withdrawals.
- K ∈ {2, 3} is enough for updateConfig to move K past the peers of the previous view.

Between them, the three passing runs fire every action.

There are eight violation runs. Each checks one statement the spec makes, or a statement that follows from it, and TLC finds a counterexample:

- **unvote_mints** (`ZptCoversClaims`). When pos exceeds NewPos, unVoteForPeer adds `pos - voteInfo.NewPos` after it has already set NewPos to 0 (`governance.go:904`, 916 and 928). The voter is credited the old NewPos twice.
  - Trace: vote, commit, vote, unvote 2.
  - The contract then owes more ZPT than it holds.
- **unregister_strands** (`ClaimsCoverZpt`). unRegisterCandidate overwrites the owner's vote record with zeros (`governance.go:419-426`). Votes and earlier refunds held there become unreachable.
- **black_refused** (`BlackNodeAlwaysAllowed`). blackNode of a Consensus peer fails whenever fewer than K eligible peers would remain (`method.go:728`). This is already true at genesis with exactly K peers. The spec says any non-terminal peer can be blacklisted.
- **prefork_drift** (`TotalPosMatchesVotes`). Before the fork, approving a candidate that already has votes zeroes its TotalPos (`governance.go:510-512`). An unvote of pos then wraps TotalPos to 2^64 - pos, and the commit's stake wraps again to InitPos - pos: the peer ranks first when pos exceeds its InitPos, and low otherwise.
- **split_out_of_range** (`SplitReadsEnoughPeers`). updateConfig compares the new K with the current view's Candidate/Consensus count only (`governance.go:1182`). executeSplit indexes the first K peers of the pool of view - 1 without a length check (`method.go:856-858`).
  - Trace: register and approve a newcomer, then updateConfig(3).
  - Every later commit panics. The failed commit never changes the pool of view - 1, so the view is stuck.
- **black_after_quit** (`BlackOnlyNonTerminal`). spec.md 4.1 sends only non-terminal peers to Black, and Quiting and QuitCandidate are terminal. blackNode checks only that the peer is in the pool (`governance.go:665`). A peer that unregistered or quit is then settled by blackQuit, and its voters are slashed.
- **poslimit_lowered** (`TotalPosWithinLimit`). spec.md 3 lists TotalPos ≤ PosLimit × InitPos as an invariant. updateGlobalParam lowers PosLimit without looking at the pool (`governance.go:1251`).
- **quit_stalls** (`SettledEventually`, under `LiveSpec`). This is the liveness run below.

## Fairness and liveness

`LiveSpec` is `Spec` with weak fairness of CommitDpos. commitDpos is called by the consensus engine once MaxBlockChangeView blocks have passed in a view, and by the admin at will. So a commit that stays possible is eventually made. No user or admin handler is assumed to happen.

`SettledEventually` says that a peer that quits or is blacklisted eventually leaves the pool, which frees its owner's InitPos and its voters' stake, unless the views of the model run out. The run uses views 1..2 and at most 3 ZPT per address.
- TLC finds a lasso: register and approve a newcomer, quitNode, then blackNode of the two non-Consensus peers.
- blackNode has no count guard for them (spec.md 4.1 guards only quitNode with "more than K"). Fewer than K Candidate/Consensus peers remain, every commit fails at `method.go:728`, and the quitting and black peers stay forever.
- A failing blackQuit (`method.go:321`) aborts the whole commit and would stall it the same way. Its debit exceeds the owner's totalStake only after unVoteForPeer's double credit (`unvote_mints`), which 1-ZPT votes cannot cause, so this run does not reach it.

## Proofs

`GovernanceProofs.tla` proves, for every value of the constants that satisfies `ConstantsAssumption` and `InitStakeAssumption`:

- **`TypeCorrect: Spec => []TypeOK`.** `TypeOK` is inductive by itself. The proof has one step per action.
  - For the commit, lemmas show that each slot helper, normalQuit and blackQuit return a VoteInfo, and that the penalty is at most the locked stake (`PenaltyArith`, `PenaltyBound`). The penalty is the stored GlobalParam's, which TypeOK keeps in 0..100 because updateGlobalParam checks it.
  - `UnVoteType` shows that unVoteForPeer's record stays in Nat under the "pos is not enough" check.
  - Withdraw, blackQuit's total-stake debit and transferPenalty stay in Nat because of their guards.
  - The counts `prevEligible` are naturals because the pool is a finite set (`PoolCount`, from FiniteSetTheorems).
- **`SlotsInvariant: Spec => []SlotsMatchStatus`.** `SlotsMatchStatus` is inductive relative to `TypeOK`; TypeOK is the strengthening.
  - `CommitSlots` is the commit case. Settled peers leave the pool with empty slots. Elected peers get the freeze slot emptied, and demoted peers get the consensus slot emptied. A peer's status and its new slots come from the same election.
  - For registerCandidate, the new peer's record is already empty because the peer was absent from the pool.
- **`BlackListInvariant: Spec => []BlackListedStaysBlack`.** Also inductive relative to `TypeOK`.
  - `CommitBlack` is the commit case: every blacklisted peer in the pool is Black, so the commit drops it.
  - `OneNonBlack` covers the handlers that change one peer of a non-Black status, which therefore is not blacklisted.
  - For blackNode, the peers it lists are exactly those it marks Black before the commit.

`ElectionProofs.tla` (extends `GovernanceProofs`) proves the election:

- **`ElectsTopK: Spec => CommitElectsTopK`.** Every view change leaves exactly K Consensus peers. Each of them outranks every Candidate, and all of them were eligible before the commit. The ranking is the code's: stake TotalPos + InitPos taken modulo 2^64 (Word), then pubkey. So the theorem also covers the pre-fork chain, where TotalPos has wrapped and the wrapped sum decides.
  - `ViewChangeIsCommit`: the view moves only in commitDpos, or in blackNode's commit branch. So the new pool is always `ExecuteCommitDpos` of the old pool, or of that pool with the listed peers marked Black (`BlackPool`).
  - The rank argument. `Ahead(pl, p)` is the set of eligible peers that `Beats` p: a higher stake, or the same stake and a larger key, as in the code's sort. `Rank(pl, p)` is its cardinality.
  - `BeatsOrder` shows that `Beats` is a strict total order. `RankBound` and `RankInjective` follow: Rank maps the n eligible peers one-to-one into 0..n-1. `RankOnto` then uses FS_Injection to show that Rank is onto.
  - `ElectedCount`: the peers of rank < K are in bijection with 0..K-1, so there are exactly K of them. Its hypothesis is at least K eligible peers, which the commit's own `prevEligible >= K` guard provides.
  - `CommitStatuses` ties this to the pool the commit writes: the Consensus peers are `Elected` and the Candidates are the rest of the eligible peers.

`RefinementProofs.tla` (extends `ElectionProofs`) proves:

- **`LifecycleRefinement: Spec => LifecycleRefined`.** The contract implements `PeerLifecycle` under the mapping `status <- PoolStatus, black <- blackList, epoch <- view, committee <- confK, capacity <- candidateNum`.
  - `StatusOf` is `PoolStatus` as a function of a pool, with `"Absent"` for keys outside it. `ActiveIsEligible` shows that the abstract active set is the contract's eligible set.
  - The step proof has one case per handler. Each of these is its abstract action: registerCandidate, unRegisterCandidate/rejectCandidate, approveCandidate, whiteNode, quitNode and the two GlobalParam updates.
  - commitDpos is `Life!Commit`. `CommitMaps` shows that the new status map is `Life!AfterCommit` of the old one with `Elected` as the committee, and `ElectedCount` supplies the abstract guard that the committee has exactly K members.
  - blackNode with a non-empty list is `Life!BlackFrom` over the pool's peers, in both its commit and its no-commit branch. When every listed peer is non-terminal that is `Life!Blacklist`, the step of spec.md 4.1; otherwise it is `Life!BlacklistSettled`. With an empty list it changes nothing, as the code's loop over an empty list does (`governance.go:660`).
  - The other handlers change neither the status map, the black list, the view nor the parameters, so each of them is an abstract stutter.

`SumLemmas.tla` holds facts about the sums the model takes.

- **What the sums are.** `MapThenSumSet` and `SumFunctionOnSet` are both a fold. It is a recursive function `iter` on the subsets of the set, with `iter[s] = f(x) + iter[s \ {x}]` for the element `x` that CHOOSE picks in `s`.
- **How induction is done.** The library's induction theorems take the induction predicate as an operator argument, and the installed provers cannot instantiate that. So every proof is an induction written as "a smallest counterexample cannot exist". `MinCard` gives a member of least cardinality of any non-empty family of finite sets. It comes from `WFMin` and the well-foundedness of `<` on Nat, and neither takes an operator argument.
- **The fold itself.**
  - `IterExists` shows the fold's function exists on every finite set. It glues together the functions of the sets one element smaller.
  - `IterAgree` shows that two such functions agree on their common subsets.
  - Together they give `SumValue`: the sum is the value of any such function.
- **The facts the proofs use:**
  - `SumType`/`SumInt`: the sum of naturals (integers) is a natural (integer);
  - `SumZero`: a sum of zeros is 0;
  - `SumExt`: a sum depends only on the values on the set;
  - `SumUpdate`: changing one value changes the sum by the difference;
  - `SumGeq`: a sum of naturals is at least each term;
  - `SumRemove`: any element can be taken out first, so the order the fold picks in does not matter;
  - `SumOnSubset`: adding zero-valued elements leaves the sum unchanged;
  - `SumAdd`: the sum of a pointwise sum is the sum of the sums.

`TotalPosProofs.tla` proves:

- **`TotalPosInvariant`.** Under two hypotheses, `Spec => []TotalPosMatchesVotes`.
  - **`PostFork`** (`ApproveResetHeight = 0`). The chain is past the fork at which approveCandidate stopped resetting TotalPos. Before the fork the property is false: the `prefork_drift` run shows it.
  - **`NoWrap`.** Every PosLimit that can be stored, times every InitPos a peer can have, plus one vote amount, is below `Word` (2^64 in the code). The ZPT supply is far below 2^64 / PosLimit. The MC configurations satisfy it: 2 * 2 + 1 < 16.
- **The inductive invariant.** `TotalPosMatchesVotes` is not inductive alone. voteForPeer and checkVoteInfo store `U64(...)` of their sum, which equals the sum only if the sum does not wrap. The strengthening is `TotalPosCapped`.
  - It says every pool peer's TotalPos is at most some possible PosLimit times its InitPos, and that the stored PosLimit is one of the possible ones.
  - The full invariant is `TotalPosMatch /\ TotalPosCapped`. It is inductive relative to the proved `TypeOK` and `SlotsMatchStatus`.
  - TLC checked it, as an invariant, before it was proved. The runs used the constants of `MCGovernance.cfg` (1.57M states), `MCGovernanceRefine.cfg` (219K states) and `MCGovernanceLimit.cfg` (4.97M states; its admin may lower PosLimit, so a peer's cap can be under an earlier PosLimit). Each of these constant sets also satisfies `NoWrap`.
- **How the step proof goes.** It has one case per handler:
  - voteForPeer and unVoteForPeer change one record's active stake and the TotalPos by the same amount (`OneRecordStep`, from `SumUpdate`). unVoteForPeer's "pos is not enough" check makes the subtraction exact (`UnVoteActive`, and `SumGeq` to show that TotalPos is at least the record's stake).
  - checkVoteInfo writes the sum itself, which is already the TotalPos.
  - registerCandidate adds a peer with TotalPos 0. Its voters hold nothing, by `SlotsMatchStatus`.
  - The commit moves stake between ConsensusPos, FreezePos and NewPos only (`CommitKeepsActive`). The demoted-Consensus case needs FreezePos = 0, which the commit checks.
  - Every other handler changes neither TotalPos nor active stake.

`ClaimsProofs.tla` proves:

- **`CommitConserves: Spec => CommitConservesClaims`.** This is an action property and needs no hypothesis beyond `ConstantsAssumption`.
  - `ClaimsOfIs` regroups Claims into one sum over the peers of `PeerClaim`. That is the peer's pool InitPos, plus what its voters hold in its records, plus its penalty stake.
  - `PeerConserved` shows that the commit keeps each peer's share:
    - a quitting peer's InitPos moves to its owner's WithdrawUnfreezePos (`SumOwner`);
    - a black peer's InitPos, and the penalty of each of its records, move to its penalty stake (`SumAdd` with `PenaltyBound`);
    - the status helpers keep what each record holds (`CommitKeepsHeld`).
  - `ViewChangeIsCommit` supplies the commit, from the current pool or from blackNode's `BlackPool`.

What stays with TLC:
- The claim invariants (ZptCoversClaims, ClaimsCoverZpt). They are false in the code, and their violation runs show it.
- Everything about liveness and ENABLED (BlackNodeAlwaysAllowed, SettledEventually). TLAPS has no ENABLED reasoning or fairness rules here.
- The violation runs, which are counterexamples rather than theorems.

## Not modelled

- **The GALA side.** This covers CalcUnbindGala, the TimeOffset and Amount fields, the candidate fee, WithdrawGala, and the amounts of the fee split (executeSplit's float arithmetic, CallSplit, UpdateSplitCurve). It moves only GALA and changes nothing the election or the ZPT ledger reads. Only the split's read of K peers is kept.
- **The GlobalParam capacity invariant.** spec.md 3 says at most CandidateNum peers are Candidate/Consensus. updateGlobalParam can break it too, but it needs more than 4K peers in the pool, which is out of TLC's reach with the vote ledger.
- **A uint64 overflow of TotalPos + pos in voteForPeer.** Every vote must first pass TotalPos ≤ PosLimit × InitPos, so pos stays far below 2^64. Word is kept where TotalPos can wrap downwards, and in the ranking stake that adds InitPos to such a TotalPos.
- **Peer indexes, pubkey encodings, serialization (`param.go`), witness checks, logging and the query handlers.** The caller is any address. The admin's identity matters only for commitDpos, where it is modelled as a free choice.
- **The rest of the node:** p2p, VM, RPC and tools.
- **The spec's wording on blackQuit.** It is ambiguous about whether a black peer's InitPos is refunded (spec.md lines 28, 48 and 116). The model follows the code: InitPos goes to the penalty stake.
