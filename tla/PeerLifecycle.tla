---------------------------- MODULE PeerLifecycle ----------------------------
(***************************************************************************)
(* The peer lifecycle without stake: the status of every peer, the black  *)
(* list, the view, and the committee size.  A commit settles the terminal  *)
(* peers, moves QuitConsensus peers to Quiting one view later, and splits  *)
(* the Candidate/Consensus peers into exactly K Consensus peers and the    *)
(* rest Candidates; which K is left open here (the stake ranking is the    *)
(* detailed specification's business).                                     *)
(*                                                                         *)
(* PromisedSpec is the lifecycle of spec.md 4.1, where only a peer of a    *)
(* non-terminal status can be blacklisted.  LSpec widens it by one step,   *)
(* BlacklistSettled, in which a Quiting, QuitCandidate or Black peer is    *)
(* blacklisted (again): the contract takes that step, spec.md 4.1 does not *)
(* allow it.  LSpec is what the contract is shown to implement.           *)
(***************************************************************************)
EXTENDS Naturals, FiniteSets

CONSTANTS Peers, InitPeers, K, KRange, CandidateNum

VARIABLES
    status,     \* peer -> its status, "Absent" when not in the pool
    black,      \* the black list
    epoch,      \* the governance view
    committee,  \* the committee size K in force
    capacity    \* the pool capacity CandidateNum in force

lvars == <<status, black, epoch, committee, capacity>>

Terminal == {"Quiting", "QuitCandidate", "Black"}

InPool(st) == {p \in Peers : st[p] # "Absent"}
Active(st) == {p \in Peers : st[p] \in {"Candidate", "Consensus"}}

LInit ==
    /\ status = [p \in Peers |-> IF p \in InitPeers THEN "Consensus" ELSE "Absent"]
    /\ black = {}
    /\ epoch = 1
    /\ committee = K
    /\ capacity = CandidateNum

Register(p) ==
    /\ status[p] = "Absent"
    /\ p \notin black
    /\ status' = [status EXCEPT ![p] = "RegisterCandidate"]
    /\ UNCHANGED <<black, epoch, committee, capacity>>

\* Approval is bounded by the pool capacity.
Approve(p) ==
    /\ status[p] = "RegisterCandidate"
    /\ Cardinality(Active(status)) < capacity
    /\ status' = [status EXCEPT ![p] = "Candidate"]
    /\ UNCHANGED <<black, epoch, committee, capacity>>

\* A registration withdrawn by its owner or rejected by the admin.
Withdrawn(p) ==
    /\ status[p] = "RegisterCandidate"
    /\ status' = [status EXCEPT ![p] = "QuitCandidate"]
    /\ UNCHANGED <<black, epoch, committee, capacity>>

\* Quitting keeps more than K Candidate/Consensus peers.
Quit(p) ==
    /\ status[p] \in {"Candidate", "Consensus"}
    /\ Cardinality(Active(status)) > committee
    /\ status' = [status EXCEPT ![p] = IF @ = "Consensus" THEN "QuitConsensus" ELSE "Quiting"]
    /\ UNCHANGED <<black, epoch, committee, capacity>>

\* The statuses after a commit from st that elects the committee C.
AfterCommit(st, C) ==
    [p \in Peers |->
        CASE st[p] \in Terminal -> "Absent"
          [] st[p] = "QuitConsensus" -> "Quiting"
          [] p \in C -> "Consensus"
          [] p \in Active(st) \ C -> "Candidate"
          [] OTHER -> st[p]]

\* A commit from the statuses st: at least K candidates, exactly K elected.
CommitFrom(st) ==
    /\ Cardinality(Active(st)) >= committee
    /\ \E C \in SUBSET Active(st) :
          /\ Cardinality(C) = committee
          /\ status' = AfterCommit(st, C)
    /\ epoch' = epoch + 1

Commit ==
    /\ CommitFrom(status)
    /\ UNCHANGED <<black, committee, capacity>>

\* The pool peers spec.md 4.1 lets the admin blacklist: the non-terminal ones.
NonTerminal(st) == {p \in InPool(st) : st[p] \notin Terminal}

\* Blacklisting the peers S, taken from the set Allowed, marks them Black;
\* when one of them was in the committee a commit follows in the same step.
BlackFrom(S, Allowed) ==
    LET st == [p \in Peers |-> IF p \in S THEN "Black" ELSE status[p]] IN
    /\ S # {}
    /\ S \subseteq Allowed
    /\ black' = black \cup S
    /\ UNCHANGED <<committee, capacity>>
    /\ \/ /\ \E p \in S : status[p] = "Consensus"
          /\ CommitFrom(st)
       \/ /\ \A p \in S : status[p] # "Consensus"
          /\ status' = st
          /\ UNCHANGED epoch

\* spec.md 4.1: any non-terminal status goes to Black on the admin's action.
Blacklist(S) == BlackFrom(S, NonTerminal(status))

\* Not in spec.md 4.1: among the peers blacklisted is one that has already
\* quit, or is Black, and is only waiting for the commit to settle it.
BlacklistSettled(S) ==
    /\ ~(S \subseteq NonTerminal(status))
    /\ BlackFrom(S, InPool(status))

Unblacklist(p) ==
    /\ p \in black
    /\ black' = black \ {p}
    /\ UNCHANGED <<status, epoch, committee, capacity>>

\* A new committee size, no larger than the current Candidate/Consensus count.
Reconfigure(k) ==
    /\ k <= Cardinality(Active(status))
    /\ 4 * k <= capacity
    /\ committee' = k
    /\ UNCHANGED <<status, black, epoch, capacity>>

\* A new capacity, at least four times the committee size.
Recapacity ==
    /\ capacity' \in Nat
    /\ 4 * committee <= capacity'
    /\ UNCHANGED <<status, black, epoch, committee>>

\* The steps spec.md 4.1 allows.
PromisedNext ==
    \/ \E p \in Peers : Register(p) \/ Approve(p) \/ Withdrawn(p) \/ Quit(p) \/ Unblacklist(p)
    \/ \E S \in SUBSET Peers : Blacklist(S)
    \/ \E k \in KRange : Reconfigure(k)
    \/ Recapacity
    \/ Commit

PromisedSpec == LInit /\ [][PromisedNext]_lvars

\* The steps of spec.md 4.1 and the one step the contract adds.
LNext ==
    \/ PromisedNext
    \/ \E S \in SUBSET Peers : BlacklistSettled(S)

LSpec == LInit /\ [][LNext]_lvars

=============================================================================
