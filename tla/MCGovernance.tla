---------------------------- MODULE MCGovernance ----------------------------
(* A small instance of Governance for TLC: three peers, two of them in the  *)
(* initial configuration, two addresses, a committee of two.  The newcomer *)
(* has the smallest pubkey, so with equal stakes it loses every tie: a     *)
(* voted candidate can then stay out of the committee, hold FreezePos, and *)
(* be elected later when a consensus peer is blacked.                     *)
EXTENDS Governance

CONSTANTS a1, a2

MCPeers == {1, 2, 3}
MCAddrs == {a1, a2}
MCInitPeers == {2, 3}
MCInitOwner == [p \in MCInitPeers |-> IF p = 2 THEN a1 ELSE a2]
MCInitStake == [p \in MCInitPeers |-> 2]
MCInitStakeOne == [p \in MCInitPeers |-> 1]
\* GlobalParams the admin may store: a tighter PosLimit with the same
\* capacity, and a smaller capacity with a higher MinInitStake and Penalty.
MCGlobalParamInputs ==
    {[candidateNum |-> 12, minInitStake |-> 1, posLimit |-> 1, penalty |-> 50],
     [candidateNum |-> 8, minInitStake |-> 2, posLimit |-> 2, penalty |-> 100]}
=============================================================================
