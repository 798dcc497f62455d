CONSTANTS
    a1 = a1
    a2 = a2
    Peers <- MCPeers
    Addrs <- MCAddrs
    InitPeers <- MCInitPeers
    InitOwner <- MCInitOwner
    InitStake <- MCInitStake
    K = 2
    KRange = {2}
    CandidateNum = 12
    GlobalParamInputs = {}
    MinInitStake = 1
    PosLimit = 2
    Penalty = 50
    MaxBlockChangeView = 1
    ApproveResetHeight = 1
    Word = 16
    Amounts = {1}
    MaxStake = 3
    MaxView = 3
    MaxHeight = 0
SPECIFICATION Spec
INVARIANT TotalPosMatchesVotes
