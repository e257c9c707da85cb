CONSTANTS
    u1 = u1
    u2 = u2
    c1 = c1
    g2 = g2
    g3 = g3
    d2 = d2
    weak = weak
    sick = sick
    odd = odd
    dev = dev
    prod = prod
    a1 = a1
    a2 = a2
    k1 = k1
    k2 = k2
    k3 = k3
    NoBundle = NoBundle
    Nobody = Nobody
    Garbled = Garbled
    Updaters = {u1, u2}
    Names <- OneRollout
    Envs = {prod}
    Approvers <- MCApprovers
    Candidates <- MCCandidates
    Keys <- MCKeys
    Content <- MCContent
    MinSignatures <- MCMinSignatures
    MinApprovers <- MCMinApprovers
    RequireApproval <- MCRequireApproval
    NeedsMetrics <- MCNeedsMetrics
    MaxVotes = 3
    MaxCrashes = 1
SYMMETRY Everybody
SPECIFICATION Spec
CHECK_DEADLOCK FALSE
INVARIANTS
    ApprovalsHaveVoters
