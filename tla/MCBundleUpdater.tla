--------------------------- MODULE MCBundleUpdater ---------------------------
(***************************************************************************)
(* Model checking of BundleUpdater: a canary c1, two global bundles that   *)
(* rely on it, one for another environment, and one each of the bundles    *)
(* that are refused.                                                       *)
(***************************************************************************)
EXTENDS BundleUpdater, TLC

CONSTANTS
    u1, u2,
    c1, g2, g3, d2, weak, sick, odd,
    dev, prod,
    a1, a2,
    k1, k2, k3

MCApprovers == {a1, a2, Nobody}
People    == Permutations({a1, a2})
Everybody == People \cup Permutations({u1, u2})
MCKeys == {k1, k2, k3}

\* The bundles of a run.
OneEnvironment == {c1, g2, g3}
OneRollout     == {c1, g2}
AllBundles     == {c1, g2, g3, d2, weak, sick, odd}

\* The last canary, and a bundle that is none: approve_canary does not ask.
MCCandidates   == {NoBundle, g2}
LastCanaryOnly == {NoBundle}

GlobalFrom(v, gateMetrics, parts) ==
    [version |-> v, env |-> prod, stage |-> "global", signers |-> MCKeys, required |-> FALSE,
     source |-> c1, metrics |-> gateMetrics, parts |-> parts]

Canary == [version |-> 1, env |-> prod, stage |-> "canary", signers |-> MCKeys, required |-> FALSE,
           source |-> NoBundle, metrics |-> "none", parts |-> {"keyring", "pinset", "policy"}]

AllContent ==
    (c1 :> Canary) @@
    (g2 :> GlobalFrom(2, "good", {"keyring", "policy"})) @@
    (g3 :> GlobalFrom(3, "good", {"pinset", "policy"})) @@
    (d2 :> [GlobalFrom(2, "none", {"policy"}) EXCEPT
              !.env = dev, !.signers = {k1}, !.source = NoBundle]) @@
    (weak :> [GlobalFrom(2, "good", {"policy"}) EXCEPT !.signers = {k1, k2}]) @@
    (sick :> GlobalFrom(2, "bad", {"policy"})) @@
    (odd  :> [Canary EXCEPT !.version = 2, !.stage = "other"])

MCContent == [b \in Names |-> AllContent[b]]

\* src/config/bundle_trust.json: production asks for more of everything.
MCMinSignatures   == [e \in Envs |-> IF e = prod THEN 3 ELSE 1]
MCMinApprovers    == [e \in Envs |-> IF e = prod THEN 2 ELSE 1]
MCRequireApproval == [e \in Envs |-> e = prod]
MCNeedsMetrics    == [e \in Envs |-> e = prod]

=============================================================================
