----------------------------- MODULE MCNodeSetup -----------------------------
(* An instance of NodeSetup for TLC: ipvsdr adjusts two kernel parameters   *)
(* and the ingress sidecar one.                                             *)
EXTENDS NodeSetup, TLC

CONSTANTS k1, k2, k3

MCAdjusts == ("ipvsdr" :> {k1, k2}) @@ ("ingress" :> {k3})

Symmetric == Permutations(Macs) \cup Permutations(Ports) \cup Permutations({k1, k2})
=============================================================================
