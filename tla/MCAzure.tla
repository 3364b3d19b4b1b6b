------------------------------- MODULE MCAzure -------------------------------
(* Instances of Azure for TLC.                                              *)
EXTENDS Azure, TLC

CONSTANTS a, b, c

Public == [azure |-> TRUE, reserve |-> FALSE, front |-> "public", nodes |-> {a, b}]

\* A node is replaced and the balancer to be kept, the balancer is to be kept, the
\* frontend becomes private as well, the Azure provider is removed.
MCSpecs == {Public,
            [Public EXCEPT !.nodes = {b, c}, !.reserve = TRUE],
            [Public EXCEPT !.reserve = TRUE],
            [Public EXCEPT !.front = "private", !.reserve = TRUE],
            [Public EXCEPT !.azure = FALSE, !.front = "none"]}
=============================================================================
