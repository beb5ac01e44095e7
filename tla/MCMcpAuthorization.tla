------------------------- MODULE MCMcpAuthorization -------------------------
(* One authorization with a few credentials and two requests at a time.    *)
EXTENDS McpAuthorization, TLC

CONSTANTS w1, w2, g1, g2, p1, p2, p3

Symmetry == Permutations({w1, w2}) \cup Permutations({g1, g2})
            \cup Permutations({p1, p2, p3})
=============================================================================
