------------------------- MODULE MCReleaseExecutions -------------------------
(* The record of one execution under arbitrary callers, for TLC.           *)
EXTENDS ReleaseExecutions, TLC

CONSTANTS b1, b2, i1, i2

\* Neither builds nor images are ordered or named by any transaction.
Symmetry == Permutations({b1, b2}) \cup Permutations({i1, i2})
\* New records are on Cloud Build and locked; a legacy record may still be
\* handed over from GitHub Actions.
NewAndLegacy == {[provider |-> "cloud_build", locked |-> TRUE],
                 [provider |-> "github_actions", locked |-> FALSE]}
=============================================================================
