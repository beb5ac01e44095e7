--------------------------- MODULE MCDeployments ---------------------------
(* Two commands of one service: every pair of providers, the kinds and      *)
(* runtimes whose engines report differently, two faults where they fit,    *)
(* and two handlers that overlap.                                           *)
EXTENDS Deployments

Ask(provider, kind, runtime) ==
  [provider |-> provider, kind |-> kind, runtime |-> runtime]

Load(a, b, staged, calls1, calls2, f, handlers) ==
  [ask      |-> [k \in Keys |-> IF k = "k1" THEN a ELSE b],
   staged   |-> staged,
   calls    |-> [k \in Keys |-> IF k = "k1" THEN calls1 ELSE calls2],
   faults   |-> f,
   handlers |-> handlers]

MCWorkloads ==
  LET gh  == Ask("github_actions", "deploy", "service")
      cb  == Ask("cloud_build", "deploy", "service")
      ind == Ask("cloud_build", "deploy", "independent")
      job == Ask("cloud_build", "deploy", "job")
      rb  == Ask("cloud_build", "rollback", "service")
      ghr == Ask("github_actions", "rollback", "service")
  IN  {Load(gh, gh, TRUE, 2, 0, 2, {"h1"}), Load(gh, gh, FALSE, 2, 1, 1, {"h1"}),
       Load(gh, ghr, TRUE, 1, 1, 1, {"h1"}),
       Load(cb, cb, FALSE, 1, 1, 1, {"h1"}), Load(ind, gh, TRUE, 2, 1, 1, {"h1"}),
       Load(job, rb, TRUE, 1, 1, 1, {"h1"}), Load(cb, cb, FALSE, 2, 0, 2, {"h1", "h2"})}

\* A refused GitHub dispatch that is retried while a build of another command
\* works on the service: nothing but the commands' own checks keeps them apart.
MCRetryWorkloads ==
  LET gh == Ask("github_actions", "deploy", "service")
      cb == Ask("cloud_build", "deploy", "service")
  IN  {Load(gh, cb, FALSE, 2, 1, 1, {"h1"})}
=============================================================================
