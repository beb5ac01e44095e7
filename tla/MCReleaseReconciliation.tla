----------------------- MODULE MCReleaseReconciliation -----------------------
(* Small instances of the handlers of one release execution, for TLC.      *)
EXTENDS ReleaseReconciliation, TLC

CONSTANTS b1, b2, b3, b4, i1, i2, w1, w2

CloudBuild == {[provider |-> "cloud_build", locked |-> TRUE]}

\* The callbacks of the build, and the sweep.
ReleaseServes == (w1 :> {"token", "event"}) @@ (w2 :> {"sweep"})

\* The callbacks of the build, redelivered webhooks and, for a pull request,
\* its newer heads; and the sweep.
WebhookServes == (w1 :> {"token", "event", "newHead", "hook"})
                 @@ (w2 :> {"sweep"})

\* The callbacks of the build, its operators, redelivered webhooks and, for a
\* pull request, its newer heads; and the sweep, which either replica takes.
OperatorServes ==
    (w1 :> {"token", "event", "approve", "supersede", "cancel", "newHead",
            "hook", "sweep"})
    @@ (w2 :> {"sweep"})
=============================================================================
