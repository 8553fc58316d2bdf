--------------------------- MODULE MCWebhookIntake ---------------------------
(***************************************************************************)
(* Instances of WebhookIntake for TLC: what each delivery says.            *)
(***************************************************************************)
EXTENDS WebhookIntake, TLC

CONSTANTS i1, i2, r1, r2, c1, install, push, grant, uninstall, again,
          Crashes, Failures

Says(kind, inst, repos, gone) ==
    [kind |-> kind, inst |-> inst, repos |-> repos, gone |-> gone,
     commit |-> c1, onDefault |-> kind = "push" /\ repos = {r1}]

\* The App is installed on r1 and pushed to; r2 is added and r1 removed; the
\* App is uninstalled, and installed again under another id.
Story == [d \in Deliveries |->
    CASE d = install   -> Says("installed", i1, {r1}, {})
      [] d = push      -> Says("push", i1, {r1}, {})
      [] d = grant     -> Says("repositories", i1, {r2}, {r1})
      [] d = uninstall -> Says("uninstalled", i1, {}, {})
      [] d = again     -> Says("installed", i2, {r1}, {})]

OwnSlug == [r \in Repos |-> r]

Faults == [k \in FaultKinds |-> IF k = "crash" THEN Crashes ELSE Failures]
=============================================================================
