---------------------------- MODULE MCTelemetry ----------------------------
(***************************************************************************)
(* Instances of Telemetry for TLC: a project with two deployments.         *)
(***************************************************************************)
EXTENDS Telemetry

CONSTANTS s1, s2, app, Scrapes, Lists, Traefik, Crashes

SlugsInNames == app :> {s1, s2}

\* A Traefik that just started, and another replica: ahead with one service,
\* and with the other in a class that the project's chart does not show.
Replicas == {[s \in Services |-> Zero],
             [s \in Services |-> [c \in Classes |-> IF (c \in Shown) = (s = s1) THEN 2 ELSE 0]]}

FaultBounds == ("scrape" :> Scrapes) @@ ("list" :> Lists) @@ ("traefik" :> Traefik) @@ ("crash" :> Crashes)
=============================================================================
