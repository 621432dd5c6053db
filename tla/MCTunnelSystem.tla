---------------------------- MODULE MCTunnelSystem ----------------------------
(* Model values and bounds for checking TunnelSystem with TLC.             *)
EXTENDS TunnelSystem, TLC

CONSTANTS p1, p2, a1, a2, g1, g2, c1, c2, c3, c4

\* One agent process per agent id.
OneProcPerId == [g \in {g1} |-> a1]

\* Two agent processes started with the same agent id (spec E2).
TwoProcsPerId == [g \in {g1, g2} |-> a1]
TwoAgents == (g1 :> a1) @@ (g2 :> a2)

ConnSymmetry == Permutations({c1, c2, c3})

\* Connections, and the two processes of one agent id, are
\* interchangeable: nothing in the model tells two of them apart.
SafetySymmetry ==
    {f @@ h : f \in Permutations(Conns), h \in Permutations(AgentProcs)}
=============================================================================
