----------------------------- MODULE MCOverlays -----------------------------
(***************************************************************************)
(* An instance of Overlays for TLC.                                        *)
(***************************************************************************)
EXTENDS Overlays

CONSTANTS s1, root, admin, agent

\* Two ids as far apart as addresses allow.
FarApart == {2, 251}

\* The admin pages reconcile any device, an agent its own.
AgentAndAdmin == [w \in {agent, admin} |->
                    IF w = agent THEN {251} ELSE FarApart]

With(mode, server, pool) ==
  [mode |-> mode, server |-> server, pool |-> pool, ca |-> root]

\* Restarts may change the mode.
Configs == {With("wireguard", s1, TRUE), With("openvpn", s1, TRUE),
            With("none", s1, FALSE)}
=============================================================================
