---------------------------- MODULE MCMCPGateway ----------------------------
(* Two calls, one on a pinned tool and one on a tool without a pin. *)
EXTENDS MCPGateway, TLC

CONSTANTS k1, k2, t1, t2, open

MCToolOf == (k1 :> t1) @@ (k2 :> open)
=============================================================================
