------------------------------ MODULE MCPhase3 ------------------------------
(* Instances of Phase3 for TLC. *)
EXTENDS Phase3

CONSTANTS
    u1, u2,
    Requests,   \* startPhase2 calls of each device
    Draws       \* nonces drawn by each device in Phase 3

\* startPhase3Round: the lower-numbered UAV drives the pair.
MCDrives == [u \in Uav |-> IF u = u1 THEN Uav \ {u1} ELSE {}]
MCMaxRequests == [u \in Uav |-> Requests]
MCMaxDraws == [u \in Uav |-> Draws]
=============================================================================
