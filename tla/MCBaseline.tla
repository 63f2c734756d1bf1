----------------------------- MODULE MCBaseline -----------------------------
(* Instances of Baseline for TLC. *)
EXTENDS Baseline

CONSTANTS
    Bystanders,     \* devices bounded to one request and one session
    u1, u2, Attempts, Sessions

MCMaxAttempts == [u \in Uav |-> IF u \in Bystanders THEN 1 ELSE Attempts]
MCMaxSessions == [u \in Uav |-> IF u \in Bystanders THEN 1 ELSE Sessions]
=============================================================================
