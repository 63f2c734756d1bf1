------------------------------ MODULE MCPhase2 ------------------------------
(* Instances of Phase2 for TLC. *)
EXTENDS Phase2

CONSTANTS
    Bystanders,     \* devices bounded to one request and one session
    Attempts, Enrolments, Sessions

MCMaxAttempts == [u \in Uav |-> IF u \in Bystanders THEN 1 ELSE Attempts]
MCMaxSessions == [u \in Uav |-> IF u \in Bystanders THEN 1 ELSE Sessions]
MCMaxEnrol    == [u \in Uav |-> IF u \in Bystanders THEN 1 ELSE Enrolments]
=============================================================================
