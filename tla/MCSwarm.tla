------------------------------- MODULE MCSwarm -------------------------------
(* Instances of Swarm for TLC. *)
EXTENDS Swarm

CONSTANT
    Stagger     \* the time between the starts of two devices

\* omnetpp.ini: authStartTime = 1s + index * 0.5s.
MCAuthStart == [u \in Uav |-> u * Stagger]
=============================================================================
