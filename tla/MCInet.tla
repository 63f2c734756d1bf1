------------------------------- MODULE MCInet -------------------------------
(* Instances of Inet for TLC. *)
EXTENDS Inet

CONSTANTS
    Restarting,     \* the nodes that may be started a second time
    Starts          \* how often

MCMaxStarts == [x \in Node |-> IF x \in Restarting THEN Starts ELSE 1]
MCRestarting == {-1, 1}
=============================================================================
