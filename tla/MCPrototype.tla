------------------------------ MODULE MCPrototype ------------------------------
(* An instance of Prototype for TLC. *)
EXTENDS Prototype

CONSTANTS u1, u2

\* u1 may use up its pool; u2 is the other client it waits for.
MCMaxRuns == [u \in Uav |-> IF u = u1 THEN NumCrps + 1 ELSE 1]

\* With --persist: nobody, the server alone as README.md:242-248 shows it, or
\* all.
MCPersisting == {{}, {Gs}, Uav \cup {Gs}}
===============================================================================
