---------------------------- MODULE PeerHandshake ----------------------------
(***************************************************************************)
(* What Phase 3 promises two devices, with no message in sight.  A device  *)
(* calls another, or answers its call, with a nonce it has not used; an    *)
(* exchange is a call and one answer to it.  The caller completes at most  *)
(* one exchange for a call, and the answerer completes its own only if the *)
(* caller has completed the same.  What is completed stays so until the    *)
(* device calls, or answers, that peer anew.                               *)
(***************************************************************************)
EXTENDS Naturals

CONSTANTS
    Uav,    \* the devices
    None    \* no exchange

\* An exchange is [from, to, n1, n2]: the caller, the answerer, their nonces.
VARIABLES
    begun,      \* begun[u][v]: u's nonce in its present handshake with v, or 0
    completed,  \* completed[u][v]: the exchange u has completed in it, or None
    answered,   \* every exchange with which a call was answered
    confirmed   \* every exchange that a caller has completed

vars == <<begun, completed, answered, confirmed>>

Init ==
    /\ begun = [u \in Uav |-> [v \in Uav |-> 0]]
    /\ completed = [u \in Uav |-> [v \in Uav |-> None]]
    /\ answered = {}
    /\ confirmed = {}

\* u gives up its handshake with v, if it has one, for another.
Begin(u, v) ==
    /\ begun'[u][v] > begun[u][v]
    /\ begun' = [begun EXCEPT ![u][v] = begun'[u][v]]
    /\ completed' = [completed EXCEPT ![u][v] = None]

Call(u, v) ==
    /\ Begin(u, v)
    /\ UNCHANGED <<answered, confirmed>>

\* v answers the present call of u, or an earlier one.
Answer(v, u) ==
    /\ Begin(v, u)
    /\ \E x \in answered' \ answered :
         /\ x.from = u /\ x.n1 \in 1 .. begun[u][v]
         /\ x.to = v /\ x.n2 = begun'[v][u]
         /\ \A y \in answered : y.to = v => y.n2 # x.n2
         /\ answered' = answered \cup {x}
    /\ UNCHANGED confirmed

Confirm(u, v) ==
    /\ completed[u][v] = None
    /\ \E x \in answered :
         /\ x.from = u /\ x.n1 = begun[u][v] /\ x.to = v
         /\ \A y \in confirmed : y.from = u /\ y.to = v => y.n1 # x.n1
         /\ confirmed' = confirmed \cup {x}
         /\ completed' = [completed EXCEPT ![u][v] = x]
    /\ UNCHANGED <<begun, answered>>

Accept(v, u) ==
    /\ completed[v][u] = None
    /\ \E x \in confirmed :
         /\ x.from = u /\ x.to = v /\ x.n2 = begun[v][u]
         /\ completed' = [completed EXCEPT ![v][u] = x]
    /\ UNCHANGED <<begun, answered, confirmed>>

Next == \E u, v \in Uav : Call(u, v) \/ Answer(u, v) \/ Confirm(u, v) \/ Accept(u, v)

Spec == Init /\ [][Next]_vars
=============================================================================
