--------------------------- MODULE PeerCredentials ---------------------------
(***************************************************************************)
(* What Phase 3 relies on of Phase 2: for each request of a device, one    *)
(* confirmation and then one grant of credentials, for peers that are      *)
(* enrolled.  A grant stays as it was until the next request takes it      *)
(* away, whatever arrives again.  Phase2 has the messages that bring it    *)
(* about; Phase3 and Inet keep of Phase 2 little more than this.           *)
(***************************************************************************)
EXTENDS Naturals

CONSTANT Uav    \* the devices

VARIABLES
    enrolled,   \* the devices that have been enrolled
    requests,   \* requests[u]: how many runs of Phase 2 u has begun
    phase,      \* phase[u]: how far the present one is
    granted     \* granted[u]: the peers whose credential u holds

vars == <<enrolled, requests, phase, granted>>

Init ==
    /\ enrolled \subseteq Uav
    /\ requests = [u \in Uav |-> 0]
    /\ phase = [u \in Uav |-> "none"]
    /\ granted = [u \in Uav |-> {}]

Enroll ==
    /\ enrolled \subseteq enrolled'
    /\ enrolled' \subseteq Uav
    /\ UNCHANGED <<requests, phase, granted>>

Request(u) ==
    /\ u \in enrolled
    /\ requests' = [requests EXCEPT ![u] = @ + 1]
    /\ phase' = [phase EXCEPT ![u] = "requested"]
    /\ granted' = [granted EXCEPT ![u] = {}]
    /\ UNCHANGED enrolled

\* The ground station is authenticated: u has a session key.
Confirm(u) ==
    /\ phase[u] = "requested"
    /\ phase' = [phase EXCEPT ![u] = "confirmed"]
    /\ UNCHANGED <<enrolled, requests, granted>>

Grant(u) ==
    /\ phase[u] = "confirmed"
    /\ phase' = [phase EXCEPT ![u] = "established"]
    /\ granted'[u] \subseteq enrolled \ {u}
    /\ granted' = [granted EXCEPT ![u] = granted'[u]]
    /\ UNCHANGED <<enrolled, requests>>

Next == Enroll \/ \E u \in Uav : Request(u) \/ Confirm(u) \/ Grant(u)

Spec == Init /\ [][Next]_vars
=============================================================================
