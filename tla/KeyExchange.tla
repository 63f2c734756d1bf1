---------------------------- MODULE KeyExchange ----------------------------
(***************************************************************************)
(* What Phase 2 promises, and the signed baseline too, with no message in  *)
(* sight: for each request of a device at most one key, derived by the     *)
(* device first, committed to by the ground station only afterwards, and   *)
(* taken for established by the device only once the ground station is     *)
(* committed to it.                                                        *)
(***************************************************************************)
EXTENDS Naturals

CONSTANTS
    Uav,    \* the devices
    None    \* no key

\* A key is any record that names its device, k.uav, and the request it was
\* derived for, k.n1.
VARIABLES
    attempt,        \* attempt[u]: the number of u's current request
    held,           \* held[u]: the key u holds for that request, or None
    established,    \* established[u]: u takes the exchange for complete
    derived,        \* every key a device has derived
    committed       \* every key the ground station has committed to

vars == <<attempt, held, established, derived, committed>>

Init ==
    /\ attempt = [u \in Uav |-> 0]
    /\ held = [u \in Uav |-> None]
    /\ established = [u \in Uav |-> FALSE]
    /\ derived = {}
    /\ committed = {}

\* A new request gives up whatever the previous one had reached.
Request(u) ==
    /\ attempt' = [attempt EXCEPT ![u] = @ + 1]
    /\ held' = [held EXCEPT ![u] = None]
    /\ established' = [established EXCEPT ![u] = FALSE]
    /\ UNCHANGED <<derived, committed>>

\* The device derives a new key, the only one for its request.
Derive(u) ==
    /\ held[u] = None
    /\ \E k \in derived' \ derived :
         /\ k.uav = u
         /\ k.n1 = attempt[u]
         /\ \A old \in derived : old.uav = u => old.n1 # k.n1
         /\ derived' = derived \cup {k}
         /\ held' = [held EXCEPT ![u] = k]
    /\ UNCHANGED <<attempt, established, committed>>

\* The ground station commits to a key that the device has derived.
Commit ==
    /\ \E k \in derived : k \notin committed /\ committed' = committed \cup {k}
    /\ UNCHANGED <<attempt, held, established, derived>>

Establish(u) ==
    /\ held[u] \in committed
    /\ established' = [established EXCEPT ![u] = TRUE]
    /\ UNCHANGED <<attempt, held, derived, committed>>

Next ==
    \/ \E u \in Uav : Request(u) \/ Derive(u) \/ Establish(u)
    \/ Commit

Spec == Init /\ [][Next]_vars
=============================================================================
