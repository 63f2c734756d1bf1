-------------------------------- MODULE Swarm --------------------------------
(***************************************************************************)
(* A whole simulation run: the UAV nodes, the ground-station node, the     *)
(* medium between them and an attached interceptor (src/src/nodes/).       *)
(*                                                                         *)
(* The nodes own what the protocol classes do not: when a handshake        *)
(* starts, what follows an accepted message, and the records and counters  *)
(* that finish() reports.  Each device runs Phase 2 once, so a protocol    *)
(* session is reduced to how far it is; Phase2 and Phase3 have the rest.   *)
(*                                                                         *)
(* The kernel executes one event after the other.  A message is taken out  *)
(* of flight by its arrival, at most MaxDelay after it was sent: nothing   *)
(* is lost, but jitter reorders.  Every delay is far below                 *)
(* timestampWindowMs, so that no message here is ever stale.               *)
(***************************************************************************)
EXTENDS Integers, FiniteSets

CONSTANTS
    NumUavs,        \* numUAVs
    Gs,             \* the ground-station node, senderId -1 on the wire
    Interceptor,    \* the attacker node
    None,           \* no record, no timer
    AuthStart,      \* AuthStart[u]: authStartTime
    PeerStarts,     \* the values of peerAuthStartTime
    Modes,          \* the configurations of the medium and the interceptor
    Target,         \* targetUav of the interceptor
    MaxForged,      \* how many M2s it makes up
    MaxDelay        \* bound on the delay of a message

Uav == 0 .. NumUavs - 1

Abort == {"none", "FeReproductionFailed", "ReplayedNonce", "MacVerifyFailed",
          "DhFailed", "NoSuchPeer"}
Record3 == [initiator : BOOLEAN, success : BOOLEAN, abort : Abort]

ASSUME SwarmAssumption ==
    /\ NumUavs \in Nat
    /\ Interceptor \notin Uav \cup {Gs}
    /\ None \notin Nat \cup Record3
    /\ AuthStart \in [Uav -> Nat]
    /\ PeerStarts \subseteq Nat
    /\ Modes \subseteq {"none", "replay", "gsimpersonate", "tamper"}
    /\ MaxForged \in Nat
    /\ MaxDelay \in Nat

VARIABLES
    mode,       \* what the interceptor does, fixed for a run
    peerStart,  \* peerAuthStartTime, fixed for a run
    now,        \* simTime()
    phase2,     \* phase2[u]: how far u is with its handshake
    round,      \* round[u]: the time its startPhase3 message is due, or None
    peers,      \* peers[u][v]: how far u's Phase3Session with v is
    record2,    \* record2[u]: u's Phase2Record
    record3,    \* record3[u][v]: u's Phase3Record of v, or None
    session,    \* session[u]: how far the ground station is with u
    offered,    \* the devices whose nonce is in its replay cache
    recordGs,   \* recordGs[u]: its GsPhase2Record of u
    attempts,   \* authAttempts_
    successes,  \* authSuccesses_
    captured,   \* the interceptor has captured the M1 of its target
    net         \* the messages in flight

uavVars == <<phase2, round, peers, record2, record3>>
gsVars == <<session, offered, recordGs, attempts, successes>>
fixed == <<mode, peerStart>>
vars == <<fixed, now, uavVars, gsVars, captured, net>>
-----------------------------------------------------------------------------
\* copy is 0 for what its sender sent, otherwise the interceptor sent it; at
\* is the module it flies to, by the time it arrives.
Message ==
    [type : {"M1", "M2", "M3", "M4", "P1", "P2", "P3"},
     from : Uav \cup {Gs}, to : Uav \cup {Gs}, copy : Nat, intact : BOOLEAN,
     at : Uav \cup {Gs, Interceptor}, by : Nat]

Record2 == [success : BOOLEAN, abort : Abort]

TypeOK ==
    /\ mode \in Modes /\ peerStart \in PeerStarts /\ now \in Nat
    /\ phase2 \in [Uav ->
           {"idle", "failed", "requested", "confirmed", "established"}]
    /\ round \in [Uav -> Nat \cup {None}]
    /\ peers \in [Uav -> [Uav ->
           {"none", "requested", "answered", "established"}]]
    /\ record2 \in [Uav -> Record2]
    /\ record3 \in [Uav -> [Uav -> Record3 \cup {None}]]
    /\ session \in [Uav -> {"none", "answered", "confirmed"}]
    /\ offered \subseteq Uav
    /\ recordGs \in [Uav -> Record2]
    /\ attempts \in Nat /\ successes \in Nat
    /\ captured \in BOOLEAN
    /\ net \subseteq Message

\* The nodes after both stages of initialize: every device is enrolled and
\* provisioned, and its startPhase2 message is scheduled.
Init ==
    /\ mode \in Modes
    /\ peerStart \in PeerStarts
    /\ now = 0
    /\ phase2 = [u \in Uav |-> "idle"]
    /\ round = [u \in Uav |-> None]
    /\ peers = [u \in Uav |-> [v \in Uav |-> "none"]]
    /\ record2 = [u \in Uav |-> [success |-> FALSE, abort |-> "none"]]
    /\ record3 = [u \in Uav |-> [v \in Uav |-> None]]
    /\ session = [u \in Uav |-> "none"]
    /\ offered = {}
    /\ recordGs = [u \in Uav |-> [success |-> FALSE, abort |-> "none"]]
    /\ attempts = 0
    /\ successes = 0
    /\ captured = FALSE
    /\ net = {}
-----------------------------------------------------------------------------
(* The medium *)

Payload(type, from, to) ==
    [type |-> type, from |-> from, to |-> to, copy |-> 0, intact |-> TRUE]

Flight(p, at) == [type |-> p.type, from |-> p.from, to |-> p.to,
                  copy |-> p.copy, intact |-> p.intact,
                  at |-> at, by |-> now + MaxDelay]

\* Where WirelessMedium::transmit routes what a node sends.  An eavesdropper
\* gets a copy of everything; those it only counts are left out.
Receivers(p) ==
    CASE mode = "replay" /\ p.type = "M1" /\ p.from = Target -> {p.to, Interceptor}
      [] mode = "gsimpersonate" /\ p.type \in {"M1", "M3"} -> {Interceptor}
      [] mode = "tamper" -> {Interceptor}
      [] OTHER -> {p.to}

Transmit(p) == {Flight(p, a) : a \in Receivers(p)}

Arrives(m, a) == m \in net /\ m.at = a
Take(m) == net' = net \ {m}
TakeAndSend(m, p) == net' = (net \ {m}) \cup Transmit(p)
-----------------------------------------------------------------------------
(* Phase 2 *)

\* What leaves u, given that its fuzzy extractor reproduced the key or not;
\* in the mutant the failure does not return.
MutantRequest(u, reproduced) == Transmit(Payload("M1", u, Gs))
Request(u, reproduced) ==
    IF reproduced THEN Transmit(Payload("M1", u, Gs)) ELSE {}

\* UavNode's startPhase2 message.  A device that cannot reproduce its master
\* key records that and sends nothing, now or later.
StartPhase2(u) ==
    /\ phase2[u] = "idle"
    /\ AuthStart[u] = now
    /\ \/ /\ phase2' = [phase2 EXCEPT ![u] = "requested"]
          /\ net' = net \cup Request(u, TRUE)
          /\ UNCHANGED record2
       \/ /\ phase2' = [phase2 EXCEPT ![u] = "failed"]
          /\ record2' = [record2 EXCEPT ![u].abort = "FeReproductionFailed"]
          /\ net' = net \cup Request(u, FALSE)
    /\ UNCHANGED <<fixed, now, round, peers, record3, gsVars, captured>>

\* Mutants: one session for all devices; a nonce that is not remembered.
MutantOpenSession(u) ==
    [v \in Uav |-> IF v = u THEN "answered" ELSE "none"]
OpenSession(u) == [session EXCEPT ![u] = "answered"]

MutantOffer(u) == offered
OfferNonce(u) == offered \cup {u}

\* An M1 that the ground station refuses, and why.
RefuseM1(u, reason) ==
    /\ recordGs' = [recordGs EXCEPT ![u].abort = reason]
    /\ UNCHANGED session

\* The M1 case of GroundStationNode::handleMessage.
HandleM1(m) ==
    LET u == m.from
    IN  /\ m.type = "M1" /\ Arrives(m, Gs)
        /\ attempts' = attempts + 1
        /\ offered' = OfferNonce(u)
        /\ \/ /\ u \in offered
              /\ RefuseM1(u, "ReplayedNonce") /\ Take(m)
           \/ /\ u \notin offered /\ ~m.intact
              /\ RefuseM1(u, "MacVerifyFailed") /\ Take(m)
           \/ /\ u \notin offered /\ m.intact
              /\ session' = OpenSession(u)
              /\ TakeAndSend(m, Payload("M2", Gs, u))
              /\ UNCHANGED recordGs
        /\ UNCHANGED <<fixed, now, uavVars, successes, captured>>

\* The M2 case of UavNode::handleMessage.  An M2 that the ground station did
\* not make does not verify; a second one finds the secret erased.
HandleM2(m) ==
    LET u == m.to
    IN  /\ m.type = "M2" /\ Arrives(m, u)
        /\ \/ /\ m.copy # 0 \/ phase2[u] # "requested"
              /\ record2' = [record2 EXCEPT ![u].abort =
                     IF m.copy # 0 THEN "MacVerifyFailed" ELSE "DhFailed"]
              /\ Take(m)
              /\ UNCHANGED phase2
           \/ /\ m.copy = 0 /\ phase2[u] = "requested"
              /\ phase2' = [phase2 EXCEPT ![u] = "confirmed"]
              /\ TakeAndSend(m, Payload("M3", u, Gs))
              /\ UNCHANGED record2
        /\ UNCHANGED <<fixed, now, round, peers, record3, gsVars, captured>>

\* The M3 case of GroundStationNode::handleMessage.  Only the answer to an
\* accepted M2 is ever in flight to the ground station.
HandleM3(m) ==
    LET u == m.from
    IN  /\ m.type = "M3" /\ Arrives(m, Gs)
        /\ session[u] = "answered"
        /\ session' = [session EXCEPT ![u] = "confirmed"]
        /\ recordGs' = [recordGs EXCEPT ![u].success = TRUE]
        /\ successes' = successes + 1
        /\ TakeAndSend(m, Payload("M4", Gs, u))
        /\ UNCHANGED <<fixed, now, uavVars, offered, attempts, captured>>

\* When the round of peer handshakes starts: not before peerAuthStartTime.
\* Mutants: at once; a delay where scheduleAt wants a time.
MutantRoundTime == now
MutantRoundDelay == peerStart - now
RoundTime == IF now > peerStart THEN now ELSE peerStart

\* The M4 case of UavNode::handleMessage.
HandleM4(m) ==
    LET u == m.to
    IN  /\ m.type = "M4" /\ Arrives(m, u)
        /\ phase2[u] = "confirmed"
        /\ phase2' = [phase2 EXCEPT ![u] = "established"]
        /\ record2' = [record2 EXCEPT ![u].success = TRUE]
        /\ round' = [round EXCEPT ![u] = RoundTime]
        /\ Take(m)
        /\ UNCHANGED <<fixed, now, peers, record3, gsVars, captured>>
-----------------------------------------------------------------------------
(* Phase 3 *)

HasCredentials(u) == phase2[u] = "established"

\* A mutant of Driven: both sides of a pair start it.
MutantDriven(u) == Uav \ {u}
Driven(u) == {v \in Uav : v > u}

\* UavNode::startPhase3Round.  The credentials came with M4, for every peer.
StartPhase3Round(u) ==
    /\ round[u] = now
    /\ round' = [round EXCEPT ![u] = None]
    /\ peers' = [peers EXCEPT ![u] =
           [v \in Uav |-> IF v \in Driven(u) THEN "requested" ELSE @[v]]]
    /\ record3' = [record3 EXCEPT ![u] =
           [v \in Uav |->
               IF v \in Driven(u)
               THEN [initiator |-> TRUE, success |-> FALSE, abort |-> "none"]
               ELSE @[v]]]
    /\ net' = net \cup UNION {Transmit(Payload("P1", u, v)) : v \in Driven(u)}
    /\ UNCHANGED <<fixed, now, phase2, record2, gsVars, captured>>

\* The record v keeps of a P1 of u.  The mutant looks it up by the receiver.
P1Record(reason) == [initiator |-> FALSE, success |-> FALSE, abort |-> reason]
MutantRecordP1(v, u, reason) == [record3 EXCEPT ![v][v] = P1Record(reason)]
RecordP1(v, u, reason) == [record3 EXCEPT ![v][u] = P1Record(reason)]

\* The P1 case: a device without credentials refuses, and the initiator is
\* never told.
HandleP1(m) ==
    LET v == m.to
        u == m.from
    IN  /\ m.type = "P1" /\ Arrives(m, v)
        /\ \/ /\ HasCredentials(v)
              /\ record3' = RecordP1(v, u, "none")
              /\ peers' = [peers EXCEPT ![v][u] = "answered"]
              /\ TakeAndSend(m, Payload("P2", v, u))
           \/ /\ ~HasCredentials(v)
              /\ record3' = RecordP1(v, u, "NoSuchPeer")
              /\ Take(m)
              /\ UNCHANGED peers
        /\ UNCHANGED <<fixed, now, phase2, round, record2, gsVars, captured>>

\* A session of u with v is agreed, and the record says so.
Establish(u, v) ==
    /\ peers' = [peers EXCEPT ![u][v] = "established"]
    /\ record3' = [record3 EXCEPT ![u][v].success = TRUE]

\* The P2 case, with what follows the switch: the initiator is done.
HandleP2(m) ==
    /\ m.type = "P2" /\ Arrives(m, m.to)
    /\ peers[m.to][m.from] = "requested"
    /\ Establish(m.to, m.from)
    /\ TakeAndSend(m, Payload("P3", m.to, m.from))
    /\ UNCHANGED <<fixed, now, phase2, round, record2, gsVars, captured>>

HandleP3(m) ==
    /\ m.type = "P3" /\ Arrives(m, m.to)
    /\ peers[m.to][m.from] = "answered"
    /\ Establish(m.to, m.from)
    /\ Take(m)
    /\ UNCHANGED <<fixed, now, phase2, round, record2, gsVars, captured>>
-----------------------------------------------------------------------------
(* The interceptor *)

\* injectReplay and injectForgedM2, once, when the M1 of the target is
\* captured; forwardTampered, for every message.
Injected(m) ==
    CASE mode = "replay" -> {[m EXCEPT !.copy = 1]}
      [] mode = "gsimpersonate" ->
             {[Payload("M2", Gs, Target) EXCEPT !.copy = i] : i \in 1 .. MaxForged}
      [] mode = "tamper" -> {[m EXCEPT !.copy = 1, !.intact = FALSE]}

\* AttackerNode::handleMessage.  What it sends goes straight to its target.
Observe(m) ==
    LET wanted == m.type = "M1" /\ m.from = Target
    IN  /\ Arrives(m, Interceptor)
        /\ captured' = (captured \/ wanted)
        /\ \/ /\ mode = "tamper" \/ (wanted /\ ~captured)
              /\ net' = (net \ {m}) \cup {Flight(p, p.to) : p \in Injected(m)}
           \/ /\ mode # "tamper" /\ ~wanted
              /\ Take(m)
        /\ UNCHANGED <<fixed, now, uavVars, gsVars>>
-----------------------------------------------------------------------------
\* Simulation time moves on when no event is due.
Tick ==
    /\ \A m \in net : m.by > now
    /\ \A u \in Uav : /\ phase2[u] = "idle" => AuthStart[u] > now
                      /\ round[u] # None => round[u] > now
    /\ \/ net # {}
       \/ \E u \in Uav : phase2[u] = "idle" \/ round[u] # None
    /\ now' = now + 1
    /\ UNCHANGED <<fixed, uavVars, gsVars, captured, net>>

Next ==
    \/ \E u \in Uav : StartPhase2(u) \/ StartPhase3Round(u)
    \/ \E m \in net : \/ HandleM1(m) \/ HandleM2(m)
                      \/ HandleM3(m) \/ HandleM4(m)
                      \/ HandleP1(m) \/ HandleP2(m) \/ HandleP3(m)
                      \/ Observe(m)
    \/ Tick

\* The kernel executes events until none is left.
Spec == Init /\ [][Next]_vars /\ WF_vars(Next)
-----------------------------------------------------------------------------
(* What finish() reports *)

FeReproductionFailures == NumUavs - attempts
-----------------------------------------------------------------------------
(* Safety *)

Failed == {u \in Uav : phase2[u] = "failed"}
NobodyInTheWay == mode \in {"none", "replay"}

InFlight(type, from, to) ==
    \E m \in net : m.type = type /\ m.from = from /\ m.to = to

\* An initiator keeps waiting for a P2 (nothing times out in UavNode) for one
\* reason only: its P1 found a responder without credentials, whose own
\* record is the only trace of it.  Messages may still be on the way.
WaitsOnlyForTheRefused ==
    \A u, v \in Uav :
        /\ peers[u][v] = "requested"
        /\ ~InFlight("P1", u, v) /\ ~InFlight("P2", v, u)
        => /\ record3[v][u] # None
           /\ record3[v][u].abort = "NoSuchPeer"

\* The records of a pair agree: of the two sides exactly one drove the
\* handshake, and the responder calls it a success only after the initiator.
RecordsOfPairAgree ==
    \A u, v \in Uav : record3[u][v] # None /\ record3[v][u] # None =>
        /\ record3[u][v].initiator # record3[v][u].initiator
        /\ record3[u][v].success /\ ~record3[u][v].initiator
               => record3[v][u].success

\* authSuccesses_ counts the devices the ground station holds a confirmed
\* session with, each once, and every device that takes itself for
\* authenticated is among them, whoever repeats what.
SuccessesCountSessions ==
    /\ successes = Cardinality({u \in Uav : session[u] = "confirmed"})
    /\ \A u \in Uav :
           /\ recordGs[u].success <=> session[u] = "confirmed"
           /\ record2[u].success => recordGs[u].success

\* When nobody repeats or withholds an M1, the figure that finish() reports as
\* feReproductionFailures is what it is called.
FeFailuresExact ==
    mode = "none" /\ net = {} /\ (\A u \in Uav : phase2[u] # "idle")
        => FeReproductionFailures = Cardinality(Failed)

\* GroundStationNode.cc:151-152: authSuccessRate, the quotient of successes
\* and attempts, "counts only devices that managed to send M1".
AttemptsCountDevices ==
    attempts <= Cardinality({u \in Uav : phase2[u] \notin {"idle", "failed"}})
-----------------------------------------------------------------------------
(* Liveness *)

\* Nobody in the way, every device whose fuzzy extractor works is
\* authenticated in the end, although nothing is ever sent again.
EveryDeviceAuthenticates ==
    NobodyInTheWay =>
        \A u \in Uav : <>(record2[u].success \/ u \in Failed)

\* peerAuthStartTime late enough for the four messages of the last device.
LateEnough == \A u \in Uav : peerStart > AuthStart[u] + 4 * MaxDelay

\* Then every pair of such devices agrees on a session in the end.
EveryPairCompletes ==
    NobodyInTheWay /\ LateEnough =>
        \A u, v \in Uav : u < v =>
            <>(\/ /\ peers[u][v] = "established"
                  /\ peers[v][u] = "established"
               \/ {u, v} \cap Failed # {})
=============================================================================
