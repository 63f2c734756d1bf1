--------------------------------- MODULE Inet ---------------------------------
(***************************************************************************)
(* The protocol over INET (src/src_inet/apps/): UavNodeInetApp and         *)
(* GroundStationNodeInetApp, applications on UDP sockets that the          *)
(* simulator may stop, crash and start again.                              *)
(*                                                                         *)
(* An application owns its timers, its socket, its counters and its peer   *)
(* records.  A restart keeps all but the timers, and keeps the protocol    *)
(* object: replay caches, sessions, credentials and identities survive.    *)
(*                                                                         *)
(* A datagram is delivered at most once, in any order.  One that is lost,  *)
(* or reaches a node that is down, is one that is never delivered.  Timers *)
(* fire at any time after they are scheduled, which covers every           *)
(* authStartTime and peerAuthStartTime.  With no datagram delivered twice  *)
(* the replay caches refuse nothing here, and every message is fresh.      *)
(*                                                                         *)
(* A request is numbered by its device, and the number stands for all that *)
(* is drawn for it on both sides; so does the enrolment's number for the   *)
(* master keys.  An identity is [epoch, n]: enrolment epoch, rotated by    *)
(* request n, or not yet rotated (n = 0).                                  *)
(***************************************************************************)
EXTENDS Integers, FiniteSets

CONSTANTS
    NumUavs,    \* numUAVs
    FullMesh,   \* fullMesh
    PeerBase,   \* peerBasePort
    GsPort,     \* gsPort
    MaxStarts,  \* MaxStarts[x]: bound on the times x is started
    None        \* no session, no record

Gs == -1                    \* the ground station's senderId
Uav == 0 .. NumUavs - 1
Node == Uav \cup {Gs}

Tid == [epoch : Nat, n : Nat]
Session2 == [n : Nat, epoch : Nat, ephemeral : BOOLEAN, keyed : BOOLEAN]
Session3 == [initiator : BOOLEAN, local : Nat, remote : Nat,
             cred : {"empty", "pair"}, ephemeral : BOOLEAN]
PeerRec == [initiator : BOOLEAN, success : BOOLEAN]

ASSUME InetAssumption ==
    /\ NumUavs \in Nat /\ PeerBase \in Nat
    /\ FullMesh \in BOOLEAN
    /\ GsPort \in Nat /\ GsPort \notin {PeerBase + u : u \in Uav}
    /\ MaxStarts \in [Node -> Nat]
    /\ None \notin Tid \cup Session2 \cup Session3 \cup PeerRec

VARIABLES
    up,             \* up[x]: the application runs, its socket is bound
    starts,         \* starts[x]: how often it was started
    enrollTimer,    \* the ground station's enrollTimer_ is scheduled
    startTimer,     \* startTimer[u]: u's startTimer_ is scheduled
    peerTimer,      \* peerTimer[u]: u's peerTimer_ is scheduled
    scheduledTwice, \* a timer was scheduled while scheduled: the kernel stops
    epoch,          \* the number of times enrollAll ran
    pending,        \* pending[u]: the pendingTid of u's record, or None
    gsSession,      \* gsSession[u]: the ground station's session, or None
    tid,            \* tid[u]: u's identity, None before provision
    ses,            \* ses[u]: u's Phase 2 session, or None
    creds,          \* creds[u][v]: u's credential for v
    peers,          \* peers[u][v]: u's Phase3Session with v, or None
    drawn,          \* drawn[u]: the peer nonces u has drawn
    records,        \* records[u][v]: u's PeerRec of v, or None
    phase2Success,  \* phase2Success_
    p3Successes,    \* p3Successes_
    attemptsM1, successesM4,    \* of the ground station
    net             \* the datagrams not yet delivered

timers == <<enrollTimer, startTimer, peerTimer, scheduledTwice>>
life == <<up, starts>>
phase3 == <<peers, drawn, records, p3Successes>>
uav2 == <<tid, ses, creds, phase2Success>>
gs == <<epoch, pending, gsSession, attemptsM1, successesM4>>
vars == <<life, timers, gs, uav2, phase3, net>>
-----------------------------------------------------------------------------
\* port is the source port, the only trace of the sender that P2 and P3 bear.
Message2 == [type : {"M1", "M2", "M3", "M4"}, to : Node, port : Nat,
             tid : Tid, n : Nat, epoch : Nat]
Message3 == [type : {"P1", "P2", "P3"}, to : Uav, port : Nat,
             n1 : Nat, n2 : Nat, cred : {"empty", "pair"}]

TypeOK ==
    /\ up \in [Node -> BOOLEAN]
    /\ starts \in [Node -> Nat]
    /\ enrollTimer \in BOOLEAN /\ scheduledTwice \in BOOLEAN
    /\ startTimer \in [Uav -> BOOLEAN] /\ peerTimer \in [Uav -> BOOLEAN]
    /\ epoch \in Nat
    /\ pending \in [Uav -> Tid \cup {None}]
    /\ gsSession \in [Uav -> Session2 \cup {None}]
    /\ tid \in [Uav -> Tid \cup {None}]
    /\ ses \in [Uav -> Session2 \cup {None}]
    /\ creds \in [Uav -> [Uav -> {"none", "empty", "pair"}]]
    /\ peers \in [Uav -> [Uav -> Session3 \cup {None}]]
    /\ drawn \in [Uav -> Nat]
    /\ records \in [Uav -> [Uav -> PeerRec \cup {None}]]
    /\ phase2Success \in [Uav -> BOOLEAN]
    /\ p3Successes \in [Uav -> Nat]
    /\ attemptsM1 \in Nat /\ successesM4 \in Nat
    /\ net \subseteq Message2 \cup Message3

\* initialize starts every application once.
Init ==
    /\ up = [x \in Node |-> TRUE]
    /\ starts = [x \in Node |-> 1]
    /\ enrollTimer = TRUE /\ scheduledTwice = FALSE
    /\ startTimer = [u \in Uav |-> TRUE]
    /\ peerTimer = [u \in Uav |-> FALSE]
    /\ epoch = 0
    /\ pending = [u \in Uav |-> None]
    /\ gsSession = [u \in Uav |-> None]
    /\ tid = [u \in Uav |-> None]
    /\ ses = [u \in Uav |-> None]
    /\ creds = [u \in Uav |-> [v \in Uav |-> "none"]]
    /\ peers = [u \in Uav |-> [v \in Uav |-> None]]
    /\ drawn = [u \in Uav |-> 0]
    /\ records = [u \in Uav |-> [v \in Uav |-> None]]
    /\ phase2Success = [u \in Uav |-> FALSE]
    /\ p3Successes = [u \in Uav |-> 0]
    /\ attemptsM1 = 0 /\ successesM4 = 0
    /\ net = {}
-----------------------------------------------------------------------------
(* Sockets *)

Port(x) == IF x = Gs THEN GsPort ELSE PeerBase + x

\* peerByPort: the device a datagram came from.
PeerByPort(port) == {v \in Uav : port = Port(v)}

Arrives(m, x) == m \in net /\ m.to = x /\ up[x]
Take(m) == net' = net \ {m}
Reply(m, r) == net' = (net \ {m}) \cup {r}

Datagram2(type, from, to, t, n, e) ==
    [type |-> type, to |-> to, port |-> Port(from), tid |-> t, n |-> n, epoch |-> e]
Datagram3(type, from, to, n1, n2, cred) ==
    [type |-> type, to |-> to, port |-> Port(from), n1 |-> n1, n2 |-> n2,
     cred |-> cred]
-----------------------------------------------------------------------------
(* Lifecycle *)

\* cancelEvent of a device's timers, in its stop and crash operations.
MutantCancel(timer, u) == timer
Cancel(timer, u) == [timer EXCEPT ![u] = FALSE]

\* handleStopOperation and handleCrashOperation
GoDown(x) ==
    /\ up[x]
    /\ starts[x] < MaxStarts[x]
    /\ up' = [up EXCEPT ![x] = FALSE]
    /\ \/ /\ x = Gs
          /\ enrollTimer' = FALSE
          /\ UNCHANGED <<startTimer, peerTimer>>
       \/ /\ x # Gs
          /\ startTimer' = [startTimer EXCEPT ![x] = FALSE]
          /\ peerTimer' = Cancel(peerTimer, x)
          /\ UNCHANGED enrollTimer
    /\ UNCHANGED <<starts, scheduledTwice, gs, uav2, phase3, net>>

\* handleStartOperation
Start(x) ==
    /\ ~up[x]
    /\ up' = [up EXCEPT ![x] = TRUE]
    /\ starts' = [starts EXCEPT ![x] = @ + 1]
    /\ \/ /\ x = Gs
          /\ scheduledTwice' = (scheduledTwice \/ enrollTimer)
          /\ enrollTimer' = TRUE
          /\ UNCHANGED startTimer
       \/ /\ x # Gs
          /\ scheduledTwice' = (scheduledTwice \/ startTimer[x])
          /\ startTimer' = [startTimer EXCEPT ![x] = TRUE]
          /\ UNCHANGED enrollTimer
    /\ UNCHANGED <<peerTimer, gs, uav2, phase3, net>>
-----------------------------------------------------------------------------
(* Phase 1 and Phase 2 *)

\* GroundStationNodeInetApp::enrollAll, which provisions every device by a
\* direct call, up or down.  Sessions stay, on both sides.
EnrollAll ==
    /\ enrollTimer
    /\ enrollTimer' = FALSE
    /\ epoch' = epoch + 1
    /\ pending' = [u \in Uav |-> None]
    /\ tid' = [u \in Uav |-> [epoch |-> epoch + 1, n |-> 0]]
    /\ UNCHANGED <<life, startTimer, peerTimer, scheduledTwice, gsSession,
                   attemptsM1, successesM4, ses, creds, phase2Success, phase3, net>>

\* The credentials of u go with its old session.  (In the mutant they stay.)
MutantEmptied(u) == creds
Emptied(u) == [creds EXCEPT ![u] = [v \in Uav |-> "none"]]

\* UavNodeInetApp::startPhase2.  A device not yet provisioned, or whose key is
\* not reproduced, sends nothing, and nothing changes.
Request(u) ==
    LET n == IF ses[u] = None THEN 1 ELSE ses[u].n + 1
    IN  /\ tid[u] # None
        /\ ses' = [ses EXCEPT ![u] =
               [n |-> n, epoch |-> epoch, ephemeral |-> TRUE, keyed |-> FALSE]]
        /\ creds' = Emptied(u)
        /\ net' = net \cup {Datagram2("M1", u, Gs, tid[u], n, epoch)}

StartPhase2(u) ==
    /\ startTimer[u]
    /\ startTimer' = [startTimer EXCEPT ![u] = FALSE]
    /\ Request(u) \/ UNCHANGED <<ses, creds, net>>
    /\ UNCHANGED <<life, enrollTimer, peerTimer, scheduledTwice, gs, tid,
                   phase2Success, phase3>>

\* The identities the ground station knows u by: findByTid.  (In the mutant
\* the rotated identity takes the old one's place at once.)
Original == [epoch |-> epoch, n |-> 0]
MutantKnownTids(u) == IF pending[u] = None THEN {Original} ELSE {pending[u]}
KnownTids(u) == {Original, pending[u]} \ {None}

\* The M1 case of GroundStationNodeInetApp::socketDataArrived.  M1 names no
\* device but by its identity, and the reply goes where it came from.
HandleM1(m, u) ==
    /\ m.type = "M1" /\ Arrives(m, Gs) /\ m.port = Port(u)
    /\ attemptsM1' = attemptsM1 + 1
    /\ \/ /\ m.tid \in KnownTids(u) /\ m.epoch = epoch
          /\ gsSession' = [gsSession EXCEPT ![u] =
                 [n |-> m.n, epoch |-> epoch, ephemeral |-> TRUE, keyed |-> FALSE]]
          /\ Reply(m, Datagram2("M2", Gs, u, m.tid, m.n, epoch))
       \/ /\ ~(m.tid \in KnownTids(u) /\ m.epoch = epoch)
          /\ Take(m)
          /\ UNCHANGED gsSession
    /\ UNCHANGED <<life, timers, epoch, pending, successesM4, uav2, phase3>>

\* A restarted device sends its request before anything can reach it: its
\* startTimer_ is due at once, and its interface starts with it.
Awake(u) == ~(startTimer[u] /\ ses[u] # None)

\* The M2 case of UavNodeInetApp::socketDataArrived
HandleM2(m, u) ==
    /\ m.type = "M2" /\ Arrives(m, u) /\ Awake(u)
    /\ LET s == ses[u]
           verified == /\ m.tid = tid[u] /\ m.n = s.n /\ m.epoch = s.epoch
                       /\ s.ephemeral
       IN  \/ /\ verified
              /\ ses' = [ses EXCEPT ![u].ephemeral = FALSE, ![u].keyed = TRUE]
              /\ Reply(m, Datagram2("M3", u, Gs, tid[u], s.n, s.epoch))
           \/ /\ ~verified
              /\ Take(m)
              /\ UNCHANGED ses
    /\ UNCHANGED <<life, timers, gs, tid, creds, phase2Success, phase3>>

\* The M3 case of GroundStationNodeInetApp::socketDataArrived.  The session
\* outlives a new enrolment, the identity that leads to it does not.
HandleM3(m, u) ==
    /\ m.type = "M3" /\ Arrives(m, Gs) /\ m.port = Port(u)
    /\ LET s == gsSession[u]
           verified == /\ m.tid \in KnownTids(u)
                       /\ m.n = s.n /\ m.epoch = s.epoch /\ s.ephemeral
           tidNew == [epoch |-> epoch, n |-> s.n]
       IN  \/ /\ verified
              /\ gsSession' = [gsSession EXCEPT ![u].ephemeral = FALSE,
                                                ![u].keyed = TRUE]
              /\ pending' = [pending EXCEPT ![u] = tidNew]
              /\ successesM4' = successesM4 + 1
              /\ Reply(m, Datagram2("M4", Gs, u, tidNew, s.n, s.epoch))
           \/ /\ ~verified
              /\ Take(m)
              /\ UNCHANGED <<gsSession, pending, successesM4>>
    /\ UNCHANGED <<life, timers, epoch, attemptsM1, uav2, phase3>>

\* The M4 case of UavNodeInetApp::socketDataArrived: scheduleAt(peerTimer_)
HandleM4(m, u) ==
    /\ m.type = "M4" /\ Arrives(m, u) /\ Awake(u)
    /\ \/ /\ ses[u].keyed /\ m.n = ses[u].n /\ m.epoch = ses[u].epoch
          /\ tid' = [tid EXCEPT ![u] = m.tid]
          /\ creds' = [creds EXCEPT ![u] =
                 [v \in Uav |-> IF v = u THEN "none" ELSE "pair"]]
          /\ phase2Success' = [phase2Success EXCEPT ![u] = TRUE]
          /\ scheduledTwice' = (scheduledTwice \/ peerTimer[u])
          /\ peerTimer' = [peerTimer EXCEPT ![u] = TRUE]
       \/ /\ ~(ses[u].keyed /\ m.n = ses[u].n /\ m.epoch = ses[u].epoch)
          /\ UNCHANGED <<tid, creds, phase2Success, scheduledTwice, peerTimer>>
    /\ Take(m)
    /\ UNCHANGED <<life, enrollTimer, startTimer, gs, ses, phase3>>
-----------------------------------------------------------------------------
(* Phase 3 *)

\* The peers that u starts a handshake with; in the mutant both sides do.
MutantDriven(u) == Uav \ {u}
Driven(u) == IF FullMesh THEN {v \in Uav : v > u} ELSE {}

\* The record of an initiator, new or found.  In the mutant it starts afresh.
MutantInitiatorRec(rec) == [initiator |-> TRUE, success |-> FALSE]
InitiatorRec(rec) ==
    [initiator |-> TRUE, success |-> rec # None /\ rec.success]
ResponderRec(rec) ==
    [initiator |-> FALSE, success |-> rec # None /\ rec.success]

\* UavNodeInetApp::startPhase3Round, the nonces drawn in the order of the peers.
StartPhase3Round(u) ==
    LET called == {v \in Driven(u) : creds[u][v] # "none"}
        nonce(v) == drawn[u] + Cardinality({w \in called : w <= v})
    IN  /\ peerTimer[u]
        /\ peerTimer' = [peerTimer EXCEPT ![u] = FALSE]
        /\ drawn' = [drawn EXCEPT ![u] = @ + Cardinality(called)]
        /\ peers' = [peers EXCEPT ![u] =
               [v \in Uav |-> IF v \in called
                    THEN [initiator |-> TRUE, local |-> nonce(v), remote |-> 0,
                          cred |-> creds[u][v], ephemeral |-> TRUE]
                    ELSE @[v]]]
        /\ records' = [records EXCEPT ![u] =
               [v \in Uav |-> IF v \in called THEN InitiatorRec(@[v]) ELSE @[v]]]
        /\ net' = net \cup
               {Datagram3("P1", u, v, nonce(v), 0, creds[u][v]) : v \in called}
        /\ UNCHANGED <<life, enrollTimer, startTimer, scheduledTwice, gs, uav2,
                       p3Successes>>

\* The MAC of P1 is made with the credential the receiver finds for its
\* sender.  (In the mutant the P1 is not checked.)
MutantAccepts(v, u, m) == TRUE
Accepts(v, u, m) == creds[v][u] = m.cred

\* The P1 case of socketDataArrived
HandleP1(m, v) ==
    /\ m.type = "P1" /\ Arrives(m, v) /\ Awake(v)
    /\ \E u \in PeerByPort(m.port) :
         \/ /\ Accepts(v, u, m)
            /\ drawn' = [drawn EXCEPT ![v] = @ + 1]
            /\ peers' = [peers EXCEPT ![v][u] =
                   [initiator |-> FALSE, local |-> drawn'[v], remote |-> m.n1,
                    cred |-> creds[v][u], ephemeral |-> TRUE]]
            /\ records' = [records EXCEPT ![v][u] = ResponderRec(@)]
            /\ Reply(m, Datagram3("P2", v, u, m.n1, drawn'[v], creds[v][u]))
         \/ /\ ~Accepts(v, u, m)
            /\ Take(m)
            /\ UNCHANGED <<drawn, peers, records>>
    /\ UNCHANGED <<life, timers, gs, uav2, p3Successes>>

\* What handleP2 and handleP3 leave: the secret erased, the credential looked
\* up again (an empty entry appears when it is gone), and a success counted.
Complete(u, v, n2) ==
    /\ peers' = [peers EXCEPT ![u][v].remote = n2, ![u][v].ephemeral = FALSE]
    /\ creds' = [creds EXCEPT ![u][v] = IF @ = "none" THEN "empty" ELSE @]
    /\ records' = [records EXCEPT ![u][v].success = TRUE]
    /\ p3Successes' = [p3Successes EXCEPT ![u] = @ + 1]

\* The P2 case
HandleP2(m, u) ==
    /\ m.type = "P2" /\ Arrives(m, u) /\ Awake(u)
    /\ \E v \in PeerByPort(m.port) :
         LET s == peers[u][v]
             verified == /\ s # None /\ s.initiator /\ s.ephemeral
                         /\ m.n1 = s.local /\ m.cred = s.cred
         IN  \/ /\ verified
                /\ Complete(u, v, m.n2)
                /\ Reply(m, Datagram3("P3", u, v, m.n1, m.n2, s.cred))
             \/ /\ ~verified
                /\ Take(m)
                /\ UNCHANGED <<peers, creds, records, p3Successes>>
    /\ UNCHANGED <<life, timers, gs, tid, ses, phase2Success, drawn>>

\* The P3 case
HandleP3(m, u) ==
    /\ m.type = "P3" /\ Arrives(m, u) /\ Awake(u)
    /\ \E v \in PeerByPort(m.port) :
         LET s == peers[u][v]
             verified == /\ s # None /\ ~s.initiator /\ s.ephemeral
                         /\ m.n1 = s.remote /\ m.n2 = s.local /\ m.cred = s.cred
         IN  \/ /\ verified
                /\ Complete(u, v, m.n1)
             \/ /\ ~verified
                /\ UNCHANGED <<peers, creds, records, p3Successes>>
    /\ Take(m)
    /\ UNCHANGED <<life, timers, gs, tid, ses, phase2Success, drawn>>
-----------------------------------------------------------------------------
Next ==
    \/ EnrollAll
    \/ \E x \in Node : GoDown(x) \/ Start(x)
    \/ \E u \in Uav : StartPhase2(u) \/ StartPhase3Round(u)
    \/ \E m \in net, u \in Uav :
         \/ HandleM1(m, u) \/ HandleM2(m, u) \/ HandleM3(m, u) \/ HandleM4(m, u)
         \/ HandleP1(m, u) \/ HandleP2(m, u) \/ HandleP3(m, u)

Spec == Init /\ [][Next]_vars
-----------------------------------------------------------------------------
(* Safety *)

\* No handler schedules a timer that is scheduled already, which the kernel
\* takes for a fatal error: not handleStartOperation after any stop or crash,
\* and not the M4 case, although an M4 of before a restart may arrive after it.
TimersScheduledOnce == ~scheduledTwice

\* inetPhase3Successes counts the peers recorded as successful, unless a
\* device that drives some of the pairs counted was started more than once:
\* its second round is accepted, and counted, again.
SuccessesMatchRecords ==
    \A u \in Uav :
        (\A v \in 0 .. u : starts[v] = 1) =>
        p3Successes[u] = Cardinality({v \in Uav :
            records[u][v] # None /\ records[u][v].success})

\* What a responder reports as a success its initiator reports too, at any
\* time, whatever is lost and whoever restarts in between.
ResponderSuccessIsShared ==
    \A u, v \in Uav :
        u < v /\ records[v][u] # None /\ records[v][u].success
        => records[u][v] # None /\ records[u][v].success

\* Losing messages, however many, does not make a device unknown to the
\* ground station: that takes a restart on one side or the other.
LossAloneStrandsNobody ==
    \A u \in Uav :
        tid[u] # None /\ starts[u] = 1 /\ starts[Gs] = 1
        => tid[u] \in KnownTids(u)
-----------------------------------------------------------------------------
(* Refinement *)

Granted(u) == {v \in Uav : creds[u][v] = "pair"}

\* How far u is with its present request.
HowFar(u) ==
    IF ses[u] = None THEN "none"
    ELSE IF ~ses[u].keyed THEN "requested"
    ELSE IF Granted(u) = {} THEN "confirmed"
    ELSE "established"

Credentials == INSTANCE PeerCredentials WITH
    enrolled <- {u \in Uav : tid[u] # None},
    requests <- [u \in Uav |-> IF ses[u] = None THEN 0 ELSE ses[u].n],
    phase <- [u \in Uav |-> HowFar(u)],
    granted <- [u \in Uav |-> Granted(u)]

\* Stops, crashes and restarts on either side, and datagrams of before them,
\* change nothing about what Phase 2 grants: a device has credentials for its
\* present request only, once that is confirmed.
RefinesPeerCredentials == Credentials!Spec
=============================================================================
