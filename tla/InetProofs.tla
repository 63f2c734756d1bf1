----------------------------- MODULE InetProofs -----------------------------
(***************************************************************************)
(* What the INET applications keep through any number of stops, crashes    *)
(* and restarts of any devices and of the ground station, over a network   *)
(* that loses and reorders, for any number of devices and either choice of *)
(* fullMesh: the types, one timer of each kind, what the success counters  *)
(* and records say, and which faults cut a device off.                     *)
(*                                                                         *)
(* InetInv is inductive.  A datagram in flight says something of both ends *)
(* (SessionInv); a request is accepted once and answered by one M4         *)
(* (OnceInv), so after the M4 of its present request a device gets no      *)
(* other (Answered), and the timer that only an M4 schedules is free       *)
(* (TimerInv, RoundInv).  PairInv and CountInv follow a pair through P1,   *)
(* P2 and P3, KnownInv the identities.  Each part has a lemma per event or *)
(* group of events; InvStep puts them together.  GrantInv adds what a      *)
(* session says of the credentials its device holds, and with it every     *)
(* event is a step of PeerCredentials or none.                             *)
(***************************************************************************)
EXTENDS Inet, FiniteSetTheorems, TLAPS

\* What a datagram in flight says of the sessions it comes from.
SessionInv ==
    /\ \A u \in Uav :
           /\ epoch = 0 => tid[u] = None
           /\ ses[u] # None => tid[u] # None /\ ses[u].n >= 1
           /\ gsSession[u] # None =>
                  ses[u] # None /\ gsSession[u].n >= 1 /\ gsSession[u].n <= ses[u].n
    /\ \A m \in net, u \in Uav :
           /\ m.type = "M1" /\ m.port = Port(u) =>
                  ses[u] # None /\ m.n >= 1 /\ m.n <= ses[u].n
           /\ m.type = "M2" /\ m.to = u => gsSession[u] # None
           /\ m.type = "M3" /\ m.port = Port(u) => gsSession[u] # None
           /\ m.type = "M4" /\ m.to = u => gsSession[u] # None /\ m.n <= ses[u].n

\* A request is accepted once and answered by one M4: an M1 in flight has led
\* to nothing yet, and a session that can still send an M4 has sent none.
OnceInv ==
    \A u \in Uav, m1, m2 \in net :
        /\ /\ m1.type = "M1" /\ m1.port = Port(u)
           /\ m2.type = "M1" /\ m2.port = Port(u)
           /\ m1.n = m2.n
           => m1 = m2
        /\ /\ m1.type = "M4" /\ m1.to = u
           /\ m2.type = "M4" /\ m2.to = u
           /\ m1.n = m2.n
           => m1 = m2
        /\ m1.type = "M1" /\ m1.port = Port(u) /\ m2.type = "M4" /\ m2.to = u
           => m1.n # m2.n
        /\ m1.type = "M1" /\ m1.port = Port(u) /\ gsSession[u] # None
           => gsSession[u].n # m1.n
        /\ m1.type = "M4" /\ m1.to = u /\ gsSession[u] # None
           => ~(gsSession[u].n = m1.n /\ gsSession[u].ephemeral)

\* u has had the M4 of its present request, and no other will come.
Answered(u) ==
    /\ ses[u] # None
    /\ \A m \in net : /\ m.type = "M1" /\ m.port = Port(u) => m.n # ses[u].n
                      /\ m.type = "M4" /\ m.to = u => m.n # ses[u].n
    /\ gsSession[u] # None => ~(gsSession[u].n = ses[u].n /\ gsSession[u].ephemeral)

\* No timer is set on a node that is down, a device has one timer at a time,
\* and its peer timer only after the M4 of its present request.
TimerInv ==
    /\ ~scheduledTwice
    /\ starts[Gs] >= 1
    /\ ~up[Gs] => ~enrollTimer
    /\ starts[Gs] = 1 /\ enrollTimer => epoch = 0
    /\ \A u \in Uav :
           /\ starts[u] >= 1
           /\ ~up[u] => ~startTimer[u] /\ ~peerTimer[u]
           /\ peerTimer[u] => ~startTimer[u] /\ Answered(u)
           /\ starts[u] = 1 /\ ses[u] # None => ~startTimer[u] /\ ses[u].n = 1

\* A device that was started once has one round of peer handshakes.
RoundInv ==
    \A u, v \in Uav :
        u < v /\ peers[u][v] # None /\ starts[u] = 1
        => Answered(u) /\ ~startTimer[u] /\ ~peerTimer[u]

\* The device of two that drives their handshakes.
Driver(u, v) == IF u < v THEN u ELSE v

\* The two sides of a pair, and what is in flight between them.
PairInv ==
    /\ \A u, v \in Uav :
           /\ peers[u][v] # None => u # v /\ (peers[u][v].initiator <=> u < v)
           /\ records[u][v] # None <=> peers[u][v] # None
           /\ u < v /\ peers[v][u] # None => peers[u][v] # None
           /\ peers[u][v] # None /\ starts[Driver(u, v)] = 1
              => (peers[u][v].ephemeral <=> ~records[u][v].success)
    /\ \A u, v \in Uav : \A m \in net : m.to = v /\ m.port = Port(u) =>
           /\ m.type = "P1" => u < v /\ peers[u][v] # None
           /\ m.type = "P3" => records[u][v] # None /\ records[u][v].success
           /\ m.type = "P1" /\ starts[u] = 1 => peers[v][u] = None
    /\ \A u, v \in Uav : \A m1, m2 \in net :
           /\ m1.type = "P1" /\ m1.to = v /\ m1.port = Port(u)
           /\ m2.type = "P1" /\ m2.to = v /\ m2.port = Port(u)
           /\ starts[u] = 1
           => m1 = m2

Successful(u) == {v \in Uav : records[u][v] # None /\ records[u][v].success}

\* While the devices that u has handshakes with have one round each.
CountInv ==
    \A u \in Uav :
        (\A v \in 0 .. u : starts[v] = 1)
        => p3Successes[u] = Cardinality(Successful(u))

\* Before any restart there is one identity besides the enrolled one.
KnownInv ==
    \A u \in Uav : starts[u] = 1 /\ starts[Gs] = 1 =>
        /\ tid[u] # None => tid[u] \in {[epoch |-> epoch, n |-> 0], pending[u]}
        /\ pending[u] # None => pending[u] = [epoch |-> epoch, n |-> 1]
        /\ \A m \in net : m.type = "M4" /\ m.to = u => m.tid = pending[u]

InetInv ==
    /\ SessionInv /\ OnceInv /\ TimerInv /\ RoundInv
    /\ PairInv /\ CountInv /\ KnownInv
    /\ ResponderSuccessIsShared
-----------------------------------------------------------------------------
(* Nodes and datagrams *)

Types2 == {"M1", "M2", "M3", "M4"}
Types3 == {"P1", "P2", "P3"}

LEMMA Nodes ==
    /\ Uav \subseteq Nat /\ Uav \subseteq Node /\ Gs \in Node /\ Gs \notin Uav
    /\ Node = Uav \cup {Gs}
BY InetAssumption DEF Uav, Node, Gs

\* A port leads to one node.
LEMMA Ports ==
    /\ \A x \in Node : Port(x) \in Nat
    /\ \A x, y \in Node : Port(x) = Port(y) => x = y
    /\ \A u \in Uav : PeerByPort(Port(u)) = {u}
<1>1. \A u \in Uav : u \in Nat /\ u # Gs /\ Port(u) = PeerBase + u
    BY Nodes DEF Port
<1>2. Port(Gs) = GsPort
    BY DEF Port
<1>3. \A u \in Uav : GsPort # PeerBase + u
    BY InetAssumption
<1>4. PeerBase \in Nat /\ GsPort \in Nat
    BY InetAssumption
<1>5. \A x, y \in Node : Port(x) = Port(y) => x = y
    BY <1>1, <1>2, <1>3, <1>4, Nodes
<1>6. \A x \in Node : Port(x) \in Nat
    BY <1>1, <1>2, <1>4, Nodes
<1>7. ASSUME NEW u \in Uav PROVE PeerByPort(Port(u)) = {u}
    <2>1. \A v \in Uav : Port(v) = Port(u) => v = u
        BY <1>5, Nodes
    <2> QED
        BY <2>1 DEF PeerByPort
<1> QED
    BY <1>5, <1>6, <1>7

LEMMA Absent ==
    /\ \A t \in Tid : t # None
    /\ \A s \in Session2 : s # None
    /\ \A s \in Session3 : s # None
    /\ \A r \in PeerRec : r # None
BY InetAssumption

LEMMA UavFinite == IsFiniteSet(Uav)
<1>1. 0 \in Int /\ NumUavs - 1 \in Int
    BY InetAssumption
<1> QED
    BY <1>1, FS_Interval DEF Uav

\* A datagram in flight, by its type.
LEMMA Fields ==
    ASSUME TypeOK, NEW m \in net
    PROVE  /\ m.type \in Types2 \cup Types3
           /\ m.type \in Types2 => m \in Message2
           /\ m.type \in Types3 => m \in Message3
<1>1. m \in Message2 \cup Message3
    BY DEF TypeOK
<1>2. m \in Message2 => m.type \in Types2
    BY DEF Message2, Types2
<1>3. m \in Message3 => m.type \in Types3
    BY DEF Message3, Types3
<1>4. \A t : ~(t \in Types2 /\ t \in Types3)
    BY DEF Types2, Types3
<1> QED
    BY <1>1, <1>2, <1>3, <1>4

LEMMA Fields2 ==
    ASSUME TypeOK, NEW m \in net, m.type \in Types2
    PROVE  m.to \in Node /\ m.port \in Nat /\ m.tid \in Tid /\ m.n \in Nat
           /\ m.epoch \in Nat
BY Fields DEF Message2

LEMMA Fields3 ==
    ASSUME TypeOK, NEW m \in net, m.type \in Types3
    PROVE  m.to \in Uav /\ m.port \in Nat /\ m.n1 \in Nat /\ m.n2 \in Nat
           /\ m.cred \in {"empty", "pair"}
BY Fields DEF Message3

LEMMA Sent2 ==
    ASSUME NEW type \in Types2, NEW from \in Node, NEW to \in Node,
           NEW t \in Tid, NEW n \in Nat, NEW e \in Nat
    PROVE  LET r == Datagram2(type, from, to, t, n, e)
           IN  /\ r \in Message2 /\ r.type = type /\ r.to = to
               /\ r.port = Port(from) /\ r.tid = t /\ r.n = n
BY Ports DEF Datagram2, Message2, Types2

LEMMA Sent3 ==
    ASSUME NEW type \in Types3, NEW from \in Uav, NEW to \in Uav,
           NEW n1 \in Nat, NEW n2 \in Nat, NEW cred \in {"empty", "pair"}
    PROVE  LET r == Datagram3(type, from, to, n1, n2, cred)
           IN  /\ r \in Message3 /\ r.type = type /\ r.to = to
               /\ r.port = Port(from)
BY Ports, Nodes DEF Datagram3, Message3, Types3

-----------------------------------------------------------------------------
(* Types *)

\* A session is changed in its flags, and its number stays.
Flag(f, u) == [f EXCEPT ![u].ephemeral = FALSE, ![u].keyed = TRUE]

LEMMA Flagged ==
    ASSUME NEW f \in [Uav -> Session2 \cup {None}], NEW u \in Uav, f[u] # None
    PROVE  LET g == Flag(f, u)
           IN  /\ g \in [Uav -> Session2 \cup {None}]
               /\ \A v \in Uav \ {u} : g[v] = f[v]
               /\ g[u] # None /\ g[u].n = f[u].n /\ g[u].ephemeral = FALSE
               /\ g[u].keyed = TRUE
<1> DEFINE r == [f[u] EXCEPT !.ephemeral = FALSE, !.keyed = TRUE]
<1>1. f[u] \in Session2
    OBVIOUS
<1>2. r \in Session2 /\ r.n = f[u].n /\ r.ephemeral = FALSE /\ r.keyed = TRUE
    BY <1>1 DEF Session2
<1>3. Flag(f, u) = [f EXCEPT ![u] = r]
    BY DEF Flag
<1> HIDE DEF r
<1>4. r # None
    BY <1>2, Absent
<1> QED
    BY <1>2, <1>3, <1>4

LEMMA InitType == Init => TypeOK
<1> SUFFICES ASSUME Init PROVE TypeOK
    OBVIOUS
<1>1. /\ up \in [Node -> BOOLEAN] /\ starts \in [Node -> Nat]
      /\ startTimer \in [Uav -> BOOLEAN] /\ peerTimer \in [Uav -> BOOLEAN]
      /\ phase2Success \in [Uav -> BOOLEAN] /\ p3Successes \in [Uav -> Nat]
      /\ drawn \in [Uav -> Nat]
    BY DEF Init
<1>2. /\ pending \in [Uav -> Tid \cup {None}] /\ tid \in [Uav -> Tid \cup {None}]
      /\ ses \in [Uav -> Session2 \cup {None}]
      /\ gsSession \in [Uav -> Session2 \cup {None}]
    BY DEF Init
<1>3. /\ creds \in [Uav -> [Uav -> {"none", "empty", "pair"}]]
      /\ peers \in [Uav -> [Uav -> Session3 \cup {None}]]
      /\ records \in [Uav -> [Uav -> PeerRec \cup {None}]]
    BY DEF Init
<1> QED
    BY <1>1, <1>2, <1>3 DEF Init, TypeOK

\* Sessions are of devices that are known and that asked.
LEMMA Known ==
    ASSUME TypeOK, SessionInv, NEW u \in Uav
    PROVE  /\ tid[u] # None => tid[u] \in Tid
           /\ ses[u] # None => ses[u] \in Session2 /\ tid[u] \in Tid
           /\ gsSession[u] # None => gsSession[u] \in Session2 /\ ses[u] # None
BY DEF TypeOK, SessionInv

LEMMA LifeType ==
    ASSUME TypeOK, EnrollAll \/ \E x \in Node : GoDown(x) \/ Start(x)
    PROVE  TypeOK'
<1>1. CASE EnrollAll
    <2>1. epoch' \in Nat /\ [epoch |-> epoch + 1, n |-> 0] \in Tid
        BY <1>1 DEF TypeOK, EnrollAll, Tid
    <2>2. /\ pending' \in [Uav -> Tid \cup {None}]
          /\ tid' \in [Uav -> Tid \cup {None}]
        BY <1>1, <2>1 DEF EnrollAll
    <2> QED
        BY <1>1, <2>1, <2>2 DEF TypeOK, EnrollAll, life, phase3
<1>2. ASSUME NEW x \in Node, GoDown(x) PROVE TypeOK'
    BY <1>2 DEF TypeOK, GoDown, Cancel, gs, uav2, phase3
<1>3. ASSUME NEW x \in Node, Start(x) PROVE TypeOK'
    <2>1. scheduledTwice' \in BOOLEAN /\ enrollTimer' \in BOOLEAN
        BY <1>3 DEF TypeOK, Start
    <2>2. startTimer' \in [Uav -> BOOLEAN]
        BY <1>3 DEF TypeOK, Start
    <2>3. starts' \in [Node -> Nat] /\ up' \in [Node -> BOOLEAN]
        BY <1>3 DEF TypeOK, Start
    <2> QED
        BY <1>3, <2>1, <2>2, <2>3 DEF TypeOK, Start, gs, uav2, phase3
<1> QED
    BY <1>1, <1>2, <1>3

LEMMA RequestType ==
    ASSUME TypeOK, SessionInv, NEW u \in Uav, Request(u)
    PROVE  /\ ses' \in [Uav -> Session2 \cup {None}]
           /\ creds' \in [Uav -> [Uav -> {"none", "empty", "pair"}]]
           /\ net' \subseteq Message2 \cup Message3
<1> DEFINE n == IF ses[u] = None THEN 1 ELSE ses[u].n + 1
<1>1. n \in Nat
    BY Known DEF Session2
<1>2. /\ tid[u] \in Tid /\ epoch \in Nat
      /\ ses' = [ses EXCEPT ![u] =
             [n |-> n, epoch |-> epoch, ephemeral |-> TRUE, keyed |-> FALSE]]
      /\ creds' = [creds EXCEPT ![u] = [v \in Uav |-> "none"]]
      /\ net' = net \cup {Datagram2("M1", u, Gs, tid[u], n, epoch)}
    BY Known DEF Request, Emptied, TypeOK
<1> HIDE DEF n
<1>3. [n |-> n, epoch |-> epoch, ephemeral |-> TRUE, keyed |-> FALSE] \in Session2
    BY <1>1, <1>2 DEF Session2
<1>4. Datagram2("M1", u, Gs, tid[u], n, epoch) \in Message2
    BY <1>1, <1>2, Nodes, Sent2 DEF Types2
<1> QED
    BY <1>2, <1>3, <1>4 DEF TypeOK

LEMMA Phase2Type ==
    ASSUME TypeOK, SessionInv, NEW u \in Uav, NEW m,
           \/ StartPhase2(u) \/ HandleM1(m, u) \/ HandleM2(m, u)
           \/ HandleM3(m, u) \/ HandleM4(m, u)
    PROVE  TypeOK'
<1>1. CASE StartPhase2(u)
    <2>1. /\ ses' \in [Uav -> Session2 \cup {None}]
          /\ creds' \in [Uav -> [Uav -> {"none", "empty", "pair"}]]
          /\ net' \subseteq Message2 \cup Message3
        BY <1>1, RequestType DEF StartPhase2, TypeOK
    <2> QED
        BY <1>1, <2>1 DEF TypeOK, StartPhase2, life, gs, phase3
<1>2. CASE HandleM1(m, u)
    <2> DEFINE s == [n |-> m.n, epoch |-> epoch, ephemeral |-> TRUE, keyed |-> FALSE]
    <2>1. m \in net /\ m.type = "M1" /\ m.type \in Types2 /\ "M2" \in Types2
        BY <1>2 DEF HandleM1, Arrives, Types2
    <2>2. m.tid \in Tid /\ m.n \in Nat /\ epoch \in Nat
        BY <2>1, Fields2 DEF TypeOK
    <2>3. s \in Session2
        BY <2>2 DEF Session2
    <2>4. Datagram2("M2", Gs, u, m.tid, m.n, epoch) \in Message2
        BY <2>1, <2>2, Nodes, Sent2
    <2>5. net' \subseteq Message2 \cup Message3
        BY <1>2, <2>4 DEF TypeOK, HandleM1, Take, Reply
    <2>6. gsSession' = [gsSession EXCEPT ![u] = s] \/ gsSession' = gsSession
        BY <1>2 DEF HandleM1
    <2>7. gsSession' \in [Uav -> Session2 \cup {None}]
        BY <2>3, <2>6 DEF TypeOK
    <2> QED
        BY <1>2, <2>5, <2>7 DEF TypeOK, HandleM1, life, timers, uav2, phase3
<1>3. CASE HandleM2(m, u)
    <2>1. m \in net /\ m.type = "M2" /\ m.to = u /\ "M3" \in Types2
        BY <1>3 DEF HandleM2, Arrives, Types2
    <2>2. ses[u] # None /\ ses[u] \in Session2 /\ tid[u] \in Tid
        BY <2>1, Known DEF SessionInv
    <2>3. ses[u].n \in Nat /\ ses[u].epoch \in Nat
        BY <2>2 DEF Session2
    <2>4. Datagram2("M3", u, Gs, tid[u], ses[u].n, ses[u].epoch) \in Message2
        BY <2>1, <2>2, <2>3, Nodes, Sent2
    <2>5. net' \subseteq Message2 \cup Message3
        BY <1>3, <2>4 DEF TypeOK, HandleM2, Take, Reply
    <2>6. \/ ses' = Flag(ses, u)
          \/ ses' = ses
        BY <1>3 DEF HandleM2, Flag
    <2>7. ses' \in [Uav -> Session2 \cup {None}]
        <3>1. ses \in [Uav -> Session2 \cup {None}]
            BY DEF TypeOK
        <3>2. CASE ses' = Flag(ses, u)
            BY <2>2, <3>1, <3>2, Flagged
        <3> QED
            BY <2>6, <3>1, <3>2
    <2> QED
        BY <1>3, <2>5, <2>7 DEF TypeOK, HandleM2, life, timers, gs, phase3
<1>4. CASE HandleM3(m, u)
    <2> DEFINE tidNew == [epoch |-> epoch, n |-> gsSession[u].n]
    <2>1. m \in net /\ m.type = "M3" /\ m.port = Port(u) /\ "M4" \in Types2
        BY <1>4 DEF HandleM3, Arrives, Types2
    <2>2. gsSession[u] # None /\ gsSession[u] \in Session2
        BY <2>1, Known DEF SessionInv
    <2>3. gsSession[u].n \in Nat /\ gsSession[u].epoch \in Nat /\ epoch \in Nat
        BY <2>2 DEF Session2, TypeOK
    <2>4. tidNew \in Tid
        BY <2>3 DEF Tid
    <2>5. \/ /\ gsSession' = Flag(gsSession, u)
             /\ pending' = [pending EXCEPT ![u] = tidNew]
             /\ successesM4' = successesM4 + 1
             /\ Reply(m, Datagram2("M4", Gs, u, tidNew, gsSession[u].n,
                                   gsSession[u].epoch))
          \/ Take(m) /\ UNCHANGED <<gsSession, pending, successesM4>>
        BY <1>4 DEF HandleM3, Flag
    <2> HIDE DEF tidNew
    <2>6. Datagram2("M4", Gs, u, tidNew, gsSession[u].n, gsSession[u].epoch)
              \in Message2
        BY <2>1, <2>3, <2>4, Nodes, Sent2
    <2>7. net' \subseteq Message2 \cup Message3
        BY <2>5, <2>6 DEF TypeOK, Take, Reply
    <2>8. gsSession' \in [Uav -> Session2 \cup {None}]
        <3>1. gsSession \in [Uav -> Session2 \cup {None}]
            BY DEF TypeOK
        <3>2. CASE gsSession' = Flag(gsSession, u)
            BY <2>2, <3>1, <3>2, Flagged
        <3> QED
            BY <2>5, <3>1, <3>2
    <2>9. pending' \in [Uav -> Tid \cup {None}]
        <3>1. pending' = [pending EXCEPT ![u] = tidNew] \/ pending' = pending
            BY <2>5
        <3> QED
            BY <2>4, <3>1 DEF TypeOK
    <2>10. successesM4' \in Nat
        <3>1. successesM4' = successesM4 + 1 \/ successesM4' = successesM4
            BY <2>5
        <3> QED
            BY <3>1 DEF TypeOK
    <2> QED
        BY <1>4, <2>7, <2>8, <2>9, <2>10 DEF TypeOK, HandleM3, life, timers, uav2, phase3
<1>5. CASE HandleM4(m, u)
    <2>1. m \in net /\ m.type \in Types2
        BY <1>5 DEF HandleM4, Arrives, Types2
    <2>2. m.tid \in Tid
        BY <2>1, Fields2
    <2>3. tid' \in [Uav -> Tid \cup {None}]
        BY <1>5, <2>2 DEF TypeOK, HandleM4
    <2>4. creds' \in [Uav -> [Uav -> {"none", "empty", "pair"}]]
        <3> DEFINE row == [v \in Uav |-> IF v = u THEN "none" ELSE "pair"]
        <3>1. row \in [Uav -> {"none", "empty", "pair"}]
            OBVIOUS
        <3>2. creds' = [creds EXCEPT ![u] = row] \/ creds' = creds
            BY <1>5 DEF HandleM4
        <3> HIDE DEF row
        <3> QED
            BY <3>1, <3>2 DEF TypeOK
    <2>5. /\ phase2Success' \in [Uav -> BOOLEAN] /\ peerTimer' \in [Uav -> BOOLEAN]
          /\ scheduledTwice' \in BOOLEAN
        BY <1>5 DEF TypeOK, HandleM4
    <2> QED
        BY <1>5, <2>3, <2>4, <2>5 DEF TypeOK, HandleM4, Take, life, gs, phase3
<1> QED
    BY <1>1, <1>2, <1>3, <1>4, <1>5

\* What the round of u calls, with the nonces it draws.
Called(u) == {v \in Driven(u) : creds[u][v] # "none"}
Nonce(u, v) == drawn[u] + Cardinality({w \in Called(u) : w <= v})
NewSession(u, v) ==
    [initiator |-> TRUE, local |-> Nonce(u, v), remote |-> 0,
     cred |-> creds[u][v], ephemeral |-> TRUE]
P1(u, v) == Datagram3("P1", u, v, Nonce(u, v), 0, creds[u][v])

LEMMA CalledType ==
    ASSUME TypeOK, NEW u \in Uav
    PROVE  /\ Called(u) \subseteq {v \in Uav : u < v}
           /\ drawn[u] + Cardinality(Called(u)) \in Nat
           /\ \A v \in Called(u) :
                  /\ NewSession(u, v) \in Session3
                  /\ P1(u, v) \in Message3
                  /\ P1(u, v).type = "P1" /\ P1(u, v).to = v
                  /\ P1(u, v).port = Port(u)
<1>1. Called(u) \subseteq {v \in Uav : u < v}
    BY Nodes DEF Called, Driven
<1>2. \A S \in SUBSET Called(u) : drawn[u] + Cardinality(S) \in Nat
    <2>1. \A S \in SUBSET Called(u) : IsFiniteSet(S)
        BY <1>1, UavFinite, FS_Subset
    <2>2. \A S \in SUBSET Called(u) : Cardinality(S) \in Nat
        BY <2>1, FS_CardinalityType
    <2> QED
        BY <2>2 DEF TypeOK
<1>3. ASSUME NEW v \in Called(u)
      PROVE  /\ NewSession(u, v) \in Session3
             /\ P1(u, v) \in Message3
             /\ P1(u, v).type = "P1" /\ P1(u, v).to = v
             /\ P1(u, v).port = Port(u)
    <2>1. Nonce(u, v) \in Nat
        BY <1>2 DEF Nonce
    <2>2. v \in Uav /\ creds[u][v] # "none"
        BY <1>1 DEF Called
    <2>3. creds[u][v] \in {"empty", "pair"}
        BY <2>2 DEF TypeOK
    <2>4. NewSession(u, v) \in Session3
        BY <2>1, <2>3 DEF NewSession, Session3
    <2>5. "P1" \in Types3 /\ 0 \in Nat
        BY DEF Types3
    <2> QED
        BY <2>1, <2>2, <2>3, <2>4, <2>5, Sent3 DEF P1
<1> QED
    BY <1>1, <1>2, <1>3

\* The round of u, side by side with what was there before.
LEMMA RoundEffect ==
    ASSUME TypeOK, NEW u \in Uav, StartPhase3Round(u)
    PROVE  /\ peerTimer[u] /\ peerTimer' = [peerTimer EXCEPT ![u] = FALSE]
           /\ drawn' \in [Uav -> Nat]
           /\ peers' \in [Uav -> [Uav -> Session3 \cup {None}]]
           /\ records' \in [Uav -> [Uav -> PeerRec \cup {None}]]
           /\ \A a, b \in Uav : ~(a = u /\ b \in Called(u)) =>
                  peers'[a][b] = peers[a][b] /\ records'[a][b] = records[a][b]
           /\ \A v \in Called(u) :
                  /\ peers'[u][v] = NewSession(u, v)
                  /\ records'[u][v] = InitiatorRec(records[u][v])
           /\ net' = net \cup {P1(u, v) : v \in Called(u)}
<1> DEFINE ps == [v \in Uav |-> IF v \in Called(u) THEN NewSession(u, v)
                                ELSE peers[u][v]]
           rs == [v \in Uav |-> IF v \in Called(u) THEN InitiatorRec(records[u][v])
                                ELSE records[u][v]]
<1>1. /\ peerTimer[u] /\ peerTimer' = [peerTimer EXCEPT ![u] = FALSE]
      /\ drawn' = [drawn EXCEPT ![u] = @ + Cardinality(Called(u))]
    BY DEF StartPhase3Round, Called
<1>2. peers' = [peers EXCEPT ![u] = ps]
    BY DEF StartPhase3Round, Called, Nonce, NewSession
<1>3. records' = [records EXCEPT ![u] = rs]
    BY DEF StartPhase3Round, Called
<1>4. net' = net \cup {P1(u, v) : v \in Called(u)}
    BY DEF StartPhase3Round, Called, Nonce, P1
<1>5. ps \in [Uav -> Session3 \cup {None}]
    BY CalledType DEF TypeOK
<1>6. rs \in [Uav -> PeerRec \cup {None}]
    <2>1. \A v \in Uav : InitiatorRec(records[u][v]) \in PeerRec
        BY DEF TypeOK, InitiatorRec, PeerRec
    <2> QED
        BY <2>1 DEF TypeOK
<1>7. drawn' \in [Uav -> Nat]
    BY <1>1, CalledType DEF TypeOK
<1>8. \A v \in Uav : /\ v \in Called(u) => ps[v] = NewSession(u, v)
                     /\ v \notin Called(u) => ps[v] = peers[u][v]
                     /\ v \in Called(u) => rs[v] = InitiatorRec(records[u][v])
                     /\ v \notin Called(u) => rs[v] = records[u][v]
    OBVIOUS
<1>9. Called(u) \subseteq Uav
    BY CalledType
<1> HIDE DEF ps, rs
<1>10. /\ peers' \in [Uav -> [Uav -> Session3 \cup {None}]]
       /\ records' \in [Uav -> [Uav -> PeerRec \cup {None}]]
    BY <1>2, <1>3, <1>5, <1>6 DEF TypeOK
<1>11. \A a \in Uav : /\ peers'[a] = IF a = u THEN ps ELSE peers[a]
                      /\ records'[a] = IF a = u THEN rs ELSE records[a]
    BY <1>2, <1>3 DEF TypeOK
<1> QED
    BY <1>1, <1>4, <1>7, <1>8, <1>9, <1>10, <1>11

\* A table of tables changed at one place.
LEMMA Changed ==
    ASSUME NEW S, NEW f \in [Uav -> [Uav -> S]], NEW u \in Uav, NEW v \in Uav,
           NEW e \in S, NEW g, g = [f EXCEPT ![u][v] = e]
    PROVE  /\ g \in [Uav -> [Uav -> S]] /\ g[u][v] = e
           /\ \A a, b \in Uav : <<a, b>> # <<u, v>> => g[a][b] = f[a][b]
<1> DEFINE r == [f[u] EXCEPT ![v] = e]
<1>1. r \in [Uav -> S] /\ r[v] = e /\ \A b \in Uav \ {v} : r[b] = f[u][b]
    OBVIOUS
<1>2. g = [f EXCEPT ![u] = r]
    OBVIOUS
<1> HIDE DEF r
<1>3. g \in [Uav -> [Uav -> S]] /\ \A a \in Uav : g[a] = IF a = u THEN r ELSE f[a]
    BY <1>1, <1>2
<1> QED
    BY <1>1, <1>3

\* What P2 and P3 complete at u, in its session with v.
Completed(u, v) ==
    /\ peers' \in [Uav -> [Uav -> Session3 \cup {None}]]
    /\ records' \in [Uav -> [Uav -> PeerRec \cup {None}]]
    /\ creds' \in [Uav -> [Uav -> {"none", "empty", "pair"}]]
    /\ p3Successes' \in [Uav -> Nat]
    /\ p3Successes' = [p3Successes EXCEPT ![u] = @ + 1]
    /\ peers'[u][v] # None /\ records'[u][v] # None
    /\ peers'[u][v].initiator = peers[u][v].initiator
    /\ peers'[u][v].ephemeral = FALSE /\ records'[u][v].success = TRUE
    /\ \A a, b \in Uav : <<a, b>> # <<u, v>> =>
           peers'[a][b] = peers[a][b] /\ records'[a][b] = records[a][b]

LEMMA CompleteEffect ==
    ASSUME TypeOK, NEW u \in Uav, NEW v \in Uav, NEW n2 \in Nat,
           peers[u][v] # None, records[u][v] # None, Complete(u, v, n2)
    PROVE  Completed(u, v)
<1> DEFINE s == [peers[u][v] EXCEPT !.remote = n2, !.ephemeral = FALSE]
           r == [records[u][v] EXCEPT !.success = TRUE]
           c == IF creds[u][v] = "none" THEN "empty" ELSE creds[u][v]
<1>1. peers[u][v] \in Session3 /\ records[u][v] \in PeerRec
    BY DEF TypeOK
<1>2. /\ s \in Session3 /\ s.initiator = peers[u][v].initiator
      /\ s.ephemeral = FALSE
    BY <1>1 DEF Session3
<1>3. r \in PeerRec /\ r.success = TRUE
    BY <1>1 DEF PeerRec
<1>4. c \in {"none", "empty", "pair"}
    BY DEF TypeOK
<1>5. peers' = [peers EXCEPT ![u][v] = s]
    BY DEF Complete, TypeOK
<1>6. records' = [records EXCEPT ![u][v] = r]
    BY DEF Complete, TypeOK
<1>7. creds' = [creds EXCEPT ![u][v] = c]
    BY DEF Complete, TypeOK
<1>8. p3Successes' = [p3Successes EXCEPT ![u] = @ + 1]
    BY DEF Complete
<1> HIDE DEF s, r, c
<1>9. /\ peers \in [Uav -> [Uav -> Session3 \cup {None}]]
      /\ records \in [Uav -> [Uav -> PeerRec \cup {None}]]
      /\ creds \in [Uav -> [Uav -> {"none", "empty", "pair"}]]
      /\ p3Successes \in [Uav -> Nat]
    BY DEF TypeOK
<1>10. /\ peers' \in [Uav -> [Uav -> Session3 \cup {None}]] /\ peers'[u][v] = s
       /\ \A a, b \in Uav : <<a, b>> # <<u, v>> => peers'[a][b] = peers[a][b]
    BY <1>2, <1>5, <1>9, Changed
<1>11. /\ records' \in [Uav -> [Uav -> PeerRec \cup {None}]] /\ records'[u][v] = r
       /\ \A a, b \in Uav : <<a, b>> # <<u, v>> => records'[a][b] = records[a][b]
    BY <1>3, <1>6, <1>9, Changed
<1>12. creds' \in [Uav -> [Uav -> {"none", "empty", "pair"}]]
    BY <1>4, <1>7, <1>9, Changed
<1>13. s # None /\ r # None
    BY <1>2, <1>3, Absent
<1> QED
    BY <1>2, <1>3, <1>8, <1>9, <1>10, <1>11, <1>12, <1>13 DEF Completed

\* A P1 that v accepts from u.
LEMMA P1Effect ==
    ASSUME TypeOK, NEW u \in Uav, NEW v \in Uav, NEW m, HandleP1(m, v),
           m.port = Port(u)
    PROVE  /\ m \in net /\ m.type = "P1" /\ m.to = v
           /\ drawn' \in [Uav -> Nat]
           /\ peers' \in [Uav -> [Uav -> Session3 \cup {None}]]
           /\ records' \in [Uav -> [Uav -> PeerRec \cup {None}]]
           /\ \/ /\ peers'[v][u] # None /\ records'[v][u] # None
                 /\ ~peers'[v][u].initiator /\ peers'[v][u].ephemeral
                 /\ records'[v][u] = ResponderRec(records[v][u])
                 /\ \A a, b \in Uav : <<a, b>> # <<v, u>> =>
                        peers'[a][b] = peers[a][b] /\ records'[a][b] = records[a][b]
                 /\ \E r \in Message3 : /\ net' = (net \ {m}) \cup {r}
                                        /\ r.type = "P2"
              \/ peers' = peers /\ records' = records /\ net' = net \ {m}
<1> DEFINE s == [initiator |-> FALSE, local |-> drawn'[v], remote |-> m.n1,
                 cred |-> creds[v][u], ephemeral |-> TRUE]
           p2 == Datagram3("P2", v, u, m.n1, drawn'[v], creds[v][u])
<1>1. m \in net /\ m.type = "P1" /\ m.to = v /\ m.type \in Types3 /\ "P2" \in Types3
    BY DEF HandleP1, Arrives, Types3
<1>2. m.n1 \in Nat /\ m.cred \in {"empty", "pair"}
    BY <1>1, Fields3
<1>3. PeerByPort(m.port) = {u}
    BY Ports
<1>4. \/ /\ creds[v][u] = m.cred
         /\ drawn' = [drawn EXCEPT ![v] = @ + 1]
         /\ peers' = [peers EXCEPT ![v][u] = s]
         /\ records' = [records EXCEPT ![v][u] = ResponderRec(@)]
         /\ net' = (net \ {m}) \cup {p2}
      \/ net' = net \ {m} /\ UNCHANGED <<drawn, peers, records>>
    BY <1>3 DEF HandleP1, Accepts, Reply, Take
<1>5. CASE net' = net \ {m} /\ UNCHANGED <<drawn, peers, records>>
    BY <1>1, <1>5 DEF TypeOK
<1>6. CASE /\ creds[v][u] = m.cred
           /\ drawn' = [drawn EXCEPT ![v] = @ + 1]
           /\ peers' = [peers EXCEPT ![v][u] = s]
           /\ records' = [records EXCEPT ![v][u] = ResponderRec(@)]
           /\ net' = (net \ {m}) \cup {p2}
    <2>1. drawn' \in [Uav -> Nat]
        BY <1>6 DEF TypeOK
    <2>2. creds[v][u] \in {"empty", "pair"}
        BY <1>2, <1>6
    <2>3. s \in Session3 /\ s.initiator = FALSE /\ s.ephemeral = TRUE
        BY <1>2, <2>1, <2>2 DEF Session3
    <2>4. p2 \in Message3 /\ p2.type = "P2"
        <3>1. drawn'[v] \in Nat /\ "P2" \in Types3 /\ m.n1 \in Nat
              /\ creds[v][u] \in {"empty", "pair"}
            BY <1>1, <1>2, <2>1, <2>2
        <3> QED
            BY <3>1, Sent3
    <2> HIDE DEF s, p2
    <2> DEFINE r == ResponderRec(records[v][u])
    <2>5. r \in PeerRec
        BY DEF TypeOK, PeerRec, ResponderRec
    <2>6. records' = [records EXCEPT ![v][u] = r]
        BY <1>6 DEF TypeOK
    <2> HIDE DEF r
    <2>7. /\ peers \in [Uav -> [Uav -> Session3 \cup {None}]]
          /\ records \in [Uav -> [Uav -> PeerRec \cup {None}]]
        BY DEF TypeOK
    <2>8. /\ peers' \in [Uav -> [Uav -> Session3 \cup {None}]] /\ peers'[v][u] = s
          /\ \A a, b \in Uav : <<a, b>> # <<v, u>> => peers'[a][b] = peers[a][b]
        BY <1>6, <2>3, <2>7, Changed
    <2>9. /\ records' \in [Uav -> [Uav -> PeerRec \cup {None}]] /\ records'[v][u] = r
          /\ \A a, b \in Uav : <<a, b>> # <<v, u>> => records'[a][b] = records[a][b]
        BY <2>5, <2>6, <2>7, Changed
    <2>10. s # None /\ r # None
        BY <2>3, <2>5, Absent
    <2> QED
        BY <1>1, <1>6, <2>1, <2>3, <2>4, <2>8, <2>9, <2>10 DEF r
<1> QED
    BY <1>4, <1>5, <1>6

\* A P2 of v that reaches u.
LEMMA P2Effect ==
    ASSUME TypeOK, NEW u \in Uav, NEW v \in Uav, NEW m, HandleP2(m, u),
           m.port = Port(v)
    PROVE  /\ m \in net /\ m.n2 \in Nat
           /\ \/ /\ peers[u][v] # None
                 /\ peers[u][v].initiator /\ peers[u][v].ephemeral
                 /\ Complete(u, v, m.n2)
                 /\ \E r \in Message3 :
                        /\ net' = (net \ {m}) \cup {r}
                        /\ r.type = "P3" /\ r.to = v /\ r.port = Port(u)
              \/ /\ UNCHANGED <<peers, creds, records, p3Successes>>
                 /\ net' = net \ {m}
<1> DEFINE p3 == Datagram3("P3", u, v, m.n1, m.n2, peers[u][v].cred)
<1>1. m \in net /\ m.type \in Types3 /\ "P3" \in Types3
    BY DEF HandleP2, Arrives, Types3
<1>2. m.n1 \in Nat /\ m.n2 \in Nat
    BY <1>1, Fields3
<1>3. PeerByPort(m.port) = {v}
    BY Ports
<1>4. \/ /\ peers[u][v] # None
         /\ peers[u][v].initiator /\ peers[u][v].ephemeral
         /\ Complete(u, v, m.n2)
         /\ net' = (net \ {m}) \cup {p3}
      \/ UNCHANGED <<peers, creds, records, p3Successes>> /\ net' = net \ {m}
    BY <1>3 DEF HandleP2, Reply, Take
<1>5. ASSUME peers[u][v] # None
      PROVE  p3 \in Message3 /\ p3.type = "P3" /\ p3.to = v /\ p3.port = Port(u)
    <2>1. peers[u][v] \in Session3
        BY <1>5 DEF TypeOK
    <2>2. peers[u][v].cred \in {"empty", "pair"}
        BY <2>1 DEF Session3
    <2> QED
        BY <1>1, <1>2, <2>2, Sent3
<1> HIDE DEF p3
<1> QED
    BY <1>1, <1>2, <1>4, <1>5

\* A P3 of v that reaches u.
LEMMA P3Effect ==
    ASSUME TypeOK, NEW u \in Uav, NEW v \in Uav, NEW m, HandleP3(m, u),
           m.port = Port(v)
    PROVE  /\ m \in net /\ m.type = "P3" /\ m.to = u /\ m.n1 \in Nat
           /\ net' = net \ {m}
           /\ \/ /\ peers[u][v] # None
                 /\ ~peers[u][v].initiator /\ peers[u][v].ephemeral
                 /\ Complete(u, v, m.n1)
              \/ UNCHANGED <<peers, creds, records, p3Successes>>
<1>1. m \in net /\ m.type = "P3" /\ m.to = u /\ m.type \in Types3
    BY DEF HandleP3, Arrives, Types3
<1>2. m.n1 \in Nat
    BY <1>1, Fields3
<1>3. PeerByPort(m.port) = {v}
    BY Ports
<1> QED
    BY <1>1, <1>2, <1>3 DEF HandleP3, Take

\* Who sent a message of Phase 3 that is handled.
LEMMA Senders ==
    ASSUME NEW u \in Uav, NEW m, HandleP1(m, u) \/ HandleP2(m, u) \/ HandleP3(m, u)
    PROVE  \E v \in Uav : m.port = Port(v)
BY DEF HandleP1, HandleP2, HandleP3, PeerByPort

LEMMA Phase3Type ==
    ASSUME TypeOK, PairInv, NEW u \in Uav, NEW m,
           \/ StartPhase3Round(u)
           \/ HandleP1(m, u) \/ HandleP2(m, u) \/ HandleP3(m, u)
    PROVE  TypeOK'
<1>1. CASE StartPhase3Round(u)
    <2>1. peerTimer' \in [Uav -> BOOLEAN]
        BY <1>1 DEF TypeOK, StartPhase3Round
    <2>2. net' \subseteq Message2 \cup Message3
        BY <1>1, RoundEffect, CalledType DEF TypeOK
    <2> QED
        BY <1>1, <2>1, <2>2, RoundEffect
            DEF TypeOK, StartPhase3Round, life, gs, uav2
<1>2. CASE HandleP1(m, u)
    <2>1. PICK v \in Uav : m.port = Port(v)
        BY <1>2, Senders
    <2>2. /\ drawn' \in [Uav -> Nat]
          /\ peers' \in [Uav -> [Uav -> Session3 \cup {None}]]
          /\ records' \in [Uav -> [Uav -> PeerRec \cup {None}]]
        BY <1>2, <2>1, P1Effect
    <2>3. net' \subseteq Message2 \cup Message3
        <3>1. \A x \in net' : x \in net \/ x \in Message3
            BY <1>2, <2>1, P1Effect
        <3> QED
            BY <3>1 DEF TypeOK
    <2> QED
        BY <1>2, <2>2, <2>3 DEF TypeOK, HandleP1, life, timers, gs, uav2
<1>3. CASE HandleP2(m, u)
    <2>1. PICK v \in Uav : m.port = Port(v)
        BY <1>3, Senders
    <2>2. net' \subseteq Message2 \cup Message3
        BY <1>3, <2>1, P2Effect DEF TypeOK
    <2>3. \/ peers[u][v] # None /\ m.n2 \in Nat /\ Complete(u, v, m.n2)
          \/ UNCHANGED <<peers, creds, records, p3Successes>>
        BY <1>3, <2>1, P2Effect
    <2>4. /\ peers' \in [Uav -> [Uav -> Session3 \cup {None}]]
          /\ records' \in [Uav -> [Uav -> PeerRec \cup {None}]]
          /\ creds' \in [Uav -> [Uav -> {"none", "empty", "pair"}]]
          /\ p3Successes' \in [Uav -> Nat]
        <3>1. CASE UNCHANGED <<peers, creds, records, p3Successes>>
            BY <3>1 DEF TypeOK
        <3>2. CASE peers[u][v] # None /\ m.n2 \in Nat /\ Complete(u, v, m.n2)
            <4>1. records[u][v] # None
                BY <3>2 DEF PairInv
            <4>2. Completed(u, v)
                BY <3>2, <4>1, CompleteEffect
            <4> QED
                BY <4>2 DEF Completed
        <3> QED
            BY <2>3, <3>1, <3>2
    <2> QED
        BY <1>3, <2>2, <2>4 DEF TypeOK, HandleP2, life, timers, gs
<1>4. CASE HandleP3(m, u)
    <2>1. PICK v \in Uav : m.port = Port(v)
        BY <1>4, Senders
    <2>2. net' \subseteq Message2 \cup Message3
        BY <1>4, <2>1, P3Effect DEF TypeOK
    <2>3. \/ peers[u][v] # None /\ m.n1 \in Nat /\ Complete(u, v, m.n1)
          \/ UNCHANGED <<peers, creds, records, p3Successes>>
        BY <1>4, <2>1, P3Effect
    <2>4. /\ peers' \in [Uav -> [Uav -> Session3 \cup {None}]]
          /\ records' \in [Uav -> [Uav -> PeerRec \cup {None}]]
          /\ creds' \in [Uav -> [Uav -> {"none", "empty", "pair"}]]
          /\ p3Successes' \in [Uav -> Nat]
        <3>1. CASE UNCHANGED <<peers, creds, records, p3Successes>>
            BY <3>1 DEF TypeOK
        <3>2. CASE peers[u][v] # None /\ m.n1 \in Nat /\ Complete(u, v, m.n1)
            <4>1. records[u][v] # None
                BY <3>2 DEF PairInv
            <4>2. Completed(u, v)
                BY <3>2, <4>1, CompleteEffect
            <4> QED
                BY <4>2 DEF Completed
        <3> QED
            BY <2>3, <3>1, <3>2
    <2> QED
        BY <1>4, <2>2, <2>4 DEF TypeOK, HandleP3, life, timers, gs
<1> QED
    BY <1>1, <1>2, <1>3, <1>4

-----------------------------------------------------------------------------
(* What the steps of Phase 2 do *)

\* A step that is no step of Phase 2.
Same2 ==
    /\ UNCHANGED <<epoch, pending, gsSession, tid, ses>>
    /\ \A x \in net' : x.type \in Types2 => x \in net

LEMMA RequestEffect ==
    ASSUME TypeOK, SessionInv, NEW u \in Uav, StartPhase2(u)
    PROVE  /\ startTimer[u] /\ startTimer' = [startTimer EXCEPT ![u] = FALSE]
           /\ UNCHANGED <<epoch, pending, gsSession, tid>>
           /\ \/ ses' = ses /\ net' = net
              \/ /\ tid[u] # None
                 /\ \A v \in Uav \ {u} : ses'[v] = ses[v]
                 /\ ses'[u] # None /\ ses'[u].n \in Nat
                 /\ ses'[u].n = IF ses[u] = None THEN 1 ELSE ses[u].n + 1
                 /\ \E r : /\ net' = net \cup {r} /\ r.type = "M1"
                           /\ r.port = Port(u) /\ r.n = ses'[u].n
<1> DEFINE n == IF ses[u] = None THEN 1 ELSE ses[u].n + 1
           s == [n |-> n, epoch |-> epoch, ephemeral |-> TRUE, keyed |-> FALSE]
           r == Datagram2("M1", u, Gs, tid[u], n, epoch)
<1>1. /\ startTimer[u] /\ startTimer' = [startTimer EXCEPT ![u] = FALSE]
      /\ UNCHANGED <<epoch, pending, gsSession, tid>>
    BY DEF StartPhase2, gs
<1>2. n \in Nat
    BY Known DEF Session2
<1>3. \/ ses' = ses /\ net' = net
      \/ tid[u] # None /\ ses' = [ses EXCEPT ![u] = s] /\ net' = net \cup {r}
    BY DEF StartPhase2, Request
<1>4. epoch \in Nat
    BY DEF TypeOK
<1>5. r.type = "M1" /\ r.port = Port(u) /\ r.n = n
    BY DEF Datagram2
<1>6. s \in Session2 /\ s.n = n
    BY <1>2, <1>4 DEF Session2
<1>7. s # None
    BY <1>6, Absent
<1>8. n = IF ses[u] = None THEN 1 ELSE ses[u].n + 1
    OBVIOUS
<1> HIDE DEF n, s, r
<1>9. CASE ses' = ses /\ net' = net
    BY <1>1, <1>9
<1>10. CASE tid[u] # None /\ ses' = [ses EXCEPT ![u] = s] /\ net' = net \cup {r}
    <2>1. ses'[u] = s /\ \A v \in Uav \ {u} : ses'[v] = ses[v]
        BY <1>10 DEF TypeOK
    <2> QED
        BY <1>1, <1>2, <1>5, <1>6, <1>7, <1>8, <1>10, <2>1
<1> QED
    BY <1>3, <1>9, <1>10

LEMMA M1Effect ==
    ASSUME TypeOK, NEW u \in Uav, NEW m, HandleM1(m, u)
    PROVE  /\ m \in net /\ m.type = "M1" /\ m.port = Port(u)
           /\ UNCHANGED <<epoch, pending, tid, ses>>
           /\ \/ gsSession' = gsSession /\ net' = net \ {m}
              \/ /\ \A v \in Uav \ {u} : gsSession'[v] = gsSession[v]
                 /\ gsSession'[u] # None /\ gsSession'[u].n = m.n
                 /\ \E r : net' = (net \ {m}) \cup {r} /\ r.type = "M2" /\ r.to = u
<1> DEFINE s == [n |-> m.n, epoch |-> epoch, ephemeral |-> TRUE, keyed |-> FALSE]
           r == Datagram2("M2", Gs, u, m.tid, m.n, epoch)
<1>1. m \in net /\ m.type = "M1" /\ m.port = Port(u) /\ m.type \in Types2
    BY DEF HandleM1, Arrives, Types2
<1>2. UNCHANGED <<epoch, pending, tid, ses>>
    BY DEF HandleM1, uav2
<1>3. \/ gsSession' = gsSession /\ net' = net \ {m}
      \/ gsSession' = [gsSession EXCEPT ![u] = s] /\ net' = (net \ {m}) \cup {r}
    BY DEF HandleM1, Take, Reply
<1>4. r.type = "M2" /\ r.to = u
    BY DEF Datagram2
<1>5. s \in Session2 /\ s.n = m.n
    BY <1>1, Fields2 DEF Session2, TypeOK
<1>6. s # None
    BY <1>5, Absent
<1> HIDE DEF s, r
<1>7. CASE gsSession' = [gsSession EXCEPT ![u] = s] /\ net' = (net \ {m}) \cup {r}
    <2>1. gsSession'[u] = s /\ \A v \in Uav \ {u} : gsSession'[v] = gsSession[v]
        BY <1>7 DEF TypeOK
    <2> QED
        BY <1>1, <1>2, <1>4, <1>5, <1>6, <1>7, <2>1
<1> QED
    BY <1>1, <1>2, <1>3, <1>7

LEMMA M2Effect ==
    ASSUME TypeOK, SessionInv, NEW u \in Uav, NEW m, HandleM2(m, u)
    PROVE  /\ m \in net /\ m.type = "M2" /\ m.to = u /\ gsSession[u] # None
           /\ UNCHANGED <<epoch, pending, tid, gsSession>>
           /\ \/ ses' = ses /\ net' = net \ {m}
              \/ /\ \A v \in Uav \ {u} : ses'[v] = ses[v]
                 /\ ses[u] # None /\ ses'[u] # None /\ ses'[u].n = ses[u].n
                 /\ \E r : /\ net' = (net \ {m}) \cup {r}
                           /\ r.type = "M3" /\ r.port = Port(u)
<1> DEFINE r == Datagram2("M3", u, Gs, tid[u], ses[u].n, ses[u].epoch)
<1>1. m \in net /\ m.type = "M2" /\ m.to = u
    BY DEF HandleM2, Arrives
<1>2. gsSession[u] # None /\ ses[u] # None
    BY <1>1 DEF SessionInv
<1>3. UNCHANGED <<epoch, pending, tid, gsSession>>
    BY DEF HandleM2, gs
<1>4. \/ ses' = ses /\ net' = net \ {m}
      \/ /\ ses' = Flag(ses, u)
         /\ net' = (net \ {m}) \cup {r}
    BY DEF HandleM2, Flag, Take, Reply
<1>5. r.type = "M3" /\ r.port = Port(u)
    BY DEF Datagram2
<1> HIDE DEF r
<1>6. CASE /\ ses' = Flag(ses, u)
           /\ net' = (net \ {m}) \cup {r}
    <2>1. ses \in [Uav -> Session2 \cup {None}]
        BY DEF TypeOK
    <2>2. /\ ses' \in [Uav -> Session2 \cup {None}]
          /\ \A v \in Uav \ {u} : ses'[v] = ses[v]
          /\ ses'[u] # None /\ ses'[u].n = ses[u].n
        <3>1. ses' = Flag(ses, u)
            BY <1>6
        <3> QED
            BY <1>2, <2>1, <3>1, Flagged
    <2> QED
        BY <1>1, <1>2, <1>3, <1>5, <1>6, <2>2
<1> QED
    BY <1>1, <1>2, <1>3, <1>4, <1>6

\* The ground station confirms the session of u and answers m with r.
Confirms(u, m, r) ==
    /\ gsSession[u].ephemeral
    /\ \A v \in Uav \ {u} : gsSession'[v] = gsSession[v]
    /\ \A v \in Uav \ {u} : pending'[v] = pending[v]
    /\ gsSession'[u] # None /\ gsSession'[u].n = gsSession[u].n
    /\ gsSession'[u].ephemeral = FALSE
    /\ pending'[u] = [epoch |-> epoch, n |-> gsSession[u].n]
    /\ net' = (net \ {m}) \cup {r}
    /\ r.type = "M4" /\ r.to = u
    /\ r.n = gsSession[u].n /\ r.tid = pending'[u]

LEMMA M3Effect ==
    ASSUME TypeOK, SessionInv, NEW u \in Uav, NEW m, HandleM3(m, u)
    PROVE  /\ m \in net /\ m.type = "M3" /\ gsSession[u] # None
           /\ UNCHANGED <<epoch, tid, ses>>
           /\ \/ gsSession' = gsSession /\ pending' = pending /\ net' = net \ {m}
              \/ \E r : Confirms(u, m, r)
<1> DEFINE t == [epoch |-> epoch, n |-> gsSession[u].n]
           r == Datagram2("M4", Gs, u, t, gsSession[u].n, gsSession[u].epoch)
<1>1. m \in net /\ m.type = "M3" /\ m.port = Port(u)
    BY DEF HandleM3, Arrives
<1>2. gsSession[u] # None
    BY <1>1 DEF SessionInv
<1>3. UNCHANGED <<epoch, tid, ses>>
    BY DEF HandleM3, uav2
<1>4. \/ gsSession' = gsSession /\ pending' = pending /\ net' = net \ {m}
      \/ /\ gsSession[u].ephemeral
         /\ gsSession' = Flag(gsSession, u)
         /\ pending' = [pending EXCEPT ![u] = t]
         /\ net' = (net \ {m}) \cup {r}
    BY DEF HandleM3, Flag, Take, Reply
<1>5. r.type = "M4" /\ r.to = u /\ r.n = gsSession[u].n /\ r.tid = t
    BY DEF Datagram2
<1> HIDE DEF r
<1>6. CASE /\ gsSession[u].ephemeral
           /\ gsSession' = Flag(gsSession, u)
           /\ pending' = [pending EXCEPT ![u] = t]
           /\ net' = (net \ {m}) \cup {r}
    <2>1. gsSession \in [Uav -> Session2 \cup {None}]
        BY DEF TypeOK
    <2>2. /\ gsSession' \in [Uav -> Session2 \cup {None}]
          /\ \A v \in Uav \ {u} : gsSession'[v] = gsSession[v]
          /\ gsSession'[u] # None /\ gsSession'[u].n = gsSession[u].n
          /\ gsSession'[u].ephemeral = FALSE
        <3>1. gsSession' = Flag(gsSession, u)
            BY <1>6
        <3> QED
            BY <1>2, <2>1, <3>1, Flagged
    <2>3. pending'[u] = t /\ \A v \in Uav \ {u} : pending'[v] = pending[v]
        BY <1>6 DEF TypeOK
    <2>4. Confirms(u, m, r)
        BY <1>5, <1>6, <2>2, <2>3 DEF Confirms
    <2> QED
        BY <1>1, <1>2, <1>3, <2>4
<1> QED
    BY <1>1, <1>2, <1>3, <1>4, <1>6

LEMMA M4Effect ==
    ASSUME TypeOK, SessionInv, NEW u \in Uav, NEW m, HandleM4(m, u)
    PROVE  /\ m \in net /\ m.type = "M4" /\ m.to = u
           /\ ses[u] # None /\ ~startTimer[u]
           /\ net' = net \ {m}
           /\ UNCHANGED <<epoch, pending, ses, gsSession, startTimer>>
           /\ \/ /\ m.n = ses[u].n
                 /\ tid' = [tid EXCEPT ![u] = m.tid]
                 /\ scheduledTwice' = (scheduledTwice \/ peerTimer[u])
                 /\ peerTimer' = [peerTimer EXCEPT ![u] = TRUE]
              \/ UNCHANGED <<tid, scheduledTwice, peerTimer>>
<1>1. m \in net /\ m.type = "M4" /\ m.to = u
    BY DEF HandleM4, Arrives
<1>2. ses[u] # None
    BY <1>1 DEF SessionInv
<1>3. ~startTimer[u]
    BY <1>2 DEF HandleM4, Awake
<1> QED
    BY <1>1, <1>2, <1>3 DEF HandleM4, Take, gs

-----------------------------------------------------------------------------
(* Sessions *)

LEMMA Numbers ==
    ASSUME TypeOK
    PROVE  /\ \A u \in Uav : /\ ses[u] # None => ses[u].n \in Nat
                             /\ gsSession[u] # None => gsSession[u].n \in Nat
                                                    /\ gsSession[u].ephemeral \in BOOLEAN
           /\ \A m \in net : m.type \in Types2 => m.n \in Nat /\ m.tid \in Tid
           /\ \A u, v \in Uav : Port(u) = Port(v) => u = v
<1>1. \A u \in Uav : /\ ses[u] # None => ses[u] \in Session2
                     /\ gsSession[u] # None => gsSession[u] \in Session2
    BY DEF TypeOK
<1>2. \A s \in Session2 : s.n \in Nat /\ s.ephemeral \in BOOLEAN
    BY DEF Session2
<1> QED
    BY <1>1, <1>2, Fields2, Ports, Nodes

LEMMA SessionKept ==
    ASSUME SessionInv, Same2
    PROVE  SessionInv'
BY DEF SessionInv, Same2, Types2

LEMMA SessionStep ==
    ASSUME TypeOK, SessionInv, NEW u \in Uav, NEW m,
           \/ StartPhase2(u) \/ HandleM1(m, u) \/ HandleM2(m, u)
           \/ HandleM3(m, u) \/ HandleM4(m, u)
    PROVE  SessionInv'
<1>1. CASE StartPhase2(u)
    <2>1. UNCHANGED <<epoch, gsSession, tid>>
        BY <1>1, RequestEffect
    <2>2. CASE ses' = ses /\ net' = net
        BY <2>1, <2>2 DEF SessionInv
    <2>3. CASE ~(ses' = ses /\ net' = net)
        <3>1. PICK r : /\ tid[u] # None
                       /\ \A v \in Uav \ {u} : ses'[v] = ses[v]
                       /\ ses'[u] # None /\ ses'[u].n \in Nat
                       /\ ses'[u].n = IF ses[u] = None THEN 1 ELSE ses[u].n + 1
                       /\ net' = net \cup {r} /\ r.type = "M1"
                       /\ r.port = Port(u) /\ r.n = ses'[u].n
            BY <1>1, <2>3, RequestEffect
        <3>2. /\ ses'[u].n >= 1
              /\ ses[u] # None => ses[u].n \in Nat /\ ses'[u].n = ses[u].n + 1
            BY <3>1, Numbers
        <3>3. \A v \in Uav :
                  /\ ses[v] # None => ses'[v] # None
                  /\ \A k \in Nat : ses[v] # None /\ k <= ses[v].n => k <= ses'[v].n
            BY <3>1, <3>2
        <3>4. \A v \in Uav :
                  /\ epoch' = 0 => tid'[v] = None
                  /\ ses'[v] # None => tid'[v] # None /\ ses'[v].n >= 1
                  /\ gsSession'[v] # None =>
                        /\ ses'[v] # None /\ gsSession'[v].n >= 1
                        /\ gsSession'[v].n <= ses'[v].n
            BY <2>1, <3>1, <3>2, <3>3, Numbers DEF SessionInv
        <3>5. ASSUME NEW x \in net', NEW v \in Uav
              PROVE  /\ x.type = "M1" /\ x.port = Port(v) =>
                            ses'[v] # None /\ x.n >= 1 /\ x.n <= ses'[v].n
                     /\ x.type = "M2" /\ x.to = v => gsSession'[v] # None
                     /\ x.type = "M3" /\ x.port = Port(v) => gsSession'[v] # None
                     /\ x.type = "M4" /\ x.to = v =>
                            gsSession'[v] # None /\ x.n <= ses'[v].n
            <4>1. CASE x = r
                <5>1. x.port = Port(v) => v = u
                    BY <3>1, <4>1, Numbers
                <5> QED
                    BY <3>1, <3>2, <4>1, <5>1
            <4>2. CASE x \in net
                <5>1. x.type \in {"M1", "M4"} => x.n \in Nat
                    BY <4>2, Numbers DEF Types2
                <5>2. /\ x.type = "M1" /\ x.port = Port(v) =>
                             ses[v] # None /\ x.n >= 1 /\ x.n <= ses[v].n
                      /\ x.type = "M2" /\ x.to = v => gsSession[v] # None
                      /\ x.type = "M3" /\ x.port = Port(v) => gsSession[v] # None
                      /\ x.type = "M4" /\ x.to = v =>
                             /\ gsSession[v] # None /\ x.n <= ses[v].n
                             /\ ses[v] # None
                    BY <4>2 DEF SessionInv
                <5> QED
                    BY <2>1, <3>3, <5>1, <5>2
            <4> QED
                BY <3>1, <4>1, <4>2
        <3> QED
            BY <3>4, <3>5 DEF SessionInv
    <2> QED
        BY <2>2, <2>3
<1>2. CASE HandleM1(m, u)
    <2>1. /\ m \in net /\ m.type = "M1" /\ m.port = Port(u)
          /\ UNCHANGED <<epoch, tid, ses>>
        BY <1>2, M1Effect
    <2>2. ses[u] # None /\ m.n >= 1 /\ m.n <= ses[u].n
        BY <2>1 DEF SessionInv
    <2>3. CASE gsSession' = gsSession /\ net' = net \ {m}
        BY <2>1, <2>3 DEF SessionInv
    <2>4. CASE ~(gsSession' = gsSession /\ net' = net \ {m})
        <3>1. PICK r : /\ \A v \in Uav \ {u} : gsSession'[v] = gsSession[v]
                       /\ gsSession'[u] # None /\ gsSession'[u].n = m.n
                       /\ net' = (net \ {m}) \cup {r} /\ r.type = "M2" /\ r.to = u
            BY <1>2, <2>4, M1Effect
        <3> QED
            BY <2>1, <2>2, <3>1 DEF SessionInv
    <2> QED
        BY <2>3, <2>4
<1>3. CASE HandleM2(m, u)
    <2>1. gsSession[u] # None /\ UNCHANGED <<epoch, tid, gsSession>>
        BY <1>3, M2Effect
    <2>2. CASE ses' = ses /\ net' = net \ {m}
        BY <2>1, <2>2 DEF SessionInv
    <2>3. CASE ~(ses' = ses /\ net' = net \ {m})
        <3>1. PICK r : /\ \A v \in Uav \ {u} : ses'[v] = ses[v]
                       /\ ses[u] # None /\ ses'[u] # None /\ ses'[u].n = ses[u].n
                       /\ net' = (net \ {m}) \cup {r}
                       /\ r.type = "M3" /\ r.port = Port(u)
            BY <1>3, <2>3, M2Effect
        <3>2. \A v \in Uav : Port(v) = Port(u) => v = u
            BY Numbers
        <3>3. \A v \in Uav : /\ ses'[v] # None <=> ses[v] # None
                             /\ ses[v] # None => ses'[v].n = ses[v].n
            BY <3>1
        <3> QED
            BY <2>1, <3>1, <3>2, <3>3 DEF SessionInv
    <2> QED
        BY <2>2, <2>3
<1>4. CASE HandleM3(m, u)
    <2>1. gsSession[u] # None /\ UNCHANGED <<epoch, tid, ses>>
        BY <1>4, M3Effect
    <2>2. CASE gsSession' = gsSession /\ pending' = pending /\ net' = net \ {m}
        BY <2>1, <2>2 DEF SessionInv
    <2>3. CASE ~(gsSession' = gsSession /\ pending' = pending /\ net' = net \ {m})
        <3>1. PICK r : Confirms(u, m, r)
            BY <1>4, <2>3, M3Effect
        <3>2. \A v \in Uav : /\ gsSession'[v] # None <=> gsSession[v] # None
                             /\ gsSession[v] # None => gsSession'[v].n = gsSession[v].n
            BY <2>1, <3>1 DEF Confirms
        <3> QED
            BY <2>1, <3>1, <3>2 DEF SessionInv, Confirms
    <2> QED
        BY <2>2, <2>3
<1>5. CASE HandleM4(m, u)
    <2>1. /\ m \in net /\ m.type = "M4" /\ m.to = u /\ ses[u] # None
          /\ net' = net \ {m} /\ UNCHANGED <<epoch, ses, gsSession>>
          /\ tid' = [tid EXCEPT ![u] = m.tid] \/ tid' = tid
        BY <1>5, M4Effect
    <2>2. m.tid \in Tid /\ m.tid # None
        BY <2>1, Numbers, Absent DEF Types2
    <2>3. tid[u] # None /\ epoch # 0
        BY <2>1 DEF SessionInv
    <2>4. \A v \in Uav : tid'[v] = None <=> tid[v] = None
        BY <2>1, <2>2, <2>3 DEF TypeOK
    <2> QED
        BY <2>1, <2>3, <2>4 DEF SessionInv
<1> QED
    BY <1>1, <1>2, <1>3, <1>4, <1>5

\* A step that sends no M1 and no M4 and leaves the ground station alone.
LEMMA OnceKept ==
    ASSUME OnceInv, gsSession' = gsSession,
           \A x \in net' : x.type \in {"M1", "M4"} => x \in net
    PROVE  OnceInv'
BY DEF OnceInv

LEMMA OnceStep ==
    ASSUME TypeOK, SessionInv, OnceInv, NEW u \in Uav, NEW m,
           \/ StartPhase2(u) \/ HandleM1(m, u) \/ HandleM2(m, u)
           \/ HandleM3(m, u) \/ HandleM4(m, u)
    PROVE  OnceInv'
<1>1. CASE StartPhase2(u)
    <2>1. gsSession' = gsSession
        BY <1>1, RequestEffect
    <2>2. CASE net' = net
        BY <2>1, <2>2, OnceKept
    <2>3. CASE net' # net
        <3>1. PICK r : /\ ses'[u].n = IF ses[u] = None THEN 1 ELSE ses[u].n + 1
                       /\ net' = net \cup {r} /\ r.type = "M1"
                       /\ r.port = Port(u) /\ r.n = ses'[u].n
            BY <1>1, <2>3, RequestEffect
        <3>2. \A k \in Nat : ses[u] # None /\ k <= ses[u].n => k # r.n
            BY <3>1, Numbers
        <3>3. /\ \A x \in net : x.type = "M1" /\ x.port = Port(u) => x.n # r.n
              /\ \A x \in net : x.type = "M4" /\ x.to = u => x.n # r.n
              /\ gsSession[u] # None => gsSession[u].n # r.n
            BY <3>2, Numbers DEF SessionInv, Types2
        <3>4. \A v \in Uav : r.port = Port(v) => v = u
            BY <3>1, Numbers
        <3> QED
            BY <2>1, <3>1, <3>3, <3>4 DEF OnceInv
    <2> QED
        BY <2>2, <2>3
<1>2. CASE HandleM1(m, u)
    <2>1. m \in net /\ m.type = "M1" /\ m.port = Port(u)
        BY <1>2, M1Effect
    <2>2. CASE gsSession' = gsSession /\ net' = net \ {m}
        BY <2>2, OnceKept
    <2>3. CASE ~(gsSession' = gsSession /\ net' = net \ {m})
        <3>1. PICK r : /\ \A v \in Uav \ {u} : gsSession'[v] = gsSession[v]
                       /\ gsSession'[u] # None /\ gsSession'[u].n = m.n
                       /\ net' = (net \ {m}) \cup {r} /\ r.type = "M2" /\ r.to = u
            BY <1>2, <2>3, M1Effect
        <3>2. \A x \in net' : x.type \in {"M1", "M4"} => x \in net /\ x # m
            BY <2>1, <3>1
        <3>3. \A x \in net' : /\ x.type = "M1" /\ x.port = Port(u) => x.n # m.n
                              /\ x.type = "M4" /\ x.to = u => x.n # m.n
            BY <2>1, <3>2 DEF OnceInv
        <3> QED
            BY <3>1, <3>2, <3>3 DEF OnceInv
    <2> QED
        BY <2>2, <2>3
<1>3. CASE HandleM2(m, u)
    <2>1. gsSession' = gsSession
        BY <1>3, M2Effect
    <2>2. \A x \in net' : x.type \in {"M1", "M4"} => x \in net
        BY <1>3, M2Effect
    <2> QED
        BY <2>1, <2>2, OnceKept
<1>4. CASE HandleM3(m, u)
    <2>1. gsSession[u] # None
        BY <1>4, M3Effect
    <2>2. CASE gsSession' = gsSession /\ pending' = pending /\ net' = net \ {m}
        BY <2>2, OnceKept
    <2>3. CASE ~(gsSession' = gsSession /\ pending' = pending /\ net' = net \ {m})
        <3>1. PICK r : Confirms(u, m, r)
            BY <1>4, <2>3, M3Effect
        <3>2. /\ \A x \in net : x.type = "M1" /\ x.port = Port(u) => x.n # r.n
              /\ \A x \in net : x.type = "M4" /\ x.to = u => x.n # r.n
            BY <2>1, <3>1 DEF OnceInv, Confirms
        <3> QED
            BY <2>1, <3>1, <3>2 DEF OnceInv, Confirms
    <2> QED
        BY <2>2, <2>3
<1>5. CASE HandleM4(m, u)
    BY <1>5, M4Effect, OnceKept
<1> QED
    BY <1>1, <1>2, <1>3, <1>4, <1>5

\* What a device has had it keeps, unless it asks anew.
LEMMA AnsweredSame ==
    ASSUME NEW v \in Uav, Answered(v), Same2
    PROVE  Answered(v)'
BY DEF Same2, Answered, Types2

LEMMA AnsweredOther ==
    ASSUME TypeOK, SessionInv, NEW v \in Uav, Answered(v),
           NEW u \in Uav, StartPhase2(u), v # u
    PROVE  Answered(v)'
<1>1. gsSession' = gsSession
    BY RequestEffect
<1>2. CASE ses' = ses /\ net' = net
    BY <1>1, <1>2 DEF Answered
<1>3. CASE ~(ses' = ses /\ net' = net)
    <2>1. PICK r : /\ \A w \in Uav \ {u} : ses'[w] = ses[w]
                   /\ net' = net \cup {r} /\ r.type = "M1" /\ r.port = Port(u)
        BY <1>3, RequestEffect
    <2>2. v # u /\ r.port # Port(v)
        BY <1>3, <2>1, Numbers
    <2> QED
        BY <1>1, <2>1, <2>2 DEF Answered
<1> QED
    BY <1>2, <1>3

LEMMA AnsweredKept ==
    ASSUME TypeOK, SessionInv, OnceInv, NEW v \in Uav, Answered(v), NEW u \in Uav, NEW m,
           HandleM1(m, u) \/ HandleM2(m, u) \/ HandleM3(m, u) \/ HandleM4(m, u)
    PROVE  Answered(v)'
<1>1. CASE HandleM1(m, u)
    <2>1. m \in net /\ m.type = "M1" /\ m.port = Port(u) /\ ses' = ses
        BY <1>1, M1Effect
    <2>2. \A x \in net' : x.type \in {"M1", "M4"} => x \in net
        BY <1>1, M1Effect
    <2>3. gsSession'[v] = gsSession[v] \/ (v = u /\ gsSession'[u].n = m.n)
        BY <1>1, M1Effect
    <2>4. v = u => m.n # ses[v].n
        BY <2>1 DEF Answered
    <2> QED
        BY <2>1, <2>2, <2>3, <2>4 DEF Answered
<1>2. CASE HandleM2(m, u)
    <2>1. gsSession' = gsSession
        BY <1>2, M2Effect
    <2>2. \A x \in net' : x.type \in {"M1", "M4"} => x \in net
        BY <1>2, M2Effect
    <2>3. ses'[v] # None /\ ses'[v].n = ses[v].n
        BY <1>2, M2Effect DEF Answered
    <2> QED
        BY <2>1, <2>2, <2>3 DEF Answered
<1>3. CASE HandleM3(m, u)
    <2>1. ses' = ses /\ gsSession[u] # None
        BY <1>3, M3Effect
    <2>2. CASE gsSession' = gsSession /\ pending' = pending /\ net' = net \ {m}
        BY <2>1, <2>2 DEF Answered
    <2>3. CASE ~(gsSession' = gsSession /\ pending' = pending /\ net' = net \ {m})
        <3>1. PICK r : Confirms(u, m, r)
            BY <1>3, <2>3, M3Effect
        <3>2. v = u => r.n # ses[v].n
            BY <2>1, <3>1 DEF Answered, Confirms
        <3> QED
            BY <2>1, <3>1, <3>2 DEF Answered, Confirms
    <2> QED
        BY <2>2, <2>3
<1>4. CASE HandleM4(m, u)
    BY <1>4, M4Effect DEF Answered
<1> QED
    BY <1>1, <1>2, <1>3, <1>4

-----------------------------------------------------------------------------
(* Timers *)

\* A step that schedules nothing and starts nobody.
Quiet ==
    /\ UNCHANGED <<up, starts, enrollTimer, scheduledTwice, startTimer>>
    /\ \A u \in Uav : peerTimer'[u] => peerTimer[u]

\* What is asked of one device.
DeviceTimers(u) ==
    /\ starts[u] >= 1
    /\ ~up[u] => ~startTimer[u] /\ ~peerTimer[u]
    /\ peerTimer[u] => ~startTimer[u] /\ Answered(u)
    /\ starts[u] = 1 /\ ses[u] # None => ~startTimer[u] /\ ses[u].n = 1

StationTimers ==
    /\ starts[Gs] >= 1
    /\ ~up[Gs] => ~enrollTimer
    /\ starts[Gs] = 1 /\ enrollTimer => epoch = 0

LEMMA TimerParts ==
    /\ TimerInv <=> ~scheduledTwice /\ StationTimers /\ \A u \in Uav : DeviceTimers(u)
    /\ TimerInv' <=> /\ ~scheduledTwice' /\ StationTimers'
                     /\ \A u \in Uav : DeviceTimers(u)'
BY DEF TimerInv, StationTimers, DeviceTimers

\* The requests that a step leaves as they are.
LEMMA TimersKept ==
    ASSUME TimerInv, RoundInv, Quiet, epoch' = epoch,
           \A u \in Uav : /\ ses'[u] # None <=> ses[u] # None
                          /\ ses[u] # None => ses'[u].n = ses[u].n,
           \A u \in Uav : Answered(u) => Answered(u)'
    PROVE  TimerInv' /\ (peers' = peers => RoundInv')
BY DEF TimerInv, RoundInv, Quiet

LEMMA RequestTimers ==
    ASSUME TypeOK, SessionInv, OnceInv, TimerInv, RoundInv,
           NEW u \in Uav, StartPhase2(u)
    PROVE  TimerInv' /\ RoundInv'
<1>1. /\ startTimer[u] /\ startTimer' = [startTimer EXCEPT ![u] = FALSE]
      /\ UNCHANGED <<up, starts, enrollTimer, scheduledTwice, peerTimer, epoch, peers>>
    BY RequestEffect DEF StartPhase2, life, gs, phase3
<1>2. /\ startTimer'[u] = FALSE
      /\ \A v \in Uav \ {u} : startTimer'[v] = startTimer[v]
    BY <1>1 DEF TypeOK
<1>3. \A v \in Uav \ {u} : ses'[v] = ses[v]
    BY RequestEffect
<1>4. \A v \in Uav \ {u} : Answered(v) => Answered(v)'
    BY AnsweredOther
<1>5. ~peerTimer[u]
    BY <1>1 DEF TimerInv
<1>6. starts[u] = 1 => ses[u] = None
    BY <1>1 DEF TimerInv
<1>7. ses'[u] # None /\ ses[u] = None => ses'[u].n = 1
    BY RequestEffect
<1>8. \A v \in Uav : DeviceTimers(v)'
    <2>1. \A v \in Uav : DeviceTimers(v)
        BY TimerParts
    <2>2. ASSUME NEW v \in Uav, v # u PROVE DeviceTimers(v)'
        BY <1>1, <1>2, <1>3, <1>4, <2>1, <2>2 DEF DeviceTimers
    <2>3. DeviceTimers(u)'
        BY <1>1, <1>2, <1>5, <1>6, <1>7, <2>1 DEF DeviceTimers
    <2> QED
        BY <2>2, <2>3
<1>9. ~scheduledTwice' /\ StationTimers'
    BY <1>1 DEF TimerInv, StationTimers
<1>10. RoundInv'
    BY <1>1, <1>2, <1>4 DEF RoundInv
<1> QED
    BY <1>8, <1>9, <1>10, TimerParts

LEMMA AnswerTimers ==
    ASSUME TypeOK, SessionInv, OnceInv, TimerInv, RoundInv,
           NEW u \in Uav, NEW m, HandleM4(m, u)
    PROVE  TimerInv' /\ RoundInv'
<1>1. UNCHANGED <<up, starts, enrollTimer, startTimer, epoch, ses, peers>>
    BY DEF HandleM4, life, gs, phase3
<1>2. \A v \in Uav : Answered(v) => Answered(v)'
    BY AnsweredKept
<1>3. CASE UNCHANGED <<tid, scheduledTwice, peerTimer>>
    BY <1>1, <1>2, <1>3, TimersKept DEF Quiet
<1>4. CASE /\ m.n = ses[u].n
           /\ scheduledTwice' = (scheduledTwice \/ peerTimer[u])
           /\ peerTimer' = [peerTimer EXCEPT ![u] = TRUE]
    <2>1. /\ m \in net /\ m.type = "M4" /\ m.to = u /\ ses[u] # None
          /\ ~startTimer[u] /\ net' = net \ {m} /\ gsSession' = gsSession
        BY M4Effect
    <2>2. ~Answered(u)
        BY <1>4, <2>1 DEF Answered
    <2>3. ~peerTimer[u]
        BY <2>2 DEF TimerInv
    <2>4. Answered(u)'
        BY <1>1, <1>4, <2>1 DEF Answered, OnceInv
    <2>5. up[u]
        BY DEF HandleM4, Arrives
    <2>6. \A v \in Uav : peerTimer'[v] => v = u \/ peerTimer[v]
        BY <1>4 DEF TypeOK
    <2>7. \A v \in Uav : DeviceTimers(v)'
        <3>1. \A v \in Uav : DeviceTimers(v)
            BY TimerParts
        <3> QED
            BY <1>1, <1>2, <2>1, <2>4, <2>5, <2>6, <3>1 DEF DeviceTimers
    <2>8. ~scheduledTwice' /\ StationTimers'
        BY <1>1, <1>4, <2>3 DEF TimerInv, StationTimers
    <2>9. RoundInv'
        BY <1>1, <1>2, <2>2, <2>6 DEF RoundInv
    <2> QED
        BY <2>7, <2>8, <2>9, TimerParts
<1> QED
    BY <1>3, <1>4, M4Effect

LEMMA TimerStep ==
    ASSUME TypeOK, SessionInv, OnceInv, TimerInv, RoundInv, NEW u \in Uav, NEW m,
           \/ StartPhase2(u) \/ HandleM1(m, u) \/ HandleM2(m, u)
           \/ HandleM3(m, u) \/ HandleM4(m, u)
    PROVE  TimerInv' /\ RoundInv'
<1>1. CASE HandleM1(m, u) \/ HandleM2(m, u) \/ HandleM3(m, u)
    <2>1. Quiet /\ peers' = peers
        BY <1>1 DEF Quiet, HandleM1, HandleM2, HandleM3, life, timers, phase3
    <2>2. epoch' = epoch
        BY <1>1 DEF HandleM1, HandleM2, HandleM3, gs
    <2>3. \A v \in Uav : /\ ses'[v] # None <=> ses[v] # None
                         /\ ses[v] # None => ses'[v].n = ses[v].n
        <3>1. CASE HandleM1(m, u) \/ HandleM3(m, u)
            BY <3>1 DEF HandleM1, HandleM3, uav2
        <3>2. CASE HandleM2(m, u)
            BY <3>2, M2Effect
        <3> QED
            BY <1>1, <3>1, <3>2
    <2>4. \A v \in Uav : Answered(v) => Answered(v)'
        BY <1>1, AnsweredKept
    <2> QED
        BY <2>1, <2>2, <2>3, <2>4, TimersKept
<1> QED
    BY <1>1, RequestTimers, AnswerTimers

-----------------------------------------------------------------------------
(* Identities *)

LEMMA KnownStep ==
    ASSUME TypeOK, SessionInv, TimerInv, KnownInv, NEW u \in Uav, NEW m,
           \/ StartPhase2(u) \/ HandleM1(m, u) \/ HandleM2(m, u)
           \/ HandleM3(m, u) \/ HandleM4(m, u)
    PROVE  KnownInv'
<1>1. starts' = starts
    BY DEF StartPhase2, HandleM1, HandleM2, HandleM3, HandleM4, life
<1>2. CASE StartPhase2(u) \/ HandleM1(m, u) \/ HandleM2(m, u)
    <2>1. UNCHANGED <<epoch, pending, tid>>
        BY <1>2, RequestEffect, M1Effect, M2Effect
    <2>2. \A x \in net' : x.type = "M4" => x \in net
        BY <1>2, RequestEffect, M1Effect, M2Effect
    <2> QED
        BY <1>1, <2>1, <2>2 DEF KnownInv
<1>3. CASE HandleM3(m, u)
    <2>1. gsSession[u] # None /\ UNCHANGED <<epoch, tid, ses>>
        BY <1>3, M3Effect
    <2>2. CASE gsSession' = gsSession /\ pending' = pending /\ net' = net \ {m}
        BY <1>1, <2>1, <2>2 DEF KnownInv
    <2>3. CASE ~(gsSession' = gsSession /\ pending' = pending /\ net' = net \ {m})
        <3>1. PICK r : Confirms(u, m, r)
            BY <1>3, <2>3, M3Effect
        <3>2. /\ pending'[u] = [epoch |-> epoch, n |-> gsSession[u].n]
              /\ r.type = "M4" /\ r.to = u /\ r.tid = pending'[u]
              /\ net' = (net \ {m}) \cup {r}
              /\ \A v \in Uav \ {u} : pending'[v] = pending[v]
            BY <3>1 DEF Confirms
        <3>3. starts[u] = 1 => gsSession[u].n = 1
            <4>1. /\ ses[u] # None /\ gsSession[u].n >= 1 /\ gsSession[u].n <= ses[u].n
                  /\ gsSession[u].n \in Nat
                BY <2>1, Numbers DEF SessionInv
            <4>2. starts[u] = 1 => ses[u].n = 1
                BY <4>1 DEF TimerInv
            <4> QED
                BY <4>1, <4>2
        <3>4. starts[u] = 1 => pending'[u] = [epoch |-> epoch, n |-> 1]
            BY <3>2, <3>3
        <3>5. ASSUME starts[u] = 1, starts[Gs] = 1
              PROVE  /\ tid[u] # None => tid[u] \in {[epoch |-> epoch, n |-> 0], pending'[u]}
                     /\ \A x \in net' : x.type = "M4" /\ x.to = u => x.tid = pending'[u]
            <4>1. pending[u] # None => pending[u] = pending'[u]
                BY <3>4, <3>5 DEF KnownInv
            <4>2. \A x \in net : x.type = "M4" => x.tid # None
                BY Numbers, Absent DEF Types2
            <4>3. \A x \in net : x.type = "M4" /\ x.to = u => x.tid = pending'[u]
                BY <3>5, <4>1, <4>2 DEF KnownInv
            <4>4. tid[u] # None => tid[u] \in {[epoch |-> epoch, n |-> 0], pending'[u]}
                BY <3>5, <4>1 DEF KnownInv
            <4> QED
                BY <3>2, <4>3, <4>4
        <3>6. ASSUME NEW v \in Uav, v # u, starts[v] = 1, starts[Gs] = 1
              PROVE  \A x \in net' : x.type = "M4" /\ x.to = v => x.tid = pending'[v]
            BY <3>2, <3>6 DEF KnownInv
        <3> QED
            BY <1>1, <2>1, <3>2, <3>4, <3>5, <3>6 DEF KnownInv
    <2> QED
        BY <2>2, <2>3
<1>4. CASE HandleM4(m, u)
    <2>1. /\ m \in net /\ m.type = "M4" /\ m.to = u /\ net' = net \ {m}
          /\ UNCHANGED <<epoch, pending>>
          /\ tid' = [tid EXCEPT ![u] = m.tid] \/ tid' = tid
        BY <1>4, M4Effect
    <2>2. \A v \in Uav : tid'[v] = tid[v] \/ (v = u /\ tid'[v] = m.tid)
        BY <2>1 DEF TypeOK
    <2> QED
        BY <1>1, <2>1, <2>2 DEF KnownInv
<1> QED
    BY <1>2, <1>3, <1>4

-----------------------------------------------------------------------------
(* Pairs *)

\* What is said of the session of u with v, and of what u sent to v.
SideInv(u, v) ==
    /\ peers[u][v] # None => u # v /\ (peers[u][v].initiator <=> u < v)
    /\ records[u][v] # None <=> peers[u][v] # None
    /\ u < v /\ peers[v][u] # None => peers[u][v] # None
    /\ peers[u][v] # None /\ starts[Driver(u, v)] = 1
       => (peers[u][v].ephemeral <=> ~records[u][v].success)

FlightInv(u, v, m) ==
    m.to = v /\ m.port = Port(u) =>
        /\ m.type = "P1" => u < v /\ peers[u][v] # None
        /\ m.type = "P3" => records[u][v] # None /\ records[u][v].success
        /\ m.type = "P1" /\ starts[u] = 1 => peers[v][u] = None

OneP1(u, v) ==
    \A m1, m2 \in net :
        /\ m1.type = "P1" /\ m1.to = v /\ m1.port = Port(u)
        /\ m2.type = "P1" /\ m2.to = v /\ m2.port = Port(u)
        /\ starts[u] = 1
        => m1 = m2

LEMMA PairParts ==
    /\ PairInv <=> /\ \A u, v \in Uav : SideInv(u, v) /\ OneP1(u, v)
                   /\ \A u, v \in Uav : \A m \in net : FlightInv(u, v, m)
    /\ PairInv' <=> /\ \A u, v \in Uav : SideInv(u, v)' /\ OneP1(u, v)'
                    /\ \A u, v \in Uav : \A m \in net' : FlightInv(u, v, m)'
BY DEF PairInv, SideInv, FlightInv, OneP1

\* A step that is no step of Phase 3; devices may be started by it.
Same3 ==
    /\ UNCHANGED <<peers, records, p3Successes>>
    /\ \A x \in net' : x.type \in Types3 => x \in net
    /\ \A x \in Node : starts'[x] = 1 => starts[x] = 1

LEMMA PairKept ==
    ASSUME PairInv, CountInv, Same3
    PROVE  PairInv' /\ CountInv'
<1>1. \A u, v \in Uav : Driver(u, v) \in Node /\ u \in Node
    BY Nodes DEF Driver
<1>2. PairInv'
    <2>1. \A u, v \in Uav : SideInv(u, v)'
        BY <1>1, PairParts DEF SideInv, Same3, Driver
    <2>2. \A u, v \in Uav : OneP1(u, v)'
        BY <1>1, PairParts DEF OneP1, Same3, Types3
    <2>3. \A u, v \in Uav : \A m \in net' : FlightInv(u, v, m)'
        BY <1>1, PairParts DEF FlightInv, Same3, Types3
    <2> QED
        BY <2>1, <2>2, <2>3, PairParts
<1>3. CountInv'
    <2>1. \A u \in Uav : \A v \in 0 .. u : v \in Node
        BY InetAssumption DEF Uav, Node
    <2>2. \A u \in Uav : Successful(u)' = Successful(u)
        BY DEF Successful, Same3
    <2> QED
        BY <2>1, <2>2 DEF CountInv, Same3
<1> QED
    BY <1>2, <1>3

\* What is reported as a success stays one, and no other becomes one.
SameReports ==
    \A a, b \in Uav :
        (records'[a][b] # None /\ records'[a][b].success)
        <=> (records[a][b] # None /\ records[a][b].success)

LEMMA RecordTypes ==
    ASSUME TypeOK, NEW u \in Uav, NEW v \in Uav
    PROVE  /\ records[u][v] # None => records[u][v].success \in BOOLEAN
           /\ peers[u][v] # None => /\ peers[u][v].ephemeral \in BOOLEAN
                                    /\ peers[u][v].initiator \in BOOLEAN
<1>1. /\ records[u][v] # None => records[u][v] \in PeerRec
      /\ peers[u][v] # None => peers[u][v] \in Session3
    BY DEF TypeOK
<1> QED
    BY <1>1 DEF PeerRec, Session3

\* A record that is found or made anew, on either side.
LEMMA Reports ==
    ASSUME TypeOK, NEW u \in Uav, NEW v \in Uav
    PROVE  /\ InitiatorRec(records[u][v]).success
                  <=> (records[u][v] # None /\ records[u][v].success)
           /\ ResponderRec(records[u][v]).success
                  <=> (records[u][v] # None /\ records[u][v].success)
<1>1. CASE records[u][v] # None /\ records[u][v].success
    BY <1>1, RecordTypes DEF InitiatorRec, ResponderRec
<1>2. CASE ~(records[u][v] # None /\ records[u][v].success)
    BY <1>2, RecordTypes DEF InitiatorRec, ResponderRec
<1> QED
    BY <1>1, <1>2

\* The order of the devices, as Uav has it.
LEMMA Order ==
    ASSUME NEW u \in Uav, NEW v \in Uav
    PROVE  /\ u < v => ~(v < u) /\ u # v /\ Driver(u, v) = u /\ Driver(v, u) = u
           /\ u # v /\ ~(u < v) => v < u
           /\ Port(u) = Port(v) => u = v
BY Nodes, Ports DEF Driver

LEMMA RoundPairs ==
    ASSUME TypeOK, RoundInv, PairInv, NEW u \in Uav, StartPhase3Round(u)
    PROVE  PairInv' /\ SameReports
<1>1. /\ peerTimer[u] /\ net' = net \cup {P1(u, v) : v \in Called(u)}
      /\ starts' = starts
    BY RoundEffect DEF StartPhase3Round, life
<1>2. \A a, b \in Uav : ~(a = u /\ b \in Called(u)) =>
          peers'[a][b] = peers[a][b] /\ records'[a][b] = records[a][b]
    BY RoundEffect
<1>3. \A v \in Called(u) :
          /\ v \in Uav /\ u < v
          /\ P1(u, v).type = "P1" /\ P1(u, v).to = v /\ P1(u, v).port = Port(u)
    BY CalledType
<1>4. ASSUME NEW v \in Called(u)
      PROVE  /\ peers'[u][v] # None
             /\ peers'[u][v].initiator /\ peers'[u][v].ephemeral
             /\ records'[u][v] # None
             /\ records'[u][v].success
                    <=> (records[u][v] # None /\ records[u][v].success)
    <2>1. /\ peers'[u][v] = NewSession(u, v)
          /\ records'[u][v] = InitiatorRec(records[u][v])
        BY RoundEffect
    <2>2. NewSession(u, v) # None
        BY CalledType, Absent
    <2>3. NewSession(u, v).initiator /\ NewSession(u, v).ephemeral
        BY DEF NewSession
    <2>4. records'[u][v] \in PeerRec
        BY <1>3, <2>1 DEF InitiatorRec, PeerRec, TypeOK
    <2>5. records'[u][v].success
              <=> (records[u][v] # None /\ records[u][v].success)
        BY <1>3, <2>1, Reports
    <2> QED
        BY <2>1, <2>2, <2>3, <2>4, <2>5, Absent
<1>5. starts[u] = 1 => \A v \in Called(u) : peers[u][v] = None
    BY <1>1, <1>3 DEF RoundInv
<1>6. SameReports
    BY <1>2, <1>4 DEF SameReports
<1>7. ASSUME NEW a \in Uav, NEW b \in Uav PROVE SideInv(a, b)'
    <2>1. SideInv(a, b)
        BY PairParts
    <2>2. CASE a = u /\ b \in Called(u)
        <3>1. starts[u] = 1 => records[u][b] = None
            BY <1>5, <2>1, <2>2 DEF SideInv
        <3> QED
            BY <1>1, <1>3, <1>4, <2>2, <3>1, Order DEF SideInv
    <2>3. CASE ~(a = u /\ b \in Called(u))
        <3>1. a < b => peers'[b][a] = peers[b][a]
            BY <1>2, <1>3, Order
        <3> QED
            BY <1>1, <1>2, <2>1, <2>3, <3>1 DEF SideInv, Driver
    <2> QED
        BY <2>2, <2>3
<1>8. ASSUME NEW a \in Uav, NEW b \in Uav PROVE OneP1(a, b)'
    <2>1. OneP1(a, b) /\ \A x \in net : FlightInv(a, b, x)
        BY PairParts
    <2>2. CASE a = u /\ b \in Called(u)
        <3>1. starts[u] = 1 =>
                  \A x \in net : ~(x.type = "P1" /\ x.to = b /\ x.port = Port(a))
            BY <1>5, <2>1, <2>2 DEF FlightInv
        <3>2. \A x \in net' \ net : x.to = b => x = P1(u, b)
            BY <1>1, <1>3
        <3> QED
            BY <1>1, <2>2, <3>1, <3>2 DEF OneP1
    <2>3. CASE ~(a = u /\ b \in Called(u))
        <3>1. \A x \in net' \ net : ~(x.to = b /\ x.port = Port(a))
            BY <1>1, <1>3, <2>3, Order
        <3> QED
            BY <1>1, <2>1, <3>1 DEF OneP1
    <2> QED
        BY <2>2, <2>3
<1>9. ASSUME NEW a \in Uav, NEW b \in Uav, NEW x \in net' PROVE FlightInv(a, b, x)'
    <2>1. CASE x \in net
        <3>1. FlightInv(a, b, x)
            BY <2>1, PairParts
        <3>2. peers[a][b] # None => peers'[a][b] # None
            BY <1>2, <1>4
        <3>3. a < b => peers'[b][a] = peers[b][a]
            BY <1>2, <1>3, Order
        <3>4. records[a][b] # None /\ records[a][b].success
              => records'[a][b] # None /\ records'[a][b].success
            BY <1>6 DEF SameReports
        <3> QED
            BY <1>1, <3>1, <3>2, <3>3, <3>4 DEF FlightInv
    <2>2. CASE x \notin net
        <3>1. PICK v \in Called(u) : x = P1(u, v)
            BY <1>1, <2>2
        <3>2. x.port = Port(a) /\ x.to = b => a = u /\ b = v
            BY <1>3, <3>1, Order
        <3>3. starts[u] = 1 => peers[v][u] = None
            BY <1>3, <1>5, PairParts DEF SideInv
        <3>4. peers'[v][u] = peers[v][u]
            BY <1>2, <1>3, Order
        <3> QED
            BY <1>1, <1>3, <1>4, <3>1, <3>2, <3>3, <3>4 DEF FlightInv
    <2> QED
        BY <2>1, <2>2
<1> QED
    BY <1>6, <1>7, <1>8, <1>9, PairParts

LEMMA P1Pairs ==
    ASSUME TypeOK, PairInv, NEW u \in Uav, NEW v \in Uav, NEW m, HandleP1(m, v),
           m.port = Port(u)
    PROVE  PairInv' /\ SameReports
<1>1. m \in net /\ m.type = "P1" /\ m.to = v /\ starts' = starts
    BY P1Effect DEF HandleP1, life
<1>2. u < v /\ peers[u][v] # None /\ (starts[u] = 1 => peers[v][u] = None)
    BY <1>1, PairParts DEF FlightInv
<1>3. ~(v < u) /\ u # v /\ Driver(v, u) = u
    BY <1>2, Order
<1>4. \A x \in net' : x.type \in {"P1", "P3"} => x \in net /\ x # m
    BY <1>1, P1Effect
<1>5. CASE peers' = peers /\ records' = records
    <2>1. SameReports
        BY <1>5 DEF SameReports
    <2>2. \A a, b \in Uav : SideInv(a, b)'
        BY <1>1, <1>5, PairParts DEF SideInv, Driver
    <2>3. \A a, b \in Uav : OneP1(a, b)'
        BY <1>1, <1>4, PairParts DEF OneP1
    <2>4. \A a, b \in Uav : \A x \in net' : FlightInv(a, b, x)'
        BY <1>1, <1>4, <1>5, PairParts DEF FlightInv
    <2> QED
        BY <2>1, <2>2, <2>3, <2>4, PairParts
<1>6. CASE ~(peers' = peers /\ records' = records)
    <2>1. /\ peers'[v][u] # None /\ records'[v][u] # None
          /\ ~peers'[v][u].initiator /\ peers'[v][u].ephemeral
          /\ records'[v][u] = ResponderRec(records[v][u])
        BY <1>6, P1Effect
    <2>2. \A a, b \in Uav : <<a, b>> # <<v, u>> =>
              peers'[a][b] = peers[a][b] /\ records'[a][b] = records[a][b]
        BY <1>6, P1Effect
    <2>3. records'[v][u].success <=> (records[v][u] # None /\ records[v][u].success)
        BY <2>1, Reports
    <2>4. SameReports
        BY <2>1, <2>2, <2>3 DEF SameReports
    <2>5. ASSUME NEW a \in Uav, NEW b \in Uav PROVE SideInv(a, b)'
        <3>1. SideInv(a, b)
            BY PairParts
        <3>2. CASE a = v /\ b = u
            <4>1. starts[u] = 1 => records[v][u] = None
                BY <1>2, <3>1, <3>2 DEF SideInv
            <4> QED
                BY <1>1, <1>3, <2>1, <2>3, <3>2, <4>1 DEF SideInv
        <3>3. CASE a = u /\ b = v
            BY <1>1, <1>2, <1>3, <2>2, <3>1, <3>3 DEF SideInv, Driver
        <3>4. CASE ~(a = v /\ b = u) /\ ~(a = u /\ b = v)
            BY <1>1, <2>2, <3>1, <3>4 DEF SideInv, Driver
        <3> QED
            BY <3>2, <3>3, <3>4
    <2>6. \A a, b \in Uav : OneP1(a, b)'
        BY <1>1, <1>4, PairParts DEF OneP1
    <2>7. ASSUME NEW a \in Uav, NEW b \in Uav, NEW x \in net' PROVE FlightInv(a, b, x)'
        <3> SUFFICES ASSUME x.type \in {"P1", "P3"}, x.to = b, x.port = Port(a)
                     PROVE  FlightInv(a, b, x)'
            BY DEF FlightInv
        <3>1. x \in net /\ x # m
            BY <1>4
        <3>2. FlightInv(a, b, x)
            BY <3>1, PairParts
        <3>3. peers[a][b] # None => peers'[a][b] # None
            BY <2>1, <2>2
        <3>4. records[a][b] # None /\ records[a][b].success
              => records'[a][b] # None /\ records'[a][b].success
            BY <2>4 DEF SameReports
        <3>5. CASE x.type = "P1" /\ a = u /\ b = v
            <4>1. OneP1(u, v)
                BY PairParts
            <4>2. starts[u] # 1
                BY <1>1, <3>1, <3>5, <4>1 DEF OneP1
            <4> QED
                BY <1>1, <3>2, <3>3, <3>4, <3>5, <4>2 DEF FlightInv
        <3>6. CASE ~(a = u /\ b = v)
            <4>1. peers'[b][a] = peers[b][a]
                BY <2>2, <3>6
            <4> QED
                BY <1>1, <3>2, <3>3, <3>4, <4>1 DEF FlightInv
        <3>7. CASE x.type # "P1"
            BY <1>1, <3>2, <3>4, <3>7 DEF FlightInv
        <3> QED
            BY <3>5, <3>6, <3>7
    <2> QED
        BY <2>4, <2>5, <2>6, <2>7, PairParts
<1> QED
    BY <1>5, <1>6

\* u completes its session with v, as the answer to a P2 or to a P3.
LEMMA CompletePairs ==
    ASSUME TypeOK, PairInv, NEW u \in Uav, NEW v \in Uav, NEW k \in Nat,
           peers[u][v] # None, Complete(u, v, k), starts' = starts,
           \A x \in net' : \/ x \in net
                           \/ x.type = "P3" /\ x.to = v /\ x.port = Port(u)
    PROVE  PairInv'
<1>1. records[u][v] # None
    BY DEF PairInv
<1> Completed(u, v)
    BY <1>1, CompleteEffect
<1>2. /\ peers'[u][v] # None /\ records'[u][v] # None
      /\ peers'[u][v].initiator = peers[u][v].initiator
      /\ peers'[u][v].ephemeral = FALSE /\ records'[u][v].success = TRUE
    BY DEF Completed
<1>3. \A a, b \in Uav : <<a, b>> # <<u, v>> =>
          peers'[a][b] = peers[a][b] /\ records'[a][b] = records[a][b]
    BY DEF Completed
<1>4. \A a, b \in Uav : (peers'[a][b] # None) <=> (peers[a][b] # None)
    BY <1>2, <1>3
<1>5. \A a, b \in Uav : records[a][b] # None /\ records[a][b].success
          => records'[a][b] # None /\ records'[a][b].success
    BY <1>2, <1>3
<1>6. ASSUME NEW a \in Uav, NEW b \in Uav PROVE SideInv(a, b)'
    <2>1. SideInv(a, b)
        BY PairParts
    <2>2. CASE a = u /\ b = v
        BY <1>1, <1>2, <1>4, <2>1, <2>2 DEF SideInv
    <2>3. CASE ~(a = u /\ b = v)
        BY <1>3, <1>4, <2>1, <2>3 DEF SideInv, Driver
    <2> QED
        BY <2>2, <2>3
<1>7. \A a, b \in Uav : OneP1(a, b)'
    BY PairParts DEF OneP1
<1>8. ASSUME NEW a \in Uav, NEW b \in Uav, NEW x \in net' PROVE FlightInv(a, b, x)'
    <2>1. CASE x \in net
        <3>1. FlightInv(a, b, x)
            BY <2>1, PairParts
        <3> QED
            BY <1>4, <1>5, <3>1 DEF FlightInv
    <2>2. CASE x.type = "P3" /\ x.to = v /\ x.port = Port(u)
        <3>1. x.port = Port(a) => a = u
            BY <2>2, Order
        <3> QED
            BY <1>2, <2>2, <3>1 DEF FlightInv
    <2> QED
        BY <2>1, <2>2
<1> QED
    BY <1>6, <1>7, <1>8, PairParts

-----------------------------------------------------------------------------
(* What is counted and what is reported *)

LEMMA SameCount ==
    ASSUME CountInv, SameReports, UNCHANGED <<starts, p3Successes>>
    PROVE  CountInv'
<1>1. \A u \in Uav : Successful(u)' = Successful(u)
    BY DEF Successful, SameReports
<1> QED
    BY <1>1 DEF CountInv

LEMMA CompleteCount ==
    ASSUME TypeOK, PairInv, CountInv, NEW u \in Uav, NEW v \in Uav, NEW k \in Nat,
           peers[u][v] # None, peers[u][v].ephemeral, Complete(u, v, k),
           starts' = starts
    PROVE  CountInv'
<1>1. records[u][v] # None /\ SideInv(u, v)
    BY PairParts DEF SideInv
<1>2. /\ p3Successes' = [p3Successes EXCEPT ![u] = @ + 1]
      /\ peers'[u][v] # None /\ records'[u][v] # None
      /\ records'[u][v].success = TRUE
      /\ \A a, b \in Uav : <<a, b>> # <<u, v>> =>
             peers'[a][b] = peers[a][b] /\ records'[a][b] = records[a][b]
    <2>1. Completed(u, v)
        BY <1>1, CompleteEffect
    <2> QED
        BY <2>1 DEF Completed
<1>3. ASSUME NEW a \in Uav, a # u, \A b \in 0 .. a : starts'[b] = 1
      PROVE  p3Successes'[a] = Cardinality(Successful(a))'
    <2>1. Successful(a)' = Successful(a)
        BY <1>2, <1>3 DEF Successful
    <2>2. p3Successes'[a] = p3Successes[a]
        BY <1>2, <1>3 DEF TypeOK
    <2> QED
        BY <1>3, <2>1, <2>2 DEF CountInv
<1>4. ASSUME \A b \in 0 .. u : starts'[b] = 1
      PROVE  p3Successes'[u] = Cardinality(Successful(u))'
    <2>1. Driver(u, v) \in 0 .. u
        BY <1>1, Nodes DEF Driver, Uav, SideInv
    <2>2. ~records[u][v].success
        BY <1>1, <1>4, <2>1 DEF SideInv
    <2>3. Successful(u)' = Successful(u) \cup {v} /\ v \notin Successful(u)
        BY <1>2, <2>2 DEF Successful
    <2>4. IsFiniteSet(Successful(u))
        BY UavFinite, FS_Subset DEF Successful
    <2>5. Cardinality(Successful(u) \cup {v}) = Cardinality(Successful(u)) + 1
        BY <2>3, <2>4, FS_AddElement
    <2>6. p3Successes[u] = Cardinality(Successful(u))
        BY <1>4 DEF CountInv
    <2>7. p3Successes'[u] = p3Successes[u] + 1
        BY <1>2 DEF TypeOK
    <2> QED
        BY <2>3, <2>5, <2>6, <2>7
<1> QED
    BY <1>3, <1>4 DEF CountInv

LEMMA SameShared ==
    ASSUME ResponderSuccessIsShared, SameReports
    PROVE  ResponderSuccessIsShared'
BY DEF ResponderSuccessIsShared, SameReports

\* An initiator completes at any time, a responder only after it.
LEMMA CompleteShared ==
    ASSUME TypeOK, PairInv, ResponderSuccessIsShared,
           NEW u \in Uav, NEW v \in Uav, NEW k \in Nat,
           peers[u][v] # None, Complete(u, v, k),
           v < u => records[v][u] # None /\ records[v][u].success
    PROVE  ResponderSuccessIsShared'
<1>1. records[u][v] # None
    BY DEF PairInv
<1>2. /\ peers'[u][v] # None /\ records'[u][v] # None
      /\ records'[u][v].success = TRUE
      /\ \A a, b \in Uav : <<a, b>> # <<u, v>> =>
             peers'[a][b] = peers[a][b] /\ records'[a][b] = records[a][b]
    <2>1. Completed(u, v)
        BY <1>1, CompleteEffect
    <2> QED
        BY <2>1 DEF Completed
<1>3. v < u => records'[v][u] # None /\ records'[v][u].success
    <2>1. v < u => v # u
        BY Order
    <2> QED
        BY <1>2, <2>1
<1>4. ASSUME NEW a \in Uav, NEW b \in Uav,
             a < b, records'[b][a] # None, records'[b][a].success
      PROVE  records'[a][b] # None /\ records'[a][b].success
    <2>1. CASE b = u /\ a = v
        BY <1>3, <1>4, <2>1
    <2>2. CASE ~(b = u /\ a = v)
        <3>1. records'[b][a] = records[b][a]
            BY <1>2, <2>2
        <3>2. records[a][b] # None /\ records[a][b].success
            BY <1>4, <3>1 DEF ResponderSuccessIsShared
        <3> QED
            BY <1>2, <3>2
    <2> QED
        BY <2>1, <2>2
<1> QED
    BY <1>4 DEF ResponderSuccessIsShared

-----------------------------------------------------------------------------
(* The steps of Phase 3 *)

LEMMA PeersStep ==
    ASSUME TypeOK, RoundInv, PairInv, CountInv, ResponderSuccessIsShared,
           NEW u \in Uav, NEW m,
           \/ StartPhase3Round(u)
           \/ HandleP1(m, u) \/ HandleP2(m, u) \/ HandleP3(m, u)
    PROVE  PairInv' /\ CountInv' /\ ResponderSuccessIsShared'
<1>1. starts' = starts
    BY DEF StartPhase3Round, HandleP1, HandleP2, HandleP3, life
<1>2. CASE StartPhase3Round(u)
    <2>1. p3Successes' = p3Successes
        BY <1>2 DEF StartPhase3Round
    <2> QED
        BY <1>1, <1>2, <2>1, RoundPairs, SameCount, SameShared
<1>3. CASE HandleP1(m, u)
    <2>1. PICK v \in Uav : m.port = Port(v)
        BY <1>3, Senders
    <2>2. PairInv' /\ SameReports
        BY <1>3, <2>1, P1Pairs
    <2>3. p3Successes' = p3Successes
        BY <1>3 DEF HandleP1
    <2> QED
        BY <1>1, <2>2, <2>3, SameCount, SameShared
<1>4. CASE UNCHANGED <<peers, records, p3Successes>>
           /\ \A x \in net' : x \in net
    BY <1>1, <1>4, PairKept DEF Same3, SameReports, ResponderSuccessIsShared
<1>5. CASE HandleP2(m, u)
    <2>1. PICK v \in Uav : m.port = Port(v)
        BY <1>5, Senders
    <2>2. CASE UNCHANGED <<peers, records, p3Successes>> /\ net' = net \ {m}
        BY <1>4, <2>2
    <2>3. CASE /\ peers[u][v] # None
               /\ peers[u][v].initiator /\ peers[u][v].ephemeral
               /\ Complete(u, v, m.n2)
               /\ \E r \in Message3 :
                      /\ net' = (net \ {m}) \cup {r}
                      /\ r.type = "P3" /\ r.to = v /\ r.port = Port(u)
        <3>1. m.n2 \in Nat
            BY <1>5, <2>1, P2Effect
        <3>2. u < v
            BY <2>3 DEF PairInv
        <3>3. ~(v < u)
            BY <3>2, Order
        <3>4. PairInv'
            BY <1>1, <2>3, <3>1, CompletePairs
        <3>5. CountInv'
            BY <1>1, <2>3, <3>1, CompleteCount
        <3>6. ResponderSuccessIsShared'
            BY <2>3, <3>1, <3>3, CompleteShared
        <3> QED
            BY <3>4, <3>5, <3>6
    <2> QED
        BY <1>5, <2>1, <2>2, <2>3, P2Effect
<1>6. CASE HandleP3(m, u)
    <2>1. PICK v \in Uav : m.port = Port(v)
        BY <1>6, Senders
    <2>2. /\ m \in net /\ m.type = "P3" /\ m.to = u /\ m.n1 \in Nat
          /\ net' = net \ {m}
        BY <1>6, <2>1, P3Effect
    <2>3. CASE UNCHANGED <<peers, records, p3Successes>>
        BY <1>4, <2>2, <2>3
    <2>4. CASE /\ peers[u][v] # None
               /\ ~peers[u][v].initiator /\ peers[u][v].ephemeral
               /\ Complete(u, v, m.n1)
        <3>1. records[v][u] # None /\ records[v][u].success
            BY <2>1, <2>2 DEF PairInv
        <3>2. PairInv'
            BY <1>1, <2>2, <2>4, CompletePairs
        <3>3. CountInv'
            BY <1>1, <2>2, <2>4, CompleteCount
        <3>4. ResponderSuccessIsShared'
            BY <2>2, <2>4, <3>1, CompleteShared
        <3> QED
            BY <3>2, <3>3, <3>4
    <2>5. \/ /\ peers[u][v] # None
             /\ ~peers[u][v].initiator /\ peers[u][v].ephemeral
             /\ Complete(u, v, m.n1)
          \/ UNCHANGED <<peers, creds, records, p3Successes>>
        BY <1>6, <2>1, P3Effect
    <2> QED
        BY <2>3, <2>4, <2>5
<1> QED
    BY <1>2, <1>3, <1>5, <1>6

LEMMA KnownKept ==
    ASSUME KnownInv, Same2, \A x \in Node : starts'[x] = 1 => starts[x] = 1
    PROVE  KnownInv'
<1>1. \A u \in Uav : u \in Node
    BY Nodes
<1> QED
    BY <1>1, Nodes DEF KnownInv, Same2, Types2

LEMMA Phase3Quiet ==
    ASSUME TypeOK, NEW u \in Uav, NEW m,
           \/ StartPhase3Round(u)
           \/ HandleP1(m, u) \/ HandleP2(m, u) \/ HandleP3(m, u)
    PROVE  Same2 /\ Quiet
<1>1. "P1" \notin Types2 /\ "P2" \notin Types2 /\ "P3" \notin Types2
    BY DEF Types2
<1>2. CASE StartPhase3Round(u)
    <2>1. Quiet
        BY <1>2 DEF Quiet, StartPhase3Round, life, TypeOK
    <2>2. \A x \in net' : x.type \in Types2 => x \in net
        BY <1>1, <1>2, RoundEffect, CalledType
    <2> QED
        BY <1>2, <2>1, <2>2 DEF Same2, StartPhase3Round, gs, uav2
<1>3. CASE HandleP1(m, u)
    <2>1. PICK v \in Uav : m.port = Port(v)
        BY <1>3, Senders
    <2>2. \A x \in net' : x.type \in Types2 => x \in net
        BY <1>1, <1>3, <2>1, P1Effect
    <2> QED
        BY <1>3, <2>2 DEF Same2, Quiet, HandleP1, life, timers, gs, uav2
<1>4. CASE HandleP2(m, u)
    <2>1. PICK v \in Uav : m.port = Port(v)
        BY <1>4, Senders
    <2>2. \A x \in net' : x.type \in Types2 => x \in net
        BY <1>1, <1>4, <2>1, P2Effect
    <2> QED
        BY <1>4, <2>2 DEF Same2, Quiet, HandleP2, life, timers, gs
<1>5. CASE HandleP3(m, u)
    <2>1. net' \subseteq net
        BY <1>5 DEF HandleP3, Take
    <2> QED
        BY <1>5, <2>1 DEF Same2, Quiet, HandleP3, life, timers, gs
<1> QED
    BY <1>2, <1>3, <1>4, <1>5

\* Phase 3 adds to a device's sessions in its round, and as a responder.
LEMMA Phase3Round ==
    ASSUME TypeOK, TimerInv, RoundInv, PairInv, NEW u \in Uav, NEW m,
           \/ StartPhase3Round(u)
           \/ HandleP1(m, u) \/ HandleP2(m, u) \/ HandleP3(m, u)
    PROVE  RoundInv'
<1>1. /\ \A v \in Uav : Answered(v) => Answered(v)'
      /\ UNCHANGED <<starts, startTimer>>
      /\ \A v \in Uav : peerTimer'[v] => peerTimer[v]
    BY Phase3Quiet, AnsweredSame DEF Quiet
<1>2. ASSUME \A a, b \in Uav : a < b /\ peers'[a][b] # None => peers[a][b] # None
      PROVE  RoundInv'
    BY <1>1, <1>2 DEF RoundInv
<1>3. CASE StartPhase3Round(u)
    <2>1. /\ peerTimer[u] /\ peerTimer'[u] = FALSE
          /\ ~startTimer[u] /\ Answered(u)
        BY <1>3, RoundEffect DEF TypeOK, TimerInv
    <2>2. \A a, b \in Uav : a # u => peers'[a][b] = peers[a][b]
        BY <1>3, RoundEffect
    <2> QED
        BY <1>1, <2>1, <2>2 DEF RoundInv
<1>4. CASE HandleP1(m, u)
    <2>1. PICK v \in Uav : m.port = Port(v)
        BY <1>4, Senders
    <2>2. m \in net /\ m.type = "P1" /\ m.to = u
        BY <1>4, <2>1, P1Effect
    <2>3. v < u
        BY <2>1, <2>2 DEF PairInv
    <2>4. \A a, b \in Uav : \/ a = u /\ b = v
                            \/ peers'[a][b] = peers[a][b]
        BY <1>4, <2>1, P1Effect
    <2>5. ~(u < v)
        BY <2>3, Order
    <2> QED
        BY <1>2, <2>4, <2>5
<1>5. CASE HandleP2(m, u)
    <2>1. PICK v \in Uav : m.port = Port(v)
        BY <1>5, Senders
    <2>2. \/ /\ peers[u][v] # None
             /\ \E k \in Nat : Complete(u, v, k)
          \/ peers' = peers
        BY <1>5, <2>1, P2Effect
    <2>3. CASE peers[u][v] # None /\ \E k \in Nat : Complete(u, v, k)
        <3>1. records[u][v] # None
            BY <2>3 DEF PairInv
        <3>2. \A a, b \in Uav : <<a, b>> # <<u, v>> =>
                  peers'[a][b] = peers[a][b] /\ records'[a][b] = records[a][b]
            <4>1. Completed(u, v)
                BY <2>3, <3>1, CompleteEffect
            <4> QED
                BY <4>1 DEF Completed
        <3> QED
            BY <1>2, <2>3, <3>2
    <2> QED
        BY <1>2, <2>2, <2>3
<1>6. CASE HandleP3(m, u)
    <2>1. PICK v \in Uav : m.port = Port(v)
        BY <1>6, Senders
    <2>2. \/ /\ peers[u][v] # None
             /\ \E k \in Nat : Complete(u, v, k)
          \/ peers' = peers
        BY <1>6, <2>1, P3Effect
    <2>3. CASE peers[u][v] # None /\ \E k \in Nat : Complete(u, v, k)
        <3>1. records[u][v] # None
            BY <2>3 DEF PairInv
        <3>2. \A a, b \in Uav : <<a, b>> # <<u, v>> =>
                  peers'[a][b] = peers[a][b] /\ records'[a][b] = records[a][b]
            <4>1. Completed(u, v)
                BY <2>3, <3>1, CompleteEffect
            <4> QED
                BY <4>1 DEF Completed
        <3> QED
            BY <1>2, <2>3, <3>2
    <2> QED
        BY <1>2, <2>2, <2>3
<1> QED
    BY <1>3, <1>4, <1>5, <1>6

LEMMA Phase3Timers ==
    ASSUME TypeOK, TimerInv, RoundInv, NEW u \in Uav, NEW m,
           \/ StartPhase3Round(u)
           \/ HandleP1(m, u) \/ HandleP2(m, u) \/ HandleP3(m, u)
    PROVE  TimerInv'
<1>1. Same2 /\ Quiet
    BY Phase3Quiet
<1>2. epoch' = epoch /\ ses' = ses
    BY <1>1 DEF Same2
<1>3. \A v \in Uav : Answered(v) => Answered(v)'
    BY <1>1, AnsweredSame
<1> QED
    BY <1>1, <1>2, <1>3, TimersKept

-----------------------------------------------------------------------------
(* Stops, crashes, starts and enrolments *)

\* Nothing but the lifecycle changes, and those started are not new any more.
LEMMA UndisturbedParts ==
    ASSUME SessionInv, OnceInv, PairInv, CountInv, KnownInv, ResponderSuccessIsShared,
           UNCHANGED <<gs, uav2, phase3, net>>,
           \A x \in Node : starts'[x] = 1 => starts[x] = 1
    PROVE  /\ SessionInv' /\ OnceInv' /\ PairInv' /\ CountInv' /\ KnownInv'
           /\ ResponderSuccessIsShared'
           /\ \A u \in Uav : Answered(u) => Answered(u)'
<1>1. Same2
    BY DEF Same2, gs, uav2
<1>2. Same3
    BY DEF Same3, phase3
<1>3. gsSession' = gsSession /\ net' = net
    BY DEF gs
<1>4. ResponderSuccessIsShared'
    BY <1>2 DEF Same3, ResponderSuccessIsShared
<1> QED
    BY <1>1, <1>2, <1>3, <1>4, SessionKept, OnceKept, PairKept, KnownKept, AnsweredSame

LEMMA DownStep ==
    ASSUME TypeOK, InetInv, NEW x \in Node, GoDown(x)
    PROVE  InetInv'
<1>1. /\ SessionInv /\ OnceInv /\ PairInv /\ CountInv /\ KnownInv
      /\ ResponderSuccessIsShared /\ TimerInv /\ RoundInv
    BY DEF InetInv
<1>2. starts' = starts /\ UNCHANGED <<gs, uav2, phase3, net, scheduledTwice>>
    BY DEF GoDown
<1>3. /\ SessionInv' /\ OnceInv' /\ PairInv' /\ CountInv' /\ KnownInv'
      /\ ResponderSuccessIsShared'
      /\ \A u \in Uav : Answered(u) => Answered(u)'
    BY <1>1, <1>2, UndisturbedParts
<1>4. /\ \A y \in Node : up'[y] = IF y = x THEN FALSE ELSE up[y]
      /\ enrollTimer' => enrollTimer /\ x # Gs
      /\ \A u \in Uav : /\ startTimer'[u] => startTimer[u] /\ x # u
                        /\ peerTimer'[u] => peerTimer[u] /\ x # u
    <2>1. \A y \in Node : up'[y] = IF y = x THEN FALSE ELSE up[y]
        BY DEF GoDown, TypeOK
    <2>2. CASE x = Gs
        <3>1. /\ ~enrollTimer' \/ x # Gs
              /\ UNCHANGED <<startTimer, peerTimer>> /\ enrollTimer' = FALSE
            BY <2>2 DEF GoDown
        <3> QED
            BY <2>1, <2>2, <3>1, Nodes
    <2>3. CASE x # Gs
        <3>1. /\ startTimer' = [startTimer EXCEPT ![x] = FALSE]
              /\ peerTimer' = [peerTimer EXCEPT ![x] = FALSE]
              /\ enrollTimer' = enrollTimer
            BY <2>3 DEF GoDown, Cancel
        <3>2. \A u \in Uav : /\ startTimer'[u] => startTimer[u] /\ x # u
                             /\ peerTimer'[u] => peerTimer[u] /\ x # u
            BY <3>1 DEF TypeOK
        <3> QED
            BY <2>1, <2>3, <3>1, <3>2
    <2> QED
        BY <2>2, <2>3
<1>5. epoch' = epoch /\ ses' = ses /\ peers' = peers
    BY <1>2 DEF gs, uav2, phase3
<1>6. TimerInv'
    <2>1. \A u \in Uav : DeviceTimers(u)'
        BY <1>1, <1>2, <1>3, <1>4, <1>5, TimerParts, Nodes DEF DeviceTimers
    <2>2. ~scheduledTwice' /\ StationTimers'
        BY <1>1, <1>2, <1>4, <1>5, TimerParts, Nodes DEF StationTimers
    <2> QED
        BY <2>1, <2>2, TimerParts
<1>7. RoundInv'
    BY <1>1, <1>2, <1>3, <1>4, <1>5 DEF RoundInv
<1> QED
    BY <1>3, <1>6, <1>7 DEF InetInv

LEMMA StartStep ==
    ASSUME TypeOK, InetInv, NEW x \in Node, Start(x)
    PROVE  InetInv'
<1>1. /\ SessionInv /\ OnceInv /\ PairInv /\ CountInv /\ KnownInv
      /\ ResponderSuccessIsShared /\ TimerInv /\ RoundInv
    BY DEF InetInv
<1>2. ~up[x] /\ UNCHANGED <<gs, uav2, phase3, net, peerTimer>>
    BY DEF Start
<1>3. /\ \A y \in Node : up'[y] = IF y = x THEN TRUE ELSE up[y]
      /\ \A y \in Node : starts'[y] = IF y = x THEN starts[y] + 1 ELSE starts[y]
    BY DEF Start, TypeOK
<1>4. /\ enrollTimer' => enrollTimer \/ x = Gs
      /\ \A u \in Uav : startTimer'[u] => startTimer[u] \/ x = u
    BY Nodes DEF Start, TypeOK
<1>5. \A y \in Node : starts[y] \in Nat /\ starts[y] >= 1
    BY <1>1, Nodes DEF TypeOK, TimerInv
<1>6. /\ starts'[x] > 1
      /\ \A y \in Node : starts'[y] >= 1 /\ (starts'[y] = 1 => starts[y] = 1)
    BY <1>3, <1>5
<1>7. /\ SessionInv' /\ OnceInv' /\ PairInv' /\ CountInv' /\ KnownInv'
      /\ ResponderSuccessIsShared'
      /\ \A u \in Uav : Answered(u) => Answered(u)'
    BY <1>1, <1>2, <1>6, UndisturbedParts
<1>8. epoch' = epoch /\ ses' = ses /\ peers' = peers
    BY <1>2 DEF gs, uav2, phase3
<1>9. ~scheduledTwice'
    <2>1. CASE x = Gs
        BY <1>1, <1>2, <2>1, Nodes DEF Start, TimerInv
    <2>2. CASE x # Gs
        BY <1>1, <1>2, <2>2, Nodes DEF Start, TimerInv
    <2> QED
        BY <2>1, <2>2
<1>10. x \in Uav => ~peerTimer[x]
    BY <1>1, <1>2 DEF TimerInv
<1>11. TimerInv'
    <2>1. \A u \in Uav : DeviceTimers(u)
        BY <1>1, TimerParts
    <2>2. ASSUME NEW u \in Uav PROVE DeviceTimers(u)'
        <3>1. CASE x = u
            <4>1. u \in Node /\ x \in Uav
                BY <3>1, Nodes
            <4>2. up'[u]
                BY <1>3, <3>1, <4>1
            <4>3. ~peerTimer'[u]
                BY <1>2, <1>10, <3>1, <4>1
            <4>4. starts'[u] >= 1 /\ starts'[u] # 1
                BY <1>3, <1>5, <3>1, <4>1
            <4> QED
                BY <4>2, <4>3, <4>4 DEF DeviceTimers
        <3>2. CASE x # u
            <4>1. u \in Node
                BY Nodes
            <4>2. /\ up'[u] = up[u] /\ starts'[u] = starts[u]
                  /\ startTimer'[u] => startTimer[u]
                BY <1>3, <1>4, <3>2, <4>1
            <4>3. peerTimer'[u] = peerTimer[u] /\ ses'[u] = ses[u]
                BY <1>2, <1>8
            <4>4. Answered(u) => Answered(u)'
                BY <1>7
            <4> QED
                BY <2>1, <4>2, <4>3, <4>4 DEF DeviceTimers
        <3> QED
            BY <3>1, <3>2
    <2>3. StationTimers'
        <3>1. StationTimers /\ Gs \in Node
            BY <1>1, TimerParts, Nodes
        <3>2. CASE x = Gs
            <4>1. up'[Gs] /\ starts'[Gs] > 1
                BY <1>3, <1>6, <3>1, <3>2
            <4>2. starts'[Gs] >= 1 /\ starts'[Gs] # 1
                BY <1>6, <3>2, <4>1
            <4> QED
                BY <4>1, <4>2 DEF StationTimers
        <3>3. CASE x # Gs
            <4>1. /\ up'[Gs] = up[Gs] /\ starts'[Gs] = starts[Gs]
                  /\ enrollTimer' => enrollTimer
                BY <1>3, <1>4, <3>1, <3>3
            <4> QED
                BY <1>8, <3>1, <4>1 DEF StationTimers
        <3> QED
            BY <3>2, <3>3
    <2> QED
        BY <1>9, <2>2, <2>3, TimerParts
<1>12. RoundInv'
    <2>1. \A u \in Uav : starts'[u] = 1 => starts[u] = 1 /\ x # u
        BY <1>6, Nodes
    <2> QED
        BY <1>1, <1>2, <1>4, <1>7, <1>8, <2>1 DEF RoundInv
<1> QED
    BY <1>7, <1>11, <1>12 DEF InetInv

LEMMA EnrollStep ==
    ASSUME TypeOK, InetInv, EnrollAll
    PROVE  InetInv'
<1>1. /\ SessionInv /\ OnceInv /\ PairInv /\ CountInv /\ KnownInv
      /\ ResponderSuccessIsShared /\ TimerInv /\ RoundInv
    BY DEF InetInv
<1>2. /\ enrollTimer /\ ~enrollTimer' /\ epoch' = epoch + 1 /\ epoch \in Nat
      /\ UNCHANGED <<up, starts, startTimer, peerTimer, scheduledTwice,
                     gsSession, ses, peers, records, p3Successes, net>>
    BY DEF EnrollAll, life, phase3, TypeOK
<1>3. \A u \in Uav : /\ pending'[u] = None
                     /\ tid'[u] = [epoch |-> epoch + 1, n |-> 0]
    BY DEF EnrollAll
<1>4. [epoch |-> epoch + 1, n |-> 0] # None
    <2>1. [epoch |-> epoch + 1, n |-> 0] \in Tid
        BY <1>2 DEF Tid
    <2> QED
        BY <2>1, Absent
<1>5. epoch' # 0
    BY <1>2
<1>6. SessionInv'
    BY <1>1, <1>2, <1>3, <1>4, <1>5 DEF SessionInv
<1>7. OnceInv'
    BY <1>1, <1>2, OnceKept
<1>8. \A u \in Uav : Answered(u) => Answered(u)'
    BY <1>2 DEF Answered
<1>9. TimerInv' /\ RoundInv'
    BY <1>1, <1>2, <1>8 DEF TimerInv, RoundInv
<1>10. PairInv' /\ CountInv' /\ ResponderSuccessIsShared'
    BY <1>1, <1>2, PairKept DEF Same3, ResponderSuccessIsShared
<1>11. KnownInv'
    <2> SUFFICES ASSUME NEW u \in Uav, starts[Gs] = 1
                 PROVE  /\ tid'[u] \in {[epoch |-> epoch', n |-> 0]}
                        /\ \A m \in net : ~(m.type = "M4" /\ m.to = u)
        BY <1>2, <1>3 DEF KnownInv
    <2>1. epoch = 0
        BY <1>1, <1>2 DEF TimerInv
    <2>2. gsSession[u] = None
        BY <1>1, <2>1 DEF SessionInv
    <2> QED
        BY <1>1, <1>2, <1>3, <2>2 DEF SessionInv
<1> QED
    BY <1>6, <1>7, <1>9, <1>10, <1>11 DEF InetInv

-----------------------------------------------------------------------------
(* The invariant of the applications *)

LEMMA InitInv == Init => InetInv
<1> SUFFICES ASSUME Init PROVE InetInv
    OBVIOUS
<1>1. net = {} /\ starts \in [Node -> {1}]
    BY DEF Init
<1>2. SessionInv /\ OnceInv
    BY DEF Init, SessionInv, OnceInv
<1>3. TimerInv
    BY Nodes DEF Init, TimerInv
<1>4. RoundInv /\ KnownInv
    BY DEF Init, RoundInv, KnownInv
<1>5. PairInv
    BY DEF Init, PairInv
<1>6. ResponderSuccessIsShared
    BY DEF Init, ResponderSuccessIsShared
<1>7. CountInv
    <2>1. \A u \in Uav : Successful(u) = {}
        BY DEF Init, Successful
    <2>2. \A u \in Uav : Cardinality(Successful(u)) = 0
        BY <2>1, FS_EmptySet
    <2> QED
        BY <2>2 DEF Init, CountInv
<1> QED
    BY <1>2, <1>3, <1>4, <1>5, <1>6, <1>7 DEF InetInv

LEMMA Stuttering ==
    ASSUME TypeOK, InetInv, UNCHANGED vars
    PROVE  TypeOK' /\ InetInv'
<1>1. UNCHANGED <<gs, uav2, phase3, net, life, timers>>
    BY DEF vars
<1>2. TypeOK'
    BY <1>1 DEF TypeOK, gs, uav2, phase3, life, timers
<1>3. /\ SessionInv /\ OnceInv /\ PairInv /\ CountInv /\ KnownInv
      /\ ResponderSuccessIsShared /\ TimerInv /\ RoundInv
    BY DEF InetInv
<1>4. starts' = starts
    BY <1>1 DEF life
<1>5. /\ SessionInv' /\ OnceInv' /\ PairInv' /\ CountInv' /\ KnownInv'
      /\ ResponderSuccessIsShared'
      /\ \A u \in Uav : Answered(u) => Answered(u)'
    BY <1>1, <1>3, <1>4, UndisturbedParts
<1>6. TimerInv' /\ RoundInv'
    BY <1>1, <1>3, <1>5 DEF TimerInv, RoundInv, gs, uav2, phase3, life, timers
<1> QED
    BY <1>2, <1>5, <1>6 DEF InetInv

LEMMA InvStep ==
    ASSUME TypeOK, InetInv, [Next]_vars
    PROVE  TypeOK' /\ InetInv'
<1>1. /\ SessionInv /\ OnceInv /\ PairInv /\ CountInv /\ KnownInv
      /\ ResponderSuccessIsShared /\ TimerInv /\ RoundInv
    BY DEF InetInv
<1>2. CASE EnrollAll
    BY <1>2, LifeType, EnrollStep
<1>3. CASE \E x \in Node : GoDown(x) \/ Start(x)
    BY <1>3, LifeType, DownStep, StartStep
<1>4. ASSUME NEW u \in Uav, NEW m,
             \/ StartPhase2(u) \/ HandleM1(m, u) \/ HandleM2(m, u)
             \/ HandleM3(m, u) \/ HandleM4(m, u)
      PROVE  TypeOK' /\ InetInv'
    <2>1. Same3 /\ SameReports
        <3>1. UNCHANGED <<peers, records, p3Successes, starts>>
            BY <1>4 DEF StartPhase2, HandleM1, HandleM2, HandleM3, HandleM4,
                        phase3, life
        <3>2. \A x \in net' : x.type \in Types3 => x \in net
            <4>1. "M1" \notin Types3 /\ "M2" \notin Types3 /\ "M3" \notin Types3
                  /\ "M4" \notin Types3
                BY DEF Types3
            <4>2. CASE StartPhase2(u)
                BY <1>1, <4>1, <4>2, RequestEffect
            <4>3. CASE HandleM1(m, u)
                BY <1>1, <4>1, <4>3, M1Effect
            <4>4. CASE HandleM2(m, u)
                BY <1>1, <4>1, <4>4, M2Effect
            <4>5. CASE HandleM3(m, u)
                <5>1. CASE net' = net \ {m}
                    BY <5>1
                <5>2. ASSUME NEW r, Confirms(u, m, r)
                      PROVE  \A x \in net' : x.type \in Types3 => x \in net
                    BY <4>1, <5>2 DEF Confirms
                <5> QED
                    BY <1>1, <4>5, <5>1, <5>2, M3Effect
            <4>6. CASE HandleM4(m, u)
                BY <1>1, <4>6, M4Effect
            <4> QED
                BY <1>4, <4>2, <4>3, <4>4, <4>5, <4>6
        <3> QED
            BY <3>1, <3>2 DEF Same3, SameReports
    <2>2. TypeOK'
        BY <1>1, <1>4, Phase2Type
    <2>3. SessionInv' /\ OnceInv'
        BY <1>1, <1>4, SessionStep, OnceStep
    <2>4. TimerInv' /\ RoundInv'
        BY <1>1, <1>4, TimerStep
    <2>5. KnownInv'
        BY <1>1, <1>4, KnownStep
    <2>6. PairInv' /\ CountInv' /\ ResponderSuccessIsShared'
        BY <1>1, <2>1, PairKept, SameShared
    <2> QED
        BY <2>2, <2>3, <2>4, <2>5, <2>6 DEF InetInv
<1>5. ASSUME NEW u \in Uav, NEW m,
             \/ StartPhase3Round(u)
             \/ HandleP1(m, u) \/ HandleP2(m, u) \/ HandleP3(m, u)
      PROVE  TypeOK' /\ InetInv'
    <2>1. Same2 /\ Quiet
        BY <1>5, Phase3Quiet
    <2>2. gsSession' = gsSession
          /\ \A x \in net' : x.type \in {"M1", "M4"} => x \in net
        BY <2>1 DEF Same2, Types2
    <2>3. SessionInv' /\ OnceInv'
        BY <1>1, <2>1, <2>2, SessionKept, OnceKept
    <2>4. KnownInv'
        BY <1>1, <2>1, KnownKept DEF Quiet
    <2>5. TypeOK' /\ TimerInv' /\ RoundInv'
        BY <1>1, <1>5, Phase3Type, Phase3Timers, Phase3Round
    <2>6. PairInv' /\ CountInv' /\ ResponderSuccessIsShared'
        BY <1>1, <1>5, PeersStep
    <2> QED
        BY <2>3, <2>4, <2>5, <2>6 DEF InetInv
<1>6. CASE UNCHANGED vars
    BY <1>6, Stuttering
<1> QED
    BY <1>2, <1>3, <1>4, <1>5, <1>6 DEF Next

\* The types and the invariant hold after every event of every run.
LEMMA Invariant == Spec => [](TypeOK /\ InetInv)
<1>1. Init => TypeOK /\ InetInv
    BY InitType, InitInv
<1>2. (TypeOK /\ InetInv) /\ [Next]_vars => (TypeOK /\ InetInv)'
    BY InvStep
<1> QED
    BY <1>1, <1>2, PTL DEF Spec

-----------------------------------------------------------------------------
(* The theorems *)

\* Every variable keeps its type, however often the applications are stopped,
\* crashed and started: no handler reads a session that is not there.
THEOREM TypeCorrect == Spec => []TypeOK
BY Invariant, PTL

\* No timer is scheduled while it is: not by handleStartOperation after any
\* stop or crash, nor by the M4 case, whatever M4 arrives when.
THEOREM TimersOnce == Spec => []TimersScheduledOnce
<1>1. InetInv => TimersScheduledOnce
    BY DEF InetInv, TimerInv, TimersScheduledOnce
<1> QED
    BY <1>1, Invariant, PTL

\* inetPhase3Successes is the number of peers a device reports as successful,
\* while the device and the devices that call it were started once.
THEOREM SuccessCount == Spec => []SuccessesMatchRecords
<1>1. InetInv => SuccessesMatchRecords
    BY DEF InetInv, CountInv, Successful, SuccessesMatchRecords
<1> QED
    BY <1>1, Invariant, PTL

\* A responder reports a success only after its initiator, through losses,
\* reorderings and restarts.
THEOREM SharedSuccess == Spec => []ResponderSuccessIsShared
<1>1. InetInv => ResponderSuccessIsShared
    BY DEF InetInv
<1> QED
    BY <1>1, Invariant, PTL

\* While neither it nor the ground station is started again, a device holds
\* an identity the ground station knows, whatever the network loses.
THEOREM LossStrandsNobody == Spec => []LossAloneStrandsNobody
<1>1. ASSUME TypeOK, InetInv PROVE LossAloneStrandsNobody
    <2>1. KnownInv
        BY <1>1 DEF InetInv
    <2> QED
        BY <2>1 DEF KnownInv, LossAloneStrandsNobody, KnownTids, Original
<1> QED
    BY <1>1, Invariant, PTL

-----------------------------------------------------------------------------
(* The credentials that Phase 2 grants *)

\* A session is confirmed once, M4 grants the credentials of all peers to a
\* device whose session is, and nothing else grants any.  One enrolment
\* provisions every device.
GrantInv ==
    /\ \A u \in Uav :
           /\ ses[u] # None => ~(ses[u].ephemeral /\ ses[u].keyed)
           /\ ses[u] = None \/ ~ses[u].keyed => Granted(u) = {}
           /\ Granted(u) \in {{}, Uav \ {u}}
    /\ epoch # 0 => \A u \in Uav : tid[u] # None

Enrolled == {u \in Uav : tid[u] # None}
Asks(u) == IF ses[u] = None THEN 0 ELSE ses[u].n
SameBut(u) == \A v \in Uav \ {u} : ses'[v] = ses[v] /\ Granted(v)' = Granted(v)

\* What a step does to the credentials, for the device u that it is a step of.
Provisions ==
    /\ ses' = ses /\ \A v \in Uav : Granted(v)' = Granted(v)
    /\ \A v \in Uav : tid'[v] # None
Requests(u) ==
    /\ tid[u] # None /\ tid' = tid /\ epoch' = epoch /\ SameBut(u)
    /\ ses'[u] # None /\ ~ses'[u].keyed /\ ses'[u].n = Asks(u) + 1
    /\ Granted(u)' = {}
Keys(u) ==
    /\ tid' = tid /\ epoch' = epoch /\ SameBut(u)
    /\ ses[u] # None /\ ~ses[u].keyed
    /\ ses'[u] # None /\ ses'[u].keyed /\ ~ses'[u].ephemeral
    /\ ses'[u].n = ses[u].n /\ Granted(u)' = Granted(u)
Grants(u) ==
    /\ Enrolled' = Enrolled /\ epoch' = epoch /\ ses' = ses /\ SameBut(u)
    /\ ses[u] # None /\ ses[u].keyed /\ epoch # 0
    /\ Granted(u)' = Uav \ {u}
Idles ==
    /\ Enrolled' = Enrolled /\ epoch' = epoch /\ ses' = ses
    /\ \A v \in Uav : Granted(v)' = Granted(v)

LEMMA CompleteGrants ==
    ASSUME TypeOK, NEW u \in Uav, NEW v \in Uav, NEW n2, Complete(u, v, n2)
    PROVE  \A w \in Uav : Granted(w)' = Granted(w)
<1> DEFINE c == IF creds[u][v] = "none" THEN "empty" ELSE creds[u][v]
<1>1. creds' = [creds EXCEPT ![u][v] = c]
    BY DEF Complete, TypeOK
<1>2. c \in {"none", "empty", "pair"} /\ (c = "pair" <=> creds[u][v] = "pair")
    BY DEF TypeOK
<1>3. creds \in [Uav -> [Uav -> {"none", "empty", "pair"}]]
    BY DEF TypeOK
<1> HIDE DEF c
<1>4. creds'[u][v] = c
      /\ \A a, b \in Uav : <<a, b>> # <<u, v>> => creds'[a][b] = creds[a][b]
    BY <1>1, <1>2, <1>3, Changed
<1>5. \A a, b \in Uav : creds'[a][b] = "pair" <=> creds[a][b] = "pair"
    BY <1>2, <1>4
<1> QED
    BY <1>5 DEF Granted

\* Phase 3 leaves Phase 2 alone.
LEMMA Phase3Idle ==
    ASSUME TypeOK, NEW u \in Uav, NEW m,
           \/ StartPhase3Round(u)
           \/ HandleP1(m, u) \/ HandleP2(m, u) \/ HandleP3(m, u)
    PROVE  Idles
<1>1. CASE StartPhase3Round(u) \/ HandleP1(m, u)
    BY <1>1 DEF StartPhase3Round, HandleP1, gs, uav2, Idles, Enrolled, Granted
<1>2. CASE HandleP2(m, u)
    <2>1. PICK v \in Uav : m.port = Port(v)
        BY <1>2, Senders
    <2>2. creds' = creds \/ \E n2 : Complete(u, v, n2)
        BY <1>2, <2>1, P2Effect
    <2>3. \A w \in Uav : Granted(w)' = Granted(w)
        BY <2>2, CompleteGrants DEF Granted
    <2> QED
        BY <1>2, <2>3 DEF HandleP2, gs, Idles, Enrolled
<1>3. CASE HandleP3(m, u)
    <2>1. PICK v \in Uav : m.port = Port(v)
        BY <1>3, Senders
    <2>2. creds' = creds \/ \E n2 : Complete(u, v, n2)
        BY <1>3, <2>1, P3Effect
    <2>3. \A w \in Uav : Granted(w)' = Granted(w)
        BY <2>2, CompleteGrants DEF Granted
    <2> QED
        BY <1>3, <2>3 DEF HandleP3, gs, Idles, Enrolled
<1> QED
    BY <1>1, <1>2, <1>3

LEMMA EnrollProvisions ==
    ASSUME TypeOK, EnrollAll
    PROVE  Provisions
<1>1. [epoch |-> epoch + 1, n |-> 0] \in Tid
    BY DEF TypeOK, Tid
<1>2. \A v \in Uav : tid'[v] = [epoch |-> epoch + 1, n |-> 0]
    BY DEF EnrollAll
<1>3. ses' = ses /\ creds' = creds
    BY DEF EnrollAll
<1> QED
    BY <1>1, <1>2, <1>3, Absent DEF Provisions, Granted

LEMMA RequestRequests ==
    ASSUME TypeOK, SessionInv, NEW u \in Uav, StartPhase2(u)
    PROVE  Requests(u) \/ Idles
<1> DEFINE n == Asks(u) + 1
           s == [n |-> n, epoch |-> epoch, ephemeral |-> TRUE, keyed |-> FALSE]
<1>1. tid' = tid /\ epoch' = epoch
    BY DEF StartPhase2, gs
<1>2. CASE UNCHANGED <<ses, creds>>
    BY <1>1, <1>2 DEF Idles, Enrolled, Granted
<1>3. CASE Request(u)
    <2>1. n \in Nat /\ epoch \in Nat
        BY Known DEF Asks, Session2, TypeOK
    <2>2. n = Asks(u) + 1 /\ n = IF ses[u] = None THEN 1 ELSE ses[u].n + 1
        BY Known DEF Asks, Session2
    <2> HIDE DEF n
    <2>3. s \in Session2 /\ s # None
        BY <2>1, Absent DEF Session2
    <2>4. /\ tid[u] # None
          /\ ses' = [ses EXCEPT ![u] = s]
          /\ creds' = [creds EXCEPT ![u] = [v \in Uav |-> "none"]]
        BY <1>3, <2>2 DEF Request, Emptied
    <2>5. s.n = n /\ ~s.keyed
        OBVIOUS
    <2> HIDE DEF s
    <2>6. ses'[u] = s /\ \A v \in Uav \ {u} : ses'[v] = ses[v]
        BY <2>4 DEF TypeOK
    <2>7. Granted(u)' = {} /\ \A v \in Uav \ {u} : Granted(v)' = Granted(v)
        BY <2>4 DEF TypeOK, Granted
    <2> QED
        BY <1>1, <2>2, <2>3, <2>4, <2>5, <2>6, <2>7 DEF Requests, SameBut
<1> QED
    BY <1>2, <1>3 DEF StartPhase2

\* M2 confirms the session that is waiting for it.
LEMMA M2Keys ==
    ASSUME TypeOK, SessionInv, GrantInv, NEW u \in Uav, NEW m, HandleM2(m, u)
    PROVE  Keys(u) \/ Idles
<1>1. UNCHANGED <<tid, epoch, creds>>
    BY DEF HandleM2, gs
<1>2. ses[u] # None
    BY DEF HandleM2, Arrives, SessionInv
<1>3. ses' = ses \/ (ses[u].ephemeral /\ ses' = Flag(ses, u))
    BY DEF HandleM2, Flag
<1>4. CASE ses' = ses
    BY <1>1, <1>4 DEF Idles, Enrolled, Granted
<1>5. CASE ses[u].ephemeral /\ ses' = Flag(ses, u)
    <2>1. ses \in [Uav -> Session2 \cup {None}]
        BY DEF TypeOK
    <2>2. /\ \A v \in Uav \ {u} : ses'[v] = ses[v]
          /\ ses'[u] # None /\ ses'[u].n = ses[u].n
          /\ ses'[u].ephemeral = FALSE /\ ses'[u].keyed = TRUE
        <3>1. ses' = Flag(ses, u)
            BY <1>5
        <3> QED
            BY <1>2, <2>1, <3>1, Flagged
    <2>3. ~ses[u].keyed
        BY <1>2, <1>5 DEF GrantInv
    <2>4. \A v \in Uav : Granted(v)' = Granted(v)
        BY <1>1 DEF Granted
    <2> QED
        BY <1>1, <1>2, <2>2, <2>3, <2>4 DEF Keys, SameBut
<1> QED
    BY <1>3, <1>4, <1>5

LEMMA M4Grants ==
    ASSUME TypeOK, SessionInv, NEW u \in Uav, NEW m, HandleM4(m, u)
    PROVE  Grants(u) \/ Idles
<1>1. /\ m \in net /\ m.type = "M4" /\ ses[u] # None
      /\ UNCHANGED <<epoch, ses>>
    BY M4Effect
<1>2. CASE UNCHANGED <<tid, creds>>
    BY <1>1, <1>2 DEF Idles, Enrolled, Granted
<1>3. CASE /\ ses[u].keyed
           /\ tid' = [tid EXCEPT ![u] = m.tid]
           /\ creds' = [creds EXCEPT ![u] =
                  [v \in Uav |-> IF v = u THEN "none" ELSE "pair"]]
    <2>1. m.tid # None
        BY <1>1, Numbers, Absent DEF Types2
    <2>2. tid[u] # None /\ epoch # 0
        BY <1>1 DEF SessionInv
    <2>3. Enrolled' = Enrolled
        BY <1>3, <2>1, <2>2 DEF Enrolled, TypeOK
    <2>4. Granted(u)' = Uav \ {u} /\ \A v \in Uav \ {u} : Granted(v)' = Granted(v)
        BY <1>3 DEF TypeOK, Granted
    <2> QED
        BY <1>1, <1>3, <2>2, <2>3, <2>4 DEF Grants, SameBut
<1> QED
    BY <1>2, <1>3 DEF HandleM4

\* Every step is one of them.
LEMMA GrantViews ==
    ASSUME TypeOK, InetInv, GrantInv, [Next]_vars
    PROVE  \/ Provisions \/ Idles
           \/ \E u \in Uav : Requests(u) \/ Keys(u) \/ Grants(u)
<1>0. SessionInv
    BY DEF InetInv
<1>1. CASE EnrollAll
    BY <1>1, EnrollProvisions
<1>2. CASE \E x \in Node : GoDown(x) \/ Start(x)
    BY <1>2 DEF GoDown, Start, gs, uav2, Idles, Enrolled, Granted
<1>3. ASSUME NEW u \in Uav, NEW m,
             \/ StartPhase3Round(u)
             \/ HandleP1(m, u) \/ HandleP2(m, u) \/ HandleP3(m, u)
      PROVE  Idles
    BY <1>3, Phase3Idle
<1>4. ASSUME NEW u \in Uav, StartPhase2(u)
      PROVE  Requests(u) \/ Idles
    BY <1>0, <1>4, RequestRequests
<1>5. ASSUME NEW u \in Uav, NEW m, HandleM1(m, u) \/ HandleM3(m, u)
      PROVE  Idles
    <2>1. UNCHANGED <<epoch, tid, ses, creds>>
        BY <1>5 DEF HandleM1, HandleM3, uav2
    <2> QED
        BY <2>1 DEF Idles, Enrolled, Granted
<1>6. ASSUME NEW u \in Uav, NEW m, HandleM2(m, u)
      PROVE  Keys(u) \/ Idles
    BY <1>0, <1>6, M2Keys
<1>7. ASSUME NEW u \in Uav, NEW m, HandleM4(m, u)
      PROVE  Grants(u) \/ Idles
    BY <1>0, <1>7, M4Grants
<1>8. CASE UNCHANGED vars
    BY <1>8 DEF vars, gs, uav2, Idles, Enrolled, Granted
<1> QED
    BY <1>1, <1>2, <1>3, <1>4, <1>5, <1>6, <1>7, <1>8 DEF Next

LEMMA GrantStep ==
    ASSUME TypeOK, InetInv, GrantInv, [Next]_vars
    PROVE  GrantInv'
<1>1. CASE Provisions
    BY <1>1 DEF Provisions, GrantInv
<1>2. CASE Idles
    <2>1. \A u \in Uav : tid[u] # None => tid'[u] # None
        BY <1>2 DEF Idles, Enrolled
    <2> QED
        BY <1>2, <2>1 DEF Idles, GrantInv
<1>3. ASSUME NEW u \in Uav, Requests(u) \/ Keys(u)
      PROVE  GrantInv'
    <2>1. SameBut(u) /\ tid' = tid /\ epoch' = epoch
        BY <1>3 DEF Requests, Keys
    <2>2. /\ ses'[u] # None => ~(ses'[u].ephemeral /\ ses'[u].keyed)
          /\ ses'[u] = None \/ ~ses'[u].keyed => Granted(u)' = {}
          /\ Granted(u)' \in {{}, Uav \ {u}}
        BY <1>3 DEF Requests, Keys, GrantInv
    <2> QED
        BY <2>1, <2>2 DEF SameBut, GrantInv
<1>4. ASSUME NEW u \in Uav, Grants(u)
      PROVE  GrantInv'
    <2>1. \A v \in Uav : tid[v] # None => tid'[v] # None
        BY <1>4 DEF Grants, Enrolled
    <2> QED
        BY <1>4, <2>1 DEF Grants, SameBut, GrantInv
<1> QED
    BY <1>1, <1>2, <1>3, <1>4, GrantViews

LEMMA GrantRefines ==
    ASSUME TypeOK, InetInv, GrantInv, [Next]_vars
    PROVE  [Credentials!Next]_(Credentials!vars)
<1>1. CASE Provisions
    <2>1. \A v \in Uav : HowFar(v)' = HowFar(v)
        BY <1>1 DEF Provisions, HowFar
    <2> QED
        BY <1>1, <2>1 DEF Provisions, Credentials!Next, Credentials!Enroll
<1>2. CASE Idles
    <2>1. \A v \in Uav : HowFar(v)' = HowFar(v)
        BY <1>2 DEF Idles, HowFar
    <2> QED
        BY <1>2, <2>1 DEF Idles, Enrolled, Credentials!vars
<1>3. ASSUME NEW u \in Uav, SameBut(u)
      PROVE  \A v \in Uav \ {u} : /\ Asks(v)' = Asks(v) /\ HowFar(v)' = HowFar(v)
                                  /\ Granted(v)' = Granted(v)
    BY <1>3 DEF SameBut, Asks, HowFar
<1>4. ASSUME NEW u \in Uav, Requests(u)
      PROVE  Credentials!Request(u)
    <2>1. /\ Asks(u)' = Asks(u) + 1 /\ HowFar(u)' = "requested"
          /\ Granted(u)' = {} /\ tid' = tid /\ tid[u] # None
        BY <1>4 DEF Requests, Asks, HowFar
    <2>2. \A v \in Uav \ {u} : /\ Asks(v)' = Asks(v) /\ HowFar(v)' = HowFar(v)
                               /\ Granted(v)' = Granted(v)
        BY <1>3, <1>4 DEF Requests
    <2> QED
        BY <2>1, <2>2 DEF Credentials!Request, Asks
<1>5. ASSUME NEW u \in Uav, Keys(u)
      PROVE  Credentials!Confirm(u)
    <2>1. Granted(u) = {}
        BY <1>5 DEF Keys, GrantInv
    <2>2. /\ Asks(u)' = Asks(u) /\ HowFar(u) = "requested"
          /\ HowFar(u)' = "confirmed" /\ Granted(u)' = Granted(u) /\ tid' = tid
        BY <1>5, <2>1 DEF Keys, Asks, HowFar
    <2>3. \A v \in Uav \ {u} : /\ Asks(v)' = Asks(v) /\ HowFar(v)' = HowFar(v)
                               /\ Granted(v)' = Granted(v)
        BY <1>3, <1>5 DEF Keys
    <2> QED
        BY <2>2, <2>3 DEF Credentials!Confirm, Asks
<1>6. ASSUME NEW u \in Uav, Grants(u)
      PROVE  Credentials!Grant(u) \/ UNCHANGED Credentials!vars
    <2>1. /\ ses' = ses /\ ses[u] # None /\ ses[u].keyed
          /\ Granted(u)' = Uav \ {u} /\ Enrolled' = Enrolled
        BY <1>6 DEF Grants
    <2>2. \A v \in Uav \ {u} : HowFar(v)' = HowFar(v) /\ Granted(v)' = Granted(v)
        BY <1>3, <1>6 DEF Grants
    <2>3. CASE Granted(u) = {} /\ Granted(u)' # {}
        <3>1. HowFar(u) = "confirmed" /\ HowFar(u)' = "established"
            BY <2>1, <2>3 DEF HowFar
        <3>2. Granted(u)' \subseteq Enrolled \ {u}
            BY <1>6, <2>1 DEF Grants, GrantInv, Enrolled
        <3> QED
            BY <2>1, <2>2, <3>1, <3>2 DEF Credentials!Grant, Enrolled
    <2>4. CASE Granted(u)' = Granted(u)
        <3>1. HowFar(u)' = HowFar(u)
            BY <2>1, <2>4 DEF HowFar
        <3> QED
            BY <2>1, <2>2, <2>4, <3>1 DEF Credentials!vars, Enrolled
    <2> QED
        BY <2>1, <2>3, <2>4 DEF GrantInv
<1> QED
    BY <1>1, <1>2, <1>4, <1>5, <1>6, GrantViews DEF Credentials!Next

LEMMA InitGrant == Init => GrantInv /\ Credentials!Init
<1> SUFFICES ASSUME Init PROVE GrantInv /\ Credentials!Init
    OBVIOUS
<1>1. \A u \in Uav : ses[u] = None /\ tid[u] = None /\ Granted(u) = {}
    BY DEF Init, Granted
<1>2. \A u \in Uav : HowFar(u) = "none"
    BY <1>1 DEF HowFar
<1>3. epoch = 0
    BY DEF Init
<1> QED
    BY <1>1, <1>2, <1>3 DEF GrantInv, Credentials!Init

\* Whoever is stopped, crashed or started again, and whatever datagram of an
\* earlier request arrives, socketDataArrived grants a device credentials once
\* for its present request, after confirming it, and startPhase2 alone takes
\* them away.
THEOREM CredentialsRefined == Spec => RefinesPeerCredentials
<1>1. Init => GrantInv /\ Credentials!Init
    BY InitGrant
<1>2. TypeOK /\ InetInv /\ GrantInv /\ [Next]_vars => GrantInv'
    BY GrantStep
<1>3. TypeOK /\ InetInv /\ GrantInv /\ [Next]_vars
          => [Credentials!Next]_(Credentials!vars)
    BY GrantRefines
<1> QED
    BY <1>1, <1>2, <1>3, Invariant, PTL
    DEF Spec, RefinesPeerCredentials, Credentials!Spec
=============================================================================
