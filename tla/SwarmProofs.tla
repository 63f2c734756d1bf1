---------------------------- MODULE SwarmProofs ----------------------------
(***************************************************************************)
(* What a simulation run can never show, for any number of devices, any    *)
(* start times, any delay bound and any attack configuration: the types,   *)
(* the agreement of the two records of a pair, the only way an initiator   *)
(* is left waiting, and what the ground station's counters count.          *)
(*                                                                         *)
(* SwarmInv is inductive.  Its parts say which messages can be in flight   *)
(* and where (MessageInv), what the ground station's session with a device *)
(* implies (StationInv), that a device starts its round of handshakes once *)
(* and nothing of a pair precedes it (RoundInv), how far the two ends of a *)
(* pair can be apart (PairInv), and that the M1 of a device is in flight   *)
(* once or offered (CountInv).  Phase 2, the rounds and the interceptor    *)
(* are treated by lemmas about one step each; Invariant puts them together.*)
(***************************************************************************)
EXTENDS Swarm, FiniteSetTheorems, TLAPS

Pair == {p \in Uav \X Uav : p[1] < p[2]}

\* What flies where: each type between its two ends, on the way to its
\* receiver or, where the configuration routes it there, to the interceptor.
MessageInv ==
    \A m \in net :
        /\ m.type \in {"M1", "M3"} => m.from \in Uav /\ m.to = Gs
        /\ m.type \in {"M2", "M4"} => m.from = Gs /\ m.to \in Uav
        /\ m.type \in {"P1", "P3"} => <<m.from, m.to>> \in Pair
        /\ m.type = "P2" => <<m.to, m.from>> \in Pair
        /\ m.at # m.to => \/ mode = "tamper"
                          \/ mode # "none" /\ m.type \in {"M1", "M3"}

\* The ground station and what it counts.
StationInv ==
    /\ \A u \in Uav : /\ session[u] # "none" => u \in offered
                      /\ recordGs[u].success <=> session[u] = "confirmed"
                      /\ record2[u].success => session[u] = "confirmed"
    /\ \A m \in net : m.type = "M4" => session[m.to] = "confirmed"
    /\ successes = Cardinality({u \in Uav : session[u] = "confirmed"})

\* u has started its round of peer handshakes, the only one it ever starts.
RoundStarted(u) == phase2[u] = "established" /\ round[u] = None

RoundInv ==
    /\ \A u \in Uav : round[u] # None => phase2[u] = "established"
    /\ \A u, v \in Uav :
           /\ u < v
           /\ peers[u][v] # "none" \/ record3[u][v] # None \/ InFlight("P1", u, v)
           => RoundStarted(u)

\* The two ends of a pair: the smaller device is the initiator.
PairInv ==
    \A u, v \in Uav :
        /\ record3[u][v] # None => u # v /\ (record3[u][v].initiator <=> u < v)
        /\ peers[u][v] # "none" => record3[u][v] # None
        /\ peers[u][v] = "requested" => u < v
        /\ u < v =>
               /\ InFlight("P3", u, v) \/ (record3[v][u] # None /\ record3[v][u].success)
                  => record3[u][v] # None /\ record3[u][v].success

\* With nobody in the way a device's request is in flight, once, until the
\* ground station has it.
CountInv ==
    mode = "none" =>
        /\ attempts = Cardinality(offered)
        /\ \A u \in Uav : u \in offered <=>
               phase2[u] \notin {"idle", "failed"} /\ ~InFlight("M1", u, Gs)
        /\ \A m1, m2 \in net :
               m1.type = "M1" /\ m2.type = "M1" /\ m1.from = m2.from => m1 = m2
        /\ \A m \in net : m.type = "M1" => phase2[m.from] \notin {"idle", "failed"}

SwarmInv ==
    /\ MessageInv /\ StationInv /\ RoundInv /\ PairInv /\ CountInv
    /\ WaitsOnlyForTheRefused

-----------------------------------------------------------------------------
(* Types *)

Types == {"M1", "M2", "M3", "M4", "P1", "P2", "P3"}
Place == Uav \cup {Gs}

\* What becomes of a message that is handed to the medium.
LEMMA Transmitted ==
    ASSUME TypeOK, NEW type \in Types, NEW from \in Place, NEW to \in Place
    PROVE  LET sent == Transmit(Payload(type, from, to))
           IN  /\ sent \subseteq Message
               /\ sent # {}
               /\ \A m \in sent :
                      /\ m.type = type /\ m.from = from /\ m.to = to
                      /\ m.at # to => \/ mode = "tamper"
                                      \/ mode # "none" /\ type \in {"M1", "M3"}
               /\ mode = "none" => \A m1, m2 \in sent : m1 = m2
<1> DEFINE p == Payload(type, from, to)
           R == Receivers(p)
<1>1. /\ R \subseteq {to, Interceptor} /\ R # {}
      /\ \A a \in R : a # to => \/ mode = "tamper"
                                \/ mode # "none" /\ type \in {"M1", "M3"}
      /\ mode = "none" => R = {to}
    <2>1. CASE mode = "replay" /\ type = "M1" /\ from = Target
        BY <2>1 DEF Receivers, Payload
    <2>2. CASE mode = "gsimpersonate" /\ type \in {"M1", "M3"}
        BY <2>2 DEF Receivers, Payload
    <2>3. CASE mode = "tamper"
        BY <2>3 DEF Receivers, Payload
    <2>4. CASE /\ ~(mode = "replay" /\ type = "M1" /\ from = Target)
               /\ ~(mode = "gsimpersonate" /\ type \in {"M1", "M3"})
               /\ mode # "tamper"
        BY <2>4 DEF Receivers, Payload
    <2> QED
        BY <2>1, <2>2, <2>3, <2>4
<1>2. now + MaxDelay \in Nat
    BY SwarmAssumption DEF TypeOK
<1>3. \A a \in {to, Interceptor} :
          /\ Flight(p, a) \in Message
          /\ Flight(p, a).type = type /\ Flight(p, a).from = from
          /\ Flight(p, a).to = to /\ Flight(p, a).at = a
    BY <1>2 DEF Flight, Payload, Message, Types, Place
<1> HIDE DEF R
<1>4. Transmit(p) = {Flight(p, a) : a \in R}
    BY DEF Transmit, R
<1> QED
    BY <1>1, <1>3, <1>4

\* The fields of a message in flight.
LEMMA MessageType ==
    ASSUME TypeOK, NEW m \in net
    PROVE  /\ m \in Message
           /\ m.type \in Types /\ m.from \in Place /\ m.to \in Place
BY DEF TypeOK, Message, Types, Place

LEMMA NotNone == ASSUME NEW r \in Record3 PROVE r # None
BY SwarmAssumption

LEMMA Reasons ==
    {"none", "FeReproductionFailed", "ReplayedNonce", "MacVerifyFailed",
     "DhFailed", "NoSuchPeer"} \subseteq Abort
BY DEF Abort

\* A handler runs for a message that was in flight.
LEMMA Taken ==
    ASSUME NEW m,
           \/ HandleM1(m) \/ HandleM2(m) \/ HandleM3(m) \/ HandleM4(m)
           \/ HandleP1(m) \/ HandleP2(m) \/ HandleP3(m) \/ Observe(m)
    PROVE  m \in net
BY DEF HandleM1, HandleM2, HandleM3, HandleM4, HandleP1, HandleP2, HandleP3,
       Observe, Arrives

\* An event of a run, with the device or the message it is about.
Step(u, m) ==
    \/ StartPhase2(u) \/ HandleM1(m) \/ HandleM2(m)
    \/ HandleM3(m) \/ HandleM4(m)
    \/ StartPhase3Round(u) \/ HandleP1(m) \/ HandleP2(m) \/ HandleP3(m)
    \/ Observe(m) \/ Tick

LEMMA InitType == Init => TypeOK
<1> SUFFICES ASSUME Init PROVE TypeOK
    OBVIOUS
<1>1. [success |-> FALSE, abort |-> "none"] \in Record2
    BY Reasons DEF Record2
<1> HIDE DEF Abort
<1>2. record2 \in [Uav -> Record2] /\ recordGs \in [Uav -> Record2]
    BY <1>1 DEF Init
<1> QED
    BY <1>2, SwarmAssumption DEF Init, TypeOK

\* A record is changed in one field.
LEMMA ChangedField ==
    ASSUME NEW r \in Record2, NEW a \in Abort
    PROVE  /\ [r EXCEPT !.abort = a] \in Record2
           /\ [r EXCEPT !.abort = a].success = r.success
           /\ [r EXCEPT !.success = TRUE] \in Record2
           /\ [r EXCEPT !.success = TRUE].success
BY DEF Record2

LEMMA SucceedingRecord ==
    ASSUME NEW r \in Record3
    PROVE  /\ [r EXCEPT !.success = TRUE] \in Record3
           /\ [r EXCEPT !.success = TRUE].success
           /\ [r EXCEPT !.success = TRUE].initiator = r.initiator
           /\ [r EXCEPT !.success = TRUE].abort = r.abort
BY DEF Record3

LEMMA AbortedRecord ==
    ASSUME NEW f \in [Uav -> Record2], NEW u \in Uav, NEW a \in Abort,
           NEW g, g = [f EXCEPT ![u].abort = a]
    PROVE  g \in [Uav -> Record2] /\ \A v \in Uav : g[v].success = f[v].success
<1> DEFINE r == [f[u] EXCEPT !.abort = a]
<1>1. r \in Record2 /\ r.success = f[u].success
    BY ChangedField
<1>2. g = [f EXCEPT ![u] = r]
    OBVIOUS
<1> HIDE DEF r
<1> QED
    BY <1>1, <1>2

LEMMA SuccessfulRecord ==
    ASSUME NEW f \in [Uav -> Record2], NEW u \in Uav,
           NEW g, g = [f EXCEPT ![u].success = TRUE]
    PROVE  /\ g \in [Uav -> Record2] /\ g[u].success
           /\ \A v \in Uav \ {u} : g[v] = f[v]
<1> DEFINE r == [f[u] EXCEPT !.success = TRUE]
<1>1. r \in Record2 /\ r.success
    BY Reasons, ChangedField
<1>2. g = [f EXCEPT ![u] = r]
    OBVIOUS
<1> HIDE DEF r
<1> QED
    BY <1>1, <1>2

\* The ends of a message by its type.
LEMMA Ends ==
    ASSUME TypeOK, MessageInv, NEW m \in net
    PROVE  /\ m.type \in {"M1", "M3"} => m.from \in Uav /\ m.to = Gs
           /\ m.type \in {"M2", "M4"} => m.from = Gs /\ m.to \in Uav
           /\ m.type \in {"P1", "P3"} =>
                  m.from \in Uav /\ m.to \in Uav /\ m.from < m.to
           /\ m.type = "P2" => m.from \in Uav /\ m.to \in Uav /\ m.to < m.from
BY DEF MessageInv, Pair

\* What the handlers of Phase 2 do to the two tables of records.
LEMMA RecordSteps ==
    ASSUME TypeOK, MessageInv, NEW u \in Uav, NEW m
    PROVE  /\ StartPhase2(u) \/ HandleM2(m) =>
                  /\ record2' \in [Uav -> Record2]
                  /\ \A v \in Uav : record2'[v].success = record2[v].success
           /\ HandleM1(m) =>
                  /\ recordGs' \in [Uav -> Record2]
                  /\ \A v \in Uav : recordGs'[v].success = recordGs[v].success
           /\ HandleM3(m) =>
                  /\ recordGs' \in [Uav -> Record2]
                  /\ recordGs'[m.from].success
                  /\ \A v \in Uav \ {m.from} : recordGs'[v] = recordGs[v]
           /\ HandleM4(m) =>
                  /\ record2' \in [Uav -> Record2]
                  /\ record2'[m.to].success
                  /\ \A v \in Uav \ {m.to} : record2'[v] = record2[v]
<1>1. record2 \in [Uav -> Record2] /\ recordGs \in [Uav -> Record2]
    BY DEF TypeOK
<1>2. ASSUME StartPhase2(u)
      PROVE  /\ record2' \in [Uav -> Record2]
             /\ \A v \in Uav : record2'[v].success = record2[v].success
    <2>1. \/ UNCHANGED record2
          \/ record2' = [record2 EXCEPT ![u].abort = "FeReproductionFailed"]
        BY <1>2 DEF StartPhase2
    <2>2. "FeReproductionFailed" \in Abort
        BY Reasons
    <2> QED
        BY <1>1, <2>1, <2>2, AbortedRecord
<1>3. ASSUME HandleM2(m)
      PROVE  /\ record2' \in [Uav -> Record2]
             /\ \A v \in Uav : record2'[v].success = record2[v].success
    <2> DEFINE a == IF m.copy # 0 THEN "MacVerifyFailed" ELSE "DhFailed"
    <2>1. m.to \in Uav
        BY <1>3, Ends DEF HandleM2, Arrives
    <2>2. UNCHANGED record2 \/ record2' = [record2 EXCEPT ![m.to].abort = a]
        BY <1>3 DEF HandleM2
    <2>3. a \in Abort
        BY Reasons
    <2> HIDE DEF a
    <2> QED
        BY <1>1, <2>1, <2>2, <2>3, AbortedRecord
<1>4. ASSUME HandleM1(m)
      PROVE  /\ recordGs' \in [Uav -> Record2]
             /\ \A v \in Uav : recordGs'[v].success = recordGs[v].success
    <2>1. m.from \in Uav
        BY <1>4, Ends DEF HandleM1, Arrives
    <2>2. \/ UNCHANGED recordGs
          \/ recordGs' = [recordGs EXCEPT ![m.from].abort = "ReplayedNonce"]
          \/ recordGs' = [recordGs EXCEPT ![m.from].abort = "MacVerifyFailed"]
        BY <1>4 DEF HandleM1, RefuseM1
    <2>3. "ReplayedNonce" \in Abort /\ "MacVerifyFailed" \in Abort
        BY Reasons
    <2> QED
        BY <1>1, <2>1, <2>2, <2>3, AbortedRecord
<1>5. ASSUME HandleM3(m)
      PROVE  /\ recordGs' \in [Uav -> Record2]
             /\ recordGs'[m.from].success
             /\ \A v \in Uav \ {m.from} : recordGs'[v] = recordGs[v]
    <2>1. m.from \in Uav /\ recordGs' = [recordGs EXCEPT ![m.from].success = TRUE]
        BY <1>5, Ends DEF HandleM3, Arrives
    <2> QED
        BY <1>1, <2>1, SuccessfulRecord
<1>6. ASSUME HandleM4(m)
      PROVE  /\ record2' \in [Uav -> Record2]
             /\ record2'[m.to].success
             /\ \A v \in Uav \ {m.to} : record2'[v] = record2[v]
    <2>1. m.to \in Uav /\ record2' = [record2 EXCEPT ![m.to].success = TRUE]
        BY <1>6, Ends DEF HandleM4, Arrives
    <2> QED
        BY <1>1, <2>1, SuccessfulRecord
<1> QED
    BY <1>2, <1>3, <1>4, <1>5, <1>6

LEMMA Phase2Type ==
    ASSUME TypeOK, MessageInv, NEW u \in Uav, NEW m,
           \/ StartPhase2(u) \/ HandleM1(m) \/ HandleM2(m)
           \/ HandleM3(m) \/ HandleM4(m)
    PROVE  TypeOK'
<1>1. CASE StartPhase2(u)
    <2>1. Transmit(Payload("M1", u, Gs)) \subseteq Message
        BY Transmitted DEF Types, Place
    <2>2. net' \subseteq Message
        BY <1>1, <2>1 DEF TypeOK, StartPhase2, Request
    <2>3. record2' \in [Uav -> Record2]
        BY <1>1, RecordSteps
    <2> QED
        BY <1>1, <2>2, <2>3 DEF TypeOK, StartPhase2, fixed, gsVars
<1>2. CASE HandleM1(m)
    <2>1. m.from \in Uav
        BY <1>2, Ends DEF HandleM1, Arrives
    <2>2. Transmit(Payload("M2", Gs, m.from)) \subseteq Message
        BY <2>1, Transmitted DEF Types, Place
    <2>3. net' \subseteq Message
        BY <1>2, <2>2 DEF TypeOK, HandleM1, Take, TakeAndSend
    <2>4. recordGs' \in [Uav -> Record2]
        BY <1>2, RecordSteps
    <2>5. session' \in [Uav -> {"none", "answered", "confirmed"}]
        BY <1>2, <2>1 DEF TypeOK, HandleM1, RefuseM1, OpenSession
    <2> QED
        BY <1>2, <2>1, <2>3, <2>4, <2>5
            DEF TypeOK, HandleM1, OfferNonce, fixed, uavVars
<1>3. CASE HandleM2(m)
    <2>1. m.to \in Uav
        BY <1>3, Ends DEF HandleM2, Arrives
    <2>2. Transmit(Payload("M3", m.to, Gs)) \subseteq Message
        BY <2>1, Transmitted DEF Types, Place
    <2>3. net' \subseteq Message
        BY <1>3, <2>2 DEF TypeOK, HandleM2, Take, TakeAndSend
    <2>4. record2' \in [Uav -> Record2]
        BY <1>3, RecordSteps
    <2> QED
        BY <1>3, <2>3, <2>4 DEF TypeOK, HandleM2, fixed, gsVars
<1>4. CASE HandleM3(m)
    <2>1. m.from \in Uav
        BY <1>4, Ends DEF HandleM3, Arrives
    <2>2. Transmit(Payload("M4", Gs, m.from)) \subseteq Message
        BY <2>1, Transmitted DEF Types, Place
    <2>3. net' \subseteq Message
        BY <1>4, <2>2 DEF TypeOK, HandleM3, TakeAndSend
    <2>4. recordGs' \in [Uav -> Record2]
        BY <1>4, RecordSteps
    <2> QED
        BY <1>4, <2>3, <2>4 DEF TypeOK, HandleM3, fixed, uavVars
<1>5. CASE HandleM4(m)
    <2>1. net' \subseteq Message
        BY <1>5 DEF TypeOK, HandleM4, Take
    <2>2. record2' \in [Uav -> Record2]
        BY <1>5, RecordSteps
    <2>3. RoundTime \in Nat
        BY SwarmAssumption DEF TypeOK, RoundTime
    <2> QED
        BY <1>5, <2>1, <2>2, <2>3 DEF TypeOK, HandleM4, fixed, gsVars
<1> QED
    BY <1>1, <1>2, <1>3, <1>4, <1>5

\* A success is entered in a record that exists.
LEMMA EstablishType ==
    ASSUME TypeOK, NEW u \in Uav, NEW v \in Uav, record3[u][v] # None,
           Establish(u, v)
    PROVE  /\ peers' \in [Uav -> [Uav ->
                  {"none", "requested", "answered", "established"}]]
           /\ record3' \in [Uav -> [Uav -> Record3 \cup {None}]]
           /\ peers'[u][v] = "established"
           /\ record3'[u][v] # None /\ record3'[u][v].success
           /\ record3'[u][v].initiator = record3[u][v].initiator
           /\ record3'[u][v].abort = record3[u][v].abort
           /\ \A a, b \in Uav : a # u \/ b # v =>
                  peers'[a][b] = peers[a][b] /\ record3'[a][b] = record3[a][b]
<1> DEFINE r == [record3[u][v] EXCEPT !.success = TRUE]
<1>1. /\ r \in Record3 /\ r.success
      /\ r.initiator = record3[u][v].initiator
      /\ r.abort = record3[u][v].abort
    <2>1. record3[u][v] \in Record3
        BY DEF TypeOK
    <2> QED
        BY <2>1, SucceedingRecord
<1>2. r # None
    BY <1>1, NotNone
<1>3. record3' = [record3 EXCEPT ![u][v] = r]
    BY DEF Establish, TypeOK
<1>4. /\ record3' \in [Uav -> [Uav -> Record3 \cup {None}]]
      /\ record3'[u][v] = r
      /\ \A a, b \in Uav : a # u \/ b # v => record3'[a][b] = record3[a][b]
    <2> HIDE DEF r
    <2> QED
        BY <1>1, <1>3 DEF TypeOK
<1>5. /\ peers' \in [Uav -> [Uav ->
             {"none", "requested", "answered", "established"}]]
      /\ peers'[u][v] = "established"
      /\ \A a, b \in Uav : a # u \/ b # v => peers'[a][b] = peers[a][b]
    BY DEF Establish, TypeOK
<1> QED
    BY <1>1, <1>2, <1>4, <1>5

\* What starting a round does to the sessions, the records and the messages.
LEMMA RoundStep ==
    ASSUME TypeOK, NEW u \in Uav, StartPhase3Round(u)
    PROVE  /\ peers' \in [Uav -> [Uav ->
                  {"none", "requested", "answered", "established"}]]
           /\ record3' \in [Uav -> [Uav -> Record3 \cup {None}]]
           /\ \A v \in Uav : u < v =>
                  /\ peers'[u][v] = "requested"
                  /\ record3'[u][v] # None
                  /\ record3'[u][v].initiator /\ ~record3'[u][v].success
           /\ \A a, b \in Uav : a # u \/ ~(a < b) =>
                  peers'[a][b] = peers[a][b] /\ record3'[a][b] = record3[a][b]
<1> DEFINE r == [initiator |-> TRUE, success |-> FALSE, abort |-> "none"]
           rows == [v \in Uav |-> IF v \in Driven(u) THEN r ELSE record3[u][v]]
           sessions == [v \in Uav |-> IF v \in Driven(u) THEN "requested"
                                      ELSE peers[u][v]]
<1>1. r \in Record3 /\ r.initiator /\ ~r.success
    BY Reasons DEF Record3
<1>2. r # None
    BY <1>1, NotNone
<1>3. record3' = [record3 EXCEPT ![u] = rows] /\ peers' = [peers EXCEPT ![u] = sessions]
    BY DEF StartPhase3Round, TypeOK
<1> HIDE DEF r
<1>4. \A v \in Uav : v \in Driven(u) <=> u < v
    BY DEF Driven, Uav
<1> QED
    BY <1>1, <1>2, <1>3, <1>4 DEF TypeOK

\* The message set after a round has started.
LEMMA RoundSends ==
    ASSUME TypeOK, NEW u \in Uav, StartPhase3Round(u)
    PROVE  /\ net \subseteq net' /\ net' \subseteq Message
           /\ \A v \in Uav : u < v => \E x \in net' :
                  x.type = "P1" /\ x.from = u /\ x.to = v
           /\ \A x \in net' \ net :
                  /\ x.type = "P1" /\ x.from = u /\ x.to \in Uav /\ u < x.to
                  /\ x.at # x.to => mode = "tamper"
<1>1. net' = net \cup UNION {Transmit(Payload("P1", u, v)) : v \in Driven(u)}
    BY DEF StartPhase3Round
<1>2. \A v \in Driven(u) : v \in Uav /\ u < v
    BY DEF Driven, Uav
<1>3. \A v \in Driven(u) :
          LET sent == Transmit(Payload("P1", u, v))
          IN  /\ sent \subseteq Message /\ sent # {}
              /\ \A x \in sent : /\ x.type = "P1" /\ x.from = u /\ x.to = v
                                 /\ x.at # x.to => mode = "tamper"
    BY <1>2, Transmitted DEF Types, Place
<1>4. \A v \in Uav : u < v => v \in Driven(u)
    BY DEF Driven, Uav
<1> QED
    BY <1>1, <1>2, <1>3, <1>4 DEF TypeOK

\* What answering a P1 does, and refusing it.
LEMMA P1Step ==
    ASSUME TypeOK, NEW v \in Uav, NEW u \in Uav, NEW a \in Abort,
           record3' = RecordP1(v, u, a)
    PROVE  /\ record3' \in [Uav -> [Uav -> Record3 \cup {None}]]
           /\ record3'[v][u] # None /\ record3'[v][u].abort = a
           /\ ~record3'[v][u].initiator /\ ~record3'[v][u].success
           /\ \A x, y \in Uav : x # v \/ y # u => record3'[x][y] = record3[x][y]
<1> DEFINE r == P1Record(a)
<1>1. r \in Record3 /\ ~r.initiator /\ ~r.success /\ r.abort = a
    BY DEF Record3, P1Record
<1>2. r # None
    BY <1>1, NotNone
<1>3. record3' = [record3 EXCEPT ![v][u] = r]
    BY DEF RecordP1
<1> HIDE DEF r
<1> QED
    BY <1>1, <1>2, <1>3 DEF TypeOK

LEMMA AnswerStep ==
    ASSUME TypeOK, NEW v \in Uav, NEW u \in Uav,
           peers' = [peers EXCEPT ![v][u] = "answered"]
    PROVE  /\ peers' \in [Uav -> [Uav ->
                  {"none", "requested", "answered", "established"}]]
           /\ peers'[v][u] = "answered"
           /\ \A x, y \in Uav : x # v \/ y # u => peers'[x][y] = peers[x][y]
BY DEF TypeOK

LEMMA Phase3Type ==
    ASSUME TypeOK, MessageInv, PairInv, NEW u \in Uav, NEW m,
           \/ StartPhase3Round(u) \/ HandleP1(m) \/ HandleP2(m) \/ HandleP3(m)
    PROVE  TypeOK'
<1>1. CASE StartPhase3Round(u)
    <2>1. round' \in [Uav -> Nat \cup {None}]
        BY <1>1 DEF TypeOK, StartPhase3Round
    <2> QED
        BY <1>1, <2>1, RoundStep, RoundSends
            DEF TypeOK, StartPhase3Round, fixed, gsVars
<1>2. CASE HandleP1(m)
    <2>1. m.from \in Uav /\ m.to \in Uav
        BY <1>2, Ends DEF HandleP1, Arrives
    <2>2. Transmit(Payload("P2", m.to, m.from)) \subseteq Message
        BY <2>1, Transmitted DEF Types, Place
    <2>3. net' \subseteq Message
        BY <1>2, <2>2 DEF TypeOK, HandleP1, Take, TakeAndSend
    <2>4. record3' \in [Uav -> [Uav -> Record3 \cup {None}]]
        BY <1>2, <2>1, P1Step, Reasons DEF HandleP1
    <2>5. peers' \in [Uav -> [Uav ->
              {"none", "requested", "answered", "established"}]]
        <3>1. \/ UNCHANGED peers
              \/ peers' = [peers EXCEPT ![m.to][m.from] = "answered"]
            BY <1>2 DEF HandleP1
        <3> QED
            BY <2>1, <3>1, AnswerStep DEF TypeOK
    <2> QED
        BY <1>2, <2>3, <2>4, <2>5 DEF TypeOK, HandleP1, fixed, gsVars
<1>3. CASE HandleP2(m)
    <2>1. m.from \in Uav /\ m.to \in Uav
        BY <1>3, Ends DEF HandleP2, Arrives
    <2>2. record3[m.to][m.from] # None
        BY <1>3, <2>1 DEF HandleP2, PairInv
    <2>3. Transmit(Payload("P3", m.to, m.from)) \subseteq Message
        BY <2>1, Transmitted DEF Types, Place
    <2>4. net' \subseteq Message
        BY <1>3, <2>3 DEF TypeOK, HandleP2, TakeAndSend
    <2>5. Establish(m.to, m.from)
        BY <1>3 DEF HandleP2
    <2> QED
        BY <1>3, <2>1, <2>2, <2>4, <2>5, EstablishType
            DEF TypeOK, HandleP2, fixed, gsVars
<1>4. CASE HandleP3(m)
    <2>1. m.from \in Uav /\ m.to \in Uav
        BY <1>4, Ends DEF HandleP3, Arrives
    <2>2. record3[m.to][m.from] # None
        BY <1>4, <2>1 DEF HandleP3, PairInv
    <2>3. Establish(m.to, m.from) /\ net' \subseteq Message
        BY <1>4 DEF TypeOK, HandleP3, Take
    <2> QED
        BY <1>4, <2>1, <2>2, <2>3, EstablishType
            DEF TypeOK, HandleP3, fixed, gsVars
<1> QED
    BY <1>1, <1>2, <1>3, <1>4

\* The interceptor replaces a message by others of the same two ends, except
\* that it answers a request with any number of M2s; it keeps back only what
\* it alone was sent.
LEMMA ObserveStep ==
    ASSUME TypeOK, MessageInv, NEW m, Observe(m)
    PROVE  /\ mode # "none"
           /\ m.at = Interceptor /\ net' \subseteq Message
           /\ net \ {m} \subseteq net'
           /\ mode # "tamper" => m.type \in {"M1", "M3"}
           /\ mode = "tamper" => \E x \in net' :
                  x.type = m.type /\ x.from = m.from /\ x.to = m.to
           /\ \A x \in net' \ net :
                  /\ x.at = x.to
                  /\ \/ x.type = m.type /\ x.from = m.from /\ x.to = m.to
                     \/ /\ x.type = "M2" /\ x.from = Gs /\ x.to \in Uav
           /\ UNCHANGED <<fixed, now, uavVars, gsVars>>
<1>0. m \in net
    BY Taken
<1>1. m.at = Interceptor /\ m.to \in Place
    BY <1>0, MessageType DEF Observe, Arrives
<1>2. m.at # m.to
    BY <1>1, SwarmAssumption DEF Place
<1>3. mode = "tamper" \/ (mode # "none" /\ m.type \in {"M1", "M3"})
    BY <1>0, <1>2 DEF MessageInv
<1>4. mode \in {"replay", "gsimpersonate", "tamper"}
    BY <1>3, SwarmAssumption DEF TypeOK
<1>5. now + MaxDelay \in Nat
    BY SwarmAssumption DEF TypeOK
<1>6. m \in Message
    BY <1>0 DEF TypeOK
<1>7. \/ /\ mode = "tamper" \/ (m.type = "M1" /\ m.from = Target)
         /\ net' = (net \ {m}) \cup {Flight(p, p.to) : p \in Injected(m)}
      \/ mode # "tamper" /\ net' = net \ {m}
    BY DEF Observe, Take
<1>8. CASE mode # "tamper" /\ net' = net \ {m}
    BY <1>1, <1>3, <1>8 DEF Observe, TypeOK
<1>9. CASE /\ mode = "tamper" \/ (m.type = "M1" /\ m.from = Target)
           /\ net' = (net \ {m}) \cup {Flight(p, p.to) : p \in Injected(m)}
    <2> DEFINE Same(p) == p.type = m.type /\ p.from = m.from /\ p.to = m.to
               Forged(p) == p.type = "M2" /\ p.from = Gs /\ p.to \in Uav
    <2>1. /\ \A p \in Injected(m) :
                 /\ p.type \in Types /\ p.from \in Place /\ p.to \in Place
                 /\ p.copy \in Nat /\ p.intact \in BOOLEAN
                 /\ Same(p) \/ Forged(p)
          /\ mode = "tamper" => \E p \in Injected(m) : Same(p)
        <3>1. CASE mode = "replay"
            BY <1>6, <3>1 DEF Injected, Message, Types, Place
        <3>2. CASE mode = "tamper"
            <4> DEFINE p == [m EXCEPT !.copy = 1, !.intact = FALSE]
            <4>1. /\ p.type = m.type /\ p.from = m.from /\ p.to = m.to
                  /\ p.copy \in Nat /\ p.intact \in BOOLEAN
                BY <1>6 DEF Message
            <4>2. Injected(m) = {p}
                BY <3>2 DEF Injected
            <4> HIDE DEF p
            <4> QED
                BY <1>0, <4>1, <4>2, MessageType
        <3>3. CASE mode = "gsimpersonate"
            <4>1. Target \in Uav
                BY <1>0, <1>9, <3>3, Ends
            <4> DEFINE forged(i) == [Payload("M2", Gs, Target) EXCEPT !.copy = i]
            <4>2. Injected(m) = {forged(i) : i \in 1 .. MaxForged}
                BY <3>3 DEF Injected
            <4>3. \A i \in 1 .. MaxForged :
                      /\ forged(i).type = "M2" /\ forged(i).from = Gs
                      /\ forged(i).to = Target /\ forged(i).copy \in Nat
                      /\ forged(i).intact \in BOOLEAN
                BY SwarmAssumption DEF Payload
            <4> HIDE DEF forged
            <4>4. \A p \in Injected(m) :
                      /\ p.type = "M2" /\ p.from = Gs /\ p.to = Target
                      /\ p.copy \in Nat /\ p.intact \in BOOLEAN
                BY <4>2, <4>3
            <4> QED
                BY <3>3, <4>1, <4>4 DEF Types, Place
        <3> QED
            BY <1>4, <3>1, <3>2, <3>3
    <2>2. \A p \in Injected(m) :
              LET x == Flight(p, p.to)
              IN  /\ x \in Message /\ x.at = x.to
                  /\ Same(p) => Same(x)
                  /\ Forged(p) => Forged(x)
        BY <1>5, <2>1 DEF Flight, Message, Types, Place
    <2> HIDE DEF Same, Forged
    <2>3. /\ net' \subseteq Message
          /\ \A x \in net' \ net : x.at = x.to /\ (Same(x) \/ Forged(x))
          /\ mode = "tamper" => \E x \in net' : Same(x)
        BY <1>9, <2>1, <2>2 DEF TypeOK
    <2>4. UNCHANGED <<fixed, now, uavVars, gsVars>> /\ net \ {m} \subseteq net'
        BY <1>9 DEF Observe
    <2> QED
        BY <1>1, <1>3, <2>3, <2>4 DEF Same, Forged
<1> QED
    BY <1>7, <1>8, <1>9

LEMMA TickType ==
    ASSUME TypeOK, Tick
    PROVE  TypeOK' /\ UNCHANGED <<fixed, uavVars, gsVars, captured, net>>
BY DEF TypeOK, Tick, fixed, uavVars, gsVars

LEMMA ObserveType ==
    ASSUME TypeOK, MessageInv, NEW m, Observe(m)
    PROVE  TypeOK'
<1>1. captured' \in BOOLEAN
    BY DEF Observe, TypeOK
<1> QED
    BY <1>1, ObserveStep DEF TypeOK, fixed, uavVars, gsVars

-----------------------------------------------------------------------------
(* What each step sends *)

\* Whatever is sent by a step is of that type and between those ends.
SendsOnly(type, from, to) ==
    \A x \in net' \ net :
        /\ x.type = type /\ x.from = from /\ x.to = to
        /\ x.at # x.to => \/ mode = "tamper"
                          \/ mode # "none" /\ type \in {"M1", "M3"}

\* And with nobody in the way it is sent once.
SendsOnce == mode = "none" => \A x, y \in net' \ net : x = y

Sends(type, from, to) ==
    /\ SendsOnly(type, from, to) /\ SendsOnce
    /\ \E x \in net' : x.type = type /\ x.from = from /\ x.to = to

LEMMA SendingStep ==
    ASSUME TypeOK, NEW type \in Types, NEW from \in Place, NEW to \in Place,
           NEW rest \in SUBSET net,
           net' = rest \cup Transmit(Payload(type, from, to))
    PROVE  Sends(type, from, to)
BY Transmitted DEF Sends, SendsOnly, SendsOnce

\* A message is taken and answered.
LEMMA ReplyStep ==
    ASSUME TypeOK, NEW type \in Types, NEW from \in Place, NEW to \in Place,
           NEW m \in net,
           TakeAndSend(m, Payload(type, from, to))
    PROVE  /\ net \ {m} \subseteq net' /\ SendsOnly(type, from, to)
           /\ \E x \in net' : x.type = type /\ x.from = from /\ x.to = to
<1>1. net \ {m} \in SUBSET net
    OBVIOUS
<1>2. net' = (net \ {m}) \cup Transmit(Payload(type, from, to))
    BY DEF TakeAndSend
<1>3. Sends(type, from, to)
    BY <1>1, <1>2, SendingStep
<1> QED
    BY <1>2, <1>3 DEF Sends

LEMMA TakeStep ==
    ASSUME NEW m \in net, Take(m), NEW type, NEW from, NEW to
    PROVE  net' = net \ {m} /\ SendsOnly(type, from, to)
BY DEF Take, SendsOnly

LEMMA Sent2 ==
    ASSUME TypeOK, MessageInv, NEW u \in Uav, NEW m
    PROVE  /\ StartPhase2(u) =>
                  /\ net \subseteq net'
                  /\ \/ phase2'[u] = "requested" /\ Sends("M1", u, Gs)
                     \/ phase2'[u] = "failed" /\ net' = net
           /\ HandleM1(m) =>
                  /\ m.from \in Uav /\ net \ {m} \subseteq net'
                  /\ SendsOnly("M2", Gs, m.from)
           /\ HandleM2(m) =>
                  /\ m.to \in Uav /\ net \ {m} \subseteq net'
                  /\ SendsOnly("M3", m.to, Gs)
           /\ HandleM3(m) =>
                  /\ m.from \in Uav /\ net \ {m} \subseteq net'
                  /\ SendsOnly("M4", Gs, m.from)
           /\ HandleM4(m) => m.to \in Uav /\ net' = net \ {m}
<1>1. ASSUME StartPhase2(u)
      PROVE  /\ net \subseteq net'
             /\ \/ phase2'[u] = "requested" /\ Sends("M1", u, Gs)
                \/ phase2'[u] = "failed" /\ net' = net
    <2>1. CASE /\ phase2' = [phase2 EXCEPT ![u] = "requested"]
               /\ net' = net \cup Request(u, TRUE)
        <3>1. net' = net \cup Transmit(Payload("M1", u, Gs))
            BY <2>1 DEF Request
        <3>2. phase2'[u] = "requested"
            BY <2>1 DEF TypeOK
        <3> QED
            BY <3>1, <3>2, SendingStep DEF Types, Place
    <2>2. CASE /\ phase2' = [phase2 EXCEPT ![u] = "failed"]
               /\ net' = net \cup Request(u, FALSE)
        BY <2>2 DEF Request, TypeOK
    <2> QED
        BY <1>1, <2>1, <2>2 DEF StartPhase2
<1>2. ASSUME HandleM1(m)
      PROVE  /\ m.from \in Uav /\ net \ {m} \subseteq net'
             /\ SendsOnly("M2", Gs, m.from)
    <2>1. m \in net /\ m.from \in Uav
        BY <1>2, Taken, Ends DEF HandleM1
    <2>2. Take(m) \/ TakeAndSend(m, Payload("M2", Gs, m.from))
        BY <1>2 DEF HandleM1
    <2>3. "M2" \in Types /\ m.from \in Place /\ m.to \in Place /\ Gs \in Place
        BY <2>1, MessageType DEF Types, Place
    <2> QED
        BY <2>1, <2>2, <2>3, ReplyStep, TakeStep
<1>3. ASSUME HandleM2(m)
      PROVE  /\ m.to \in Uav /\ net \ {m} \subseteq net'
             /\ SendsOnly("M3", m.to, Gs)
    <2>1. m \in net /\ m.to \in Uav
        BY <1>3, Taken, Ends DEF HandleM2
    <2>2. Take(m) \/ TakeAndSend(m, Payload("M3", m.to, Gs))
        BY <1>3 DEF HandleM2
    <2>3. "M3" \in Types /\ m.from \in Place /\ m.to \in Place /\ Gs \in Place
        BY <2>1, MessageType DEF Types, Place
    <2> QED
        BY <2>1, <2>2, <2>3, ReplyStep, TakeStep
<1>4. ASSUME HandleM3(m)
      PROVE  /\ m.from \in Uav /\ net \ {m} \subseteq net'
             /\ SendsOnly("M4", Gs, m.from)
    <2>1. m \in net /\ m.from \in Uav
        BY <1>4, Taken, Ends DEF HandleM3
    <2>2. TakeAndSend(m, Payload("M4", Gs, m.from))
        BY <1>4 DEF HandleM3
    <2>3. "M4" \in Types /\ m.from \in Place /\ Gs \in Place
        BY <2>1, MessageType DEF Types, Place
    <2> QED
        BY <2>1, <2>2, <2>3, ReplyStep
<1>5. HandleM4(m) => m.to \in Uav /\ net' = net \ {m}
    BY Ends DEF HandleM4, Arrives, Take
<1> QED
    BY <1>1, <1>2, <1>3, <1>4, <1>5

LEMMA Sent3 ==
    ASSUME TypeOK, MessageInv, NEW m
    PROVE  /\ HandleP1(m) =>
                  /\ m.from \in Uav /\ m.to \in Uav /\ m.from < m.to
                  /\ net \ {m} \subseteq net'
                  /\ SendsOnly("P2", m.to, m.from)
                  /\ HasCredentials(m.to) => \E x \in net' :
                         x.type = "P2" /\ x.from = m.to /\ x.to = m.from
           /\ HandleP2(m) =>
                  /\ m.from \in Uav /\ m.to \in Uav /\ m.to < m.from
                  /\ net \ {m} \subseteq net'
                  /\ SendsOnly("P3", m.to, m.from)
           /\ HandleP3(m) =>
                  /\ m.from \in Uav /\ m.to \in Uav /\ m.from < m.to
                  /\ net' = net \ {m}
<1>1. ASSUME HandleP1(m)
      PROVE  /\ m.from \in Uav /\ m.to \in Uav /\ m.from < m.to
             /\ net \ {m} \subseteq net'
             /\ SendsOnly("P2", m.to, m.from)
             /\ HasCredentials(m.to) => \E x \in net' :
                    x.type = "P2" /\ x.from = m.to /\ x.to = m.from
    <2>1. m \in net /\ m.from \in Uav /\ m.to \in Uav /\ m.from < m.to
        BY <1>1, Taken, Ends DEF HandleP1
    <2>2. \/ Take(m) /\ ~HasCredentials(m.to)
          \/ TakeAndSend(m, Payload("P2", m.to, m.from))
        BY <1>1 DEF HandleP1
    <2>3. "P2" \in Types /\ m.from \in Place /\ m.to \in Place
        BY <2>1, MessageType DEF Types
    <2> QED
        BY <2>1, <2>2, <2>3, ReplyStep, TakeStep
<1>2. ASSUME HandleP2(m)
      PROVE  /\ m.from \in Uav /\ m.to \in Uav /\ m.to < m.from
             /\ net \ {m} \subseteq net'
             /\ SendsOnly("P3", m.to, m.from)
    <2>1. m \in net /\ m.from \in Uav /\ m.to \in Uav /\ m.to < m.from
        BY <1>2, Taken, Ends DEF HandleP2
    <2>2. TakeAndSend(m, Payload("P3", m.to, m.from))
        BY <1>2 DEF HandleP2
    <2>3. "P3" \in Types /\ m.from \in Place /\ m.to \in Place
        BY <2>1, MessageType DEF Types
    <2> QED
        BY <2>1, <2>2, <2>3, ReplyStep
<1>3. ASSUME HandleP3(m)
      PROVE  /\ m.from \in Uav /\ m.to \in Uav /\ m.from < m.to
             /\ net' = net \ {m}
    BY <1>3, Ends DEF HandleP3, Arrives, Take
<1> QED
    BY <1>1, <1>2, <1>3

-----------------------------------------------------------------------------
(* Messages *)

FitEnds(type, from, to) ==
    /\ type \in {"M1", "M3"} => from \in Uav /\ to = Gs
    /\ type \in {"M2", "M4"} => from = Gs /\ to \in Uav
    /\ type \in {"P1", "P3"} => <<from, to>> \in Pair
    /\ type = "P2" => <<to, from>> \in Pair

LEMMA MessagesKept ==
    ASSUME MessageInv, mode' = mode, NEW type, NEW from, NEW to,
           FitEnds(type, from, to), SendsOnly(type, from, to)
    PROVE  MessageInv'
BY DEF MessageInv, FitEnds, SendsOnly

LEMMA MessageStep ==
    ASSUME TypeOK, MessageInv, NEW u \in Uav, NEW m, Step(u, m)
    PROVE  MessageInv' /\ mode' = mode
<1>1. mode' = mode
    BY DEF Step, StartPhase2, HandleM1, HandleM2, HandleM3, HandleM4,
           StartPhase3Round, HandleP1, HandleP2, HandleP3, Observe, Tick, fixed
<1>2. CASE net' \subseteq net
    BY <1>1, <1>2 DEF MessageInv
<1>3. CASE StartPhase2(u)
    BY <1>1, <1>2, <1>3, Sent2, MessagesKept DEF FitEnds, Sends
<1>4. CASE HandleM1(m)
    <2>1. FitEnds("M2", Gs, m.from)
        BY <1>4, Sent2 DEF FitEnds
    <2> QED
        BY <1>1, <1>4, <2>1, Sent2, MessagesKept
<1>5. CASE HandleM2(m)
    <2>1. FitEnds("M3", m.to, Gs)
        BY <1>5, Sent2 DEF FitEnds
    <2> QED
        BY <1>1, <1>5, <2>1, Sent2, MessagesKept
<1>6. CASE HandleM3(m)
    <2>1. FitEnds("M4", Gs, m.from)
        BY <1>6, Sent2 DEF FitEnds
    <2> QED
        BY <1>1, <1>6, <2>1, Sent2, MessagesKept
<1>7. CASE HandleM4(m)
    BY <1>2, <1>7, Sent2
<1>8. CASE StartPhase3Round(u)
    <2>1. \A x \in net' \ net :
              /\ x.type = "P1" /\ <<x.from, x.to>> \in Pair
              /\ x.at # x.to => mode = "tamper"
        BY <1>8, RoundSends DEF Pair
    <2> QED
        BY <1>1, <2>1 DEF MessageInv
<1>9. CASE HandleP1(m)
    <2>1. FitEnds("P2", m.to, m.from)
        BY <1>9, Sent3 DEF FitEnds, Pair
    <2> QED
        BY <1>1, <1>9, <2>1, Sent3, MessagesKept
<1>10. CASE HandleP2(m)
    <2>1. FitEnds("P3", m.to, m.from)
        BY <1>10, Sent3 DEF FitEnds, Pair
    <2> QED
        BY <1>1, <1>10, <2>1, Sent3, MessagesKept
<1>11. CASE HandleP3(m)
    BY <1>2, <1>11, Sent3
<1>12. CASE Observe(m)
    BY <1>1, <1>12, Taken, ObserveStep DEF MessageInv
<1>13. CASE Tick
    BY <1>2, <1>13 DEF Tick
<1> QED
    BY <1>3, <1>4, <1>5, <1>6, <1>7, <1>8, <1>9, <1>10, <1>11, <1>12, <1>13 DEF Step

-----------------------------------------------------------------------------
(* The ground station and its counters *)

Confirmed == {u \in Uav : session[u] = "confirmed"}

LEMMA UavFinite == IsFiniteSet(Uav) /\ Cardinality(Uav) = NumUavs
<1>1. 0 \in Int /\ NumUavs - 1 \in Int
    BY SwarmAssumption
<1> QED
    BY <1>1, FS_Interval, SwarmAssumption DEF Uav

LEMMA StationStep ==
    ASSUME TypeOK, MessageInv, StationInv, NEW u \in Uav, NEW m, Step(u, m)
    PROVE  StationInv'
\* A step that neither confirms a session nor completes a device.
<1>1. ASSUME \A x \in net' : x.type = "M4" => x \in net,
             \A v \in Uav : /\ record2'[v].success = record2[v].success
                            /\ recordGs'[v].success = recordGs[v].success,
             offered' = offered, session' = session, successes' = successes
      PROVE  StationInv'
    BY <1>1 DEF StationInv
<1>2. CASE StartPhase2(u)
    <2>1. \A x \in net' : x.type = "M4" => x \in net
        BY <1>2, Sent2 DEF Sends, SendsOnly
    <2> QED
        BY <1>1, <1>2, <2>1, RecordSteps DEF StartPhase2, gsVars
<1>3. CASE HandleM1(m)
    <2>1. m.from \in Uav /\ \A x \in net' : x.type = "M4" => x \in net
        BY <1>3, Sent2 DEF SendsOnly
    <2>2. /\ record2' = record2 /\ successes' = successes
          /\ offered' = offered \cup {m.from}
        BY <1>3 DEF HandleM1, uavVars, OfferNonce
    <2>3. \/ session' = session
          \/ /\ session[m.from] # "confirmed"
             /\ session' = [session EXCEPT ![m.from] = "answered"]
        BY <1>3, <2>1 DEF HandleM1, RefuseM1, OpenSession, StationInv
    <2>4. \A v \in Uav : /\ session'[v] = "confirmed" <=> session[v] = "confirmed"
                         /\ session'[v] # "none" => v \in offered'
        BY <2>1, <2>2, <2>3 DEF TypeOK, StationInv
    <2>5. Confirmed' = Confirmed
        BY <2>4 DEF Confirmed
    <2> QED
        BY <1>3, <2>1, <2>2, <2>4, <2>5, RecordSteps, MessageType, Ends
            DEF StationInv, Confirmed
<1>4. CASE HandleM2(m)
    <2>1. \A x \in net' : x.type = "M4" => x \in net
        BY <1>4, Sent2 DEF SendsOnly
    <2> QED
        BY <1>1, <1>4, <2>1, RecordSteps DEF HandleM2, gsVars
<1>5. CASE HandleM3(m)
    <2>1. /\ m.from \in Uav /\ session[m.from] = "answered"
          /\ session' = [session EXCEPT ![m.from] = "confirmed"]
          /\ record2' = record2 /\ offered' = offered
          /\ successes' = successes + 1
        BY <1>5, Ends DEF HandleM3, Arrives, uavVars
    <2>2. \A x \in net' : x.type = "M4" => x \in net \/ x.to = m.from
        BY <1>5, Sent2 DEF SendsOnly
    <2>3. /\ session'[m.from] = "confirmed"
          /\ \A v \in Uav \ {m.from} : session'[v] = session[v]
        BY <2>1 DEF TypeOK
    <2>4. successes' = Cardinality(Confirmed')
        <3>1. /\ Confirmed' = Confirmed \cup {m.from} /\ m.from \notin Confirmed
            BY <2>1, <2>3 DEF Confirmed
        <3>2. IsFiniteSet(Confirmed)
            BY UavFinite, FS_Subset DEF Confirmed
        <3>3. successes = Cardinality(Confirmed)
            BY DEF StationInv, Confirmed
        <3> QED
            BY <2>1, <3>1, <3>2, <3>3, FS_AddElement
    <2> QED
        BY <1>5, <2>1, <2>2, <2>3, <2>4, RecordSteps DEF StationInv, Confirmed
<1>6. CASE HandleM4(m)
    <2>1. m.to \in Uav /\ session[m.to] = "confirmed" /\ net' \subseteq net
        BY <1>6, Taken, Sent2 DEF HandleM4, StationInv
    <2>2. UNCHANGED gsVars
        BY <1>6 DEF HandleM4
    <2> QED
        BY <1>6, <2>1, <2>2, RecordSteps DEF StationInv, gsVars
<1>7. CASE StartPhase3Round(u)
    <2>1. \A x \in net' : x.type = "M4" => x \in net
        BY <1>7, RoundSends
    <2> QED
        BY <1>1, <1>7, <2>1 DEF StartPhase3Round, gsVars
<1>8. CASE HandleP1(m)
    <2>1. \A x \in net' : x.type = "M4" => x \in net
        BY <1>8, Sent3 DEF SendsOnly
    <2> QED
        BY <1>1, <1>8, <2>1 DEF HandleP1, gsVars
<1>9. CASE HandleP2(m)
    <2>1. \A x \in net' : x.type = "M4" => x \in net
        BY <1>9, Sent3 DEF SendsOnly
    <2> QED
        BY <1>1, <1>9, <2>1 DEF HandleP2, gsVars
<1>10. CASE HandleP3(m)
    <2>1. \A x \in net' : x.type = "M4" => x \in net
        BY <1>10, Sent3
    <2> QED
        BY <1>1, <1>10, <2>1 DEF HandleP3, gsVars
<1>11. CASE Observe(m)
    <2>1. \A x \in net' : x.type = "M4" =>
              \/ x \in net
              \/ m.type = "M4" /\ x.to = m.to
        BY <1>11, ObserveStep
    <2>2. UNCHANGED <<record2, gsVars>>
        BY <1>11, ObserveStep DEF uavVars
    <2> QED
        BY <1>11, <2>1, <2>2, Taken DEF StationInv, gsVars
<1>12. CASE Tick
    BY <1>1, <1>12 DEF Tick, gsVars, uavVars
<1> QED
    BY <1>2, <1>3, <1>4, <1>5, <1>6, <1>7, <1>8, <1>9, <1>10, <1>11, <1>12 DEF Step

-----------------------------------------------------------------------------
(* Rounds and pairs *)

PeerTypes == {"P1", "P2", "P3"}

\* Nothing new of that type, and nothing gone.
Traced(type) == \A x \in net' : x.type = type =>
                    InFlight(type, x.from, x.to)
Kept(type) == \A x \in net : x.type = type =>
                  \E y \in net' : y.type = type /\ y.from = x.from /\ y.to = x.to

LEMMA Tracks ==
    ASSUME TypeOK, MessageInv, NEW u \in Uav, NEW m
    PROVE  /\ (\/ StartPhase2(u) \/ HandleM1(m) \/ HandleM2(m)
               \/ HandleM3(m) \/ HandleM4(m) \/ Observe(m) \/ Tick) =>
                  /\ \A t \in PeerTypes : Traced(t) /\ Kept(t)
                  /\ peers' = peers /\ record3' = record3
           /\ StartPhase3Round(u) =>
                  /\ Traced("P2") /\ Traced("P3")
                  /\ \A t \in PeerTypes : Kept(t)
           /\ HandleP1(m) => /\ Traced("P1") /\ Traced("P3")
                             /\ Kept("P2") /\ Kept("P3")
           /\ HandleP2(m) => /\ Traced("P1") /\ Traced("P2")
                             /\ Kept("P1") /\ Kept("P3")
           /\ HandleP3(m) => /\ \A t \in PeerTypes : Traced(t)
                             /\ Kept("P1") /\ Kept("P2")
<1>1. ASSUME StartPhase2(u)
      PROVE  /\ \A t \in PeerTypes : Traced(t) /\ Kept(t)
             /\ peers' = peers /\ record3' = record3
    <2>1. peers' = peers /\ record3' = record3
        BY <1>1 DEF StartPhase2
    <2> QED
        BY <1>1, <2>1, Sent2
            DEF Sends, SendsOnly, Traced, Kept, PeerTypes, InFlight
<1>2. ASSUME HandleM1(m) \/ HandleM2(m) \/ HandleM3(m) \/ HandleM4(m)
      PROVE  /\ \A t \in PeerTypes : Traced(t) /\ Kept(t)
             /\ peers' = peers /\ record3' = record3
    <2>1. peers' = peers /\ record3' = record3 /\ m.type \notin PeerTypes
        BY <1>2 DEF HandleM1, HandleM2, HandleM3, HandleM4, uavVars, PeerTypes
    <2>2. \A x \in net' \ net : x.type \notin PeerTypes
        BY <1>2, Sent2 DEF SendsOnly, PeerTypes
    <2>3. net \ {m} \subseteq net'
        BY <1>2, Sent2
    <2> QED
        BY <2>1, <2>2, <2>3 DEF Traced, Kept, InFlight
<1>3. ASSUME Observe(m)
      PROVE  /\ \A t \in PeerTypes : Traced(t) /\ Kept(t)
             /\ peers' = peers /\ record3' = record3
    <2>1. peers' = peers /\ record3' = record3
        BY <1>3, ObserveStep DEF uavVars
    <2>2. /\ net \ {m} \subseteq net'
          /\ m.type \in PeerTypes => \E x \in net' :
                 x.type = m.type /\ x.from = m.from /\ x.to = m.to
          /\ \A x \in net' \ net :
                 \/ x.type = m.type /\ x.from = m.from /\ x.to = m.to
                 \/ x.type \notin PeerTypes
        BY <1>3, ObserveStep DEF PeerTypes
    <2> QED
        BY <1>3, <2>1, <2>2, Taken DEF Traced, Kept, InFlight
<1>4. ASSUME Tick
      PROVE  /\ \A t \in PeerTypes : Traced(t) /\ Kept(t)
             /\ peers' = peers /\ record3' = record3
    BY <1>4 DEF Tick, uavVars, Traced, Kept, InFlight
<1>5. ASSUME StartPhase3Round(u)
      PROVE  /\ Traced("P2") /\ Traced("P3")
             /\ \A t \in PeerTypes : Kept(t)
    BY <1>5, RoundSends DEF Traced, Kept, InFlight
<1>6. ASSUME HandleP1(m)
      PROVE  Traced("P1") /\ Traced("P3") /\ Kept("P2") /\ Kept("P3")
    <2>1. m.type = "P1"
        BY <1>6 DEF HandleP1
    <2> QED
        BY <1>6, <2>1, Sent3 DEF SendsOnly, Traced, Kept, InFlight
<1>7. ASSUME HandleP2(m)
      PROVE  Traced("P1") /\ Traced("P2") /\ Kept("P1") /\ Kept("P3")
    <2>1. m.type = "P2"
        BY <1>7 DEF HandleP2
    <2> QED
        BY <1>7, <2>1, Sent3 DEF SendsOnly, Traced, Kept, InFlight
<1>8. ASSUME HandleP3(m)
      PROVE  (\A t \in PeerTypes : Traced(t)) /\ Kept("P1") /\ Kept("P2")
    <2>1. m.type = "P3"
        BY <1>8 DEF HandleP3
    <2> QED
        BY <1>8, <2>1, Sent3 DEF Traced, Kept, InFlight
<1> QED
    BY <1>1, <1>2, <1>3, <1>4, <1>5, <1>6, <1>7, <1>8

\* Before and after: InFlight of the types that a step does not send or take.
LEMMA FlightTraced ==
    ASSUME NEW type, Traced(type), NEW u, NEW v, InFlight(type, u, v)'
    PROVE  InFlight(type, u, v)
BY DEF Traced, InFlight

LEMMA FlightKept ==
    ASSUME NEW type, Kept(type), NEW u, NEW v, InFlight(type, u, v)
    PROVE  InFlight(type, u, v)'
BY DEF Kept, InFlight

\* u has begun a handshake with v.
Begun(u, v) == peers[u][v] # "none" \/ record3[u][v] # None \/ InFlight("P1", u, v)

LEMMA NobodyBegins ==
    ASSUME TypeOK, MessageInv, NEW u \in Uav, NEW m,
           \/ StartPhase2(u) \/ HandleM1(m) \/ HandleM2(m)
           \/ HandleM3(m) \/ HandleM4(m) \/ Observe(m) \/ Tick
    PROVE  \A a, b \in Uav : Begun(a, b)' => Begun(a, b)
<1>1. Traced("P1") /\ peers' = peers /\ record3' = record3
    <2>1. "P1" \in PeerTypes
        BY DEF PeerTypes
    <2>2. /\ \A t \in PeerTypes : Traced(t)
          /\ peers' = peers /\ record3' = record3
        BY Tracks
    <2> QED
        BY <2>1, <2>2
<1> QED
    BY <1>1, FlightTraced DEF Begun

LEMMA RoundInvStep ==
    ASSUME TypeOK, MessageInv, RoundInv, PairInv, NEW u \in Uav, NEW m, Step(u, m)
    PROVE  RoundInv'
\* A step that starts no handshake, and touches no device that is in its round.
<1>1. ASSUME \A a, b \in Uav : a < b /\ Begun(a, b)' => Begun(a, b),
             \A a \in Uav : RoundStarted(a) => RoundStarted(a)',
             \A a \in Uav : round'[a] # None => phase2'[a] = "established"
      PROVE  RoundInv'
    BY <1>1 DEF RoundInv, Begun
<1>3. CASE StartPhase2(u)
    <2>1. \A a, b \in Uav : Begun(a, b)' => Begun(a, b)
        BY <1>3, NobodyBegins
    <2>2. /\ round' = round /\ phase2[u] = "idle"
          /\ \A a \in Uav \ {u} : phase2'[a] = phase2[a]
        BY <1>3 DEF StartPhase2, TypeOK
    <2> QED
        BY <1>1, <2>1, <2>2 DEF RoundInv, RoundStarted
<1>4. CASE HandleM1(m) \/ HandleM3(m) \/ Observe(m) \/ Tick
    <2>1. \A a, b \in Uav : Begun(a, b)' => Begun(a, b)
        BY <1>4, NobodyBegins
    <2>2. round' = round /\ phase2' = phase2
        BY <1>4 DEF HandleM1, HandleM3, Observe, Tick, uavVars
    <2> QED
        BY <1>1, <2>1, <2>2 DEF RoundInv, RoundStarted
<1>5. CASE HandleM2(m)
    <2>1. \A a, b \in Uav : Begun(a, b)' => Begun(a, b)
        BY <1>5, NobodyBegins
    <2>2. /\ round' = round
          /\ \/ phase2' = phase2
             \/ /\ phase2[m.to] = "requested"
                /\ \A a \in Uav \ {m.to} : phase2'[a] = phase2[a]
        BY <1>5 DEF HandleM2, TypeOK
    <2> QED
        BY <1>1, <2>1, <2>2 DEF RoundInv, RoundStarted
<1>6. CASE HandleM4(m)
    <2>1. \A a, b \in Uav : Begun(a, b)' => Begun(a, b)
        BY <1>6, NobodyBegins
    <2>2. /\ phase2[m.to] = "confirmed" /\ phase2'[m.to] = "established"
          /\ \A a \in Uav \ {m.to} : phase2'[a] = phase2[a] /\ round'[a] = round[a]
        <3>1. /\ m.to \in Uav /\ phase2[m.to] = "confirmed"
              /\ phase2' = [phase2 EXCEPT ![m.to] = "established"]
              /\ round' = [round EXCEPT ![m.to] = RoundTime]
            BY <1>6, Sent2 DEF HandleM4
        <3> QED
            BY <3>1 DEF TypeOK
    <2> QED
        BY <1>1, <2>1, <2>2 DEF RoundInv, RoundStarted
<1>7. CASE StartPhase3Round(u)
    <2>1. /\ phase2' = phase2 /\ round[u] # None /\ round'[u] = None
          /\ \A a \in Uav \ {u} : round'[a] = round[a]
        BY <1>7, SwarmAssumption DEF StartPhase3Round, TypeOK
    <2>2. \A a, b \in Uav : a < b /\ a # u => (Begun(a, b)' => Begun(a, b))
        <3> SUFFICES ASSUME NEW a \in Uav, NEW b \in Uav, a < b, a # u,
                            Begun(a, b)'
                     PROVE  Begun(a, b)
            OBVIOUS
        <3>1. InFlight("P1", a, b)' => InFlight("P1", a, b)
            BY <1>7, RoundSends DEF InFlight
        <3> QED
            BY <1>7, <3>1, RoundStep DEF Begun
    <2>3. RoundStarted(u)'
        BY <2>1 DEF RoundStarted, RoundInv
    <2> QED
        BY <2>1, <2>2, <2>3 DEF RoundInv, RoundStarted, Begun
<1>8. CASE HandleP1(m)
    <2>1. m.from \in Uav /\ m.to \in Uav /\ m.from < m.to
        BY <1>8, Sent3
    <2>2. \A a, b \in Uav : a # m.to \/ b # m.from =>
              peers'[a][b] = peers[a][b] /\ record3'[a][b] = record3[a][b]
        BY <1>8, <2>1, AnswerStep, P1Step, Reasons DEF HandleP1
    <2>3. \A a, b \in Uav : a < b => a # m.to \/ b # m.from
        BY <2>1 DEF Uav
    <2>4. \A a, b \in Uav : a < b /\ Begun(a, b)' => Begun(a, b)
        BY <1>8, <2>2, <2>3, Tracks, FlightTraced DEF Begun
    <2>5. round' = round /\ phase2' = phase2
        BY <1>8 DEF HandleP1
    <2> QED
        BY <1>1, <2>4, <2>5 DEF RoundInv, RoundStarted
<1>9. CASE HandleP2(m) \/ HandleP3(m)
    <2>1. m.from \in Uav /\ m.to \in Uav
        BY <1>9, Sent3
    <2>2. Establish(m.to, m.from) /\ peers[m.to][m.from] # "none"
        BY <1>9 DEF HandleP2, HandleP3
    <2>3. record3[m.to][m.from] # None
        BY <2>1, <2>2 DEF PairInv
    <2>4. \A a, b \in Uav : a # m.to \/ b # m.from =>
              peers'[a][b] = peers[a][b] /\ record3'[a][b] = record3[a][b]
        BY <2>1, <2>2, <2>3, EstablishType
    <2>5. \A a, b \in Uav : Begun(a, b)' => Begun(a, b)
        BY <1>9, <2>2, <2>4, Tracks, FlightTraced DEF Begun, PeerTypes
    <2>6. round' = round /\ phase2' = phase2
        BY <1>9 DEF HandleP2, HandleP3
    <2> QED
        BY <1>1, <2>5, <2>6 DEF RoundInv, RoundStarted
<1> QED
    BY <1>3, <1>4, <1>5, <1>6, <1>7, <1>8, <1>9 DEF Step

\* A device that has not started its round has begun nothing.
LEMMA NothingBegun ==
    ASSUME TypeOK, RoundInv, NEW u \in Uav, StartPhase3Round(u)
    PROVE  \A v \in Uav : u < v => record3[u][v] = None
<1>1. round[u] # None
    BY SwarmAssumption DEF StartPhase3Round, TypeOK
<1> QED
    BY <1>1 DEF RoundInv, RoundStarted

\* What is said of a pair, for one of its sides at a time.
SideInv(u, v) ==
    /\ record3[u][v] # None => u # v /\ (record3[u][v].initiator <=> u < v)
    /\ peers[u][v] # "none" => record3[u][v] # None
    /\ peers[u][v] = "requested" => u < v

Led(u, v) ==
    InFlight("P3", u, v) \/ (record3[v][u] # None /\ record3[v][u].success)
        => record3[u][v] # None /\ record3[u][v].success

LEMMA PairParts ==
    /\ PairInv <=> \A u, v \in Uav : SideInv(u, v) /\ (u < v => Led(u, v))
    /\ PairInv' <=> \A u, v \in Uav : SideInv(u, v)' /\ (u < v => Led(u, v)')
BY DEF PairInv, SideInv, Led

LEMMA PairStep ==
    ASSUME TypeOK, MessageInv, RoundInv, PairInv, NEW u \in Uav, NEW m, Step(u, m)
    PROVE  PairInv'
<1>1. CASE \/ StartPhase2(u) \/ HandleM1(m) \/ HandleM2(m)
           \/ HandleM3(m) \/ HandleM4(m) \/ Observe(m) \/ Tick
    <2>1. "P3" \in PeerTypes
        BY DEF PeerTypes
    <2>2. Traced("P3") /\ peers' = peers /\ record3' = record3
        BY <1>1, <2>1, Tracks
    <2> QED
        BY <2>2, FlightTraced DEF PairInv
<1>2. CASE StartPhase3Round(u)
    <2>1. Traced("P3")
        BY <1>2, Tracks
    <2>2. \A a, b \in Uav : SideInv(a, b)'
        <3> SUFFICES ASSUME NEW a \in Uav, NEW b \in Uav PROVE SideInv(a, b)'
            OBVIOUS
        <3>1. SideInv(a, b)
            BY PairParts
        <3>2. CASE a = u /\ a < b
            <4>1. /\ peers'[a][b] = "requested" /\ record3'[a][b] # None
                  /\ record3'[a][b].initiator /\ a # b
                BY <1>2, <3>2, RoundStep DEF Uav
            <4> QED
                BY <3>2, <4>1 DEF SideInv
        <3>3. CASE a # u \/ ~(a < b)
            <4>1. peers'[a][b] = peers[a][b] /\ record3'[a][b] = record3[a][b]
                BY <1>2, <3>3, RoundStep
            <4> QED
                BY <3>1, <4>1 DEF SideInv
        <3> QED
            BY <3>2, <3>3
    <2>3. \A a, b \in Uav : a < b => Led(a, b)'
        <3> SUFFICES ASSUME NEW a \in Uav, NEW b \in Uav, a < b
                     PROVE  Led(a, b)'
            OBVIOUS
        <3>1. Led(a, b) /\ (InFlight("P3", a, b)' => InFlight("P3", a, b))
            BY <2>1, PairParts, FlightTraced
        <3>2. ~(b < a)
            BY DEF Uav
        <3>3. record3'[b][a] = record3[b][a]
            BY <1>2, <3>2, RoundStep
        <3>4. a # u => record3'[a][b] = record3[a][b]
            BY <1>2, RoundStep
        <3>5. a = u => record3[a][b] = None
            BY <1>2, NothingBegun
        <3> QED
            BY <3>1, <3>3, <3>4, <3>5 DEF Led
    <2> QED
        BY <2>2, <2>3, PairParts
<1>3. CASE HandleP1(m)
    <2>1. m.from \in Uav /\ m.to \in Uav /\ m.from < m.to /\ ~(m.to < m.from)
        BY <1>3, Sent3 DEF Uav
    <2>2. \A a, b \in Uav : a # m.to \/ b # m.from =>
              peers'[a][b] = peers[a][b] /\ record3'[a][b] = record3[a][b]
        BY <1>3, <2>1, AnswerStep, P1Step, Reasons DEF HandleP1
    <2>3. /\ record3'[m.to][m.from] # None
          /\ ~record3'[m.to][m.from].initiator /\ ~record3'[m.to][m.from].success
        BY <1>3, <2>1, P1Step, Reasons DEF HandleP1
    <2>4. peers'[m.to][m.from] # "requested"
        BY <1>3, <2>1, AnswerStep, PairParts DEF HandleP1, SideInv
    <2>5. \A a, b \in Uav : SideInv(a, b)'
        <3> SUFFICES ASSUME NEW a \in Uav, NEW b \in Uav PROVE SideInv(a, b)'
            OBVIOUS
        <3>1. CASE a = m.to /\ b = m.from
            BY <2>1, <2>3, <2>4, <3>1 DEF SideInv
        <3>2. CASE a # m.to \/ b # m.from
            BY <2>2, <3>2, PairParts DEF SideInv
        <3> QED
            BY <3>1, <3>2
    <2>6. Traced("P3")
        BY <1>3, Tracks
    <2>7. \A a, b \in Uav : a < b => Led(a, b)'
        <3> SUFFICES ASSUME NEW a \in Uav, NEW b \in Uav, a < b
                     PROVE  Led(a, b)'
            OBVIOUS
        <3>1. Led(a, b) /\ (InFlight("P3", a, b)' => InFlight("P3", a, b))
            BY <2>6, PairParts, FlightTraced
        <3>2. record3'[a][b] = record3[a][b]
            BY <2>1, <2>2
        <3>3. \/ record3'[b][a] = record3[b][a]
              \/ ~record3'[b][a].success
            BY <2>2, <2>3
        <3> QED
            BY <3>1, <3>2, <3>3 DEF Led
    <2> QED
        BY <2>5, <2>7, PairParts
<1>4. CASE HandleP2(m) \/ HandleP3(m)
    <2>1. m.from \in Uav /\ m.to \in Uav
        BY <1>4, Sent3
    <2>2. Establish(m.to, m.from) /\ peers[m.to][m.from] # "none"
        BY <1>4 DEF HandleP2, HandleP3
    <2>3. record3[m.to][m.from] # None
        BY <2>1, <2>2 DEF PairInv
    <2>4. /\ \A a, b \in Uav : a # m.to \/ b # m.from =>
                 peers'[a][b] = peers[a][b] /\ record3'[a][b] = record3[a][b]
          /\ peers'[m.to][m.from] = "established"
          /\ record3'[m.to][m.from] # None /\ record3'[m.to][m.from].success
          /\ record3'[m.to][m.from].initiator = record3[m.to][m.from].initiator
        BY <2>1, <2>2, <2>3, EstablishType
    <2>5. \A a, b \in Uav : SideInv(a, b)'
        <3> SUFFICES ASSUME NEW a \in Uav, NEW b \in Uav PROVE SideInv(a, b)'
            OBVIOUS
        <3>1. CASE a = m.to /\ b = m.from
            BY <2>3, <2>4, <3>1, PairParts DEF SideInv
        <3>2. CASE a # m.to \/ b # m.from
            BY <2>4, <3>2, PairParts DEF SideInv
        <3> QED
            BY <3>1, <3>2
    <2>6. \A a, b \in Uav : a < b => Led(a, b)'
        <3> SUFFICES ASSUME NEW a \in Uav, NEW b \in Uav, a < b
                     PROVE  Led(a, b)'
            OBVIOUS
        <3>1. Led(a, b)
            BY PairParts
        <3>2. CASE HandleP2(m)
            <4>1. m.to < m.from /\ ~(b < a)
                BY <3>2, Sent3 DEF Uav
            <4>2. CASE a = m.to /\ b = m.from
                BY <2>4, <4>2 DEF Led
            <4>3. CASE a # m.to \/ b # m.from
                <5>1. InFlight("P3", a, b)' => InFlight("P3", a, b)
                    BY <3>2, <4>3, Sent3 DEF SendsOnly, InFlight
                <5>2. /\ record3'[a][b] = record3[a][b]
                      /\ record3'[b][a] = record3[b][a]
                    BY <2>4, <4>1, <4>3
                <5> QED
                    BY <3>1, <5>1, <5>2 DEF Led
            <4> QED
                BY <4>2, <4>3
        <3>3. CASE HandleP3(m)
            <4>1. m.from < m.to /\ ~(b < a) /\ ~(m.to < m.from)
                BY <3>3, Sent3 DEF Uav
            <4>2. record3'[a][b] = record3[a][b]
                BY <2>4, <4>1
            <4>3. InFlight("P3", a, b)' => InFlight("P3", a, b)
                BY <3>3, Sent3 DEF InFlight
            <4>4. a = m.from /\ b = m.to => InFlight("P3", a, b)
                BY <3>3, Taken DEF HandleP3, InFlight
            <4>5. a # m.from \/ b # m.to => record3'[b][a] = record3[b][a]
                BY <2>4
            <4> QED
                BY <3>1, <4>2, <4>3, <4>4, <4>5 DEF Led
        <3> QED
            BY <1>4, <3>2, <3>3
    <2> QED
        BY <2>5, <2>6, PairParts
<1> QED
    BY <1>1, <1>2, <1>3, <1>4 DEF Step

LEMMA WaitStep ==
    ASSUME TypeOK, MessageInv, PairInv, WaitsOnlyForTheRefused,
           NEW u \in Uav, NEW m, Step(u, m)
    PROVE  WaitsOnlyForTheRefused'
<1> SUFFICES ASSUME NEW a \in Uav, NEW b \in Uav,
                    peers'[a][b] = "requested",
                    ~InFlight("P1", a, b)', ~InFlight("P2", b, a)'
             PROVE  record3'[b][a] # None /\ record3'[b][a].abort = "NoSuchPeer"
    BY DEF WaitsOnlyForTheRefused
<1>1. ASSUME peers[a][b] = "requested", ~InFlight("P1", a, b), ~InFlight("P2", b, a)
      PROVE  record3[b][a] # None /\ record3[b][a].abort = "NoSuchPeer"
    BY <1>1 DEF WaitsOnlyForTheRefused
<1>2. CASE \/ StartPhase2(u) \/ HandleM1(m) \/ HandleM2(m)
           \/ HandleM3(m) \/ HandleM4(m) \/ Observe(m) \/ Tick
    <2>1. "P1" \in PeerTypes /\ "P2" \in PeerTypes
        BY DEF PeerTypes
    <2>2. Kept("P1") /\ Kept("P2") /\ peers' = peers /\ record3' = record3
        BY <1>2, <2>1, Tracks
    <2> QED
        BY <1>1, <2>2, FlightKept
<1>3. CASE StartPhase3Round(u)
    <2>1. "P1" \in PeerTypes /\ "P2" \in PeerTypes
        BY DEF PeerTypes
    <2>2. Kept("P1") /\ Kept("P2")
        BY <1>3, <2>1, Tracks
    <2>3. ~(a = u /\ a < b)
        BY <1>3, RoundSends DEF InFlight
    <2>4. peers[a][b] = "requested"
        BY <1>3, <2>3, RoundStep
    <2>5. a < b /\ ~(b < a)
        BY <2>4 DEF PairInv, Uav
    <2>6. record3'[b][a] = record3[b][a]
        BY <1>3, <2>5, RoundStep
    <2> QED
        BY <1>1, <2>2, <2>4, <2>6, FlightKept
<1>4. CASE HandleP1(m)
    <2>1. m.from \in Uav /\ m.to \in Uav
        BY <1>4, Sent3
    <2>2. \A x, y \in Uav : x # m.to \/ y # m.from =>
              peers'[x][y] = peers[x][y] /\ record3'[x][y] = record3[x][y]
        BY <1>4, <2>1, AnswerStep, P1Step, Reasons DEF HandleP1
    <2>3. CASE a = m.from /\ b = m.to
        <3>1. ~HasCredentials(m.to)
            BY <1>4, <2>3, Sent3 DEF InFlight
        <3>2. record3' = RecordP1(m.to, m.from, "NoSuchPeer")
            BY <1>4, <3>1 DEF HandleP1
        <3> QED
            BY <2>1, <2>3, <3>2, P1Step, Reasons
    <2>4. CASE a # m.from \/ b # m.to
        <3>1. record3'[b][a] = record3[b][a]
            BY <2>2, <2>4
        <3>2. peers[a][b] = "requested"
            BY <1>4, <2>1, <2>2, AnswerStep DEF HandleP1
        <3>3. InFlight("P1", a, b) => InFlight("P1", a, b)'
            BY <1>4, <2>4, Sent3 DEF InFlight
        <3>4. InFlight("P2", b, a) => InFlight("P2", b, a)'
            BY <1>4, Tracks, FlightKept
        <3> QED
            BY <1>1, <3>1, <3>2, <3>3, <3>4
    <2> QED
        BY <2>3, <2>4
<1>5. CASE HandleP2(m) \/ HandleP3(m)
    <2>1. m.from \in Uav /\ m.to \in Uav
        BY <1>5, Sent3
    <2>2. Establish(m.to, m.from) /\ peers[m.to][m.from] # "none"
        BY <1>5 DEF HandleP2, HandleP3
    <2>3. record3[m.to][m.from] # None
        BY <2>1, <2>2 DEF PairInv
    <2>4. /\ \A x, y \in Uav : x # m.to \/ y # m.from =>
                 peers'[x][y] = peers[x][y] /\ record3'[x][y] = record3[x][y]
          /\ peers'[m.to][m.from] = "established"
          /\ record3'[m.to][m.from] # None
          /\ record3'[m.to][m.from].abort = record3[m.to][m.from].abort
        BY <2>1, <2>2, <2>3, EstablishType
    <2>5. (a # m.to \/ b # m.from) /\ peers[a][b] = "requested"
        BY <2>4
    <2>6. /\ record3'[b][a] # None <=> record3[b][a] # None
          /\ record3[b][a] # None => record3'[b][a].abort = record3[b][a].abort
        BY <2>3, <2>4
    <2>7. Kept("P1")
        BY <1>5, Tracks
    <2>8. InFlight("P2", b, a) => InFlight("P2", b, a)'
        <3>1. CASE HandleP2(m)
            BY <2>5, <3>1, Sent3 DEF InFlight
        <3>2. CASE HandleP3(m)
            BY <3>2, Tracks, FlightKept
        <3> QED
            BY <1>5, <3>1, <3>2
    <2> QED
        BY <1>1, <2>5, <2>6, <2>7, <2>8, FlightKept
<1> QED
    BY <1>2, <1>3, <1>4, <1>5 DEF Step

-----------------------------------------------------------------------------
(* Attempts *)

\* The requests in flight are the same as before.
SameRequests == \A x : x.type = "M1" => (x \in net' <=> x \in net)

LEMMA RequestsTracked ==
    ASSUME TypeOK, MessageInv, NEW u \in Uav, NEW m, mode = "none",
           \/ HandleM2(m) \/ HandleM3(m) \/ HandleM4(m)
           \/ StartPhase3Round(u) \/ HandleP1(m) \/ HandleP2(m) \/ HandleP3(m)
           \/ Observe(m) \/ Tick
    PROVE  /\ SameRequests /\ UNCHANGED <<attempts, offered>>
           /\ \A v \in Uav : phase2'[v] \in {"idle", "failed"} <=>
                             phase2[v] \in {"idle", "failed"}
<1>1. CASE HandleM2(m)
    <2>1. m.type = "M2" /\ m.to \in Uav /\ UNCHANGED <<attempts, offered>>
        BY <1>1, Ends DEF HandleM2, Arrives, gsVars
    <2>2. \/ phase2' = phase2
          \/ /\ phase2[m.to] = "requested"
             /\ phase2' = [phase2 EXCEPT ![m.to] = "confirmed"]
        BY <1>1 DEF HandleM2
    <2>3. SameRequests
        BY <1>1, <2>1, Sent2 DEF SendsOnly, SameRequests
    <2> QED
        BY <2>1, <2>2, <2>3 DEF TypeOK
<1>2. CASE HandleM3(m)
    <2>1. m.type = "M3" /\ UNCHANGED <<attempts, offered, phase2>>
        BY <1>2 DEF HandleM3, uavVars
    <2>2. SameRequests
        BY <1>2, <2>1, Sent2 DEF SendsOnly, SameRequests
    <2> QED
        BY <2>1, <2>2
<1>3. CASE HandleM4(m)
    <2>1. /\ m.type = "M4" /\ m.to \in Uav /\ UNCHANGED <<attempts, offered>>
          /\ phase2[m.to] = "confirmed"
          /\ phase2' = [phase2 EXCEPT ![m.to] = "established"]
        BY <1>3, Ends DEF HandleM4, Arrives, gsVars
    <2>2. SameRequests
        BY <1>3, <2>1, Sent2 DEF SameRequests
    <2> QED
        BY <2>1, <2>2 DEF TypeOK
<1>4. CASE StartPhase3Round(u)
    <2>1. UNCHANGED <<attempts, offered, phase2>>
        BY <1>4 DEF StartPhase3Round, gsVars
    <2>2. SameRequests
        BY <1>4, RoundSends DEF SameRequests
    <2> QED
        BY <2>1, <2>2
<1>5. CASE HandleP1(m) \/ HandleP2(m) \/ HandleP3(m)
    <2>1. m.type # "M1" /\ UNCHANGED <<attempts, offered, phase2>>
        BY <1>5 DEF HandleP1, HandleP2, HandleP3, gsVars
    <2>2. SameRequests
        BY <1>5, <2>1, Sent3 DEF SendsOnly, SameRequests
    <2> QED
        BY <2>1, <2>2
<1>6. CASE Observe(m)
    BY <1>6, ObserveStep
<1>7. CASE Tick
    BY <1>7 DEF Tick, SameRequests, uavVars, gsVars
<1> QED
    BY <1>1, <1>2, <1>3, <1>4, <1>5, <1>6, <1>7

\* A message taken is gone: its answer is another.
LEMMA TakenMessage ==
    ASSUME TypeOK, NEW type \in Types, NEW from \in Place, NEW to \in Place,
           NEW m \in net, m.type # type,
           Take(m) \/ TakeAndSend(m, Payload(type, from, to))
    PROVE  m \notin net'
BY Transmitted DEF Take, TakeAndSend

LEMMA CountStep ==
    ASSUME TypeOK, MessageInv, CountInv, NEW u \in Uav, NEW m, Step(u, m)
    PROVE  CountInv'
<1>1. mode' = mode
    BY MessageStep
<1> SUFFICES ASSUME mode = "none"
             PROVE  CountInv'
    BY <1>1 DEF CountInv
<1>2. /\ attempts = Cardinality(offered)
      /\ \A v \in Uav : v \in offered <=>
             phase2[v] \notin {"idle", "failed"} /\ ~InFlight("M1", v, Gs)
      /\ \A m1, m2 \in net :
             m1.type = "M1" /\ m2.type = "M1" /\ m1.from = m2.from => m1 = m2
      /\ \A x \in net : x.type = "M1" => phase2[x.from] \notin {"idle", "failed"}
    BY DEF CountInv
<1>3. CASE StartPhase2(u)
    <2>1. /\ phase2[u] = "idle" /\ UNCHANGED <<attempts, offered>>
          /\ \A v \in Uav \ {u} : phase2'[v] = phase2[v]
        BY <1>3 DEF StartPhase2, gsVars, TypeOK
    <2>2. \A x \in net : x.type = "M1" => x.from \in Uav \ {u} /\ x.to = Gs
        BY <1>2, <2>1, Ends
    <2>3. u \notin offered
        BY <1>2, <2>1
    <2>4. CASE phase2'[u] = "failed" /\ net' = net
        BY <1>2, <2>1, <2>2, <2>3, <2>4 DEF CountInv, InFlight
    <2>5. CASE phase2'[u] = "requested" /\ Sends("M1", u, Gs) /\ net \subseteq net'
        <3>1. /\ \A x \in net' \ net : x.type = "M1" /\ x.from = u /\ x.to = Gs
              /\ \A x, y \in net' \ net : x = y
              /\ \E x \in net' : x.type = "M1" /\ x.from = u /\ x.to = Gs
            BY <2>5 DEF Sends, SendsOnly, SendsOnce
        <3>2. \A v \in Uav \ {u} : InFlight("M1", v, Gs)' <=> InFlight("M1", v, Gs)
            BY <2>5, <3>1 DEF InFlight
        <3>3. InFlight("M1", u, Gs)'
            BY <3>1 DEF InFlight
        <3>4. \A m1, m2 \in net' :
                  m1.type = "M1" /\ m2.type = "M1" /\ m1.from = m2.from => m1 = m2
            BY <1>2, <2>2, <3>1
        <3>5. \A x \in net' : x.type = "M1" =>
                  phase2'[x.from] \notin {"idle", "failed"}
            BY <1>2, <2>1, <2>2, <2>5, <3>1
        <3>6. \A v \in Uav : v \in offered' <=>
                  phase2'[v] \notin {"idle", "failed"} /\ ~InFlight("M1", v, Gs)'
            BY <1>2, <2>1, <2>3, <3>2, <3>3
        <3> QED
            BY <1>2, <2>1, <3>4, <3>5, <3>6 DEF CountInv
    <2> QED
        BY <1>3, <2>4, <2>5, Sent2
<1>4. CASE HandleM1(m)
    <2>1. /\ m \in net /\ m.type = "M1" /\ m.from \in Uav /\ m.to = Gs
          /\ attempts' = attempts + 1 /\ offered' = offered \cup {m.from}
          /\ phase2' = phase2
        BY <1>4, Taken, Ends DEF HandleM1, OfferNonce, uavVars
    <2>2. m.from \notin offered /\ phase2[m.from] \notin {"idle", "failed"}
        BY <1>2, <2>1 DEF InFlight
    <2>3. \A x : x.type = "M1" => (x \in net' <=> x \in net /\ x # m)
        <3>1. \A x \in net' \ net : x.type # "M1"
            BY <1>4, Sent2 DEF SendsOnly
        <3>2. net \ {m} \subseteq net'
            BY <1>4, Sent2
        <3>3. m \notin net'
            <4>1. Take(m) \/ TakeAndSend(m, Payload("M2", Gs, m.from))
                BY <1>4 DEF HandleM1
            <4>2. "M2" \in Types /\ Gs \in Place /\ m.from \in Place
                BY <2>1, MessageType DEF Types, Place
            <4> QED
                BY <2>1, <4>1, <4>2, TakenMessage
        <3> QED
            BY <3>1, <3>2, <3>3
    <2>4. attempts' = Cardinality(offered')
        <3>1. IsFiniteSet(offered)
            BY UavFinite, FS_Subset DEF TypeOK
        <3> QED
            BY <1>2, <2>1, <2>2, <3>1, FS_AddElement
    <2>5. \A v \in Uav \ {m.from} : InFlight("M1", v, Gs)' <=> InFlight("M1", v, Gs)
        BY <2>3 DEF InFlight
    <2>6. ~InFlight("M1", m.from, Gs)'
        BY <1>2, <2>1, <2>3 DEF InFlight
    <2>7. \A v \in Uav : v \in offered' <=>
              phase2'[v] \notin {"idle", "failed"} /\ ~InFlight("M1", v, Gs)'
        BY <1>2, <2>1, <2>2, <2>5, <2>6
    <2> QED
        BY <1>2, <2>1, <2>3, <2>4, <2>7 DEF CountInv
<1>5. CASE \/ HandleM2(m) \/ HandleM3(m) \/ HandleM4(m)
           \/ StartPhase3Round(u) \/ HandleP1(m) \/ HandleP2(m) \/ HandleP3(m)
           \/ Observe(m) \/ Tick
    <2>1. /\ SameRequests /\ UNCHANGED <<attempts, offered>>
          /\ \A v \in Uav : phase2'[v] \in {"idle", "failed"} <=>
                            phase2[v] \in {"idle", "failed"}
        BY <1>5, RequestsTracked
    <2>2. \A v \in Uav : InFlight("M1", v, Gs)' <=> InFlight("M1", v, Gs)
        BY <2>1 DEF SameRequests, InFlight
    <2>3. \A x \in net : x.type = "M1" => x.from \in Uav
        BY Ends
    <2> QED
        BY <1>2, <2>1, <2>2, <2>3 DEF CountInv, SameRequests
<1> QED
    BY <1>3, <1>4, <1>5 DEF Step

-----------------------------------------------------------------------------
(* The invariant of the simulation *)

\* Whatever happens in a run, there is a device: it takes one to send the
\* first message, and without one no time passes.
LEMMA StepOfNext ==
    ASSUME TypeOK, MessageInv, Next
    PROVE  \E u \in Uav : \E m : Step(u, m)
<1>1. CASE \E u \in Uav : StartPhase2(u) \/ StartPhase3Round(u)
    BY <1>1 DEF Step
<1>2. ASSUME net # {} PROVE \E u \in Uav : TRUE
    <2>1. PICK m \in net : TRUE
        BY <1>2
    <2> QED
        BY <2>1, Ends, MessageType DEF Types
<1>3. CASE \E m \in net : \/ HandleM1(m) \/ HandleM2(m)
                          \/ HandleM3(m) \/ HandleM4(m)
                          \/ HandleP1(m) \/ HandleP2(m) \/ HandleP3(m)
                          \/ Observe(m)
    BY <1>2, <1>3 DEF Step
<1>4. CASE Tick
    <2>1. \E u \in Uav : TRUE
        BY <1>2, <1>4 DEF Tick
    <2> QED
        BY <2>1, <1>4 DEF Step
<1> QED
    BY <1>1, <1>3, <1>4 DEF Next

LEMMA InitInv == Init => SwarmInv
<1> SUFFICES ASSUME Init PROVE SwarmInv
    OBVIOUS
<1>1. Uav \subseteq Nat
    BY DEF Uav
<1>2. MessageInv /\ WaitsOnlyForTheRefused
    BY DEF Init, MessageInv, WaitsOnlyForTheRefused
<1>3. StationInv
    <2>1. {u \in Uav : session[u] = "confirmed"} = {}
        BY DEF Init
    <2>2. Cardinality({u \in Uav : session[u] = "confirmed"}) = 0
        BY <2>1, FS_EmptySet
    <2> QED
        BY <2>2 DEF Init, StationInv
<1>4. RoundInv
    BY DEF Init, RoundInv, InFlight
<1>5. PairInv
    BY DEF Init, PairInv, InFlight
<1>6. CountInv
    <2>1. Cardinality(offered) = 0
        BY FS_EmptySet DEF Init
    <2> QED
        BY <2>1 DEF Init, CountInv
<1> QED
    BY <1>2, <1>3, <1>4, <1>5, <1>6 DEF SwarmInv

LEMMA Stuttering ==
    ASSUME TypeOK, SwarmInv, UNCHANGED vars
    PROVE  TypeOK' /\ SwarmInv'
<1> USE DEF vars, fixed, uavVars, gsVars
<1>1. TypeOK'
    BY DEF TypeOK
<1>2. MessageInv'
    BY DEF SwarmInv, MessageInv
<1>3. StationInv'
    BY DEF SwarmInv, StationInv
<1>4. RoundInv'
    BY DEF SwarmInv, RoundInv, RoundStarted, InFlight
<1>5. PairInv'
    BY DEF SwarmInv, PairInv, InFlight
<1>6. CountInv'
    BY DEF SwarmInv, CountInv, InFlight
<1>7. WaitsOnlyForTheRefused'
    BY DEF SwarmInv, WaitsOnlyForTheRefused, InFlight
<1> QED
    BY <1>1, <1>2, <1>3, <1>4, <1>5, <1>6, <1>7 DEF SwarmInv

LEMMA TypeStep ==
    ASSUME TypeOK, SwarmInv, NEW u \in Uav, NEW m, Step(u, m)
    PROVE  TypeOK'
<1>1. MessageInv /\ PairInv
    BY DEF SwarmInv
<1>2. CASE StartPhase2(u) \/ HandleM1(m) \/ HandleM2(m) \/ HandleM3(m) \/ HandleM4(m)
    BY <1>1, <1>2, Phase2Type
<1>3. CASE StartPhase3Round(u) \/ HandleP1(m) \/ HandleP2(m) \/ HandleP3(m)
    BY <1>1, <1>3, Phase3Type
<1>4. CASE Observe(m)
    BY <1>1, <1>4, ObserveType
<1>5. CASE Tick
    BY <1>5, TickType
<1> QED
    BY <1>2, <1>3, <1>4, <1>5 DEF Step

LEMMA InvStep ==
    ASSUME TypeOK, SwarmInv, [Next]_vars
    PROVE  TypeOK' /\ SwarmInv'
<1>1. CASE UNCHANGED vars
    BY <1>1, Stuttering
<1>2. CASE Next
    <2>1. /\ MessageInv /\ StationInv /\ RoundInv /\ PairInv /\ CountInv
          /\ WaitsOnlyForTheRefused
        BY DEF SwarmInv
    <2>2. PICK u \in Uav : \E m : Step(u, m)
        BY <1>2, <2>1, StepOfNext
    <2>3. PICK m : Step(u, m)
        BY <2>2
    <2>4. TypeOK'
        BY <2>3, TypeStep
    <2>5. MessageInv'
        BY <2>1, <2>3, MessageStep
    <2>6. StationInv'
        BY <2>1, <2>3, StationStep
    <2>7. RoundInv'
        BY <2>1, <2>3, RoundInvStep
    <2>8. PairInv'
        BY <2>1, <2>3, PairStep
    <2>9. CountInv'
        BY <2>1, <2>3, CountStep
    <2>10. WaitsOnlyForTheRefused'
        BY <2>1, <2>3, WaitStep
    <2> QED
        BY <2>4, <2>5, <2>6, <2>7, <2>8, <2>9, <2>10 DEF SwarmInv
<1> QED
    BY <1>1, <1>2

\* The types and the invariant hold at every event of every run.
LEMMA Invariant == Spec => [](TypeOK /\ SwarmInv)
<1>1. Init => TypeOK /\ SwarmInv
    BY InitType, InitInv
<1>2. (TypeOK /\ SwarmInv) /\ [Next]_vars => (TypeOK /\ SwarmInv)'
    BY InvStep
<1> QED
    BY <1>1, <1>2, PTL DEF Spec

-----------------------------------------------------------------------------
(* The theorems *)

\* Every variable keeps its type, for any number of devices, any start times
\* and any configuration of the medium and the interceptor.
THEOREM TypeCorrect == Spec => []TypeOK
BY Invariant, PTL

\* A device that waits for a P2 that nobody will send waits for a responder
\* that refused its P1 for want of credentials (UavNode.cc, the P1 case):
\* there is no other way to be stranded in the round of peer handshakes,
\* whatever the delays and whatever the interceptor does to Phase 2.
THEOREM NoOtherWait == Spec => []WaitsOnlyForTheRefused
<1>1. SwarmInv => WaitsOnlyForTheRefused
    BY DEF SwarmInv
<1> QED
    BY <1>1, Invariant, PTL

\* The two Phase3Records of a pair agree on who drove the handshake, and the
\* responder's success implies the initiator's.
THEOREM PairRecords == Spec => []RecordsOfPairAgree
<1>1. ASSUME TypeOK, SwarmInv PROVE RecordsOfPairAgree
    <2> SUFFICES ASSUME NEW u \in Uav, NEW v \in Uav,
                        record3[u][v] # None, record3[v][u] # None
                 PROVE  /\ record3[u][v].initiator # record3[v][u].initiator
                        /\ record3[u][v].success /\ ~record3[u][v].initiator
                               => record3[v][u].success
        BY DEF RecordsOfPairAgree
    <2>1. PairInv
        BY <1>1 DEF SwarmInv
    <2>2. /\ u # v
          /\ record3[u][v].initiator <=> u < v
          /\ record3[v][u].initiator <=> v < u
        BY <2>1 DEF PairInv
    <2>3. record3[u][v] \in Record3 /\ record3[v][u] \in Record3
        BY <1>1 DEF TypeOK
    <2>4. record3[u][v].initiator \in BOOLEAN /\ record3[v][u].initiator \in BOOLEAN
        BY <2>3 DEF Record3
    <2>5. u \in Int /\ v \in Int
        BY DEF Uav
    <2>6. (u < v) <=> ~(v < u)
        BY <2>2, <2>5
    <2>7. record3[u][v].initiator # record3[v][u].initiator
        BY <2>2, <2>4, <2>6
    <2>8. record3[u][v].success /\ v < u => record3[v][u].success
        BY <2>1 DEF PairInv
    <2> QED
        BY <2>2, <2>6, <2>7, <2>8
<1> QED
    BY <1>1, Invariant, PTL

\* authSuccesses_ is the number of devices the ground station holds a
\* confirmed session with, and every device that reports a success is one of
\* them: a copied, forged or damaged message never adds to the count.
THEOREM SuccessCount == Spec => []SuccessesCountSessions
<1>1. ASSUME TypeOK, SwarmInv PROVE SuccessesCountSessions
    BY <1>1 DEF SwarmInv, StationInv, SuccessesCountSessions
<1> QED
    BY <1>1, Invariant, PTL

\* When nobody repeats or withholds an M1 and the last message has arrived,
\* the feReproductionFailures that the ground station's finish() derives from
\* its own counter is the number of devices whose fuzzy extractor failed.
THEOREM FailureCount == Spec => []FeFailuresExact
<1>1. ASSUME TypeOK, SwarmInv PROVE FeFailuresExact
    <2> SUFFICES ASSUME mode = "none", net = {}, \A u \in Uav : phase2[u] # "idle"
                 PROVE  FeReproductionFailures = Cardinality(Failed)
        BY DEF FeFailuresExact
    <2>1. CountInv
        BY <1>1 DEF SwarmInv
    <2>2. offered = Uav \ Failed
        <3>1. offered \subseteq Uav
            BY <1>1 DEF TypeOK
        <3>2. \A u \in Uav : u \in offered <=> phase2[u] # "failed"
            BY <2>1 DEF CountInv, InFlight
        <3> QED
            BY <3>1, <3>2 DEF Failed
    <2>3. Failed \subseteq Uav
        BY DEF Failed
    <2>4. IsFiniteSet(Failed) /\ Cardinality(Failed) \in Nat
        BY <2>3, UavFinite, FS_Subset, FS_CardinalityType
    <2>5. Cardinality(Uav \ Failed) = Cardinality(Uav) - Cardinality(Uav \cap Failed)
        BY UavFinite, FS_Difference
    <2>6. Uav \cap Failed = Failed
        BY <2>3
    <2>7. attempts = Cardinality(offered)
        BY <2>1 DEF CountInv
    <2>8. attempts = NumUavs - Cardinality(Failed)
        BY <2>2, <2>5, <2>6, <2>7, UavFinite
    <2> QED
        BY <2>4, <2>8, SwarmAssumption DEF FeReproductionFailures
<1> QED
    BY <1>1, Invariant, PTL
=============================================================================
