---------------------------- MODULE BaselineProofs ----------------------------
(***************************************************************************)
(* What holds of Baseline for every set of devices, every bound, every     *)
(* window and every capacity of the replay caches.                         *)
(***************************************************************************)
EXTENDS Baseline, FreshnessProofs, SequenceTheorems, TLAPS

-----------------------------------------------------------------------------
(* Type correctness *)

LEMMA InitType == Init => TypeOK
<1> SUFFICES ASSUME Init PROVE TypeOK
    OBVIOUS
<1>1. <<>> \in Seq(Uav \X Nat) /\ <<>> \in Seq(Nat) /\ <<>> \in Seq(Input)
    OBVIOUS
<1> QED
    BY <1>1 DEF Init, TypeOK, GsSession, UavSession, Message

\* What the handlers may assume of the fields they read.
LEMMA Fields ==
    ASSUME TypeOK
    PROVE  /\ \A u \in Uav : ses[u] \in UavSession /\ gsSession[u] \in GsSession
           /\ \A m \in msgs : /\ m.type = "B1" => m \in MessageB1
                              /\ m.type = "B2" => m \in MessageB2
                              /\ m.type = "B3" => m \in MessageB3
                              /\ m.type = "B4" => m \in MessageB4
BY DEF TypeOK, Message, MessageB1, MessageB2, MessageB3, MessageB4

LEMMA StartPhase2Type ==
    ASSUME TypeOK, NEW u \in Uav, StartPhase2(u)
    PROVE  TypeOK'
<1> DEFINE n1 == ses[u].n1 + 1
           input == InputB1(u, n1, now)
           m == [type |-> "B1", from |-> u, n1 |-> n1, t1 |-> now]
           s == [n1 |-> n1, transcript |-> <<input>>, ephemeral |-> TRUE,
                 sessionKey |-> None, established |-> FALSE]
<1>1. n1 \in Nat /\ now \in Nat
    BY DEF TypeOK, UavSession
<1>2. <<input>> \in Seq(Input)
    BY <1>1 DEF InputB1, Input
<1>3. s \in UavSession /\ m \in Message
    BY <1>1, <1>2 DEF UavSession, Message, MessageB1
<1>4. ses' = [ses EXCEPT ![u] = s] /\ msgs' = msgs \cup {m}
    BY DEF StartPhase2, Send
<1> HIDE DEF s, m
<1> QED
    BY <1>3, <1>4 DEF TypeOK, StartPhase2, gsVars

LEMMA HandleB1Type ==
    ASSUME TypeOK, NEW m \in msgs, NEW intact \in BOOLEAN, HandleB1(m, intact)
    PROVE  TypeOK'
<1>1. m \in MessageB1
    BY Fields DEF HandleB1
<1>2. gsSeen' \in Seq(Uav \X Nat)
    <2>1. <<m.from, m.n1>> \in Uav \X Nat
        BY <1>1 DEF MessageB1
    <2> QED
        BY <2>1, RememberType, BaselineAssumption DEF HandleB1, GsOffer, TypeOK
<1>3. gsSession' \in [Uav -> GsSession] /\ msgs' \subseteq Message
    <2>1. CASE OpenGsSession(m)
        <3> DEFINE u == m.from
                   n2 == gsSession[u].n2 + 1
                   first == InputB1(u, m.n1, m.t1)
                   second == InputB2(u, m.n1, n2, now)
                   s == [n1 |-> m.n1, n2 |-> n2,
                         transcript |-> <<first, second>>, ephemeral |-> TRUE,
                         sessionKey |-> None]
                   m2 == [type |-> "B2", to |-> u, n1 |-> m.n1, n2 |-> n2,
                          t2 |-> now]
        <3>1. u \in Uav /\ n2 \in Nat /\ now \in Nat
            BY <1>1 DEF TypeOK, GsSession, MessageB1
        <3>2. first \in Input /\ second \in Input
            BY <1>1, <3>1 DEF InputB1, InputB2, Input, MessageB1
        <3>3. <<first, second>> \in Seq(Input)
            BY <3>2
        <3>4. s \in GsSession /\ m2 \in Message
            BY <1>1, <3>1, <3>3 DEF GsSession, Message, MessageB1, MessageB2
        <3>5. gsSession' = [gsSession EXCEPT ![u] = s] /\ msgs' = msgs \cup {m2}
            BY <2>1 DEF OpenGsSession, Send
        <3> HIDE DEF s, m2
        <3> QED
            BY <3>4, <3>5 DEF TypeOK
    <2>2. CASE UNCHANGED <<gsSession, msgs>>
        BY <2>2 DEF TypeOK
    <2> QED
        BY <2>1, <2>2 DEF HandleB1
<1> QED
    BY <1>2, <1>3 DEF HandleB1, TypeOK, uavVars

\* What becomes of the receiver's session when a B2 verifies: either it derives
\* the key of the B3 it sends, or it only records the B2.
LEMMA AcceptedB2 ==
    ASSUME TypeOK, NEW m \in MessageB2, AcceptB2(m), m.n1 = ses[m.to].n1
    PROVE  \/ \E key \in Key :
                 /\ ses[m.to].ephemeral
                 /\ key.uav = m.to /\ key.n1 = ses[m.to].n1
                 /\ \E s \in UavSession :
                       /\ ses' = [ses EXCEPT ![m.to] = s]
                       /\ s.n1 = ses[m.to].n1
                       /\ s.established = ses[m.to].established
                       /\ s.sessionKey = key
                       /\ s.ephemeral = FALSE
                 /\ msgs' = msgs \cup {[type |-> "B3", from |-> m.to, key |-> key]}
           \/ /\ ~ses[m.to].ephemeral
              /\ UNCHANGED msgs
              /\ \E s \in UavSession :
                    /\ ses' = [ses EXCEPT ![m.to] = s]
                    /\ s.n1 = ses[m.to].n1
                    /\ s.established = ses[m.to].established
                    /\ s.sessionKey = ses[m.to].sessionKey
                    /\ s.ephemeral = ses[m.to].ephemeral
<1> DEFINE u == m.to
           input == InputB2(u, m.n1, m.n2, m.t2)
           transcript == Append(ses[u].transcript, input)
           key == SessionKey(u, m.n1, m.n2, transcript)
<1>1. /\ u \in Uav /\ ses[u] \in UavSession /\ ses \in [Uav -> UavSession]
      /\ m.n1 \in Nat /\ m.n2 \in Nat /\ m.t2 \in Nat
    BY DEF TypeOK, MessageB2
<1>2. transcript \in Seq(Input)
    <2>1. input \in Input
        BY <1>1 DEF InputB2, Input
    <2> QED
        BY <1>1, <2>1, AppendProperties DEF UavSession
<1>3. key \in Key /\ key.uav = u /\ key.n1 = ses[u].n1
    BY <1>1, <1>2 DEF SessionKey, Key
<1>4. CASE ses[u].ephemeral
    <2> DEFINE s == [ses[u] EXCEPT !.transcript = transcript,
                                   !.sessionKey = key, !.ephemeral = FALSE]
    <2>1. s \in UavSession
        BY <1>1, <1>2, <1>3 DEF UavSession
    <2>2. /\ s.n1 = ses[u].n1 /\ s.established = ses[u].established
          /\ s.sessionKey = key /\ s.ephemeral = FALSE
        BY <1>1 DEF UavSession
    <2>3. ses' = [ses EXCEPT ![u] = s]
        BY <1>1, <1>4 DEF AcceptB2, CanDerive
    <2>4. msgs' = msgs \cup {[type |-> "B3", from |-> u, key |-> key]}
        BY <1>4 DEF AcceptB2, CanDerive, Send
    <2> HIDE DEF s, key
    <2> QED
        BY <1>3, <1>4, <2>1, <2>2, <2>3, <2>4
<1>5. CASE ~ses[u].ephemeral
    <2> DEFINE s == [ses[u] EXCEPT !.transcript = transcript]
    <2>1. s \in UavSession
        BY <1>1, <1>2 DEF UavSession
    <2>2. /\ s.n1 = ses[u].n1 /\ s.established = ses[u].established
          /\ s.sessionKey = ses[u].sessionKey /\ s.ephemeral = ses[u].ephemeral
        BY <1>1 DEF UavSession
    <2>3. ses' = [ses EXCEPT ![u] = s] /\ UNCHANGED msgs
        BY <1>1, <1>5 DEF AcceptB2, CanDerive
    <2> HIDE DEF s
    <2> QED
        BY <1>5, <2>1, <2>2, <2>3
<1> QED
    BY <1>4, <1>5

LEMMA HandleB2Type ==
    ASSUME TypeOK, NEW m \in msgs, NEW intact \in BOOLEAN, HandleB2(m, intact)
    PROVE  TypeOK'
<1>1. m \in MessageB2 /\ m.to \in Uav /\ m.n2 \in Nat
    BY Fields DEF HandleB2, MessageB2
<1>2. uavSeen' \in [Uav -> Seq(Nat)]
    <2>1. Remember(uavSeen[m.to], m.n2, Capacity) \in Seq(Nat)
        BY <1>1, RememberType, BaselineAssumption DEF TypeOK
    <2> QED
        BY <2>1 DEF HandleB2, UavOffer, TypeOK
<1>3. ses' \in [Uav -> UavSession] /\ msgs' \subseteq Message
    <2>1. CASE AuthenticB2(m, intact) /\ AcceptB2(m)
        <3>1. \A key \in Key : [type |-> "B3", from |-> m.to, key |-> key] \in Message
            BY <1>1 DEF Message, MessageB3
        <3>2. /\ \E s \in UavSession : ses' = [ses EXCEPT ![m.to] = s]
              /\ \/ UNCHANGED msgs
                 \/ \E key \in Key :
                        msgs' = msgs \cup {[type |-> "B3", from |-> m.to, key |-> key]}
            BY <1>1, <2>1, AcceptedB2 DEF AuthenticB2
        <3>3. msgs' \subseteq Message
            BY <3>1, <3>2 DEF TypeOK
        <3>4. ses' \in [Uav -> UavSession]
            BY <3>2 DEF TypeOK
        <3> QED
            BY <3>3, <3>4
    <2>2. CASE UNCHANGED <<ses, msgs>>
        BY <2>2 DEF TypeOK
    <2> QED
        BY <2>1, <2>2 DEF HandleB2
<1> QED
    BY <1>2, <1>3 DEF HandleB2, TypeOK, gsVars

LEMMA HandleB3Type ==
    ASSUME TypeOK, NEW m \in msgs, NEW intact \in BOOLEAN, HandleB3(m, intact)
    PROVE  TypeOK'
<1>1. PICK u \in SessionsOf(m.from) :
          /\ gsSession' = [gsSession EXCEPT ![u].sessionKey = GsKey(u),
                                            ![u].ephemeral = FALSE]
          /\ \/ /\ successes' = successes + 1
                /\ Send([type |-> "B4", to |-> u, key |-> GsKey(u)])
             \/ UNCHANGED <<successes, msgs>>
    BY DEF HandleB3
<1>2. u \in Uav /\ gsSession[u] \in GsSession /\ gsSession \in [Uav -> GsSession]
    BY Fields DEF HandleB3, MessageB3, SessionsOf, TypeOK
<1>3. GsKey(u) \in Key
    BY <1>2 DEF GsKey, SessionKey, Key, GsSession
<1>4. gsSession' \in [Uav -> GsSession]
    BY <1>1, <1>2, <1>3 DEF GsSession
<1>5. msgs' \subseteq Message
    <2>1. [type |-> "B4", to |-> u, key |-> GsKey(u)] \in Message
        BY <1>2, <1>3 DEF Message, MessageB4
    <2> QED
        BY <1>1, <2>1 DEF Send, TypeOK
<1>6. successes' \in Nat
    BY <1>1 DEF TypeOK
<1> QED
    BY <1>4, <1>5, <1>6 DEF HandleB3, TypeOK, uavVars

LEMMA HandleB4Type ==
    ASSUME TypeOK, NEW m \in msgs, NEW intact \in BOOLEAN, HandleB4(m, intact)
    PROVE  TypeOK'
BY DEF HandleB4, TypeOK, UavSession, gsVars

LEMMA NextType == TypeOK /\ [Next]_vars => TypeOK'
<1> SUFFICES ASSUME TypeOK, [Next]_vars PROVE TypeOK'
    OBVIOUS
<1>1. CASE \E u \in Uav : Enroll(u)
    BY <1>1 DEF Enroll, TypeOK, uavVars
<1>2. CASE \E u \in Uav : StartPhase2(u)
    BY <1>2, StartPhase2Type
<1>3. CASE Deliver
    BY <1>3, HandleB1Type, HandleB2Type, HandleB3Type, HandleB4Type DEF Deliver
<1>4. CASE Tick
    BY <1>4 DEF Tick, TypeOK, gsVars, uavVars
<1>5. CASE UNCHANGED vars
    BY <1>5 DEF TypeOK, vars, gsVars, uavVars
<1> QED
    BY <1>1, <1>2, <1>3, <1>4, <1>5 DEF Next

\* Every reachable state of the baseline's two ends and of the network is
\* well-formed (the structs of BaselineSigAuth.h).
THEOREM TypeCorrect == Spec => []TypeOK
BY InitType, NextType, PTL DEF Spec
-----------------------------------------------------------------------------
(* Agreement.  A request keeps its ephemeral secret until its key is         *)
(* derived, and every B3 bears the key of its sender's present request, or   *)
(* that of an earlier one.                                                   *)

DeviceInv == \A u \in Uav : ses[u].ephemeral => ses[u].sessionKey = None

ConfirmInv ==
    \A m \in msgs : m.type = "B3" =>
        /\ m.key.uav = m.from
        /\ m.key.n1 <= ses[m.from].n1
        /\ m.key.n1 = ses[m.from].n1 => ses[m.from].sessionKey = m.key

\* The ground station derives on a B3 of that device only.
GroundInv ==
    \A u \in Uav : gsSession[u].sessionKey # None =>
        \E m \in msgs : m.type = "B3" /\ m.from = u

AgreementInv == TypeOK /\ DeviceInv /\ ConfirmInv /\ GroundInv

LEMMA InitAgreement == Init => AgreementInv
BY InitType DEF Init, AgreementInv, DeviceInv, ConfirmInv, GroundInv

\* A step that leaves the devices' requests and keys alone, and sends no B3.
LEMMA KeepsConfirm ==
    ASSUME ConfirmInv, UNCHANGED ses,
           \A m \in msgs' : m.type = "B3" => m \in msgs
    PROVE  ConfirmInv'
BY DEF ConfirmInv

LEMMA KeepsGround ==
    ASSUME GroundInv, UNCHANGED gsSession, msgs \subseteq msgs'
    PROVE  GroundInv'
BY DEF GroundInv

LEMMA StartPhase2Agreement ==
    ASSUME AgreementInv, NEW u \in Uav, StartPhase2(u)
    PROVE  AgreementInv'
<1> DEFINE m1 == [type |-> "B1", from |-> u, n1 |-> ses[u].n1 + 1, t1 |-> now]
<1>1. TypeOK'
    BY StartPhase2Type DEF AgreementInv
<1>2. msgs' = msgs \cup {m1} /\ m1.type = "B1" /\ UNCHANGED gsSession
    BY DEF StartPhase2, Send, gsVars
<1> HIDE DEF m1
<1>3. \A v \in Uav :
          /\ ses'[v].n1 = IF v = u THEN ses[v].n1 + 1 ELSE ses[v].n1
          /\ ses'[v].sessionKey = IF v = u THEN None ELSE ses[v].sessionKey
          /\ v # u => ses'[v] = ses[v]
    BY DEF StartPhase2, AgreementInv, TypeOK
<1>4. DeviceInv'
    BY <1>3 DEF AgreementInv, DeviceInv
<1>5. ConfirmInv'
    <2> SUFFICES ASSUME NEW m \in msgs, m.type = "B3"
                 PROVE  /\ m.key.uav = m.from
                        /\ m.key.n1 <= ses'[m.from].n1
                        /\ m.key.n1 = ses'[m.from].n1 => ses'[m.from].sessionKey = m.key
        BY <1>2 DEF ConfirmInv
    <2>1. m \in MessageB3
        BY Fields DEF AgreementInv
    <2>2. m.from \in Uav /\ m.key.n1 \in Nat /\ ses[m.from].n1 \in Nat
        BY <2>1, Fields DEF AgreementInv, MessageB3, Key, UavSession
    <2>3. /\ m.key.uav = m.from
          /\ m.key.n1 <= ses[m.from].n1
          /\ m.key.n1 = ses[m.from].n1 => ses[m.from].sessionKey = m.key
        BY DEF AgreementInv, ConfirmInv
    <2>4. CASE m.from = u
        BY <1>3, <2>2, <2>3, <2>4
    <2>5. CASE m.from # u
        BY <1>3, <2>2, <2>3, <2>5
    <2> QED
        BY <2>4, <2>5
<1>6. GroundInv'
    BY <1>2, KeepsGround DEF AgreementInv
<1> QED
    BY <1>1, <1>4, <1>5, <1>6 DEF AgreementInv

LEMMA HandleB1Agreement ==
    ASSUME AgreementInv, NEW m \in msgs, NEW intact \in BOOLEAN,
           HandleB1(m, intact)
    PROVE  AgreementInv'
<1>1. TypeOK'
    BY HandleB1Type DEF AgreementInv
<1>2. UNCHANGED ses
    BY DEF HandleB1, uavVars
<1>3. msgs \subseteq msgs' /\ \A x \in msgs' : x.type = "B3" => x \in msgs
    BY DEF HandleB1, OpenGsSession, Send
<1>4. \A u \in Uav : gsSession'[u].sessionKey # None =>
                        gsSession[u].sessionKey # None
    <2>1. CASE OpenGsSession(m)
        <3> DEFINE n2 == gsSession[m.from].n2 + 1
                   s == [n1 |-> m.n1, n2 |-> n2,
                         transcript |-> <<InputB1(m.from, m.n1, m.t1),
                                          InputB2(m.from, m.n1, n2, now)>>,
                         ephemeral |-> TRUE, sessionKey |-> None]
        <3>1. gsSession' = [gsSession EXCEPT ![m.from] = s]
            BY <2>1 DEF OpenGsSession
        <3>2. s.sessionKey = None
            OBVIOUS
        <3> HIDE DEF s
        <3> QED
            BY <3>1, <3>2 DEF AgreementInv, TypeOK
    <2>2. CASE UNCHANGED gsSession
        BY <2>2
    <2> QED
        BY <2>1, <2>2 DEF HandleB1
<1>5. DeviceInv'
    BY <1>2 DEF AgreementInv, DeviceInv
<1>6. ConfirmInv'
    BY <1>2, <1>3, KeepsConfirm DEF AgreementInv
<1>7. GroundInv'
    BY <1>3, <1>4 DEF AgreementInv, GroundInv
<1> QED
    BY <1>1, <1>5, <1>6, <1>7 DEF AgreementInv

LEMMA HandleB2Agreement ==
    ASSUME AgreementInv, NEW m \in msgs, NEW intact \in BOOLEAN,
           HandleB2(m, intact)
    PROVE  AgreementInv'
<1>1. TypeOK' /\ UNCHANGED gsSession
    BY HandleB2Type DEF AgreementInv, HandleB2, gsVars
<1>2. m \in MessageB2 /\ m.to \in Uav /\ ses \in [Uav -> UavSession]
    BY Fields DEF HandleB2, MessageB2, AgreementInv, TypeOK
<1>3. CASE UNCHANGED <<ses, msgs>>
    BY <1>1, <1>3 DEF AgreementInv, DeviceInv, ConfirmInv, GroundInv
<1>4. CASE AuthenticB2(m, intact) /\ AcceptB2(m) /\ ses[m.to].ephemeral
    <2>1. PICK key \in Key, s \in UavSession :
              /\ key.uav = m.to /\ key.n1 = ses[m.to].n1
              /\ ses' = [ses EXCEPT ![m.to] = s]
              /\ s.n1 = ses[m.to].n1
              /\ s.sessionKey = key
              /\ s.ephemeral = FALSE
              /\ msgs' = msgs \cup {[type |-> "B3", from |-> m.to, key |-> key]}
        BY <1>2, <1>4, AcceptedB2 DEF AuthenticB2, AgreementInv
    <2>2. ses[m.to].sessionKey = None
        BY <1>2, <1>4 DEF AgreementInv, DeviceInv
    <2>3. DeviceInv'
        BY <1>2, <2>1 DEF AgreementInv, DeviceInv
    <2>4. ConfirmInv'
        <3> SUFFICES ASSUME NEW x \in msgs', x.type = "B3"
                     PROVE  /\ x.key.uav = x.from
                            /\ x.key.n1 <= ses'[x.from].n1
                            /\ x.key.n1 = ses'[x.from].n1 => ses'[x.from].sessionKey = x.key
            BY DEF ConfirmInv
        <3>1. CASE x \in msgs
            <4>1. x \in MessageB3
                BY <3>1, Fields DEF AgreementInv
            <4>2. x.from \in Uav /\ x.key # None
                BY <4>1, BaselineAssumption DEF MessageB3
            <4>3. /\ x.key.uav = x.from
                  /\ x.key.n1 <= ses[x.from].n1
                  /\ x.key.n1 = ses[x.from].n1 => ses[x.from].sessionKey = x.key
                BY <3>1 DEF AgreementInv, ConfirmInv
            <4>4. CASE x.from = m.to
                BY <1>2, <2>1, <2>2, <4>2, <4>3, <4>4
            <4>5. CASE x.from # m.to
                BY <1>2, <2>1, <4>2, <4>3, <4>5
            <4> QED
                BY <4>4, <4>5
        <3>2. CASE x \notin msgs
            <4>1. x.from = m.to /\ x.key = key
                BY <2>1, <3>2
            <4>2. ses'[m.to] = s /\ s.n1 \in Nat
                BY <1>2, <2>1 DEF UavSession
            <4> QED
                BY <2>1, <4>1, <4>2
        <3> QED
            BY <3>1, <3>2
    <2>5. GroundInv'
        BY <1>1, <2>1, KeepsGround DEF AgreementInv
    <2> QED
        BY <1>1, <2>3, <2>4, <2>5 DEF AgreementInv
<1>5. CASE AuthenticB2(m, intact) /\ AcceptB2(m) /\ ~ses[m.to].ephemeral
    <2>1. PICK s \in UavSession :
              /\ UNCHANGED msgs
              /\ ses' = [ses EXCEPT ![m.to] = s]
              /\ s.n1 = ses[m.to].n1
              /\ s.sessionKey = ses[m.to].sessionKey
              /\ s.ephemeral = ses[m.to].ephemeral
        BY <1>2, <1>5, AcceptedB2 DEF AuthenticB2, AgreementInv
    <2>2. \A v \in Uav : /\ ses'[v].n1 = ses[v].n1
                         /\ ses'[v].sessionKey = ses[v].sessionKey
                         /\ ses'[v].ephemeral = ses[v].ephemeral
        BY <1>2, <2>1
    <2>3. \A x \in msgs : x.type = "B3" => x.from \in Uav
        BY Fields DEF AgreementInv, MessageB3
    <2>4. DeviceInv'
        BY <2>2 DEF AgreementInv, DeviceInv
    <2>5. ConfirmInv'
        BY <2>1, <2>2, <2>3 DEF AgreementInv, ConfirmInv
    <2>6. GroundInv'
        BY <1>1, <2>1, KeepsGround DEF AgreementInv
    <2> QED
        BY <1>1, <2>4, <2>5, <2>6 DEF AgreementInv
<1> QED
    BY <1>3, <1>4, <1>5 DEF HandleB2

LEMMA HandleB3Agreement ==
    ASSUME AgreementInv, NEW m \in msgs, NEW intact \in BOOLEAN,
           HandleB3(m, intact)
    PROVE  AgreementInv'
<1>1. TypeOK' /\ UNCHANGED ses
    BY HandleB3Type DEF AgreementInv, HandleB3, uavVars
<1>2. PICK u \in SessionsOf(m.from) :
          /\ gsSession' = [gsSession EXCEPT ![u].sessionKey = GsKey(u),
                                            ![u].ephemeral = FALSE]
          /\ \/ Send([type |-> "B4", to |-> u, key |-> GsKey(u)])
             \/ UNCHANGED msgs
    BY DEF HandleB3
<1>3. u = m.from /\ m.type = "B3"
    BY DEF SessionsOf, HandleB3
<1>4. msgs \subseteq msgs' /\ \A x \in msgs' : x.type = "B3" => x \in msgs
    BY <1>2 DEF Send
<1>5. \A v \in Uav : v # u => gsSession'[v] = gsSession[v]
    BY <1>2 DEF AgreementInv, TypeOK
<1>6. DeviceInv'
    BY <1>1 DEF AgreementInv, DeviceInv
<1>7. ConfirmInv'
    BY <1>1, <1>4, KeepsConfirm DEF AgreementInv
<1>8. GroundInv'
    BY <1>3, <1>4, <1>5 DEF AgreementInv, GroundInv
<1> QED
    BY <1>1, <1>6, <1>7, <1>8 DEF AgreementInv

LEMMA HandleB4Agreement ==
    ASSUME AgreementInv, NEW m \in msgs, NEW intact \in BOOLEAN,
           HandleB4(m, intact)
    PROVE  AgreementInv'
<1>1. TypeOK' /\ UNCHANGED <<gsSession, msgs>>
    BY HandleB4Type DEF AgreementInv, HandleB4, gsVars
<1>2. m.to \in Uav /\ ses \in [Uav -> UavSession]
    BY Fields DEF HandleB4, MessageB4, AgreementInv, TypeOK
<1>3. \A v \in Uav : /\ ses'[v].n1 = ses[v].n1
                     /\ ses'[v].sessionKey = ses[v].sessionKey
                     /\ ses'[v].ephemeral = ses[v].ephemeral
    BY <1>2 DEF HandleB4, UavSession
<1>4. \A x \in msgs : x.type = "B3" => x.from \in Uav
    BY Fields DEF AgreementInv, MessageB3
<1>5. DeviceInv'
    BY <1>3 DEF AgreementInv, DeviceInv
<1>6. ConfirmInv'
    BY <1>1, <1>3, <1>4 DEF AgreementInv, ConfirmInv
<1>7. GroundInv'
    BY <1>1, KeepsGround DEF AgreementInv
<1> QED
    BY <1>1, <1>5, <1>6, <1>7 DEF AgreementInv

LEMMA NextAgreement == AgreementInv /\ [Next]_vars => AgreementInv'
<1> SUFFICES ASSUME AgreementInv, [Next]_vars PROVE AgreementInv'
    OBVIOUS
<1>1. CASE UNCHANGED <<gsSession, ses, msgs>>
    <2>1. TypeOK'
        BY NextType DEF AgreementInv
    <2> QED
        BY <1>1, <2>1 DEF AgreementInv, DeviceInv, ConfirmInv, GroundInv
<1>2. CASE \E u \in Uav : Enroll(u)
    BY <1>1, <1>2 DEF Enroll, uavVars
<1>3. CASE \E u \in Uav : StartPhase2(u)
    BY <1>3, StartPhase2Agreement
<1>4. CASE Deliver
    BY <1>4, HandleB1Agreement, HandleB2Agreement, HandleB3Agreement,
       HandleB4Agreement DEF Deliver
<1>5. CASE Tick \/ UNCHANGED vars
    BY <1>1, <1>5 DEF Tick, vars, gsVars, uavVars
<1> QED
    BY <1>2, <1>3, <1>4, <1>5 DEF Next

\* The inductive invariant behind the two theorems that follow.
THEOREM Agreement == Spec => []AgreementInv
BY InitAgreement, NextAgreement, PTL DEF Spec

\* The ground station holds the key of a request whose device has none only
\* where a B3 of an earlier request reached it first: handleM3 erases the
\* ephemeral secret before it checks the confirmation.
THEOREM AheadOnlyByOutdated == Spec => []AheadOnlyByOutdatedB3
<1>1. AgreementInv => AheadOnlyByOutdatedB3
    <2> SUFFICES ASSUME AgreementInv, NEW u \in Uav,
                        gsSession[u].sessionKey # None,
                        ses[u].sessionKey = None
                 PROVE  \E m \in msgs : /\ m.type = "B3"
                                        /\ m.from = u
                                        /\ m.key.n1 < ses[u].n1
        BY DEF AheadOnlyByOutdatedB3
    <2>1. PICK m \in msgs : m.type = "B3" /\ m.from = u
        BY DEF AgreementInv, GroundInv
    <2>2. m.key # None /\ m.key.n1 \in Nat /\ ses[u].n1 \in Nat
        BY <2>1, Fields, BaselineAssumption
        DEF AgreementInv, MessageB3, Key, UavSession
    <2>3. m.key.n1 <= ses[u].n1 /\ m.key.n1 # ses[u].n1
        BY <2>1, <2>2 DEF AgreementInv, ConfirmInv
    <2> QED
        BY <2>1, <2>2, <2>3
<1> QED
    BY <1>1, Agreement, PTL
-----------------------------------------------------------------------------
(* Refinement *)

\* What the exchange sees of a step: the present request, key and completion
\* of each device, and the keys behind the B3s and B4s sent so far.
Unseen ==
    /\ \A u \in Uav : /\ ses'[u].n1 = ses[u].n1
                      /\ ses'[u].sessionKey = ses[u].sessionKey
                      /\ ses'[u].established = ses[u].established
    /\ KeysOf("B3")' = KeysOf("B3")
    /\ KeysOf("B4")' = KeysOf("B4")

LEMMA UnseenStutters ==
    ASSUME Unseen
    PROVE  UNCHANGED Exchange!vars
BY DEF Unseen, Exchange!vars

LEMMA InitRefines == Init => Exchange!Init
BY DEF Init, Exchange!Init, KeysOf

LEMMA RequestRefines ==
    ASSUME AgreementInv, NEW u \in Uav, StartPhase2(u)
    PROVE  Exchange!Request(u)
<1>1. KeysOf("B3")' = KeysOf("B3") /\ KeysOf("B4")' = KeysOf("B4")
    <2> DEFINE m1 == [type |-> "B1", from |-> u, n1 |-> ses[u].n1 + 1, t1 |-> now]
    <2>1. msgs' = msgs \cup {m1} /\ m1.type = "B1"
        BY DEF StartPhase2, Send
    <2> HIDE DEF m1
    <2> QED
        BY <2>1 DEF KeysOf
<1>2. \A v \in Uav :
          /\ ses'[v].n1 = IF v = u THEN ses[v].n1 + 1 ELSE ses[v].n1
          /\ ses'[v].sessionKey = IF v = u THEN None ELSE ses[v].sessionKey
          /\ ses'[v].established = IF v = u THEN FALSE ELSE ses[v].established
    BY DEF StartPhase2, AgreementInv, TypeOK
<1> QED
    BY <1>1, <1>2 DEF Exchange!Request

LEMMA HandleB1Refines ==
    ASSUME NEW m \in msgs, NEW intact \in BOOLEAN, HandleB1(m, intact)
    PROVE  Unseen
<1>1. CASE OpenGsSession(m)
    <2> DEFINE m2 == [type |-> "B2", to |-> m.from, n1 |-> m.n1,
                      n2 |-> gsSession[m.from].n2 + 1, t2 |-> now]
    <2>1. msgs' = msgs \cup {m2} /\ m2.type = "B2"
        BY <1>1 DEF OpenGsSession, Send
    <2> HIDE DEF m2
    <2>2. KeysOf("B3")' = KeysOf("B3") /\ KeysOf("B4")' = KeysOf("B4")
        BY <2>1 DEF KeysOf
    <2> QED
        BY <2>2 DEF HandleB1, uavVars, Unseen
<1>2. CASE UNCHANGED <<gsSession, msgs>>
    BY <1>2 DEF HandleB1, uavVars, Unseen, KeysOf
<1> QED
    BY <1>1, <1>2 DEF HandleB1

\* A key is derived at most once for a request: with the ephemeral secret
\* still there, every B3 of the device is one of an earlier request.
LEMMA HandleB2Refines ==
    ASSUME AgreementInv, NEW m \in msgs, NEW intact \in BOOLEAN,
           HandleB2(m, intact)
    PROVE  Unseen \/ Exchange!Derive(m.to)
<1>1. m \in MessageB2 /\ m.to \in Uav /\ ses \in [Uav -> UavSession]
    BY Fields DEF HandleB2, MessageB2, AgreementInv, TypeOK
<1>2. CASE AuthenticB2(m, intact) /\ AcceptB2(m) /\ ses[m.to].ephemeral
    <2>1. PICK key \in Key, s \in UavSession :
              /\ key.uav = m.to /\ key.n1 = ses[m.to].n1
              /\ ses' = [ses EXCEPT ![m.to] = s]
              /\ s.n1 = ses[m.to].n1
              /\ s.established = ses[m.to].established
              /\ s.sessionKey = key
              /\ msgs' = msgs \cup {[type |-> "B3", from |-> m.to, key |-> key]}
        BY <1>1, <1>2, AcceptedB2 DEF AuthenticB2, AgreementInv
    <2>2. ses[m.to].sessionKey = None
        BY <1>1, <1>2 DEF AgreementInv, DeviceInv
    <2>3. KeysOf("B3")' = KeysOf("B3") \cup {key} /\ KeysOf("B4")' = KeysOf("B4")
        <3> DEFINE m3 == [type |-> "B3", from |-> m.to, key |-> key]
        <3>1. m3.type = "B3" /\ m3.key = key /\ msgs' = msgs \cup {m3}
            BY <2>1
        <3> HIDE DEF m3
        <3> QED
            BY <3>1 DEF KeysOf
    <2>4. \A old \in KeysOf("B3") : old.uav = m.to => old.n1 # key.n1
        <3> SUFFICES ASSUME NEW x \in msgs, x.type = "B3", x.key.uav = m.to
                     PROVE  x.key.n1 # ses[m.to].n1
            BY <2>1 DEF KeysOf
        <3>1. x.key # None
            BY Fields, BaselineAssumption DEF AgreementInv, MessageB3
        <3> QED
            BY <2>2, <3>1 DEF AgreementInv, ConfirmInv
    <2>5. key \in KeysOf("B3")' \ KeysOf("B3")
        BY <2>1, <2>3, <2>4
    <2>6. /\ [u \in Uav |-> ses'[u].sessionKey]
                 = [[u \in Uav |-> ses[u].sessionKey] EXCEPT ![m.to] = key]
          /\ [u \in Uav |-> ses'[u].n1] = [u \in Uav |-> ses[u].n1]
          /\ [u \in Uav |-> ses'[u].established]
                 = [u \in Uav |-> ses[u].established]
        BY <1>1, <2>1
    <2>7. /\ [u \in Uav |-> ses[u].sessionKey][m.to] = None
          /\ key.n1 = [u \in Uav |-> ses[u].n1][m.to]
        BY <1>1, <2>1, <2>2
    <2>8. key.uav = m.to
        BY <2>1
    <2> QED
        BY <2>3, <2>4, <2>5, <2>6, <2>7, <2>8 DEF Exchange!Derive
<1>3. CASE AuthenticB2(m, intact) /\ AcceptB2(m) /\ ~ses[m.to].ephemeral
    <2>1. PICK s \in UavSession :
              /\ UNCHANGED msgs
              /\ ses' = [ses EXCEPT ![m.to] = s]
              /\ s.n1 = ses[m.to].n1
              /\ s.established = ses[m.to].established
              /\ s.sessionKey = ses[m.to].sessionKey
        BY <1>1, <1>3, AcceptedB2 DEF AuthenticB2, AgreementInv
    <2> QED
        BY <1>1, <2>1 DEF Unseen, KeysOf
<1>4. CASE UNCHANGED <<ses, msgs>>
    BY <1>4 DEF Unseen, KeysOf
<1> QED
    BY <1>2, <1>3, <1>4 DEF HandleB2

\* A confirmation is sent for the key of the B3 it answers.
LEMMA HandleB3Refines ==
    ASSUME NEW m \in msgs, NEW intact \in BOOLEAN, HandleB3(m, intact)
    PROVE  Unseen \/ Exchange!Commit
<1>1. m.type = "B3" /\ UNCHANGED ses
    BY DEF HandleB3, uavVars
<1>2. CASE UNCHANGED msgs
    BY <1>1, <1>2 DEF Unseen, KeysOf
<1>3. CASE ~UNCHANGED msgs
    <2>1. PICK u : /\ m.key = GsKey(u)
                   /\ Send([type |-> "B4", to |-> u, key |-> GsKey(u)])
        BY <1>3 DEF HandleB3
    <2>2. /\ KeysOf("B3")' = KeysOf("B3")
          /\ KeysOf("B4")' = KeysOf("B4") \cup {m.key}
        <3> DEFINE m4 == [type |-> "B4", to |-> u, key |-> GsKey(u)]
        <3>1. m4.type = "B4" /\ m4.key = m.key /\ msgs' = msgs \cup {m4}
            BY <2>1 DEF Send
        <3> HIDE DEF m4
        <3> QED
            BY <3>1 DEF KeysOf
    <2>3. m.key \in KeysOf("B3")
        BY <1>1 DEF KeysOf
    <2>4. CASE m.key \in KeysOf("B4")
        BY <1>1, <2>2, <2>4 DEF Unseen
    <2>5. CASE m.key \notin KeysOf("B4")
        BY <1>1, <2>2, <2>3, <2>5 DEF Exchange!Commit
    <2> QED
        BY <2>4, <2>5
<1> QED
    BY <1>2, <1>3

LEMMA HandleB4Refines ==
    ASSUME AgreementInv, NEW m \in msgs, NEW intact \in BOOLEAN,
           HandleB4(m, intact)
    PROVE  Exchange!Establish(m.to)
<1>1. m.to \in Uav /\ m.type = "B4" /\ ses \in [Uav -> UavSession]
    BY Fields DEF HandleB4, MessageB4, AgreementInv, TypeOK
<1>2. ses[m.to].sessionKey \in KeysOf("B4")
    BY <1>1 DEF HandleB4, AuthenticB4, KeysOf
<1>3. KeysOf("B3")' = KeysOf("B3") /\ KeysOf("B4")' = KeysOf("B4")
    BY DEF HandleB4, KeysOf
<1>4. \A v \in Uav :
          /\ ses'[v].n1 = ses[v].n1
          /\ ses'[v].sessionKey = ses[v].sessionKey
          /\ ses'[v].established = IF v = m.to THEN TRUE ELSE ses[v].established
    BY <1>1 DEF HandleB4, UavSession
<1> QED
    BY <1>1, <1>2, <1>3, <1>4 DEF Exchange!Establish

LEMMA NextRefines ==
    AgreementInv /\ [Next]_vars => [Exchange!Next]_(Exchange!vars)
<1> SUFFICES ASSUME AgreementInv, [Next]_vars
             PROVE  Exchange!Next \/ UNCHANGED Exchange!vars
    OBVIOUS
<1>1. CASE \E u \in Uav : StartPhase2(u)
    BY <1>1, RequestRefines DEF Exchange!Next
<1>2. CASE Deliver
    <2>1. PICK m \in msgs, intact \in BOOLEAN :
              \/ HandleB1(m, intact)
              \/ HandleB2(m, intact)
              \/ HandleB3(m, intact)
              \/ HandleB4(m, intact)
        BY <1>2 DEF Deliver
    <2>2. m.type \in {"B2", "B4"} => m.to \in Uav
        BY Fields DEF AgreementInv, MessageB2, MessageB4
    <2>3. CASE HandleB1(m, intact)
        BY <2>3, HandleB1Refines, UnseenStutters
    <2>4. CASE HandleB2(m, intact)
        <3>1. m.to \in Uav
            BY <2>2, <2>4 DEF HandleB2
        <3> QED
            BY <2>4, <3>1, HandleB2Refines, UnseenStutters DEF Exchange!Next
    <2>5. CASE HandleB3(m, intact)
        BY <2>5, HandleB3Refines, UnseenStutters DEF Exchange!Next
    <2>6. CASE HandleB4(m, intact)
        <3>1. m.to \in Uav
            BY <2>2, <2>6 DEF HandleB4
        <3> QED
            BY <2>6, <3>1, HandleB4Refines DEF Exchange!Next
    <2> QED
        BY <2>1, <2>3, <2>4, <2>5, <2>6
<1>3. CASE UNCHANGED <<ses, msgs>>
    <2>1. Unseen
        BY <1>3 DEF Unseen, KeysOf
    <2> QED
        BY <2>1, UnseenStutters
<1>4. CASE \E u \in Uav : Enroll(u)
    BY <1>3, <1>4 DEF Enroll, uavVars
<1>5. CASE Tick \/ UNCHANGED vars
    BY <1>3, <1>5 DEF Tick, vars, uavVars
<1> QED
    BY <1>1, <1>2, <1>4, <1>5 DEF Next

\* The baseline implements the key exchange that Phase 2 implements: one key
\* per request, derived by the device, confirmed by the ground station only
\* afterwards, and taken for established only once confirmed (handleM2,
\* handleM3 and handleM4 of BaselineSigAuth.cc together).
THEOREM Refinement == Spec => RefinesKeyExchange
<1>1. Init => Exchange!Init
    BY InitRefines
<1>2. AgreementInv /\ [Next]_vars => [Exchange!Next]_(Exchange!vars)
    BY NextRefines
<1> QED
    BY <1>1, <1>2, Agreement, PTL DEF Spec, RefinesKeyExchange, Exchange!Spec
-----------------------------------------------------------------------------
(* The ground station's statistics *)

Confirmations == {m \in msgs : m.type = "B4"}

\* A confirmation belongs to a session whose secret is gone, and there are as
\* many of them as the ground station has counted.
CountInv ==
    /\ IsFiniteSet(Confirmations)
    /\ successes = Cardinality(Confirmations)
    /\ \A m \in Confirmations :
           /\ m.key.n2 <= gsSession[m.to].n2
           /\ m.key.n2 = gsSession[m.to].n2 => ~gsSession[m.to].ephemeral

LEMMA ConfirmationFields ==
    ASSUME TypeOK, NEW m \in Confirmations
    PROVE  m.to \in Uav /\ m.key.n2 \in Nat
BY Fields DEF Confirmations, MessageB4, Key

\* A step that sends no B4 and does not open a session leaves the count alone.
LEMMA KeepsCount ==
    ASSUME TypeOK, CountInv, UNCHANGED successes,
           \A m \in msgs' : m \in msgs \/ m.type # "B4",
           msgs \subseteq msgs',
           \A u \in Uav : \/ gsSession'[u] = gsSession[u]
                          \/ gsSession'[u].n2 = gsSession[u].n2 + 1
                          \/ /\ gsSession'[u].n2 = gsSession[u].n2
                             /\ ~gsSession'[u].ephemeral
    PROVE  CountInv'
<1>1. Confirmations' = Confirmations
    BY DEF Confirmations
<1>2. \A u \in Uav : gsSession[u].n2 \in Nat
    BY Fields DEF GsSession
<1>3. ASSUME NEW m \in Confirmations
      PROVE  /\ m.key.n2 <= gsSession'[m.to].n2
             /\ m.key.n2 = gsSession'[m.to].n2 => ~gsSession'[m.to].ephemeral
    <2>1. /\ m.to \in Uav /\ m.key.n2 \in Nat /\ gsSession[m.to].n2 \in Nat
          /\ m.key.n2 <= gsSession[m.to].n2
          /\ m.key.n2 = gsSession[m.to].n2 => ~gsSession[m.to].ephemeral
        BY <1>2, <1>3, ConfirmationFields DEF CountInv
    <2> QED
        BY <2>1
<1> QED
    BY <1>1, <1>3 DEF CountInv

LEMMA NextCount == TypeOK /\ CountInv /\ [Next]_vars => CountInv'
<1> SUFFICES ASSUME TypeOK, CountInv, [Next]_vars PROVE CountInv'
    OBVIOUS
<1>1. ASSUME NEW u \in Uav, Enroll(u) PROVE CountInv'
    BY <1>1, KeepsCount DEF Enroll
<1>2. ASSUME NEW u \in Uav, StartPhase2(u) PROVE CountInv'
    <2> DEFINE b1 == [type |-> "B1", from |-> u, n1 |-> ses[u].n1 + 1, t1 |-> now]
    <2>1. msgs' = msgs \cup {b1} /\ UNCHANGED <<gsSession, successes>>
        BY <1>2 DEF StartPhase2, Send, gsVars
    <2>2. b1.type = "B1"
        OBVIOUS
    <2> HIDE DEF b1
    <2> QED
        BY <2>1, <2>2, KeepsCount
<1>3. ASSUME NEW m \in msgs, NEW intact \in BOOLEAN, HandleB1(m, intact)
      PROVE  CountInv'
    <2>1. m.from \in Uav /\ UNCHANGED successes
        BY <1>3, Fields DEF HandleB1, MessageB1
    <2>2. CASE OpenGsSession(m)
        <3> DEFINE u == m.from
                   b2 == [type |-> "B2", to |-> u, n1 |-> m.n1,
                          n2 |-> gsSession[u].n2 + 1, t2 |-> now]
        <3>1. msgs' = msgs \cup {b2}
            BY <2>2 DEF OpenGsSession, Send
        <3>2. /\ gsSession'[u].n2 = gsSession[u].n2 + 1
              /\ \A v \in Uav \ {u} : gsSession'[v] = gsSession[v]
            BY <2>1, <2>2 DEF OpenGsSession, TypeOK
        <3>3. b2.type = "B2"
            OBVIOUS
        <3> HIDE DEF b2
        <3> QED
            BY <2>1, <3>1, <3>2, <3>3, KeepsCount
    <2>3. CASE UNCHANGED <<gsSession, msgs>>
        BY <2>1, <2>3, KeepsCount
    <2> QED
        BY <1>3, <2>2, <2>3 DEF HandleB1
<1>4. ASSUME NEW m \in msgs, NEW intact \in BOOLEAN, HandleB2(m, intact)
      PROVE  CountInv'
    <2>1. UNCHANGED <<gsSession, successes>>
        BY <1>4 DEF HandleB2, gsVars
    <2>2. m \in MessageB2
        BY <1>4, Fields DEF HandleB2
    <2>3. CASE AcceptB2(m) /\ m.n1 = ses[m.to].n1
        <3>1. ASSUME NEW key,
                     msgs' = msgs \cup
                         {[type |-> "B3", from |-> m.to, key |-> key]}
              PROVE  CountInv'
            <4> DEFINE b3 == [type |-> "B3", from |-> m.to, key |-> key]
            <4>1. msgs' = msgs \cup {b3} /\ b3.type = "B3"
                BY <3>1
            <4> HIDE DEF b3
            <4> QED
                BY <2>1, <4>1, KeepsCount
        <3>2. CASE msgs' = msgs
            BY <2>1, <3>2, KeepsCount
        <3> QED
            BY <2>2, <2>3, <3>1, <3>2, AcceptedB2
    <2>4. CASE UNCHANGED <<ses, msgs>>
        BY <2>1, <2>4, KeepsCount
    <2> QED
        BY <1>4, <2>3, <2>4 DEF HandleB2, AuthenticB2
<1>5. ASSUME NEW m \in msgs, NEW intact \in BOOLEAN, HandleB3(m, intact)
      PROVE  CountInv'
    <2>1. PICK u \in SessionsOf(m.from) :
              /\ gsSession[u].ephemeral
              /\ gsSession' = [gsSession EXCEPT ![u].sessionKey = GsKey(u),
                                                ![u].ephemeral = FALSE]
              /\ \/ /\ successes' = successes + 1
                    /\ Send([type |-> "B4", to |-> u, key |-> GsKey(u)])
                 \/ UNCHANGED <<successes, msgs>>
        BY <1>5 DEF HandleB3, CanDerive
    <2>2. u \in Uav
        BY <1>5, <2>1, Fields DEF HandleB3, MessageB3, SessionsOf
    <2>3. /\ \A v \in Uav \ {u} : gsSession'[v] = gsSession[v]
          /\ gsSession'[u].n2 = gsSession[u].n2
          /\ ~gsSession'[u].ephemeral
        BY <2>1, <2>2 DEF TypeOK, GsSession
    <2>4. CASE UNCHANGED <<successes, msgs>>
        BY <2>3, <2>4, KeepsCount
    <2>5. CASE /\ successes' = successes + 1
               /\ Send([type |-> "B4", to |-> u, key |-> GsKey(u)])
        <3> DEFINE b4 == [type |-> "B4", to |-> u, key |-> GsKey(u)]
        <3>1. /\ msgs' = msgs \cup {b4} /\ b4.type = "B4" /\ b4.to = u
              /\ b4.key.n2 = gsSession[u].n2
            BY <2>5 DEF Send, GsKey, SessionKey
        <3> HIDE DEF b4
        <3>2. b4 \notin Confirmations
            BY <2>1, <3>1 DEF CountInv
        <3>3. Confirmations' = Confirmations \cup {b4}
            BY <3>1 DEF Confirmations
        <3>4. /\ IsFiniteSet(Confirmations')
              /\ Cardinality(Confirmations') = Cardinality(Confirmations) + 1
            BY <3>2, <3>3, FS_AddElement DEF CountInv
        <3>5. successes' = Cardinality(Confirmations')
            BY <2>5, <3>4 DEF CountInv
        <3>6. ASSUME NEW x \in Confirmations'
              PROVE  /\ x.key.n2 <= gsSession'[x.to].n2
                     /\ x.key.n2 = gsSession'[x.to].n2 =>
                            ~gsSession'[x.to].ephemeral
            <4>1. CASE x = b4
                <5>1. gsSession[u].n2 \in Nat
                    BY <2>2, Fields DEF GsSession
                <5> QED
                    BY <2>3, <3>1, <4>1, <5>1
            <4>2. CASE x \in Confirmations
                BY <2>3, <4>2, ConfirmationFields DEF CountInv
            <4> QED
                BY <3>3, <3>6, <4>1, <4>2
        <3> QED
            BY <3>4, <3>5, <3>6 DEF CountInv
    <2> QED
        BY <2>1, <2>4, <2>5
<1>6. ASSUME NEW m \in msgs, NEW intact \in BOOLEAN, HandleB4(m, intact)
      PROVE  CountInv'
    BY <1>6, KeepsCount DEF HandleB4, gsVars
<1>7. CASE Tick \/ UNCHANGED vars
    BY <1>7, KeepsCount DEF Tick, gsVars, vars
<1> QED
    BY <1>1, <1>2, <1>3, <1>4, <1>5, <1>6, <1>7 DEF Next, Deliver

\* handleM3 confirms a session at most once, however often and from whichever
\* request its B3 arrives: authSuccesses_ counts confirmations, not arrivals.
THEOREM Successes == Spec => []SuccessesCountConfirmations
<1>1. Init => CountInv
    <2> SUFFICES ASSUME Init PROVE CountInv
        OBVIOUS
    <2>1. Confirmations = {}
        BY DEF Init, Confirmations
    <2> QED
        BY <2>1, FS_EmptySet DEF Init, CountInv
<1>2. TypeOK /\ CountInv /\ [Next]_vars => CountInv'
    BY NextCount
<1>3. CountInv => SuccessesCountConfirmations
    BY DEF CountInv, SuccessesCountConfirmations, Confirmations
<1> QED
    BY <1>1, <1>2, <1>3, InitType, NextType, PTL DEF Spec
=============================================================================
