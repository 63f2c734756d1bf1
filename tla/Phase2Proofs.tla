---------------------------- MODULE Phase2Proofs ----------------------------
(***************************************************************************)
(* What holds of Phase2 for every set of devices, every bound, every       *)
(* window and every capacity of the replay caches.                         *)
(***************************************************************************)
EXTENDS Phase2, FreshnessProofs, SequenceTheorems, TLAPS

-----------------------------------------------------------------------------
(* Type correctness *)

\* A provisioned device has an identity to ask with (UavProtocol::provision).
Provisioned == \A u \in Uav : st[u].mk # 0 => st[u].tid \in Tid

TypeInv == TypeOK /\ Provisioned

LEMMA InitTypeInv == Init => TypeInv
<1> SUFFICES ASSUME Init PROVE TypeInv
    OBVIOUS
<1>1. <<>> \in Seq(Uav \X Nat) /\ <<>> \in Seq(Nat) /\ <<>> \in Seq(Input)
    OBVIOUS
<1> QED
    BY <1>1 DEF Init, TypeInv, TypeOK, Provisioned, DeviceRecord, GsSession,
                UavSession, Message

\* The fields of a message follow from its type.
LEMMA MessageFields ==
    ASSUME NEW m \in Message
    PROVE  /\ m.type = "M1" => m \in MessageM1
           /\ m.type = "M2" => m \in MessageM2
           /\ m.type = "M3" => m \in MessageM3
           /\ m.type = "M4" => m \in MessageM4
BY DEF Message, MessageM1, MessageM2, MessageM3, MessageM4

LEMMA EnrollType ==
    ASSUME TypeInv, NEW u \in Uav, Enroll(u)
    PROVE  TypeInv'
<1> DEFINE mk == dev[u].mk + 1
           tid == [uav |-> u, mk |-> mk, n1 |-> 0, n2 |-> 0]
<1>1. mk \in Nat /\ tid \in Tid
    BY DEF TypeInv, TypeOK, DeviceRecord, Tid
<1>2. dev' \in [Uav -> DeviceRecord]
    BY <1>1 DEF TypeInv, TypeOK, Enroll, DeviceRecord
<1>3. st' \in [Uav -> [mk : Nat, tid : Tid \cup {None}]]
    BY <1>1 DEF TypeInv, TypeOK, Enroll
<1>4. Provisioned'
    BY <1>1 DEF TypeInv, TypeOK, Provisioned, Enroll
<1> QED
    BY <1>2, <1>3, <1>4 DEF TypeInv, TypeOK, Enroll

LEMMA StartPhase2Type ==
    ASSUME TypeInv, NEW u \in Uav, StartPhase2(u)
    PROVE  TypeInv'
<1> DEFINE n1 == ses[u].n1 + 1
           input == InputM1(st[u].tid, n1, now)
           m == [type |-> "M1", from |-> u, tid |-> st[u].tid, n1 |-> n1,
                 t1 |-> now, mk |-> st[u].mk]
           s == [mk |-> st[u].mk, n1 |-> n1, n2 |-> 0,
                 tidAtRequest |-> st[u].tid, transcript |-> <<input>>,
                 ephemeral |-> TRUE, sessionKey |-> None,
                 established |-> FALSE, creds |-> {}]
<1>1. n1 \in Nat /\ st[u].tid \in Tid /\ st[u].mk \in Nat /\ now \in Nat
    BY DEF TypeInv, TypeOK, Provisioned, StartPhase2, UavSession
<1>2. <<input>> \in Seq(Input)
    BY <1>1 DEF InputM1, Input
<1>3. s \in UavSession
    BY <1>1, <1>2 DEF UavSession
<1>4. ses' \in [Uav -> UavSession]
    <2>1. ses' = [ses EXCEPT ![u] = s]
        BY DEF StartPhase2
    <2> QED
        BY <1>3, <2>1 DEF TypeInv, TypeOK
<1>5. msgs' \subseteq Message
    <2>1. m \in MessageM1
        BY <1>1 DEF MessageM1
    <2>2. msgs' = msgs \cup {m}
        BY DEF StartPhase2, Send
    <2> QED
        BY <2>1, <2>2 DEF TypeInv, TypeOK, Message
<1> QED
    BY <1>4, <1>5 DEF TypeInv, TypeOK, Provisioned, StartPhase2, gsVars

LEMMA HandleM1Type ==
    ASSUME TypeInv, NEW m \in msgs, NEW intact \in BOOLEAN, HandleM1(m, intact)
    PROVE  TypeInv'
<1>1. m \in MessageM1
    BY MessageFields DEF TypeInv, TypeOK, HandleM1
<1>2. gsSeen' \in Seq(Uav \X Nat)
    <2>1. <<m.from, m.n1>> \in Uav \X Nat
        BY <1>1 DEF MessageM1
    <2> QED
        BY <2>1, RememberType, Phase2Assumption
        DEF HandleM1, GsOffer, TypeInv, TypeOK
<1>3. CASE \E u \in Uav : AuthenticM1(u, m, intact) /\ OpenGsSession(u, m)
    <2>1. PICK u \in Uav : AuthenticM1(u, m, intact) /\ OpenGsSession(u, m)
        BY <1>3
    <2> DEFINE n2 == gsSession[u].n2 + 1
               first == InputM1(m.tid, m.n1, m.t1)
               second == InputM2(m.tid, m.n1, n2, now)
               s == [mk |-> dev[u].mk, n1 |-> m.n1, n2 |-> n2,
                     transcript |-> <<first, second>>, ephemeral |-> TRUE,
                     m3Verified |-> FALSE, sessionKey |-> None]
               m2 == [type |-> "M2", to |-> u, tid |-> m.tid, n1 |-> m.n1,
                      n2 |-> n2, t2 |-> now, mk |-> dev[u].mk]
    <2>2. n2 \in Nat /\ dev[u].mk \in Nat /\ now \in Nat
        BY DEF TypeInv, TypeOK, GsSession, DeviceRecord
    <2>3. first \in Input /\ second \in Input
        BY <1>1, <2>2 DEF InputM1, InputM2, Input, MessageM1
    <2>4. s \in GsSession
        <3>1. <<first, second>> \in Seq(Input)
            BY <2>3
        <3> QED
            BY <1>1, <2>2, <3>1 DEF GsSession, MessageM1
    <2>5. gsSession' \in [Uav -> GsSession]
        BY <2>1, <2>4 DEF OpenGsSession, TypeInv, TypeOK
    <2>6. m2 \in MessageM2
        BY <1>1, <2>2 DEF MessageM1, MessageM2
    <2>7. msgs' \subseteq Message
        BY <2>1, <2>6 DEF OpenGsSession, Send, Message, TypeInv, TypeOK
    <2> QED
        BY <1>2, <2>5, <2>7 DEF HandleM1, TypeInv, TypeOK, Provisioned, uavVars
<1>4. CASE UNCHANGED <<gsSession, msgs>>
    BY <1>2, <1>4 DEF HandleM1, TypeInv, TypeOK, Provisioned, uavVars
<1> QED
    BY <1>3, <1>4 DEF HandleM1

\* An authentic M2 names the identity and the request of its receiver.
LEMMA AcceptM2Type ==
    ASSUME TypeInv, NEW u \in Uav, NEW m \in MessageM2, AcceptM2(u, m),
           st[u].tid = m.tid
    PROVE  /\ ses' \in [Uav -> UavSession]
           /\ msgs' \subseteq Message
<1> DEFINE input == InputM2(st[u].tid, ses[u].n1, m.n2, m.t2)
           transcript == Append(ses[u].transcript, input)
           key == SessionKey(u, ses[u].mk, ses[u].n1, m.n2, transcript)
           m3 == [type |-> "M3", from |-> u, tid |-> st[u].tid,
                  transcript |-> transcript, mk |-> ses[u].mk]
<1>1. /\ ses[u] \in UavSession
      /\ m.tid \in Tid /\ m.n2 \in Nat /\ m.t2 \in Nat
    BY DEF TypeInv, TypeOK, MessageM2
<1>2. input \in Input
    BY <1>1 DEF InputM2, Input, UavSession
<1>3. transcript \in Seq(Input)
    BY <1>1, <1>2, AppendProperties DEF UavSession
<1>4. key \in Key
    BY <1>1, <1>3 DEF SessionKey, Key, UavSession
<1>5. m3 \in MessageM3
    BY <1>1, <1>3 DEF MessageM3, UavSession
<1>6. CASE /\ ses' = [ses EXCEPT ![u].n2 = m.n2,
                                ![u].transcript = transcript,
                                ![u].sessionKey = key,
                                ![u].ephemeral = FALSE]
           /\ Send(m3)
    BY <1>1, <1>3, <1>4, <1>5, <1>6
    DEF TypeInv, TypeOK, UavSession, Send, Message
<1>7. CASE /\ ses' = [ses EXCEPT ![u].n2 = m.n2,
                                ![u].transcript = transcript]
           /\ UNCHANGED msgs
    BY <1>1, <1>3, <1>7 DEF TypeInv, TypeOK, UavSession
<1> QED
    BY <1>6, <1>7 DEF AcceptM2

LEMMA HandleM2Type ==
    ASSUME TypeInv, NEW m \in msgs, NEW intact \in BOOLEAN, HandleM2(m, intact)
    PROVE  TypeInv'
<1>1. m \in MessageM2 /\ m.to \in Uav
    BY MessageFields DEF TypeInv, TypeOK, HandleM2, MessageM2
<1>2. uavSeen' \in [Uav -> Seq(Nat)]
    <2>1. m.n2 \in Nat
        BY <1>1 DEF MessageM2
    <2>2. Remember(uavSeen[m.to], m.n2, Capacity) \in Seq(Nat)
        BY <1>1, <2>1, RememberType, Phase2Assumption DEF TypeInv, TypeOK
    <2> QED
        BY <2>2 DEF HandleM2, UavOffer, TypeInv, TypeOK
<1>3. ses' \in [Uav -> UavSession] /\ msgs' \subseteq Message
    <2>1. CASE AuthenticM2(m, intact) /\ AcceptM2(m.to, m)
        BY <1>1, <2>1, AcceptM2Type DEF AuthenticM2
    <2>2. CASE UNCHANGED <<ses, msgs>>
        BY <2>2 DEF TypeInv, TypeOK
    <2> QED
        BY <2>1, <2>2 DEF HandleM2
<1> QED
    BY <1>2, <1>3 DEF HandleM2, TypeInv, TypeOK, Provisioned, gsVars

LEMMA HandleM3Type ==
    ASSUME TypeInv, NEW m \in msgs, NEW intact \in BOOLEAN, HandleM3(m, intact)
    PROVE  TypeInv'
<1>1. m \in MessageM3
    BY MessageFields DEF TypeInv, TypeOK, HandleM3
<1>2. PICK u \in Uav : AuthenticM3(u, m, intact) /\ ConfirmSession(u, m)
    BY DEF HandleM3
<1> DEFINE s == gsSession[u]
           key == SessionKey(u, dev[u].mk, s.n1, s.n2, s.transcript)
           tidNew == PendingIdentity(u)
           m4 == [type |-> "M4", to |-> u, key |-> key, tid |-> m.tid,
                  n1 |-> s.n1, n2 |-> s.n2, tidNew |-> tidNew,
                  creds |-> {v \in Uav \ {u} : dev[v].mk # 0}]
<1>3. s \in GsSession /\ dev[u] \in DeviceRecord
    BY DEF TypeInv, TypeOK
<1>4. key \in Key /\ tidNew \in Tid
    BY <1>3 DEF GsSession, DeviceRecord, SessionKey, Key, PendingIdentity, Tid
<1>5. m4 \in MessageM4
    BY <1>1, <1>3, <1>4 DEF MessageM3, MessageM4, GsSession
<1>6. gsSession' \in [Uav -> GsSession]
    BY <1>2, <1>3, <1>4 DEF ConfirmSession, GsSession, TypeInv, TypeOK
<1>7. dev' \in [Uav -> DeviceRecord]
    BY <1>2, <1>3, <1>4 DEF ConfirmSession, DeviceRecord, TypeInv, TypeOK
<1>8. msgs' \subseteq Message
    BY <1>2, <1>5 DEF ConfirmSession, Send, Message, TypeInv, TypeOK
<1> QED
    BY <1>6, <1>7, <1>8 DEF HandleM3, TypeInv, TypeOK, Provisioned, uavVars

LEMMA HandleM4Type ==
    ASSUME TypeInv, NEW m \in msgs, NEW intact \in BOOLEAN, HandleM4(m, intact)
    PROVE  TypeInv'
<1>1. m \in MessageM4
    BY MessageFields DEF TypeInv, TypeOK, HandleM4
<1>2. m.to \in Uav /\ m.tidNew \in Tid /\ m.creds \in SUBSET Uav
    BY <1>1 DEF MessageM4
<1>3. ses' \in [Uav -> UavSession]
    <2> DEFINE s == [ses[m.to] EXCEPT !.creds = m.creds, !.established = TRUE]
    <2>1. ses[m.to] \in UavSession
        BY <1>2 DEF TypeInv, TypeOK
    <2>2. s \in UavSession
        BY <1>2, <2>1 DEF UavSession
    <2>3. ses' = [ses EXCEPT ![m.to] = s]
        BY <1>2 DEF HandleM4, TypeInv, TypeOK
    <2> HIDE DEF s
    <2> QED
        BY <1>2, <2>2, <2>3 DEF TypeInv, TypeOK
<1>4. st' \in [Uav -> [mk : Nat, tid : Tid \cup {None}]] /\ Provisioned'
    BY <1>2 DEF HandleM4, TypeInv, TypeOK, Provisioned
<1> QED
    BY <1>3, <1>4 DEF HandleM4, TypeInv, TypeOK, gsVars

LEMMA NextType == TypeInv /\ [Next]_vars => TypeInv'
<1> SUFFICES ASSUME TypeInv, [Next]_vars PROVE TypeInv'
    OBVIOUS
<1>1. CASE \E u \in Uav : Enroll(u) \/ StartPhase2(u)
    BY <1>1, EnrollType, StartPhase2Type
<1>2. CASE Deliver
    BY <1>2, HandleM1Type, HandleM2Type, HandleM3Type, HandleM4Type DEF Deliver
<1>3. CASE Tick
    BY <1>3 DEF Tick, TypeInv, TypeOK, Provisioned, gsVars, uavVars
<1>4. CASE UNCHANGED vars
    BY <1>4 DEF vars, TypeInv, TypeOK, Provisioned
<1> QED
    BY <1>1, <1>2, <1>3, <1>4 DEF Next

\* Every record, session, cache and message keeps its type, and a provisioned
\* device always has an identity to send (Protocol.cc, all handlers).
THEOREM TypeCorrect == Spec => []TypeOK
<1>1. TypeInv => TypeOK
    BY DEF TypeInv
<1> QED
    BY <1>1, InitTypeInv, NextType, PTL DEF Spec
-----------------------------------------------------------------------------
(* The inductive invariant behind key agreement *)

\* An identity that the ground station answers to, and every identity that
\* travels in an M2 or an M3, belongs to the enrolment of the master key used.
IdentityInv ==
    /\ \A u \in Uav : dev[u].mk # 0 =>
           /\ dev[u].tid \in Tid => dev[u].tid.mk = dev[u].mk
           /\ dev[u].pendingTid \in Tid => dev[u].pendingTid.mk = dev[u].mk
    /\ \A m \in msgs : m.type \in {"M2", "M3"} => m.tid.mk = m.mk

\* The device derives a key with the secret of its present request, so as
\* long as it has that secret it holds no key.
DeviceInv ==
    \A u \in Uav : ses[u].ephemeral =>
        /\ ses[u].sessionKey = None
        /\ Len(ses[u].transcript) = 1
        /\ ses[u].transcript[1].n1 = ses[u].n1

\* The device that sent an M3 still holds the key derived for it, unless it
\* has made another request since.
ConfirmInv ==
    \A m \in msgs : m.type = "M3" =>
        /\ m.transcript[1].n1 \in Nat
        /\ m.transcript[1].n1 <= ses[m.from].n1
        /\ m.transcript[1].n1 = ses[m.from].n1 =>
               /\ ses[m.from].sessionKey # None
               /\ ses[m.from].sessionKey = KeyOfM3(m)

\* The ground station's transcript is that of its nonces, and its key that of
\* an M3 of the device.
GroundInv ==
    \A u \in Uav :
        /\ gsSession[u].n2 # 0 =>
               /\ gsSession[u].transcript[1].n1 = gsSession[u].n1
               /\ gsSession[u].transcript[2].n2 = gsSession[u].n2
        /\ gsSession[u].sessionKey # None =>
               \E m \in msgs : /\ m.type = "M3"
                               /\ m.from = u
                               /\ m.transcript[1].n1 = gsSession[u].n1
                               /\ KeyOfM3(m) = gsSession[u].sessionKey

AgreementInv ==
    TypeInv /\ IdentityInv /\ DeviceInv /\ ConfirmInv /\ GroundInv

\* What the handlers may assume of the fields they read.
LEMMA AgreementFields ==
    ASSUME AgreementInv
    PROVE  /\ \A u \in Uav : /\ ses[u] \in UavSession
                             /\ gsSession[u] \in GsSession
                             /\ dev[u] \in DeviceRecord
           /\ \A m \in msgs : /\ m \in Message
                              /\ m.type = "M1" => m \in MessageM1
                              /\ m.type = "M2" => m \in MessageM2
                              /\ m.type = "M3" => m \in MessageM3
                              /\ m.type = "M4" => m \in MessageM4
BY MessageFields DEF AgreementInv, TypeInv, TypeOK

LEMMA InitAgreement == Init => AgreementInv
BY InitTypeInv
DEF Init, AgreementInv, IdentityInv, DeviceInv, ConfirmInv, GroundInv

LEMMA EnrollAgreement ==
    ASSUME AgreementInv, NEW u \in Uav, Enroll(u)
    PROVE  AgreementInv'
<1>1. TypeInv'
    BY EnrollType DEF AgreementInv
<1>2. IdentityInv'
    <2>1. \A v \in Uav : dev'[v] = IF v = u THEN
              [mk |-> dev[u].mk + 1,
               tid |-> [uav |-> u, mk |-> dev[u].mk + 1, n1 |-> 0, n2 |-> 0],
               pendingTid |-> None]
              ELSE dev[v]
        BY DEF Enroll, AgreementInv, TypeInv, TypeOK
    <2> QED
        BY <2>1, Phase2Assumption DEF Enroll, AgreementInv, IdentityInv
<1>3. DeviceInv' /\ ConfirmInv' /\ GroundInv'
    BY DEF Enroll, AgreementInv, DeviceInv, ConfirmInv, GroundInv
<1> QED
    BY <1>1, <1>2, <1>3 DEF AgreementInv

LEMMA StartPhase2Agreement ==
    ASSUME AgreementInv, NEW u \in Uav, StartPhase2(u)
    PROVE  AgreementInv'
<1> DEFINE n1 == ses[u].n1 + 1
           input == InputM1(st[u].tid, n1, now)
           m1 == [type |-> "M1", from |-> u, tid |-> st[u].tid, n1 |-> n1,
                  t1 |-> now, mk |-> st[u].mk]
<1>1. TypeInv'
    BY StartPhase2Type DEF AgreementInv
<1>2. msgs' = msgs \cup {m1} /\ m1.type = "M1"
    BY DEF StartPhase2, Send
<1>3. /\ \A v \in Uav \ {u} : ses'[v] = ses[v]
      /\ ses'[u].n1 = ses[u].n1 + 1
      /\ ses'[u].sessionKey = None
      /\ Len(ses'[u].transcript) = 1
      /\ ses'[u].transcript[1].n1 = ses[u].n1 + 1
    <2>1. input.n1 = ses[u].n1 + 1
        BY DEF InputM1
    <2>2. /\ \A v \in Uav \ {u} : ses'[v] = ses[v]
          /\ ses'[u].n1 = ses[u].n1 + 1
          /\ ses'[u].sessionKey = None
          /\ ses'[u].transcript = <<input>>
        BY DEF StartPhase2, AgreementInv, TypeInv, TypeOK
    <2> HIDE DEF input
    <2> QED
        BY <2>1, <2>2
<1>4. IdentityInv'
    BY <1>2 DEF StartPhase2, gsVars, AgreementInv, IdentityInv
<1>5. DeviceInv'
    BY <1>3 DEF AgreementInv, DeviceInv
<1>6. ConfirmInv'
    <2> SUFFICES ASSUME NEW m \in msgs, m.type = "M3"
                 PROVE  /\ m.transcript[1].n1 \in Nat
                        /\ m.transcript[1].n1 <= ses'[m.from].n1
                        /\ m.transcript[1].n1 = ses'[m.from].n1 =>
                               /\ ses'[m.from].sessionKey # None
                               /\ ses'[m.from].sessionKey = KeyOfM3(m)
        BY <1>2 DEF ConfirmInv
    <2>1. m.from \in Uav /\ ses[m.from].n1 \in Nat
        BY AgreementFields DEF MessageM3, UavSession
    <2>2. /\ m.transcript[1].n1 \in Nat
          /\ m.transcript[1].n1 <= ses[m.from].n1
          /\ m.transcript[1].n1 = ses[m.from].n1 =>
                 /\ ses[m.from].sessionKey # None
                 /\ ses[m.from].sessionKey = KeyOfM3(m)
        BY DEF AgreementInv, ConfirmInv
    <2>3. CASE m.from # u
        BY <1>3, <2>1, <2>2, <2>3
    <2>4. CASE m.from = u
        <3>1. /\ m.transcript[1].n1 < ses'[m.from].n1
              /\ ses'[m.from].n1 \in Nat
            BY <1>3, <2>1, <2>2, <2>4
        <3> QED
            BY <2>2, <3>1
    <2> QED
        BY <2>3, <2>4
<1>7. GroundInv'
    BY <1>2 DEF StartPhase2, gsVars, AgreementInv, GroundInv
<1> QED
    BY <1>1, <1>4, <1>5, <1>6, <1>7 DEF AgreementInv

\* findByTid returns devices of the enrolment that the identity belongs to.
LEMMA FoundByTid ==
    ASSUME AgreementInv, NEW tid \in Tid, NEW u \in FindByTid(tid)
    PROVE  u \in Uav /\ dev[u].mk = tid.mk
BY DEF AgreementInv, IdentityInv, FindByTid

LEMMA HandleM1Agreement ==
    ASSUME AgreementInv, NEW m \in msgs, NEW intact \in BOOLEAN,
           HandleM1(m, intact)
    PROVE  AgreementInv'
<1>1. TypeInv'
    BY HandleM1Type DEF AgreementInv
<1>2. CASE \E u \in Uav : AuthenticM1(u, m, intact) /\ OpenGsSession(u, m)
    <2>1. PICK u \in Uav : AuthenticM1(u, m, intact) /\ OpenGsSession(u, m)
        BY <1>2
    <2> DEFINE n2 == gsSession[u].n2 + 1
               first == InputM1(m.tid, m.n1, m.t1)
               second == InputM2(m.tid, m.n1, n2, now)
               m2 == [type |-> "M2", to |-> u, tid |-> m.tid, n1 |-> m.n1,
                      n2 |-> n2, t2 |-> now, mk |-> dev[u].mk]
    <2>2. m.tid \in Tid
        BY AgreementFields DEF HandleM1, MessageM1
    <2>3. msgs' = msgs \cup {m2} /\ m2.type = "M2" /\ m2.tid.mk = m2.mk
        BY <2>1, <2>2, FoundByTid DEF OpenGsSession, Send, AuthenticM1
    <2>4. /\ \A v \in Uav \ {u} : gsSession'[v] = gsSession[v]
          /\ gsSession'[u].transcript[1].n1 = gsSession'[u].n1
          /\ gsSession'[u].transcript[2].n2 = gsSession'[u].n2
          /\ gsSession'[u].sessionKey = None
        <3>1. first.n1 = m.n1 /\ second.n2 = n2
            BY DEF InputM1, InputM2
        <3>2. /\ \A v \in Uav \ {u} : gsSession'[v] = gsSession[v]
              /\ gsSession'[u].transcript = <<first, second>>
              /\ gsSession'[u].n1 = m.n1
              /\ gsSession'[u].n2 = n2
              /\ gsSession'[u].sessionKey = None
            BY <2>1 DEF OpenGsSession, AgreementInv, TypeInv, TypeOK
        <3> HIDE DEF first, second, n2
        <3> QED
            BY <3>1, <3>2
    <2> HIDE DEF m2
    <2>5. IdentityInv'
        BY <2>3 DEF HandleM1, AgreementInv, IdentityInv
    <2>6. DeviceInv' /\ ConfirmInv'
        BY <2>3 DEF HandleM1, uavVars, AgreementInv, DeviceInv, ConfirmInv
    <2>7. GroundInv'
        BY <2>3, <2>4 DEF AgreementInv, GroundInv
    <2> QED
        BY <1>1, <2>5, <2>6, <2>7 DEF AgreementInv
<1>3. CASE UNCHANGED <<gsSession, msgs>>
    BY <1>1, <1>3 DEF HandleM1, uavVars, AgreementInv, IdentityInv, DeviceInv,
                      ConfirmInv, GroundInv
<1> QED
    BY <1>2, <1>3 DEF HandleM1

\* m3 confirms the key that its sender derives from m.
DerivesKey(m, m3) ==
    /\ msgs' = msgs \cup {m3}
    /\ m3.from = m.to
    /\ m3.tid = st[m.to].tid
    /\ m3.tid.mk = m3.mk /\ m3.mk = ses[m.to].mk
    /\ m3.transcript[1] = ses[m.to].transcript[1]
    /\ m3.transcript[1].n1 = ses[m.to].n1
    /\ m3.transcript[2].n2 = m.n2
    /\ KeyOfM3(m3) \in Key
    /\ KeyOfM3(m3).uav = m.to
    /\ KeyOfM3(m3).n1 = ses[m.to].n1
    /\ ses' = [ses EXCEPT ![m.to].n2 = m.n2,
                         ![m.to].transcript = m3.transcript,
                         ![m.to].sessionKey = KeyOfM3(m3),
                         ![m.to].ephemeral = FALSE]

\* The step in which a device derives its key.
LEMMA DeriveKey ==
    ASSUME AgreementInv, NEW m \in msgs, NEW intact \in BOOLEAN,
           m.type = "M2", AuthenticM2(m, intact), AcceptM2(m.to, m),
           ses[m.to].ephemeral
    PROVE  \E m3 \in MessageM3 : DerivesKey(m, m3)
<1> DEFINE u == m.to
           input == InputM2(st[u].tid, ses[u].n1, m.n2, m.t2)
           transcript == Append(ses[u].transcript, input)
           m3 == [type |-> "M3", from |-> u, tid |-> st[u].tid,
                  transcript |-> transcript, mk |-> ses[u].mk]
<1>1. /\ m \in MessageM2 /\ u \in Uav /\ m.n2 \in Nat /\ m.t2 \in Nat
      /\ m.tid \in Tid /\ ses[u] \in UavSession
    BY AgreementFields DEF MessageM2
<1>2. st[u].tid = m.tid /\ ses[u].mk = m.mk /\ m.tid.mk = m.mk
    BY DEF AuthenticM2, AgreementInv, IdentityInv
<1>3. input \in Input /\ input.n2 = m.n2
    BY <1>1, <1>2 DEF InputM2, Input, UavSession
<1>4. /\ Len(ses[u].transcript) = 1
      /\ ses[u].transcript[1].n1 = ses[u].n1
      /\ ses[u].transcript \in Seq(Input)
    BY <1>1 DEF AgreementInv, DeviceInv, UavSession
<1> HIDE DEF input
<1>5. /\ transcript \in Seq(Input)
      /\ transcript[1] = ses[u].transcript[1]
      /\ transcript[2] = input
    BY <1>3, <1>4, AppendProperties
<1>6. m3 \in MessageM3
    BY <1>1, <1>2, <1>5 DEF MessageM3, UavSession
<1>7. KeyOfM3(m3) = SessionKey(u, ses[u].mk, ses[u].n1, m.n2, transcript)
    BY <1>3, <1>4, <1>5 DEF KeyOfM3
<1>8. /\ KeyOfM3(m3) \in Key
      /\ KeyOfM3(m3).uav = u
      /\ KeyOfM3(m3).n1 = ses[u].n1
    <2> DEFINE key == SessionKey(u, ses[u].mk, ses[u].n1, m.n2, transcript)
    <2> HIDE DEF transcript, m3
    <2>1. key \in Key /\ key.uav = u /\ key.n1 = ses[u].n1
        BY <1>1, <1>5 DEF SessionKey, Key, UavSession
    <2> QED
        BY <1>7, <2>1
<1>9. /\ msgs' = msgs \cup {m3}
      /\ ses' = [ses EXCEPT ![u].n2 = m.n2,
                           ![u].transcript = transcript,
                           ![u].sessionKey = KeyOfM3(m3),
                           ![u].ephemeral = FALSE]
    BY <1>7 DEF AcceptM2, CanDerive, Send, input
<1>10. /\ m3.from = u /\ m3.tid = st[u].tid /\ m3.tid.mk = m3.mk
       /\ m3.mk = ses[u].mk
       /\ m3.transcript = transcript
       /\ m3.transcript[1] = ses[u].transcript[1]
       /\ m3.transcript[1].n1 = ses[u].n1
       /\ m3.transcript[2].n2 = m.n2
    BY <1>2, <1>3, <1>4, <1>5
<1> HIDE DEF transcript, m3
<1> QED
    BY <1>6, <1>8, <1>9, <1>10 DEF DerivesKey

\* The session of u once the key is derived, and those of the others.
WithKey(f, u, n2, t, k) == [f EXCEPT ![u].n2 = n2, ![u].transcript = t,
                                     ![u].sessionKey = k, ![u].ephemeral = FALSE]
HasKey(f, g, u, n2, t, k) ==
    /\ \A v \in Uav \ {u} : g[v] = f[v]
    /\ g[u].n1 = f[u].n1 /\ g[u].mk = f[u].mk
    /\ g[u].established = f[u].established /\ g[u].creds = f[u].creds
    /\ g[u].n2 = n2 /\ g[u].transcript = t
    /\ g[u].sessionKey = k /\ g[u].ephemeral = FALSE

LEMMA DerivedSession ==
    ASSUME NEW f \in [Uav -> UavSession], NEW u \in Uav, NEW n2, NEW t, NEW k
    PROVE  HasKey(f, WithKey(f, u, n2, t, k), u, n2, t, k)
<1> DEFINE g == WithKey(f, u, n2, t, k)
<1> DEFINE r == [f[u] EXCEPT !.n2 = n2, !.transcript = t,
                             !.sessionKey = k, !.ephemeral = FALSE]
<1>1. g = [f EXCEPT ![u] = r]
    BY DEF WithKey
<1>2. f[u] \in UavSession
    OBVIOUS
<1>3. /\ r.n1 = f[u].n1 /\ r.mk = f[u].mk /\ r.established = f[u].established
      /\ r.creds = f[u].creds
      /\ r.n2 = n2 /\ r.transcript = t /\ r.sessionKey = k /\ r.ephemeral = FALSE
    BY <1>2 DEF UavSession
<1> HIDE DEF r, g
<1>4. g[u] = r /\ \A v \in Uav \ {u} : g[v] = f[v]
    BY <1>1
<1> QED
    BY <1>3, <1>4 DEF g, HasKey

LEMMA HandleM2Agreement ==
    ASSUME AgreementInv, NEW m \in msgs, NEW intact \in BOOLEAN,
           HandleM2(m, intact)
    PROVE  AgreementInv'
<1>1. TypeInv'
    BY HandleM2Type DEF AgreementInv
<1>2. m \in MessageM2 /\ m.to \in Uav /\ m.type = "M2"
    BY AgreementFields DEF HandleM2, MessageM2
<1>3. CASE AuthenticM2(m, intact) /\ AcceptM2(m.to, m) /\ ses[m.to].ephemeral
    <2>1a. PICK m3 \in MessageM3 : DerivesKey(m, m3)
        BY <1>2, <1>3, DeriveKey
    <2>1. /\ msgs' = msgs \cup {m3}
          /\ m3.from = m.to
          /\ m3.tid.mk = m3.mk
          /\ m3.transcript[1].n1 = ses[m.to].n1
          /\ KeyOfM3(m3) \in Key
          /\ KeyOfM3(m3).uav = m.to
          /\ KeyOfM3(m3).n1 = ses[m.to].n1
          /\ ses' = [ses EXCEPT ![m.to].n2 = m.n2,
                               ![m.to].transcript = m3.transcript,
                               ![m.to].sessionKey = KeyOfM3(m3),
                               ![m.to].ephemeral = FALSE]
        BY <2>1a DEF DerivesKey
    <2>2. /\ \A v \in Uav \ {m.to} : ses'[v] = ses[v]
          /\ ses'[m.to].n1 = ses[m.to].n1
          /\ ses'[m.to].sessionKey = KeyOfM3(m3)
          /\ ses'[m.to].sessionKey # None
          /\ ses'[m.to].ephemeral = FALSE
        <3>1. ses \in [Uav -> UavSession]
            BY DEF AgreementInv, TypeInv, TypeOK
        <3>2. KeyOfM3(m3) # None
            BY <2>1, Phase2Assumption
        <3>3. /\ \A v \in Uav \ {m.to} : ses'[v] = ses[v]
              /\ ses'[m.to].n1 = ses[m.to].n1
              /\ ses'[m.to].sessionKey = KeyOfM3(m3)
              /\ ses'[m.to].ephemeral = FALSE
            <4>1. ses' = WithKey(ses, m.to, m.n2, m3.transcript, KeyOfM3(m3))
                BY <2>1 DEF WithKey
            <4>2. HasKey(ses, ses', m.to, m.n2, m3.transcript, KeyOfM3(m3))
                BY <1>2, <3>1, <4>1, DerivedSession
            <4> QED
                BY <4>2 DEF HasKey
        <3> QED
            BY <3>2, <3>3
    <2>3. ses[m.to].sessionKey = None /\ ses[m.to].n1 \in Nat
        BY <1>2, <1>3, AgreementFields DEF AgreementInv, DeviceInv, UavSession
    <2>4. /\ msgs' = msgs \cup {m3}
           /\ m3.from = m.to
           /\ m3.transcript[1].n1 = ses[m.to].n1
        BY <2>1
    <2>5. IdentityInv'
        BY <2>1 DEF HandleM2, gsVars, AgreementInv, IdentityInv
    <2>6. DeviceInv'
        BY <2>2 DEF AgreementInv, DeviceInv
    <2>7. ConfirmInv'
        <3> SUFFICES ASSUME NEW x \in msgs', x.type = "M3"
                     PROVE  /\ x.transcript[1].n1 \in Nat
                            /\ x.transcript[1].n1 <= ses'[x.from].n1
                            /\ x.transcript[1].n1 = ses'[x.from].n1 =>
                                   /\ ses'[x.from].sessionKey # None
                                   /\ ses'[x.from].sessionKey = KeyOfM3(x)
            BY DEF ConfirmInv
        <3>1. CASE x = m3
            BY <2>2, <2>3, <2>4, <3>1
        <3>2. CASE x \in msgs
            <4>1. x.from \in Uav
                BY <3>2, AgreementFields DEF MessageM3
            <4> QED
                BY <2>2, <2>3, <3>2, <4>1 DEF AgreementInv, ConfirmInv
        <3> QED
            BY <2>4, <3>1, <3>2
    <2>8. GroundInv'
        BY <2>1 DEF HandleM2, gsVars, AgreementInv, GroundInv
    <2> QED
        BY <1>1, <2>5, <2>6, <2>7, <2>8 DEF AgreementInv
<1>4. CASE AcceptM2(m.to, m) /\ ~ses[m.to].ephemeral
    <2>1. /\ UNCHANGED msgs
          /\ \A v \in Uav \ {m.to} : ses'[v] = ses[v]
          /\ ses'[m.to].n1 = ses[m.to].n1
          /\ ses'[m.to].sessionKey = ses[m.to].sessionKey
          /\ ses'[m.to].ephemeral = FALSE
        <3>1. PICK t : ses' = [ses EXCEPT ![m.to].n2 = m.n2,
                                          ![m.to].transcript = t]
            BY <1>4 DEF AcceptM2, CanDerive
        <3>2. UNCHANGED msgs
            BY <1>4 DEF AcceptM2, CanDerive
        <3>3. ses[m.to] \in UavSession /\ ses \in [Uav -> UavSession]
            BY <1>2 DEF AgreementInv, TypeInv, TypeOK
        <3> QED
            BY <1>2, <1>4, <3>1, <3>2, <3>3 DEF UavSession
    <2>2. IdentityInv' /\ GroundInv'
        BY <2>1 DEF HandleM2, gsVars, AgreementInv, IdentityInv, GroundInv
    <2>3. DeviceInv'
        BY <2>1 DEF AgreementInv, DeviceInv
    <2>4. ConfirmInv'
        <3>1. \A x \in msgs : x.type = "M3" => x.from \in Uav
            BY AgreementFields DEF MessageM3
        <3> QED
            BY <2>1, <3>1 DEF AgreementInv, ConfirmInv
    <2> QED
        BY <1>1, <2>2, <2>3, <2>4 DEF AgreementInv
<1>5. CASE UNCHANGED <<ses, msgs>>
    BY <1>1, <1>5 DEF HandleM2, gsVars, AgreementInv, IdentityInv, DeviceInv,
                      ConfirmInv, GroundInv
<1> QED
    BY <1>3, <1>4, <1>5 DEF HandleM2

\* m4 seals the key of the confirmed session of u, which m completes.
CommitsKey(u, m, m4) ==
    /\ msgs' = msgs \cup {m4}
    /\ m4.to = u
    /\ m4.tid = m.tid
    /\ m4.key = KeyOfM3(m)
    /\ m4.key.mk = dev[u].mk
    /\ m4.n1 = gsSession[u].n1
    /\ m4.n2 = gsSession[u].n2
    /\ m4.tidNew = PendingIdentity(u)
    /\ m4.creds = {v \in Uav \ {u} : dev[v].mk # 0}
    /\ m.transcript[1].n1 = gsSession[u].n1
    /\ m.transcript[2].n2 = gsSession[u].n2
    /\ \A v \in Uav \ {u} : gsSession'[v] = gsSession[v]
    /\ gsSession'[u].n1 = gsSession[u].n1
    /\ gsSession'[u].n2 = gsSession[u].n2
    /\ gsSession'[u].transcript = gsSession[u].transcript
    /\ gsSession'[u].ephemeral = FALSE
    /\ gsSession'[u].sessionKey = KeyOfM3(m)

\* The step in which the ground station commits to a key: it is the key of
\* the M3 that it answers.
LEMMA CommitKey ==
    ASSUME AgreementInv, NEW m \in msgs, NEW intact \in BOOLEAN, NEW u \in Uav,
           m.type = "M3", AuthenticM3(u, m, intact), ConfirmSession(u, m)
    PROVE  \E m4 \in MessageM4 : CommitsKey(u, m, m4)
<1> DEFINE s == gsSession[u]
           key == SessionKey(u, dev[u].mk, s.n1, s.n2, s.transcript)
           m4 == [type |-> "M4", to |-> u, key |-> key, tid |-> m.tid,
                  n1 |-> s.n1, n2 |-> s.n2, tidNew |-> PendingIdentity(u),
                  creds |-> {v \in Uav \ {u} : dev[v].mk # 0}]
<1>1. /\ m \in MessageM3 /\ m.tid \in Tid
      /\ s \in GsSession /\ dev[u] \in DeviceRecord
    BY AgreementFields DEF MessageM3
<1>2. dev[u].mk = m.mk
    BY <1>1, FoundByTid DEF AuthenticM3, AgreementInv, IdentityInv
<1>3. m.from = u /\ m.transcript = s.transcript /\ s.n2 # 0
    BY DEF AuthenticM3
<1>4. m.transcript[1].n1 = s.n1 /\ m.transcript[2].n2 = s.n2
    BY <1>3 DEF AgreementInv, GroundInv
<1>5. key = KeyOfM3(m)
    BY <1>2, <1>3, <1>4 DEF KeyOfM3
<1>6. key \in Key /\ PendingIdentity(u) \in Tid
    BY <1>1 DEF GsSession, DeviceRecord, SessionKey, Key, PendingIdentity, Tid
<1>7. m4 \in MessageM4
    BY <1>1, <1>6 DEF MessageM4, GsSession
<1>8. /\ msgs' = msgs \cup {m4}
      /\ gsSession' = [gsSession EXCEPT ![u].m3Verified = TRUE,
                                       ![u].sessionKey = key,
                                       ![u].ephemeral = FALSE]
    BY DEF ConfirmSession, Send
<1>9. /\ \A v \in Uav \ {u} : gsSession'[v] = gsSession[v]
      /\ gsSession'[u].n1 = s.n1
      /\ gsSession'[u].n2 = s.n2
      /\ gsSession'[u].transcript = s.transcript
      /\ gsSession'[u].ephemeral = FALSE
      /\ gsSession'[u].sessionKey = key
    BY <1>1, <1>8 DEF GsSession, AgreementInv, TypeInv, TypeOK
<1>10. /\ m4.key = key /\ m4.to = u /\ m4.tid = m.tid
       /\ m4.n1 = s.n1 /\ m4.n2 = s.n2 /\ m4.tidNew = PendingIdentity(u)
       /\ m4.creds = {v \in Uav \ {u} : dev[v].mk # 0}
    OBVIOUS
<1>11. key.mk = dev[u].mk
    BY DEF SessionKey
<1> HIDE DEF key, m4
<1> WITNESS m4 \in MessageM4
<1> QED
    BY <1>4, <1>5, <1>8, <1>9, <1>10, <1>11 DEF CommitsKey

LEMMA HandleM3Agreement ==
    ASSUME AgreementInv, NEW m \in msgs, NEW intact \in BOOLEAN,
           HandleM3(m, intact)
    PROVE  AgreementInv'
<1>1. TypeInv'
    BY HandleM3Type DEF AgreementInv
<1>2. PICK u \in Uav : AuthenticM3(u, m, intact) /\ ConfirmSession(u, m)
    BY DEF HandleM3
<1>3. m.type = "M3" /\ m.from = u
    BY <1>2 DEF HandleM3, AuthenticM3
<1>4a. PICK m4 \in MessageM4 : CommitsKey(u, m, m4)
    BY <1>2, <1>3, CommitKey
<1>4. /\ msgs' = msgs \cup {m4}
      /\ m4.to = u
      /\ m4.tid = m.tid
      /\ m4.key = KeyOfM3(m)
      /\ m4.key.mk = dev[u].mk
      /\ m4.n1 = gsSession[u].n1
      /\ m4.n2 = gsSession[u].n2
      /\ m4.tidNew = PendingIdentity(u)
      /\ m.transcript[1].n1 = gsSession[u].n1
      /\ m.transcript[2].n2 = gsSession[u].n2
      /\ \A v \in Uav \ {u} : gsSession'[v] = gsSession[v]
      /\ gsSession'[u].n1 = gsSession[u].n1
      /\ gsSession'[u].n2 = gsSession[u].n2
      /\ gsSession'[u].transcript = gsSession[u].transcript
      /\ gsSession'[u].ephemeral = FALSE
      /\ gsSession'[u].sessionKey = KeyOfM3(m)
    BY <1>4a DEF CommitsKey
<1>5. m4.type = "M4"
    BY DEF MessageM4
<1>6. IdentityInv'
    <2>1. /\ \A v \in Uav : dev'[v].mk = dev[v].mk /\ dev'[v].tid = dev[v].tid
          /\ \A v \in Uav \ {u} : dev'[v].pendingTid = dev[v].pendingTid
          /\ dev'[u].pendingTid = PendingIdentity(u)
        BY <1>2, AgreementFields
        DEF ConfirmSession, DeviceRecord, AgreementInv, TypeInv, TypeOK
    <2>2. PendingIdentity(u).mk = dev[u].mk
        BY DEF PendingIdentity
    <2>3. \A v \in Uav : dev'[v].mk # 0 =>
              /\ dev'[v].tid \in Tid => dev'[v].tid.mk = dev'[v].mk
              /\ dev'[v].pendingTid \in Tid => dev'[v].pendingTid.mk = dev'[v].mk
        BY <2>1, <2>2 DEF AgreementInv, IdentityInv
    <2>4. \A x \in msgs' : x.type \in {"M2", "M3"} => x.tid.mk = x.mk
        BY <1>4, <1>5 DEF AgreementInv, IdentityInv
    <2> QED
        BY <2>3, <2>4 DEF IdentityInv
<1>7. DeviceInv'
    BY DEF HandleM3, uavVars, AgreementInv, DeviceInv
<1>8. ConfirmInv'
    BY <1>4, <1>5 DEF HandleM3, uavVars, AgreementInv, ConfirmInv
<1>9. GroundInv'
    <2>1. m \in msgs' /\ msgs \subseteq msgs'
        BY <1>4
    <2>2. m.transcript[1].n1 = gsSession[u].n1
        BY <1>4
    <2> QED
        BY <1>3, <1>4, <2>1, <2>2 DEF AgreementInv, GroundInv
<1> QED
    BY <1>1, <1>6, <1>7, <1>8, <1>9 DEF AgreementInv

LEMMA HandleM4Agreement ==
    ASSUME AgreementInv, NEW m \in msgs, NEW intact \in BOOLEAN,
           HandleM4(m, intact)
    PROVE  AgreementInv'
<1>1. TypeInv'
    BY HandleM4Type DEF AgreementInv
<1>2. \A v \in Uav : /\ ses'[v].n1 = ses[v].n1
                     /\ ses'[v].sessionKey = ses[v].sessionKey
                     /\ ses'[v].ephemeral = ses[v].ephemeral
                     /\ ses'[v].transcript = ses[v].transcript
    <2> DEFINE s == [ses[m.to] EXCEPT !.creds = m.creds, !.established = TRUE]
    <2>1. m.to \in Uav /\ ses \in [Uav -> UavSession]
        BY AgreementFields DEF HandleM4, MessageM4, AgreementInv, TypeInv, TypeOK
    <2>2. /\ s.n1 = ses[m.to].n1
          /\ s.sessionKey = ses[m.to].sessionKey
          /\ s.ephemeral = ses[m.to].ephemeral
          /\ s.transcript = ses[m.to].transcript
        BY <2>1 DEF UavSession
    <2>3. ses' = [ses EXCEPT ![m.to] = s]
        BY <2>1 DEF HandleM4
    <2> HIDE DEF s
    <2> QED
        BY <2>1, <2>2, <2>3
<1>3. \A x \in msgs : x.type = "M3" => x.from \in Uav
    BY AgreementFields DEF MessageM3
<1>4. DeviceInv' /\ ConfirmInv'
    <2>1. msgs' = msgs
        BY DEF HandleM4
    <2>2. DeviceInv'
        BY <1>2 DEF AgreementInv, DeviceInv
    <2>3. ConfirmInv'
        BY <1>2, <1>3, <2>1 DEF AgreementInv, ConfirmInv
    <2> QED
        BY <2>2, <2>3
<1>5. IdentityInv' /\ GroundInv'
    BY DEF HandleM4, gsVars, AgreementInv, IdentityInv, GroundInv
<1> QED
    BY <1>1, <1>4, <1>5 DEF AgreementInv

LEMMA NextAgreement == AgreementInv /\ [Next]_vars => AgreementInv'
<1> SUFFICES ASSUME AgreementInv, [Next]_vars PROVE AgreementInv'
    OBVIOUS
<1>1. TypeInv'
    BY NextType DEF AgreementInv
<1>2. CASE \E u \in Uav : Enroll(u) \/ StartPhase2(u)
    BY <1>2, EnrollAgreement, StartPhase2Agreement
<1>3. CASE Deliver
    BY <1>3, HandleM1Agreement, HandleM2Agreement, HandleM3Agreement,
       HandleM4Agreement DEF Deliver
<1>4. CASE Tick
    BY <1>1, <1>4 DEF Tick, gsVars, uavVars, AgreementInv, IdentityInv,
                      DeviceInv, ConfirmInv, GroundInv
<1>5. CASE UNCHANGED vars
    BY <1>1, <1>5 DEF vars, AgreementInv, IdentityInv, DeviceInv, ConfirmInv,
                      GroundInv
<1> QED
    BY <1>2, <1>3, <1>4, <1>5 DEF Next

THEOREM Agreement == Spec => []AgreementInv
BY InitAgreement, NextAgreement, PTL DEF Spec

\* handleM3 completes an exchange only with a device that holds the very same
\* key or has since made another request, whatever the network does and
\* however little the replay caches remember.
THEOREM KeyAgreement == Spec => []GsKeyHeldByUav
<1>1. AgreementInv => GsKeyHeldByUav
    <2> SUFFICES ASSUME AgreementInv, NEW u \in Uav,
                        gsSession[u].sessionKey # None
                 PROVE  \/ ses[u].sessionKey = gsSession[u].sessionKey
                        \/ ses[u].n1 > gsSession[u].n1
        BY DEF GsKeyHeldByUav
    <2>1. PICK m \in msgs : /\ m.type = "M3"
                            /\ m.from = u
                            /\ m.transcript[1].n1 = gsSession[u].n1
                            /\ KeyOfM3(m) = gsSession[u].sessionKey
        BY DEF AgreementInv, GroundInv
    <2>2. ses[u].n1 \in Nat
        BY AgreementFields DEF UavSession
    <2> QED
        BY <2>1, <2>2 DEF AgreementInv, ConfirmInv
<1> QED
    BY <1>1, Agreement, PTL
-----------------------------------------------------------------------------
(* The rotation of the identity *)

Rotated(key) == [uav |-> key.uav, mk |-> key.mk, n1 |-> key.n1, n2 |-> key.n2]

\* The identity an M4 carries is the one its key was derived for.
OfferedInv == \A m \in msgs : m.type = "M4" =>
    m.n1 = m.key.n1 /\ m.tidNew = Rotated(m.key)

\* A device's identity is older than its present request, unless it is the
\* one that the key of this request rotates to.  The two ends' records are of
\* the same enrolment.
HeldInv == \A u \in Uav :
    /\ st[u].mk = dev[u].mk
    /\ st[u].mk = 0 => ses[u].n1 = 0
    /\ ses[u].sessionKey # None =>
           ses[u].n1 # 0 /\ ses[u].sessionKey.n1 = ses[u].n1
    /\ st[u].mk # 0 => st[u].tid.n1 <= ses[u].n1
    /\ st[u].mk # 0 /\ ses[u].n1 # 0 /\ st[u].tid.n1 = ses[u].n1 =>
           /\ ses[u].sessionKey # None
           /\ st[u].tid = Rotated(ses[u].sessionKey)

RotationInv == AgreementInv /\ OfferedInv /\ HeldInv

LEMMA InitRotation == Init => RotationInv
BY InitAgreement DEF Init, RotationInv, OfferedInv, HeldInv

LEMMA EnrollRotation ==
    ASSUME RotationInv, NEW u \in Uav, Enroll(u)
    PROVE  HeldInv' /\ OfferedInv'
<1>1. /\ \A v \in Uav \ {u} : st'[v] = st[v]
      /\ st'[u].tid.n1 = 0
      /\ st'[u].mk # 0
      /\ \A v \in Uav : dev[v].mk = st[v].mk => dev'[v].mk = st'[v].mk
    <2>1. /\ st'[u] = [mk |-> dev[u].mk + 1,
                       tid |-> [uav |-> u, mk |-> dev[u].mk + 1,
                                n1 |-> 0, n2 |-> 0]]
          /\ dev'[u].mk = dev[u].mk + 1
          /\ \A v \in Uav \ {u} : st'[v] = st[v] /\ dev'[v] = dev[v]
        BY DEF Enroll, RotationInv, AgreementInv, TypeInv, TypeOK
    <2>2. dev[u].mk + 1 # 0
        BY DEF RotationInv, AgreementInv, TypeInv, TypeOK, DeviceRecord
    <2> QED
        BY <2>1, <2>2
<1>2. \A v \in Uav : ses[v].n1 \in Nat
    BY AgreementFields DEF RotationInv, UavSession
<1> QED
    BY <1>1, <1>2 DEF Enroll, RotationInv, HeldInv, OfferedInv

LEMMA StartPhase2Rotation ==
    ASSUME RotationInv, NEW u \in Uav, StartPhase2(u)
    PROVE  HeldInv' /\ OfferedInv'
<1>1. /\ \A v \in Uav \ {u} : ses'[v] = ses[v]
      /\ ses'[u].n1 = ses[u].n1 + 1
      /\ ses'[u].sessionKey = None
    BY DEF StartPhase2, RotationInv, AgreementInv, TypeInv, TypeOK
<1>2. st[u].mk # 0 /\ st[u].tid.n1 \in Nat /\ ses[u].n1 \in Nat
    BY AgreementFields DEF StartPhase2, RotationInv, AgreementInv, TypeInv,
                           Provisioned, Tid, UavSession
<1>3. HeldInv'
    BY <1>1, <1>2 DEF StartPhase2, gsVars, RotationInv, HeldInv
<1>4. OfferedInv'
    BY DEF StartPhase2, Send, RotationInv, OfferedInv
<1> QED
    BY <1>3, <1>4

LEMMA HandleM2Rotation ==
    ASSUME RotationInv, NEW m \in msgs, NEW intact \in BOOLEAN,
           HandleM2(m, intact)
    PROVE  HeldInv' /\ OfferedInv'
<1>1. m.type = "M2" /\ m.to \in Uav /\ ses[m.to].n1 # 0
    BY AgreementFields DEF HandleM2, MessageM2, RotationInv
<1>2. CASE AuthenticM2(m, intact) /\ AcceptM2(m.to, m) /\ ses[m.to].ephemeral
    <2>1a. PICK m3 \in MessageM3 : DerivesKey(m, m3)
        BY <1>1, <1>2, DeriveKey DEF RotationInv
    <2>1. /\ msgs' = msgs \cup {m3}
          /\ KeyOfM3(m3) \in Key
          /\ KeyOfM3(m3).n1 = ses[m.to].n1
          /\ ses' = [ses EXCEPT ![m.to].n2 = m.n2,
                               ![m.to].transcript = m3.transcript,
                               ![m.to].sessionKey = KeyOfM3(m3),
                               ![m.to].ephemeral = FALSE]
        BY <2>1a DEF DerivesKey
    <2>2. /\ \A v \in Uav \ {m.to} : ses'[v] = ses[v]
          /\ ses'[m.to].n1 = ses[m.to].n1
          /\ ses'[m.to].sessionKey = KeyOfM3(m3)
          /\ KeyOfM3(m3) # None
        <3>1. ses[m.to] \in UavSession /\ ses \in [Uav -> UavSession]
            BY <1>1 DEF RotationInv, AgreementInv, TypeInv, TypeOK
        <3>2. KeyOfM3(m3) # None
            BY <2>1, Phase2Assumption
        <3> QED
            BY <1>1, <2>1, <3>1, <3>2 DEF UavSession
    <2>3. ses[m.to].sessionKey = None
        BY <1>1, <1>2 DEF RotationInv, AgreementInv, DeviceInv
    <2>4. st[m.to].mk # 0 => st[m.to].tid.n1 # ses[m.to].n1
        BY <1>1, <2>3 DEF RotationInv, HeldInv
    <2>5. HeldInv'
        <3>1. UNCHANGED <<dev, st>>
            BY DEF HandleM2, gsVars
        <3>2. ses'[m.to].sessionKey.n1 = ses'[m.to].n1
            BY <2>1, <2>2
        <3> QED
            BY <1>1, <2>2, <2>4, <3>1, <3>2 DEF RotationInv, HeldInv
    <2>6. OfferedInv'
        BY <2>1 DEF RotationInv, OfferedInv, MessageM3
    <2> QED
        BY <2>5, <2>6
<1>3. CASE ~(AuthenticM2(m, intact) /\ AcceptM2(m.to, m) /\ ses[m.to].ephemeral)
    <2>1. /\ msgs' = msgs
          /\ \A v \in Uav : /\ ses'[v].n1 = ses[v].n1
                            /\ ses'[v].sessionKey = ses[v].sessionKey
        <3>1. CASE UNCHANGED <<ses, msgs>>
            BY <3>1
        <3>2. CASE AcceptM2(m.to, m) /\ ~ses[m.to].ephemeral
            <4>1. PICK t : ses' = [ses EXCEPT ![m.to].n2 = m.n2,
                                              ![m.to].transcript = t]
                BY <3>2 DEF AcceptM2, CanDerive
            <4>2. UNCHANGED msgs
                BY <3>2 DEF AcceptM2, CanDerive
            <4>3. ses[m.to] \in UavSession /\ ses \in [Uav -> UavSession]
                BY <1>1 DEF RotationInv, AgreementInv, TypeInv, TypeOK
            <4> QED
                BY <1>1, <4>1, <4>2, <4>3 DEF UavSession
        <3> QED
            BY <1>3, <3>1, <3>2 DEF HandleM2
    <2> QED
        BY <2>1 DEF HandleM2, gsVars, RotationInv, HeldInv, OfferedInv
<1> QED
    BY <1>2, <1>3

\* handleM3 makes the key and the pending identity of the same nonces.
LEMMA HandleM3Rotation ==
    ASSUME RotationInv, NEW m \in msgs, NEW intact \in BOOLEAN,
           HandleM3(m, intact)
    PROVE  HeldInv' /\ OfferedInv'
<1>1. PICK u \in Uav : ConfirmSession(u, m)
    BY DEF HandleM3
<1> DEFINE s == gsSession[u]
           key == SessionKey(u, dev[u].mk, s.n1, s.n2, s.transcript)
           m4 == [type |-> "M4", to |-> u, key |-> key, tid |-> m.tid,
                  n1 |-> s.n1, n2 |-> s.n2, tidNew |-> PendingIdentity(u),
                  creds |-> {v \in Uav \ {u} : dev[v].mk # 0}]
<1>2. msgs' = msgs \cup {m4}
    BY <1>1 DEF ConfirmSession, Send
<1>3. m4.n1 = m4.key.n1 /\ m4.tidNew = Rotated(m4.key)
    BY DEF SessionKey, PendingIdentity, Rotated
<1> HIDE DEF m4
<1>4. OfferedInv'
    BY <1>2, <1>3 DEF RotationInv, OfferedInv
<1>5. HeldInv'
    <2>1. \A v \in Uav : dev'[v].mk = dev[v].mk
        BY <1>1 DEF ConfirmSession, DeviceRecord, RotationInv, AgreementInv,
                    TypeInv, TypeOK
    <2> QED
        BY <2>1 DEF HandleM3, uavVars, RotationInv, HeldInv
<1> QED
    BY <1>4, <1>5

\* A device takes over the identity that the key of its session rotates to,
\* and that is newer than any it had or the one it has already.
LEMMA HandleM4Rotates ==
    ASSUME RotationInv, NEW m \in msgs, NEW intact \in BOOLEAN,
           HandleM4(m, intact)
    PROVE  /\ m.to \in Uav /\ st[m.to].mk # 0 /\ ses[m.to].sessionKey # None
           /\ m.tidNew = Rotated(ses[m.to].sessionKey)
           /\ m.tidNew.n1 = ses[m.to].n1
           /\ m.tidNew # st[m.to].tid => m.tidNew.n1 > st[m.to].tid.n1
           /\ st' = [st EXCEPT ![m.to].tid = m.tidNew]
<1>1. m.type = "M4" /\ m.to \in Uav
    BY AgreementFields DEF HandleM4, MessageM4, RotationInv
<1>2. ses[m.to].sessionKey # None /\ m.key = ses[m.to].sessionKey
    BY DEF HandleM4, AuthenticM4
<1>3. ses[m.to].n1 # 0 /\ ses[m.to].sessionKey.n1 = ses[m.to].n1 /\ st[m.to].mk # 0
    BY <1>1, <1>2 DEF RotationInv, HeldInv
<1>4. m.tidNew = Rotated(ses[m.to].sessionKey)
    BY <1>1, <1>2 DEF RotationInv, OfferedInv
<1>5. m.tidNew.n1 = ses[m.to].n1
    BY <1>3, <1>4 DEF Rotated
<1>6. st[m.to].tid.n1 \in Nat /\ ses[m.to].n1 \in Nat
    BY <1>1, <1>3, AgreementFields
    DEF RotationInv, AgreementInv, TypeInv, Provisioned, Tid, UavSession
<1>7. /\ st[m.to].tid.n1 <= ses[m.to].n1
      /\ st[m.to].tid.n1 = ses[m.to].n1 =>
             st[m.to].tid = Rotated(ses[m.to].sessionKey)
    BY <1>1, <1>3 DEF RotationInv, HeldInv
<1>8. m.tidNew # st[m.to].tid => m.tidNew.n1 > st[m.to].tid.n1
    BY <1>4, <1>5, <1>6, <1>7
<1> QED
    BY <1>1, <1>2, <1>3, <1>4, <1>5, <1>8 DEF HandleM4

LEMMA HandleM4Rotation ==
    ASSUME RotationInv, NEW m \in msgs, NEW intact \in BOOLEAN,
           HandleM4(m, intact)
    PROVE  HeldInv' /\ OfferedInv'
<1>1. \A v \in Uav : /\ ses'[v].n1 = ses[v].n1
                     /\ ses'[v].sessionKey = ses[v].sessionKey
    <2>1. ses[m.to] \in UavSession /\ ses \in [Uav -> UavSession] /\ m.to \in Uav
        BY HandleM4Rotates DEF RotationInv, AgreementInv, TypeInv, TypeOK
    <2>2. ses' = [ses EXCEPT ![m.to].creds = m.creds, ![m.to].established = TRUE]
        BY DEF HandleM4
    <2> QED
        BY <2>1, <2>2 DEF UavSession
<1>2. /\ \A v \in Uav : st'[v].mk = st[v].mk
      /\ \A v \in Uav \ {m.to} : st'[v].tid = st[v].tid
      /\ st'[m.to].tid = m.tidNew
    <2>1. m.to \in Uav /\ st' = [st EXCEPT ![m.to].tid = m.tidNew]
        BY HandleM4Rotates
    <2> QED
        BY <2>1 DEF RotationInv, AgreementInv, TypeInv, TypeOK
<1>3. ses[m.to].n1 \in Nat
    BY HandleM4Rotates, AgreementFields DEF RotationInv, UavSession
<1>4. HeldInv'
    <2>1. dev' = dev
        BY DEF HandleM4, gsVars
    <2>2. /\ m.tidNew = Rotated(ses[m.to].sessionKey)
          /\ m.tidNew.n1 = ses[m.to].n1
          /\ ses[m.to].sessionKey # None
        BY HandleM4Rotates
    <2> QED
        BY <1>1, <1>2, <1>3, <2>1, <2>2 DEF RotationInv, HeldInv
<1>5. OfferedInv'
    BY DEF HandleM4, RotationInv, OfferedInv
<1> QED
    BY <1>4, <1>5

LEMMA NextRotation == RotationInv /\ [Next]_vars => RotationInv'
<1> SUFFICES ASSUME RotationInv, [Next]_vars PROVE HeldInv' /\ OfferedInv'
    BY NextAgreement DEF RotationInv
<1>1. CASE \E u \in Uav : Enroll(u) \/ StartPhase2(u)
    BY <1>1, EnrollRotation, StartPhase2Rotation
<1>2. CASE Deliver
    <2>1. ASSUME NEW m \in msgs, NEW intact \in BOOLEAN, HandleM1(m, intact)
          PROVE  HeldInv' /\ OfferedInv'
        BY <2>1 DEF HandleM1, OpenGsSession, Send, uavVars, RotationInv,
                    HeldInv, OfferedInv
    <2> QED
        BY <1>2, <2>1, HandleM2Rotation, HandleM3Rotation, HandleM4Rotation
        DEF Deliver
<1>3. CASE Tick
    BY <1>3 DEF Tick, gsVars, uavVars, RotationInv, HeldInv, OfferedInv
<1>4. CASE UNCHANGED vars
    BY <1>4 DEF vars, RotationInv, HeldInv, OfferedInv
<1> QED
    BY <1>1, <1>2, <1>3, <1>4 DEF Next

\* Between two enrolments a device only ever moves to the identity of a newer
\* request: no late or repeated M4 takes it back to one it had before, whatever
\* the network delivers and the replay caches forget (handleM4).
THEOREM NoRollback == Spec => TidNeverRollsBack
<1>1. RotationInv /\ [Next]_vars =>
          [\A u \in Uav : st'[u].mk = st[u].mk /\ st'[u].tid # st[u].tid
               => st'[u].tid.n1 > st[u].tid.n1]_vars
    <2> SUFFICES ASSUME RotationInv, Next, NEW u \in Uav,
                        st'[u].mk = st[u].mk, st'[u].tid # st[u].tid
                 PROVE  st'[u].tid.n1 > st[u].tid.n1
        OBVIOUS
    <2>1. CASE \E v \in Uav : Enroll(v)
        <3>1. PICK v \in Uav : Enroll(v)
            BY <2>1
        <3>2. st'[v].mk = st[v].mk + 1 /\ \A x \in Uav \ {v} : st'[x] = st[x]
            BY <3>1 DEF Enroll, RotationInv, HeldInv, AgreementInv, TypeInv, TypeOK
        <3>3. st[v].mk \in Nat
            BY DEF RotationInv, AgreementInv, TypeInv, TypeOK
        <3> QED
            BY <3>2, <3>3
    <2>2. ASSUME NEW m \in msgs, NEW intact \in BOOLEAN, HandleM4(m, intact)
          PROVE  st'[u].tid.n1 > st[u].tid.n1
        <3>1. /\ m.to \in Uav
              /\ st' = [st EXCEPT ![m.to].tid = m.tidNew]
              /\ m.tidNew # st[m.to].tid => m.tidNew.n1 > st[m.to].tid.n1
            BY <2>2, HandleM4Rotates
        <3> QED
            BY <3>1 DEF RotationInv, AgreementInv, TypeInv, TypeOK
    <2>3. CASE UNCHANGED st
        BY <2>3
    <2> QED
        BY <2>1, <2>2, <2>3
        DEF Next, Deliver, StartPhase2, HandleM1, HandleM2, HandleM3, Tick, uavVars
<1> QED
    BY <1>1, InitRotation, NextRotation, PTL DEF Spec, TidNeverRollsBack
-----------------------------------------------------------------------------
(* Refinement *)

\* What the exchange sees of a step: the present request, key and completion
\* of each device, and the keys behind the M3s and M4s sent so far.
Unseen ==
    /\ \A u \in Uav : /\ ses'[u].n1 = ses[u].n1
                      /\ ses'[u].sessionKey = ses[u].sessionKey
                      /\ ses'[u].established = ses[u].established
    /\ Derived' = Derived
    /\ Committed' = Committed

LEMMA UnseenStutters ==
    ASSUME Unseen
    PROVE  UNCHANGED Exchange!vars
BY DEF Unseen, Exchange!vars

\* An M1 or an M2 adds no key.
LEMMA RequestsAddNoKey ==
    ASSUME NEW m, m.type \in {"M1", "M2"}, msgs' = msgs \cup {m}
    PROVE  Derived' = Derived /\ Committed' = Committed
BY DEF Derived, Committed

LEMMA InitRefines == Init => Exchange!Init
BY DEF Init, Exchange!Init, Derived, Committed

LEMMA RequestRefines ==
    ASSUME AgreementInv, NEW u \in Uav, StartPhase2(u)
    PROVE  Exchange!Request(u)
<1>1. Derived' = Derived /\ Committed' = Committed
    <2> DEFINE m1 == [type |-> "M1", from |-> u, tid |-> st[u].tid,
                      n1 |-> ses[u].n1 + 1, t1 |-> now, mk |-> st[u].mk]
    <2>1. msgs' = msgs \cup {m1} /\ m1.type = "M1"
        BY DEF StartPhase2, Send
    <2> HIDE DEF m1
    <2> QED
        BY <2>1, RequestsAddNoKey
<1>2. \A v \in Uav :
          /\ ses'[v].n1 = IF v = u THEN ses[v].n1 + 1 ELSE ses[v].n1
          /\ ses'[v].sessionKey = IF v = u THEN None ELSE ses[v].sessionKey
          /\ ses'[v].established = IF v = u THEN FALSE ELSE ses[v].established
    BY DEF StartPhase2, AgreementInv, TypeInv, TypeOK
<1> QED
    BY <1>1, <1>2 DEF Exchange!Request

LEMMA EnrollRefines ==
    ASSUME NEW u \in Uav, Enroll(u)
    PROVE  Unseen
BY DEF Enroll, Unseen, Derived, Committed

LEMMA HandleM1Refines ==
    ASSUME NEW m \in msgs, NEW intact \in BOOLEAN, HandleM1(m, intact)
    PROVE  Unseen
<1>1. CASE \E u \in Uav : AuthenticM1(u, m, intact) /\ OpenGsSession(u, m)
    BY <1>1, RequestsAddNoKey DEF HandleM1, OpenGsSession, Send, uavVars, Unseen
<1>2. CASE UNCHANGED <<gsSession, msgs>>
    BY <1>2 DEF HandleM1, uavVars, Unseen, Derived, Committed
<1> QED
    BY <1>1, <1>2 DEF HandleM1

LEMMA HandleM4Refines ==
    ASSUME AgreementInv, NEW m \in msgs, NEW intact \in BOOLEAN,
           HandleM4(m, intact)
    PROVE  Exchange!Establish(m.to)
<1>1. m.to \in Uav /\ m.type = "M4"
    BY AgreementFields DEF HandleM4, MessageM4
<1>2. ses[m.to].sessionKey \in Committed
    BY <1>1 DEF HandleM4, AuthenticM4, Committed
<1>3. Derived' = Derived /\ Committed' = Committed
    BY DEF HandleM4, Derived, Committed
<1>4. \A v \in Uav :
          /\ ses'[v].n1 = ses[v].n1
          /\ ses'[v].sessionKey = ses[v].sessionKey
          /\ ses'[v].established = IF v = m.to THEN TRUE ELSE ses[v].established
    <2> DEFINE s == [ses[m.to] EXCEPT !.creds = m.creds, !.established = TRUE]
    <2>1. ses \in [Uav -> UavSession]
        BY DEF AgreementInv, TypeInv, TypeOK
    <2>2. /\ s.n1 = ses[m.to].n1
          /\ s.sessionKey = ses[m.to].sessionKey
          /\ s.established = TRUE
        BY <1>1, <2>1 DEF UavSession
    <2>3. ses' = [ses EXCEPT ![m.to] = s]
        BY <1>1, <2>1 DEF HandleM4
    <2> HIDE DEF s
    <2> QED
        BY <1>1, <2>1, <2>2, <2>3
<1> QED
    BY <1>1, <1>2, <1>3, <1>4 DEF Exchange!Establish

\* A key is derived at most once for a request: every M3 of an earlier one
\* names an earlier request.
LEMMA HandleM2Refines ==
    ASSUME AgreementInv, NEW m \in msgs, NEW intact \in BOOLEAN,
           HandleM2(m, intact)
    PROVE  Unseen \/ Exchange!Derive(m.to)
<1>1. m \in MessageM2 /\ m.to \in Uav /\ m.type = "M2"
    BY AgreementFields DEF HandleM2, MessageM2
<1>2. CASE AuthenticM2(m, intact) /\ AcceptM2(m.to, m) /\ ses[m.to].ephemeral
    <2>1a. PICK m3 \in MessageM3 : DerivesKey(m, m3)
        BY <1>1, <1>2, DeriveKey
    <2>1. /\ msgs' = msgs \cup {m3}
          /\ m3.from = m.to
          /\ m3.tid.mk = m3.mk
          /\ m3.transcript[1].n1 = ses[m.to].n1
          /\ KeyOfM3(m3) \in Key
          /\ KeyOfM3(m3).uav = m.to
          /\ KeyOfM3(m3).n1 = ses[m.to].n1
          /\ ses' = [ses EXCEPT ![m.to].n2 = m.n2,
                               ![m.to].transcript = m3.transcript,
                               ![m.to].sessionKey = KeyOfM3(m3),
                               ![m.to].ephemeral = FALSE]
        BY <2>1a DEF DerivesKey
    <2> DEFINE k == KeyOfM3(m3)
    <2>2. ses[m.to].sessionKey = None
        BY <1>1, <1>2 DEF AgreementInv, DeviceInv
    <2>3. /\ Derived' = Derived \cup {k}
          /\ Committed' = Committed
        BY <2>1 DEF Derived, Committed, MessageM3
    <2>4. \A old \in Derived : old.uav = m.to => old.n1 # ses[m.to].n1
        <3> SUFFICES ASSUME NEW x \in msgs, x.type = "M3",
                            KeyOfM3(x).uav = m.to
                     PROVE  KeyOfM3(x).n1 # ses[m.to].n1
            BY DEF Derived
        <3>1. x.from = m.to /\ KeyOfM3(x).n1 = x.transcript[1].n1
            BY DEF KeyOfM3, SessionKey
        <3> QED
            BY <2>2, <3>1 DEF AgreementInv, ConfirmInv
    <2>5. k.uav = m.to /\ k.n1 = ses[m.to].n1
        BY <2>1
    <2>6. k \in Derived' \ Derived
        BY <2>3, <2>4, <2>5
    <2>7. \A v \in Uav :
              /\ ses'[v].n1 = ses[v].n1
              /\ ses'[v].sessionKey = IF v = m.to THEN k ELSE ses[v].sessionKey
              /\ ses'[v].established = ses[v].established
        <3>1. ses \in [Uav -> UavSession]
            BY DEF AgreementInv, TypeInv, TypeOK
        <3>2. ses' = WithKey(ses, m.to, m.n2, m3.transcript, k)
            BY <2>1a DEF DerivesKey, WithKey
        <3>3. HasKey(ses, ses', m.to, m.n2, m3.transcript, k)
            BY <1>1, <3>1, <3>2, DerivedSession
        <3> QED
            BY <3>3 DEF HasKey
    <2> HIDE DEF k
    <2>8. /\ [u \in Uav |-> ses'[u].sessionKey]
                 = [[u \in Uav |-> ses[u].sessionKey] EXCEPT ![m.to] = k]
          /\ [u \in Uav |-> ses'[u].n1] = [u \in Uav |-> ses[u].n1]
          /\ [u \in Uav |-> ses'[u].established]
                 = [u \in Uav |-> ses[u].established]
        BY <1>1, <2>7
    <2>9. [u \in Uav |-> ses[u].sessionKey][m.to] = None
        BY <1>1, <2>2
    <2>10. k.n1 = [u \in Uav |-> ses[u].n1][m.to]
        BY <1>1, <2>5
    <2>11. \A old \in Derived : old.uav = m.to => old.n1 # k.n1
        BY <2>4, <2>5
    <2> QED
        BY <2>3, <2>5, <2>6, <2>8, <2>9, <2>10, <2>11 DEF Exchange!Derive
<1>3. CASE AcceptM2(m.to, m) /\ ~ses[m.to].ephemeral
    <2>1. PICK t : ses' = [ses EXCEPT ![m.to].n2 = m.n2,
                                      ![m.to].transcript = t]
        BY <1>3 DEF AcceptM2, CanDerive
    <2>2. UNCHANGED msgs
        BY <1>3 DEF AcceptM2, CanDerive
    <2>3. ses[m.to] \in UavSession /\ ses \in [Uav -> UavSession]
        BY <1>1 DEF AgreementInv, TypeInv, TypeOK
    <2>4. \A v \in Uav : /\ ses'[v].n1 = ses[v].n1
                         /\ ses'[v].sessionKey = ses[v].sessionKey
                         /\ ses'[v].established = ses[v].established
        <3> DEFINE s == [ses[m.to] EXCEPT !.n2 = m.n2, !.transcript = t]
        <3>1. /\ s.n1 = ses[m.to].n1
              /\ s.sessionKey = ses[m.to].sessionKey
              /\ s.established = ses[m.to].established
            BY <2>3 DEF UavSession
        <3>2. ses' = [ses EXCEPT ![m.to] = s]
            BY <1>1, <2>1, <2>3
        <3> HIDE DEF s
        <3> QED
            BY <1>1, <2>3, <3>1, <3>2
    <2> QED
        BY <2>2, <2>4 DEF Unseen, Derived, Committed
<1>4. CASE UNCHANGED <<ses, msgs>>
    BY <1>4 DEF Unseen, Derived, Committed
<1> QED
    BY <1>2, <1>3, <1>4 DEF HandleM2

LEMMA HandleM3Refines ==
    ASSUME AgreementInv, NEW m \in msgs, NEW intact \in BOOLEAN,
           HandleM3(m, intact)
    PROVE  Unseen \/ Exchange!Commit
<1>1. PICK u \in Uav : AuthenticM3(u, m, intact) /\ ConfirmSession(u, m)
    BY DEF HandleM3
<1>2. m.type = "M3"
    BY DEF HandleM3
<1>3a. PICK m4 \in MessageM4 : CommitsKey(u, m, m4)
    BY <1>1, <1>2, CommitKey
<1>3. /\ msgs' = msgs \cup {m4}
      /\ m4.key = KeyOfM3(m)
    BY <1>3a DEF CommitsKey
<1>4. KeyOfM3(m) \in Derived
    BY <1>2 DEF Derived
<1>5. Derived' = Derived /\ Committed' = Committed \cup {KeyOfM3(m)}
    BY <1>3 DEF Derived, Committed, MessageM4
<1>6. UNCHANGED ses
    BY DEF HandleM3, uavVars
<1>7. CASE KeyOfM3(m) \in Committed
    BY <1>5, <1>6, <1>7 DEF Unseen
<1>8. CASE KeyOfM3(m) \notin Committed
    BY <1>4, <1>5, <1>6, <1>8 DEF Exchange!Commit
<1> QED
    BY <1>7, <1>8

LEMMA NextRefines ==
    AgreementInv /\ [Next]_vars => [Exchange!Next]_(Exchange!vars)
<1> SUFFICES ASSUME AgreementInv, [Next]_vars
             PROVE  Exchange!Next \/ UNCHANGED Exchange!vars
    OBVIOUS
<1>1. CASE \E u \in Uav : Enroll(u) \/ StartPhase2(u)
    BY <1>1, EnrollRefines, UnseenStutters, RequestRefines DEF Exchange!Next
<1>2. CASE Deliver
    <2>1. PICK m \in msgs, intact \in BOOLEAN :
              \/ HandleM1(m, intact)
              \/ HandleM2(m, intact)
              \/ HandleM3(m, intact)
              \/ HandleM4(m, intact)
        BY <1>2 DEF Deliver
    <2>2. m.type \in {"M2", "M4"} => m.to \in Uav
        BY AgreementFields DEF MessageM2, MessageM4
    <2>3. CASE HandleM1(m, intact)
        BY <2>3, HandleM1Refines, UnseenStutters
    <2>4. CASE HandleM2(m, intact)
        <3>1. m.to \in Uav
            BY <2>2, <2>4 DEF HandleM2
        <3> QED
            BY <2>4, <3>1, HandleM2Refines, UnseenStutters DEF Exchange!Next
    <2>5. CASE HandleM3(m, intact)
        BY <2>5, HandleM3Refines, UnseenStutters DEF Exchange!Next
    <2>6. CASE HandleM4(m, intact)
        <3>1. m.to \in Uav
            BY <2>2, <2>6 DEF HandleM4
        <3> QED
            BY <2>6, <3>1, HandleM4Refines DEF Exchange!Next
    <2> QED
        BY <2>1, <2>3, <2>4, <2>5, <2>6
<1>3. CASE Tick \/ UNCHANGED vars
    <2>1. Unseen
        BY <1>3 DEF Tick, uavVars, vars, Unseen, Derived, Committed
    <2> QED
        BY <2>1, UnseenStutters
<1> QED
    BY <1>1, <1>2, <1>3 DEF Next

\* Phase 2 implements the key exchange: a device derives one key per request,
\* the ground station commits only to derived keys, and a device takes the
\* exchange for complete only when the ground station is committed to its key
\* (handleM2, handleM3 and handleM4 together).
THEOREM Refinement == Spec => RefinesKeyExchange
<1>1. Init => Exchange!Init
    BY InitRefines
<1>2. AgreementInv /\ [Next]_vars => [Exchange!Next]_(Exchange!vars)
    BY NextRefines
<1> QED
    BY <1>1, <1>2, Agreement, PTL DEF Spec, RefinesKeyExchange, Exchange!Spec
=============================================================================
