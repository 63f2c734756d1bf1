------------------------- MODULE Phase2SessionProofs -------------------------
(***************************************************************************)
(* What Phase2Proofs leaves open: how a device comes to be out of step     *)
(* with the ground station, how old a derived key can be, and what the     *)
(* replay caches add when they have room for every nonce drawn.            *)
(***************************************************************************)
EXTENDS Phase2Proofs

-----------------------------------------------------------------------------
(* What each kind of step does to the sessions, records and messages *)

EnrollStep(u) ==
    /\ \A v \in Uav \ {u} : dev'[v] = dev[v] /\ st'[v] = st[v]
    /\ dev'[u].mk = dev[u].mk + 1 /\ dev'[u].mk # 0
    /\ st'[u].mk = dev'[u].mk
    /\ st'[u].tid = dev'[u].tid /\ st'[u].tid.mk = st'[u].mk
    /\ UNCHANGED <<gsSession, ses, msgs>>

AskStep(u, m1) ==
    /\ msgs' = msgs \cup {m1}
    /\ m1.from = u /\ m1.n1 = ses[u].n1 + 1 /\ m1.t1 = now
    /\ \A v \in Uav \ {u} : ses'[v] = ses[v]
    /\ ses'[u].n1 = ses[u].n1 + 1 /\ ses'[u].n1 <= MaxAttempts[u]
    /\ ses'[u].sessionKey = None
    /\ ses'[u].established = FALSE /\ ses'[u].creds = {}
    /\ ses'[u].transcript # <<>> /\ ses'[u].transcript[1].t = now
    /\ st[u].mk # 0
    /\ UNCHANGED <<dev, gsSession, st>>

OpenStep(u, m1, m2) ==
    /\ m1.type = "M1" /\ m1.from = u /\ now <= m1.t1 + Window
    /\ msgs' = msgs \cup {m2}
    /\ m2.to = u /\ m2.n1 = m1.n1 /\ m2.n2 = gsSession[u].n2 + 1 /\ m2.t2 = now
    /\ \A v \in Uav \ {u} : gsSession'[v] = gsSession[v]
    /\ gsSession'[u].n1 = m2.n1
    /\ gsSession'[u].n2 = m2.n2 /\ m2.n2 <= MaxSessions[u]
    /\ gsSession'[u].sessionKey = None
    /\ GsOffer(<<u, m1.n1>>)
    /\ UNCHANGED <<dev, st, ses>>

KeyStep(m2, m3) ==
    /\ m2.type = "M2" /\ now <= m2.t2 + Window
    /\ m2.n1 = ses[m2.to].n1 /\ m2.n1 # 0 /\ ses[m2.to].ephemeral
    /\ DerivesKey(m2, m3)
    /\ \A v \in Uav \ {m2.to} : ses'[v] = ses[v]
    /\ ses'[m2.to].n1 = ses[m2.to].n1
    /\ ses'[m2.to].n2 = m2.n2 /\ ses'[m2.to].mk = ses[m2.to].mk
    /\ ses'[m2.to].sessionKey = KeyOfM3(m3) /\ KeyOfM3(m3) # None
    /\ ses'[m2.to].established = ses[m2.to].established
    /\ ses'[m2.to].creds = ses[m2.to].creds
    /\ ses'[m2.to].transcript = m3.transcript /\ m3.transcript # <<>>
    /\ UavOffer(m2.to, m2.n2)
    /\ UNCHANGED <<dev, gsSession, st>>

ExtendStep(m2) ==
    /\ m2.type = "M2" /\ m2.n1 = ses[m2.to].n1 /\ m2.n1 # 0
    /\ ~ses[m2.to].ephemeral
    /\ \A v \in Uav \ {m2.to} : ses'[v] = ses[v]
    /\ ses'[m2.to].n1 = ses[m2.to].n1
    /\ ses'[m2.to].ephemeral = ses[m2.to].ephemeral
    /\ ses'[m2.to].sessionKey = ses[m2.to].sessionKey
    /\ ses'[m2.to].established = ses[m2.to].established
    /\ ses'[m2.to].creds = ses[m2.to].creds
    /\ ses'[m2.to].transcript # <<>>
    /\ ses[m2.to].transcript # <<>> =>
           ses'[m2.to].transcript[1] = ses[m2.to].transcript[1]
    /\ UavOffer(m2.to, m2.n2)
    /\ UNCHANGED <<dev, gsSession, st, msgs>>

CommitStep(u, m3, m4) ==
    /\ m3.type = "M3" /\ m3.from = u /\ m3.tid.mk = dev[u].mk
    /\ gsSession[u].ephemeral /\ gsSession[u].n2 # 0
    /\ CommitsKey(u, m3, m4)
    /\ \A v \in Uav \ {u} : dev'[v] = dev[v]
    /\ dev'[u].mk = dev[u].mk /\ dev'[u].tid = dev[u].tid
    /\ dev'[u].pendingTid = m4.tidNew
    /\ UNCHANGED <<st, ses>>

AdoptStep(m4) ==
    /\ m4.type = "M4"
    /\ m4.key = ses[m4.to].sessionKey /\ m4.key # None
    /\ \A v \in Uav \ {m4.to} : st'[v] = st[v] /\ ses'[v] = ses[v]
    /\ st'[m4.to].mk = st[m4.to].mk /\ st'[m4.to].tid = m4.tidNew
    /\ ses'[m4.to].n1 = ses[m4.to].n1
    /\ ses'[m4.to].n2 = ses[m4.to].n2
    /\ ses'[m4.to].mk = ses[m4.to].mk
    /\ ses'[m4.to].transcript = ses[m4.to].transcript
    /\ ses'[m4.to].sessionKey = ses[m4.to].sessionKey
    /\ ses'[m4.to].established = TRUE
    /\ ses'[m4.to].creds = m4.creds
    /\ UNCHANGED <<dev, gsSession, msgs>>

Idle == UNCHANGED <<dev, gsSession, st, ses, msgs>>

LEMMA EnrollIs ==
    ASSUME RotationInv, NEW u \in Uav, Enroll(u)
    PROVE  EnrollStep(u)
<1> DEFINE mk == dev[u].mk + 1
           tid == [uav |-> u, mk |-> mk, n1 |-> 0, n2 |-> 0]
<1>1. /\ dev' = [dev EXCEPT ![u] = [mk |-> mk, tid |-> tid, pendingTid |-> None]]
      /\ st' = [st EXCEPT ![u] = [mk |-> mk, tid |-> tid]]
      /\ UNCHANGED <<gsSession, ses, msgs>>
    BY DEF Enroll
<1>2. dev[u].mk \in Nat
    BY DEF RotationInv, AgreementInv, TypeInv, TypeOK, DeviceRecord
<1>3. mk # 0
    BY <1>2
<1>4. mk = dev[u].mk + 1 /\ tid.mk = mk
    OBVIOUS
<1> HIDE DEF mk, tid
<1> QED
    BY <1>1, <1>3, <1>4 DEF EnrollStep, RotationInv, AgreementInv, TypeInv, TypeOK

LEMMA AskIs ==
    ASSUME RotationInv, NEW u \in Uav, StartPhase2(u)
    PROVE  \E m1 \in MessageM1 : AskStep(u, m1)
<1> DEFINE n1 == ses[u].n1 + 1
           input == InputM1(st[u].tid, n1, now)
           m1 == [type |-> "M1", from |-> u, tid |-> st[u].tid, n1 |-> n1,
                  t1 |-> now, mk |-> st[u].mk]
<1>1. n1 \in Nat /\ st[u].tid \in Tid /\ st[u].mk \in Nat /\ now \in Nat
    BY AgreementFields DEF RotationInv, AgreementInv, TypeInv, TypeOK,
                           Provisioned, StartPhase2, UavSession
<1>2. m1 \in MessageM1
    BY <1>1 DEF MessageM1
<1>3. /\ msgs' = msgs \cup {m1}
      /\ m1.from = u /\ m1.n1 = ses[u].n1 + 1 /\ m1.t1 = now
      /\ st[u].mk # 0
      /\ UNCHANGED <<dev, gsSession, st>>
    BY DEF StartPhase2, Send, gsVars
<1>4. input.t = now
    BY DEF InputM1
<1>5. /\ \A v \in Uav \ {u} : ses'[v] = ses[v]
      /\ ses'[u].n1 = ses[u].n1 + 1 /\ ses'[u].n1 <= MaxAttempts[u]
      /\ ses'[u].sessionKey = None
      /\ ses'[u].established = FALSE /\ ses'[u].creds = {}
      /\ ses'[u].transcript = <<input>>
    BY DEF StartPhase2, RotationInv, AgreementInv, TypeInv, TypeOK
<1> HIDE DEF m1, input
<1>6. ses'[u].transcript # <<>> /\ ses'[u].transcript[1].t = now
    BY <1>4, <1>5
<1>7. AskStep(u, m1)
    BY <1>3, <1>5, <1>6 DEF AskStep
<1> QED
    BY <1>2, <1>7

LEMMA OpenIs ==
    ASSUME RotationInv, NEW m \in msgs, NEW intact \in BOOLEAN,
           HandleM1(m, intact)
    PROVE  \/ \E u \in Uav, m2 \in MessageM2 : OpenStep(u, m, m2)
           \/ Idle
<1>1. CASE \E u \in Uav : AuthenticM1(u, m, intact) /\ OpenGsSession(u, m)
    <2>1. PICK u \in Uav : AuthenticM1(u, m, intact) /\ OpenGsSession(u, m)
        BY <1>1
    <2> DEFINE n2 == gsSession[u].n2 + 1
               m2 == [type |-> "M2", to |-> u, tid |-> m.tid, n1 |-> m.n1,
                      n2 |-> n2, t2 |-> now, mk |-> dev[u].mk]
    <2>2. /\ m \in MessageM1 /\ gsSession[u] \in GsSession
          /\ dev[u] \in DeviceRecord /\ now \in Nat
        BY AgreementFields
        DEF HandleM1, RotationInv, AgreementInv, TypeInv, TypeOK
    <2>3. m2 \in MessageM2
        BY <2>2 DEF MessageM1, MessageM2, GsSession, DeviceRecord
    <2>4. /\ msgs' = msgs \cup {m2}
          /\ m2.to = u /\ m2.n1 = m.n1 /\ m2.n2 = n2 /\ m2.t2 = now
        BY <2>1 DEF OpenGsSession, Send
    <2>5. /\ \A v \in Uav \ {u} : gsSession'[v] = gsSession[v]
          /\ gsSession'[u].n1 = m.n1
          /\ gsSession'[u].n2 = n2 /\ n2 <= MaxSessions[u]
          /\ gsSession'[u].sessionKey = None
        BY <2>1 DEF OpenGsSession, RotationInv, AgreementInv, TypeInv, TypeOK
    <2>6. /\ m.type = "M1" /\ m.from = u /\ now <= m.t1 + Window
          /\ GsOffer(<<u, m.n1>>)
          /\ UNCHANGED <<dev, st, ses>>
        BY <2>1 DEF HandleM1, AuthenticM1, TimestampFresh, uavVars
    <2>7. n2 = gsSession[u].n2 + 1
        OBVIOUS
    <2> HIDE DEF m2, n2
    <2>8. OpenStep(u, m, m2)
        BY <2>4, <2>5, <2>6, <2>7 DEF OpenStep
    <2> QED
        BY <2>3, <2>8
<1>2. CASE UNCHANGED <<gsSession, msgs>>
    BY <1>2 DEF HandleM1, uavVars, Idle
<1> QED
    BY <1>1, <1>2 DEF HandleM1

LEMMA DeriveIs ==
    ASSUME RotationInv, NEW m \in msgs, NEW intact \in BOOLEAN,
           HandleM2(m, intact)
    PROVE  \/ \E m3 \in MessageM3 : KeyStep(m, m3)
           \/ ExtendStep(m)
           \/ Idle
<1>1. /\ m \in MessageM2 /\ m.type = "M2" /\ m.to \in Uav
      /\ ses[m.to] \in UavSession /\ ses \in [Uav -> UavSession]
    BY AgreementFields
    DEF HandleM2, MessageM2, RotationInv, AgreementInv, TypeInv, TypeOK
<1>2. /\ now <= m.t2 + Window /\ ses[m.to].n1 # 0
      /\ UavOffer(m.to, m.n2)
      /\ UNCHANGED <<dev, gsSession, st>>
    BY DEF HandleM2, TimestampFresh, gsVars
<1>3. CASE /\ AuthenticM2(m, intact) /\ AcceptM2(m.to, m)
           /\ ses[m.to].ephemeral
    <2>1. PICK m3 \in MessageM3 : DerivesKey(m, m3)
        BY <1>1, <1>3, DeriveKey DEF RotationInv
    <2>2. KeyOfM3(m3) # None
        BY <2>1, Phase2Assumption DEF DerivesKey
    <2>3. m.n1 = ses[m.to].n1
        BY <1>3 DEF AuthenticM2
    <2>4. /\ \A v \in Uav \ {m.to} : ses'[v] = ses[v]
          /\ ses'[m.to].n1 = ses[m.to].n1
          /\ ses'[m.to].n2 = m.n2 /\ ses'[m.to].mk = ses[m.to].mk
          /\ ses'[m.to].sessionKey = KeyOfM3(m3)
          /\ ses'[m.to].established = ses[m.to].established
          /\ ses'[m.to].creds = ses[m.to].creds
          /\ ses'[m.to].transcript = m3.transcript
        BY <1>1, <2>1 DEF DerivesKey, UavSession
    <2>5. m3.transcript # <<>>
        <3>1. \E t \in Seq(Input), i \in Input : ses'[m.to].transcript = Append(t, i)
            <4> DEFINE i == InputM2(st[m.to].tid, ses[m.to].n1, m.n2, m.t2)
            <4>1. ses'[m.to].transcript = Append(ses[m.to].transcript, i)
                <5> DEFINE t == Append(ses[m.to].transcript, i)
                           k == SessionKey(m.to, ses[m.to].mk, ses[m.to].n1, m.n2, t)
                <5>1. ses' = WithKey(ses, m.to, m.n2, t, k)
                    BY <1>3 DEF AcceptM2, CanDerive, WithKey
                <5> HIDE DEF t, k
                <5>2. HasKey(ses, ses', m.to, m.n2, t, k)
                    BY <1>1, <5>1, DerivedSession
                <5> QED
                    BY <5>2 DEF HasKey, t
            <4>2. i \in Input /\ ses[m.to].transcript \in Seq(Input)
                BY <1>1, <1>3 DEF InputM2, Input, MessageM2, UavSession, AuthenticM2
            <4> QED
                BY <4>1, <4>2
        <3> QED
            BY <2>4, <3>1, AppendProperties
    <2>6. KeyStep(m, m3)
        BY <1>1, <1>2, <1>3, <2>1, <2>2, <2>3, <2>4, <2>5 DEF KeyStep
    <2> QED
        BY <2>6
<1>4. CASE /\ AuthenticM2(m, intact) /\ AcceptM2(m.to, m)
           /\ ~ses[m.to].ephemeral
    <2> DEFINE i == InputM2(st[m.to].tid, ses[m.to].n1, m.n2, m.t2)
               t == Append(ses[m.to].transcript, i)
    <2>1. ses' = [ses EXCEPT ![m.to].n2 = m.n2, ![m.to].transcript = t]
        BY <1>4 DEF AcceptM2, CanDerive
    <2>2. UNCHANGED msgs /\ m.n1 = ses[m.to].n1
        BY <1>4 DEF AcceptM2, CanDerive, AuthenticM2
    <2>3. i \in Input /\ ses[m.to].transcript \in Seq(Input)
        BY <1>1, <1>4 DEF InputM2, Input, MessageM2, UavSession, AuthenticM2
    <2> HIDE DEF i
    <2>4. /\ t # <<>>
          /\ ses[m.to].transcript # <<>> => t[1] = ses[m.to].transcript[1]
        BY <2>3, AppendProperties
    <2> HIDE DEF t
    <2>5. /\ \A v \in Uav \ {m.to} : ses'[v] = ses[v]
          /\ ses'[m.to].n1 = ses[m.to].n1
          /\ ses'[m.to].ephemeral = ses[m.to].ephemeral
          /\ ses'[m.to].sessionKey = ses[m.to].sessionKey
          /\ ses'[m.to].established = ses[m.to].established
          /\ ses'[m.to].creds = ses[m.to].creds
          /\ ses'[m.to].transcript = t
        BY <1>1, <2>1 DEF UavSession
    <2> QED
        BY <1>1, <1>2, <1>4, <2>2, <2>4, <2>5 DEF ExtendStep
<1>5. CASE UNCHANGED <<ses, msgs>>
    BY <1>2, <1>5 DEF Idle
<1> QED
    BY <1>3, <1>4, <1>5 DEF HandleM2

LEMMA CommitIs ==
    ASSUME RotationInv, NEW m \in msgs, NEW intact \in BOOLEAN,
           HandleM3(m, intact)
    PROVE  \E u \in Uav, m4 \in MessageM4 : CommitStep(u, m, m4)
<1>1. PICK u \in Uav : /\ AuthenticM3(u, m, intact)
                       /\ gsSession[u].ephemeral
                       /\ ConfirmSession(u, m)
    BY DEF HandleM3, CanDerive
<1>2. /\ m.type = "M3" /\ m.from = u /\ gsSession[u].n2 # 0
      /\ UNCHANGED <<st, ses>>
    BY <1>1 DEF HandleM3, AuthenticM3, uavVars
<1>3. m.tid.mk = dev[u].mk
    <2>1. m.tid \in Tid
        BY <1>2, AgreementFields DEF RotationInv, MessageM3
    <2> QED
        BY <1>1, <2>1, FoundByTid DEF AuthenticM3, RotationInv
<1>4. PICK m4 \in MessageM4 : CommitsKey(u, m, m4)
    BY <1>1, <1>2, CommitKey DEF RotationInv
<1>5. /\ \A v \in Uav \ {u} : dev'[v] = dev[v]
      /\ dev'[u].mk = dev[u].mk /\ dev'[u].tid = dev[u].tid
      /\ dev'[u].pendingTid = PendingIdentity(u)
    <2>1. dev' = [dev EXCEPT ![u].pendingTid = PendingIdentity(u)]
        BY <1>1 DEF ConfirmSession
    <2> QED
        BY <2>1 DEF DeviceRecord, RotationInv, AgreementInv, TypeInv, TypeOK
<1>6. m4.tidNew = PendingIdentity(u)
    BY <1>4 DEF CommitsKey
<1>7. CommitStep(u, m, m4)
    BY <1>1, <1>2, <1>3, <1>4, <1>5, <1>6 DEF CommitStep
<1> QED
    BY <1>4, <1>7

LEMMA AdoptIs ==
    ASSUME RotationInv, NEW m \in msgs, NEW intact \in BOOLEAN,
           HandleM4(m, intact)
    PROVE  AdoptStep(m)
<1>1. /\ m.type = "M4" /\ m.key = ses[m.to].sessionKey /\ m.key # None
      /\ UNCHANGED <<dev, gsSession, msgs>>
    BY DEF HandleM4, AuthenticM4, gsVars
<1>2. m.to \in Uav /\ st' = [st EXCEPT ![m.to].tid = m.tidNew]
    BY HandleM4Rotates
<1>3. /\ \A v \in Uav \ {m.to} : st'[v] = st[v]
      /\ st'[m.to].mk = st[m.to].mk /\ st'[m.to].tid = m.tidNew
    BY <1>2 DEF RotationInv, AgreementInv, TypeInv, TypeOK
<1>4. ses' = [ses EXCEPT ![m.to].creds = m.creds, ![m.to].established = TRUE]
    BY DEF HandleM4
<1>5. ses \in [Uav -> UavSession]
    BY DEF RotationInv, AgreementInv, TypeInv, TypeOK
<1>6. /\ \A v \in Uav \ {m.to} : ses'[v] = ses[v]
      /\ ses'[m.to].n1 = ses[m.to].n1
      /\ ses'[m.to].n2 = ses[m.to].n2
      /\ ses'[m.to].mk = ses[m.to].mk
      /\ ses'[m.to].transcript = ses[m.to].transcript
      /\ ses'[m.to].sessionKey = ses[m.to].sessionKey
      /\ ses'[m.to].established = TRUE
      /\ ses'[m.to].creds = m.creds
    BY <1>2, <1>4, <1>5 DEF UavSession
<1> QED
    BY <1>1, <1>3, <1>6 DEF AdoptStep

\* Every step is one of these.
LEMMA StepKinds ==
    ASSUME RotationInv, [Next]_vars
    PROVE  \/ \E u \in Uav : EnrollStep(u)
           \/ \E u \in Uav, m1 \in MessageM1 : AskStep(u, m1)
           \/ \E u \in Uav, m1 \in msgs, m2 \in MessageM2 : OpenStep(u, m1, m2)
           \/ \E m2 \in msgs, m3 \in MessageM3 : KeyStep(m2, m3)
           \/ \E m2 \in msgs : ExtendStep(m2)
           \/ \E u \in Uav, m3 \in msgs, m4 \in MessageM4 : CommitStep(u, m3, m4)
           \/ \E m4 \in msgs : AdoptStep(m4)
           \/ Idle
<1>1. CASE \E u \in Uav : Enroll(u)
    BY <1>1, EnrollIs
<1>2. CASE \E u \in Uav : StartPhase2(u)
    BY <1>2, AskIs
<1>3. ASSUME NEW m \in msgs, NEW intact \in BOOLEAN, HandleM1(m, intact)
      PROVE  \/ \E u \in Uav, m1 \in msgs, m2 \in MessageM2 : OpenStep(u, m1, m2)
             \/ Idle
    BY <1>3, OpenIs
<1>4. ASSUME NEW m \in msgs, NEW intact \in BOOLEAN, HandleM2(m, intact)
      PROVE  \/ \E m2 \in msgs, m3 \in MessageM3 : KeyStep(m2, m3)
             \/ \E m2 \in msgs : ExtendStep(m2)
             \/ Idle
    BY <1>4, DeriveIs
<1>5. ASSUME NEW m \in msgs, NEW intact \in BOOLEAN, HandleM3(m, intact)
      PROVE  \E u \in Uav, m3 \in msgs, m4 \in MessageM4 : CommitStep(u, m3, m4)
    BY <1>5, CommitIs
<1>6. ASSUME NEW m \in msgs, NEW intact \in BOOLEAN, HandleM4(m, intact)
      PROVE  \E m4 \in msgs : AdoptStep(m4)
    BY <1>6, AdoptIs
<1>7. CASE Tick \/ UNCHANGED vars
    BY <1>7 DEF Tick, vars, gsVars, uavVars, Idle
<1> QED
    BY <1>1, <1>2, <1>3, <1>4, <1>5, <1>6, <1>7 DEF Next, Deliver
-----------------------------------------------------------------------------
(* The order of requests and answers *)

\* The nonces that an M3 confirms.
Req(m3) == m3.transcript[1].n1
Ans(m3) == m3.transcript[2].n2

Answered(u, n1, n2) ==
    \E m \in msgs : m.type = "M2" /\ m.to = u /\ m.n1 = n1 /\ m.n2 = n2

\* Messages belong to requests made, answers given and keys derived.
SentInv ==
    \A m \in msgs :
        /\ m.type = "M1" => m.n1 <= ses[m.from].n1
        /\ m.type = "M2" => /\ m.n1 <= ses[m.to].n1
                            /\ m.n2 <= gsSession[m.to].n2
        /\ m.type = "M3" => Answered(m.from, Req(m), Ans(m))
        /\ m.type = "M4" =>
               /\ m.n2 = m.key.n2
               /\ \E a \in msgs : /\ a.type = "M3" /\ a.from = m.to
                                  /\ KeyOfM3(a) = m.key

\* The session of the ground station has sent its M2 and holds a key or the
\* secret, never both.
SessionInv ==
    \A u \in Uav :
        /\ gsSession[u].ephemeral => gsSession[u].sessionKey = None
        /\ gsSession[u].n2 # 0 =>
               Answered(u, gsSession[u].n1, gsSession[u].n2)

\* A later request is answered by a later session than an earlier one that its
\* device confirmed, although sessions are opened in any order of requests.
OrderInv ==
    \A a, b \in msgs : /\ a.type = "M3" /\ b.type = "M2" /\ a.from = b.to
                       /\ Req(a) < b.n1
                       => Ans(a) < b.n2

HistoryInv == RotationInv /\ SentInv /\ SessionInv /\ OrderInv

\* What the proofs below read of a message.
LEMMA HistoryTypes ==
    ASSUME RotationInv
    PROVE  /\ \A u \in Uav : ses[u].n1 \in Nat /\ gsSession[u].n2 \in Nat
           /\ \A m \in msgs :
                  /\ m.type = "M1" => m.from \in Uav /\ m.n1 \in Nat
                  /\ m.type = "M2" => m.to \in Uav /\ m.n1 \in Nat /\ m.n2 \in Nat
                  /\ m.type = "M3" => /\ m.from \in Uav
                                      /\ Req(m) \in Nat /\ Req(m) <= ses[m.from].n1
                                      /\ Req(m) = ses[m.from].n1 =>
                                            ses[m.from].sessionKey = KeyOfM3(m)
                  /\ m.type = "M4" => m.to \in Uav /\ m.n2 \in Nat
<1>1. \A u \in Uav : ses[u].n1 \in Nat /\ gsSession[u].n2 \in Nat
    BY AgreementFields DEF RotationInv, UavSession, GsSession
<1>2. \A m \in msgs :
          /\ m.type = "M1" => m.from \in Uav /\ m.n1 \in Nat
          /\ m.type = "M2" => m.to \in Uav /\ m.n1 \in Nat /\ m.n2 \in Nat
          /\ m.type = "M3" => m.from \in Uav
          /\ m.type = "M4" => m.to \in Uav /\ m.n2 \in Nat
    BY AgreementFields
    DEF RotationInv, MessageM1, MessageM2, MessageM3, MessageM4
<1>3. \A m \in msgs : m.type = "M3" =>
          /\ Req(m) \in Nat /\ Req(m) <= ses[m.from].n1
          /\ Req(m) = ses[m.from].n1 => ses[m.from].sessionKey = KeyOfM3(m)
    BY DEF RotationInv, AgreementInv, ConfirmInv, Req
<1> QED
    BY <1>1, <1>2, <1>3

LEMMA KeyNonces ==
    ASSUME NEW m3
    PROVE  KeyOfM3(m3).n1 = Req(m3) /\ KeyOfM3(m3).n2 = Ans(m3)
BY DEF KeyOfM3, SessionKey, Req, Ans

LEMMA InitHistory == Init => HistoryInv
BY InitRotation DEF Init, HistoryInv, SentInv, SessionInv, OrderInv

LEMMA AskHistory ==
    ASSUME HistoryInv, NEW u \in Uav, NEW m1 \in MessageM1, AskStep(u, m1)
    PROVE  SentInv' /\ SessionInv' /\ OrderInv'
<1>1. m1.type = "M1" /\ msgs' = msgs \cup {m1} /\ gsSession' = gsSession
    BY DEF MessageM1, AskStep
<1>2. \A v, n1, n2 : Answered(v, n1, n2)' <=> Answered(v, n1, n2)
    BY <1>1 DEF Answered
<1>3. \A v \in Uav : ses[v].n1 \in Nat /\ ses[v].n1 <= ses'[v].n1
    BY HistoryTypes DEF AskStep, HistoryInv
<1>4. SentInv'
    <2> SUFFICES ASSUME NEW m \in msgs'
                 PROVE  /\ m.type = "M1" => m.n1 <= ses'[m.from].n1
                        /\ m.type = "M2" => /\ m.n1 <= ses'[m.to].n1
                                            /\ m.n2 <= gsSession'[m.to].n2
                        /\ m.type = "M3" => Answered(m.from, Req(m), Ans(m))'
                        /\ m.type = "M4" =>
                               /\ m.n2 = m.key.n2
                               /\ \E a \in msgs' : /\ a.type = "M3" /\ a.from = m.to
                                                   /\ KeyOfM3(a) = m.key
        BY DEF SentInv
    <2>1. CASE m = m1
        <3>1. m1.n1 = ses'[m1.from].n1 /\ m1.n1 \in Nat
            BY HistoryTypes DEF AskStep, HistoryInv
        <3> QED
            BY <1>1, <2>1, <3>1
    <2>2. CASE m \in msgs
        <3>1. ses'[m.from].n1 \in Nat \/ m.type # "M1"
            BY <2>2, HistoryTypes DEF AskStep, HistoryInv
        <3>2. ses'[m.to].n1 \in Nat \/ m.type # "M2"
            BY <2>2, HistoryTypes DEF AskStep, HistoryInv
        <3> QED
            BY <1>1, <1>2, <1>3, <2>2, <3>1, <3>2, HistoryTypes
            DEF HistoryInv, SentInv
    <2> QED
        BY <1>1, <2>1, <2>2
<1>5. SessionInv'
    BY <1>1, <1>2 DEF HistoryInv, SessionInv
<1>6. OrderInv'
    BY <1>1 DEF HistoryInv, OrderInv
<1> QED
    BY <1>4, <1>5, <1>6

\* A new session is newer than any that was ever confirmed.
LEMMA OpenHistory ==
    ASSUME HistoryInv, NEW u \in Uav, NEW m1 \in msgs, NEW m2 \in MessageM2,
           OpenStep(u, m1, m2)
    PROVE  SentInv' /\ SessionInv' /\ OrderInv'
<1>1. /\ m2.type = "M2" /\ m2.to = u /\ msgs' = msgs \cup {m2} /\ ses' = ses
      /\ m2.n2 = gsSession[u].n2 + 1 /\ gsSession[u].n2 \in Nat
      /\ gsSession'[u].n2 = m2.n2 /\ gsSession'[u].n1 = m2.n1
      /\ gsSession'[u].sessionKey = None
      /\ \A v \in Uav \ {u} : gsSession'[v] = gsSession[v]
    BY HistoryTypes DEF MessageM2, OpenStep, HistoryInv
<1>2. \A v, n1, n2 : Answered(v, n1, n2) => Answered(v, n1, n2)'
    BY <1>1 DEF Answered
<1>3. \A m \in msgs : m.type = "M3" => Ans(m) <= gsSession[m.from].n2 /\ Ans(m) \in Nat
    BY HistoryTypes DEF HistoryInv, SentInv, Answered
<1>4. SentInv'
    <2>1. m2.n1 <= ses[u].n1
        BY <1>1 DEF OpenStep, HistoryInv, SentInv
    <2>2. \A m \in msgs : m.type = "M2" => m.n2 <= gsSession'[m.to].n2
        BY <1>1, HistoryTypes DEF HistoryInv, SentInv
    <2> QED
        BY <1>1, <1>2, <2>1, <2>2 DEF HistoryInv, SentInv
<1>5. SessionInv'
    <2>1. Answered(u, m2.n1, m2.n2)'
        BY <1>1 DEF Answered
    <2> QED
        BY <1>1, <1>2, <2>1 DEF HistoryInv, SessionInv
<1>6. OrderInv'
    <2> SUFFICES ASSUME NEW a \in msgs', NEW b \in msgs', a.type = "M3",
                        b.type = "M2", a.from = b.to, Req(a) < b.n1
                 PROVE  Ans(a) < b.n2
        BY DEF OrderInv
    <2>1. a \in msgs
        BY <1>1
    <2>2. CASE b = m2
        BY <1>1, <1>3, <2>1, <2>2
    <2>3. CASE b \in msgs
        BY <2>1, <2>3 DEF HistoryInv, OrderInv
    <2> QED
        BY <1>1, <2>2, <2>3
<1> QED
    BY <1>4, <1>5, <1>6

\* A device confirms only the newest of its requests.
LEMMA KeyHistory ==
    ASSUME HistoryInv, NEW m2 \in msgs, NEW m3 \in MessageM3, KeyStep(m2, m3)
    PROVE  SentInv' /\ SessionInv' /\ OrderInv'
<1>1. /\ m3.type = "M3" /\ m3.from = m2.to /\ msgs' = msgs \cup {m3}
      /\ Req(m3) = ses[m2.to].n1 /\ Ans(m3) = m2.n2
      /\ m2.type = "M2" /\ m2.n1 = ses[m2.to].n1
      /\ gsSession' = gsSession
    BY DEF MessageM3, KeyStep, DerivesKey, Req, Ans
<1>2. \A v \in Uav : ses'[v].n1 = ses[v].n1
    BY DEF KeyStep
<1>3. \A v, n1, n2 : Answered(v, n1, n2)' <=> Answered(v, n1, n2)
    BY <1>1 DEF Answered
<1>4. Answered(m3.from, Req(m3), Ans(m3))
    BY <1>1 DEF Answered
<1>5. SentInv'
    BY <1>1, <1>2, <1>3, <1>4, HistoryTypes DEF HistoryInv, SentInv
<1>6. SessionInv'
    BY <1>1, <1>3 DEF HistoryInv, SessionInv
<1>7. OrderInv'
    <2> SUFFICES ASSUME NEW a \in msgs', NEW b \in msgs', a.type = "M3",
                        b.type = "M2", a.from = b.to, Req(a) < b.n1
                 PROVE  Ans(a) < b.n2
        BY DEF OrderInv
    <2>1. b \in msgs
        BY <1>1
    <2>2. CASE a = m3
        BY <1>1, <2>1, <2>2, HistoryTypes DEF HistoryInv, SentInv
    <2>3. CASE a \in msgs
        BY <2>1, <2>3 DEF HistoryInv, OrderInv
    <2> QED
        BY <1>1, <2>2, <2>3
<1> QED
    BY <1>5, <1>6, <1>7

LEMMA CommitHistory ==
    ASSUME HistoryInv, NEW u \in Uav, NEW m3 \in msgs, NEW m4 \in MessageM4,
           CommitStep(u, m3, m4)
    PROVE  SentInv' /\ SessionInv' /\ OrderInv'
<1>1. /\ m4.type = "M4" /\ m4.to = u /\ msgs' = msgs \cup {m4} /\ ses' = ses
      /\ m4.key = KeyOfM3(m3) /\ m3.type = "M3" /\ m3.from = u
      /\ m4.n2 = gsSession[u].n2 /\ Ans(m3) = gsSession[u].n2
      /\ \A v \in Uav \ {u} : gsSession'[v] = gsSession[v]
      /\ gsSession'[u].n1 = gsSession[u].n1
      /\ gsSession'[u].n2 = gsSession[u].n2
      /\ gsSession'[u].ephemeral = FALSE
    BY DEF MessageM4, CommitStep, CommitsKey, Ans
<1>2. m4.n2 = m4.key.n2
    BY <1>1, KeyNonces
<1>3. \A v, n1, n2 : Answered(v, n1, n2)' <=> Answered(v, n1, n2)
    BY <1>1 DEF Answered
<1>4. SentInv'
    <2> SUFFICES ASSUME NEW m \in msgs'
                 PROVE  /\ m.type = "M1" => m.n1 <= ses'[m.from].n1
                        /\ m.type = "M2" => /\ m.n1 <= ses'[m.to].n1
                                            /\ m.n2 <= gsSession'[m.to].n2
                        /\ m.type = "M3" => Answered(m.from, Req(m), Ans(m))'
                        /\ m.type = "M4" =>
                               /\ m.n2 = m.key.n2
                               /\ \E a \in msgs' : /\ a.type = "M3" /\ a.from = m.to
                                                   /\ KeyOfM3(a) = m.key
        BY DEF SentInv
    <2>1. CASE m = m4
        BY <1>1, <1>2, <2>1
    <2>2. CASE m \in msgs
        BY <1>1, <1>3, <2>2, HistoryTypes DEF HistoryInv, SentInv
    <2> QED
        BY <1>1, <2>1, <2>2
<1>5. SessionInv'
    BY <1>1, <1>3 DEF HistoryInv, SessionInv
<1>6. OrderInv'
    BY <1>1 DEF HistoryInv, OrderInv
<1> QED
    BY <1>4, <1>5, <1>6

LEMMA NextHistory == HistoryInv /\ [Next]_vars => HistoryInv'
<1> SUFFICES ASSUME HistoryInv, [Next]_vars
             PROVE  SentInv' /\ SessionInv' /\ OrderInv'
    BY NextRotation DEF HistoryInv
<1>1. ASSUME UNCHANGED <<gsSession, msgs>>, \A v \in Uav : ses'[v].n1 = ses[v].n1
      PROVE  SentInv' /\ SessionInv' /\ OrderInv'
    <2>1. SentInv'
        BY <1>1, HistoryTypes DEF HistoryInv, SentInv, Answered
    <2> QED
        BY <1>1, <2>1 DEF HistoryInv, SessionInv, OrderInv, Answered
<1>2. CASE \E u \in Uav : EnrollStep(u)
    BY <1>1, <1>2 DEF EnrollStep
<1>3. CASE \E m2 \in msgs : ExtendStep(m2)
    BY <1>1, <1>3 DEF ExtendStep
<1>4. CASE \E m4 \in msgs : AdoptStep(m4)
    BY <1>1, <1>4 DEF AdoptStep
<1>5. CASE Idle
    BY <1>1, <1>5 DEF Idle
<1> QED
    BY <1>2, <1>3, <1>4, <1>5, StepKinds, AskHistory, OpenHistory, KeyHistory,
       CommitHistory DEF HistoryInv
-----------------------------------------------------------------------------
(* Devices out of step *)

\* An M4 that its device can still open is the last that the ground station
\* sent it, unless it has been enrolled again.
LastInv ==
    \A m \in msgs : m.type = "M4" =>
        /\ m.n2 = gsSession[m.to].n2 => gsSession[m.to].sessionKey # None
        /\ m.key.mk <= dev[m.to].mk
        /\ m.key = ses[m.to].sessionKey /\ m.key.mk = dev[m.to].mk =>
               dev[m.to].pendingTid = m.tidNew

\* A device keeps its identity while the ground station waits for its M3.
AskedInv ==
    /\ \A u \in Uav : st[u].mk # 0 => st[u].tid.mk <= st[u].mk
    /\ \A m \in msgs : m.type = "M3" =>
           /\ m.tid.mk <= st[m.from].mk
           /\ /\ gsSession[m.from].ephemeral
              /\ gsSession[m.from].n2 = Ans(m)
              /\ m.tid.mk = st[m.from].mk
              => m.tid = st[m.from].tid

StepInv == HistoryInv /\ LastInv /\ AskedInv /\ StrandedOnlyByM4OutOfStep

LEMMA M3Fields ==
    ASSUME HistoryInv, NEW m \in msgs, m.type = "M3"
    PROVE  /\ m.from \in Uav /\ m.tid \in Tid /\ m.tid.mk \in Nat
           /\ Req(m) \in Nat /\ Ans(m) \in Nat
           /\ Ans(m) <= gsSession[m.from].n2
<1>1. m.from \in Uav /\ m.tid \in Tid
    BY AgreementFields DEF HistoryInv, RotationInv, MessageM3
<1>2. Answered(m.from, Req(m), Ans(m))
    BY DEF HistoryInv, SentInv
<1>3. Ans(m) \in Nat /\ Ans(m) <= gsSession[m.from].n2
    BY <1>2, HistoryTypes DEF HistoryInv, SentInv, Answered
<1> QED
    BY <1>1, <1>3, HistoryTypes DEF Tid, HistoryInv

\* What an M4 says of the session it confirms.
LEMMA M4Fields ==
    ASSUME HistoryInv, NEW m \in msgs, m.type = "M4"
    PROVE  /\ m.to \in Uav /\ m.key \in Key /\ m.key # None
           /\ m.key.mk \in Nat /\ m.tidNew.mk = m.key.mk
           /\ m.n1 = m.key.n1
           /\ m.n2 \in Nat /\ m.n2 <= gsSession[m.to].n2
           /\ \E a \in msgs : /\ a.type = "M3" /\ a.from = m.to
                              /\ KeyOfM3(a) = m.key
                              /\ Req(a) = m.key.n1 /\ Ans(a) = m.n2
           /\ Answered(m.to, m.key.n1, m.n2)
<1>1. m.to \in Uav /\ m.key \in Key
    BY AgreementFields DEF HistoryInv, RotationInv, MessageM4
<1>2. m.key # None /\ m.key.mk \in Nat
    BY <1>1, Phase2Assumption DEF Key
<1>3. m.tidNew.mk = m.key.mk /\ m.n1 = m.key.n1
    <2>1. m.tidNew = Rotated(m.key) /\ m.n1 = m.key.n1
        BY DEF HistoryInv, RotationInv, OfferedInv
    <2> QED
        BY <2>1 DEF Rotated
<1>4. PICK a \in msgs : a.type = "M3" /\ a.from = m.to /\ KeyOfM3(a) = m.key
    BY DEF HistoryInv, SentInv
<1>5. Req(a) = m.key.n1 /\ Ans(a) = m.n2
    BY <1>4, KeyNonces DEF HistoryInv, SentInv
<1>6. Answered(m.to, m.key.n1, m.n2)
    BY <1>4, <1>5 DEF HistoryInv, SentInv
<1>7. m.n2 \in Nat /\ m.n2 <= gsSession[m.to].n2
    BY <1>4, <1>5, M3Fields
<1> QED
    BY <1>1, <1>2, <1>3, <1>4, <1>5, <1>6, <1>7

\* While an M3 for the session of the ground station is outstanding, its
\* device holds no key that the ground station has confirmed.
LEMMA NothingToAdopt ==
    ASSUME HistoryInv, LastInv, NEW m3 \in msgs, m3.type = "M3",
           gsSession[m3.from].ephemeral, gsSession[m3.from].n2 = Ans(m3),
           NEW m4 \in msgs, m4.type = "M4", m4.to = m3.from,
           m4.key = ses[m3.from].sessionKey
    PROVE  FALSE
<1> DEFINE u == m3.from
<1>1. /\ u \in Uav /\ ses[u].n1 \in Nat /\ gsSession[u].n2 \in Nat
      /\ Req(m3) \in Nat /\ Req(m3) <= ses[u].n1
      /\ Req(m3) = ses[u].n1 => ses[u].sessionKey = KeyOfM3(m3)
    BY HistoryTypes DEF HistoryInv
<1>2. gsSession[u].sessionKey = None
    BY <1>1 DEF HistoryInv, SessionInv
<1>3. m4.n2 # gsSession[u].n2
    BY <1>2 DEF LastInv
<1>4. m4.n2 \in Nat /\ m4.n2 < Ans(m3)
    BY <1>1, <1>3, M4Fields
<1>5. m4.key.n1 = ses[u].n1
    BY <1>1, M4Fields DEF HistoryInv, RotationInv, HeldInv
<1>6. CASE Req(m3) = ses[u].n1
    <2>1. m4.n2 = Ans(m3)
        BY <1>1, <1>6, KeyNonces, M4Fields DEF HistoryInv, SentInv
    <2> QED
        BY <1>4, <2>1
<1>7. CASE Req(m3) < ses[u].n1
    <2>1. PICK b \in msgs : b.type = "M2" /\ b.to = u /\ b.n1 = ses[u].n1 /\ b.n2 = m4.n2
        BY <1>5, M4Fields DEF Answered
    <2>2. Ans(m3) < m4.n2
        BY <1>7, <2>1 DEF HistoryInv, OrderInv
    <2> QED
        BY <1>4, <2>2, M3Fields
<1> QED
    BY <1>1, <1>6, <1>7

\* An M4 for a key exists only after the device has derived it.
LEMMA NoM4BeforeKey ==
    ASSUME HistoryInv, NEW m2 \in msgs, NEW m3 \in MessageM3, KeyStep(m2, m3),
           NEW m4 \in msgs, m4.type = "M4", m4.to = m2.to, m4.key = KeyOfM3(m3)
    PROVE  FALSE
<1>1. m2.to \in Uav /\ ses[m2.to].sessionKey = None
    BY HistoryTypes
    DEF KeyStep, HistoryInv, RotationInv, AgreementInv, DeviceInv
<1>2. PICK a \in msgs : /\ a.type = "M3" /\ a.from = m2.to
                        /\ KeyOfM3(a) = m4.key /\ Req(a) = m4.key.n1
    BY M4Fields
<1>3. m4.key.n1 = ses[m2.to].n1
    BY KeyNonces DEF KeyStep, DerivesKey, Req
<1>4. ses[m2.to].sessionKey = m4.key
    BY <1>2, <1>3, HistoryTypes DEF HistoryInv
<1> QED
    BY <1>1, <1>4, M4Fields

LEMMA InitStep == Init => StepInv
BY InitHistory
DEF Init, StepInv, LastInv, AskedInv, StrandedOnlyByM4OutOfStep

LEMMA LastStep ==
    ASSUME StepInv, [Next]_vars
    PROVE  LastInv'
<1>0. \A v \in Uav : dev[v].mk \in Nat /\ gsSession[v].n2 \in Nat
    BY AgreementFields DEF StepInv, HistoryInv, RotationInv, DeviceRecord, GsSession
<1>1. ASSUME NEW u \in Uav, EnrollStep(u) PROVE LastInv'
    BY <1>0, <1>1, M4Fields DEF EnrollStep, StepInv, LastInv
<1>2. ASSUME NEW u \in Uav, NEW m1 \in MessageM1, AskStep(u, m1) PROVE LastInv'
    <2>1. m1.type = "M1"
        BY DEF MessageM1
    <2> QED
        BY <1>2, <2>1, M4Fields DEF AskStep, StepInv, LastInv
<1>3. ASSUME NEW u \in Uav, NEW m1 \in msgs, NEW m2 \in MessageM2,
             OpenStep(u, m1, m2)
      PROVE  LastInv'
    <2>1. m2.type = "M2"
        BY DEF MessageM2
    <2>2. \A m \in msgs : m.type = "M4" /\ m.to = u => m.n2 # gsSession'[u].n2
        BY <1>0, <1>3, M4Fields DEF OpenStep, StepInv
    <2> QED
        BY <1>3, <2>1, <2>2, M4Fields DEF OpenStep, StepInv, LastInv
<1>4. ASSUME NEW m2 \in msgs, NEW m3 \in MessageM3, KeyStep(m2, m3) PROVE LastInv'
    <2>1. m3.type = "M3" /\ msgs' = msgs \cup {m3}
        BY <1>4 DEF MessageM3, KeyStep, DerivesKey
    <2>2. \A m \in msgs : m.type = "M4" /\ m.to = m2.to =>
              m.key # ses'[m2.to].sessionKey
        BY <1>4, NoM4BeforeKey DEF StepInv, KeyStep
    <2> QED
        BY <1>4, <2>1, <2>2, M4Fields DEF KeyStep, StepInv, LastInv
<1>5. ASSUME NEW m2 \in msgs, ExtendStep(m2) PROVE LastInv'
    BY <1>5, M4Fields DEF ExtendStep, StepInv, LastInv
<1>6. ASSUME NEW u \in Uav, NEW m3 \in msgs, NEW m4 \in MessageM4,
             CommitStep(u, m3, m4)
      PROVE  LastInv'
    <2>1. /\ m4.type = "M4" /\ m4.to = u /\ msgs' = msgs \cup {m4}
          /\ m4.key # None /\ m4.key.mk = dev[u].mk
          /\ gsSession'[u].sessionKey = m4.key
          /\ gsSession'[u].n2 = gsSession[u].n2
          /\ \A v \in Uav \ {u} : gsSession'[v] = gsSession[v] /\ dev'[v] = dev[v]
          /\ dev'[u].mk = dev[u].mk /\ dev'[u].pendingTid = m4.tidNew
          /\ ses' = ses
        BY <1>6, Phase2Assumption DEF MessageM4, CommitStep, CommitsKey
    <2>2. \A m \in msgs : m.type = "M4" /\ m.to = u => m.key # ses[u].sessionKey
        BY <1>6, NothingToAdopt DEF StepInv, CommitStep, CommitsKey, Ans
    <2> QED
        BY <1>0, <2>1, <2>2, M4Fields DEF StepInv, LastInv
<1>7. ASSUME NEW m4 \in msgs, AdoptStep(m4) PROVE LastInv'
    BY <1>7, M4Fields DEF AdoptStep, StepInv, LastInv
<1>8. CASE Idle
    BY <1>8 DEF Idle, StepInv, LastInv
<1> QED
    BY <1>1, <1>2, <1>3, <1>4, <1>5, <1>6, <1>7, <1>8, StepKinds
    DEF StepInv, HistoryInv

LEMMA AskedStep ==
    ASSUME StepInv, [Next]_vars
    PROVE  AskedInv'
<1>0. \A v \in Uav : /\ dev[v].mk \in Nat /\ gsSession[v].n2 \in Nat
                     /\ ses[v].n1 \in Nat
                     /\ st[v].mk = dev[v].mk
                     /\ st[v].mk = 0 => ses[v].n1 = 0
    BY AgreementFields, HistoryTypes
    DEF StepInv, HistoryInv, RotationInv, HeldInv, DeviceRecord, GsSession
<1>1. ASSUME NEW u \in Uav, EnrollStep(u) PROVE AskedInv'
    <2>1. /\ \A v \in Uav \ {u} : st'[v] = st[v]
          /\ st'[u].mk = st[u].mk + 1 /\ st'[u].tid.mk = st'[u].mk
          /\ gsSession' = gsSession /\ msgs' = msgs
        BY <1>0, <1>1 DEF EnrollStep
    <2> QED
        BY <1>0, <2>1, M3Fields DEF StepInv, AskedInv
<1>2. ASSUME NEW u \in Uav, NEW m1 \in MessageM1, AskStep(u, m1) PROVE AskedInv'
    BY <1>2 DEF AskStep, MessageM1, StepInv, AskedInv
<1>3. ASSUME NEW u \in Uav, NEW m1 \in msgs, NEW m2 \in MessageM2,
             OpenStep(u, m1, m2)
      PROVE  AskedInv'
    <2>1. m2.type = "M2"
        BY DEF MessageM2
    <2>2. \A m \in msgs : m.type = "M3" /\ m.from = u => gsSession'[u].n2 # Ans(m)
        BY <1>0, <1>3, M3Fields DEF OpenStep, StepInv
    <2> QED
        BY <1>3, <2>1, <2>2, M3Fields DEF OpenStep, StepInv, AskedInv
<1>4. ASSUME NEW m2 \in msgs, NEW m3 \in MessageM3, KeyStep(m2, m3) PROVE AskedInv'
    <2>1. /\ m3.from = m2.to /\ m3.tid = st[m2.to].tid /\ msgs' = msgs \cup {m3}
          /\ m2.to \in Uav /\ ses[m2.to].n1 # 0
          /\ UNCHANGED <<st, gsSession>>
        BY <1>4, HistoryTypes DEF KeyStep, DerivesKey, StepInv, HistoryInv
    <2>2. m3.tid.mk <= st[m3.from].mk
        BY <1>0, <2>1 DEF StepInv, AskedInv
    <2> QED
        BY <2>1, <2>2 DEF StepInv, AskedInv
<1>5. ASSUME NEW m2 \in msgs, ExtendStep(m2) PROVE AskedInv'
    BY <1>5 DEF ExtendStep, StepInv, AskedInv
<1>6. ASSUME NEW u \in Uav, NEW m3 \in msgs, NEW m4 \in MessageM4,
             CommitStep(u, m3, m4)
      PROVE  AskedInv'
    <2>1. /\ m4.type = "M4" /\ msgs' = msgs \cup {m4} /\ st' = st
          /\ \A v \in Uav \ {u} : gsSession'[v] = gsSession[v]
          /\ gsSession'[u].ephemeral = FALSE
        BY <1>6 DEF MessageM4, CommitStep, CommitsKey
    <2> QED
        BY <2>1, M3Fields DEF StepInv, AskedInv
<1>7. ASSUME NEW m4 \in msgs, AdoptStep(m4) PROVE AskedInv'
    <2>1. /\ m4.type = "M4" /\ m4.to \in Uav
          /\ m4.key = ses[m4.to].sessionKey
          /\ \A v \in Uav \ {m4.to} : st'[v] = st[v]
          /\ st'[m4.to].mk = st[m4.to].mk /\ st'[m4.to].tid.mk = m4.key.mk
          /\ m4.key.mk <= st[m4.to].mk
          /\ UNCHANGED <<gsSession, msgs>>
        BY <1>0, <1>7, M4Fields DEF AdoptStep, StepInv, LastInv
    <2>2. \A m \in msgs : m.type = "M3" /\ m.from = m4.to =>
              ~(gsSession[m.from].ephemeral /\ gsSession[m.from].n2 = Ans(m))
        BY <1>7, <2>1, NothingToAdopt DEF StepInv
    <2> QED
        BY <2>1, <2>2, M3Fields DEF StepInv, AskedInv
<1>8. CASE Idle
    BY <1>8 DEF Idle, StepInv, AskedInv
<1> QED
    BY <1>1, <1>2, <1>3, <1>4, <1>5, <1>6, <1>7, <1>8, StepKinds
    DEF StepInv, HistoryInv

LEMMA StrandedStep ==
    ASSUME StepInv, [Next]_vars
    PROVE  StrandedOnlyByM4OutOfStep'
<1>0. \A v \in Uav : st[v].mk = dev[v].mk
    BY DEF StepInv, HistoryInv, RotationInv, HeldInv
<1>1. ASSUME NEW u \in Uav, EnrollStep(u) PROVE StrandedOnlyByM4OutOfStep'
    <2>1. /\ \A v \in Uav \ {u} : dev'[v] = dev[v] /\ st'[v] = st[v]
          /\ dev'[u].mk # 0 /\ st'[u].tid = dev'[u].tid /\ msgs' = msgs
        BY <1>1 DEF EnrollStep
    <2>2. Resolvable(u)'
        BY <2>1 DEF Resolvable, FindByTid
    <2>3. \A v \in Uav \ {u} : Resolvable(v)' <=> Resolvable(v)
        BY <2>1 DEF Resolvable, FindByTid
    <2> QED
        BY <2>1, <2>2, <2>3 DEF StepInv, StrandedOnlyByM4OutOfStep
<1>2. ASSUME UNCHANGED <<dev, st>>, msgs \subseteq msgs'
      PROVE  StrandedOnlyByM4OutOfStep'
    BY <1>2 DEF StepInv, StrandedOnlyByM4OutOfStep, Resolvable, FindByTid
<1>3. ASSUME NEW u \in Uav, NEW m3 \in msgs, NEW m4 \in MessageM4,
             CommitStep(u, m3, m4)
      PROVE  StrandedOnlyByM4OutOfStep'
    <2>1. /\ m4.type = "M4" /\ m4.to = u /\ m4.tid = m3.tid
          /\ msgs' = msgs \cup {m4} /\ st' = st
          /\ \A v \in Uav \ {u} : dev'[v] = dev[v]
          /\ dev'[u].pendingTid = m4.tidNew
        BY <1>3 DEF MessageM4, CommitStep, CommitsKey
    <2>2. m3.tid = st[u].tid
        BY <1>0, <1>3
        DEF CommitStep, CommitsKey, Ans, StepInv, AskedInv
    <2>3. \A v \in Uav \ {u} : Resolvable(v)' <=> Resolvable(v)
        BY <2>1 DEF Resolvable, FindByTid
    <2> QED
        BY <2>1, <2>2, <2>3 DEF StepInv, StrandedOnlyByM4OutOfStep
<1>4. ASSUME NEW m4 \in msgs, AdoptStep(m4) PROVE StrandedOnlyByM4OutOfStep'
    <2> DEFINE u == m4.to
    <2>1. /\ m4.type = "M4" /\ u \in Uav
          /\ m4.key = ses[u].sessionKey
          /\ \A v \in Uav \ {u} : st'[v] = st[v]
          /\ st'[u].mk = st[u].mk /\ st'[u].tid = m4.tidNew
          /\ m4.tidNew.mk = m4.key.mk
          /\ UNCHANGED <<dev, msgs>>
        BY <1>4, M4Fields DEF AdoptStep, StepInv
    <2>2. CASE m4.key.mk = dev[u].mk
        <3>1. dev[u].pendingTid = m4.tidNew
            BY <2>1, <2>2 DEF StepInv, LastInv
        <3>2. st'[u].mk # 0 => Resolvable(u)'
            BY <1>0, <2>1, <3>1 DEF Resolvable, FindByTid
        <3>3. \A v \in Uav \ {u} : Resolvable(v)' <=> Resolvable(v)
            BY <2>1 DEF Resolvable, FindByTid
        <3> QED
            BY <2>1, <3>2, <3>3 DEF StepInv, StrandedOnlyByM4OutOfStep
    <2>3. CASE m4.key.mk # dev[u].mk
        <3>1. st'[u].tid.mk # st'[u].mk
            BY <1>0, <2>1, <2>3
        <3>2. \A v \in Uav \ {u} : Resolvable(v)' <=> Resolvable(v)
            BY <2>1 DEF Resolvable, FindByTid
        <3> QED
            BY <2>1, <3>1, <3>2 DEF StepInv, StrandedOnlyByM4OutOfStep
    <2> QED
        BY <2>2, <2>3
<1>5. CASE \E u \in Uav, m1 \in MessageM1 : AskStep(u, m1)
    BY <1>2, <1>5 DEF AskStep
<1>6. CASE \E u \in Uav, m1 \in msgs, m2 \in MessageM2 : OpenStep(u, m1, m2)
    BY <1>2, <1>6 DEF OpenStep
<1>7. CASE \E m2 \in msgs, m3 \in MessageM3 : KeyStep(m2, m3)
    <2> PICK m2 \in msgs, m3 \in MessageM3 : KeyStep(m2, m3)
        BY <1>7
    <2>1. DerivesKey(m2, m3) /\ UNCHANGED <<dev, st>>
        BY DEF KeyStep
    <2>2. msgs \subseteq msgs'
        BY <2>1 DEF DerivesKey
    <2> QED
        BY <1>2, <2>1, <2>2
<1>8. CASE (\E m2 \in msgs : ExtendStep(m2)) \/ Idle
    BY <1>2, <1>8 DEF ExtendStep, Idle
<1> QED
    BY <1>1, <1>3, <1>4, <1>5, <1>6, <1>7, <1>8, StepKinds
    DEF StepInv, HistoryInv

LEMMA StepInvariant == Spec => []StepInv
<1>1. StepInv /\ [Next]_vars => StepInv'
    BY NextHistory, LastStep, AskedStep, StrandedStep DEF StepInv
<1> QED
    BY InitStep, <1>1, PTL DEF Spec

\* A device whose identity the ground station no longer resolves has missed
\* an M4, or has taken one that belongs to an earlier enrolment; nothing else
\* that handleM1 to handleM4 do, in whatever order, strands it.
THEOREM OutOfStep == Spec => []StrandedOnlyByM4OutOfStep
<1>1. StepInv => StrandedOnlyByM4OutOfStep
    BY DEF StepInv
<1> QED
    BY StepInvariant, <1>1, PTL
-----------------------------------------------------------------------------
(* The age of a key *)

\* The M1 of a device's present request carries the time of that request, and
\* no answer to it is younger than the window allows.
RecentInv ==
    /\ \A u \in Uav : ses[u].n1 # 0 => ses[u].transcript # <<>>
    /\ \A m \in msgs :
           /\ m.type \in {"M1", "M2"} => m.n1 # 0
           /\ m.type = "M1" /\ m.n1 = ses[m.from].n1 =>
                  m.t1 = ses[m.from].transcript[1].t
           /\ m.type = "M2" /\ m.n1 = ses[m.to].n1 =>
                  m.t2 <= ses[m.to].transcript[1].t + Window

LEMMA RecentStep ==
    ASSUME HistoryInv, RecentInv, [Next]_vars
    PROVE  RecentInv'
<1>0. \A v \in Uav : ses[v].n1 \in Nat
    BY HistoryTypes DEF HistoryInv
<1>1. ASSUME NEW u \in Uav, NEW m1 \in MessageM1, AskStep(u, m1) PROVE RecentInv'
    <2>1. /\ m1.type = "M1" /\ msgs' = msgs \cup {m1}
          /\ m1.from = u /\ m1.t1 = ses'[u].transcript[1].t
          /\ \A v \in Uav \ {u} : ses'[v] = ses[v]
          /\ ses'[u].n1 = ses[u].n1 + 1 /\ ses'[u].transcript # <<>>
          /\ m1.n1 # 0
        BY <1>0, <1>1 DEF MessageM1, AskStep
    <2>2. \A m \in msgs :
              /\ m.type = "M1" /\ m.from = u => m.n1 # ses'[u].n1
              /\ m.type = "M2" /\ m.to = u => m.n1 # ses'[u].n1
        BY <1>0, <2>1, HistoryTypes DEF HistoryInv, SentInv
    <2>3. \A v \in Uav : ses'[v].n1 # 0 => ses'[v].transcript # <<>>
        BY <2>1 DEF RecentInv
    <2>4. \A m \in msgs : m.type = "M1" \/ m.type = "M2" => m.n1 # 0
        BY DEF RecentInv
    <2>5. \A m \in msgs : m.type = "M1" /\ m.n1 = ses'[m.from].n1 =>
              m.t1 = ses'[m.from].transcript[1].t
        BY <2>1, <2>2, HistoryTypes DEF HistoryInv, RecentInv
    <2>6. \A m \in msgs : m.type = "M2" /\ m.n1 = ses'[m.to].n1 =>
              m.t2 <= ses'[m.to].transcript[1].t + Window
        BY <2>1, <2>2, HistoryTypes DEF HistoryInv, RecentInv
    <2> QED
        BY <2>1, <2>3, <2>4, <2>5, <2>6 DEF RecentInv
<1>2. ASSUME NEW u \in Uav, NEW m1 \in msgs, NEW m2 \in MessageM2,
             OpenStep(u, m1, m2)
      PROVE  RecentInv'
    <2>1. /\ m2.type = "M2" /\ msgs' = msgs \cup {m2} /\ ses' = ses
          /\ m1.type = "M1" /\ m1.from = m2.to /\ m2.n1 = m1.n1
          /\ m2.t2 <= m1.t1 + Window
        BY <1>2 DEF MessageM2, OpenStep
    <2> QED
        BY <2>1 DEF RecentInv
<1>3. ASSUME \A m \in msgs' : m.type \in {"M1", "M2"} => m \in msgs,
             \A v \in Uav :
                 /\ ses'[v].n1 = ses[v].n1
                 /\ ses[v].n1 # 0 /\ ses[v].transcript # <<>> =>
                        /\ ses'[v].transcript # <<>>
                        /\ ses'[v].transcript[1] = ses[v].transcript[1]
      PROVE  RecentInv'
    BY <1>3, HistoryTypes DEF HistoryInv, RecentInv
<1>4. CASE \E u \in Uav : EnrollStep(u)
    BY <1>3, <1>4 DEF EnrollStep
<1>5. ASSUME NEW m2 \in msgs, NEW m3 \in MessageM3, KeyStep(m2, m3) PROVE RecentInv'
    <2>1. m3.type = "M3" /\ msgs' = msgs \cup {m3}
        BY <1>5 DEF MessageM3, KeyStep, DerivesKey
    <2>2. \A v \in Uav :
              /\ ses'[v].n1 = ses[v].n1
              /\ ses'[v] # ses[v] =>
                     /\ ses'[v].transcript # <<>>
                     /\ ses'[v].transcript[1] = ses[v].transcript[1]
        <3>1. /\ \A v \in Uav \ {m2.to} : ses'[v] = ses[v]
              /\ ses'[m2.to].n1 = ses[m2.to].n1
              /\ ses'[m2.to].transcript = m3.transcript /\ m3.transcript # <<>>
            BY <1>5 DEF KeyStep
        <3>2. m3.transcript[1] = ses[m2.to].transcript[1]
            BY <1>5 DEF KeyStep, DerivesKey
        <3> QED
            BY <3>1, <3>2
    <2>3. \A m \in msgs' : m.type \in {"M1", "M2"} => m \in msgs
        BY <2>1
    <2> QED
        BY <1>3, <2>2, <2>3
<1>6. ASSUME NEW m2 \in msgs, ExtendStep(m2) PROVE RecentInv'
    BY <1>3, <1>6 DEF ExtendStep
<1>7. ASSUME NEW u \in Uav, NEW m3 \in msgs, NEW m4 \in MessageM4,
             CommitStep(u, m3, m4)
      PROVE  RecentInv'
    <2>1. m4.type = "M4" /\ msgs' = msgs \cup {m4} /\ ses' = ses
        BY <1>7 DEF MessageM4, CommitStep, CommitsKey
    <2>2. \A m \in msgs' : m.type \in {"M1", "M2"} => m \in msgs
        BY <2>1
    <2> QED
        BY <1>3, <2>1, <2>2
<1>8. CASE \E m4 \in msgs : AdoptStep(m4)
    BY <1>3, <1>8 DEF AdoptStep
<1>9. CASE Idle
    BY <1>3, <1>9 DEF Idle
<1> QED
    BY <1>1, <1>2, <1>4, <1>5, <1>6, <1>7, <1>8, <1>9, StepKinds
    DEF HistoryInv

\* Only handleM2 gives a device a key, and it does so in time.
LEMMA DerivedInTime ==
    ASSUME HistoryInv, RecentInv, [Next]_vars, NEW u \in Uav,
           ses[u].sessionKey = None, ses'[u].sessionKey # None
    PROVE  now <= ses[u].transcript[1].t + 2 * Window
<1>1. PICK m2 \in msgs : /\ m2.type = "M2" /\ m2.to = u /\ now <= m2.t2 + Window
                         /\ m2.n1 = ses[u].n1 /\ m2.n1 # 0
    <2>1. CASE \E m2 \in msgs, m3 \in MessageM3 : KeyStep(m2, m3)
        BY <2>1 DEF KeyStep
    <2>2. ~\E v \in Uav : EnrollStep(v)
        BY DEF EnrollStep
    <2>3. ~\E v \in Uav, m1 \in MessageM1 : AskStep(v, m1)
        BY DEF AskStep
    <2>4. ~\E v \in Uav, m1 \in msgs, m2 \in MessageM2 : OpenStep(v, m1, m2)
        BY DEF OpenStep
    <2>5. ~\E m2 \in msgs : ExtendStep(m2)
        BY DEF ExtendStep
    <2>6. ~\E v \in Uav, m3 \in msgs, m4 \in MessageM4 : CommitStep(v, m3, m4)
        BY DEF CommitStep
    <2>7. ~\E m4 \in msgs : AdoptStep(m4)
        BY DEF AdoptStep
    <2>8. ~Idle
        BY DEF Idle
    <2> QED
        BY <2>1, <2>2, <2>3, <2>4, <2>5, <2>6, <2>7, <2>8, StepKinds
        DEF HistoryInv
<1>2. m2.t2 <= ses[u].transcript[1].t + Window
    BY <1>1 DEF RecentInv
<1>3. ses[u].transcript[1].t \in Nat
    <2>1. ses[u].transcript \in Seq(Input) /\ ses[u].transcript # <<>>
        BY <1>1, AgreementFields DEF HistoryInv, RotationInv, RecentInv, UavSession
    <2>2. ses[u].transcript[1] \in Input
        BY <2>1
    <2> QED
        BY <2>2 DEF Input
<1>4. m2.t2 \in Nat /\ now \in Nat /\ Window \in Nat
    BY <1>1, AgreementFields, Phase2Assumption
    DEF HistoryInv, RotationInv, AgreementInv, TypeInv, TypeOK, MessageM2
<1> QED
    BY <1>1, <1>2, <1>3, <1>4

\* The two timestamp windows of handleM1 and handleM2 add up, whatever the
\* replay caches have forgotten: no device derives a key from an exchange that
\* it asked for more than two windows ago.
THEOREM RecentKeys == Spec => KeyIsRecent
<1> DEFINE Inv == HistoryInv /\ RecentInv
<1>1. Init => Inv
    BY InitHistory DEF Init, RecentInv
<1>2. Inv /\ [Next]_vars => Inv'
    BY NextHistory, RecentStep
<1>3. Inv /\ [Next]_vars =>
          [\A u \in Uav :
               ses[u].sessionKey = None /\ ses'[u].sessionKey # None
               => now <= ses[u].transcript[1].t + 2 * Window]_vars
    BY DerivedInTime
<1> HIDE DEF Inv
<1> QED
    BY <1>1, <1>2, <1>3, PTL DEF Spec, KeyIsRecent
-----------------------------------------------------------------------------
(* What the replay caches add *)

\* The nonces that can be offered to the cache of the ground station.
Requests == UNION {{u} \X (1 .. MaxAttempts[u]) : u \in Uav}

\* No cache is ever full: it has room for every nonce that can be offered.
\* (With a smaller one the theorems below are false: run phase2_evict.)
NothingForgotten ==
    /\ IsFiniteSet(Requests) /\ Cardinality(Requests) <= Capacity
    /\ \A u \in Uav : MaxSessions[u] <= Capacity

\* Every nonce that was answered or accepted is in the cache it was offered to.
SpentInv ==
    /\ SpentOnce(gsSeen, Requests)
    /\ \A u \in Uav : /\ SpentOnce(uavSeen[u], 1 .. MaxSessions[u])
                      /\ ses[u].n1 <= MaxAttempts[u]
    /\ \A m \in msgs :
           /\ m.type = "M1" => <<m.from, m.n1>> \in Requests
           /\ m.type = "M2" => /\ m.n2 \in 1 .. MaxSessions[m.to]
                               /\ Remembers(gsSeen, <<m.to, m.n1>>)

LEMMA GsSpends ==
    ASSUME NothingForgotten, SpentInv, NEW nonce \in Requests, GsOffer(nonce)
    PROVE  /\ SpentOnce(gsSeen', Requests)
           /\ \A x : Remembers(gsSeen', x) <=> Remembers(gsSeen, x) \/ x = nonce
BY RememberAll, Phase2Assumption DEF NothingForgotten, SpentInv, GsOffer

LEMMA UavSpends ==
    ASSUME NothingForgotten, TypeOK, SpentInv, NEW u \in Uav,
           NEW nonce \in 1 .. MaxSessions[u], UavOffer(u, nonce)
    PROVE  /\ \A v \in Uav : SpentOnce(uavSeen'[v], 1 .. MaxSessions[v])
           /\ \A v \in Uav : \A x : Remembers(uavSeen'[v], x) <=>
                  Remembers(uavSeen[v], x) \/ (v = u /\ x = nonce)
<1> DEFINE S == 1 .. MaxSessions[u]
<1>1. MaxSessions[u] \in Nat /\ Capacity \in Nat /\ MaxSessions[u] <= Capacity
    BY Phase2Assumption DEF NothingForgotten
<1>2. IsFiniteSet(S) /\ Cardinality(S) <= Capacity
    <2>1. 1 \in Int /\ MaxSessions[u] \in Int
        BY <1>1
    <2>2. IsFiniteSet(S) /\ Cardinality(S) = IF 1 > MaxSessions[u] THEN 0
                                             ELSE MaxSessions[u] - 1 + 1
        BY <2>1, FS_Interval
    <2> QED
        BY <1>1, <2>2
<1>3. /\ uavSeen'[u] = Remember(uavSeen[u], nonce, Capacity)
      /\ \A v \in Uav \ {u} : uavSeen'[v] = uavSeen[v]
      /\ ~Remembers(uavSeen[u], nonce)
      /\ SpentOnce(uavSeen[u], S)
    BY DEF UavOffer, TypeOK, SpentInv
<1> HIDE DEF S
<1>4. nonce \in S
    BY DEF S
<1>5. /\ SpentOnce(uavSeen'[u], S)
      /\ \A x : Remembers(uavSeen'[u], x) <=> Remembers(uavSeen[u], x) \/ x = nonce
    BY <1>1, <1>2, <1>3, <1>4, RememberAll
<1> QED
    BY <1>3, <1>5 DEF S, SpentInv

\* The caches only grow.
LEMMA CachesGrow ==
    ASSUME NothingForgotten, HistoryInv, SpentInv, [Next]_vars
    PROVE  /\ SpentOnce(gsSeen', Requests)
           /\ \A x : Remembers(gsSeen, x) => Remembers(gsSeen', x)
           /\ \A u \in Uav :
                  /\ SpentOnce(uavSeen'[u], 1 .. MaxSessions[u])
                  /\ \A x : Remembers(uavSeen[u], x) => Remembers(uavSeen'[u], x)
<1>0. TypeOK
    BY DEF HistoryInv, RotationInv, AgreementInv, TypeInv
<1>1. CASE UNCHANGED <<gsSeen, uavSeen>>
    BY <1>1 DEF SpentInv
<1>2. ASSUME NEW m \in msgs, m.type = "M1", GsOffer(<<m.from, m.n1>>),
             UNCHANGED uavSeen
      PROVE  /\ SpentOnce(gsSeen', Requests)
             /\ \A x : Remembers(gsSeen, x) => Remembers(gsSeen', x)
    <2>1. <<m.from, m.n1>> \in Requests
        BY <1>2 DEF SpentInv
    <2> QED
        BY <1>2, <2>1, GsSpends
<1>3. ASSUME NEW m \in msgs, m.type = "M2", UavOffer(m.to, m.n2)
      PROVE  \A u \in Uav :
                  /\ SpentOnce(uavSeen'[u], 1 .. MaxSessions[u])
                  /\ \A x : Remembers(uavSeen[u], x) => Remembers(uavSeen'[u], x)
    <2>1. m.to \in Uav /\ m.n2 \in 1 .. MaxSessions[m.to]
        BY <1>3, HistoryTypes DEF SpentInv, HistoryInv
    <2> QED
        BY <1>0, <1>3, <2>1, UavSpends
<1>4. ASSUME NEW m \in msgs, NEW intact \in BOOLEAN, HandleM1(m, intact)
      PROVE  m.type = "M1" /\ GsOffer(<<m.from, m.n1>>) /\ UNCHANGED uavSeen
    BY <1>4 DEF HandleM1, uavVars
<1>5. ASSUME NEW m \in msgs, NEW intact \in BOOLEAN, HandleM2(m, intact)
      PROVE  m.type = "M2" /\ UavOffer(m.to, m.n2) /\ UNCHANGED gsSeen
    BY <1>5 DEF HandleM2, gsVars
<1>6. CASE \E m \in msgs, intact \in BOOLEAN : HandleM1(m, intact)
    BY <1>2, <1>4, <1>6 DEF SpentInv
<1>7. CASE \E m \in msgs, intact \in BOOLEAN : HandleM2(m, intact)
    BY <1>3, <1>5, <1>7 DEF SpentInv
<1>8. ASSUME NEW m \in msgs, NEW intact \in BOOLEAN,
             HandleM3(m, intact) \/ HandleM4(m, intact)
      PROVE  UNCHANGED <<gsSeen, uavSeen>>
    BY <1>8 DEF HandleM3, HandleM4, gsVars, uavVars
<1>9. ASSUME NEW u \in Uav, Enroll(u) \/ StartPhase2(u)
      PROVE  UNCHANGED <<gsSeen, uavSeen>>
    BY <1>9 DEF Enroll, StartPhase2, gsVars
<1>10. ASSUME Tick \/ UNCHANGED vars
       PROVE  UNCHANGED <<gsSeen, uavSeen>>
    BY <1>10 DEF Tick, vars, gsVars, uavVars
<1> QED
    BY <1>1, <1>6, <1>7, <1>8, <1>9, <1>10 DEF Next, Deliver

LEMMA SpentStep ==
    ASSUME NothingForgotten, HistoryInv, SpentInv, [Next]_vars
    PROVE  SpentInv'
<1> DEFINE Sent(m) ==
               /\ m.type = "M1" => <<m.from, m.n1>> \in Requests
               /\ m.type = "M2" => /\ m.n2 \in 1 .. MaxSessions[m.to]
                                   /\ Remembers(gsSeen', <<m.to, m.n1>>)
<1>1. \A m \in msgs : Sent(m)
    BY CachesGrow DEF SpentInv
<1>2. \A v \in Uav : ses[v].n1 <= MaxAttempts[v]
    BY DEF SpentInv
<1>3. \A v \in Uav : MaxAttempts[v] \in Nat /\ MaxSessions[v] \in Nat
    BY Phase2Assumption
<1>4. (\A v \in Uav : ses'[v].n1 <= MaxAttempts[v]) /\ (\A m \in msgs' : Sent(m))
      => SpentInv'
    BY CachesGrow DEF SpentInv
<1>5. ASSUME NEW u \in Uav, NEW m1 \in MessageM1, AskStep(u, m1)
      PROVE  SpentInv'
    <2>1. /\ m1.type = "M1" /\ m1.from = u /\ msgs' = msgs \cup {m1}
          /\ m1.n1 \in 1 .. MaxAttempts[u]
          /\ ses'[u].n1 <= MaxAttempts[u]
          /\ \A v \in Uav \ {u} : ses'[v] = ses[v]
        BY <1>3, <1>5, HistoryTypes DEF MessageM1, AskStep, HistoryInv
    <2>2. <<m1.from, m1.n1>> \in Requests
        BY <2>1 DEF Requests
    <2>3. Sent(m1)
        BY <2>1, <2>2
    <2> HIDE DEF Sent
    <2> QED
        BY <1>1, <1>2, <1>4, <2>1, <2>3
<1>6. ASSUME NEW u \in Uav, NEW m1 \in msgs, NEW m2 \in MessageM2,
             OpenStep(u, m1, m2)
      PROVE  SpentInv'
    <2>1. /\ m2.type = "M2" /\ msgs' = msgs \cup {m2} /\ ses' = ses
          /\ m2.to = u /\ m2.n1 = m1.n1
          /\ m2.n2 \in 1 .. MaxSessions[u]
          /\ m1.type = "M1" /\ m1.from = u /\ GsOffer(<<u, m1.n1>>)
        BY <1>3, <1>6, HistoryTypes DEF MessageM2, OpenStep, HistoryInv
    <2>2. Remembers(gsSeen', <<u, m1.n1>>)
        <3>1. <<u, m1.n1>> \in Requests
            BY <1>1, <2>1
        <3> QED
            BY <2>1, <3>1, GsSpends
    <2>3. Sent(m2)
        BY <2>1, <2>2
    <2> HIDE DEF Sent
    <2> QED
        BY <1>1, <1>2, <1>4, <2>1, <2>3
<1>7. ASSUME \A v \in Uav : ses'[v].n1 = ses[v].n1,
             NEW new, msgs' = msgs \/ msgs' = msgs \cup {new},
             new.type \notin {"M1", "M2"}
      PROVE  SpentInv'
    BY <1>1, <1>2, <1>4, <1>7
<1>8. ASSUME \A v \in Uav : ses'[v].n1 = ses[v].n1, msgs' = msgs
      PROVE  SpentInv'
    BY <1>1, <1>2, <1>4, <1>8
<1> HIDE DEF Sent
<1>9. ASSUME NEW m2 \in msgs, NEW m3 \in MessageM3, KeyStep(m2, m3)
      PROVE  SpentInv'
    <2>1. /\ m3.type = "M3" /\ msgs' = msgs \cup {m3}
          /\ \A v \in Uav : ses'[v].n1 = ses[v].n1
        BY <1>9 DEF MessageM3, KeyStep, DerivesKey
    <2> QED
        BY <1>7, <2>1
<1>10. ASSUME NEW u \in Uav, NEW m3 \in msgs, NEW m4 \in MessageM4,
              CommitStep(u, m3, m4)
       PROVE  SpentInv'
    <2>1. m4.type = "M4" /\ msgs' = msgs \cup {m4} /\ ses' = ses
        BY <1>10 DEF MessageM4, CommitStep, CommitsKey
    <2> QED
        BY <1>7, <2>1
<1>11. CASE \/ \E u \in Uav : EnrollStep(u)
            \/ \E m2 \in msgs : ExtendStep(m2)
            \/ \E m4 \in msgs : AdoptStep(m4)
            \/ Idle
    BY <1>8, <1>11 DEF EnrollStep, ExtendStep, AdoptStep, Idle
<1> QED
    BY <1>5, <1>6, <1>9, <1>10, <1>11, StepKinds DEF HistoryInv

\* A session is opened only for a request that no session has answered.
LEMMA OpenIsFirst ==
    ASSUME HistoryInv, SpentInv, NEW u \in Uav, NEW m1 \in msgs,
           NEW m2 \in MessageM2, OpenStep(u, m1, m2)
    PROVE  \A m \in msgs : m.type = "M2" /\ m.to = u => m.n1 # m1.n1
BY DEF OpenStep, GsOffer, SpentInv

LEMMA RequestStep ==
    ASSUME HistoryInv, SpentInv, OneSessionPerRequest, [Next]_vars
    PROVE  OneSessionPerRequest'
<1>1. ASSUME NEW u \in Uav, NEW m1 \in msgs, NEW m2 \in MessageM2,
             OpenStep(u, m1, m2)
      PROVE  OneSessionPerRequest'
    <2>1. msgs' = msgs \cup {m2} /\ m2.to = u /\ m2.n1 = m1.n1
        BY <1>1 DEF OpenStep
    <2>2. \A m \in msgs : m.type = "M2" /\ m.to = u => m.n1 # m1.n1
        BY <1>1, OpenIsFirst
    <2> QED
        BY <2>1, <2>2 DEF OneSessionPerRequest
<1>2. ASSUME NEW new, msgs' = msgs \/ msgs' = msgs \cup {new}, new.type # "M2"
      PROVE  OneSessionPerRequest'
    BY <1>2 DEF OneSessionPerRequest
<1>3. CASE msgs' = msgs
    BY <1>3 DEF OneSessionPerRequest
<1>4. ASSUME NEW u \in Uav, NEW m1 \in MessageM1, AskStep(u, m1)
      PROVE  OneSessionPerRequest'
    <2>1. m1.type = "M1" /\ msgs' = msgs \cup {m1}
        BY <1>4 DEF MessageM1, AskStep
    <2> QED
        BY <1>2, <2>1
<1>5. ASSUME NEW m2 \in msgs, NEW m3 \in MessageM3, KeyStep(m2, m3)
      PROVE  OneSessionPerRequest'
    <2>1. m3.type = "M3" /\ msgs' = msgs \cup {m3}
        BY <1>5 DEF MessageM3, KeyStep, DerivesKey
    <2> QED
        BY <1>2, <2>1
<1>6. ASSUME NEW u \in Uav, NEW m3 \in msgs, NEW m4 \in MessageM4,
             CommitStep(u, m3, m4)
      PROVE  OneSessionPerRequest'
    <2>1. m4.type = "M4" /\ msgs' = msgs \cup {m4}
        BY <1>6 DEF MessageM4, CommitStep, CommitsKey
    <2> QED
        BY <1>2, <2>1
<1>7. CASE \/ \E u \in Uav : EnrollStep(u)
           \/ \E m2 \in msgs : ExtendStep(m2)
           \/ \E m4 \in msgs : AdoptStep(m4)
           \/ Idle
    BY <1>3, <1>7 DEF EnrollStep, ExtendStep, AdoptStep, Idle
<1> QED
    BY <1>1, <1>4, <1>5, <1>6, <1>7, StepKinds DEF HistoryInv

\* The M2 that a device's key was derived from is spent.
KeyInv ==
    /\ KeyMatchesTranscript
    /\ \A u \in Uav : ses[u].sessionKey # None =>
           \E m \in msgs : /\ m.type = "M2" /\ m.to = u /\ m.n1 = ses[u].n1
                           /\ Remembers(uavSeen[u], m.n2)

LEMMA KeyInvStep ==
    ASSUME NothingForgotten, HistoryInv, SpentInv, OneSessionPerRequest,
           KeyInv, [Next]_vars
    PROVE  KeyInv'
<1> DEFINE Held(u) ==
               ses'[u].sessionKey # None =>
                   /\ ses'[u].sessionKey =
                          SessionKey(u, ses'[u].mk, ses'[u].n1, ses'[u].n2,
                                     ses'[u].transcript)
                   /\ \E m \in msgs' : /\ m.type = "M2" /\ m.to = u
                                       /\ m.n1 = ses'[u].n1
                                       /\ Remembers(uavSeen'[u], m.n2)
<1>1. (\A v \in Uav : Held(v)) => KeyInv'
    BY DEF KeyInv, KeyMatchesTranscript
<1>2. ASSUME NEW v \in Uav, msgs \subseteq msgs',
             ses'[v].sessionKey = ses[v].sessionKey,
             ses'[v].mk = ses[v].mk, ses'[v].n1 = ses[v].n1,
             ses'[v].n2 = ses[v].n2, ses'[v].transcript = ses[v].transcript
      PROVE  Held(v)
    BY <1>2, CachesGrow DEF KeyInv, KeyMatchesTranscript
<1> HIDE DEF Held
<1>3. ASSUME msgs \subseteq msgs', ses' = ses
      PROVE  KeyInv'
    BY <1>1, <1>2, <1>3
<1>4. ASSUME NEW u \in Uav, NEW m1 \in MessageM1, AskStep(u, m1)
      PROVE  KeyInv'
    <2>1. Held(u)
        BY <1>4 DEF AskStep, Held
    <2> QED
        BY <1>1, <1>2, <1>4, <2>1 DEF AskStep
<1>5. ASSUME NEW m2 \in msgs, NEW m3 \in MessageM3, KeyStep(m2, m3)
      PROVE  KeyInv'
    <2> DEFINE u == m2.to
    <2>1. /\ u \in Uav /\ m2.type = "M2" /\ m2.n1 = ses'[u].n1
          /\ m2.n2 \in 1 .. MaxSessions[u] /\ UavOffer(u, m2.n2)
          /\ msgs' = msgs \cup {m3}
        <3>1. /\ m2.type = "M2" /\ m2.n1 = ses'[u].n1
              /\ UavOffer(u, m2.n2) /\ msgs' = msgs \cup {m3}
            BY <1>5 DEF KeyStep, DerivesKey
        <3>2. u \in Uav /\ m2.n2 \in 1 .. MaxSessions[u]
            BY <3>1, HistoryTypes DEF HistoryInv, SpentInv
        <3> QED
            BY <3>1, <3>2
    <2>2. Remembers(uavSeen'[u], m2.n2)
        <3>1. TypeOK
            BY DEF HistoryInv, RotationInv, AgreementInv, TypeInv
        <3> HIDE DEF u
        <3>2. \A x : Remembers(uavSeen'[u], x) <=>
                  Remembers(uavSeen[u], x) \/ (u = u /\ x = m2.n2)
            BY <2>1, <3>1, UavSpends
        <3> QED
            BY <3>2
    <2>3. ses'[u].sessionKey = SessionKey(u, ses'[u].mk, ses'[u].n1, ses'[u].n2,
                                          ses'[u].transcript)
        <3>1. /\ ses'[u].sessionKey = KeyOfM3(m3)
              /\ ses'[u].mk = ses[u].mk /\ ses'[u].n1 = ses[u].n1
              /\ ses'[u].n2 = m2.n2 /\ ses'[u].transcript = m3.transcript
            BY <1>5 DEF KeyStep
        <3>2. /\ m3.from = u /\ m3.mk = ses[u].mk
              /\ m3.transcript[1].n1 = ses[u].n1 /\ m3.transcript[2].n2 = m2.n2
            BY <1>5 DEF KeyStep, DerivesKey
        <3> QED
            BY <3>1, <3>2 DEF KeyOfM3
    <2>4. Held(u)
        BY <2>1, <2>2, <2>3 DEF Held
    <2> QED
        BY <1>1, <1>2, <1>5, <2>1, <2>4 DEF KeyStep
<1>6. ASSUME NEW m2 \in msgs, ExtendStep(m2)
      PROVE  KeyInv'
    <2> DEFINE u == m2.to
    <2>1. u \in Uav /\ m2.type = "M2" /\ m2.n1 = ses[u].n1
        BY <1>6, HistoryTypes DEF ExtendStep, HistoryInv
    <2>2. ~Remembers(uavSeen[u], m2.n2)
        BY <1>6 DEF ExtendStep, UavOffer
    <2>3. ses[u].sessionKey = None
        <3>1. SUFFICES ASSUME ses[u].sessionKey # None PROVE FALSE
            OBVIOUS
        <3>2. PICK m \in msgs : /\ m.type = "M2" /\ m.to = u /\ m.n1 = ses[u].n1
                                /\ Remembers(uavSeen[u], m.n2)
            BY <2>1, <3>1 DEF KeyInv
        <3>3. m = m2
            BY <2>1, <3>2 DEF OneSessionPerRequest
        <3> QED
            BY <2>2, <3>2, <3>3
    <2>4. Held(u)
        BY <1>6, <2>3 DEF ExtendStep, Held
    <2> QED
        BY <1>1, <1>2, <1>6, <2>1, <2>4 DEF ExtendStep
<1>7. ASSUME NEW m4 \in msgs, AdoptStep(m4)
      PROVE  KeyInv'
    <2>1. \A v \in Uav : Held(v)
        BY <1>2, <1>7 DEF AdoptStep
    <2> QED
        BY <1>1, <2>1
<1>8. CASE \E u \in Uav : EnrollStep(u)
    BY <1>3, <1>8 DEF EnrollStep
<1>9. CASE \E u \in Uav, m1 \in msgs, m2 \in MessageM2 : OpenStep(u, m1, m2)
    BY <1>3, <1>9 DEF OpenStep
<1>10. CASE \E u \in Uav, m3 \in msgs, m4 \in MessageM4 : CommitStep(u, m3, m4)
    BY <1>3, <1>10 DEF CommitStep, CommitsKey
<1>11. CASE Idle
    BY <1>3, <1>11 DEF Idle
<1> QED
    BY <1>4, <1>5, <1>6, <1>7, <1>8, <1>9, <1>10, <1>11, StepKinds
    DEF HistoryInv

\* What the ground station has confirmed for its present request is its
\* present key; an established device has seen that confirmation.
CommittedInv ==
    /\ \A m \in msgs : m.type = "M4" /\ m.n1 = gsSession[m.to].n1 =>
           gsSession[m.to].sessionKey = m.key
    /\ \A u \in Uav : ses[u].established =>
           \E m \in msgs : /\ m.type = "M4" /\ m.to = u
                           /\ m.key = ses[u].sessionKey /\ m.n1 = ses[u].n1

LEMMA CommittedStep ==
    ASSUME HistoryInv, SpentInv, CommittedInv, [Next]_vars
    PROVE  CommittedInv'
<1> DEFINE Kept(u) == ses'[u].established =>
               \E m \in msgs' : /\ m.type = "M4" /\ m.to = u
                                /\ m.key = ses'[u].sessionKey
                                /\ m.n1 = ses'[u].n1
           Shown(m) == m.type = "M4" /\ m.n1 = gsSession'[m.to].n1 =>
               gsSession'[m.to].sessionKey = m.key
<1>1. (\A v \in Uav : Kept(v)) /\ (\A m \in msgs' : Shown(m)) => CommittedInv'
    BY DEF CommittedInv
<1>2. ASSUME NEW v \in Uav, msgs \subseteq msgs',
             ses'[v].established => ses[v].established,
             ses'[v].sessionKey = ses[v].sessionKey, ses'[v].n1 = ses[v].n1
      PROVE  Kept(v)
    BY <1>2 DEF CommittedInv
<1>3. ASSUME gsSession' = gsSession, NEW m \in msgs
      PROVE  Shown(m)
    BY <1>3 DEF CommittedInv
<1>4. ASSUME NEW u \in Uav, NEW m1 \in MessageM1, AskStep(u, m1)
      PROVE  CommittedInv'
    <2>1. /\ msgs' = msgs \cup {m1} /\ gsSession' = gsSession
          /\ m1.type = "M1"
        BY <1>4 DEF AskStep, MessageM1
    <2>2. Shown(m1) /\ Kept(u)
        BY <1>4, <2>1 DEF AskStep
    <2>3. \A v \in Uav \ {u} : Kept(v)
        BY <1>2, <1>4, <2>1 DEF AskStep
    <2> HIDE DEF Kept, Shown
    <2> QED
        BY <1>1, <1>3, <2>1, <2>2, <2>3
<1>5. ASSUME NEW u \in Uav, NEW m1 \in msgs, NEW m2 \in MessageM2,
             OpenStep(u, m1, m2)
      PROVE  CommittedInv'
    <2>1. /\ msgs' = msgs \cup {m2} /\ ses' = ses /\ m2.type = "M2"
          /\ \A v \in Uav \ {u} : gsSession'[v] = gsSession[v]
          /\ gsSession'[u].n1 = m1.n1
        BY <1>5 DEF OpenStep, MessageM2
    <2>2. \A m \in msgs : m.type = "M4" /\ m.to = u => m.n1 # m1.n1
        BY <1>5, OpenIsFirst, M4Fields DEF Answered
    <2>3. \A m \in msgs : Shown(m)
        BY <2>1, <2>2, M4Fields DEF CommittedInv
    <2>4. Shown(m2)
        BY <2>1
    <2>5. \A v \in Uav : Kept(v)
        BY <1>2, <2>1
    <2> HIDE DEF Kept, Shown
    <2> QED
        BY <1>1, <2>1, <2>3, <2>4, <2>5
<1>6. ASSUME NEW m2 \in msgs, NEW m3 \in MessageM3, KeyStep(m2, m3)
      PROVE  CommittedInv'
    <2> DEFINE u == m2.to
    <2>1. /\ msgs' = msgs \cup {m3} /\ gsSession' = gsSession
          /\ m3.type = "M3" /\ u \in Uav /\ ses[u].sessionKey = None
          /\ ses'[u].established = ses[u].established
          /\ \A v \in Uav \ {u} : ses'[v] = ses[v]
        BY <1>6, HistoryTypes
        DEF KeyStep, DerivesKey, MessageM3, HistoryInv, RotationInv,
            AgreementInv, DeviceInv
    <2>2. ~ses[u].established
        BY <2>1, M4Fields DEF CommittedInv
    <2>3. Shown(m3) /\ Kept(u)
        BY <2>1, <2>2
    <2>4. \A v \in Uav \ {u} : Kept(v)
        BY <1>2, <2>1
    <2> HIDE DEF Kept, Shown
    <2> QED
        BY <1>1, <1>3, <2>1, <2>3, <2>4
<1>7. ASSUME NEW m2 \in msgs, ExtendStep(m2)
      PROVE  CommittedInv'
    <2>1. msgs' = msgs /\ gsSession' = gsSession
        BY <1>7 DEF ExtendStep
    <2>2. \A v \in Uav : Kept(v)
        BY <1>2, <1>7, <2>1 DEF ExtendStep
    <2> HIDE DEF Kept, Shown
    <2> QED
        BY <1>1, <1>3, <2>1, <2>2
<1>8. ASSUME NEW u \in Uav, NEW m3 \in msgs, NEW m4 \in MessageM4,
             CommitStep(u, m3, m4)
      PROVE  CommittedInv'
    <2>1. /\ msgs' = msgs \cup {m4} /\ ses' = ses
          /\ m4.type = "M4" /\ m4.to = u
          /\ gsSession[u].sessionKey = None
          /\ gsSession'[u].sessionKey = m4.key
          /\ gsSession'[u].n1 = gsSession[u].n1
          /\ \A v \in Uav \ {u} : gsSession'[v] = gsSession[v]
        BY <1>8 DEF CommitStep, CommitsKey, MessageM4, HistoryInv, SessionInv
    <2>2. \A m \in msgs : Shown(m)
        BY <2>1, M4Fields DEF CommittedInv
    <2>3. Shown(m4)
        BY <2>1
    <2>4. \A v \in Uav : Kept(v)
        BY <1>2, <2>1
    <2> HIDE DEF Kept, Shown
    <2> QED
        BY <1>1, <2>1, <2>2, <2>3, <2>4
<1>9. ASSUME NEW m4 \in msgs, AdoptStep(m4)
      PROVE  CommittedInv'
    <2> DEFINE u == m4.to
    <2>1. /\ msgs' = msgs /\ gsSession' = gsSession
          /\ \A v \in Uav \ {u} : ses'[v] = ses[v]
        BY <1>9 DEF AdoptStep
    <2>2. /\ m4.type = "M4" /\ u \in Uav /\ m4.key = ses'[u].sessionKey
          /\ m4.n1 = ses'[u].n1
        BY <1>9, M4Fields
        DEF AdoptStep, HistoryInv, RotationInv, HeldInv
    <2>3. Kept(u)
        BY <2>1, <2>2
    <2>4. \A v \in Uav \ {u} : Kept(v)
        BY <1>2, <2>1
    <2> HIDE DEF Kept, Shown
    <2> QED
        BY <1>1, <1>3, <2>1, <2>3, <2>4
<1>10. CASE (\E u \in Uav : EnrollStep(u)) \/ Idle
    <2>1. msgs' = msgs /\ gsSession' = gsSession /\ ses' = ses
        BY <1>10 DEF EnrollStep, Idle
    <2>2. \A v \in Uav : Kept(v)
        BY <1>2, <2>1
    <2> HIDE DEF Kept, Shown
    <2> QED
        BY <1>1, <1>3, <2>1, <2>2
<1> QED
    BY <1>4, <1>5, <1>6, <1>7, <1>8, <1>9, <1>10, StepKinds DEF HistoryInv

\* What holds of the sessions while no cache forgets a nonce.
CacheInv ==
    HistoryInv /\ SpentInv /\ OneSessionPerRequest /\ KeyInv /\ CommittedInv

LEMMA InitCache == Init => CacheInv
<1> SUFFICES ASSUME Init PROVE CacheInv
    OBVIOUS
<1>1. SpentInv
    BY EmptyCache, Phase2Assumption DEF Init, SpentInv
<1> QED
    BY <1>1, InitHistory
    DEF Init, CacheInv, OneSessionPerRequest, KeyInv, KeyMatchesTranscript,
        CommittedInv

LEMMA NextCache ==
    ASSUME NothingForgotten
    PROVE  CacheInv /\ [Next]_vars => CacheInv'
BY NextHistory, SpentStep, RequestStep, KeyInvStep, CommittedStep DEF CacheInv

\* A request is answered by one session only, however often and however late
\* its M1 arrives, for as long as the cache of handleM1 has room.
THEOREM RequestsAnsweredOnce ==
    ASSUME NothingForgotten
    PROVE  Spec => []OneSessionPerRequest
<1>1. CacheInv /\ [Next]_vars => CacheInv'
    BY NextCache
<1>2. CacheInv => OneSessionPerRequest
    BY DEF CacheInv
<1> QED
    BY InitCache, <1>1, <1>2, PTL DEF Spec

\* A device accepts one M2 only in a session, so the key, the nonces and the
\* transcript it would check M4 with describe one exchange.
THEOREM KeysMatchTranscripts ==
    ASSUME NothingForgotten
    PROVE  Spec => []KeyMatchesTranscript
<1>1. CacheInv /\ [Next]_vars => CacheInv'
    BY NextCache
<1>2. CacheInv => KeyMatchesTranscript
    BY DEF CacheInv, KeyInv
<1> QED
    BY InitCache, <1>1, <1>2, PTL DEF Spec

\* An established device and a ground station that is still in the session of
\* the same request hold one key: handleM1 did not replace that session by a
\* second answer, and handleM2 did not replace the key.
THEOREM EstablishedKeysAgree ==
    ASSUME NothingForgotten
    PROVE  Spec => []EstablishedKeyAgreement
<1>1. CacheInv /\ [Next]_vars => CacheInv'
    BY NextCache
<1>2. CacheInv => EstablishedKeyAgreement
    <2> SUFFICES ASSUME CacheInv, NEW u \in Uav, ses[u].established,
                        gsSession[u].n1 = ses[u].n1
                 PROVE  gsSession[u].sessionKey = ses[u].sessionKey
        BY DEF EstablishedKeyAgreement
    <2> QED
        BY DEF CacheInv, CommittedInv
<1> QED
    BY InitCache, <1>1, <1>2, PTL DEF Spec

LEMMA DroppedByOpen ==
    ASSUME CacheInv, [Next]_vars, NEW u \in Uav,
           gsSession[u].sessionKey # None,
           gsSession'[u].sessionKey # gsSession[u].sessionKey,
           NEW m \in msgs, m.type = "M2", m.to = u, m.n1 = gsSession'[u].n1
    PROVE  FALSE
<1>1. CASE \E v \in Uav, m1 \in msgs, m2 \in MessageM2 : OpenStep(v, m1, m2)
    <2>1. PICK v \in Uav, m1 \in msgs, m2 \in MessageM2 : OpenStep(v, m1, m2)
        BY <1>1
    <2>2. v = u /\ gsSession'[u].n1 = m1.n1
        BY <2>1 DEF OpenStep
    <2> QED
        BY <2>1, <2>2, OpenIsFirst DEF CacheInv
<1>2. ASSUME NEW v \in Uav, NEW m3 \in msgs, NEW m4 \in MessageM4,
             CommitStep(v, m3, m4)
      PROVE  FALSE
    BY <1>2 DEF CommitStep, CommitsKey, CacheInv, HistoryInv, SessionInv
<1>3. CASE gsSession' = gsSession
    BY <1>3
<1> QED
    BY <1>1, <1>2, <1>3, StepKinds
    DEF CacheInv, HistoryInv, EnrollStep, AskStep, KeyStep, ExtendStep,
        AdoptStep, Idle

\* A late or repeated M1 does not cost the ground station the key it agreed:
\* only a request that handleM1 has never answered opens a new session.
THEOREM AgreedKeysStay ==
    ASSUME NothingForgotten
    PROVE  Spec => KeyDroppedOnlyByNewRequest
<1>1. CacheInv /\ [Next]_vars => CacheInv'
    BY NextCache
<1>2. CacheInv /\ [Next]_vars =>
          [\A u \in Uav :
               /\ gsSession[u].sessionKey # None
               /\ gsSession'[u].sessionKey # gsSession[u].sessionKey
               => ~\E m \in msgs : /\ m.type = "M2"
                                   /\ m.to = u
                                   /\ m.n1 = gsSession'[u].n1]_vars
    BY DroppedByOpen
<1> QED
    BY InitCache, <1>1, <1>2, PTL DEF Spec, KeyDroppedOnlyByNewRequest
-----------------------------------------------------------------------------
(* The credentials that Phase 2 grants *)

EnrolledUavs == {v \in Uav : dev[v].mk # 0}

\* An M4 names enrolled peers, there is one for a key, and a device has the
\* credentials of the M4 it completed with.
OneM4PerKey ==
    \A a, b \in msgs : /\ a.type = "M4" /\ b.type = "M4"
                       /\ a.to = b.to /\ a.key = b.key
                       => a.creds = b.creds

HeldCreds == \A u \in Uav :
    /\ st[u].mk = dev[u].mk
    /\ ses[u].n1 = 0 => ses[u].sessionKey = None
    /\ IF ses[u].established
       THEN \E m \in msgs : /\ m.type = "M4" /\ m.to = u
                            /\ m.key = ses[u].sessionKey
                            /\ m.creds = ses[u].creds
       ELSE ses[u].creds = {}

GrantInv ==
    /\ \A m \in msgs : m.type = "M4" => m.creds \subseteq EnrolledUavs \ {m.to}
    /\ OneM4PerKey
    /\ HeldCreds

\* The ground station seals one M4 for a session: its secret is gone then.
LEMMA CommitIsFirst ==
    ASSUME StepInv, NEW u \in Uav, NEW m3 \in msgs, NEW m4 \in MessageM4,
           CommitStep(u, m3, m4),
           NEW a \in msgs, a.type = "M4", a.to = u, a.key = m4.key
    PROVE  FALSE
<1>1. m4.n2 = gsSession[u].n2 /\ m4.key = KeyOfM3(m3) /\ Ans(m3) = gsSession[u].n2
    BY DEF CommitStep, CommitsKey, Ans
<1>2. a.n2 = gsSession[u].n2
    BY <1>1, KeyNonces DEF StepInv, HistoryInv, SentInv
<1>3. gsSession[u].sessionKey # None
    BY <1>2 DEF StepInv, LastInv
<1> QED
    BY <1>3 DEF CommitStep, StepInv, HistoryInv, SessionInv

\* A device that is establishing its session, or holds a key, has asked.
LEMMA EstablishedHasKey ==
    ASSUME StepInv, GrantInv, NEW u \in Uav, ses[u].established
    PROVE  ses[u].sessionKey # None /\ ses[u].n1 # 0
<1>1. PICK m \in msgs : m.type = "M4" /\ m.to = u /\ m.key = ses[u].sessionKey
    BY DEF GrantInv, HeldCreds
<1>2. m.key # None
    BY <1>1, M4Fields DEF StepInv
<1> QED
    BY <1>1, <1>2 DEF GrantInv, HeldCreds

LEMMA InitGrant == Init => GrantInv
BY DEF Init, GrantInv, OneM4PerKey, HeldCreds

LEMMA GrantStep ==
    ASSUME StepInv, GrantInv, [Next]_vars
    PROVE  GrantInv'
<1>0. RotationInv
    BY DEF StepInv, HistoryInv
<1>1. ASSUME NEW u \in Uav, EnrollStep(u)
      PROVE  GrantInv'
    <2>1. /\ EnrolledUavs \subseteq EnrolledUavs'
          /\ UNCHANGED <<ses, msgs>>
        BY <1>1 DEF EnrollStep, EnrolledUavs
    <2>2. \A v \in Uav : st'[v].mk = dev'[v].mk
        BY <1>1 DEF EnrollStep, GrantInv, HeldCreds
    <2> QED
        BY <2>1, <2>2 DEF GrantInv, OneM4PerKey, HeldCreds
<1>2. ASSUME NEW u \in Uav, NEW m1 \in MessageM1, AskStep(u, m1)
      PROVE  GrantInv'
    <2>1. /\ msgs' = msgs \cup {m1} /\ m1.type = "M1"
          /\ UNCHANGED <<dev, st>>
          /\ EnrolledUavs' = EnrolledUavs
        BY <1>2 DEF AskStep, MessageM1, EnrolledUavs
    <2>2. /\ \A v \in Uav \ {u} : ses'[v] = ses[v]
          /\ ses'[u].n1 # 0
          /\ ses'[u].established = FALSE /\ ses'[u].creds = {}
        BY <1>2, <1>0, HistoryTypes DEF AskStep
    <2>3. HeldCreds'
        BY <2>1, <2>2 DEF GrantInv, HeldCreds
    <2> QED
        BY <2>1, <2>3 DEF GrantInv, OneM4PerKey
<1>3. ASSUME NEW u \in Uav, NEW m1 \in msgs, NEW m2 \in MessageM2,
             OpenStep(u, m1, m2)
      PROVE  GrantInv'
    BY <1>3 DEF OpenStep, MessageM2, GrantInv, OneM4PerKey, HeldCreds, EnrolledUavs
<1>4. ASSUME NEW m2 \in msgs, NEW m3 \in MessageM3, KeyStep(m2, m3)
      PROVE  GrantInv'
    <2>1. /\ msgs' = msgs \cup {m3} /\ m3.type = "M3"
          /\ UNCHANGED <<dev, st>>
          /\ EnrolledUavs' = EnrolledUavs
          /\ m2.to \in Uav
        BY <1>4, <1>0, HistoryTypes DEF KeyStep, DerivesKey, MessageM3, EnrolledUavs
    <2>2. ~ses[m2.to].established
        BY <1>4, <1>0, <2>1, EstablishedHasKey
        DEF KeyStep, RotationInv, AgreementInv, DeviceInv
    <2>3. /\ \A v \in Uav \ {m2.to} : ses'[v] = ses[v]
          /\ ses'[m2.to].n1 # 0
          /\ ses'[m2.to].established = ses[m2.to].established
          /\ ses'[m2.to].creds = ses[m2.to].creds
        BY <1>4 DEF KeyStep
    <2>4. HeldCreds'
        BY <2>1, <2>2, <2>3 DEF GrantInv, HeldCreds
    <2> QED
        BY <2>1, <2>4 DEF GrantInv, OneM4PerKey
<1>5. ASSUME NEW m2 \in msgs, ExtendStep(m2)
      PROVE  GrantInv'
    <2>1. m2.to \in Uav
        BY <1>5, <1>0, HistoryTypes DEF ExtendStep
    <2>2. HeldCreds'
        BY <1>5, <2>1 DEF ExtendStep, GrantInv, HeldCreds
    <2> QED
        BY <1>5, <2>2 DEF ExtendStep, GrantInv, OneM4PerKey, EnrolledUavs
<1>6. ASSUME NEW u \in Uav, NEW m3 \in msgs, NEW m4 \in MessageM4,
             CommitStep(u, m3, m4)
      PROVE  GrantInv'
    <2>1. /\ msgs' = msgs \cup {m4} /\ m4.to = u
          /\ m4.creds = EnrolledUavs \ {u}
          /\ \A v \in Uav : dev'[v].mk = dev[v].mk
          /\ UNCHANGED <<st, ses>>
        BY <1>6 DEF CommitStep, CommitsKey, EnrolledUavs
    <2>2. EnrolledUavs' = EnrolledUavs
        BY <2>1 DEF EnrolledUavs
    <2>3. OneM4PerKey'
        BY <1>6, <2>1, CommitIsFirst DEF GrantInv, OneM4PerKey
    <2>4. HeldCreds'
        BY <2>1 DEF GrantInv, HeldCreds
    <2> QED
        BY <2>1, <2>2, <2>3, <2>4 DEF GrantInv
<1>7. ASSUME NEW m4 \in msgs, AdoptStep(m4)
      PROVE  GrantInv'
    <2>1. /\ \A v \in Uav \ {m4.to} : ses'[v] = ses[v]
          /\ \A v \in Uav : st'[v].mk = st[v].mk
          /\ ses'[m4.to].n1 = ses[m4.to].n1
          /\ ses'[m4.to].sessionKey = ses[m4.to].sessionKey
          /\ ses'[m4.to].sessionKey = m4.key
          /\ ses'[m4.to].established = TRUE
          /\ ses'[m4.to].creds = m4.creds
          /\ m4.type = "M4"
          /\ UNCHANGED <<dev, msgs>>
        BY <1>7 DEF AdoptStep
    <2>2. \E m \in msgs' : /\ m.type = "M4" /\ m.to = m4.to
                           /\ m.key = ses'[m4.to].sessionKey
                           /\ m.creds = ses'[m4.to].creds
        BY <2>1
    <2>3. ses[m4.to].n1 = 0 => m4.to \notin Uav
        <3>1. m4.key # None
            BY <2>1, M4Fields DEF StepInv
        <3> QED
            BY <2>1, <3>1 DEF GrantInv, HeldCreds
    <2>4. HeldCreds'
        BY <2>1, <2>2, <2>3 DEF GrantInv, HeldCreds
    <2> QED
        BY <2>1, <2>4 DEF GrantInv, OneM4PerKey, EnrolledUavs
<1>8. CASE Idle
    BY <1>8 DEF Idle, GrantInv, OneM4PerKey, HeldCreds, EnrolledUavs
<1> QED
    BY <1>0, <1>1, <1>2, <1>3, <1>4, <1>5, <1>6, <1>7, <1>8, StepKinds

LEMMA GrantRefines ==
    ASSUME StepInv, GrantInv, [Next]_vars
    PROVE  [Credentials!Next]_(Credentials!vars)
<1>0. RotationInv /\ ses \in [Uav -> UavSession]
    BY DEF StepInv, HistoryInv, RotationInv, AgreementInv, TypeInv, TypeOK
<1>1. ASSUME NEW u \in Uav, EnrollStep(u)
      PROVE  Credentials!Enroll
    BY <1>1 DEF EnrollStep, Credentials!Enroll
<1>2. ASSUME NEW u \in Uav, NEW m1 \in MessageM1, AskStep(u, m1)
      PROVE  Credentials!Request(u)
    <2>1. dev[u].mk # 0 /\ UNCHANGED dev
        BY <1>2 DEF AskStep, GrantInv, HeldCreds
    <2>2. /\ \A v \in Uav \ {u} : ses'[v] = ses[v]
          /\ ses'[u].n1 = ses[u].n1 + 1 /\ ses'[u].n1 # 0
          /\ ses'[u].sessionKey = None
          /\ ses'[u].established = FALSE /\ ses'[u].creds = {}
        BY <1>2, <1>0, HistoryTypes DEF AskStep
    <2>3. HowFar(ses'[u]) = "requested"
        BY <2>2 DEF HowFar
    <2> QED
        BY <2>1, <2>2, <2>3 DEF Credentials!Request
<1>3. ASSUME NEW m2 \in msgs, NEW m3 \in MessageM3, KeyStep(m2, m3)
      PROVE  Credentials!Confirm(m2.to)
    <2> DEFINE u == m2.to
    <2>1. /\ u \in Uav /\ UNCHANGED dev
          /\ ses[u].n1 # 0 /\ ses[u].sessionKey = None
        BY <1>3, <1>0, HistoryTypes
        DEF KeyStep, RotationInv, AgreementInv, DeviceInv
    <2>2. ~ses[u].established
        BY <2>1, EstablishedHasKey
    <2>3. /\ \A v \in Uav \ {u} : ses'[v] = ses[v]
          /\ ses'[u].n1 = ses[u].n1
          /\ ses'[u].sessionKey # None
          /\ ses'[u].established = ses[u].established
          /\ ses'[u].creds = ses[u].creds
        BY <1>3 DEF KeyStep
    <2>4. HowFar(ses[u]) = "requested" /\ HowFar(ses'[u]) = "confirmed"
        BY <2>1, <2>2, <2>3 DEF HowFar
    <2> HIDE DEF u
    <2>5. Credentials!Confirm(u)
        BY <2>1, <2>3, <2>4 DEF Credentials!Confirm
    <2> QED
        BY <2>5 DEF u
<1>4. ASSUME NEW m2 \in msgs, ExtendStep(m2)
      PROVE  UNCHANGED Credentials!vars
    <2>1. m2.to \in Uav
        BY <1>4, <1>0, HistoryTypes DEF ExtendStep
    <2>2. \A v \in Uav : HowFar(ses'[v]) = HowFar(ses[v])
        BY <1>4 DEF ExtendStep, HowFar
    <2> QED
        BY <1>4, <2>1, <2>2 DEF ExtendStep, Credentials!vars
<1>5. ASSUME NEW u \in Uav, NEW m3 \in msgs, NEW m4 \in MessageM4,
             CommitStep(u, m3, m4)
      PROVE  UNCHANGED Credentials!vars
    BY <1>5 DEF CommitStep, Credentials!vars
<1>6. ASSUME NEW m4 \in msgs, AdoptStep(m4)
      PROVE  Credentials!Grant(m4.to) \/ UNCHANGED Credentials!vars
    <2> DEFINE u == m4.to
    <2>1. /\ u \in Uav /\ m4.type = "M4"
          /\ ses[u].sessionKey = m4.key /\ m4.key # None
          /\ m4.creds \subseteq EnrolledUavs \ {u}
          /\ UNCHANGED dev
        BY <1>6, M4Fields DEF AdoptStep, GrantInv, StepInv
    <2>2. ses[u].n1 # 0
        BY <2>1 DEF GrantInv, HeldCreds
    <2>3. /\ \A v \in Uav \ {u} : ses'[v] = ses[v]
          /\ ses'[u].n1 = ses[u].n1
          /\ ses'[u].sessionKey = ses[u].sessionKey
          /\ ses'[u].established = TRUE
          /\ ses'[u].creds = m4.creds
        BY <1>6 DEF AdoptStep
    <2>4. HowFar(ses'[u]) = "established"
        BY <2>2, <2>3 DEF HowFar
    <2>5. CASE ses[u].established
        <3>1. PICK m \in msgs : /\ m.type = "M4" /\ m.to = u
                                /\ m.key = ses[u].sessionKey
                                /\ m.creds = ses[u].creds
            BY <2>1, <2>5 DEF GrantInv, HeldCreds
        <3>2. m4.creds = ses[u].creds
            BY <2>1, <3>1 DEF GrantInv, OneM4PerKey
        <3>3. HowFar(ses[u]) = "established"
            BY <2>2, <2>5 DEF HowFar
        <3> HIDE DEF u
        <3> QED
            BY <2>1, <2>3, <2>4, <3>2, <3>3 DEF Credentials!vars
    <2>6. CASE ~ses[u].established
        <3>1. HowFar(ses[u]) = "confirmed"
            BY <2>1, <2>2, <2>6 DEF HowFar
        <3> HIDE DEF u
        <3>2. Credentials!Grant(u)
            BY <2>1, <2>3, <2>4, <3>1 DEF Credentials!Grant, EnrolledUavs
        <3> QED
            BY <3>2 DEF u
    <2> QED
        BY <2>5, <2>6
<1>7. ASSUME Idle \/ \E u \in Uav, m1 \in msgs, m2 \in MessageM2 :
                         OpenStep(u, m1, m2)
      PROVE  UNCHANGED Credentials!vars
    BY <1>7 DEF Idle, OpenStep, Credentials!vars
<1>8. \A m \in msgs : m.type \in {"M2", "M4"} => m.to \in Uav
    BY <1>0, HistoryTypes
<1>9. ASSUME NEW m2 \in msgs, NEW m3 \in MessageM3, KeyStep(m2, m3)
      PROVE  \E u \in Uav : Credentials!Confirm(u)
    BY <1>3, <1>8, <1>9 DEF KeyStep
<1>10. ASSUME NEW m4 \in msgs, AdoptStep(m4)
       PROVE  (\E u \in Uav : Credentials!Grant(u)) \/ UNCHANGED Credentials!vars
    BY <1>6, <1>8, <1>10 DEF AdoptStep
<1> QED
    BY <1>0, <1>1, <1>2, <1>4, <1>5, <1>7, <1>9, <1>10, StepKinds DEF Credentials!Next

\* Phase 2 grants credentials as PeerCredentials says, however small the
\* caches and whatever is repeated or enrolled anew in between: handleM3 seals
\* one M4 for a key, so that handleM4 finds the same credentials in a repeat.
THEOREM CredentialsRefined == Spec => RefinesPeerCredentials
<1>1. Init => Credentials!Init
    BY DEF Init, Credentials!Init, HowFar
<1>2. StepInv /\ GrantInv /\ [Next]_vars => GrantInv'
    BY GrantStep
<1>3. StepInv /\ GrantInv /\ [Next]_vars => [Credentials!Next]_(Credentials!vars)
    BY GrantRefines
<1> QED
    BY <1>1, <1>2, <1>3, InitGrant, StepInvariant, PTL
    DEF Spec, RefinesPeerCredentials, Credentials!Spec
=============================================================================
