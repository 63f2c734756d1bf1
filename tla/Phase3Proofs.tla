---------------------------- MODULE Phase3Proofs ----------------------------
(***************************************************************************)
(* Theorems about Phase3, for every set of devices, every bound, window    *)
(* and cache capacity, and whichever peers start handshakes: the types,    *)
(* that a responder completes a handshake only with an initiator that has  *)
(* completed the very same one or has begun another since, that an agreed  *)
(* key is not derived again, and how the keys of one exchange can differ.  *)
(* Of the later parts one is about caches that have room for every nonce   *)
(* offered, and two are refinements: of what Phase 3 sees of Phase 2, and  *)
(* of what it promises itself.                                             *)
(***************************************************************************)
EXTENDS Phase3, FreshnessProofs, SequenceTheorems, TLAPS

(* Types *)

LEMMA OfferType ==
    ASSUME TypeOK, NEW u \in Uav, NEW nonce \in Nonce, Offer(u, nonce)
    PROVE  seen' \in [Uav -> Seq(Nonce)]
BY RememberType, Phase3Assumption DEF TypeOK, Offer

\* The fields of a message follow from its type.
LEMMA MessageFields ==
    ASSUME NEW m \in Message
    PROVE  /\ m.type = "P1" => m \in MessageP1
           /\ m.type = "P2" => m \in MessageP2
           /\ m.type = "P3" => m \in MessageP3
BY DEF Message, MessageP1, MessageP2, MessageP3

\* One session is replaced: what the table holds afterwards.
LEMMA ReplaceSession ==
    ASSUME TypeOK, NEW u \in Uav, NEW v \in Uav, NEW s \in Session,
           peers' = [peers EXCEPT ![u][v] = s]
    PROVE  /\ peers' \in [Uav -> [Uav -> Session \cup {None}]]
           /\ peers'[u][v] = s
           /\ \A a, b \in Uav : a # u \/ b # v => peers'[a][b] = peers[a][b]
BY DEF TypeOK

LEMMA SessionNotNone == ASSUME NEW s \in Session PROVE s # None
BY Phase3Assumption DEF Session

\* Looking a credential up leaves the table typed.
LEMMA LookUpType ==
    ASSUME TypeOK, NEW u \in Uav, NEW v \in Uav
    PROVE  /\ Looked(u, v) \in Credential
           /\ LookUp(u, v) => creds' \in [Uav -> [Uav -> Credential \cup {"none"}]]
<1>1. Looked(u, v) \in Credential
    BY DEF TypeOK, Looked, Credential
<1>2. ASSUME LookUp(u, v)
      PROVE  creds' \in [Uav -> [Uav -> Credential \cup {"none"}]]
    <2> DEFINE row == [creds[u] EXCEPT ![v] = Looked(u, v)]
    <2>1. row \in [Uav -> Credential \cup {"none"}]
        BY <1>1 DEF TypeOK
    <2>2. creds' = [creds EXCEPT ![u] = row]
        BY <1>2 DEF TypeOK, LookUp
    <2> HIDE DEF row
    <2> QED
        BY <2>1, <2>2 DEF TypeOK
<1> QED
    BY <1>1, <1>2

LEMMA Phase2Type ==
    ASSUME TypeOK, NEW u \in Uav, StartPhase2(u) \/ HandleM2(u) \/ HandleM4(u)
    PROVE  TypeOK'
<1>1. CASE StartPhase2(u)
    BY <1>1 DEF TypeOK, StartPhase2
<1>2. CASE HandleM2(u)
    <2>1. <<Gs, requests[u]>> \in Nonce
        BY DEF TypeOK, Nonce
    <2> QED
        BY <1>2, <2>1, OfferType DEF TypeOK, HandleM2
<1>3. CASE HandleM4(u)
    BY <1>3 DEF TypeOK, HandleM4, Credential
<1> QED
    BY <1>1, <1>2, <1>3

\* The session that startPhase3 stores.
Started(u, v) ==
    [initiator |-> TRUE, cred |-> creds[u][v], local |-> drawn[u] + 1,
     p1 |-> [from |-> u, to |-> v, n1 |-> drawn[u] + 1, t |-> now],
     p2 |-> None, ephemeral |-> TRUE, sessionKey |-> None,
     established |-> FALSE]

LEMMA StartedSession ==
    ASSUME TypeOK, NEW u \in Uav, NEW v \in Uav, StartPhase3(u, v)
    PROVE  /\ Started(u, v) \in Session
           /\ peers' = [peers EXCEPT ![u][v] = Started(u, v)]
           /\ drawn' = [drawn EXCEPT ![u] = drawn[u] + 1]
           /\ msgs' \subseteq Message
           /\ \E m : /\ m.type = "P1" /\ m.from = u /\ m.to = v
                     /\ m.n1 = drawn[u] + 1
                     /\ msgs' = msgs \cup {m}
<1> DEFINE m == [type |-> "P1", from |-> u, to |-> v, n1 |-> drawn[u] + 1,
                 t |-> now, cred |-> creds[u][v]]
<1>1. creds[u][v] \in Credential /\ drawn[u] + 1 \in Nat /\ now \in Nat
    BY DEF TypeOK, StartPhase3
<1>2. Started(u, v) \in Session
    BY <1>1 DEF Started, Session, P1Encoded
<1>3. m \in MessageP1
    BY <1>1 DEF MessageP1
<1>4. msgs' = msgs \cup {m}
    BY DEF StartPhase3, Send
<1>5. m.type = "P1" /\ m.from = u /\ m.to = v /\ m.n1 = drawn[u] + 1
    OBVIOUS
<1> HIDE DEF m
<1> QED
    BY <1>2, <1>3, <1>4, <1>5 DEF StartPhase3, Started, Draw, TypeOK, Message

\* The session that handleP1 stores for an authentic m.
Answered(m) ==
    [initiator |-> FALSE, cred |-> creds[m.to][m.from],
     local |-> drawn[m.to] + 1,
     p1 |-> [from |-> m.from, to |-> m.to, n1 |-> m.n1, t |-> m.t],
     p2 |-> [from |-> m.from, to |-> m.to, n1 |-> m.n1,
             n2 |-> drawn[m.to] + 1],
     ephemeral |-> TRUE, sessionKey |-> None, established |-> FALSE]

LEMMA AnsweredSession ==
    ASSUME TypeOK, NEW m \in MessageP1, NEW intact \in BOOLEAN,
           AuthenticP1(m, intact), AcceptP1(m)
    PROVE  /\ Answered(m) \in Session
           /\ peers' = [peers EXCEPT ![m.to][m.from] = Answered(m)]
           /\ drawn' = [drawn EXCEPT ![m.to] = drawn[m.to] + 1]
           /\ msgs' \subseteq Message
           /\ \E p : /\ p.type = "P2" /\ p.from = m.to /\ p.to = m.from
                     /\ p.n1 = m.n1 /\ p.n2 = drawn[m.to] + 1
                     /\ msgs' = msgs \cup {p}
<1> DEFINE v == m.to
           n2 == drawn[v] + 1
           p == [type |-> "P2", from |-> v, to |-> m.from, n1 |-> m.n1,
                 n2 |-> n2, cred |-> creds[v][m.from]]
<1>1. m.from \in Uav /\ m.to \in Uav /\ m.n1 \in Nat /\ m.t \in Nat
    BY DEF MessageP1
<1>2. creds[v][m.from] \in Credential /\ n2 \in Nat
    BY <1>1 DEF TypeOK, AuthenticP1
<1>3. Answered(m) \in Session
    BY <1>1, <1>2 DEF Answered, Session, P1Encoded, P2Encoded
<1>4. p \in MessageP2
    BY <1>1, <1>2 DEF MessageP2
<1>5. msgs' = msgs \cup {p}
    BY DEF AcceptP1, Send
<1>6. p.type = "P2" /\ p.from = v /\ p.to = m.from /\ p.n1 = m.n1
      /\ p.n2 = n2
    OBVIOUS
<1>7. peers' = [peers EXCEPT ![m.to][m.from] = Answered(m)]
    BY DEF AcceptP1, Answered
<1> HIDE DEF p
<1> QED
    BY <1>3, <1>4, <1>5, <1>6, <1>7 DEF AcceptP1, Draw, TypeOK, Message

\* The session that a successful handleP2 or handleP3 leaves, once s has been
\* completed with p2 under the credential cred.
Completed(s, cred, p2) ==
    [s EXCEPT !.p2 = p2, !.ephemeral = FALSE,
              !.sessionKey = PeerKey(cred, s, p2), !.established = TRUE]

LEMMA CompletedSession ==
    ASSUME NEW s \in Session, NEW cred \in Credential, NEW p2 \in P2Encoded
    PROVE  /\ Completed(s, cred, p2) \in Session
           /\ Completed(s, cred, p2).initiator = s.initiator
           /\ Completed(s, cred, p2).local = s.local
           /\ Completed(s, cred, p2).p1 = s.p1
           /\ Completed(s, cred, p2).cred = s.cred
           /\ ~Completed(s, cred, p2).ephemeral
           /\ Completed(s, cred, p2).established
           /\ Completed(s, cred, p2).sessionKey \in Key
           /\ Completed(s, cred, p2).sessionKey.p1 = s.p1
           /\ Completed(s, cred, p2).sessionKey.p2 = p2
<1>1. PeerKey(cred, s, p2) \in Key
    BY DEF PeerKey, Key, Session
<1>2. PeerKey(cred, s, p2).p1 = s.p1 /\ PeerKey(cred, s, p2).p2 = p2
    BY DEF PeerKey
<1> QED
    BY <1>1, <1>2 DEF Completed, Session

\* What handleP2 leaves of an authentic m: the completed session and a P3, or
\* the session with nothing but p2Encoded changed.
LEMMA AcceptedP2 ==
    ASSUME TypeOK, NEW m \in MessageP2, NEW intact \in BOOLEAN,
           HandleP2(m, intact)
    PROVE  LET u == m.to
               v == m.from
               s == peers[u][v]
               p2 == [from |-> u, to |-> v, n1 |-> m.n1, n2 |-> m.n2]
           IN  /\ u \in Uav /\ v \in Uav /\ s \in Session /\ p2 \in P2Encoded
               /\ s.initiator
               /\ s.local = m.n1
               /\ \/ /\ s.ephemeral
                     /\ LookUp(u, v)
                     /\ peers' = [peers EXCEPT ![u][v] =
                                     Completed(s, Looked(u, v), p2)]
                     /\ Send([type |-> "P3", from |-> u, to |-> v,
                              p1 |-> s.p1, p2 |-> p2, cred |-> s.cred])
                  \/ /\ peers' = [peers EXCEPT ![u][v] = [s EXCEPT !.p2 = p2]]
                     /\ UNCHANGED <<creds, msgs>>
<1> DEFINE u == m.to
           v == m.from
           s == peers[u][v]
           p2 == [from |-> u, to |-> v, n1 |-> m.n1, n2 |-> m.n2]
<1>1. u \in Uav /\ v \in Uav /\ p2 \in P2Encoded
    BY DEF MessageP2, P2Encoded
<1>2. s \in Session /\ s.initiator /\ s.local = m.n1
    <2>1. s # None /\ s.initiator /\ s.local = m.n1
        BY DEF HandleP2, AuthenticP2
    <2>2. s \in Session \cup {None}
        BY <1>1 DEF TypeOK
    <2> QED
        BY <2>1, <2>2
<1>3. CASE /\ s.ephemeral
           /\ LookUp(u, v)
           /\ peers' = [peers EXCEPT ![u][v] =
                  [s EXCEPT !.p2 = p2, !.ephemeral = FALSE,
                            !.sessionKey = PeerKey(Looked(u, v), s, p2),
                            !.established = TRUE]]
           /\ Send([type |-> "P3", from |-> u, to |-> v, p1 |-> s.p1,
                    p2 |-> p2, cred |-> s.cred])
    BY <1>1, <1>2, <1>3 DEF Completed
<1>4. CASE peers' = [peers EXCEPT ![u][v].p2 = p2] /\ UNCHANGED <<creds, msgs>>
    BY <1>1, <1>2, <1>4 DEF TypeOK
<1> QED
    BY <1>3, <1>4 DEF HandleP2, CanDerive

LEMMA AcceptedP3 ==
    ASSUME TypeOK, NEW m \in MessageP3, NEW intact \in BOOLEAN,
           HandleP3(m, intact)
    PROVE  LET v == m.to
               u == m.from
               s == peers[v][u]
           IN  /\ u \in Uav /\ v \in Uav /\ s \in Session
               /\ ~s.initiator /\ s.ephemeral
               /\ s.p1 = m.p1 /\ s.p2 = m.p2 /\ s.p2 \in P2Encoded
               /\ s.cred = m.cred
               /\ LookUp(v, u)
               /\ peers' = [peers EXCEPT ![v][u] =
                               Completed(s, Looked(v, u), s.p2)]
<1> DEFINE v == m.to
           u == m.from
           s == peers[v][u]
<1>1. u \in Uav /\ v \in Uav /\ m.p2 \in P2Encoded
    BY DEF MessageP3
<1>2. /\ s \in Session /\ ~s.initiator /\ s.ephemeral
      /\ s.p1 = m.p1 /\ s.p2 = m.p2 /\ s.cred = m.cred
    BY <1>1 DEF TypeOK, HandleP3, AuthenticP3, CanDerive
<1>3. [s EXCEPT !.ephemeral = FALSE,
                !.sessionKey = PeerKey(Looked(v, u), s, s.p2),
                !.established = TRUE]
      = Completed(s, Looked(v, u), s.p2)
    BY <1>2 DEF Completed, Session
<1> QED
    BY <1>1, <1>2, <1>3 DEF HandleP3

LEMMA NextType == TypeOK /\ [Next]_vars => TypeOK'
<1> SUFFICES ASSUME TypeOK, [Next]_vars PROVE TypeOK'
    OBVIOUS
<1>1. CASE \E u \in Uav : StartPhase2(u) \/ HandleM2(u) \/ HandleM4(u)
    BY <1>1, Phase2Type
<1>2. CASE \E u, v \in Uav : StartPhase3(u, v)
    <2>1. PICK u \in Uav, v \in Uav : StartPhase3(u, v)
        BY <1>2
    <2>2. peers' \in [Uav -> [Uav -> Session \cup {None}]]
        BY <2>1, StartedSession, ReplaceSession
    <2>3. drawn' \in [Uav -> Nat]
        BY <2>1, StartedSession DEF TypeOK
    <2> QED
        BY <2>1, <2>2, <2>3, StartedSession DEF TypeOK, StartPhase3, phase2Vars
<1>3. ASSUME NEW m \in msgs, NEW intact \in BOOLEAN, HandleP1(m, intact)
      PROVE  TypeOK'
    <2>1. m \in MessageP1
        BY <1>3, MessageFields DEF TypeOK, HandleP1
    <2>2. seen' \in [Uav -> Seq(Nonce)]
        <3>1. m.to \in Uav /\ <<m.from, m.n1>> \in Nonce
            BY <2>1 DEF MessageP1, Nonce
        <3> QED
            BY <1>3, <3>1, OfferType DEF HandleP1
    <2>3. CASE AuthenticP1(m, intact) /\ AcceptP1(m)
        <3>1. m.from \in Uav /\ m.to \in Uav
            BY <2>1 DEF MessageP1
        <3>2. /\ Answered(m) \in Session
              /\ peers' = [peers EXCEPT ![m.to][m.from] = Answered(m)]
              /\ drawn' = [drawn EXCEPT ![m.to] = drawn[m.to] + 1]
              /\ msgs' \subseteq Message
            BY <1>3, <2>1, <2>3, AnsweredSession, Zenon
        <3>3. peers' \in [Uav -> [Uav -> Session \cup {None}]]
            BY <3>1, <3>2, ReplaceSession
        <3>4. drawn' \in [Uav -> Nat]
            BY <3>1, <3>2 DEF TypeOK
        <3> QED
            BY <1>3, <2>2, <3>2, <3>3, <3>4 DEF TypeOK, HandleP1, phase2Vars
    <2>4. CASE UNCHANGED <<peers, drawn, msgs>>
        BY <1>3, <2>2, <2>4 DEF TypeOK, HandleP1, phase2Vars
    <2> QED
        BY <1>3, <2>3, <2>4 DEF HandleP1
<1>4. ASSUME NEW m \in msgs, NEW intact \in BOOLEAN, HandleP2(m, intact)
      PROVE  TypeOK'
    <2> DEFINE u == m.to
               v == m.from
               s == peers[u][v]
               p2 == [from |-> u, to |-> v, n1 |-> m.n1, n2 |-> m.n2]
               p3 == [type |-> "P3", from |-> u, to |-> v, p1 |-> s.p1,
                      p2 |-> p2, cred |-> s.cred]
    <2>1. m \in MessageP2
        BY <1>4, MessageFields DEF TypeOK, HandleP2
    <2>2. u \in Uav /\ v \in Uav /\ s \in Session /\ p2 \in P2Encoded
        BY <1>4, <2>1, AcceptedP2
    <2>3. CASE /\ LookUp(u, v)
               /\ peers' = [peers EXCEPT ![u][v] =
                               Completed(s, Looked(u, v), p2)]
               /\ Send(p3)
        <3>1. Completed(s, Looked(u, v), p2) \in Session
            BY <2>2, LookUpType, CompletedSession
        <3>2. peers' \in [Uav -> [Uav -> Session \cup {None}]]
            BY <2>2, <2>3, <3>1, ReplaceSession
        <3>3. p3 \in MessageP3
            BY <2>2 DEF MessageP3, Session
        <3>4. msgs' \subseteq Message
            BY <2>3, <3>3 DEF TypeOK, Send, Message
        <3>5. creds' \in [Uav -> [Uav -> Credential \cup {"none"}]]
            BY <2>2, <2>3, LookUpType
        <3> QED
            BY <1>4, <3>2, <3>4, <3>5 DEF TypeOK, HandleP2, phase2Vars
    <2>4. CASE /\ peers' = [peers EXCEPT ![u][v] = [s EXCEPT !.p2 = p2]]
               /\ UNCHANGED <<creds, msgs>>
        <3>1. [s EXCEPT !.p2 = p2] \in Session
            BY <2>2 DEF Session
        <3>2. peers' \in [Uav -> [Uav -> Session \cup {None}]]
            BY <2>2, <2>4, <3>1, ReplaceSession
        <3> QED
            BY <1>4, <2>4, <3>2 DEF TypeOK, HandleP2, phase2Vars
    <2> QED
        BY <1>4, <2>1, <2>3, <2>4, AcceptedP2
<1>5. ASSUME NEW m \in msgs, NEW intact \in BOOLEAN, HandleP3(m, intact)
      PROVE  TypeOK'
    <2> DEFINE v == m.to
               u == m.from
               s == peers[v][u]
    <2>1. m \in MessageP3
        BY <1>5, MessageFields DEF TypeOK, HandleP3
    <2>2. /\ u \in Uav /\ v \in Uav /\ s \in Session /\ s.p2 \in P2Encoded
          /\ LookUp(v, u)
          /\ peers' = [peers EXCEPT ![v][u] = Completed(s, Looked(v, u), s.p2)]
        BY <1>5, <2>1, AcceptedP3
    <2>3. Completed(s, Looked(v, u), s.p2) \in Session
        BY <2>2, LookUpType, CompletedSession
    <2>4. peers' \in [Uav -> [Uav -> Session \cup {None}]]
        BY <2>2, <2>3, ReplaceSession
    <2>5. creds' \in [Uav -> [Uav -> Credential \cup {"none"}]]
        BY <2>2, LookUpType
    <2> QED
        BY <1>5, <2>4, <2>5 DEF TypeOK, HandleP3, phase2Vars
<1>6. CASE Tick
    BY <1>6 DEF TypeOK, Tick, phase2Vars
<1>7. CASE UNCHANGED vars
    BY <1>7 DEF TypeOK, vars
<1> QED
    BY <1>1, <1>2, <1>3, <1>4, <1>5, <1>6, <1>7 DEF Next, Deliver

\* Every reachable state of the handshake is well typed: whatever arrives,
\* startPhase3 and the three handlers keep the session tables, credentials
\* and caches of every device in their types.
THEOREM TypeCorrect == Spec => []TypeOK
<1>1. Init => TypeOK
    BY DEF Init, TypeOK
<1> QED
    BY <1>1, NextType, PTL DEF Spec
-----------------------------------------------------------------------------
(* Agreement *)

\* A session's nonce was drawn; its secret is gone once it is established; an
\* initiator's request carries its nonce.
SessionInv ==
    \A u, v \in Uav : peers[u][v] # None =>
        /\ peers[u][v].local <= drawn[u]
        /\ peers[u][v].ephemeral => ~peers[u][v].established
        /\ peers[u][v].established => peers[u][v].sessionKey \in Key
        /\ peers[u][v].initiator => peers[u][v].p1.n1 = peers[u][v].local

\* The device that sent a P3 still holds the session it completed, unless it
\* has another with that peer since.
ConfirmInv ==
    \A m \in msgs : m.type = "P3" =>
        /\ peers[m.from][m.to] # None
        /\ m.p1.n1 <= peers[m.from][m.to].local
        /\ m.p1.n1 = peers[m.from][m.to].local =>
               /\ peers[m.from][m.to].established
               /\ peers[m.from][m.to].sessionKey.p1 = m.p1
               /\ peers[m.from][m.to].sessionKey.p2 = m.p2
               /\ peers[m.from][m.to].cred = m.cred

\* A responder's completed session is that of a P3 of its initiator.
ResponderInv ==
    \A u, v \in Uav :
        /\ peers[v][u] # None
        /\ ~peers[v][u].initiator
        /\ peers[v][u].established
        => \E m \in msgs : /\ m.type = "P3" /\ m.from = u /\ m.to = v
                           /\ m.p1 = peers[v][u].p1
                           /\ m.p1 = peers[v][u].sessionKey.p1
                           /\ m.p2 = peers[v][u].sessionKey.p2
                           /\ m.cred = peers[v][u].cred

AgreementInv == TypeOK /\ SessionInv /\ ConfirmInv /\ ResponderInv

\* The parties of a P3 are devices.
LEMMA PartiesOfP3 ==
    ASSUME TypeOK, NEW m \in msgs, m.type = "P3"
    PROVE  /\ m.from \in Uav /\ m.to \in Uav
           /\ m.p1 \in P1Encoded /\ m.p1.n1 \in Nat
BY MessageFields DEF TypeOK, MessageP3, P1Encoded

\* A session with a newly drawn nonce, not established, disturbs nothing.
LEMMA FreshSession ==
    ASSUME AgreementInv, TypeOK', NEW u \in Uav, NEW v \in Uav,
           NEW s \in Session, peers' = [peers EXCEPT ![u][v] = s],
           drawn' = [drawn EXCEPT ![u] = drawn[u] + 1],
           s.local = drawn[u] + 1, ~s.established,
           s.initiator => s.p1.n1 = s.local,
           NEW x, x.type # "P3", msgs' = msgs \cup {x}
    PROVE  AgreementInv'
<1>1. /\ peers'[u][v] = s
      /\ \A a, b \in Uav : a # u \/ b # v => peers'[a][b] = peers[a][b]
    <2>1. TypeOK
        BY DEF AgreementInv
    <2> QED
        BY <2>1 DEF TypeOK
<1>2. /\ drawn'[u] = drawn[u] + 1 /\ drawn[u] \in Nat
      /\ \A a \in Uav : a # u => drawn'[a] = drawn[a]
    BY DEF AgreementInv, TypeOK
<1>3. \A a, b \in Uav : peers[a][b] # None => peers[a][b] \in Session
    BY DEF AgreementInv, TypeOK
<1>4. \A r \in Session : r.local \in Nat
    BY DEF Session
<1>5. SessionInv'
    <2> SUFFICES ASSUME NEW a \in Uav, NEW b \in Uav, peers'[a][b] # None
                 PROVE  /\ peers'[a][b].local <= drawn'[a]
                        /\ peers'[a][b].ephemeral => ~peers'[a][b].established
                        /\ peers'[a][b].established => peers'[a][b].sessionKey \in Key
                        /\ peers'[a][b].initiator =>
                               peers'[a][b].p1.n1 = peers'[a][b].local
        BY DEF SessionInv
    <2>1. CASE a = u /\ b = v
        BY <1>1, <1>2, <2>1
    <2>2. CASE a # u \/ b # v
        BY <1>1, <1>2, <1>3, <1>4, <2>2 DEF AgreementInv, SessionInv
    <2> QED
        BY <2>1, <2>2
<1>6. ConfirmInv'
    <2> SUFFICES ASSUME NEW m \in msgs', m.type = "P3"
                 PROVE  /\ peers'[m.from][m.to] # None
                        /\ m.p1.n1 <= peers'[m.from][m.to].local
                        /\ m.p1.n1 = peers'[m.from][m.to].local =>
                               /\ peers'[m.from][m.to].established
                               /\ peers'[m.from][m.to].sessionKey.p1 = m.p1
                               /\ peers'[m.from][m.to].sessionKey.p2 = m.p2
                               /\ peers'[m.from][m.to].cred = m.cred
        BY DEF ConfirmInv
    <2>1. m \in msgs /\ m.from \in Uav /\ m.to \in Uav /\ m.p1.n1 \in Nat
        BY PartiesOfP3 DEF AgreementInv
    <2>2. CASE m.from = u /\ m.to = v
        <3>1. peers[u][v] # None /\ m.p1.n1 <= peers[u][v].local
            BY <2>1, <2>2 DEF AgreementInv, ConfirmInv
        <3>2. peers[u][v].local \in Nat /\ peers[u][v].local <= drawn[u]
            BY <1>3, <1>4, <3>1 DEF AgreementInv, SessionInv
        <3>3. m.p1.n1 < s.local
            BY <1>2, <2>1, <3>1, <3>2
        <3> QED
            BY <1>1, <1>4, <2>1, <2>2, <3>3, SessionNotNone
    <2>3. CASE m.from # u \/ m.to # v
        BY <1>1, <2>1, <2>3 DEF AgreementInv, ConfirmInv
    <2> QED
        BY <2>2, <2>3
<1>7. ResponderInv'
    BY <1>1 DEF AgreementInv, ResponderInv
<1> QED
    BY <1>5, <1>6, <1>7 DEF AgreementInv

\* handleP2 completes the initiator's session and sends the P3 that names it;
\* or it only changes p2Encoded.
LEMMA HandleP2Agreement ==
    ASSUME AgreementInv, TypeOK', NEW m \in msgs, NEW intact \in BOOLEAN,
           HandleP2(m, intact)
    PROVE  AgreementInv'
<1> DEFINE u == m.to
           v == m.from
           s == peers[u][v]
           p2 == [from |-> u, to |-> v, n1 |-> m.n1, n2 |-> m.n2]
           p3 == [type |-> "P3", from |-> u, to |-> v, p1 |-> s.p1,
                  p2 |-> p2, cred |-> s.cred]
<1>1. m \in MessageP2
    BY MessageFields DEF AgreementInv, TypeOK, HandleP2
<1>2. /\ u \in Uav /\ v \in Uav /\ s \in Session /\ p2 \in P2Encoded
      /\ s.initiator /\ s # None
    BY <1>1, AcceptedP2, SessionNotNone DEF AgreementInv
<1>3. drawn' = drawn
    BY DEF HandleP2
<1>4. s.local <= drawn[u] /\ s.p1.n1 = s.local /\ (s.ephemeral => ~s.established)
    BY <1>2 DEF AgreementInv, SessionInv
<1>5. CASE /\ s.ephemeral
           /\ LookUp(u, v)
           /\ peers' = [peers EXCEPT ![u][v] = Completed(s, Looked(u, v), p2)]
           /\ Send(p3)
    <2> DEFINE t == Completed(s, Looked(u, v), p2)
    <2>1. /\ t \in Session /\ t.initiator /\ t.local = s.local /\ t.p1 = s.p1
          /\ t.cred = s.cred
          /\ ~t.ephemeral /\ t.established /\ t.sessionKey \in Key
          /\ t.sessionKey.p1 = s.p1 /\ t.sessionKey.p2 = p2
        <3>1. Looked(u, v) \in Credential
            BY <1>2, LookUpType DEF AgreementInv
        <3> HIDE DEF p2, s, u, v
        <3> QED
            BY <1>2, <3>1, CompletedSession
    <2>2. /\ peers'[u][v] = t
          /\ \A a, b \in Uav : a # u \/ b # v => peers'[a][b] = peers[a][b]
        <3>1. /\ TypeOK /\ u \in Uav /\ v \in Uav /\ t \in Session
              /\ peers' = [peers EXCEPT ![u][v] = t]
            BY <1>2, <1>5, <2>1 DEF AgreementInv
        <3> HIDE DEF t, u, v
        <3> QED
            BY <3>1 DEF TypeOK
    <2>3. /\ p3.type = "P3" /\ p3.from = u /\ p3.to = v
          /\ p3.p1 = s.p1 /\ p3.p2 = p2 /\ p3.cred = s.cred
        OBVIOUS
    <2>4. msgs' = msgs \cup {p3}
        BY <1>5 DEF Send
    <2>5. t # None /\ s.local \in Nat
        BY <1>2, <2>1, SessionNotNone DEF Session
    <2> HIDE DEF t, p3, p2, s
    <2>6. SessionInv'
        BY <1>2, <1>3, <1>4, <2>1, <2>2 DEF AgreementInv, SessionInv
    <2>7. ConfirmInv'
        <3> SUFFICES ASSUME NEW x \in msgs', x.type = "P3"
                     PROVE  /\ peers'[x.from][x.to] # None
                            /\ x.p1.n1 <= peers'[x.from][x.to].local
                            /\ x.p1.n1 = peers'[x.from][x.to].local =>
                                   /\ peers'[x.from][x.to].established
                                   /\ peers'[x.from][x.to].sessionKey.p1 = x.p1
                                   /\ peers'[x.from][x.to].sessionKey.p2 = x.p2
                                   /\ peers'[x.from][x.to].cred = x.cred
            BY DEF ConfirmInv
        <3>1. CASE x = p3
            BY <1>4, <2>1, <2>2, <2>3, <2>5, <3>1
        <3>2. CASE x \in msgs /\ x.from = u /\ x.to = v
            \* s still had its secret, so x confirms an earlier request
            <4>1. /\ x.p1.n1 <= s.local
                  /\ x.p1.n1 = s.local => s.established
                BY <3>2 DEF AgreementInv, ConfirmInv, s
            <4>2. x.p1.n1 # s.local
                BY <1>4, <1>5, <4>1
            <4> QED
                BY <2>1, <2>2, <2>5, <3>2, <4>1, <4>2
        <3>3. CASE x \in msgs /\ (x.from # u \/ x.to # v)
            BY <2>2, <3>3, PartiesOfP3 DEF AgreementInv, ConfirmInv
        <3> QED
            BY <2>4, <3>1, <3>2, <3>3
    <2>8. ResponderInv'
        BY <2>1, <2>2, <2>4 DEF AgreementInv, ResponderInv
    <2> QED
        BY <2>6, <2>7, <2>8 DEF AgreementInv
<1>6. CASE /\ peers' = [peers EXCEPT ![u][v] = [s EXCEPT !.p2 = p2]]
           /\ UNCHANGED <<creds, msgs>>
    <2> DEFINE t == [s EXCEPT !.p2 = p2]
    <2>1. /\ t \in Session /\ t.initiator /\ t.local = s.local /\ t.p1 = s.p1
          /\ t.cred = s.cred
          /\ t.ephemeral = s.ephemeral /\ t.established = s.established
          /\ t.sessionKey = s.sessionKey
        BY <1>2 DEF Session
    <2>2. /\ peers'[u][v] = t
          /\ \A a, b \in Uav : a # u \/ b # v => peers'[a][b] = peers[a][b]
        <3>1. /\ TypeOK /\ u \in Uav /\ v \in Uav /\ t \in Session
              /\ peers' = [peers EXCEPT ![u][v] = t]
            BY <1>2, <1>6, <2>1 DEF AgreementInv
        <3> HIDE DEF t, s, u, v
        <3> QED
            BY <3>1 DEF TypeOK
    <2>3. t # None
        BY <2>1, SessionNotNone
    <2> HIDE DEF t
    <2>4. SessionInv'
        <3> SUFFICES ASSUME NEW a \in Uav, NEW b \in Uav, peers'[a][b] # None
                     PROVE  /\ peers'[a][b].local <= drawn[a]
                            /\ peers'[a][b].ephemeral => ~peers'[a][b].established
                            /\ peers'[a][b].established => peers'[a][b].sessionKey \in Key
                            /\ peers'[a][b].initiator =>
                                   peers'[a][b].p1.n1 = peers'[a][b].local
            BY <1>3 DEF SessionInv
        <3>1. CASE a = u /\ b = v
            <4>1. s.established => s.sessionKey \in Key
                BY <1>2 DEF AgreementInv, SessionInv
            <4> HIDE DEF s
            <4> QED
                BY <1>4, <2>1, <2>2, <3>1, <4>1
        <3>2. CASE a # u \/ b # v
            BY <2>2, <3>2 DEF AgreementInv, SessionInv
        <3> QED
            BY <3>1, <3>2
    <2>5. ConfirmInv'
        <3> SUFFICES ASSUME NEW x \in msgs, x.type = "P3"
                     PROVE  /\ peers'[x.from][x.to] # None
                            /\ x.p1.n1 <= peers'[x.from][x.to].local
                            /\ x.p1.n1 = peers'[x.from][x.to].local =>
                                   /\ peers'[x.from][x.to].established
                                   /\ peers'[x.from][x.to].sessionKey.p1 = x.p1
                                   /\ peers'[x.from][x.to].sessionKey.p2 = x.p2
                                   /\ peers'[x.from][x.to].cred = x.cred
            BY <1>6 DEF ConfirmInv
        <3>1. CASE x.from = u /\ x.to = v
            <4>1. /\ x.p1.n1 <= s.local
                  /\ x.p1.n1 = s.local =>
                         /\ s.established
                         /\ s.sessionKey.p1 = x.p1 /\ s.sessionKey.p2 = x.p2
                         /\ s.cred = x.cred
                BY <3>1 DEF AgreementInv, ConfirmInv
            <4> HIDE DEF s
            <4> QED
                BY <2>1, <2>2, <2>3, <3>1, <4>1
        <3>2. CASE x.from # u \/ x.to # v
            BY <2>2, <3>2, PartiesOfP3 DEF AgreementInv, ConfirmInv
        <3> QED
            BY <3>1, <3>2
    <2>6. ResponderInv'
        <3> SUFFICES ASSUME NEW a \in Uav, NEW b \in Uav, peers'[b][a] # None,
                            ~peers'[b][a].initiator, peers'[b][a].established
                     PROVE  \E x \in msgs :
                                /\ x.type = "P3" /\ x.from = a /\ x.to = b
                                /\ x.p1 = peers'[b][a].p1
                                /\ x.p1 = peers'[b][a].sessionKey.p1
                                /\ x.p2 = peers'[b][a].sessionKey.p2
                                /\ x.cred = peers'[b][a].cred
            <4>1. msgs' = msgs
                BY <1>6
            <4> QED
                BY <4>1 DEF ResponderInv
        <3>1. b # u \/ a # v
            BY <2>1, <2>2
        <3> QED
            BY <2>2, <3>1 DEF AgreementInv, ResponderInv
    <2> QED
        BY <2>4, <2>5, <2>6 DEF AgreementInv
<1> QED
    BY <1>1, <1>5, <1>6, AcceptedP2 DEF AgreementInv

\* handleP3 completes the responder's session as the P3 in hand names it.
LEMMA HandleP3Agreement ==
    ASSUME AgreementInv, TypeOK', NEW m \in msgs, NEW intact \in BOOLEAN,
           HandleP3(m, intact)
    PROVE  AgreementInv'
<1> DEFINE v == m.to
           u == m.from
           s == peers[v][u]
           t == Completed(s, Looked(v, u), s.p2)
<1>1. m \in MessageP3 /\ m.type = "P3"
    BY MessageFields DEF AgreementInv, TypeOK, HandleP3
<1>2. /\ u \in Uav /\ v \in Uav /\ s \in Session /\ s # None
      /\ ~s.initiator /\ s.ephemeral
      /\ s.p1 = m.p1 /\ s.p2 = m.p2 /\ s.p2 \in P2Encoded
      /\ s.cred = m.cred
      /\ peers' = [peers EXCEPT ![v][u] = t]
    BY <1>1, AcceptedP3, SessionNotNone DEF AgreementInv
<1>3. drawn' = drawn /\ msgs' = msgs
    BY DEF HandleP3
<1>4. s.local <= drawn[v] /\ ~s.established
    BY <1>2 DEF AgreementInv, SessionInv
<1>5. /\ t \in Session /\ ~t.initiator /\ t.local = s.local /\ t.p1 = s.p1
      /\ t.cred = s.cred
      /\ ~t.ephemeral /\ t.established /\ t.sessionKey \in Key
      /\ t.sessionKey.p1 = s.p1 /\ t.sessionKey.p2 = s.p2
    <2>1. Looked(v, u) \in Credential
        BY <1>2, LookUpType DEF AgreementInv
    <2> HIDE DEF s, u, v
    <2> QED
        BY <1>2, <2>1, CompletedSession
<1>6. /\ peers'[v][u] = t
      /\ \A a, b \in Uav : a # v \/ b # u => peers'[a][b] = peers[a][b]
    <2>1. /\ TypeOK /\ u \in Uav /\ v \in Uav /\ t \in Session
          /\ peers' = [peers EXCEPT ![v][u] = t]
        BY <1>2, <1>5 DEF AgreementInv
    <2> HIDE DEF s, t, u, v
    <2> QED
        BY <2>1 DEF TypeOK
<1>7. t # None
    BY <1>5, SessionNotNone
<1> HIDE DEF t
<1>8. SessionInv'
    <2> SUFFICES ASSUME NEW a \in Uav, NEW b \in Uav, peers'[a][b] # None
                 PROVE  /\ peers'[a][b].local <= drawn[a]
                        /\ peers'[a][b].ephemeral => ~peers'[a][b].established
                        /\ peers'[a][b].established => peers'[a][b].sessionKey \in Key
                        /\ peers'[a][b].initiator =>
                               peers'[a][b].p1.n1 = peers'[a][b].local
        BY <1>3 DEF SessionInv
    <2>1. CASE a = v /\ b = u
        <3>1. peers'[a][b] = t /\ drawn[a] = drawn[v]
            BY <1>6, <2>1
        <3>2. /\ t.local <= drawn[v] /\ ~t.ephemeral /\ ~t.initiator
              /\ t.sessionKey \in Key
            BY <1>4, <1>5
        <3> HIDE DEF s, u, v
        <3> QED
            BY <3>1, <3>2
    <2>2. CASE a # v \/ b # u
        BY <1>6, <2>2 DEF AgreementInv, SessionInv
    <2> QED
        BY <2>1, <2>2
<1>9. ConfirmInv'
    <2> SUFFICES ASSUME NEW x \in msgs, x.type = "P3"
                 PROVE  /\ peers'[x.from][x.to] # None
                        /\ x.p1.n1 <= peers'[x.from][x.to].local
                        /\ x.p1.n1 = peers'[x.from][x.to].local =>
                               /\ peers'[x.from][x.to].established
                               /\ peers'[x.from][x.to].sessionKey.p1 = x.p1
                               /\ peers'[x.from][x.to].sessionKey.p2 = x.p2
                               /\ peers'[x.from][x.to].cred = x.cred
        BY <1>3 DEF ConfirmInv
    <2>1. CASE x.from = v /\ x.to = u
        \* s was not established, so x confirms an earlier request
        <3>1. /\ x.p1.n1 <= s.local
              /\ x.p1.n1 = s.local => s.established
            BY <2>1 DEF AgreementInv, ConfirmInv
        <3>2. x.p1.n1 # s.local
            BY <1>4, <3>1
        <3> HIDE DEF s
        <3> QED
            BY <1>5, <1>6, <1>7, <2>1, <3>1, <3>2
    <2>2. CASE x.from # v \/ x.to # u
        BY <1>6, <2>2, PartiesOfP3 DEF AgreementInv, ConfirmInv
    <2> QED
        BY <2>1, <2>2
<1>10. ResponderInv'
    <2> SUFFICES ASSUME NEW a \in Uav, NEW b \in Uav, peers'[b][a] # None,
                        ~peers'[b][a].initiator, peers'[b][a].established
                 PROVE  \E x \in msgs :
                            /\ x.type = "P3" /\ x.from = a /\ x.to = b
                            /\ x.p1 = peers'[b][a].p1
                            /\ x.p1 = peers'[b][a].sessionKey.p1
                            /\ x.p2 = peers'[b][a].sessionKey.p2
                            /\ x.cred = peers'[b][a].cred
        BY <1>3 DEF ResponderInv
    <2>1. CASE b = v /\ a = u
        <3>1. /\ m.type = "P3"
              /\ m.p1 = t.p1 /\ m.p1 = t.sessionKey.p1 /\ m.p2 = t.sessionKey.p2
              /\ m.cred = t.cred
            BY <1>1, <1>2, <1>5
        <3>2. peers'[b][a] = t
            BY <1>6, <2>1
        <3> QED
            BY <2>1, <3>1, <3>2
    <2>2. CASE b # v \/ a # u
        BY <1>6, <2>2 DEF AgreementInv, ResponderInv
    <2> QED
        BY <2>1, <2>2
<1> QED
    BY <1>8, <1>9, <1>10 DEF AgreementInv

LEMMA NextAgreement == AgreementInv /\ [Next]_vars => AgreementInv'
<1> SUFFICES ASSUME AgreementInv, [Next]_vars PROVE AgreementInv'
    OBVIOUS
<1>1. TypeOK /\ TypeOK'
    BY NextType DEF AgreementInv
<1>2. ASSUME UNCHANGED <<peers, drawn, msgs>>
      PROVE  AgreementInv'
    BY <1>1, <1>2 DEF AgreementInv, SessionInv, ConfirmInv, ResponderInv
<1>3. CASE \E u \in Uav : StartPhase2(u) \/ HandleM2(u) \/ HandleM4(u)
    BY <1>2, <1>3 DEF StartPhase2, HandleM2, HandleM4
<1>4. CASE \E u, v \in Uav : StartPhase3(u, v)
    <2>1. PICK u \in Uav, v \in Uav : StartPhase3(u, v)
        BY <1>4
    <2>2. /\ Started(u, v).local = drawn[u] + 1
          /\ ~Started(u, v).established
          /\ Started(u, v).p1.n1 = Started(u, v).local
        BY DEF Started
    <2>3. PICK x : x.type = "P1" /\ msgs' = msgs \cup {x}
        BY <1>1, <2>1, StartedSession
    <2> QED
        BY <1>1, <2>1, <2>2, <2>3, StartedSession, FreshSession
<1>5. ASSUME NEW m \in msgs, NEW intact \in BOOLEAN, HandleP1(m, intact)
      PROVE  AgreementInv'
    <2>1. CASE AuthenticP1(m, intact) /\ AcceptP1(m)
        <3>1. m \in MessageP1 /\ m.to \in Uav /\ m.from \in Uav
            BY <1>1, <1>5, MessageFields DEF TypeOK, HandleP1, MessageP1
        <3>2. /\ Answered(m).local = drawn[m.to] + 1
              /\ ~Answered(m).established
              /\ ~Answered(m).initiator
            BY DEF Answered
        <3>3. PICK x : x.type = "P2" /\ msgs' = msgs \cup {x}
            BY <1>1, <1>5, <2>1, <3>1, AnsweredSession
        <3> QED
            BY <1>1, <1>5, <2>1, <3>1, <3>2, <3>3, AnsweredSession, FreshSession
    <2>2. CASE UNCHANGED <<peers, drawn, msgs>>
        BY <1>2, <2>2
    <2> QED
        BY <1>5, <2>1, <2>2 DEF HandleP1
<1>6. CASE Tick
    BY <1>2, <1>6 DEF Tick
<1>7. CASE UNCHANGED vars
    BY <1>2, <1>7 DEF vars
<1> QED
    BY <1>1, <1>3, <1>4, <1>5, <1>6, <1>7, HandleP2Agreement,
       HandleP3Agreement DEF Next, Deliver

\* The inductive invariant: whatever the network does, the sessions of two
\* peers, the P3s between them and the completed keys fit together.
THEOREM Agreement == Spec => []AgreementInv
<1>1. Init => AgreementInv
    BY DEF Init, AgreementInv, TypeOK, SessionInv, ConfirmInv, ResponderInv
<1> QED
    BY <1>1, NextAgreement, PTL DEF Spec

\* handleP3 completes a handshake only if the initiator completed the very
\* same one (nonces, shares and time of request), or has begun another with
\* that peer since, however little the caches remember and whoever starts.
THEOREM ResponderAgreement == Spec => []ResponderKeyHeldByInitiator
<1>1. AgreementInv => ResponderKeyHeldByInitiator
    <2> SUFFICES ASSUME AgreementInv, NEW u \in Uav, NEW v \in Uav,
                        peers[v][u] # None, ~peers[v][u].initiator,
                        peers[v][u].established
                 PROVE  /\ peers[u][v] # None
                        /\ \/ peers[u][v].local > peers[v][u].p1.n1
                           \/ /\ peers[u][v].established
                              /\ peers[u][v].sessionKey.p1 =
                                     peers[v][u].sessionKey.p1
                              /\ peers[u][v].sessionKey.p2 =
                                     peers[v][u].sessionKey.p2
        BY DEF ResponderKeyHeldByInitiator
    <2>1. PICK m \in msgs : /\ m.type = "P3" /\ m.from = u /\ m.to = v
                            /\ m.p1 = peers[v][u].p1
                            /\ m.p1 = peers[v][u].sessionKey.p1
                            /\ m.p2 = peers[v][u].sessionKey.p2
        BY DEF AgreementInv, ResponderInv
    <2>2. peers[u][v] # None /\ m.p1.n1 <= peers[u][v].local
        BY <2>1 DEF AgreementInv, ConfirmInv
    <2>3. peers[u][v].local \in Nat /\ m.p1.n1 \in Nat
        BY <2>1, <2>2, PartiesOfP3 DEF AgreementInv, TypeOK, Session
    <2>4. CASE m.p1.n1 = peers[u][v].local
        BY <2>1, <2>2, <2>4 DEF AgreementInv, ConfirmInv
    <2>5. CASE m.p1.n1 # peers[u][v].local
        BY <2>1, <2>2, <2>3, <2>5
    <2> QED
        BY <2>4, <2>5
<1> QED
    BY <1>1, Agreement, PTL

\* The keys of one exchange differ only where a device looked its credential
\* up again in handleP2 or handleP3 and no longer found the one it had
\* authenticated with, because it had restarted Phase 2 in between.
THEOREM KeysDiffer == Spec => []KeysDifferOnlyByLookUp
<1>1. AgreementInv => KeysDifferOnlyByLookUp
    <2> SUFFICES ASSUME AgreementInv, NEW u \in Uav, NEW v \in Uav,
                        peers[u][v] # None, peers[u][v].established,
                        peers[v][u] # None, ~peers[v][u].initiator,
                        peers[v][u].established,
                        peers[u][v].local = peers[v][u].p1.n1,
                        peers[u][v].sessionKey.cred = peers[u][v].cred,
                        peers[v][u].sessionKey.cred = peers[v][u].cred
                 PROVE  peers[u][v].sessionKey = peers[v][u].sessionKey
        BY DEF KeysDifferOnlyByLookUp
    <2>1. PICK m \in msgs : /\ m.type = "P3" /\ m.from = u /\ m.to = v
                            /\ m.p1 = peers[v][u].p1
                            /\ m.p1 = peers[v][u].sessionKey.p1
                            /\ m.p2 = peers[v][u].sessionKey.p2
                            /\ m.cred = peers[v][u].cred
        BY DEF AgreementInv, ResponderInv
    <2>2. /\ peers[u][v].sessionKey.p1 = m.p1
          /\ peers[u][v].sessionKey.p2 = m.p2
          /\ peers[u][v].cred = m.cred
        <3>1. m.p1.n1 = peers[m.from][m.to].local
            BY <2>1
        <3>2. /\ peers[m.from][m.to].sessionKey.p1 = m.p1
              /\ peers[m.from][m.to].sessionKey.p2 = m.p2
              /\ peers[m.from][m.to].cred = m.cred
            BY <2>1, <3>1 DEF AgreementInv, ConfirmInv
        <3> QED
            BY <2>1, <3>2
    <2>3. peers[u][v].sessionKey \in Key /\ peers[v][u].sessionKey \in Key
        BY DEF AgreementInv, SessionInv
    <2> QED
        BY <2>1, <2>2, <2>3 DEF Key
<1> QED
    BY <1>1, Agreement, PTL
-----------------------------------------------------------------------------
(* Keys once agreed *)

\* The step of PeerKeyNeverRederived.
KeysKept ==
    \A u, v \in Uav :
        LET s == peers[u][v]
        IN  s # None /\ s.established =>
                \/ peers'[u][v].sessionKey = s.sessionKey
                \/ peers'[u][v].local > s.local

\* A step that replaces one session keeps every key if that one does.
LEMMA ReplaceKeepsKeys ==
    ASSUME TypeOK, NEW u \in Uav, NEW v \in Uav, NEW s \in Session,
           peers' = [peers EXCEPT ![u][v] = s],
           peers[u][v] # None /\ peers[u][v].established =>
               \/ s.sessionKey = peers[u][v].sessionKey
               \/ s.local > peers[u][v].local
    PROVE  KeysKept
<1>1. /\ peers'[u][v] = s
      /\ \A a, b \in Uav : a # u \/ b # v => peers'[a][b] = peers[a][b]
    <2>1. peers' = [peers EXCEPT ![u][v] = s]
        OBVIOUS
    <2> QED
        BY <2>1 DEF TypeOK
<1>2. SUFFICES ASSUME NEW a \in Uav, NEW b \in Uav, peers[a][b] # None,
                      peers[a][b].established
               PROVE  \/ peers'[a][b].sessionKey = peers[a][b].sessionKey
                      \/ peers'[a][b].local > peers[a][b].local
    BY DEF KeysKept
<1>3. CASE a = u /\ b = v
    BY <1>1, <1>2, <1>3
<1>4. CASE a # u \/ b # v
    BY <1>1, <1>4
<1> QED
    BY <1>3, <1>4

\* A session with a newly drawn nonce is newer than the one it replaces.
LEMMA DrawnIsNewer ==
    ASSUME AgreementInv, NEW u \in Uav, NEW v \in Uav, peers[u][v] # None
    PROVE  drawn[u] + 1 > peers[u][v].local
<1>1. peers[u][v] \in Session /\ drawn[u] \in Nat
    BY DEF AgreementInv, TypeOK
<1>2. peers[u][v].local \in Nat /\ peers[u][v].local <= drawn[u]
    BY <1>1 DEF AgreementInv, SessionInv, Session
<1> QED
    BY <1>1, <1>2

LEMMA NextKeepsKeys == AgreementInv /\ [Next]_vars => KeysKept
<1> SUFFICES ASSUME AgreementInv, [Next]_vars PROVE KeysKept
    OBVIOUS
<1>1. TypeOK
    BY DEF AgreementInv
<1>2. ASSUME UNCHANGED peers
      PROVE  KeysKept
    BY <1>2 DEF KeysKept
<1>3. CASE \E u \in Uav : StartPhase2(u) \/ HandleM2(u) \/ HandleM4(u)
    BY <1>2, <1>3 DEF StartPhase2, HandleM2, HandleM4
<1>4. CASE \E u, v \in Uav : StartPhase3(u, v)
    <2>1. PICK u \in Uav, v \in Uav : StartPhase3(u, v)
        BY <1>4
    <2>2. Started(u, v).local = drawn[u] + 1
        BY DEF Started
    <2> QED
        BY <1>1, <2>1, <2>2, StartedSession, DrawnIsNewer, ReplaceKeepsKeys
<1>5. ASSUME NEW m \in msgs, NEW intact \in BOOLEAN, HandleP1(m, intact)
      PROVE  KeysKept
    <2>1. CASE AuthenticP1(m, intact) /\ AcceptP1(m)
        <3>1. m \in MessageP1 /\ m.to \in Uav /\ m.from \in Uav
            BY <1>1, <1>5, MessageFields DEF TypeOK, HandleP1, MessageP1
        <3>2. Answered(m).local = drawn[m.to] + 1
            BY DEF Answered
        <3>3. /\ Answered(m) \in Session
              /\ peers' = [peers EXCEPT ![m.to][m.from] = Answered(m)]
            BY <1>1, <1>5, <2>1, <3>1, AnsweredSession
        <3>4. peers[m.to][m.from] # None =>
                  Answered(m).local > peers[m.to][m.from].local
            BY <3>1, <3>2, DrawnIsNewer
        <3> QED
            BY <1>1, <3>1, <3>3, <3>4, ReplaceKeepsKeys
    <2>2. CASE UNCHANGED <<peers, drawn, msgs>>
        BY <1>2, <2>2
    <2> QED
        BY <1>5, <2>1, <2>2 DEF HandleP1
\* An established session has no secret left, so only p2Encoded can change.
<1>6. ASSUME NEW m \in msgs, NEW intact \in BOOLEAN, HandleP2(m, intact)
      PROVE  KeysKept
    <2> DEFINE u == m.to
               v == m.from
               s == peers[u][v]
               p2 == [from |-> u, to |-> v, n1 |-> m.n1, n2 |-> m.n2]
               t == [s EXCEPT !.p2 = p2]
               c == Completed(s, Looked(u, v), p2)
    <2>1. m \in MessageP2
        BY <1>1, <1>6, MessageFields DEF TypeOK, HandleP2
    <2>2. /\ u \in Uav /\ v \in Uav /\ s \in Session /\ p2 \in P2Encoded
          /\ s # None
          /\ \/ s.ephemeral /\ peers' = [peers EXCEPT ![u][v] = c]
             \/ peers' = [peers EXCEPT ![u][v] = t]
        BY <1>1, <1>6, <2>1, AcceptedP2, SessionNotNone
    <2>3. s.ephemeral => ~s.established
        BY <2>2 DEF AgreementInv, SessionInv
    <2>4. c \in Session
        <3>1. Looked(u, v) \in Credential
            BY <1>1, <2>2, LookUpType
        <3> HIDE DEF s, u, v, p2
        <3> QED
            BY <2>2, <3>1, CompletedSession
    <2>5. t \in Session /\ t.sessionKey = s.sessionKey
        BY <2>2 DEF Session
    <2> HIDE DEF t, c, p2, u, v
    <2>6. CASE s.ephemeral /\ peers' = [peers EXCEPT ![u][v] = c]
        BY <1>1, <2>2, <2>3, <2>4, <2>6, ReplaceKeepsKeys
    <2>7. CASE peers' = [peers EXCEPT ![u][v] = t]
        BY <1>1, <2>2, <2>5, <2>7, ReplaceKeepsKeys
    <2> QED
        BY <2>2, <2>6, <2>7
<1>7. ASSUME NEW m \in msgs, NEW intact \in BOOLEAN, HandleP3(m, intact)
      PROVE  KeysKept
    <2> DEFINE v == m.to
               u == m.from
               s == peers[v][u]
               c == Completed(s, Looked(v, u), s.p2)
    <2>1. m \in MessageP3
        BY <1>1, <1>7, MessageFields DEF TypeOK, HandleP3
    <2>2. /\ u \in Uav /\ v \in Uav /\ s \in Session /\ s # None
          /\ s.ephemeral /\ s.p2 \in P2Encoded
          /\ peers' = [peers EXCEPT ![v][u] = c]
        BY <1>1, <1>7, <2>1, AcceptedP3, SessionNotNone
    <2>3. ~s.established
        BY <2>2 DEF AgreementInv, SessionInv
    <2>4. c \in Session
        <3>1. Looked(v, u) \in Credential
            BY <1>1, <2>2, LookUpType
        <3> HIDE DEF s, u, v
        <3> QED
            BY <2>2, <3>1, CompletedSession
    <2> HIDE DEF c, u, v
    <2> QED
        BY <1>1, <2>2, <2>3, <2>4, ReplaceKeepsKeys
<1>8. CASE Tick
    BY <1>2, <1>8 DEF Tick
<1>9. CASE UNCHANGED vars
    BY <1>2, <1>9 DEF vars
<1> QED
    BY <1>3, <1>4, <1>5, <1>6, <1>7, <1>8, <1>9 DEF Next, Deliver

\* Neither handleP2 nor handleP3 ever changes the key of an established
\* session: it takes a session with a newer nonce to replace it.
THEOREM PeerKeyStable == Spec => PeerKeyNeverRederived
<1>1. AgreementInv /\ [Next]_vars => KeysKept
    BY NextKeepsKeys
<1>2. KeysKept =>
        \A u, v \in Uav :
            LET s == peers[u][v]
            IN  s # None /\ s.established =>
                    \/ peers'[u][v].sessionKey = s.sessionKey
                    \/ peers'[u][v].local > s.local
    BY DEF KeysKept
<1> QED
    BY <1>1, <1>2, Agreement, PTL DEF Spec, PeerKeyNeverRederived
-----------------------------------------------------------------------------
(* What the replay caches add *)

\* The nonces that can be offered to the cache of u, in both phases.
Offered(u) ==
    ({Gs} \X (1 .. MaxRequests[u]))
    \cup UNION {{v} \X (1 .. MaxDraws[v]) : v \in Uav}

\* No cache is ever full: it has room for every nonce that can be offered.
NothingForgotten == \A u \in Uav :
    IsFiniteSet(Offered(u)) /\ Cardinality(Offered(u)) <= Capacity

\* Every P1 that was answered is in the cache of the device that answered it.
SpentInv ==
    /\ \A u \in Uav :
           /\ SpentOnce(seen[u], Offered(u))
           /\ phase2[u] = "requested" => requests[u] \in 1 .. MaxRequests[u]
           /\ drawn[u] <= MaxDraws[u]
    /\ \A m \in msgs :
           /\ m.type = "P1" => m.n1 \in 1 .. MaxDraws[m.from]
           /\ m.type = "P2" => Remembers(seen[m.from], <<m.to, m.n1>>)

LEMMA Spends ==
    ASSUME NothingForgotten, TypeOK, SpentInv, NEW u \in Uav,
           NEW nonce \in Offered(u), Offer(u, nonce)
    PROVE  /\ \A v \in Uav : SpentOnce(seen'[v], Offered(v))
           /\ \A v \in Uav : \A x : Remembers(seen'[v], x) <=>
                  Remembers(seen[v], x) \/ (v = u /\ x = nonce)
<1> DEFINE S == Offered(u)
<1>1. Capacity \in Nat /\ IsFiniteSet(S) /\ Cardinality(S) <= Capacity
    BY Phase3Assumption DEF NothingForgotten
<1>2. /\ seen'[u] = Remember(seen[u], nonce, Capacity)
      /\ \A v \in Uav \ {u} : seen'[v] = seen[v]
      /\ ~Remembers(seen[u], nonce)
      /\ SpentOnce(seen[u], S) /\ nonce \in S
    BY DEF Offer, TypeOK, SpentInv
<1> HIDE DEF S
<1>3. /\ SpentOnce(seen'[u], S)
      /\ \A x : Remembers(seen'[u], x) <=> Remembers(seen[u], x) \/ x = nonce
    BY <1>1, <1>2, RememberAll
<1> QED
    BY <1>2, <1>3 DEF S, SpentInv

\* A P1 is answered only when no earlier answer to it exists.
LEMMA AnswerIsFirst ==
    ASSUME NothingForgotten, TypeOK, SpentInv, NEW m \in msgs,
           NEW intact \in BOOLEAN, HandleP1(m, intact)
    PROVE  /\ m \in MessageP1 /\ m.to \in Uav /\ m.from \in Uav /\ m.n1 \in Nat
           /\ \A v \in Uav : SpentOnce(seen'[v], Offered(v))
           /\ \A v \in Uav : \A x : Remembers(seen'[v], x) <=>
                  Remembers(seen[v], x) \/ (v = m.to /\ x = <<m.from, m.n1>>)
           /\ \A x \in msgs : x.type = "P2" /\ x.from = m.to /\ x.to = m.from
                  => x.n1 # m.n1
<1>1. /\ m \in MessageP1 /\ m.to \in Uav /\ m.from \in Uav /\ m.n1 \in Nat
      /\ m.type = "P1"
    BY MessageFields DEF TypeOK, HandleP1, MessageP1
<1>2. Offer(m.to, <<m.from, m.n1>>)
    BY DEF HandleP1
<1>3. <<m.from, m.n1>> \in Offered(m.to)
    <2>1. m.n1 \in 1 .. MaxDraws[m.from]
        BY <1>1 DEF SpentInv
    <2> QED
        BY <1>1, <2>1 DEF Offered
<1>4. \A x \in msgs : x.type = "P2" /\ x.from = m.to /\ x.to = m.from
          => x.n1 # m.n1
    BY <1>2 DEF SpentInv, Offer
<1> QED
    BY <1>1, <1>2, <1>3, <1>4, Spends

LEMMA SpentStep ==
    ASSUME NothingForgotten, TypeOK, SpentInv, OneAnswerPerP1, [Next]_vars
    PROVE  SpentInv' /\ OneAnswerPerP1'
<1>0. \A u \in Uav : /\ requests[u] \in Nat /\ drawn[u] \in Nat
                     /\ MaxRequests[u] \in Nat /\ MaxDraws[u] \in Nat
    BY Phase3Assumption DEF TypeOK
<1>1. ASSUME UNCHANGED <<seen, drawn>>,
             \A m \in msgs' : m \in msgs \/ m.type = "P3",
             \A u \in Uav : phase2'[u] = "requested" =>
                                requests'[u] \in 1 .. MaxRequests[u]
      PROVE  SpentInv' /\ OneAnswerPerP1'
    BY <1>1 DEF SpentInv, OneAnswerPerP1
<1>2. CASE \E u \in Uav : StartPhase2(u)
    <2>1. PICK u \in Uav : StartPhase2(u)
        BY <1>2
    <2>2. /\ requests' = [requests EXCEPT ![u] = requests[u] + 1]
          /\ phase2' = [phase2 EXCEPT ![u] = "requested"]
          /\ requests[u] < MaxRequests[u]
        BY <2>1 DEF StartPhase2
    <2>3. \A v \in Uav : phase2'[v] = "requested" =>
              requests'[v] \in 1 .. MaxRequests[v]
        BY <1>0, <2>2 DEF TypeOK, SpentInv
    <2>4. UNCHANGED <<seen, drawn, msgs>>
        BY <2>1 DEF StartPhase2
    <2> QED
        BY <1>1, <2>3, <2>4
<1>3. ASSUME NEW u \in Uav, HandleM2(u)
      PROVE  SpentInv' /\ OneAnswerPerP1'
    <2>1. /\ Offer(u, <<Gs, requests[u]>>) /\ UNCHANGED <<msgs, drawn, requests>>
          /\ phase2[u] = "requested"
          /\ phase2' = [phase2 EXCEPT ![u] = "confirmed"]
        BY <1>3 DEF HandleM2
    <2>2. <<Gs, requests[u]>> \in Offered(u)
        BY <2>1 DEF SpentInv, Offered
    <2>3. /\ \A v \in Uav : SpentOnce(seen'[v], Offered(v))
          /\ \A v \in Uav : \A x : Remembers(seen[v], x) => Remembers(seen'[v], x)
        BY <2>1, <2>2, Spends
    <2>4. \A v \in Uav : phase2'[v] = "requested" => phase2[v] = "requested"
        BY <2>1 DEF TypeOK
    <2>5. \A m \in msgs : m.type = "P2" => m.from \in Uav
        BY MessageFields DEF TypeOK, MessageP2
    <2> QED
        BY <2>1, <2>3, <2>4, <2>5 DEF SpentInv, OneAnswerPerP1
<1>4. CASE \E u \in Uav : HandleM4(u)
    <2>1. PICK u \in Uav : HandleM4(u)
        BY <1>4
    <2>2. \A v \in Uav : phase2'[v] = "requested" => phase2[v] = "requested"
        BY <2>1 DEF HandleM4, TypeOK
    <2>3. UNCHANGED <<seen, drawn, msgs, requests>>
        BY <2>1 DEF HandleM4
    <2> QED
        BY <1>1, <2>2, <2>3 DEF SpentInv
<1>5. ASSUME NEW u \in Uav, NEW v \in Uav, StartPhase3(u, v)
      PROVE  SpentInv' /\ OneAnswerPerP1'
    <2>1. PICK m : /\ m.type = "P1" /\ m.from = u /\ m.to = v
                   /\ m.n1 = drawn[u] + 1
                   /\ msgs' = msgs \cup {m}
        BY <1>5, StartedSession
    <2>2. /\ UNCHANGED <<phase2, requests, seen>> /\ drawn[u] < MaxDraws[u]
          /\ drawn' = [drawn EXCEPT ![u] = drawn[u] + 1]
        BY <1>5 DEF StartPhase3, Draw, phase2Vars
    <2>3. \A w \in Uav : drawn'[w] <= MaxDraws[w]
        BY <1>0, <2>2 DEF TypeOK, SpentInv
    <2>4. m.n1 \in 1 .. MaxDraws[u]
        BY <1>0, <2>1, <2>2
    <2> QED
        BY <2>1, <2>2, <2>3, <2>4 DEF SpentInv, OneAnswerPerP1
<1>6. ASSUME NEW m \in msgs, NEW intact \in BOOLEAN, HandleP1(m, intact)
      PROVE  SpentInv' /\ OneAnswerPerP1'
    <2>1. /\ m \in MessageP1 /\ m.to \in Uav /\ m.from \in Uav
          /\ \A v \in Uav : SpentOnce(seen'[v], Offered(v))
          /\ \A v \in Uav : \A x : Remembers(seen'[v], x) <=>
                 Remembers(seen[v], x) \/ (v = m.to /\ x = <<m.from, m.n1>>)
          /\ \A x \in msgs : x.type = "P2" /\ x.from = m.to /\ x.to = m.from
                 => x.n1 # m.n1
        BY <1>6, AnswerIsFirst
    <2>2. UNCHANGED <<phase2, requests>>
        BY <1>6 DEF HandleP1, phase2Vars
    <2>3. \A x \in msgs : x.type = "P2" => x.from \in Uav
        BY MessageFields DEF TypeOK, MessageP2
    <2>4. CASE AuthenticP1(m, intact) /\ AcceptP1(m)
        <3>1. PICK p : /\ p.type = "P2" /\ p.from = m.to /\ p.to = m.from
                       /\ p.n1 = m.n1 /\ msgs' = msgs \cup {p}
            BY <2>1, <2>4, AnsweredSession
        <3>2. /\ drawn[m.to] < MaxDraws[m.to]
              /\ drawn' = [drawn EXCEPT ![m.to] = drawn[m.to] + 1]
            BY <2>4 DEF AcceptP1, Draw
        <3>3. \A w \in Uav : drawn'[w] <= MaxDraws[w]
            BY <1>0, <2>1, <3>2 DEF TypeOK, SpentInv
        <3>4. SpentInv'
            BY <2>1, <2>2, <2>3, <3>1, <3>3 DEF SpentInv
        <3>5. OneAnswerPerP1'
            BY <2>1, <3>1 DEF OneAnswerPerP1
        <3> QED
            BY <3>4, <3>5
    <2>5. CASE UNCHANGED <<peers, drawn, msgs>>
        BY <2>1, <2>2, <2>3, <2>5 DEF SpentInv, OneAnswerPerP1
    <2> QED
        BY <1>6, <2>4, <2>5 DEF HandleP1
<1>7. ASSUME NEW m \in msgs, NEW intact \in BOOLEAN, HandleP2(m, intact)
      PROVE  SpentInv' /\ OneAnswerPerP1'
    <2>1. UNCHANGED <<seen, drawn, phase2, requests>>
        BY <1>7 DEF HandleP2, phase2Vars
    <2>2. \A x \in msgs' : x \in msgs \/ x.type = "P3"
        BY <1>7 DEF HandleP2, Send
    <2> QED
        BY <1>1, <2>1, <2>2 DEF SpentInv
<1>8. ASSUME \/ \E m \in msgs, intact \in BOOLEAN : HandleP3(m, intact)
             \/ Tick
             \/ UNCHANGED vars
      PROVE  SpentInv' /\ OneAnswerPerP1'
    <2>1. UNCHANGED <<seen, drawn, phase2, requests, msgs>>
        BY <1>8 DEF HandleP3, Tick, vars, phase2Vars
    <2> QED
        BY <1>1, <2>1 DEF SpentInv
<1> QED
    BY <1>2, <1>3, <1>4, <1>5, <1>6, <1>7, <1>8 DEF Next, Deliver

\* What holds of the answers while no cache forgets a nonce.
CacheInv == AgreementInv /\ SpentInv /\ OneAnswerPerP1

LEMMA InitCache == Init => CacheInv
<1> SUFFICES ASSUME Init PROVE CacheInv
    OBVIOUS
<1>1. AgreementInv
    BY DEF Init, AgreementInv, TypeOK, SessionInv, ConfirmInv, ResponderInv
<1>2. SpentInv
    BY EmptyCache, Phase3Assumption DEF Init, SpentInv
<1> QED
    BY <1>1, <1>2 DEF Init, CacheInv, OneAnswerPerP1

LEMMA NextCache ==
    ASSUME NothingForgotten
    PROVE  CacheInv /\ [Next]_vars => CacheInv'
BY NextAgreement, SpentStep DEF CacheInv, AgreementInv

\* A P1 is answered at most once, however often and however late it arrives,
\* for as long as the cache of handleP1 has room: the nonces of Phase 2, which
\* share it, included.
THEOREM P1AnsweredOnce ==
    ASSUME NothingForgotten
    PROVE  Spec => []OneAnswerPerP1
<1>1. CacheInv /\ [Next]_vars => CacheInv'
    BY NextCache
<1>2. CacheInv => OneAnswerPerP1
    BY DEF CacheInv
<1> QED
    BY InitCache, <1>1, <1>2, PTL DEF Spec

\* Of two devices one at most starts handshakes with the other (as
\* startPhase3Round has it: the one with the lower index).
OneDriver == \A u, v \in Uav : v \in Drives[u] => u \notin Drives[v]

\* A responder's session is with a device that starts handshakes with it.
DriveInv ==
    /\ \A m \in msgs : m.type = "P1" => m.to \in Drives[m.from]
    /\ \A u, v \in Uav : peers[v][u] # None /\ ~peers[v][u].initiator =>
           v \in Drives[u]

\* handleP2 and handleP3 keep every session that is a responder's, except that
\* handleP3 completes one.
LEMMA InitiatorKept ==
    ASSUME TypeOK, NEW m \in msgs, NEW intact \in BOOLEAN, HandleP2(m, intact)
    PROVE  \A a, b \in Uav :
               \/ peers'[a][b] = peers[a][b]
               \/ peers'[a][b].initiator /\ peers[a][b].initiator
<1> DEFINE u == m.to
           v == m.from
           s == peers[u][v]
           p2 == [from |-> u, to |-> v, n1 |-> m.n1, n2 |-> m.n2]
           t == [s EXCEPT !.p2 = p2]
           c == Completed(s, Looked(u, v), p2)
<1>1. m \in MessageP2
    BY MessageFields DEF TypeOK, HandleP2
<1>2. /\ u \in Uav /\ v \in Uav /\ s \in Session /\ p2 \in P2Encoded
      /\ s.initiator
      /\ \/ peers' = [peers EXCEPT ![u][v] = c]
         \/ peers' = [peers EXCEPT ![u][v] = t]
    BY <1>1, AcceptedP2
<1>3. c \in Session /\ c.initiator
    <2>1. Looked(u, v) \in Credential
        BY <1>2, LookUpType
    <2> HIDE DEF s, u, v, p2
    <2> QED
        BY <1>2, <2>1, CompletedSession
<1>4. t \in Session /\ t.initiator
    BY <1>2 DEF Session
<1> HIDE DEF t, c, p2, u, v
<1>5. CASE peers' = [peers EXCEPT ![u][v] = c]
    BY <1>2, <1>3, <1>5, ReplaceSession
<1>6. CASE peers' = [peers EXCEPT ![u][v] = t]
    BY <1>2, <1>4, <1>6, ReplaceSession
<1> QED
    BY <1>2, <1>5, <1>6

LEMMA ResponderKept ==
    ASSUME TypeOK, NEW m \in msgs, NEW intact \in BOOLEAN, HandleP3(m, intact)
    PROVE  \A a, b \in Uav :
               \/ peers'[a][b] = peers[a][b]
               \/ /\ peers[a][b] # None /\ ~peers[a][b].initiator
                  /\ peers'[a][b].established
<1> DEFINE v == m.to
           u == m.from
           s == peers[v][u]
           c == Completed(s, Looked(v, u), s.p2)
<1>1. m \in MessageP3
    BY MessageFields DEF TypeOK, HandleP3
<1>2. /\ u \in Uav /\ v \in Uav /\ s \in Session /\ s.p2 \in P2Encoded
      /\ s # None /\ ~s.initiator
      /\ peers' = [peers EXCEPT ![v][u] = c]
    BY <1>1, AcceptedP3, SessionNotNone
<1>3. c \in Session /\ c.established
    <2>1. Looked(v, u) \in Credential
        BY <1>2, LookUpType
    <2> HIDE DEF s, u, v
    <2> QED
        BY <1>2, <2>1, CompletedSession
<1> HIDE DEF c, u, v
<1> QED
    BY <1>2, <1>3, ReplaceSession

LEMMA DriveStep ==
    ASSUME TypeOK, DriveInv, [Next]_vars
    PROVE  DriveInv'
<1>1. ASSUME UNCHANGED peers, \A m \in msgs' : m \in msgs \/ m.type # "P1"
      PROVE  DriveInv'
    BY <1>1 DEF DriveInv
<1>2. ASSUME NEW u \in Uav, NEW v \in Uav, StartPhase3(u, v)
      PROVE  DriveInv'
    <2>1. PICK m : /\ m.type = "P1" /\ m.from = u /\ m.to = v
                   /\ msgs' = msgs \cup {m}
        BY <1>2, StartedSession
    <2>2. /\ peers'[u][v] = Started(u, v)
          /\ \A a, b \in Uav : a # u \/ b # v => peers'[a][b] = peers[a][b]
        BY <1>2, StartedSession, ReplaceSession
    <2>3. v \in Drives[u] /\ Started(u, v).initiator
        BY <1>2 DEF StartPhase3, Started
    <2> QED
        BY <2>1, <2>2, <2>3 DEF DriveInv
<1>3. ASSUME NEW m \in msgs, NEW intact \in BOOLEAN, HandleP1(m, intact)
      PROVE  DriveInv'
    <2>1. /\ m \in MessageP1 /\ m.type = "P1" /\ m.to \in Uav /\ m.from \in Uav
        BY <1>3, MessageFields DEF TypeOK, HandleP1, MessageP1
    <2>2. CASE AuthenticP1(m, intact) /\ AcceptP1(m)
        <3>1. /\ Answered(m) \in Session
              /\ peers' = [peers EXCEPT ![m.to][m.from] = Answered(m)]
              /\ \E p : p.type = "P2" /\ msgs' = msgs \cup {p}
            BY <2>1, <2>2, AnsweredSession
        <3>2. \A a, b \in Uav : a # m.to \/ b # m.from =>
                  peers'[a][b] = peers[a][b]
            BY <2>1, <3>1, ReplaceSession
        <3>3. \A x \in msgs' : x.type = "P1" => x \in msgs
            BY <3>1
        <3>4. m.to \in Drives[m.from]
            BY <2>1 DEF DriveInv
        <3> QED
            BY <2>1, <3>2, <3>3, <3>4 DEF DriveInv
    <2>3. CASE UNCHANGED <<peers, drawn, msgs>>
        BY <1>1, <2>3
    <2> QED
        BY <1>3, <2>2, <2>3 DEF HandleP1
<1>4. ASSUME NEW m \in msgs, NEW intact \in BOOLEAN, HandleP2(m, intact)
      PROVE  DriveInv'
    <2>1. \A x \in msgs' : x \in msgs \/ x.type = "P3"
        BY <1>4 DEF HandleP2, Send
    <2>2. \A a, b \in Uav : peers'[a][b] # None /\ ~peers'[a][b].initiator =>
              peers[a][b] # None /\ ~peers[a][b].initiator
        BY <1>4, InitiatorKept
    <2> QED
        BY <2>1, <2>2 DEF DriveInv
<1>5. ASSUME NEW m \in msgs, NEW intact \in BOOLEAN, HandleP3(m, intact)
      PROVE  DriveInv'
    <2>1. msgs' = msgs
        BY <1>5 DEF HandleP3
    <2>2. \A a, b \in Uav : peers'[a][b] # None /\ ~peers'[a][b].initiator =>
              peers[a][b] # None /\ ~peers[a][b].initiator
        BY <1>5, ResponderKept
    <2> QED
        BY <2>1, <2>2 DEF DriveInv
<1>6. ASSUME \/ \E u \in Uav : StartPhase2(u) \/ HandleM2(u) \/ HandleM4(u)
             \/ Tick
             \/ UNCHANGED vars
      PROVE  DriveInv'
    <2>1. UNCHANGED <<peers, msgs>>
        BY <1>6 DEF StartPhase2, HandleM2, HandleM4, Tick, vars
    <2> QED
        BY <1>1, <2>1
<1> QED
    BY <1>2, <1>3, <1>4, <1>5, <1>6 DEF Next, Deliver

LEMMA DroppedByP1 ==
    ASSUME NothingForgotten, OneDriver, CacheInv, DriveInv, [Next]_vars,
           NEW u \in Uav, NEW v \in Uav,
           peers[v][u] # None, ~peers[v][u].initiator, peers[v][u].established,
           ~peers'[v][u].established,
           NEW x \in msgs, x.type = "P2", x.from = v, x.to = u,
           x.n1 = peers'[v][u].p1.n1
    PROVE  FALSE
<1>0. TypeOK
    BY DEF CacheInv, AgreementInv
<1>1. peers' # peers
    OBVIOUS
<1>2. ASSUME NEW a \in Uav, NEW b \in Uav, StartPhase3(a, b)
      PROVE  FALSE
    <2>1. a # v \/ b # u
        BY <1>2 DEF StartPhase3, OneDriver, DriveInv
    <2>2. peers'[v][u] = peers[v][u]
        BY <1>0, <1>2, <2>1, StartedSession, ReplaceSession
    <2> QED
        BY <2>2
<1>3. ASSUME NEW m \in msgs, NEW intact \in BOOLEAN, HandleP1(m, intact)
      PROVE  FALSE
    <2>1. /\ m \in MessageP1 /\ m.to \in Uav /\ m.from \in Uav
          /\ \A y \in msgs : y.type = "P2" /\ y.from = m.to /\ y.to = m.from
                 => y.n1 # m.n1
        BY <1>0, <1>3, AnswerIsFirst DEF CacheInv
    <2>2. AuthenticP1(m, intact) /\ AcceptP1(m)
        BY <1>1, <1>3 DEF HandleP1
    <2>3. /\ Answered(m) \in Session
          /\ peers' = [peers EXCEPT ![m.to][m.from] = Answered(m)]
        BY <1>0, <2>1, <2>2, AnsweredSession
    <2>4. m.to = v /\ m.from = u /\ peers'[v][u] = Answered(m)
        BY <1>0, <2>1, <2>3, ReplaceSession
    <2>5. Answered(m).p1.n1 = m.n1
        BY DEF Answered
    <2> QED
        BY <2>1, <2>4, <2>5
<1>4. ASSUME NEW m \in msgs, NEW intact \in BOOLEAN, HandleP2(m, intact)
      PROVE  FALSE
    BY <1>0, <1>4, InitiatorKept
<1>5. ASSUME NEW m \in msgs, NEW intact \in BOOLEAN, HandleP3(m, intact)
      PROVE  FALSE
    BY <1>0, <1>5, ResponderKept
<1>6. ASSUME \/ \E a \in Uav : StartPhase2(a) \/ HandleM2(a) \/ HandleM4(a)
             \/ Tick
             \/ UNCHANGED vars
      PROVE  FALSE
    BY <1>1, <1>6 DEF StartPhase2, HandleM2, HandleM4, Tick, vars
<1> QED
    BY <1>2, <1>3, <1>4, <1>5, <1>6 DEF Next, Deliver

\* A late or repeated P1 does not cost a responder the key it agreed: only a
\* P1 that handleP1 has never answered replaces an established session.
THEOREM PeerKeysStay ==
    ASSUME NothingForgotten, OneDriver
    PROVE  Spec => KeyDroppedOnlyByNewP1
<1> DEFINE Inv == CacheInv /\ DriveInv
<1>1. Init => Inv
    BY InitCache DEF Init, DriveInv
<1>2. Inv /\ [Next]_vars => Inv'
    BY NextCache, DriveStep DEF CacheInv, AgreementInv
<1>3. Inv /\ [Next]_vars =>
          [\A u, v \in Uav :
               LET s == peers[v][u]
               IN  /\ s # None /\ ~s.initiator /\ s.established
                   /\ ~peers'[v][u].established
                   => ~\E m \in msgs : /\ m.type = "P2"
                                       /\ m.from = v
                                       /\ m.to = u
                                       /\ m.n1 = peers'[v][u].p1.n1]_vars
    BY DroppedByP1
<1> HIDE DEF Inv
<1> QED
    BY <1>1, <1>2, <1>3, PTL DEF Spec, KeyDroppedOnlyByNewP1
-----------------------------------------------------------------------------
(* The credentials that Phase 2 grants *)

Held(u) == {v \in Uav : creds[u][v] = "pair"}

\* M4 grants the credentials of all peers, and nothing else grants any.
GrantInv == \A u \in Uav :
    Held(u) = IF phase2[u] = "established" THEN Uav \ {u} ELSE {}

\* A look-up makes at most an empty entry.
SamePairs == \A u, v \in Uav : creds'[u][v] = "pair" <=> creds[u][v] = "pair"

LEMMA LookUpKeepsPairs ==
    ASSUME TypeOK, NEW u \in Uav, NEW v \in Uav, LookUp(u, v)
    PROVE  SamePairs
<1>1. creds' = [creds EXCEPT ![u][v] = Looked(u, v)]
    BY DEF LookUp
<1>2. Looked(u, v) = "pair" <=> creds[u][v] = "pair"
    BY DEF Looked
<1>3. \A a, b \in Uav :
          creds'[a][b] = IF a = u /\ b = v THEN Looked(u, v) ELSE creds[a][b]
    BY <1>1 DEF TypeOK
<1> QED
    BY <1>2, <1>3 DEF SamePairs

\* What the steps of Phase 3 and the clock do to Phase 2.
LEMMA Phase3Grants ==
    ASSUME TypeOK, [Next]_vars,
           ~\E u \in Uav : StartPhase2(u) \/ HandleM2(u) \/ HandleM4(u)
    PROVE  SamePairs /\ UNCHANGED phase2Vars
<1>1. CASE \E u, v \in Uav : StartPhase3(u, v)
    BY <1>1 DEF StartPhase3, SamePairs
<1>2. ASSUME NEW m \in msgs, NEW intact \in BOOLEAN, HandleP1(m, intact)
      PROVE  SamePairs /\ UNCHANGED phase2Vars
    BY <1>2 DEF HandleP1, SamePairs
<1>3. ASSUME NEW m \in msgs, NEW intact \in BOOLEAN, HandleP2(m, intact)
      PROVE  SamePairs /\ UNCHANGED phase2Vars
    <2>1. m.to \in Uav /\ m.from \in Uav
        BY <1>3, MessageFields DEF HandleP2, TypeOK, MessageP2
    <2>2. LookUp(m.to, m.from) \/ UNCHANGED creds
        BY <1>3 DEF HandleP2
    <2> QED
        BY <1>3, <2>1, <2>2, LookUpKeepsPairs DEF HandleP2, SamePairs
<1>4. ASSUME NEW m \in msgs, NEW intact \in BOOLEAN, HandleP3(m, intact)
      PROVE  SamePairs /\ UNCHANGED phase2Vars
    <2>1. m.to \in Uav /\ m.from \in Uav
        BY <1>4, MessageFields DEF HandleP3, TypeOK, MessageP3
    <2> QED
        BY <1>4, <2>1, LookUpKeepsPairs DEF HandleP3
<1>5. CASE Tick \/ UNCHANGED vars
    BY <1>5 DEF Tick, vars, phase2Vars, SamePairs
<1> QED
    BY <1>1, <1>2, <1>3, <1>4, <1>5 DEF Next, Deliver

LEMMA GrantStep ==
    ASSUME TypeOK, GrantInv, [Next]_vars
    PROVE  GrantInv'
<1>1. ASSUME NEW u \in Uav, StartPhase2(u)
      PROVE  GrantInv'
    <2>1. /\ creds' = [creds EXCEPT ![u] = [v \in Uav |-> "none"]]
          /\ phase2' = [phase2 EXCEPT ![u] = "requested"]
        BY <1>1 DEF StartPhase2
    <2> QED
        BY <2>1 DEF GrantInv, Held, TypeOK
<1>2. ASSUME NEW u \in Uav, HandleM2(u)
      PROVE  GrantInv'
    BY <1>2 DEF HandleM2, GrantInv, Held, TypeOK
<1>3. ASSUME NEW u \in Uav, HandleM4(u)
      PROVE  GrantInv'
    <2>1. /\ creds' = [creds EXCEPT ![u] =
                          [v \in Uav |-> IF v = u THEN "none" ELSE "pair"]]
          /\ phase2' = [phase2 EXCEPT ![u] = "established"]
        BY <1>3 DEF HandleM4
    <2> QED
        BY <2>1 DEF GrantInv, Held, TypeOK
<1>4. CASE SamePairs /\ UNCHANGED phase2Vars
    BY <1>4 DEF SamePairs, phase2Vars, GrantInv, Held
<1> QED
    BY <1>1, <1>2, <1>3, <1>4, Phase3Grants

LEMMA GrantRefines ==
    ASSUME TypeOK, GrantInv, [Next]_vars
    PROVE  [Credentials!Next]_(Credentials!vars)
<1>0. /\ GrantInv'
      /\ phase2 \in [Uav -> {"none", "requested", "confirmed", "established"}]
    BY GrantStep DEF TypeOK
<1>1. ASSUME NEW u \in Uav, StartPhase2(u)
      PROVE  Credentials!Request(u)
    <2>1. /\ requests' = [requests EXCEPT ![u] = @ + 1]
          /\ phase2' = [phase2 EXCEPT ![u] = "requested"]
          /\ \A v \in Uav \ {u} : creds'[v] = creds[v]
        BY <1>1 DEF StartPhase2, TypeOK
    <2>2. Held(u)' = {}
        BY <1>0, <2>1 DEF GrantInv
    <2>3. \A v \in Uav \ {u} : Held(v)' = Held(v)
        BY <2>1 DEF Held
    <2> QED
        BY <2>1, <2>2, <2>3 DEF Credentials!Request, Held
<1>2. ASSUME NEW u \in Uav, HandleM2(u)
      PROVE  Credentials!Confirm(u)
    BY <1>2 DEF HandleM2, Credentials!Confirm
<1>3. ASSUME NEW u \in Uav, HandleM4(u)
      PROVE  Credentials!Grant(u) \/ UNCHANGED Credentials!vars
    <2>1. /\ phase2' = [phase2 EXCEPT ![u] = "established"]
          /\ phase2'[u] = "established"
          /\ \A v \in Uav \ {u} : creds'[v] = creds[v]
          /\ UNCHANGED requests
        BY <1>3 DEF HandleM4, TypeOK
    <2>2. Held(u)' = Uav \ {u}
        BY <1>0, <2>1 DEF GrantInv
    <2>3. \A v \in Uav \ {u} : Held(v)' = Held(v)
        BY <2>1 DEF Held
    <2>4. CASE phase2[u] = "confirmed"
        BY <2>1, <2>2, <2>3, <2>4 DEF Credentials!Grant, Held
    <2>5. CASE phase2[u] = "established"
        <3>1. phase2' = phase2 /\ Held(u)' = Held(u)
            BY <1>0, <2>1, <2>2, <2>5 DEF GrantInv
        <3> QED
            BY <2>1, <2>3, <3>1 DEF Credentials!vars, Held
    <2> QED
        BY <1>3, <2>4, <2>5 DEF HandleM4, OpensM4
<1>4. CASE SamePairs /\ UNCHANGED phase2Vars
    BY <1>4 DEF SamePairs, phase2Vars, Credentials!vars
<1> QED
    BY <1>1, <1>2, <1>3, <1>4, Phase3Grants DEF Credentials!Next

\* Phase 3 sees of Phase 2 what PeerCredentials says, and does nothing to it:
\* the entries that operator[] makes in handleP2 and handleP3 are no
\* credentials, and a repeated M4 puts back what was there.
THEOREM CredentialsRefined == Spec => RefinesPeerCredentials
<1>1. Init => GrantInv /\ Credentials!Init
    BY DEF Init, GrantInv, Held, Credentials!Init
<1>2. TypeOK /\ GrantInv /\ [Next]_vars => GrantInv'
    BY GrantStep
<1>3. TypeOK /\ GrantInv /\ [Next]_vars => [Credentials!Next]_(Credentials!vars)
    BY GrantRefines
<1> QED
    BY <1>1, <1>2, <1>3, TypeCorrect, PTL
    DEF Spec, RefinesPeerCredentials, Credentials!Spec
-----------------------------------------------------------------------------
(* The handshake, step by step *)

\* What HandshakeInv adds to AgreementInv: a P1 is of a call that was made, a
\* P2 of a nonce that was drawn, and a P3, like a responder's session, of an
\* exchange of its two parties.
HandshakeInv ==
    /\ \A m \in msgs :
           /\ m.type = "P1" => m.n1 \in 1 .. Begun(m.from, m.to)
           /\ m.type = "P2" => m.n2 <= drawn[m.from]
           /\ m.type = "P3" => /\ m.p2.from = m.from /\ m.p2.to = m.to
                               /\ m.p2.n1 = m.p1.n1
    /\ \A u, v \in Uav : peers[v][u] # None /\ ~peers[v][u].initiator =>
           /\ peers[v][u].p2.from = u /\ peers[v][u].p2.to = v
           /\ peers[v][u].p2.n2 = peers[v][u].local

\* The session of u with v becomes s, and no other changes.
Replaces(u, v, s) ==
    /\ s \in Session /\ s # None /\ peers'[u][v] = s
    /\ \A a, b \in Uav : a # u \/ b # v => peers'[a][b] = peers[a][b]

\* It becomes one with a nonce drawn for it.
Renews(u, v, s) ==
    /\ Replaces(u, v, s)
    /\ s.local = drawn[u] + 1 /\ ~s.established
    /\ drawn' = [drawn EXCEPT ![u] = drawn[u] + 1]

\* It is completed with the exchange x.
Completes(u, v, s, x) ==
    /\ Replaces(u, v, s)
    /\ peers[u][v] # None /\ ~peers[u][v].established
    /\ s.initiator = peers[u][v].initiator /\ s.local = peers[u][v].local
    /\ s.established /\ s.sessionKey.p2 = x /\ x \in P2Encoded
    /\ drawn' = drawn

\* The steps of the handshake: startPhase3, handleP1, handleP2 and handleP3
\* where they do what they are for, and everything else.
CallStep(u, v, s, m) ==
    /\ Renews(u, v, s) /\ s.initiator
    /\ m.type = "P1" /\ m.from = u /\ m.to = v /\ m.n1 = s.local
    /\ msgs' = msgs \cup {m}

AnswerStep(m, s, r) ==
    /\ m.type = "P1" /\ m.from \in Uav /\ m.to \in Uav
    /\ Renews(m.to, m.from, s)
    /\ s.p2.from = m.from /\ s.p2.to = m.to /\ s.p2.n2 = s.local
    /\ r.type = "P2" /\ r.from = m.to /\ r.to = m.from
    /\ r.n1 = m.n1 /\ r.n2 = s.local
    /\ msgs' = msgs \cup {r}

ConfirmStep(m, s, r) ==
    /\ m.type = "P2" /\ m.from \in Uav /\ m.to \in Uav
    /\ Completes(m.to, m.from, s, ExchangeOfP2(m))
    /\ s.initiator /\ s.local = m.n1
    /\ r.type = "P3" /\ r.from = m.to /\ r.to = m.from
    /\ r.p1.n1 = m.n1 /\ r.p2 = ExchangeOfP2(m)
    /\ msgs' = msgs \cup {r}

AcceptStep(m, s) ==
    /\ m.type = "P3" /\ m.from \in Uav /\ m.to \in Uav
    /\ Completes(m.to, m.from, s, m.p2)
    /\ ~s.initiator /\ s.p2 = m.p2 /\ peers[m.to][m.from].p2 = m.p2
    /\ UNCHANGED msgs

Keeps(s, t) ==
    /\ t # None <=> s # None
    /\ s # None =>
           /\ t.initiator = s.initiator /\ t.local = s.local
           /\ t.established = s.established
           /\ t.sessionKey = s.sessionKey
           /\ ~s.initiator => t.p2 = s.p2

RestStep ==
    /\ UNCHANGED <<drawn, msgs>>
    /\ \A u, v \in Uav : Keeps(peers[u][v], peers'[u][v])

LEMMA ReplacesIs ==
    ASSUME TypeOK, NEW u \in Uav, NEW v \in Uav, NEW s \in Session,
           peers' = [peers EXCEPT ![u][v] = s]
    PROVE  Replaces(u, v, s)
BY SessionNotNone DEF TypeOK, Replaces

LEMMA CallIs ==
    ASSUME TypeOK, NEW u \in Uav, NEW v \in Uav, StartPhase3(u, v)
    PROVE  \E s, m : CallStep(u, v, s, m)
<1>1. /\ Started(u, v) \in Session
      /\ peers' = [peers EXCEPT ![u][v] = Started(u, v)]
      /\ drawn' = [drawn EXCEPT ![u] = drawn[u] + 1]
    BY StartedSession
<1>2. PICK m : /\ m.type = "P1" /\ m.from = u /\ m.to = v
               /\ m.n1 = drawn[u] + 1
               /\ msgs' = msgs \cup {m}
    BY StartedSession
<1>3. /\ Started(u, v).local = drawn[u] + 1
      /\ ~Started(u, v).established /\ Started(u, v).initiator
    BY DEF Started
<1>4. Replaces(u, v, Started(u, v))
    BY <1>1, ReplacesIs
<1>5. CallStep(u, v, Started(u, v), m)
    BY <1>1, <1>2, <1>3, <1>4 DEF CallStep, Renews
<1> QED
    BY <1>5

LEMMA AnswerIs ==
    ASSUME TypeOK, NEW m \in msgs, NEW intact \in BOOLEAN, HandleP1(m, intact)
    PROVE  RestStep \/ \E s, r : AnswerStep(m, s, r)
<1>1. m \in MessageP1 /\ m.type = "P1" /\ m.from \in Uav /\ m.to \in Uav
    BY MessageFields DEF TypeOK, HandleP1, MessageP1
<1>2. CASE UNCHANGED <<peers, drawn, msgs>>
    BY <1>2 DEF RestStep, Keeps
<1>3. CASE AuthenticP1(m, intact) /\ AcceptP1(m)
    <2>1. /\ Answered(m) \in Session
          /\ peers' = [peers EXCEPT ![m.to][m.from] = Answered(m)]
          /\ drawn' = [drawn EXCEPT ![m.to] = drawn[m.to] + 1]
        BY <1>1, <1>3, AnsweredSession
    <2>2. PICK r : /\ r.type = "P2" /\ r.from = m.to /\ r.to = m.from
                   /\ r.n1 = m.n1 /\ r.n2 = drawn[m.to] + 1
                   /\ msgs' = msgs \cup {r}
        BY <1>1, <1>3, AnsweredSession
    <2>3. /\ Answered(m).local = drawn[m.to] + 1
          /\ ~Answered(m).established
          /\ Answered(m).p2.from = m.from /\ Answered(m).p2.to = m.to
          /\ Answered(m).p2.n2 = Answered(m).local
        BY DEF Answered
    <2>4. Replaces(m.to, m.from, Answered(m))
        BY <1>1, <2>1, ReplacesIs
    <2>5. AnswerStep(m, Answered(m), r)
        BY <1>1, <2>1, <2>2, <2>3, <2>4 DEF AnswerStep, Renews
    <2> QED
        BY <2>5
<1> QED
    BY <1>2, <1>3 DEF HandleP1

LEMMA ConfirmIs ==
    ASSUME AgreementInv, NEW m \in msgs, NEW intact \in BOOLEAN, HandleP2(m, intact)
    PROVE  RestStep \/ \E s, r : ConfirmStep(m, s, r)
<1> DEFINE u == m.to
           v == m.from
           s == peers[u][v]
           p2 == [from |-> u, to |-> v, n1 |-> m.n1, n2 |-> m.n2]
           p3 == [type |-> "P3", from |-> u, to |-> v, p1 |-> s.p1,
                  p2 |-> p2, cred |-> s.cred]
           t == Completed(s, Looked(u, v), p2)
           w == [s EXCEPT !.p2 = p2]
<1>1. TypeOK /\ m \in MessageP2 /\ m.type = "P2"
    BY MessageFields DEF AgreementInv, TypeOK, HandleP2
<1>2. /\ u \in Uav /\ v \in Uav /\ s \in Session /\ p2 \in P2Encoded
      /\ s.initiator /\ s.local = m.n1 /\ s # None
      /\ \/ /\ s.ephemeral
            /\ peers' = [peers EXCEPT ![u][v] = t]
            /\ msgs' = msgs \cup {p3}
         \/ peers' = [peers EXCEPT ![u][v] = w] /\ msgs' = msgs
    BY <1>1, AcceptedP2, SessionNotNone DEF Send
<1>3. drawn' = drawn
    BY DEF HandleP2
<1>4. s.p1.n1 = s.local /\ (s.ephemeral => ~s.established)
    BY <1>2 DEF AgreementInv, SessionInv
<1>5. /\ t \in Session /\ t.initiator = s.initiator /\ t.local = s.local
      /\ t.established /\ t.sessionKey.p2 = p2
    <2>1. Looked(u, v) \in Credential
        BY <1>1, <1>2, LookUpType
    <2> HIDE DEF p2, s, u, v
    <2> QED
        BY <1>2, <2>1, CompletedSession
<1>6. /\ w \in Session /\ w.initiator = s.initiator /\ w.local = s.local
      /\ w.established = s.established /\ w.sessionKey = s.sessionKey
    BY <1>2 DEF Session
<1>7. p2 = ExchangeOfP2(m)
    BY DEF ExchangeOfP2
<1>8. /\ p3.type = "P3" /\ p3.from = u /\ p3.to = v
      /\ p3.p1 = s.p1 /\ p3.p2 = p2
    OBVIOUS
<1> HIDE DEF t, w, p2, p3, s
<1>9. CASE s.ephemeral /\ peers' = [peers EXCEPT ![u][v] = t]
           /\ msgs' = msgs \cup {p3}
    <2>1. Replaces(u, v, t)
        BY <1>1, <1>2, <1>5, <1>9, ReplacesIs
    <2>2. Completes(u, v, t, p2)
        BY <1>2, <1>3, <1>4, <1>5, <1>9, <2>1 DEF Completes, s
    <2>3. t.initiator /\ t.local = m.n1 /\ p3.p1.n1 = m.n1
        BY <1>2, <1>4, <1>5, <1>8
    <2>4. ConfirmStep(m, t, p3)
        BY <1>1, <1>2, <1>7, <1>8, <1>9, <2>2, <2>3 DEF ConfirmStep
    <2> QED
        BY <2>4
<1>10. CASE peers' = [peers EXCEPT ![u][v] = w] /\ msgs' = msgs
    <2>1. Replaces(u, v, w)
        BY <1>1, <1>2, <1>6, <1>10, ReplacesIs
    <2>2. /\ w # None /\ peers'[u][v] = w
          /\ \A a, b \in Uav : a # u \/ b # v => peers'[a][b] = peers[a][b]
        BY <2>1 DEF Replaces
    <2>3. Keeps(s, w)
        BY <1>2, <1>6, <2>2 DEF Keeps
    <2>4. \A a, b \in Uav : Keeps(peers[a][b], peers'[a][b])
        <3>1. ASSUME NEW a \in Uav, NEW b \in Uav, a # u \/ b # v
              PROVE  Keeps(peers[a][b], peers'[a][b])
            BY <2>2, <3>1 DEF Keeps
        <3>2. Keeps(peers[u][v], peers'[u][v])
            BY <2>2, <2>3 DEF s
        <3> QED
            BY <3>1, <3>2
    <2> QED
        BY <1>3, <1>10, <2>4 DEF RestStep
<1> QED
    BY <1>2, <1>9, <1>10

LEMMA AcceptIs ==
    ASSUME AgreementInv, NEW m \in msgs, NEW intact \in BOOLEAN, HandleP3(m, intact)
    PROVE  \E s : AcceptStep(m, s)
<1> DEFINE v == m.to
           u == m.from
           s == peers[v][u]
           t == Completed(s, Looked(v, u), s.p2)
<1>1. TypeOK /\ m \in MessageP3 /\ m.type = "P3"
    BY MessageFields DEF AgreementInv, TypeOK, HandleP3
<1>2. /\ u \in Uav /\ v \in Uav /\ s \in Session /\ s # None
      /\ ~s.initiator /\ s.ephemeral
      /\ s.p2 = m.p2 /\ s.p2 \in P2Encoded
      /\ peers' = [peers EXCEPT ![v][u] = t]
    BY <1>1, AcceptedP3, SessionNotNone
<1>3. drawn' = drawn /\ msgs' = msgs
    BY DEF HandleP3
<1>4. ~s.established
    BY <1>2 DEF AgreementInv, SessionInv
<1>5. /\ t \in Session /\ t.initiator = s.initiator /\ t.local = s.local
      /\ t.established /\ t.sessionKey.p2 = s.p2
    <2>1. Looked(v, u) \in Credential
        BY <1>1, <1>2, LookUpType
    <2> HIDE DEF s, u, v
    <2> QED
        BY <1>2, <2>1, CompletedSession
<1>6. t.p2 = s.p2
    BY <1>2 DEF Completed, Session
<1> HIDE DEF t, s
<1>7. Replaces(v, u, t)
    BY <1>1, <1>2, <1>5, ReplacesIs
<1>8. Completes(v, u, t, m.p2)
    BY <1>2, <1>3, <1>4, <1>5, <1>7 DEF Completes, s
<1>9. AcceptStep(m, t)
    BY <1>1, <1>2, <1>3, <1>5, <1>6, <1>8 DEF AcceptStep, s
<1> QED
    BY <1>9

LEMMA HandshakeSteps ==
    ASSUME AgreementInv, [Next]_vars
    PROVE  \/ RestStep
           \/ \E u, v \in Uav : \E s, m : CallStep(u, v, s, m)
           \/ \E m \in msgs : \E s, r : AnswerStep(m, s, r)
           \/ \E m \in msgs : \E s, r : ConfirmStep(m, s, r)
           \/ \E m \in msgs : \E s : AcceptStep(m, s)
<1>1. TypeOK
    BY DEF AgreementInv
<1>2. ASSUME UNCHANGED <<peers, drawn, msgs>>
      PROVE  RestStep
    BY <1>2 DEF RestStep, Keeps
<1>3. CASE \E u \in Uav : StartPhase2(u) \/ HandleM2(u) \/ HandleM4(u)
    BY <1>2, <1>3 DEF StartPhase2, HandleM2, HandleM4
<1>4. CASE \E u, v \in Uav : StartPhase3(u, v)
    BY <1>1, <1>4, CallIs
<1>5. CASE Tick \/ UNCHANGED vars
    BY <1>2, <1>5 DEF Tick, vars
<1> QED
    BY <1>1, <1>3, <1>4, <1>5, AnswerIs, ConfirmIs, AcceptIs DEF Next, Deliver

LEMMA HandshakeTypes ==
    ASSUME AgreementInv
    PROVE  /\ \A u, v \in Uav :
                  /\ drawn[u] \in Nat /\ Begun(u, v) \in Nat /\ Begun(u, v) <= drawn[u]
                  /\ Agreed(u, v) # None =>
                         peers[u][v] # None /\ peers[u][v].established
                  /\ peers[u][v] # None /\ peers[u][v].established =>
                         Agreed(u, v) # None
           /\ \A m \in msgs :
                  /\ m.type = "P1" => m.from \in Uav /\ m.to \in Uav /\ m.n1 \in Nat
                  /\ m.type = "P2" => m.from \in Uav /\ m.to \in Uav
                                   /\ m.n1 \in Nat /\ m.n2 \in Nat
                  /\ m.type = "P3" => m.from \in Uav /\ m.to \in Uav
                                   /\ m.p1.n1 \in Nat
<1>1. \A u, v \in Uav : peers[u][v] # None =>
          /\ peers[u][v].local \in Nat /\ peers[u][v].local <= drawn[u]
          /\ peers[u][v].established => peers[u][v].sessionKey \in Key
    BY DEF AgreementInv, TypeOK, SessionInv, Session
<1>2. \A k \in Key : k.p2 # None
    BY Phase3Assumption DEF Key
<1>3. \A u \in Uav : drawn[u] \in Nat
    BY DEF AgreementInv, TypeOK
<1>4. \A m \in msgs :
          /\ m.type = "P1" => m \in MessageP1
          /\ m.type = "P2" => m \in MessageP2
          /\ m.type = "P3" => m \in MessageP3
    BY MessageFields DEF AgreementInv, TypeOK
<1>5. \A m \in msgs :
          /\ m.type = "P1" => m.from \in Uav /\ m.to \in Uav /\ m.n1 \in Nat
          /\ m.type = "P2" => m.from \in Uav /\ m.to \in Uav
                           /\ m.n1 \in Nat /\ m.n2 \in Nat
          /\ m.type = "P3" => m.from \in Uav /\ m.to \in Uav /\ m.p1.n1 \in Nat
    BY <1>4 DEF MessageP1, MessageP2, MessageP3, P1Encoded
<1> QED
    BY <1>1, <1>2, <1>3, <1>5 DEF Begun, Agreed

\* What the steps do to Begun and Agreed.
LEMMA Renewed ==
    ASSUME AgreementInv, NEW u \in Uav, NEW v \in Uav, NEW s, Renews(u, v, s)
    PROVE  /\ Begun(u, v)' = s.local /\ s.local = drawn[u] + 1
           /\ Begun(u, v)' > Begun(u, v) /\ Agreed(u, v)' = None
           /\ \A a, b \in Uav : a # u \/ b # v =>
                  Begun(a, b)' = Begun(a, b) /\ Agreed(a, b)' = Agreed(a, b)
           /\ drawn'[u] = drawn[u] + 1
           /\ \A a \in Uav \ {u} : drawn'[a] = drawn[a]
<1>1. drawn[u] \in Nat /\ Begun(u, v) \in Nat /\ Begun(u, v) <= drawn[u]
    BY HandshakeTypes
<1>2. Begun(u, v)' = s.local /\ Agreed(u, v)' = None
    BY DEF Renews, Replaces, Begun, Agreed
<1>3. \A a, b \in Uav : a # u \/ b # v =>
          Begun(a, b)' = Begun(a, b) /\ Agreed(a, b)' = Agreed(a, b)
    BY DEF Renews, Replaces, Begun, Agreed
<1>4. drawn'[u] = drawn[u] + 1 /\ \A a \in Uav \ {u} : drawn'[a] = drawn[a]
    BY DEF Renews, AgreementInv, TypeOK
<1> QED
    BY <1>1, <1>2, <1>3, <1>4 DEF Renews

LEMMA CompletedNow ==
    ASSUME AgreementInv, NEW u \in Uav, NEW v \in Uav, NEW s, NEW x,
           Completes(u, v, s, x)
    PROVE  /\ Begun(u, v) = s.local
           /\ Agreed(u, v) = None /\ Agreed(u, v)' = x
           /\ \A a, b \in Uav : Begun(a, b)' = Begun(a, b)
           /\ \A a, b \in Uav : a # u \/ b # v => Agreed(a, b)' = Agreed(a, b)
BY DEF Completes, Replaces, Begun, Agreed

LEMMA RestKeeps ==
    ASSUME RestStep
    PROVE  \A u, v \in Uav : Begun(u, v)' = Begun(u, v) /\ Agreed(u, v)' = Agreed(u, v)
BY DEF RestStep, Keeps, Begun, Agreed

LEMMA HandshakeInvStep ==
    ASSUME AgreementInv, HandshakeInv, [Next]_vars
    PROVE  HandshakeInv'
<1> DEFINE Fits(m) ==
               /\ m.type = "P1" => m.n1 \in 1 .. Begun(m.from, m.to)
               /\ m.type = "P2" => m.n2 <= drawn[m.from]
               /\ m.type = "P3" => /\ m.p2.from = m.from /\ m.p2.to = m.to
                                   /\ m.p2.n1 = m.p1.n1
           Answers(u, v) == peers[v][u] # None /\ ~peers[v][u].initiator =>
               /\ peers[v][u].p2.from = u /\ peers[v][u].p2.to = v
               /\ peers[v][u].p2.n2 = peers[v][u].local
<1>1. (\A m \in msgs : Fits(m)) /\ (\A u, v \in Uav : Answers(u, v))
    BY DEF HandshakeInv
\* Nonces only grow, so that what a message says stays true.
<1>2. ASSUME \A u, v \in Uav : /\ Begun(u, v)' \in Nat /\ Begun(u, v)' >= Begun(u, v)
                               /\ drawn'[u] \in Nat /\ drawn'[u] >= drawn[u],
             NEW m \in msgs
      PROVE  Fits(m)'
    <2>1. Fits(m)
        BY <1>1
    <2>2. CASE m.type = "P1"
        <3>1. /\ m.from \in Uav /\ m.to \in Uav /\ m.n1 \in Nat
              /\ Begun(m.from, m.to) \in Nat
            BY <2>2, HandshakeTypes
        <3> QED
            BY <1>2, <2>1, <2>2, <3>1
    <2>3. CASE m.type = "P2"
        <3>1. m.from \in Uav /\ m.n2 \in Nat /\ drawn[m.from] \in Nat
            BY <2>3, HandshakeTypes
        <3> QED
            BY <1>2, <2>1, <2>3, <3>1
    <2> QED
        BY <2>1, <2>2, <2>3
<1>3. ASSUME NEW u \in Uav, NEW v \in Uav, NEW s, Renews(u, v, s)
      PROVE  /\ \A a, b \in Uav :
                    /\ Begun(a, b)' \in Nat /\ Begun(a, b)' >= Begun(a, b)
                    /\ drawn'[a] \in Nat /\ drawn'[a] >= drawn[a]
             /\ Begun(u, v)' = s.local /\ s.local \in Nat /\ s.local >= 1
             /\ drawn'[u] = s.local
             /\ \A a, b \in Uav : a # v \/ b # u => Answers(a, b)'
    <2>1. /\ \A a, b \in Uav : Begun(a, b) \in Nat /\ drawn[a] \in Nat
          /\ Begun(u, v) <= drawn[u]
        BY HandshakeTypes
    <2>2. \A a, b \in Uav : a # v \/ b # u => Answers(a, b)'
        BY <1>1, <1>3 DEF Renews, Replaces
    <2> HIDE DEF Answers
    <2> QED
        BY <1>3, <2>1, <2>2, Renewed
<1>4. ASSUME NEW u \in Uav, NEW v \in Uav, NEW s, NEW x, Completes(u, v, s, x)
      PROVE  /\ \A a, b \in Uav :
                    /\ Begun(a, b)' \in Nat /\ Begun(a, b)' >= Begun(a, b)
                    /\ drawn'[a] \in Nat /\ drawn'[a] >= drawn[a]
             /\ \A a, b \in Uav : a # v \/ b # u => Answers(a, b)'
    <2>1. \A a, b \in Uav : Begun(a, b) \in Nat /\ drawn[a] \in Nat
        BY HandshakeTypes
    <2>2. \A a, b \in Uav : a # v \/ b # u => Answers(a, b)'
        BY <1>1, <1>4 DEF Completes, Replaces
    <2>3. \A a, b \in Uav : Begun(a, b)' = Begun(a, b)
        BY <1>4, CompletedNow
    <2>4. drawn' = drawn
        BY <1>4 DEF Completes
    <2> HIDE DEF Answers
    <2> QED
        BY <2>1, <2>2, <2>3, <2>4
<1>5. ASSUME NEW u \in Uav, NEW v \in Uav, NEW s, NEW m, CallStep(u, v, s, m)
      PROVE  HandshakeInv'
    <2>1. Renews(u, v, s) /\ s.initiator /\ peers'[u][v] = s /\ msgs' = msgs \cup {m}
        BY <1>5 DEF CallStep, Renews, Replaces
    <2>2. Fits(m)'
        BY <1>3, <1>5, <2>1 DEF CallStep
    <2>3. Answers(v, u)'
        BY <2>1
    <2> HIDE DEF Answers, Fits
    <2>4. (\A x \in msgs' : Fits(x)') /\ (\A a, b \in Uav : Answers(a, b)')
        BY <1>2, <1>3, <2>1, <2>2, <2>3
    <2> QED
        BY <2>4 DEF HandshakeInv, Fits, Answers
<1>6. ASSUME NEW m \in msgs, NEW s, NEW r, AnswerStep(m, s, r)
      PROVE  HandshakeInv'
    <2>1. /\ Renews(m.to, m.from, s) /\ m.to \in Uav /\ m.from \in Uav
          /\ peers'[m.to][m.from] = s /\ msgs' = msgs \cup {r}
        BY <1>6 DEF AnswerStep, Renews, Replaces
    <2>2. Fits(r)'
        BY <1>3, <1>6, <2>1 DEF AnswerStep
    <2>3. Answers(m.from, m.to)'
        BY <1>6, <2>1 DEF AnswerStep
    <2> HIDE DEF Answers, Fits
    <2>4. (\A x \in msgs' : Fits(x)') /\ (\A a, b \in Uav : Answers(a, b)')
        BY <1>2, <1>3, <2>1, <2>2, <2>3
    <2> QED
        BY <2>4 DEF HandshakeInv, Fits, Answers
<1>7. ASSUME NEW m \in msgs, NEW s, NEW r, ConfirmStep(m, s, r)
      PROVE  HandshakeInv'
    <2>1. /\ Completes(m.to, m.from, s, ExchangeOfP2(m))
          /\ m.to \in Uav /\ m.from \in Uav
          /\ peers'[m.to][m.from] = s /\ s.initiator /\ msgs' = msgs \cup {r}
        BY <1>7 DEF ConfirmStep, Completes, Replaces
    <2>2. Fits(r)'
        BY <1>7 DEF ConfirmStep, ExchangeOfP2
    <2>3. Answers(m.from, m.to)'
        BY <2>1
    <2> HIDE DEF Answers, Fits
    <2>4. (\A x \in msgs' : Fits(x)') /\ (\A a, b \in Uav : Answers(a, b)')
        BY <1>2, <1>4, <2>1, <2>2, <2>3
    <2> QED
        BY <2>4 DEF HandshakeInv, Fits, Answers
<1>8. ASSUME NEW m \in msgs, NEW s, AcceptStep(m, s)
      PROVE  HandshakeInv'
    <2>1. /\ Completes(m.to, m.from, s, m.p2)
          /\ m.to \in Uav /\ m.from \in Uav /\ msgs' = msgs
        BY <1>8 DEF AcceptStep
    <2>2. Answers(m.from, m.to)
        BY <1>1, <2>1
    <2>3. Answers(m.from, m.to)'
        BY <1>8, <2>2 DEF AcceptStep, Completes, Replaces
    <2> HIDE DEF Answers, Fits
    <2>4. (\A x \in msgs' : Fits(x)') /\ (\A a, b \in Uav : Answers(a, b)')
        BY <1>2, <1>4, <2>1, <2>3
    <2> QED
        BY <2>4 DEF HandshakeInv, Fits, Answers
<1>9. CASE RestStep
    <2>1. drawn' = drawn /\ msgs' = msgs
        BY <1>9 DEF RestStep
    <2>2. \A a, b \in Uav : Answers(a, b)'
        BY <1>1, <1>9 DEF RestStep, Keeps
    <2>3. \A a, b \in Uav : /\ Begun(a, b)' \in Nat /\ Begun(a, b)' >= Begun(a, b)
                            /\ drawn'[a] \in Nat /\ drawn'[a] >= drawn[a]
        BY <1>9, <2>1, RestKeeps, HandshakeTypes
    <2> HIDE DEF Answers, Fits
    <2>4. \A x \in msgs' : Fits(x)'
        BY <1>2, <2>1, <2>3
    <2> QED
        BY <2>2, <2>4 DEF HandshakeInv, Fits, Answers
<1> QED
    BY <1>5, <1>6, <1>7, <1>8, <1>9, HandshakeSteps

Answers == {ExchangeOfP2(m) : m \in {x \in msgs : x.type = "P2"}}
Confirms == {m.p2 : m \in {x \in msgs : x.type = "P3"}}
Nonces == [u \in Uav |-> [v \in Uav |-> Begun(u, v)]]
Agreements == [u \in Uav |-> [v \in Uav |-> Agreed(u, v)]]

\* A step that completes one session adds one agreement.
LEMMA CompletesAgrees ==
    ASSUME AgreementInv, NEW u \in Uav, NEW v \in Uav, NEW s, NEW x,
           Completes(u, v, s, x)
    PROVE  /\ Nonces' = Nonces /\ Nonces[u][v] = s.local
           /\ Agreements[u][v] = None
           /\ Agreements' = [Agreements EXCEPT ![u][v] = x]
<1>1. /\ Begun(u, v) = s.local
      /\ Agreed(u, v) = None /\ Agreed(u, v)' = x
      /\ \A a, b \in Uav : Begun(a, b)' = Begun(a, b)
      /\ \A a, b \in Uav : a # u \/ b # v => Agreed(a, b)' = Agreed(a, b)
    BY CompletedNow
<1>2. Nonces' = Nonces /\ Nonces[u][v] = s.local
    BY <1>1 DEF Nonces
<1>3. Agreements[u][v] = None
    BY <1>1 DEF Agreements
<1>4. Agreements' = [Agreements EXCEPT ![u][v] = x]
    <2>1. \A a, b \in Uav : Agreed(a, b)' =
              IF a = u /\ b = v THEN x ELSE Agreed(a, b)
        BY <1>1
    <2>2. Agreements' = [a \in Uav |-> [b \in Uav |->
              IF a = u /\ b = v THEN x ELSE Agreed(a, b)]]
        BY <2>1 DEF Agreements
    <2> QED
        BY <2>2 DEF Agreements
<1> QED
    BY <1>2, <1>3, <1>4

\* A step that renews one session begins a handshake.
LEMMA RenewsBegins ==
    ASSUME AgreementInv, NEW u \in Uav, NEW v \in Uav, NEW s, Renews(u, v, s)
    PROVE  Handshake!Begin(u, v)
<1>1. /\ Begun(u, v)' > Begun(u, v) /\ Agreed(u, v)' = None
      /\ \A a, b \in Uav : a # u \/ b # v =>
             Begun(a, b)' = Begun(a, b) /\ Agreed(a, b)' = Agreed(a, b)
    BY Renewed
<1> QED
    BY <1>1 DEF Handshake!Begin

LEMMA HandshakeRefines ==
    ASSUME AgreementInv, HandshakeInv, [Next]_vars
    PROVE  [Handshake!Next]_(Handshake!vars)
<1>1. ASSUME NEW u \in Uav, NEW v \in Uav, NEW s, NEW m, CallStep(u, v, s, m)
      PROVE  Handshake!Call(u, v)
    <2>1. Renews(u, v, s) /\ m.type = "P1" /\ msgs' = msgs \cup {m}
        BY <1>1 DEF CallStep
    <2>2. Answers' = Answers /\ Confirms' = Confirms
        BY <2>1 DEF Answers, Confirms
    <2> QED
        BY <2>1, <2>2, RenewsBegins DEF Handshake!Call, Answers, Confirms
<1>2. ASSUME NEW m \in msgs, NEW s, NEW r, AnswerStep(m, s, r)
      PROVE  Handshake!Answer(m.to, m.from)
    <2> DEFINE v == m.to
               u == m.from
               x == ExchangeOfP2(r)
    <2>1. /\ u \in Uav /\ v \in Uav /\ Renews(v, u, s)
          /\ m.type = "P1" /\ r.type = "P2" /\ msgs' = msgs \cup {r}
        BY <1>2 DEF AnswerStep
    <2>2. x.from = u /\ x.to = v /\ x.n1 = m.n1 /\ x.n2 = s.local
        BY <1>2 DEF AnswerStep, ExchangeOfP2
    <2>3. m.n1 \in 1 .. Begun(u, v)
        BY <2>1 DEF HandshakeInv
    <2>4. Begun(v, u)' = s.local /\ s.local = drawn[v] + 1 /\ drawn[v] \in Nat
        BY <2>1, Renewed, HandshakeTypes
    \* v has drawn another nonce for every other answer
    <2>5. ASSUME NEW y \in Answers, y.to = v
          PROVE  y.n2 # x.n2
        <3>1. PICK p \in msgs : p.type = "P2" /\ y = ExchangeOfP2(p)
            BY DEF Answers
        <3>2. y.n2 = p.n2 /\ p.from = v
            BY <2>5, <3>1 DEF ExchangeOfP2
        <3>3. p.n2 \in Nat /\ p.n2 <= drawn[v]
            BY <3>1, <3>2, HandshakeTypes DEF HandshakeInv
        <3> QED
            BY <2>2, <2>4, <3>2, <3>3
    <2>6. Answers' = Answers \cup {x} /\ Confirms' = Confirms
        BY <2>1 DEF Answers, Confirms
    <2>7. Handshake!Begin(v, u)
        BY <2>1, RenewsBegins
    <2> HIDE DEF u, v, x
    <2>8. x \in Answers' \ Answers
        BY <2>2, <2>5, <2>6
    <2>9. Handshake!Answer(v, u)
        <3>1. [a \in Uav |-> [b \in Uav |-> Begun(a, b)]]'[v][u] = x.n2
            BY <2>1, <2>2, <2>4
        <3>2. [a \in Uav |-> [b \in Uav |-> Begun(a, b)]][u][v] = Begun(u, v)
            BY <2>1
        <3> QED
            BY <2>2, <2>3, <2>5, <2>6, <2>7, <2>8, <3>1, <3>2
            DEF Handshake!Answer, Answers, Confirms
    <2> QED
        BY <2>9 DEF u, v
<1>3. ASSUME NEW m \in msgs, NEW s, NEW r, ConfirmStep(m, s, r)
      PROVE  Handshake!Confirm(m.to, m.from)
    <2> DEFINE u == m.to
               v == m.from
               x == ExchangeOfP2(m)
    <2>1. /\ u \in Uav /\ v \in Uav /\ Completes(u, v, s, x) /\ s.local = m.n1
          /\ m.type = "P2" /\ r.type = "P3" /\ r.p2 = x /\ msgs' = msgs \cup {r}
        BY <1>3 DEF ConfirmStep
    <2>2. x.from = u /\ x.to = v /\ x.n1 = m.n1
        BY DEF ExchangeOfP2
    <2>3. /\ Nonces' = Nonces /\ Nonces[u][v] = m.n1
          /\ Agreements[u][v] = None
          /\ Agreements' = [Agreements EXCEPT ![u][v] = x]
        BY <2>1, CompletesAgrees
    <2>4. x \in Answers
        BY <2>1 DEF Answers
    \* a P3 of this call would have completed the session
    <2>5. ASSUME NEW y \in Confirms, y.from = u, y.to = v
          PROVE  y.n1 # x.n1
        <3>1. PICK p \in msgs : p.type = "P3" /\ y = p.p2
            BY DEF Confirms
        <3>2. p.from = u /\ p.to = v /\ p.p1.n1 = y.n1
            BY <2>5, <3>1 DEF HandshakeInv
        <3>3. p.p1.n1 = peers[u][v].local => peers[u][v].established
            BY <3>1, <3>2 DEF AgreementInv, ConfirmInv
        <3>4. ~peers[u][v].established /\ peers[u][v].local = m.n1
            BY <2>1 DEF Completes
        <3> QED
            BY <2>2, <3>2, <3>3, <3>4
    <2>6. Answers' = Answers /\ Confirms' = Confirms \cup {x}
        BY <2>1 DEF Answers, Confirms
    <2> HIDE DEF u, v, x
    <2>7. \A y \in Confirms : y.from = u /\ y.to = v => y.n1 # x.n1
        BY <2>5
    <2>8. x.n1 = Nonces[u][v]
        BY <2>2, <2>3
    <2>9. Handshake!Confirm(u, v)
        BY <2>2, <2>3, <2>4, <2>6, <2>7, <2>8
        DEF Handshake!Confirm, Answers, Confirms, Nonces, Agreements
    <2> QED
        BY <2>9 DEF u, v
<1>4. ASSUME NEW m \in msgs, NEW s, AcceptStep(m, s)
      PROVE  Handshake!Accept(m.to, m.from)
    <2> DEFINE v == m.to
               u == m.from
               x == m.p2
    <2>1. /\ u \in Uav /\ v \in Uav /\ Completes(v, u, s, x) /\ msgs' = msgs
          /\ m.type = "P3" /\ peers[v][u].p2 = x /\ ~s.initiator
        BY <1>4 DEF AcceptStep
    <2>2. x \in Confirms
        BY <2>1 DEF Confirms
    <2>3. /\ Nonces' = Nonces /\ Nonces[v][u] = s.local
          /\ Agreements[v][u] = None
          /\ Agreements' = [Agreements EXCEPT ![v][u] = x]
        BY <2>1, CompletesAgrees
    <2>4. peers[v][u] # None /\ ~peers[v][u].initiator /\ peers[v][u].local = s.local
        BY <2>1 DEF Completes
    <2>5. x.from = u /\ x.to = v /\ x.n2 = s.local
        BY <2>1, <2>4 DEF HandshakeInv
    <2>6. Answers' = Answers /\ Confirms' = Confirms
        BY <2>1 DEF Answers, Confirms
    <2> HIDE DEF u, v, x
    <2>7. Handshake!Accept(v, u)
        BY <2>1, <2>2, <2>3, <2>5, <2>6
        DEF Handshake!Accept, Answers, Confirms, Nonces, Agreements
    <2> QED
        BY <2>7 DEF u, v
<1>5. CASE RestStep
    <2>1. msgs' = msgs
        BY <1>5 DEF RestStep
    <2>2. \A u, v \in Uav : Begun(u, v)' = Begun(u, v) /\ Agreed(u, v)' = Agreed(u, v)
        BY <1>5, RestKeeps
    <2> QED
        BY <2>1, <2>2 DEF Handshake!vars
<1>6. \A m \in msgs : m.type \in {"P1", "P2", "P3"} => m.from \in Uav /\ m.to \in Uav
    BY HandshakeTypes
<1>7. ASSUME NEW m \in msgs, NEW s, NEW r,
             AnswerStep(m, s, r) \/ ConfirmStep(m, s, r) \/ AcceptStep(m, s)
      PROVE  \E u, v \in Uav : \/ Handshake!Answer(u, v) \/ Handshake!Confirm(u, v)
                               \/ Handshake!Accept(u, v)
    BY <1>2, <1>3, <1>4, <1>6, <1>7 DEF AnswerStep, ConfirmStep, AcceptStep
<1> QED
    BY <1>1, <1>5, <1>7, HandshakeSteps DEF Handshake!Next

LEMMA InitHandshake == Init => HandshakeInv /\ Handshake!Init
BY DEF Init, HandshakeInv, Begun, Agreed, Handshake!Init

\* Phase 3 is the handshake that PeerHandshake describes, whoever drives it,
\* however little the replay caches remember and whenever either side starts
\* Phase 2 again: handleP2 completes one exchange for a P1, handleP3 only the
\* one its initiator completed, and neither completes it twice.
THEOREM HandshakeRefined == Spec => RefinesPeerHandshake
<1>1. Init => HandshakeInv /\ Handshake!Init
    BY InitHandshake
<1>2. AgreementInv /\ HandshakeInv /\ [Next]_vars => HandshakeInv'
    BY HandshakeInvStep
<1>3. AgreementInv /\ HandshakeInv /\ [Next]_vars
          => [Handshake!Next]_(Handshake!vars)
    BY HandshakeRefines
<1> QED
    BY <1>1, <1>2, <1>3, Agreement, PTL
    DEF Spec, RefinesPeerHandshake, Handshake!Spec
=============================================================================
