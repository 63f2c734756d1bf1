------------------------------- MODULE Phase3 -------------------------------
(***************************************************************************)
(* Phase 3 of the protocol (src/src/protocol/Protocol.cc): the handshake   *)
(* P1..P3 in which two UAVs authenticate each other with the credential    *)
(* that the ground station gave both, and agree on a session key.          *)
(*                                                                         *)
(* Phase 2 is reduced to what Phase 3 sees of it: startPhase2 takes the    *)
(* credentials away, handleM2 spends a nonce of the replay cache both      *)
(* phases share, and handleM4 delivers the credentials.                    *)
(*                                                                         *)
(* Data is symbolic, as in Phase2: a nonce is its drawer's count of draws, *)
(* the ephemeral share drawn with a nonce is named by it, and a MAC is     *)
(* what it covers and the credential it is keyed by.  The credential of a  *)
(* pair never changes (pairCredential); "empty" is the empty Bytes that    *)
(* std::map::operator[] puts where an entry is missing.                    *)
(*                                                                         *)
(* The network is the set of messages ever sent, as in Phase2.             *)
(***************************************************************************)
EXTENDS Naturals, Sequences, Freshness

CONSTANTS
    Uav,            \* the devices, all of them enrolled
    Gs,             \* the ground station, who draws the nonces of the M2s
    None,           \* no session, no encoding, no key
    Drives,         \* Drives[u]: the peers that u starts handshakes with
    MaxRequests,    \* MaxRequests[u]: bound on u's calls of startPhase2
    MaxDraws,       \* MaxDraws[u]: bound on the nonces that u draws
    MaxTime,        \* bound on the clock
    Window,         \* timestampWindowMs
    Capacity        \* capacity of each replay cache

Nonce == (Uav \cup {Gs}) \X Nat

\* What the MACs of P1 and of P2 cover, names in the order initiator,
\* responder: Phase3Session::p1Encoded and p2Encoded.
P1Encoded == [from : Uav, to : Uav, n1 : Nat, t : Nat]
P2Encoded == [from : Uav, to : Uav, n1 : Nat, n2 : Nat]

Credential == {"pair", "empty"}

\* KDF(cred || DH(n1, n2), p1Encoded || p2Encoded)
Key == [cred : Credential, p1 : P1Encoded, p2 : P2Encoded]

ASSUME Phase3Assumption ==
    /\ Gs \notin Uav
    /\ None \notin P2Encoded
    /\ None \notin Key
    /\ None \notin [initiator : BOOLEAN, cred : Credential, local : Nat,
                    p1 : P1Encoded, p2 : P2Encoded \cup {None},
                    ephemeral : BOOLEAN, sessionKey : Key \cup {None},
                    established : BOOLEAN]
    /\ Drives \in [Uav -> SUBSET Uav]
    /\ \A u \in Uav : u \notin Drives[u]
    /\ MaxRequests \in [Uav -> Nat]
    /\ MaxDraws \in [Uav -> Nat]
    /\ MaxTime \in Nat
    /\ Window \in Nat
    /\ Capacity \in Nat

VARIABLES
    now,        \* the clock every node reads
    phase2,     \* phase2[u]: how far u's current run of Phase 2 is
    requests,   \* requests[u]: how many it has started
    creds,      \* creds[u][v]: u's peerCredentials entry for v, or "none"
    seen,       \* seen[u]: u's replay cache
    peers,      \* peers[u][v]: u's Phase3Session with v, or None
    drawn,      \* drawn[u]: how many nonces u has drawn
    msgs        \* every message sent so far

phase2Vars == <<phase2, requests>>
vars == <<now, phase2, requests, creds, seen, peers, drawn, msgs>>
-----------------------------------------------------------------------------
MessageP1 ==
    [type : {"P1"}, from : Uav, to : Uav, n1 : Nat, t : Nat, cred : Credential]
MessageP2 ==
    [type : {"P2"}, from : Uav, to : Uav, n1 : Nat, n2 : Nat, cred : Credential]
MessageP3 ==
    [type : {"P3"}, from : Uav, to : Uav, p1 : P1Encoded, p2 : P2Encoded,
     cred : Credential]
Message == MessageP1 \cup MessageP2 \cup MessageP3

Session ==
    [initiator : BOOLEAN, cred : Credential, local : Nat,
     p1 : P1Encoded, p2 : P2Encoded \cup {None},
     ephemeral : BOOLEAN, sessionKey : Key \cup {None}, established : BOOLEAN]

TypeOK ==
    /\ now \in Nat
    /\ phase2 \in [Uav -> {"none", "requested", "confirmed", "established"}]
    /\ requests \in [Uav -> Nat]
    /\ creds \in [Uav -> [Uav -> Credential \cup {"none"}]]
    /\ seen \in [Uav -> Seq(Nonce)]
    /\ peers \in [Uav -> [Uav -> Session \cup {None}]]
    /\ drawn \in [Uav -> Nat]
    /\ msgs \subseteq Message

Init ==
    /\ now = 0
    /\ phase2 = [u \in Uav |-> "none"]
    /\ requests = [u \in Uav |-> 0]
    /\ creds = [u \in Uav |-> [v \in Uav |-> "none"]]
    /\ seen = [u \in Uav |-> <<>>]
    /\ peers = [u \in Uav |-> [v \in Uav |-> None]]
    /\ drawn = [u \in Uav |-> 0]
    /\ msgs = {}
-----------------------------------------------------------------------------
(* Helpers *)

Send(m) == msgs' = msgs \cup {m}

\* The next nonce of u, with the ephemeral share generated beside it.
Draw(u) == drawn[u] < MaxDraws[u] /\ drawn' = [drawn EXCEPT ![u] = @ + 1]

\* ReplayCache::offer
MutantOfferAlways(u, nonce) ==
    seen' = [seen EXCEPT ![u] = Remember(@, nonce, Capacity)]
Offer(u, nonce) ==
    /\ ~Remembers(seen[u], nonce)
    /\ seen' = [seen EXCEPT ![u] = Remember(@, nonce, Capacity)]

\* x25519Derive fails once the secret has been erased.
MutantDeriveAlways(ephemeral) == TRUE
CanDerive(ephemeral) == ephemeral

\* A mutant of PeerKey: the transcript is read before p2Encoded is stored.
MutantPeerKey(cred, s, p2) == [cred |-> cred, p1 |-> s.p1, p2 |-> s.p2]
PeerKey(cred, s, p2) == [cred |-> cred, p1 |-> s.p1, p2 |-> p2]

\* peerCredentials[v]: reading a missing entry creates an empty one.
MutantLooked(u, v) == creds[u][v]
Looked(u, v) == IF creds[u][v] = "none" THEN "empty" ELSE creds[u][v]
LookUp(u, v) == creds' = [creds EXCEPT ![u][v] = Looked(u, v)]
-----------------------------------------------------------------------------
(* Phase 2, as far as Phase 3 can tell *)

\* phase2_ = Phase2UavSession{} also empties the credentials; peers_ stays.
StartPhase2(u) ==
    /\ requests[u] < MaxRequests[u]
    /\ requests' = [requests EXCEPT ![u] = @ + 1]
    /\ phase2' = [phase2 EXCEPT ![u] = "requested"]
    /\ creds' = [creds EXCEPT ![u] = [v \in Uav |-> "none"]]
    /\ UNCHANGED <<now, seen, peers, drawn, msgs>>

HandleM2(u) ==
    /\ phase2[u] = "requested"
    /\ Offer(u, <<Gs, requests[u]>>)
    /\ phase2' = [phase2 EXCEPT ![u] = "confirmed"]
    /\ UNCHANGED <<now, requests, creds, peers, drawn, msgs>>

\* The M4 that is opened is one of the present request: its box opens under
\* the key of the session.
OpensM4(u) == phase2[u] \in {"confirmed", "established"}

\* A repeated M4 opens again and replaces the credentials again.
HandleM4(u) ==
    /\ OpensM4(u)
    /\ creds' = [creds EXCEPT ![u] =
           [v \in Uav |-> IF v = u THEN "none" ELSE "pair"]]
    /\ phase2' = [phase2 EXCEPT ![u] = "established"]
    /\ UNCHANGED <<now, requests, seen, peers, drawn, msgs>>
-----------------------------------------------------------------------------
(* Phase 3, in the order of the messages *)

\* UavProtocol::startPhase3: any session with v is replaced.
StartPhase3(u, v) ==
    LET n1 == drawn[u] + 1
    IN  /\ v \in Drives[u]
        /\ creds[u][v] # "none"
        /\ Draw(u)
        /\ peers' = [peers EXCEPT ![u][v] =
               [initiator |-> TRUE, cred |-> creds[u][v], local |-> n1,
                p1 |-> [from |-> u, to |-> v, n1 |-> n1, t |-> now],
                p2 |-> None, ephemeral |-> TRUE, sessionKey |-> None,
                established |-> FALSE]]
        /\ Send([type |-> "P1", from |-> u, to |-> v, n1 |-> n1, t |-> now,
                 cred |-> creds[u][v]])
        /\ UNCHANGED <<now, phase2Vars, creds, seen>>

AuthenticP1(m, intact) ==
    /\ intact
    /\ creds[m.to][m.from] # "none"
    /\ m.cred = creds[m.to][m.from]

\* Any session with the initiator is replaced, and P2 answers.
AcceptP1(m) ==
    LET v == m.to
        n2 == drawn[v] + 1
        p2 == [from |-> m.from, to |-> v, n1 |-> m.n1, n2 |-> n2]
    IN  /\ Draw(v)
        /\ peers' = [peers EXCEPT ![v][m.from] =
               [initiator |-> FALSE, cred |-> creds[v][m.from], local |-> n2,
                p1 |-> [from |-> m.from, to |-> v, n1 |-> m.n1, t |-> m.t],
                p2 |-> p2, ephemeral |-> TRUE, sessionKey |-> None,
                established |-> FALSE]]
        /\ Send([type |-> "P2", from |-> v, to |-> m.from, n1 |-> m.n1,
                 n2 |-> n2, cred |-> creds[v][m.from]])

\* UavProtocol::handleP1.  The nonce is spent before the credential is looked
\* up, so a P1 that comes before the credentials do is refused for good.
HandleP1(m, intact) ==
    /\ m.type = "P1"
    /\ TimestampFresh(now, m.t, Window)
    /\ Offer(m.to, <<m.from, m.n1>>)
    /\ \/ AuthenticP1(m, intact) /\ AcceptP1(m)
       \/ ~AuthenticP1(m, intact) /\ UNCHANGED <<peers, drawn, msgs>>
    /\ UNCHANGED <<now, phase2Vars, creds>>

AuthenticP2(m, intact) ==
    /\ intact
    /\ peers[m.to][m.from] # None
    /\ peers[m.to][m.from].initiator
    /\ m.cred = peers[m.to][m.from].cred
    /\ m.n1 = peers[m.to][m.from].local

\* UavProtocol::handleP2.  The remote nonce and share written before the MAC
\* is checked are read by no one else, so they are the message's.  p2Encoded
\* is replaced even when the key can no longer be derived.
HandleP2(m, intact) ==
    LET u == m.to
        v == m.from
        s == peers[u][v]
        p2 == [from |-> u, to |-> v, n1 |-> m.n1, n2 |-> m.n2]
    IN  /\ m.type = "P2"
        /\ AuthenticP2(m, intact)
        /\ \/ /\ CanDerive(s.ephemeral)
              /\ LookUp(u, v)
              /\ peers' = [peers EXCEPT ![u][v] =
                     [s EXCEPT !.p2 = p2,
                               !.ephemeral = FALSE,
                               !.sessionKey = PeerKey(Looked(u, v), s, p2),
                               !.established = TRUE]]
              /\ Send([type |-> "P3", from |-> u, to |-> v, p1 |-> s.p1,
                       p2 |-> p2, cred |-> s.cred])
           \/ /\ ~CanDerive(s.ephemeral)              \* DhFailed
              /\ peers' = [peers EXCEPT ![u][v].p2 = p2]
              /\ UNCHANGED <<creds, msgs>>
        /\ UNCHANGED <<now, phase2Vars, seen, drawn>>

\* A mutant of AuthenticP3: the transcript is not covered.
MutantAnyTranscriptOfP3(m, intact) ==
    /\ intact
    /\ peers[m.to][m.from] # None
    /\ ~peers[m.to][m.from].initiator
    /\ m.cred = peers[m.to][m.from].cred

AuthenticP3(m, intact) ==
    /\ intact
    /\ peers[m.to][m.from] # None
    /\ ~peers[m.to][m.from].initiator
    /\ m.cred = peers[m.to][m.from].cred
    /\ m.p1 = peers[m.to][m.from].p1
    /\ m.p2 = peers[m.to][m.from].p2

\* UavProtocol::handleP3.  A repeated P3 finds the secret erased and changes
\* nothing.
HandleP3(m, intact) ==
    LET v == m.to
        u == m.from
        s == peers[v][u]
    IN  /\ m.type = "P3"
        /\ AuthenticP3(m, intact)
        /\ CanDerive(s.ephemeral)
        /\ LookUp(v, u)
        /\ peers' = [peers EXCEPT ![v][u] =
               [s EXCEPT !.ephemeral = FALSE,
                         !.sessionKey = PeerKey(Looked(v, u), s, s.p2),
                         !.established = TRUE]]
        /\ UNCHANGED <<now, phase2Vars, seen, drawn, msgs>>
-----------------------------------------------------------------------------
Tick ==
    /\ now < MaxTime
    /\ now' = now + 1
    /\ UNCHANGED <<phase2Vars, creds, seen, peers, drawn, msgs>>

Deliver == \E m \in msgs, intact \in BOOLEAN :
    \/ HandleP1(m, intact)
    \/ HandleP2(m, intact)
    \/ HandleP3(m, intact)

Next ==
    \/ \E u \in Uav : StartPhase2(u) \/ HandleM2(u) \/ HandleM4(u)
    \/ \E u, v \in Uav : StartPhase3(u, v)
    \/ Deliver
    \/ Tick

Spec == Init /\ [][Next]_vars
-----------------------------------------------------------------------------
(* Safety *)

\* When a responder takes the handshake for complete (handleP3), its
\* initiator has completed the very same exchange, unless it has begun
\* another one with that peer since.
ResponderKeyHeldByInitiator ==
    \A u, v \in Uav :
        LET s == peers[v][u]
            i == peers[u][v]
        IN  s # None /\ ~s.initiator /\ s.established =>
                /\ i # None
                /\ \/ i.local > s.p1.n1
                   \/ /\ i.established
                      /\ i.sessionKey.p1 = s.sessionKey.p1
                      /\ i.sessionKey.p2 = s.sessionKey.p2

\* Keys of one exchange differ only when a peer derived its own from another
\* credential than the one it authenticated with (handleP2 and handleP3 look
\* the credential up again): it had restarted Phase 2 in between.
KeysDifferOnlyByLookUp ==
    \A u, v \in Uav :
        LET i == peers[u][v]
            s == peers[v][u]
        IN  /\ i # None /\ i.initiator /\ i.established
            /\ s # None /\ ~s.initiator /\ s.established
            /\ i.sessionKey # s.sessionKey
            => \/ i.local # s.p1.n1
               \/ i.sessionKey.cred # i.cred
               \/ s.sessionKey.cred # s.cred

\* A P1 is answered at most once, however often it arrives (the replay cache
\* of handleP1).
OneAnswerPerP1 ==
    \A m1, m2 \in msgs :
        /\ m1.type = "P2" /\ m2.type = "P2"
        /\ <<m1.from, m1.to, m1.n1>> = <<m2.from, m2.to, m2.n1>>
        => m1 = m2

\* tests/test_protocol_offline.cc:379-380: "A UAV that has not completed
\* Phase 2 holds no credentials and cannot start a peer handshake."
NoCredentialsBeforePhase2 ==
    \A u \in Uav : phase2[u] # "established" =>
        \A v \in Uav : creds[u][v] = "none"

\* A peer key once agreed never changes while the session lasts, whatever P2
\* or P3 arrives again (handleP2, handleP3): only a new nonce makes a new key.
PeerKeyNeverRederived ==
    [][\A u, v \in Uav :
         LET s == peers[u][v]
         IN  s # None /\ s.established =>
                 \/ peers'[u][v].sessionKey = s.sessionKey
                 \/ peers'[u][v].local > s.local]_vars

\* A repeated or late P1 never takes an agreed key away from the responder
\* (handleP1 replaces the whole session): only one it has not answered does.
KeyDroppedOnlyByNewP1 ==
    [][\A u, v \in Uav :
         LET s == peers[v][u]
         IN  /\ s # None /\ ~s.initiator /\ s.established
             /\ ~peers'[v][u].established
             => ~\E m \in msgs : /\ m.type = "P2"
                                 /\ m.from = v
                                 /\ m.to = u
                                 /\ m.n1 = peers'[v][u].p1.n1]_vars
-----------------------------------------------------------------------------
(* Refinement *)

Credentials == INSTANCE PeerCredentials WITH
    enrolled <- Uav,
    requests <- requests,
    phase <- phase2,
    granted <- [u \in Uav |-> {v \in Uav : creds[u][v] = "pair"}]

\* The look-ups of handleP2 and handleP3 add no credential that Phase 2 did
\* not grant and take none away, whenever startPhase2 and M4 fall between them.
RefinesPeerCredentials == Credentials!Spec

\* u's nonce in its session with v, and the exchange its key there is of.
Begun(u, v) == IF peers[u][v] = None THEN 0 ELSE peers[u][v].local
Agreed(u, v) ==
    IF peers[u][v] = None \/ ~peers[u][v].established THEN None
    ELSE peers[u][v].sessionKey.p2

ExchangeOfP2(m) == [from |-> m.to, to |-> m.from, n1 |-> m.n1, n2 |-> m.n2]

Handshake == INSTANCE PeerHandshake WITH
    begun <- [u \in Uav |-> [v \in Uav |-> Begun(u, v)]],
    completed <- [u \in Uav |-> [v \in Uav |-> Agreed(u, v)]],
    answered <- {ExchangeOfP2(m) : m \in {x \in msgs : x.type = "P2"}},
    confirmed <- {m.p2 : m \in {x \in msgs : x.type = "P3"}}

\* The three messages make of two sessions one exchange, once, whatever is
\* late, repeated, damaged or forgotten by a replay cache.
RefinesPeerHandshake == Handshake!Spec
=============================================================================
