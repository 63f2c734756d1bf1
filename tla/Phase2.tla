------------------------------- MODULE Phase2 -------------------------------
(***************************************************************************)
(* Phase 1 and Phase 2 of the protocol (src/src/protocol/Protocol.cc):     *)
(* enrolment, and the four-message handshake M1..M4 in which a UAV and the *)
(* ground station authenticate each other, agree on a session key, and the *)
(* ground station hands out peer credentials and a rotated identity.       *)
(*                                                                         *)
(* Data is symbolic.  A master key is the number of the enrolment that     *)
(* produced it; nonces are counters, n1 drawn by the device and n2 by the  *)
(* ground station for that device; the ephemeral share drawn in the same   *)
(* step as a nonce is named by it.  A MAC or an AEAD box is the list of    *)
(* what it covers: it verifies when the verifier rebuilds the same list    *)
(* and the message arrived intact.                                         *)
(*                                                                         *)
(* The network is the set of messages ever sent.  A handler may take any   *)
(* of them, any number of times, in any order, or never; it may also take  *)
(* a damaged copy (AttackerNode::forwardTampered, a corrupted datagram),   *)
(* whose authenticator does not verify.                                    *)
(***************************************************************************)
EXTENDS Naturals, Sequences, Freshness

CONSTANTS
    Uav,            \* the devices
    None,           \* an empty Bytes: no key, no identity
    MaxEnrol,       \* MaxEnrol[u]: bound on the enrolments of u
    MaxAttempts,    \* MaxAttempts[u]: bound on u's calls of startPhase2
    MaxSessions,    \* MaxSessions[u]: bound on the sessions opened for u
    MaxTranscript,  \* bound on the inputs in a device's transcript
    MaxTime,        \* bound on the clock
    Window,         \* timestampWindowMs
    Capacity        \* capacity of each replay cache

\* KDF(mk, tid, n1 || n2): the identity of one enrolment and, once rotated,
\* of one session (0, 0 for the identity fixed at enrolment).
Tid == [uav : Uav, mk : Nat, n1 : Nat, n2 : Nat]

\* One MAC input: [tid, n1, t1] of M1 (n2 = 0) or [tid, n1, n2, t2] of M2.
Input == [tid : Tid, n1 : Nat, n2 : Nat, t : Nat]

\* KDF(mk || DH(n1, n2), transcript)
Key == [uav : Uav, mk : Nat, n1 : Nat, n2 : Nat, transcript : Seq(Input)]

ASSUME Phase2Assumption ==
    /\ None \notin Tid
    /\ None \notin Key
    /\ MaxEnrol \in [Uav -> Nat]
    /\ MaxAttempts \in [Uav -> Nat]
    /\ MaxSessions \in [Uav -> Nat]
    /\ MaxTranscript \in Nat
    /\ MaxTime \in Nat
    /\ Window \in Nat
    /\ Capacity \in Nat

VARIABLES
    now,        \* the clock every node reads
    dev,        \* dev[u]: the ground station's DeviceRecord (mk = 0: none)
    gsSession,  \* gsSession[u]: its Phase2GsSession (n2 = 0: none)
    gsSeen,     \* its replay cache
    st,         \* st[u]: the DeviceState u was provisioned with (mk = 0: none)
    ses,        \* ses[u]: u's Phase2UavSession (n1 = 0: authKey is empty)
    uavSeen,    \* uavSeen[u]: u's replay cache
    msgs        \* every message sent so far

gsVars == <<dev, gsSession, gsSeen>>
uavVars == <<st, ses, uavSeen>>
vars == <<now, dev, gsSession, gsSeen, st, ses, uavSeen, msgs>>
-----------------------------------------------------------------------------
MessageM1 ==
    [type : {"M1"}, from : Uav, tid : Tid, n1 : Nat, t1 : Nat, mk : Nat]
MessageM2 ==
    [type : {"M2"}, to : Uav, tid : Tid, n1 : Nat, n2 : Nat, t2 : Nat, mk : Nat]
MessageM3 ==
    [type : {"M3"}, from : Uav, tid : Tid, transcript : Seq(Input), mk : Nat]
MessageM4 ==
    [type : {"M4"}, to : Uav, key : Key, tid : Tid, n1 : Nat, n2 : Nat,
     creds : SUBSET Uav, tidNew : Tid]
Message == MessageM1 \cup MessageM2 \cup MessageM3 \cup MessageM4

DeviceRecord == [mk : Nat, tid : Tid \cup {None}, pendingTid : Tid \cup {None}]

GsSession ==
    [mk : Nat, n1 : Nat, n2 : Nat, transcript : Seq(Input),
     ephemeral : BOOLEAN, m3Verified : BOOLEAN, sessionKey : Key \cup {None}]

UavSession ==
    [mk : Nat, n1 : Nat, n2 : Nat, tidAtRequest : Tid \cup {None},
     transcript : Seq(Input), ephemeral : BOOLEAN,
     sessionKey : Key \cup {None}, established : BOOLEAN, creds : SUBSET Uav]

TypeOK ==
    /\ now \in Nat
    /\ dev \in [Uav -> DeviceRecord]
    /\ gsSession \in [Uav -> GsSession]
    /\ gsSeen \in Seq(Uav \X Nat)
    /\ st \in [Uav -> [mk : Nat, tid : Tid \cup {None}]]
    /\ ses \in [Uav -> UavSession]
    /\ uavSeen \in [Uav -> Seq(Nat)]
    /\ msgs \subseteq Message

Init ==
    /\ now = 0
    /\ dev = [u \in Uav |-> [mk |-> 0, tid |-> None, pendingTid |-> None]]
    /\ gsSession = [u \in Uav |->
           [mk |-> 0, n1 |-> 0, n2 |-> 0, transcript |-> <<>>,
            ephemeral |-> FALSE, m3Verified |-> FALSE, sessionKey |-> None]]
    /\ gsSeen = <<>>
    /\ st = [u \in Uav |-> [mk |-> 0, tid |-> None]]
    /\ ses = [u \in Uav |->
           [mk |-> 0, n1 |-> 0, n2 |-> 0, tidAtRequest |-> None,
            transcript |-> <<>>, ephemeral |-> FALSE, sessionKey |-> None,
            established |-> FALSE, creds |-> {}]]
    /\ uavSeen = [u \in Uav |-> <<>>]
    /\ msgs = {}
-----------------------------------------------------------------------------
(* Helpers *)

Send(m) == msgs' = msgs \cup {m}

InputM1(tid, n1, t1) == [tid |-> tid, n1 |-> n1, n2 |-> 0, t |-> t1]
InputM2(tid, n1, n2, t2) == [tid |-> tid, n1 |-> n1, n2 |-> n2, t |-> t2]

SessionKey(u, mk, n1, n2, transcript) ==
    [uav |-> u, mk |-> mk, n1 |-> n1, n2 |-> n2, transcript |-> transcript]

\* x25519Derive fails once the secret has been erased.
MutantDeriveAlways(ephemeral) == TRUE
CanDerive(ephemeral) == ephemeral

\* ReplayCache::offer, in the caches of the ground station and of u.
MutantGsOfferAlways(nonce) == gsSeen' = Remember(gsSeen, nonce, Capacity)
GsOffer(nonce) ==
    /\ ~Remembers(gsSeen, nonce)
    /\ gsSeen' = Remember(gsSeen, nonce, Capacity)

MutantUavOfferAlways(u, nonce) ==
    uavSeen' = [uavSeen EXCEPT ![u] = Remember(@, nonce, Capacity)]
UavOffer(u, nonce) ==
    /\ ~Remembers(uavSeen[u], nonce)
    /\ uavSeen' = [uavSeen EXCEPT ![u] = Remember(@, nonce, Capacity)]

\* GroundStationProtocol::findByTid: the devices whose current or pending
\* identity is tid (never more than one: an identity names its device).
MutantFindByCurrentTid(tid) == {u \in Uav : dev[u].mk # 0 /\ tid = dev[u].tid}
FindByTid(tid) ==
    {u \in Uav : dev[u].mk # 0 /\ tid \in {dev[u].tid, dev[u].pendingTid}}
-----------------------------------------------------------------------------
(* Phase 1 *)

\* GroundStationProtocol::enroll and UavProtocol::provision, one step of the
\* enrolment loop.  Enrolling a device again replaces its record and its
\* state but leaves every session alone.
Enroll(u) ==
    LET mk  == dev[u].mk + 1
        tid == [uav |-> u, mk |-> mk, n1 |-> 0, n2 |-> 0]
    IN  /\ mk <= MaxEnrol[u]
        /\ dev' = [dev EXCEPT ![u] =
               [mk |-> mk, tid |-> tid, pendingTid |-> None]]
        /\ st' = [st EXCEPT ![u] = [mk |-> mk, tid |-> tid]]
        /\ UNCHANGED <<now, gsSession, gsSeen, ses, uavSeen, msgs>>
-----------------------------------------------------------------------------
(* Phase 2, in the order of the messages *)

\* UavProtocol::startPhase2.  The old session goes, credentials included.  A
\* fuzzy-extractor failure returns before anything is touched: no step.
StartPhase2(u) ==
    LET n1 == ses[u].n1 + 1
    IN  /\ st[u].mk # 0
        /\ n1 <= MaxAttempts[u]
        /\ ses' = [ses EXCEPT ![u] =
               [mk |-> st[u].mk, n1 |-> n1, n2 |-> 0,
                tidAtRequest |-> st[u].tid,
                transcript |-> <<InputM1(st[u].tid, n1, now)>>,
                ephemeral |-> TRUE, sessionKey |-> None,
                established |-> FALSE, creds |-> {}]]
        /\ Send([type |-> "M1", from |-> u, tid |-> st[u].tid, n1 |-> n1,
                 t1 |-> now, mk |-> st[u].mk])
        /\ UNCHANGED <<now, gsVars, st, uavSeen>>

\* sigma1 verifies under the key of the device that owns the identity.
AuthenticM1(u, m, intact) ==
    intact /\ u \in FindByTid(m.tid) /\ m.from = u /\ m.mk = dev[u].mk

\* The session of u is replaced, whatever it was, and M2 answers.
OpenGsSession(u, m) ==
    LET n2 == gsSession[u].n2 + 1
    IN  /\ n2 <= MaxSessions[u]
        /\ gsSession' = [gsSession EXCEPT ![u] =
               [mk |-> dev[u].mk, n1 |-> m.n1, n2 |-> n2,
                transcript |-> <<InputM1(m.tid, m.n1, m.t1),
                                 InputM2(m.tid, m.n1, n2, now)>>,
                ephemeral |-> TRUE, m3Verified |-> FALSE,
                sessionKey |-> None]]
        /\ Send([type |-> "M2", to |-> u, tid |-> m.tid, n1 |-> m.n1,
                 n2 |-> n2, t2 |-> now, mk |-> dev[u].mk])

\* GroundStationProtocol::handleM1.  The nonce is spent before the identity
\* and the MAC are checked.
HandleM1(m, intact) ==
    /\ m.type = "M1"
    /\ TimestampFresh(now, m.t1, Window)
    /\ GsOffer(<<m.from, m.n1>>)
    /\ \/ \E u \in Uav : AuthenticM1(u, m, intact) /\ OpenGsSession(u, m)
       \/ /\ ~\E u \in Uav : AuthenticM1(u, m, intact)
          /\ UNCHANGED <<gsSession, msgs>>
    /\ UNCHANGED <<now, dev, uavVars>>

AuthenticM2(m, intact) ==
    /\ intact
    /\ m.mk = ses[m.to].mk
    /\ m.tid = st[m.to].tid
    /\ m.n1 = ses[m.to].n1

\* The verified M2 is recorded; with the ephemeral secret still there the key
\* is derived, the secret erased and M3 sent.
AcceptM2(u, m) ==
    LET transcript == Append(ses[u].transcript,
                             InputM2(st[u].tid, ses[u].n1, m.n2, m.t2))
        key == SessionKey(u, ses[u].mk, ses[u].n1, m.n2, transcript)
    IN  \/ /\ CanDerive(ses[u].ephemeral)
           /\ ses' = [ses EXCEPT ![u].n2 = m.n2,
                                 ![u].transcript = transcript,
                                 ![u].sessionKey = key,
                                 ![u].ephemeral = FALSE]
           /\ Send([type |-> "M3", from |-> u, tid |-> st[u].tid,
                    transcript |-> transcript, mk |-> ses[u].mk])
        \/ /\ ~CanDerive(ses[u].ephemeral)        \* DhFailed, with the session changed
           /\ Len(transcript) <= MaxTranscript
           /\ ses' = [ses EXCEPT ![u].n2 = m.n2,
                                 ![u].transcript = transcript]
           /\ UNCHANGED msgs

\* UavProtocol::handleM2.  Again the nonce is spent before the MAC is checked.
HandleM2(m, intact) ==
    /\ m.type = "M2"
    /\ ses[m.to].n1 # 0
    /\ TimestampFresh(now, m.t2, Window)
    /\ UavOffer(m.to, m.n2)
    /\ \/ AuthenticM2(m, intact) /\ AcceptM2(m.to, m)
       \/ ~AuthenticM2(m, intact) /\ UNCHANGED <<ses, msgs>>
    /\ UNCHANGED <<now, gsVars, st>>

MutantAnyTranscript(u, m, intact) ==
    /\ intact
    /\ u \in FindByTid(m.tid)
    /\ gsSession[u].n2 # 0
    /\ m.from = u
    /\ m.mk = gsSession[u].mk

AuthenticM3(u, m, intact) ==
    /\ intact
    /\ u \in FindByTid(m.tid)
    /\ gsSession[u].n2 # 0
    /\ m.from = u
    /\ m.mk = gsSession[u].mk
    /\ m.transcript = gsSession[u].transcript

\* A mutant of PendingIdentity: the identity is read before it is rotated.
MutantUnrotatedIdentity(u) == dev[u].pendingTid

\* The rotated identity that handleM3 derives for the current session.
PendingIdentity(u) ==
    [uav |-> u, mk |-> dev[u].mk, n1 |-> gsSession[u].n1, n2 |-> gsSession[u].n2]

\* The key is derived under the record's master key, the ephemeral secret
\* erased, the next identity made pending, and M4 sealed under the new key.
\* Both suites seal under any key and nonce of their lengths, and these are
\* derived to measure: the return after aeadSeal fails is not taken.
ConfirmSession(u, m) ==
    LET s == gsSession[u]
        key == SessionKey(u, dev[u].mk, s.n1, s.n2, s.transcript)
        tidNew == PendingIdentity(u)
    IN  /\ gsSession' = [gsSession EXCEPT ![u].m3Verified = TRUE,
                                          ![u].sessionKey = key,
                                          ![u].ephemeral = FALSE]
        /\ dev' = [dev EXCEPT ![u].pendingTid = tidNew]
        /\ Send([type |-> "M4", to |-> u, key |-> key, tid |-> m.tid,
                 n1 |-> s.n1, n2 |-> s.n2, tidNew |-> tidNew,
                 creds |-> {v \in Uav \ {u} : dev[v].mk # 0}])

\* GroundStationProtocol::handleM3.  A repeated M3 verifies, finds the
\* ephemeral secret erased and changes nothing.
HandleM3(m, intact) ==
    /\ m.type = "M3"
    /\ \E u \in Uav : /\ AuthenticM3(u, m, intact)
                      /\ CanDerive(gsSession[u].ephemeral)
                      /\ ConfirmSession(u, m)
    /\ UNCHANGED <<now, gsSeen, uavVars>>

\* A mutant of AuthenticM4: the associated data names no session.
MutantAnySessionOfM4(m, intact) == intact /\ ses[m.to].sessionKey # None

\* The box opens: the key, and the identity and nonces of its associated
\* data, are those of the session.
AuthenticM4(m, intact) ==
    LET s == ses[m.to]
    IN  /\ intact
        /\ s.sessionKey # None
        /\ m.key = s.sessionKey
        /\ <<m.tid, m.n1, m.n2>> = <<s.tidAtRequest, s.n1, s.n2>>

\* UavProtocol::handleM4
HandleM4(m, intact) ==
    /\ m.type = "M4"
    /\ AuthenticM4(m, intact)
    /\ ses' = [ses EXCEPT ![m.to].creds = m.creds,
                          ![m.to].established = TRUE]
    /\ st' = [st EXCEPT ![m.to].tid = m.tidNew]
    /\ UNCHANGED <<now, gsVars, uavSeen, msgs>>
-----------------------------------------------------------------------------
Tick == now < MaxTime /\ now' = now + 1 /\ UNCHANGED <<gsVars, uavVars, msgs>>

Deliver == \E m \in msgs, intact \in BOOLEAN :
    \/ HandleM1(m, intact)
    \/ HandleM2(m, intact)
    \/ HandleM3(m, intact)
    \/ HandleM4(m, intact)

Next ==
    \/ \E u \in Uav : Enroll(u) \/ StartPhase2(u)
    \/ Deliver
    \/ Tick

Spec == Init /\ [][Next]_vars
-----------------------------------------------------------------------------
(* Safety *)

\* The device's key, nonces and transcript describe one and the same
\* exchange, so that the associated data of M4 can be rebuilt from them
\* (handleM4).  A second M2 accepted in the same session would append to the
\* transcript after the key was derived from it.
KeyMatchesTranscript ==
    \A u \in Uav : ses[u].sessionKey # None =>
        ses[u].sessionKey = SessionKey(u, ses[u].mk, ses[u].n1, ses[u].n2,
                                       ses[u].transcript)

\* The ground station completes the exchange (handleM3) only with a device
\* that holds the very same key, unless the device has since begun anew.
GsKeyHeldByUav ==
    \A u \in Uav : gsSession[u].sessionKey # None =>
        \/ ses[u].sessionKey = gsSession[u].sessionKey
        \/ ses[u].n1 > gsSession[u].n1

\* When a device takes Phase 2 for complete (handleM4) and the ground
\* station's session is still the one of that request, both hold one key.
EstablishedKeyAgreement ==
    \A u \in Uav : ses[u].established /\ gsSession[u].n1 = ses[u].n1 =>
        gsSession[u].sessionKey = ses[u].sessionKey

\* A request is answered by at most one session, however often it arrives
\* (the replay cache of handleM1).
OneSessionPerRequest ==
    \A m1, m2 \in msgs :
        m1.type = "M2" /\ m2.type = "M2" /\ m1.to = m2.to /\ m1.n1 = m2.n1
            => m1 = m2

\* What findByTid must be able to do.
Resolvable(u) == u \in FindByTid(st[u].tid)

\* A device whose identity the ground station no longer knows has missed an
\* M4: handleM3 rotated pendingTid past the identity it holds and that M4 is
\* outstanding, or an M4 of an earlier enrolment reached it after the new one
\* (handleM4 does not look at the enrolment).  Nothing else strands a device.
StrandedOnlyByM4OutOfStep ==
    \A u \in Uav : st[u].mk # 0 /\ ~Resolvable(u) =>
        \/ \E m \in msgs : /\ m.type = "M4"
                           /\ m.to = u
                           /\ m.tidNew = dev[u].pendingTid
                           /\ m.tid = st[u].tid
        \/ st[u].tid.mk # st[u].mk

\* Protocol.cc:177-178 and docs/spec-deviations.md:36-37: a lost M4 does not
\* strand a device.  A device without a session key can accept no M4 any
\* more, so its present identity is the only one it can ever ask with.
LostM4DoesNotStrand ==
    \A u \in Uav : st[u].mk # 0 /\ ses[u].sessionKey = None => Resolvable(u)

\* A repeated or late M1 never takes an agreed key away from the ground
\* station (handleM1 replaces the whole session): only a request that it has
\* not answered yet does.
KeyDroppedOnlyByNewRequest ==
    [][\A u \in Uav :
         /\ gsSession[u].sessionKey # None
         /\ gsSession'[u].sessionKey # gsSession[u].sessionKey
         => ~\E m \in msgs : /\ m.type = "M2"
                             /\ m.to = u
                             /\ m.n1 = gsSession'[u].n1]_vars

\* A device never takes back an identity that it gave up: within one
\* enrolment handleM4 only moves to the identity of a later request.
TidNeverRollsBack ==
    [][\A u \in Uav : st'[u].mk = st[u].mk /\ st'[u].tid # st[u].tid
         => st'[u].tid.n1 > st[u].tid.n1]_vars

\* The two timestamp checks add up: a device derives a key at most two
\* windows after the request it belongs to (handleM1, handleM2).
KeyIsRecent ==
    [][\A u \in Uav :
         ses[u].sessionKey = None /\ ses'[u].sessionKey # None
         => now <= ses[u].transcript[1].t + 2 * Window]_vars
-----------------------------------------------------------------------------
(* Refinement *)

\* The key that the sender of an M3 derived, and the key that the ground
\* station sealed an M4 under.
KeyOfM3(m) == SessionKey(m.from, m.mk, m.transcript[1].n1,
                         m.transcript[2].n2, m.transcript)

Derived == {KeyOfM3(m) : m \in {x \in msgs : x.type = "M3"}}
Committed == {m.key : m \in {x \in msgs : x.type = "M4"}}

Exchange == INSTANCE KeyExchange WITH
    attempt <- [u \in Uav |-> ses[u].n1],
    held <- [u \in Uav |-> ses[u].sessionKey],
    established <- [u \in Uav |-> ses[u].established],
    derived <- Derived,
    committed <- Committed

\* The four handlers together implement the exchange, whatever the network
\* repeats, delays, loses or damages, and whatever the replay caches forget.
RefinesKeyExchange == Exchange!Spec

\* How far a device is with its present request.
HowFar(s) ==
    IF s.n1 = 0 THEN "none"
    ELSE IF s.established THEN "established"
    ELSE IF s.sessionKey # None THEN "confirmed"
    ELSE "requested"

Credentials == INSTANCE PeerCredentials WITH
    enrolled <- {u \in Uav : dev[u].mk # 0},
    requests <- [u \in Uav |-> ses[u].n1],
    phase <- [u \in Uav |-> HowFar(ses[u])],
    granted <- [u \in Uav |-> ses[u].creds]

\* A request ends in at most one grant of credentials, for enrolled peers,
\* which no later M2, M3, M4 or enrolment changes (handleM3 seals one M4 per
\* session, and handleM4 may open it again): what Phase 3 builds on.
RefinesPeerCredentials == Credentials!Spec
=============================================================================
