------------------------------- MODULE Baseline -------------------------------
(***************************************************************************)
(* The signed handshake B1..B4 that the protocol is measured against       *)
(* (src/src/protocol/BaselineSigAuth.cc), driven by its two nodes          *)
(* (BaselineUavNode, BaselineGroundStationNode).  Requests and responses   *)
(* are signed with long-term keys, ephemeral shares give the session key,  *)
(* and two MACs under that key confirm it.                                 *)
(*                                                                         *)
(* Data is symbolic, as in Phase2: n1 is drawn by the device, n2 by the    *)
(* ground station for that device, and each names the ephemeral share      *)
(* drawn beside it.  A signature or a MAC is the list of what it covers.   *)
(* What B2 covers but does not carry (n1, epkA) is a field of the message. *)
(*                                                                         *)
(* The network is the set of messages ever sent, as in Phase2.  A damaged  *)
(* copy is one whose signature or MAC does not verify.                     *)
(***************************************************************************)
EXTENDS Naturals, Sequences, FiniteSets, Freshness

CONSTANTS
    Uav,            \* the devices
    None,           \* an empty Bytes: no session key
    MaxAttempts,    \* MaxAttempts[u]: bound on u's calls of startPhase2
    MaxSessions,    \* MaxSessions[u]: bound on the sessions opened for u
    MaxTranscript,  \* bound on the inputs in a device's transcript
    MaxTime,        \* bound on the clock
    Window,         \* timestampWindowMs
    Capacity        \* capacity of each replay cache

\* What a signature covers: B1's [uav, n1, t1] (n2 = 0), B2's [uav, n1, n2, t2].
Input == [uav : Uav, n1 : Nat, n2 : Nat, t : Nat]

\* KDF(DH(n1, n2), transcript)
Key == [uav : Uav, n1 : Nat, n2 : Nat, transcript : Seq(Input)]

ASSUME BaselineAssumption ==
    /\ None \notin Key
    /\ MaxAttempts \in [Uav -> Nat]
    /\ MaxSessions \in [Uav -> Nat]
    /\ MaxTranscript \in Nat
    /\ MaxTime \in Nat
    /\ Window \in Nat
    /\ Capacity \in Nat

VARIABLES
    now,        \* the clock every node reads
    enrolled,   \* the devices whose public key the ground station registered
    gsSession,  \* gsSession[u]: its BaselineGsSession (n2 = 0: none)
    gsSeen,     \* its replay cache
    ses,        \* ses[u]: u's BaselineUavSession (n1 = 0: empty transcript)
    uavSeen,    \* uavSeen[u]: u's replay cache
    successes,  \* authSuccesses_ of the ground-station node
    msgs        \* every message sent so far

gsVars == <<enrolled, gsSession, gsSeen, successes>>
uavVars == <<ses, uavSeen>>
vars == <<now, enrolled, gsSession, gsSeen, ses, uavSeen, successes, msgs>>
-----------------------------------------------------------------------------
MessageB1 == [type : {"B1"}, from : Uav, n1 : Nat, t1 : Nat]
MessageB2 == [type : {"B2"}, to : Uav, n1 : Nat, n2 : Nat, t2 : Nat]
MessageB3 == [type : {"B3"}, from : Uav, key : Key]
MessageB4 == [type : {"B4"}, to : Uav, key : Key]
Message == MessageB1 \cup MessageB2 \cup MessageB3 \cup MessageB4

GsSession ==
    [n1 : Nat, n2 : Nat, transcript : Seq(Input), ephemeral : BOOLEAN,
     sessionKey : Key \cup {None}]

UavSession ==
    [n1 : Nat, transcript : Seq(Input), ephemeral : BOOLEAN,
     sessionKey : Key \cup {None}, established : BOOLEAN]

TypeOK ==
    /\ now \in Nat
    /\ enrolled \subseteq Uav
    /\ gsSession \in [Uav -> GsSession]
    /\ gsSeen \in Seq(Uav \X Nat)
    /\ ses \in [Uav -> UavSession]
    /\ uavSeen \in [Uav -> Seq(Nat)]
    /\ successes \in Nat
    /\ msgs \subseteq Message

Init ==
    /\ now = 0
    /\ enrolled = {}
    /\ gsSession = [u \in Uav |->
           [n1 |-> 0, n2 |-> 0, transcript |-> <<>>, ephemeral |-> FALSE,
            sessionKey |-> None]]
    /\ gsSeen = <<>>
    /\ ses = [u \in Uav |->
           [n1 |-> 0, transcript |-> <<>>, ephemeral |-> FALSE,
            sessionKey |-> None, established |-> FALSE]]
    /\ uavSeen = [u \in Uav |-> <<>>]
    /\ successes = 0
    /\ msgs = {}
-----------------------------------------------------------------------------
(* Helpers *)

Send(m) == msgs' = msgs \cup {m}

InputB1(u, n1, t1) == [uav |-> u, n1 |-> n1, n2 |-> 0, t |-> t1]
InputB2(u, n1, n2, t2) == [uav |-> u, n1 |-> n1, n2 |-> n2, t |-> t2]

\* In the mutant two arguments are swapped.
MutantSessionKey(u, n1, n2, transcript) ==
    [uav |-> n1, n1 |-> u, n2 |-> n2, transcript |-> transcript]
SessionKey(u, n1, n2, transcript) ==
    [uav |-> u, n1 |-> n1, n2 |-> n2, transcript |-> transcript]

\* x25519Derive fails once the secret has been erased.
MutantDeriveAlways(ephemeral) == TRUE
CanDerive(ephemeral) == ephemeral

\* ReplayCache::offer, in the caches of the ground station and of u.
GsOffer(nonce) ==
    /\ ~Remembers(gsSeen, nonce)
    /\ gsSeen' = Remember(gsSeen, nonce, Capacity)

UavOffer(u, nonce) ==
    /\ ~Remembers(uavSeen[u], nonce)
    /\ uavSeen' = [uavSeen EXCEPT ![u] = Remember(@, nonce, Capacity)]
-----------------------------------------------------------------------------
\* One turn of BaselineGroundStationNode::enrollAll: the public keys are
\* exchanged, both ways.
Enroll(u) ==
    /\ u \notin enrolled
    /\ enrolled' = enrolled \cup {u}
    /\ UNCHANGED <<now, gsSession, gsSeen, uavVars, successes, msgs>>

\* BaselineUavProtocol::startPhase2, refused before provisionGsPublicKey.
StartPhase2(u) ==
    LET n1 == ses[u].n1 + 1
    IN  /\ u \in enrolled
        /\ n1 <= MaxAttempts[u]
        /\ ses' = [ses EXCEPT ![u] =
               [n1 |-> n1, transcript |-> <<InputB1(u, n1, now)>>,
                ephemeral |-> TRUE, sessionKey |-> None,
                established |-> FALSE]]
        /\ Send([type |-> "B1", from |-> u, n1 |-> n1, t1 |-> now])
        /\ UNCHANGED <<now, gsVars, uavSeen>>

\* The session of u is replaced, whatever it was, and B2 answers.
OpenGsSession(m) ==
    LET u == m.from
        n2 == gsSession[u].n2 + 1
    IN  /\ n2 <= MaxSessions[u]
        /\ gsSession' = [gsSession EXCEPT ![u] =
               [n1 |-> m.n1, n2 |-> n2,
                transcript |-> <<InputB1(u, m.n1, m.t1),
                                 InputB2(u, m.n1, n2, now)>>,
                ephemeral |-> TRUE, sessionKey |-> None]]
        /\ Send([type |-> "B2", to |-> u, n1 |-> m.n1, n2 |-> n2, t2 |-> now])

\* BaselineGroundStationProtocol::handleM1.  The nonce is spent before the
\* public key is looked up and the signature checked.
HandleB1(m, intact) ==
    /\ m.type = "B1"
    /\ TimestampFresh(now, m.t1, Window)
    /\ GsOffer(<<m.from, m.n1>>)
    /\ \/ intact /\ m.from \in enrolled /\ OpenGsSession(m)
       \/ ~intact /\ UNCHANGED <<gsSession, msgs>>
    /\ UNCHANGED <<now, enrolled, uavVars, successes>>

\* The verified B2 is recorded; with the ephemeral secret still there the key
\* is derived, the secret erased and B3 sent.
AcceptB2(m) ==
    LET u == m.to
        transcript == Append(ses[u].transcript, InputB2(u, m.n1, m.n2, m.t2))
        key == SessionKey(u, m.n1, m.n2, transcript)
    IN  \/ /\ CanDerive(ses[u].ephemeral)
           /\ ses' = [ses EXCEPT ![u].transcript = transcript,
                                 ![u].sessionKey = key,
                                 ![u].ephemeral = FALSE]
           /\ Send([type |-> "B3", from |-> u, key |-> key])
        \/ /\ ~CanDerive(ses[u].ephemeral)        \* DhFailed, with the session changed
           /\ Len(transcript) <= MaxTranscript
           /\ ses' = [ses EXCEPT ![u].transcript = transcript]
           /\ UNCHANGED msgs

\* The signature covers the nonce, and the share, of the current request.
AuthenticB2(m, intact) == intact /\ m.n1 = ses[m.to].n1

\* BaselineUavProtocol::handleM2.  Again the nonce is spent first.
HandleB2(m, intact) ==
    /\ m.type = "B2"
    /\ ses[m.to].n1 # 0
    /\ TimestampFresh(now, m.t2, Window)
    /\ UavOffer(m.to, m.n2)
    /\ \/ AuthenticB2(m, intact) /\ AcceptB2(m)
       \/ ~AuthenticB2(m, intact) /\ UNCHANGED <<ses, msgs>>
    /\ UNCHANGED <<now, gsVars>>

\* The key that handleM3 derives for the session it holds with u.
GsKey(u) == SessionKey(u, gsSession[u].n1, gsSession[u].n2,
                       gsSession[u].transcript)

\* The sessions a B3 of u is taken for.  In the mutant the sender is not asked.
MutantSessionsOf(u) == {v \in Uav : gsSession[v].n2 # 0}
SessionsOf(u) == {v \in {u} : gsSession[v].n2 # 0}

\* BaselineGroundStationProtocol::handleM3.  The key is derived and the secret
\* erased before the MAC is checked: a damaged B3, or one of an earlier
\* request, uses the session up without an answer.
HandleB3(m, intact) ==
    /\ m.type = "B3"
    /\ \E u \in SessionsOf(m.from) :
         /\ CanDerive(gsSession[u].ephemeral)
         /\ gsSession' = [gsSession EXCEPT ![u].sessionKey = GsKey(u),
                                           ![u].ephemeral = FALSE]
         /\ \/ /\ intact /\ m.key = GsKey(u)
               /\ successes' = successes + 1
               /\ Send([type |-> "B4", to |-> u, key |-> GsKey(u)])
            \/ /\ ~(intact /\ m.key = GsKey(u))
               /\ UNCHANGED <<successes, msgs>>
    /\ UNCHANGED <<now, enrolled, gsSeen, uavVars>>

\* The MAC of B4 is over the transcript, under the session key.
MutantAnyB4(m, intact) == intact /\ ses[m.to].sessionKey # None
AuthenticB4(m, intact) ==
    /\ intact
    /\ m.key = ses[m.to].sessionKey
    /\ m.key.transcript = ses[m.to].transcript

\* BaselineUavProtocol::handleM4
HandleB4(m, intact) ==
    /\ m.type = "B4"
    /\ AuthenticB4(m, intact)
    /\ ses' = [ses EXCEPT ![m.to].established = TRUE]
    /\ UNCHANGED <<now, gsVars, uavSeen, msgs>>
-----------------------------------------------------------------------------
Tick == now < MaxTime /\ now' = now + 1 /\ UNCHANGED <<gsVars, uavVars, msgs>>

Deliver == \E m \in msgs, intact \in BOOLEAN :
    \/ HandleB1(m, intact)
    \/ HandleB2(m, intact)
    \/ HandleB3(m, intact)
    \/ HandleB4(m, intact)

Next ==
    \/ \E u \in Uav : Enroll(u) \/ StartPhase2(u)
    \/ Deliver
    \/ Tick

Spec == Init /\ [][Next]_vars
-----------------------------------------------------------------------------
(* Safety *)

\* handleM3 derives before it verifies, so the ground station can hold the
\* key of a request whose device has none yet.  Only a B3 of an earlier
\* request of that same device gets it there.
AheadOnlyByOutdatedB3 ==
    \A u \in Uav :
        /\ gsSession[u].sessionKey # None
        /\ gsSession[u].n1 = ses[u].n1
        /\ ses[u].sessionKey = None
        => \E m \in msgs : /\ m.type = "B3"
                           /\ m.from = u
                           /\ m.key.n1 < ses[u].n1

\* A session is confirmed at most once (handleM3), however often its B3 is
\* repeated: authSuccesses_ is the number of confirmations sent.
SuccessesCountConfirmations ==
    successes = Cardinality({m \in msgs : m.type = "B4"})

-----------------------------------------------------------------------------
(* Refinement *)

KeysOf(type) == {m.key : m \in {x \in msgs : x.type = type}}

Exchange == INSTANCE KeyExchange WITH
    attempt <- [u \in Uav |-> ses[u].n1],
    held <- [u \in Uav |-> ses[u].sessionKey],
    established <- [u \in Uav |-> ses[u].established],
    derived <- KeysOf("B3"),
    committed <- KeysOf("B4")

\* The baseline keeps the promise Phase 2 keeps, whatever the network repeats,
\* delays, loses or damages.
RefinesKeyExchange == Exchange!Spec
=============================================================================
