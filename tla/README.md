# A TLA+ model of the UAV swarm authentication protocol

This directory holds TLA+ modules, TLC configurations and machine-checked proofs about the PUF-rooted authentication protocol in `src/`: the C++ protocol classes under `src/src/protocol`, the OMNeT++ nodes that drive them under `src/src/nodes` and `src/src_inet/apps`, the fuzzy extractor under `src/src/fe`, and the Python prototype under `src/UAV-Authentication`. The modules are translated from the code; the papers and `docs/` serve only for the claims they make about it.

1. [The system and its parts](#1-the-system-and-its-parts)
2. [The modules](#2-the-modules)
3. [How the model corresponds to the code](#3-how-the-model-corresponds-to-the-code)
4. [The runs](#4-the-runs)
5. [What is proved](#5-what-is-proved)
6. [Where the code disagrees with its documentation](#6-where-the-code-disagrees-with-its-documentation)
7. [What is not modelled](#7-what-is-not-modelled)

## 1. The system and its parts

| Part | State it keeps | Operations | What makes it correct |
|---|---|---|---|
| Ground-station protocol (`Protocol.cc` 109-392) | `devices_` (master key, identity, pending identity), `sessions_` (one per device), `replay_` | `enroll`, `handleM1`, `handleM3` | completes a key only with the device that holds it; always able to resolve a device; a repeated message costs nothing |
| UAV protocol, Phase 2 (`Protocol.cc` 393-631) | `state_` (identity), `phase2_` (session, credentials), `replay_` | `provision`, `startPhase2`, `handleM2`, `handleM4` | key, nonces and transcript describe one exchange; identity never goes back; key is recent |
| UAV protocol, Phase 3 (`Protocol.cc` 633-908) | `peers_` (one session per peer), the credentials and replay cache of Phase 2 | `startPhase3`, `handleP1`, `handleP2`, `handleP3` | responder completes only with an initiator that did; an agreed key does not change or vanish under repeats |
| Replay cache and timestamp window (`Protocol.cc` 26-29, 95-116) | the last `capacity` nonces | `offer`, `timestampFresh` | a nonce passes once while remembered |
| Ephemeral secrets (`X25519.cc`) | a secret, erased after use | generate, derive, erase | nothing is derived twice from one secret |
| Baseline handshake (`BaselineSigAuth.cc`) | signature keys, one session on each side, replay caches | `enrollUav`, `startPhase2`, B1..B4 handlers | as Phase 2, with signatures |
| Simulation nodes (`UavNode.cc`, `GroundStationNode.cc`, baseline nodes) | a protocol object, per-device and per-peer records, counters | self-messages `startPhase2`, `startPhase3`; `handleMessage`; `finish` | records and rates agree with what the protocol did; every device finishes when nothing is lost |
| Wireless medium (`WirelessMedium.cc`) | trace, attack mode, registered interceptor | `transmit` | each message is routed once, to its receiver or to the interceptor |
| Interceptor (`AttackerNode.cc`) | captured M1s, statistics | `observe`, inject, forward | (drives the security experiments) |
| INET applications (`src_inet/apps`) | protocol object, two timers, a UDP socket, peer addresses | lifecycle start/stop/crash, timers, `socketDataArrived` | survives restart; timers are not scheduled twice |
| Wire format (`Wire.cc`) | none | encode, decode, identifiers, timestamps | round trip; distinct type tags |
| Fuzzy extractor, BCH codec (`src/fe`) | field tables, generator | `gen`, `rep`, encode, decode | reproduces the key up to t errors, fails closed beyond |
| PUF models, cryptographic suites, counters (`src/puf`, `src/crypto`) | noise, keys, timings | evaluate, hash, MAC, AEAD, sign | bit-level functions with known answers |
| Python prototype (`UAV-Authentication`) | records with identity and a pool of challenge-response pairs, pending and open sessions, JSON files | enrol, Phase 2, Phase 3, save and load | the two ends' files agree after a crash; the pool lasts |
| Scripts, papers, Tamarin theory, tests | - | - | read for claims; not program state |

**How they interact.** The nodes and the INET applications call the protocol classes synchronously and send the reply they return through the medium or a UDP socket. There is no other communication between devices. Phase 1 is a direct call from the ground station into every device before the first message. Handlers run one at a time (a discrete-event kernel), so concurrency is that of messages: any two handshakes of any devices may be interleaved, and messages may be delayed, overtaken, lost (802.11), repeated or damaged (interceptor).

**What is hard here.** Nothing is ever retransmitted and nothing times out; each phase has its own one-session-per-partner state that a new message can replace; M3, M4, P2 and P3 carry no timestamp and can arrive at any time; the replay cache is finite and shared by both phases; a handler changes part of its state before the check or the derivation that can still fail; identities rotate in a message that can be lost; Phase 2 restarts under the feet of Phase 3. `PROJECT.json` lists these at their lines under `hazards`, each with the properties that would notice.

## 2. The modules

| Module | What it is |
|---|---|
| `Freshness` | the two gates as operators: `TimestampFresh`, `Remembers`, `Remember` |
| `KeyExchange` | the abstract specification: what a key exchange promises with no message in sight |
| `PeerCredentials` | the abstract specification of what Phase 3 relies on of Phase 2: one grant of credentials for each request |
| `PeerHandshake` | the abstract specification of Phase 3: calls, answers, and who completes which exchange after whom |
| `Phase2` | Phase 1 and Phase 2: enrolment, both ends of M1..M4, the network |
| `Phase3` | Phase 3: both ends of P1..P3, with Phase 2 reduced to what Phase 3 sees of it |
| `Baseline` | the signed handshake B1..B4 and what its two nodes add |
| `Swarm` | a whole simulation run: UAV nodes, ground-station node, medium and interceptor, from start to the last event |
| `Inet` | the INET applications: lifecycle, timers, ports, with both phases reduced to what restarts can disturb |
| `FeParams` | parameters of the fuzzy extractor: dimensions of the code, profiles, entropy budget |
| `BchCodec` | the codec: field, generator, encoder, Berlekamp-Massey, Chien search |
| `FuzzyExtractor` | enrolment and reproduction of a master key over that codec |
| `Prototype` | the Python server and its clients: sockets, processes, files |
| `FreshnessProofs` | what a replay cache keeps, for every capacity: lemmas for the modules below |
| `Phase2Proofs`, `Phase2SessionProofs` | theorems of Phase 2: agreement, identity, refinement; then devices out of step, recency, credentials, and what the caches add |
| `Phase3Proofs` | theorems of Phase 3: agreement, stability of keys, what the caches add, both refinements |
| `BaselineProofs` | theorems of the baseline; it refines `KeyExchange` as Phase 2 does |
| `SwarmProofs` | theorems of a simulation run: what records and counters say, who is left waiting |
| `InetProofs` | theorems of the INET applications under stops, crashes and restarts; they grant credentials as Phase 2 does |
| `PrototypeProofs` | theorems of the prototype: the pool of pairs, and the two ends' files, through crashes and restarts |
| `MC*` | instances for TLC |

`Phase2`, `Phase3` and `Baseline` share `Freshness`. `Phase2` and `Baseline` each instantiate `KeyExchange` with a refinement mapping (`Exchange`, at the end of the module): the protocol and the one it is measured against keep the same promise. `PeerCredentials` is instantiated by `Phase2`, `Phase3` and `Inet` (`Credentials`): it is the interface at which the detailed Phase 2 and the reduced ones inside the other two modules meet. `PeerHandshake` is instantiated by `Phase3` (`Handshake`). `FuzzyExtractor` extends `BchCodec`, which extends `FeParams`. `Swarm` and `Inet` put the phases together; each keeps of a protocol session only what the nodes' control depends on, which is how far it is (`Swarm`, where a device runs Phase 2 once) or which request it belongs to (`Inet`, where devices restart).

## 3. How the model corresponds to the code

**Data.** Cryptography is symbolic. A nonce is a counter of the party that draws it, so nonces never collide. The X25519 share drawn in the same call is named by the nonce; `CanDerive` models the one thing about it with control in it, that `x25519Derive` fails on an erased secret. A MAC or AEAD box is the list of what it covers together with its key: it verifies exactly when the verifier rebuilds that list and the message is `intact`. A master key is the number of the enrolment that produced it. An identity is what it is derived from. An empty `Bytes` is `None` or, for a credential created by `std::map::operator[]`, `"empty"`.

**The network.** `msgs` is the set of all messages ever sent. `Deliver` hands any of them, whole or damaged, to the handler of its receiver: once, again, late, in any order or never. A message that is never delivered is a lost one. This covers every routing of `WirelessMedium::transmit`, UDP over 802.11, `injectReplay` and `forwardTampered`. Damage is modelled as an authenticator that does not verify; a message with a missing or malformed field is refused before it changes anything and is not an action.

**Actions of the handshakes.** One action per entry point, in the order of the code's own guards:

| Action | Code | Worth knowing |
|---|---|---|
| `Enroll` | `GroundStationProtocol::enroll`, `UavProtocol::provision` | replaces record and state, leaves sessions alone; may happen again (`GroundStationNodeInetApp` restarts) |
| `StartPhase2` | `UavProtocol::startPhase2` | wipes the session and the credentials, not `peers_` |
| `HandleM1` | `handleM1` | the nonce is spent before identity and MAC are checked: two disjuncts |
| `HandleM2` | `handleM2` | again the nonce first; a verified M2 whose secret is gone still changes nonce and transcript |
| `HandleM3` | `handleM3` | derives, erases, makes the next identity pending, seals M4 |
| `HandleM4` | `handleM4` | may open again; replaces credentials and identity again |
| `StartPhase3` | `startPhase3` | replaces any session with that peer |
| `HandleP1` | `handleP1` | nonce first, then credentials: a P1 too early is refused for good |
| `HandleP2` | `handleP2` | replaces `p2Encoded` before the derivation can fail |
| `HandleP3` | `handleP3` | a repeat finds the secret gone and changes nothing |
| `HandleB3` | baseline `handleM3` | derives and erases before it verifies; the other B handlers are like M1, M2 and M4 |

A handler that refuses a message and changes no state is no action: it would be a stutter. `nonceRemote` and `epkRemote`, which `handleP2` writes before checking the MAC, are left out because only `handleP2` itself reads them, after overwriting them. `peerTids` is left out because no code reads it. The return of `handleM3` after a failed `aeadSeal` (`Protocol.cc:375`) is left out too: both suites refuse only a key or nonce of the wrong length, which those derived there never have, and otherwise fail only with the library underneath. `hits_`, timings and lengths are statistics.

**Time.** One clock in all nodes, as in the simulation (`simTime()`), in ticks; `Window` is `timestampWindowMs` in ticks. Identity of clocks is the simulator's, not an assumption about hardware.

**Phase 2 inside Phase 3.** `Phase3` keeps of Phase 2: that `startPhase2` empties the credentials, that an accepted M2 spends a nonce of the shared cache, and that M4, also a repeated one, fills the credentials. Each device does so at its own time, any number of times up to `MaxRequests`. All devices are enrolled, and a pair's credential never changes (`pairCredential` depends on the ground station's master key and the two ids only). That this reduction grants credentials under the same rules as the detailed Phase 2 is no convention: `Phase2`, `Phase3` and `Inet` each implement `PeerCredentials`, which says when a device holds credentials of whom. The number of the request, how far it is and the peers granted are read off the state; a credential that `operator[]` creates is none that was granted. `Swarm` keeps of Phase 2 how far a device is, with one request each.

**The simulation nodes (`Swarm`).** Each self-message and each case of the two `handleMessage` functions is an action, with the calls it makes into the protocol classes: the device's step and what the node records of it happen together, as in the code. `net` holds the messages in flight, each with the module it flies to (an interceptor may sit in between) and the latest time of its arrival; `Tick` may not pass an arrival, a start or a round that is due. `StartPhase2` chooses whether the fuzzy extractor reproduces the key. `Receivers` is the routing of `WirelessMedium::transmit` for each configuration of the interceptor, `Observe` what `AttackerNode` does with what it gets. All delays are far below the freshness window, so freshness checks never fail here; `Phase2` has them.

**The INET applications (`Inet`).** `GoDown` is stop and crash, which the code treats alike but for the socket; `Start` schedules the start timer and keeps the protocol object, its sessions and its records, as the code does. A restarted device's timer is due at once, before any message can reach it (`Awake`). No configuration in the repository uses lifecycle operations; the handlers for them are there, and these are what the restarts exercise. Peers are known by the port a datagram came from. A datagram may be lost, late or overtaken, but is delivered at most once: the interceptor is not ported to INET (`UavNodeInetApp.ned:11-15`), and the link layer drops retransmissions it has seen. `TimersScheduledOnce` rests on that (a second M4 of one request is what would schedule `peerTimer_` again); `Phase2` and `Phase3` have duplication. `drawn` numbers the nonces of Phase 3 in the order in which the loop over the peers draws them.

**The fuzzy extractor.** A bit vector is the set of its ones and a field element its logarithm; the mapping of packed bits to polynomial degrees is modelled, since a slip there is a bug of its own. The generator polynomial, the parity register, syndromes, Berlekamp-Massey and Chien search are the code's algorithms, written as recursive functions. `CodewordData` stands for the key derivation that fills a codeword with data, `Extract` for the strong extractor, of which only injectivity is used. The two ends have a profile each, because in the code each constructs its own extractor.

**The Python prototype.** A connection is named by the client process that opens it. `link` says which ends are still open; what one end has sent is read by the other even after it closed. An identity is the chain of nonces it was rotated with. `save_gs_state` is two steps, because `write_text` truncates the file before it writes; a crash may fall between them. `fresh` is a choice, because the two hosts' clocks may differ by anything. `persist` is the set of programs started with `--persist`: `README.md:242-248` of the prototype shows the server with it and the client without, so that the client's next run presents an identity the server has replaced. `Die` is a killed client process, whose connection the kernel closes, or a lost host, whose connection nobody closes.

**Fairness.** `Phase2`, `Phase3`, `Baseline`, `Inet` and `FuzzyExtractor` state safety only and assume none. `Swarm` assumes `WF_vars(Next)`: the kernel executes events as long as there are any, and time passes only up to the next one. That a message arrives at all is not assumed but follows, since in that medium nothing is lost: an arrival is an event. `Prototype` assumes weak fairness of the server process and of each client process (a process that can take a step takes one), and none for starting clients, restarting the server, killing or losing anything: a vanished client stays vanished.

## 4. The runs

| Run | Question | Instance |
|---|---|---|
| `phase2` | does the handshake keep key, nonces and transcript together, agree, strand no device and implement `KeyExchange`? | 1 device, 3 requests, 3 sessions, 2 enrolments, clock 0..3 with window 1, caches that forget nothing: 316,741 states |
| `phase2_evict` | does a grant of credentials change when the caches forget? | 2 devices, caches of capacity 1, no clock: 71,872 states |
| `phase2_lost_m4` | does a lost M4 never strand a device, as documented? **Violated.** | 1 device, 3 requests |
| `phase3` | does the responder complete only with an initiator that has completed, are keys stable under repeats, and does Phase 3 implement `PeerHandshake`? | 2 devices, 2 runs of Phase 2 and 3 nonces each, clock 0..2 with window 1: 287,397 states |
| `phase3_phantom` | does a device without Phase 2 hold no credentials? **Violated.** | 2 devices, 2 runs of Phase 2 each |
| `swarm` | which devices and pairs finish, without retransmission, under jitter, failing extractors and each interceptor, and do records and counters say so? | 3 devices started a tick apart, delay up to 1, `peerAuthStartTime` 2 (too early) and 7 (late enough), all four configurations |
| `swarm_replay` | are there no more attempts than devices that sent an M1, as the comment says? **Violated.** | 2 devices, replay configuration |
| `baseline` | who can be ahead of whom when the key is derived before it is verified, and does the baseline implement `KeyExchange`? | 2 devices, 2 requests and sessions for one of them, clock 0..2 with window 1, caches of capacity 1 |
| `inet` | are timers scheduled once, do counters and records agree, what strands a device, and are credentials granted as in Phase 2, when applications restart? | 3 devices, the middle one and the ground station restarted up to once: 930,602 states |
| `fuzzy_extractor` | is reproduction bounded-distance decoding, and does it give the enrolled key exactly where it should? | GF(2^4), n = 15, t = 2 and 3, 1 and 3 copies, every pattern of up to t + 1 errors: 25,476 states |
| `fe_params` | does the constructor compute the dimensions the header lists? **Violated.** | GF(2^8), the shipped profiles |
| `prototype` | do the files stay in step over crashes, does the pool pay for each rotation, and who waits for whom? | 2 devices, 3 client processes of one and 1 of the other, 2 pairs each, 1 crash, `--persist` on neither side, on the server, on both: about 520,000 states |

**Why the bounds are enough to be interesting.** Two requests suffice for the stranding of section 6, for an M4 of the first that arrives during the second and for a repeated M1 of an answered request; the third leaves room for each of these to happen after another complete handshake. Two enrolments are the least for an M4 of the earlier one to arrive late. A clock of three ticks with a window of one lets both timestamp checks be passed at their limit (`KeyIsRecent` is violated at two windows and one tick when a check is dropped) and lets messages go stale. In `phase3`, three nonces per device let a P1 arrive late after two newer handshakes; two runs of Phase 2 let credentials vanish under an open handshake and come back. The lower device drives the pair, as in the code; calls that cross are covered by the theorems alone, which leave `Drives` open. Capacity 9 exceeds the nonces that can be drawn; capacity 1 is the smallest cache that remembers anything and forgets it at the next message, which with `Window = 0` and no clock happens while the message is still fresh.

In `swarm`, three devices are the least for a device that drives one pair and answers in another, and for two devices' M1s to overtake each other; a delay bound of one tick against starts one tick apart lets a message of the first device arrive after one of the third. With `peerAuthStartTime` 2 the first device's P1 reaches devices that have no credentials; 7 is the least that `LateEnough` admits for these starts. In `inet`, device 1 of three is both an initiator and a responder, and restarting it and the ground station once each covers a message of before a restart arriving after it on either side. In `fuzzy_extractor` the small field keeps the shape of the three shipped profiles (the same t and fewer blocks without repetition, a larger t, and the blocks of the latter with repetition), so that, as with those, a helper made under the third passes the length checks of `rep` under the second although its code is another, and may even decode; t + 1 errors are the first pattern the decoder must refuse or get wrong, and `BoundedDistance` compares with an enumeration of all codewords, which GF(2^4) allows. `fe_params` is at full size. In `prototype`, three processes use up a pool of two and find it empty; the second device is the client that the first can block. One crash suffices to lose or tear a save, and a client process killed between `recv` and save is allowed at every run.

Of the properties, `KeyMatchesTranscript`, `EstablishedKeyAgreement`, `OneSessionPerRequest`, `KeyDroppedOnlyByNewRequest`, `OneAnswerPerP1` and `KeyDroppedOnlyByNewP1` rest on caches that have not forgotten: they fail under eviction. (`OneSessionPerRequest` and `OneAnswerPerP1`, which say that a request has one answer, are stated by theorems and belong to no run: the runs check what follows from them, that no agreed key is dropped. `RefinesPeerCredentials` of `Phase3` is likewise a theorem without a run.) `GsKeyHeldByUav`, the refinement, `TidNeverRollsBack`, `StrandedOnlyByM4OutOfStep`, `ResponderKeyHeldByInitiator`, `PeerKeyNeverRederived`, `KeysDifferOnlyByLookUp`, `RefinesPeerCredentials` and `RefinesPeerHandshake` do not need the caches at all. That split is itself a result: the caches protect against denial and confusion of sessions, while agreement on keys rests on the transcripts in the MACs and on the erased secrets.

What each remaining run shows, beyond that its properties hold. `swarm`: every device whose extractor works is authenticated, and every pair of such devices agrees on a session, if `peerAuthStartTime` leaves room for four messages after the last start; if it does not, the only pairs that never finish are those whose responder refused the P1, and the initiator is not told. `inet`: the success counter and the records agree except where a device that drives the pair was restarted, and losing messages alone never makes a device unknown. `baseline`: deriving before verifying lets an old B3 put the ground station ahead, and nothing else does. `prototype`: rotation without a pending copy costs at most one step between the two ends as long as the server saves, and the only thing a client can wait for in vain is a server blocked on a vanished host.

Deadlock checking is off everywhere: the bounded counters end every behaviour, and the protocol itself stops when nobody starts anything.

The properties, each with the comment that states it, stand at the end of the modules. `StrandedOnlyByM4OutOfStep` and `KeysDifferOnlyByLookUp` are deliberately exact: they say that the two defects below are the only ways to reach the bad state.

## 5. What is proved

The eight modules named `*Proofs` are checked by TLAPS for every value of the constants: any set of devices, any bounds, any window, any cache capacity (zero included), any initiation pattern, start times and delays, any configuration of the interceptor, any pool and any choice of `--persist`. The assumptions are those the modules declare with their constants (`Phase2Assumption` and its like). They type the constants, say that `None` is no key, identity, session, record or process, that the ground station is not a device and, in `Inet`, that its port is none of the devices' ports.

| Theorem | Says |
|---|---|
| `Phase2Proofs!TypeCorrect` | `Spec => []TypeOK` |
| `Phase2Proofs!Agreement` | the inductive invariant `AgreementInv` |
| `Phase2Proofs!KeyAgreement` | `Spec => []GsKeyHeldByUav` |
| `Phase2Proofs!NoRollback` | `Spec => TidNeverRollsBack` |
| `Phase2Proofs!Refinement` | `Spec => RefinesKeyExchange` |
| `Phase2SessionProofs!OutOfStep` | `Spec => []StrandedOnlyByM4OutOfStep` |
| `Phase2SessionProofs!RecentKeys` | `Spec => KeyIsRecent` |
| `Phase2SessionProofs!CredentialsRefined` | `Spec => RefinesPeerCredentials` |
| `Phase2SessionProofs!RequestsAnsweredOnce` | `NothingForgotten => (Spec => []OneSessionPerRequest)` |
| `Phase2SessionProofs!KeysMatchTranscripts` | the same for `KeyMatchesTranscript` |
| `Phase2SessionProofs!EstablishedKeysAgree` | the same for `EstablishedKeyAgreement` |
| `Phase2SessionProofs!AgreedKeysStay` | the same for the action property `KeyDroppedOnlyByNewRequest` |
| `Phase3Proofs!TypeCorrect` | `Spec => []TypeOK` |
| `Phase3Proofs!Agreement` | the inductive invariant of Phase 3 |
| `Phase3Proofs!ResponderAgreement` | `Spec => []ResponderKeyHeldByInitiator` |
| `Phase3Proofs!PeerKeyStable` | `Spec => PeerKeyNeverRederived` |
| `Phase3Proofs!KeysDiffer` | `Spec => []KeysDifferOnlyByLookUp` |
| `Phase3Proofs!CredentialsRefined` | `Spec => RefinesPeerCredentials` |
| `Phase3Proofs!HandshakeRefined` | `Spec => RefinesPeerHandshake` |
| `Phase3Proofs!P1AnsweredOnce` | `NothingForgotten => (Spec => []OneAnswerPerP1)` |
| `Phase3Proofs!PeerKeysStay` | with `NothingForgotten` and `OneDriver`: `Spec => KeyDroppedOnlyByNewP1` |
| `BaselineProofs!TypeCorrect` | `Spec => []TypeOK` |
| `BaselineProofs!Agreement` | the inductive invariant of the baseline |
| `BaselineProofs!AheadOnlyByOutdated` | `Spec => []AheadOnlyByOutdatedB3` |
| `BaselineProofs!Refinement` | `Spec => RefinesKeyExchange` |
| `BaselineProofs!Successes` | `Spec => []SuccessesCountConfirmations` |
| `SwarmProofs!TypeCorrect` | `Spec => []TypeOK` |
| `SwarmProofs!NoOtherWait` | `Spec => []WaitsOnlyForTheRefused` |
| `SwarmProofs!PairRecords` | `Spec => []RecordsOfPairAgree` |
| `SwarmProofs!SuccessCount` | `Spec => []SuccessesCountSessions` |
| `SwarmProofs!FailureCount` | `Spec => []FeFailuresExact` |
| `InetProofs!TypeCorrect` | `Spec => []TypeOK` |
| `InetProofs!TimersOnce` | `Spec => []TimersScheduledOnce` |
| `InetProofs!SuccessCount` | `Spec => []SuccessesMatchRecords` |
| `InetProofs!SharedSuccess` | `Spec => []ResponderSuccessIsShared` |
| `InetProofs!LossStrandsNobody` | `Spec => []LossAloneStrandsNobody` |
| `InetProofs!CredentialsRefined` | `Spec => RefinesPeerCredentials` |
| `PrototypeProofs!TypeCorrect` | `Spec => []TypeOK` |
| `PrototypeProofs!PoolPays` | `Spec => []PoolPaysForRotations` |
| `PrototypeProofs!InStep` | `Spec => []IdentitiesInStep` |

**The hypothesis about the caches.** `NothingForgotten` says that a cache has room for every nonce that can be offered to it: finitely many, and no more than `Capacity`. It holds in the runs `phase2` and `phase3` (capacity 9) and, in the code, as long as fewer than `ReplayCache::capacity` (4096 by default) nonces are offered to one object, which is every simulation in the repository. Without it the theorems that carry it are false: under the caches of capacity 1 of `phase2_evict` TLC violates their properties. `OneDriver` says that of two devices one starts the handshakes; `UavNode::startPhase3Round` (lines 121-122) calls only devices with a higher index. The other theorems need neither.

**The argument for Phase 2.** `GsKeyHeldByUav` relates the two ends, which never see each other's state, so it is not inductive. The link is the set of M3s. `DeviceInv`: as long as a device has the secret of its request it holds no key and its transcript has one input; so a key is derived at most once per request. `ConfirmInv`: for every M3 ever sent, its sender either still holds exactly the key that the M3's transcript determines, or is at a later request. `GroundInv`: the ground station's transcript is that of the nonces of its session, and a key it has completed is the key of some M3 of that device. `IdentityInv` supplies that the record's master key, with which `handleM3` derives, is the one that authenticated the M3, although a device may have been enrolled again in between. Together they give the property; the same invariant lets every step be mapped to a step or a stutter of `KeyExchange`. `TypeOK` alone is not inductive either: `Provisioned` adds that a provisioned device has an identity.

**The argument for the identity.** That `handleM4` never takes a device back rests on two further facts. `OfferedInv`: the identity an M4 carries is the one its key's nonces determine, so a device that opens the box with its session key can only be given one identity by that session. `HeldInv`: the identity held is older than the present request, or is just that one, which a repeated M4 then installs again. A new request makes it older, an enrolment starts again from the identity of no request; the caches play no part.

**The argument for devices out of step.** `StrandedOnlyByM4OutOfStep` is about a device and a ground station that may both have gone on since. What fixes their distance is the order of requests and answers, which `HistoryInv` records without any help from the caches: nonces of the ground station only grow, an M2 names a request that was made, an M3 a session that was opened. `LastInv`: an M4 the device can still open is the last one sent to it under the present enrolment, so what it carries is what the ground station keeps as pending. `AskedInv`: while the ground station waits for an M3 the device has not changed its identity, so a confirmation makes pending exactly what the device would hold after its M4. An identity unknown to the record is therefore one whose repair is that M4, or comes from an M4 of before an enrolment.

**The argument for recency.** Two windows are two checks at two moments, of two parties. `RecentInv`: an M1 of the device's present request bears the time that request has in the transcript, and an M2 that answers it was made within `Window` of that time, because `handleM1` checked it. `handleM2` checks that the M2 is no older than another `Window` when it derives. That transcripts begin with the request, and nonces of requests are never used again, is `HistoryInv`; the caches play no part.

**What the caches add.** `SpentInv` (both in `Phase2SessionProofs` and in `Phase3Proofs`): the cache holds each spent nonce once (`SpentOnce` of `FreshnessProofs`), every answered request is among them, and so, by counting, the cache is never full when a new nonce is offered. That a request has one answer follows; then `KeyInv`, that key, nonces and transcript of a device belong to the one M2 of its request, and `CommittedInv`, that a session which answers the present request is the one whose key the device confirmed. In Phase 3 the cache is shared with Phase 2, and the count includes the nonces of both.

**The argument for Phase 3.** The same shape as Phase 2 with P3: `SessionInv` (a session's nonce has been drawn, a session with its secret is not established, an initiator's request is that of its nonce), `ConfirmInv` (the sender of a P3 has completed it or has a newer session with that peer) and `ResponderInv` (a completed responder has such a P3). Crossing initiations and evicted nonces are included. `PeerKeyStable` follows from the same invariant: a session that still has its secret is not established, so a derivation never replaces an agreed key, and a handler that replaces a whole session has just drawn a newer nonce. `KeysDiffer` says which credential each side derived from: both authenticated with the pair's, so a difference of keys is a difference of the look-ups. For `PeerKeysStay`, `DriveInv` adds that a responder's session is with a device that starts handshakes with it; without `OneDriver` the responder may replace its session by starting one of its own.

**The argument for the credentials.** `PeerCredentials` allows one grant for a request, and the code opens an M4 as often as it arrives. In `Phase2` what saves it is that one session key seals one M4: `handleM3` erases the secret with which it derived, so it confirms a session once, and an M4 that opens again under the device's key carries the same peers and installs what is there. An established device therefore holds the credentials of the M4 of its present request, and every other M4 is refused by the key or the associated data. In `Phase3` the look-ups of `handleP2` and `handleP3` write into the same map, but only an empty entry where there is none, which grants nothing; a repeated M4 removes it. In `Inet` (`GrantInv`) a device has credentials only for a request whose M2 it has accepted, and they are for the enrolled.

**The argument for the peer handshake.** `HandshakeRefined` says more than the invariants before it, which compare two sessions at one moment: over the whole behaviour, one exchange is completed for a call, by the responder only after its initiator, and what is completed stays until a new call or answer. The mapping reads calls and completions off the sessions and the exchanges off the P2s and P3s ever sent. `HandshakeInv` supplies what no session records: a P1 is of a call that was made, a P2 bears a nonce its sender drew, so each answer is a new exchange; a P3, and the session of a responder, are of an exchange between just those two devices. That `handleP2` completes once for a call is `ConfirmInv`: a P3 of the present call would mean that the session is established, while one that still has its secret is not. Each handler is shown to be one step on one session (`CallStep`, `AnswerStep`, `ConfirmStep`, `AcceptStep`) or to leave every session's nonce and key as it was (`RestStep`): a `HandleP2` that finds the secret gone is such a stutter, and so is everything Phase 2 does. Neither the size of the caches nor who drives a pair enters.

**The argument for the baseline.** Deriving before verifying breaks the symmetry of the other two: the ground station may hold a key no device has. What remains is that each B3 bears the key of its sender's present request, completed, or of an earlier request, and that the ground station's session is that of a B1 its device sent. From a B3 of the present request the device's key follows; a session used up by another B3 leaves the outdated B3 that `AheadOnlyByOutdatedB3` names. In the refinement only confirmed keys are committed (those of a B4), so a derivation that is never confirmed is a stutter of `KeyExchange`. `Successes` counts the B4s sent (`CountInv`): a session with its secret has none yet, and a B4 belongs to this session or an earlier one.

**The argument for the simulation nodes.** `SwarmInv` follows a device from its start to the end of its handshakes. `MessageInv`: which messages can be in flight, from whom, to whom, and when by way of the interceptor. `StationInv`: what the ground station's session with a device implies of its records and of the M4 in flight, and that `authSuccesses_` is the number of confirmed sessions. `RoundInv`: a device starts its round once, and nothing of a pair it drives precedes that. `PairInv`: how far the two ends of a pair can be apart, with the P1, P2 or P3 in flight that explains the difference; `WaitsOnlyForTheRefused` itself is the part about an initiator that waits. `CountInv`: an M1 is in flight once or has been offered once, so attempts and devices agree as long as nobody repeats or withholds one.

**The argument for the INET applications.** A datagram of before a restart may arrive after it, at either end. `SessionInv` says what any datagram implies of the sessions it comes from, `OnceInv` that a request is accepted once and answered by one M4. Hence `Answered`: a device that has had the M4 of its present request gets no other, and the timer that only an M4 schedules is not scheduled again (`TimerInv`). `RoundInv` carries the same through to the round of peer handshakes, of which a device that was started once has one. `PairInv` then ties the two records of a pair and what is in flight between them, `CountInv` counts the successful ones, and `KnownInv` says that before any restart only the enrolled and the pending identity occur.

**The argument for the pool.** `PoolPaysForRotations` counts the pairs used against the nonces in the identity. It is not inductive: a confirmed exchange consumes the pair of `_pending` and appends one nonce, and the counts stay equal only if that pair had not been consumed before. `PoolInv` adds that an open exchange holds an unused pair (`_select_unused_crp` takes one, and only one exchange of a device is open), that nothing is pending while the server is down, and that the file never has a use the memory lacks, so a restart goes back to a state in which the counts agreed. `TypeOK` needs `RunsInv`: a running client has a connection of its own.

**The argument for the files of the prototype.** Nothing in the code compares the two files, and either process may die between any two writes. What keeps them in step is the order of service. `QueueInv`: the server takes the connections of a device in the order its runs opened them, so a device that has one in hand (waiting, or served up to msg3) has its latest in hand. A client saves only after a msg4, hence when none is (`ProcInv`); so a msg1 still to be read says what the client's file says (`MsgInv`), and `phase2_msg1` accepts it only if the server's record says the same (`OpensOwn`). A rotation therefore starts from equal identities. `IssuedInv`: from the msg4 until the client is done, record and file of the server are the identity the msg4 carries or the one before it, and a session the server still has is that exchange. `SavedInv` says where the server's file may lag behind its memory: the save is about to begin, or `handle_client` was interrupted before it by a client that had left. Then the device's file says what the server's file does, the device is refused, and so neither moves until the server restarts from its file. Without this the next rotation would put two steps between them. The proof goes through the cases of a step (`Refuses`, `Opens`, `Completes`, `Truncates`, `Saves` for the server, `Leaves`, `Replies`, `AcceptsMsg4`, `BeginsSave` for a client), each shown once to be what the actions do.

**Only model-checked:** the safety properties of `FuzzyExtractor`. **Out of the prover's reach:** liveness (`EveryDeviceAuthenticates`, `EveryPairCompletes`, `WaitsOnlyForTheVanished`) and `ENABLED`; what the recursive functions of `BchCodec` compute, on which all three properties of `FuzzyExtractor` rest and which would need induction over data. There are no `RECURSIVE` operators.

## 6. Where the code disagrees with its documentation

- **A lost M4 can strand a device** (`phase2_lost_m4`). `handleM3` overwrites `pendingTid` on every confirmed session (`Protocol.cc:354`) and nothing ever commits it into `tid`. After one complete handshake the device holds the pending identity; if it misses the M4 of the next confirmed session, its identity is neither current nor pending and every later M1 is answered with `UnknownIdentity`. `docs/spec-deviations.md:36`, the comment at `Protocol.cc:177` and `Protocol.h:73` ("committed on next M1") say otherwise. The first handshake after enrolment, which is the one the simulation runs, is not affected.
- **An empty credential appears out of a late P2 or P3** (`phase3_phantom`). `handleP2` and `handleP3` read `peerCredentials[peer]` with `operator[]`. When the device has restarted Phase 2 since the handshake began, the entry is missing and an empty one is created; the session key is derived from it, differs from the peer's, and the device can go on to start handshakes before Phase 2 is complete. `tests/test_protocol_offline.cc:379` claims that it holds no credentials. `KeysDifferOnlyByLookUp` shows that this is the only way two completed peers of one exchange can end with different keys. In the simulation, Phase 2 restarts on the same object only through the INET lifecycle.

- **More attempts than devices** (`swarm_replay`). `authAttempts_` counts every M1 that arrives (`GroundStationNode.cc:104`), the repeated one of the replay configuration included, while the comment at line 151 says that the rate derived from it "counts only devices that managed to send M1". `feReproductionFailures`, the number of devices minus the attempts, is then one too low, and -1 when no device failed. `FeFailuresExact` shows that it is right when nobody repeats an M1.
- **The header of the codec lists other dimensions** (`fe_params`). `BchCodec.h:24-27` gives parity 155 and 171 for t = 22 and 25 as "confirmed by independent computation"; the constructor computes 148 and 164, as the comment at `FuzzyExtractor.cc:29` says. The entropy budget of the profile with t = 25 is computed from the right figure.

Met on the way, without a run of their own: the comment at `BaselineSigAuth.h:32` has the ground station's signature cover T1, while what `handleM1` signs has only T2 (T1 is in the transcript the MACs cover). The final `isCodeword` of `decodeCodeword` (`BchCodec.cc:238`), meant to catch miscorrections, cannot: beyond t errors the decoder may land on another codeword, which passes; that is bounded-distance decoding, and `BoundedDistance` states it. The prototype's `README.md:242-248` starts the server with `--persist` and the client without, after which the client's second run is refused. `IdentitiesInStep` compares the files only when the server saves; when it does not, its file stays at the enrolled identity, and a client that does save is refused after the server's next start. `db = None`, a file torn by a crash, stops the server from starting, which no property forbids.

## 7. What is not modelled

- **PUF models, entropy statistics**: floating-point delays and random noise; numerical, outside TLA+. The fuzzy extractor takes any response and any noise.
- **Cryptographic suites, random generator, counters** (`src/crypto`): bit-level primitives with known-answer tests, and timings. The handshakes take them as symbolic.
- **Wire encoding**: a conversion that no property depends on; a message with a field missing or malformed is refused before it changes anything.
- **Control arms and test hooks** (`setLegacyNoGsAuth`, `injectPeerCredential`), which suspend the protocol on purpose.
- **Latencies, sizes and timings** in the nodes' records, the trace of the medium, the interceptor's own statistics.
- **Phase 3 of the prototype**: direct calls in one process, nothing kept; its experiments, exports and plots.
- **Scripts, papers, the Tamarin theory, tests**: read for what they claim.

What remains worth doing: the same for `Swarm` and for the Phase 3 inside `Inet`, whose sessions are compared with `PeerCredentials` and `PeerHandshake` by reading only. `PeerCredentials` does not say which peers a request is granted, only that they are enrolled; that these are all of them is in the definitions of the modules (`handleM3` seals a credential for every record).
