---------------------------- MODULE FuzzyExtractor ----------------------------
(***************************************************************************)
(* The code-offset fuzzy extractor (src/src/fe/FuzzyExtractor.cc): the     *)
(* ground station enrols a device's PUF response with gen, the device      *)
(* reproduces the master key from a noisy response with rep.               *)
(*                                                                         *)
(* Each of the two builds its extractor from its own feProfile.  A raw     *)
(* response is the set of its one bits, a block of it a word of BchCodec.  *)
(* The key derivation and the strong extractor are external: the first     *)
(* gives each seed and block the data of a codeword, the second is         *)
(* injective, so that a key is what it was extracted from.                 *)
(***************************************************************************)
EXTENDS BchCodec, Sequences

CONSTANTS
    Profiles,           \* the profiles a configuration may name
    Seeds,              \* extractor seeds
    CodewordData(_, _), \* the bits kdf derives from a seed for a block
    Responses,          \* reference responses of the PUF
    Noises(_),          \* what a measurement for a profile may flip
    None                \* not enrolled, no result, no key

VARIABLES
    gsProfile,  \* the ground station's feProfile
    profile,    \* the device's
    response,   \* the device's reference response
    helper,     \* the HelperData it holds, or None
    mk,         \* the master key enrolled, or None
    flipped,    \* the bits flipped in its last measurement
    result      \* RepResult of the last reproduction, or None

vars == <<gsProfile, profile, response, helper, mk, flipped, result>>
-----------------------------------------------------------------------------
Profile == [t : Radii, numBlocks : Nat, repFactor : {1, 3}]

\* The constructor throws on any other.
Constructs(p) ==
    /\ p.repFactor \in {1, 3} /\ p.numBlocks >= 1
    /\ IsBinary(p.t) /\ K(p.t) > 0
    /\ MeetsBudget(p)

OuterBits(p) == p.numBlocks * n
RequiredPufBits(p) == OuterBits(p) * p.repFactor
BytesForBits(bits) == (bits + 7) \div 8

\* evaluateReference and evaluateNoisy give the bits asked for.
Evaluate(puf, p) == puf \cap (0 .. RequiredPufBits(p) - 1)

\* Bit i of the packed block is degree n-1-i.  (In the mutant it is n-i.)
MutantExtractBlock(all, b) == {n-i : i \in {j \in 0 .. n-1 : (b-1)*n + j \in all}}
ExtractBlock(all, b) == {n-1-i : i \in {j \in 0 .. n-1 : (b-1)*n + j \in all}}

\* The key is what it is extracted from.
Extract(seed, blocks) == [seed |-> seed, blocks |-> blocks]
-----------------------------------------------------------------------------
(* The repetition code: rep copies of each outer bit *)

RepetitionEncodeOffsets(raw, bits, rep) ==
    {i*(rep-1) + r-1 : <<i, r>> \in {c \in (0 .. bits-1) \X (1 .. rep-1) :
        (c[1]*rep + c[2] \in raw) # (c[1]*rep \in raw)}}

RepetitionReference(raw, bits, rep) == {i \in 0 .. bits-1 : i*rep \in raw}

\* Copy r of bit i with its published offset undone.  (In the mutant the
\* offsets are not undone.)
MutantCopy(raw, offsets, rep, i, r) == i*rep + r \in raw
Copy(raw, offsets, rep, i, r) ==
    (i*rep + r \in raw) # (r > 0 /\ i*(rep-1) + r-1 \in offsets)

RepetitionDecodeWithOffsets(raw, offsets, bits, rep) ==
    {i \in 0 .. bits-1 :
        2 * Cardinality({r \in 0 .. rep-1 : Copy(raw, offsets, rep, i, r)}) > rep}
-----------------------------------------------------------------------------
\* gen: the helper data and the key.
Gen(p, raw, seed) ==
    LET outer == IF p.repFactor = 1 THEN raw
                 ELSE RepetitionReference(raw, OuterBits(p), p.repFactor)
        offsets == RepetitionEncodeOffsets(raw, OuterBits(p), p.repFactor)
        data(b) == CodewordData(seed, b) \cap (0 .. K(p.t) - 1)
        blocks == [b \in 1 .. p.numBlocks |-> ExtractBlock(outer, b)]
    IN  [helper |-> [seed |-> seed, offsets |-> offsets,
             offsetBytes |-> BytesForBits(OuterBits(p) * (p.repFactor - 1)),
             sketch |-> [b \in 1 .. p.numBlocks |->
                 SymDiff(blocks[b], EncodeCodeword(data(b), p.t))]],
         mk |-> Extract(seed, blocks)]

\* The helper has the lengths that profile p asks for.
Fits(p, h) ==
    /\ Len(h.sketch) = p.numBlocks
    /\ p.repFactor > 1 =>
           h.offsetBytes = BytesForBits(OuterBits(p) * (p.repFactor - 1))

\* The noisy codewords: c XOR e of each block.
NoisyCodewords(p, noisy, h) ==
    LET outer == IF p.repFactor = 1 THEN noisy ELSE RepetitionDecodeWithOffsets(
                     noisy, h.offsets, OuterBits(p), p.repFactor)
    IN  [b \in 1 .. p.numBlocks |-> SymDiff(ExtractBlock(outer, b), h.sketch[b])]

\* rep keeps no key unless every block decoded.  (In the mutant a block that
\* fails is left as it was measured.)
MutantRecovered(w, t) ==
    LET r == DecodeCodeword(w, t)
    IN  IF r.ok THEN r ELSE [ok |-> TRUE, word |-> w, errors |-> 0]
Recovered(w, t) == DecodeCodeword(w, t)

\* rep
Rep(p, noisy, h) ==
    LET words == NoisyCodewords(p, noisy, h)
        decoded == [b \in 1 .. p.numBlocks |-> Recovered(words[b], p.t)]
        failed == {b \in 1 .. p.numBlocks : ~decoded[b].ok}
        blocks == [b \in 1 .. p.numBlocks |-> SymDiff(h.sketch[b], decoded[b].word)]
    IN  IF ~Fits(p, h) THEN [ok |-> FALSE, mk |-> None, blocksFailed |-> 0]
        ELSE [ok |-> failed = {}, blocksFailed |-> Cardinality(failed),
              mk |-> IF failed = {} THEN Extract(h.seed, blocks) ELSE None]
-----------------------------------------------------------------------------
Init ==
    /\ gsProfile \in {p \in Profiles : Constructs(p)}
    /\ profile \in {p \in Profiles : Constructs(p)}
    /\ response \in Responses
    /\ helper = None /\ mk = None /\ flipped = {} /\ result = None

\* GroundStationProtocol::enroll and provision
Enroll(seed) ==
    /\ helper = None
    /\ LET gen == Gen(gsProfile, Evaluate(response, gsProfile), seed)
       IN  helper' = gen.helper /\ mk' = gen.mk
    /\ UNCHANGED <<gsProfile, profile, response, flipped, result>>

\* UavProtocol::regenerateMasterKey.  It keeps no state, so that one
\* reproduction of each enrolment is enough.
RegenerateMasterKey ==
    /\ helper # None /\ result = None
    /\ flipped' \in Noises(profile)
    /\ result' = Rep(profile, Evaluate(SymDiff(response, flipped'), profile), helper)
    /\ UNCHANGED <<gsProfile, profile, response, helper, mk>>

Next ==
    \/ \E seed \in Seeds : Enroll(seed)
    \/ RegenerateMasterKey

Spec == Init /\ [][Next]_vars
-----------------------------------------------------------------------------
(* Safety *)

Key == [seed : Seeds, blocks : Seq(Word)]

TypeOK ==
    /\ gsProfile \in Profile /\ profile \in Profile
    /\ \/ helper = None /\ mk = None
       \/ /\ helper.seed \in Seeds
          /\ helper.sketch \in [1 .. gsProfile.numBlocks -> Word]
          /\ mk \in Key
    /\ result = None \/ result.mk \in Key \cup {None}

\* The outer bits of block b that most of their copies give wrongly.
WrongBits(b) ==
    {i \in (b-1)*n .. b*n - 1 : 2 * Cardinality({r \in 0 .. profile.repFactor - 1 :
        i * profile.repFactor + r \in flipped}) > profile.repFactor}

\* Where both sides use one profile, the device has the enrolled key whenever
\* no block has more than t bits that the majority of its copies gives wrongly,
\* wherever those bits and copies lie.
KeyReproduced ==
    result # None /\ gsProfile = profile
    /\ (\A b \in 1 .. profile.numBlocks : Cardinality(WrongBits(b)) <= profile.t)
    => result.ok /\ result.mk = mk

\* The codewords of each codec, by its encoder.
Codewords ==
    [t \in Radii |-> {EncodeCodeword(d, t) : d \in SUBSET (0 .. K(t) - 1)}]

\* rep is bounded-distance decoding: whatever was measured, and under whatever
\* profile the helper was made, a block is given up exactly when no codeword is
\* within t of it, any such block leaves no key, and the key is otherwise that
\* of the one codeword near each block.
BoundedDistance ==
    result # None /\ Fits(profile, helper) =>
        LET noisy == Evaluate(SymDiff(response, flipped), profile)
            words == NoisyCodewords(profile, noisy, helper)
            near == [b \in 1 .. profile.numBlocks |->
                {c \in Codewords[profile.t] :
                    Cardinality(SymDiff(c, words[b])) <= profile.t}]
            failed == {b \in 1 .. profile.numBlocks : near[b] = {}}
        IN  /\ result.blocksFailed = Cardinality(failed)
            /\ result.ok <=> failed = {}
            /\ ~result.ok => result.mk = None
            /\ result.ok => \A b \in 1 .. profile.numBlocks :
                   near[b] = {SymDiff(helper.sketch[b], result.mk.blocks[b])}
=============================================================================
