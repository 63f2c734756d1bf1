------------------------------- MODULE FeParams -------------------------------
(***************************************************************************)
(* The parameters of the fuzzy extractor: the dimensions of its BCH code   *)
(* (the constructor of BchCodec.cc), its profiles and their entropy budget *)
(* (FuzzyExtractor.cc).                                                    *)
(***************************************************************************)
EXTENDS Integers, FiniteSets

CONSTANTS
    M,              \* the codec's field is GF(2^M): 8 in the code
    RatePercent,    \* assumedMinEntropyRate
    RequiredBits    \* keyBits + 2 epsLog2

ASSUME FeAssumption == M \in Nat \ {0} /\ RatePercent \in Nat /\ RequiredBits \in Nat

n == 2^M - 1                    \* n_

\* The exponents of the roots of g(x): the conjugate closure of 1 .. 2t.
Roots(t) == {(i * 2^j) % n : i \in 1 .. 2*t, j \in 0 .. M-1}
ParityBits(t) == Cardinality(Roots(t))
K(t) == n - ParityBits(t)       \* k_

\* FeParams::profile
ShippedProfiles ==
    {[t |-> 18, numBlocks |-> 4, repFactor |-> 1],
     [t |-> 25, numBlocks |-> 5, repFactor |-> 1],
     [t |-> 18, numBlocks |-> 5, repFactor |-> 3]}

\* residualEntropyBits against requiredEntropyBits, in hundredths of a bit
ResidualEntropy(p) == p.numBlocks * (RatePercent * n - 100 * ParityBits(p.t))
MeetsBudget(p) == ResidualEntropy(p) >= 100 * RequiredBits
=============================================================================
