------------------------------- MODULE BchCodec -------------------------------
(***************************************************************************)
(* The binary BCH codec of the fuzzy extractor (src/src/fe/BchCodec.cc).   *)
(*                                                                         *)
(* A bit vector is the set of its ones, so that exclusive or is SymDiff.   *)
(* A word of n bits is a set of degrees, bit i of the packed word being    *)
(* degree n - 1 - i.  An element of GF(2^M) is its logarithm: alpha^i is   *)
(* i, and zero is n.  A polynomial over GF(2^M) is a function from         *)
(* degrees, zero-padded.                                                   *)
(***************************************************************************)
EXTENDS FeParams, FiniteSetsExt

CONSTANTS
    PrimPoly,   \* primPoly_, as the set of its exponents
    Radii       \* the values of t that codecs are built with

Word == SUBSET (0 .. n-1)
Element == 0 .. n
Zero == n
One == 0

ASSUME BchAssumption == /\ PrimPoly \subseteq 0 .. M
                        /\ Radii \subseteq 1 .. 30
-----------------------------------------------------------------------------
(* The field *)

\* expTable_ and logTable_: alpha^i as the set of its powers of x, and back.
ExpTable ==
    LET exp[i \in 0 .. n-1] ==
            IF i = 0 THEN {0} ELSE
            LET shifted == {e + 1 : e \in exp[i-1]}
            IN  IF M \in shifted THEN SymDiff(shifted, PrimPoly) ELSE shifted
    IN  [i \in 0 .. n-1 |-> exp[i]]
Exp(a) == IF a = Zero THEN {} ELSE ExpTable[a]
Log(x) == IF x = {} THEN Zero ELSE CHOOSE i \in 0 .. n-1 : ExpTable[i] = x

\* primPoly_ is primitive: the powers of x are the whole field but zero.
ASSUME PrimitiveAssumption ==
    {ExpTable[i] : i \in 0 .. n-1} = SUBSET (0 .. M-1) \ {{}}

GfMul(a, b) == IF Zero \in {a, b} THEN Zero ELSE (a + b) % n
GfInv(a) == (n - a) % n
GfPow(a, e) == IF a = Zero THEN Zero ELSE (a * e) % n

\* The sum of the terms, a function: each bit is the parity of its ones.
GfSum(terms) ==
    LET x == [i \in DOMAIN terms |-> Exp(terms[i])]
    IN  Log({e \in 0 .. M-1 : Cardinality({i \in DOMAIN x : e \in x[i]}) % 2 = 1})
GfAdd(a, b) ==
    IF a = Zero THEN b ELSE IF b = Zero THEN a ELSE Log(SymDiff(Exp(a), Exp(b)))
-----------------------------------------------------------------------------
(* The constructor *)

\* The product of (x - alpha^r) over the roots, for each t.
GeneratorOverField ==
    [t \in Radii |->
        LET degrees == 0 .. Cardinality(Roots(t))
            times(r, g) == [d \in degrees |->
                GfAdd(GfMul(g[d], r), IF d = 0 THEN Zero ELSE g[d-1])]
        IN  FoldSet(times, [d \in degrees |-> IF d = 0 THEN One ELSE Zero], Roots(t))]

\* generator_, of degree parityBits_; a coefficient beyond GF(2) throws.
IsBinary(t) == \A d \in 0 .. Cardinality(Roots(t)) :
    GeneratorOverField[t][d] \in {Zero, One}
Generator(t) ==
    {d \in 0 .. Cardinality(Roots(t)) : GeneratorOverField[t][d] = One}
-----------------------------------------------------------------------------
(* Encoding: data is the set of the ones of the k message bits *)

\* The remainder of m(x) x^(n-k) by g(x), by shift register, highest degree
\* first.
EncodeParity(data, t) ==
    LET degG == ParityBits(t)
        g == Generator(t) \ {degG}
        register[i \in 0 .. K(t)] ==
            IF i = 0 THEN {} ELSE
            LET before == register[i-1]
                feedback == (i-1 \in data) # (degG-1 \in before)
                shifted == {j + 1 : j \in before \ {degG-1}}
            IN  IF feedback THEN SymDiff(shifted, g) ELSE shifted
    IN  register[K(t)]

EncodeCodeword(data, t) == {n-1-i : i \in data} \cup EncodeParity(data, t)
-----------------------------------------------------------------------------
(* Decoding *)

\* S_j, one of computeSyndromes
Syndrome(word, j) == GfSum([d \in word |-> GfPow(j % n, d)])

IsCodeword(word, t) == \A j \in 1 .. 2*t : Syndrome(word, j) = Zero

\* Berlekamp-Massey after r syndromes: the shortest register that makes them.
BerlekampMassey(syn, t) ==
    LET degrees == 0 .. 2*t
        poly1 == [d \in degrees |-> IF d = 0 THEN One ELSE Zero]
        start == [lambda |-> poly1, prev |-> poly1, L |-> 0, m |-> 1, b |-> One]
        after[r \in 0 .. 2*t] ==
            IF r = 0 THEN start ELSE
            LET s == after[r-1]
                delta == GfSum([i \in 0 .. s.L |->
                    IF r-i >= 1 THEN GfMul(s.lambda[i], syn[r-i]) ELSE Zero])
                coeff == GfMul(delta, GfInv(s.b))
                lambda == [d \in degrees |-> IF d < s.m THEN s.lambda[d]
                    ELSE GfAdd(s.lambda[d], GfMul(coeff, s.prev[d - s.m]))]
            IN  IF delta = Zero THEN [s EXCEPT !.m = @ + 1]
                ELSE IF 2 * s.L <= r-1
                THEN [lambda |-> lambda, prev |-> s.lambda, L |-> r - s.L,
                      m |-> 1, b |-> delta]
                ELSE [s EXCEPT !.lambda = lambda, !.m = @ + 1]
    IN  after[2*t]

\* Chien search: the degrees d with lambda(alpha^-d) = 0.
ErrorPositions(lambda) ==
    {d \in 0 .. n-1 : GfSum([j \in DOMAIN lambda |->
        GfMul(lambda[j], (-j * d) % n)]) = Zero}

\* decodeCodeword: the corrected word and the errors corrected, or a failure.
Failure == [ok |-> FALSE]
DecodeCodeword(word, t) ==
    LET syn == [j \in 1 .. 2*t |-> Syndrome(word, j)]
        bm == BerlekampMassey(syn, t)
        errors == ErrorPositions(bm.lambda)
        corrected == SymDiff(word, errors)
    IN  IF \A j \in 1 .. 2*t : syn[j] = Zero
        THEN [ok |-> TRUE, word |-> word, errors |-> 0]
        ELSE IF /\ bm.L <= t
                /\ errors # {} /\ Cardinality(errors) = bm.L
                /\ IsCodeword(corrected, t)
        THEN [ok |-> TRUE, word |-> corrected, errors |-> Cardinality(errors)]
        ELSE Failure
=============================================================================
