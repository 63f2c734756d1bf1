--------------------------- MODULE MCFuzzyExtractor ---------------------------
(***************************************************************************)
(* An instance of FuzzyExtractor over GF(2^4) with the shape of the        *)
(* shipped profiles, and one whose entropy budget is not met.  As with the *)
(* shipped ones, a helper made under the profile with repetition has the   *)
(* lengths that the one of larger t asks for, whose code is another.       *)
(***************************************************************************)
EXTENDS FuzzyExtractor

MCPrimPoly == {0, 1, 4}
MCProfiles ==
    {[t |-> 2, numBlocks |-> 2, repFactor |-> 1],
     [t |-> 3, numBlocks |-> 3, repFactor |-> 1],
     [t |-> 3, numBlocks |-> 2, repFactor |-> 1],
     [t |-> 2, numBlocks |-> 3, repFactor |-> 3]}
MCSeeds == {1}
MCCodewordData(seed, b) == {i \in 0 .. 7 : (3*i + seed + b) % 4 < 2}
MCResponses == {{i \in 0 .. 134 : (i*i + i \div 6) % 7 < 3}}

\* Up to t + 1 outer bits of the first block, in some of their copies, and none
\* or t of the second, in all.
MCNoises(p) ==
    LET copies == IF p.repFactor = 1 THEN {{0}} ELSE {{1}, {0, 2}, {1, 2}}
        raw(E, C) == {i * p.repFactor + r : i \in E, r \in C}
        first == UNION {kSubset(w, 0 .. n-1) : w \in 0 .. p.t + 1}
        second == {{}, {n + 2*i + 1 : i \in 1 .. p.t}}
    IN  {raw(E, C) \cup raw(F, 0 .. p.repFactor - 1) :
            E \in first, C \in copies, F \in second}
=============================================================================
