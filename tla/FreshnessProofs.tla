--------------------------- MODULE FreshnessProofs ---------------------------
(***************************************************************************)
(* What the replay cache does for the handlers, for every capacity: it     *)
(* stays well-formed, and one that is large enough for all the nonces that *)
(* can be offered to it never forgets one.                                 *)
(***************************************************************************)
EXTENDS Freshness, FiniteSetTheorems, SequenceTheorems, TLAPS

\* A replay cache stays a sequence of nonces whatever its capacity.
LEMMA RememberType ==
    ASSUME NEW S, NEW cache \in Seq(S), NEW nonce \in S, NEW capacity \in Nat
    PROVE  Remember(cache, nonce, capacity) \in Seq(S)
<1>1. Append(cache, nonce) \in Seq(S) /\ Append(cache, nonce) # <<>>
    BY AppendProperties
<1>2. Tail(Append(cache, nonce)) \in Seq(S)
    BY <1>1, HeadTailProperties
<1> QED
    BY <1>1, <1>2 DEF Remember

-----------------------------------------------------------------------------
\* A cache of nonces of S, each of them spent once.
SpentOnce(cache, S) == cache \in Seq(S) /\ IsInjective(cache)

LEMMA EmptyCache ==
    ASSUME NEW S
    PROVE  SpentOnce(<<>>, S) /\ \A x : ~Remembers(<<>>, x)
BY DEF SpentOnce, IsInjective, Remembers, Range

\* Only as many nonces of S as S has are in the cache, and an unspent one is
\* missing.
LEMMA RoomForUnspent ==
    ASSUME NEW S, IsFiniteSet(S), NEW cache, SpentOnce(cache, S),
           NEW nonce \in S, ~Remembers(cache, nonce)
    PROVE  Len(cache) + 1 <= Cardinality(S)
<1> DEFINE T == S \ {nonce}
<1>1. IsFiniteSet(T) /\ Cardinality(T) = Cardinality(S) - 1 /\ Cardinality(S) \in Nat
    BY FS_RemoveElement, FS_CardinalityType
<1>2. cache \in [1 .. Len(cache) -> T] /\ Len(cache) \in Nat
    BY DEF SpentOnce, Remembers, Range
<1>3. cache \in Injection(1 .. Len(cache), T)
    BY <1>2 DEF SpentOnce, Injection
<1> HIDE DEF T
<1>4. Cardinality(1 .. Len(cache)) <= Cardinality(T)
    BY <1>1, <1>3, FS_Injection
<1>5. Cardinality(1 .. Len(cache)) = Len(cache)
    <2>1. /\ Len(cache) \in Int /\ 1 \in Int
          /\ Len(cache) >= 0
        BY <1>2
    <2>2. Cardinality(1 .. Len(cache)) =
              IF 1 > Len(cache) THEN 0 ELSE Len(cache) - 1 + 1
        BY <2>1, FS_Interval
    <2> QED
        BY <2>1, <2>2
<1> QED
    BY <1>1, <1>2, <1>4, <1>5

\* A cache with room for every nonce of S adds the new one and keeps the rest
\* (ReplayCache::offer never evicts).
LEMMA RememberAll ==
    ASSUME NEW S, IsFiniteSet(S), NEW capacity \in Nat,
           Cardinality(S) <= capacity, NEW cache, SpentOnce(cache, S),
           NEW nonce \in S, ~Remembers(cache, nonce)
    PROVE  /\ SpentOnce(Remember(cache, nonce, capacity), S)
           /\ \A x : Remembers(Remember(cache, nonce, capacity), x) <=>
                         Remembers(cache, x) \/ x = nonce
<1> DEFINE grown == Append(cache, nonce)
<1>1. cache \in Seq(S) /\ Len(cache) \in Nat /\ Cardinality(S) \in Nat
    BY FS_CardinalityType DEF SpentOnce
<1>2. /\ grown \in Seq(S)
      /\ Len(grown) = Len(cache) + 1
      /\ \A i \in 1 .. Len(cache) : grown[i] = cache[i]
      /\ grown[Len(cache) + 1] = nonce
    BY <1>1, AppendProperties
<1> HIDE DEF grown
<1>3. Len(grown) <= capacity
    BY <1>1, <1>2, RoomForUnspent
<1>4. Remember(cache, nonce, capacity) = grown
    BY <1>1, <1>2, <1>3 DEF Remember, grown
<1>5. DOMAIN grown = 1 .. Len(cache) + 1 /\ DOMAIN cache = 1 .. Len(cache)
    BY <1>1, <1>2
<1>6. \A i \in 1 .. Len(cache) : cache[i] # nonce
    BY <1>5 DEF Remembers, Range
<1>7. IsInjective(grown)
    <2> SUFFICES ASSUME NEW i \in 1 .. Len(cache) + 1,
                        NEW j \in 1 .. Len(cache) + 1, grown[i] = grown[j]
                 PROVE  i = j
        BY <1>5 DEF IsInjective
    <2>1. CASE i = Len(cache) + 1 \/ j = Len(cache) + 1
        BY <1>1, <1>2, <1>6, <2>1
    <2>2. CASE i # Len(cache) + 1 /\ j # Len(cache) + 1
        <3>1. i \in 1 .. Len(cache) /\ j \in 1 .. Len(cache)
            BY <1>1, <2>2
        <3>2. cache[i] = cache[j]
            BY <1>2, <3>1
        <3> QED
            BY <1>5, <3>1, <3>2 DEF SpentOnce, IsInjective
    <2> QED
        BY <2>1, <2>2
<1>8. \A x : Remembers(grown, x) <=> Remembers(cache, x) \/ x = nonce
    <2> TAKE x
    <2>1. Remembers(grown, x) <=> \E i \in 1 .. Len(cache) + 1 : grown[i] = x
        BY <1>5 DEF Remembers, Range
    <2>2. Remembers(cache, x) <=> \E i \in 1 .. Len(cache) : cache[i] = x
        BY <1>5 DEF Remembers, Range
    <2> QED
        BY <1>1, <1>2, <2>1, <2>2
<1> QED
    BY <1>2, <1>4, <1>7, <1>8 DEF SpentOnce
=============================================================================
