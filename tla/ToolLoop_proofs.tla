----------------------------- MODULE ToolLoop_proofs -----------------------------
(***************************************************************************)
(* For every number of turns, calls, runs and rows: the prompt rebuilt for *)
(* a strict provider honours the contract of calls and results, and the    *)
(* prompt rebuilt for a local one extends what that provider has in its    *)
(* cache.                                                                  *)
(*                                                                         *)
(* The first half is about sequences.  A filter, Keep, is the sequence     *)
(* composed with the increasing enumeration of the indices it keeps; so it *)
(* preserves `the results of a turn follow it', which the rows have and    *)
(* the two passes of stripOrphanedToolCalls turn into the contract.        *)
(*                                                                         *)
(* The second half is the inductive invariant.  For the contract it says   *)
(* that a result is written while its turn is the last thing on the        *)
(* session but for results and copies; calls are dated by run and turn, so *)
(* no old turn declares a new call.  For the cache it says what the rows   *)
(* show at every place of a run: the cache holds the first messages that   *)
(* they show, the prompt in memory all of them.                            *)
(***************************************************************************)
EXTENDS ToolLoop, FiniteSetTheorems, WellFoundedInduction, SequenceTheorems, TLAPS

-----------------------------------------------------------------------------
(* The rank of n among the indices in I, and the index of rank k. *)
Upto(I, n) == {j \in I : j <= n}
Rank(I, n) == Cardinality(Upto(I, n))
Nth(I, k) == CHOOSE i \in I : Rank(I, i) = k

Indices(I) == \A i \in I : i \in Nat /\ i >= 1

(* A rank is a number.                                                      *)
LEMMA RankFinite ==
    ASSUME NEW I, Indices(I), NEW n \in Nat
    PROVE  IsFiniteSet(Upto(I, n)) /\ Rank(I, n) \in Nat
<1>1. Upto(I, n) \in SUBSET Nat /\ \A j \in Upto(I, n) : j <= n
  BY DEF Upto, Indices
<1>2. IsFiniteSet(Upto(I, n))
  BY <1>1, FS_BoundedSetOfNaturals
<1>. QED BY <1>2, FS_CardinalityType DEF Rank

(* No index is smaller than one.                                            *)
LEMMA RankZero == ASSUME NEW I, Indices(I) PROVE Rank(I, 0) = 0
<1>1. Upto(I, 0) = {}
  BY DEF Indices, Upto
<1>. QED BY <1>1, FS_EmptySet DEF Rank

(* The rank grows with each index that is kept,                             *)
LEMMA RankNext ==
    ASSUME NEW I, Indices(I), NEW n \in Nat, n >= 1
    PROVE  Rank(I, n) = IF n \in I THEN Rank(I, n - 1) + 1 ELSE Rank(I, n - 1)
<1>1. n - 1 \in Nat /\ IsFiniteSet(Upto(I, n - 1))
  <2>1. n - 1 \in Nat
    OBVIOUS
  <2>. QED BY <2>1, RankFinite
<1>2. CASE n \in I
  <2>1. Upto(I, n) = Upto(I, n - 1) \cup {n} /\ n \notin Upto(I, n - 1)
    <3>1. ASSUME NEW j \in I PROVE j <= n <=> j <= n - 1 \/ j = n
      BY DEF Indices
    <3>2. ~(n <= n - 1)
      OBVIOUS
    <3>. QED BY <1>2, <3>1, <3>2, Zenon DEF Upto
  <2>. QED BY <1>1, <1>2, <2>1, FS_AddElement DEF Rank
<1>3. CASE n \notin I
  <2>1. Upto(I, n) = Upto(I, n - 1)
    <3>1. ASSUME NEW j \in I PROVE j <= n <=> j <= n - 1
      BY <1>3 DEF Indices
    <3>. QED BY <3>1 DEF Upto
  <2>. QED BY <1>3, <2>1 DEF Rank
<1>. QED BY <1>2, <1>3

(* is strictly monotone on the indices kept                                 *)
LEMMA RankLess ==
    ASSUME NEW I, Indices(I), NEW i \in Nat, NEW j \in I, i < j
    PROVE  Rank(I, i) < Rank(I, j)
<1>1. j \in Nat
  BY DEF Indices
<1>2. IsFiniteSet(Upto(I, j)) /\ Upto(I, i) \in SUBSET Upto(I, j)
  <2>1. \A l \in I : l <= i => l <= j
    BY <1>1 DEF Indices
  <2>. QED BY <1>1, <2>1, RankFinite DEF Upto
<1>3. j \in Upto(I, j) /\ j \notin Upto(I, i)
  BY <1>1 DEF Upto
<1>4. Rank(I, i) <= Rank(I, j) /\ Rank(I, i) # Rank(I, j)
  BY <1>2, <1>3, FS_Subset DEF Rank
<1>. QED BY <1>1, <1>4, RankFinite

(* and monotone elsewhere.                                                  *)
LEMMA RankMonotone ==
    ASSUME NEW I, Indices(I), NEW i \in Nat, NEW j \in Nat, i <= j
    PROVE  Rank(I, i) <= Rank(I, j)
<1>1. IsFiniteSet(Upto(I, j)) /\ Upto(I, i) \in SUBSET Upto(I, j)
  BY RankFinite DEF Indices, Upto
<1>. QED BY <1>1, FS_Subset DEF Rank

(* An index kept is found by its rank.                                      *)
LEMMA NthOfRank ==
    ASSUME NEW I, Indices(I), NEW i \in I
    PROVE  Nth(I, Rank(I, i)) = i
<1>1. \A j \in I : Rank(I, j) = Rank(I, i) => j = i
  <2>. TAKE j \in I
  <2>1. i \in Nat /\ j \in Nat /\ Rank(I, i) \in Nat /\ Rank(I, j) \in Nat
    BY RankFinite DEF Indices
  <2>2. j < i => Rank(I, j) < Rank(I, i)
    BY <2>1, RankLess
  <2>3. i < j => Rank(I, i) < Rank(I, j)
    BY <2>1, RankLess
  <2>. QED BY <2>1, <2>2, <2>3
<1>. QED BY <1>1 DEF Nth

(* The principle of the least number.                                       *)
LEMMA Smallest ==
    ASSUME NEW S \in SUBSET Nat, S # {}
    PROVE  \E m \in S : \A n \in S : m <= n
<1>1. IsWellFoundedOn(OpToRel(<, Nat), Nat)
  BY NatLessThanWellFounded
<1>2. PICK m \in S : \A n \in S : ~(<<n, m>> \in OpToRel(<, Nat))
  BY <1>1, WFMin
<1>3. \A n \in S : ~(n < m)
  BY <1>2 DEF OpToRel
<1>. QED BY <1>3

(* Every rank occurs. *)
LEMMA RankOnto ==
    ASSUME NEW I, Indices(I), NEW n \in Nat, NEW k \in Nat, 1 <= k, k <= Rank(I, n)
    PROVE  \E i \in I : i <= n /\ Rank(I, i) = k
<1>. DEFINE S == {m \in Nat : k <= Rank(I, m)}
<1>1. PICK m \in S : \A l \in S : m <= l
  <2>. HIDE DEF S
  <2>1. S \in SUBSET Nat /\ S # {}
    BY DEF S
  <2>. QED BY <2>1, Smallest
<1>2. m \in Nat /\ k <= Rank(I, m) /\ m <= n
  BY <1>1
<1>3. m # 0
  BY <1>2, RankZero
<1>4. m - 1 \in Nat /\ m - 1 \notin S /\ m >= 1
  BY <1>1, <1>2, <1>3
<1>5. Rank(I, m - 1) \in Nat /\ Rank(I, m) \in Nat /\ Rank(I, m - 1) < k
  BY <1>2, <1>4, RankFinite
<1>6. m \in I /\ Rank(I, m) = Rank(I, m - 1) + 1
  BY <1>2, <1>4, <1>5, RankNext
<1>. QED BY <1>2, <1>5, <1>6

(* The kept ones among the first n elements of s. *)
Kept(s, I, n) == [k \in 1..Rank(I, n) |-> s[Nth(I, k)]]

(* The closed form satisfies the recursion.                                 *)
LEMMA KeptNext ==
    ASSUME NEW T, NEW s \in Seq(T), NEW I, Indices(I), NEW n \in 1..Len(s)
    PROVE  Kept(s, I, n) = IF n \in I THEN Append(Kept(s, I, n - 1), s[n]) ELSE Kept(s, I, n - 1)
<1>1. n \in Nat /\ n >= 1 /\ n - 1 \in Nat
  OBVIOUS
<1>2. CASE n \notin I
  BY <1>1, <1>2, RankNext DEF Kept
<1>3. CASE n \in I
  <2>. DEFINE r == Rank(I, n - 1)
              new == Kept(s, I, n)
              before == Kept(s, I, n - 1)
  <2>1. r \in Nat /\ Rank(I, n) = r + 1
    BY <1>1, <1>3, RankNext, RankFinite
  <2>2. Nth(I, r + 1) = n
    BY <1>3, <2>1, NthOfRank
  <2>3. new = [k \in 1..(r + 1) |-> s[Nth(I, k)]] /\ before = [k \in 1..r |-> s[Nth(I, k)]]
    BY <2>1 DEF Kept
  <2>4. Len(before) = r /\ DOMAIN before = 1..r
    BY <2>1, <2>3
  <2>5. Append(before, s[n]) = [k \in 1..(r + 1) |-> IF k = r + 1 THEN s[n] ELSE before[k]]
    <3>. HIDE DEF r, before
    <3>1. before \in Seq({before[k] : k \in 1..r} \cup {s[n]})
      <4>. DEFINE T1 == {before[k] : k \in 1..r} \cup {s[n]}
      <4>1. before = [k \in 1..r |-> before[k]]
        BY <2>3, <2>4
      <4>2. \A k \in 1..r : before[k] \in T1
        OBVIOUS
      <4>. HIDE DEF T1
      <4>3. before \in Seq(T1)
        BY <2>1, <4>1, <4>2
      <4>. QED BY <4>3 DEF T1
    <3>. QED BY <3>1, <2>1, <2>4, AppendProperties
  <2>. QED BY <1>3, <2>1, <2>2, <2>3, <2>5
<1>. QED BY <1>2, <1>3

Recursion(f, s, I) ==
    f = [n \in 0..Len(s) |-> IF n = 0 THEN <<>>
                             ELSE IF n \in I THEN Append(f[n - 1], s[n])
                             ELSE f[n - 1]]

(* The recursion has one solution.                                          *)
LEMMA Recursive ==
    ASSUME NEW T, NEW s \in Seq(T), NEW I, Indices(I)
    PROVE  LET g == [n \in 0..Len(s) |-> Kept(s, I, n)]
           IN  /\ Recursion(g, s, I)
               /\ \A f : Recursion(f, s, I) => f[Len(s)] = g[Len(s)]
<1>0. ASSUME NEW n \in 1..Len(s)
      PROVE  Kept(s, I, n) = IF n \in I THEN Append(Kept(s, I, n - 1), s[n]) ELSE Kept(s, I, n - 1)
  BY KeptNext
<1>. DEFINE N == Len(s)
            g == [n \in 0..N |-> Kept(s, I, n)]
            value(f, n) == IF n = 0 THEN <<>>
                           ELSE IF n \in I THEN Append(f[n - 1], s[n]) ELSE f[n - 1]
<1>1. N \in Nat
  OBVIOUS
<1>2. g[0] = <<>>
  <2>1. Kept(s, I, 0) = [k \in 1..0 |-> s[Nth(I, k)]]
    BY RankZero DEF Kept
  <2>. QED BY <1>1, <2>1
<1>3. ASSUME NEW n \in 1..N PROVE g[n] = IF n \in I THEN Append(g[n - 1], s[n]) ELSE g[n - 1]
  <2>1. g[n] = Kept(s, I, n) /\ g[n - 1] = Kept(s, I, n - 1)
    BY <1>1
  <2>2. Kept(s, I, n) = IF n \in I THEN Append(Kept(s, I, n - 1), s[n]) ELSE Kept(s, I, n - 1)
    BY <1>0, Zenon
  <2>. QED BY <2>1, <2>2, Zenon
<1>. HIDE DEF g
<1>4. Recursion(g, s, I)
  <2>1. \A n \in 0..N : g[n] = value(g, n)
    <3>. TAKE n \in 0..N
    <3>1. CASE n = 0
      BY <3>1, <1>2
    <3>2. CASE n # 0
      BY <3>2, <1>1, <1>3
    <3>. QED BY <3>1, <3>2
  <2>2. g = [n \in 0..N |-> g[n]]
    BY DEF g
  <2>3. g = [n \in 0..N |-> value(g, n)]
    BY <2>1, <2>2, Zenon
  <2>. QED BY <2>3 DEF Recursion
<1>5. ASSUME NEW f, Recursion(f, s, I) PROVE f[N] = g[N]
  <2>. DEFINE S == {n \in 0..N : f[n] # g[n]}
  <2>1. \A n \in 0..N : f[n] = value(f, n)
    BY <1>5 DEF Recursion
  <2>2. \A n \in 0..N : g[n] = value(g, n)
    BY <1>4 DEF Recursion
  <2>3. S = {}
    <3>. SUFFICES ASSUME S # {} PROVE FALSE
      OBVIOUS
    <3>1. PICK m \in S : \A l \in S : m <= l
      <4>1. S \in SUBSET Nat
        BY <1>1
      <4>. HIDE DEF S
      <4>. QED BY <4>1, Smallest
    <3>2. m \in 0..N /\ f[m] # g[m]
      BY <3>1
    <3>3. m # 0
      BY <2>1, <2>2, <3>2
    <3>4. m - 1 \in 0..N /\ m - 1 \notin S
      BY <1>1, <3>1, <3>2, <3>3
    <3>5. f[m - 1] = g[m - 1]
      BY <3>4
    <3>. QED BY <2>1, <2>2, <3>2, <3>3, <3>5
  <2>. QED BY <1>1, <2>3
<1>. QED BY <1>4, <1>5 DEF g

(* The closed form of the filter.                                           *)
LEMMA KeepIs ==
    ASSUME NEW T, NEW s \in Seq(T), NEW I, Indices(I)
    PROVE  Keep(s, I) = Kept(s, I, Len(s))
<1>. DEFINE g == [n \in 0..Len(s) |-> Kept(s, I, n)]
<1>1. Keep(s, I) = (CHOOSE f : Recursion(f, s, I))[Len(s)]
  BY DEF Keep, Recursion
<1>2. Recursion(g, s, I) /\ \A f : Recursion(f, s, I) => f[Len(s)] = g[Len(s)]
  BY Recursive
<1>3. Recursion(CHOOSE f : Recursion(f, s, I), s, I)
  <2>. HIDE DEF g
  <2>. QED BY <1>2
<1>4. Keep(s, I) = g[Len(s)]
  <2>. HIDE DEF g
  <2>. QED BY <1>1, <1>2, <1>3
<1>. QED BY <1>4

-----------------------------------------------------------------------------
(* Keep(s, I) is s composed with the increasing enumeration of I.           *)
Enumerates(f, s, I) ==
    /\ f \in [1..Len(Keep(s, I)) -> I]
    /\ \A k \in 1..Len(Keep(s, I)) : Keep(s, I)[k] = s[f[k]]
    /\ \A k, l \in 1..Len(Keep(s, I)) : k < l <=> f[k] < f[l]
    /\ \A i \in I : \E k \in 1..Len(Keep(s, I)) : f[k] = i

(* Every set of indices has such an enumeration: what the filters of the
   history keep is a sequence of the same elements, in their order. *)
LEMMA KeepEnumerated ==
    ASSUME NEW T, NEW s \in Seq(T), NEW I \in SUBSET (1..Len(s))
    PROVE  Keep(s, I) \in Seq(T) /\ \E f : Enumerates(f, s, I)
<1>. DEFINE n == Rank(I, Len(s))
            f == [k \in 1..n |-> Nth(I, k)]
<1>1. Len(s) \in Nat /\ Indices(I)
  BY DEF Indices
<1>2. n \in Nat
  BY <1>1, RankFinite
<1>3. Keep(s, I) = [k \in 1..n |-> s[Nth(I, k)]]
  BY <1>1, KeepIs DEF Kept
<1>4. ASSUME NEW k \in 1..n PROVE Nth(I, k) \in I /\ Rank(I, Nth(I, k)) = k
  <2>0. k \in Nat /\ 1 <= k /\ k <= Rank(I, Len(s))
    BY <1>2
  <2>1. PICK i \in I : Rank(I, i) = k
    BY <1>1, <2>0, RankOnto
  <2>. QED BY <1>1, <2>1, NthOfRank
<1>5. ASSUME NEW i \in I PROVE Rank(I, i) \in 1..n /\ Nth(I, Rank(I, i)) = i
  <2>1. i \in Nat /\ i >= 1 /\ i <= Len(s) /\ Rank(I, i) \in Nat
    BY <1>1, RankFinite
  <2>2. Rank(I, i) <= n
    BY <1>1, <2>1, RankMonotone
  <2>3. Rank(I, 0) < Rank(I, i)
    BY <1>1, <2>1, RankLess
  <2>. QED BY <1>1, <1>2, <2>1, <2>2, <2>3, RankZero, NthOfRank
<1>6. ASSUME NEW k \in 1..n, NEW l \in 1..n PROVE k < l <=> Nth(I, k) < Nth(I, l)
  <2>1. /\ Nth(I, k) \in I /\ Rank(I, Nth(I, k)) = k /\ Nth(I, k) \in Nat
        /\ Nth(I, l) \in I /\ Rank(I, Nth(I, l)) = l /\ Nth(I, l) \in Nat
    <3>1. Nth(I, k) \in I /\ Nth(I, l) \in I /\ Rank(I, Nth(I, k)) = k /\ Rank(I, Nth(I, l)) = l
      BY <1>4
    <3>. QED BY <1>1, <3>1 DEF Indices
  <2>2. Nth(I, k) < Nth(I, l) => k < l
    BY <1>1, <2>1, RankLess
  <2>3. Nth(I, l) < Nth(I, k) => l < k
    BY <1>1, <2>1, RankLess
  <2>4. Nth(I, k) = Nth(I, l) => k = l
    BY <2>1
  <2>. QED BY <1>2, <2>1, <2>2, <2>3, <2>4
<1>. HIDE DEF n
<1>7. /\ Keep(s, I) \in Seq(T) /\ Len(Keep(s, I)) = n
      /\ \A k \in 1..n : Keep(s, I)[k] = s[Nth(I, k)]
  <2>1. \A k \in 1..n : s[Nth(I, k)] \in T
    <3>1. ASSUME NEW i \in I PROVE s[i] \in T
      OBVIOUS
    <3>2. \A k \in 1..n : Nth(I, k) \in I
      BY <1>4
    <3>. QED BY <3>1, <3>2
  <2>. QED BY <1>2, <1>3, <2>1
<1>8. f \in [1..n -> I]
  BY <1>4
<1>9. /\ \A k \in 1..n : Keep(s, I)[k] = s[f[k]]
      /\ \A k, l \in 1..n : k < l <=> f[k] < f[l]
      /\ \A i \in I : \E k \in 1..n : f[k] = i
  BY <1>5, <1>6, <1>7
<1>. HIDE DEF f
<1>10. Enumerates(f, s, I)
  BY <1>7, <1>8, <1>9 DEF Enumerates
<1>. QED BY <1>7, <1>10

(* The same with the enumeration spelled out: a filter keeps each chosen
   element once, drops the others and reorders nothing. *)
LEMMA KeepSelects ==
    ASSUME NEW T, NEW s \in Seq(T), NEW I \in SUBSET (1..Len(s))
    PROVE  /\ Keep(s, I) \in Seq(T)
           /\ \E f \in [1..Len(Keep(s, I)) -> I] :
                /\ \A k \in 1..Len(Keep(s, I)) : Keep(s, I)[k] = s[f[k]]
                /\ \A k, l \in 1..Len(Keep(s, I)) : k < l <=> f[k] < f[l]
                /\ \A i \in I : \E k \in 1..Len(Keep(s, I)) : f[k] = i
<1>1. PICK f : Enumerates(f, s, I)
  BY KeepEnumerated
<1>. QED BY <1>1, KeepEnumerated DEF Enumerates

(* What is kept up to n depends on what is before n only. *)
LEMMA KeptAlike ==
    ASSUME NEW s, NEW t, NEW I, NEW J, Indices(I), Indices(J), NEW n \in Nat,
           Upto(I, n) = Upto(J, n), \A i \in Upto(I, n) : s[i] = t[i]
    PROVE  Kept(s, I, n) = Kept(t, J, n)
<1>1. Rank(I, n) = Rank(J, n) /\ Rank(I, n) \in Nat
  BY RankFinite DEF Rank
<1>2. ASSUME NEW k \in 1..Rank(I, n) PROVE s[Nth(I, k)] = t[Nth(J, k)]
  <2>1. PICK i \in I : i <= n /\ Rank(I, i) = k
    BY <1>1, RankOnto
  <2>2. i \in Nat /\ i \in Upto(I, n) /\ i \in J
    BY <2>1 DEF Upto, Indices
  <2>3. Upto(J, i) = Upto(I, i)
    <3>1. \A j \in I : j <= i => j <= n
      BY <2>1, <2>2 DEF Indices
    <3>2. \A j \in J : j <= i => j <= n
      BY <2>1, <2>2 DEF Indices
    <3>. QED BY <3>1, <3>2, Zenon DEF Upto
  <2>4. Rank(J, i) = k
    BY <2>1, <2>3 DEF Rank
  <2>5. Nth(I, k) = i /\ Nth(J, k) = i
    BY <2>1, <2>2, <2>4, NthOfRank
  <2>. QED BY <2>2, <2>5
<1>. QED BY <1>1, <1>2 DEF Kept

(* Filtering a sequence that has grown by one element. *)
LEMMA KeepAppend ==
    ASSUME NEW T, NEW s \in Seq(T), NEW x \in T, NEW I \in SUBSET (1..Len(s))
    PROVE  /\ Keep(Append(s, x), I) = Keep(s, I)
           /\ Keep(Append(s, x), I \cup {Len(s) + 1}) = Append(Keep(s, I), x)
<1>. DEFINE n == Len(s)
            t == Append(s, x)
            J == I \cup {n + 1}
<1>1. n \in Nat /\ t \in Seq(T) /\ Len(t) = n + 1 /\ t[n + 1] = x /\ \A i \in 1..n : t[i] = s[i]
  OBVIOUS
<1>2. Indices(I) /\ Indices(J)
  BY DEF Indices
<1>. HIDE DEF n, t
<1>3. Upto(I, n) = I /\ Upto(J, n) = I
  <2>1. \A i \in I : i <= n
    BY DEF n
  <2>2. ~(n + 1 <= n)
    BY <1>1
  <2>. QED BY <2>1, <2>2, Zenon DEF Upto
<1>4. Kept(t, I, n) = Kept(s, I, n) /\ Kept(t, J, n) = Kept(s, I, n)
  <2>1. \A i \in I : t[i] = s[i]
    BY <1>1 DEF n
  <2>. HIDE DEF J
  <2>2. \A i \in Upto(I, n) : t[i] = s[i] /\ s[i] = t[i]
    BY <1>3, <2>1
  <2>3. Kept(t, I, n) = Kept(s, I, n)
    BY <1>1, <1>2, <2>2, KeptAlike
  <2>4. Kept(s, I, n) = Kept(t, J, n)
    BY <1>1, <1>2, <1>3, <2>2, KeptAlike
  <2>. QED BY <2>3, <2>4
<1>5. n + 1 \notin I /\ n + 1 \in J
  BY <1>1 DEF n
<1>. HIDE DEF J
<1>6. \A L : Indices(L) => Kept(t, L, n + 1) = IF n + 1 \in L THEN Append(Kept(t, L, n), x)
                                                            ELSE Kept(t, L, n)
  <2>. SUFFICES ASSUME NEW L, Indices(L)
                PROVE  Kept(t, L, n + 1) = IF n + 1 \in L THEN Append(Kept(t, L, n), x)
                                                         ELSE Kept(t, L, n)
    OBVIOUS
  <2>. DEFINE m == n + 1
  <2>1. m \in 1..Len(t) /\ m - 1 = n /\ t[m] = x
    BY <1>1
  <2>. HIDE DEF m
  <2>2. Kept(t, L, m) = IF m \in L THEN Append(Kept(t, L, m - 1), t[m]) ELSE Kept(t, L, m - 1)
    BY <1>1, <2>1, KeptNext
  <2>. QED BY <2>1, <2>2 DEF m
<1>7. \A L : Indices(L) => Keep(t, L) = Kept(t, L, n + 1)
  BY <1>1, KeepIs
<1>8. Keep(s, I) = Kept(s, I, n)
  BY <1>2, KeepIs DEF n
<1>9. Keep(t, I) = Keep(s, I) /\ Keep(t, J) = Append(Keep(s, I), x)
  BY <1>2, <1>4, <1>5, <1>6, <1>7, <1>8
<1>. QED BY <1>9 DEF t, J, n

-----------------------------------------------------------------------------
(* The contract of a rebuilt prompt.  Of the rows of a session, s:          *)
Follows(r) == r.message.role = "tool" \/ r.copy

(* only turns of the model declare calls, and a copy does not;              *)
Declarers(s) ==
    \A i \in DOMAIN s :
        s[i].copy \/ s[i].message.role = "tool" => s[i].message.calls = {}

Copies(s) == \A i \in DOMAIN s : s[i].copy => s[i].message.role # "tool"

(* the results of a turn follow it, but for the copies of messages that     *)
(* were delivered meanwhile.                                                *)
PairedRows(s) ==
    \A i, j \in DOMAIN s :
        s[i].message.role = "tool" /\ s[i].message.id \in s[j].message.calls =>
            j < i /\ \A k \in (j + 1)..i : Follows(s[k])

(* Among the rows that are read there is nothing in between.                *)
PairedHistory(h) ==
    \A i, j \in DOMAIN h :
        h[i].message.role = "tool" /\ h[i].message.id \in h[j].message.calls =>
            j < i /\ \A k \in (j + 1)..i : h[k].message.role = "tool"

PairedPrompt(ms) ==
    \A i, j \in DOMAIN ms :
        ms[i].role = "tool" /\ ms[i].id \in ms[j].calls =>
            j < i /\ \A k \in (j + 1)..i : ms[k].role = "tool"

(* Without the copies the results of a turn follow it directly;             *)
LEMMA ReadRowsPaired ==
    ASSUME NEW s \in Seq(RowType), PairedRows(s),
           NEW I \in SUBSET (1..Len(s)), \A i \in I : ~s[i].copy
    PROVE  Keep(s, I) \in Seq(RowType) /\ PairedHistory(Keep(s, I))
<1>. DEFINE h == Keep(s, I)
<1>1. h \in Seq(RowType)
  BY KeepSelects
<1>2. PICK f \in [1..Len(h) -> I] :
        /\ \A k \in 1..Len(h) : h[k] = s[f[k]]
        /\ \A k, l \in 1..Len(h) : k < l <=> f[k] < f[l]
  BY KeepSelects
<1>. HIDE DEF h
<1>3. \A k \in 1..Len(h) : f[k] \in 1..Len(s) /\ f[k] \in I
  BY <1>2
<1>4. ASSUME NEW i \in 1..Len(h), NEW j \in 1..Len(h),
             h[i].message.role = "tool", h[i].message.id \in h[j].message.calls
      PROVE  j < i /\ \A k \in (j + 1)..i : h[k].message.role = "tool"
  <2>1. f[j] < f[i] /\ \A k \in (f[j] + 1)..f[i] : Follows(s[k])
    <3>1. f[i] \in DOMAIN s /\ f[j] \in DOMAIN s /\ h[i] = s[f[i]] /\ h[j] = s[f[j]]
      BY <1>2, <1>3
    <3>. QED BY <1>4, <3>1 DEF PairedRows
  <2>2. j < i
    BY <1>2, <2>1
  <2>3. ASSUME NEW k \in (j + 1)..i PROVE h[k].message.role = "tool"
    <3>1. k \in 1..Len(h) /\ j < k /\ ~(i < k)
      BY <1>1, <2>2
    <3>2. f[j] < f[k] /\ ~(f[i] < f[k])
      BY <1>2, <3>1
    <3>3. f[k] \in (f[j] + 1)..f[i]
      BY <1>3, <3>1, <3>2
    <3>4. Follows(s[f[k]])
      BY <2>1, <3>3
    <3>5. h[k] = s[f[k]] /\ ~s[f[k]].copy
      BY <1>2, <1>3, <3>1
    <3>. QED BY <3>4, <3>5 DEF Follows
  <2>. QED BY <2>2, <2>3
<1>5. DOMAIN h = 1..Len(h)
  BY <1>1
<1>6. PairedHistory(h)
  BY <1>4, <1>5 DEF PairedHistory
<1>. QED BY <1>1, <1>6 DEF h

(* a summary in front of them changes nothing;                              *)
LEMMA SummaryPaired ==
    ASSUME NEW r \in RowType, r.message.role # "tool", r.message.calls = {},
           NEW h \in Seq(RowType), PairedHistory(h)
    PROVE  <<r>> \o h \in Seq(RowType) /\ PairedHistory(<<r>> \o h)
<1>. DEFINE g == <<r>> \o h
<1>1. /\ g \in Seq(RowType) /\ Len(g) = Len(h) + 1 /\ g[1] = r
      /\ \A i \in 2..Len(g) : g[i] = h[i - 1]
  OBVIOUS
<1>. HIDE DEF g
<1>2. DOMAIN g = 1..Len(g) /\ DOMAIN h = 1..Len(h) /\ Len(h) \in Nat
  BY <1>1
<1>3. ASSUME NEW i \in 1..Len(g), NEW j \in 1..Len(g),
             g[i].message.role = "tool", g[i].message.id \in g[j].message.calls
      PROVE  j < i /\ \A k \in (j + 1)..i : g[k].message.role = "tool"
  <2>1. i # 1 /\ j # 1
    BY <1>1, <1>3
  <2>2. i - 1 \in 1..Len(h) /\ j - 1 \in 1..Len(h) /\ g[i] = h[i - 1] /\ g[j] = h[j - 1]
    BY <1>1, <1>2, <2>1
  <2>3. j - 1 < i - 1 /\ \A k \in ((j - 1) + 1)..(i - 1) : h[k].message.role = "tool"
    BY <1>2, <1>3, <2>2 DEF PairedHistory
  <2>4. ASSUME NEW k \in (j + 1)..i PROVE g[k].message.role = "tool"
    <3>1. k \in 2..Len(g) /\ k - 1 \in ((j - 1) + 1)..(i - 1)
      BY <1>2, <2>2
    <3>. QED BY <1>1, <2>3, <3>1
  <2>. QED BY <2>2, <2>3, <2>4
<1>. QED BY <1>1, <1>2, <1>3 DEF PairedHistory, g

(* The messages before the strips. *)
Prompt(h) ==
    [i \in DOMAIN h |-> IF i = Len(h) THEN [h[i].message EXCEPT !.prefix = TRUE]
                                      ELSE ToAiMessage(h[i])]

(* and the prompt has roles, ids and calls of the rows.                     *)
LEMMA PromptOf ==
    ASSUME NEW h \in Seq(RowType)
    PROVE  /\ Prompt(h) \in Seq(MessageType) /\ Len(Prompt(h)) = Len(h)
           /\ \A i \in 1..Len(h) : /\ Prompt(h)[i].role = h[i].message.role
                                   /\ Prompt(h)[i].id = h[i].message.id
                                   /\ Prompt(h)[i].calls = h[i].message.calls
           /\ \A strip \in BOOLEAN : Payload(h, strip) = StripOrphanedToolCalls(Prompt(h), strip)
<1>1. Len(h) \in Nat /\ DOMAIN h = 1..Len(h)
  OBVIOUS
<1>2. ASSUME NEW r \in RowType
      PROVE  /\ [r.message EXCEPT !.prefix = TRUE] \in MessageType
             /\ [r.message EXCEPT !.prefix = TRUE].role = r.message.role
             /\ [r.message EXCEPT !.prefix = TRUE].id = r.message.id
             /\ [r.message EXCEPT !.prefix = TRUE].calls = r.message.calls
             /\ ToAiMessage(r) \in MessageType
             /\ ToAiMessage(r).role = r.message.role
             /\ ToAiMessage(r).id = r.message.id
             /\ ToAiMessage(r).calls = r.message.calls
  BY DEF ToAiMessage, RowType, MessageType
<1>3. \A i \in 1..Len(h) : h[i] \in RowType
  OBVIOUS
<1>4. \A i \in 1..Len(h) : /\ Prompt(h)[i] \in MessageType
                           /\ Prompt(h)[i].role = h[i].message.role
                           /\ Prompt(h)[i].id = h[i].message.id
                           /\ Prompt(h)[i].calls = h[i].message.calls
  <2>. TAKE i \in 1..Len(h)
  <2>1. Prompt(h)[i] = IF i = Len(h) THEN [h[i].message EXCEPT !.prefix = TRUE]
                                     ELSE ToAiMessage(h[i])
    BY <1>1 DEF Prompt
  <2>2. h[i] \in RowType
    BY <1>3
  <2>. QED BY <1>2, <2>1, <2>2
<1>5. Prompt(h) = [i \in 1..Len(h) |-> Prompt(h)[i]]
  BY <1>1 DEF Prompt
<1>6. Prompt(h) \in Seq(MessageType) /\ Len(Prompt(h)) = Len(h)
  BY <1>1, <1>4, <1>5
<1>. QED BY <1>4, <1>6 DEF Payload, Prompt

(* A message with those of its calls only that are in a set. *)
Limited(m, ids) == [m EXCEPT !.calls = @ \cap ids]

(* Only the calls are limited.                                              *)
LEMMA LimitedIs ==
    ASSUME NEW m \in MessageType, NEW ids
    PROVE  /\ Limited(m, ids) \in MessageType
           /\ Limited(m, ids).role = m.role /\ Limited(m, ids).id = m.id
           /\ Limited(m, ids).calls = m.calls \cap ids
           /\ Limited(m, ids).prefix = m.prefix /\ Limited(m, ids).text = m.text
BY DEF MessageType, Limited

(* The forward pass limits every message to the calls that are answered.    *)
LEMMA ForwardOf ==
    ASSUME NEW ms \in Seq(MessageType)
    PROVE  /\ Forward(ms) \in Seq(MessageType) /\ Len(Forward(ms)) = Len(ms)
           /\ \A i \in 1..Len(ms) :
                /\ Forward(ms)[i] = Limited(ms[i], Answered(ms))
                /\ Forward(ms)[i].role = ms[i].role /\ Forward(ms)[i].id = ms[i].id
                /\ Forward(ms)[i].calls = ms[i].calls \cap Answered(ms)
<1>1. Len(ms) \in Nat /\ DOMAIN ms = 1..Len(ms)
  OBVIOUS
<1>2. \A i \in 1..Len(ms) : ms[i] \in MessageType
  OBVIOUS
<1>3. Forward(ms) = [i \in 1..Len(ms) |-> Limited(ms[i], Answered(ms))]
  BY <1>1 DEF Forward, Limited
<1>4. \A i \in 1..Len(ms) : Limited(ms[i], Answered(ms)) \in MessageType
  BY <1>2, LimitedIs
<1>5. /\ Forward(ms) \in Seq(MessageType) /\ Len(Forward(ms)) = Len(ms)
      /\ \A i \in 1..Len(ms) : Forward(ms)[i] = Limited(ms[i], Answered(ms))
  <2>. DEFINE F == Forward(ms)
  <2>1. F = [i \in 1..Len(ms) |-> Limited(ms[i], Answered(ms))]
    BY <1>3
  <2>. HIDE DEF F
  <2>2. F \in Seq(MessageType) /\ Len(F) = Len(ms)
           /\ \A i \in 1..Len(ms) : F[i] = Limited(ms[i], Answered(ms))
    BY <1>1, <1>4, <2>1
  <2>. QED BY <2>2 DEF F
<1>. QED BY <1>2, <1>5, LimitedIs

(* Both passes together make the contract of a strict provider true.        *)
LEMMA StripsAreValid ==
    ASSUME NEW ms \in Seq(MessageType), PairedPrompt(ms),
           \A i \in 1..Len(ms) : ms[i].role = "tool" => ms[i].calls = {}
    PROVE  /\ StripOrphanedToolCalls(ms, TRUE) \in Seq(MessageType)
           /\ Contract(StripOrphanedToolCalls(ms, TRUE))
<1>. DEFINE fs == Forward(ms)
            I == {i \in DOMAIN fs : fs[i].role = "tool" => fs[i].id \in Declared(fs)}
            ks == Keep(fs, I)
<1>1. /\ fs \in Seq(MessageType) /\ Len(fs) = Len(ms) /\ DOMAIN fs = 1..Len(ms)
      /\ \A i \in 1..Len(ms) : /\ fs[i].role = ms[i].role /\ fs[i].id = ms[i].id
                               /\ fs[i].calls = ms[i].calls \cap Answered(ms)
  BY ForwardOf
<1>2. StripOrphanedToolCalls(ms, TRUE) = ks
  BY DEF StripOrphanedToolCalls, Reverse_
<1>. HIDE DEF fs
<1>3. I \in SUBSET (1..Len(fs))
  BY <1>1
<1>4. ks \in Seq(MessageType)
  <2>. HIDE DEF I
  <2>. QED BY <1>1, <1>3, KeepSelects
<1>f. PICK f : Enumerates(f, fs, I)
  <2>. HIDE DEF I
  <2>1. fs \in Seq(MessageType)
    BY <1>1
  <2>. QED BY <2>1, <1>3, KeepEnumerated
<1>5. /\ f \in [1..Len(ks) -> I]
      /\ \A k \in 1..Len(ks) : ks[k] = fs[f[k]]
      /\ \A k, l \in 1..Len(ks) : k < l <=> f[k] < f[l]
      /\ \A i \in I : \E k \in 1..Len(ks) : f[k] = i
  <2>. HIDE DEF I
  <2>. QED BY <1>f DEF Enumerates
<1>. HIDE DEF ks
<1>6. DOMAIN ks = 1..Len(ks) /\ Len(ks) \in Nat /\ DOMAIN ms = 1..Len(ms) /\ Len(ms) \in Nat
  BY <1>4
<1>7. \A k \in 1..Len(ks) : f[k] \in I /\ f[k] \in 1..Len(ms) /\ f[k] \in Nat
  BY <1>1, <1>3, <1>5
(* In the forward pass a result follows its turn directly. *)
<1>8. ASSUME NEW i \in 1..Len(ms), NEW j \in 1..Len(ms), fs[i].role = "tool", fs[i].id \in fs[j].calls
      PROVE  j < i /\ \A k \in (j + 1)..i : fs[k].role = "tool"
  <2>1. ms[i].role = "tool" /\ ms[i].id \in ms[j].calls
    BY <1>1, <1>8
  <2>2. j < i /\ \A k \in (j + 1)..i : ms[k].role = "tool"
    BY <1>6, <2>1 DEF PairedPrompt
  <2>3. \A k \in (j + 1)..i : k \in 1..Len(ms)
    BY <1>6
  <2>. QED BY <1>1, <2>2, <2>3
(* Of what is kept, the same holds. *)
<1>9. ASSUME NEW k \in 1..Len(ks), NEW l \in 1..Len(ks), ks[k].role = "tool", ks[k].id \in ks[l].calls
      PROVE  l < k /\ \A n \in (l + 1)..k : ks[n].role = "tool"
  <2>1. f[l] < f[k] /\ \A n \in (f[l] + 1)..f[k] : fs[n].role = "tool"
    BY <1>5, <1>7, <1>8, <1>9
  <2>2. l < k
    BY <1>5, <2>1
  <2>3. ASSUME NEW n \in (l + 1)..k PROVE ks[n].role = "tool"
    <3>1. n \in 1..Len(ks) /\ l < n /\ ~(k < n)
      BY <1>6, <2>2
    <3>2. f[l] < f[n] /\ ~(f[k] < f[n])
      BY <1>5, <3>1
    <3>3. f[n] \in (f[l] + 1)..f[k]
      BY <1>7, <3>1, <3>2
    <3>. QED BY <1>5, <2>1, <3>1, <3>3
  <2>. QED BY <2>2, <2>3
(* A turn that declares a call that is answered is kept. *)
<1>10. ASSUME NEW j \in 1..Len(ms), fs[j].calls # {} PROVE j \in I
  <2>1. ms[j].role # "tool"
    BY <1>1, <1>10
  <2>. QED BY <1>1, <2>1
<1>11. ASSUME NEW k \in 1..Len(ks), ks[k].role = "tool"
       PROVE  \E l \in 1..(k - 1) : /\ ks[k].id \in ks[l].calls
                                    /\ \A n \in (l + 1)..k : ks[n].role = "tool"
  <2>1. ks[k] = fs[f[k]] /\ f[k] \in I
    BY <1>5, <1>7
  <2>2. ks[k].id \in Declared(fs)
    BY <2>1, <1>11
  <2>3. PICK j \in 1..Len(ms) : ks[k].id \in fs[j].calls
    BY <1>1, <2>2 DEF Declared
  <2>4. j \in I
    BY <1>10, <2>3
  <2>. HIDE DEF I
  <2>5. PICK l \in 1..Len(ks) : f[l] = j
    BY <1>5, <2>4
  <2>6. ks[k].id \in ks[l].calls
    BY <1>5, <2>3, <2>5
  <2>7. l < k /\ \A n \in (l + 1)..k : ks[n].role = "tool"
    BY <1>9, <1>11, <2>6
  <2>8. l \in 1..(k - 1)
    BY <1>6, <2>7
  <2>. QED BY <2>6, <2>7, <2>8
<1>12. ASSUME NEW l \in 1..Len(ks), NEW c \in ks[l].calls
       PROVE  \E k \in (l + 1)..Len(ks) : ks[k].role = "tool" /\ ks[k].id = c
  <2>1. c \in ms[f[l]].calls /\ c \in Answered(ms) /\ c \in fs[f[l]].calls
    BY <1>1, <1>5, <1>7
  <2>2. PICK i \in 1..Len(ms) : ms[i].role = "tool" /\ ms[i].id = c
    BY <1>6, <2>1 DEF Answered
  <2>3. fs[i].role = "tool" /\ fs[i].id = c
    BY <1>1, <2>2
  <2>4. fs[i].id \in Declared(fs)
    BY <1>1, <1>7, <2>1, <2>3 DEF Declared
  <2>5. i \in I
    BY <1>1, <2>4
  <2>. HIDE DEF I
  <2>6. PICK k \in 1..Len(ks) : f[k] = i
    BY <1>5, <2>5
  <2>7. ks[k].role = "tool" /\ ks[k].id = c
    BY <1>5, <2>3, <2>6
  <2>8. l < k
    BY <1>9, <2>7
  <2>9. k \in (l + 1)..Len(ks)
    BY <1>6, <2>8
  <2>. QED BY <2>7, <2>9
<1>13. Contract(ks)
  BY <1>6, <1>11, <1>12 DEF Contract
<1>. QED BY <1>2, <1>4, <1>13

(* The payload of a local provider.                                         *)
LEMMA ForwardIsTyped ==
    ASSUME NEW h \in Seq(RowType)
    PROVE  Payload(h, FALSE) = Forward(Prompt(h)) /\ Payload(h, FALSE) \in Seq(MessageType)
BY PromptOf, ForwardOf DEF StripOrphanedToolCalls

(* The payload of a strict provider.                                        *)
LEMMA RebuiltPrompt ==
    ASSUME NEW h \in Seq(RowType), PairedHistory(h),
           \A i \in 1..Len(h) : h[i].message.role = "tool" => h[i].message.calls = {}
    PROVE  Payload(h, TRUE) \in Seq(MessageType) /\ Contract(Payload(h, TRUE))
<1>1. Prompt(h) \in Seq(MessageType) /\ Len(Prompt(h)) = Len(h) /\ Len(h) \in Nat
  BY PromptOf
<1>2. DOMAIN Prompt(h) = 1..Len(h) /\ DOMAIN h = 1..Len(h)
  BY <1>1
<1>3. \A i \in 1..Len(h) : /\ Prompt(h)[i].role = h[i].message.role
                           /\ Prompt(h)[i].id = h[i].message.id
                           /\ Prompt(h)[i].calls = h[i].message.calls
  BY PromptOf
<1>4. PairedPrompt(Prompt(h))
  <2>1. \A i, j \in 1..Len(h) : \A k \in (j + 1)..i : k \in 1..Len(h)
    BY <1>1
  <2>. QED BY <1>2, <1>3, <2>1 DEF PairedPrompt, PairedHistory
<1>5. Payload(h, TRUE) = StripOrphanedToolCalls(Prompt(h), TRUE)
  BY PromptOf
<1>. QED BY <1>1, <1>3, <1>4, <1>5, StripsAreValid
-----------------------------------------------------------------------------
(* One more row.                                                            *)
Rows(s) == Declarers(s) /\ Copies(s) /\ PairedRows(s)

(* A result is appended while nothing but results and copies follows its turn. *)
LEMMA RowAdded ==
    ASSUME NEW s \in Seq(RowType), Rows(s), NEW r \in RowType,
           r.copy \/ r.message.role = "tool" => r.message.calls = {},
           r.copy => r.message.role # "tool",
           r.message.role = "tool" =>
               \A j \in 1..Len(s) : r.message.id \in s[j].message.calls =>
                   \A k \in (j + 1)..Len(s) : Follows(s[k]),
           \A i \in 1..Len(s) : s[i].message.role = "tool" => s[i].message.id \notin r.message.calls
    PROVE  Append(s, r) \in Seq(RowType) /\ Rows(Append(s, r))
<1>. DEFINE t == Append(s, r)
            n == Len(s)
<1>1. /\ t \in Seq(RowType) /\ DOMAIN t = 1..(n + 1) /\ n \in Nat /\ DOMAIN s = 1..n
      /\ t[n + 1] = r /\ \A i \in 1..n : t[i] = s[i]
  OBVIOUS
<1>. HIDE DEF t, n
<1>2. \A i \in 1..(n + 1) : i \in 1..n \/ i = n + 1
  BY <1>1
<1>3. Declarers(t) /\ Copies(t)
  <2>1. /\ \A i \in 1..n : s[i].copy \/ s[i].message.role = "tool" => s[i].message.calls = {}
        /\ \A i \in 1..n : s[i].copy => s[i].message.role # "tool"
    BY <1>1 DEF Rows, Declarers, Copies
  <2>. QED BY <1>1, <1>2, <2>1 DEF Declarers, Copies
<1>4. ASSUME NEW i \in 1..(n + 1), NEW j \in 1..(n + 1),
             t[i].message.role = "tool", t[i].message.id \in t[j].message.calls
      PROVE  j < i /\ \A k \in (j + 1)..i : Follows(t[k])
  <2>1. j \in 1..n
    <3>1. j = n + 1 => i \in 1..n
      BY <1>1, <1>2, <1>4
    <3>. QED BY <1>1, <1>2, <1>4, <3>1 DEF n
  <2>2. CASE i \in 1..n
    <3>1. j < i /\ \A k \in (j + 1)..i : Follows(s[k])
      BY <1>1, <1>4, <2>1, <2>2 DEF Rows, PairedRows
    <3>2. \A k \in (j + 1)..i : k \in 1..n
      BY <1>1, <2>1, <2>2
    <3>. QED BY <1>1, <3>1, <3>2
  <2>3. CASE i = n + 1
    <3>1. \A k \in (j + 1)..n : Follows(s[k])
      BY <1>1, <1>4, <2>1, <2>3 DEF n
    <3>2. \A k \in (j + 1)..i : (k \in (j + 1)..n /\ k \in 1..n) \/ k = n + 1
      BY <1>1, <2>1, <2>3
    <3>3. Follows(t[n + 1])
      BY <1>4, <2>3 DEF Follows
    <3>. QED BY <1>1, <2>1, <2>3, <3>1, <3>2, <3>3
  <2>. QED BY <1>2, <2>2, <2>3
<1>5. PairedRows(t)
  BY <1>1, <1>4 DEF PairedRows
<1>. QED BY <1>1, <1>3, <1>5 DEF Rows, t

(* A row that neither declares a call nor holds a result.                   *)
LEMMA TextAdded ==
    ASSUME NEW s \in Seq(RowType), Rows(s), NEW r \in RowType,
           r.message.role # "tool", r.message.calls = {}
    PROVE  Append(s, r) \in Seq(RowType) /\ Rows(Append(s, r))
BY RowAdded

-----------------------------------------------------------------------------
(* What a local provider sees of the rows: all but the copies, with those   *)
(* of the calls only that have a result.                                    *)
Shown(s) == {i \in DOMAIN s : ~s[i].copy}
Chat(s) == Keep(s, Shown(s))
Results(s) == {s[i].message.id : i \in {j \in DOMAIN s : s[j].message.role = "tool"}}
Seen(r, ids) == Limited(ToAiMessage(r), ids)

(* What a row shows depends on the calls it declares only.                  *)
LEMMA SeenIs ==
    ASSUME NEW r \in RowType, NEW ids
    PROVE  /\ ToAiMessage(r) \in MessageType /\ Seen(r, ids) \in MessageType
           /\ \A more : r.message.calls \cap ids = r.message.calls \cap more
                            => Seen(r, ids) = Seen(r, more)
           /\ ~r.raw => ToAiMessage(r) = r.message
           /\ ~r.raw /\ r.message.calls \subseteq ids => Seen(r, ids) = r.message
<1>1. ToAiMessage(r) \in MessageType /\ ToAiMessage(r).calls = r.message.calls /\ r.message \in MessageType
  BY DEF ToAiMessage, RowType, MessageType
<1>2. ~r.raw => ToAiMessage(r) = r.message
  BY DEF ToAiMessage
<1>3. Seen(r, ids) \in MessageType
  BY <1>1, LimitedIs DEF Seen
<1>4. ASSUME NEW more, r.message.calls \cap ids = r.message.calls \cap more
      PROVE  Seen(r, ids) = Seen(r, more)
  BY <1>1, <1>4 DEF Seen, Limited, MessageType
<1>5. ASSUME NEW m \in MessageType, m.calls \subseteq ids PROVE Limited(m, ids) = m
  <2>1. m.calls \cap ids = m.calls
    BY <1>5
  <2>. QED BY <2>1 DEF Limited, MessageType
<1>. QED BY <1>1, <1>2, <1>3, <1>4, <1>5 DEF Seen

(* The chat consists of the rows that are no copies.                        *)
LEMMA ChatIs ==
    ASSUME NEW s \in Seq(RowType)
    PROVE  /\ Chat(s) \in Seq(RowType) /\ Len(Chat(s)) \in Nat
           /\ \A k \in 1..Len(Chat(s)) : \E i \in 1..Len(s) : Chat(s)[k] = s[i] /\ ~s[i].copy
           /\ \A i \in 1..Len(s) : ~s[i].copy => \E k \in 1..Len(Chat(s)) : Chat(s)[k] = s[i]
<1>. DEFINE I == Shown(s)
            h == Keep(s, I)
<1>1. /\ I \in SUBSET (1..Len(s))
      /\ \A i \in I : ~s[i].copy
      /\ \A i \in 1..Len(s) : ~s[i].copy => i \in I
  BY DEF Shown
<1>2. Chat(s) = h
  BY DEF Chat
<1>. HIDE DEF I
<1>3. h \in Seq(RowType)
  BY <1>1, KeepSelects
<1>4. PICK f \in [1..Len(h) -> I] :
        /\ \A k \in 1..Len(h) : h[k] = s[f[k]]
        /\ \A i \in I : \E k \in 1..Len(h) : f[k] = i
  BY <1>1, KeepSelects
<1>. HIDE DEF h
<1>5. \A k \in 1..Len(h) : f[k] \in 1..Len(s) /\ ~s[f[k]].copy
  BY <1>1, <1>4
<1>6. \A k \in 1..Len(h) : \E i \in 1..Len(s) : h[k] = s[i] /\ ~s[i].copy
  BY <1>4, <1>5
<1>7. \A i \in 1..Len(s) : ~s[i].copy => \E k \in 1..Len(h) : h[k] = s[i]
  BY <1>1, <1>4
<1>. QED BY <1>2, <1>3, <1>6, <1>7

(* The chat grows with every row but a copy,                                *)
LEMMA ChatNext ==
    ASSUME NEW s \in Seq(RowType), NEW r \in RowType
    PROVE  Chat(Append(s, r)) = IF r.copy THEN Chat(s) ELSE Append(Chat(s), r)
<1>. DEFINE t == Append(s, r)
            n == Len(s)
<1>1. /\ DOMAIN t = 1..(n + 1) /\ n \in Nat /\ DOMAIN s = 1..n
      /\ t[n + 1] = r /\ \A i \in 1..n : t[i] = s[i]
  OBVIOUS
<1>. HIDE DEF t, n
<1>2. Shown(t) = IF r.copy THEN Shown(s) ELSE Shown(s) \cup {n + 1}
  <2>1. \A i \in 1..(n + 1) : i \in 1..n \/ i = n + 1
    BY <1>1
  <2>2. \A i \in 1..n : i \in 1..(n + 1) /\ i # n + 1
    BY <1>1
  <2>3. n + 1 \in 1..(n + 1)
    BY <1>1
  <2>. QED BY <1>1, <2>1, <2>2, <2>3 DEF Shown
<1>3. Shown(s) \in SUBSET (1..Len(s))
  BY <1>1 DEF Shown, n
<1>. DEFINE I == Shown(s)
<1>. HIDE DEF I
<1>4. /\ Keep(Append(s, r), I) = Keep(s, I)
      /\ Keep(Append(s, r), I \cup {Len(s) + 1}) = Append(Keep(s, I), r)
  BY <1>3, KeepAppend DEF I
<1>5. Chat(t) = Keep(t, Shown(t)) /\ Chat(s) = Keep(s, I)
  BY DEF Chat, I
<1>6. r.copy => Chat(t) = Keep(t, I)
  BY <1>2, <1>5 DEF I
<1>7. ~r.copy => Chat(t) = Keep(t, I \cup {n + 1})
  BY <1>2, <1>5 DEF I
<1>8. Chat(t) = IF r.copy THEN Chat(s) ELSE Append(Chat(s), r)
  BY <1>4, <1>5, <1>6, <1>7 DEF t, n
<1>. QED BY <1>8 DEF t

(* and the results with every result.                                       *)
LEMMA ResultsNext ==
    ASSUME NEW s \in Seq(RowType), NEW r \in RowType
    PROVE  Results(Append(s, r)) =
               IF r.message.role = "tool" THEN Results(s) \cup {r.message.id} ELSE Results(s)
<1>. DEFINE t == Append(s, r)
            n == Len(s)
<1>1. /\ DOMAIN t = 1..(n + 1) /\ n \in Nat /\ DOMAIN s = 1..n
      /\ t[n + 1] = r /\ \A i \in 1..n : t[i] = s[i]
  OBVIOUS
<1>. HIDE DEF t, n
<1>2. \A i \in 1..(n + 1) : i \in 1..n \/ i = n + 1
  BY <1>1
<1>3. (\A i \in 1..n : i \in 1..(n + 1)) /\ n + 1 \in 1..(n + 1)
  BY <1>1
<1>4. ASSUME NEW c
      PROVE  c \in Results(t) <=> c \in Results(s) \/ (r.message.role = "tool" /\ c = r.message.id)
  <2>1. c \in Results(t) <=> \E i \in 1..(n + 1) : t[i].message.role = "tool" /\ c = t[i].message.id
    BY <1>1 DEF Results
  <2>2. c \in Results(s) <=> \E i \in 1..n : s[i].message.role = "tool" /\ c = s[i].message.id
    BY <1>1 DEF Results
  <2>. QED BY <1>1, <1>2, <1>3, <2>1, <2>2
<1>5. Results(t) = IF r.message.role = "tool" THEN Results(s) \cup {r.message.id} ELSE Results(s)
  BY <1>4, Zenon
<1>. QED BY <1>5 DEF t

(* The messages ms show the first rows of h.                                *)
Mirrors(ms, h, ids) ==
    Len(ms) <= Len(h) /\ \A k \in 1..Len(ms) : ms[k] = Seen(h[k], ids)

(* A longer chat is still mirrored;                                         *)
LEMMA MirrorsKept ==
    ASSUME NEW ms \in Seq(MessageType), NEW h \in Seq(RowType), NEW ids, Mirrors(ms, h, ids),
           NEW r \in RowType
    PROVE  Mirrors(ms, Append(h, r), ids)
<1>. DEFINE g == Append(h, r)
<1>1. /\ Len(g) = Len(h) + 1 /\ Len(h) \in Nat /\ Len(ms) \in Nat
      /\ \A k \in 1..Len(h) : g[k] = h[k]
  OBVIOUS
<1>. HIDE DEF g
<1>2. \A k \in 1..Len(ms) : k \in 1..Len(h)
  BY <1>1 DEF Mirrors
<1>. QED BY <1>1, <1>2 DEF Mirrors, g

(* so is one of which other calls are answered that nobody declares;        *)
LEMMA MirrorsAlike ==
    ASSUME NEW ms \in Seq(MessageType), NEW h \in Seq(RowType), NEW ids, NEW more,
           Mirrors(ms, h, ids),
           \A k \in 1..Len(ms) : h[k].message.calls \cap ids = h[k].message.calls \cap more
    PROVE  Mirrors(ms, h, more)
<1>1. \A k \in 1..Len(ms) : h[k] \in RowType
  BY DEF Mirrors
<1>2. \A k \in 1..Len(ms) : Seen(h[k], ids) = Seen(h[k], more)
  BY <1>1, SeenIs
<1>. QED BY <1>2 DEF Mirrors

(* and both may grow together.                                              *)
LEMMA MirrorsGrow ==
    ASSUME NEW ms \in Seq(MessageType), NEW h \in Seq(RowType), NEW ids,
           Mirrors(ms, h, ids), Len(ms) = Len(h),
           NEW r \in RowType, NEW m \in MessageType, m = Seen(r, ids)
    PROVE  /\ Mirrors(Append(ms, m), Append(h, r), ids)
           /\ Len(Append(ms, m)) = Len(Append(h, r))
<1>. DEFINE g == Append(h, r)
            ns == Append(ms, m)
            n == Len(h)
<1>1. /\ n \in Nat /\ Len(g) = n + 1 /\ Len(ns) = n + 1 /\ g[n + 1] = r /\ ns[n + 1] = m
      /\ \A k \in 1..n : g[k] = h[k] /\ ns[k] = ms[k]
  OBVIOUS
<1>2. \A k \in 1..n : ms[k] = Seen(h[k], ids)
  BY DEF Mirrors
<1>. HIDE DEF g, ns, n
<1>3. \A k \in 1..(n + 1) : k \in 1..n \/ k = n + 1
  BY <1>1
<1>4. Mirrors(ns, g, ids) /\ Len(ns) = Len(g)
  BY <1>1, <1>2, <1>3 DEF Mirrors
<1>. QED BY <1>4 DEF ns, g
-----------------------------------------------------------------------------
(* The prompt rebuilt for a local provider, and the row that gets the live  *)
(* prefix.                                                                  *)
Prefixed(m) == [m EXCEPT !.prefix = TRUE]
Rebuilt(ms, s) ==
    /\ Len(ms) = Len(Chat(s))
    /\ \A k \in 1..Len(ms) :
          ms[k] = IF k = Len(ms) THEN Prefixed(Seen(Chat(s)[k], Results(s)))
                  ELSE Seen(Chat(s)[k], Results(s))

(* A sequence that is not empty ends with something.                        *)
LEMMA LastRow ==
    ASSUME NEW T, NEW s \in Seq(T), s # <<>>
    PROVE  \E front \in Seq(T), r \in T :
              s = Append(front, r) /\ r = s[Len(s)] /\ Len(s) = Len(front) + 1
<1>1. Len(s) \in Nat /\ Len(s) >= 1
  OBVIOUS
<1>. DEFINE front == [i \in 1..(Len(s) - 1) |-> s[i]]
<1>2. /\ front \in Seq(T) /\ Len(front) = Len(s) - 1
      /\ \A i \in 1..(Len(s) - 1) : front[i] = s[i]
  BY <1>1
<1>. HIDE DEF front
<1>3. s[Len(s)] \in T
  BY <1>1
<1>4. s = Append(front, s[Len(s)])
  BY <1>1, <1>2, <1>3
<1>. QED BY <1>1, <1>2, <1>3, <1>4

(* The forward pass finds all results of the rows: a copy is none.          *)
LEMMA AnsweredChat ==
    ASSUME NEW s \in Seq(RowType), Copies(s)
    PROVE  Answered(Prompt(Chat(s))) = Results(s)
<1>. DEFINE h == Chat(s)
            p == Prompt(h)
<1>1. /\ h \in Seq(RowType) /\ Len(h) \in Nat
      /\ \A k \in 1..Len(h) : \E i \in 1..Len(s) : h[k] = s[i]
      /\ \A i \in 1..Len(s) : ~s[i].copy => \E k \in 1..Len(h) : h[k] = s[i]
  BY ChatIs
<1>. HIDE DEF h
<1>2. /\ DOMAIN p = 1..Len(h)
      /\ \A k \in 1..Len(h) : p[k].role = h[k].message.role /\ p[k].id = h[k].message.id
  <2>1. p \in Seq(MessageType) /\ Len(p) = Len(h)
    BY <1>1, PromptOf
  <2>. QED BY <1>1, <2>1, PromptOf
<1>. HIDE DEF p
<1>3. \A i \in 1..Len(s) : s[i].message.role = "tool" => ~s[i].copy
  BY DEF Copies
<1>4. ASSUME NEW c PROVE c \in Answered(p) <=> c \in Results(s)
  <2>1. c \in Answered(p) <=> \E k \in 1..Len(h) : h[k].message.role = "tool" /\ h[k].message.id = c
    BY <1>2 DEF Answered
  <2>2. c \in Results(s) <=> \E i \in 1..Len(s) : s[i].message.role = "tool" /\ s[i].message.id = c
    BY DEF Results
  <2>3. c \in Answered(p) => c \in Results(s)
    BY <1>1, <2>1, <2>2
  <2>4. c \in Results(s) => c \in Answered(p)
    <3>. SUFFICES ASSUME NEW i \in 1..Len(s), s[i].message.role = "tool", s[i].message.id = c
                  PROVE  c \in Answered(p)
      BY <2>2
    <3>1. PICK k \in 1..Len(h) : h[k] = s[i]
      BY <1>1, <1>3
    <3>. QED BY <2>1, <3>1
  <2>. QED BY <2>3, <2>4
<1>5. Answered(p) = Results(s)
  BY <1>4, Zenon
<1>. QED BY <1>5 DEF p, h

(* Build, for a local provider.                                             *)
LEMMA LocalPrompt ==
    ASSUME NEW s \in Seq(RowType), Copies(s), s # <<>>,
           ~s[Len(s)].raw, ~s[Len(s)].copy
    PROVE  Rebuilt(Payload(Chat(s), FALSE), s)
<1>1. PICK front \in Seq(RowType), r \in RowType : s = Append(front, r) /\ r = s[Len(s)]
  BY LastRow
<1>2. Chat(s) = Append(Chat(front), r) /\ Chat(front) \in Seq(RowType)
  BY <1>1, ChatNext, ChatIs
<1>. DEFINE h == Chat(s)
            p == Prompt(h)
            ids == Results(s)
<1>3. h \in Seq(RowType) /\ Len(h) \in Nat /\ Len(h) >= 1 /\ h[Len(h)] = r
  BY <1>2
<1>4. Answered(p) = ids
  BY AnsweredChat
<1>5. Payload(h, FALSE) = Forward(p)
  BY <1>3, ForwardIsTyped
<1>. HIDE DEF h, ids
<1>6. p \in Seq(MessageType) /\ Len(p) = Len(h)
  BY <1>3, PromptOf
<1>7. \A k \in 1..Len(h) : p[k] = IF k = Len(h) THEN Prefixed(h[k].message) ELSE ToAiMessage(h[k])
  <2>1. DOMAIN h = 1..Len(h)
    BY <1>3
  <2>. QED BY <2>1 DEF Prompt, Prefixed
<1>. HIDE DEF p
<1>8. Len(Forward(p)) = Len(h) /\ \A k \in 1..Len(h) : Forward(p)[k] = Limited(p[k], ids)
  BY <1>4, <1>6, ForwardOf
<1>9. ASSUME NEW m \in MessageType PROVE Limited(Prefixed(m), ids) = Prefixed(Limited(m, ids))
  BY DEF Limited, Prefixed, MessageType
<1>10. ToAiMessage(r) = r.message /\ r.message \in MessageType
  BY <1>1, SeenIs
<1>11. ASSUME NEW k \in 1..Len(h)
       PROVE  Forward(p)[k] = IF k = Len(h) THEN Prefixed(Seen(h[k], ids)) ELSE Seen(h[k], ids)
  <2>1. CASE k = Len(h)
    <3>1. Forward(p)[k] = Limited(Prefixed(r.message), ids)
      BY <1>3, <1>7, <1>8, <2>1
    <3>. QED BY <1>3, <1>9, <1>10, <2>1, <3>1 DEF Seen
  <2>2. CASE k # Len(h)
    BY <1>7, <1>8, <2>2 DEF Seen
  <2>. QED BY <2>1, <2>2
<1>. QED BY <1>5, <1>8, <1>11 DEF Rebuilt, h, ids

(* The prefix reaches the row: from now on the prompt shows the rows.       *)
Stored(r) == [r EXCEPT !.message.prefix = TRUE]

(* Nothing but the prefix changes.                                          *)
LEMMA StoredIs ==
    ASSUME NEW r \in RowType
    PROVE  /\ Stored(r) \in RowType
           /\ Stored(r).copy = r.copy /\ Stored(r).raw = r.raw
           /\ Stored(r).message.role = r.message.role /\ Stored(r).message.id = r.message.id
           /\ Stored(r).message.calls = r.message.calls
           /\ \A ids : ~r.raw => Seen(Stored(r), ids) = Prefixed(Seen(r, ids))
<1>1. r.message \in MessageType /\ Stored(r) \in RowType /\ Stored(r).message = Prefixed(r.message)
      /\ Stored(r).copy = r.copy /\ Stored(r).raw = r.raw
  BY DEF RowType, MessageType, Stored, Prefixed
<1>2. /\ Prefixed(r.message).role = r.message.role /\ Prefixed(r.message).id = r.message.id
      /\ Prefixed(r.message).calls = r.message.calls
  BY <1>1 DEF MessageType, Prefixed
<1>3. ASSUME ~r.raw, NEW ids PROVE Seen(Stored(r), ids) = Prefixed(Seen(r, ids))
  <2>1. ToAiMessage(Stored(r)) = Prefixed(r.message) /\ ToAiMessage(r) = r.message
    BY <1>1, <1>3 DEF ToAiMessage
  <2>2. Limited(Prefixed(r.message), ids) = Prefixed(Limited(r.message, ids))
    BY <1>1 DEF Limited, Prefixed, MessageType
  <2>. QED BY <2>1, <2>2 DEF Seen
<1>. QED BY <1>1, <1>2, <1>3

(* PersistPrefix.                                                           *)
LEMMA PrefixStored ==
    ASSUME NEW s \in Seq(RowType), s # <<>>, ~s[Len(s)].raw, ~s[Len(s)].copy,
           s[Len(s)].message.role # "tool", s[Len(s)].message.calls = {}, Rows(s)
    PROVE  LET t == [s EXCEPT ![Len(s)].message.prefix = TRUE]
           IN  /\ t \in Seq(RowType) /\ Rows(t) /\ Len(t) = Len(s)
               /\ \A i \in 1..Len(s) :
                     /\ t[i].message.role = s[i].message.role /\ t[i].message.id = s[i].message.id
                     /\ t[i].message.calls = s[i].message.calls
               /\ Results(t) = Results(s)
               /\ Len(Chat(t)) = Len(Chat(s))
               /\ \A k \in 1..(Len(Chat(s)) - 1) : Chat(t)[k] = Chat(s)[k]
               /\ \A ms \in Seq(MessageType) :
                     Rebuilt(ms, s) => Len(ms) = Len(Chat(t)) /\ Mirrors(ms, Chat(t), Results(t))
<1>. DEFINE t == [s EXCEPT ![Len(s)].message.prefix = TRUE]
            n == Len(s)
<1>1. n \in Nat /\ n >= 1 /\ \A i \in 1..n : s[i] \in RowType
  OBVIOUS
<1>2. t = [i \in 1..n |-> IF i = n THEN Stored(s[n]) ELSE s[i]]
  <2>1. DOMAIN s = 1..n
    OBVIOUS
  <2>. QED BY <2>1 DEF Stored
<1>. HIDE DEF t
<1>3. \A i \in 1..n : t[i] \in RowType
  BY <1>1, <1>2, StoredIs
<1>4. t \in Seq(RowType) /\ Len(t) = n /\ DOMAIN t = 1..n /\ DOMAIN s = 1..n
  BY <1>1, <1>2, <1>3
<1>5. \A i \in 1..n : /\ t[i].message.role = s[i].message.role /\ t[i].message.id = s[i].message.id
                      /\ t[i].message.calls = s[i].message.calls /\ t[i].copy = s[i].copy
  <2>. TAKE i \in 1..n
  <2>1. s[n] \in RowType /\ t[i] = IF i = n THEN Stored(s[n]) ELSE s[i]
    BY <1>1, <1>2
  <2>. QED BY <2>1, StoredIs
<1>6. Rows(t)
  <2>1. \A i, j \in 1..n : \A k \in (j + 1)..i : k \in 1..n
    BY <1>1
  <2>2. Declarers(t) /\ Copies(t)
    BY <1>4, <1>5 DEF Rows, Declarers, Copies
  <2>3. \A i \in 1..n : Follows(t[i]) <=> Follows(s[i])
    BY <1>5 DEF Follows
  <2>4. ASSUME NEW i \in 1..n, NEW j \in 1..n,
               t[i].message.role = "tool", t[i].message.id \in t[j].message.calls
        PROVE  j < i /\ \A k \in (j + 1)..i : Follows(t[k])
    <3>1. s[i].message.role = "tool" /\ s[i].message.id \in s[j].message.calls
      BY <1>5, <2>4
    <3>2. j < i /\ \A k \in (j + 1)..i : Follows(s[k])
      BY <1>4, <3>1 DEF Rows, PairedRows
    <3>. QED BY <2>1, <2>3, <3>2
  <2>5. PairedRows(t)
    BY <1>4, <2>4 DEF PairedRows
  <2>. QED BY <2>2, <2>5 DEF Rows
<1>7. PICK front \in Seq(RowType), r \in RowType : s = Append(front, r) /\ r = s[n] /\ n = Len(front) + 1
  BY LastRow
<1>8. t = Append(front, Stored(r)) /\ Stored(r) \in RowType /\ Stored(r).copy = r.copy
  <2>1. Stored(r) \in RowType /\ Stored(r).copy = r.copy
    BY StoredIs
  <2>2. \A i \in 1..Len(front) : s[i] = front[i] /\ i # n
    BY <1>7
  <2>. QED BY <1>2, <1>7, <2>1, <2>2
<1>. DEFINE b == Chat(front)
<1>9. b \in Seq(RowType) /\ Chat(s) = Append(b, r) /\ Chat(t) = Append(b, Stored(r))
  BY <1>7, <1>8, ChatIs, ChatNext
<1>10. Results(t) = Results(s)
  <2>1. {i \in DOMAIN t : t[i].message.role = "tool"} = {i \in DOMAIN s : s[i].message.role = "tool"}
    BY <1>4, <1>5
  <2>2. \A i \in {j \in DOMAIN s : s[j].message.role = "tool"} : t[i].message.id = s[i].message.id
    BY <1>4, <1>5
  <2>. QED BY <2>1, <2>2, Zenon DEF Results
<1>. HIDE DEF b
<1>. DEFINE l == Len(b)
<1>11. /\ l \in Nat /\ Len(Chat(s)) = l + 1 /\ Len(Chat(t)) = l + 1
       /\ \A k \in 1..l : Chat(t)[k] = Chat(s)[k]
       /\ Chat(s)[l + 1] = r /\ Chat(t)[l + 1] = Stored(r)
  BY <1>8, <1>9
<1>12. ASSUME NEW ms \in Seq(MessageType), Rebuilt(ms, s)
       PROVE  Len(ms) = Len(Chat(t)) /\ Mirrors(ms, Chat(t), Results(t))
  <2>. HIDE DEF l
  <2>1. Len(ms) = l + 1
    BY <1>11, <1>12 DEF Rebuilt
  <2>2. Seen(Stored(r), Results(s)) = Prefixed(Seen(r, Results(s)))
    BY <1>7, StoredIs
  <2>3. \A k \in 1..(l + 1) : k \in 1..l \/ k = l + 1
    BY <1>11
  <2>4. \A k \in 1..l : k # l + 1 /\ k \in 1..(l + 1)
    BY <1>11
  <2>5. \A k \in 1..(l + 1) : ms[k] = Seen(Chat(t)[k], Results(s))
    BY <1>11, <1>12, <2>1, <2>2, <2>3, <2>4 DEF Rebuilt
  <2>. QED BY <1>10, <1>11, <2>1, <2>5 DEF Mirrors
<1>13. \A k \in 1..(Len(Chat(s)) - 1) : Chat(t)[k] = Chat(s)[k]
  BY <1>11
<1>. QED BY <1>4, <1>5, <1>6, <1>10, <1>11, <1>12, <1>13 DEF t
-----------------------------------------------------------------------------
(* The rows after a compaction: some of those in front of a turn, the       *)
(* summary, the turn and what follows.                                      *)
LEMMA Compacted ==
    ASSUME NEW s \in Seq(RowType), Rows(s), NEW at \in 1..Len(s), ~Follows(s[at]),
           NEW A \in SUBSET (1..(at - 1)),
           NEW r \in RowType, r.message.role # "tool", r.message.calls = {}
    PROVE  LET t == Keep(s, A) \o <<r>> \o SubSeq(s, at, Len(s))
           IN  /\ t \in Seq(RowType) /\ Rows(t) /\ t # <<>> /\ t[Len(t)] = s[Len(s)]
               /\ \A i \in 1..Len(t) : t[i] = r \/ \E j \in 1..Len(s) : t[i] = s[j]
<1>. DEFINE h == Keep(s, A)
            z == SubSeq(s, at, Len(s))
            t == h \o <<r>> \o z
            p == Len(h)
            n == Len(s)
<1>1. n \in Nat /\ at \in Nat /\ 1 <= at /\ at <= n /\ A \in SUBSET (1..n) /\ DOMAIN s = 1..n
  OBVIOUS
<1>2. h \in Seq(RowType)
  BY <1>1, KeepSelects
<1>3. PICK f \in [1..p -> A] :
        /\ \A k \in 1..p : h[k] = s[f[k]]
        /\ \A k, l \in 1..p : k < l <=> f[k] < f[l]
  BY <1>1, KeepSelects
<1>. HIDE DEF h
<1>4. p \in Nat
  BY <1>2
<1>5. z \in Seq(RowType) /\ Len(z) = n - at + 1 /\ \A i \in 1..(n - at + 1) : z[i] = s[at + i - 1]
  BY <1>1, SubSeqProperties
<1>. HIDE DEF z
<1>. DEFINE m == p + 1 + (n - at + 1)
            e == [i \in 1..m |-> IF i <= p THEN f[i] ELSE i - (p + 1) + at - 1]
<1>6. /\ t \in Seq(RowType) /\ Len(t) = m
      /\ \A i \in 1..p : t[i] = h[i]
      /\ t[p + 1] = r
      /\ \A i \in (p + 2)..m : t[i] = z[i - (p + 1)]
  <2>1. h \o <<r>> \in Seq(RowType) /\ Len(h \o <<r>>) = p + 1
        /\ (\A i \in 1..p : (h \o <<r>>)[i] = h[i]) /\ (h \o <<r>>)[p + 1] = r
    BY <1>2
  <2>. DEFINE g == h \o <<r>>
  <2>. HIDE DEF g
  <2>2. g \in Seq(RowType) /\ Len(g) = p + 1 /\ (\A i \in 1..p : g[i] = h[i]) /\ g[p + 1] = r
    BY <2>1 DEF g
  <2>3. /\ g \o z \in Seq(RowType) /\ Len(g \o z) = m
        /\ \A i \in 1..m : (g \o z)[i] = IF i <= p + 1 THEN g[i] ELSE z[i - (p + 1)]
    <3>1. Len(z) = n - at + 1
      BY <1>5
    <3>2. m = Len(g) + Len(z) /\ m \in Nat
      BY <1>1, <1>4, <2>2, <3>1
    <3>3. g \in Seq(RowType) /\ z \in Seq(RowType) /\ Len(g) = p + 1
      BY <1>5, <2>2
    <3>. HIDE DEF m
    <3>4. /\ g \o z \in Seq(RowType) /\ Len(g \o z) = Len(g) + Len(z)
          /\ \A i \in 1..(Len(g) + Len(z)) :
                (g \o z)[i] = IF i <= Len(g) THEN g[i] ELSE z[i - Len(g)]
      BY <3>3, ConcatProperties, ZenonT(60)
    <3>. QED BY <3>2, <3>3, <3>4, Zenon
  <2>4. t = g \o z
    BY DEF g
  <2>5. \A i \in 1..p : i \in 1..m /\ i <= p + 1
    BY <1>1, <1>4
  <2>6. p + 1 \in 1..m
    BY <1>1, <1>4
  <2>7. \A i \in (p + 2)..m : i \in 1..m /\ ~(i <= p + 1)
    BY <1>1, <1>4
  <2>. HIDE DEF m, t
  <2>8. t \in Seq(RowType) /\ Len(t) = m
    BY <2>3, <2>4
  <2>9. (\A i \in 1..p : t[i] = h[i]) /\ t[p + 1] = r
    BY <1>4, <2>2, <2>3, <2>4, <2>5, <2>6
  <2>10. \A i \in (p + 2)..m : t[i] = z[i - (p + 1)]
    BY <2>3, <2>4, <2>7
  <2>. QED BY <2>8, <2>9, <2>10
<1>. HIDE DEF t
<1>7. m \in Nat /\ \A i \in 1..m : i \in 1..p \/ i = p + 1 \/ i \in (p + 2)..m
  BY <1>1, <1>4
<1>8. \A i \in 1..p : f[i] \in 1..(at - 1)
  BY <1>3
<1>9. ASSUME NEW i \in 1..p
      PROVE  e[i] = f[i] /\ e[i] \in 1..n /\ e[i] < at /\ t[i] = s[e[i]]
  <2>1. i \in 1..m /\ i <= p
    BY <1>1, <1>4
  <2>2. e[i] = f[i]
    BY <2>1
  <2>. HIDE DEF e, m
  <2>. QED BY <1>1, <1>3, <1>6, <1>8, <2>2
<1>10. ASSUME NEW i \in (p + 2)..m
       PROVE  e[i] = i - (p + 1) + at - 1 /\ e[i] \in 1..n /\ at <= e[i] /\ t[i] = s[e[i]]
  <2>1. i \in 1..m /\ ~(i <= p) /\ i - (p + 1) \in 1..(n - at + 1)
    BY <1>1, <1>4
  <2>2. e[i] = i - (p + 1) + at - 1
    BY <2>1
  <2>3. t[i] = s[at + (i - (p + 1)) - 1]
    BY <1>5, <1>6, <2>1
  <2>4. at + (i - (p + 1)) - 1 = e[i]
    BY <1>1, <1>4, <2>2
  <2>. QED BY <1>1, <1>4, <2>1, <2>2, <2>3, <2>4
<1>. HIDE DEF e
<1>11. \A i \in 1..m : i # p + 1 => e[i] \in 1..n /\ t[i] = s[e[i]]
  BY <1>7, <1>9, <1>10
<1>12. ASSUME NEW i \in 1..m, NEW j \in 1..m, i # p + 1, j # p + 1
       PROVE  i < j <=> e[i] < e[j]
  <2>1. CASE i \in 1..p /\ j \in 1..p
    BY <1>3, <1>9, <2>1
  <2>2. CASE i \in 1..p /\ j \in (p + 2)..m
    <3>1. i < j
      BY <1>4, <2>2
    <3>. QED BY <1>1, <1>9, <1>10, <2>2, <3>1
  <2>3. CASE i \in (p + 2)..m /\ j \in 1..p
    <3>1. ~(i < j)
      BY <1>4, <2>3
    <3>. QED BY <1>1, <1>9, <1>10, <2>3, <3>1
  <2>4. CASE i \in (p + 2)..m /\ j \in (p + 2)..m
    <3>1. e[i] = i - (p + 1) + at - 1 /\ e[j] = j - (p + 1) + at - 1
      BY <1>10, <2>4
    <3>2. i \in Nat /\ j \in Nat /\ p \in Nat /\ at \in Nat
      BY <1>1, <1>4
    <3>. HIDE DEF m
    <3>. QED BY <3>1, <3>2
  <2>. QED BY <1>7, <1>12, <2>1, <2>2, <2>3, <2>4
<1>13. DOMAIN t = 1..m
  BY <1>6
<1>14. Declarers(t) /\ Copies(t)
  <2>1. \A i \in 1..n : /\ s[i].copy \/ s[i].message.role = "tool" => s[i].message.calls = {}
                        /\ s[i].copy => s[i].message.role # "tool"
    BY <1>1 DEF Rows, Declarers, Copies
  <2>2. \A i \in 1..m : /\ t[i].copy \/ t[i].message.role = "tool" => t[i].message.calls = {}
                        /\ t[i].copy => t[i].message.role # "tool"
    <3>. TAKE i \in 1..m
    <3>1. CASE i = p + 1
      BY <1>6, <3>1
    <3>2. CASE i # p + 1
      <4>1. e[i] \in 1..n /\ t[i] = s[e[i]]
        BY <1>11, <3>2
      <4>. QED BY <2>1, <4>1
    <3>. QED BY <3>1, <3>2
  <2>. QED BY <1>13, <2>2 DEF Declarers, Copies
<1>15. ASSUME NEW i \in 1..m, NEW j \in 1..m,
              t[i].message.role = "tool", t[i].message.id \in t[j].message.calls
       PROVE  j < i /\ \A k \in (j + 1)..i : Follows(t[k])
  <2>1. i # p + 1 /\ j # p + 1
    BY <1>6, <1>15
  <2>2. t[i] = s[e[i]] /\ t[j] = s[e[j]] /\ e[i] \in 1..n /\ e[j] \in 1..n
    BY <1>11, <2>1
  <2>3. e[j] < e[i] /\ \A k \in (e[j] + 1)..e[i] : Follows(s[k])
    BY <1>1, <1>15, <2>2 DEF Rows, PairedRows
  <2>4. j < i
    BY <1>12, <2>1, <2>3
  <2>5. ~(j \in 1..p /\ i \in (p + 2)..m)
    <3>. SUFFICES ASSUME j \in 1..p, i \in (p + 2)..m PROVE FALSE
      OBVIOUS
    <3>1. e[j] < at /\ at <= e[i]
      BY <1>9, <1>10
    <3>2. at \in (e[j] + 1)..e[i]
      BY <1>1, <2>2, <3>1
    <3>. QED BY <2>3, <3>2
  <2>6. ASSUME NEW k \in (j + 1)..i PROVE Follows(t[k])
    <3>0. j \in 1..m /\ i \in 1..m /\ j + 1 <= k /\ k <= i /\ k \in Int
      OBVIOUS
    <3>. HIDE DEF m
    <3>1. k \in 1..m /\ j < k /\ ~(i < k)
      BY <1>7, <3>0
    <3>2. k # p + 1
      <4>. SUFFICES ASSUME k = p + 1 PROVE FALSE
        OBVIOUS
      <4>1. j \in 1..p
        BY <1>4, <3>0
      <4>2. i \in (p + 2)..m
        BY <1>4, <1>7, <2>1, <3>0
      <4>. QED BY <2>5, <4>1, <4>2
    <3>3. e[j] < e[k] /\ ~(e[i] < e[k])
      BY <1>12, <2>1, <3>1, <3>2
    <3>4. e[k] \in 1..n /\ t[k] = s[e[k]]
      BY <1>11, <3>1, <3>2
    <3>5. e[k] \in (e[j] + 1)..e[i]
      BY <1>1, <2>2, <3>3, <3>4
    <3>. QED BY <2>3, <3>4, <3>5
  <2>. QED BY <2>4, <2>6
<1>16. PairedRows(t)
  BY <1>13, <1>15 DEF PairedRows
<1>17. t # <<>> /\ t[Len(t)] = s[n]
  <2>1. m \in (p + 2)..m
    BY <1>1, <1>4
  <2>2. e[m] = n
    BY <1>1, <1>4, <1>10, <2>1
  <2>3. t[m] = s[n]
    BY <1>10, <2>1, <2>2
  <2>4. m # 0
    BY <1>1, <1>4
  <2>. HIDE DEF m
  <2>. QED BY <1>6, <1>13, <2>3, <2>4
<1>18. \A i \in 1..Len(t) : t[i] = r \/ \E j \in 1..n : t[i] = s[j]
  BY <1>6, <1>11
<1>. QED BY <1>6, <1>14, <1>16, <1>17, <1>18 DEF t, h, z, Rows

(* The strict prompt made of a summary and the rows read from there on.     *)
LEMMA CompactedPrompt ==
    ASSUME NEW s \in Seq(RowType), Rows(s), NEW I \in SUBSET (1..Len(s)), \A i \in I : ~s[i].copy,
           NEW r \in RowType, r.message.role # "tool", r.message.calls = {}
    PROVE  \A strip \in BOOLEAN :
              /\ Payload(<<r>> \o Keep(s, I), strip) \in Seq(MessageType)
              /\ strip => Contract(Payload(<<r>> \o Keep(s, I), strip))
              /\ Payload(Keep(s, I), strip) \in Seq(MessageType)
              /\ strip => Contract(Payload(Keep(s, I), strip))
<1>. DEFINE h == Keep(s, I)
            g == <<r>> \o h
<1>1. h \in Seq(RowType) /\ PairedHistory(h)
  BY ReadRowsPaired DEF Rows
<1>2. PICK f \in [1..Len(h) -> I] : \A k \in 1..Len(h) : h[k] = s[f[k]]
  BY KeepSelects
<1>3. \A k \in 1..Len(h) : h[k].message.role = "tool" => h[k].message.calls = {}
  <2>1. \A i \in I : s[i].message.role = "tool" => s[i].message.calls = {}
    BY DEF Rows, Declarers
  <2>2. \A k \in 1..Len(h) : f[k] \in I
    BY <1>2
  <2>. QED BY <1>2, <2>1, <2>2
<1>. HIDE DEF h
<1>4. g \in Seq(RowType) /\ PairedHistory(g)
  BY <1>1, SummaryPaired
<1>5. \A k \in 1..Len(g) : g[k].message.role = "tool" => g[k].message.calls = {}
  <2>1. Len(g) = Len(h) + 1 /\ g[1] = r /\ Len(h) \in Nat /\ \A k \in 2..Len(g) : g[k] = h[k - 1]
    BY <1>1
  <2>. HIDE DEF g
  <2>2. \A k \in 1..Len(g) : k = 1 \/ (k \in 2..Len(g) /\ k - 1 \in 1..Len(h))
    BY <2>1
  <2>. QED BY <1>3, <2>1, <2>2
<1>. HIDE DEF g
<1>6. /\ Payload(g, TRUE) \in Seq(MessageType) /\ Contract(Payload(g, TRUE))
      /\ Payload(h, TRUE) \in Seq(MessageType) /\ Contract(Payload(h, TRUE))
  BY <1>1, <1>3, <1>4, <1>5, RebuiltPrompt
<1>7. Payload(g, FALSE) \in Seq(MessageType) /\ Payload(h, FALSE) \in Seq(MessageType)
  BY <1>1, <1>4, ForwardIsTyped
<1>. QED BY <1>6, <1>7 DEF g, h
-----------------------------------------------------------------------------
(* Calls and results are dated by run and turn: those of a turn that is     *)
(* open are of now, all others of the past.                                 *)
Now(c, n, t) == c[1] = n /\ c[2] = t
Past(c, n, t) == c[1] < n \/ (c[1] = n /\ c[2] < t)
Dated(c, p, n, t) ==
    /\ c[1] <= n
    /\ p \in {"building", "prefix"} => c[1] < n
    /\ p = "loop" => Past(c, n, t)
    /\ p \in {"tools", "skip"} => Past(c, n, t) \/ Now(c, n, t)
Named(r) == r.message.calls \cup (IF r.message.role = "tool" THEN {r.message.id} ELSE {})
Dates(s, p, n, t) == \A i \in 1..Len(s) : \A c \in Named(s[i]) : Dated(c, p, n, t)

(* Nothing but results and copies comes after a turn that is open.          *)
OpenTurn(s, n, t) ==
    \A j \in 1..Len(s) : (\E c \in s[j].message.calls : Now(c, n, t)) =>
        \A k \in (j + 1)..Len(s) : Follows(s[k])

Awaited(pend, n, t) == {<<n, t, pend[k]>> : k \in 1..Len(pend)}

Cached(sl, s, p, n, t) ==
    /\ Mirrors(sl, Chat(s), Results(s))
    /\ p \in {"building", "prefix"} => Len(sl) < Len(Chat(s))
    /\ p \in {"tools", "skip"} =>
          \A k \in 1..Len(sl) : \A c \in Chat(s)[k].message.calls : ~Now(c, n, t)

-----------------------------------------------------------------------------
(* The inductive invariant.                                                 *)
Types ==
    /\ rows \in Seq(RowType) /\ messages \in Seq(MessageType) /\ slot \in Seq(MessageType)
    /\ pc \in {"idle", "building", "prefix", "loop", "tools", "skip", "final"}
    /\ run \in 0..MaxRuns
    /\ turns \in 0..(MaxToolTurns + 1)
    /\ same \in 0..(MaxIdentical + 2)
    /\ pending \in Seq(1..MaxCalls)
    /\ full \in {"none", "stream", "merged", "notice"}
    /\ strict \in BOOLEAN /\ think \in BOOLEAN /\ signal \in BOOLEAN
    /\ aborted \in BOOLEAN /\ sent \in BOOLEAN /\ excused \in BOOLEAN

(* What holds at the places of a run.                                       *)
Stages ==
    /\ pc # "idle" => run >= 1
    /\ pc \notin {"tools", "skip"} => pending = <<>>
    /\ pc \in {"tools", "skip"} => turns <= MaxToolTurns
    /\ pc \notin {"skip", "final"} => same <= MaxIdentical + 1
    /\ pc = "skip" => pending # <<>>
    /\ pc \in {"building", "prefix"} =>
          /\ rows # <<>>
          /\ rows[Len(rows)].message.role = "user" /\ rows[Len(rows)].message.calls = {}
          /\ ~rows[Len(rows)].raw /\ ~rows[Len(rows)].copy

RowsSound ==
    /\ Rows(rows)
    /\ Dates(rows, pc, run, turns)
    /\ pc \in {"tools", "skip"} => OpenTurn(rows, run, turns)

(* The cache holds the first of the messages that the rows show, and the    *)
(* prompt all of them; what the running turn still awaits counts as there.  *)
SlotMirrors == ~excused => Cached(slot, rows, pc, run, turns)
PromptMirrors ==
    ~excused /\ ~strict =>
        /\ pc = "prefix" => Rebuilt(messages, rows)
        /\ pc \in {"loop", "tools", "skip", "final"} =>
              /\ Len(messages) = Len(Chat(rows))
              /\ Mirrors(messages, Chat(rows), Results(rows) \cup Awaited(pending, run, turns))

IInv == Types /\ Stages /\ RowsSound /\ RebuiltIsValid /\ SlotMirrors /\ PromptMirrors

(* What is known of the constants.                                          *)
LEMMA Bounds ==
    /\ MaxToolTurns \in Nat /\ MaxIdentical \in Nat /\ Limit \in Nat /\ MaxCalls \in Nat /\ MaxRuns \in Nat
    /\ MaxIdentical >= 1 /\ Limit >= 1 /\ MaxCalls >= 1 /\ MaxRuns >= 1
BY BoundsAssumption

(* Ids are triples of numbers.                                              *)
LEMMA IdsAre ==
    /\ \A n \in 1..MaxRuns, t \in 0..(MaxToolTurns + 1), k \in 0..MaxCalls : <<n, t, k>> \in Ids
    /\ \A c \in Ids : c[1] \in Nat /\ c[2] \in Nat
BY Bounds DEF Ids

(* An empty cache mirrors everything.                                       *)
LEMMA Nothing == Results(<<>>) = {} /\ \A h, ids : Mirrors(<<>>, h, ids) <=> 0 <= Len(h)
BY DEF Results, Mirrors

(* Without calls nothing is awaited.                                        *)
LEMMA NoneAwaited == \A n, t : Awaited(<<>>, n, t) = {}
BY DEF Awaited

(* The rows that name nothing new keep the dates.                           *)
LEMMA DatesAdded ==
    ASSUME NEW s \in Seq(RowType), NEW r \in RowType, NEW p, NEW n, NEW t,
           Dates(s, p, n, t), \A c \in Named(r) : Dated(c, p, n, t)
    PROVE  Dates(Append(s, r), p, n, t)
<1>1. /\ Len(Append(s, r)) = Len(s) + 1 /\ Append(s, r)[Len(s) + 1] = r
      /\ \A i \in 1..Len(s) : Append(s, r)[i] = s[i]
  OBVIOUS
<1>2. \A i \in 1..(Len(s) + 1) : i \in 1..Len(s) \/ i = Len(s) + 1
  OBVIOUS
<1>. QED BY <1>1, <1>2 DEF Dates

(* Results and copies keep a turn open.                                     *)
LEMMA OpenAdded ==
    ASSUME NEW s \in Seq(RowType), NEW r \in RowType, NEW n, NEW t,
           OpenTurn(s, n, t), Follows(r)
    PROVE  OpenTurn(Append(s, r), n, t)
<1>. DEFINE l == Len(s)
            g == Append(s, r)
<1>1. /\ Len(g) = l + 1 /\ g[l + 1] = r /\ l \in Nat
      /\ \A i \in 1..l : g[i] = s[i]
  OBVIOUS
<1>. HIDE DEF g
<1>2. ASSUME NEW j \in 1..(l + 1), \E c \in g[j].message.calls : Now(c, n, t),
             NEW k \in (j + 1)..(l + 1)
      PROVE  Follows(g[k])
  <2>1. j \in 1..l /\ (k \in (j + 1)..l \/ k = l + 1)
    BY <1>1
  <2>2. \A i \in (j + 1)..l : Follows(s[i])
    BY <1>1, <1>2, <2>1 DEF OpenTurn
  <2>3. k \in (j + 1)..l => k \in 1..l
    BY <1>1, <2>1
  <2>. QED BY <1>1, <2>1, <2>2, <2>3
<1>3. OpenTurn(g, n, t)
  BY <1>1, <1>2 DEF OpenTurn
<1>. QED BY <1>3 DEF g

(* The invariant holds at first.                                            *)
LEMMA Initially == Init => IInv
<1>. SUFFICES ASSUME Init PROVE IInv
  OBVIOUS
<1>0. \A S : <<>> \in Seq(S)
  BY EmptySeq
<1>1. Types
  <2>1. 0 \in 0..MaxRuns /\ 0 \in 0..(MaxToolTurns + 1) /\ 0 \in 0..(MaxIdentical + 2)
    BY Bounds
  <2>2. /\ <<>> \in Seq(RowType) /\ <<>> \in Seq(MessageType) /\ <<>> \in Seq(1..MaxCalls)
    BY <1>0
  <2>. QED BY <2>1, <2>2, Zenon DEF Init, Types
<1>2. Stages
  BY Bounds DEF Init, Stages
<1>3. RowsSound
  BY DEF Init, RowsSound, Rows, Declarers, Copies, PairedRows, Dates
<1>4. RebuiltIsValid /\ PromptMirrors
  BY DEF Init, RebuiltIsValid, PromptMirrors
<1>5. SlotMirrors
  <2>1. Chat(<<>>) \in Seq(RowType)
    BY <1>0, ChatIs
  <2>. QED BY <2>1, Nothing DEF Init, SlotMirrors, Cached
<1>. QED BY <1>1, <1>2, <1>3, <1>4, <1>5 DEF IInv

(* The text of an answer or a message of the user makes the chat longer.    *)
LEMMA ChatGrows ==
    ASSUME NEW s \in Seq(RowType), NEW r \in RowType, r.message.role # "tool", ~r.copy
    PROVE  /\ Chat(s) \in Seq(RowType) /\ Chat(Append(s, r)) = Append(Chat(s), r)
           /\ Len(Chat(Append(s, r))) = Len(Chat(s)) + 1 /\ Len(Chat(s)) \in Nat
           /\ \A k \in 1..Len(Chat(s)) : Chat(Append(s, r))[k] = Chat(s)[k]
           /\ Results(Append(s, r)) = Results(s)
<1>1. Chat(s) \in Seq(RowType) /\ Chat(Append(s, r)) = Append(Chat(s), r)
  BY ChatIs, ChatNext
<1>2. Results(Append(s, r)) = Results(s)
  BY ResultsNext
<1>. QED BY <1>1, <1>2

(* A run begins.                                                            *)
LEMMA StoreUserKeeps == IInv /\ StoreUser => IInv'
<1>. SUFFICES ASSUME IInv, StoreUser PROVE IInv'
  OBVIOUS
<1>. DEFINE r == Plain(Message("user", <<run + 1, 0, 0>>, {}, "user"))
<1>1. /\ Types /\ Stages /\ RowsSound /\ SlotMirrors /\ run \in Nat /\ run < MaxRuns
      /\ rows \in Seq(RowType) /\ rows' = Append(rows, r) /\ pc = "idle" /\ pc' = "building"
      /\ run' = run + 1 /\ slot' = slot /\ excused' = excused /\ turns' = turns
      /\ slot \in Seq(MessageType)
  BY Bounds DEF IInv, StoreUser, Types
<1>2. /\ r \in RowType /\ r.message.role = "user" /\ r.message.calls = {} /\ ~r.raw /\ ~r.copy
  BY <1>1, Bounds DEF Plain, Row, Message, RowType, MessageType, Ids
<1>. HIDE DEF r
<1>3. rows' \in Seq(RowType) /\ rows' # <<>> /\ rows'[Len(rows')] = r
  BY <1>1, <1>2
<1>4. Types'
  BY <1>1, <1>3, Bounds DEF StoreUser, Types
<1>5. Stages'
  <2>1. pending' = <<>> /\ same' = same /\ same <= MaxIdentical + 1 /\ run' >= 1
    BY <1>1 DEF StoreUser, Stages
  <2>. QED BY <1>1, <1>2, <1>3, <2>1 DEF Stages
<1>6. RowsSound'
  <2>1. Rows(rows')
    BY <1>1, <1>2, TextAdded DEF RowsSound
  <2>2. Dates(rows, "building", run + 1, turns)
    <3>1. \A i \in 1..Len(rows) : \A c \in Named(rows[i]) : c[1] \in Nat
      <4>1. \A q \in RowType : \A c \in Named(q) : c \in Ids
        BY DEF Named, RowType, MessageType
      <4>2. \A i \in 1..Len(rows) : rows[i] \in RowType
        BY <1>1
      <4>. QED BY <4>1, <4>2, Bounds DEF Ids
    <3>. QED BY <1>1, <3>1 DEF RowsSound, Dates, Dated
  <2>3. Named(r) = {}
    BY <1>2 DEF Named
  <2>4. Dates(rows', "building", run + 1, turns)
    BY <1>1, <1>2, <2>2, <2>3, DatesAdded
  <2>. QED BY <1>1, <2>1, <2>4 DEF RowsSound
<1>7. RebuiltIsValid' /\ PromptMirrors'
  BY <1>1 DEF RebuiltIsValid, PromptMirrors
<1>8. SlotMirrors'
  <2>. SUFFICES ASSUME ~excused PROVE Cached(slot, rows', "building", run + 1, turns)
    BY <1>1 DEF SlotMirrors
  <2>1. Mirrors(slot, Chat(rows), Results(rows))
    BY <1>1 DEF SlotMirrors, Cached
  <2>2. /\ Chat(rows) \in Seq(RowType) /\ Chat(rows') = Append(Chat(rows), r)
        /\ Len(Chat(rows')) = Len(Chat(rows)) + 1 /\ Len(Chat(rows)) \in Nat
        /\ Results(rows') = Results(rows)
    BY <1>1, <1>2, ChatGrows
  <2>3. Mirrors(slot, Chat(rows'), Results(rows'))
    BY <1>1, <1>2, <2>1, <2>2, MirrorsKept
  <2>4. Len(slot) < Len(Chat(rows'))
    <3>1. Len(slot) <= Len(Chat(rows)) /\ Len(slot) \in Nat
      BY <1>1, <2>1 DEF Mirrors
    <3>. QED BY <2>2, <3>1
  <2>. QED BY <2>3, <2>4 DEF Cached
<1>. QED BY <1>4, <1>5, <1>6, <1>7, <1>8 DEF IInv
(* The prompt is built from the rows,                                       *)
LEMMA BuildKeeps == IInv /\ Build => IInv'
<1>. SUFFICES ASSUME IInv, Build PROVE IInv'
  OBVIOUS
<1>. DEFINE r == rows[Len(rows)]
            I == {i \in DOMAIN rows : Read(i)}
<1>1. /\ Types /\ Stages /\ RowsSound /\ SlotMirrors /\ Rows(rows) /\ strict \in BOOLEAN
      /\ rows \in Seq(RowType) /\ rows # <<>> /\ rows' = rows /\ pc = "building" /\ pc' = "prefix"
      /\ messages' = Payload(Keep(rows, I), strict) /\ strict' = strict
      /\ run' = run /\ slot' = slot /\ turns' = turns
      /\ excused' = (excused \/ Len(rows) > Limit) /\ excused \in BOOLEAN
      /\ r.message.role = "user" /\ r.message.calls = {} /\ ~r.raw /\ ~r.copy
  BY DEF IInv, Build, Types, Stages, RowsSound, History
<1>2. r \in RowType
  BY <1>1
<1>3. I \in SUBSET (1..Len(rows)) /\ \A i \in I : ~rows[i].copy
  <2>1. DOMAIN rows = 1..Len(rows)
    BY <1>1
  <2>. QED BY <2>1 DEF Read
<1>. HIDE DEF r
<1>4. messages' \in Seq(MessageType) /\ (strict => Contract(messages'))
  <2>. HIDE DEF I
  <2>1. r.message.role # "tool"
    BY <1>1
  <2>. QED BY <1>1, <1>2, <1>3, <2>1, CompactedPrompt
<1>5. Types'
  <2>1. excused' \in BOOLEAN
    BY <1>1
  <2>. QED BY <1>1, <1>4, <2>1 DEF Build, Types
<1>6. Stages'
  BY <1>1 DEF Build, Stages
<1>7. RowsSound'
  BY <1>1 DEF RowsSound, Dates, Dated
<1>8. RebuiltIsValid'
  BY <1>1, <1>4 DEF RebuiltIsValid
<1>9. SlotMirrors'
  BY <1>1 DEF SlotMirrors, Cached
<1>10. PromptMirrors'
  <2>. SUFFICES ASSUME ~excused', ~strict PROVE Rebuilt(messages', rows)
    BY <1>1 DEF PromptMirrors
  <2>1. I = Shown(rows)
    <3>0. ~(Len(rows) > Limit)
      BY <1>1, Zenon
    <3>1. DOMAIN rows = 1..Len(rows) /\ Len(rows) <= Limit /\ Len(rows) \in Nat
      BY <1>1, <3>0, Bounds
    <3>2. \A i \in 1..Len(rows) : i + Limit > Len(rows)
      BY <3>1, Bounds
    <3>. QED BY <3>1, <3>2 DEF Read, Shown
  <2>2. messages' = Payload(Chat(rows), FALSE)
    BY <1>1, <2>1 DEF Chat
  <2>3. Copies(rows) /\ ~rows[Len(rows)].raw /\ ~rows[Len(rows)].copy
    BY <1>1 DEF Rows, r
  <2>. QED BY <1>1, <2>2, <2>3, LocalPrompt
<1>. QED BY <1>5, <1>6, <1>7, <1>8, <1>9, <1>10 DEF IInv

(* or after a compaction.                                                   *)
LEMMA AutoCompactKeeps == IInv /\ AutoCompact => IInv'
<1>. SUFFICES ASSUME IInv, AutoCompact PROVE IInv'
  OBVIOUS
<1>1. /\ Types /\ Stages /\ RowsSound /\ Rows(rows) /\ strict \in BOOLEAN /\ run \in 1..MaxRuns
      /\ rows \in Seq(RowType) /\ rows # <<>> /\ pc = "building" /\ pc' = "prefix"
      /\ strict' = strict /\ run' = run /\ slot' = slot /\ turns' = turns /\ excused'
      /\ rows[Len(rows)].message.role = "user" /\ rows[Len(rows)].message.calls = {}
      /\ ~rows[Len(rows)].raw /\ ~rows[Len(rows)].copy
  <2>1. /\ pc = "building" /\ pc' = "prefix" /\ strict' = strict /\ run' = run /\ slot' = slot
        /\ turns' = turns /\ excused'
    BY DEF AutoCompact
  <2>2. /\ Types /\ Stages /\ RowsSound /\ Rows(rows) /\ strict \in BOOLEAN
        /\ rows \in Seq(RowType) /\ run \in 0..MaxRuns
    BY DEF IInv, Types, RowsSound
  <2>. QED BY <2>1, <2>2, Bounds DEF Stages
<1>2. PICK at \in DOMAIN rows :
        LET gone == {i \in 1..(at - 1) : Read(i)}
        IN  /\ Read(at) /\ rows[at].message.role = "user"
            /\ rows' = Keep(rows, (1..(at - 1)) \ gone) \o <<Summary>> \o SubSeq(rows, at, Len(rows))
            /\ messages' = Payload(<<Summary>> \o Keep(rows, {i \in at..Len(rows) : Read(i)}), strict)
  BY DEF AutoCompact
<1>. DEFINE A == (1..(at - 1)) \ {i \in 1..(at - 1) : Read(i)}
            I == {i \in at..Len(rows) : Read(i)}
<1>3. /\ Summary \in RowType /\ Summary.message.role = "user" /\ Summary.message.calls = {}
  <2>1. <<run, 0, 1>> \in Ids
    BY <1>1, IdsAre, Bounds
  <2>. QED BY <2>1 DEF Summary, Plain, Row, Message, RowType, MessageType
<1>4. at \in 1..Len(rows) /\ ~Follows(rows[at])
  BY <1>1, <1>2 DEF Read, Follows
<1>5. A \in SUBSET (1..(at - 1))
  OBVIOUS
<1>6. I \in SUBSET (1..Len(rows)) /\ \A i \in I : ~rows[i].copy
  BY <1>4 DEF Read
<1>7. /\ rows' = Keep(rows, A) \o <<Summary>> \o SubSeq(rows, at, Len(rows))
      /\ messages' = Payload(<<Summary>> \o Keep(rows, I), strict)
  BY <1>2
<1>. HIDE DEF A, I
<1>8. Summary.message.role # "tool"
  BY <1>3
<1>9. /\ rows' \in Seq(RowType) /\ Rows(rows') /\ rows' # <<>> /\ rows'[Len(rows')] = rows[Len(rows)]
      /\ \A i \in 1..Len(rows') : rows'[i] = Summary \/ \E j \in 1..Len(rows) : rows'[i] = rows[j]
  <2>. DEFINE u == Keep(rows, A) \o <<Summary>> \o SubSeq(rows, at, Len(rows))
  <2>1. /\ u \in Seq(RowType) /\ Rows(u) /\ u # <<>> /\ u[Len(u)] = rows[Len(rows)]
        /\ \A i \in 1..Len(u) : u[i] = Summary \/ \E j \in 1..Len(rows) : u[i] = rows[j]
    <3>1. rows \in Seq(RowType) /\ Rows(rows)
      BY <1>1
    <3>2. Summary \in RowType /\ Summary.message.calls = {}
      BY <1>3
    <3>. QED BY <3>1, <3>2, <1>4, <1>5, <1>8, Compacted
  <2>2. rows' = u
    BY <1>7
  <2>. HIDE DEF u
  <2>. QED BY <2>1, <2>2
<1>10. messages' \in Seq(MessageType) /\ (strict => Contract(messages'))
  BY <1>1, <1>3, <1>6, <1>7, <1>8, CompactedPrompt
<1>11. Types'
  BY <1>1, <1>9, <1>10 DEF AutoCompact, Types
<1>12. Stages'
  <2>1. pending' = pending /\ same' = same
    BY DEF AutoCompact
  <2>. QED BY <1>1, <1>9, <2>1 DEF Stages
<1>13. RowsSound'
  <2>1. Named(Summary) = {}
    BY <1>3 DEF Named
  <2>2. \A i \in 1..Len(rows) : \A c \in Named(rows[i]) : Dated(c, "prefix", run, turns)
    BY <1>1 DEF RowsSound, Dates, Dated
  <2>3. Dates(rows', "prefix", run, turns)
    BY <1>9, <2>1, <2>2 DEF Dates
  <2>. QED BY <1>1, <1>9, <2>3 DEF RowsSound
<1>14. RebuiltIsValid'
  BY <1>1, <1>10 DEF RebuiltIsValid
<1>15. SlotMirrors' /\ PromptMirrors'
  BY <1>1 DEF SlotMirrors, PromptMirrors
<1>. QED BY <1>11, <1>12, <1>13, <1>14, <1>15 DEF IInv

(* The rows get what the prompt has already.                                *)
LEMMA PersistPrefixKeeps ==
    ASSUME IInv, NEW ok \in BOOLEAN, PersistPrefix(ok)
    PROVE  IInv'
<1>. DEFINE l == Len(rows)
<1>1. /\ Types /\ Stages /\ RowsSound /\ Rows(rows) /\ SlotMirrors /\ PromptMirrors
      /\ strict \in BOOLEAN /\ excused \in BOOLEAN
      /\ rows \in Seq(RowType) /\ rows # <<>> /\ pc = "prefix" /\ pc' = "loop"
      /\ messages \in Seq(MessageType) /\ messages' = messages /\ pending = <<>> /\ pending' = <<>>
      /\ slot \in Seq(MessageType)
      /\ strict' = strict /\ run' = run /\ slot' = slot /\ turns' = turns
      /\ excused' = (excused \/ ~ok)
      /\ rows[l].message.role = "user" /\ rows[l].message.calls = {}
      /\ ~rows[l].raw /\ ~rows[l].copy
      /\ rows' = IF ok THEN [rows EXCEPT ![l].message.prefix = TRUE] ELSE rows
  BY DEF IInv, PersistPrefix, Types, Stages, RowsSound
<1>. DEFINE t == [rows EXCEPT ![l].message.prefix = TRUE]
<1>2. rows[l].message.role # "tool"
  BY <1>1
<1>3. /\ t \in Seq(RowType) /\ Rows(t) /\ Len(t) = l
      /\ \A i \in 1..l :
            /\ t[i].message.role = rows[i].message.role /\ t[i].message.id = rows[i].message.id
            /\ t[i].message.calls = rows[i].message.calls
      /\ Results(t) = Results(rows)
      /\ Len(Chat(t)) = Len(Chat(rows))
      /\ \A k \in 1..(Len(Chat(rows)) - 1) : Chat(t)[k] = Chat(rows)[k]
      /\ \A ms \in Seq(MessageType) :
            Rebuilt(ms, rows) => Len(ms) = Len(Chat(t)) /\ Mirrors(ms, Chat(t), Results(t))
  BY <1>1, <1>2, PrefixStored
<1>. HIDE DEF t
<1>4. rows' = IF ok THEN t ELSE rows
  BY <1>1 DEF t
<1>5. rows' \in Seq(RowType) /\ Rows(rows')
  BY <1>1, <1>3, <1>4
<1>6. Types'
  <2>1. excused' \in BOOLEAN
    BY <1>1
  <2>. QED BY <1>1, <1>5, <2>1 DEF PersistPrefix, Types
<1>7. Stages'
  <2>1. pending' = pending /\ same' = same
    BY DEF PersistPrefix
  <2>. QED BY <1>1, <2>1 DEF Stages
<1>8. RowsSound'
  <2>1. Dates(rows, "loop", run, turns)
    BY <1>1 DEF RowsSound, Dates, Dated, Past
  <2>2. Dates(t, "loop", run, turns)
    BY <1>3, <2>1 DEF Dates, Named
  <2>3. Dates(rows', "loop", run, turns)
    BY <1>4, <2>1, <2>2
  <2>. QED BY <1>1, <1>5, <2>3 DEF RowsSound
<1>9. RebuiltIsValid'
  BY <1>1 DEF RebuiltIsValid
<1>10. SlotMirrors'
  <2>. SUFFICES ASSUME ~excused, ok PROVE Mirrors(slot, Chat(t), Results(t))
    BY <1>1, <1>4 DEF SlotMirrors, Cached
  <2>1. Mirrors(slot, Chat(rows), Results(rows)) /\ Len(slot) < Len(Chat(rows))
    BY <1>1 DEF SlotMirrors, Cached
  <2>2. Len(slot) \in Nat /\ Len(Chat(rows)) \in Nat
    BY <1>1, ChatIs
  <2>3. \A k \in 1..Len(slot) : k \in 1..(Len(Chat(rows)) - 1)
    BY <2>1, <2>2
  <2>. QED BY <1>3, <2>1, <2>3 DEF Mirrors
<1>11. PromptMirrors'
  <2>. SUFFICES ASSUME ~excused, ok, ~strict
                PROVE  /\ Len(messages) = Len(Chat(t))
                       /\ Mirrors(messages, Chat(t), Results(t) \cup Awaited(<<>>, run, turns))
    BY <1>1, <1>4 DEF PromptMirrors
  <2>1. Rebuilt(messages, rows)
    BY <1>1 DEF PromptMirrors
  <2>2. Results(t) \cup Awaited(<<>>, run, turns) = Results(t)
    BY NoneAwaited
  <2>. QED BY <1>1, <1>3, <2>1, <2>2
<1>. QED BY <1>6, <1>7, <1>8, <1>9, <1>10, <1>11 DEF IInv
-----------------------------------------------------------------------------
(* The steps that leave rows and prompt alone.                              *)
LEMMA QuietKeeps ==
    ASSUME IInv, Types', Stages',
           UNCHANGED <<rows, run, strict, messages, turns, pending, excused>>,
           \/ pc' = pc /\ slot' = slot
           \/ pc = "loop" /\ pc' = "final" /\ (slot' = slot \/ (~strict /\ slot' = messages))
    PROVE  IInv'
<1>1. /\ Stages /\ RowsSound /\ RebuiltIsValid /\ SlotMirrors /\ PromptMirrors
      /\ rows' = rows /\ run' = run /\ strict' = strict /\ messages' = messages
      /\ turns' = turns /\ pending' = pending /\ excused' = excused
  BY DEF IInv
<1>2. CASE pc' = pc /\ slot' = slot
  <2>1. RowsSound' /\ RebuiltIsValid' /\ SlotMirrors' /\ PromptMirrors'
    BY <1>1, <1>2 DEF RowsSound, RebuiltIsValid, SlotMirrors, PromptMirrors
  <2>. QED BY <2>1 DEF IInv
<1>3. CASE pc = "loop" /\ pc' = "final" /\ (slot' = slot \/ (~strict /\ slot' = messages))
  <2>1. RowsSound'
    BY <1>1, <1>3 DEF RowsSound, Dates, Dated
  <2>2. RebuiltIsValid'
    BY <1>3 DEF RebuiltIsValid
  <2>3. PromptMirrors'
    BY <1>1, <1>3 DEF PromptMirrors
  <2>4. ASSUME ~excused PROVE Mirrors(slot', Chat(rows), Results(rows))
    <3>1. CASE slot' = slot
      BY <1>1, <2>4, <3>1 DEF SlotMirrors, Cached
    <3>2. CASE ~strict /\ slot' = messages
      <4>1. Mirrors(messages, Chat(rows), Results(rows) \cup Awaited(<<>>, run, turns))
        BY <1>1, <1>3, <2>4, <3>2 DEF PromptMirrors, Stages
      <4>. QED BY <3>2, <4>1, NoneAwaited
    <3>. QED BY <1>3, <3>1, <3>2
  <2>5. SlotMirrors'
    BY <1>1, <1>3, <2>4 DEF SlotMirrors, Cached
  <2>. QED BY <2>1, <2>2, <2>3, <2>5 DEF IInv
<1>. QED BY <1>2, <1>3

(* The ways out of the loop.                                                *)
LEMMA LoopEndsKeeps == IInv /\ (LoopEnds \/ StreamText \/ StreamAborted \/ StreamMalformed) => IInv'
<1>. SUFFICES ASSUME IInv, LoopEnds \/ StreamText \/ StreamAborted \/ StreamMalformed PROVE IInv'
  OBVIOUS
<1>1. /\ pc = "loop" /\ pc' = "final" /\ full' \in {"none", "stream", "merged", "notice"}
      /\ aborted' \in BOOLEAN
      /\ slot' = slot \/ (~strict /\ slot' = messages)
      /\ UNCHANGED <<rows, run, strict, messages, turns, pending, same, think, sent, excused>>
      /\ signal' \in {signal, TRUE}
  <2>1. Types
    BY DEF IInv
  <2>2. CASE LoopEnds
    BY <2>1, <2>2 DEF LoopEnds, LeaveLoop, Types
  <2>3. CASE StreamText
    BY <2>1, <2>3 DEF StreamText, Streaming, Processed, LeaveLoop, Types
  <2>4. CASE StreamAborted
    BY <2>1, <2>4 DEF StreamAborted, Processed, LeaveLoop, Types
  <2>5. CASE StreamMalformed
    BY <2>1, <2>5 DEF StreamMalformed, Streaming, Processed, LeaveLoop, Types
  <2>. QED BY <2>2, <2>3, <2>4, <2>5
<1>2. Types'
  BY <1>1 DEF IInv, Types
<1>3. Stages'
  BY <1>1 DEF IInv, Stages
<1>. QED BY <1>1, <1>2, <1>3, QuietKeeps

(* The signal.                                                              *)
LEMMA AbortKeeps == IInv /\ Abort => IInv'
<1>. SUFFICES ASSUME IInv, Abort PROVE IInv'
  OBVIOUS
<1>1. /\ UNCHANGED <<rows, run, strict, messages, turns, pending, same, think, full, aborted, sent, excused>>
      /\ pc' = pc /\ slot' = slot /\ signal'
  BY DEF Abort
<1>2. Types'
  BY <1>1 DEF IInv, Types
<1>3. Stages'
  BY <1>1 DEF IInv, Stages
<1>. QED BY <1>1, <1>2, <1>3, QuietKeeps

(* Steps that change nothing.                                               *)
LEMMA StutterKeeps == IInv /\ UNCHANGED vars => IInv'
<1>. SUFFICES ASSUME IInv, UNCHANGED vars PROVE IInv'
  OBVIOUS
<1>1. Types'
  BY DEF vars, IInv, Types
<1>2. Stages'
  BY DEF vars, IInv, Stages
<1>. QED BY <1>1, <1>2, QuietKeeps DEF vars

-----------------------------------------------------------------------------
(* A run ends.                                                              *)
LEMMA EndKeeps ==
    ASSUME IInv, EndRun, run' = run,
           rows' \in Seq(RowType), Rows(rows'), Dates(rows', "idle", run, 0),
           slot' \in Seq(MessageType), excused' \in BOOLEAN,
           ~excused' => Mirrors(slot', Chat(rows'), Results(rows'))
    PROVE  IInv'
<1>1. /\ pc' = "idle" /\ messages' = <<>> /\ pending' = <<>> /\ turns' = 0 /\ same' = 0
      /\ full' = "none" /\ ~strict' /\ ~think' /\ ~signal' /\ ~aborted' /\ ~sent'
      /\ strict' \in BOOLEAN /\ think' \in BOOLEAN /\ signal' \in BOOLEAN
      /\ aborted' \in BOOLEAN /\ sent' \in BOOLEAN
  BY DEF EndRun
<1>2. Types'
  <2>1. 0 \in 0..(MaxToolTurns + 1) /\ 0 \in 0..(MaxIdentical + 2)
    BY Bounds
  <2>2. <<>> \in Seq(MessageType) /\ <<>> \in Seq(1..MaxCalls)
    BY EmptySeq
  <2>3. run' \in 0..MaxRuns
    BY DEF IInv, Types
  <2>. QED BY <1>1, <2>1, <2>2, <2>3 DEF Types
<1>3. Stages'
  BY <1>1, Bounds DEF Stages
<1>4. RowsSound'
  BY <1>1 DEF RowsSound
<1>5. RebuiltIsValid' /\ PromptMirrors'
  BY <1>1 DEF RebuiltIsValid, PromptMirrors
<1>6. SlotMirrors'
  BY <1>1 DEF SlotMirrors, Cached
<1>. QED BY <1>2, <1>3, <1>4, <1>5, <1>6 DEF IInv

(* Between runs all calls are dated by a run that has begun.                *)
LEMMA DatesIdle ==
    ASSUME IInv PROVE Dates(rows, "idle", run, 0)
BY DEF IInv, RowsSound, Dates, Dated

(* What is stored so far stays.                                             *)
LEMMA RunFailsKeeps == IInv /\ RunFails => IInv'
<1>. SUFFICES ASSUME IInv, RunFails PROVE IInv'
  OBVIOUS
<1>1. EndRun /\ run' = run /\ rows' = rows /\ slot' = slot /\ excused' = excused
  BY DEF RunFails
<1>2. /\ rows' \in Seq(RowType) /\ Rows(rows') /\ slot' \in Seq(MessageType) /\ excused' \in BOOLEAN
      /\ ~excused' => Mirrors(slot', Chat(rows'), Results(rows'))
  BY <1>1 DEF IInv, Types, RowsSound, SlotMirrors, Cached
<1>3. Dates(rows', "idle", run, 0)
  BY <1>1, DatesIdle
<1>. QED BY <1>1, <1>2, <1>3, EndKeeps

(* The answer is stored as the local provider has streamed it.              *)
LEMMA StoreFinalKeeps ==
    ASSUME IInv, NEW promoted \in BOOLEAN, StoreFinal(promoted)
    PROVE  IInv'
<1>1. /\ EndRun /\ run' = run /\ pc = "final"
  BY DEF StoreFinal
<1>2. CASE aborted /\ full = "none"
  <2>1. rows' = rows /\ slot' = slot /\ excused' = excused
    BY <1>2 DEF StoreFinal
  <2>2. /\ rows' \in Seq(RowType) /\ Rows(rows') /\ slot' \in Seq(MessageType) /\ excused' \in BOOLEAN
        /\ ~excused' => Mirrors(slot', Chat(rows'), Results(rows'))
    BY <2>1 DEF IInv, Types, RowsSound, SlotMirrors, Cached
  <2>3. Dates(rows', "idle", run, 0)
    BY <2>1, DatesIdle
  <2>. QED BY <1>1, <2>1, <2>2, <2>3, EndKeeps
<1>3. CASE ~(aborted /\ full = "none")
  <2>. DEFINE said == IF full = "none" THEN "empty" ELSE full
              m == Message("assistant", Id(0), {}, said)
              r == Row(m, full = "merged" /\ ~promoted, FALSE)
              s == [m EXCEPT !.text = "stream"]
  <2>1. /\ promoted => ~aborted /\ full \in {"stream", "merged"}
        /\ rows' = Append(rows, r)
        /\ excused' = (excused \/ promoted)
        /\ slot' = IF strict \/ full \notin {"stream", "merged"} THEN slot ELSE Append(messages, s)
    BY <1>3 DEF StoreFinal
  <2>2. /\ Types /\ rows \in Seq(RowType) /\ messages \in Seq(MessageType) /\ slot \in Seq(MessageType)
        /\ pending = <<>> /\ Rows(rows) /\ SlotMirrors /\ PromptMirrors
        /\ full \in {"none", "stream", "merged", "notice"} /\ excused \in BOOLEAN
        /\ run \in 1..MaxRuns /\ turns \in 0..(MaxToolTurns + 1)
    BY <1>1, Bounds DEF IInv, Types, Stages, RowsSound
  <2>3. Id(0) \in Ids
    BY <2>2, IdsAre, Bounds DEF Id
  <2>4. m \in MessageType /\ m.role = "assistant" /\ m.calls = {} /\ s \in MessageType
        /\ s.calls = {} /\ (full = "stream" => s = m)
    <3>1. said \in {"stream", "merged", "notice", "empty"}
      BY <2>2
    <3>2. m = [role |-> "assistant", id |-> Id(0), calls |-> {}, text |-> said, prefix |-> FALSE]
      BY DEF Message
    <3>3. full = "stream" => said = "stream"
      OBVIOUS
    <3>. HIDE DEF said, m
    <3>4. m \in MessageType /\ m.role = "assistant" /\ m.calls = {} /\ m.text = said
      BY <2>3, <3>1, <3>2 DEF MessageType
    <3>. HIDE <3>2
    <3>5. s \in MessageType /\ s.calls = {}
      BY <3>4 DEF MessageType
    <3>6. full = "stream" => s = m
      BY <3>3, <3>4 DEF MessageType
    <3>. QED BY <3>4, <3>5, <3>6
  <2>5. r \in RowType /\ r.message = m /\ ~r.copy /\ (r.raw <=> full = "merged" /\ ~promoted)
    BY <2>4 DEF Row, RowType
  <2>6. ASSUME ~promoted, full \in {"stream", "merged"}, NEW ids PROVE s = Seen(r, ids)
    <3>1. ToAiMessage(r) = s
      BY <2>4, <2>5, <2>6 DEF ToAiMessage
    <3>2. s.calls \cap ids = s.calls
      BY <2>4
    <3>. HIDE DEF s, r
    <3>3. Limited(s, ids) = s
      BY <2>4, <3>2 DEF Limited, MessageType
    <3>. QED BY <3>1, <3>3 DEF Seen
  <2>. HIDE DEF said, m, r, s
  <2>7. /\ Chat(rows) \in Seq(RowType) /\ Chat(rows') = Append(Chat(rows), r)
        /\ Results(rows') = Results(rows)
    BY <2>1, <2>2, <2>4, <2>5, ChatGrows
  <2>8. rows' \in Seq(RowType) /\ Rows(rows')
    BY <2>1, <2>2, <2>4, <2>5, TextAdded
  <2>9. Dates(rows', "idle", run, 0)
    <3>1. Named(r) = {}
      BY <2>4, <2>5 DEF Named
    <3>2. Dates(rows, "idle", run, 0)
      BY DatesIdle
    <3>. QED BY <2>1, <2>2, <2>5, <3>1, <3>2, DatesAdded
  <2>10. slot' \in Seq(MessageType) /\ excused' \in BOOLEAN
    <3>1. Append(messages, s) \in Seq(MessageType)
      BY <2>2, <2>4
    <3>. QED BY <2>1, <2>2, <3>1
  <2>11. ASSUME ~excused' PROVE Mirrors(slot', Chat(rows'), Results(rows'))
    <3>1. ~excused /\ ~promoted
      BY <2>1, <2>11, Zenon
    <3>2. CASE strict \/ full \notin {"stream", "merged"}
      <4>1. slot' = slot /\ Mirrors(slot, Chat(rows), Results(rows))
        BY <2>1, <2>2, <3>1, <3>2 DEF SlotMirrors, Cached
      <4>. QED BY <2>2, <2>5, <2>7, <4>1, MirrorsKept
    <3>3. CASE ~strict /\ full \in {"stream", "merged"}
      <4>1. slot' = Append(messages, s) /\ s = Seen(r, Results(rows))
        BY <2>1, <2>6, <3>1, <3>3
      <4>2. Len(messages) = Len(Chat(rows)) /\ Mirrors(messages, Chat(rows), Results(rows))
        <5>1. Results(rows) \cup Awaited(<<>>, run, turns) = Results(rows)
          BY NoneAwaited
        <5>. QED BY <1>1, <2>2, <3>1, <3>3, <5>1 DEF PromptMirrors
      <4>. QED BY <2>2, <2>4, <2>5, <2>7, <4>1, <4>2, MirrorsGrow
    <3>. QED BY <3>2, <3>3
  <2>. QED BY <1>1, <2>8, <2>9, <2>10, <2>11, EndKeeps
<1>. QED BY <1>2, <1>3

(* All calls of the turn have become past.                                  *)
LEMMA NextTurnKeeps ==
    ASSUME IInv, NEW sandbox \in BOOLEAN, NextTurn(sandbox)
    PROVE  IInv'
<1>1. /\ Types /\ Stages /\ RowsSound /\ SlotMirrors /\ PromptMirrors
      /\ pc = "tools" /\ pending = <<>> /\ turns <= MaxToolTurns /\ turns \in Nat /\ run \in Nat
      /\ UNCHANGED <<rows, run, strict, messages, pending, same, think, signal, sent, slot, excused>>
  BY Bounds DEF IInv, NextTurn, Types, Stages
<1>2. \/ pc' = "loop" /\ turns' = turns + 1 /\ full' = full /\ aborted' = aborted
      \/ pc' = "final" /\ turns' = turns /\ full' = "notice" /\ aborted' = FALSE
  BY DEF NextTurn, LeaveLoop
<1>3. Types'
  <2>1. turns' \in 0..(MaxToolTurns + 1)
    BY <1>1, <1>2, Bounds DEF Types
  <2>. QED BY <1>1, <1>2, <2>1 DEF Types
<1>4. Stages'
  BY <1>1, <1>2 DEF Stages
<1>5. RowsSound'
  <2>1. \A i \in 1..Len(rows) : \A c \in Named(rows[i]) : Dated(c, "tools", run, turns) /\ c \in Ids
    <3>1. \A i \in 1..Len(rows) : rows[i] \in RowType
      BY <1>1 DEF Types
    <3>2. \A r \in RowType : \A c \in Named(r) : c \in Ids
      BY DEF Named, RowType, MessageType
    <3>. QED BY <1>1, <3>1, <3>2 DEF RowsSound, Dates
  <2>2. ASSUME NEW c \in Ids, Dated(c, "tools", run, turns)
        PROVE  Dated(c, "loop", run, turns + 1) /\ Dated(c, "final", run, turns)
    <3>1. c[1] \in Nat /\ c[2] \in Nat
      BY Bounds DEF Ids
    <3>. QED BY <1>1, <2>2, <3>1 DEF Dated, Past, Now
  <2>3. Dates(rows, "loop", run, turns + 1) /\ Dates(rows, "final", run, turns)
    BY <2>1, <2>2 DEF Dates
  <2>. QED BY <1>1, <1>2, <2>3 DEF RowsSound
<1>6. RebuiltIsValid' /\ SlotMirrors'
  BY <1>1, <1>2 DEF RebuiltIsValid, SlotMirrors, Cached
<1>7. PromptMirrors'
  <2>1. Awaited(<<>>, run, turns) = Awaited(<<>>, run, turns')
    BY NoneAwaited
  <2>. QED BY <1>1, <1>2, <2>1 DEF PromptMirrors
<1>. QED BY <1>3, <1>4, <1>5, <1>6, <1>7 DEF IInv
-----------------------------------------------------------------------------
(* A turn with calls.                                                       *)
LEMMA StreamCallsKeeps ==
    ASSUME IInv, NEW n \in 1..MaxCalls, NEW drop \in BOOLEAN, NEW thinks \in BOOLEAN,
           StreamCalls(n, drop, thinks)
    PROVE  IInv'
<1>. DEFINE calls == {Id(k) : k \in 1..n}
            m == Message("assistant", Id(0), IF drop THEN {} ELSE calls, "stream")
            r == Plain(m)
<1>1. /\ Types /\ Stages /\ RowsSound /\ SlotMirrors /\ PromptMirrors /\ Rows(rows)
      /\ pc = "loop" /\ pc' = "tools" /\ pending = <<>> /\ turns <= MaxToolTurns
      /\ rows \in Seq(RowType) /\ messages \in Seq(MessageType) /\ slot \in Seq(MessageType)
      /\ run \in 1..MaxRuns /\ turns \in 0..(MaxToolTurns + 1)
      /\ UNCHANGED <<run, strict, turns, same, full, signal, aborted, sent, excused>>
      /\ slot' = (IF strict THEN slot ELSE messages)
      /\ messages' = Append(messages, m) /\ rows' = Append(rows, r)
      /\ pending' = [k \in 1..n |-> k] /\ think' = (think \/ thinks)
  BY Bounds DEF IInv, Types, Stages, RowsSound, StreamCalls, Streaming, Processed
<1>2. Id(0) \in Ids /\ calls \in SUBSET Ids /\ \A c \in calls : Now(c, run, turns)
  <2>1. Id(0) \in Ids
    BY <1>1, IdsAre, Bounds DEF Id
  <2>2. ASSUME NEW k \in 1..n PROVE Id(k) \in Ids /\ Now(Id(k), run, turns)
    <3>1. k \in 0..MaxCalls
      BY Bounds
    <3>. QED BY <1>1, <3>1, IdsAre DEF Id, Now
  <2>. QED BY <2>1, <2>2
<1>3. m \in MessageType /\ m.role = "assistant" /\ m.calls = IF drop THEN {} ELSE calls
  <2>. HIDE DEF calls
  <2>. QED BY <1>2 DEF Message, MessageType
<1>4. r \in RowType /\ r.message = m /\ ~r.raw /\ ~r.copy
  <2>. HIDE DEF m
  <2>. QED BY <1>3 DEF Plain, Row, RowType
<1>5. /\ pending' \in Seq(1..MaxCalls) /\ pending' # <<>>
      /\ Awaited(pending', run, turns) = calls
  <2>1. DOMAIN pending' = 1..n /\ Len(pending') = n /\ n # 0 /\ \A k \in 1..n : pending'[k] = k
    BY <1>1
  <2>2. pending' \in Seq(1..MaxCalls)
    <3>1. n \in Nat /\ \A k \in 1..n : k \in 1..MaxCalls
      BY Bounds
    <3>2. pending' = [k \in 1..n |-> k]
      BY <1>1
    <3>. QED BY <3>1, <3>2
  <2>. QED BY <2>1, <2>2 DEF Awaited, Id
<1>. HIDE DEF calls, m, r
(* No row knows the calls of this turn yet. *)
<1>6. \A i \in 1..Len(rows) : \A c \in Named(rows[i]) :
          Past(c, run, turns) /\ ~Now(c, run, turns) /\ c \notin calls /\ Dated(c, "tools", run, turns)
  <2>. SUFFICES ASSUME NEW i \in 1..Len(rows), NEW c \in Named(rows[i])
                PROVE  /\ Past(c, run, turns) /\ ~Now(c, run, turns) /\ c \notin calls
                       /\ Dated(c, "tools", run, turns)
    OBVIOUS
  <2>1. Dated(c, "loop", run, turns)
    BY <1>1 DEF RowsSound, Dates
  <2>2. c \in Ids
    <3>1. rows[i] \in RowType
      BY <1>1
    <3>. QED BY <3>1 DEF Named, RowType, MessageType
  <2>3. c[1] \in Nat /\ c[2] \in Nat
    BY <2>2, Bounds DEF Ids
  <2>4. Past(c, run, turns) /\ ~Now(c, run, turns) /\ Dated(c, "tools", run, turns)
    BY <1>1, <2>1, <2>3 DEF Dated, Past, Now
  <2>. QED BY <1>2, <2>4
<1>7. rows' \in Seq(RowType) /\ Rows(rows') /\ messages' \in Seq(MessageType) /\ slot' \in Seq(MessageType)
  <2>1. \A i \in 1..Len(rows) : rows[i].message.role = "tool" => rows[i].message.id \notin r.message.calls
    BY <1>3, <1>4, <1>6 DEF Named
  <2>2. Append(rows, r) \in Seq(RowType) /\ Rows(Append(rows, r))
    BY <1>1, <1>3, <1>4, <2>1, RowAdded
  <2>. QED BY <1>1, <1>3, <2>2
<1>8. Types'
  <2>1. think' \in BOOLEAN
    BY <1>1 DEF Types
  <2>. QED BY <1>1, <1>5, <1>7, <2>1 DEF Types
<1>9. Stages'
  BY <1>1, <1>5 DEF Stages
<1>10. RowsSound'
  <2>1. Dates(rows, "tools", run, turns)
    BY <1>6 DEF Dates
  <2>2. \A c \in Named(r) : Dated(c, "tools", run, turns)
    <3>1. \A c \in calls : c[1] = run
      BY <1>2 DEF Now
    <3>2. Named(r) \subseteq calls
      BY <1>3, <1>4 DEF Named
    <3>. QED BY <1>1, <1>2, <3>1, <3>2 DEF Dated
  <2>3. Dates(rows', "tools", run, turns)
    BY <1>1, <1>4, <2>1, <2>2, DatesAdded
  <2>4. OpenTurn(rows', run, turns)
    <3>1. /\ Len(rows') = Len(rows) + 1 /\ Len(rows) \in Nat
          /\ \A i \in 1..Len(rows) : rows'[i] = rows[i]
      BY <1>1, <1>4
    <3>2. \A j \in 1..Len(rows) : \A c \in rows[j].message.calls : ~Now(c, run, turns)
      BY <1>6 DEF Named
    <3>3. \A j \in 1..(Len(rows) + 1) : j \in 1..Len(rows) \/ (j + 1)..(Len(rows) + 1) = {}
      BY <3>1
    <3>. QED BY <3>1, <3>2, <3>3 DEF OpenTurn
  <2>. QED BY <1>1, <1>7, <2>3, <2>4 DEF RowsSound
<1>11. RebuiltIsValid'
  BY <1>1 DEF RebuiltIsValid
<1>12. /\ Chat(rows) \in Seq(RowType) /\ Chat(rows') = Append(Chat(rows), r)
       /\ Len(Chat(rows)) \in Nat /\ \A k \in 1..Len(Chat(rows)) : Chat(rows')[k] = Chat(rows)[k]
       /\ Results(rows') = Results(rows)
  BY <1>1, <1>3, <1>4, ChatGrows
<1>13. \A k \in 1..Len(Chat(rows)) : \A c \in Chat(rows)[k].message.calls :
          ~Now(c, run, turns) /\ c \notin calls
  <2>1. \A k \in 1..Len(Chat(rows)) : \E i \in 1..Len(rows) : Chat(rows)[k] = rows[i]
    BY <1>1, ChatIs
  <2>. QED BY <1>6, <2>1 DEF Named
<1>14. ASSUME ~excused, ~strict
       PROVE  Len(messages) = Len(Chat(rows)) /\ Mirrors(messages, Chat(rows), Results(rows))
  <2>1. Results(rows) \cup Awaited(<<>>, run, turns) = Results(rows)
    BY NoneAwaited
  <2>. QED BY <1>1, <1>14, <2>1 DEF PromptMirrors
<1>15. SlotMirrors'
  <2>. SUFFICES ASSUME ~excused PROVE Cached(slot', rows', "tools", run, turns)
    BY <1>1 DEF SlotMirrors
  <2>1. Mirrors(slot', Chat(rows), Results(rows))
    <3>1. strict => Mirrors(slot, Chat(rows), Results(rows))
      BY <1>1 DEF SlotMirrors, Cached
    <3>. QED BY <1>1, <1>14, <3>1
  <2>2. Mirrors(slot', Chat(rows'), Results(rows'))
    BY <1>4, <1>7, <1>12, <2>1, MirrorsKept
  <2>3. \A k \in 1..Len(slot') : k \in 1..Len(Chat(rows))
    <3>1. Len(slot') \in Nat
      BY <1>7
    <3>. QED BY <1>12, <2>1, <3>1 DEF Mirrors
  <2>. QED BY <1>12, <1>13, <2>2, <2>3 DEF Cached
<1>16. PromptMirrors'
  <2>. SUFFICES ASSUME ~excused, ~strict
                PROVE  /\ Len(messages') = Len(Chat(rows'))
                       /\ Mirrors(messages', Chat(rows'), Results(rows') \cup calls)
    BY <1>1, <1>5 DEF PromptMirrors
  <2>. DEFINE ids == Results(rows) \cup calls
  <2>1. \A k \in 1..Len(messages) : Chat(rows)[k].message.calls \cap Results(rows)
                                        = Chat(rows)[k].message.calls \cap ids
    BY <1>13, <1>14
  <2>2. Mirrors(messages, Chat(rows), ids)
    BY <1>1, <1>12, <1>14, <2>1, MirrorsAlike
  <2>3. m = Seen(r, ids)
    BY <1>3, <1>4, SeenIs
  <2>. QED BY <1>1, <1>3, <1>4, <1>12, <1>14, <2>2, <2>3, MirrorsGrow
<1>. QED BY <1>8, <1>9, <1>10, <1>11, <1>15, <1>16 DEF IInv

-----------------------------------------------------------------------------
(* The result of a call, with or without the copy of what it delivered.     *)
IsCopy(c) == c \in RowType /\ c.copy /\ c.message.role = "assistant" /\ c.message.calls = {}
IsExtra(extra) == extra = <<>> \/ \E c : IsCopy(c) /\ extra = <<c>>

(* What an answer does to rows, prompt and pending calls.                   *)
LEMMA AnswerIs ==
    ASSUME IInv, pc \in {"tools", "skip"}, pending # <<>>, NEW extra, IsExtra(extra), Answer(extra)
    PROVE  /\ Result \in MessageType /\ Result.role = "tool" /\ Result.calls = {}
           /\ Result.id = <<run, turns, Head(pending)>>
           /\ Plain(Result) \in RowType /\ Plain(Result).message = Result
           /\ ~Plain(Result).raw /\ ~Plain(Result).copy
           /\ messages' = Append(messages, Result) /\ messages' \in Seq(MessageType)
           /\ \/ rows' = Append(rows, Plain(Result))
              \/ \E c : IsCopy(c) /\ rows' = Append(Append(rows, Plain(Result)), c)
           /\ rows' \in Seq(RowType) /\ pending' \in Seq(1..MaxCalls)
           /\ Awaited(pending, run, turns) = Awaited(pending', run, turns) \cup {Result.id}
           /\ pending' = <<>> <=> Len(pending) = 1
<1>1. /\ rows \in Seq(RowType) /\ messages \in Seq(MessageType) /\ pending \in Seq(1..MaxCalls)
      /\ run \in 1..MaxRuns /\ turns \in 0..(MaxToolTurns + 1)
  BY Bounds DEF IInv, Types, Stages
<1>2. Head(pending) \in 1..MaxCalls /\ Len(pending) \in Nat /\ Len(pending) >= 1 /\ Head(pending) = pending[1]
  <2>1. Len(pending) \in Nat \ {0}
    BY <1>1, EmptySeq
  <2>2. 1 \in 1..Len(pending)
    BY <2>1
  <2>3. pending[1] \in 1..MaxCalls
    BY <1>1, <2>2, ElementOfSeq
  <2>4. Head(pending) = pending[1]
    BY <1>1, <2>1
  <2>. QED BY <2>1, <2>3, <2>4
<1>3. <<run, turns, Head(pending)>> \in Ids
  <2>1. Head(pending) \in 0..MaxCalls
    BY <1>2, Bounds
  <2>. QED BY <1>1, <2>1, IdsAre
<1>4. /\ Result \in MessageType /\ Result.role = "tool" /\ Result.calls = {}
      /\ Result.id = <<run, turns, Head(pending)>>
  BY <1>3 DEF Result, Message, Id, MessageType
<1>5. /\ Plain(Result) \in RowType /\ Plain(Result).message = Result
      /\ ~Plain(Result).raw /\ ~Plain(Result).copy
  BY <1>4 DEF Plain, Row, RowType
<1>6. messages' = Append(messages, Result) /\ messages' \in Seq(MessageType)
  BY <1>1, <1>4 DEF Answer
<1>. DEFINE s == Append(rows, Plain(Result))
<1>7. s \in Seq(RowType) /\ rows' = s \o extra
  BY <1>1, <1>5 DEF Answer
<1>. HIDE DEF s
<1>8. extra = <<>> => rows' = s
  BY <1>7, ConcatEmptySeq
<1>9. ASSUME NEW c, IsCopy(c), extra = <<c>> PROVE rows' = Append(s, c) /\ rows' \in Seq(RowType)
  <2>1. c \in RowType
    BY <1>9 DEF IsCopy
  <2>. QED BY <1>7, <1>9, <2>1
<1>10. /\ rows' = s \/ \E c : IsCopy(c) /\ rows' = Append(s, c)
       /\ rows' \in Seq(RowType)
  BY <1>7, <1>8, <1>9 DEF IsExtra
<1>11. /\ pending' \in Seq(1..MaxCalls) /\ Len(pending') = Len(pending) - 1
       /\ \A k \in 1..(Len(pending) - 1) : pending'[k] = pending[k + 1]
  BY <1>1, <1>2 DEF Answer
<1>12. pending' = <<>> <=> Len(pending) = 1
  <2>1. pending' = <<>> <=> Len(pending') = 0
    BY <1>11
  <2>. QED BY <1>2, <1>11, <2>1
<1>13. Awaited(pending, run, turns) = Awaited(pending', run, turns) \cup {Result.id}
  <2>. DEFINE id(k) == <<run, turns, k>>
  <2>1. Awaited(pending, run, turns) = {id(pending[k]) : k \in 1..Len(pending)}
        /\ Awaited(pending', run, turns) = {id(pending'[k]) : k \in 1..(Len(pending) - 1)}
        /\ Result.id = id(pending[1])
    BY <1>2, <1>4, <1>11 DEF Awaited
  <2>. HIDE DEF id
  <2>2. \A k \in 1..Len(pending) : k = 1 \/ (k - 1 \in 1..(Len(pending) - 1) /\ (k - 1) + 1 = k)
    BY <1>2
  <2>3. \A k \in 1..(Len(pending) - 1) : k + 1 \in 1..Len(pending)
    BY <1>2
  <2>4. 1 \in 1..Len(pending)
    BY <1>2
  <2>5. ASSUME NEW x
        PROVE  (\E k \in 1..Len(pending) : x = id(pending[k]))
                   <=> (\E k \in 1..(Len(pending) - 1) : x = id(pending'[k])) \/ x = id(pending[1])
    <3>1. ASSUME NEW k \in 1..Len(pending), x = id(pending[k])
          PROVE  (\E l \in 1..(Len(pending) - 1) : x = id(pending'[l])) \/ x = id(pending[1])
      <4>1. CASE k = 1
        BY <3>1, <4>1
      <4>2. CASE k # 1
        <5>1. k - 1 \in 1..(Len(pending) - 1) /\ pending'[k - 1] = pending[k]
          BY <1>11, <2>2, <4>2
        <5>. QED BY <3>1, <5>1
      <4>. QED BY <4>1, <4>2
    <3>2. ASSUME NEW k \in 1..(Len(pending) - 1), x = id(pending'[k])
          PROVE  \E l \in 1..Len(pending) : x = id(pending[l])
      BY <1>11, <2>3, <3>2
    <3>. QED BY <2>4, <3>1, <3>2
  <2>. QED BY <2>1, <2>5
<1>. QED BY <1>4, <1>5, <1>6, <1>10, <1>11, <1>12, <1>13 DEF s

(* Nothing is disturbed by an answer, wherever the run goes on.             *)
LEMMA AnswerKeeps ==
    ASSUME IInv, pc \in {"tools", "skip"}, pending # <<>>, NEW extra, IsExtra(extra), Answer(extra),
           UNCHANGED <<run, strict, turns, slot, excused>>,
           pc' \in {"tools", "skip", "final"}
    PROVE  RowsSound' /\ RebuiltIsValid' /\ SlotMirrors' /\ PromptMirrors'
<1>. DEFINE q == Plain(Result)
            s == Append(rows, q)
            new == Result.id
<1>1. /\ Types /\ RowsSound /\ SlotMirrors /\ PromptMirrors /\ Rows(rows)
      /\ rows \in Seq(RowType) /\ messages \in Seq(MessageType) /\ slot \in Seq(MessageType)
      /\ run \in Nat /\ OpenTurn(rows, run, turns)
      /\ run' = run /\ strict' = strict /\ turns' = turns /\ slot' = slot /\ excused' = excused
  BY Bounds DEF IInv, Types, RowsSound
<1>2. /\ Result \in MessageType /\ Result.role = "tool" /\ Result.calls = {}
      /\ q \in RowType /\ q.message = Result /\ ~q.raw /\ ~q.copy
      /\ messages' = Append(messages, Result)
      /\ rows' = s \/ \E c : IsCopy(c) /\ rows' = Append(s, c)
      /\ Awaited(pending, run, turns) = Awaited(pending', run, turns) \cup {new}
      /\ new = <<run, turns, Head(pending)>>
  BY AnswerIs
<1>3. Now(new, run, turns)
  BY <1>2 DEF Now
<1>. HIDE DEF q, new
<1>4. s \in Seq(RowType) /\ Rows(s)
  <2>1. \A j \in 1..Len(rows) : new \in rows[j].message.calls =>
            \A k \in (j + 1)..Len(rows) : Follows(rows[k])
    BY <1>1, <1>3 DEF OpenTurn
  <2>. QED BY <1>1, <1>2, <2>1, RowAdded DEF new
<1>5. Dates(s, "tools", run, turns)
  <2>1. Dates(rows, "tools", run, turns)
    BY <1>1 DEF RowsSound, Dates, Dated
  <2>2. \A c \in Named(q) : c = new
    BY <1>2 DEF Named, new
  <2>3. Dated(new, "tools", run, turns)
    BY <1>1, <1>3 DEF Dated, Now
  <2>. QED BY <1>1, <1>2, <2>1, <2>2, <2>3, DatesAdded
<1>6. OpenTurn(s, run, turns)
  BY <1>1, <1>2, OpenAdded DEF Follows
<1>7. Chat(s) = Append(Chat(rows), q) /\ Chat(rows) \in Seq(RowType)
  BY <1>1, <1>2, ChatNext, ChatIs
<1>8. Results(s) = Results(rows) \cup {new}
  BY <1>1, <1>2, ResultsNext DEF new
<1>. HIDE DEF s
(* The copy is not seen. *)
<1>9. /\ rows' \in Seq(RowType) /\ Rows(rows') /\ Dates(rows', "tools", run, turns)
      /\ OpenTurn(rows', run, turns) /\ Chat(rows') = Chat(s) /\ Results(rows') = Results(s)
  <2>1. CASE rows' = s
    BY <1>4, <1>5, <1>6, <2>1
  <2>2. ASSUME NEW c, IsCopy(c), rows' = Append(s, c)
        PROVE  /\ rows' \in Seq(RowType) /\ Rows(rows') /\ Dates(rows', "tools", run, turns)
               /\ OpenTurn(rows', run, turns) /\ Chat(rows') = Chat(s) /\ Results(rows') = Results(s)
    <3>1. c \in RowType /\ c.copy /\ c.message.role # "tool" /\ c.message.calls = {}
      BY <2>2 DEF IsCopy
    <3>2. Named(c) = {} /\ Follows(c)
      BY <3>1 DEF Named, Follows
    <3>3. rows' \in Seq(RowType) /\ Rows(rows')
      BY <1>4, <2>2, <3>1, TextAdded
    <3>4. Dates(rows', "tools", run, turns)
      BY <1>4, <1>5, <2>2, <3>1, <3>2, DatesAdded
    <3>5. OpenTurn(rows', run, turns)
      BY <1>4, <1>6, <2>2, <3>1, <3>2, OpenAdded
    <3>6. Chat(rows') = Chat(s) /\ Results(rows') = Results(s)
      BY <1>4, <2>2, <3>1, ChatNext, ResultsNext
    <3>. QED BY <3>3, <3>4, <3>5, <3>6
  <2>. QED BY <1>2, <2>1, <2>2
<1>10. RowsSound'
  <2>1. Dates(rows', pc', run, turns)
    BY <1>9 DEF Dates, Dated
  <2>. QED BY <1>1, <1>9, <2>1 DEF RowsSound
<1>11. RebuiltIsValid'
  BY DEF RebuiltIsValid
<1>12. SlotMirrors'
  <2>. SUFFICES ASSUME ~excused PROVE Cached(slot, rows', pc', run, turns)
    BY <1>1 DEF SlotMirrors
  <2>1. /\ Mirrors(slot, Chat(rows), Results(rows))
        /\ \A k \in 1..Len(slot) : \A c \in Chat(rows)[k].message.calls : ~Now(c, run, turns)
    BY <1>1 DEF SlotMirrors, Cached
  <2>2. \A k \in 1..Len(slot) : new \notin Chat(rows)[k].message.calls
    BY <1>3, <2>1
  <2>3. \A k \in 1..Len(slot) : Chat(rows)[k].message.calls \cap Results(rows)
                                    = Chat(rows)[k].message.calls \cap Results(s)
    BY <1>8, <2>2
  <2>4. Mirrors(slot, Chat(rows), Results(s))
    BY <1>1, <1>7, <2>1, <2>3, MirrorsAlike
  <2>5. Mirrors(slot, Chat(s), Results(s))
    BY <1>1, <1>2, <1>7, <2>4, MirrorsKept
  <2>6. \A k \in 1..Len(slot) : Chat(s)[k] = Chat(rows)[k]
    <3>1. Len(slot) \in Nat /\ Len(slot) <= Len(Chat(rows)) /\ Len(Chat(rows)) \in Nat
      BY <1>1, <1>7, <2>1 DEF Mirrors
    <3>. QED BY <1>2, <1>7, <3>1
  <2>. QED BY <1>9, <2>1, <2>5, <2>6 DEF Cached
<1>13. PromptMirrors'
  <2>. SUFFICES ASSUME ~excused, ~strict
                PROVE  /\ Len(messages') = Len(Chat(s))
                       /\ Mirrors(messages', Chat(s), Results(s) \cup Awaited(pending', run, turns))
    BY <1>1, <1>9 DEF PromptMirrors
  <2>. DEFINE ids == Results(rows) \cup Awaited(pending, run, turns)
  <2>1. Len(messages) = Len(Chat(rows)) /\ Mirrors(messages, Chat(rows), ids)
    BY <1>1 DEF PromptMirrors
  <2>2. ids = Results(s) \cup Awaited(pending', run, turns)
    BY <1>2, <1>8
  <2>. HIDE DEF ids
  <2>3. Result = Seen(q, ids)
    BY <1>2, SeenIs
  <2>4. Mirrors(messages', Chat(s), ids) /\ Len(messages') = Len(Chat(s))
    BY <1>1, <1>2, <1>7, <2>1, <2>3, MirrorsGrow
  <2>. QED BY <2>2, <2>4
<1>. QED BY <1>10, <1>11, <1>12, <1>13
(* The steps that answer calls.                                             *)
LEMMA InterruptKeeps == IInv /\ Interrupt => IInv'
<1>. SUFFICES ASSUME IInv, Interrupt PROVE IInv'
  OBVIOUS
<1>1. /\ pc = "tools" /\ pending # <<>> /\ Answer(<<>>) /\ IsExtra(<<>>)
      /\ UNCHANGED <<run, strict, turns, same, think, signal, sent, slot, excused>>
      /\ IF Len(pending) = 1 THEN pc' = "final" ELSE pc' = "tools"
      /\ full' \in {full, "notice"} /\ aborted' \in {aborted, TRUE}
      /\ Types /\ Stages /\ slot \in Seq(MessageType)
  BY DEF Interrupt, LeaveLoop, IInv, IsExtra, Types
<1>2. /\ messages' \in Seq(MessageType) /\ rows' \in Seq(RowType) /\ pending' \in Seq(1..MaxCalls)
      /\ pending' = <<>> <=> Len(pending) = 1
  BY <1>1, AnswerIs
<1>3. Types'
  BY <1>1, <1>2 DEF Types
<1>4. Stages'
  BY <1>1, <1>2 DEF Stages
<1>5. RowsSound' /\ RebuiltIsValid' /\ SlotMirrors' /\ PromptMirrors'
  BY <1>1, AnswerKeeps
<1>. QED BY <1>3, <1>4, <1>5 DEF IInv

(* The guard ends the run,                                                  *)
LEMMA GuardAbortsKeeps == IInv /\ GuardAborts => IInv'
<1>. SUFFICES ASSUME IInv, GuardAborts PROVE IInv'
  OBVIOUS
<1>1. /\ pc = "tools" /\ pending # <<>> /\ Answer(<<>>) /\ IsExtra(<<>>)
      /\ UNCHANGED <<run, strict, turns, think, signal, sent, slot, excused>>
      /\ pc' = (IF Len(pending) = 1 THEN "final" ELSE "skip")
      /\ same' = same + 1 /\ full' = "notice" /\ aborted' = TRUE
      /\ Types /\ Stages
  BY DEF GuardAborts, IInv, IsExtra
<1>2. /\ messages' \in Seq(MessageType) /\ rows' \in Seq(RowType) /\ pending' \in Seq(1..MaxCalls)
      /\ pending' = <<>> <=> Len(pending) = 1
  BY <1>1, AnswerIs
<1>3. same' \in 0..(MaxIdentical + 2)
  BY <1>1, Bounds DEF Types, Stages
<1>4. Types'
  BY <1>1, <1>2, <1>3 DEF Types
<1>5. Stages'
  BY <1>1, <1>2 DEF Stages
<1>6. RowsSound' /\ RebuiltIsValid' /\ SlotMirrors' /\ PromptMirrors'
  BY <1>1, AnswerKeeps
<1>. QED BY <1>4, <1>5, <1>6 DEF IInv

(* after the other calls have got their results.                            *)
LEMMA SkipToolKeeps == IInv /\ SkipTool => IInv'
<1>. SUFFICES ASSUME IInv, SkipTool PROVE IInv'
  OBVIOUS
<1>1. /\ pc = "skip" /\ pending # <<>> /\ Answer(<<>>) /\ IsExtra(<<>>)
      /\ UNCHANGED <<run, strict, turns, same, think, full, signal, aborted, sent, slot, excused>>
      /\ pc' = (IF Len(pending) = 1 THEN "final" ELSE "skip")
      /\ Types /\ Stages
  BY DEF SkipTool, IInv, IsExtra, Stages
<1>2. /\ messages' \in Seq(MessageType) /\ rows' \in Seq(RowType) /\ pending' \in Seq(1..MaxCalls)
      /\ pending' = <<>> <=> Len(pending) = 1
  BY <1>1, AnswerIs
<1>3. Types'
  BY <1>1, <1>2 DEF Types
<1>4. Stages'
  BY <1>1, <1>2 DEF Stages
<1>5. RowsSound' /\ RebuiltIsValid' /\ SlotMirrors' /\ PromptMirrors'
  BY <1>1, AnswerKeeps
<1>. QED BY <1>3, <1>4, <1>5 DEF IInv

(* A call is executed, refused or delivers a message.                       *)
LEMMA ExecuteToolKeeps ==
    ASSUME IInv, NEW tool \in {"send_to_user", "other"}, NEW again \in BOOLEAN,
           ExecuteTool(tool, again)
    PROVE  IInv'
<1>. DEFINE delivers == tool = "send_to_user" /\ ~(Count(again) > MaxIdentical)
            c == Row(Message("assistant", Id(Head(pending)), {}, "copy"), FALSE, TRUE)
            extra == IF delivers THEN <<c>> ELSE <<>>
<1>1. /\ pc = "tools" /\ pending # <<>> /\ Answer(extra)
      /\ UNCHANGED <<pc, run, strict, turns, think, full, signal, aborted, slot, excused>>
      /\ same' = Count(again) /\ Count(again) <= MaxIdentical + 1
      /\ sent' = (sent \/ delivers)
      /\ Types /\ Stages
  BY DEF ExecuteTool, IInv
<1>2. Id(Head(pending)) \in Ids
  <2>1. /\ pending \in Seq(1..MaxCalls) /\ run \in 1..MaxRuns /\ turns \in 0..(MaxToolTurns + 1)
    BY <1>1, Bounds DEF Types, Stages
  <2>2. Len(pending) \in Nat \ {0}
    BY <1>1, <2>1, EmptySeq
  <2>3. pending[1] \in 1..MaxCalls
    <3>1. 1 \in 1..Len(pending)
      BY <2>2
    <3>. QED BY <2>1, <3>1, ElementOfSeq
  <2>4. Head(pending) = pending[1]
    BY <2>1, <2>2
  <2>. QED BY <2>1, <2>3, <2>4, Bounds DEF Id, Ids
<1>3. IsCopy(c)
  BY <1>2 DEF IsCopy, Row, Message, RowType, MessageType
<1>4. IsExtra(extra)
  BY <1>3 DEF IsExtra
<1>. HIDE DEF extra, delivers
<1>5. /\ messages' \in Seq(MessageType) /\ rows' \in Seq(RowType) /\ pending' \in Seq(1..MaxCalls)
      /\ pending' = <<>> <=> Len(pending) = 1
  BY <1>1, <1>4, AnswerIs
<1>6. same' \in 0..(MaxIdentical + 2) /\ same' <= MaxIdentical + 1 /\ sent' \in BOOLEAN
  <2>1. Count(again) \in Nat
    BY <1>1, Bounds DEF Types, Count
  <2>2. sent' \in BOOLEAN
    BY <1>1, Zenon
  <2>. QED BY <1>1, <2>1, <2>2, Bounds
<1>7. Types'
  BY <1>1, <1>5, <1>6 DEF Types
<1>8. Stages'
  BY <1>1, <1>5, <1>6 DEF Stages
<1>9. RowsSound' /\ RebuiltIsValid' /\ SlotMirrors' /\ PromptMirrors'
  BY <1>1, <1>4, AnswerKeeps
<1>. QED BY <1>7, <1>8, <1>9 DEF IInv

-----------------------------------------------------------------------------
(* Every step keeps the invariant.                                          *)
LEMMA StepKeeps == IInv /\ [Next]_vars => IInv'
<1>. SUFFICES ASSUME IInv, [Next]_vars PROVE IInv'
  OBVIOUS
<1>1. CASE StoreUser
  BY <1>1, StoreUserKeeps
<1>2. CASE Step
  <2>1. CASE AutoCompact
    BY <2>1, AutoCompactKeeps
  <2>2. CASE Build
    BY <2>2, BuildKeeps
  <2>3. CASE \E ok \in BOOLEAN : PersistPrefix(ok)
    BY <2>3, PersistPrefixKeeps
  <2>4. CASE LoopEnds \/ StreamText \/ StreamAborted \/ StreamMalformed
    BY <2>4, LoopEndsKeeps
  <2>5. CASE \E n \in 1..MaxCalls, drop, thinks \in BOOLEAN : StreamCalls(n, drop, thinks)
    BY <2>5, StreamCallsKeeps
  <2>6. CASE Interrupt
    BY <2>6, InterruptKeeps
  <2>7. CASE GuardAborts
    BY <2>7, GuardAbortsKeeps
  <2>8. CASE SkipTool
    BY <2>8, SkipToolKeeps
  <2>9. CASE \E sandbox \in BOOLEAN : NextTurn(sandbox)
    BY <2>9, NextTurnKeeps
  <2>10. CASE \E tool \in {"send_to_user", "other"}, again \in BOOLEAN : ExecuteTool(tool, again)
    BY <2>10, ExecuteToolKeeps
  <2>11. CASE \E promoted \in BOOLEAN : StoreFinal(promoted)
    BY <2>11, StoreFinalKeeps
  <2>. QED BY <1>2, <2>1, <2>2, <2>3, <2>4, <2>5, <2>6, <2>7, <2>8, <2>9, <2>10, <2>11 DEF Step
<1>3. CASE RunFails
  BY <1>3, RunFailsKeeps
<1>4. CASE Abort
  BY <1>4, AbortKeeps
<1>5. CASE Over \/ UNCHANGED vars
  BY <1>5, StutterKeeps DEF Over
<1>. QED BY <1>1, <1>2, <1>3, <1>4, <1>5 DEF Next

(* The inductive invariant holds in every state of a session.               *)
THEOREM InductiveInvariant == Spec => []IInv
<1>1. Init => IInv
  BY Initially
<1>2. IInv /\ [Next]_vars => IInv'
  BY StepKeeps
<1>. QED BY <1>1, <1>2, PTL DEF Spec

(* Rows, prompt, counters and pending calls of a run (run.ts) have their    *)
(* types, whatever fails or is aborted.                                     *)
THEOREM TypeCorrect == Spec => []TypeOK
<1>1. IInv => TypeOK
  <2>. SUFFICES ASSUME Types PROVE TypeOK
    BY DEF IInv
  <2>1. \A S : \A s \in Seq(S) : \A i \in DOMAIN s : s[i] \in S
    OBVIOUS
  <2>. QED BY <2>1 DEF Types, TypeOK
<1>. QED BY <1>1, InductiveInvariant, PTL

(* buildLlmPayload with stripOrphanedToolCalls: every prompt rebuilt for a  *)
(* strict provider honours the contract of calls and results, whatever      *)
(* crash, abort, failure or compaction has cut the rows.                    *)
THEOREM RebuiltValid == Spec => []RebuiltIsValid
<1>1. IInv => RebuiltIsValid
  BY DEF IInv
<1>. QED BY <1>1, InductiveInvariant, PTL

(* A rebuilt prompt extends what the local provider has in its cache,       *)
(* unless the code has accepted the miss: what runAgent sends while it runs *)
(* and what it stores agree byte for byte, over any number of runs.         *)
THEOREM CacheHits == Spec => []CacheParity
<1>1. IInv => CacheParity
  <2>. SUFFICES ASSUME IInv, pc = "prefix", ~strict, ~excused PROVE IsPrefix(slot, messages)
    BY DEF CacheParity
  <2>1. /\ slot \in Seq(MessageType) /\ messages \in Seq(MessageType)
        /\ Mirrors(slot, Chat(rows), Results(rows)) /\ Len(slot) < Len(Chat(rows))
        /\ Rebuilt(messages, rows)
    BY DEF IInv, Types, SlotMirrors, PromptMirrors, Cached
  <2>2. Len(slot) \in Nat /\ Len(messages) \in Nat /\ Len(messages) = Len(Chat(rows))
    BY <2>1 DEF Rebuilt
  <2>3. \A k \in 1..Len(slot) : k \in 1..Len(messages) /\ k # Len(messages)
    BY <2>1, <2>2
  <2>4. \A k \in 1..Len(slot) : slot[k] = messages[k]
    BY <2>1, <2>3 DEF Mirrors, Rebuilt
  <2>. DEFINE s == SubSeq(messages, 1, Len(slot))
  <2>5. Len(s) = Len(slot) /\ s \in Seq(MessageType) /\ \A k \in 1..Len(slot) : s[k] = messages[k]
    <3>1. \A k \in 1..Len(slot) : messages[k] \in MessageType
      BY <2>1, <2>3
    <3>. QED BY <2>2, <3>1, SubSeqProperties
  <2>6. slot = s
    <3>. HIDE DEF s
    <3>. QED BY <2>1, <2>4, <2>5
  <2>. QED BY <2>1, <2>2, <2>6 DEF IsPrefix
<1>. QED BY <1>1, InductiveInvariant, PTL

=============================================================================
