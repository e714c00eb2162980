--------------------------- MODULE SequenceLemmas ---------------------------
(* Facts about sequences, sums and finite sets that the proofs need for    *)
(* every length: what FlattenSeq and SetToSeqs of SequencesExt return, how *)
(* SumTo adds, which members of a set come first, and when one set fits    *)
(* into another.  What holds for every length is shown with a least        *)
(* counterexample.                                                         *)
EXTENDS Sums, Integers, Sequences, SequencesExt, FiniteSetTheorems, SequenceTheorems, TLAPS

(* A set of natural numbers has a least one, because the intervals 1..n    *)
(* are ordered by inclusion.                                               *)
LEMMA LeastNat ==
    ASSUME NEW T \in SUBSET Nat, T # {}
    PROVE  \E n \in T : \A m \in T : n <= m
<1> DEFINE U == {1..n : n \in T}
<1> DEFINE R == StrictSubsetOrdering(Nat)
<1>1. \A n \in Nat : 1..n \in FiniteSubsetsOf(Nat)
  BY FS_Interval DEF FiniteSubsetsOf
<1>2. U \subseteq FiniteSubsetsOf(Nat) /\ U # {}
  BY <1>1
<1>3. \E x \in U : \A y \in U : ~(<<y, x>> \in R)
  <2>1. IsWellFoundedOn(R, FiniteSubsetsOf(Nat))
    BY FS_StrictSubsetOrderingWellFounded
  <2> HIDE DEF R, U
  <2> QED
    BY <2>1, <1>2, WFMin
<1>4. PICK n \in T : \A m \in T : ~(<<1..m, 1..n>> \in R)
  BY <1>3
<1>5. ASSUME NEW m \in T, m < n PROVE FALSE
  <2>1. 1..m \subseteq 1..n /\ n \in 1..n /\ n \notin 1..m
    BY <1>5
  <2>2. <<1..m, 1..n>> \in R
    BY <2>1 DEF StrictSubsetOrdering
  <2> QED
    BY <1>4, <2>2
<1> QED
  BY <1>5

-----------------------------------------------------------------------------
(***************************************************************************)
(* FlattenSeq.                                                             *)
(***************************************************************************)
Partial(ss, n, f) == f = [i \in 1..n |-> IF i = 1 THEN ss[i] ELSE f[i - 1] \o ss[i]]

(* The function that FlattenSeq defines by recursion exists. *)
LEMMA PartialExists ==
    ASSUME NEW ss, NEW n \in Nat
    PROVE  \E f : Partial(ss, n, f)
<1> DEFINE T == {k \in Nat : ~(\E f : Partial(ss, k, f))}
<1> SUFFICES ASSUME T # {} PROVE FALSE
  OBVIOUS
<1>1. PICK k \in T : \A m \in T : k <= m
  <2>1. T \in SUBSET Nat
    OBVIOUS
  <2> HIDE DEF T
  <2> QED
    BY <2>1, LeastNat
<1>2. k \in Nat /\ ~(\E f : Partial(ss, k, f))
  BY <1>1
<1>3. k # 0
  <2>1. Partial(ss, 0, <<>>)
    BY DEF Partial
  <2> QED
    BY <2>1, <1>2
<1>4. PICK f : Partial(ss, k - 1, f)
  <2>1. k - 1 \notin T
    <3> HIDE DEF T
    <3> QED
      BY <1>1, <1>2, <1>3
  <2> QED
    BY <2>1, <1>2, <1>3
<1> DEFINE g == [i \in 1..k |-> IF i < k THEN f[i] ELSE IF k = 1 THEN ss[1] ELSE f[k - 1] \o ss[k]]
<1>5. ASSUME NEW i \in 1..k
      PROVE  g[i] = IF i = 1 THEN ss[i] ELSE g[i - 1] \o ss[i]
  <2>1. CASE i < k
    <3>1. i \in 1..(k - 1) /\ (i # 1 => i - 1 \in 1..(k - 1))
      BY <1>2, <2>1
    <3>2. f[i] = IF i = 1 THEN ss[i] ELSE f[i - 1] \o ss[i]
      BY <1>4, <3>1 DEF Partial
    <3>3. g[i] = f[i] /\ (i # 1 => g[i - 1] = f[i - 1])
      BY <1>2, <2>1
    <3> QED
      BY <3>2, <3>3
  <2>2. CASE i = k
    <3>1. k # 1 => k - 1 \in 1..k /\ g[k - 1] = f[k - 1]
      BY <1>2
    <3> QED
      BY <2>2, <3>1, <1>2
  <2> QED
    BY <2>1, <2>2, <1>2
<1>6. g = [i \in 1..k |-> g[i]]
  OBVIOUS
<1>7. Partial(ss, k, g)
  <2> HIDE DEF g
  <2> QED
    BY <1>5, <1>6 DEF Partial
<1> QED
  BY <1>2, <1>7

LEMMA FlattenSeqDef ==
    ASSUME NEW S, NEW ss \in Seq(Seq(S)), ss # <<>>
    PROVE  \E f : /\ \A i \in 1..Len(ss) : f[i] = IF i = 1 THEN ss[i] ELSE f[i - 1] \o ss[i]
                  /\ FlattenSeq(ss) = f[Len(ss)]
<1> DEFINE f == CHOOSE f : Partial(ss, Len(ss), f)
<1>2. Len(ss) \in Nat /\ Len(ss) # 0
  OBVIOUS
<1>1. Partial(ss, Len(ss), f)
  BY <1>2, PartialExists
<1>3. FlattenSeq(ss) = f[Len(ss)]
  BY <1>2, Zenon DEF FlattenSeq, Partial
<1> HIDE DEF f
<1> QED
  BY <1>1, <1>3 DEF Partial

(* s holds the elements of the first n parts of ss, once each if no two    *)
(* positions in the parts hold the same.                                   *)
Gathers(ss, n, s) ==
    /\ \A k \in DOMAIN s : \E i \in 1..n : \E j \in DOMAIN ss[i] : s[k] = ss[i][j]
    /\ \A i \in 1..n : \A j \in DOMAIN ss[i] : \E k \in DOMAIN s : s[k] = ss[i][j]
AllDistinct(ss) ==
    \A i, j \in DOMAIN ss : \A k \in DOMAIN ss[i], l \in DOMAIN ss[j] :
        ss[i][k] = ss[j][l] => i = j /\ k = l

LEMMA GathersNext ==
    ASSUME NEW S, NEW ss \in Seq(Seq(S)), NEW n \in 1..(Len(ss) - 1), NEW s \in Seq(S),
           Gathers(ss, n, s), AllDistinct(ss) => IsInjective(s)
    PROVE  /\ s \o ss[n + 1] \in Seq(S)
           /\ Gathers(ss, n + 1, s \o ss[n + 1])
           /\ AllDistinct(ss) => IsInjective(s \o ss[n + 1])
<1> DEFINE p == ss[n + 1]
           r == s \o ss[n + 1]
<1>1. p \in Seq(S) /\ n + 1 \in DOMAIN ss /\ 1..n \subseteq DOMAIN ss /\ n + 1 \notin 1..n
  OBVIOUS
<1>2. /\ r \in Seq(S) /\ Len(r) = Len(s) + Len(p) /\ DOMAIN r = 1..(Len(s) + Len(p))
      /\ Len(s) \in Nat /\ Len(p) \in Nat
      /\ DOMAIN s = 1..Len(s) /\ DOMAIN p = 1..Len(p)
      /\ \A k \in DOMAIN r : r[k] = IF k <= Len(s) THEN s[k] ELSE p[k - Len(s)]
  BY <1>1, ConcatProperties
<1> HIDE DEF r, p
<1>3. \A k \in DOMAIN r : \/ k \in DOMAIN s /\ r[k] = s[k]
                          \/ k - Len(s) \in DOMAIN p /\ k > Len(s) /\ r[k] = p[k - Len(s)]
  BY <1>2
<1>4. /\ \A k \in DOMAIN s : k \in DOMAIN r /\ r[k] = s[k]
      /\ \A j \in DOMAIN p : j + Len(s) \in DOMAIN r /\ r[j + Len(s)] = p[j]
  <2>1. ASSUME NEW k \in DOMAIN s PROVE k \in DOMAIN r /\ r[k] = s[k]
    BY <1>2
  <2>2. ASSUME NEW j \in DOMAIN p PROVE j + Len(s) \in DOMAIN r /\ r[j + Len(s)] = p[j]
    <3>1. j + Len(s) \in DOMAIN r /\ ~(j + Len(s) <= Len(s)) /\ (j + Len(s)) - Len(s) = j
      BY <1>2
    <3> QED
      BY <1>2, <3>1
  <2> QED
    BY <2>1, <2>2
<1>5. Gathers(ss, n + 1, r)
  <2>1. ASSUME NEW k \in DOMAIN r
        PROVE  \E i \in 1..(n + 1) : \E j \in DOMAIN ss[i] : r[k] = ss[i][j]
    <3>1. CASE k \in DOMAIN s /\ r[k] = s[k]
      <4>1. PICK i \in 1..n : \E j \in DOMAIN ss[i] : s[k] = ss[i][j]
        BY <3>1 DEF Gathers
      <4> QED
        BY <3>1, <4>1
    <3>2. CASE k - Len(s) \in DOMAIN p /\ r[k] = p[k - Len(s)]
      BY <3>2 DEF p
    <3> QED
      BY <1>3, <3>1, <3>2
  <2>2. ASSUME NEW i \in 1..(n + 1), NEW j \in DOMAIN ss[i]
        PROVE  \E k \in DOMAIN r : r[k] = ss[i][j]
    <3>1. CASE i \in 1..n
      BY <3>1, <1>4 DEF Gathers
    <3>2. CASE i = n + 1
      BY <3>2, <1>4 DEF p
    <3> QED
      BY <3>1, <3>2
  <2> QED
    BY <2>1, <2>2 DEF Gathers
<1>6. ASSUME AllDistinct(ss) PROVE IsInjective(r)
  <2>1. ASSUME NEW k \in DOMAIN s, NEW j \in DOMAIN p PROVE s[k] # p[j]
    <3>1. PICK i \in 1..n : \E l \in DOMAIN ss[i] : s[k] = ss[i][l]
      BY DEF Gathers
    <3>2. PICK l \in DOMAIN ss[i] : s[k] = ss[i][l]
      BY <3>1
    <3>3. i \in DOMAIN ss /\ i # n + 1
      BY <1>1
    <3> QED
      BY <1>6, <1>1, <3>2, <3>3 DEF AllDistinct, p
  <2>2. IsInjective(s) /\ IsInjective(p)
    BY <1>6, <1>1 DEF AllDistinct, IsInjective, p
  <2>3. SUFFICES ASSUME NEW k \in DOMAIN r, NEW l \in DOMAIN r, r[k] = r[l] PROVE k = l
    BY DEF IsInjective
  <2>4. k \in Int /\ l \in Int
    BY <1>2
  <2>5. CASE k \in DOMAIN s /\ r[k] = s[k] /\ l \in DOMAIN s /\ r[l] = s[l]
    BY <2>2, <2>3, <2>5 DEF IsInjective
  <2>6. CASE k - Len(s) \in DOMAIN p /\ r[k] = p[k - Len(s)] /\ l - Len(s) \in DOMAIN p /\ r[l] = p[l - Len(s)]
    <3>1. k - Len(s) = l - Len(s)
      BY <2>2, <2>3, <2>6 DEF IsInjective
    <3> QED
      BY <3>1, <2>4, <1>2
  <2> QED
    BY <1>3, <2>1, <2>3, <2>5, <2>6
<1> QED
  BY <1>2, <1>5, <1>6 DEF r

(* FlattenSeq returns a sequence of the elements of the parts. *)
LEMMA FlattenSeqGathers ==
    ASSUME NEW S, NEW ss \in Seq(Seq(S))
    PROVE  /\ FlattenSeq(ss) \in Seq(S)
           /\ Gathers(ss, Len(ss), FlattenSeq(ss))
           /\ AllDistinct(ss) => IsInjective(FlattenSeq(ss))
<1>1. CASE ss = <<>>
  <2>1. FlattenSeq(ss) = <<>> /\ Len(ss) = 0
    BY <1>1 DEF FlattenSeq
  <2> QED
    BY <2>1 DEF Gathers, IsInjective
<1>2. CASE ss # <<>>
  <2>1. PICK f : /\ \A i \in 1..Len(ss) : f[i] = IF i = 1 THEN ss[i] ELSE f[i - 1] \o ss[i]
                 /\ FlattenSeq(ss) = f[Len(ss)]
    BY <1>2, FlattenSeqDef
  <2>2. Len(ss) \in Nat /\ Len(ss) > 0 /\ 1 \in DOMAIN ss /\ DOMAIN ss = 1..Len(ss)
    BY <1>2
  <2> DEFINE Good(i) == /\ f[i] \in Seq(S)
                        /\ Gathers(ss, i, f[i])
                        /\ AllDistinct(ss) => IsInjective(f[i])
             T == {i \in 1..Len(ss) : ~Good(i)}
  <2>3. Good(1)
    <3>1. f[1] = ss[1] /\ ss[1] \in Seq(S) /\ 1..1 = {1}
      BY <2>1, <2>2
    <3>2. AllDistinct(ss) => IsInjective(ss[1])
      BY <2>2 DEF AllDistinct, IsInjective
    <3>3. Gathers(ss, 1, ss[1])
      BY <3>1 DEF Gathers
    <3> QED
      BY <3>1, <3>2, <3>3
  <2>4. T = {}
    <3> SUFFICES ASSUME T # {} PROVE FALSE
      OBVIOUS
    <3>1. PICK k \in T : \A m \in T : k <= m
      <4>1. T \in SUBSET Nat
        BY <2>2
      <4> HIDE DEF T
      <4> QED
        BY <4>1, LeastNat
    <3>2. k \in 1..Len(ss) /\ ~Good(k)
      OBVIOUS
    <3>3. k # 1
      BY <2>3, <3>2
    <3>4. k - 1 \in 1..(Len(ss) - 1) /\ k - 1 \in 1..Len(ss) /\ (k - 1) + 1 = k
      BY <2>2, <3>2, <3>3
    <3>5. Good(k - 1)
      <4>1. k - 1 \notin T
        <5> HIDE DEF T
        <5> QED
          BY <3>1, <3>2, <3>4
      <4> QED
        BY <4>1, <3>4
    <3>6. f[k] = f[k - 1] \o ss[(k - 1) + 1]
      BY <2>1, <3>2, <3>3, <3>4
    <3>7. Good((k - 1) + 1)
      BY <3>4, <3>5, <3>6, GathersNext
    <3> QED
      BY <3>2, <3>4, <3>7
  <2>5. Good(Len(ss))
    BY <2>2, <2>4
  <2> QED
    BY <2>1, <2>5
<1> QED
  BY <1>1, <1>2

-----------------------------------------------------------------------------
(* An order of a finite set, as SetToSeqs returns it, leaves no element    *)
(* out.                                                                    *)
LEMMA SetToSeqsOrders ==
    ASSUME NEW S, IsFiniteSet(S), NEW order \in SetToSeqs(S)
    PROVE  /\ order \in Seq(S)
           /\ IsInjective(order)
           /\ \A e \in S : \E i \in DOMAIN order : order[i] = e
<1> DEFINE n == Cardinality(S)
           D == 1..n
<1>1. n \in Nat
  BY FS_CardinalityType
<1>2. order \in [D -> S] /\ \A i, j \in D : i # j => order[i] # order[j]
  BY DEF SetToSeqs
<1>3. order \in Injection(D, S)
  BY <1>2 DEF Injection, IsInjective
<1>4. Cardinality(D) = n
  BY <1>1, FS_Interval
<1>5. order \in Surjection(D, S)
  <2> HIDE DEF D, n
  <2> QED
    BY <1>3, <1>4, FS_Injection DEF n
<1> QED
  BY <1>1, <1>2, <1>5 DEF Surjection, IsInjective

(* The sequence operators on a sequence whose elements are known.          *)
LEMMA AppendFacts ==
    ASSUME NEW S, NEW s \in Seq(S), NEW e \in S
    PROVE  /\ Append(s, e) \in Seq(S)
           /\ Len(Append(s, e)) = Len(s) + 1
           /\ DOMAIN Append(s, e) = DOMAIN s \cup {Len(s) + 1}
           /\ Len(s) + 1 \notin DOMAIN s
           /\ \A i \in DOMAIN s : Append(s, e)[i] = s[i] /\ i < Len(s) + 1
           /\ Append(s, e)[Len(s) + 1] = e
OBVIOUS

LEMMA TailFacts ==
    ASSUME NEW S, NEW s \in Seq(S), s # <<>>
    PROVE  /\ Tail(s) \in Seq(S)
           /\ 1 \in DOMAIN s /\ Head(s) = s[1] /\ s[1] \in S
           /\ \A i \in DOMAIN Tail(s) : i + 1 \in DOMAIN s /\ i + 1 # 1 /\ Tail(s)[i] = s[i + 1]
           /\ \A i \in DOMAIN s : i # 1 => i - 1 \in DOMAIN Tail(s) /\ Tail(s)[i - 1] = s[i]
           /\ DOMAIN s \subseteq Nat \ {0} /\ DOMAIN Tail(s) \subseteq Nat \ {0}
OBVIOUS

LEMMA RemoveAtFacts ==
    ASSUME NEW S, NEW s \in Seq(S), NEW i \in DOMAIN s
    PROVE  /\ RemoveAt(s, i) \in Seq(S)
           /\ DOMAIN RemoveAt(s, i) = 1..(Len(s) - 1)
           /\ \A k \in 1..(Len(s) - 1) : RemoveAt(s, i)[k] = IF k < i THEN s[k] ELSE s[k + 1]
<1> DEFINE a == SubSeq(s, 1, i - 1)
           b == SubSeq(s, i + 1, Len(s))
<1>1. Len(s) \in Nat /\ i \in 1..Len(s) /\ DOMAIN s = 1..Len(s)
  OBVIOUS
<1>2. a \in Seq(S) /\ Len(a) = i - 1 /\ \A k \in 1..(i - 1) : a[k] = s[k]
  <2>1. /\ i - 1 \in Int /\ \A k \in 1..(i - 1) : s[k] \in S
        /\ (IF 1 <= i - 1 THEN (i - 1) - 1 + 1 ELSE 0) = i - 1
        /\ \A k \in 1..(i - 1) : k \in 1..((i - 1) - 1 + 1) /\ 1 + k - 1 = k
    BY <1>1
  <2> QED
    BY <2>1, SubSeqProperties
<1>3. b \in Seq(S) /\ Len(b) = Len(s) - i /\ \A k \in 1..(Len(s) - i) : b[k] = s[k + i]
  <2>1. /\ i + 1 \in Int /\ Len(s) \in Int /\ \A k \in (i + 1)..Len(s) : s[k] \in S
        /\ (IF i + 1 <= Len(s) THEN Len(s) - (i + 1) + 1 ELSE 0) = Len(s) - i
        /\ \A k \in 1..(Len(s) - i) : k \in 1..(Len(s) - (i + 1) + 1) /\ (i + 1) + k - 1 = k + i
    BY <1>1
  <2> QED
    BY <2>1, SubSeqProperties
<1> HIDE DEF a, b
<1>4. /\ a \o b \in Seq(S) /\ Len(a \o b) = Len(s) - 1
      /\ \A k \in 1..(Len(s) - 1) : (a \o b)[k] = IF k <= i - 1 THEN a[k] ELSE b[k - (i - 1)]
  <2>1. Len(a) + Len(b) = Len(s) - 1
    BY <1>1, <1>2, <1>3
  <2>2. /\ a \o b \in Seq(S) /\ Len(a \o b) = Len(a) + Len(b)
        /\ \A k \in 1..(Len(a) + Len(b)) : (a \o b)[k] = IF k <= Len(a) THEN a[k] ELSE b[k - Len(a)]
    BY <1>2, <1>3, ConcatProperties
  <2>3. Len(a) = i - 1
    BY <1>2
  <2> QED
    BY <2>1, <2>2, <2>3
<1>5. ASSUME NEW k \in 1..(Len(s) - 1)
      PROVE  (a \o b)[k] = IF k < i THEN s[k] ELSE s[k + 1]
  <2>1. CASE k < i
    <3>1. k <= i - 1 /\ k \in 1..(i - 1)
      BY <1>1, <2>1
    <3> QED
      BY <3>1, <2>1, <1>2, <1>4
  <2>2. CASE ~(k < i)
    <3>1. ~(k <= i - 1) /\ k - (i - 1) \in 1..(Len(s) - i) /\ (k - (i - 1)) + i = k + 1
      BY <1>1, <2>2
    <3> QED
      BY <3>1, <2>2, <1>3, <1>4
  <2> QED
    BY <2>1, <2>2
<1>6. DOMAIN (a \o b) = 1..(Len(s) - 1)
  BY <1>4
<1>7. RemoveAt(s, i) = a \o b
  BY DEF RemoveAt, a, b
<1> QED
  BY <1>4, <1>5, <1>6, <1>7
-----------------------------------------------------------------------------
(* Sums *)

(* Induction up to a number, for a set. *)
LEMMA UpTo ==
    ASSUME NEW n \in Nat, NEW P \in SUBSET Nat, 0 \in P,
           \A k \in Nat : k < n /\ k \in P => k + 1 \in P
    PROVE  \A k \in 0..n : k \in P
<1> DEFINE T == {k \in Nat : k <= n /\ k \notin P}
<1>1. SUFFICES ASSUME T # {} PROVE FALSE
    OBVIOUS
<1>2. PICK k \in T : \A m \in T : k <= m
  <2>1. T \in SUBSET Nat
      OBVIOUS
  <2> HIDE DEF T
  <2> QED
      BY <1>1, <2>1, LeastNat
<1>3. k \in Nat /\ k <= n /\ k \notin P /\ k # 0
    OBVIOUS
<1>4. k - 1 \in Nat /\ k - 1 < n /\ k - 1 \notin T
    BY <1>2, <1>3
<1> QED
    BY <1>3, <1>4

(* The function that SumTo defines by recursion exists. *)
SumsUp(f, n, s) == s = [i \in 0..n |-> IF i = 0 THEN 0 ELSE s[i - 1] + f[i]]

LEMMA SumsExist ==
    ASSUME NEW f, NEW n \in Nat
    PROVE  \E s : SumsUp(f, n, s)
<1> DEFINE P == {k \in Nat : \E s : SumsUp(f, k, s)}
<1>1. 0 \in P
  <2>1. SumsUp(f, 0, [i \in 0..0 |-> 0])
    BY DEF SumsUp
  <2> QED
    BY <2>1
<1>2. ASSUME NEW k \in Nat, k \in P PROVE k + 1 \in P
  <2>1. PICK s : SumsUp(f, k, s)
    BY <1>2
  <2> DEFINE r == [i \in 0..(k + 1) |-> IF i <= k THEN s[i] ELSE s[k] + f[k + 1]]
  <2>2. ASSUME NEW i \in 0..(k + 1)
        PROVE  r[i] = IF i = 0 THEN 0 ELSE r[i - 1] + f[i]
    <3>1. CASE i <= k
      <4>1. i \in 0..k /\ r[i] = s[i] /\ (i # 0 => r[i - 1] = s[i - 1])
        BY <3>1
      <4>2. s[i] = IF i = 0 THEN 0 ELSE s[i - 1] + f[i]
        BY <2>1, <4>1 DEF SumsUp
      <4> QED
        BY <4>1, <4>2
    <3>2. CASE i = k + 1
      BY <3>2
    <3> QED
      BY <3>1, <3>2
  <2>3. r = [i \in 0..(k + 1) |-> r[i]]
    OBVIOUS
  <2>4. SumsUp(f, k + 1, r)
    <3> HIDE DEF r
    <3> QED
      BY <2>2, <2>3 DEF SumsUp
  <2> QED
    BY <2>4
<1>3. P \in SUBSET Nat
  OBVIOUS
<1> HIDE DEF P
<1>4. n \in P
  BY <1>1, <1>2, <1>3, UpTo
<1> QED
  BY <1>4 DEF P

LEMMA SumFacts ==
    ASSUME NEW f, NEW n \in Nat
    PROVE  \E s : /\ s[0] = 0
                  /\ \A i \in 1..n : s[i] = s[i - 1] + f[i]
                  /\ SumTo(f, n) = s[n]
<1> DEFINE s == CHOOSE s : SumsUp(f, n, s)
<1>1. SumsUp(f, n, s)
  BY SumsExist
<1>2. SumTo(f, n) = s[n]
  BY Zenon DEF SumTo, SumsUp
<1> HIDE DEF s
<1>3. s = [i \in 0..n |-> IF i = 0 THEN 0 ELSE s[i - 1] + f[i]]
  BY <1>1 DEF SumsUp
<1> QED
  BY <1>2, <1>3

(* Those of S that fewer than k of S precede, in an order that the numbers   *)
(* of predecessors tell apart, are as many as k, or all.                     *)
LEMMA FirstOfAll ==
    ASSUME NEW S, IsFiniteSet(S), NEW k \in Int, NEW down,
           \A i \in S : down[i] \subseteq S /\ i \notin down[i],
           \A i, j \in S : i # j => i \in down[j] \/ j \in down[i],
           \A i, j \in S : i \in down[j] => down[i] \subseteq down[j]
    PROVE  LET C == {i \in S : Cardinality(down[i]) < k}
           IN  /\ IsFiniteSet(C) /\ Cardinality(C) \in Nat
               /\ C # {} => Cardinality(C) <= k
               /\ C = S \/ Cardinality(C) >= k
<1> DEFINE rank(i) == Cardinality(down[i])
           C == {i \in S : rank(i) < k}
<1>1. \A i \in S : IsFiniteSet(down[i]) /\ rank(i) \in Nat
  BY FS_Subset, FS_CardinalityType
<1>2. IsFiniteSet(C) /\ Cardinality(C) \in Nat
  BY FS_Subset, FS_CardinalityType
<1>3. ASSUME NEW i \in S, NEW j \in S, i \in down[j] PROVE rank(i) < rank(j)
  <2>1. down[i] \in SUBSET (down[j] \ {i}) /\ IsFiniteSet(down[j])
    BY <1>1, <1>3
  <2>2. IsFiniteSet(down[j] \ {i}) /\ Cardinality(down[j] \ {i}) = rank(j) - 1
    BY <1>3, <2>1, FS_RemoveElement
  <2>3. rank(i) <= rank(j) - 1
    BY <2>1, <2>2, FS_Subset
  <2> QED
    BY <1>1, <2>3
<1>4. ASSUME C # {} PROVE Cardinality(C) <= k
  <2> DEFINE T == {n \in Nat : \E i \in C : n = k - rank(i)}
  <2>1. T # {}
    <3>1. PICK i \in C : TRUE
      BY <1>4
    <3>2. rank(i) \in Nat /\ rank(i) < k
      BY <1>1
    <3>3. k - rank(i) \in Nat
      BY <3>2
    <3> QED
      BY <3>3
  <2>2. PICK n \in T : \A m \in T : n <= m
    BY <2>1, LeastNat
  <2>3. PICK i \in C : n = k - rank(i)
    OBVIOUS
  <2>4. \A j \in C : rank(j) <= rank(i)
    <3>1. TAKE j \in C
    <3>2. rank(j) \in Nat /\ rank(j) < k /\ rank(i) \in Nat
      BY <1>1
    <3>3. k - rank(j) \in T
      BY <3>2
    <3> QED
      BY <2>2, <2>3, <3>2, <3>3
  <2>5. C \ {i} \in SUBSET down[i]
    BY <1>1, <1>3, <2>4
  <2>6. Cardinality(C \ {i}) = Cardinality(C) - 1
    BY <1>2, FS_RemoveElement
  <2>7. Cardinality(C \ {i}) <= rank(i)
    BY <1>1, <2>5, FS_Subset
  <2> QED
    BY <1>1, <1>2, <2>6, <2>7
<1>5. ASSUME C # S PROVE Cardinality(C) >= k
  <2> DEFINE T == {rank(i) : i \in S \ C}
  <2>1. T \in SUBSET Nat /\ T # {}
    BY <1>1, <1>5
  <2>2. PICK n \in T : \A m \in T : n <= m
    BY <2>1, LeastNat
  <2>3. PICK i \in S \ C : n = rank(i)
    OBVIOUS
  <2>4. rank(i) >= k
    BY <1>1
  <2>5. down[i] \in SUBSET C
    <3>1. SUFFICES ASSUME NEW j \in down[i], j \notin C PROVE FALSE
      OBVIOUS
    <3>2. j \in S /\ rank(j) \in T
      BY <3>1
    <3>3. rank(j) < rank(i)
      BY <1>3, <3>2
    <3> QED
      BY <1>1, <2>2, <2>3, <3>2, <3>3
  <2>6. rank(i) <= Cardinality(C)
    BY <1>2, <2>5, FS_Subset
  <2> QED
    BY <1>1, <1>2, <2>4, <2>6
<1> QED
  BY <1>2, <1>4, <1>5

(* A finite set fits into one that is not smaller.                           *)
Injectable(S, T) == \E f \in [S -> T] : \A x, y \in S : x # y => f[x] # f[y]
LEMMA FitsInto ==
    ASSUME NEW S, NEW T, IsFiniteSet(S), IsFiniteSet(T), Cardinality(S) <= Cardinality(T)
    PROVE  Injectable(S, T)
<1> DEFINE a == Cardinality(S)
           b == Cardinality(T)
<1>1. a \in Nat /\ b \in Nat /\ ExistsBijection(1 .. a, S) /\ ExistsBijection(1 .. b, T)
  BY FS_CardinalityType
<1>2. PICK g \in Bijection(1 .. a, S) : TRUE
  BY <1>1 DEF ExistsBijection
<1>3. PICK h \in Bijection(1 .. b, T) : TRUE
  BY <1>1 DEF ExistsBijection
<1>4. g \in [1 .. a -> S] /\ \A x \in S : \E i \in 1 .. a : g[i] = x
  BY <1>2 DEF Bijection, Surjection
<1>5. h \in [1 .. b -> T] /\ \A i, j \in 1 .. b : h[i] = h[j] => i = j
  BY <1>3 DEF Bijection, Injection, IsInjective
<1> DEFINE number == [x \in S |-> CHOOSE i \in 1 .. a : g[i] = x]
           f == [x \in S |-> h[number[x]]]
<1>6. \A x \in S : number[x] \in 1 .. a /\ g[number[x]] = x
  BY <1>4
<1> HIDE DEF a, b
<1>7. \A x \in S : number[x] \in 1 .. b
  BY <1>1, <1>6 DEF a, b
<1> HIDE DEF number
<1>8. f \in [S -> T] /\ \A x, y \in S : x # y => f[x] # f[y]
  BY <1>5, <1>6, <1>7
<1> HIDE DEF f
<1> QED
  BY <1>8 DEF Injectable
=============================================================================
