-------------------------- MODULE ResponsesProofs --------------------------
(***************************************************************************)
(* The page a request gets is the one it asks for, however the members are *)
(* spread over the responses.                                              *)
(***************************************************************************)
EXTENDS Responses, LoopLemmas

Half == 2 ^ (IntBits - 1)

LEMMA SmallRemainder ==
    ASSUME NEW n \in Nat, NEW m \in Nat, n < m
    PROVE  n % m = n
OBVIOUS

\* A number that fits is not changed by the conversion to int.
LEMMA ToIntSame ==
    ASSUME NEW n \in Nat, n < Half
    PROVE  ToInt(n) = n
<1> DEFINE w == 2 ^ IntBits
<1>1. Half \in Nat /\ w = 2 * Half /\ w \in Nat /\ n < w
    BY RangesAssumption DEF Half
<1>2. n % w = n
    <2> HIDE DEF w
    <2> QED BY <1>1, SmallRemainder
<1> QED BY <1>1, <1>2 DEF ToInt, Half

LEMMA MinusOne ==
    ASSUME NEW m \in Nat \ {0}
    PROVE  (-1) % m = m - 1
OBVIOUS

\* Half does not fit and becomes negative; -1 fits.
LEMMA ToIntEnds == ToInt(Half) = -Half /\ ToInt(-1) = -1
<1> DEFINE w == 2 ^ IntBits
<1>1. Half \in Nat \ {0} /\ w = 2 * Half /\ w \in Nat \ {0}
    BY RangesAssumption DEF Half
<1>2. Half % w = Half
  <2> HIDE DEF w
  <2>1. Half < w
    BY <1>1
  <2> QED BY <1>1, <2>1, SmallRemainder
<1>3. (-1) % w = w - 1
  <2> HIDE DEF w
  <2> QED BY <1>1, MinusOne
<1>4. \A n : ToInt(n) = IF n % w >= Half THEN (n % w) - w ELSE n % w
    BY DEF ToInt, Half
<1> HIDE DEF w
<1>5. ToInt(Half) = Half - w /\ ToInt(-1) = w - 1 - w
    BY <1>1, <1>2, <1>3, <1>4
<1> QED BY <1>1, <1>5

LEMMA ToSizeSame ==
    ASSUME NEW n \in Nat, n < 2 * 2 ^ IntBits
    PROVE  ToSize(n) = n
<1> DEFINE w == 2 ^ SizeBits
           v == 2 ^ IntBits
<1>1. w \in Nat /\ v \in Nat /\ w > 2 * v
    BY RangesAssumption
<1>2. n % w = n
    <2> HIDE DEF w, v
    <2>1. n < w
       BY <1>1 DEF v
    <2> QED BY <1>1, <2>1, SmallRemainder
<1> QED BY <1>2 DEF ToSize
-----------------------------------------------------------------------------
(* Slices *)

\* The c members of L after the first s.
From(L, s, c) == SubSeq(L, s + 1, IF s + c < Len(L) THEN s + c ELSE Len(L))

\* How many members that is when L has n of them.
Taken(n, s, c) == IF n <= s THEN 0 ELSE IF s + c < n THEN c ELSE n - s

Shifted(F, L, s) == \A i \in 1 .. Len(F) : F[i] = L[s + i]

LEMMA FromProperties ==
    ASSUME NEW T, NEW L \in Seq(T), NEW s \in Nat, NEW c \in Nat
    PROVE  /\ From(L, s, c) \in Seq(T)
           /\ Len(From(L, s, c)) = Taken(Len(L), s, c)
           /\ Shifted(From(L, s, c), L, s)
<1> DEFINE n == IF s + c < Len(L) THEN s + c ELSE Len(L)
           F == SubSeq(L, s + 1, n)
<1>1. Len(L) \in Nat /\ \A i \in 1 .. Len(L) : L[i] \in T
    BY LenProperties, ElementOfSeq
<1>2. n \in Nat /\ n <= Len(L)
    BY <1>1
<1>3. \A i \in s + 1 .. n : L[i] \in T
    BY <1>1, <1>2
<1>4. s + 1 \in Int /\ n \in Int
    BY <1>2
<1> HIDE DEF n
<1>5. /\ F \in Seq(T)
      /\ Len(F) = IF s + 1 <= n THEN n - (s + 1) + 1 ELSE 0
      /\ \A i \in 1 .. n - (s + 1) + 1 : F[i] = L[s + 1 + i - 1]
    BY <1>3, <1>4, SubSeqProperties
<1>6. F = From(L, s, c)
    BY DEF From, n
<1> HIDE DEF F
<1>7. Len(F) = IF Len(L) <= s THEN 0 ELSE IF s + c < Len(L) THEN c ELSE Len(L) - s
    BY <1>1, <1>2, <1>5 DEF n
<1>8. ASSUME NEW i \in 1 .. Len(F) PROVE F[i] = L[s + i]
  <2>1. Len(F) \in Nat /\ i \in Nat /\ i <= Len(F) /\ i >= 1
    BY <1>5, LenProperties
  <2>2. Len(F) = n - (s + 1) + 1
    BY <1>4, <1>5, <2>1
  <2>3. F[i] = L[s + 1 + i - 1] /\ s + 1 + i - 1 = s + i
    BY <1>5, <2>1, <2>2
  <2> QED BY <2>3
<1> QED BY <1>5, <1>6, <1>7, <1>8 DEF Taken, Shifted

\* Slice, which counts from 0 and gives the last index, is such a slice.
LEMMA SliceFrom ==
    ASSUME NEW L, Len(L) \in Nat, NEW s \in Nat, NEW c \in Nat
    PROVE  Slice(L, s, s + c - 1) = From(L, s, c)
<1> DEFINE a == IF s + c - 1 < Len(L) THEN s + c - 1 + 1 ELSE Len(L)
           b == IF s + c < Len(L) THEN s + c ELSE Len(L)
<1>1. a = b
    OBVIOUS
<1>2. Slice(L, s, s + c - 1) = SubSeq(L, s + 1, a) /\ From(L, s, c) = SubSeq(L, s + 1, b)
    BY DEF Slice, From
<1> QED BY <1>1, <1>2

LEMMA SliceNothing ==
    ASSUME NEW L, Len(L) \in Nat, NEW s \in Nat, NEW e \in Int, e < s
    PROVE  Slice(L, s, e) = <<>>
<1> DEFINE n == IF e < Len(L) THEN e + 1 ELSE Len(L)
<1>1. n \in Int /\ n < s + 1
    OBVIOUS
<1>2. Slice(L, s, e) = SubSeq(L, s + 1, n)
    BY DEF Slice
<1> QED BY <1>1, <1>2, SubSeqEmpty

LEMMA PageLengths ==
    ASSUME NEW n \in Nat, NEW k \in Nat, NEW s \in Nat, NEW c \in Nat,
           NEW first, first = (IF s > n THEN s - n ELSE 0), NEW rest, rest = s + c - n - first, rest > 0
    PROVE  /\ Taken(n, s, c) + Taken(k, first, rest) = Taken(n + k, s, c)
           /\ Taken(n, s, c) = IF n <= s THEN 0 ELSE n - s
<1>1. CASE s > n
  <2>1. first = s - n /\ rest = c
    BY <1>1
  <2> QED BY <1>1, <2>1 DEF Taken
<1>2. CASE ~(s > n)
  <2>1. first = 0 /\ rest = s + c - n /\ s + c > n
    BY <1>2
  <2>2. Taken(n, s, c) = n - s
    BY <1>2, <2>1 DEF Taken
  <2> QED BY <1>2, <2>1, <2>2 DEF Taken
<1> QED BY <1>1, <1>2

\* What a page takes of one more response, after it has taken what it wants
\* of the members before.
LEMMA PageConcat ==
    ASSUME NEW T, NEW L \in Seq(T), NEW m \in Seq(T), NEW s \in Nat, NEW c \in Nat
    PROVE  From(L, s, c) \o import_response_members(m, s, s + c - 1, Len(L)) = From(L \o m, s, c)
<1> DEFINE n == Len(L)
           first == IF s > n THEN s - n ELSE 0
           rest == s + c - n - first
           p == import_response_members(m, s, s + c - 1, n)
           A == From(L, s, c)
           C == From(L \o m, s, c)
<1>1. /\ n \in Nat /\ Len(m) \in Nat /\ L \o m \in Seq(T) /\ Len(L \o m) = n + Len(m)
      /\ \A i \in 1 .. n + Len(m) : (L \o m)[i] = IF i <= n THEN L[i] ELSE m[i - n]
    BY LenProperties, ConcatProperties
<1>2. first \in Nat /\ rest \in Int /\ s + c - 1 - n = first + rest - 1
    BY <1>1
<1>3. p = Slice(m, first, first + rest - 1)
    BY <1>2 DEF import_response_members
<1>4. A \in Seq(T) /\ Len(A) = Taken(n, s, c) /\ Shifted(A, L, s)
    BY FromProperties
<1>5. C \in Seq(T) /\ Len(C) = Taken(n + Len(m), s, c) /\ Shifted(C, L \o m, s)
    <2> DEFINE M == L \o m
    <2>1. M \in Seq(T) /\ Len(M) = n + Len(m)
      BY <1>1
    <2> HIDE DEF M, n
    <2>2. /\ From(M, s, c) \in Seq(T) /\ Len(From(M, s, c)) = Taken(Len(M), s, c)
          /\ Shifted(From(M, s, c), M, s)
      BY <2>1, FromProperties
    <2>3. C = From(M, s, c) /\ M = L \o m
      BY DEF M
    <2> HIDE DEF C
    <2> QED BY <2>1, <2>2, <2>3
<1> HIDE DEF A, C, p, first, rest
<1>6. CASE rest <= 0
  <2>1. first + rest - 1 \in Int /\ first + rest - 1 < first
    BY <1>2, <1>6
  <2>2. p = <<>>
    BY <1>1, <1>2, <1>3, <2>1, SliceNothing
  <2>3. s + c <= n \/ c = 0
    BY <1>1, <1>6 DEF rest, first
  <2>4. Len(A) = Len(C) /\ Len(A) = c
    <3>1. n \in Nat /\ Len(m) \in Nat
      BY <1>1
    <3>2. Taken(n, s, c) = c /\ Taken(n + Len(m), s, c) = c
      <4> HIDE DEF n
      <4> QED BY <2>3, <3>1 DEF Taken
    <3> QED BY <1>4, <1>5, <3>2
  <2>5. ASSUME NEW i \in 1 .. Len(A) PROVE A[i] = C[i]
    <3>1. A[i] = L[s + i] /\ C[i] = (L \o m)[s + i] /\ s + i \in 1 .. n
      BY <1>1, <1>4, <1>5, <2>3, <2>4 DEF Shifted
    <3> QED BY <1>1, <3>1
  <2>6. A = C
    BY <1>4, <1>5, <2>4, <2>5, SeqEqual
  <2>7. A \o <<>> = A
    BY <1>4, ConcatEmptySeq
  <2> QED BY <2>2, <2>6, <2>7 DEF A, C, p
<1>7. CASE rest > 0
  <2> DEFINE B == From(m, first, rest)
  <2>0. rest \in Nat
    BY <1>2, <1>7
  <2>1. p = B
    BY <1>1, <1>2, <1>3, <2>0, SliceFrom
  <2>2. B \in Seq(T) /\ Len(B) = Taken(Len(m), first, rest) /\ Shifted(B, m, first)
    <3>1. first \in Nat
      BY <1>2
    <3> QED BY <2>0, <3>1, FromProperties
  <2> HIDE DEF B
  <2> DEFINE AB == A \o B
  <2>3. /\ AB \in Seq(T) /\ Len(AB) = Len(A) + Len(B)
        /\ \A i \in 1 .. Len(A) + Len(B) : AB[i] = IF i <= Len(A) THEN A[i] ELSE B[i - Len(A)]
    BY <1>4, <2>2, ConcatProperties
  <2> HIDE DEF AB
  <2>4. n \in Nat /\ Len(m) \in Nat
    BY <1>1
  <2>5. Len(A) + Len(B) = Len(C) /\ Len(A) = IF n <= s THEN 0 ELSE n - s
    <3>1. /\ Taken(n, s, c) + Taken(Len(m), first, rest) = Taken(n + Len(m), s, c)
          /\ Taken(n, s, c) = IF n <= s THEN 0 ELSE n - s
      <4>1. first = (IF s > n THEN s - n ELSE 0) /\ rest = s + c - n - first
        BY DEF first, rest
      <4> HIDE DEF n
      <4> QED BY <1>7, <2>4, <4>1, PageLengths
    <3> QED BY <1>4, <1>5, <2>2, <3>1
  <2>6. ASSUME NEW i \in 1 .. Len(AB) PROVE AB[i] = C[i]
    <3>1. Len(A) \in Nat /\ Len(B) \in Nat /\ Len(C) \in Nat
      BY <1>4, <1>5, <2>2, LenProperties
    <3>2. i \in Nat /\ i >= 1 /\ i <= Len(A) + Len(B) /\ i \in 1 .. Len(C) /\ i \in 1 .. Len(A) + Len(B)
      BY <2>3, <2>5, <3>1
    <3>3. C[i] = (L \o m)[s + i] /\ s + i \in 1 .. n + Len(m)
      <4>1. C[i] = (L \o m)[s + i]
        BY <1>5, <3>2 DEF Shifted
      <4>2. Len(C) = 0 \/ s + Len(C) <= n + Len(m)
        BY <1>5, <2>4 DEF Taken
      <4> QED BY <2>4, <3>1, <3>2, <4>1, <4>2
    <3>4. CASE i <= Len(A)
      <4>1. AB[i] = A[i] /\ A[i] = L[s + i] /\ s + i <= n
        <5>1. AB[i] = A[i] /\ A[i] = L[s + i]
          BY <1>4, <2>3, <3>1, <3>2, <3>4 DEF Shifted
        <5>2. s + i <= n
          BY <2>4, <2>5, <3>2, <3>4
        <5> QED BY <5>1, <5>2
      <4> QED BY <1>1, <3>3, <4>1
    <3>5. CASE ~(i <= Len(A))
      <4>1. AB[i] = B[i - Len(A)] /\ i - Len(A) \in 1 .. Len(B)
        BY <2>3, <3>1, <3>2, <3>5
      <4>2. B[i - Len(A)] = m[first + (i - Len(A))]
        BY <2>2, <4>1 DEF Shifted
      <4>3. first + (i - Len(A)) = s + i - n /\ ~(s + i <= n)
        <5>1. n \in Nat /\ i \in Nat /\ i >= 1
          BY <2>4, <3>2
        <5>2. Len(A) = (IF n <= s THEN 0 ELSE n - s) /\ first = (IF s > n THEN s - n ELSE 0)
          BY <2>5 DEF first
        <5> DEFINE a == Len(A)
        <5> HIDE DEF n, a
        <5>3. a = (IF n <= s THEN 0 ELSE n - s) /\ ~(i <= a)
          BY <3>5, <5>2 DEF a
        <5>4. first + (i - a) = s + i - n /\ ~(s + i <= n)
          BY <5>1, <5>2, <5>3
        <5> QED BY <5>4 DEF a
      <4> QED BY <1>1, <3>3, <4>1, <4>2, <4>3
    <3> QED BY <3>4, <3>5
  <2>7. AB = C
    BY <1>5, <2>3, <2>5, <2>6, SeqEqual
  <2> QED BY <2>1, <2>7 DEF AB, A, C, p
<1> QED BY <1>2, <1>6, <1>7
-----------------------------------------------------------------------------
(* The members of the first responses *)

\* The first k of some sequences.
Prefix(G, k) == [i \in 1 .. k |-> G[i]]

LEMMA PrefixEmpty ==
    ASSUME NEW G
    PROVE  FlattenSeq(Prefix(G, 0)) = <<>>
<1>1. Prefix(G, 0) = <<>>
    BY DEF Prefix
<1> QED BY <1>1, FlattenEmpty

LEMMA PrefixWhole ==
    ASSUME NEW G, NEW n \in Nat, NEW T, G \in [1 .. n -> Seq(T)]
    PROVE  Prefix(G, n) = G
BY DEF Prefix

LEMMA PrefixType ==
    ASSUME NEW T, NEW n \in Nat, NEW G \in [1 .. n -> Seq(T)], NEW k \in 0 .. n
    PROVE  /\ Prefix(G, k) \in Seq(Seq(T)) /\ Len(Prefix(G, k)) = k
           /\ FlattenSeq(Prefix(G, k)) \in Seq(T)
<1>1. k \in Nat /\ \A i \in 1 .. k : G[i] \in Seq(T)
    OBVIOUS
<1>2. Prefix(G, k) \in [1 .. k -> Seq(T)]
    BY <1>1 DEF Prefix
<1>3. Prefix(G, k) \in Seq(Seq(T)) /\ Len(Prefix(G, k)) = k
    BY <1>1, <1>2
<1> QED BY <1>3, FlattenType

LEMMA PrefixNext ==
    ASSUME NEW T, NEW n \in Nat, NEW G \in [1 .. n -> Seq(T)], NEW k \in 0 .. n, k # n
    PROVE  FlattenSeq(Prefix(G, k + 1)) = FlattenSeq(Prefix(G, k)) \o G[k + 1]
<1> DEFINE P == Prefix(G, k)
           s == G[k + 1]
<1>1. P \in Seq(Seq(T)) /\ Len(P) = k /\ s \in Seq(T) /\ k \in Nat
  <2>1. P \in Seq(Seq(T)) /\ Len(P) = k /\ FlattenSeq(P) \in Seq(T)
    BY PrefixType, Zenon
  <2>2. s \in Seq(T) /\ k \in Nat
    OBVIOUS
  <2> QED BY <2>1, <2>2
<1>2. Prefix(G, k + 1) = Append(P, s)
  <2> DEFINE Q == Prefix(G, k + 1)
             A == Append(P, s)
  <2>1. Q \in Seq(Seq(T)) /\ Len(Q) = k + 1 /\ \A i \in 1 .. k + 1 : Q[i] = G[i]
    <3>1. k + 1 \in 0 .. n
      OBVIOUS
    <3>2. Q \in Seq(Seq(T)) /\ Len(Q) = k + 1 /\ FlattenSeq(Q) \in Seq(T)
      BY <3>1, PrefixType, Zenon
    <3> QED BY <3>2 DEF Prefix
  <2>2. \A i \in 1 .. k : P[i] = G[i]
    BY DEF Prefix
  <2> HIDE DEF P, s, Q
  <2>3. /\ A \in Seq(Seq(T)) /\ Len(A) = k + 1
        /\ A[k + 1] = s /\ \A i \in 1 .. k : A[i] = P[i]
    <3>1. /\ A \in Seq(Seq(T)) /\ A # <<>> /\ Len(A) = Len(P) + 1
          /\ \A i \in 1 .. Len(P) : A[i] = P[i]
          /\ A[Len(P) + 1] = s
      BY <1>1, AppendProperties
    <3> QED BY <1>1, <3>1
  <2> HIDE DEF A
  <2>4. ASSUME NEW i \in 1 .. k + 1 PROVE Q[i] = A[i]
    <3>1. CASE i = k + 1
      BY <2>1, <2>3, <3>1 DEF s
    <3>2. CASE i # k + 1
      BY <1>1, <2>1, <2>2, <2>3, <3>2
    <3> QED BY <3>1, <3>2
  <2>5. Q = A
    BY <2>1, <2>3, <2>4, SeqEqual
  <2> QED BY <2>5 DEF Q, A
<1> HIDE DEF P, s
<1>3. FlattenSeq(Append(P, s)) = FlattenSeq(P) \o s
    BY <1>1, FlattenAppend
<1> QED BY <1>2, <1>3 DEF P, s

LEMMA FlattenOne ==
    ASSUME NEW T, NEW s \in Seq(T)
    PROVE  FlattenSeq(<<s>>) = s
<1>1. <<>> \in Seq(Seq(T)) /\ <<s>> = Append(<<>>, s)
    OBVIOUS
<1>2. FlattenSeq(Append(<<>>, s)) = FlattenSeq(<<>>) \o s
    BY <1>1, FlattenAppend
<1> QED BY <1>1, <1>2, FlattenEmpty, ConcatEmptySeq

LEMMA SliceType ==
    ASSUME NEW T, NEW m \in Seq(T), NEW s \in Nat, NEW e \in Int
    PROVE  Slice(m, s, e) \in Seq(T)
<1> DEFINE n == IF e < Len(m) THEN e + 1 ELSE Len(m)
<1>1. Len(m) \in Nat /\ \A i \in 1 .. Len(m) : m[i] \in T
    BY LenProperties, ElementOfSeq
<1>2. n \in Int /\ n <= Len(m)
    BY <1>1
<1>3. \A i \in s + 1 .. n : m[i] \in T
    BY <1>1, <1>2
<1>4. SubSeq(m, s + 1, n) \in Seq(T)
  <2> HIDE DEF n
  <2> QED BY <1>2, <1>3, SubSeqProperties
<1> QED BY <1>4 DEF Slice

LEMMA ImportType ==
    ASSUME NEW T, NEW m \in Seq(T), NEW s \in Nat, NEW e \in Int, NEW k \in Nat
    PROVE  import_response_members(m, s, e, k) \in Seq(T)
<1> DEFINE first == IF s > k THEN s - k ELSE 0
<1>1. first \in Nat /\ e - k \in Int
    OBVIOUS
<1> HIDE DEF first
<1>2. Slice(m, first, e - k) \in Seq(T)
    BY <1>1, SliceType
<1> QED BY <1>2 DEF import_response_members, first
-----------------------------------------------------------------------------
(* GetFeature with several queries *)

\* The function by which execute_multiple_queries is defined: f[i] is the
\* state after i responses.
NoMembers == [out |-> <<>>, member_ind |-> 0, num_matched |-> 0]
PageTurns(f, n, p, rs) ==
    f = [i \in 0 .. n |-> IF i = 0 THEN NoMembers ELSE add_response(p, f[i - 1], rs[i])]

LEMMA PageTurnSteps ==
    ASSUME NEW f, NEW n, NEW p, NEW rs, PageTurns(f, n, p, rs)
    PROVE  \A i \in 0 .. n : f[i] = IF i = 0 THEN NoMembers ELSE add_response(p, f[i - 1], rs[i])
BY DEF PageTurns

LEMMA PageTurnsExist ==
    ASSUME NEW p, NEW rs
    PROVE  \A n \in Nat : \E f : PageTurns(f, n, p, rs)
<1> DEFINE N == {n \in Nat : \E f : PageTurns(f, n, p, rs)}
<1>1. 0 \in N
  <2> DEFINE f == [i \in 0 .. 0 |-> NoMembers]
  <2>1. PageTurns(f, 0, p, rs)
    BY DEF PageTurns
  <2> HIDE DEF f
  <2> QED BY <2>1
<1>2. ASSUME NEW n \in Nat, n \in N PROVE n + 1 \in N
  <2>1. PICK f : PageTurns(f, n, p, rs)
    BY <1>2
  <2> DEFINE h == [i \in 0 .. n + 1 |-> IF i <= n THEN f[i] ELSE add_response(p, f[n], rs[n + 1])]
  <2>2. \A i \in 0 .. n : f[i] = IF i = 0 THEN NoMembers ELSE add_response(p, f[i - 1], rs[i])
    BY <2>1, PageTurnSteps
  <2>3. ASSUME NEW i \in 0 .. n + 1
        PROVE  h[i] = IF i = 0 THEN NoMembers ELSE add_response(p, h[i - 1], rs[i])
    <3>1. CASE i <= n
      <4>1. i \in 0 .. n /\ h[i] = f[i] /\ (i # 0 => h[i - 1] = f[i - 1])
        BY <3>1
      <4> QED BY <4>1, <2>2
    <3>2. CASE ~(i <= n)
      <4>1. i = n + 1 /\ i # 0 /\ h[i - 1] = f[n]
        BY <3>2
      <4>2. h[i] = add_response(p, f[n], rs[n + 1])
        BY <3>2
      <4> QED BY <4>1, <4>2
    <3> QED BY <3>1, <3>2
  <2>4. PageTurns(h, n + 1, p, rs)
    <3> HIDE DEF h
    <3>1. DOMAIN h = 0 .. n + 1 /\ h = [i \in 0 .. n + 1 |-> h[i]]
      BY DEF h
    <3> QED BY <2>3, <3>1 DEF PageTurns
  <2> HIDE DEF h
  <2> QED BY <2>4
<1> HIDE DEF N
<1>3. Nat \subseteq N
    BY <1>1, <1>2, NatSetInduction
<1> QED BY <1>3 DEF N

\* What a request must fit in: unsigned numbers, and an end index that is none
\* before the first member.
Wants(p, s, c) ==
    /\ s \in Nat /\ c \in Nat /\ s + c > 0 /\ s < 2 ^ IntBits /\ c < 2 ^ IntBits
    /\ p.start_index = s /\ p.count = c /\ p.hits = FALSE

PageOf(st, r, s, c) == import_response_members(r.members, s, s + c - 1, st.member_ind)
Reported(st) == [st EXCEPT !.out = Append(@, <<"report">>)]
Imported(st, r, page) ==
    [out |-> Append(st.out, page), member_ind |-> st.member_ind + Len(r.members),
     num_matched |-> st.num_matched + Len(r.members)]

LEMMA AddedResponse ==
    ASSUME NEW p, NEW s, NEW c, Wants(p, s, c), NEW st, NEW r
    PROVE  /\ r.failed => add_response(p, st, r) = Reported(st)
           /\ ~r.failed => add_response(p, st, r) = Imported(st, r, PageOf(st, r, s, c))
<1>1. ToSize(s) = s
  <2>1. s \in Nat /\ s < 2 * 2 ^ IntBits
    BY RangesAssumption DEF Wants
  <2> QED BY <2>1, ToSizeSame
<1>2. ToSize(s + c - 1) = s + c - 1
  <2>1. s + c - 1 \in Nat /\ s + c - 1 < 2 * 2 ^ IntBits
    BY RangesAssumption DEF Wants
  <2> QED BY <2>1, ToSizeSame
<1>3. ToSize(p.start_index) = s /\ ToSize(p.start_index + p.count - 1) = s + c - 1 /\ ~p.hits
    BY <1>1, <1>2 DEF Wants
<1> QED BY <1>3 DEF add_response, Reported, Imported, PageOf

\* Responses of members from T.
Answers(rs, n, T) ==
    /\ n \in Nat /\ Len(rs) = n /\ DOMAIN rs = 1 .. n
    /\ \A i \in 1 .. n : rs[i].failed \in BOOLEAN /\ rs[i].members \in Seq(T)

MembersOf(rs, n) == [i \in 1 .. n |-> IF rs[i].failed THEN <<>> ELSE rs[i].members]

\* The pages of the responses, by the number of members before each.
PagesOf(rs, n, f, s, c) ==
    [i \in 1 .. n |-> IF rs[i].failed THEN <<>> ELSE PageOf(f[i - 1], rs[i], s, c)]

LEMMA MembersType ==
    ASSUME NEW T, NEW n, NEW rs, Answers(rs, n, T)
    PROVE  MembersOf(rs, n) \in [1 .. n -> Seq(T)]
BY DEF Answers, MembersOf

\* After k responses the members before the next one are counted.
LEMMA CountedSoFar ==
    ASSUME NEW T, NEW n, NEW rs, Answers(rs, n, T), NEW p, NEW s, NEW c, Wants(p, s, c),
           NEW f, PageTurns(f, n, p, rs)
    PROVE  \A k \in 0 .. n : f[k].member_ind = Len(FlattenSeq(Prefix(MembersOf(rs, n), k)))
<1> DEFINE G == MembersOf(rs, n)
           N == {k \in Nat : k <= n => f[k].member_ind = Len(FlattenSeq(Prefix(G, k)))}
<1>1. n \in Nat /\ G \in [1 .. n -> Seq(T)]
    BY MembersType DEF Answers
<1>2. \A i \in 0 .. n : f[i] = IF i = 0 THEN NoMembers ELSE add_response(p, f[i - 1], rs[i])
    BY PageTurnSteps
<1>3. 0 \in N
  <2>1. f[0].member_ind = 0
    BY <1>1, <1>2 DEF NoMembers
  <2>2. FlattenSeq(Prefix(G, 0)) = <<>>
    BY PrefixEmpty
  <2> QED BY <2>1, <2>2
<1>4. ASSUME NEW k \in Nat, k \in N PROVE k + 1 \in N
  <2> SUFFICES ASSUME k + 1 <= n PROVE f[k + 1].member_ind = Len(FlattenSeq(Prefix(G, k + 1)))
    OBVIOUS
  <2> DEFINE st == f[k]
             r == rs[k + 1]
             L == FlattenSeq(Prefix(G, k))
  <2>1. k \in 0 .. n /\ k # n /\ k + 1 \in 1 .. n
    BY <1>1
  <2>2. f[k + 1] = add_response(p, st, r) /\ st.member_ind = Len(L)
    BY <1>1, <1>2, <1>4
  <2>3. FlattenSeq(Prefix(G, k + 1)) = L \o G[k + 1] /\ L \in Seq(T)
    BY <1>1, <2>1, PrefixNext, PrefixType
  <2>4. G[k + 1] = (IF r.failed THEN <<>> ELSE r.members) /\ r.members \in Seq(T)
    BY <2>1 DEF MembersOf, Answers
  <2> HIDE DEF st, r, L, G
  <2>5. CASE r.failed
    <3>1. f[k + 1] = Reported(st)
      BY <2>2, <2>5, AddedResponse
    <3>2. f[k + 1].member_ind = st.member_ind
      BY <3>1 DEF Reported
    <3> QED BY <2>2, <2>3, <2>4, <2>5, <3>2, ConcatEmptySeq
  <2>6. CASE ~r.failed
    <3>1. f[k + 1] = Imported(st, r, PageOf(st, r, s, c))
      BY <2>2, <2>6, AddedResponse
    <3>2. f[k + 1].member_ind = st.member_ind + Len(r.members)
      BY <3>1 DEF Imported
    <3> QED BY <2>2, <2>3, <2>4, <2>6, <3>2, ConcatProperties
  <2> QED BY <2>5, <2>6
<1> HIDE DEF N
<1>5. Nat \subseteq N
    BY <1>3, <1>4, NatSetInduction
<1> QED BY <1>1, <1>5 DEF N

\* The pages so far are the slice of the members so far.
LEMMA SlicedSoFar ==
    ASSUME NEW T, NEW n, NEW rs, Answers(rs, n, T), NEW p, NEW s, NEW c, Wants(p, s, c),
           NEW f, PageTurns(f, n, p, rs)
    PROVE  /\ PagesOf(rs, n, f, s, c) \in [1 .. n -> Seq(T)]
           /\ \A k \in 0 .. n : FlattenSeq(Prefix(PagesOf(rs, n, f, s, c), k)) =
                                    From(FlattenSeq(Prefix(MembersOf(rs, n), k)), s, c)
<1> DEFINE G == MembersOf(rs, n)
           H == PagesOf(rs, n, f, s, c)
           N == {k \in Nat : k <= n => FlattenSeq(Prefix(H, k)) = From(FlattenSeq(Prefix(G, k)), s, c)}
<1>1. n \in Nat /\ G \in [1 .. n -> Seq(T)]
    BY MembersType DEF Answers
<1>2. s \in Nat /\ c \in Nat
    BY DEF Wants
<1>3. \A k \in 0 .. n : f[k].member_ind = Len(FlattenSeq(Prefix(G, k)))
    BY CountedSoFar
<1> HIDE DEF G
<1>4. ASSUME NEW k \in 0 .. n
      PROVE  FlattenSeq(Prefix(G, k)) \in Seq(T) /\ f[k].member_ind \in Nat
  <2>1. Prefix(G, k) \in Seq(Seq(T)) /\ Len(Prefix(G, k)) = k /\ FlattenSeq(Prefix(G, k)) \in Seq(T)
    BY <1>1, PrefixType
  <2> QED BY <1>3, <2>1, LenProperties
<1>5. ASSUME NEW i \in 1 .. n PROVE H[i] \in Seq(T)
  <2>1. i - 1 \in 0 .. n /\ rs[i].members \in Seq(T) /\ s + c - 1 \in Int
    BY <1>1, <1>2 DEF Answers
  <2>2. f[i - 1].member_ind \in Nat
    BY <1>4, <2>1
  <2>3. PageOf(f[i - 1], rs[i], s, c) \in Seq(T)
    BY <1>2, <2>1, <2>2, ImportType DEF PageOf
  <2> QED BY <2>3 DEF PagesOf
<1>6. H \in [1 .. n -> Seq(T)]
    BY <1>5 DEF PagesOf
<1>7. 0 \in N
  <2>1. FlattenSeq(Prefix(H, 0)) = <<>> /\ FlattenSeq(Prefix(G, 0)) = <<>>
    BY PrefixEmpty
  <2>2. From(<<>>, s, c) = <<>>
    <3>1. Len(<<>>) = 0 /\ s + 1 \in Int /\ 0 \in Int /\ 0 < s + 1 /\ ~(s + c < 0)
      BY <1>2
    <3>2. SubSeq(<<>>, s + 1, 0) = <<>>
      BY <3>1, SubSeqEmpty
    <3> QED BY <3>1, <3>2 DEF From
  <2> QED BY <2>1, <2>2
<1>8. ASSUME NEW k \in Nat, k \in N PROVE k + 1 \in N
  <2> SUFFICES ASSUME k + 1 <= n
               PROVE  FlattenSeq(Prefix(H, k + 1)) = From(FlattenSeq(Prefix(G, k + 1)), s, c)
    OBVIOUS
  <2> DEFINE r == rs[k + 1]
             L == FlattenSeq(Prefix(G, k))
             P == PageOf(f[k], r, s, c)
  <2>1. k \in 0 .. n /\ k # n /\ k + 1 \in 1 .. n /\ (k + 1) - 1 = k
    BY <1>1
  <2>2. /\ FlattenSeq(Prefix(G, k + 1)) = L \o G[k + 1]
        /\ L \in Seq(T) /\ f[k].member_ind = Len(L)
    BY <1>1, <1>3, <1>4, <2>1, PrefixNext
  <2>3. FlattenSeq(Prefix(H, k + 1)) = FlattenSeq(Prefix(H, k)) \o H[k + 1]
    <3> HIDE DEF H
    <3> QED BY <1>1, <1>6, <2>1, PrefixNext
  <2>4. FlattenSeq(Prefix(H, k)) = From(L, s, c)
    BY <1>8, <2>1
  <2>5. /\ G[k + 1] = IF r.failed THEN <<>> ELSE r.members
        /\ H[k + 1] = IF r.failed THEN <<>> ELSE P
        /\ r.members \in Seq(T)
    BY <2>1 DEF G, MembersOf, PagesOf, Answers
  <2> HIDE DEF r, L, P, H
  <2>6. CASE r.failed
    <3>1. L \o <<>> = L /\ From(L, s, c) \in Seq(T)
      BY <1>2, <2>2, ConcatEmptySeq, FromProperties
    <3>2. From(L, s, c) \o <<>> = From(L, s, c)
      BY <3>1, ConcatEmptySeq
    <3> QED BY <2>2, <2>3, <2>4, <2>5, <2>6, <3>1, <3>2
  <2>7. CASE ~r.failed
    <3>1. P = import_response_members(r.members, s, s + c - 1, Len(L))
      BY <2>2 DEF P, PageOf
    <3>2. From(L, s, c) \o P = From(L \o r.members, s, c)
      <4> DEFINE m == r.members
      <4>1. m \in Seq(T) /\ L \in Seq(T)
        BY <2>2, <2>5
      <4> HIDE DEF m
      <4>2. From(L, s, c) \o import_response_members(m, s, s + c - 1, Len(L)) = From(L \o m, s, c)
        BY <1>2, <4>1, PageConcat
      <4> QED BY <3>1, <4>2 DEF m
    <3> QED BY <2>2, <2>3, <2>4, <2>5, <2>7, <3>2
  <2> QED BY <2>6, <2>7
<1> HIDE DEF N, H
<1>9. Nat \subseteq N
    BY <1>7, <1>8, NatSetInduction
<1> QED BY <1>1, <1>6, <1>9 DEF N, H, G

\* The output has one element per response, the page of one that did not fail.
LEMMA OutputSoFar ==
    ASSUME NEW T, NEW n, NEW rs, Answers(rs, n, T), NEW p, NEW s, NEW c, Wants(p, s, c),
           NEW f, PageTurns(f, n, p, rs)
    PROVE  \A k \in 0 .. n : \A i \in 1 .. k :
               ~rs[i].failed => f[k].out[i] = PagesOf(rs, n, f, s, c)[i]
<1> DEFINE H == PagesOf(rs, n, f, s, c)
           O == Seq(T) \cup {<<"report">>}
           Fine(k) == /\ "out" \in DOMAIN f[k] /\ f[k].out \in Seq(O) /\ Len(f[k].out) = k
                      /\ \A i \in 1 .. k : ~rs[i].failed => f[k].out[i] = H[i]
           N == {k \in Nat : k <= n => Fine(k)}
<1>1. n \in Nat /\ H \in [1 .. n -> Seq(T)]
    BY SlicedSoFar DEF Answers
<1>2. \A i \in 0 .. n : f[i] = IF i = 0 THEN NoMembers ELSE add_response(p, f[i - 1], rs[i])
    BY PageTurnSteps
<1>3. 0 \in N
  <2>1. f[0].out = <<>> /\ "out" \in DOMAIN f[0]
    BY <1>1, <1>2 DEF NoMembers
  <2> HIDE DEF H, O
  <2>2. <<>> \in Seq(O) /\ Len(<<>>) = 0 /\ 1 .. 0 = {}
    BY EmptySeq
  <2> QED BY <2>1, <2>2
<1>4. ASSUME NEW k \in Nat, k \in N PROVE k + 1 \in N
  <2> SUFFICES ASSUME k + 1 <= n PROVE Fine(k + 1)
    OBVIOUS
  <2> DEFINE o == f[k].out
             r == rs[k + 1]
             e == IF r.failed THEN <<"report">> ELSE H[k + 1]
             a == Append(o, e)
  <2>1. k \in 0 .. n /\ k + 1 \in 1 .. n /\ k + 1 \in 0 .. n /\ (k + 1) - 1 = k /\ k + 1 # 0
    BY <1>1
  <2>2. /\ o \in Seq(O) /\ Len(o) = k /\ \A i \in 1 .. k : ~rs[i].failed => o[i] = H[i]
        /\ "out" \in DOMAIN f[k]
    BY <1>1, <1>4
  <2>3. f[k + 1] = add_response(p, f[k], r)
    BY <1>2, <2>1
  <2>4. H[k + 1] = IF r.failed THEN <<>> ELSE PageOf(f[k], r, s, c)
    BY <2>1 DEF PagesOf
  <2>5. e \in O
    BY <1>1, <2>1
  <2>6. f[k + 1].out = a /\ "out" \in DOMAIN f[k + 1]
    <3> HIDE DEF H
    <3>1. CASE r.failed
      <4>1. f[k + 1] = Reported(f[k])
        <5> HIDE DEF r
        <5> QED BY <2>3, <3>1, AddedResponse
      <4>2. f[k + 1] = [f[k] EXCEPT !.out = Append(@, <<"report">>)]
        BY <4>1 DEF Reported
      <4> QED BY <2>2, <3>1, <4>2
    <3>2. CASE ~r.failed
      <4>1. f[k + 1] = Imported(f[k], r, PageOf(f[k], r, s, c))
        <5> HIDE DEF r
        <5> QED BY <2>3, <3>2, AddedResponse
      <4>2. f[k + 1].out = Append(f[k].out, PageOf(f[k], r, s, c)) /\ "out" \in DOMAIN f[k + 1]
        BY <4>1 DEF Imported
      <4> QED BY <2>4, <3>2, <4>2
    <3> QED BY <3>1, <3>2
  <2> HIDE DEF o, e, H, O
  <2>7. /\ a \in Seq(O) /\ a # <<>> /\ Len(a) = Len(o) + 1
        /\ \A i \in 1 .. Len(o) : a[i] = o[i]
        /\ a[Len(o) + 1] = e
    BY <2>2, <2>5, AppendProperties
  <2> HIDE DEF a
  <2>8. ASSUME NEW i \in 1 .. k + 1, ~rs[i].failed PROVE a[i] = H[i]
    <3>1. CASE i = k + 1
      BY <2>2, <2>7, <2>8, <3>1 DEF e
    <3>2. CASE i # k + 1
      <4>1. i \in 1 .. k
        BY <3>2
      <4> QED BY <2>2, <2>7, <2>8, <4>1
    <3> QED BY <3>1, <3>2
  <2> QED BY <2>2, <2>6, <2>7, <2>8
<1> HIDE DEF N
<1>5. Nat \subseteq N
    BY <1>3, <1>4, NatSetInduction
<1> QED BY <1>1, <1>5 DEF N

\* What execute_multiple_queries returns.
LEMMA SeveralQueries ==
    ASSUME NEW T, NEW n, NEW rs, Answers(rs, n, T), NEW p, NEW s, NEW c, Wants(p, s, c),
           NEW out, out = execute_multiple_queries(p, rs), out.ok
    PROVE  /\ FlattenSeq([i \in 1 .. n |-> IF rs[i].failed THEN <<>> ELSE out.val.members[i]]) =
                  From(FlattenSeq(MembersOf(rs, n)), s, c)
           /\ out.val.matched = Len(FlattenSeq(MembersOf(rs, n)))
           /\ "past" \notin DOMAIN out.val
<1> DEFINE f == CHOOSE g : PageTurns(g, n, p, rs)
           status == IF rs # <<>> /\ \A i \in DOMAIN rs : rs[i].failed THEN 400 ELSE 200
           v == [members |-> f[n].out, matched |-> f[n].member_ind, returned |-> f[n].num_matched,
                 status |-> status]
           G == MembersOf(rs, n)
           H == PagesOf(rs, n, f, s, c)
<1>1. n \in Nat /\ Len(rs) = n
    BY DEF Answers
<1>2. PageTurns(f, n, p, rs)
    BY <1>1, PageTurnsExist
<1>3. execute_multiple_queries(p, rs) = assert_use_default_format(p, Ok(v))
    BY <1>1 DEF execute_multiple_queries, PageTurns, NoMembers
<1> HIDE DEF f, status
<1>4. out = Ok(v)
  <2> DEFINE check == <<p.output_format # "default", "OperationProcessingFailed">>
             okv == Ok(v)
  <2>1. out = Checked(<<check>>, okv)
    BY <1>3 DEF assert_use_default_format
  <2> HIDE DEF check, okv
  <2>2. Checked(<<check>>, okv) = okv
    BY <2>1, OneCheck
  <2> QED BY <2>1, <2>2 DEF okv
<1>5. out.val = v
    BY <1>4 DEF Ok
<1>6. /\ out.val.members = f[n].out /\ out.val.matched = f[n].member_ind
      /\ DOMAIN out.val = {"members", "matched", "returned", "status"}
    BY <1>5
<1>7. G \in [1 .. n -> Seq(T)] /\ H \in [1 .. n -> Seq(T)]
    BY <1>2, MembersType, SlicedSoFar
<1>8. Prefix(G, n) = G /\ Prefix(H, n) = H
  <2> HIDE DEF G, H
  <2> QED BY <1>1, <1>7, PrefixWhole
<1>9. n \in 0 .. n
    BY <1>1
<1>10. FlattenSeq(Prefix(H, n)) = From(FlattenSeq(Prefix(G, n)), s, c)
    BY <1>2, <1>9, SlicedSoFar
<1>11. f[n].member_ind = Len(FlattenSeq(Prefix(G, n)))
    BY <1>2, <1>9, CountedSoFar
<1>12. \A i \in 1 .. n : ~rs[i].failed => f[n].out[i] = H[i]
    BY <1>2, <1>9, OutputSoFar
<1>13. [i \in 1 .. n |-> IF rs[i].failed THEN <<>> ELSE out.val.members[i]] = H
    BY <1>6, <1>12 DEF PagesOf
<1>14. "past" \notin DOMAIN out.val
    BY <1>6
<1> HIDE DEF G, H
<1> QED BY <1>6, <1>8, <1>10, <1>11, <1>13, <1>14 DEF G
-----------------------------------------------------------------------------
(* GetFeature with one query *)

\* The numbers fit in an int.
Fits(p, s, c) ==
    /\ s \in Nat /\ c \in Nat /\ s + c <= Half /\ c < Half
    /\ p.start_index = s /\ p.count = c /\ p.hits = FALSE

\* The page one query cuts out; where nothing is asked for the last index is
\* before the first one, or the first one is Half and has become negative.
LEMMA OnePage ==
    ASSUME NEW T, NEW m \in Seq(T), NEW p, NEW s, NEW c, Fits(p, s, c),
           NEW start, start = ToInt(p.start_index),
           NEW end, end = ToInt(start + ToInt(p.count) - 1)
    PROVE  (IF start > end \/ start < 0 THEN <<>> ELSE Slice(m, start, end)) = From(m, s, c)
<1>1. /\ s \in Nat /\ c \in Nat /\ Half \in Nat \ {0} /\ s + c <= Half /\ c < Half
      /\ p.start_index = s /\ p.count = c /\ Len(m) \in Nat
    BY RangesAssumption, LenProperties DEF Fits, Half
<1>2. ToInt(c) = c
    BY <1>1, ToIntSame
<1>3. ASSUME c = 0 PROVE From(m, s, c) = <<>>
  <2> DEFINE n == IF s + c < Len(m) THEN s + c ELSE Len(m)
  <2>1. n \in Int /\ s + 1 \in Int /\ n < s + 1
    BY <1>1, <1>3
  <2>2. From(m, s, c) = SubSeq(m, s + 1, n)
    BY DEF From
  <2> HIDE DEF n
  <2> QED BY <2>1, <2>2, SubSeqEmpty
<1>4. CASE s = Half
  <2>1. c = 0 /\ start = -Half
    BY <1>1, <1>4, ToIntEnds
  <2>2. start < 0
    BY <1>1, <2>1
  <2> QED BY <1>3, <2>1, <2>2
<1>5. CASE s # Half /\ s + c = 0
  <2>1. c = 0 /\ start = 0 /\ end = ToInt(-1)
    BY <1>1, <1>2, <1>5
  <2>2. start > end
    BY <2>1, ToIntEnds
  <2> QED BY <1>3, <2>1, <2>2
<1>6. CASE s # Half /\ s + c # 0
  <2>1. s < Half /\ s + c - 1 \in Nat /\ s + c - 1 < Half
    BY <1>1, <1>6
  <2>2. start = s /\ end = s + c - 1
    BY <1>1, <1>2, <2>1, ToIntSame
  <2>3. CASE c = 0
    <3>1. start > end
      BY <1>1, <2>2, <2>3
    <3> QED BY <1>3, <2>3, <3>1
  <2>4. CASE c # 0
    <3>1. ~(start > end \/ start < 0)
      BY <1>1, <2>2, <2>4
    <3>2. Slice(m, s, s + c - 1) = From(m, s, c)
      BY <1>1, SliceFrom
    <3> QED BY <2>2, <3>1, <3>2
  <2> QED BY <2>3, <2>4
<1> QED BY <1>4, <1>5, <1>6

LEMMA OneQuery ==
    ASSUME NEW T, NEW r, r.members \in Seq(T), NEW p, NEW s, NEW c, Fits(p, s, c), p.have_counts, NEW adhoc,
           NEW out, out = execute_single_query(p, r, adhoc), out.ok
    PROVE  /\ out.val.members = From(r.members, s, c)
           /\ out.val.matched = r.matched /\ out.val.returned = Len(out.val.members)
           /\ "past" \notin DOMAIN out.val
<1> DEFINE start == ToInt(p.start_index)
           end == ToInt(start + ToInt(p.count) - 1)
           page == IF start > end \/ start < 0 THEN <<>> ELSE Slice(r.members, start, end)
           whole == [members |-> r.members, matched |-> r.matched, returned |-> r.matched]
           v == [whole EXCEPT !.members = page, !.returned = Len(page)]
<1>3. ~p.hits
    BY DEF Fits
<1>5. page = From(r.members, s, c)
    BY OnePage
<1>6. execute_single_query(p, r, adhoc) = assert_use_default_format(p, Ok(v))
    BY <1>3 DEF execute_single_query
<1> HIDE DEF page
<1>7. out = Ok(v)
  <2> DEFINE check == <<p.output_format # "default", "OperationProcessingFailed">>
             okv == Ok(v)
  <2>1. out = Checked(<<check>>, okv)
    BY <1>6 DEF assert_use_default_format
  <2> HIDE DEF check, okv
  <2>2. Checked(<<check>>, okv) = okv
    BY <2>1, OneCheck
  <2> QED BY <2>1, <2>2 DEF okv
<1>8. out.val = v
    BY <1>7 DEF Ok
<1> QED BY <1>5, <1>8
-----------------------------------------------------------------------------
(* GetPropertyValue: one sequence of values *)

ValueStates(T) == [out : Seq(T), matched : Nat, past : BOOLEAN, max : Int, start : Int]

\* The state after the values L: nothing was read past an end, and the page
\* begins at the first value and takes what it wants of L.
ValuesTaken(st, L, limited, c) ==
    /\ st.matched = Len(L) /\ st.past = FALSE
    /\ limited => st.start = 0 /\ st.out = From(L, 0, c) /\ st.max = c - Len(st.out)
    /\ ~limited => st.start = None /\ st.out = L /\ st.max = None

LEMMA FromNone ==
    ASSUME NEW T, NEW L \in Seq(T)
    PROVE  From(L, 0, 0) = <<>>
<1>1. Len(L) \in Nat
    BY LenProperties
<1>2. From(L, 0, 0) = SubSeq(L, 1, 0)
    BY <1>1 DEF From
<1>3. SubSeq(L, 1, 0) = <<>>
    BY SubSeqEmpty
<1> QED BY <1>2, <1>3

\* The page is full: more values do not change it.
LEMMA PageFull ==
    ASSUME NEW T, NEW L \in Seq(T), NEW v \in Seq(T), NEW c \in Nat, Len(From(L, 0, c)) = c
    PROVE  From(L \o v, 0, c) = From(L, 0, c)
<1>1. CASE c = 0
  <2> DEFINE M == L \o v
  <2>1. M \in Seq(T)
    BY ConcatProperties
  <2> HIDE DEF M
  <2>2. From(M, 0, 0) = <<>> /\ From(L, 0, 0) = <<>>
    BY <2>1, FromNone
  <2> QED BY <1>1, <2>2 DEF M
<1>2. CASE c # 0
  <2>1. Len(From(L, 0, c)) = Taken(Len(L), 0, c) /\ From(L, 0, c) \in Seq(T)
    BY FromProperties
  <2>2. Len(L) \in Nat /\ Len(v) \in Nat
    BY LenProperties
  <2>3. Len(L) >= c
    BY <1>2, <2>1, <2>2 DEF Taken
  <2>4. From(L, 0, c) \o import_response_members(v, 0, 0 + c - 1, Len(L)) = From(L \o v, 0, c)
    BY <1>2, PageConcat
  <2>5. import_response_members(v, 0, 0 + c - 1, Len(L)) = Slice(v, 0, 0 + c - 1 - Len(L))
    BY <2>2 DEF import_response_members
  <2>6. 0 + c - 1 - Len(L) \in Int /\ 0 + c - 1 - Len(L) < 0
    BY <2>2, <2>3
  <2>7. Slice(v, 0, 0 + c - 1 - Len(L)) = <<>>
    BY <2>2, <2>6, SliceNothing
  <2>8. From(L, 0, c) \o <<>> = From(L, 0, c)
    BY <2>1, ConcatEmptySeq
  <2> QED BY <2>4, <2>5, <2>7, <2>8
<1> QED BY <1>1, <1>2

\* The index of the last of v that k more places take.
LastOf(v, k) == (IF k > Len(v) THEN Len(v) ELSE k) - 1

\* There is room for k more values: the next ones fill it.
LEMMA PageFilled ==
    ASSUME NEW T, NEW L \in Seq(T), NEW v \in Seq(T), NEW c \in Nat, NEW k,
           k = c - Len(From(L, 0, c)), k # 0
    PROVE  /\ k \in Nat \ {0}
           /\ From(L \o v, 0, c) = From(L, 0, c) \o Slice(v, 0, LastOf(v, k))
<1> DEFINE F == From(L, 0, c)
           d == IF k > Len(v) THEN Len(v) ELSE k
<1>1. Len(L) \in Nat /\ Len(v) \in Nat
    BY LenProperties
<1>2. Len(F) = Taken(Len(L), 0, c)
    BY FromProperties
<1>3. k \in Nat \ {0} /\ k = c - Len(L) /\ c \in Nat \ {0}
    BY <1>1, <1>2 DEF Taken
<1>4. F \o import_response_members(v, 0, 0 + c - 1, Len(L)) = From(L \o v, 0, c)
    BY <1>3, PageConcat
<1>5. import_response_members(v, 0, 0 + c - 1, Len(L)) = Slice(v, 0, k - 1)
  <2>1. 0 + c - 1 - Len(L) = k - 1 /\ ~(0 > Len(L))
    BY <1>1, <1>3
  <2> QED BY <2>1 DEF import_response_members
<1>6. Slice(v, 0, k - 1) = Slice(v, 0, d - 1)
  <2>1. (IF k - 1 < Len(v) THEN k - 1 + 1 ELSE Len(v)) = (IF d - 1 < Len(v) THEN d - 1 + 1 ELSE Len(v))
    BY <1>1, <1>3
  <2> HIDE DEF d
  <2> QED BY <2>1 DEF Slice
<1>7. d - 1 = LastOf(v, k)
    BY DEF LastOf
<1> HIDE DEF d
<1> QED BY <1>3, <1>4, <1>5, <1>6, <1>7

\* What extract_property adds to a state of which n values are returned.
Extracted(st, k, page, n) ==
    [out |-> st.out \o page, matched |-> st.matched + k, past |-> st.past,
     max |-> decrease(st.max, n), start |-> decrease(st.start, n)]

\* A page that begins at the first value, and is not full, takes a number n
\* of the values v that are there.
LEMMA AppendFromStart ==
    ASSUME NEW T, NEW st \in ValueStates(T), NEW v \in Seq(T), v # <<>>, st.max # 0,
           st.start \in {0, None}, st.max \in Nat \cup {None}, NEW n,
           n = (IF st.max = None \/ st.max > Len(v) THEN Len(v) ELSE st.max)
    PROVE  /\ n \in 1 .. Len(v)
           /\ extract_property(st, v) = Extracted(st, Len(v), Slice(v, 0, n - 1), n)
<1> DEFINE m == [st EXCEPT !.matched = @ + Len(v)]
           lim == calculate_loop_limits(m.max, m.start, Len(v))
           k == IF lim.last < lim.first THEN 0 ELSE lim.last - lim.first + 1
<1>1. Len(v) \in Nat /\ Len(v) # 0
    BY LenProperties, EmptySeq
<1>2. n \in 1 .. Len(v)
    BY <1>1 DEF ValueStates, None
<1>3. st = [out |-> st.out, matched |-> st.matched, past |-> st.past, max |-> st.max, start |-> st.start]
    BY DEF ValueStates
<1>4. /\ m = [out |-> st.out, matched |-> st.matched + Len(v), past |-> st.past,
              max |-> st.max, start |-> st.start]
    BY <1>3
<1>5. m.max = st.max /\ m.start = st.start
    BY <1>4
<1>6. lim = [first |-> 0, last |-> 0 + n - 1]
    BY <1>5 DEF calculate_loop_limits
<1>7. lim.first = 0 /\ lim.last = n - 1
    BY <1>2, <1>6
<1> HIDE DEF lim
<1>8. k = n
    BY <1>2, <1>7
<1>9. ~(k > 0 /\ lim.last >= Len(v))
    BY <1>1, <1>2, <1>7
<1> HIDE DEF m
<1>10. append_members(m, v) = [m EXCEPT !.out = @ \o Slice(v, 0, n - 1), !.past = @ \/ FALSE,
                                        !.start = decrease(@, n), !.max = decrease(@, n)]
  <2>1. append_members(m, v) =
            [m EXCEPT !.out = @ \o Slice(v, lim.first, lim.last),
                      !.past = @ \/ (k > 0 /\ lim.last >= Len(v)),
                      !.start = decrease(@, k), !.max = decrease(@, k)]
    BY DEF append_members, lim
  <2>2. (k > 0 /\ lim.last >= Len(v)) = FALSE
    BY <1>9
  <2> HIDE DEF k
  <2> QED BY <1>7, <1>8, <2>1, <2>2
<1>11. append_members(m, v) = Extracted(st, Len(v), Slice(v, 0, n - 1), n)
  <2>1. (st.past \/ FALSE) = st.past
    BY DEF ValueStates
  <2> QED BY <1>4, <1>10, <2>1 DEF Extracted
<1>12. extract_property(st, v) = append_members(m, v)
    BY DEF extract_property, m
<1> QED BY <1>2, <1>11, <1>12

LEMMA ExtractTakes ==
    ASSUME NEW T, NEW L \in Seq(T), NEW v \in Seq(T), NEW st \in ValueStates(T),
           NEW limited \in BOOLEAN, NEW c \in Nat, ValuesTaken(st, L, limited, c)
    PROVE  /\ extract_property(st, v) \in ValueStates(T)
           /\ ValuesTaken(extract_property(st, v), L \o v, limited, c)
<1> DEFINE x == extract_property(st, v)
           M == L \o v
<1>1. /\ M \in Seq(T) /\ Len(M) = Len(L) + Len(v) /\ Len(L) \in Nat /\ Len(v) \in Nat
      /\ st.matched = Len(L) /\ st.past = FALSE
    BY ConcatProperties, LenProperties DEF ValuesTaken
<1>2. CASE v = <<>>
  <2>1. M = L
    BY <1>2, ConcatEmptySeq
  <2>2. x = st
    BY <1>2 DEF extract_property
  <2> QED BY <2>1, <2>2
<1>3. CASE v # <<>> /\ st.max = 0
  <2> DEFINE y == [st EXCEPT !.matched = @ + Len(v)]
  <2>1. x = y
    BY <1>3 DEF extract_property
  <2>2. /\ y.out = st.out /\ y.matched = st.matched + Len(v) /\ y.past = st.past
        /\ y.max = st.max /\ y.start = st.start /\ y \in ValueStates(T)
    BY <1>1 DEF ValueStates
  <2>3. limited
    BY <1>3 DEF ValuesTaken, None
  <2>4. st.out = From(L, 0, c) /\ st.max = c - Len(st.out) /\ st.start = 0
    BY <2>3 DEF ValuesTaken
  <2>5. st.out \in Seq(T)
    BY DEF ValueStates
  <2>6. Len(st.out) = c
    BY <1>3, <2>4, <2>5, LenProperties
  <2>7. From(M, 0, c) = From(L, 0, c)
    BY <2>4, <2>6, PageFull
  <2> HIDE DEF y, x, M
  <2>8. ValuesTaken(y, M, limited, c)
    BY <1>1, <2>2, <2>3, <2>4, <2>7 DEF ValuesTaken
  <2> QED BY <2>1, <2>2, <2>8 DEF x, M
<1>4. CASE v # <<>> /\ st.max # 0
  <2> DEFINE n == IF st.max = None \/ st.max > Len(v) THEN Len(v) ELSE st.max
             page == Slice(v, 0, n - 1)
  <2>1. CASE limited
    <3>1. st.out = From(L, 0, c) /\ st.max = c - Len(From(L, 0, c)) /\ st.start = 0
      BY <2>1 DEF ValuesTaken
    <3> DEFINE k == st.max
    <3> HIDE DEF k
    <3>2. k = c - Len(From(L, 0, c)) /\ k # 0
      BY <1>4, <3>1 DEF k
    <3>3. /\ k \in Nat \ {0}
          /\ From(L \o v, 0, c) = From(L, 0, c) \o Slice(v, 0, LastOf(v, k))
      BY <3>2, PageFilled
    <3>4. n = IF k > Len(v) THEN Len(v) ELSE k
      <4>1. k # None
        BY <3>3 DEF None
      <4> QED BY <4>1 DEF k
    <3>5. From(M, 0, c) = From(L, 0, c) \o page
      <4>1. n - 1 = LastOf(v, k)
        BY <3>4 DEF LastOf
      <4> HIDE DEF n
      <4> QED BY <3>3, <4>1
    <3>6. n \in 1 .. Len(v) /\ x = Extracted(st, Len(v), page, n)
      <4>1. st.max \in Nat \cup {None} /\ st.start \in {0, None} /\ st.max # 0
        BY <3>1, <3>3 DEF k
      <4> QED BY <1>4, <4>1, AppendFromStart
    <3> HIDE DEF x, M, n, page
    <3>7. page \in Seq(T) /\ From(L, 0, c) \in Seq(T) /\ From(M, 0, c) \in Seq(T)
      <4>1. n - 1 \in Int
        BY <3>6
      <4>2. page \in Seq(T)
        BY <4>1, SliceType DEF page
      <4> QED BY <1>1, <4>2, FromProperties
    <3>8. Len(page) = n
      <4>1. Slice(v, 0, 0 + n - 1) = From(v, 0, n) /\ 0 + n - 1 = n - 1
        BY <1>1, <3>6, SliceFrom
      <4>2. Len(From(v, 0, n)) = Taken(Len(v), 0, n)
        BY <3>6, FromProperties
      <4>3. Taken(Len(v), 0, n) = n
        BY <1>1, <3>6 DEF Taken
      <4> QED BY <4>1, <4>2, <4>3 DEF page
    <3>9. Len(From(M, 0, c)) = Len(From(L, 0, c)) + n
      BY <3>5, <3>7, <3>8, ConcatProperties
    <3>10. decrease(st.max, n) = k - n /\ decrease(st.start, n) = 0 /\ k - n \in Nat
      <4>1. n <= k /\ k \in Nat /\ n \in Nat /\ n # 0
        BY <1>1, <3>3, <3>4, <3>6
      <4> QED BY <3>1, <4>1 DEF decrease, None, k
    <3>11. /\ x.out = From(M, 0, c) /\ x.matched = Len(M) /\ x.past = FALSE
           /\ x.max = k - n /\ x.start = 0 /\ x \in ValueStates(T)
      BY <1>1, <3>1, <3>5, <3>6, <3>7, <3>10 DEF Extracted, ValueStates
    <3>12. x.max = c - Len(x.out)
      <4>1. Len(From(L, 0, c)) \in Nat
        BY <3>7, LenProperties
      <4> QED BY <3>2, <3>6, <3>9, <3>11, <4>1
    <3> QED BY <2>1, <3>11, <3>12 DEF ValuesTaken, x, M
  <2>2. CASE ~limited
    <3>1. st.start = None /\ st.out = L /\ st.max = None
      BY <2>2 DEF ValuesTaken
    <3>2. n = Len(v)
      BY <3>1
    <3>3. x = Extracted(st, Len(v), page, n) /\ n \in 1 .. Len(v)
      <4>1. st.max \in Nat \cup {None} /\ st.start \in {0, None} /\ st.max # 0
        BY <1>4, <3>1
      <4> QED BY <1>4, <4>1, AppendFromStart
    <3> HIDE DEF x, M
    <3>4. page = v
      <4>1. ~(Len(v) - 1 < Len(v)) \/ Len(v) - 1 + 1 = Len(v)
        BY <1>1
      <4>2. page = SubSeq(v, 0 + 1, Len(v)) /\ 0 + 1 = 1
        BY <1>1, <3>2 DEF Slice
      <4> QED BY <4>2, SubSeqFull
    <3> HIDE DEF n, page
    <3>5. /\ x.out = M /\ x.matched = Len(M) /\ x.past = FALSE
          /\ x.max = None /\ x.start = None /\ x \in ValueStates(T)
      <4>1. None \in Int /\ decrease(None, n) = None
        BY DEF None, decrease
      <4>2. st.out \o page = M
        BY <3>1, <3>4 DEF M
      <4> QED BY <1>1, <3>1, <3>3, <4>1, <4>2 DEF Extracted, ValueStates
    <3> QED BY <2>2, <3>5 DEF ValuesTaken, x, M
  <2> QED BY <2>1, <2>2
<1> QED BY <1>2, <1>3, <1>4
-----------------------------------------------------------------------------
(* GetPropertyValue: the parts of a response, and the responses *)

\* The functions by which FilterResponse and add_responses are defined.
PartTurns(f, n, st, ps) ==
    f = [i \in 0 .. n |-> IF i = 0 THEN st ELSE extract_property(f[i - 1], ps[i])]
ValueTurns(f, n, st, rs) ==
    f = [i \in 0 .. n |-> IF i = 0 THEN st ELSE FilterResponse(f[i - 1], rs[i])]

LEMMA PartTurnsSteps ==
    ASSUME NEW f, NEW n, NEW st, NEW ps, PartTurns(f, n, st, ps)
    PROVE  \A i \in 0 .. n : f[i] = IF i = 0 THEN st ELSE extract_property(f[i - 1], ps[i])
BY DEF PartTurns

LEMMA PartTurnsExist ==
    ASSUME NEW st, NEW ps
    PROVE  \A n \in Nat : \E f : PartTurns(f, n, st, ps)
<1> DEFINE N == {n \in Nat : \E f : PartTurns(f, n, st, ps)}
<1>1. 0 \in N
  <2> DEFINE f == [i \in 0 .. 0 |-> st]
  <2>1. PartTurns(f, 0, st, ps)
    BY DEF PartTurns
  <2> HIDE DEF f
  <2> QED BY <2>1
<1>2. ASSUME NEW n \in Nat, n \in N PROVE n + 1 \in N
  <2>1. PICK f : PartTurns(f, n, st, ps)
    BY <1>2
  <2> DEFINE h == [i \in 0 .. n + 1 |-> IF i <= n THEN f[i] ELSE extract_property(f[n], ps[n + 1])]
  <2>2. \A i \in 0 .. n : f[i] = IF i = 0 THEN st ELSE extract_property(f[i - 1], ps[i])
    BY <2>1, PartTurnsSteps
  <2>3. ASSUME NEW i \in 0 .. n + 1
        PROVE  h[i] = IF i = 0 THEN st ELSE extract_property(h[i - 1], ps[i])
    <3>1. CASE i <= n
      <4>1. i \in 0 .. n /\ h[i] = f[i] /\ (i # 0 => h[i - 1] = f[i - 1])
        BY <3>1
      <4> QED BY <4>1, <2>2
    <3>2. CASE ~(i <= n)
      <4>1. i = n + 1 /\ i # 0 /\ h[i - 1] = f[n]
        BY <3>2
      <4>2. h[i] = extract_property(f[n], ps[n + 1])
        BY <3>2
      <4> QED BY <4>1, <4>2
    <3> QED BY <3>1, <3>2
  <2>4. PartTurns(h, n + 1, st, ps)
    <3> HIDE DEF h
    <3>1. DOMAIN h = 0 .. n + 1 /\ h = [i \in 0 .. n + 1 |-> h[i]]
      BY DEF h
    <3> QED BY <2>3, <3>1 DEF PartTurns
  <2> HIDE DEF h
  <2> QED BY <2>4
<1> HIDE DEF N
<1>3. Nat \subseteq N
    BY <1>1, <1>2, NatSetInduction
<1> QED BY <1>3 DEF N

LEMMA ValueTurnsSteps ==
    ASSUME NEW f, NEW n, NEW st, NEW rs, ValueTurns(f, n, st, rs)
    PROVE  \A i \in 0 .. n : f[i] = IF i = 0 THEN st ELSE FilterResponse(f[i - 1], rs[i])
BY DEF ValueTurns

LEMMA ValueTurnsExist ==
    ASSUME NEW st, NEW rs
    PROVE  \A n \in Nat : \E f : ValueTurns(f, n, st, rs)
<1> DEFINE N == {n \in Nat : \E f : ValueTurns(f, n, st, rs)}
<1>1. 0 \in N
  <2> DEFINE f == [i \in 0 .. 0 |-> st]
  <2>1. ValueTurns(f, 0, st, rs)
    BY DEF ValueTurns
  <2> HIDE DEF f
  <2> QED BY <2>1
<1>2. ASSUME NEW n \in Nat, n \in N PROVE n + 1 \in N
  <2>1. PICK f : ValueTurns(f, n, st, rs)
    BY <1>2
  <2> DEFINE h == [i \in 0 .. n + 1 |-> IF i <= n THEN f[i] ELSE FilterResponse(f[n], rs[n + 1])]
  <2>2. \A i \in 0 .. n : f[i] = IF i = 0 THEN st ELSE FilterResponse(f[i - 1], rs[i])
    BY <2>1, ValueTurnsSteps
  <2>3. ASSUME NEW i \in 0 .. n + 1
        PROVE  h[i] = IF i = 0 THEN st ELSE FilterResponse(h[i - 1], rs[i])
    <3>1. CASE i <= n
      <4>1. i \in 0 .. n /\ h[i] = f[i] /\ (i # 0 => h[i - 1] = f[i - 1])
        BY <3>1
      <4> QED BY <4>1, <2>2
    <3>2. CASE ~(i <= n)
      <4>1. i = n + 1 /\ i # 0 /\ h[i - 1] = f[n]
        BY <3>2
      <4>2. h[i] = FilterResponse(f[n], rs[n + 1])
        BY <3>2
      <4> QED BY <4>1, <4>2
    <3> QED BY <3>1, <3>2
  <2>4. ValueTurns(h, n + 1, st, rs)
    <3> HIDE DEF h
    <3>1. DOMAIN h = 0 .. n + 1 /\ h = [i \in 0 .. n + 1 |-> h[i]]
      BY DEF h
    <3> QED BY <2>3, <3>1 DEF ValueTurns
  <2> HIDE DEF h
  <2> QED BY <2>4
<1> HIDE DEF N
<1>3. Nat \subseteq N
    BY <1>1, <1>2, NatSetInduction
<1> QED BY <1>3 DEF N

\* The parts of one response: their values follow the ones before.
LEMMA ResponseTakes ==
    ASSUME NEW T, NEW L \in Seq(T), NEW n \in Nat, NEW ps \in [1 .. n -> Seq(T)], Len(ps) = n,
           NEW st \in ValueStates(T), NEW limited \in BOOLEAN, NEW c \in Nat, ValuesTaken(st, L, limited, c)
    PROVE  /\ FilterResponse(st, ps) \in ValueStates(T)
           /\ ValuesTaken(FilterResponse(st, ps), L \o FlattenSeq(ps), limited, c)
<1> DEFINE f == CHOOSE g : PartTurns(g, n, st, ps)
           V(k) == L \o FlattenSeq(Prefix(ps, k))
           N == {k \in Nat : k <= n => f[k] \in ValueStates(T) /\ ValuesTaken(f[k], V(k), limited, c)}
<1>1. PartTurns(f, n, st, ps)
    BY PartTurnsExist
<1>2. FilterResponse(st, ps) = f[n]
    BY DEF FilterResponse, PartTurns
<1> HIDE DEF f
<1>3. \A i \in 0 .. n : f[i] = IF i = 0 THEN st ELSE extract_property(f[i - 1], ps[i])
    BY <1>1, PartTurnsSteps
<1>4. 0 \in N
  <2>1. f[0] = st
    BY <1>3
  <2>2. FlattenSeq(Prefix(ps, 0)) = <<>>
    BY PrefixEmpty
  <2>3. V(0) = L
    BY <2>2, ConcatEmptySeq
  <2> HIDE DEF V
  <2> QED BY <2>1, <2>3
<1>5. ASSUME NEW k \in Nat, k \in N PROVE k + 1 \in N
  <2> SUFFICES ASSUME k + 1 <= n
               PROVE  f[k + 1] \in ValueStates(T) /\ ValuesTaken(f[k + 1], V(k + 1), limited, c)
    OBVIOUS
  <2> DEFINE W == V(k)
             v == ps[k + 1]
             x == f[k]
  <2>1. k \in 0 .. n /\ k # n /\ k + 1 \in 1 .. n /\ k + 1 \in 0 .. n /\ k + 1 # 0 /\ (k + 1) - 1 = k
    OBVIOUS
  <2>2. f[k + 1] = extract_property(x, v) /\ v \in Seq(T)
    BY <1>3, <2>1
  <2>3. x \in ValueStates(T) /\ ValuesTaken(x, W, limited, c)
    <3> HIDE DEF V
    <3> QED BY <1>5, <2>1
  <2>4. FlattenSeq(Prefix(ps, k)) \in Seq(T)
    BY <2>1, PrefixType
  <2>5. FlattenSeq(Prefix(ps, k + 1)) = FlattenSeq(Prefix(ps, k)) \o v
    BY <2>1, PrefixNext
  <2>6. W \in Seq(T) /\ V(k + 1) = W \o v
    <3> DEFINE F == FlattenSeq(Prefix(ps, k))
    <3> HIDE DEF F, v
    <3>1. F \in Seq(T) /\ W = L \o F /\ V(k + 1) = L \o (F \o v)
      BY <2>4, <2>5 DEF F
    <3>2. (L \o F) \o v = L \o (F \o v) /\ L \o F \in Seq(T)
      <4>1. F \in Seq(T) /\ v \in Seq(T)
        BY <2>2, <3>1
      <4>2. (L \o F) \o v = L \o (F \o v)
        BY <4>1, ConcatAssociative
      <4>3. L \o F \in Seq(T)
        BY <4>1, ConcatProperties
      <4> QED BY <4>2, <4>3
    <3> HIDE DEF V, W
    <3> QED BY <3>1, <3>2
  <2> HIDE DEF W, V, v, x
  <2>7. extract_property(x, v) \in ValueStates(T) /\ ValuesTaken(extract_property(x, v), W \o v, limited, c)
    BY <2>2, <2>3, <2>6, ExtractTakes
  <2> QED BY <2>2, <2>6, <2>7
<1> HIDE DEF N
<1>6. Nat \subseteq N
    BY <1>4, <1>5, NatSetInduction
<1>7. f[n] \in ValueStates(T) /\ ValuesTaken(f[n], V(n), limited, c)
    BY <1>6 DEF N
<1>8. Prefix(ps, n) = ps
    BY PrefixWhole
<1> QED BY <1>2, <1>7, <1>8

\* The values of each of some responses, given by their parts.
ValuesOf(rs, n) == [i \in 1 .. n |-> FlattenSeq(rs[i])]

\* Values spread over parts and responses.
Spread(rs, n, T) ==
    /\ n \in Nat /\ Len(rs) = n
    /\ \A i \in 1 .. n : Len(rs[i]) \in Nat /\ rs[i] \in [1 .. Len(rs[i]) -> Seq(T)]

LEMMA ResponsesTake ==
    ASSUME NEW T, NEW n, NEW rs, Spread(rs, n, T), NEW st \in ValueStates(T),
           NEW limited \in BOOLEAN, NEW c \in Nat, ValuesTaken(st, <<>>, limited, c),
           NEW f, ValueTurns(f, n, st, rs)
    PROVE  /\ ValuesOf(rs, n) \in [1 .. n -> Seq(T)]
           /\ f[n] \in ValueStates(T)
           /\ ValuesTaken(f[n], FlattenSeq(ValuesOf(rs, n)), limited, c)
<1> DEFINE G == ValuesOf(rs, n)
           V(k) == FlattenSeq(Prefix(G, k))
           N == {k \in Nat : k <= n => f[k] \in ValueStates(T) /\ ValuesTaken(f[k], V(k), limited, c)}
<1>1. n \in Nat
    BY DEF Spread
<1>2. ASSUME NEW i \in 1 .. n PROVE FlattenSeq(rs[i]) \in Seq(T)
  <2>1. rs[i] \in Seq(Seq(T))
    BY DEF Spread
  <2> QED BY <2>1, FlattenType
<1>3. G \in [1 .. n -> Seq(T)]
    BY <1>2 DEF ValuesOf
<1>4. \A i \in 0 .. n : f[i] = IF i = 0 THEN st ELSE FilterResponse(f[i - 1], rs[i])
    BY ValueTurnsSteps
<1>5. 0 \in N
  <2>1. f[0] = st
    BY <1>1, <1>4
  <2>2. V(0) = <<>>
    BY PrefixEmpty
  <2> HIDE DEF V
  <2> QED BY <2>1, <2>2
<1>6. ASSUME NEW k \in Nat, k \in N PROVE k + 1 \in N
  <2> SUFFICES ASSUME k + 1 <= n
               PROVE  f[k + 1] \in ValueStates(T) /\ ValuesTaken(f[k + 1], V(k + 1), limited, c)
    OBVIOUS
  <2> DEFINE W == V(k)
             ps == rs[k + 1]
             m == Len(ps)
             x == f[k]
  <2>1. k \in 0 .. n /\ k # n /\ k + 1 \in 1 .. n /\ k + 1 \in 0 .. n /\ k + 1 # 0 /\ (k + 1) - 1 = k
    BY <1>1
  <2>2. f[k + 1] = FilterResponse(x, ps)
    BY <1>4, <2>1
  <2>3. m \in Nat /\ ps \in [1 .. m -> Seq(T)] /\ Len(ps) = m
    BY <2>1 DEF Spread
  <2>4. x \in ValueStates(T) /\ ValuesTaken(x, W, limited, c)
    <3> HIDE DEF V
    <3> QED BY <1>6, <2>1
  <2>5. W \in Seq(T)
    <3> HIDE DEF G
    <3> QED BY <1>1, <1>3, <2>1, PrefixType
  <2>6. V(k + 1) = W \o G[k + 1]
    <3> HIDE DEF G
    <3> QED BY <1>1, <1>3, <2>1, PrefixNext
  <2>7. G[k + 1] = FlattenSeq(ps)
    BY <2>1 DEF ValuesOf
  <2> HIDE DEF W, V, ps, m, x, G
  <2>8. /\ FilterResponse(x, ps) \in ValueStates(T)
        /\ ValuesTaken(FilterResponse(x, ps), W \o FlattenSeq(ps), limited, c)
    BY <2>3, <2>4, <2>5, ResponseTakes
  <2> QED BY <2>2, <2>6, <2>7, <2>8
<1> HIDE DEF N
<1>7. Nat \subseteq N
    BY <1>5, <1>6, NatSetInduction
<1>8. f[n] \in ValueStates(T) /\ ValuesTaken(f[n], V(n), limited, c)
    BY <1>1, <1>7 DEF N
<1>9. Prefix(G, n) = G
  <2> HIDE DEF G
  <2> QED BY <1>1, <1>3, PrefixWhole
<1> QED BY <1>3, <1>8, <1>9

\* What GetPropertyValue_execute returns for a page that begins at the first
\* value, or for all values.
LEMMA ValuesReturned ==
    ASSUME NEW T, NEW n, NEW rs, Spread(rs, n, T), NEW p, NEW c \in Nat, c < Half,
           p.count = c, p.start_index = 0, p.hits = FALSE, p.have_counts \in BOOLEAN,
           NEW out, out = GetPropertyValue_execute(p, rs), out.ok,
           NEW L, L = FlattenSeq(ValuesOf(rs, n))
    PROVE  /\ ~out.val.past /\ out.val.matched = Len(L)
           /\ out.val.members =
                  SubSeq(L, 1, IF p.have_counts /\ p.count < Len(L) THEN p.count ELSE Len(L))
<1> DEFINE ini == initialize(p)
           st == [out |-> <<>>, matched |-> 0, past |-> FALSE, max |-> ini.max, start |-> ini.start]
           f == CHOOSE g : ValueTurns(g, n, st, rs)
           limited == p.have_counts
           okv == Ok([members |-> f[n].out, matched |-> f[n].matched, returned |-> Len(f[n].out),
                      past |-> f[n].past, status |-> 200])
           check == <<p.output_format = "debug", "OperationProcessingFailed">>
<1>1. n \in Nat /\ Len(rs) = n
    BY DEF Spread
<1>2. ValueTurns(f, n, st, rs)
  <2> HIDE DEF st
  <2> QED BY <1>1, ValueTurnsExist
<1>3. add_responses(p, rs) = f[n]
    BY <1>1 DEF add_responses, ValueTurns
<1>4. ini = IF limited THEN [max |-> c, start |-> 0] ELSE [max |-> None, start |-> None]
  <2>1. Half \in Nat \ {0}
    BY RangesAssumption DEF Half
  <2>2. ToInt(c) = c /\ ToInt(0) = 0
    BY <2>1, ToIntSame
  <2>3. CASE limited
    BY <2>2, <2>3 DEF initialize
  <2>4. CASE ~limited
    BY <2>4 DEF initialize
  <2> QED BY <2>3, <2>4
<1>5. st \in ValueStates(T)
    BY <1>4 DEF ValueStates, None
<1>6. ValuesTaken(st, <<>>, limited, c)
  <2>1. <<>> \in Seq(T) /\ Len(<<>>) = 0
    BY EmptySeq
  <2>2. From(<<>>, 0, c) = <<>>
    <3>1. From(<<>>, 0, c) = SubSeq(<<>>, 1, 0)
      BY DEF From
    <3>2. SubSeq(<<>>, 1, 0) = <<>>
      BY SubSeqEmpty
    <3> QED BY <3>1, <3>2
  <2>3. limited => st.max = c /\ st.start = 0
    BY <1>4
  <2>4. ~limited => st.max = None /\ st.start = None
    BY <1>4
  <2>5. st.out = <<>> /\ st.matched = 0 /\ st.past = FALSE
    OBVIOUS
  <2> HIDE DEF st
  <2> QED BY <2>1, <2>2, <2>3, <2>4, <2>5 DEF ValuesTaken
<1> HIDE DEF st, f
<1>7. f[n] \in ValueStates(T) /\ ValuesTaken(f[n], L, limited, c)
    BY <1>2, <1>5, <1>6, ResponsesTake
<1>8. L \in Seq(T)
  <2>1. ValuesOf(rs, n) \in [1 .. n -> Seq(T)]
    BY <1>2, <1>5, <1>6, ResponsesTake
  <2>2. ValuesOf(rs, n) \in Seq(Seq(T))
    BY <1>1, <2>1
  <2> QED BY <2>2, FlattenType
<1>9. GetPropertyValue_execute(p, rs) = Checked(<<check>>, okv)
    BY <1>3 DEF GetPropertyValue_execute
<1>10. out = okv
  <2> HIDE DEF check, okv
  <2> QED BY <1>9, OneCheck
<1>11. out.val.members = f[n].out /\ out.val.matched = f[n].matched /\ out.val.past = f[n].past
    BY <1>10 DEF Ok
<1>12. out.val.matched = Len(L) /\ ~out.val.past
    BY <1>7, <1>11 DEF ValuesTaken
<1>13. Len(L) \in Nat
    BY <1>8, LenProperties
<1>14. CASE limited
  <2>1. f[n].out = From(L, 0, c)
    BY <1>7, <1>14 DEF ValuesTaken
  <2>2. From(L, 0, c) = SubSeq(L, 1, IF c < Len(L) THEN c ELSE Len(L))
    BY DEF From
  <2> QED BY <1>11, <1>12, <1>14, <2>1, <2>2
<1>15. CASE ~limited
  <2>1. f[n].out = L
    BY <1>7, <1>15 DEF ValuesTaken
  <2>2. SubSeq(L, 1, Len(L)) = L
    BY <1>8, SubSeqFull
  <2> QED BY <1>11, <1>12, <1>15, <2>1, <2>2
<1> QED BY <1>14, <1>15
-----------------------------------------------------------------------------
(* The state machine *)

AnswerRecs == [failed : BOOLEAN, matched : Nat, members : Seq(Nat \X Nat), values : Seq(Nat)]

Answered ==
    /\ DOMAIN responses = 1 .. Len(queries) /\ responses \in Seq(AnswerRecs)
    /\ \A i \in 1 .. Len(queries) : DOMAIN responses[i].members = DOMAIN responses[i].values

\* The result of a page is what the two requests make of the responses, and
\* these are as the queries left them.
IInv ==
    /\ phase \in {"new", "created", "refused", "answered", "paged"}
    /\ IsVector(queries)
    /\ phase \in {"answered", "paged"} => Answered
    /\ phase = "paged" =>
           /\ spp \in Presentations
           /\ result \in {Features(spp), PropertyValues(spp)}

LEMMA CreatedIInv ==
    ASSUME IInv, NEW form, NEW r, NEW out, out.ok => IsVector(out.val), Create(form, r, out)
    PROVE  IInv'
<1>1. IsVector(<<>>)
    BY DEF IsVector
<1>2. IsVector(queries')
    BY <1>1 DEF Create, IsVector
<1>3. phase' \in {"created", "refused"}
    BY DEF Create
<1> QED BY <1>2, <1>3 DEF IInv

LEMMA StoredVector ==
    ASSUME NEW n \in Nat
    PROVE  IsVector([i \in 1 .. n |-> [id |-> i, filter |-> <<>>]])
<1> DEFINE q == [i \in 1 .. n |-> [id |-> i, filter |-> <<>>]]
           Q == [id : Nat, filter : {<<>>}]
<1>1. q \in [1 .. n -> Q]
    OBVIOUS
<1>2. q \in Seq(Q) /\ Len(q) = n
  <2> HIDE DEF Q, q
  <2> QED BY <1>1
<1> QED BY <1>2 DEF IsVector

LEMMA AnswerIInv ==
    ASSUME IInv, Answer
    PROVE  IInv'
<1> DEFINE n == Len(queries)
<1>1. n \in Nat /\ DOMAIN queries = 1 .. n
    BY DEF IInv, IsVector
<1>2. PICK bs \in [DOMAIN queries -> Bodies] :
          responses' = [i \in DOMAIN queries |->
                            [failed |-> bs[i].failed, matched |-> bs[i].matched,
                             members |-> [j \in DOMAIN bs[i].members |-> <<i, j>>],
                             values |-> bs[i].members]]
    BY DEF Answer
<1> DEFINE R(i) == [failed |-> bs[i].failed, matched |-> bs[i].matched,
                    members |-> [j \in DOMAIN bs[i].members |-> <<i, j>>],
                    values |-> bs[i].members]
<1>3. ASSUME NEW i \in 1 .. n
      PROVE  R(i) \in AnswerRecs /\ DOMAIN R(i).members = DOMAIN R(i).values
  <2> DEFINE b == bs[i]
             m == Len(b.members)
             ms == [j \in DOMAIN b.members |-> <<i, j>>]
  <2>1. b \in Bodies
    BY <1>1
  <2>2. b.failed \in BOOLEAN /\ b.matched \in Nat /\ b.members \in Seq(Nat)
    BY <2>1, BodiesAssumption
  <2>3. m \in Nat /\ DOMAIN b.members = 1 .. m
    BY <2>2, LenProperties
  <2>4. i \in Nat
    BY <1>1
  <2>5. ms \in [1 .. m -> Nat \X Nat]
    BY <2>3, <2>4
  <2>6. ms \in Seq(Nat \X Nat)
    <3> HIDE DEF ms, m
    <3> QED BY <2>3, <2>5
  <2>7. R(i).members = ms /\ R(i).values = b.members /\ DOMAIN ms = DOMAIN b.members
    OBVIOUS
  <2>8. R(i) = [failed |-> b.failed, matched |-> b.matched, members |-> ms, values |-> b.members]
    OBVIOUS
  <2> HIDE DEF R, ms, b
  <2> QED BY <2>2, <2>6, <2>7, <2>8 DEF AnswerRecs
<1>4. responses' = [i \in 1 .. n |-> R(i)]
    BY <1>1, <1>2
<1>5. queries' = queries /\ phase' = "answered"
    BY DEF Answer
<1> HIDE DEF R
<1>6. responses' \in [1 .. n -> AnswerRecs]
    BY <1>3, <1>4
<1>7. Answered'
  <2>1. responses' \in Seq(AnswerRecs) /\ DOMAIN responses' = 1 .. n
    BY <1>1, <1>6
  <2>2. \A i \in 1 .. n : DOMAIN responses'[i].members = DOMAIN responses'[i].values
    BY <1>3, <1>4
  <2> QED BY <1>5, <2>1, <2>2 DEF Answered
<1> QED BY <1>5, <1>7 DEF IInv, IsVector

LEMMA PageIInv ==
    ASSUME IInv, NEW p \in Presentations, NEW out, out \in {Features(p), PropertyValues(p)}, Page(p, out)
    PROVE  IInv'
<1>1. /\ phase = "answered" /\ spp' = p /\ result' = out /\ phase' = "paged"
      /\ request' = request /\ queries' = queries /\ responses' = responses
    BY DEF Page
<1>2. Features(p)' = Features(p)
    BY <1>1 DEF Features
<1>3. PropertyValues(p)' = PropertyValues(p)
    BY <1>1 DEF PropertyValues, Parts, Values
<1>4. Features(spp)' = Features(p) /\ PropertyValues(spp)' = PropertyValues(p)
    BY <1>1 DEF Features, PropertyValues, Parts, Values
<1>5. IsVector(queries') /\ Answered'
    BY <1>1 DEF IInv, Answered
<1> QED BY <1>1, <1>4, <1>5 DEF IInv

LEMMA InitIInv == Init => IInv
BY DEF Init, IInv, IsVector

LEMMA NextIInv == IInv /\ [Next]_vars => IInv'
<1> SUFFICES ASSUME IInv, [Next]_vars PROVE IInv'
    OBVIOUS
<1>1. CASE CreateKvp
    BY <1>1, CreatedIInv, CreatedAssumption DEF CreateKvp
<1>2. CASE CreateXml
    BY <1>2, CreatedIInv, CreatedAssumption DEF CreateXml
<1>3. CASE CreateStored
  <2>1. PICK n \in StoredCounts :
            Create("stored", n, Ok([i \in 1 .. n |-> [id |-> i, filter |-> <<>>]]))
    BY <1>3 DEF CreateStored
  <2> DEFINE out == Ok([i \in 1 .. n |-> [id |-> i, filter |-> <<>>]])
  <2>2. out.val = [i \in 1 .. n |-> [id |-> i, filter |-> <<>>]]
    BY DEF Ok
  <2>3. IsVector(out.val)
    BY <2>2, CreatedAssumption, StoredVector
  <2> HIDE DEF out
  <2>4. Create("stored", n, out)
    BY <2>1 DEF out
  <2> QED BY <2>3, <2>4, CreatedIInv
<1>4. CASE Answer
    BY <1>4, AnswerIInv
<1>5. CASE ExecuteGetFeature
    BY <1>5, PageIInv DEF ExecuteGetFeature
<1>6. CASE ExecuteGetPropertyValue
    BY <1>6, PageIInv DEF ExecuteGetPropertyValue
<1>7. CASE Again
    BY <1>7 DEF Again, IInv, IsVector
<1>8. CASE UNCHANGED vars
  <2>1. Features(spp)' = Features(spp) /\ PropertyValues(spp)' = PropertyValues(spp)
    BY <1>8 DEF vars, Features, PropertyValues, Parts, Values
  <2> QED BY <1>8, <2>1 DEF vars, IInv, Answered
<1> QED BY <1>1, <1>2, <1>3, <1>4, <1>5, <1>6, <1>7, <1>8 DEF Next

LEMMA AlwaysIInv == Spec => []IInv
BY InitIInv, NextIInv, PTL DEF Spec
-----------------------------------------------------------------------------
(* The properties *)

\* The two requests can be told apart by what they return.
LEMMA SingleHasNoPast ==
    ASSUME NEW p, p.hits \in BOOLEAN, NEW a, NEW adhoc, execute_single_query(p, a, adhoc).ok
    PROVE  "past" \notin DOMAIN execute_single_query(p, a, adhoc).val
<1> DEFINE check == <<p.output_format # "default", "OperationProcessingFailed">>
           start == ToInt(p.start_index)
           end == ToInt(start + ToInt(p.count) - 1)
           page == IF start > end \/ start < 0 THEN <<>> ELSE Slice(a.members, start, end)
           whole == [members |-> a.members, matched |-> a.matched, returned |-> a.matched]
           some == [whole EXCEPT !.members = page, !.returned = Len(page)]
           none == [members |-> <<>>, matched |-> Len(a.members), returned |-> 0]
           r == execute_single_query(p, a, adhoc)
<1>1. /\ p.hits => r = Checked(<<check>>, Ok(none))
      /\ ~p.hits /\ (p.have_counts \/ adhoc) => r = Checked(<<check>>, Ok(some))
      /\ ~p.hits /\ ~(p.have_counts \/ adhoc) => r = Ok(whole)
    BY DEF execute_single_query, create_hits_only_response, assert_use_default_format
<1>2. "past" \notin DOMAIN some /\ "past" \notin DOMAIN none /\ "past" \notin DOMAIN whole
    OBVIOUS
<1> HIDE DEF check, some, none, whole, r
<1>3. r.ok
    BY DEF r
<1>4. r \in {Ok(some), Ok(none), Ok(whole)}
  <2>1. p.hits => r = Ok(none)
    BY <1>1, <1>3, OneCheck
  <2>2. ~p.hits /\ (p.have_counts \/ adhoc) => r = Ok(some)
    BY <1>1, <1>3, OneCheck
  <2> QED BY <1>1, <2>1, <2>2
<1> QED BY <1>2, <1>4 DEF Ok, r

LEMMA SeveralHaveNoPast ==
    ASSUME NEW p, NEW rs, execute_multiple_queries(p, rs).ok
    PROVE  "past" \notin DOMAIN execute_multiple_queries(p, rs).val
<1> DEFINE check == <<p.output_format # "default", "OperationProcessingFailed">>
           r == execute_multiple_queries(p, rs)
<1>1. \E a, b, c, d : r = Checked(<<check>>, Ok([members |-> a, matched |-> b, returned |-> c, status |-> d]))
    BY DEF execute_multiple_queries, assert_use_default_format
<1>2. PICK a, b, c, d : r = Checked(<<check>>, Ok([members |-> a, matched |-> b, returned |-> c, status |-> d]))
    BY <1>1
<1> DEFINE v == [members |-> a, matched |-> b, returned |-> c, status |-> d]
           okv == Ok(v)
<1>3. r = Checked(<<check>>, okv)
    BY <1>2
<1> HIDE DEF r, check
<1>4. r.ok
    BY DEF r
<1>5. r = okv
  <2> HIDE DEF okv
  <2> QED BY <1>3, <1>4, OneCheck
<1>6. r.val = v
    BY <1>5 DEF Ok
<1> QED BY <1>6 DEF r

LEMMA ValuesHavePast ==
    ASSUME NEW p, NEW rs, GetPropertyValue_execute(p, rs).ok
    PROVE  "past" \in DOMAIN GetPropertyValue_execute(p, rs).val
<1> DEFINE check == <<p.output_format = "debug", "OperationProcessingFailed">>
           st == add_responses(p, rs)
           v == [members |-> st.out, matched |-> st.matched, returned |-> Len(st.out),
                 past |-> st.past, status |-> 200]
           okv == Ok(v)
           r == GetPropertyValue_execute(p, rs)
<1>1. r = Checked(<<check>>, okv)
    BY DEF GetPropertyValue_execute
<1> HIDE DEF r, check, st
<1>2. r.ok
    BY DEF r
<1>3. r = okv
  <2> HIDE DEF okv
  <2> QED BY <1>1, <1>2, OneCheck
<1>4. r.val = v
    BY <1>3 DEF Ok
<1> QED BY <1>4 DEF r

LEMMA FailsWithoutCode == ~NoCode.ok
BY DEF NoCode, Fail, Throw

LEMMA AnswersOfQueries ==
    ASSUME IInv, phase = "paged"
    PROVE  /\ Answers(responses, Len(queries), Nat \X Nat)
           /\ Everything = FlattenSeq(MembersOf(responses, Len(queries)))
<1>1. Len(queries) \in Nat /\ responses \in Seq(AnswerRecs) /\ DOMAIN responses = 1 .. Len(queries)
    BY DEF IInv, IsVector, Answered
<1>2. Len(responses) = Len(queries)
    BY <1>1, LenProperties
<1>3. \A i \in 1 .. Len(queries) : responses[i].failed \in BOOLEAN /\ responses[i].members \in Seq(Nat \X Nat)
  <2> SUFFICES ASSUME NEW i \in 1 .. Len(queries)
               PROVE  responses[i].failed \in BOOLEAN /\ responses[i].members \in Seq(Nat \X Nat)
    OBVIOUS
  <2>1. i \in 1 .. Len(responses)
    BY <1>2
  <2>2. responses[i] \in AnswerRecs
    BY <1>1, <2>1, ElementOfSeq
  <2> QED BY <2>2 DEF AnswerRecs
<1> QED BY <1>1, <1>2, <1>3 DEF Answers, Everything, MembersOf

LEMMA PageOk == IInv => PageIsTheSlice
<1> SUFFICES ASSUME IInv, Paged(1 .. MaxQueries), OfGetFeature, FitsInt(spp),
                    Len(queries) # 1 => ~NothingAsked(spp)
             PROVE  LET out == result.val.members
                        pages == IF Len(queries) = 1 THEN out
                                 ELSE FlattenSeq([i \in DOMAIN responses |->
                                                     IF responses[i].failed THEN <<>> ELSE out[i]])
                    IN  /\ pages = SubSeq(Everything, spp.start_index + 1,
                                          IF spp.start_index + spp.count < Len(Everything)
                                          THEN spp.start_index + spp.count ELSE Len(Everything))
                        /\ IF Len(queries) = 1
                           THEN result.val.matched = responses[1].matched /\ result.val.returned = Len(pages)
                           ELSE result.val.matched = Len(Everything)
    BY DEF PageIsTheSlice
<1> DEFINE n == Len(queries)
           s == spp.start_index
           c == spp.count
           T == Nat \X Nat
<1>1. phase = "paged" /\ result.ok /\ ~spp.hits /\ spp.have_counts
    BY DEF Paged
<1>2. Answers(responses, n, T) /\ Everything = FlattenSeq(MembersOf(responses, n))
    BY <1>1, AnswersOfQueries
<1>3. Fits(spp, s, c)
  <2>1. spp \in Presentations
    BY <1>1 DEF IInv
  <2>2. 2 ^ IntBits \in Nat /\ s \in 0 .. 2 ^ IntBits - 1 /\ c \in 0 .. 2 ^ IntBits - 1 /\ spp.hits \in BOOLEAN
    BY <2>1, PresentationsAssumption, RangesAssumption
  <2>3. spp.hits = FALSE
    BY <1>1, <2>2
  <2> QED BY <2>2, <2>3 DEF Fits, FitsInt, Half
<1>4. Len(queries) # 1 => Wants(spp, s, c)
  <2>1. s < 2 ^ IntBits /\ c < 2 ^ IntBits
    BY <1>3, RangesAssumption DEF Fits, Half
  <2> QED BY <1>3, <2>1 DEF Fits, Wants, NothingAsked
<1>5. result = Features(spp)
  <2> SUFFICES ASSUME result = PropertyValues(spp) PROVE FALSE
    BY <1>1 DEF IInv
  <2>1. result = GetPropertyValue_execute(spp, Parts)
    BY <1>1, FailsWithoutCode DEF PropertyValues
  <2>2. "past" \in DOMAIN result.val
    BY <1>1, <2>1, ValuesHavePast
  <2> QED BY <2>2 DEF OfGetFeature
<1>6. DOMAIN responses = 1 .. n
    BY <1>2 DEF Answers
<1>7. CASE n # 1
  <2>1. result = execute_multiple_queries(spp, responses)
    BY <1>5, <1>7 DEF Features
  <2>2. /\ FlattenSeq([i \in 1 .. n |-> IF responses[i].failed THEN <<>> ELSE result.val.members[i]]) =
               From(FlattenSeq(MembersOf(responses, n)), s, c)
        /\ result.val.matched = Len(FlattenSeq(MembersOf(responses, n)))
    <3>1. Wants(spp, s, c)
      BY <1>4, <1>7
    <3> HIDE DEF n, s, c, T
    <3> QED BY <1>1, <1>2, <2>1, <3>1, SeveralQueries
  <2> QED BY <1>2, <1>6, <1>7, <2>2 DEF From
<1>8. CASE n = 1
  <2> DEFINE m == responses[1].members
  <2>1. ~responses[1].failed /\ result = execute_single_query(spp, responses[1], request.form # "stored")
    BY <1>1, <1>5, <1>8, FailsWithoutCode DEF Features
  <2>2. m \in Seq(T)
    BY <1>2, <1>8 DEF Answers
  <2>3. Everything = m
    <3>1. MembersOf(responses, 1) = <<m>>
      BY <2>1 DEF MembersOf
    <3> HIDE DEF m, T
    <3>2. FlattenSeq(<<m>>) = m
      BY <2>2, FlattenOne
    <3> QED BY <1>2, <1>8, <3>1, <3>2
  <2>4. /\ result.val.members = From(m, s, c)
        /\ result.val.matched = responses[1].matched /\ result.val.returned = Len(result.val.members)
    <3> DEFINE r == responses[1]
    <3>1. r.members \in Seq(T) /\ m = r.members /\ result = execute_single_query(spp, r, request.form # "stored")
      BY <2>1, <2>2
    <3> HIDE DEF m, r, s, c, T
    <3>2. /\ result.val.members = From(r.members, s, c)
          /\ result.val.matched = r.matched /\ result.val.returned = Len(result.val.members)
      BY <1>1, <1>3, <3>1, OneQuery
    <3> QED BY <3>1, <3>2 DEF r
  <2> QED BY <1>8, <2>3, <2>4 DEF From
<1> QED BY <1>7, <1>8

\* GetFeature returns the members startIndex .. startIndex + count - 1 of all
\* the members of its queries, whatever the number of queries and members,
\* which of the queries fail, and the width of int, and several queries count
\* them all; a single query leaves numberMatched to its handler, and for
\* several a count of 0 from the first member is left out
\* (GetFeature.cpp:187, :204 and :323).
THEOREM PageAlwaysTheSlice == Spec => []PageIsTheSlice
BY AlwaysIInv, PageOk, PTL

\* The values of a member, and of the members of a response.
LEMMA ValuesSpread ==
    ASSUME IInv, phase = "paged"
    PROVE  /\ Spread(Parts, Len(queries), Nat \X Nat \X Nat)
           /\ FlattenSeq(ValuesOf(Parts, Len(queries))) =
                  FlattenSeq([i \in DOMAIN responses |->
                      FlattenSeq([j \in DOMAIN responses[i].members |-> Values(i, j)])])
<1> DEFINE n == Len(queries)
           T == Nat \X Nat \X Nat
           Each(i) == [j \in DOMAIN responses[i].members |-> Values(i, j)]
           Part(i) == IF queries[i].filter # <<>> THEN Each(i) ELSE <<FlattenSeq(Each(i))>>
<1>1. /\ n \in Nat /\ responses \in Seq(AnswerRecs) /\ DOMAIN responses = 1 .. n
      /\ \A i \in 1 .. n : DOMAIN responses[i].members = DOMAIN responses[i].values
    BY DEF IInv, IsVector, Answered
<1>2. Len(responses) = n
    BY <1>1, LenProperties
<1>3. Parts = [i \in 1 .. n |-> Part(i)]
    BY <1>1 DEF Parts
<1>4. ASSUME NEW i \in 1 .. n
      PROVE  /\ Len(Part(i)) \in Nat /\ Part(i) \in [1 .. Len(Part(i)) -> Seq(T)]
             /\ Part(i) \in Seq(Seq(T)) /\ FlattenSeq(Part(i)) = FlattenSeq(Each(i))
  <2> DEFINE vs == responses[i].values
             m == Len(vs)
  <2>1. responses[i] \in AnswerRecs
    BY <1>1, <1>2, ElementOfSeq
  <2>2. vs \in Seq(Nat) /\ DOMAIN responses[i].members = DOMAIN vs
    BY <1>1, <2>1 DEF AnswerRecs
  <2>3. m \in Nat /\ DOMAIN vs = 1 .. m /\ \A j \in 1 .. m : vs[j] \in Nat
    BY <2>2, LenProperties, ElementOfSeq
  <2>4. ASSUME NEW j \in 1 .. m PROVE Values(i, j) \in Seq(T)
    <3> DEFINE k == vs[j]
               w == [l \in 1 .. k |-> <<i, j, l>>]
    <3>1. k \in Nat /\ i \in Nat /\ j \in Nat
      BY <1>1, <2>3
    <3>2. w \in [1 .. k -> T]
      BY <3>1
    <3>3. w \in Seq(T)
      <4> HIDE DEF T, w, k
      <4> QED BY <3>1, <3>2
    <3> QED BY <3>3 DEF Values
  <2>5. Each(i) = [j \in 1 .. m |-> Values(i, j)]
    BY <2>2, <2>3
  <2> DEFINE E == Each(i)
  <2> HIDE DEF T, Each, m
  <2>6. E \in [1 .. m -> Seq(T)]
    BY <2>4, <2>5
  <2> HIDE DEF E
  <2>7. E \in Seq(Seq(T))
    BY <2>3, <2>6
  <2> DEFINE F == FlattenSeq(E)
  <2>8. F \in Seq(T)
    BY <2>7, FlattenType
  <2> HIDE DEF F
  <2>9. Part(i) = IF queries[i].filter # <<>> THEN E ELSE <<F>>
    BY DEF E, F
  <2>10. <<F>> \in Seq(Seq(T)) /\ FlattenSeq(<<F>>) = F
    BY <2>8, FlattenOne
  <2> DEFINE P == Part(i)
  <2>11. P \in Seq(Seq(T)) /\ FlattenSeq(P) = F
    <3> HIDE DEF Part
    <3> QED BY <2>7, <2>9, <2>10 DEF F
  <2> HIDE DEF P
  <2>12. Len(P) \in Nat /\ P \in [1 .. Len(P) -> Seq(T)]
    BY <2>11, LenProperties
  <2> HIDE DEF Part
  <2> QED BY <2>11, <2>12 DEF P, F, E
<1> HIDE DEF Part, Each
<1>5. Len(Parts) = n
  <2> HIDE DEF T
  <2>1. Parts \in [1 .. n -> Seq(Seq(T))]
    BY <1>3, <1>4
  <2>2. Parts \in Seq(Seq(Seq(T)))
    BY <1>1, <2>1
  <2> QED BY <1>1, <2>1, <2>2, LenProperties
<1>6. \A i \in 1 .. n : Parts[i] = Part(i)
    BY <1>3
<1>7. Spread(Parts, n, T)
    BY <1>1, <1>4, <1>5, <1>6 DEF Spread
<1>8. ValuesOf(Parts, n) = [i \in 1 .. n |-> FlattenSeq(Each(i))]
    BY <1>4, <1>6 DEF ValuesOf
<1>9. [i \in DOMAIN responses |-> FlattenSeq([j \in DOMAIN responses[i].members |-> Values(i, j)])] =
          [i \in 1 .. n |-> FlattenSeq(Each(i))]
    BY <1>1 DEF Each
<1> QED BY <1>7, <1>8, <1>9

LEMMA ValuesOk == IInv => ValuesFromTheStart
<1> DEFINE all == FlattenSeq([i \in DOMAIN responses |->
                      FlattenSeq([j \in DOMAIN responses[i].members |-> Values(i, j)])])
           n == Len(queries)
           T == Nat \X Nat \X Nat
<1> SUFFICES ASSUME IInv, phase = "paged", result.ok, ~OfGetFeature, ~spp.hits, spp.start_index = 0, FitsInt(spp)
             PROVE  /\ ~result.val.past
                    /\ result.val.matched = Len(all)
                    /\ result.val.members =
                           SubSeq(all, 1, IF spp.have_counts /\ spp.count < Len(all) THEN spp.count ELSE Len(all))
    BY DEF ValuesFromTheStart
<1>1. spp \in Presentations
    BY DEF IInv
<1>2. /\ spp.hits = FALSE /\ spp.have_counts \in BOOLEAN /\ spp.count \in Nat /\ spp.count < Half
      /\ spp.hits \in BOOLEAN
    BY <1>1, PresentationsAssumption, RangesAssumption DEF FitsInt, Half
<1>3. result = PropertyValues(spp)
  <2> SUFFICES ASSUME result = Features(spp) PROVE FALSE
    BY DEF IInv
  <2>1. CASE Len(queries) # 1
    <3>1. result = execute_multiple_queries(spp, responses)
      BY <2>1 DEF Features
    <3>2. "past" \notin DOMAIN result.val
      BY <3>1, SeveralHaveNoPast
    <3> QED BY <3>2 DEF OfGetFeature
  <2>2. CASE Len(queries) = 1
    <3>1. result = execute_single_query(spp, responses[1], request.form # "stored")
      BY <2>2, FailsWithoutCode DEF Features
    <3>2. "past" \notin DOMAIN result.val
      BY <1>2, <3>1, SingleHasNoPast
    <3> QED BY <3>2 DEF OfGetFeature
  <2> QED BY <2>1, <2>2
<1>4. result = GetPropertyValue_execute(spp, Parts)
    BY <1>3, FailsWithoutCode DEF PropertyValues
<1>5. Spread(Parts, n, T) /\ FlattenSeq(ValuesOf(Parts, n)) = all
    BY ValuesSpread
<1> HIDE DEF all, n, T
<1> QED BY <1>2, <1>4, <1>5, ValuesReturned

\* GetPropertyValue without a start index returns the first count values over
\* all responses and members, counts them all and reads no member that is not
\* there, however the values are spread and whether or not a filter looks at
\* each member on its own (GetPropertyValue.cpp:326 and :389).
THEOREM ValuesAlwaysFromTheStart == Spec => []ValuesFromTheStart
BY AlwaysIInv, ValuesOk, PTL
=============================================================================
