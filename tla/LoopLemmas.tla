----------------------------- MODULE LoopLemmas -----------------------------
(***************************************************************************)
(* What proofs about loops need: induction over numbers and sequences, the *)
(* loops that collect results (FlattenSeq) and the loops and blocks of     *)
(* tests that stop at the first failure (All and Checked of Outcome).      *)
(*                                                                         *)
(* The induction theorems of the library have an operator parameter; the   *)
(* ones here speak of a set instead, the set of the numbers or sequences   *)
(* for which the induction hypothesis holds.  They follow from the well-   *)
(* foundedness of the natural numbers, by way of a least counterexample.   *)
(***************************************************************************)
EXTENDS Integers, Outcome, SequencesExt, SequenceTheorems, FiniteSetTheorems,
        WellFoundedInduction, TLAPS

\* A nonempty set of numbers has a least one.
LEMMA LeastNumber ==
    ASSUME NEW S, S \subseteq Nat, S # {}
    PROVE  \E n \in S : \A m \in S : n <= m
<1>1. IsWellFoundedOn(OpToRel(<, Nat), Nat)
    BY NatLessThanWellFounded
<1>2. PICK n \in S : \A m \in S : <<m, n>> \notin OpToRel(<, Nat)
    BY <1>1, WFMin
<1>3. \A m \in S : ~(m < n)
    BY <1>2 DEF OpToRel
<1> QED BY <1>3

\* A set with 0 and the successor of each of its numbers has all numbers.
LEMMA NatSetInduction ==
    ASSUME NEW S, 0 \in S, \A n \in Nat : n \in S => n + 1 \in S
    PROVE  Nat \subseteq S
<1> DEFINE Missing == Nat \ S
<1> SUFFICES ASSUME Missing # {} PROVE FALSE
    OBVIOUS
<1>1. PICK x \in Missing : \A y \in Missing : x <= y
  <2>1. Missing \subseteq Nat
    OBVIOUS
  <2> HIDE DEF Missing
  <2> QED BY <2>1, LeastNumber
<1>2. x - 1 \in Nat /\ x - 1 \notin Missing
    BY <1>1
<1> QED BY <1>2

\* A set with the empty sequence and each of its sequences with one more
\* element has all sequences.
LEMMA SeqSetInduction ==
    ASSUME NEW T, NEW S, <<>> \in S,
           \A s \in Seq(T), e \in T : s \in S => Append(s, e) \in S
    PROVE  Seq(T) \subseteq S
<1> DEFINE N == {n \in Nat : \A s \in Seq(T) : Len(s) = n => s \in S}
<1>1. 0 \in N
    BY EmptySeq
<1>2. ASSUME NEW n \in Nat, n \in N PROVE n + 1 \in N
  <2> SUFFICES ASSUME NEW s \in Seq(T), Len(s) = n + 1 PROVE s \in S
    OBVIOUS
  <2>1. PICK f \in Seq(T), e \in T : s = Append(f, e)
    <3>1. s # <<>>
      OBVIOUS
    <3> QED BY <3>1, SequenceEmptyOrAppend
  <2>2. Len(f) = n
    BY <2>1
  <2> QED BY <2>1, <2>2, <1>2
<1> HIDE DEF N
<1>3. Nat \subseteq N
    BY <1>1, <1>2, NatSetInduction
<1> QED BY <1>3, LenProperties DEF N
-----------------------------------------------------------------------------
(* FlattenSeq *)

\* The function by which FlattenSeq is defined: g[i] has the first i sequences.
IsFlat(g, seqs) ==
    g = [i \in 1 .. Len(seqs) |-> IF i = 1 THEN seqs[i] ELSE g[i - 1] \o seqs[i]]

LEMMA FlatSteps ==
    ASSUME NEW g, NEW seqs, IsFlat(g, seqs)
    PROVE  \A i \in 1 .. Len(seqs) : g[i] = IF i = 1 THEN seqs[i] ELSE g[i - 1] \o seqs[i]
BY DEF IsFlat

\* There is such a function: the one of a shorter sequence is extended.
LEMMA FlatExists ==
    ASSUME NEW T, NEW seqs \in Seq(Seq(T))
    PROVE  \E g : IsFlat(g, seqs)
<1> DEFINE S == {s \in Seq(Seq(T)) : \E g : IsFlat(g, s)}
<1>1. <<>> \in S
  <2>1. IsFlat(<<>>, <<>>)
    BY DEF IsFlat
  <2> QED BY <2>1
<1>2. ASSUME NEW s \in Seq(Seq(T)), NEW e \in Seq(T), s \in S PROVE Append(s, e) \in S
  <2>1. PICK g : IsFlat(g, s)
    BY <1>2
  <2> DEFINE a == Append(s, e)
             n == Len(s)
             h == [i \in 1 .. n + 1 |-> IF i <= n THEN g[i] ELSE IF i = 1 THEN e ELSE g[n] \o e]
  <2>2. /\ a \in Seq(Seq(T)) /\ Len(a) = n + 1 /\ n \in Nat
        /\ a[n + 1] = e /\ \A i \in 1 .. n : a[i] = s[i]
    BY AppendProperties, LenProperties
  <2>3. \A i \in 1 .. n : g[i] = IF i = 1 THEN s[i] ELSE g[i - 1] \o s[i]
    BY <2>1, FlatSteps
  <2>4. ASSUME NEW i \in 1 .. n + 1
        PROVE  h[i] = IF i = 1 THEN a[i] ELSE h[i - 1] \o a[i]
    <3>1. CASE i <= n
      <4>1. i \in 1 .. n /\ h[i] = g[i] /\ a[i] = s[i] /\ (i # 1 => h[i - 1] = g[i - 1])
        BY <3>1, <2>2
      <4> QED BY <4>1, <2>3
    <3>2. CASE ~(i <= n)
      <4>1. i = n + 1 /\ a[i] = e /\ (i # 1 => h[i - 1] = g[n])
        BY <3>2, <2>2
      <4>2. h[i] = IF i = 1 THEN e ELSE g[n] \o e
        BY <3>2, <2>2
      <4> QED BY <4>1, <4>2
    <3> QED BY <3>1, <3>2
  <2>5. IsFlat(h, a)
    <3> HIDE DEF h
    <3>1. DOMAIN h = 1 .. n + 1 /\ h = [i \in 1 .. n + 1 |-> h[i]]
      BY DEF h
    <3> QED BY <2>2, <2>4, <3>1 DEF IsFlat
  <2> QED BY <2>2, <2>5
<1> HIDE DEF S
<1>3. Seq(Seq(T)) \subseteq S
    BY <1>1, <1>2, SeqSetInduction
<1> QED BY <1>3 DEF S

LEMMA FlattenIs ==
    ASSUME NEW T, NEW seqs \in Seq(Seq(T)), Len(seqs) # 0
    PROVE  \E g : IsFlat(g, seqs) /\ FlattenSeq(seqs) = g[Len(seqs)]
<1>1. \E g : IsFlat(g, seqs)
    BY FlatExists
<1> QED BY <1>1 DEF FlattenSeq, IsFlat

LEMMA FlattenEmpty == FlattenSeq(<<>>) = <<>>
BY DEF FlattenSeq

LEMMA FlatType ==
    ASSUME NEW T, NEW seqs \in Seq(Seq(T)), NEW g, IsFlat(g, seqs)
    PROVE  \A i \in 1 .. Len(seqs) : g[i] \in Seq(T)
<1> DEFINE N == {n \in Nat : n \in 1 .. Len(seqs) => g[n] \in Seq(T)}
<1>1. 0 \in N
    OBVIOUS
<1>2. ASSUME NEW n \in Nat, n \in N PROVE n + 1 \in N
  <2> SUFFICES ASSUME n + 1 \in 1 .. Len(seqs) PROVE g[n + 1] \in Seq(T)
    OBVIOUS
  <2>1. /\ seqs[n + 1] \in Seq(T)
        /\ g[n + 1] = IF n = 0 THEN seqs[n + 1] ELSE g[n] \o seqs[n + 1]
    <3>1. (n + 1 = 1) = (n = 0) /\ (n + 1) - 1 = n
      OBVIOUS
    <3>2. g[n + 1] = IF n + 1 = 1 THEN seqs[n + 1] ELSE g[(n + 1) - 1] \o seqs[n + 1]
      BY FlatSteps
    <3> QED BY <3>1, <3>2, ElementOfSeq
  <2>2. n # 0 => g[n] \in Seq(T)
    BY <1>2, LenProperties
  <2> QED BY <2>1, <2>2, ConcatProperties
<1> HIDE DEF N
<1>3. Nat \subseteq N
    BY <1>1, <1>2, NatSetInduction
<1> QED BY <1>3, LenProperties DEF N

\* Sequences over a set are flattened to a sequence over that set.
LEMMA FlattenType ==
    ASSUME NEW T, NEW seqs \in Seq(Seq(T))
    PROVE  FlattenSeq(seqs) \in Seq(T)
<1>1. CASE Len(seqs) = 0
    BY <1>1, EmptySeq, FlattenEmpty
<1>2. CASE Len(seqs) # 0
    BY <1>2, FlattenIs, FlatType, LenProperties
<1> QED BY <1>1, <1>2

\* One more sequence is put at the end.
LEMMA FlattenAppend ==
    ASSUME NEW T, NEW seqs \in Seq(Seq(T)), NEW s \in Seq(T)
    PROVE  FlattenSeq(Append(seqs, s)) = FlattenSeq(seqs) \o s
<1> DEFINE a == Append(seqs, s)
           m == Len(seqs)
<1>1. /\ a \in Seq(Seq(T)) /\ Len(a) = m + 1 /\ m \in Nat
      /\ a[m + 1] = s /\ \A i \in 1 .. m : a[i] = seqs[i]
    BY AppendProperties, LenProperties
<1>2. PICK h : IsFlat(h, a) /\ FlattenSeq(a) = h[m + 1]
  <2>1. Len(a) # 0
    BY <1>1
  <2>2. \E h : IsFlat(h, a) /\ FlattenSeq(a) = h[Len(a)]
    <3> HIDE DEF a
    <3> QED BY <1>1, <2>1, FlattenIs
  <2> QED BY <1>1, <2>2
<1>3. \A i \in 1 .. m + 1 : h[i] = IF i = 1 THEN a[i] ELSE h[i - 1] \o a[i]
  <2>1. \A i \in 1 .. Len(a) : h[i] = IF i = 1 THEN a[i] ELSE h[i - 1] \o a[i]
    BY <1>2, FlatSteps
  <2> QED BY <1>1, <2>1
<1>4. CASE m = 0
  <2>1. FlattenSeq(seqs) = <<>>
    BY <1>4, EmptySeq, FlattenEmpty
  <2>2. h[1] = s
    BY <1>1, <1>3, <1>4
  <2> QED BY <1>2, <1>4, <2>1, <2>2, ConcatEmptySeq
<1>5. CASE m # 0
  <2>1. PICK g : IsFlat(g, seqs) /\ FlattenSeq(seqs) = g[m]
    BY <1>5, FlattenIs
  <2>2. \A i \in 1 .. m : g[i] = IF i = 1 THEN seqs[i] ELSE g[i - 1] \o seqs[i]
    BY <2>1, FlatSteps
  <2> DEFINE N == {n \in Nat : n \in 1 .. m => g[n] = h[n]}
  <2>3. 0 \in N
    OBVIOUS
  <2>4. ASSUME NEW n \in Nat, n \in N PROVE n + 1 \in N
    <3> SUFFICES ASSUME n + 1 \in 1 .. m PROVE g[n + 1] = h[n + 1]
      OBVIOUS
    <3>1. /\ g[n + 1] = IF n = 0 THEN seqs[n + 1] ELSE g[n] \o seqs[n + 1]
          /\ h[n + 1] = IF n = 0 THEN a[n + 1] ELSE h[n] \o a[n + 1]
      BY <1>1, <1>3, <2>2
    <3>2. a[n + 1] = seqs[n + 1]
      BY <1>1
    <3>3. n # 0 => g[n] = h[n]
      BY <1>1, <2>4
    <3> QED BY <3>1, <3>2, <3>3
  <2> HIDE DEF N
  <2>5. Nat \subseteq N
    BY <2>3, <2>4, NatSetInduction
  <2>6. g[m] = h[m]
    BY <1>1, <1>5, <2>5 DEF N
  <2>7. h[m + 1] = h[m] \o s
    <3>1. m + 1 \in 1 .. m + 1 /\ m + 1 # 1 /\ (m + 1) - 1 = m
      BY <1>1, <1>5
    <3> QED BY <1>1, <1>3, <3>1
  <2> QED BY <1>2, <2>1, <2>6, <2>7
<1> QED BY <1>4, <1>5
-----------------------------------------------------------------------------
(* Outcome *)

\* A block of tests that is passed: none of them refuses, and what follows
\* the block is its outcome.
LEMMA CheckedOk ==
    ASSUME NEW n \in Nat, NEW checks, DOMAIN checks = 1 .. n, NEW r, Checked(checks, r).ok
    PROVE  Checked(checks, r) = r /\ \A i \in 1 .. n : ~checks[i][1]
<1> DEFINE Hit(i) == checks[i][1] /\ \A j \in 1 .. i - 1 : ~checks[j][1]
<1>1. ~\E i \in DOMAIN checks : Hit(i)
  <2> SUFFICES ASSUME \E i \in DOMAIN checks : Hit(i) PROVE ~Checked(checks, r).ok
    OBVIOUS
  <2> QED BY DEF Checked, Fail, Throw
<1>2. Checked(checks, r) = r
    BY <1>1 DEF Checked
<1>3. ASSUME NEW i \in 1 .. n, checks[i][1] PROVE FALSE
  <2> DEFINE Refused == {j \in 1 .. n : checks[j][1]}
  <2>1. PICK j \in Refused : \A k \in Refused : j <= k
    <3>1. Refused \subseteq Nat /\ Refused # {}
      BY <1>3
    <3> HIDE DEF Refused
    <3> QED BY <3>1, LeastNumber
  <2>2. Hit(j)
    BY <2>1
  <2> QED BY <1>1, <2>1, <2>2
<1> QED BY <1>2, <1>3

\* One to four tests in a row.
LEMMA OneCheck ==
    ASSUME NEW a, NEW r, Checked(<<a>>, r).ok
    PROVE  Checked(<<a>>, r) = r /\ ~a[1]
<1> DEFINE checks == <<a>>
<1>1. DOMAIN checks = 1 .. 1 /\ checks[1] = a
    OBVIOUS
<1>2. Checked(checks, r).ok
    OBVIOUS
<1> HIDE DEF checks
<1>3. Checked(checks, r) = r /\ \A i \in 1 .. 1 : ~checks[i][1]
    BY <1>1, <1>2, CheckedOk
<1> QED BY <1>1, <1>3 DEF checks

LEMMA TwoChecks ==
    ASSUME NEW a, NEW b, NEW r, Checked(<<a, b>>, r).ok
    PROVE  Checked(<<a, b>>, r) = r /\ ~a[1] /\ ~b[1]
<1> DEFINE checks == <<a, b>>
<1>1. DOMAIN checks = 1 .. 2 /\ checks[1] = a /\ checks[2] = b
    OBVIOUS
<1>2. Checked(checks, r).ok
    OBVIOUS
<1> HIDE DEF checks
<1>3. Checked(checks, r) = r /\ \A i \in 1 .. 2 : ~checks[i][1]
    BY <1>1, <1>2, CheckedOk
<1> QED BY <1>1, <1>3 DEF checks

LEMMA ThreeChecks ==
    ASSUME NEW a, NEW b, NEW c, NEW r, Checked(<<a, b, c>>, r).ok
    PROVE  Checked(<<a, b, c>>, r) = r /\ ~a[1] /\ ~b[1] /\ ~c[1]
<1> DEFINE checks == <<a, b, c>>
<1>1. DOMAIN checks = 1 .. 3 /\ checks[1] = a /\ checks[2] = b /\ checks[3] = c
    OBVIOUS
<1>2. Checked(checks, r).ok
    OBVIOUS
<1> HIDE DEF checks
<1>3. Checked(checks, r) = r /\ \A i \in 1 .. 3 : ~checks[i][1]
    BY <1>1, <1>2, CheckedOk
<1> QED BY <1>1, <1>3 DEF checks

LEMMA FourChecks ==
    ASSUME NEW a, NEW b, NEW c, NEW d, NEW r, Checked(<<a, b, c, d>>, r).ok
    PROVE  Checked(<<a, b, c, d>>, r) = r /\ ~a[1] /\ ~b[1] /\ ~c[1] /\ ~d[1]
<1> DEFINE checks == <<a, b, c, d>>
<1>1. /\ DOMAIN checks = 1 .. 4 /\ checks[1] = a /\ checks[2] = b
      /\ checks[3] = c /\ checks[4] = d
    OBVIOUS
<1>2. Checked(checks, r).ok
    OBVIOUS
<1> HIDE DEF checks
<1>3. Checked(checks, r) = r /\ \A i \in 1 .. 4 : ~checks[i][1]
    BY <1>1, <1>2, CheckedOk
<1> QED BY <1>1, <1>3 DEF checks

\* Tests none of which refuses.
LEMMA ChecksPass ==
    ASSUME NEW checks, \A i \in DOMAIN checks : ~checks[i][1], NEW r
    PROVE  Checked(checks, r) = r
BY DEF Checked

LEMMA OneCheckPasses ==
    ASSUME NEW a, ~a[1], NEW r
    PROVE  Checked(<<a>>, r) = r
<1> DEFINE checks == <<a>>
<1>1. \A i \in DOMAIN checks : ~checks[i][1]
    OBVIOUS
<1> HIDE DEF checks
<1>2. Checked(checks, r) = r
    BY <1>1, ChecksPass
<1> QED BY <1>2 DEF checks

LEMMA TwoChecksPass ==
    ASSUME NEW a, NEW b, ~a[1], ~b[1], NEW r
    PROVE  Checked(<<a, b>>, r) = r
<1> DEFINE checks == <<a, b>>
<1>1. \A i \in DOMAIN checks : ~checks[i][1]
    OBVIOUS
<1> HIDE DEF checks
<1>2. Checked(checks, r) = r
    BY <1>1, ChecksPass
<1> QED BY <1>2 DEF checks

\* A loop none of whose turns throws.
LEMMA AllPass ==
    ASSUME NEW rs, \A i \in DOMAIN rs : rs[i].ok
    PROVE  All(rs) = Ok([i \in DOMAIN rs |-> rs[i].val]) /\ All(rs).ok
BY DEF All, Ok

\* A loop that may throw and does not: no turn of it has failed, and its
\* outcome is the sequence of what they returned.
LEMMA AllOk ==
    ASSUME NEW n \in Nat, NEW rs, DOMAIN rs = 1 .. n, All(rs).ok
    PROVE  All(rs) = Ok([i \in 1 .. n |-> rs[i].val]) /\ \A i \in 1 .. n : rs[i].ok
<1> DEFINE Hit(i) == ~rs[i].ok /\ \A j \in 1 .. i - 1 : rs[j].ok
<1>1. ~\E i \in DOMAIN rs : Hit(i)
  <2> SUFFICES ASSUME \E i \in DOMAIN rs : Hit(i) PROVE ~All(rs).ok
    OBVIOUS
  <2> DEFINE c == CHOOSE i \in DOMAIN rs : Hit(i)
  <2>1. Hit(c)
    OBVIOUS
  <2>2. All(rs) = rs[c]
    BY DEF All
  <2> QED BY <2>1, <2>2
<1>2. All(rs) = Ok([i \in 1 .. n |-> rs[i].val])
    BY <1>1 DEF All
<1>3. ASSUME NEW i \in 1 .. n, ~rs[i].ok PROVE FALSE
  <2> DEFINE Failed == {j \in 1 .. n : ~rs[j].ok}
  <2>1. PICK j \in Failed : \A k \in Failed : j <= k
    <3>1. Failed \subseteq Nat /\ Failed # {}
      BY <1>3
    <3> HIDE DEF Failed
    <3> QED BY <3>1, LeastNumber
  <2>2. Hit(j)
    BY <2>1
  <2> QED BY <1>1, <2>1, <2>2
<1> QED BY <1>2, <1>3

-----------------------------------------------------------------------------
(* Finite sets of numbers as lists *)

\* The range of a function with a finite domain is finite.
LEMMA RangeFinite ==
    ASSUME NEW S, IsFiniteSet(S), NEW T, NEW f \in [S -> T]
    PROVE  IsFiniteSet(Range(f))
<1>1. f \in Surjection(S, Range(f))
  BY DEF Surjection, Range
<1> QED  BY <1>1, FS_Surjection

\* The number of smaller elements tells the elements of a finite set apart and
\* takes every value below the cardinality.
LEMMA Ranks ==
    ASSUME NEW S \in SUBSET Int, IsFiniteSet(S)
    PROVE  LET rank == [x \in S |-> Cardinality({y \in S : y < x})] IN
           /\ Cardinality(S) \in Nat
           /\ \A x \in S : rank[x] \in 0 .. Cardinality(S) - 1
           /\ \A x, z \in S : x < z => rank[x] < rank[z]
           /\ \A n \in 0 .. Cardinality(S) - 1 : \E x \in S : rank[x] = n
<1> DEFINE Below(x) == {y \in S : y < x}
           T == 0 .. Cardinality(S) - 1
           rank == [x \in S |-> Cardinality(Below(x))]
<1>1. Cardinality(S) \in Nat
  BY FS_CardinalityType
<1>2. ASSUME NEW x \in S
      PROVE  IsFiniteSet(Below(x)) /\ Cardinality(Below(x)) \in Nat
  <2>1. Below(x) \in SUBSET S
    OBVIOUS
  <2>2. IsFiniteSet(Below(x))
    BY <2>1, FS_Subset
  <2> QED  BY <2>2, FS_CardinalityType
<1>3. ASSUME NEW x \in S
      PROVE  Cardinality(Below(x)) < Cardinality(S)
  <2>1. Below(x) \in SUBSET S /\ Below(x) # S
    OBVIOUS
  <2> HIDE DEF Below
  <2>2. Cardinality(Below(x)) <= Cardinality(S) /\ Cardinality(Below(x)) # Cardinality(S)
    BY <2>1, FS_Subset
  <2> QED  BY <1>1, <1>2, <2>2
<1>4. ASSUME NEW x \in S, NEW z \in S, x < z
      PROVE  Cardinality(Below(x)) < Cardinality(Below(z))
  <2>1. Below(x) \in SUBSET Below(z) /\ Below(x) # Below(z)
    <3>1. x \in Below(z) /\ x \notin Below(x)
      BY <1>4
    <3>2. \A y \in S : y < x => y < z
      BY <1>4
    <3> QED  BY <3>1, <3>2
  <2> HIDE DEF Below
  <2>2. /\ Cardinality(Below(x)) <= Cardinality(Below(z))
        /\ Cardinality(Below(x)) # Cardinality(Below(z))
    BY <1>2, <2>1, FS_Subset
  <2> QED  BY <1>2, <2>2
<1> HIDE DEF Below
<1>5. rank \in [S -> T]
  BY <1>1, <1>2, <1>3
<1>6. rank \in Injection(S, T)
  <2>1. ASSUME NEW x \in S, NEW z \in S, x # z
        PROVE  rank[x] # rank[z]
    <3>1. x < z \/ z < x
      BY <2>1
    <3>2. CASE x < z
      BY <1>2, <1>4, <3>2
    <3>3. CASE z < x
      BY <1>2, <1>4, <3>3
    <3> QED  BY <3>1, <3>2, <3>3
  <2> HIDE DEF rank, T
  <2> QED  BY <1>5, <2>1 DEF Injection, IsInjective
<1>7. IsFiniteSet(T) /\ Cardinality(T) = Cardinality(S)
  <2>1. Cardinality(S) - 1 \in Int /\ 0 \in Int
    BY <1>1
  <2> QED  BY <1>1, <2>1, FS_Interval
<1>8. rank \in Surjection(S, T)
  <2> HIDE DEF rank, T
  <2> QED  BY <1>6, <1>7, FS_Injection
<1>9. \A n \in T : \E x \in S : rank[x] = n
  <2> HIDE DEF rank, T
  <2> QED  BY <1>8 DEF Surjection
<1>10. /\ \A x \in S : rank[x] \in T
       /\ \A x, z \in S : x < z => rank[x] < rank[z]
  BY <1>4, <1>5
<1> QED  BY <1>1, <1>9, <1>10 DEF Below

\* A finite set of numbers as a list, in their order: the n-th has n - 1
\* smaller ones.
InOrder(S) ==
    [n \in 1 .. Cardinality(S) |-> CHOOSE x \in S : Cardinality({y \in S : y < x}) = n - 1]

\* InOrder(S) has the elements of S in their order.
LEMMA InOrderElements ==
    ASSUME NEW S \in SUBSET Int, IsFiniteSet(S)
    PROVE  /\ InOrder(S) \in Seq(S) /\ Range(InOrder(S)) = S
           /\ \A i, j \in DOMAIN InOrder(S) : i < j => InOrder(S)[i] < InOrder(S)[j]
<1> DEFINE rank(x) == Cardinality({y \in S : y < x})
           s == InOrder(S)
<1>1. /\ Cardinality(S) \in Nat
      /\ \A x \in S : x \in Int /\ rank(x) \in 0 .. Cardinality(S) - 1
      /\ \A x, z \in S : x < z => rank(x) < rank(z)
      /\ \A n \in 0 .. Cardinality(S) - 1 : \E x \in S : rank(x) = n
  BY Ranks
<1>2. s = [n \in 1 .. Cardinality(S) |-> CHOOSE x \in S : rank(x) = n - 1]
  BY DEF InOrder
<1> HIDE DEF rank, s
<1>3. ASSUME NEW n \in 1 .. Cardinality(S)
      PROVE  s[n] \in S /\ rank(s[n]) = n - 1
  <2>1. n - 1 \in 0 .. Cardinality(S) - 1
    BY <1>1
  <2>2. \E x \in S : rank(x) = n - 1
    BY <1>1, <2>1
  <2>3. s[n] = CHOOSE x \in S : rank(x) = n - 1
    BY <1>2
  <2> QED  BY <2>2, <2>3
<1>4. DOMAIN s = 1 .. Cardinality(S)
  BY <1>2
<1>5. s \in Seq(S)
  BY <1>1, <1>2, <1>3
<1>6. ASSUME NEW x \in S PROVE x \in Range(s)
  <2>1. rank(x) + 1 \in 1 .. Cardinality(S) /\ (rank(x) + 1) - 1 = rank(x) /\ rank(x) \in Nat
    BY <1>1
  <2> DEFINE w == s[rank(x) + 1]
  <2>2. w \in S /\ rank(w) = rank(x) /\ w \in Int /\ x \in Int
    BY <1>1, <1>3, <2>1
  <2> HIDE DEF w
  <2>3. ~(w < x) /\ ~(x < w)
    BY <1>1, <2>1, <2>2
  <2>4. w = x
    BY <2>2, <2>3
  <2> QED  BY <1>4, <2>1, <2>4 DEF Range, w
<1>7. Range(s) = S
  BY <1>3, <1>4, <1>6 DEF Range
<1>8. ASSUME NEW i \in DOMAIN s, NEW j \in DOMAIN s, i < j
      PROVE  s[i] < s[j]
  <2> DEFINE a == s[i]
             b == s[j]
  <2>1. /\ a \in S /\ b \in S /\ rank(a) = i - 1 /\ rank(b) = j - 1
        /\ i \in Nat /\ j \in Nat
    BY <1>1, <1>3, <1>4
  <2> HIDE DEF a, b
  <2>2. a # b /\ ~(b < a) /\ a \in Int /\ b \in Int
    BY <1>1, <1>8, <2>1
  <2>3. a < b
    BY <2>2
  <2> QED  BY <2>3 DEF a, b
<1> QED  BY <1>5, <1>7, <1>8 DEF s
=============================================================================
