--------------------------- MODULE HandlersProofs ---------------------------
(***************************************************************************)
(* What the answers of the handlers say, proved for every configuration,   *)
(* request and content of the engines.  An answer is what the handler      *)
(* makes of the parameters and the engines as they are (IInv); most of the *)
(* module is about what the handlers' loops keep, stated for the operators *)
(* and without the variables.                                              *)
(***************************************************************************)
EXTENDS Handlers, LoopLemmas

-----------------------------------------------------------------------------
(* Lists *)

\* A list of n elements: a function of the numbers up to n.
IsList(s, n) == s = [i \in 1 .. n |-> s[i]]

LEMMA ListOf ==
    ASSUME NEW n \in Nat, NEW s, IsList(s, n)
    PROVE  Len(s) = n /\ DOMAIN s = 1 .. n /\ IsVector(s)
<1>1. s \in [1 .. n -> Range(s)]
    BY DEF Range, IsList
<1>2. s \in Seq(Range(s))
    BY <1>1
<1>3. Len(s) = n /\ DOMAIN s = 1 .. n
    BY <1>1, <1>2
<1> QED BY <1>2, <1>3 DEF IsVector

\* A vector is a list of its length.
LEMMA VectorOf ==
    ASSUME NEW s, IsVector(s)
    PROVE  Len(s) \in Nat /\ DOMAIN s = 1 .. Len(s) /\ IsList(s, Len(s))
BY DEF IsVector, IsList

\* What a flattened list has was in one of its parts.
LEMMA FlattenMembers ==
    ASSUME NEW n \in Nat, NEW ss, IsList(ss, n), \A i \in 1 .. n : IsVector(ss[i])
    PROVE  /\ IsVector(FlattenSeq(ss))
           /\ \A m \in DOMAIN FlattenSeq(ss) :
                 \E i \in 1 .. n : \E j \in DOMAIN ss[i] : FlattenSeq(ss)[m] = ss[i][j]
<1> DEFINE T == UNION {Range(ss[i]) : i \in 1 .. n}
           f == FlattenSeq(ss)
<1>1. \A i \in 1 .. n : ss[i] \in Seq(T)
  <2> SUFFICES ASSUME NEW i \in 1 .. n PROVE ss[i] \in Seq(T)
    OBVIOUS
  <2> DEFINE s == ss[i]
             R == Range(s)
  <2>1. s \in Seq(R) /\ \A x \in R : x \in T
    BY DEF IsVector
  <2> HIDE DEF s, R, T
  <2>2. Len(s) \in Nat /\ DOMAIN s = 1 .. Len(s) /\ \A k \in 1 .. Len(s) : s[k] \in T
    BY <2>1
  <2>3. s \in [1 .. Len(s) -> T]
    BY <2>1, <2>2
  <2>4. s \in Seq(T)
    BY <2>2, <2>3
  <2> QED BY <2>4 DEF s
<1> HIDE DEF T
<1>2. ss \in [1 .. n -> Seq(T)]
    BY <1>1 DEF IsList
<1>3. ss \in Seq(Seq(T))
    BY <1>2
<1>4. f \in Seq(T)
    BY <1>3, FlattenType
<1> HIDE DEF f
<1>5. Len(f) \in Nat /\ DOMAIN f = 1 .. Len(f) /\ IsList(f, Len(f))
    BY <1>4 DEF IsList
<1>6. IsVector(f)
    BY <1>5, ListOf
<1>7. ASSUME NEW m \in DOMAIN f
      PROVE  \E i \in 1 .. n : \E j \in DOMAIN ss[i] : f[m] = ss[i][j]
  <2>1. f[m] \in T
    BY <1>4, <1>5
  <2> QED BY <2>1 DEF T, Range
<1> QED BY <1>6, <1>7 DEF f

\* Two lists one after the other: a list of what is in the one or the other.
Joins(c, s, t) ==
    /\ IsVector(c)
    /\ \A m \in DOMAIN c : (\E i \in DOMAIN s : c[m] = s[i]) \/ (\E i \in DOMAIN t : c[m] = t[i])

LEMMA ConcatJoins ==
    ASSUME NEW s, NEW t, IsVector(s), IsVector(t)
    PROVE  Joins(s \o t, s, t)
<1> DEFINE S == Range(s)
           T == Range(t)
           U == S \cup T
           c == s \o t
<1>1. s \in Seq(S) /\ t \in Seq(T)
    BY DEF IsVector
<1>2. (\A x \in S : \E i \in DOMAIN s : x = s[i]) /\ \A x \in T : \E i \in DOMAIN t : x = t[i]
    BY DEF Range
<1> HIDE DEF S, T
<1>3. s \in Seq(U) /\ t \in Seq(U)
  <2>1. ASSUME NEW q, NEW Q, q \in Seq(Q), Q \subseteq U PROVE q \in Seq(U)
    <3>1. Len(q) \in Nat /\ DOMAIN q = 1 .. Len(q) /\ q \in [1 .. Len(q) -> U]
      BY <2>1
    <3> QED BY <3>1
  <2> QED BY <1>1, <2>1
<1>4. c \in Seq(U)
    BY <1>3
<1> HIDE DEF c
<1>5. Len(c) \in Nat /\ DOMAIN c = 1 .. Len(c) /\ IsList(c, Len(c))
    BY <1>4 DEF IsList
<1>6. IsVector(c)
    BY <1>5, ListOf
<1>7. \A m \in DOMAIN c : c[m] \in S \/ c[m] \in T
    BY <1>4, <1>5
<1>8. Joins(c, s, t)
    BY <1>2, <1>6, <1>7 DEF Joins
<1> QED BY <1>8 DEF c

\* A set of positions is finite, and Ordered lists them.
LEMMA OrderedPositions ==
    ASSUME NEW n \in Nat, NEW S, S \in SUBSET (1 .. n)
    PROVE  /\ Ordered(S) \in Seq(S) /\ Range(Ordered(S)) = S
           /\ IsVector(Ordered(S))
           /\ \A i, j \in DOMAIN Ordered(S) : i < j => Ordered(S)[i] < Ordered(S)[j]
<1>1. IsFiniteSet(1 .. n)
  <2>1. 1 \in Int /\ n \in Int
    OBVIOUS
  <2> QED BY <2>1, FS_Interval
<1>2. IsFiniteSet(S)
    BY <1>1, FS_Subset
<1>4. S \in SUBSET Int
    OBVIOUS
<1>3. Ordered(S) = InOrder(S)
    BY DEF Ordered, InOrder
<1> QED BY <1>2, <1>3, <1>4, InOrderElements DEF IsVector

\* So it is with a set of numbers that some list has.
LEMMA OrderedNumbers ==
    ASSUME NEW n \in Nat, NEW f \in [1 .. n -> Int], NEW S, S \subseteq Range(f)
    PROVE  /\ IsVector(Ordered(S)) /\ Range(Ordered(S)) = S
           /\ \A i, j \in DOMAIN Ordered(S) : i < j => Ordered(S)[i] < Ordered(S)[j]
<1>1. IsFiniteSet(1 .. n)
  <2>1. 1 \in Int /\ n \in Int
    OBVIOUS
  <2> QED BY <2>1, FS_Interval
<1>2. IsFiniteSet(Range(f))
    BY <1>1, RangeFinite
<1>3. Range(f) \subseteq Int
    BY DEF Range
<1>4. IsFiniteSet(S) /\ S \in SUBSET Int
    BY <1>2, <1>3, FS_Subset
<1>5. Ordered(S) = InOrder(S)
    BY DEF Ordered, InOrder
<1> QED BY <1>4, <1>5, InOrderElements DEF IsVector

\* What a loop picks from a list at some positions.
PickedFrom(q, s, S) ==
    /\ IsVector(q)
    /\ \A m \in DOMAIN q : \E i \in S : q[m] = s[i]
    /\ \A i \in S : \E m \in DOMAIN q : q[m] = s[i]

LEMMA PickedIs ==
    ASSUME NEW n \in Nat, NEW s, DOMAIN s = 1 .. n, NEW S, S \in SUBSET (1 .. n)
    PROVE  PickedFrom(Picked(s, S), s, S)
<1> DEFINE at == Ordered(S)
           p == Picked(s, S)
<1>1. at \in Seq(S) /\ Range(at) = S
    BY OrderedPositions
<1>2. p = [m \in DOMAIN at |-> s[at[m]]]
    BY DEF Picked
<1> HIDE DEF at, p
<1>3. Len(at) \in Nat /\ DOMAIN at = 1 .. Len(at) /\ \A m \in DOMAIN at : at[m] \in S
    BY <1>1
<1>4. DOMAIN p = 1 .. Len(at) /\ IsList(p, Len(at)) /\ \A m \in DOMAIN p : p[m] = s[at[m]]
    BY <1>2, <1>3 DEF IsList
<1>5. IsVector(p)
    BY <1>3, <1>4, ListOf
<1>6. \A i \in S : \E m \in DOMAIN at : at[m] = i
    BY <1>1 DEF Range
<1>7. \A m \in DOMAIN p : \E i \in S : p[m] = s[i]
    BY <1>3, <1>4
<1>8. \A i \in S : \E m \in DOMAIN p : p[m] = s[i]
    BY <1>3, <1>4, <1>6
<1>9. PickedFrom(p, s, S)
    BY <1>5, <1>7, <1>8 DEF PickedFrom
<1> QED BY <1>9 DEF p

LEMMA PickedMembers ==
    ASSUME NEW n \in Nat, NEW s, DOMAIN s = 1 .. n, NEW S, S \in SUBSET (1 .. n)
    PROVE  /\ IsVector(Picked(s, S))
           /\ \A m \in DOMAIN Picked(s, S) : \E i \in S : Picked(s, S)[m] = s[i]
           /\ \A i \in S : \E m \in DOMAIN Picked(s, S) : Picked(s, S)[m] = s[i]
<1>1. PickedFrom(Picked(s, S), s, S)
    BY PickedIs
<1> QED BY <1>1 DEF PickedFrom
-----------------------------------------------------------------------------
(* Forecasts *)

\* The rows of one place: all of it and of the run they are read from.
LEMMA LocationRows ==
    ASSUME NEW p, NEW e, NEW place, NEW producer, NEW run, NEW levels, NEW heights,
           IsFiniteSet(heights),
           IsVector(e.models[producer].levels), IsVector(e.models[producer].times)
    PROVE  LET rows == set_location_rows(p, e, place, producer, run, levels, heights)
           IN  /\ IsVector(rows)
               /\ \A k \in DOMAIN rows : rows[k].origin = run /\ rows[k].site = place
<1> DEFINE model == e.models[producer]
           lv == model.levels
           tm == model.times
           used == IF heights # {} THEN Ordered(heights)
                   ELSE Picked(lv, {i \in DOMAIN lv : levels = {} \/ lv[i] \in levels})
           times == time_list(p, model)
           Part(i) == [j \in DOMAIN times |-> [site |-> place, level |-> used[i], time |-> times[j],
                                               producer |-> producer, origin |-> run]]
           parts == [i \in DOMAIN used |-> Part(i)]
           rows == FlattenSeq(parts)
<1>1. set_location_rows(p, e, place, producer, run, levels, heights) = rows
    BY DEF set_location_rows
<1>2. \E n \in Nat : DOMAIN used = 1 .. n
  <2>1. CASE heights # {}
    <3>1. used = Ordered(heights)
      BY <2>1
    <3>2. Cardinality(heights) \in Nat
      BY FS_CardinalityType
    <3>3. DOMAIN Ordered(heights) = 1 .. Cardinality(heights)
      BY DEF Ordered
    <3> HIDE DEF used
    <3> QED BY <3>1, <3>2, <3>3
  <2>2. CASE heights = {}
    <3> DEFINE S == {i \in DOMAIN lv : levels = {} \/ lv[i] \in levels}
    <3>1. used = Picked(lv, S) /\ S \in SUBSET DOMAIN lv
      BY <2>2
    <3>2. Len(lv) \in Nat /\ DOMAIN lv = 1 .. Len(lv)
      BY VectorOf
    <3> HIDE DEF used, lv, S
    <3>3. IsVector(used)
      BY <3>1, <3>2, PickedMembers
    <3> QED BY <3>3, VectorOf
  <2> QED BY <2>1, <2>2
<1>3. \E m \in Nat : DOMAIN times = 1 .. m
  <2> DEFINE S == {i \in DOMAIN tm : p["begintime"][1] <= tm[i] /\ tm[i] <= p["endtime"][1]}
  <2>1. times = Picked(tm, S) /\ S \in SUBSET DOMAIN tm
    BY DEF time_list
  <2>2. Len(tm) \in Nat /\ DOMAIN tm = 1 .. Len(tm)
    BY VectorOf
  <2> HIDE DEF times, tm, S
  <2>3. IsVector(times)
    BY <2>1, <2>2, PickedMembers
  <2> QED BY <2>3, VectorOf
<1> HIDE DEF used, times
<1>4. PICK n \in Nat : DOMAIN used = 1 .. n
    BY <1>2
<1>5. PICK m \in Nat : DOMAIN times = 1 .. m
    BY <1>3
<1>6. \A i \in 1 .. n : IsVector(Part(i))
  <2> SUFFICES ASSUME NEW i \in 1 .. n PROVE IsVector(Part(i))
    OBVIOUS
  <2>1. IsList(Part(i), m)
    BY <1>5 DEF IsList
  <2> HIDE DEF Part
  <2> QED BY <2>1, ListOf
<1>7. IsList(parts, n) /\ \A i \in 1 .. n : parts[i] = Part(i)
    BY <1>4 DEF IsList
<1>8. \A i \in 1 .. n : \A j \in DOMAIN Part(i) : Part(i)[j].origin = run /\ Part(i)[j].site = place
    OBVIOUS
<1> HIDE DEF Part, parts
<1>9. /\ IsVector(rows)
      /\ \A k \in DOMAIN rows : \E i \in 1 .. n : \E j \in DOMAIN parts[i] : rows[k] = parts[i][j]
  <2>1. \A i \in 1 .. n : IsVector(parts[i])
    BY <1>6, <1>7
  <2> QED BY <1>7, <2>1, FlattenMembers
<1> HIDE DEF rows
<1>10. \A k \in DOMAIN rows : rows[k].origin = run /\ rows[k].site = place
    BY <1>7, <1>8, <1>9
<1> QED BY <1>1, <1>9, <1>10

\* One turn of the loop over the places, and the function by which the loop
\* is defined.
NoRows(p) == Ok([origin |-> parse_times(p), reported |-> parse_times(p), rows |-> <<>>])
LocationTurn(p, e, levels, heights, place, st) ==
    Then(select_producer(p, e, place), LAMBDA producer :
    Then(get_model(e, producer, st.origin), LAMBDA run :
    LET first == st.reported = <<>>
    IN  Then(check_level_options(e, producer, levels, heights), LAMBDA x :
        Ok([origin |-> IF first /\ ~e.models[producer].multifile THEN <<run>> ELSE st.origin,
            reported |-> IF first THEN <<run>> ELSE st.reported,
            rows |-> st.rows \o set_location_rows(p, e, place, producer, run, levels, heights)]))))
LocationStep(p, e, levels, heights, i, r) ==
    IF r.ok THEN LocationTurn(p, e, levels, heights, p["places"][i], r.val) ELSE r
LocationTurns(f, n, p, e, levels, heights) ==
    f = [i \in 0 .. n |-> IF i = 0 THEN NoRows(p) ELSE LocationStep(p, e, levels, heights, i, f[i - 1])]

LEMMA LocationTurnsExist ==
    ASSUME NEW p, NEW e, NEW levels, NEW heights
    PROVE  \A n \in Nat : \E f : LocationTurns(f, n, p, e, levels, heights)
<1> DEFINE Step(i, r) == LocationStep(p, e, levels, heights, i, r)
           N == {n \in Nat : \E f : LocationTurns(f, n, p, e, levels, heights)}
<1>0. \A f, n : LocationTurns(f, n, p, e, levels, heights) <=>
                  f = [i \in 0 .. n |-> IF i = 0 THEN NoRows(p) ELSE Step(i, f[i - 1])]
    BY DEF LocationTurns
<1> HIDE DEF Step
<1>1. 0 \in N
  <2> DEFINE f == [i \in 0 .. 0 |-> NoRows(p)]
  <2>1. f = [i \in 0 .. 0 |-> IF i = 0 THEN NoRows(p) ELSE Step(i, f[i - 1])]
    OBVIOUS
  <2> HIDE DEF f
  <2> QED BY <1>0, <2>1
<1>2. ASSUME NEW n \in Nat, n \in N PROVE n + 1 \in N
  <2>1. PICK f : f = [i \in 0 .. n |-> IF i = 0 THEN NoRows(p) ELSE Step(i, f[i - 1])]
    BY <1>0, <1>2
  <2> DEFINE g == [i \in 0 .. n + 1 |-> IF i <= n THEN f[i] ELSE Step(n + 1, f[n])]
  <2>2. \A i \in 0 .. n : f[i] = IF i = 0 THEN NoRows(p) ELSE Step(i, f[i - 1])
    BY <2>1
  <2>3. ASSUME NEW i \in 0 .. n + 1
        PROVE  g[i] = IF i = 0 THEN NoRows(p) ELSE Step(i, g[i - 1])
    <3>1. CASE i <= n
      <4>1. i \in 0 .. n /\ g[i] = f[i] /\ (i # 0 => g[i - 1] = f[i - 1])
        BY <3>1
      <4> QED BY <4>1, <2>2
    <3>2. CASE ~(i <= n)
      <4>1. i = n + 1 /\ i # 0 /\ g[i - 1] = f[n]
        BY <3>2
      <4>2. g[i] = Step(n + 1, f[n])
        BY <3>2
      <4> QED BY <4>1, <4>2
    <3> QED BY <3>1, <3>2
  <2>4. g = [i \in 0 .. n + 1 |-> IF i = 0 THEN NoRows(p) ELSE Step(i, g[i - 1])]
    <3> HIDE DEF g
    <3>1. DOMAIN g = 0 .. n + 1 /\ g = [i \in 0 .. n + 1 |-> g[i]]
      BY DEF g
    <3> QED BY <2>3, <3>1
  <2> HIDE DEF g
  <2> QED BY <1>0, <2>4
<1> HIDE DEF N
<1>3. Nat \subseteq N
    BY <1>1, <1>2, NatSetInduction
<1> QED BY <1>3 DEF N

LEMMA ExtractForecastIs ==
    ASSUME NEW p, NEW e, NEW levels, NEW heights, Len(p["places"]) \in Nat
    PROVE  \E f : /\ LocationTurns(f, Len(p["places"]), p, e, levels, heights)
                  /\ extract_forecast(p, e, levels, heights) = f[Len(p["places"])]
<1> DEFINE n == Len(p["places"])
           F == CHOOSE f : LocationTurns(f, n, p, e, levels, heights)
<1>1. LocationTurns(F, n, p, e, levels, heights)
    BY LocationTurnsExist
<1>2. extract_forecast(p, e, levels, heights) = F[n]
    BY DEF extract_forecast, LocationTurns, LocationStep, LocationTurn, NoRows, Then
<1> QED BY <1>1, <1>2

\* What the loop over the places keeps: the run that is reported is the one
\* that is asked of every further model, and the one of every row, unless no
\* run was asked for and the first model is spread over several files.
OneRun(p, e, st) ==
    /\ IsVector(st.rows)
    /\ \/ st.reported = <<>> /\ st.origin = <<>> /\ st.rows = <<>>
       \/ /\ st.reported # <<>>
          /\ st.origin = st.reported /\ \A k \in DOMAIN st.rows : <<st.rows[k].origin>> = st.reported
       \/ /\ st.reported # <<>>
          /\ p["origintime"] = <<>> /\ e.models[select_producer(p, e, p["places"][1]).val].multifile

\* One place keeps it.
LEMMA TurnOneRun ==
    ASSUME NEW p, NEW e, NEW levels, NEW heights, IsFiniteSet(heights),
           \A m \in DOMAIN e.models : IsVector(e.models[m].levels) /\ IsVector(e.models[m].times),
           NEW i \in Nat \ {0}, NEW st, OneRun(p, e, st),
           i = 1 => st.reported = p["origintime"],
           i # 1 => st.reported # <<>>,
           p["origintime"] = <<>> \/ \E o : p["origintime"] = <<o>>,
           st.reported = <<>> \/ \E o : st.reported = <<o>>,
           LocationTurn(p, e, levels, heights, p["places"][i], st).ok
    PROVE  LET new == LocationTurn(p, e, levels, heights, p["places"][i], st).val
           IN  OneRun(p, e, new) /\ \E o : new.reported = <<o>>
<1> DEFINE place == p["places"][i]
           sel == select_producer(p, e, place)
           producer == sel.val
           got == get_model(e, producer, st.origin)
           run == got.val
           lev == check_level_options(e, producer, levels, heights)
           first == st.reported = <<>>
           rows == set_location_rows(p, e, place, producer, run, levels, heights)
           new == LocationTurn(p, e, levels, heights, place, st).val
<1>1. /\ sel.ok /\ got.ok /\ lev.ok
      /\ new.origin = IF first /\ ~e.models[producer].multifile THEN <<run>> ELSE st.origin
      /\ new.reported = IF first THEN <<run>> ELSE st.reported
      /\ new.rows = st.rows \o rows
    BY DEF LocationTurn, Then, Ok
<1>2. producer \in DOMAIN e.models /\ (st.origin # <<>> => run = st.origin[1])
    BY <1>1 DEF get_model, Ok, NoCode, Fail, Throw
<1>3. IsVector(rows) /\ \A k \in DOMAIN rows : rows[k].origin = run
    BY <1>2, LocationRows
<1>4. IsVector(st.rows)
    BY DEF OneRun
<1> SUFFICES OneRun(p, e, new) /\ \E o : new.reported = <<o>>
    OBVIOUS
<1> DEFINE old == st.rows
<1> HIDE DEF new, rows, run, producer, got, lev, old
<1>5. IsVector(old) /\ new.rows = old \o rows
    BY <1>1, <1>4 DEF old
<1>6. /\ IsVector(new.rows)
      /\ \A m \in DOMAIN new.rows :
             (\E k \in DOMAIN st.rows : new.rows[m] = st.rows[k]) \/ (\E k \in DOMAIN rows : new.rows[m] = rows[k])
  <2>1. Joins(old \o rows, old, rows)
    BY <1>3, <1>5, ConcatJoins
  <2>2. Joins(new.rows, old, rows)
    BY <1>5, <2>1
  <2> QED BY <2>2 DEF Joins, old
<1>7. \E o : new.reported = <<o>>
    BY <1>1
<1>8. new.reported # <<>>
    BY <1>7
<1>9. CASE first
  <2>1. st.origin = <<>> /\ st.rows = <<>> /\ i = 1 /\ p["origintime"] = <<>>
    BY <1>9 DEF OneRun
  <2>2. CASE e.models[producer].multifile
    <3>1. e.models[select_producer(p, e, p["places"][1]).val].multifile
      BY <2>1, <2>2 DEF producer
    <3> QED BY <1>6, <1>7, <1>8, <2>1, <3>1 DEF OneRun
  <2>3. CASE ~e.models[producer].multifile
    <3>1. new.origin = <<run>> /\ new.reported = <<run>>
      BY <1>1, <1>9, <2>3
    <3>2. \A m \in DOMAIN new.rows : new.rows[m].origin = run
      BY <1>3, <1>6, <2>1
    <3>3. \A m \in DOMAIN new.rows : <<new.rows[m].origin>> = new.reported
      BY <3>1, <3>2
    <3> QED BY <1>6, <1>7, <1>8, <3>1, <3>3 DEF OneRun
  <2> QED BY <2>2, <2>3
<1>10. CASE ~first
  <2>1. new.reported = st.reported /\ new.origin = st.origin
    BY <1>1, <1>10
  <2>2. CASE p["origintime"] = <<>> /\ e.models[select_producer(p, e, p["places"][1]).val].multifile
    BY <1>6, <1>7, <1>8, <2>2 DEF OneRun
  <2>3. CASE ~(p["origintime"] = <<>> /\ e.models[select_producer(p, e, p["places"][1]).val].multifile)
    <3>1. st.origin = st.reported /\ \A k \in DOMAIN st.rows : <<st.rows[k].origin>> = st.reported
      BY <1>10, <2>3 DEF OneRun
    <3>2. PICK o : st.reported = <<o>>
      BY <1>10
    <3>3. run = o
      BY <1>2, <3>1, <3>2
    <3>4. \A m \in DOMAIN new.rows : <<new.rows[m].origin>> = new.reported
      BY <1>3, <1>6, <2>1, <3>1, <3>2, <3>3
    <3> QED BY <1>6, <1>7, <1>8, <2>1, <3>1, <3>4 DEF OneRun
  <2> QED BY <2>2, <2>3
<1> QED BY <1>9, <1>10

\* So do all of them.
LEMMA ForecastOneRun ==
    ASSUME NEW p, NEW e, NEW levels, NEW heights, IsFiniteSet(heights),
           \A m \in DOMAIN e.models : IsVector(e.models[m].levels) /\ IsVector(e.models[m].times),
           IsVector(p["places"]),
           p["origintime"] = <<>> \/ \E o : p["origintime"] = <<o>>,
           extract_forecast(p, e, levels, heights).ok
    PROVE  OneRun(p, e, extract_forecast(p, e, levels, heights).val)
<1> DEFINE n == Len(p["places"])
<1>1. n \in Nat
    BY VectorOf
<1> HIDE DEF n
<1>2. PICK f : /\ LocationTurns(f, n, p, e, levels, heights)
               /\ extract_forecast(p, e, levels, heights) = f[n]
    BY <1>1, ExtractForecastIs DEF n
<1>3. \A i \in 0 .. n : f[i] = IF i = 0 THEN NoRows(p) ELSE LocationStep(p, e, levels, heights, i, f[i - 1])
    BY <1>2 DEF LocationTurns
<1> DEFINE Right(st) == OneRun(p, e, st) /\ (st.reported = <<>> \/ \E o : st.reported = <<o>>)
           N == {k \in Nat : k <= n /\ f[k].ok =>
                                /\ Right(f[k].val)
                                /\ k = 0 => f[k].val.reported = p["origintime"]
                                /\ k # 0 => f[k].val.reported # <<>>}
<1>4. 0 \in N
  <2> DEFINE st == NoRows(p).val
  <2>1. st.origin = p["origintime"] /\ st.reported = p["origintime"] /\ st.rows = <<>>
    BY DEF NoRows, Ok, parse_times
  <2>2. IsVector(<<>>)
    BY DEF IsVector
  <2> HIDE DEF st
  <2>3. OneRun(p, e, st)
    BY <2>1, <2>2 DEF OneRun
  <2>4. f[0] = NoRows(p)
    BY <1>1, <1>3
  <2> QED BY <2>1, <2>3, <2>4 DEF st
<1>5. ASSUME NEW k \in Nat, k \in N PROVE k + 1 \in N
  <2> SUFFICES ASSUME k + 1 <= n, f[k + 1].ok
               PROVE  Right(f[k + 1].val) /\ f[k + 1].val.reported # <<>>
    OBVIOUS
  <2> DEFINE i == k + 1
             st == f[k].val
             turn == LocationTurn(p, e, levels, heights, p["places"][i], st)
  <2>1. i \in 0 .. n /\ i # 0 /\ i - 1 = k /\ k <= n /\ i \in Nat \ {0}
    BY <1>1
  <2>2. f[i] = LocationStep(p, e, levels, heights, i, f[k])
    BY <1>3, <2>1
  <2>3. f[k].ok /\ f[i] = turn /\ turn.ok
    BY <2>2 DEF LocationStep
  <2>4. Right(st) /\ (i = 1 => st.reported = p["origintime"]) /\ (i # 1 => st.reported # <<>>)
    BY <1>5, <2>1, <2>3
  <2> HIDE DEF st, i
  <2>5. OneRun(p, e, turn.val) /\ \E o : turn.val.reported = <<o>>
    BY <2>1, <2>3, <2>4, TurnOneRun
  <2> QED BY <2>3, <2>5 DEF i
<1> HIDE DEF N
<1>6. Nat \subseteq N
    BY <1>4, <1>5, NatSetInduction
<1>7. n \in N
    BY <1>1, <1>6
<1> QED BY <1>1, <1>2, <1>7 DEF N

\* The rows of a group are rows of the answer.
LEMMA GroupRowsAre ==
    ASSUME NEW rows, IsVector(rows), NEW sites, NEW n \in Nat, DOMAIN sites = 1 .. n
    PROVE  LET out == set_group_data(rows, sites).rows
           IN  \A q \in DOMAIN out : \E k \in DOMAIN rows : out[q].data = rows[k] /\ out[q].row = k
<1> DEFINE Part(k) == Ordered({i \in DOMAIN rows : rows[i].site = sites[k]})
           parts == [k \in DOMAIN sites |-> Part(k)]
           mine == FlattenSeq(parts)
           out == set_group_data(rows, sites).rows
<1>1. out = [q \in DOMAIN mine |-> [row |-> mine[q], data |-> rows[mine[q]]]]
    BY DEF set_group_data
<1>2. \A k \in 1 .. n : IsVector(Part(k)) /\ Range(Part(k)) \subseteq DOMAIN rows
  <2> SUFFICES ASSUME NEW k \in 1 .. n PROVE IsVector(Part(k)) /\ Range(Part(k)) \subseteq DOMAIN rows
    OBVIOUS
  <2> DEFINE S == {i \in DOMAIN rows : rows[i].site = sites[k]}
  <2>1. Len(rows) \in Nat /\ S \in SUBSET (1 .. Len(rows)) /\ S \subseteq DOMAIN rows
    BY VectorOf
  <2>2. Part(k) = Ordered(S)
    OBVIOUS
  <2> HIDE DEF S, Part
  <2> QED BY <2>1, <2>2, OrderedPositions
<1>3. IsList(parts, n) /\ \A k \in 1 .. n : parts[k] = Part(k)
    BY DEF IsList
<1> HIDE DEF Part, parts
<1>4. \A m \in DOMAIN mine : \E i \in 1 .. n : \E j \in DOMAIN parts[i] : mine[m] = parts[i][j]
  <2>1. \A i \in 1 .. n : IsVector(parts[i])
    BY <1>2, <1>3
  <2> QED BY <1>3, <2>1, FlattenMembers
<1> HIDE DEF mine, out
<1>5. \A m \in DOMAIN mine : mine[m] \in DOMAIN rows
    BY <1>2, <1>3, <1>4 DEF Range
<1>6. \A q \in DOMAIN out : mine[q] \in DOMAIN rows /\ out[q].data = rows[mine[q]] /\ out[q].row = mine[q]
    BY <1>1, <1>5
<1> QED BY <1>6 DEF out

\* The groups of a forecast have its rows and the run it reports.
LEMMA ForecastGroupsAre ==
    ASSUME NEW hh, NEW p, NEW st, IsVector(st.rows)
    PROVE  LET gs == Forecast_groups(hh, p, st)
           IN  \A k \in DOMAIN gs : /\ gs[k].origin = st.reported
                                    /\ \A q \in DOMAIN gs[k].rows : \E i \in DOMAIN st.rows : gs[k].rows[q].data = st.rows[i]
<1> DEFINE V == Values(st.rows, LAMBDA r : r.site)
           sites == Ordered(V)
           Data(ids) == set_group_data(st.rows, ids)
           Ids(ids) == [feature_id |-> <<ids, p["meteo"]>>,
                        param_ids |-> [i \in DOMAIN p["meteo"] |-> <<ids, <<p["meteo"][i]>> >>]]
           Group(ids) == [ids |-> Ids(ids), origin |-> st.reported, begin |-> Data(ids).begin,
                          end |-> Data(ids).end, rows |-> Data(ids).rows]
           gs == Forecast_groups(hh, p, st)
<1>1. gs = IF sites = <<>> THEN <<>>
           ELSE IF hh.separate_groups THEN [k \in DOMAIN sites |-> Group(<<sites[k]>>)] ELSE <<Group(sites)>>
    BY DEF Forecast_groups
<1>2. Cardinality(V) \in Nat
  <2> DEFINE f == [i \in DOMAIN st.rows |-> st.rows[i].site]
             n == Len(st.rows)
  <2>1. n \in Nat /\ DOMAIN st.rows = 1 .. n
    BY VectorOf
  <2>2. IsFiniteSet(1 .. n)
    <3>1. 1 \in Int /\ n \in Int
      BY <2>1
    <3> HIDE DEF n
    <3> QED BY <3>1, FS_Interval
  <2>3. V = Range(f) /\ f \in [1 .. n -> V]
    BY <2>1 DEF Values, Range
  <2> HIDE DEF V, f, n
  <2>4. IsFiniteSet(V)
    BY <2>2, <2>3, RangeFinite
  <2> QED BY <2>4, FS_CardinalityType
<1>3. DOMAIN sites = 1 .. Cardinality(V)
    BY DEF Ordered
<1> HIDE DEF V, sites, gs
<1>4. ASSUME NEW ids, NEW n \in Nat, DOMAIN ids = 1 .. n
      PROVE  /\ Group(ids).origin = st.reported
             /\ \A q \in DOMAIN Group(ids).rows : \E i \in DOMAIN st.rows : Group(ids).rows[q].data = st.rows[i]
  <2>1. \A q \in DOMAIN Data(ids).rows : \E i \in DOMAIN st.rows : Data(ids).rows[q].data = st.rows[i]
    BY <1>4, GroupRowsAre
  <2> HIDE DEF Data, Ids
  <2>2. Group(ids).rows = Data(ids).rows /\ Group(ids).origin = st.reported
    OBVIOUS
  <2> QED BY <2>1, <2>2
<1> HIDE DEF Group
<1>5. \A k \in DOMAIN gs : \E ids : \E n \in Nat : DOMAIN ids = 1 .. n /\ gs[k] = Group(ids)
  <2> SUFFICES ASSUME NEW k \in DOMAIN gs PROVE \E ids : \E n \in Nat : DOMAIN ids = 1 .. n /\ gs[k] = Group(ids)
    OBVIOUS
  <2>1. sites # <<>>
    BY <1>1
  <2>2. CASE hh.separate_groups
    <3> DEFINE ids == <<sites[k]>>
    <3>1. gs[k] = Group(ids)
      BY <1>1, <2>1, <2>2
    <3>2. DOMAIN ids = 1 .. 1
      OBVIOUS
    <3> HIDE DEF ids
    <3> QED BY <3>1, <3>2
  <2>3. CASE ~hh.separate_groups
    <3>1. gs = <<Group(sites)>>
      BY <1>1, <2>1, <2>3
    <3>2. gs[k] = Group(sites)
      BY <3>1
    <3> QED BY <1>2, <1>3, <3>2
  <2> QED BY <2>2, <2>3
<1>6. ASSUME NEW k \in DOMAIN gs
      PROVE  /\ gs[k].origin = st.reported
             /\ \A q \in DOMAIN gs[k].rows : \E i \in DOMAIN st.rows : gs[k].rows[q].data = st.rows[i]
  <2>1. PICK ids : \E n \in Nat : DOMAIN ids = 1 .. n /\ gs[k] = Group(ids)
    BY <1>5, <1>6
  <2> QED BY <1>4, <2>1
<1> QED BY <1>6 DEF gs

\* A forecast that is answered.
LEMMA ForecastAnswer ==
    ASSUME NEW hh, NEW p, NEW e, Forecast_query(hh, p, e).ok
    PROVE  \E levels, heights :
              /\ heights = ToSet(p["levelheights"])
              /\ extract_forecast(p, e, levels, heights).ok
              /\ Forecast_query(hh, p, e).val.groups =
                    Forecast_groups(hh, p, extract_forecast(p, e, levels, heights).val)
<1> DEFINE heights == parse_level_heights(p)
           levels == parse_levels(p)
           out == extract_forecast(p, e, levels.val, heights.val)
           st == out.val
           Answer0 == [begin |-> p["begintime"][1], end |-> p["endtime"][1], box |-> <<>>,
                       groups |-> Forecast_groups(hh, p, st)]
           last == IF st.rows # <<>> /\ ~tz_known(p, e) THEN NoCode ELSE format_output(e, Answer0)
           r6 == IF out.ok THEN last ELSE out
           c5 == create_transformation(p["crs"][1], e)
           r5 == IF c5.ok THEN r6 ELSE c5
           c4 == Singles(p, {"begintime", "endtime", "crs"})
           r4 == IF c4.ok THEN r5 ELSE c4
           c3 == parse_params(p, e)
           r3 == IF c3.ok THEN r4 ELSE c3
           r2 == IF levels.ok THEN r3 ELSE levels
           r1 == IF heights.ok THEN r2 ELSE heights
           c0 == get_location_options(p, e)
           r0 == IF c0.ok THEN r1 ELSE c0
           ra == IF p["locale"][1] \notin e.locales THEN ProcessingFailed ELSE r0
           cb == Singles(p, {"missingtext", "locale", "maxdistance", "findnearestvalid"})
           r == IF cb.ok THEN ra ELSE cb
<1>1. Forecast_query(hh, p, e) = IF r.ok THEN r ELSE ParsingFailed
    BY DEF Forecast_query, Then
<1>2. ~ParsingFailed.ok /\ ~ProcessingFailed.ok /\ ~NoCode.ok
    BY DEF ParsingFailed, ProcessingFailed, NoCode, Fail, Throw
<1>3. r.ok /\ Forecast_query(hh, p, e) = r
    BY <1>1, <1>2
<1> HIDE DEF last, out, heights, levels, c5, c4, c3, c0, cb
<1>4. r = last /\ last.ok /\ out.ok /\ heights.ok
    BY <1>2, <1>3
<1>5. last = Ok(Answer0)
    BY <1>2, <1>4 DEF last, format_output
<1>6. last.val.groups = Forecast_groups(hh, p, st)
    BY <1>5 DEF Ok
<1>7. heights.val = ToSet(p["levelheights"])
    BY <1>2, <1>4 DEF heights, parse_level_heights, Ok
<1> QED BY <1>3, <1>4, <1>6, <1>7 DEF out
-----------------------------------------------------------------------------
(* The invariant *)

\* The parameters and the engines are as they may be, and an answer is what
\* the handler makes of them.
InputsRight ==
    /\ h \in Configured
    /\ DOMAIN par = registered[h.handler].single \cup registered[h.handler].other
    /\ \A name \in DOMAIN par : par[name] \in Askable(h, name)
    /\ DOMAIN eng = DOMAIN Engines
    /\ \A field \in DOMAIN Engines : eng[field] \in Possible(field)

Answered ==
    response.ok =>
        /\ h.handler = "obs" => response = Obs_query(h, par, eng)
        /\ h.handler = "mast" => response = Mast_query(h, par, eng)
        /\ h.handler = "nuclide" => response = AirNuclide_query(h, par, eng)
        /\ h.handler = "sounding" => response = Sounding_query(h, par, eng)
        /\ h.handler = "flash" => response = Flash_query(h, par, eng)
        /\ h.handler = "forecast" => response = Forecast_query(h, par, eng)
        /\ h.handler = "contour" => response = Contour_query(h, par, eng)
        /\ h.handler = "grid" => response = Grid_query(h, par, eng)
        /\ h.handler = "gridforecast" => response = GridForecast_query(h, par, eng)
        /\ h.handler = "atom" => response = Atom_query(h, eng, Atom_update_parameters(par))
        /\ h.handler = "download" => response = Download_query(h, par, eng)
        /\ h.handler = "file" => response = File_query(h, par, eng)
        /\ h.handler = "facility" => response = Facility_query(par, eng)
        /\ h.handler = "network" => response = Network_query(par, eng)
        /\ h.handler = "aviation" => response = Aviation_query(h, par, eng)
        /\ h.handler = "probability" => response = Probability_query(h, par, eng)

IInv == InputsRight /\ Answered

LEMMA UsualInputs ==
    ASSUME NEW c \in Configured
    PROVE  /\ DOMAIN Usual[c.handler] = registered[c.handler].single \cup registered[c.handler].other
           /\ \A name \in DOMAIN Usual[c.handler] : Usual[c.handler][name] \in Askable(c, name)
           /\ \A field \in DOMAIN Engines : Engines[field] \in Possible(field)
BY ParametersAssumption DEF Askable, Possible

LEMMA InitIInv == Init => IInv
<1> SUFFICES ASSUME Init PROVE IInv
    OBVIOUS
<1>1. h \in Configured /\ par = Usual[h.handler] /\ eng = Engines /\ response = NoResponse
    BY DEF Init
<1>2. ~response.ok
    BY <1>1 DEF NoResponse
<1>3. InputsRight
    BY <1>1, UsualInputs DEF InputsRight
<1> QED BY <1>2, <1>3 DEF IInv, Answered

\* One more answer.
LEMMA AnswerIInv ==
    ASSUME IInv, NEW handlers, NEW r, Answer(handlers, r)
    PROVE  InputsRight' /\ h' = h /\ par' = par /\ eng' = eng /\ response' = r /\ h.handler \in handlers
BY DEF IInv, Answer, InputsRight

LEMMA NextIInv == IInv /\ [Next]_vars => IInv'
<1> SUFFICES ASSUME IInv, [Next]_vars PROVE IInv'
    OBVIOUS
<1>1. ASSUME NEW name \in DOMAIN par, NEW value \in Alternatives[name], Ask(name, value) PROVE IInv'
  <2>1. /\ h' = h /\ par' = [par EXCEPT ![name] = value] /\ eng' = eng
        /\ response' = NoResponse
    BY <1>1 DEF Ask
  <2>2. ~(response').ok
    BY <2>1 DEF NoResponse
  <2>3. value \in Askable(h, name)
    BY DEF Askable
  <2>4. InputsRight'
    BY <2>1, <2>3 DEF IInv, InputsRight
  <2> QED BY <2>2, <2>4 DEF IInv, Answered
<1>2. ASSUME NEW field \in DOMAIN eng \cap DOMAIN Changes, NEW value \in Changes[field], Happen(field, value)
      PROVE  IInv'
  <2>1. /\ h' = h /\ par' = par /\ eng' = [eng EXCEPT ![field] = value]
        /\ response' = NoResponse
    BY <1>2 DEF Happen
  <2>2. ~(response').ok
    BY <2>1 DEF NoResponse
  <2>3. value \in Possible(field) /\ field \in DOMAIN Engines
    BY EnginesAssumption DEF Possible
  <2>4. InputsRight'
    BY <2>1, <2>3 DEF IInv, InputsRight
  <2> QED BY <2>2, <2>4 DEF IInv, Answered
<1>3. ASSUME Again PROVE IInv'
  <2>1. h' = h /\ par' = Usual[h.handler] /\ eng' = Engines /\ response' = NoResponse
    BY <1>3 DEF Again
  <2>2. ~(response').ok
    BY <2>1 DEF NoResponse
  <2>3. InputsRight'
    BY <2>1, UsualInputs DEF IInv, InputsRight
  <2> QED BY <2>2, <2>3 DEF IInv, Answered
<1>4. CASE StoredObsQueryHandler
    BY <1>4, AnswerIInv DEF StoredObsQueryHandler, IInv, Answered
<1>5. CASE StoredMastQueryHandler
    BY <1>5, AnswerIInv DEF StoredMastQueryHandler, IInv, Answered
<1>6. CASE StoredAirNuclideQueryHandler
    BY <1>6, AnswerIInv DEF StoredAirNuclideQueryHandler, IInv, Answered
<1>7. CASE StoredSoundingQueryHandler
    BY <1>7, AnswerIInv DEF StoredSoundingQueryHandler, IInv, Answered
<1>8. CASE StoredFlashQueryHandler
    BY <1>8, AnswerIInv DEF StoredFlashQueryHandler, IInv, Answered
<1>9. CASE StoredForecastQueryHandler
    BY <1>9, AnswerIInv DEF StoredForecastQueryHandler, IInv, Answered
<1>10. CASE StoredContourQueryHandler
    BY <1>10, AnswerIInv DEF StoredContourQueryHandler, IInv, Answered
<1>11. CASE StoredGridQueryHandler
    BY <1>11, AnswerIInv DEF StoredGridQueryHandler, IInv, Answered
<1>12. CASE StoredGridForecastQueryHandler
    BY <1>12, AnswerIInv DEF StoredGridForecastQueryHandler, IInv, Answered
<1>13. CASE StoredAtomQueryHandler
    BY <1>13, AnswerIInv DEF StoredAtomQueryHandler, IInv, Answered
<1>14. CASE StoredQEDownloadQueryHandler
    BY <1>14, AnswerIInv DEF StoredQEDownloadQueryHandler, IInv, Answered
<1>15. CASE StoredFileQueryHandler
    BY <1>15, AnswerIInv DEF StoredFileQueryHandler, IInv, Answered
<1>16. CASE StoredEnvMonitoringFacilityQueryHandler
    BY <1>16, AnswerIInv DEF StoredEnvMonitoringFacilityQueryHandler, IInv, Answered
<1>17. CASE StoredEnvMonitoringNetworkQueryHandler
    BY <1>17, AnswerIInv DEF StoredEnvMonitoringNetworkQueryHandler, IInv, Answered
<1>18. CASE StoredAviationObservationQueryHandler
    BY <1>18, AnswerIInv DEF StoredAviationObservationQueryHandler, IInv, Answered
<1>19. CASE StoredWWProbabilityQueryHandler
    BY <1>19, AnswerIInv DEF StoredWWProbabilityQueryHandler, IInv, Answered
<1>20. CASE UNCHANGED vars
    BY <1>20 DEF vars, IInv, InputsRight, Answered
<1> QED BY <1>1, <1>2, <1>3, <1>4, <1>5, <1>6, <1>7, <1>8, <1>9, <1>10, <1>11, <1>12, <1>13, <1>14, <1>15,
           <1>16, <1>17, <1>18, <1>19, <1>20 DEF Next

LEMMA AlwaysIInv == Spec => []IInv
<1>1. Init => IInv
    BY InitIInv
<1>2. IInv /\ [Next]_vars => IInv'
    BY NextIInv
<1> QED BY <1>1, <1>2, PTL DEF Spec

\* What IInv says of the parameters and the lists of the engines.
LEMMA Vectors ==
    ASSUME IInv
    PROVE  /\ \A name \in registered[h.handler].single \cup registered[h.handler].other : IsVector(par[name])
           /\ "origintime" \in registered[h.handler].other => Len(par["origintime"]) <= 1
           /\ \A m \in DOMAIN eng.models : IsVector(eng.models[m].levels) /\ IsVector(eng.models[m].times)
           /\ IsVector(eng.initial) /\ IsVector(eng.times) /\ IsVector(eng.metadata)
           /\ \A name \in DOMAIN eng.sensors : IsVector(eng.sensors[name])
<1>1. DOMAIN par = DOMAIN Usual[h.handler]
    BY ParametersAssumption DEF IInv, InputsRight
<1>2. \A name \in DOMAIN par : IsVector(par[name]) /\ (name = "origintime" => Len(par[name]) <= 1)
    BY <1>1, ParametersAssumption DEF IInv, InputsRight
<1>3. /\ eng.models \in Possible("models") /\ eng.initial \in Possible("initial")
      /\ eng.times \in Possible("times") /\ eng.metadata \in Possible("metadata")
      /\ eng.sensors \in Possible("sensors")
    BY EnginesAssumption DEF IInv, InputsRight
<1>4. /\ \A m \in DOMAIN eng.models : IsVector(eng.models[m].levels) /\ IsVector(eng.models[m].times)
      /\ IsVector(eng.initial) /\ IsVector(eng.times) /\ IsVector(eng.metadata)
      /\ \A name \in DOMAIN eng.sensors : IsVector(eng.sensors[name])
    BY <1>3, EnginesAssumption
<1> QED BY <1>2, <1>4 DEF IInv, InputsRight

\* A written row is a row of a group of the answer.
LEMMA RowsAtAre ==
    ASSUME NEW p \in RowsAt, response.ok
    PROVE  /\ p[1] \in DOMAIN response.val.groups /\ p[2] \in DOMAIN response.val.groups[p[1]].rows
           /\ RowOf(p) = response.val.groups[p[1]].rows[p[2]] /\ Groups = response.val.groups
BY DEF RowsAt, GroupRows, RowOf, Groups

LEMMA NoRowsWithoutAnswer ==
    ASSUME ~response.ok PROVE RowsAt = {}
BY DEF RowsAt, GroupRows, Groups
-----------------------------------------------------------------------------

LEMMA ForecastIsOneRun == IInv => OneModelRun
<1> SUFFICES ASSUME IInv, h.handler = "forecast", response.ok, NEW q \in RowsAt
             PROVE  \/ <<RowOf(q).data.origin>> = Groups[q[1]].origin
                    \/ /\ par["origintime"] = <<>>
                       /\ eng.models[select_producer(par, eng, par["places"][1]).val].multifile
    BY DEF OneModelRun
<1>1. response = Forecast_query(h, par, eng) /\ Forecast_query(h, par, eng).ok
    BY DEF IInv, Answered
<1>2. registered[h.handler] = Forecast_registered
    BY DEF registered
<1>3. /\ IsVector(par["places"]) /\ IsVector(par["levelheights"]) /\ IsVector(par["origintime"])
      /\ Len(par["origintime"]) <= 1
      /\ \A m \in DOMAIN eng.models : IsVector(eng.models[m].levels) /\ IsVector(eng.models[m].times)
  <2>1. {"places", "levelheights", "origintime"} \subseteq registered[h.handler].other
    BY <1>2 DEF Forecast_registered
  <2> QED BY <2>1, Vectors
<1>4. PICK levels, heights :
          /\ heights = ToSet(par["levelheights"])
          /\ extract_forecast(par, eng, levels, heights).ok
          /\ response.val.groups = Forecast_groups(h, par, extract_forecast(par, eng, levels, heights).val)
    BY <1>1, ForecastAnswer
<1>5. IsFiniteSet(heights)
  <2> DEFINE s == par["levelheights"]
  <2>1. Len(s) \in Nat /\ DOMAIN s = 1 .. Len(s) /\ s \in [1 .. Len(s) -> Range(s)]
    BY <1>3 DEF IsVector
  <2>2. heights = Range(s)
    BY <1>4 DEF ToSet, Range
  <2> HIDE DEF s
  <2>3. IsFiniteSet(1 .. Len(s))
    <3>1. 1 \in Int /\ Len(s) \in Int
      BY <2>1
    <3> QED BY <3>1, FS_Interval
  <2> QED BY <2>1, <2>2, <2>3, RangeFinite
<1>6. par["origintime"] = <<>> \/ \E o : par["origintime"] = <<o>>
  <2> DEFINE s == par["origintime"]
  <2>1. s \in Seq(Range(s)) /\ Len(s) <= 1
    BY <1>3 DEF IsVector
  <2>5. Len(s) \in Nat /\ Len(s) <= 1
    BY <1>3, VectorOf
  <2> HIDE DEF s
  <2>2. CASE Len(s) = 0
    <3>1. s = <<>>
      BY <2>1, <2>2
    <3> QED BY <3>1 DEF s
  <2>3. CASE Len(s) = 1
    <3>1. s = <<s[1]>>
      BY <2>1, <2>3
    <3> QED BY <3>1 DEF s
  <2>4. Len(s) = 0 \/ Len(s) = 1
    <3>1. \A n \in Nat : n <= 1 => n = 0 \/ n = 1
      OBVIOUS
    <3> QED BY <2>5, <3>1, Zenon
  <2> QED BY <2>2, <2>3, <2>4
<1> DEFINE st == extract_forecast(par, eng, levels, heights).val
<1>7. OneRun(par, eng, st)
    BY <1>3, <1>4, <1>5, <1>6, ForecastOneRun
<1> HIDE DEF st
<1>8. response.val.groups = Forecast_groups(h, par, st) /\ IsVector(st.rows)
    BY <1>4, <1>7 DEF st, OneRun
<1> DEFINE gs == response.val.groups
<1>9. \A k \in DOMAIN gs : /\ gs[k].origin = st.reported
                           /\ \A i \in DOMAIN gs[k].rows : \E j \in DOMAIN st.rows : gs[k].rows[i].data = st.rows[j]
    BY <1>8, ForecastGroupsAre
<1>10. q[1] \in DOMAIN gs /\ q[2] \in DOMAIN gs[q[1]].rows /\ RowOf(q) = gs[q[1]].rows[q[2]] /\ Groups = gs
    BY RowsAtAre
<1> HIDE DEF gs
<1>11. PICK j \in DOMAIN st.rows : RowOf(q).data = st.rows[j]
    BY <1>9, <1>10
<1>12. Groups[q[1]].origin = st.reported
    BY <1>9, <1>10
<1>13. st.rows # <<>>
    BY <1>11
<1> QED BY <1>7, <1>11, <1>12, <1>13 DEF OneRun

\* All rows of a forecast are of the model run the answer reports, and of the
\* one the client asks for, however many places and models there are, unless
\* no run is asked for and the model of the first place is spread over several
\* files (extract_forecast of StoredForecastQueryHandler.cpp).
THEOREM ForecastAlwaysOneRun == Spec => []OneModelRun
<1>1. IInv => OneModelRun
    BY ForecastIsOneRun
<1> QED BY <1>1, AlwaysIInv, PTL
-----------------------------------------------------------------------------
(* The columns of observations *)

\* The place of everything in two lists one after the other.
Placed(c, s, t) ==
    /\ IsVector(c)
    /\ \A m \in DOMAIN c : \/ m \in DOMAIN s /\ c[m] = s[m]
                           \/ m \notin DOMAIN s /\ m - Len(s) \in DOMAIN t /\ c[m] = t[m - Len(s)]

LEMMA ConcatPlaced ==
    ASSUME NEW s, NEW t, IsVector(s), IsVector(t)
    PROVE  Placed(s \o t, s, t)
<1> DEFINE U == Range(s) \cup Range(t)
           c == s \o t
<1>1. s \in Seq(U) /\ t \in Seq(U)
  <2>1. ASSUME NEW q, NEW Q, q \in Seq(Q), Q \subseteq U PROVE q \in Seq(U)
    <3>1. Len(q) \in Nat /\ DOMAIN q = 1 .. Len(q) /\ q \in [1 .. Len(q) -> U]
      BY <2>1
    <3> QED BY <3>1
  <2> QED BY <2>1 DEF IsVector
<1> HIDE DEF U
<1>2. /\ c \in Seq(U) /\ Len(c) = Len(s) + Len(t) /\ Len(s) \in Nat /\ Len(t) \in Nat
      /\ DOMAIN c = 1 .. Len(c) /\ DOMAIN s = 1 .. Len(s) /\ DOMAIN t = 1 .. Len(t)
      /\ \A m \in 1 .. Len(c) : c[m] = IF m <= Len(s) THEN s[m] ELSE t[m - Len(s)]
    BY <1>1
<1> HIDE DEF c
<1>3. IsVector(c)
  <2>1. IsList(c, Len(c)) /\ Len(c) \in Nat
    BY <1>2 DEF IsList
  <2> QED BY <2>1, ListOf
<1>4. \A m \in DOMAIN c : \/ m \in DOMAIN s /\ c[m] = s[m]
                          \/ m \notin DOMAIN s /\ m - Len(s) \in DOMAIN t /\ c[m] = t[m - Len(s)]
    BY <1>2
<1> QED BY <1>3, <1>4 DEF Placed, c

LEMMA AppendPlaced ==
    ASSUME NEW s, NEW x, IsVector(s)
    PROVE  Placed(Append(s, x), s, <<x>>) /\ IsVector(<<x>>)
<1>1. IsVector(<<x>>)
    BY DEF IsVector, Range
<1>2. Append(s, x) = s \o <<x>>
    BY DEF IsVector
<1> QED BY <1>1, <1>2, ConcatPlaced

\* The columns of an entry are one of the first l, which every query asks for
\* (or 0 for none), or from .. next - 1; the quality column is another one.
EntryIn(x, l, from, next) ==
    /\ x.ind \in 0 .. l \/ x.ind \in from .. next - 1
    /\ x.qc \in 0 .. l \/ x.qc \in from .. next - 1
    /\ x.qc # x.ind \/ x.qc = 0

\* Two entries share none of the other columns.
Apart(x, y, l) == ({x.ind, x.qc} \ (0 .. l)) \cap ({y.ind, y.qc} \ (0 .. l)) = {}

EntriesApart(index, l) == \A j, k \in DOMAIN index : j # k => Apart(index[j], index[k], l)

\* Entries for columns behind those in use.
LEMMA EntriesAdded ==
    ASSUME NEW l \in Nat, NEW c \in Nat, NEW d \in Nat, l < c, c <= d,
           NEW s, NEW t, NEW r, Placed(r, s, t), IsVector(s), IsVector(t),
           \A k \in DOMAIN s : EntryIn(s[k], l, l + 1, c), EntriesApart(s, l),
           \A k \in DOMAIN t : EntryIn(t[k], l, c, d), EntriesApart(t, l)
    PROVE  /\ IsVector(r) /\ \A k \in DOMAIN r : EntryIn(r[k], l, l + 1, d)
           /\ EntriesApart(r, l)
<1>1. \A x : EntryIn(x, l, l + 1, c) => EntryIn(x, l, l + 1, d)
    BY DEF EntryIn
<1>2. \A x : EntryIn(x, l, c, d) => EntryIn(x, l, l + 1, d)
    BY DEF EntryIn
<1>3. \A x, y : EntryIn(x, l, l + 1, c) /\ EntryIn(y, l, c, d) => Apart(x, y, l) /\ Apart(y, x, l)
  <2> SUFFICES ASSUME NEW x, NEW y, EntryIn(x, l, l + 1, c), EntryIn(y, l, c, d)
               PROVE  Apart(x, y, l) /\ Apart(y, x, l)
    OBVIOUS
  <2>1. \A m \in {x.ind, x.qc} \ (0 .. l) : m \in l + 1 .. c - 1
    BY DEF EntryIn
  <2>2. \A m \in {y.ind, y.qc} \ (0 .. l) : m \in c .. d - 1
    BY DEF EntryIn
  <2>3. \A m \in l + 1 .. c - 1 : m \notin c .. d - 1
    OBVIOUS
  <2> QED BY <2>1, <2>2, <2>3 DEF Apart
<1>4. ASSUME NEW m \in DOMAIN r
      PROVE  \/ m \in DOMAIN s /\ r[m] = s[m]
             \/ m \notin DOMAIN s /\ m - Len(s) \in DOMAIN t /\ r[m] = t[m - Len(s)]
    BY DEF Placed
<1>5. \A k \in DOMAIN r : EntryIn(r[k], l, l + 1, d)
    BY <1>1, <1>2, <1>4
<1>6. ASSUME NEW j \in DOMAIN r, NEW k \in DOMAIN r, j # k PROVE Apart(r[j], r[k], l)
  <2>1. CASE j \in DOMAIN s /\ k \in DOMAIN s
    BY <1>4, <1>6, <2>1 DEF EntriesApart
  <2>2. CASE j \in DOMAIN s /\ k \notin DOMAIN s
    BY <1>3, <1>4, <2>2
  <2>3. CASE j \notin DOMAIN s /\ k \in DOMAIN s
    BY <1>3, <1>4, <2>3
  <2>4. CASE j \notin DOMAIN s /\ k \notin DOMAIN s
    <3>1. /\ j - Len(s) \in DOMAIN t /\ k - Len(s) \in DOMAIN t
          /\ r[j] = t[j - Len(s)] /\ r[k] = t[k - Len(s)]
      BY <1>4, <2>4
    <3>2. j - Len(s) # k - Len(s)
      <4>1. Len(s) \in Nat
        BY VectorOf
      <4>2. j \in Int /\ k \in Int
        BY VectorOf DEF Placed
      <4> QED BY <1>6, <4>1, <4>2
    <3> QED BY <3>1, <3>2 DEF EntriesApart
  <2> QED BY <2>1, <2>2, <2>3, <2>4
<1> QED BY <1>5, <1>6 DEF Placed, EntriesApart

\* What the loop over the names keeps; l is the number of columns every query
\* asks for.
ColumnsRight(st, l) ==
    /\ st.columns \in Nat /\ l < st.columns /\ IsVector(st.index)
    /\ \A k \in DOMAIN st.index : EntryIn(st.index[k], l, l + 1, st.columns)
    /\ EntriesApart(st.index, l)

LEMMA MeteoColumns ==
    ASSUME NEW e, \A n \in DOMAIN e.sensors : IsVector(e.sensors[n]), NEW l \in Nat,
           NEW st, ColumnsRight(st, l), NEW name, NEW add_qc \in BOOLEAN
    PROVE  ColumnsRight(add_meteo_parameter(e, st, name, add_qc), l)
<1> DEFINE sensors == IF name \in e.special \/ name \notin DOMAIN e.sensors THEN <<1>> ELSE e.sensors[name]
           width == IF add_qc THEN 2 ELSE 1
           c == st.columns
           n == Len(sensors)
           Entry(k) == LET ind == c + (k - 1) * width
                       IN  [name |-> name, ind |-> ind, qc |-> IF add_qc THEN ind + 1 ELSE 0]
           t == [k \in DOMAIN sensors |-> Entry(k)]
           new == add_meteo_parameter(e, st, name, add_qc)
           s == st.index
<1>1. new.columns = c + n * width /\ new.index = s \o t
    BY DEF add_meteo_parameter
<1>2. IsVector(sensors)
  <2>1. IsVector(<<1>>)
    BY DEF IsVector, Range
  <2> QED BY <2>1
<1> HIDE DEF sensors
<1>3. n \in Nat /\ DOMAIN sensors = 1 .. n
    BY <1>2, VectorOf
<1>4. c \in Nat /\ l < c /\ IsVector(s) /\ EntriesApart(s, l) /\ \A k \in DOMAIN s : EntryIn(s[k], l, l + 1, c)
    BY DEF ColumnsRight
<1>5. \A k \in 1 .. n : t[k].ind = c + (k - 1) * width /\ t[k].qc = IF add_qc THEN c + (k - 1) * width + 1 ELSE 0
    BY <1>3
<1>6. DOMAIN t = 1 .. n /\ IsVector(t)
  <2>1. IsList(t, n) /\ DOMAIN t = 1 .. n
    BY <1>3 DEF IsList
  <2> HIDE DEF t
  <2> QED BY <1>3, <2>1, ListOf
<1> DEFINE d == c + n * width
<1> HIDE DEF t, n, c, s, new
<1>7. d \in Nat /\ c <= d
  <2>1. CASE add_qc
    BY <1>3, <1>4, <2>1
  <2>2. CASE ~add_qc
    BY <1>3, <1>4, <2>2
  <2> QED BY <2>1, <2>2
<1>8. \A k \in DOMAIN t : EntryIn(t[k], l, c, d)
  <2> SUFFICES ASSUME NEW k \in 1 .. n PROVE EntryIn(t[k], l, c, d)
    BY <1>6
  <2>1. CASE add_qc
    <3>1. t[k].ind = c + (k - 1) * 2 /\ t[k].qc = c + (k - 1) * 2 + 1 /\ d = c + n * 2
      BY <1>5, <2>1
    <3>2. t[k].ind \in c .. d - 1 /\ t[k].qc \in c .. d - 1 /\ t[k].qc # t[k].ind
      BY <1>3, <1>4, <3>1
    <3> QED BY <3>2 DEF EntryIn
  <2>2. CASE ~add_qc
    <3>1. t[k].ind = c + (k - 1) /\ t[k].qc = 0 /\ d = c + n
      BY <1>3, <1>4, <1>5, <2>2
    <3>2. t[k].ind \in c .. d - 1 /\ t[k].qc \in 0 .. l
      BY <1>3, <1>4, <3>1
    <3> QED BY <3>1, <3>2 DEF EntryIn
  <2> QED BY <2>1, <2>2
<1>9. EntriesApart(t, l)
  <2> SUFFICES ASSUME NEW j \in 1 .. n, NEW k \in 1 .. n, j # k PROVE Apart(t[j], t[k], l)
    BY <1>6 DEF EntriesApart
  <2>1. CASE add_qc
    <3>1. /\ t[j].ind = c + (j - 1) * 2 /\ t[j].qc = c + (j - 1) * 2 + 1
          /\ t[k].ind = c + (k - 1) * 2 /\ t[k].qc = c + (k - 1) * 2 + 1
      BY <1>5, <2>1
    <3>2. /\ t[j].ind # t[k].ind /\ t[j].ind # t[k].qc
          /\ t[j].qc # t[k].ind /\ t[j].qc # t[k].qc
      BY <1>3, <1>4, <3>1
    <3> QED BY <3>2 DEF Apart
  <2>2. CASE ~add_qc
    <3>1. t[j].ind = c + (j - 1) /\ t[k].ind = c + (k - 1) /\ t[j].qc = 0 /\ t[k].qc = 0 /\ 0 \in 0 .. l
      BY <1>3, <1>4, <1>5, <2>2
    <3>2. t[j].ind # t[k].ind
      BY <1>3, <1>4, <3>1
    <3> QED BY <3>1, <3>2 DEF Apart
  <2> QED BY <2>1, <2>2
<1>10. Placed(new.index, s, t)
    BY <1>1, <1>4, <1>6, ConcatPlaced
<1>11. /\ IsVector(new.index) /\ EntriesApart(new.index, l)
       /\ \A k \in DOMAIN new.index : EntryIn(new.index[k], l, l + 1, d)
  <2> HIDE DEF d
  <2> QED BY <1>4, <1>6, <1>7, <1>8, <1>9, <1>10, EntriesAdded
<1>12. new.columns = d /\ l < d
    BY <1>1, <1>4, <1>7
<1>13. ColumnsRight(new, l)
    BY <1>7, <1>11, <1>12 DEF ColumnsRight
<1> QED BY <1>13 DEF new

LEMMA SpecialColumns ==
    ASSUME NEW e, IsVector(e.initial), NEW st, ColumnsRight(st, Len(e.initial)), NEW name
    PROVE  ColumnsRight(add_special_parameter(e, st, name), Len(e.initial))
<1> DEFINE l == Len(e.initial)
           initial == {k \in DOMAIN e.initial : e.initial[k] = Fold(name)}
           ind == CASE initial # {} -> CHOOSE k \in initial : \A j \in initial : k <= j
                    [] initial = {} /\ name \in e.computed -> 0
                    [] OTHER -> st.columns
           x == [name |-> name, ind |-> ind, qc |-> 0]
           new == add_special_parameter(e, st, name)
           c == st.columns
           d == IF ind = c THEN c + 1 ELSE c
           s == st.index
<1>1. new.columns = d /\ new.index = Append(s, x)
    BY DEF add_special_parameter
<1>2. l \in Nat /\ DOMAIN e.initial = 1 .. l
    BY VectorOf
<1>3. ind \in 0 .. l \/ ind = c
  <2>0. 0 \in 0 .. l /\ 1 .. l \subseteq 0 .. l
    BY <1>2
  <2>1. CASE initial # {}
    <3>1. initial \subseteq Nat /\ initial \subseteq 1 .. l
      BY <1>2
    <3> HIDE DEF initial
    <3>2. \E k \in initial : \A j \in initial : k <= j
      BY <2>1, <3>1, LeastNumber
    <3>3. ind \in initial
      BY <2>1, <3>2
    <3> QED BY <2>0, <3>1, <3>3
  <2>2. CASE initial = {}
    <3> HIDE DEF initial
    <3>1. ind = 0 \/ ind = c
      BY <2>2
    <3> QED BY <2>0, <3>1
  <2> QED BY <2>1, <2>2
<1>4. c \in Nat /\ l < c /\ IsVector(s) /\ EntriesApart(s, l) /\ \A k \in DOMAIN s : EntryIn(s[k], l, l + 1, c)
    BY DEF ColumnsRight
<1> HIDE DEF ind
<1>5. x.ind = ind /\ x.qc = 0
    OBVIOUS
<1> HIDE DEF x, new, c, s, l
<1>6. d \in Nat /\ c <= d /\ EntryIn(x, l, c, d)
  <2>1. CASE ind = c
    <3>1. d = c + 1 /\ x.ind \in c .. d - 1 /\ x.qc \in 0 .. l
      BY <1>2, <1>4, <1>5, <2>1
    <3> QED BY <1>4, <1>5, <3>1 DEF EntryIn
  <2>2. CASE ind # c
    <3>1. d = c /\ x.ind \in 0 .. l /\ x.qc \in 0 .. l
      BY <1>2, <1>3, <1>4, <1>5, <2>2
    <3> QED BY <1>4, <1>5, <3>1 DEF EntryIn
  <2> QED BY <2>1, <2>2
<1> HIDE DEF d
<1> DEFINE t == <<x>>
<1>7. (\A k \in DOMAIN t : t[k] = x) /\ EntriesApart(t, l)
  <2>1. \A k \in DOMAIN t : k = 1 /\ t[k] = x
    OBVIOUS
  <2> HIDE DEF t
  <2> QED BY <2>1 DEF EntriesApart
<1>8. Placed(new.index, s, t) /\ IsVector(t)
    BY <1>1, <1>4, AppendPlaced
<1> HIDE DEF t
<1>9. \A k \in DOMAIN t : EntryIn(t[k], l, c, d)
    BY <1>6, <1>7
<1>10. /\ IsVector(new.index) /\ EntriesApart(new.index, l)
       /\ \A k \in DOMAIN new.index : EntryIn(new.index[k], l, l + 1, d)
    BY <1>2, <1>4, <1>6, <1>7, <1>8, <1>9, EntriesAdded
<1>11. l < d
    BY <1>2, <1>4, <1>6
<1>12. ColumnsRight(new, l)
    BY <1>1, <1>6, <1>10, <1>11 DEF ColumnsRight
<1> QED BY <1>12 DEF new, l

\* One turn of the loop over the names, and the function by which the loop is
\* defined.
NoColumns(e) == Ok([columns |-> Len(e.initial) + 1, index |-> <<>>, meteo |-> FALSE])
AddTurn(names, e, add_qc, i, r) ==
    IF r.ok
    THEN CASE Duplicate(names, i) -> InvalidValue
           [] ~Duplicate(names, i) /\ names[i] \in e.measured -> Ok(add_meteo_parameter(e, r.val, names[i], add_qc))
           [] ~Duplicate(names, i) /\ names[i] \in e.special \ e.measured ->
                 Ok(add_special_parameter(e, r.val, names[i]))
           [] OTHER -> NoCode
    ELSE r
AddTurns(f, n, names, e, add_qc) ==
    f = [i \in 0 .. n |-> IF i = 0 THEN NoColumns(e) ELSE AddTurn(names, e, add_qc, i, f[i - 1])]

LEMMA AddTurnsExist ==
    ASSUME NEW names, NEW e, NEW add_qc
    PROVE  \A n \in Nat : \E f : AddTurns(f, n, names, e, add_qc)
<1> DEFINE Step(i, r) == AddTurn(names, e, add_qc, i, r)
           N == {n \in Nat : \E f : AddTurns(f, n, names, e, add_qc)}
<1>0. \A f, n : AddTurns(f, n, names, e, add_qc) <=>
                  f = [i \in 0 .. n |-> IF i = 0 THEN NoColumns(e) ELSE Step(i, f[i - 1])]
    BY DEF AddTurns
<1> HIDE DEF Step
<1>1. 0 \in N
  <2> DEFINE f == [i \in 0 .. 0 |-> NoColumns(e)]
  <2>1. f = [i \in 0 .. 0 |-> IF i = 0 THEN NoColumns(e) ELSE Step(i, f[i - 1])]
    OBVIOUS
  <2> HIDE DEF f
  <2> QED BY <1>0, <2>1
<1>2. ASSUME NEW n \in Nat, n \in N PROVE n + 1 \in N
  <2>1. PICK f : f = [i \in 0 .. n |-> IF i = 0 THEN NoColumns(e) ELSE Step(i, f[i - 1])]
    BY <1>0, <1>2
  <2> DEFINE g == [i \in 0 .. n + 1 |-> IF i <= n THEN f[i] ELSE Step(n + 1, f[n])]
  <2>2. \A i \in 0 .. n : f[i] = IF i = 0 THEN NoColumns(e) ELSE Step(i, f[i - 1])
    BY <2>1
  <2>3. ASSUME NEW i \in 0 .. n + 1
        PROVE  g[i] = IF i = 0 THEN NoColumns(e) ELSE Step(i, g[i - 1])
    <3>1. CASE i <= n
      <4>1. i \in 0 .. n /\ g[i] = f[i] /\ (i # 0 => g[i - 1] = f[i - 1])
        BY <3>1
      <4> QED BY <4>1, <2>2
    <3>2. CASE ~(i <= n)
      <4>1. i = n + 1 /\ i # 0 /\ g[i - 1] = f[n]
        BY <3>2
      <4>2. g[i] = Step(n + 1, f[n])
        BY <3>2
      <4> QED BY <4>1, <4>2
    <3> QED BY <3>1, <3>2
  <2>4. g = [i \in 0 .. n + 1 |-> IF i = 0 THEN NoColumns(e) ELSE Step(i, g[i - 1])]
    <3> HIDE DEF g
    <3>1. DOMAIN g = 0 .. n + 1 /\ g = [i \in 0 .. n + 1 |-> g[i]]
      BY DEF g
    <3> QED BY <2>3, <3>1
  <2> HIDE DEF g
  <2> QED BY <1>0, <2>4
<1> HIDE DEF N
<1>3. Nat \subseteq N
    BY <1>1, <1>2, NatSetInduction
<1> QED BY <1>3 DEF N

LEMMA AddParametersIs ==
    ASSUME NEW hh, NEW p, NEW e, Len(p["meteo"]) \in Nat, add_parameters(hh, p, e).ok
    PROVE  \E f, add_qc : /\ AddTurns(f, Len(p["meteo"]), p["meteo"], e, add_qc) /\ add_qc \in BOOLEAN
                          /\ add_parameters(hh, p, e) = f[Len(p["meteo"])]
<1> DEFINE names == p["meteo"]
           n == Len(names)
           quality == Optional(p, "qualityinfo", FALSE)
           explicit == \E i \in DOMAIN names : isQCParameter(names[i])
           add_qc == ~explicit /\ quality
           F == CHOOSE f : AddTurns(f, n, names, e, add_qc)
<1>1. AddTurns(F, n, names, e, add_qc)
    BY AddTurnsExist
<1>2. add_parameters(hh, p, e) = IF (~hh.qc_parameters \/ ~quality) /\ explicit THEN InvalidValue ELSE F[n]
    BY DEF add_parameters, AddTurns, AddTurn, NoColumns, Then
<1>3. ~InvalidValue.ok
    BY DEF InvalidValue, Fail, Throw
<1>4. add_parameters(hh, p, e) = F[n]
    BY <1>2, <1>3
<1>5. add_qc \in BOOLEAN
    OBVIOUS
<1> HIDE DEF F, add_qc
<1> QED BY <1>1, <1>4, <1>5

LEMMA ParametersColumns ==
    ASSUME NEW hh, NEW p, NEW e, IsVector(p["meteo"]), IsVector(e.initial),
           \A n \in DOMAIN e.sensors : IsVector(e.sensors[n]), add_parameters(hh, p, e).ok
    PROVE  ColumnsRight(add_parameters(hh, p, e).val, Len(e.initial))
<1> DEFINE names == p["meteo"]
           n == Len(names)
           l == Len(e.initial)
<1>1. n \in Nat /\ l \in Nat
    BY VectorOf
<1>2. PICK f, add_qc : AddTurns(f, n, names, e, add_qc) /\ add_qc \in BOOLEAN /\ add_parameters(hh, p, e) = f[n]
    BY <1>1, AddParametersIs
<1> HIDE DEF n, names, l
<1>3. \A i \in 0 .. n : f[i] = IF i = 0 THEN NoColumns(e) ELSE AddTurn(names, e, add_qc, i, f[i - 1])
    BY <1>2 DEF AddTurns
<1> DEFINE N == {k \in Nat : k <= n /\ f[k].ok => ColumnsRight(f[k].val, l)}
<1>4. 0 \in N
  <2> DEFINE st == NoColumns(e).val
  <2>1. st.columns = l + 1 /\ st.index = <<>>
    BY DEF NoColumns, Ok, l
  <2>2. IsVector(<<>>)
    BY DEF IsVector
  <2> HIDE DEF st
  <2>3. DOMAIN st.index = {}
    BY <2>1
  <2>4. ColumnsRight(st, l)
    BY <1>1, <2>1, <2>2, <2>3 DEF ColumnsRight, EntriesApart
  <2>5. f[0] = NoColumns(e)
    BY <1>1, <1>3
  <2> QED BY <2>4, <2>5 DEF st
<1>5. ASSUME NEW k \in Nat, k \in N PROVE k + 1 \in N
  <2> SUFFICES ASSUME k + 1 <= n, f[k + 1].ok PROVE ColumnsRight(f[k + 1].val, l)
    OBVIOUS
  <2> DEFINE i == k + 1
             st == f[k].val
  <2>1. i \in 0 .. n /\ i # 0 /\ i - 1 = k /\ k <= n
    BY <1>1
  <2>2. f[i] = AddTurn(names, e, add_qc, i, f[k])
    BY <1>3, <2>1
  <2>3. ~InvalidValue.ok /\ ~NoCode.ok
    BY DEF InvalidValue, NoCode, Fail, Throw
  <2> HIDE DEF i
  <2>4. /\ f[k].ok
        /\ \/ f[i] = Ok(add_meteo_parameter(e, st, names[i], add_qc))
           \/ f[i] = Ok(add_special_parameter(e, st, names[i]))
    BY <2>2, <2>3 DEF AddTurn, i
  <2>5. ColumnsRight(st, l)
    BY <1>5, <2>1, <2>4
  <2> HIDE DEF st
  <2>6. ColumnsRight(add_meteo_parameter(e, st, names[i], add_qc), l)
    BY <1>1, <1>2, <2>5, MeteoColumns
  <2>7. ColumnsRight(add_special_parameter(e, st, names[i]), l)
    BY <2>5, SpecialColumns DEF l
  <2>8. ColumnsRight(f[i].val, l)
    BY <2>4, <2>6, <2>7 DEF Ok
  <2> QED BY <2>8 DEF i
<1> HIDE DEF N
<1>6. Nat \subseteq N
    BY <1>4, <1>5, NatSetInduction
<1>7. n \in N
    BY <1>1, <1>6
<1> QED BY <1>1, <1>2, <1>7 DEF N, l

\* The names asked for are a list also when the sources are added to them.
LEMMA DataSourceNames ==
    ASSUME NEW hh, NEW p, IsVector(p["meteo"]), "meteo" \in DOMAIN p
    PROVE  IsVector(add_data_source_params(hh, p)["meteo"])
<1> DEFINE names == p["meteo"]
           S == {i \in DOMAIN names : names[i] # <<"data_source", "lower">>}
           mparams == Picked(names, S)
           Part(i) == <<mparams[i], <<mparams[i][1], "source">> >>
           parts == [i \in DOMAIN mparams |-> Part(i)]
<1>1. add_data_source_params(hh, p)["meteo"] \in {names, FlattenSeq(parts)}
    BY DEF add_data_source_params
<1>2. Len(names) \in Nat /\ DOMAIN names = 1 .. Len(names) /\ S \in SUBSET DOMAIN names
    BY VectorOf
<1> HIDE DEF names, S
<1>3. IsVector(mparams)
    BY <1>2, PickedMembers
<1> HIDE DEF mparams
<1>4. Len(mparams) \in Nat /\ DOMAIN mparams = 1 .. Len(mparams)
    BY <1>3, VectorOf
<1>5. \A a, b : IsVector(<<a, b>>)
  <2> SUFFICES ASSUME NEW a, NEW b PROVE IsVector(<<a, b>>)
    OBVIOUS
  <2> DEFINE s == <<a, b>>
  <2>1. IsList(s, 2)
    BY DEF IsList
  <2> HIDE DEF s
  <2>2. IsVector(s)
    BY <2>1, ListOf
  <2> QED BY <2>2 DEF s
<1>6. IsList(parts, Len(mparams)) /\ \A i \in 1 .. Len(mparams) : IsVector(parts[i])
  <2>1. IsList(parts, Len(mparams)) /\ \A i \in 1 .. Len(mparams) : parts[i] = Part(i)
    BY <1>4 DEF IsList
  <2>2. \A i : IsVector(Part(i))
    BY <1>5
  <2> HIDE DEF Part, parts
  <2> QED BY <2>1, <2>2
<1> HIDE DEF Part, parts
<1>7. IsVector(FlattenSeq(parts))
    BY <1>4, <1>6, FlattenMembers
<1> QED BY <1>1, <1>7 DEF names

\* The columns of an answer with observations are those of its parameters.
LEMMA ObsAnswer ==
    ASSUME NEW hh, NEW given, NEW e, Obs_query(hh, given, e).ok
    PROVE  LET p == add_data_source_params(hh, given)
               st == add_parameters(hh, p, e)
           IN  st.ok /\ \E box : /\ Obs_answer(hh, p, e, st.val.index, box).ok
                                 /\ Obs_query(hh, given, e) = Obs_answer(hh, p, e, st.val.index, box)
<1> DEFINE p == add_data_source_params(hh, given)
           cst == add_parameters(hh, p, e)
           c1 == Singles(p, {"begintime", "endtime"})
           c2 == IF hh.restrictions THEN check_time_interval(p["begintime"][1], p["endtime"][1], hh.max_hours) ELSE Ok(0)
           c3 == IF p["meteo"] = <<>> THEN NoCode ELSE Singles(p, {"stationtype"})
           c4 == Singles(p, {"crs"})
           c5 == create_transformation(p["crs"][1], e)
           c6 == Singles(p, {"timestep", "maxdistance", "numofstations", "missingtext", "locale"})
           c7 == set_location_settings(p, e)
           c8 == transformed_box(p, e)
           c9 == check_query_limits(hh, p, e, c8.val)
           last == Obs_answer(hh, p, e, cst.val.index, c8.val)
           r10 == IF e.fails THEN NoCode ELSE last
           r9 == IF c9.ok THEN r10 ELSE c9
           r8 == IF c8.ok THEN r9 ELSE c8
           r7 == IF c7.ok THEN r8 ELSE c7
           r6 == IF c6.ok THEN r7 ELSE c6
           r5 == IF c5.ok THEN r6 ELSE c5
           r4 == IF c4.ok THEN r5 ELSE c4
           checked == Checked(<< <<~cst.val.meteo, "OperationProcessingFailed">> >>, r4)
           rst == IF cst.ok THEN checked ELSE cst
           r3 == IF c3.ok THEN rst ELSE c3
           r2 == IF c2.ok THEN r3 ELSE c2
           r1 == IF c1.ok THEN r2 ELSE c1
<1>1. Obs_query(hh, given, e) = Guarded(r1)
    BY DEF Obs_query, Then
<1>2. ~NoCode.ok /\ (\A code : ~Fail(code).ok)
    BY DEF NoCode, Fail, Throw
<1> HIDE DEF p, cst, c1, c2, c3, c4, c5, c6, c7, c8, c9, last, checked
<1>3. r1.ok /\ Obs_query(hh, given, e) = r1
    BY <1>1, <1>2 DEF Guarded, WithCode
<1>4. r1 = checked /\ checked.ok /\ cst.ok
    BY <1>3
<1>5. checked = r4
  <2> HIDE DEF r4
  <2>1. checked = Checked(<< <<~cst.val.meteo, "OperationProcessingFailed">> >>, r4)
    BY DEF checked
  <2> QED BY <1>4, <2>1, OneCheck
<1>6. r4 = last /\ last.ok
    BY <1>2, <1>4, <1>5
<1> QED BY <1>3, <1>4, <1>5, <1>6 DEF last, cst, p

\* The groups of observations that are written when all values are found.
ObsGroup(p, e, index, known, g) ==
    Then(All([k \in DOMAIN g.sites |-> set_site_observations(p, e, known, e.rows, g.sites[k], index)]),
         LAMBDA obs : Ok([ids |-> g.ids, rows |-> FlattenSeq(obs)]))
ObsGroups(hh, p, e, index, known) ==
    LET groups == assign_groups(hh, p, index_sites(e.rows))
    IN  All([k \in DOMAIN groups |-> ObsGroup(p, e, index, known, groups[k])])

LEMMA ObsAnswerIs ==
    ASSUME NEW hh, NEW p, NEW e, NEW index, NEW box, Obs_answer(hh, p, e, index, box).ok
    PROVE  /\ Obs_answer(hh, p, e, index, box).val.index = index
           /\ \E known : /\ ObsGroups(hh, p, e, index, known).ok
                         /\ Obs_answer(hh, p, e, index, box).val.groups = ObsGroups(hh, p, e, index, known).val
<1> DEFINE last == Obs_answer(hh, p, e, index, box)
           known == set_station_list(e, e.rows, index_sites(e.rows))
           gs == ObsGroups(hh, p, e, index, known.val)
           answer == [begin |-> p["begintime"][1], end |-> p["endtime"][1], box |-> box, groups |-> gs.val,
                      index |-> index]
           out == format_output(e, answer)
           rg == IF gs.ok THEN out ELSE gs
<1>1. last = IF known.ok THEN rg ELSE known
    BY DEF Obs_answer, Then, ObsGroups, ObsGroup
<1> HIDE DEF known, gs
<1>2. last = out /\ out.ok /\ gs.ok
    BY <1>1
<1>3. ~ProcessingFailed.ok
    BY DEF ProcessingFailed, Fail, Throw
<1>4. out = Ok(answer)
    BY <1>2, <1>3 DEF format_output
<1>5. out.val.index = index /\ out.val.groups = gs.val
    BY <1>4 DEF Ok
<1> QED BY <1>2, <1>5 DEF gs

LEMMA ObsColumnsOwn == IInv => ColumnsOwn
<1> SUFFICES ASSUME IInv, h.handler = "obs", response.ok PROVE ColumnsOwn
    BY DEF ColumnsOwn
<1> DEFINE p == add_data_source_params(h, par)
           st == add_parameters(h, p, eng)
           index == st.val.index
           l == Len(eng.initial)
<1>1. response = Obs_query(h, par, eng) /\ Obs_query(h, par, eng).ok
    BY DEF IInv, Answered
<1>2. st.ok /\ response.val.index = index
  <2>1. st.ok /\ \E box : Obs_answer(h, p, eng, index, box).ok /\ response = Obs_answer(h, p, eng, index, box)
    BY <1>1, ObsAnswer
  <2> HIDE DEF st, p, index
  <2> QED BY <2>1, ObsAnswerIs
<1>3. "meteo" \in registered[h.handler].single \cup registered[h.handler].other
  <2>1. registered[h.handler] = Obs_registered
    BY DEF registered
  <2> QED BY <2>1 DEF Obs_registered
<1>4. "meteo" \in DOMAIN par /\ IsVector(par["meteo"])
    BY <1>3, Vectors DEF IInv, InputsRight
<1>5. IsVector(p["meteo"])
    BY <1>4, DataSourceNames
<1>6. IsVector(eng.initial) /\ \A name \in DOMAIN eng.sensors : IsVector(eng.sensors[name])
    BY Vectors
<1> HIDE DEF p
<1>7. ColumnsRight(st.val, l)
    BY <1>2, <1>5, <1>6, ParametersColumns
<1> HIDE DEF st
<1>8. EntriesApart(index, l) /\ \A k \in DOMAIN index : EntryIn(index[k], l, l + 1, st.val.columns)
    BY <1>7 DEF ColumnsRight
<1> HIDE DEF index
<1>9. \A j, k \in DOMAIN index :
          /\ j # k => ({index[j].ind, index[j].qc} \ (0 .. l)) \cap ({index[k].ind, index[k].qc} \ (0 .. l)) = {}
          /\ index[k].qc # index[k].ind \/ index[k].qc = 0
    BY <1>8 DEF EntriesApart, EntryIn, Apart
<1> QED BY <1>2, <1>9 DEF ColumnsOwn

\* Whatever parameters, sensors and quality codes are asked for, and however
\* many, no two values of an observation are read from one column behind those
\* every query asks for (add_meteo_parameter and add_special_parameter of
\* StoredObsQueryHandler.cpp).
THEOREM ColumnsAlwaysOwn == Spec => []ColumnsOwn
<1>1. IInv => ColumnsOwn
    BY ObsColumnsOwn
<1> QED BY <1>1, AlwaysIInv, PTL
-----------------------------------------------------------------------------
(* What contours and grids are labelled with *)

\* All positions in order are the positions, and all of a list is the list.
LEMMA AllPicked ==
    ASSUME NEW n \in Nat, NEW s, IsList(s, n)
    PROVE  Picked(s, 1 .. n) = s
<1> DEFINE S == 1 .. n
           Before(x) == {y \in S : y < x}
<1>1. \A a, b \in Int : IsFiniteSet(a .. b) /\ Cardinality(a .. b) = IF a > b THEN 0 ELSE b - a + 1
    BY FS_Interval
<1>2. Cardinality(S) = n
    BY <1>1
<1>3. \A x \in S : Cardinality(Before(x)) = x - 1
  <2> SUFFICES ASSUME NEW x \in S PROVE Cardinality(Before(x)) = x - 1
    OBVIOUS
  <2>1. Before(x) = 1 .. x - 1
    OBVIOUS
  <2>2. 1 \in Int /\ x - 1 \in Int /\ (1 > x - 1 => x - 1 = 0) /\ (x - 1) - 1 + 1 = x - 1
    OBVIOUS
  <2>3. Cardinality(1 .. x - 1) = x - 1
    BY <1>1, <2>2
  <2> QED BY <2>1, <2>3
<1> DEFINE at == Ordered(S)
<1>4. at = [k \in 1 .. n |-> CHOOSE x \in S : Cardinality(Before(x)) = k - 1]
    BY <1>2 DEF Ordered
<1> HIDE DEF Before, at
<1>5. \A k \in 1 .. n : at[k] = k
  <2> SUFFICES ASSUME NEW k \in 1 .. n PROVE at[k] = k
    OBVIOUS
  <2>1. at[k] = CHOOSE x \in S : Cardinality(Before(x)) = k - 1
    BY <1>4
  <2>2. k \in S /\ Cardinality(Before(k)) = k - 1
    BY <1>3
  <2>3. at[k] \in S /\ Cardinality(Before(at[k])) = k - 1
    BY <2>1, <2>2
  <2>4. at[k] - 1 = k - 1
    BY <1>3, <2>3
  <2> QED BY <2>3, <2>4
<1>6. DOMAIN at = 1 .. n
    BY <1>4
<1>7. Picked(s, S) = [k \in 1 .. n |-> s[at[k]]]
    BY <1>6 DEF Picked, at
<1>8. Picked(s, S) = [k \in 1 .. n |-> s[k]]
    BY <1>5, <1>7
<1> QED BY <1>8 DEF IsList

\* The time steps of an answer with contours: each has a contour for each pair
\* of limits.
StepsRight(steps, e, limits) ==
    IsVector(steps) /\ \A k \in DOMAIN steps : steps[k].geoms = contour(e, limits)

LEMMA TimeSteps ==
    ASSUME NEW p, NEW e, NEW grid, NEW limits, IsVector(limits), IsVector(e.times), e.undecodable = {},
           getContours(p, e, grid, limits).ok
    PROVE  StepsRight(getContours(p, e, grid, limits).val, e, limits)
<1> DEFINE all == time_list(p, e)
           geoms == contour(e, limits)
<1>1. IsVector(all)
  <2> DEFINE S == {i \in DOMAIN e.times : p["begintime"][1] <= e.times[i] /\ e.times[i] <= p["endtime"][1]}
  <2>1. Len(e.times) \in Nat /\ DOMAIN e.times = 1 .. Len(e.times) /\ S \in SUBSET (1 .. Len(e.times))
    BY VectorOf
  <2>2. all = Picked(e.times, S)
    BY DEF time_list
  <2> HIDE DEF S, all
  <2> QED BY <2>1, <2>2, PickedMembers
<1> HIDE DEF all
<1>2. Len(all) \in Nat /\ DOMAIN all = 1 .. Len(all)
    BY <1>1, VectorOf
<1>3. StepsRight(<<>>, e, limits)
    BY DEF StepsRight, IsVector
<1>4. wkb_geometries(e, geoms) = geoms
  <2>1. Len(limits) \in Nat /\ DOMAIN limits = 1 .. Len(limits)
    BY VectorOf
  <2>2. IsList(geoms, Len(limits)) /\ DOMAIN geoms = 1 .. Len(limits)
    BY <2>1 DEF contour, IsList
  <2> HIDE DEF geoms
  <2>3. {i \in DOMAIN geoms : geoms[i].limits \notin e.undecodable} = 1 .. Len(limits)
    BY <2>2
  <2> QED BY <2>1, <2>2, <2>3, AllPicked DEF wkb_geometries
<1>5. StepsRight(getContours_qEngine(p, e, limits), e, limits)
  <2> DEFINE S == {i \in DOMAIN all : all[i] \notin e.lost}
             times == Picked(all, S)
             steps == [k \in DOMAIN times |-> [time |-> times[k], geoms |-> geoms]]
  <2>1. getContours_qEngine(p, e, limits) = IF limits = <<>> THEN <<>> ELSE steps
    BY DEF getContours_qEngine, all
  <2>2. S \in SUBSET (1 .. Len(all))
    BY <1>2
  <2> HIDE DEF S
  <2>3. IsVector(times)
    BY <1>2, <2>2, PickedMembers
  <2> HIDE DEF times, geoms
  <2>4. Len(times) \in Nat /\ DOMAIN times = 1 .. Len(times)
    BY <2>3, VectorOf
  <2>5. IsList(steps, Len(times)) /\ \A k \in DOMAIN steps : steps[k].geoms = geoms
    BY <2>4 DEF IsList
  <2> HIDE DEF steps
  <2>6. StepsRight(steps, e, limits)
    BY <2>4, <2>5, ListOf DEF StepsRight, geoms
  <2> QED BY <1>3, <2>1, <2>6
<1>6. getContours_gridEngine(p, e, limits).ok => StepsRight(getContours_gridEngine(p, e, limits).val, e, limits)
  <2> SUFFICES ASSUME getContours_gridEngine(p, e, limits).ok
               PROVE  StepsRight(getContours_gridEngine(p, e, limits).val, e, limits)
    OBVIOUS
  <2> DEFINE steps == [k \in DOMAIN all |-> [time |-> all[k], geoms |-> geoms]]
             S == {k \in DOMAIN steps : steps[k].geoms # <<>>}
             out == Picked(steps, S)
  <2>1. getContours_gridEngine(p, e, limits) = IF e.fails THEN throw_query_server_error ELSE Ok(out)
    BY <1>4 DEF getContours_gridEngine, all
  <2>2. ~throw_query_server_error.ok
    BY DEF throw_query_server_error, NoCode, Fail, Throw
  <2> HIDE DEF geoms
  <2>3. DOMAIN steps = 1 .. Len(all) /\ \A k \in DOMAIN steps : steps[k].geoms = geoms
    BY <1>2
  <2> HIDE DEF steps
  <2>4. S \in SUBSET (1 .. Len(all)) /\ S \subseteq DOMAIN steps
    BY <2>3
  <2> HIDE DEF S
  <2>5. IsVector(out) /\ \A m \in DOMAIN out : \E i \in S : out[m] = steps[i]
    BY <1>2, <2>3, <2>4, PickedMembers
  <2> HIDE DEF out
  <2>6. StepsRight(out, e, limits)
    BY <2>3, <2>4, <2>5 DEF StepsRight, geoms
  <2> QED BY <2>1, <2>2, <2>6 DEF Ok
<1>7. ~Throw("crash", "none").ok
    BY DEF Throw
<1> DEFINE r == getContours(p, e, grid, limits)
<1>8. \/ r = getContours_gridEngine(p, e, limits)
      \/ r = Ok(<<>>)
      \/ r = Throw("crash", "none")
      \/ r = Ok(getContours_qEngine(p, e, limits))
    BY DEF getContours
<1> HIDE DEF r
<1>9. StepsRight(r.val, e, limits)
    BY <1>3, <1>5, <1>6, <1>7, <1>8 DEF r, Ok
<1> QED BY <1>9 DEF r

\* Each contour is labelled with the limits it was computed for.
LEMMA ContoursLabelled ==
    ASSUME NEW e, NEW limits, IsVector(limits), NEW steps, StepsRight(steps, e, limits)
    PROVE  LET results == label_contours(limits, steps)
           IN  /\ IsVector(results)
               /\ \A m \in DOMAIN results : \E i \in DOMAIN limits :
                     results[m].label = limits[i] /\ results[m].geom = contour(e, limits)[i]
<1> DEFINE geoms == contour(e, limits)
           n == Len(limits)
           S(i) == {k \in DOMAIN steps : i \in DOMAIN steps[k].geoms}
           with(i) == Picked(steps, S(i))
           Part(i) == [k \in DOMAIN with(i) |-> [label |-> limits[i], time |-> with(i)[k].time, geom |-> with(i)[k].geoms[i]]]
           parts == [i \in DOMAIN limits |-> Part(i)]
<1>1. label_contours(limits, steps) = FlattenSeq(parts)
    BY DEF label_contours
<1>2. n \in Nat /\ DOMAIN limits = 1 .. n
    BY VectorOf
<1>3. /\ Len(steps) \in Nat /\ DOMAIN steps = 1 .. Len(steps) /\ \A i : S(i) \in SUBSET (1 .. Len(steps))
      /\ \A k \in DOMAIN steps : steps[k].geoms = geoms
    BY VectorOf DEF StepsRight
<1> HIDE DEF S, geoms, n
<1>4. \A i : IsVector(with(i)) /\ \A m \in DOMAIN with(i) : with(i)[m].geoms = geoms
  <2> SUFFICES ASSUME NEW i PROVE IsVector(with(i)) /\ \A m \in DOMAIN with(i) : with(i)[m].geoms = geoms
    OBVIOUS
  <2>1. IsVector(with(i)) /\ \A m \in DOMAIN with(i) : \E k \in S(i) : with(i)[m] = steps[k]
    BY <1>3, PickedMembers
  <2> HIDE DEF with
  <2> QED BY <1>3, <2>1
<1> HIDE DEF with
<1>5. \A i : IsVector(Part(i)) /\ \A k \in DOMAIN Part(i) : Part(i)[k].label = limits[i] /\ Part(i)[k].geom = geoms[i]
  <2> SUFFICES ASSUME NEW i
               PROVE  IsVector(Part(i)) /\ \A k \in DOMAIN Part(i) : Part(i)[k].label = limits[i] /\ Part(i)[k].geom = geoms[i]
    OBVIOUS
  <2> DEFINE s == Part(i)
             m == Len(with(i))
  <2>1. m \in Nat /\ DOMAIN with(i) = 1 .. m
    BY <1>4, VectorOf
  <2>2. IsList(s, m) /\ \A k \in DOMAIN s : s[k].label = limits[i] /\ s[k].geom = geoms[i]
    BY <1>4, <2>1 DEF IsList
  <2> HIDE DEF s, m
  <2>3. IsVector(s)
    BY <2>1, <2>2, ListOf
  <2> QED BY <2>2, <2>3 DEF s
<1>6. IsList(parts, n) /\ \A i \in 1 .. n : parts[i] = Part(i)
    BY <1>2 DEF IsList
<1> HIDE DEF Part, parts
<1> DEFINE f == FlattenSeq(parts)
<1>7. IsVector(f) /\ \A m \in DOMAIN f : \E i \in 1 .. n : \E j \in DOMAIN parts[i] : f[m] = parts[i][j]
  <2>1. \A i \in 1 .. n : IsVector(parts[i])
    BY <1>5, <1>6
  <2> QED BY <1>2, <1>6, <2>1, FlattenMembers
<1> HIDE DEF f
<1>8. \A m \in DOMAIN f : \E i \in DOMAIN limits : f[m].label = limits[i] /\ f[m].geom = geoms[i]
    BY <1>2, <1>5, <1>6, <1>7
<1> QED BY <1>1, <1>7, <1>8 DEF f, geoms

\* The members of an answer with contours.
LEMMA MembersLabelled ==
    ASSUME NEW results, IsVector(results),
           \A m \in DOMAIN results : results[m].geom.parts \in Nat /\ results[m].label = results[m].geom.limits
    PROVE  LET members == parseQueryResults(results)
           IN  \A m \in DOMAIN members : members[m].data.label = members[m].data.limits
<1> DEFINE n == Len(results)
           Item(k, i) == [row |-> <<k, i>>,
                          data |-> [label |-> results[k].label, limits |-> results[k].geom.limits, time |-> results[k].time]]
           Part(k) == [i \in 1 .. results[k].geom.parts |-> Item(k, i)]
           parts == [k \in DOMAIN results |-> Part(k)]
           f == FlattenSeq(parts)
<1>1. parseQueryResults(results) = f
    BY DEF parseQueryResults
<1>2. n \in Nat /\ DOMAIN results = 1 .. n
    BY VectorOf
<1>3. \A k \in 1 .. n : IsVector(Part(k)) /\ \A i \in DOMAIN Part(k) : Part(k)[i] = Item(k, i)
  <2> SUFFICES ASSUME NEW k \in 1 .. n
               PROVE  IsVector(Part(k)) /\ \A i \in DOMAIN Part(k) : Part(k)[i] = Item(k, i)
    OBVIOUS
  <2> DEFINE s == Part(k)
             q == results[k].geom.parts
  <2>1. q \in Nat
    BY <1>2
  <2> HIDE DEF Item
  <2>2. IsList(s, q) /\ \A i \in DOMAIN s : s[i] = Item(k, i)
    BY DEF IsList
  <2> HIDE DEF s, q
  <2>3. IsVector(s)
    BY <2>1, <2>2, ListOf
  <2> QED BY <2>2, <2>3 DEF s
<1>4. \A k \in 1 .. n : \A i : Item(k, i).data.label = Item(k, i).data.limits
    BY <1>2
<1>5. IsList(parts, n) /\ \A k \in 1 .. n : parts[k] = Part(k)
    BY <1>2 DEF IsList
<1> HIDE DEF Item, Part, parts, n
<1>6. \A m \in DOMAIN f : \E i \in 1 .. n : \E j \in DOMAIN parts[i] : f[m] = parts[i][j]
  <2>1. \A k \in 1 .. n : IsVector(parts[k])
    BY <1>3, <1>5
  <2> QED BY <1>2, <1>5, <2>1, FlattenMembers
<1> HIDE DEF f
<1>7. \A m \in DOMAIN f : f[m].data.label = f[m].data.limits
    BY <1>3, <1>4, <1>5, <1>6
<1> QED BY <1>1, <1>7

\* The limits that are drawn are a list of pairs.
LEMMA DrawnLimits ==
    ASSUME NEW hh, NEW p, IsVector(hh.limits), IsVector(p["limits"])
    PROVE  IsVector(drawn_limits(hh, p))
<1> DEFINE limits == IF p["limits"] # <<>> THEN p["limits"] ELSE hh.limits
           n == Len(limits) \div 2
           lines == [i \in DOMAIN hh.limits |-> <<hh.limits[i], hh.limits[i]>>]
           pairs == [i \in 1 .. n |-> <<limits[2 * i - 1], limits[2 * i]>>]
<1>1. drawn_limits(hh, p) = IF hh.kind = "isoline" THEN lines ELSE pairs
    BY DEF drawn_limits
<1>2. Len(hh.limits) \in Nat /\ DOMAIN hh.limits = 1 .. Len(hh.limits) /\ Len(limits) \in Nat
    BY VectorOf
<1>3. IsList(lines, Len(hh.limits))
    BY <1>2 DEF IsList
<1>4. n \in Nat
  <2> HIDE DEF limits
  <2> QED BY <1>2
<1>5. IsList(pairs, n)
    BY DEF IsList
<1> HIDE DEF lines, pairs, n
<1> QED BY <1>1, <1>2, <1>3, <1>4, <1>5, ListOf

\* An answer with contours, made from query data or by the grid engine.
ContoursAnswered(hh, p, e, grid, groups) ==
    LET limits == drawn_limits(hh, p)
        steps == getContours(p, e, grid, limits)
        members == parseQueryResults(label_contours(limits, steps.val))
    IN  /\ steps.ok
        /\ groups = [k \in DOMAIN members |-> [ids |-> [feature_id |-> members[k].row], rows |-> <<members[k]>>]]

LEMMA ContourAnswer ==
    ASSUME NEW hh, NEW p, NEW e, Contour_query(hh, p, e).ok
    PROVE  \E grid \in BOOLEAN : ContoursAnswered(hh, p, e, grid, Contour_query(hh, p, e).val.groups)
<1> DEFINE Results(grid) == processQuery(hh, p, e, grid)
           Members(grid) == Contour_members(p, e, Results(grid).val)
           c0 == Single(p, "producer")
           c1 == target_crs(p, e)
           c2 == get_model(e, p["producer"][1], parse_times(p))
           c3 == read_coverage_limits(hh, p)
           c4 == Singles(p, {"begintime", "endtime"})
           c5 == transformed_box(p, e)
           End(grid) == IF Results(grid).ok THEN Members(grid) ELSE Results(grid)
           q == query_qEngine(hh, p, e)
           g == query_gridEngine(hh, p, e)
           r == Contour_query(hh, p, e)
<1>1. q = IF c1.ok THEN IF c2.ok THEN IF c3.ok THEN IF c4.ok THEN IF c5.ok THEN End(FALSE) ELSE c5 ELSE c4
                        ELSE c3 ELSE c2 ELSE c1
    BY DEF query_qEngine, Then
<1>2. g = IF c1.ok THEN IF c4.ok THEN IF c3.ok THEN IF c5.ok THEN End(TRUE) ELSE c5 ELSE c3 ELSE c4 ELSE c1
    BY DEF query_gridEngine, Then
<1>3. r = IF c0.ok THEN IF e.source = "grid" /\ e.grid_enabled /\ c0.val \in e.grid_producers THEN g ELSE q ELSE c0
    BY DEF Contour_query, Then
<1> HIDE DEF c0, c1, c2, c3, c4, c5, q, g, End, r
<1>4. PICK grid \in BOOLEAN : r = End(grid) /\ End(grid).ok
  <2>1. r.ok
    BY DEF r
  <2>2. r = g \/ r = q
    BY <1>3, <2>1
  <2>3. (g.ok => g = End(TRUE)) /\ (q.ok => q = End(FALSE))
    BY <1>1, <1>2
  <2> QED BY <2>1, <2>2, <2>3
<1> DEFINE limits == drawn_limits(hh, p)
           steps == getContours(p, e, grid, limits)
           labelled == label_contours(limits, steps.val)
           members == parseQueryResults(labelled)
           groups == [k \in DOMAIN members |-> [ids |-> [feature_id |-> members[k].row], rows |-> <<members[k]>>]]
           answer == [begin |-> p["begintime"][1], end |-> p["endtime"][1], box |-> p["bbox"], groups |-> groups]
<1>5. ~InvalidValue.ok /\ ~NoCode.ok /\ ~ProcessingFailed.ok
    BY DEF InvalidValue, NoCode, ProcessingFailed, Fail, Throw
<1>6. Results(grid).ok /\ Members(grid).ok /\ r = Members(grid)
    BY <1>4 DEF End
<1>7. Results(grid) = IF hh.kind = "winter" /\ Len(hh.names) # Len(limits) THEN InvalidValue
                      ELSE IF steps.ok THEN Ok(labelled) ELSE steps
    BY DEF processQuery, Then
<1> HIDE DEF limits, steps, labelled, Results
<1>8. steps.ok /\ Results(grid).val = labelled
    BY <1>5, <1>6, <1>7 DEF Ok
<1>9. Members(grid) = IF ~tz_known(p, e) THEN NoCode ELSE format_output(e, answer)
    BY <1>8 DEF Contour_members
<1> HIDE DEF Members, groups
<1>10. Members(grid) = Ok(answer)
    BY <1>5, <1>6, <1>9 DEF format_output
<1>11. r.val.groups = groups
    BY <1>6, <1>10 DEF Ok
<1>12. ContoursAnswered(hh, p, e, grid, r.val.groups)
    BY <1>8, <1>11 DEF groups, labelled, steps, limits, ContoursAnswered
<1> QED BY <1>12 DEF r

\* An answer with grids.
LEMMA GridAnswer ==
    ASSUME NEW hh, NEW p, NEW e, Grid_query(hh, p, e).ok
    PROVE  /\ p["producer"][1] \in DOMAIN e.models
           /\ \E points, times, width :
                 LET groups == Grid_levels(p, e.models[p["producer"][1]], points, times, width)
                 IN  groups.ok /\ Grid_query(hh, p, e).val.groups = groups.val
<1> DEFINE extracted == Grid_extract_forecast(p, e)
           c1 == Singles(p, {"missingtext"})
           c2 == Grid_parse_levels(p)
           c3 == parse_params(p, e)
           c4 == Singles(p, {"begintime", "endtime", "datacrs"})
           c5 == transformed_box(p, e)
           c6 == Singles(p, {"producer"})
           answer == [begin |-> p["begintime"][1], end |-> p["endtime"][1], box |-> c5.val,
                      groups |-> extracted.val.groups]
           out == format_output(e, answer)
           r7 == IF extracted.ok THEN out ELSE extracted
           ra == IF p["producer"][1] \notin DOMAIN e.models THEN NoCode ELSE r7
           r6 == IF c6.ok THEN ra ELSE c6
           r5 == IF c5.ok THEN r6 ELSE c5
           a == <<p["bbox"] = <<>>, "OperationProcessingFailed">>
           b == <<p["bbox"] # <<>> /\ e.box_crs # p["datacrs"][1], "OperationProcessingFailed">>
           checked == Checked(<<a, b>>, r5)
           r == IF c1.ok THEN IF c2.ok THEN IF c3.ok THEN IF c4.ok THEN checked ELSE c4 ELSE c3 ELSE c2 ELSE c1
<1>1. Grid_query(hh, p, e) = Guarded(r)
    BY DEF Grid_query, Then
<1>2. ~NoCode.ok /\ ~ProcessingFailed.ok /\ (\A code : ~Fail(code).ok)
    BY DEF NoCode, ProcessingFailed, Fail, Throw
<1> HIDE DEF extracted, c1, c2, c3, c4, c5, c6, checked, out, r5, a, b
<1>3. r.ok /\ Grid_query(hh, p, e) = r
    BY <1>1, <1>2 DEF Guarded, WithCode
<1>4. r = checked /\ checked.ok
    BY <1>3
<1>5. checked = r5
    BY <1>4, TwoChecks DEF checked
<1>6. r5 = out /\ out.ok /\ extracted.ok /\ p["producer"][1] \in DOMAIN e.models
    BY <1>2, <1>4, <1>5 DEF r5
<1>7. out = Ok(answer)
    BY <1>2, <1>6 DEF out, format_output
<1>8. Grid_query(hh, p, e).val.groups = extracted.val.groups
    BY <1>3, <1>4, <1>5, <1>6, <1>7 DEF Ok
<1> DEFINE model == e.models[p["producer"][1]]
           times == time_list(p, model)
           step == p["datastep"][1]
           d1 == get_model(e, p["producer"][1], parse_times(p))
           d2 == check_grid_model(e, p["producer"][1])
           d3 == Singles(p, {"datastep"})
           extents == getDataIndexExtents(model.points)
           points == makeSparseGrid(model.points, step, extents.val[1])
           dims == getDataIndexExtents(points)
           corners == set_grid_corners(points)
           groups == Grid_levels(p, model, points, times, dims.val[1])
           s8 == Ok([dims |-> dims.val, groups |-> groups.val])
           s7 == IF groups.ok THEN s8 ELSE groups
           s6 == IF corners.ok THEN s7 ELSE corners
           s5 == IF dims.ok THEN s6 ELSE dims
           s4 == IF extents.ok THEN s5 ELSE extents
           c == <<step < 1 \/ times = <<>>, "OperationProcessingFailed">>
           s3 == Checked(<<c>>, s4)
           s2 == IF d3.ok THEN s3 ELSE d3
           s1 == IF d2.ok THEN s2 ELSE d2
<1>9. extracted = IF d1.ok THEN s1 ELSE d1
    BY DEF extracted, Grid_extract_forecast, Then
<1> HIDE DEF times, step, d1, d2, d3, extents, points, dims, corners, groups, c, s3, s4, model
<1>10. s3.ok /\ extracted = s3
    BY <1>6, <1>9
<1>11. s3 = s4
    BY <1>10, OneCheck DEF s3
<1>12. groups.ok /\ extracted = s8
    BY <1>10, <1>11 DEF s4
<1>13. extracted.val.groups = groups.val
    BY <1>12 DEF Ok
<1> QED BY <1>6, <1>8, <1>12, <1>13 DEF groups, model

\* The grids of a parameter have its name as their label.
LEMMA GridsLabelled ==
    ASSUME NEW p, IsVector(p["meteo"]), add_param_info(p["meteo"]) = p["meteo"], NEW model, IsVector(model.levels),
           NEW points, NEW times, NEW width, Grid_levels(p, model, points, times, width).ok
    PROVE  LET gs == Grid_levels(p, model, points, times, width).val
           IN  \A k \in DOMAIN gs : \A q \in DOMAIN gs[k].rows : gs[k].rows[q].data.label = gs[k].rows[q].data.name
<1> DEFINE names == p["meteo"]
           n == Len(names)
           m == Len(model.levels)
           grids == grid_time_series(points, times, width)
           Made(l, i) == [ids |-> [feature_id |-> <<l, names[i]>>],
                          rows |-> [t \in DOMAIN grids.val |->
                                       [row |-> <<l, i, t>>,
                                        data |-> [label |-> names[i], name |-> names[i], grid |-> grids.val[t]]]]]
           Group(l, i) == IF i \notin DOMAIN names THEN Throw("undefined", "none")
                          ELSE IF grids.ok THEN Ok(Made(l, i)) ELSE grids
           level(l) == [i \in DOMAIN names |-> Group(l, i)]
           levels == [l \in DOMAIN model.levels |-> All(level(l))]
           made == All(levels)
<1>1. Grid_levels(p, model, points, times, width) = IF made.ok THEN Ok(FlattenSeq(made.val)) ELSE made
    BY DEF Grid_levels, Then
<1>2. n \in Nat /\ DOMAIN names = 1 .. n /\ m \in Nat /\ DOMAIN model.levels = 1 .. m
    BY VectorOf
<1>3. \A l, i : \A q \in DOMAIN Made(l, i).rows : Made(l, i).rows[q].data.label = Made(l, i).rows[q].data.name
    OBVIOUS
<1> HIDE DEF Made
<1>4. \A l, i : Group(l, i).ok => Group(l, i).val = Made(l, i)
    BY DEF Ok, Throw
<1> HIDE DEF Group, grids
<1>5. \A l : DOMAIN level(l) = 1 .. n /\ \A i \in 1 .. n : level(l)[i] = Group(l, i)
    BY <1>2
<1> HIDE DEF level
<1>6. DOMAIN levels = 1 .. m /\ \A l \in 1 .. m : levels[l] = All(level(l))
    BY <1>2
<1> HIDE DEF levels, n, m, names
<1>7. made.ok
    BY <1>1
<1>8. made = Ok([l \in 1 .. m |-> levels[l].val]) /\ \A l \in 1 .. m : levels[l].ok
    BY <1>2, <1>6, <1>7, AllOk
<1>9. \A l \in 1 .. m : levels[l].val = [i \in 1 .. n |-> Made(l, i)]
  <2> SUFFICES ASSUME NEW l \in 1 .. m PROVE levels[l].val = [i \in 1 .. n |-> Made(l, i)]
    OBVIOUS
  <2>1. All(level(l)).ok
    BY <1>6, <1>8
  <2>2. All(level(l)) = Ok([i \in 1 .. n |-> level(l)[i].val]) /\ \A i \in 1 .. n : level(l)[i].ok
    BY <1>2, <1>5, <2>1, AllOk
  <2>3. \A i \in 1 .. n : level(l)[i].val = Made(l, i)
    BY <1>4, <1>5, <2>2
  <2>4. All(level(l)).val = [i \in 1 .. n |-> level(l)[i].val]
    BY <2>2 DEF Ok
  <2> QED BY <1>6, <2>3, <2>4
<1> DEFINE parts == made.val
           f == FlattenSeq(parts)
<1>10. parts = [l \in 1 .. m |-> levels[l].val]
    BY <1>8 DEF Ok
<1> HIDE DEF made, parts
<1>11. IsList(parts, m) /\ \A l \in 1 .. m : IsVector(parts[l]) /\ \A i \in DOMAIN parts[l] : parts[l][i] = Made(l, i)
  <2>1. IsList(parts, m) /\ \A l \in 1 .. m : parts[l] = [i \in 1 .. n |-> Made(l, i)]
    BY <1>9, <1>10 DEF IsList
  <2>2. ASSUME NEW l \in 1 .. m PROVE IsVector(parts[l]) /\ \A i \in DOMAIN parts[l] : parts[l][i] = Made(l, i)
    <3> DEFINE s == parts[l]
    <3>1. s = [i \in 1 .. n |-> Made(l, i)]
      BY <2>1
    <3> HIDE DEF s
    <3>2. IsList(s, n) /\ \A i \in DOMAIN s : s[i] = Made(l, i)
      BY <3>1 DEF IsList
    <3>3. IsVector(s)
      BY <1>2, <3>2, ListOf
    <3> QED BY <3>2, <3>3 DEF s
  <2> QED BY <2>1, <2>2
<1>12. \A k \in DOMAIN f : \E i \in 1 .. m : \E j \in DOMAIN parts[i] : f[k] = parts[i][j]
    BY <1>2, <1>11, FlattenMembers
<1> HIDE DEF f
<1>13. \A k \in DOMAIN f : \E l, i : f[k] = Made(l, i)
    BY <1>11, <1>12
<1>14. Grid_levels(p, model, points, times, width).val = f
    BY <1>1, <1>7 DEF Ok, f, parts
<1>15. \A k \in DOMAIN f : \A q \in DOMAIN f[k].rows : f[k].rows[q].data.label = f[k].rows[q].data.name
    BY <1>3, <1>13
<1> QED BY <1>14, <1>15

LEMMA ContourLabels ==
    ASSUME IInv, h.handler = "contour", response.ok, eng.undecodable = {}, NEW x \in RowsAt
    PROVE  RowOf(x).data.label = RowOf(x).data.limits
<1>1. response = Contour_query(h, par, eng) /\ Contour_query(h, par, eng).ok
    BY DEF IInv, Answered
<1>2. IsVector(par["limits"]) /\ IsVector(h.limits) /\ IsVector(eng.times)
      /\ \A limits \in DOMAIN eng.parts : eng.parts[limits] \in Nat
  <2>1. registered[h.handler] = Contour_registered
    BY DEF registered
  <2>2. "limits" \in registered[h.handler].other
    BY <2>1 DEF Contour_registered
  <2>3. eng.parts \in Possible("parts")
    BY EnginesAssumption DEF IInv, InputsRight
  <2>4. IsVector(h.limits)
    BY ConfiguredAssumption DEF IInv, InputsRight
  <2> QED BY <2>2, <2>3, <2>4, Vectors, EnginesAssumption
<1> DEFINE limits == drawn_limits(h, par)
           Steps(grid) == getContours(par, eng, grid, limits)
           Results(grid) == label_contours(limits, Steps(grid).val)
           Members(grid) == parseQueryResults(Results(grid))
<1>0. PICK grid \in BOOLEAN : ContoursAnswered(h, par, eng, grid, response.val.groups)
    BY <1>1, ContourAnswer
<1>3. /\ Steps(grid).ok
      /\ response.val.groups = [k \in DOMAIN Members(grid) |->
            [ids |-> [feature_id |-> Members(grid)[k].row], rows |-> <<Members(grid)[k]>>]]
    BY <1>0 DEF ContoursAnswered
<1>4. IsVector(limits)
    BY <1>2, DrawnLimits
<1> HIDE DEF limits
<1>5. StepsRight(Steps(grid).val, eng, limits)
    BY <1>2, <1>3, <1>4, TimeSteps
<1> DEFINE geoms == contour(eng, limits)
           results == Results(grid)
<1>6. IsVector(results) /\ \A m \in DOMAIN results : \E i \in DOMAIN limits :
          results[m].label = limits[i] /\ results[m].geom = geoms[i]
    BY <1>4, <1>5, ContoursLabelled
<1>7. \A i \in DOMAIN limits : geoms[i].limits = limits[i] /\ geoms[i].parts \in Nat
    BY <1>2 DEF contour
<1> DEFINE members == Members(grid)
<1> HIDE DEF results, geoms
<1>8. \A m \in DOMAIN results : results[m].geom.parts \in Nat /\ results[m].label = results[m].geom.limits
    BY <1>6, <1>7
<1>9. members = parseQueryResults(results)
    BY DEF results
<1>11. response.val.groups = [k \in DOMAIN members |-> [ids |-> [feature_id |-> members[k].row], rows |-> <<members[k]>>]]
    BY <1>3
<1> HIDE DEF members
<1>10. \A m \in DOMAIN members : members[m].data.label = members[m].data.limits
    BY <1>6, <1>8, <1>9, MembersLabelled
<1>12. x[1] \in DOMAIN response.val.groups /\ x[2] \in DOMAIN response.val.groups[x[1]].rows
       /\ RowOf(x) = response.val.groups[x[1]].rows[x[2]]
    BY RowsAtAre
<1>13. x[1] \in DOMAIN members /\ RowOf(x) = members[x[1]]
  <2>1. x[1] \in DOMAIN members /\ response.val.groups[x[1]].rows = <<members[x[1]]>>
    BY <1>11, <1>12
  <2>2. \A s, y, k : s = <<y>> /\ k \in DOMAIN s => s[k] = y
    OBVIOUS
  <2> QED BY <1>12, <2>1, <2>2
<1> QED BY <1>10, <1>13

LEMMA GridLabels ==
    ASSUME IInv, h.handler = "grid", response.ok, add_param_info(par["meteo"]) = par["meteo"], NEW x \in RowsAt
    PROVE  RowOf(x).data.label = RowOf(x).data.name
<1>1. response = Grid_query(h, par, eng) /\ Grid_query(h, par, eng).ok
    BY DEF IInv, Answered
<1>2. IsVector(par["meteo"]) /\ \A m \in DOMAIN eng.models : IsVector(eng.models[m].levels)
  <2>1. registered[h.handler] = Grid_registered
    BY DEF registered
  <2>2. "meteo" \in registered[h.handler].other
    BY <2>1 DEF Grid_registered
  <2> QED BY <2>2, Vectors
<1> DEFINE model == eng.models[par["producer"][1]]
           gs == response.val.groups
<1>3. par["producer"][1] \in DOMAIN eng.models
    BY <1>1, GridAnswer
<1>4. PICK points, times, width :
          Grid_levels(par, model, points, times, width).ok /\ gs = Grid_levels(par, model, points, times, width).val
    BY <1>1, GridAnswer
<1>5. IsVector(model.levels)
    BY <1>2, <1>3
<1> HIDE DEF model
<1>6. \A k \in DOMAIN gs : \A q \in DOMAIN gs[k].rows : gs[k].rows[q].data.label = gs[k].rows[q].data.name
    BY <1>2, <1>4, <1>5, GridsLabelled
<1> QED BY <1>6, RowsAtAre

\* However many limits, time steps, levels and parameters there are, a contour
\* is labelled with the limits it was computed for as long as the engine's
\* bytes can be decoded, and a grid with the name of its parameter as long as
\* no name is asked for twice (processQuery of
\* StoredCoverageQueryHandler.cpp and extract_forecast of
\* StoredGridQueryHandler.cpp).
THEOREM LabelsAlwaysRight == Spec => []LabelledAsComputed
<1>1. IInv => LabelledAsComputed
  <2> SUFFICES ASSUME IInv, NEW x \in RowsAt
               PROVE  /\ h.handler = "contour" /\ eng.undecodable = {} => RowOf(x).data.label = RowOf(x).data.limits
                      /\ h.handler = "grid" /\ add_param_info(par["meteo"]) = par["meteo"] =>
                            RowOf(x).data.label = RowOf(x).data.name
    BY DEF LabelledAsComputed
  <2>1. response.ok
    BY NoRowsWithoutAnswer
  <2> QED BY <2>1, ContourLabels, GridLabels
<1> QED BY <1>1, AlwaysIInv, PTL
-----------------------------------------------------------------------------
(* The links of downloads *)

\* Everything of two lists is in the one after the other.
Has(c, s) == \A i \in DOMAIN s : \E m \in DOMAIN c : c[m] = s[i]

LEMMA ConcatHas ==
    ASSUME NEW T, NEW s \in Seq(T), NEW t \in Seq(T)
    PROVE  Has(s \o t, s) /\ Has(s \o t, t)
<1> DEFINE c == s \o t
<1>1. /\ Len(c) = Len(s) + Len(t) /\ Len(s) \in Nat /\ Len(t) \in Nat
      /\ DOMAIN c = 1 .. Len(c) /\ DOMAIN s = 1 .. Len(s) /\ DOMAIN t = 1 .. Len(t)
      /\ \A m \in 1 .. Len(c) : c[m] = IF m <= Len(s) THEN s[m] ELSE t[m - Len(s)]
    OBVIOUS
<1> HIDE DEF c
<1>2. \A i \in DOMAIN s : i \in DOMAIN c /\ c[i] = s[i]
    BY <1>1
<1>3. \A i \in DOMAIN t : Len(s) + i \in DOMAIN c /\ c[Len(s) + i] = t[i]
    BY <1>1
<1>4. Has(c, s) /\ Has(c, t)
    BY <1>2, <1>3 DEF Has
<1> QED BY <1>4 DEF c

\* A flattened list has everything of its parts.
LEMMA FlattenHas ==
    ASSUME NEW n \in Nat, NEW ss, IsList(ss, n), \A i \in 1 .. n : IsVector(ss[i])
    PROVE  \A i \in 1 .. n : Has(FlattenSeq(ss), ss[i])
<1> SUFFICES ASSUME n # 0 PROVE \A i \in 1 .. n : Has(FlattenSeq(ss), ss[i])
    OBVIOUS
<1> DEFINE T == UNION {Range(ss[i]) : i \in 1 .. n}
<1>1. \A i \in 1 .. n : ss[i] \in Seq(T)
  <2> SUFFICES ASSUME NEW i \in 1 .. n PROVE ss[i] \in Seq(T)
    OBVIOUS
  <2> DEFINE s == ss[i]
             R == Range(s)
  <2>1. s \in Seq(R) /\ \A x \in R : x \in T
    BY DEF IsVector
  <2> HIDE DEF s, R, T
  <2>2. Len(s) \in Nat /\ DOMAIN s = 1 .. Len(s) /\ \A k \in 1 .. Len(s) : s[k] \in T
    BY <2>1
  <2>3. s \in [1 .. Len(s) -> T]
    BY <2>1, <2>2
  <2>4. s \in Seq(T)
    BY <2>2, <2>3
  <2> QED BY <2>4 DEF s
<1> HIDE DEF T
<1>2. ss \in [1 .. n -> Seq(T)]
    BY <1>1 DEF IsList
<1>3. ss \in Seq(Seq(T)) /\ Len(ss) = n
    BY <1>2
<1>4. PICK g : IsFlat(g, ss) /\ FlattenSeq(ss) = g[n]
    BY <1>3, FlattenIs
<1>5. \A i \in 1 .. n : g[i] = IF i = 1 THEN ss[i] ELSE g[i - 1] \o ss[i]
    BY <1>3, <1>4, FlatSteps
<1>6. \A i \in 1 .. n : g[i] \in Seq(T)
    BY <1>3, <1>4, FlatType
<1> DEFINE N == {k \in Nat : k \in 1 .. n => \A i \in 1 .. k : Has(g[k], ss[i])}
<1>7. 0 \in N
    OBVIOUS
<1>8. ASSUME NEW k \in Nat, k \in N PROVE k + 1 \in N
  <2> SUFFICES ASSUME k + 1 \in 1 .. n, NEW i \in 1 .. k + 1 PROVE Has(g[k + 1], ss[i])
    OBVIOUS
  <2>1. g[k + 1] = IF k = 0 THEN ss[k + 1] ELSE g[k] \o ss[k + 1]
    <3>1. (k + 1 = 1) = (k = 0) /\ (k + 1) - 1 = k
      OBVIOUS
    <3> QED BY <1>5, <3>1
  <2>2. \A s : Has(s, s)
    BY DEF Has
  <2>3. \A a, b, c : Has(a, b) /\ Has(b, c) => Has(a, c)
    <3> SUFFICES ASSUME NEW a, NEW b, NEW c, Has(a, b), Has(b, c), NEW i1 \in DOMAIN c
                 PROVE  \E m \in DOMAIN a : a[m] = c[i1]
      BY DEF Has
    <3>1. PICK j \in DOMAIN b : b[j] = c[i1]
      BY DEF Has
    <3>2. PICK m \in DOMAIN a : a[m] = b[j]
      BY DEF Has
    <3> QED BY <3>1, <3>2
  <2>4. CASE k = 0
    <3>1. i = k + 1
      BY <2>4
    <3> QED BY <2>1, <2>2, <2>4, <3>1
  <2>5. CASE k # 0
    <3>1. k \in 1 .. n
      BY <2>5
    <3>2. g[k] \in Seq(T) /\ ss[k + 1] \in Seq(T)
      BY <1>1, <1>6, <3>1
    <3>3. g[k + 1] = g[k] \o ss[k + 1]
      BY <2>1, <2>5
    <3>4. Has(g[k + 1], g[k]) /\ Has(g[k + 1], ss[k + 1])
      BY <3>2, <3>3, ConcatHas
    <3>5. i = k + 1 \/ i \in 1 .. k
      OBVIOUS
    <3>6. i \in 1 .. k => Has(g[k], ss[i])
      BY <1>8, <3>1
    <3> QED BY <2>3, <3>4, <3>5, <3>6
  <2> QED BY <2>4, <2>5
<1> HIDE DEF N
<1>9. Nat \subseteq N
    BY <1>7, <1>8, NatSetInduction
<1>10. n \in N /\ n \in 1 .. n
    BY <1>9
<1> QED BY <1>4, <1>10 DEF N

LEMMA SingleVector ==
    ASSUME NEW x
    PROVE  IsVector(<<x>>) /\ IsVector(<<>>)
BY DEF IsVector, Range

\* A URL whose template refers to a name has the value of that name.
LEMMA UrlNames ==
    ASSUME NEW c, IsVector(c.url_params), NEW set, \A x \in DOMAIN set : IsVector(set[x]),
           NEW name, Refers(c, name), name \in DOMAIN set, generate(c, set).ok
    PROVE  <<name, set[name]>> \in Range(generate(c, set).val.params)
<1> DEFINE ups == c.url_params
           n == Len(ups)
           base == eval_string_param(c, set, c.url, FALSE)
           Text(i) == eval_string_param(c, set, ups[i].refs, TRUE)
           Value(i) == get_param_callback(c, set, ups[i].name)
           Piece(i) == IF ups[i].kind = "text"
                       THEN IF Text(i).ok THEN Ok(<< <<ups[i].name, Text(i).val>> >>) ELSE Text(i)
                       ELSE IF Value(i).ok THEN append_param_ref(c, ups[i], Value(i).val) ELSE Value(i)
           pieces == [i \in DOMAIN ups |-> Piece(i)]
           ps == All(pieces)
           url == generate(c, set)
<1>1. url = IF base.ok THEN IF ps.ok THEN Ok([base |-> base.val, params |-> FlattenSeq(ps.val)]) ELSE ps ELSE base
    BY DEF generate, Then
<1>2. n \in Nat /\ DOMAIN ups = 1 .. n
    BY VectorOf
<1>3. ~NoCode.ok
    BY DEF NoCode, Fail, Throw
<1>4. \A i \in 1 .. n : Value(i).ok => IsVector(Value(i).val)
    BY <1>3, SingleVector DEF get_param_callback, Ok
<1> HIDE DEF Text, Value
<1>5. ASSUME NEW i \in 1 .. n, Piece(i).ok PROVE IsVector(Piece(i).val)
  <2>1. CASE ups[i].kind = "text"
    <3>1. Piece(i).val = << <<ups[i].name, Text(i).val>> >>
      BY <1>5, <2>1 DEF Ok
    <3> QED BY <3>1, SingleVector
  <2>2. CASE ups[i].kind # "text"
    <3> DEFINE vs == Value(i).val
               each == [k \in DOMAIN vs |-> <<ups[i].name, <<vs[k]>> >>]
    <3>1. Piece(i) = append_param_ref(c, ups[i], vs) /\ Value(i).ok
      BY <1>5, <2>2
    <3>2. IsVector(vs)
      BY <1>4, <3>1
    <3> HIDE DEF vs, Piece
    <3>3. Len(vs) \in Nat /\ DOMAIN vs = 1 .. Len(vs)
      BY <3>2, VectorOf
    <3>4. IsList(each, Len(vs))
      BY <3>3 DEF IsList
    <3> HIDE DEF each
    <3>5. IsVector(each)
      BY <3>3, <3>4, ListOf
    <3>6. Piece(i).val \in {each, <<>>, << <<ups[i].name, vs>> >>}
      BY <1>3, <1>5, <3>1 DEF append_param_ref, Ok, each
    <3> QED BY <3>5, <3>6, SingleVector
  <2> QED BY <2>1, <2>2
<1>6. PICK i \in 1 .. n : ups[i] = [kind |-> "ref", name |-> name]
    BY <1>2 DEF Refers, Range
<1>7. Piece(i).ok => Piece(i).val = << <<name, set[name]>> >>
  <2> SUFFICES ASSUME Piece(i).ok PROVE Piece(i).val = << <<name, set[name]>> >>
    OBVIOUS
  <2>1. ups[i].kind = "ref" /\ ups[i].name = name
    BY <1>6
  <2>2. Value(i) = Ok(set[name])
    BY <2>1 DEF Value, get_param_callback, Refers
  <2>3. Value(i).ok /\ Value(i).val = set[name]
    BY <2>2 DEF Ok
  <2>4. Piece(i) = append_param_ref(c, ups[i], set[name])
    BY <2>1, <2>3
  <2> HIDE DEF Piece
  <2>5. Piece(i) = Ok(<< <<name, set[name]>> >>)
    BY <1>3, <2>1, <2>4 DEF append_param_ref
  <2> QED BY <2>5 DEF Ok
<1>8. DOMAIN pieces = 1 .. n /\ \A k \in 1 .. n : pieces[k] = Piece(k)
    BY <1>2
<1>9. ps.ok /\ url.ok /\ url = Ok([base |-> base.val, params |-> FlattenSeq(ps.val)])
    BY <1>1
<1> HIDE DEF pieces, Piece, base, url, n
<1>10. ps = Ok([k \in 1 .. n |-> pieces[k].val]) /\ \A k \in 1 .. n : pieces[k].ok
    BY <1>2, <1>8, <1>9, AllOk
<1> DEFINE parts == ps.val
           f == FlattenSeq(parts)
<1>11. parts = [k \in 1 .. n |-> pieces[k].val]
    BY <1>10 DEF Ok
<1>12. url.val.params = f
    BY <1>9 DEF Ok
<1> HIDE DEF ps, parts
<1>13. IsList(parts, n) /\ \A k \in 1 .. n : IsVector(parts[k])
    BY <1>5, <1>8, <1>10, <1>11 DEF IsList
<1>14. Has(f, parts[i])
    BY <1>2, <1>13, FlattenHas
<1>15. parts[i] = << <<name, set[name]>> >>
    BY <1>7, <1>8, <1>10, <1>11
<1> HIDE DEF f
<1>16. \E m \in DOMAIN f : f[m] = <<name, set[name]>>
  <2> DEFINE x == <<name, set[name]>>
             t == parts[i]
  <2>1. t = <<x>>
    BY <1>15
  <2> HIDE DEF x, t
  <2>2. 1 \in DOMAIN t /\ t[1] = x
    BY <2>1
  <2>3. \E m \in DOMAIN f : f[m] = x
    BY <1>14, <2>2 DEF Has, t
  <2> QED BY <2>3 DEF x
<1>17. <<name, set[name]>> \in Range(f)
    BY <1>16 DEF Range
<1> QED BY <1>12, <1>17 DEF url

\* The sets of an answer with links, and the URL of each.
LEMMA AtomAnswer ==
    ASSUME NEW c, NEW e, NEW sets, sets.ok => IsVector(sets.val), Atom_query(c, e, sets).ok
    PROVE  LET gs == Atom_query(c, e, sets).val.groups
               ss == sets.val
           IN  /\ sets.ok
               /\ DOMAIN gs = {1} /\ DOMAIN gs[1].rows = DOMAIN ss
               /\ \A i \in DOMAIN ss : /\ generate(c, ss[i].set).ok
                                       /\ gs[1].rows[i].data = ss[i].data
                                       /\ gs[1].rows[i].url = generate(c, ss[i].set).val
<1> DEFINE ss == sets.val
           n == Len(ss)
           Url(i) == generate(c, ss[i].set)
           made == [i \in DOMAIN ss |-> Url(i)]
           urls == All(made)
           rows == [i \in DOMAIN ss |-> [row |-> ss[i].id, data |-> ss[i].data, url |-> urls.val[i]]]
           gs == << [ids |-> <<>>, rows |-> rows] >>
           answer == [begin |-> <<>>, end |-> <<>>, box |-> <<>>, groups |-> gs]
           out == format_output(e, answer)
           r == Atom_query(c, e, sets)
<1>1. r = IF sets.ok
          THEN IF ~e.host THEN NoCode ELSE IF c.debug /\ ss = <<>> THEN ProcessingFailed
               ELSE IF urls.ok THEN out ELSE urls
          ELSE sets
    BY DEF Atom_query, Then
<1>2. ~NoCode.ok /\ ~ProcessingFailed.ok
    BY DEF NoCode, ProcessingFailed, Fail, Throw
<1> HIDE DEF urls, out, gs, r
<1>3. sets.ok /\ urls.ok /\ r = out /\ out.ok
    BY <1>1, <1>2 DEF r
<1>4. out = Ok(answer)
    BY <1>2, <1>3 DEF out, format_output
<1>5. r.val.groups = gs
    BY <1>3, <1>4 DEF Ok
<1>6. n \in Nat /\ DOMAIN ss = 1 .. n
    BY <1>3, VectorOf
<1> HIDE DEF Url
<1>7. DOMAIN made = 1 .. n /\ \A i \in 1 .. n : made[i] = Url(i)
    BY <1>6
<1> HIDE DEF made, ss, n
<1>8. urls = Ok([i \in 1 .. n |-> made[i].val]) /\ \A i \in 1 .. n : made[i].ok
  <2>1. All(made).ok
    BY <1>3 DEF urls
  <2> QED BY <1>6, <1>7, <2>1, AllOk DEF urls
<1>9. \A i \in 1 .. n : urls.val[i] = Url(i).val /\ Url(i).ok
    BY <1>7, <1>8 DEF Ok
<1>10. DOMAIN rows = 1 .. n /\ \A i \in 1 .. n : rows[i].data = ss[i].data /\ rows[i].url = Url(i).val
    BY <1>6, <1>9
<1> HIDE DEF rows
<1>11. DOMAIN gs = {1} /\ gs[1].rows = rows
  <2> DEFINE g == [ids |-> <<>>, rows |-> rows]
  <2>1. g.rows = rows
    OBVIOUS
  <2>2. gs = <<g>>
    BY DEF gs
  <2> HIDE DEF g
  <2>3. DOMAIN gs = 1 .. 1 /\ gs[1] = g
    BY <2>2
  <2> QED BY <2>1, <2>3
<1> QED BY <1>3, <1>5, <1>6, <1>9, <1>10, <1>11 DEF r, Url, ss

\* The link of a run that is selected.
IsLink(c, p, m, link) ==
    \E area, choice : /\ IsVector(area) /\ link = add_model_info(p, m, area, choice)
                      /\ producer_selected(c, m)
                      /\ model_time_selected(p, m).ok /\ model_time_selected(p, m).val

\* The links of a download are those of runs the engine tells of.
LEMMA DownloadSets ==
    ASSUME NEW c, NEW p, NEW e, IsVector(e.metadata), IsVector(p["bbox"]), Download_update_parameters(c, p, e).ok
    PROVE  LET ss == Download_update_parameters(c, p, e).val
               list == getEngineMetadata(p, e)
           IN  /\ IsVector(ss)
               /\ \A k \in DOMAIN ss : \E i \in DOMAIN list : IsLink(c, p, list[i], ss[k])
<1> DEFINE S == {i \in DOMAIN e.metadata :
                    /\ p["producer"] # <<>> => e.metadata[i].producer = p["producer"][1]
                    /\ p["origintime"] # <<>> => e.metadata[i].origin = p["origintime"][1]}
           list == getEngineMetadata(p, e)
           n == Len(list)
           time(m) == model_time_selected(p, m)
           area(m) == add_area_info(e, m, p["bbox"])
           choice == add_format_and_crs(c, p, e)
           Run(m) == IF ~producer_selected(c, m) THEN Ok(<<>>)
                     ELSE IF time(m).ok
                     THEN IF ~time(m).val THEN Ok(<<>>)
                          ELSE IF area(m).ok
                          THEN IF area(m).val = <<>> THEN Ok(<<>>)
                               ELSE IF choice.ok THEN Ok(<<add_model_info(p, m, area(m).val, choice.val)>>) ELSE choice
                          ELSE area(m)
                     ELSE time(m)
           runs == [i \in DOMAIN list |-> Run(list[i])]
           made == All(runs)
           out == Download_update_parameters(c, p, e)
<1>1. out = IF made.ok THEN Ok(FlattenSeq(made.val)) ELSE made
    BY DEF Download_update_parameters, Then
<1>2. IsVector(list)
  <2>1. Len(e.metadata) \in Nat /\ DOMAIN e.metadata = 1 .. Len(e.metadata) /\ S \in SUBSET (1 .. Len(e.metadata))
    BY VectorOf
  <2>2. list = Picked(e.metadata, S)
    BY DEF getEngineMetadata
  <2> HIDE DEF S, list
  <2> QED BY <2>1, <2>2, PickedMembers
<1> HIDE DEF list, choice, time, area
<1>3. n \in Nat /\ DOMAIN list = 1 .. n
    BY <1>2, VectorOf
<1>4. \A m : area(m).ok => IsVector(area(m).val)
  <2> SUFFICES ASSUME NEW m, area(m).ok PROVE IsVector(area(m).val)
    OBVIOUS
  <2> DEFINE box == p["bbox"]
             b == get_model_boundary(e, m)
             i == bbox_intersection(e, box, m)
  <2>1. area(m) = IF b.ok THEN IF box # <<>> THEN i ELSE Ok(IF b.val THEN <<"model">> ELSE <<>>) ELSE b
    BY DEF area, add_area_info, Then
  <2>2. ~NoCode.ok
    BY DEF NoCode, Fail, Throw
  <2>3. i = NoCode \/ i = Ok(box) \/ i = Ok(<<>>)
    BY DEF bbox_intersection
  <2> HIDE DEF b, i
  <2>4. area(m) \in {Ok(box), Ok(<<>>), Ok(<<"model">>)}
    BY <2>1, <2>2, <2>3
  <2>5. area(m).val \in {box, <<>>, <<"model">>}
    BY <2>4 DEF Ok
  <2> QED BY <2>5, SingleVector
<1>5. \A m : Run(m).ok => /\ IsVector(Run(m).val)
                         /\ \A j \in DOMAIN Run(m).val : IsLink(c, p, m, Run(m).val[j])
  <2> SUFFICES ASSUME NEW m, Run(m).ok
               PROVE  IsVector(Run(m).val) /\ \A j \in DOMAIN Run(m).val : IsLink(c, p, m, Run(m).val[j])
    OBVIOUS
  <2> DEFINE link == add_model_info(p, m, area(m).val, choice.val)
             r == Run(m)
  <2>1. \/ r = Ok(<<>>)
        \/ /\ r = Ok(<<link>>) /\ producer_selected(c, m)
           /\ time(m).ok /\ time(m).val /\ area(m).ok
    OBVIOUS
  <2> HIDE DEF r, link
  <2>2. CASE r = Ok(<<>>)
    <3>1. r.val = <<>>
      BY <2>2 DEF Ok
    <3>2. DOMAIN r.val = {}
      BY <3>1
    <3> QED BY <3>1, <3>2, SingleVector DEF r
  <2>3. CASE r = Ok(<<link>>) /\ producer_selected(c, m) /\ time(m).ok /\ time(m).val /\ area(m).ok
    <3>1. r.val = <<link>>
      BY <2>3 DEF Ok
    <3>2. \A j \in DOMAIN r.val : r.val[j] = link
      BY <3>1
    <3>3. IsLink(c, p, m, link)
      BY <1>4, <2>3 DEF IsLink, link, time
    <3> QED BY <3>1, <3>2, <3>3, SingleVector DEF r
  <2> QED BY <2>1, <2>2, <2>3
<1> HIDE DEF Run
<1>6. DOMAIN runs = 1 .. n /\ \A i \in 1 .. n : runs[i] = Run(list[i])
    BY <1>3
<1> HIDE DEF runs, n, out
<1>7. made.ok /\ out.val = FlattenSeq(made.val)
    BY <1>1 DEF Ok, out
<1>8. made = Ok([i \in 1 .. n |-> runs[i].val]) /\ \A i \in 1 .. n : runs[i].ok
    BY <1>3, <1>6, <1>7, AllOk
<1> DEFINE parts == made.val
           f == FlattenSeq(parts)
<1>9. parts = [i \in 1 .. n |-> runs[i].val]
    BY <1>8 DEF Ok
<1> HIDE DEF made, parts
<1>10. IsList(parts, n) /\ \A i \in 1 .. n : parts[i] = Run(list[i]).val /\ Run(list[i]).ok
    BY <1>6, <1>8, <1>9 DEF IsList
<1>11. \A i \in 1 .. n : IsVector(parts[i]) /\ \A j \in DOMAIN parts[i] : IsLink(c, p, list[i], parts[i][j])
    BY <1>5, <1>10
<1>12. IsVector(f) /\ \A m \in DOMAIN f : \E i \in 1 .. n : \E j \in DOMAIN parts[i] : f[m] = parts[i][j]
    BY <1>3, <1>10, <1>11, FlattenMembers
<1> HIDE DEF f
<1>13. \A m \in DOMAIN f : \E i \in DOMAIN list : IsLink(c, p, list[i], f[m])
    BY <1>3, <1>11, <1>12
<1> QED BY <1>7, <1>12, <1>13 DEF f, parts, out, list

\* What is in the list of the runs is what the engine tells of them.
LEMMA MetadataMembers ==
    ASSUME NEW p, NEW e, IsVector(e.metadata)
    PROVE  LET list == getEngineMetadata(p, e)
           IN  \A i \in DOMAIN list : \E k \in DOMAIN e.metadata : list[i] = e.metadata[k]
<1> DEFINE S == {i \in DOMAIN e.metadata :
                    /\ p["producer"] # <<>> => e.metadata[i].producer = p["producer"][1]
                    /\ p["origintime"] # <<>> => e.metadata[i].origin = p["origintime"][1]}
           list == Picked(e.metadata, S)
<1>1. Len(e.metadata) \in Nat /\ DOMAIN e.metadata = 1 .. Len(e.metadata) /\ S \in SUBSET (1 .. Len(e.metadata))
    BY VectorOf
<1>2. getEngineMetadata(p, e) = list
    BY DEF getEngineMetadata
<1> HIDE DEF S
<1> DEFINE told == e.metadata
<1>3. \A m \in DOMAIN list : \E i \in S : list[m] = told[i]
  <2> DEFINE n == Len(told)
  <2>1. n \in Nat /\ DOMAIN told = 1 .. n /\ S \in SUBSET (1 .. n)
    BY <1>1
  <2> HIDE DEF told, n, list
  <2>2. list = Picked(told, S)
    BY DEF list, told
  <2>3. PickedFrom(list, told, S)
    BY <2>1, <2>2, PickedIs
  <2> QED BY <2>3 DEF PickedFrom
<1>4. S \subseteq DOMAIN e.metadata
    BY <1>1
<1> HIDE DEF list
<1> QED BY <1>2, <1>3, <1>4

\* The interval of a run that is selected.
LEMMA IntervalRight ==
    ASSUME NEW p, NEW m, m.first \in Int, m.last \in Int, m.first <= m.last,
           p["begintime"] # <<>>, p["endtime"] # <<>>, p["begintime"][1] \in Int, p["endtime"][1] \in Int,
           p["begintime"][1] <= p["endtime"][1],
           model_time_selected(p, m).ok, model_time_selected(p, m).val
    PROVE  LET i == add_time_info(p, m)
           IN  p["begintime"][1] <= i[1] /\ i[1] <= i[2] /\ i[2] <= p["endtime"][1]
<1> DEFINE start == p["begintime"]
           end == p["endtime"]
           r == model_time_selected(p, m)
           i == add_time_info(p, m)
           b == start[1]
           d == end[1]
<1>1. ~ProcessingFailed.ok
    BY DEF ProcessingFailed, Fail, Throw
<1>2. r = IF p["fullinterval"][1] # 0
          THEN IF m.first > b \/ m.last < d THEN Ok(FALSE) ELSE ProcessingFailed
          ELSE Ok(~(m.first > d \/ m.last < b))
    BY DEF model_time_selected
<1>3. i = <<IF b > m.first THEN b ELSE m.first, IF d < m.last THEN d ELSE m.last>>
    BY DEF add_time_info, Optional
<1> HIDE DEF start, end, i, r
<1>4. ~(m.first > d) /\ ~(m.last < b)
  <2> DEFINE A == m.first > b \/ m.last < d
             B == m.first > d \/ m.last < b
  <2>1. \/ r = Ok(FALSE) \/ r = ProcessingFailed \/ r = Ok(~B)
    BY <1>2
  <2>2. r.ok /\ r.val
    BY DEF r
  <2> HIDE DEF A, B
  <2>3. Ok(FALSE).val = FALSE /\ Ok(~B).val = ~B
    BY Zenon DEF Ok
  <2>4. ~B
    BY <1>1, <2>1, <2>2, <2>3, Zenon
  <2> QED BY <2>4 DEF B
<1>5. b \in Int /\ d \in Int /\ b <= d
    BY DEF start, end
<1> HIDE DEF b, d
<1>6. b <= i[1] /\ i[1] <= i[2] /\ i[2] <= d
    BY <1>3, <1>4, <1>5
<1> QED BY <1>6 DEF b, d, i, start, end

\* What add_model_info enters.
InfoRight(p, m, link) ==
    /\ link.data.producer = m.producer /\ link.data.origin = m.origin
    /\ link.data.interval = add_time_info(p, m)
    /\ {"producer", "origintime"} \subseteq DOMAIN link.set
    /\ link.set["producer"] = <<m.producer>> /\ link.set["origintime"] = <<m.origin>>
    /\ \A x \in DOMAIN link.set : IsVector(link.set[x])

LEMMA ModelInfo ==
    ASSUME NEW p, NEW m, IsVector(m.names), IsVector(m.levels), NEW area, IsVector(area), NEW choice
    PROVE  InfoRight(p, m, add_model_info(p, m, area, choice))
<1> DEFINE what == add_params_and_levels(p, m)
           times == add_time_info(p, m)
           set == [producer |-> <<m.producer>>, origintime |-> <<m.origin>>, area |-> area,
                   first |-> <<m.first>>, last |-> <<m.last>>, begin |-> <<times[1]>>, end |-> <<times[2]>>,
                   param |-> what.params, level |-> what.levels, format |-> <<choice.format>>, crs |-> <<choice.crs>>]
           data == [producer |-> m.producer, origin |-> m.origin, area |-> area, interval |-> times]
           link == add_model_info(p, m, area, choice)
<1>1. link = [id |-> <<m.producer, m.origin>>, data |-> data, set |-> set]
    BY DEF add_model_info
<1>2. IsVector(what.params) /\ IsVector(what.levels)
  <2> DEFINE S == {k \in DOMAIN m.names :
                      p["meteo"] = <<>> \/ \E i \in DOMAIN p["meteo"] : Fold(p["meteo"][i]) = Fold(m.names[k])}
             L == {k \in DOMAIN m.levels :
                      /\ p["leveltype"] = <<>> \/ \E i \in DOMAIN p["leveltype"] : p["leveltype"][i] = m.leveltype
                      /\ p["levelvalue"] = <<>> \/ \E i \in DOMAIN p["levelvalue"] : p["levelvalue"][i] = m.levels[k]}
  <2>1. what.params = Picked(m.names, S) /\ what.levels = Picked(m.levels, L)
    BY DEF add_params_and_levels
  <2>2. Len(m.names) \in Nat /\ DOMAIN m.names = 1 .. Len(m.names) /\ S \in SUBSET (1 .. Len(m.names))
    BY VectorOf
  <2>3. Len(m.levels) \in Nat /\ DOMAIN m.levels = 1 .. Len(m.levels) /\ L \in SUBSET (1 .. Len(m.levels))
    BY VectorOf
  <2> HIDE DEF S, L, what
  <2>4. PickedFrom(Picked(m.names, S), m.names, S)
    BY <2>2, PickedIs
  <2>5. PickedFrom(Picked(m.levels, L), m.levels, L)
    BY <2>3, PickedIs
  <2> QED BY <2>1, <2>4, <2>5 DEF PickedFrom
<1> HIDE DEF what, times
<1>3. \A x : IsVector(<<x>>)
    BY SingleVector
<1>4. \A x \in DOMAIN set : IsVector(set[x])
    BY <1>2, <1>3
<1>5. {"producer", "origintime"} \subseteq DOMAIN set /\ set["producer"] = <<m.producer>> /\ set["origintime"] = <<m.origin>>
    OBVIOUS
<1>6. data.producer = m.producer /\ data.origin = m.origin /\ data.interval = times
    OBVIOUS
<1> HIDE DEF set, data, link
<1>7. link.data = data /\ link.set = set
    BY <1>1
<1>8. InfoRight(p, m, link)
    BY <1>4, <1>5, <1>6, <1>7 DEF InfoRight, times
<1> QED BY <1>8 DEF link

\* The link of a row of an answer with links.
LEMMA LinkRows ==
    ASSUME response.ok, NEW sets, response = Atom_query(h, eng, sets), sets.ok => IsVector(sets.val), NEW x \in RowsAt
    PROVE  /\ sets.ok /\ x[2] \in DOMAIN sets.val /\ generate(h, sets.val[x[2]].set).ok
           /\ RowOf(x).data = sets.val[x[2]].data
           /\ RowOf(x).url = generate(h, sets.val[x[2]].set).val
<1> DEFINE gs == response.val.groups
           ss == sets.val
<1>1. /\ sets.ok
      /\ DOMAIN gs = {1} /\ DOMAIN gs[1].rows = DOMAIN ss
      /\ \A i \in DOMAIN ss : /\ generate(h, ss[i].set).ok
                              /\ gs[1].rows[i].data = ss[i].data
                              /\ gs[1].rows[i].url = generate(h, ss[i].set).val
    BY AtomAnswer
<1>2. x[1] \in DOMAIN gs /\ x[2] \in DOMAIN gs[x[1]].rows /\ RowOf(x) = gs[x[1]].rows[x[2]]
    BY RowsAtAre
<1> HIDE DEF gs, ss
<1>3. x[1] = 1 /\ x[2] \in DOMAIN ss /\ RowOf(x) = gs[1].rows[x[2]]
    BY <1>1, <1>2
<1> QED BY <1>1, <1>3 DEF ss

LEMMA DownloadLinks ==
    ASSUME IInv, h.handler = "download", response.ok, NEW x \in RowsAt
    PROVE  LET link == RowOf(x).data
               begin == par["begintime"]
               end == par["endtime"]
           IN  /\ <<link.producer, link.origin>> \in get_cache_key_qualifier(h, par, eng)
               /\ Refers(h, "producer") => <<"producer", <<link.producer>> >> \in Range(RowOf(x).url.params)
               /\ Refers(h, "origintime") => <<"origintime", <<link.origin>> >> \in Range(RowOf(x).url.params)
               /\ begin # <<>> /\ end # <<>> /\ begin[1] <= end[1] =>
                     begin[1] <= link.interval[1] /\ link.interval[1] <= link.interval[2] /\ link.interval[2] <= end[1]
<1> DEFINE sets == Download_update_parameters(h, par, eng)
           list == getEngineMetadata(par, eng)
           begin == par["begintime"]
           end == par["endtime"]
<1>1. response = Atom_query(h, eng, sets)
    BY DEF IInv, Answered, Download_query
<1>2. {"begintime", "endtime", "bbox"} \subseteq registered[h.handler].other
  <2>1. registered[h.handler] = Download_registered
    BY DEF registered
  <2> QED BY <2>1 DEF Download_registered
<1>3. IsVector(par["bbox"]) /\ IsVector(begin) /\ IsVector(end) /\ IsVector(eng.metadata)
    BY <1>2, Vectors
<1>4. /\ \A i \in DOMAIN begin : begin[i] \in Int
      /\ \A i \in DOMAIN end : end[i] \in Int
    BY <1>2, ParametersAssumption DEF IInv, InputsRight
<1>5. IsVector(h.url_params)
    BY ConfiguredAssumption DEF IInv, InputsRight
<1>6. \A i \in DOMAIN eng.metadata :
          LET m == eng.metadata[i]
          IN  m.first \in Int /\ m.last \in Int /\ m.first <= m.last /\ IsVector(m.names) /\ IsVector(m.levels)
  <2>1. eng.metadata \in Possible("metadata")
    BY EnginesAssumption DEF IInv, InputsRight
  <2> QED BY <2>1, EnginesAssumption
<1>7. sets.ok => IsVector(sets.val) /\ \A k \in DOMAIN sets.val : \E i \in DOMAIN list : IsLink(h, par, list[i], sets.val[k])
    BY <1>3, DownloadSets
<1>8. \A i \in DOMAIN list : \E k \in DOMAIN eng.metadata : list[i] = eng.metadata[k]
    BY <1>3, MetadataMembers
<1>9. get_cache_key_qualifier(h, par, eng) =
          {<<list[i].producer, list[i].origin>> : i \in {j \in DOMAIN list : producer_selected(h, list[j])}}
    BY DEF get_cache_key_qualifier
<1> HIDE DEF sets, list
<1>10. /\ sets.ok /\ x[2] \in DOMAIN sets.val /\ generate(h, sets.val[x[2]].set).ok
       /\ RowOf(x).data = sets.val[x[2]].data
       /\ RowOf(x).url = generate(h, sets.val[x[2]].set).val
    BY <1>1, <1>7, LinkRows
<1> DEFINE it == sets.val[x[2]]
<1>11. PICK i \in DOMAIN list : IsLink(h, par, list[i], it)
    BY <1>7, <1>10
<1> DEFINE m == list[i]
<1>12. m.first \in Int /\ m.last \in Int /\ m.first <= m.last /\ IsVector(m.names) /\ IsVector(m.levels)
    BY <1>6, <1>8, <1>11
<1>13. PICK area, choice : /\ IsVector(area) /\ it = add_model_info(par, m, area, choice)
                           /\ producer_selected(h, m)
                           /\ model_time_selected(par, m).ok /\ model_time_selected(par, m).val
    BY <1>11 DEF IsLink
<1>19. <<m.producer, m.origin>> \in get_cache_key_qualifier(h, par, eng)
    BY <1>9, <1>11, <1>13
<1> HIDE DEF it, m
<1>21. InfoRight(par, m, it)
    BY <1>12, <1>13, ModelInfo
<1>14. /\ it.data.producer = m.producer /\ it.data.origin = m.origin
       /\ it.data.interval = add_time_info(par, m)
       /\ {"producer", "origintime"} \subseteq DOMAIN it.set
       /\ it.set["producer"] = <<m.producer>> /\ it.set["origintime"] = <<m.origin>>
       /\ \A y \in DOMAIN it.set : IsVector(it.set[y])
    BY <1>21 DEF InfoRight
<1>15. RowOf(x).data = it.data /\ RowOf(x).url = generate(h, it.set).val /\ generate(h, it.set).ok
    BY <1>10 DEF it
<1>16. \A name \in DOMAIN it.set : Refers(h, name) => <<name, it.set[name]>> \in Range(generate(h, it.set).val.params)
    BY <1>5, <1>14, <1>15, UrlNames
<1>17. /\ Refers(h, "producer") => <<"producer", <<m.producer>> >> \in Range(RowOf(x).url.params)
       /\ Refers(h, "origintime") => <<"origintime", <<m.origin>> >> \in Range(RowOf(x).url.params)
    BY <1>14, <1>15, <1>16
<1>18. ASSUME begin # <<>>, end # <<>>, begin[1] <= end[1]
       PROVE  LET t == add_time_info(par, m)
              IN  begin[1] <= t[1] /\ t[1] <= t[2] /\ t[2] <= end[1]
  <2>1. \A s : IsVector(s) /\ s # <<>> => 1 \in DOMAIN s
    BY DEF IsVector
  <2>2. begin[1] \in Int /\ end[1] \in Int
    BY <1>3, <1>4, <1>18, <2>1
  <2> QED BY <1>12, <1>13, <1>18, <2>2, IntervalRight
<1>20. RowOf(x).data.producer = m.producer /\ RowOf(x).data.origin = m.origin
       /\ RowOf(x).data.interval = add_time_info(par, m)
    BY <1>14, <1>15
<1> HIDE DEF begin, end
<1> QED BY <1>17, <1>18, <1>19, <1>20 DEF begin, end

\* What a link to a file says of it.
FileLink(p, link) ==
    /\ p["begintime"][1] <= link.data.origin /\ link.data.origin <= p["endtime"][1]
    /\ p["level"] # <<>> => link.data.levels # {} /\ link.data.levels \subseteq Range(p["level"])
    /\ p["meteo"] # <<>> => link.data.params # {} /\ link.data.params \subseteq Range(p["meteo"])

\* The items that are selected of all.
LEMMA CommonItems ==
    ASSUME NEW s, IsVector(s), s # <<>>, NEW all
    PROVE  select_common_items(Range(s), all) \subseteq Range(s)
<1>1. 1 \in DOMAIN s
    BY DEF IsVector
<1>2. Range(s) # {}
    BY <1>1 DEF Range
<1> QED BY <1>2 DEF select_common_items

\* The files of an interval.
LEMMA FilesOfInterval ==
    ASSUME NEW files, IsVector(files), NEW begin, NEW end
    PROVE  LET out == query_files(files, begin, end)
           IN  /\ IsVector(out)
               /\ \A i \in DOMAIN out : begin <= extract_origintime(out[i]).val /\ extract_origintime(out[i]).val <= end
<1> DEFINE S == {i \in DOMAIN files :
                    LET time == extract_origintime(files[i])
                    IN  files[i].matches /\ time.ok /\ begin <= time.val /\ time.val <= end}
           out == query_files(files, begin, end)
           n == Len(files)
<1>1. out = Picked(files, S)
    BY DEF query_files
<1>2. n \in Nat /\ DOMAIN files = 1 .. n /\ S \in SUBSET (1 .. n)
    BY VectorOf
<1>3. \A i \in S : begin <= extract_origintime(files[i]).val /\ extract_origintime(files[i]).val <= end
    OBVIOUS
<1> HIDE DEF S, n, out
<1>4. PickedFrom(out, files, S)
    BY <1>1, <1>2, PickedIs
<1> QED BY <1>3, <1>4 DEF PickedFrom, out

\* The links of the data sets are to files that are asked for.
LEMMA FileSets ==
    ASSUME NEW c, NEW p, NEW e, IsVector(c.datasets), IsVector(p["level"]), IsVector(p["meteo"]),
           \A name \in DOMAIN e.files : IsVector(e.files[name]), File_update_parameters(c, p, e).ok
    PROVE  LET ss == File_update_parameters(c, p, e).val
           IN  IsVector(ss) /\ \A k \in DOMAIN ss : FileLink(p, ss[k])
<1> DEFINE sets == data_sets(c, e)
           n == Len(sets)
           levels(d) == select_common_items(Range(p["level"]), Range(d.levels))
           params(d) == select_common_items(Range(p["meteo"]), Range(d.params))
           files(d) == query_files(e.files[d.name], p["begintime"][1], p["endtime"][1])
           Link(k, d, i) == [id |-> <<k, files(d)[i].name>>,
                          data |-> [origin |-> extract_origintime(files(d)[i]).val, levels |-> levels(d), params |-> params(d)],
                          set |-> [producer |-> <<d.name>>, origintime |-> <<extract_origintime(files(d)[i]).val>>,
                                   level |-> Ordered(levels(d)), param |-> SetToSeq(params(d)),
                                   file |-> <<files(d)[i].name>>]]
           Links(k) == LET d == sets[k]
                       IN  IF \/ p["dataset"] # <<>> /\ p["dataset"][1] # d.name
                              \/ levels(d) = {} \/ params(d) = {}
                              \/ p["bbox"] # <<>> /\ p["bbox"][1] \notin d.meets
                           THEN <<>>
                           ELSE [i \in DOMAIN files(d) |-> Link(k, d, i)]
           parts == [k \in DOMAIN sets |-> Links(k)]
           f == FlattenSeq(parts)
           c1 == Singles(p, {"begintime", "endtime"})
           out == File_update_parameters(c, p, e)
<1>1. out = IF c1.ok THEN Ok(f) ELSE c1
    BY DEF File_update_parameters, Then
<1>2. IsVector(sets) /\ \A k \in DOMAIN sets : sets[k].name \in DOMAIN e.files
  <2> DEFINE S == {i \in DOMAIN c.datasets : DataSetDefinition(c.datasets[i], e)}
             m == Len(c.datasets)
             all == c.datasets
  <2>1. m \in Nat /\ DOMAIN all = 1 .. m /\ S \in SUBSET (1 .. m)
    BY VectorOf
  <2>2. \A i \in S : all[i].name \in DOMAIN e.files
    BY DEF DataSetDefinition
  <2>3. sets = Picked(all, S)
    BY DEF data_sets
  <2> HIDE DEF S, m, all, sets
  <2>4. PickedFrom(sets, all, S)
    BY <2>1, <2>3, PickedIs
  <2> QED BY <2>2, <2>4 DEF PickedFrom
<1> HIDE DEF sets
<1>3. n \in Nat /\ DOMAIN sets = 1 .. n
    BY <1>2, VectorOf
<1>4. ASSUME NEW k \in 1 .. n PROVE IsVector(Links(k)) /\ \A i \in DOMAIN Links(k) : FileLink(p, Links(k)[i])
  <2> DEFINE d == sets[k]
             made == [i \in DOMAIN files(d) |-> Link(k, d, i)]
             s == Links(k)
  <2>1. IsVector(e.files[d.name])
    BY <1>2, <1>3
  <2>2. /\ IsVector(files(d))
        /\ \A i \in DOMAIN files(d) : /\ p["begintime"][1] <= extract_origintime(files(d)[i]).val
                                      /\ extract_origintime(files(d)[i]).val <= p["endtime"][1]
    BY <2>1, FilesOfInterval
  <2>3. p["level"] # <<>> => levels(d) \subseteq Range(p["level"])
    BY CommonItems
  <2>4. p["meteo"] # <<>> => params(d) \subseteq Range(p["meteo"])
    BY CommonItems
  <2>5. s = <<>> \/ (s = made /\ levels(d) # {} /\ params(d) # {})
    OBVIOUS
  <2> HIDE DEF d, files, levels, params, s
  <2>6. \A i : /\ Link(k, d, i).data.origin = extract_origintime(files(d)[i]).val
               /\ Link(k, d, i).data.levels = levels(d) /\ Link(k, d, i).data.params = params(d)
    OBVIOUS
  <2> HIDE DEF Link
  <2>7. CASE s = <<>>
    <3>1. DOMAIN s = {}
      BY <2>7
    <3> QED BY <2>7, <3>1, SingleVector DEF s
  <2>8. CASE s = made /\ levels(d) # {} /\ params(d) # {}
    <3>1. Len(files(d)) \in Nat /\ DOMAIN files(d) = 1 .. Len(files(d))
      BY <2>2, VectorOf
    <3>2. IsList(made, Len(files(d))) /\ DOMAIN made = DOMAIN files(d) /\ \A i \in DOMAIN made : made[i] = Link(k, d, i)
      BY <3>1 DEF IsList
    <3> HIDE DEF made
    <3>3. IsVector(made)
      BY <3>1, <3>2, ListOf
    <3>4. \A i \in DOMAIN made : FileLink(p, made[i])
      BY <2>2, <2>3, <2>4, <2>6, <2>8, <3>2 DEF FileLink
    <3> QED BY <2>8, <3>3, <3>4 DEF s
  <2> QED BY <2>5, <2>7, <2>8
<1> HIDE DEF Links, n
<1>5. IsList(parts, n) /\ \A k \in 1 .. n : parts[k] = Links(k)
    BY <1>3 DEF IsList
<1> HIDE DEF parts
<1>6. IsVector(f) /\ \A m \in DOMAIN f : \E i \in 1 .. n : \E j \in DOMAIN parts[i] : f[m] = parts[i][j]
  <2>1. \A k \in 1 .. n : IsVector(parts[k])
    BY <1>4, <1>5
  <2> QED BY <1>3, <1>5, <2>1, FlattenMembers
<1> HIDE DEF f, c1, out
<1>7. \A m \in DOMAIN f : FileLink(p, f[m])
    BY <1>4, <1>5, <1>6
<1>8. out.val = f
    BY <1>1 DEF Ok, out
<1> QED BY <1>6, <1>7, <1>8 DEF out

LEMMA FileLinks ==
    ASSUME IInv, h.handler = "file", response.ok, NEW x \in RowsAt
    PROVE  LET link == RowOf(x).data
           IN  /\ par["begintime"][1] <= link.origin /\ link.origin <= par["endtime"][1]
               /\ par["level"] # <<>> => link.levels # {} /\ link.levels \subseteq Range(par["level"])
               /\ par["meteo"] # <<>> => link.params # {} /\ link.params \subseteq Range(par["meteo"])
<1> DEFINE sets == File_update_parameters(h, par, eng)
<1>1. response = Atom_query(h, eng, sets)
    BY DEF IInv, Answered, File_query
<1>2. {"level", "meteo"} \subseteq registered[h.handler].other
  <2>1. registered[h.handler] = File_registered
    BY DEF registered
  <2> QED BY <2>1 DEF File_registered
<1>3. IsVector(par["level"]) /\ IsVector(par["meteo"])
    BY <1>2, Vectors
<1>4. IsVector(h.datasets)
    BY ConfiguredAssumption DEF IInv, InputsRight
<1>5. \A name \in DOMAIN eng.files : IsVector(eng.files[name])
  <2>1. eng.files \in Possible("files")
    BY EnginesAssumption DEF IInv, InputsRight
  <2> QED BY <2>1, EnginesAssumption
<1>6. sets.ok => IsVector(sets.val) /\ \A k \in DOMAIN sets.val : FileLink(par, sets.val[k])
    BY <1>3, <1>4, <1>5, FileSets
<1> HIDE DEF sets
<1>7. sets.ok /\ x[2] \in DOMAIN sets.val /\ RowOf(x).data = sets.val[x[2]].data
    BY <1>1, <1>6, LinkRows
<1>8. FileLink(par, sets.val[x[2]])
    BY <1>6, <1>7
<1> QED BY <1>7, <1>8 DEF FileLink

\* The links of a download lead to a run the cache key tells of and the URL
\* names, with an interval that is not empty and lies within the one asked for,
\* and those of a file query to files of the interval, with some of the levels
\* and parameters asked for, whatever models, data sets and files there are
\* (update_parameters of StoredQEDownloadQueryHandler.cpp and
\* StoredFileQueryHandler.cpp).
THEOREM LinksAlwaysAsAsked == Spec => []LinksAsAsked
<1>1. IInv => LinksAsAsked
  <2> SUFFICES ASSUME IInv PROVE LinksAsAsked
    OBVIOUS
  <2>1. ASSUME NEW x \in RowsAt PROVE response.ok
    BY <2>1, NoRowsWithoutAnswer
  <2> QED BY <2>1, DownloadLinks, FileLinks DEF LinksAsAsked
<1> QED BY <1>1, AlwaysIInv, PTL
-----------------------------------------------------------------------------
(* The details of stations *)

\* The items rows have for a station.
RowItems(rows, s) == {rows[i].item : i \in {j \in DOMAIN rows : rows[j].station = s}}

\* What by_station enters for each station.
Sorted(rows, stations, map) ==
    /\ DOMAIN map = {rows[i].station : i \in {j \in DOMAIN rows : rows[j].station # 0}} \cap stations
    /\ \A s \in DOMAIN map : IsVector(map[s]) /\ ToSet(map[s]) = RowItems(rows, s)

LEMMA ByStation ==
    ASSUME NEW rows, IsVector(rows), NEW stations
    PROVE  Sorted(rows, stations, by_station(rows, stations))
<1> DEFINE n == Len(rows)
           S == {i \in DOMAIN rows : rows[i].station # 0}
           kept == Picked(rows, S)
           D == {kept[i].station : i \in DOMAIN kept} \cap stations
           Mine(s) == {i \in DOMAIN kept : kept[i].station = s}
           own(s) == Picked(kept, Mine(s))
           map == by_station(rows, stations)
<1>1. map = [s \in D |-> [i \in DOMAIN own(s) |-> own(s)[i].item]]
    BY DEF by_station
<1>2. n \in Nat /\ DOMAIN rows = 1 .. n /\ S \in SUBSET (1 .. n)
    BY VectorOf
<1>3. \A i \in DOMAIN rows : i \in S <=> rows[i].station # 0
    OBVIOUS
<1> HIDE DEF S, n
<1>4. PickedFrom(kept, rows, S)
    BY <1>2, PickedIs
<1>5. /\ \A s : \A i \in DOMAIN kept : i \in Mine(s) <=> kept[i].station = s
      /\ \A s : Mine(s) \in SUBSET DOMAIN kept
    OBVIOUS
<1> HIDE DEF kept, Mine
<1>6. Len(kept) \in Nat /\ DOMAIN kept = 1 .. Len(kept)
    BY <1>4, VectorOf DEF PickedFrom
<1>7. \A s : PickedFrom(own(s), kept, Mine(s))
    BY <1>5, <1>6, PickedIs
<1> HIDE DEF own, map
<1>8. D = {rows[i].station : i \in {j \in DOMAIN rows : rows[j].station # 0}} \cap stations
  <2>1. \A i \in DOMAIN kept : \E j \in S : kept[i] = rows[j]
    BY <1>4 DEF PickedFrom
  <2>2. \A j \in S : \E i \in DOMAIN kept : kept[i] = rows[j]
    BY <1>4 DEF PickedFrom
  <2>3. S \subseteq DOMAIN rows
    BY <1>2
  <2> QED BY <1>3, <2>1, <2>2, <2>3
<1>9. ASSUME NEW s \in D PROVE IsVector(map[s]) /\ ToSet(map[s]) = RowItems(rows, s)
  <2> DEFINE q == own(s)
             it == map[s]
  <2>1. it = [i \in DOMAIN q |-> q[i].item]
    BY <1>1
  <2>2. PickedFrom(q, kept, Mine(s))
    BY <1>7
  <2>3. s # 0
    BY <1>8
  <2> HIDE DEF q, it
  <2>4. Len(q) \in Nat /\ DOMAIN q = 1 .. Len(q)
    BY <2>2, VectorOf DEF PickedFrom
  <2>5. IsList(it, Len(q)) /\ DOMAIN it = DOMAIN q /\ \A i \in DOMAIN it : it[i] = q[i].item
    BY <2>1, <2>4 DEF IsList
  <2>6. IsVector(it)
    BY <2>4, <2>5, ListOf
  <2>7. \A i \in DOMAIN q : \E j \in DOMAIN rows : rows[j].station = s /\ q[i] = rows[j]
    <3> SUFFICES ASSUME NEW i \in DOMAIN q PROVE \E j \in DOMAIN rows : rows[j].station = s /\ q[i] = rows[j]
      OBVIOUS
    <3>1. PICK k \in Mine(s) : q[i] = kept[k]
      BY <2>2 DEF PickedFrom
    <3>2. k \in DOMAIN kept /\ kept[k].station = s
      BY <1>5
    <3>3. PICK j \in S : kept[k] = rows[j]
      BY <1>4, <3>2 DEF PickedFrom
    <3>4. j \in DOMAIN rows
      BY <1>2
    <3> QED BY <3>1, <3>2, <3>3, <3>4
  <2>8. \A j \in DOMAIN rows : rows[j].station = s => \E i \in DOMAIN q : q[i] = rows[j]
    <3> SUFFICES ASSUME NEW j \in DOMAIN rows, rows[j].station = s PROVE \E i \in DOMAIN q : q[i] = rows[j]
      OBVIOUS
    <3>1. j \in S
      BY <1>3, <2>3
    <3>2. PICK k \in DOMAIN kept : kept[k] = rows[j]
      BY <1>4, <3>1 DEF PickedFrom
    <3>3. k \in Mine(s)
      BY <1>5, <3>2
    <3>4. PICK i \in DOMAIN q : q[i] = kept[k]
      BY <2>2, <3>3 DEF PickedFrom
    <3> QED BY <3>2, <3>4
  <2>9. ToSet(it) = RowItems(rows, s)
    BY <2>5, <2>7, <2>8 DEF ToSet, RowItems
  <2> QED BY <2>6, <2>9 DEF it
<1>10. DOMAIN map = D
    BY <1>1
<1>11. Sorted(rows, stations, map)
    BY <1>8, <1>9, <1>10 DEF Sorted
<1> QED BY <1>11 DEF map

\* What is read of a query: some of its rows, or all unless it breaks off.
LEMMA ReadRows ==
    ASSUME NEW e, NEW query, DatabaseQuery(e.db, query)
    PROVE  LET rows == rows_read(e, query)
           IN  /\ IsVector(rows)
               /\ \A i \in DOMAIN rows : \E k \in DOMAIN e.db[query] : rows[i] = e.db[query][k]
               /\ e.db.breaks = <<>> => rows = e.db[query]
<1> DEFINE all == e.db[query]
           b == e.db.breaks[query]
           some == SubSeq(all, 1, b)
           rows == rows_read(e, query)
<1>1. rows = IF query \in DOMAIN e.db.breaks THEN some ELSE all
    BY DEF rows_read
<1>2. IsVector(all) /\ (query \in DOMAIN e.db.breaks => b \in 0 .. Len(all))
    BY DEF DatabaseQuery
<1>3. e.db.breaks = <<>> => query \notin DOMAIN e.db.breaks
    OBVIOUS
<1> HIDE DEF rows, all, b
<1>4. Len(all) \in Nat /\ DOMAIN all = 1 .. Len(all)
    BY <1>2, VectorOf
<1>5. ASSUME query \in DOMAIN e.db.breaks
      PROVE  IsVector(some) /\ \A i \in DOMAIN some : \E k \in DOMAIN all : some[i] = all[k]
  <2>1. b \in Nat /\ b \in Int /\ 1 \in Int /\ b <= Len(all)
    BY <1>2, <1>4, <1>5
  <2> DEFINE T == Range(all)
  <2>2. \A i \in 1 .. b : i \in DOMAIN all /\ all[i] \in T
    BY <1>4, <2>1 DEF Range
  <2> HIDE DEF T
  <2>3. /\ some \in Seq(T) /\ Len(some) = IF 1 <= b THEN b - 1 + 1 ELSE 0
        /\ \A i \in 1 .. b - 1 + 1 : some[i] = all[1 + i - 1]
    BY <2>1, <2>2, SubSeqProperties
  <2> HIDE DEF some
  <2>4. Len(some) = b /\ DOMAIN some = 1 .. b /\ \A i \in 1 .. b : some[i] = all[i]
    BY <2>1, <2>3
  <2>5. IsList(some, b)
    BY <2>3, <2>4 DEF IsList
  <2> QED BY <2>1, <2>2, <2>4, <2>5, ListOf
<1> HIDE DEF some
<1> QED BY <1>1, <1>2, <1>3, <1>5 DEF rows, all

\* An answer about facilities.
FacilityGroups(p, e, valid) ==
    LET groups == getStationGroupData(e, valid)
        listed == Ordered(valid \cap DOMAIN groups)
    IN  [k \in DOMAIN listed |->
            Facility_station(listed[k], getStationCapabilities(p, e, valid), groups,
                             getStationNetworkMembershipData(e, valid))]

ValidStations(p, e) ==
    {r.station : r \in {r \in Range(rows_read(e, "stations")) :
                           p["stationid"] = <<>> \/ r.station \in ToSet(p["stationid"])}} \ {0}

LEMMA FacilityAnswer ==
    ASSUME NEW p, NEW e, Facility_query(p, e).ok
    PROVE  Facility_query(p, e).val.groups = FacilityGroups(p, e, ValidStations(p, e))
<1> DEFINE valid == getValidStations(p, e)
           groups == FacilityGroups(p, e, valid.val)
           answer == [begin |-> p["begintime"][1], end |-> p["endtime"][1], box |-> <<>>, groups |-> groups]
           last == format_output(e, answer)
           rv == IF valid.ok THEN last ELSE valid
           rr == IF e.registry THEN rv ELSE ProcessingFailed
           c1 == Singles(p, {"namespace", "authority", "begintime", "endtime"})
           r == IF c1.ok THEN rr ELSE c1
<1>1. Facility_query(p, e) = Guarded(r)
    BY DEF Facility_query, Facility_answer, FacilityGroups, db_registry, Then
<1>2. ~NoCode.ok /\ ~ProcessingFailed.ok /\ (\A code : ~Fail(code).ok)
    BY DEF NoCode, ProcessingFailed, Fail, Throw
<1> HIDE DEF valid, groups, last, c1
<1>3. r.ok /\ Facility_query(p, e) = r
    BY <1>1, <1>2 DEF Guarded, WithCode
<1>4. r = last /\ last.ok /\ valid.ok
    BY <1>2, <1>3
<1>5. last = Ok(answer)
    BY <1>2, <1>4 DEF last, format_output
<1>6. last.val.groups = groups
    BY <1>5 DEF Ok
<1>7. valid = Ok(ValidStations(p, e))
    BY <1>2, <1>4 DEF valid, getValidStations, ValidStations
<1>8. valid.val = ValidStations(p, e)
    BY <1>7 DEF Ok
<1> QED BY <1>3, <1>4, <1>6, <1>8 DEF groups

\* The networks of a station are shown with codes it has in them.
LEMMA NetworkCodes ==
    ASSUME NEW members, IsVector(members),
           \A i \in DOMAIN members : members[i] = [network |-> members[i].network, code |-> members[i].code]
    PROVE  LET shown == set_network_memberships(members)
           IN  \A n \in DOMAIN shown : [network |-> n, code |-> shown[n]] \in ToSet(members)
<1> DEFINE S(n) == {i \in DOMAIN members : members[i].network = n}
           At(n) == Picked(members, S(n))
           D == {n \in ActiveNetworks : At(n) # <<>>}
           shown == set_network_memberships(members)
           m == Len(members)
<1>1. shown = [n \in D |-> Last(At(n)).code]
    BY DEF set_network_memberships
<1>2. m \in Nat /\ DOMAIN members = 1 .. m /\ \A n : S(n) \in SUBSET (1 .. m)
    BY VectorOf
<1>3. \A n : \A i \in S(n) : i \in DOMAIN members /\ members[i].network = n
    OBVIOUS
<1> HIDE DEF S, m
<1>4. \A n : PickedFrom(At(n), members, S(n))
    BY <1>2, PickedIs
<1> HIDE DEF shown, At
<1>5. ASSUME NEW n \in D PROVE [network |-> n, code |-> shown[n]] \in ToSet(members)
  <2> DEFINE q == At(n)
  <2>1. IsVector(q) /\ q # <<>> /\ \A k \in DOMAIN q : \E i \in S(n) : q[k] = members[i]
    BY <1>4 DEF PickedFrom
  <2>2. shown[n] = Last(q).code
    BY <1>1
  <2> HIDE DEF q
  <2>3. Len(q) \in DOMAIN q
    BY <2>1 DEF IsVector
  <2>4. PICK i \in S(n) : q[Len(q)] = members[i]
    BY <2>1, <2>3
  <2>5. i \in DOMAIN members /\ members[i].network = n /\ shown[n] = members[i].code
    BY <1>3, <2>2, <2>4 DEF Last
  <2>6. [network |-> n, code |-> shown[n]] = members[i]
    BY <2>5
  <2> QED BY <2>5, <2>6 DEF ToSet
<1>6. DOMAIN shown = D
    BY <1>1
<1> QED BY <1>5, <1>6 DEF shown

\* Some of the rows have some of the items.
LEMMA FewerItems ==
    ASSUME NEW rows, NEW all, \A i \in DOMAIN rows : \E k \in DOMAIN all : rows[i] = all[k], NEW s
    PROVE  RowItems(rows, s) \subseteq RowItems(all, s)
<1> SUFFICES ASSUME NEW i \in DOMAIN rows, rows[i].station = s PROVE rows[i].item \in RowItems(all, s)
    BY DEF RowItems
<1>1. PICK k \in DOMAIN all : rows[i] = all[k]
    OBVIOUS
<1> QED BY <1>1 DEF RowItems

\* A station is shown with its own details.
OwnDetails(e, s, shown) ==
    /\ ToSet(shown.groups) \subseteq RowItems(e.db["groups"], s)
    /\ ToSet(shown.capabilities.measurands) \subseteq RowItems(e.db["capabilities"], s)
    /\ \A n \in DOMAIN shown.networks : [network |-> n, code |-> shown.networks[n]] \in RowItems(e.db["networks"], s)

AllDetails(p, e, s, shown) ==
    e.db.breaks = <<>> =>
        /\ ToSet(shown.groups) = RowItems(e.db["groups"], s)
        /\ p["showcapability"] = <<TRUE>> => ToSet(shown.capabilities.measurands) = RowItems(e.db["capabilities"], s)

DatabaseRight(d) ==
    /\ DatabaseQuery(d, "stations") /\ DatabaseQuery(d, "groups")
    /\ DatabaseQuery(d, "networks") /\ DatabaseQuery(d, "capabilities")
    /\ \A i \in DOMAIN d["networks"] :
          d["networks"][i].item = [network |-> d["networks"][i].item.network, code |-> d["networks"][i].item.code]

LEMMA StationShown ==
    ASSUME NEW p, NEW e, DatabaseRight(e.db), NEW valid,
           NEW s \in valid \cap DOMAIN getStationGroupData(e, valid), s # 0
    PROVE  LET g == Facility_station(s, getStationCapabilities(p, e, valid), getStationGroupData(e, valid),
                                     getStationNetworkMembershipData(e, valid))
           IN  /\ DOMAIN g.rows = {1} /\ g.rows[1].row = s
               /\ OwnDetails(e, s, g.rows[1].data) /\ AllDetails(p, e, s, g.rows[1].data)
<1> DEFINE groups == getStationGroupData(e, valid)
           caps == getStationCapabilities(p, e, valid)
           nets == getStationNetworkMembershipData(e, valid)
           shownnets == IF s \in DOMAIN nets THEN set_network_memberships(nets[s]) ELSE <<>>
           showncaps == IF s \in DOMAIN caps THEN set_observing_capabilities(caps[s]) ELSE set_observing_capabilities(<<>>)
           data == [groups |-> groups[s], networks |-> shownnets, capabilities |-> showncaps]
           row == [row |-> s, data |-> data]
           g == Facility_station(s, caps, groups, nets)
           Read(query) == rows_read(e, query)
<1>1. g = [ids |-> [feature_id |-> s], rows |-> <<row>>]
    BY DEF Facility_station
<1>2. \A query \in {"groups", "networks", "capabilities"} :
          /\ IsVector(Read(query))
          /\ \A i \in DOMAIN Read(query) : \E k \in DOMAIN e.db[query] : Read(query)[i] = e.db[query][k]
          /\ e.db.breaks = <<>> => Read(query) = e.db[query]
    BY ReadRows DEF DatabaseRight
<1>3. Sorted(Read("groups"), valid, groups)
    BY <1>2, ByStation DEF getStationGroupData
<1>4. Sorted(Read("networks"), valid, nets)
    BY <1>2, ByStation DEF getStationNetworkMembershipData
<1>5. IF Optional(p, "showcapability", FALSE) THEN Sorted(Read("capabilities"), valid, caps) ELSE caps = <<>>
    BY <1>2, ByStation DEF getStationCapabilities
<1> HIDE DEF groups, caps, nets, Read
<1>6. \A query \in {"groups", "networks", "capabilities"} : RowItems(Read(query), s) \subseteq RowItems(e.db[query], s)
    BY <1>2, FewerItems
<1>7. s \in valid /\ s \in DOMAIN groups
    BY DEF groups
<1>8. ToSet(groups[s]) = RowItems(Read("groups"), s)
    BY <1>3, <1>7 DEF Sorted
<1>9. showncaps.measurands = IF s \in DOMAIN caps THEN caps[s] ELSE <<>>
    BY DEF set_observing_capabilities
<1>10. ToSet(<<>>) = {} /\ \A x : x \notin DOMAIN <<>>
    BY DEF ToSet
<1>11. ASSUME NEW rows, NEW map, Sorted(rows, valid, map), s \notin DOMAIN map PROVE RowItems(rows, s) = {}
  <2>1. \A j \in DOMAIN rows : rows[j].station # s
    BY <1>7, <1>11 DEF Sorted
  <2> QED BY <2>1 DEF RowItems
<1>12. IF Optional(p, "showcapability", FALSE) THEN ToSet(showncaps.measurands) = RowItems(Read("capabilities"), s)
       ELSE ToSet(showncaps.measurands) = {}
  <2> HIDE DEF showncaps
  <2>1. CASE Optional(p, "showcapability", FALSE)
    <3>1. Sorted(Read("capabilities"), valid, caps)
      BY <1>5, <2>1
    <3>2. CASE s \in DOMAIN caps
      <4>1. ToSet(caps[s]) = RowItems(Read("capabilities"), s)
        BY <3>1, <3>2 DEF Sorted
      <4> QED BY <1>9, <2>1, <3>2, <4>1
    <3>3. CASE s \notin DOMAIN caps
      BY <1>9, <1>10, <1>11, <2>1, <3>1, <3>3
    <3> QED BY <3>2, <3>3
  <2>2. CASE ~Optional(p, "showcapability", FALSE)
    BY <1>5, <1>9, <1>10, <2>2
  <2> QED BY <2>1, <2>2
<1>13. \A n \in DOMAIN shownnets : [network |-> n, code |-> shownnets[n]] \in RowItems(e.db["networks"], s)
  <2>1. CASE s \in DOMAIN nets
    <3> DEFINE members == nets[s]
    <3>1. IsVector(members) /\ ToSet(members) = RowItems(Read("networks"), s)
      BY <1>4, <2>1 DEF Sorted
    <3>2. shownnets = set_network_memberships(members)
      BY <2>1
    <3> HIDE DEF members, shownnets
    <3>3. ToSet(members) \subseteq RowItems(e.db["networks"], s)
      BY <1>6, <3>1
    <3>4. \A i \in DOMAIN members : members[i] = [network |-> members[i].network, code |-> members[i].code]
      <4> SUFFICES ASSUME NEW i \in DOMAIN members
                   PROVE  members[i] = [network |-> members[i].network, code |-> members[i].code]
        OBVIOUS
      <4>1. members[i] \in RowItems(e.db["networks"], s)
        BY <3>3 DEF ToSet
      <4>2. PICK k \in DOMAIN e.db["networks"] : members[i] = e.db["networks"][k].item
        BY <4>1 DEF RowItems
      <4> QED BY <4>2 DEF DatabaseRight
    <3>5. \A n \in DOMAIN shownnets : [network |-> n, code |-> shownnets[n]] \in ToSet(members)
      BY <3>1, <3>2, <3>4, NetworkCodes
    <3> QED BY <3>3, <3>5
  <2>2. CASE s \notin DOMAIN nets
    <3>1. shownnets = <<>>
      BY <2>2
    <3> HIDE DEF shownnets
    <3> QED BY <1>10, <3>1
  <2> QED BY <2>1, <2>2
<1> HIDE DEF shownnets, showncaps
<1>14. data.groups = groups[s] /\ data.networks = shownnets /\ data.capabilities = showncaps
    OBVIOUS
<1>15. row.row = s /\ row.data = data
    OBVIOUS
<1> HIDE DEF data
<1>16. OwnDetails(e, s, data)
    BY <1>6, <1>8, <1>12, <1>13, <1>14 DEF OwnDetails
<1>17. p["showcapability"] = <<TRUE>> => Optional(p, "showcapability", FALSE)
  <2> SUFFICES ASSUME p["showcapability"] = <<TRUE>> PROVE Optional(p, "showcapability", FALSE)
    OBVIOUS
  <2>1. <<TRUE>> # <<>>
    OBVIOUS
  <2>2. <<TRUE>>[1] = TRUE
    BY Zenon
  <2>3. Optional(p, "showcapability", FALSE) = p["showcapability"][1]
    BY <2>1 DEF Optional
  <2> QED BY <2>2, <2>3
<1>18. AllDetails(p, e, s, data)
    BY <1>2, <1>8, <1>12, <1>14, <1>17 DEF AllDetails
<1> HIDE DEF row, g
<1>19. g.rows = <<row>>
    BY <1>1
<1>20. DOMAIN g.rows = {1} /\ g.rows[1] = row
    BY <1>19
<1> QED BY <1>15, <1>16, <1>18, <1>20 DEF g, caps, groups, nets

LEMMA DatabaseIsRight == IInv => DatabaseRight(eng.db)
<1> SUFFICES ASSUME IInv PROVE DatabaseRight(eng.db)
    OBVIOUS
<1> DEFINE d == eng.db
<1>1. d \in Possible("db")
    BY EnginesAssumption DEF IInv, InputsRight
<1> HIDE DEF d
<1>2. \A query \in {"stations", "groups", "networks", "capabilities"} : DatabaseQuery(d, query)
    BY <1>1, EnginesAssumption
<1>3. \A i \in DOMAIN d["networks"] :
          d["networks"][i].item = [network |-> d["networks"][i].item.network, code |-> d["networks"][i].item.code]
    BY <1>1, EnginesAssumption
<1>4. DatabaseRight(d)
    BY <1>2, <1>3 DEF DatabaseRight
<1> QED BY <1>4 DEF d

\* A set of stations that rows name is finite, so that it can be listed.
LEMMA StationsListed ==
    ASSUME NEW rows, IsVector(rows), \A i \in DOMAIN rows : rows[i].station \in Int,
           NEW S, S \subseteq {rows[i].station : i \in DOMAIN rows}
    PROVE  IsVector(Ordered(S)) /\ Range(Ordered(S)) = S
<1> DEFINE n == Len(rows)
           f == [i \in 1 .. n |-> rows[i].station]
<1>1. n \in Nat /\ DOMAIN rows = 1 .. n
    BY VectorOf
<1> HIDE DEF n
<1>2. f \in [1 .. n -> Int] /\ S \subseteq Range(f)
    BY <1>1 DEF Range
<1> HIDE DEF f
<1> QED BY <1>1, <1>2, OrderedNumbers

\* The groups of an answer about facilities are of the stations that are valid
\* and in a group.
GroupedStations(p, e) == ValidStations(p, e) \cap DOMAIN getStationGroupData(e, ValidStations(p, e))

StationGroup(p, e, s, g) ==
    /\ DOMAIN g.rows = {1} /\ g.rows[1].row = s
    /\ OwnDetails(e, s, g.rows[1].data) /\ AllDetails(p, e, s, g.rows[1].data)

LEMMA GroupsOfStations ==
    ASSUME NEW p, NEW e, DatabaseRight(e.db)
    PROVE  LET gs == FacilityGroups(p, e, ValidStations(p, e))
           IN  /\ \A k \in DOMAIN gs : \E s \in GroupedStations(p, e) : StationGroup(p, e, s, gs[k])
               /\ \A s \in GroupedStations(p, e) : \E k \in DOMAIN gs : StationGroup(p, e, s, gs[k])
<1> DEFINE valid == ValidStations(p, e)
           groups == getStationGroupData(e, valid)
           S == GroupedStations(p, e)
           listed == Ordered(S)
           Station(s) == Facility_station(s, getStationCapabilities(p, e, valid), groups,
                                          getStationNetworkMembershipData(e, valid))
           gs == FacilityGroups(p, e, valid)
           rows == rows_read(e, "groups")
<1>1. gs = [k \in DOMAIN listed |-> Station(listed[k])]
    BY DEF FacilityGroups, GroupedStations
<1>2. 0 \notin valid
    BY DEF ValidStations
<1>3. S = valid \cap DOMAIN groups
    BY DEF GroupedStations
<1>4. DatabaseQuery(e.db, "groups")
    BY DEF DatabaseRight
<1>5. /\ IsVector(rows)
      /\ \A i \in DOMAIN rows : \E k \in DOMAIN e.db["groups"] : rows[i] = e.db["groups"][k]
    BY <1>4, ReadRows
<1>6. \A i \in DOMAIN rows : rows[i].station \in Int
    BY <1>4, <1>5 DEF DatabaseQuery
<1>7. Sorted(rows, valid, groups)
    BY <1>5, ByStation DEF getStationGroupData
<1>8. \A s \in S : StationGroup(p, e, s, Station(s))
  <2> SUFFICES ASSUME NEW s \in S PROVE StationGroup(p, e, s, Station(s))
    OBVIOUS
  <2>1. s \in valid \cap DOMAIN getStationGroupData(e, valid) /\ s # 0
    BY <1>2, <1>3
  <2> HIDE DEF valid
  <2> QED BY <2>1, StationShown DEF StationGroup
<1> HIDE DEF rows, groups, valid, S, Station, gs
<1>9. S \subseteq {rows[i].station : i \in DOMAIN rows}
    BY <1>3, <1>7 DEF Sorted
<1>10. Range(listed) = S
    BY <1>5, <1>6, <1>9, StationsListed
<1> HIDE DEF listed
<1>11. DOMAIN gs = DOMAIN listed /\ \A k \in DOMAIN gs : gs[k] = Station(listed[k])
    BY <1>1
<1>12. ASSUME NEW k \in DOMAIN gs PROVE \E s \in S : StationGroup(p, e, s, gs[k])
    BY <1>8, <1>10, <1>11 DEF Range
<1>13. ASSUME NEW s \in S PROVE \E k \in DOMAIN gs : StationGroup(p, e, s, gs[k])
  <2>1. PICK k \in DOMAIN listed : listed[k] = s
    BY <1>10 DEF Range
  <2> QED BY <1>8, <1>11, <2>1
<1> QED BY <1>12, <1>13 DEF S, gs, valid

\* As long as nothing breaks off, the stations of an answer to a request for
\* all of them are the ones with a group.
LEMMA AllGrouped ==
    ASSUME NEW p, NEW e, DatabaseRight(e.db), e.db.breaks = <<>>, p["stationid"] = <<>>
    PROVE  GroupedStations(p, e) =
               ({r.station : r \in Range(e.db["groups"])} \cap {r.station : r \in Range(e.db["stations"])}) \ {0}
<1> DEFINE valid == ValidStations(p, e)
           groups == getStationGroupData(e, valid)
           all == e.db["groups"]
<1>1. rows_read(e, "groups") = all /\ IsVector(all) /\ rows_read(e, "stations") = e.db["stations"]
  <2>1. DatabaseQuery(e.db, "groups") /\ DatabaseQuery(e.db, "stations")
    BY DEF DatabaseRight
  <2> QED BY <2>1, ReadRows DEF DatabaseQuery
<1>2. valid = {r.station : r \in Range(e.db["stations"])} \ {0}
    BY <1>1 DEF ValidStations
<1>3. Sorted(all, valid, groups)
    BY <1>1, ByStation DEF getStationGroupData
<1>4. GroupedStations(p, e) = valid \cap DOMAIN groups
    BY DEF GroupedStations
<1> HIDE DEF valid, groups, all
<1>5. DOMAIN groups = {all[i].station : i \in {j \in DOMAIN all : all[j].station # 0}} \cap valid
    BY <1>3 DEF Sorted
<1>6. {r.station : r \in Range(all)} \ {0} = {all[i].station : i \in {j \in DOMAIN all : all[j].station # 0}}
    BY DEF Range
<1> QED BY <1>2, <1>4, <1>5, <1>6 DEF all

LEMMA FacilityDetails ==
    ASSUME IInv, h.handler = "facility", response.ok
    PROVE  /\ \A x \in RowsAt :
                 /\ OwnDetails(eng, RowOf(x).row, RowOf(x).data)
                 /\ AllDetails(par, eng, RowOf(x).row, RowOf(x).data)
           /\ {RowOf(x).row : x \in RowsAt} = GroupedStations(par, eng)
<1> DEFINE gs == response.val.groups
           S == GroupedStations(par, eng)
<1>1. response = Facility_query(par, eng)
    BY DEF IInv, Answered
<1>2. gs = FacilityGroups(par, eng, ValidStations(par, eng))
    BY <1>1, FacilityAnswer
<1>3. /\ \A k \in DOMAIN gs : \E s \in S : StationGroup(par, eng, s, gs[k])
      /\ \A s \in S : \E k \in DOMAIN gs : StationGroup(par, eng, s, gs[k])
    BY <1>2, DatabaseIsRight, GroupsOfStations
<1>4. Groups = gs
    BY DEF Groups
<1> HIDE DEF gs, S
<1>5. ASSUME NEW x \in RowsAt
      PROVE  \E s \in S : /\ RowOf(x).row = s /\ OwnDetails(eng, s, RowOf(x).data)
                          /\ AllDetails(par, eng, s, RowOf(x).data)
  <2>1. x[1] \in DOMAIN gs /\ x[2] \in DOMAIN gs[x[1]].rows /\ RowOf(x) = gs[x[1]].rows[x[2]]
    BY RowsAtAre DEF gs
  <2>2. PICK s \in S : StationGroup(par, eng, s, gs[x[1]])
    BY <1>3, <2>1
  <2>3. x[2] = 1
    BY <2>1, <2>2 DEF StationGroup
  <2> QED BY <2>1, <2>2, <2>3 DEF StationGroup
<1>6. ASSUME NEW s \in S PROVE \E x \in RowsAt : RowOf(x).row = s
  <2>1. PICK k \in DOMAIN gs : StationGroup(par, eng, s, gs[k])
    BY <1>3
  <2>2. 1 \in DOMAIN gs[k].rows /\ gs[k].rows[1].row = s
    BY <2>1 DEF StationGroup
  <2>3. <<k, 1>>[1] = k /\ <<k, 1>>[2] = 1
    OBVIOUS
  <2>4. <<k, 1>> \in GroupRows
    BY <1>4, <2>2 DEF GroupRows
  <2>5. <<k, 1>> \in RowsAt
    BY <1>4, <2>2, <2>3, <2>4 DEF RowsAt
  <2>6. RowOf(<<k, 1>>).row = s
    BY <1>4, <2>2, <2>3 DEF RowOf
  <2> QED BY <2>5, <2>6
<1> QED BY <1>5, <1>6 DEF S

\* Whatever rows the database of stations has and wherever a query breaks off,
\* a facility is listed with groups, networks and measurands of its own and of
\* no other, and with all of them, none of the stations missing, as long as no
\* query breaks off (getStationGroupData and the two other tasks of
\* StoredEnvMonitoringFacilityQueryHandler.cpp).
THEOREM StationsAlwaysOwnDetails == Spec => []StationsOwnDetails
<1>1. IInv => StationsOwnDetails
  <2> SUFFICES ASSUME IInv, h.handler = "facility", response.ok PROVE StationsOwnDetails
    BY DEF StationsOwnDetails
  <2> DEFINE Items(query, s) == {r.item : r \in {r \in ToSet(eng.db[query]) : r.station = s}}
             grouped == {r.station : r \in ToSet(eng.db.groups)} \cap {r.station : r \in ToSet(eng.db.stations)}
             Codes(shown) == [n \in DOMAIN shown.networks |-> [network |-> n, code |-> shown.networks[n]]]
  <2>1. \A query, s : Items(query, s) = RowItems(eng.db[query], s)
    BY DEF RowItems, ToSet
  <2>2. \A v : ToSet(v) = Range(v)
    BY DEF ToSet, Range
  <2>3. eng.db.breaks = <<>> /\ par["stationid"] = <<>> => {RowOf(x).row : x \in RowsAt} = grouped \ {0}
    <3> SUFFICES ASSUME eng.db.breaks = <<>>, par["stationid"] = <<>>
                 PROVE  {RowOf(x).row : x \in RowsAt} = grouped \ {0}
      OBVIOUS
    <3>1. GroupedStations(par, eng) =
              ({r.station : r \in Range(eng.db["groups"])} \cap {r.station : r \in Range(eng.db["stations"])}) \ {0}
      BY DatabaseIsRight, AllGrouped
    <3>2. GroupedStations(par, eng) = grouped \ {0}
      BY <2>2, <3>1
    <3> QED BY <3>2, FacilityDetails
  <2>4. ASSUME NEW x \in RowsAt, NEW s, s = RowOf(x).row, NEW shown, shown = RowOf(x).data
        PROVE  /\ ToSet(shown.groups) \subseteq Items("groups", s)
               /\ ToSet(shown.capabilities.measurands) \subseteq Items("capabilities", s)
               /\ Range(Codes(shown)) \subseteq Items("networks", s)
               /\ eng.db.breaks = <<>> =>
                     /\ ToSet(shown.groups) = Items("groups", s)
                     /\ par["showcapability"] = <<TRUE>> =>
                           ToSet(shown.capabilities.measurands) = Items("capabilities", s)
    <3>1. OwnDetails(eng, s, shown) /\ AllDetails(par, eng, s, shown)
      BY <2>4, FacilityDetails
    <3> HIDE DEF Items
    <3>2. Range(Codes(shown)) \subseteq Items("networks", s)
      BY <2>1, <3>1 DEF OwnDetails, Range
    <3> HIDE DEF Codes
    <3> QED BY <2>1, <3>1, <3>2 DEF OwnDetails, AllDetails
  <2> QED BY <2>3, <2>4 DEF StationsOwnDetails
<1> QED BY <1>1, AlwaysIInv, PTL
-----------------------------------------------------------------------------
(* Rows that are written once *)

\* No element of a list is repeated.
Distinct(s) == \A m, k \in DOMAIN s : s[m] = s[k] => m = k

\* No element of a list of lists is.
AllDistinct(ss) ==
    \A i, k \in DOMAIN ss : \A j \in DOMAIN ss[i], l \in DOMAIN ss[k] : ss[i][j] = ss[k][l] => i = k /\ j = l

LEMMA ConcatDistinct ==
    ASSUME NEW T, NEW s \in Seq(T), NEW t \in Seq(T), Distinct(s), Distinct(t),
           \A i \in DOMAIN s, j \in DOMAIN t : s[i] # t[j]
    PROVE  Distinct(s \o t)
<1> DEFINE c == s \o t
           n == Len(s)
<1>1. /\ Len(c) = n + Len(t) /\ n \in Nat /\ Len(t) \in Nat
      /\ DOMAIN c = 1 .. Len(c) /\ DOMAIN s = 1 .. n /\ DOMAIN t = 1 .. Len(t)
      /\ \A m \in 1 .. Len(c) : c[m] = IF m <= n THEN s[m] ELSE t[m - n]
    OBVIOUS
<1> HIDE DEF c, n
<1>2. \A m \in DOMAIN c : \/ m \in DOMAIN s /\ c[m] = s[m]
                          \/ m - n \in DOMAIN t /\ c[m] = t[m - n]
    BY <1>1
<1>3. ASSUME NEW m \in DOMAIN c, NEW k \in DOMAIN c, c[m] = c[k] PROVE m = k
  <2>1. m \in Int /\ k \in Int
    BY <1>1
  <2>2. CASE m \in DOMAIN s /\ c[m] = s[m] /\ k \in DOMAIN s /\ c[k] = s[k]
    BY <1>3, <2>2 DEF Distinct
  <2>3. CASE m - n \in DOMAIN t /\ c[m] = t[m - n] /\ k - n \in DOMAIN t /\ c[k] = t[k - n]
    <3>1. m - n = k - n
      BY <1>3, <2>3 DEF Distinct
    <3> QED BY <1>1, <2>1, <3>1
  <2>4. CASE m \in DOMAIN s /\ c[m] = s[m] /\ k - n \in DOMAIN t /\ c[k] = t[k - n]
    BY <1>3, <2>4
  <2>5. CASE k \in DOMAIN s /\ c[k] = s[k] /\ m - n \in DOMAIN t /\ c[m] = t[m - n]
    BY <1>3, <2>5
  <2> QED BY <1>2, <2>2, <2>3, <2>4, <2>5
<1> QED BY <1>3 DEF Distinct, c

LEMMA FlattenDistinct ==
    ASSUME NEW n \in Nat, NEW ss, IsList(ss, n), \A i \in 1 .. n : IsVector(ss[i]), AllDistinct(ss)
    PROVE  Distinct(FlattenSeq(ss))
<1>0. DOMAIN ss = 1 .. n
    BY DEF IsList
<1>1. CASE n = 0
  <2>1. ss = <<>>
    BY <1>1 DEF IsList
  <2>2. FlattenSeq(ss) = <<>>
    BY <2>1, FlattenEmpty
  <2> QED BY <2>2 DEF Distinct
<1> SUFFICES ASSUME n # 0 PROVE Distinct(FlattenSeq(ss))
    BY <1>1
<1> DEFINE T == UNION {Range(ss[i]) : i \in 1 .. n}
<1>2. \A i \in 1 .. n : ss[i] \in Seq(T)
  <2> SUFFICES ASSUME NEW i \in 1 .. n PROVE ss[i] \in Seq(T)
    OBVIOUS
  <2> DEFINE s == ss[i]
             R == Range(s)
  <2>1. s \in Seq(R) /\ \A x \in R : x \in T
    BY DEF IsVector
  <2> HIDE DEF s, R, T
  <2>2. Len(s) \in Nat /\ DOMAIN s = 1 .. Len(s) /\ \A k \in 1 .. Len(s) : s[k] \in T
    BY <2>1
  <2>3. s \in [1 .. Len(s) -> T]
    BY <2>1, <2>2
  <2>4. s \in Seq(T)
    BY <2>2, <2>3
  <2> QED BY <2>4 DEF s
<1> HIDE DEF T
<1>3. ss \in [1 .. n -> Seq(T)]
    BY <1>2 DEF IsList
<1>4. ss \in Seq(Seq(T)) /\ Len(ss) = n
    BY <1>3
<1>5. PICK g : IsFlat(g, ss) /\ FlattenSeq(ss) = g[n]
    BY <1>4, FlattenIs
<1>6. \A i \in 1 .. n : g[i] = IF i = 1 THEN ss[i] ELSE g[i - 1] \o ss[i]
    BY <1>4, <1>5, FlatSteps
<1>7. \A i \in 1 .. n : g[i] \in Seq(T)
    BY <1>4, <1>5, FlatType
<1> DEFINE Earlier(k) == \A m \in DOMAIN g[k] : \E i \in 1 .. k : \E j \in DOMAIN ss[i] : g[k][m] = ss[i][j]
           N == {k \in Nat : k \in 1 .. n => Distinct(g[k]) /\ Earlier(k)}
<1>8. 0 \in N
    OBVIOUS
<1>9. ASSUME NEW i \in 1 .. n PROVE Distinct(ss[i]) /\ IsVector(ss[i])
    BY <1>0, <1>9 DEF AllDistinct, Distinct
<1>10. ASSUME NEW k \in Nat, k \in N PROVE k + 1 \in N
  <2> SUFFICES ASSUME k + 1 \in 1 .. n PROVE Distinct(g[k + 1]) /\ Earlier(k + 1)
    OBVIOUS
  <2>1. g[k + 1] = IF k = 0 THEN ss[k + 1] ELSE g[k] \o ss[k + 1]
    <3>1. (k + 1 = 1) = (k = 0) /\ (k + 1) - 1 = k
      OBVIOUS
    <3> QED BY <1>6, <3>1
  <2>2. Distinct(ss[k + 1]) /\ IsVector(ss[k + 1])
    BY <1>9
  <2>3. k + 1 \in 1 .. k + 1
    OBVIOUS
  <2>4. CASE k = 0
    <3>1. g[k + 1] = ss[k + 1]
      BY <2>1, <2>4
    <3> QED BY <2>2, <2>3, <3>1
  <2>5. CASE k # 0
    <3>1. k \in 1 .. n /\ \A i \in 1 .. k : i \in 1 .. n /\ i \in 1 .. k + 1 /\ i # k + 1
      BY <2>5
    <3>2. g[k] \in Seq(T) /\ ss[k + 1] \in Seq(T)
      BY <1>2, <1>7, <3>1
    <3>3. g[k + 1] = g[k] \o ss[k + 1]
      BY <2>1, <2>5
    <3>4. Distinct(g[k]) /\ Earlier(k)
      BY <1>10, <3>1
    <3>5. \A m \in DOMAIN g[k], j \in DOMAIN ss[k + 1] : g[k][m] # ss[k + 1][j]
      <4> SUFFICES ASSUME NEW m \in DOMAIN g[k], NEW j \in DOMAIN ss[k + 1], g[k][m] = ss[k + 1][j] PROVE FALSE
        OBVIOUS
      <4>1. PICK i \in 1 .. k : \E l \in DOMAIN ss[i] : g[k][m] = ss[i][l]
        BY <3>4
      <4>2. PICK l \in DOMAIN ss[i] : g[k][m] = ss[i][l]
        BY <4>1
      <4>3. i \in DOMAIN ss /\ k + 1 \in DOMAIN ss /\ i # k + 1
        BY <1>0, <3>1
      <4>4. ss[i][l] = ss[k + 1][j]
        BY <4>2
      <4> QED BY <4>3, <4>4 DEF AllDistinct
    <3>6. Distinct(g[k + 1])
      BY <2>2, <3>2, <3>3, <3>4, <3>5, ConcatDistinct
    <3>7. IsVector(g[k])
      <4> DEFINE s == g[k]
      <4> HIDE DEF s
      <4>1. s \in Seq(T)
        BY <3>2 DEF s
      <4>2. Len(s) \in Nat /\ IsList(s, Len(s))
        BY <4>1 DEF IsList
      <4>3. IsVector(s)
        BY <4>2, ListOf
      <4> QED BY <4>3 DEF s
    <3>8. Joins(g[k + 1], g[k], ss[k + 1])
      BY <2>2, <3>3, <3>7, ConcatJoins
    <3>9. Earlier(k + 1)
      BY <2>3, <3>1, <3>4, <3>8 DEF Joins
    <3> QED BY <3>6, <3>9
  <2> QED BY <2>4, <2>5
<1> HIDE DEF N
<1>11. n \in N
    BY <1>8, <1>10, NatSetInduction
<1>12. Distinct(g[n])
    BY <1>11 DEF N
<1> QED BY <1>5, <1>12

\* Each row of the groups of an answer is of its own, and the rows are S.
Once(gs) ==
    \A k, l \in DOMAIN gs : \A i \in DOMAIN gs[k].rows, j \in DOMAIN gs[l].rows :
        gs[k].rows[i].row = gs[l].rows[j].row => k = l /\ i = j

Written(gs, S) ==
    /\ \A k \in DOMAIN gs : \A i \in DOMAIN gs[k].rows : gs[k].rows[i].row \in S
    /\ \A x \in S : \E k \in DOMAIN gs : \E i \in DOMAIN gs[k].rows : gs[k].rows[i].row = x

LEMMA OnceInResponse ==
    ASSUME response.ok, Once(response.val.groups)
    PROVE  \A p, q \in RowsAt : RowOf(p).row = RowOf(q).row => p = q
<1> DEFINE gs == response.val.groups
<1>1. \A p \in RowsAt : /\ p[1] \in DOMAIN gs /\ p[2] \in DOMAIN gs[p[1]].rows
                        /\ RowOf(p) = gs[p[1]].rows[p[2]]
    BY RowsAtAre
<1>2. \A p \in RowsAt : p = <<p[1], p[2]>>
    BY DEF RowsAt, GroupRows
<1> HIDE DEF gs
<1> SUFFICES ASSUME NEW p \in RowsAt, NEW q \in RowsAt, RowOf(p).row = RowOf(q).row PROVE p = q
    OBVIOUS
<1>3. Once(gs)
    BY DEF gs
<1>4. gs[p[1]].rows[p[2]].row = gs[q[1]].rows[q[2]].row
    BY <1>1
<1>5. p[1] = q[1] /\ p[2] = q[2]
  <2> DEFINE k == p[1]
             l == q[1]
             i == p[2]
             j == q[2]
  <2>1. k \in DOMAIN gs /\ l \in DOMAIN gs /\ i \in DOMAIN gs[k].rows /\ j \in DOMAIN gs[l].rows
    BY <1>1
  <2>2. gs[k].rows[i].row = gs[l].rows[j].row
    BY <1>4
  <2> HIDE DEF k, l, i, j
  <2>3. k = l /\ i = j
    BY <1>3, <2>1, <2>2 DEF Once
  <2> QED BY <2>3 DEF k, l, i, j
<1> QED BY <1>2, <1>5

LEMMA WrittenInResponse ==
    ASSUME response.ok, NEW S, Written(response.val.groups, S)
    PROVE  {RowOf(p).row : p \in RowsAt} = S
<1> DEFINE gs == response.val.groups
<1>1. \A p \in RowsAt : /\ p[1] \in DOMAIN gs /\ p[2] \in DOMAIN gs[p[1]].rows
                        /\ RowOf(p) = gs[p[1]].rows[p[2]]
    BY RowsAtAre
<1>2. Groups = gs
    BY DEF Groups
<1> HIDE DEF gs
<1>3. ASSUME NEW p \in RowsAt PROVE RowOf(p).row \in S
    BY <1>1 DEF Written, gs
<1>4. ASSUME NEW x \in S PROVE \E p \in RowsAt : RowOf(p).row = x
  <2>1. PICK k \in DOMAIN gs : \E i \in DOMAIN gs[k].rows : gs[k].rows[i].row = x
    BY DEF Written, gs
  <2>2. PICK i \in DOMAIN gs[k].rows : gs[k].rows[i].row = x
    BY <2>1
  <2>3. <<k, i>>[1] = k /\ <<k, i>>[2] = i
    OBVIOUS
  <2>4. <<k, i>> \in GroupRows
    BY <1>2, <2>2 DEF GroupRows
  <2>5. <<k, i>> \in RowsAt
    BY <1>2, <2>2, <2>3, <2>4 DEF RowsAt
  <2>6. RowOf(<<k, i>>).row = x
    BY <1>2, <2>2, <2>3 DEF RowOf
  <2> QED BY <2>5, <2>6
<1> QED BY <1>3, <1>4

\* The positions of a list cut into runs.
RunsOf(starts, n) ==
    LET at == Ordered(starts)
        End(k) == IF k = Len(at) THEN n ELSE at[k + 1] - 1
    IN  [k \in DOMAIN at |-> [j \in 1 .. End(k) - at[k] + 1 |-> at[k] + j - 1]]

\* The runs have every position once.
Partition(runs, n) ==
    /\ IsVector(runs) /\ AllDistinct(runs)
    /\ \A k \in DOMAIN runs : /\ IsVector(runs[k]) /\ 1 \in DOMAIN runs[k]
                              /\ \A j \in DOMAIN runs[k] : runs[k][j] \in 1 .. n
    /\ \A i \in 1 .. n : \E k \in DOMAIN runs : \E j \in DOMAIN runs[k] : runs[k][j] = i

LEMMA RunsPartition ==
    ASSUME NEW n \in Nat, NEW starts, starts \in SUBSET (1 .. n), n # 0 => 1 \in starts
    PROVE  Partition(RunsOf(starts, n), n)
<1> DEFINE at == Ordered(starts)
           m == Len(at)
           End(k) == IF k = Len(at) THEN n ELSE at[k + 1] - 1
           runs == RunsOf(starts, n)
<1>1. runs = [k \in DOMAIN at |-> [j \in 1 .. End(k) - at[k] + 1 |-> at[k] + j - 1]]
    BY DEF RunsOf
<1>2. /\ at \in Seq(starts) /\ Range(at) = starts
      /\ \A i, j \in DOMAIN at : i < j => at[i] < at[j]
    BY OrderedPositions
<1> HIDE DEF at, runs
<1>3. /\ m \in Nat /\ DOMAIN at = 1 .. m
      /\ \A k \in 1 .. m : at[k] \in 1 .. n
  <2>1. m \in Nat /\ DOMAIN at = 1 .. m /\ \A k \in 1 .. m : at[k] \in starts
    BY <1>2
  <2> QED BY <2>1
<1> HIDE DEF m
<1>4. \A k \in 1 .. m : End(k) = IF k = m THEN n ELSE at[k + 1] - 1
    BY DEF m
<1> HIDE DEF End
<1>5. \A k \in 1 .. m : End(k) \in Int /\ at[k] <= End(k) /\ End(k) <= n /\ at[k] \in Int
  <2> SUFFICES ASSUME NEW k \in 1 .. m PROVE End(k) \in Int /\ at[k] <= End(k) /\ End(k) <= n /\ at[k] \in Int
    OBVIOUS
  <2>1. at[k] \in 1 .. n
    BY <1>3
  <2>2. CASE k = m
    BY <1>4, <2>1, <2>2
  <2>3. CASE k # m
    <3>1. k + 1 \in 1 .. m /\ k < k + 1
      BY <1>3, <2>3
    <3>2. at[k] < at[k + 1] /\ at[k + 1] \in 1 .. n
      BY <1>2, <1>3, <3>1
    <3>3. End(k) = at[k + 1] - 1
      BY <1>4, <2>3
    <3> QED BY <2>1, <3>2, <3>3
  <2> QED BY <2>2, <2>3
<1>6. DOMAIN runs = 1 .. m /\ \A k \in 1 .. m : runs[k] = [j \in 1 .. End(k) - at[k] + 1 |-> at[k] + j - 1]
    BY <1>1, <1>3
<1>7. IsVector(runs)
  <2>1. IsList(runs, m)
    BY <1>1, <1>3 DEF IsList
  <2> QED BY <1>3, <2>1, ListOf
<1>8. \A k, l \in 1 .. m : k < l => End(k) < at[l]
  <2> SUFFICES ASSUME NEW k \in 1 .. m, NEW l \in 1 .. m, k < l PROVE End(k) < at[l]
    OBVIOUS
  <2>1. k # m /\ k + 1 \in 1 .. m /\ (k + 1 < l \/ k + 1 = l)
    BY <1>3
  <2>2. at[k + 1] \in Int /\ at[l] \in Int
    BY <1>5, <2>1
  <2>4. k + 1 < l => at[k + 1] < at[l]
    BY <1>2, <1>3, <2>1
  <2>3. End(k) = at[k + 1] - 1
    BY <1>4, <2>1
  <2>5. at[k + 1] <= at[l]
    BY <2>1, <2>2, <2>4
  <2> QED BY <2>2, <2>3, <2>5
<1>9. \A k \in 1 .. m : /\ DOMAIN runs[k] = 1 .. End(k) - at[k] + 1
                        /\ \A j \in DOMAIN runs[k] : runs[k][j] = at[k] + j - 1
    BY <1>6
<1>10. ASSUME NEW k \in 1 .. m
       PROVE  /\ IsVector(runs[k]) /\ 1 \in DOMAIN runs[k]
              /\ \A j \in DOMAIN runs[k] : runs[k][j] \in 1 .. n /\ j \in Int /\ at[k] <= runs[k][j] /\ runs[k][j] <= End(k)
  <2> DEFINE e == End(k) - at[k] + 1
             r == runs[k]
  <2>1. e \in Nat /\ 1 <= e /\ at[k] \in 1 .. n
    BY <1>3, <1>5
  <2>2. IsList(r, e)
    BY <1>6 DEF IsList
  <2>3. IsVector(r)
    BY <2>1, <2>2, ListOf
  <2>4. \A j \in 1 .. e : at[k] + j - 1 \in 1 .. n /\ j \in Int /\ at[k] <= at[k] + j - 1 /\ at[k] + j - 1 <= End(k)
    BY <1>5, <2>1
  <2> QED BY <1>9, <2>1, <2>3, <2>4
<1>11. AllDistinct(runs)
  <2> SUFFICES ASSUME NEW k \in 1 .. m, NEW l \in 1 .. m, NEW i \in DOMAIN runs[k], NEW j \in DOMAIN runs[l],
                      runs[k][i] = runs[l][j]
               PROVE  k = l /\ i = j
    BY <1>6 DEF AllDistinct
  <2>1. /\ runs[k][i] \in Int /\ at[k] <= runs[k][i] /\ runs[k][i] <= End(k)
        /\ at[l] <= runs[k][i] /\ runs[k][i] <= End(l) /\ i \in Int /\ j \in Int
    BY <1>10
  <2>2. at[k] \in Int /\ at[l] \in Int /\ End(k) \in Int /\ End(l) \in Int
    BY <1>5
  <2>3. ~(k < l) /\ ~(l < k)
    BY <1>8, <2>1, <2>2
  <2>4. k = l
    BY <1>3, <2>3
  <2>5. at[k] + i - 1 = at[k] + j - 1
    BY <1>9, <2>4
  <2> QED BY <2>1, <2>2, <2>4, <2>5
<1>12. ASSUME NEW i \in 1 .. n PROVE \E k \in DOMAIN runs : \E j \in DOMAIN runs[k] : runs[k][j] = i
  <2> DEFINE Later == {k \in 1 .. m : i < at[k]}
  <2>1. m # 0 /\ at[1] = 1
    <3>1. 1 \in starts
      BY <1>12
    <3>2. PICK a \in 1 .. m : at[a] = 1
      BY <1>2, <1>3, <3>1 DEF Range
    <3>3. 1 \in 1 .. m /\ at[1] \in 1 .. n
      BY <1>3, <3>2
    <3>4. ~(1 < a)
      BY <1>2, <1>3, <3>2, <3>3
    <3> QED BY <3>2, <3>3, <3>4
  <2>2. \E k \in 1 .. m : at[k] <= i /\ i <= End(k)
    <3>1. CASE Later = {}
      <4>1. m \in 1 .. m /\ at[m] \in Int
        BY <1>3, <1>5, <2>1
      <4>2. at[m] <= i /\ End(m) = n
        BY <1>4, <3>1, <4>1
      <4> QED BY <4>1, <4>2
    <3>2. CASE Later # {}
      <4>1. PICK l \in Later : \A b \in Later : l <= b
        <5>1. Later \subseteq Nat
          BY <1>3
        <5> HIDE DEF Later
        <5> QED BY <3>2, <5>1, LeastNumber
      <4>2. l \in 1 .. m /\ l # 1 /\ i < at[l]
        BY <2>1, <4>1
      <4>3. l - 1 \in 1 .. m /\ ~(l <= l - 1) /\ l - 1 # m /\ (l - 1) + 1 = l
        BY <1>3, <4>2
      <4>4. ~(i < at[l - 1]) /\ at[l - 1] \in Int /\ at[l] \in Int
        BY <1>5, <4>1, <4>2, <4>3
      <4>5. End(l - 1) = at[l] - 1
        BY <1>4, <4>3
      <4> QED BY <4>2, <4>3, <4>4, <4>5
    <3> QED BY <3>1, <3>2
  <2>3. PICK k \in 1 .. m : at[k] <= i /\ i <= End(k)
    BY <2>2
  <2>4. i - at[k] + 1 \in 1 .. End(k) - at[k] + 1 /\ at[k] + (i - at[k] + 1) - 1 = i
    BY <1>5, <2>3
  <2>5. i - at[k] + 1 \in DOMAIN runs[k] /\ runs[k][i - at[k] + 1] = i
    <3> DEFINE j == i - at[k] + 1
    <3>1. j \in 1 .. End(k) - at[k] + 1 /\ at[k] + j - 1 = i
      BY <2>4
    <3> HIDE DEF j
    <3>2. j \in DOMAIN runs[k] /\ runs[k][j] = i
      BY <1>9, <3>1
    <3> QED BY <3>2 DEF j
  <2> QED BY <1>6, <2>5
<1>13. Partition(runs, n)
    BY <1>6, <1>7, <1>10, <1>11, <1>12 DEF Partition
<1> QED BY <1>13 DEF runs

LEMMA IncreasingDistinct ==
    ASSUME NEW s, IsVector(s), \A i \in DOMAIN s : s[i] \in Int, \A i, j \in DOMAIN s : i < j => s[i] < s[j]
    PROVE  Distinct(s)
<1>1. \A i \in DOMAIN s : i \in Int
    BY VectorOf
<1>2. \A i, j \in DOMAIN s : s[i] = s[j] => ~(i < j) /\ ~(j < i)
    OBVIOUS
<1> QED BY <1>1, <1>2 DEF Distinct

\* The sites of rows, and the rows of each.
SitesOf(rows) == Ordered({rows[i].site : i \in DOMAIN rows})
RowsOf(rows) == LET sites == SitesOf(rows)
                IN  [k \in DOMAIN sites |-> Ordered({i \in DOMAIN rows : rows[i].site = sites[k]})]

LEMMA RowsOfSites ==
    ASSUME NEW rows, IsVector(rows), \A i \in DOMAIN rows : rows[i].site \in Int
    PROVE  /\ IsVector(SitesOf(rows)) /\ DOMAIN RowsOf(rows) = DOMAIN SitesOf(rows)
           /\ Partition(RowsOf(rows), Len(rows))
<1> DEFINE n == Len(rows)
           S == {rows[i].site : i \in DOMAIN rows}
           f == [i \in 1 .. n |-> rows[i].site]
           sites == SitesOf(rows)
           m == Len(sites)
           At(k) == {i \in DOMAIN rows : rows[i].site = sites[k]}
           parts == RowsOf(rows)
<1>1. n \in Nat /\ DOMAIN rows = 1 .. n
    BY VectorOf
<1>2. f \in [1 .. n -> Int] /\ S \subseteq Range(f) /\ S \subseteq Int
    BY <1>1 DEF Range
<1>3. parts = [k \in DOMAIN sites |-> Ordered(At(k))] /\ sites = Ordered(S)
    BY DEF RowsOf, SitesOf
<1>4. /\ \A k : At(k) \in SUBSET (1 .. n)
      /\ \A k : \A i \in DOMAIN rows : i \in At(k) <=> rows[i].site = sites[k]
    BY <1>1
<1>5. \A x \in S : \E i \in DOMAIN rows : rows[i].site = x
    OBVIOUS
<1>6. \A i \in DOMAIN rows : rows[i].site \in S
    OBVIOUS
<1> HIDE DEF f, S, parts, sites, At, n
<1>7. /\ IsVector(sites) /\ Range(sites) = S
      /\ \A i, j \in DOMAIN sites : i < j => sites[i] < sites[j]
    BY <1>1, <1>2, <1>3, OrderedNumbers
<1>8. m \in Nat /\ DOMAIN sites = 1 .. m /\ (\A k \in DOMAIN sites : sites[k] \in S) /\ \A x \in S : \E k \in DOMAIN sites : sites[k] = x
    BY <1>7, VectorOf DEF Range
<1> HIDE DEF m
<1>9. Distinct(sites)
  <2>1. \A k \in DOMAIN sites : sites[k] \in Int
    BY <1>2, <1>8
  <2> QED BY <1>7, <2>1, IncreasingDistinct
<1>10. DOMAIN parts = 1 .. m /\ \A k \in 1 .. m : parts[k] = Ordered(At(k))
    BY <1>3, <1>8
<1>11. IsVector(parts)
  <2>1. IsList(parts, m)
    BY <1>3, <1>8 DEF IsList
  <2> QED BY <1>8, <2>1, ListOf
<1>12. ASSUME NEW k \in 1 .. m
       PROVE  /\ IsVector(parts[k]) /\ Range(parts[k]) = At(k) /\ Distinct(parts[k]) /\ 1 \in DOMAIN parts[k]
              /\ \A j \in DOMAIN parts[k] : parts[k][j] \in DOMAIN rows /\ rows[parts[k][j]].site = sites[k]
  <2> DEFINE q == parts[k]
             A == At(k)
  <2>1. q = Ordered(A) /\ A \in SUBSET (1 .. n)
    BY <1>4, <1>10
  <2>2. A # {}
    <3>1. PICK i \in DOMAIN rows : rows[i].site = sites[k]
      BY <1>5, <1>8
    <3> QED BY <1>4, <3>1
  <2>3. \A i \in A : i \in DOMAIN rows /\ rows[i].site = sites[k]
    BY <1>1, <1>4
  <2> HIDE DEF q, A
  <2>4. IsVector(q) /\ Range(q) = A /\ \A i, j \in DOMAIN q : i < j => q[i] < q[j]
    BY <1>1, <2>1, OrderedPositions
  <2>5. (\A i \in DOMAIN q : q[i] \in A) /\ \E i \in DOMAIN q : TRUE
    BY <2>2, <2>4 DEF Range
  <2>6. Distinct(q)
    <3>1. \A x \in A : x \in Int
      BY <2>1
    <3>2. \A i \in DOMAIN q : q[i] \in Int
      BY <2>5, <3>1
    <3> QED BY <2>4, <3>2, IncreasingDistinct
  <2>7. 1 \in DOMAIN q
    BY <2>4, <2>5, VectorOf
  <2> QED BY <2>3, <2>4, <2>5, <2>6, <2>7 DEF q, A
<1>13. AllDistinct(parts)
  <2> SUFFICES ASSUME NEW k \in 1 .. m, NEW l \in 1 .. m, NEW i \in DOMAIN parts[k], NEW j \in DOMAIN parts[l],
                      parts[k][i] = parts[l][j]
               PROVE  k = l /\ i = j
    BY <1>10 DEF AllDistinct
  <2>1. sites[k] = sites[l]
    BY <1>12
  <2>2. k = l
    BY <1>8, <1>9, <2>1 DEF Distinct
  <2> QED BY <1>12, <2>2 DEF Distinct
<1>14. ASSUME NEW i \in 1 .. n PROVE \E k \in DOMAIN parts : \E j \in DOMAIN parts[k] : parts[k][j] = i
  <2>1. PICK k \in 1 .. m : sites[k] = rows[i].site
    BY <1>1, <1>6, <1>8
  <2>2. i \in At(k)
    BY <1>1, <1>4, <2>1
  <2>3. i \in Range(parts[k])
    BY <1>12, <2>2
  <2> QED BY <1>10, <2>3 DEF Range
<1>15. Partition(parts, n)
  <2>1. \A k \in DOMAIN parts : /\ IsVector(parts[k]) /\ 1 \in DOMAIN parts[k]
                                /\ \A j \in DOMAIN parts[k] : parts[k][j] \in 1 .. n
    BY <1>1, <1>10, <1>12
  <2> QED BY <1>11, <1>13, <1>14, <2>1 DEF Partition
<1> QED BY <1>7, <1>8, <1>10, <1>15 DEF parts, sites, n

\* Groups of the rows of a partition, each with one part or all in one.
LEMMA PartsOnce ==
    ASSUME NEW parts, NEW n \in Nat, Partition(parts, n), NEW gs, DOMAIN gs = DOMAIN parts,
           \A k \in DOMAIN gs : /\ DOMAIN gs[k].rows = DOMAIN parts[k]
                                /\ \A j \in DOMAIN parts[k] : gs[k].rows[j].row = parts[k][j]
    PROVE  Once(gs) /\ Written(gs, 1 .. n)
<1>1. Once(gs)
  <2> SUFFICES ASSUME NEW k \in DOMAIN gs, NEW l \in DOMAIN gs, NEW i \in DOMAIN gs[k].rows, NEW j \in DOMAIN gs[l].rows,
                      gs[k].rows[i].row = gs[l].rows[j].row
               PROVE  k = l /\ i = j
    BY DEF Once
  <2>1. parts[k][i] = parts[l][j] /\ i \in DOMAIN parts[k] /\ j \in DOMAIN parts[l]
    OBVIOUS
  <2> QED BY <2>1 DEF Partition, AllDistinct
<1>2. ASSUME NEW k \in DOMAIN gs, NEW i \in DOMAIN gs[k].rows PROVE gs[k].rows[i].row \in 1 .. n
    BY <1>2 DEF Partition
<1>3. ASSUME NEW x \in 1 .. n PROVE \E k \in DOMAIN gs : \E i \in DOMAIN gs[k].rows : gs[k].rows[i].row = x
  <2>1. PICK k \in DOMAIN parts : \E j \in DOMAIN parts[k] : parts[k][j] = x
    BY DEF Partition
  <2>2. PICK j \in DOMAIN parts[k] : parts[k][j] = x
    BY <2>1
  <2> QED BY <2>1, <2>2
<1> QED BY <1>1, <1>2, <1>3 DEF Written

LEMMA JoinedOnce ==
    ASSUME NEW parts, NEW n \in Nat, Partition(parts, n), NEW flat, flat = FlattenSeq(parts),
           NEW gs, DOMAIN gs = {1}, DOMAIN gs[1].rows = DOMAIN flat, \A j \in DOMAIN flat : gs[1].rows[j].row = flat[j]
    PROVE  Once(gs) /\ Written(gs, 1 .. n)
<1> DEFINE m == Len(parts)
<1>1. m \in Nat /\ DOMAIN parts = 1 .. m /\ IsList(parts, m)
    BY VectorOf DEF Partition
<1> HIDE DEF m
<1>2. \A k \in 1 .. m : IsVector(parts[k])
    BY <1>1 DEF Partition
<1>3. AllDistinct(parts)
    BY DEF Partition
<1>4. Distinct(flat)
    BY <1>1, <1>2, <1>3, FlattenDistinct
<1>5. \A j \in DOMAIN flat : \E k \in 1 .. m : \E i \in DOMAIN parts[k] : flat[j] = parts[k][i]
    BY <1>1, <1>2, FlattenMembers
<1>6. \A k \in 1 .. m : Has(flat, parts[k])
    BY <1>1, <1>2, FlattenHas
<1>7. Once(gs)
    BY <1>4 DEF Once, Distinct
<1>8. ASSUME NEW j \in DOMAIN flat PROVE flat[j] \in 1 .. n
    BY <1>1, <1>5 DEF Partition
<1>9. ASSUME NEW x \in 1 .. n PROVE \E j \in DOMAIN flat : flat[j] = x
  <2>1. PICK k \in DOMAIN parts : \E i \in DOMAIN parts[k] : parts[k][i] = x
    BY DEF Partition
  <2> QED BY <1>1, <1>6, <2>1 DEF Has
<1> QED BY <1>7, <1>8, <1>9 DEF Written

\* What a flattened list becomes, part by part.
FlatOf(g, ss, n) ==
    /\ FlattenSeq(ss) = g[n]
    /\ \A i \in 1 .. n : IsVector(g[i]) /\ g[i] = IF i = 1 THEN ss[i] ELSE g[i - 1] \o ss[i]

LEMMA FlatOfVectors ==
    ASSUME NEW n \in Nat, n # 0, NEW ss, IsList(ss, n), \A i \in 1 .. n : IsVector(ss[i])
    PROVE  \E g : FlatOf(g, ss, n)
<1> DEFINE T == UNION {Range(ss[i]) : i \in 1 .. n}
<1>2. \A i \in 1 .. n : ss[i] \in Seq(T)
  <2> SUFFICES ASSUME NEW i \in 1 .. n PROVE ss[i] \in Seq(T)
    OBVIOUS
  <2> DEFINE s == ss[i]
             R == Range(s)
  <2>1. s \in Seq(R) /\ \A x \in R : x \in T
    BY DEF IsVector
  <2> HIDE DEF s, R, T
  <2>2. Len(s) \in Nat /\ DOMAIN s = 1 .. Len(s) /\ \A k \in 1 .. Len(s) : s[k] \in T
    BY <2>1
  <2>3. s \in [1 .. Len(s) -> T]
    BY <2>1, <2>2
  <2>4. s \in Seq(T)
    BY <2>2, <2>3
  <2> QED BY <2>4 DEF s
<1> HIDE DEF T
<1>3. ss \in [1 .. n -> Seq(T)]
    BY <1>2 DEF IsList
<1>4. ss \in Seq(Seq(T)) /\ Len(ss) = n
    BY <1>3
<1>5. PICK g : IsFlat(g, ss) /\ FlattenSeq(ss) = g[n]
    BY <1>4, FlattenIs
<1>6. \A i \in 1 .. n : g[i] = IF i = 1 THEN ss[i] ELSE g[i - 1] \o ss[i]
    BY <1>4, <1>5, FlatSteps
<1>7. \A i \in 1 .. n : g[i] \in Seq(T)
    BY <1>4, <1>5, FlatType
<1>8. ASSUME NEW q \in Seq(T) PROVE IsVector(q)
  <2>1. Len(q) \in Nat /\ IsList(q, Len(q))
    BY DEF IsList
  <2> QED BY <2>1, ListOf
<1> QED BY <1>5, <1>6, <1>7, <1>8 DEF FlatOf

\* The list t has the rows of the list s.
SameRows(s, t) == DOMAIN s = DOMAIN t /\ \A j \in DOMAIN s : s[j].row = t[j]

\* Two lists one after the other.
LEMMA ConcatAt ==
    ASSUME NEW s, NEW t, IsVector(s), IsVector(t)
    PROVE  /\ DOMAIN (s \o t) = 1 .. Len(s) + Len(t)
           /\ \A i \in 1 .. Len(s) + Len(t) : (s \o t)[i] = IF i <= Len(s) THEN s[i] ELSE t[i - Len(s)]
<1> DEFINE U == Range(s) \cup Range(t)
<1>1. ASSUME NEW q, NEW Q, q \in Seq(Q), Q \subseteq U PROVE q \in Seq(U)
  <2> HIDE DEF U
  <2>1. Len(q) \in Nat /\ DOMAIN q = 1 .. Len(q) /\ q \in [1 .. Len(q) -> U]
    BY <1>1
  <2> QED BY <2>1
<1>2. s \in Seq(U) /\ t \in Seq(U)
    BY <1>1 DEF IsVector
<1> HIDE DEF U
<1> QED BY <1>2

LEMMA SameLength ==
    ASSUME NEW m \in Nat, NEW n \in Nat, 1 .. m = 1 .. n
    PROVE  m = n
<1>1. m \in 1 .. n \/ m = 0
    OBVIOUS
<1>2. n \in 1 .. m \/ n = 0
    OBVIOUS
<1> QED BY <1>1, <1>2

LEMMA ConcatRows ==
    ASSUME NEW s, NEW t, NEW u, NEW v, IsVector(s), IsVector(t), IsVector(u), IsVector(v),
           SameRows(s, t), SameRows(u, v)
    PROVE  SameRows(s \o u, t \o v)
<1> DEFINE m == Len(s)
           k == Len(u)
<1>1. /\ m \in Nat /\ k \in Nat
      /\ DOMAIN s = 1 .. m /\ DOMAIN u = 1 .. k /\ DOMAIN t = 1 .. Len(t) /\ DOMAIN v = 1 .. Len(v)
      /\ Len(t) \in Nat /\ Len(v) \in Nat
    BY VectorOf
<1>2. Len(t) = m /\ Len(v) = k
  <2>1. DOMAIN s = DOMAIN t /\ DOMAIN u = DOMAIN v
    BY DEF SameRows
  <2>2. 1 .. Len(t) = 1 .. m /\ 1 .. Len(v) = 1 .. k
    BY <1>1, <2>1
  <2> HIDE DEF m, k
  <2> QED BY <1>1, <2>2, SameLength
<1>3. DOMAIN (s \o u) = 1 .. m + k /\ \A i \in 1 .. m + k : (s \o u)[i] = IF i <= m THEN s[i] ELSE u[i - m]
    BY ConcatAt
<1>4. DOMAIN (t \o v) = 1 .. m + k /\ \A i \in 1 .. m + k : (t \o v)[i] = IF i <= m THEN t[i] ELSE v[i - m]
  <2>1. /\ DOMAIN (t \o v) = 1 .. Len(t) + Len(v)
        /\ \A i \in 1 .. Len(t) + Len(v) : (t \o v)[i] = IF i <= Len(t) THEN t[i] ELSE v[i - Len(t)]
    BY ConcatAt
  <2> HIDE DEF m, k
  <2> QED BY <1>2, <2>1
<1> DEFINE a == s \o u
           b == t \o v
<1> HIDE DEF m, k, a, b
<1>5. ASSUME NEW i \in 1 .. m + k PROVE a[i].row = b[i]
  <2>1. CASE i <= m
    <3>1. i \in DOMAIN s
      BY <1>1, <2>1
    <3>2. a[i] = s[i] /\ b[i] = t[i]
      BY <1>3, <1>4, <2>1 DEF a, b
    <3> QED BY <3>1, <3>2 DEF SameRows
  <2>2. CASE ~(i <= m)
    <3>1. i - m \in DOMAIN u
      BY <1>1, <2>2
    <3>2. a[i] = u[i - m] /\ b[i] = v[i - m]
      BY <1>3, <1>4, <2>2 DEF a, b
    <3> QED BY <3>1, <3>2 DEF SameRows
  <2> QED BY <2>1, <2>2
<1>6. DOMAIN a = 1 .. m + k /\ DOMAIN b = 1 .. m + k
    BY <1>3, <1>4 DEF a, b
<1>7. SameRows(a, b)
    BY <1>5, <1>6 DEF SameRows
<1> QED BY <1>7 DEF a, b

LEMMA FlattenRows ==
    ASSUME NEW n \in Nat, NEW ss, NEW tt, IsList(ss, n), IsList(tt, n),
           \A i \in 1 .. n : IsVector(ss[i]) /\ IsVector(tt[i]) /\ SameRows(ss[i], tt[i])
    PROVE  SameRows(FlattenSeq(ss), FlattenSeq(tt))
<1>1. CASE n = 0
  <2>1. ss = <<>> /\ tt = <<>>
    BY <1>1 DEF IsList
  <2>2. FlattenSeq(ss) = <<>> /\ FlattenSeq(tt) = <<>>
    BY <2>1, FlattenEmpty
  <2> QED BY <2>2 DEF SameRows
<1> SUFFICES ASSUME n # 0 PROVE SameRows(FlattenSeq(ss), FlattenSeq(tt))
    BY <1>1
<1>2. PICK f : FlatOf(f, ss, n)
    BY FlatOfVectors
<1>3. PICK g : FlatOf(g, tt, n)
    BY FlatOfVectors
<1> DEFINE N == {k \in Nat : k \in 1 .. n => SameRows(f[k], g[k])}
<1>4. 0 \in N
    OBVIOUS
<1>5. ASSUME NEW k \in Nat, k \in N PROVE k + 1 \in N
  <2> SUFFICES ASSUME k + 1 \in 1 .. n PROVE SameRows(f[k + 1], g[k + 1])
    OBVIOUS
  <2> DEFINE a == ss[k + 1]
             b == tt[k + 1]
  <2>1. IsVector(a) /\ IsVector(b) /\ SameRows(a, b)
    OBVIOUS
  <2>2. CASE k = 0
    <3>1. f[k + 1] = a /\ g[k + 1] = b
      BY <1>2, <1>3, <2>2 DEF FlatOf
    <3> QED BY <2>1, <3>1
  <2>3. CASE k # 0
    <3>1. k \in 1 .. n /\ k + 1 # 1 /\ k + 1 - 1 = k
      BY <2>3
    <3>2. f[k + 1] = f[k] \o a /\ g[k + 1] = g[k] \o b /\ IsVector(f[k]) /\ IsVector(g[k])
      <4> HIDE DEF a, b
      <4>1. k + 1 \in 1 .. n
        OBVIOUS
      <4>2. /\ f[k + 1] = IF k + 1 = 1 THEN a ELSE f[k + 1 - 1] \o a
            /\ g[k + 1] = IF k + 1 = 1 THEN b ELSE g[k + 1 - 1] \o b
        BY <1>2, <1>3, <4>1 DEF FlatOf, a, b
      <4>3. IsVector(f[k]) /\ IsVector(g[k])
        BY <1>2, <1>3, <3>1 DEF FlatOf
      <4> QED BY <3>1, <4>2, <4>3
    <3>3. SameRows(f[k], g[k])
      BY <1>5, <3>1
    <3> HIDE DEF a, b
    <3> QED BY <2>1, <3>2, <3>3, ConcatRows
  <2> QED BY <2>2, <2>3
<1> HIDE DEF N
<1>6. n \in N
    BY <1>4, <1>5, NatSetInduction
<1>7. SameRows(f[n], g[n])
    BY <1>6 DEF N
<1> QED BY <1>2, <1>3, <1>7 DEF FlatOf

LEMMA FlattenOne ==
    ASSUME NEW s, IsVector(s)
    PROVE  FlattenSeq(<<s>>) = s
<1> DEFINE ss == <<s>>
<1>1. IsList(ss, 1) /\ \A i \in 1 .. 1 : ss[i] = s
    BY DEF IsList
<1> HIDE DEF ss
<1>2. \A i \in 1 .. 1 : IsVector(ss[i])
    BY <1>1
<1>3. PICK g : FlatOf(g, ss, 1)
    BY <1>1, <1>2, FlatOfVectors
<1>4. FlattenSeq(ss) = s
    BY <1>1, <1>3 DEF FlatOf
<1> QED BY <1>4 DEF ss

LEMMA SitesIndexed ==
    ASSUME NEW rows, IsVector(rows), \A i \in DOMAIN rows : rows[i].site \in Int
    PROVE  /\ IsVector(index_sites(rows)) /\ DOMAIN index_sites(rows) = DOMAIN RowsOf(rows)
           /\ \A k \in DOMAIN RowsOf(rows) : index_sites(rows)[k].rows = RowsOf(rows)[k]
<1> DEFINE sites == SitesOf(rows)
           found == index_sites(rows)
           At(k) == Ordered({i \in DOMAIN rows : rows[i].site = sites[k]})
<1>1. found = [k \in DOMAIN sites |-> [site |-> sites[k], rows |-> At(k)]]
    BY DEF index_sites, Values, SitesOf
<1>2. RowsOf(rows) = [k \in DOMAIN sites |-> At(k)]
    BY DEF RowsOf
<1>3. IsVector(sites)
    BY RowsOfSites
<1> HIDE DEF sites, At, found
<1>4. IsList(found, Len(sites)) /\ Len(sites) \in Nat
    BY <1>1, <1>3, VectorOf DEF IsList
<1>5. IsVector(found)
    BY <1>4, ListOf
<1> QED BY <1>1, <1>2, <1>5 DEF found

\* The observations of a station are those of its rows.
LEMMA SiteObservations ==
    ASSUME NEW p, NEW e, NEW known, NEW rows, NEW site, NEW index, IsVector(site.rows),
           set_site_observations(p, e, known, rows, site, index).ok
    PROVE  LET obs == set_site_observations(p, e, known, rows, site, index).val
           IN  IsVector(obs) /\ SameRows(obs, site.rows)
<1> DEFINE values == All([k \in DOMAIN index |-> set_observation_value(e, known, rows[site.rows[1]], index[k])])
           n == Len(site.rows)
           Entry(i) == Then(values, LAMBDA vs : Ok([row |-> site.rows[i], data |-> vs]))
           rs == [i \in DOMAIN site.rows |-> Entry(i)]
           r == set_site_observations(p, e, known, rows, site, index)
<1>1. r = IF ~tz_known(p, e) THEN NoCode ELSE All(rs)
    BY DEF set_site_observations
<1>2. ~NoCode.ok
    BY DEF NoCode, Fail, Throw
<1> HIDE DEF values
<1>3. ASSUME NEW i PROVE Entry(i) = IF values.ok THEN Ok([row |-> site.rows[i], data |-> values.val]) ELSE values
    BY DEF Then
<1>4. n \in Nat /\ DOMAIN site.rows = 1 .. n
    BY VectorOf
<1> HIDE DEF Entry, n
<1>5. DOMAIN rs = 1 .. n /\ \A i \in 1 .. n : rs[i] = Entry(i)
    BY <1>4
<1> HIDE DEF rs
<1>6. r = All(rs) /\ All(rs).ok
    BY <1>1, <1>2
<1> HIDE DEF r
<1>7. All(rs) = Ok([i \in 1 .. n |-> rs[i].val]) /\ \A i \in 1 .. n : rs[i].ok
    BY <1>4, <1>5, <1>6, AllOk
<1> DEFINE obs == r.val
<1>8. obs = [i \in 1 .. n |-> rs[i].val]
    BY <1>6, <1>7 DEF Ok
<1>9. ASSUME NEW i \in 1 .. n PROVE rs[i].val.row = site.rows[i]
  <2>1. rs[i] = Ok([row |-> site.rows[i], data |-> values.val])
    BY <1>3, <1>5, <1>7
  <2> QED BY <2>1 DEF Ok
<1> HIDE DEF obs
<1>10. IsList(obs, n)
    BY <1>8 DEF IsList
<1>11. IsVector(obs)
    BY <1>4, <1>10, ListOf
<1>12. SameRows(obs, site.rows)
    BY <1>4, <1>8, <1>9 DEF SameRows
<1> QED BY <1>11, <1>12 DEF obs, r

\* The rows of a group are those of its stations, one after the other.
LEMMA GroupObservations ==
    ASSUME NEW p, NEW e, NEW index, NEW known, NEW g, IsVector(g.sites), \A k \in DOMAIN g.sites : IsVector(g.sites[k].rows),
           ObsGroup(p, e, index, known, g).ok
    PROVE  SameRows(ObsGroup(p, e, index, known, g).val.rows, FlattenSeq([k \in DOMAIN g.sites |-> g.sites[k].rows]))
<1> DEFINE Site(k) == set_site_observations(p, e, known, e.rows, g.sites[k], index)
           rs == [k \in DOMAIN g.sites |-> Site(k)]
           tt == [k \in DOMAIN g.sites |-> g.sites[k].rows]
           n == Len(g.sites)
           all == All(rs)
           r == ObsGroup(p, e, index, known, g)
           obs == all.val
<1>1. r = IF all.ok THEN Ok([ids |-> g.ids, rows |-> FlattenSeq(obs)]) ELSE all
    BY DEF ObsGroup, Then
<1>2. n \in Nat /\ DOMAIN g.sites = 1 .. n
    BY VectorOf
<1>3. \A k : Site(k) = set_site_observations(p, e, known, e.rows, g.sites[k], index)
    OBVIOUS
<1> HIDE DEF n, Site
<1>4. DOMAIN rs = 1 .. n /\ \A k \in 1 .. n : rs[k] = Site(k)
    BY <1>2
<1>5. DOMAIN tt = 1 .. n /\ IsList(tt, n) /\ \A k \in 1 .. n : tt[k] = g.sites[k].rows
    BY <1>2 DEF IsList
<1> HIDE DEF rs, r, all, tt
<1>6. all.ok /\ r = Ok([ids |-> g.ids, rows |-> FlattenSeq(obs)])
    BY <1>1 DEF r
<1>7. all = Ok([i \in 1 .. n |-> rs[i].val]) /\ \A i \in 1 .. n : rs[i].ok
    BY <1>2, <1>4, <1>6, AllOk DEF all
<1>8. obs = [i \in 1 .. n |-> rs[i].val]
    BY <1>7 DEF Ok
<1> HIDE DEF obs
<1>9. IsList(obs, n) /\ \A k \in 1 .. n : obs[k] = rs[k].val
    BY <1>8 DEF IsList
<1>10. ASSUME NEW k \in 1 .. n PROVE IsVector(obs[k]) /\ IsVector(tt[k]) /\ SameRows(obs[k], tt[k])
  <2>1. IsVector(g.sites[k].rows) /\ Site(k).ok /\ obs[k] = Site(k).val /\ tt[k] = g.sites[k].rows
    BY <1>2, <1>4, <1>5, <1>7, <1>9
  <2> DEFINE site == g.sites[k]
             found == set_site_observations(p, e, known, e.rows, site, index)
  <2>2. found.ok /\ obs[k] = found.val
    BY <1>3, <2>1
  <2>3. IsVector(found.val) /\ SameRows(found.val, site.rows)
    BY <2>1, <2>2, SiteObservations
  <2> QED BY <2>1, <2>2, <2>3
<1>11. SameRows(FlattenSeq(obs), FlattenSeq(tt))
    BY <1>2, <1>5, <1>9, <1>10, FlattenRows
<1>12. r.val.rows = FlattenSeq(obs)
    BY <1>6 DEF Ok
<1>13. SameRows(r.val.rows, FlattenSeq(tt))
    BY <1>11, <1>12
<1> QED BY <1>13 DEF r, tt

\* The groups of observations have every row once, whether the stations have
\* groups of their own or share one.
LEMMA ObsGroupsOnce ==
    ASSUME NEW hh, NEW p, NEW e, NEW index, NEW known, IsVector(e.rows), \A i \in DOMAIN e.rows : e.rows[i].site \in Int,
           ObsGroups(hh, p, e, index, known).ok
    PROVE  LET gs == ObsGroups(hh, p, e, index, known).val
           IN  Once(gs) /\ Written(gs, 1 .. Len(e.rows))
<1> DEFINE rows == e.rows
           sites == index_sites(rows)
           parts == RowsOf(rows)
           groups == assign_groups(hh, p, sites)
           m == Len(sites)
           n == Len(groups)
           Group(k) == ObsGroup(p, e, index, known, groups[k])
           rs == [k \in DOMAIN groups |-> Group(k)]
           gs == ObsGroups(hh, p, e, index, known).val
<1>1. Partition(parts, Len(rows)) /\ Len(rows) \in Nat
    BY RowsOfSites, VectorOf
<1>2. IsVector(sites) /\ DOMAIN sites = DOMAIN parts /\ \A k \in DOMAIN parts : sites[k].rows = parts[k]
    BY SitesIndexed
<1>3. \A k \in DOMAIN sites : IsVector(sites[k].rows)
    BY <1>1, <1>2 DEF Partition
<1>4. ObsGroups(hh, p, e, index, known) = All(rs)
    BY DEF ObsGroups
<1>5. ASSUME NEW k, Group(k).ok, IsVector(groups[k].sites), \A i \in DOMAIN groups[k].sites : IsVector(groups[k].sites[i].rows)
      PROVE  SameRows(Group(k).val.rows, FlattenSeq([i \in DOMAIN groups[k].sites |-> groups[k].sites[i].rows]))
    BY <1>5, GroupObservations
<1> HIDE DEF Group, gs
<1>6. m \in Nat /\ DOMAIN sites = 1 .. m
    BY <1>2, VectorOf
<1>7. CASE hh.separate_groups
  <2>1. /\ DOMAIN groups = DOMAIN sites
        /\ \A k \in DOMAIN sites : groups[k].sites = <<sites[k]>>
    BY <1>7 DEF assign_groups
  <2> HIDE DEF groups, sites, parts
  <2>2. DOMAIN rs = 1 .. m /\ \A k \in 1 .. m : rs[k] = Group(k)
    BY <1>6, <2>1
  <2> HIDE DEF rs
  <2>3. All(rs) = Ok([i \in 1 .. m |-> rs[i].val]) /\ \A i \in 1 .. m : rs[i].ok
    BY <1>4, <1>6, <2>2, AllOk
  <2>4. gs = [i \in 1 .. m |-> rs[i].val]
    BY <1>4, <2>3 DEF gs, Ok
  <2>5. ASSUME NEW k \in DOMAIN parts PROVE SameRows(gs[k].rows, parts[k])
    <3>1. k \in 1 .. m /\ Group(k).ok /\ gs[k] = Group(k).val /\ groups[k].sites = <<sites[k]>>
      BY <1>2, <1>6, <2>1, <2>2, <2>3, <2>4
    <3> DEFINE site == sites[k]
               own == <<site>>
               lists == [i \in DOMAIN own |-> own[i].rows]
    <3>2. IsVector(site.rows) /\ site.rows = parts[k]
      BY <1>2, <1>3
    <3>3. IsVector(own) /\ DOMAIN own = {1} /\ own[1] = site
      <4> HIDE DEF site
      <4>1. IsList(own, 1) /\ own[1] = site /\ DOMAIN own = {1}
        BY DEF IsList
      <4>2. 1 \in Nat
        OBVIOUS
      <4> QED BY <4>1, <4>2, ListOf
    <3>4. groups[k].sites = own
      BY <3>1
    <3>5. lists = <<site.rows>>
      <4> HIDE DEF site
      <4> QED OBVIOUS
    <3> HIDE DEF own, site
    <3>6. \A i \in DOMAIN own : IsVector(own[i].rows)
      BY <3>2, <3>3
    <3>7. SameRows(Group(k).val.rows, FlattenSeq(lists))
      BY <1>5, <3>1, <3>3, <3>4, <3>6
    <3> HIDE DEF lists
    <3>8. FlattenSeq(lists) = site.rows
      BY <3>2, <3>5, FlattenOne
    <3> QED BY <3>1, <3>2, <3>7, <3>8
  <2>6. DOMAIN gs = DOMAIN parts
    BY <1>2, <1>6, <2>4
  <2>7. \A k \in DOMAIN gs : DOMAIN gs[k].rows = DOMAIN parts[k] /\ \A j \in DOMAIN parts[k] : gs[k].rows[j].row = parts[k][j]
    BY <2>5, <2>6 DEF SameRows
  <2>8. Once(gs) /\ Written(gs, 1 .. Len(rows))
    <3> HIDE DEF rows
    <3> QED BY <1>1, <2>6, <2>7, PartsOnce
  <2> QED BY <2>8 DEF gs
<1>8. CASE ~hh.separate_groups /\ sites = <<>>
  <2>1. groups = <<>>
    BY <1>8 DEF assign_groups
  <2>2. DOMAIN rs = {} /\ m = 0
    BY <1>8, <2>1
  <2> HIDE DEF rs, groups, sites, parts, m
  <2>3. DOMAIN rs = 1 .. 0 /\ 0 \in Nat
    BY <2>2
  <2>4. All(rs) = Ok([i \in 1 .. 0 |-> rs[i].val])
    BY <1>4, <2>3, AllOk
  <2>5. gs = [i \in 1 .. 0 |-> rs[i].val]
    BY <1>4, <2>4 DEF gs, Ok
  <2>6. DOMAIN gs = DOMAIN parts /\ DOMAIN gs = {}
    BY <1>2, <1>6, <2>2, <2>5
  <2>7. \A k \in DOMAIN gs : DOMAIN gs[k].rows = DOMAIN parts[k] /\ \A j \in DOMAIN parts[k] : gs[k].rows[j].row = parts[k][j]
    BY <2>6
  <2>8. Once(gs) /\ Written(gs, 1 .. Len(rows))
    <3> HIDE DEF rows
    <3> QED BY <1>1, <2>6, <2>7, PartsOnce
  <2> QED BY <2>8 DEF gs
<1>9. CASE ~hh.separate_groups /\ sites # <<>>
  <2>1. DOMAIN groups = {1} /\ groups[1].sites = sites
    BY <1>9 DEF assign_groups
  <2> DEFINE lists == [i \in DOMAIN sites |-> sites[i].rows]
  <2>2. lists = parts
    <3>1. IsList(parts, m)
      <4>1. IsVector(parts) /\ DOMAIN parts = 1 .. m
        BY <1>1, <1>2, <1>6 DEF Partition
      <4>2. IsList(parts, Len(parts)) /\ Len(parts) \in Nat /\ DOMAIN parts = 1 .. Len(parts)
        BY <4>1, VectorOf
      <4> HIDE DEF parts, m
      <4>3. Len(parts) = m
        BY <1>6, <4>1, <4>2, SameLength
      <4> QED BY <4>2, <4>3
    <3> HIDE DEF parts, sites, m
    <3> QED BY <1>2, <1>6, <3>1 DEF IsList
  <2> HIDE DEF groups, sites, parts
  <2>3. DOMAIN rs = 1 .. 1 /\ rs[1] = Group(1) /\ 1 \in Nat
    BY <2>1
  <2> HIDE DEF rs
  <2>4. All(rs) = Ok([i \in 1 .. 1 |-> rs[i].val]) /\ \A i \in 1 .. 1 : rs[i].ok
    BY <1>4, <2>3, AllOk
  <2>5. gs = [i \in 1 .. 1 |-> rs[i].val] /\ Group(1).ok
    BY <1>4, <2>3, <2>4 DEF gs, Ok
  <2>6. DOMAIN gs = {1} /\ gs[1] = Group(1).val
    BY <2>3, <2>5
  <2> DEFINE own == groups[1].sites
  <2>7. own = sites
    BY <2>1
  <2>8. IsVector(own) /\ \A i \in DOMAIN own : IsVector(own[i].rows)
    BY <1>2, <1>3, <2>7
  <2>9. SameRows(Group(1).val.rows, FlattenSeq(lists))
    BY <1>5, <2>5, <2>7, <2>8
  <2> HIDE DEF lists
  <2> DEFINE flat == FlattenSeq(parts)
  <2>10. DOMAIN gs[1].rows = DOMAIN flat /\ \A j \in DOMAIN flat : gs[1].rows[j].row = flat[j]
    BY <2>2, <2>6, <2>9 DEF SameRows
  <2>11. Once(gs) /\ Written(gs, 1 .. Len(rows))
    <3> HIDE DEF rows
    <3> QED BY <1>1, <2>6, <2>10, JoinedOnce
  <2> QED BY <2>11 DEF gs
<1> QED BY <1>7, <1>8, <1>9

\* The lists of rows of the engines.
Numbered(rows) == IsVector(rows) /\ \A i \in DOMAIN rows : rows[i].num = i

LEMMA RowsNumbered ==
    ASSUME IInv
    PROVE  /\ Numbered(eng.rows) /\ Numbered(eng.levels) /\ Numbered(eng.strokes) /\ Numbered(eng.messages)
           /\ \A i \in DOMAIN eng.rows : eng.rows[i].site \in Int
           /\ IsVector(eng.db.memberships)
           /\ "places" \in registered[h.handler].other =>
                 IsVector(par["places"]) /\ \A i \in DOMAIN par["places"] : par["places"][i] \in Int
<1>1. /\ eng.rows \in Possible("rows") /\ eng.levels \in Possible("levels")
      /\ eng.strokes \in Possible("strokes") /\ eng.messages \in Possible("messages") /\ eng.db \in Possible("db")
    BY EnginesAssumption DEF IInv, InputsRight
<1>2. /\ Numbered(eng.rows) /\ Numbered(eng.levels) /\ Numbered(eng.strokes) /\ Numbered(eng.messages)
    BY <1>1, EnginesAssumption DEF Numbered
<1>3. (\A i \in DOMAIN eng.rows : eng.rows[i].site \in Int) /\ IsVector(eng.db.memberships)
    BY <1>1, EnginesAssumption
<1>4. DOMAIN par = DOMAIN Usual[h.handler]
    BY ParametersAssumption DEF IInv, InputsRight
<1>5. \A name \in DOMAIN par : IsVector(par[name]) /\ (name = "places" => \A i \in DOMAIN par[name] : par[name][i] \in Int)
    BY <1>4, ParametersAssumption DEF IInv, InputsRight
<1>6. "places" \in registered[h.handler].other => "places" \in DOMAIN par
    BY DEF IInv, InputsRight
<1> QED BY <1>2, <1>3, <1>5, <1>6

\* An answer whose groups have each row once, and the rows of the handlers
\* that have to write all of them.
LEMMA ResponseOnce ==
    ASSUME response.ok, Once(response.val.groups),
           h.handler = "obs" \/ (h.handler = "mast" /\ eng.found # <<>> /\ eng.profile) =>
               Written(response.val.groups, DOMAIN eng.rows)
    PROVE  RowsOnce
<1>1. \A p, q \in RowsAt : RowOf(p).row = RowOf(q).row => p = q
    BY OnceInResponse
<1>2. Written(response.val.groups, DOMAIN eng.rows) => {RowOf(p).row : p \in RowsAt} = DOMAIN eng.rows
    BY WrittenInResponse
<1> QED BY <1>1, <1>2 DEF RowsOnce

LEMMA NoAnswerOnce ==
    ASSUME ~response.ok PROVE RowsOnce
BY NoRowsWithoutAnswer DEF RowsOnce

\* Observations.
LEMMA ObsRowsOnce ==
    ASSUME IInv, h.handler = "obs", response.ok
    PROVE  RowsOnce
<1> DEFINE p == add_data_source_params(h, par)
           index == add_parameters(h, p, eng).val.index
           gs == response.val.groups
<1>1. response = Obs_query(h, par, eng) /\ Obs_query(h, par, eng).ok
    BY DEF IInv, Answered
<1>2. PICK box : Obs_answer(h, p, eng, index, box).ok /\ response = Obs_answer(h, p, eng, index, box)
    BY <1>1, ObsAnswer
<1> HIDE DEF p, index
<1>3. PICK known : ObsGroups(h, p, eng, index, known).ok /\ gs = ObsGroups(h, p, eng, index, known).val
    BY <1>2, ObsAnswerIs
<1>4. IsVector(eng.rows) /\ \A i \in DOMAIN eng.rows : eng.rows[i].site \in Int
    BY RowsNumbered DEF Numbered
<1>5. Once(gs) /\ Written(gs, 1 .. Len(eng.rows))
    BY <1>3, <1>4, ObsGroupsOnce
<1>6. DOMAIN eng.rows = 1 .. Len(eng.rows)
    BY <1>4, VectorOf
<1> QED BY <1>5, <1>6, ResponseOnce
-----------------------------------------------------------------------------
(* Rows cut into runs *)

\* Parts of the positions of a list, none in two of them.
Cut(parts, n) ==
    /\ AllDistinct(parts)
    /\ \A k \in DOMAIN parts : \A j \in DOMAIN parts[k] : parts[k][j] \in 1 .. n

LEMMA CutOnce ==
    ASSUME NEW n \in Nat, NEW parts, Cut(parts, n), NEW num, DOMAIN num = 1 .. n, Distinct(num),
           NEW gs, DOMAIN gs = DOMAIN parts,
           \A k \in DOMAIN gs : \A j \in DOMAIN gs[k].rows :
               j \in DOMAIN parts[k] /\ gs[k].rows[j].row = num[parts[k][j]]
    PROVE  Once(gs)
<1> SUFFICES ASSUME NEW k \in DOMAIN gs, NEW l \in DOMAIN gs, NEW i \in DOMAIN gs[k].rows, NEW j \in DOMAIN gs[l].rows,
                    gs[k].rows[i].row = gs[l].rows[j].row
             PROVE  k = l /\ i = j
    BY DEF Once
<1>1. /\ i \in DOMAIN parts[k] /\ j \in DOMAIN parts[l] /\ num[parts[k][i]] = num[parts[l][j]]
    OBVIOUS
<1>2. parts[k][i] \in 1 .. n /\ parts[l][j] \in 1 .. n
    BY <1>1 DEF Cut
<1>3. parts[k][i] = parts[l][j]
    BY <1>1, <1>2 DEF Distinct
<1> QED BY <1>1, <1>3 DEF Cut, AllDistinct

\* Runs are such parts.
LEMMA RunsCut ==
    ASSUME NEW rows, IsVector(rows), NEW starts, starts \subseteq DOMAIN rows, 1 \in DOMAIN rows => 1 \in starts
    PROVE  /\ Partition(RunsOf(starts, Len(rows)), Len(rows)) /\ Cut(RunsOf(starts, Len(rows)), Len(rows))
           /\ Len(rows) \in Nat
<1> DEFINE n == Len(rows)
           runs == RunsOf(starts, n)
<1>1. n \in Nat /\ DOMAIN rows = 1 .. n
    BY VectorOf
<1> HIDE DEF n
<1>2. starts \in SUBSET (1 .. n) /\ (n # 0 => 1 \in starts)
    BY <1>1
<1> HIDE DEF runs
<1>3. Partition(runs, n)
    BY <1>1, <1>2, RunsPartition DEF runs
<1>4. Cut(runs, n)
    BY <1>3 DEF Partition, Cut
<1> QED BY <1>1, <1>3, <1>4 DEF runs, n

\* What is picked from a list of numbered rows has numbers of its own.
LEMMA PickedNumbers ==
    ASSUME NEW s, Numbered(s), NEW S, S \subseteq DOMAIN s, NEW q, q = Picked(s, S)
    PROVE  /\ IsVector(q)
           /\ Distinct([m \in DOMAIN q |-> q[m].num])
<1> DEFINE n == Len(s)
           at == Ordered(S)
<1>1. IsVector(s) /\ n \in Nat /\ DOMAIN s = 1 .. n
    BY VectorOf DEF Numbered
<1>2. q = [m \in DOMAIN at |-> s[at[m]]]
    BY DEF Picked
<1> HIDE DEF n
<1>3. S \in SUBSET (1 .. n)
    BY <1>1
<1>4. /\ IsVector(at) /\ Range(at) = S /\ \A i, j \in DOMAIN at : i < j => at[i] < at[j]
    BY <1>1, <1>3, OrderedPositions
<1>5. IsVector(q)
    BY <1>1, <1>3, PickedMembers
<1> HIDE DEF at
<1>6. \A m \in DOMAIN at : at[m] \in S
    BY <1>4 DEF Range
<1>7. \A m \in DOMAIN at : at[m] \in Int
    BY <1>3, <1>6
<1>8. Distinct(at)
    BY <1>4, <1>7, IncreasingDistinct
<1>9. \A m \in DOMAIN at : s[at[m]].num = at[m]
    BY <1>6 DEF Numbered
<1>10. DOMAIN q = DOMAIN at /\ \A m \in DOMAIN at : q[m].num = at[m]
    BY <1>2, <1>9
<1>11. Distinct([m \in DOMAIN q |-> q[m].num])
    BY <1>8, <1>10 DEF Distinct
<1> QED BY <1>5, <1>11

\* Profiles of masts.
MastGroups(p, e, stations, params) ==
    IF stations = <<>> \/ ~e.profile THEN Ok(<<>>)
    ELSE IF e.fails THEN NoCode
    ELSE fill_mast_data(e, stations, params)

LEMMA MastAnswer ==
    ASSUME NEW hh, NEW p, NEW e, Mast_query(hh, p, e).ok
    PROVE  \E params : /\ MastGroups(p, e, e.found, params).ok
                       /\ Mast_query(hh, p, e).val.groups = MastGroups(p, e, e.found, params).val
<1> DEFINE cs == find_stations(p, e)
           cp == get_meteo_parameters(hh, p, e)
           c1 == Singles(p, {"stationtype", "maxdistance", "numofstations", "missingtext", "crs"})
           c2 == create_transformation(output_crs(p), e)
           c3 == get_location_options(p, e)
           c4 == Singles(p, {"begintime", "endtime", "timestep", "maxepochs"})
           c5 == IF hh.restrictions THEN check_time_interval(p["begintime"][1], p["endtime"][1], hh.max_hours) ELSE Ok(0)
           c6 == check_time_step(p["timestep"][1])
           c7 == IF hh.restrictions THEN check_max_epochs(p) ELSE Ok(0)
           gs == MastGroups(p, e, cs.val, cp.val)
           answer == [begin |-> p["begintime"][1], end |-> p["endtime"][1], box |-> p["bbox"], groups |-> gs.val]
           out == format_output(e, answer)
           last == IF gs.ok THEN out ELSE gs
           r8 == IF e.registry THEN last ELSE ProcessingFailed
           r7 == IF c7.ok THEN r8 ELSE c7
           r6 == IF c6.ok THEN r7 ELSE c6
           r5 == IF c5.ok THEN r6 ELSE c5
           r4 == IF c4.ok THEN r5 ELSE c4
           rp == IF cp.ok THEN r4 ELSE cp
           checked == Checked(<< <<p["producers"] = <<>>, "OperationProcessingFailed">> >>, rp)
           rs == IF cs.ok THEN checked ELSE cs
           r3 == IF c3.ok THEN rs ELSE c3
           r2 == IF c2.ok THEN r3 ELSE c2
           r1 == IF c1.ok THEN r2 ELSE c1
<1>1. Mast_query(hh, p, e) = Guarded(r1)
    BY DEF Mast_query, Then, dbRegistryConfig, Mast_answer, MastGroups
<1>2. ~NoCode.ok /\ (\A code : ~Fail(code).ok) /\ ~ProcessingFailed.ok
    BY DEF NoCode, Fail, Throw, ProcessingFailed
<1>3. cs.ok => cs.val = e.found
  <2>1. cs = IF transformed_box(p, e).ok THEN IF e.fails THEN NoCode ELSE Ok(e.found) ELSE transformed_box(p, e)
    BY DEF find_stations, Then
  <2> HIDE DEF cs
  <2> QED BY <1>2, <2>1 DEF Ok
<1> HIDE DEF cs, cp, c1, c2, c3, c4, c5, c6, c7, gs, out, checked
<1>4. r1.ok /\ Mast_query(hh, p, e) = r1
    BY <1>1, <1>2 DEF Guarded, WithCode
<1>5. r1 = checked /\ checked.ok /\ cs.ok
    BY <1>4
<1>6. checked = rp
  <2> HIDE DEF rp
  <2>1. checked = Checked(<< <<p["producers"] = <<>>, "OperationProcessingFailed">> >>, rp)
    BY DEF checked
  <2> QED BY <1>5, <2>1, OneCheck
<1>7. rp = out /\ out.ok /\ gs.ok
    BY <1>2, <1>5, <1>6
<1>8. out = Ok(answer)
    BY <1>2, <1>7 DEF format_output, out
<1>9. out.val.groups = gs.val
    BY <1>8 DEF Ok
<1>10. gs = MastGroups(p, e, e.found, cp.val)
    BY <1>3, <1>5 DEF gs
<1> QED BY <1>4, <1>5, <1>6, <1>7, <1>9, <1>10

\* Each run of rows is a group.
LEMMA MastData ==
    ASSUME NEW e, NEW stations, NEW params, IsVector(e.rows), fill_mast_data(e, stations, params).ok
    PROVE  LET gs == fill_mast_data(e, stations, params).val
           IN  Once(gs) /\ Written(gs, DOMAIN e.rows)
<1> DEFINE rows == e.rows
           n == Len(rows)
           Key(r) == <<r.site, r.measurand, r.time>>
           starts == {i \in DOMAIN rows : i = 1 \/ Key(rows[i]) # Key(rows[i - 1])}
           runs == RunsOf(starts, n)
           First(k) == rows[runs[k][1]]
           asked(k) == {j \in 1 .. k : First(j).measurand \in DOMAIN params}
           shown(k) == IF asked(k) = {} THEN {}
                       ELSE params[First(CHOOSE j \in asked(k) : \A i \in asked(k) : i <= j).measurand]
           unknown == \E k \in DOMAIN runs : First(k).site \notin ToSet(stations)
           Group(k) == [ids |-> [feature_id |-> <<First(k).site, First(k).time, First(k).measurand>>],
                        rows |-> [i \in DOMAIN runs[k] |-> [row |-> runs[k][i], data |-> shown(k)]]]
           all == [k \in DOMAIN runs |-> Group(k)]
           r == fill_mast_data(e, stations, params)
<1>1. Runs(rows, Key) = runs
    BY DEF Runs, RunsOf
<1>2. r = IF unknown THEN NoCode ELSE Ok(all)
    BY <1>1 DEF fill_mast_data
<1>3. ~NoCode.ok
    BY DEF NoCode, Fail, Throw
<1>4. Partition(runs, n) /\ n \in Nat
  <2>1. starts \subseteq DOMAIN rows /\ (1 \in DOMAIN rows => 1 \in starts)
    OBVIOUS
  <2> HIDE DEF starts, rows
  <2> QED BY <2>1, RunsCut DEF rows
<1> HIDE DEF unknown, runs, shown, r
<1>5. r.val = all
  <2> HIDE DEF all
  <2> QED BY <1>2, <1>3 DEF Ok, r
<1>6. DOMAIN all = DOMAIN runs
    OBVIOUS
<1>7. \A k \in DOMAIN all : /\ DOMAIN all[k].rows = DOMAIN runs[k]
                            /\ \A j \in DOMAIN runs[k] : all[k].rows[j].row = runs[k][j]
    OBVIOUS
<1> HIDE DEF all
<1>8. Once(all) /\ Written(all, 1 .. n)
    BY <1>4, <1>6, <1>7, PartsOnce
<1>9. DOMAIN rows = 1 .. n
    BY VectorOf
<1> QED BY <1>5, <1>8, <1>9 DEF r

LEMMA MastRowsOnce ==
    ASSUME IInv, h.handler = "mast", response.ok
    PROVE  RowsOnce
<1> DEFINE gs == response.val.groups
<1>1. response = Mast_query(h, par, eng) /\ Mast_query(h, par, eng).ok
    BY DEF IInv, Answered
<1>2. PICK params : MastGroups(par, eng, eng.found, params).ok /\ gs = MastGroups(par, eng, eng.found, params).val
    BY <1>1, MastAnswer
<1>3. IsVector(eng.rows)
    BY RowsNumbered DEF Numbered
<1> HIDE DEF gs
<1>4. CASE eng.found = <<>> \/ ~eng.profile
  <2>1. gs = <<>>
    BY <1>2, <1>4 DEF MastGroups, Ok
  <2>2. Once(gs)
    BY <2>1 DEF Once
  <2> QED BY <1>4, <2>2, ResponseOnce DEF gs
<1>5. CASE ~(eng.found = <<>> \/ ~eng.profile)
  <2>1. ~NoCode.ok
    BY DEF NoCode, Fail, Throw
  <2>2. MastGroups(par, eng, eng.found, params) = fill_mast_data(eng, eng.found, params)
    BY <1>2, <1>5, <2>1 DEF MastGroups
  <2>3. fill_mast_data(eng, eng.found, params).ok /\ gs = fill_mast_data(eng, eng.found, params).val
    BY <1>2, <2>2
  <2>4. Once(gs) /\ Written(gs, DOMAIN eng.rows)
    BY <1>3, <2>3, MastData
  <2> QED BY <2>4, ResponseOnce DEF gs
<1> QED BY <1>4, <1>5

\* Analyses of nuclides: the runs before the first one of an unknown station.
LEMMA NuclideAnswer ==
    ASSUME NEW hh, NEW p, NEW e, AirNuclide_query(hh, p, e).ok
    PROVE  LET gs == AirNuclide_query(hh, p, e).val.groups
           IN  gs = <<>> \/ \E stations, ids : gs = fill_analyses(e, stations, ids)
<1> DEFINE cs == find_stations(p, e)
           c1 == Singles(p, {"stationtype", "maxdistance", "numofstations", "crs", "latest"})
           c2 == All([i \in DOMAIN p["nuclides"] |-> prepare_nuclide(p["nuclides"][i])])
           c3 == create_transformation(output_crs(p), e)
           c4 == get_location_options(p, e)
           c5 == Singles(p, {"begintime", "endtime", "timestep"})
           c6 == IF hh.restrictions THEN check_time_interval(p["begintime"][1], p["endtime"][1], hh.max_hours) ELSE Ok(0)
           c7 == check_time_step(p["timestep"][1])
           cn == get_nuclide_names(e)
           ids == add_analysis_ids(p, e.rows)
           filled == Ok(fill_analyses(e, cs.val, ids))
           gs == IF cs.val = <<>> \/ ~e.profile THEN Ok(<<>>) ELSE IF cn.ok THEN filled ELSE cn
           answer == [begin |-> p["begintime"][1], end |-> p["endtime"][1], box |-> p["bbox"], groups |-> gs.val]
           out == format_output(e, answer)
           last == IF gs.ok THEN out ELSE gs
           checked == Checked(<< <<e.ids["AC_P7D_avg"] = 0, "InvalidParameterValue">> >>, last)
           r8 == IF e.registry THEN checked ELSE ProcessingFailed
           rs == IF cs.ok THEN r8 ELSE cs
           r7 == IF c7.ok THEN rs ELSE c7
           r6 == IF c6.ok THEN r7 ELSE c6
           r5 == IF c5.ok THEN r6 ELSE c5
           r4 == IF c4.ok THEN r5 ELSE c4
           r3 == IF c3.ok THEN r4 ELSE c3
           r2 == IF c2.ok THEN r3 ELSE c2
           r1 == IF c1.ok THEN r2 ELSE c1
           query == AirNuclide_query(hh, p, e)
<1>1. query = Guarded(r1)
    BY DEF AirNuclide_query, Then, dbRegistryConfig, AirNuclide_answer
<1>2. ~NoCode.ok /\ (\A code : ~Fail(code).ok) /\ ~ProcessingFailed.ok
    BY DEF NoCode, Fail, Throw, ProcessingFailed
<1> HIDE DEF cs, c1, c2, c3, c4, c5, c6, c7, gs, out, checked, query
<1>3. r1.ok /\ query = r1
    BY <1>1, <1>2 DEF Guarded, WithCode, query
<1>4. r1 = checked /\ checked.ok
    BY <1>2, <1>3
<1>5. checked = last
  <2> HIDE DEF last
  <2>1. checked = Checked(<< <<e.ids["AC_P7D_avg"] = 0, "InvalidParameterValue">> >>, last)
    BY DEF checked
  <2> QED BY <1>4, <2>1, OneCheck
<1>6. last = out /\ out.ok /\ gs.ok
    BY <1>4, <1>5
<1>7. out = Ok(answer)
    BY <1>2, <1>6 DEF format_output, out
<1>8. query.val.groups = gs.val
  <2>1. query = out
    <3> HIDE DEF r1, last
    <3> QED BY <1>3, <1>4, <1>5, <1>6
  <2> QED BY <1>7, <2>1 DEF Ok
<1>9. gs.val = <<>> \/ gs.val = fill_analyses(e, cs.val, ids)
  <2> HIDE DEF ids
  <2>1. CASE cs.val = <<>> \/ ~e.profile
    BY <2>1 DEF gs, Ok
  <2>2. CASE ~(cs.val = <<>> \/ ~e.profile)
    <3> HIDE DEF cn
    <3>1. gs = IF cn.ok THEN filled ELSE cn
      BY <2>2 DEF gs
    <3>2. gs = filled
      <4> HIDE DEF filled
      <4> QED BY <1>6, <3>1
    <3> QED BY <3>2 DEF Ok
  <2> QED BY <2>1, <2>2
<1> QED BY <1>8, <1>9 DEF query

\* The first parts.
LEMMA FirstParts ==
    ASSUME NEW n \in Nat, NEW runs, IsVector(runs), Cut(runs, n), NEW c \in DOMAIN runs,
           NEW kept, kept = SubSeq(runs, 1, c - 1)
    PROVE  Cut(kept, n)
<1> DEFINE m == Len(runs)
<1>1. runs \in Seq(Range(runs)) /\ m \in Nat /\ DOMAIN runs = 1 .. m
    BY DEF IsVector
<1>2. DOMAIN kept = 1 .. c - 1 /\ \A k \in 1 .. c - 1 : kept[k] = runs[k]
  <2> DEFINE T == Range(runs)
  <2> HIDE DEF T
  <2>1. runs \in Seq(T) /\ c \in 1 .. Len(runs)
    BY <1>1 DEF T
  <2> QED BY <2>1
<1> HIDE DEF m
<1>3. \A k \in DOMAIN kept : k \in DOMAIN runs /\ kept[k] = runs[k]
    BY <1>1, <1>2
<1>4. AllDistinct(kept)
  <2> SUFFICES ASSUME NEW i \in DOMAIN kept, NEW k \in DOMAIN kept, NEW j \in DOMAIN kept[i], NEW l \in DOMAIN kept[k],
                      kept[i][j] = kept[k][l]
               PROVE  i = k /\ j = l
    BY DEF AllDistinct
  <2>1. /\ i \in DOMAIN runs /\ k \in DOMAIN runs /\ j \in DOMAIN runs[i] /\ l \in DOMAIN runs[k]
        /\ runs[i][j] = runs[k][l]
    BY <1>3
  <2> QED BY <2>1 DEF Cut, AllDistinct
<1> QED BY <1>3, <1>4 DEF Cut

\* The groups of the runs of rows.
AnalysisGroups(rows, runs, stations) ==
    LET unknown == {k \in DOMAIN runs : rows[runs[k][1]].site \notin ToSet(stations)}
        kept == IF unknown = {} THEN runs ELSE SubSeq(runs, 1, (CHOOSE k \in unknown : \A j \in unknown : k <= j) - 1)
    IN  [k \in DOMAIN kept |->
            [ids |-> [feature_id |-> <<rows[kept[k][1]].site, rows[kept[k][1]].time, rows[kept[k][1]].analysis>>],
             rows |-> [i \in DOMAIN kept[k] |-> [row |-> rows[kept[k][i]].num, data |-> {}]]]]

LEMMA AnalysesOnce ==
    ASSUME NEW e, NEW stations, NEW ids, Numbered(e.rows)
    PROVE  Once(fill_analyses(e, stations, ids))
<1> DEFINE at == {i \in DOMAIN e.rows : e.rows[i].analysis \in ids}
           rows == Picked(e.rows, at)
           n == Len(rows)
           Key(r) == r.analysis
           starts == {i \in DOMAIN rows : i = 1 \/ Key(rows[i]) # Key(rows[i - 1])}
           runs == RunsOf(starts, n)
           unknown == {k \in DOMAIN runs : rows[runs[k][1]].site \notin ToSet(stations)}
           c == CHOOSE k \in unknown : \A j \in unknown : k <= j
           kept == IF unknown = {} THEN runs ELSE SubSeq(runs, 1, c - 1)
           Group(k) == [ids |-> [feature_id |-> <<rows[kept[k][1]].site, rows[kept[k][1]].time, rows[kept[k][1]].analysis>>],
                        rows |-> [i \in DOMAIN kept[k] |-> [row |-> rows[kept[k][i]].num, data |-> {}]]]
           gs == [k \in DOMAIN kept |-> Group(k)]
           num == [m \in DOMAIN rows |-> rows[m].num]
<1>1. Runs(rows, Key) = runs
    BY DEF Runs, RunsOf
<1>2. fill_analyses(e, stations, ids) = gs
  <2>1. fill_analyses(e, stations, ids) = AnalysisGroups(rows, Runs(rows, Key), stations)
    BY DEF fill_analyses, AnalysisGroups
  <2> HIDE DEF rows
  <2>2. Runs(rows, Key) = runs
    BY <1>1
  <2> HIDE DEF runs
  <2>3. fill_analyses(e, stations, ids) = AnalysisGroups(rows, runs, stations)
    <3> DEFINE cut == Runs(rows, Key)
    <3>1. fill_analyses(e, stations, ids) = AnalysisGroups(rows, cut, stations) /\ cut = runs
      BY <2>1, <2>2
    <3> HIDE DEF cut
    <3> QED BY <3>1
  <2> QED BY <2>3 DEF AnalysisGroups
<1>3. IsVector(rows) /\ Distinct(num)
  <2>1. at \subseteq DOMAIN e.rows
    OBVIOUS
  <2> HIDE DEF at
  <2> QED BY <2>1, PickedNumbers
<1> HIDE DEF rows
<1>4. Partition(runs, n) /\ Cut(runs, n) /\ n \in Nat
  <2>1. starts \subseteq DOMAIN rows /\ (1 \in DOMAIN rows => 1 \in starts)
    OBVIOUS
  <2> HIDE DEF starts
  <2> QED BY <1>3, <2>1, RunsCut
<1>5. unknown \subseteq DOMAIN runs
    OBVIOUS
<1> HIDE DEF runs, unknown
<1>6. Cut(kept, n)
  <2>1. CASE unknown = {}
    BY <1>4, <2>1
  <2>2. CASE unknown # {}
    <3>1. IsVector(runs) /\ unknown \subseteq Nat
      <4>1. IsVector(runs)
        BY <1>4 DEF Partition
      <4>2. Len(runs) \in Nat /\ DOMAIN runs = 1 .. Len(runs)
        BY <4>1, VectorOf
      <4> QED BY <1>5, <4>1, <4>2
    <3>2. c \in unknown
      BY <2>2, <3>1, LeastNumber
    <3> DEFINE first == SubSeq(runs, 1, c - 1)
    <3> HIDE DEF c
    <3>3. Cut(first, n)
      BY <1>4, <1>5, <3>1, <3>2, FirstParts
    <3> HIDE DEF first
    <3>4. kept = first
      BY <2>2 DEF first, kept, c
    <3> QED BY <3>3, <3>4
  <2> QED BY <2>1, <2>2
<1> HIDE DEF kept, n
<1>7. DOMAIN num = 1 .. n
    BY <1>3, VectorOf DEF n
<1>8. DOMAIN gs = DOMAIN kept
    OBVIOUS
<1>9. \A k \in DOMAIN gs : \A j \in DOMAIN gs[k].rows : j \in DOMAIN kept[k] /\ gs[k].rows[j].row = rows[kept[k][j]].num
    OBVIOUS
<1>10. \A k \in DOMAIN gs : \A j \in DOMAIN gs[k].rows : j \in DOMAIN kept[k] /\ gs[k].rows[j].row = num[kept[k][j]]
  <2>1. \A k \in DOMAIN kept : \A j \in DOMAIN kept[k] : kept[k][j] \in DOMAIN rows
    BY <1>6, <1>7 DEF Cut
  <2> HIDE DEF gs
  <2> QED BY <1>8, <1>9, <2>1
<1> HIDE DEF gs, num
<1>11. Once(gs)
    BY <1>3, <1>4, <1>6, <1>7, <1>8, <1>10, CutOnce
<1> QED BY <1>2, <1>11

LEMMA NuclideRowsOnce ==
    ASSUME IInv, h.handler = "nuclide", response.ok
    PROVE  RowsOnce
<1> DEFINE gs == response.val.groups
<1>1. response = AirNuclide_query(h, par, eng) /\ AirNuclide_query(h, par, eng).ok
    BY DEF IInv, Answered
<1>2. gs = <<>> \/ \E stations, ids : gs = fill_analyses(eng, stations, ids)
    BY <1>1, NuclideAnswer
<1>3. Numbered(eng.rows)
    BY RowsNumbered
<1> HIDE DEF gs
<1>4. gs = <<>> => Once(gs)
    BY DEF Once
<1>5. (\E stations, ids : gs = fill_analyses(eng, stations, ids)) => Once(gs)
    BY <1>3, AnalysesOnce
<1>6. Once(gs)
    BY <1>2, <1>4, <1>5
<1> QED BY <1>6, ResponseOnce DEF gs

LEMMA OneGroupOnce ==
    ASSUME NEW gs, DOMAIN gs = {1},
           \A i, j \in DOMAIN gs[1].rows : gs[1].rows[i].row = gs[1].rows[j].row => i = j
    PROVE  Once(gs)
BY DEF Once

LEMMA NoGroupOnce == Once(<<>>)
BY DEF Once

LEMMA ResponseGroupsOnce ==
    ASSUME response.ok, Once(response.val.groups), h.handler \notin {"obs", "mast"}
    PROVE  RowsOnce
<1>1. h.handler # "obs" /\ h.handler # "mast"
    OBVIOUS
<1> QED BY <1>1, ResponseOnce

\* Networks of stations: the runs, or those behind the first.
Later(kept, runs) == runs # <<>> /\ kept = Tail(runs)
Among(kept, runs) == \A k \in DOMAIN kept : \E l \in DOMAIN runs : kept[k] = runs[l]

LEMMA LaterParts ==
    ASSUME NEW n \in Nat, NEW runs, IsVector(runs), Cut(runs, n), NEW kept, Later(kept, runs)
    PROVE  Cut(kept, n) /\ Among(kept, runs)
<1> DEFINE m == Len(runs)
           T == Range(runs)
<1>1. runs \in Seq(T)
    BY DEF IsVector
<1> HIDE DEF T
<1>2. m \in Nat /\ DOMAIN runs = 1 .. m /\ DOMAIN kept = 1 .. m - 1 /\ \A k \in 1 .. m - 1 : kept[k] = runs[k + 1]
    BY <1>1 DEF Later
<1> HIDE DEF m
<1>3. \A k \in DOMAIN kept : k \in Int /\ k + 1 \in DOMAIN runs /\ kept[k] = runs[k + 1]
    BY <1>2
<1>4. AllDistinct(kept)
  <2> SUFFICES ASSUME NEW i \in DOMAIN kept, NEW k \in DOMAIN kept, NEW j \in DOMAIN kept[i], NEW l \in DOMAIN kept[k],
                      kept[i][j] = kept[k][l]
               PROVE  i = k /\ j = l
    BY DEF AllDistinct
  <2> DEFINE a == i + 1
             b == k + 1
  <2>1. /\ a \in DOMAIN runs /\ b \in DOMAIN runs /\ j \in DOMAIN runs[a] /\ l \in DOMAIN runs[b]
        /\ runs[a][j] = runs[b][l]
    BY <1>3
  <2>2. i \in Int /\ k \in Int
    BY <1>3
  <2> HIDE DEF a, b
  <2>3. a = b /\ j = l
    BY <2>1 DEF Cut, AllDistinct
  <2> QED BY <2>2, <2>3 DEF a, b
<1>5. \A k \in DOMAIN kept : \A j \in DOMAIN kept[k] : kept[k][j] \in 1 .. n
    BY <1>3 DEF Cut
<1>6. Cut(kept, n)
    BY <1>4, <1>5 DEF Cut
<1> QED BY <1>3, <1>6 DEF Among

NetworkGroups(rows, runs) ==
    LET kept == IF runs # <<>> /\ rows[1].group = 0 THEN Tail(runs) ELSE runs
    IN  [k \in DOMAIN kept |->
            [ids |-> [feature_id |-> rows[kept[k][1]].group],
             rows |-> <<[row |-> kept[k][1], data |-> rows[kept[k][1]].group]>>]]

LEMMA NetworksOnce ==
    ASSUME NEW e, IsVector(e.db.memberships)
    PROVE  Once(fill_networks(e))
<1> DEFINE rows == e.db.memberships
           n == Len(rows)
           Key(r) == r.group
           starts == {i \in DOMAIN rows : i = 1 \/ Key(rows[i]) # Key(rows[i - 1])}
           runs == RunsOf(starts, n)
           cut == Runs(rows, Key)
           kept == IF runs # <<>> /\ rows[1].group = 0 THEN Tail(runs) ELSE runs
           Group(k) == [ids |-> [feature_id |-> rows[kept[k][1]].group],
                        rows |-> <<[row |-> kept[k][1], data |-> rows[kept[k][1]].group]>>]
           gs == [k \in DOMAIN kept |-> Group(k)]
           num == [i \in 1 .. n |-> i]
<1>1. cut = runs
    BY DEF Runs, RunsOf
<1>2. fill_networks(e) = IF ~e.db.aligned THEN <<>> ELSE NetworkGroups(rows, cut)
    BY DEF fill_networks, NetworkGroups
<1>3. IsVector(rows)
    OBVIOUS
<1> HIDE DEF rows, cut
<1>4. Partition(runs, n) /\ Cut(runs, n) /\ n \in Nat
  <2>1. starts \subseteq DOMAIN rows /\ (1 \in DOMAIN rows => 1 \in starts)
    OBVIOUS
  <2> HIDE DEF starts
  <2> QED BY <1>3, <2>1, RunsCut
<1> HIDE DEF runs, n
<1>5. NetworkGroups(rows, cut) = gs
  <2>1. NetworkGroups(rows, runs) = gs
    BY DEF NetworkGroups
  <2> QED BY <1>1, <2>1
<1>6. IsVector(runs) /\ \A k \in DOMAIN runs : 1 \in DOMAIN runs[k]
    BY <1>4 DEF Partition
<1>7. Cut(kept, n) /\ \A k \in DOMAIN kept : 1 \in DOMAIN kept[k]
  <2>1. CASE runs # <<>> /\ rows[1].group = 0
    <3>1. Later(kept, runs)
      BY <2>1 DEF Later
    <3> HIDE DEF kept
    <3>2. Cut(kept, n) /\ Among(kept, runs)
      BY <1>4, <1>6, <3>1, LaterParts
    <3> QED BY <1>6, <3>2 DEF Among
  <2>2. CASE ~(runs # <<>> /\ rows[1].group = 0)
    BY <1>4, <1>6, <2>2
  <2> QED BY <2>1, <2>2
<1> HIDE DEF kept
<1>8. DOMAIN gs = DOMAIN kept
    OBVIOUS
<1>9. ASSUME NEW k \in DOMAIN gs, NEW j \in DOMAIN gs[k].rows
      PROVE  j \in DOMAIN kept[k] /\ gs[k].rows[j].row = num[kept[k][j]]
  <2>1. gs[k].rows = <<[row |-> kept[k][1], data |-> rows[kept[k][1]].group]>>
    OBVIOUS
  <2>2. j = 1 /\ gs[k].rows[j].row = kept[k][1]
    <3> DEFINE x == [row |-> kept[k][1], data |-> rows[kept[k][1]].group]
    <3>1. x.row = kept[k][1] /\ gs[k].rows = <<x>>
      BY <2>1
    <3> HIDE DEF x, gs
    <3> QED BY <3>1
  <2>3. 1 \in DOMAIN kept[k] /\ kept[k][1] \in 1 .. n
    BY <1>7, <1>8 DEF Cut
  <2> HIDE DEF gs
  <2> QED BY <2>2, <2>3
<1>10. DOMAIN num = 1 .. n /\ Distinct(num)
    BY DEF Distinct
<1> HIDE DEF gs, num
<1>11. Once(gs)
    BY <1>4, <1>7, <1>8, <1>9, <1>10, CutOnce
<1>12. CASE ~e.db.aligned
    BY <1>2, <1>12, NoGroupOnce
<1> QED BY <1>2, <1>5, <1>11, <1>12

LEMMA NetworkRowsOnce ==
    ASSUME IInv, h.handler = "network", response.ok
    PROVE  RowsOnce
<1> DEFINE gs == fill_networks(eng)
           answer == [begin |-> <<>>, end |-> <<>>, box |-> <<>>, groups |-> gs]
           out == format_output(eng, answer)
           r3 == IF eng.fails THEN NoCode ELSE out
           r2 == IF eng.registry THEN r3 ELSE ProcessingFailed
           c1 == Singles(par, {"namespace", "authority"})
           r1 == IF c1.ok THEN r2 ELSE c1
<1>1. response = Network_query(par, eng) /\ Network_query(par, eng).ok
    BY DEF IInv, Answered
<1>2. Network_query(par, eng) = Guarded(r1)
    BY DEF Network_query, Then, db_registry
<1>3. ~NoCode.ok /\ (\A code : ~Fail(code).ok) /\ ~ProcessingFailed.ok
    BY DEF NoCode, Fail, Throw, ProcessingFailed
<1> HIDE DEF gs, out, c1
<1>4. r1.ok /\ response = r1
    BY <1>1, <1>2, <1>3 DEF Guarded, WithCode
<1>5. response = out /\ out.ok
    BY <1>3, <1>4
<1>6. out = Ok(answer)
    BY <1>3, <1>5 DEF format_output, out
<1>7. response.val.groups = gs
    BY <1>5, <1>6 DEF Ok
<1>8. Once(gs)
    BY RowsNumbered, NetworksOnce DEF gs
<1> QED BY <1>7, <1>8, ResponseGroupsOnce

\* Lightning strokes: those of the period and the box.
LEMMA FlashAnswer ==
    ASSUME NEW hh, NEW p, NEW e, Flash_query(hh, p, e).ok
    PROVE  \E period : /\ Flash_answer(p, e, period).ok
                       /\ Flash_query(hh, p, e) = Flash_answer(p, e, period)
<1> DEFINE period == FlashPeriod(hh, p, e)
           c1 == Singles(p, {"crs"})
           c2 == create_transformation(p["crs"][1], e)
           c3 == Singles(p, {"begintime", "endtime"})
           c4 == IF hh.restrictions THEN check_time_interval(period.begin, period.end, hh.max_hours) ELSE Ok(0)
           c5 == transformed_box(p, e)
           last == Flash_answer(p, e, period)
           checked2 == Checked(<< <<~add_flash_parameters(p, e), "OperationProcessingFailed">> >>, last)
           r5 == IF c5.ok THEN checked2 ELSE c5
           rz == IF ~tz_known(p, e) THEN NoCode ELSE r5
           r4 == IF c4.ok THEN rz ELSE c4
           r3 == IF c3.ok THEN r4 ELSE c3
           checked1 == Checked(<< <<c2.val \in e.heights, "OperationProcessingFailed">> >>, r3)
           r2 == IF c2.ok THEN checked1 ELSE c2
           r1 == IF c1.ok THEN r2 ELSE c1
           query == Flash_query(hh, p, e)
<1>1. query = IF hh.template \notin {"simple", "multipointcoverage"} THEN NoCode ELSE r1
    BY DEF Flash_query, Then
<1>2. ~NoCode.ok
    BY DEF NoCode, Fail, Throw
<1> HIDE DEF period, c1, c2, c3, c4, c5, checked1, checked2, query
<1>3. query = checked1 /\ checked1.ok
    BY <1>1, <1>2 DEF query
<1>4. checked1 = r3
  <2> HIDE DEF r3
  <2>1. checked1 = Checked(<< <<c2.val \in e.heights, "OperationProcessingFailed">> >>, r3)
    BY DEF checked1
  <2> QED BY <1>3, <2>1, OneCheck
<1>5. r3 = checked2 /\ checked2.ok
    BY <1>2, <1>3, <1>4
<1>6. checked2 = last
  <2> HIDE DEF last
  <2>1. checked2 = Checked(<< <<~add_flash_parameters(p, e), "OperationProcessingFailed">> >>, last)
    BY DEF checked2
  <2> QED BY <1>5, <2>1, OneCheck
<1>7. query = last /\ last.ok
  <2> HIDE DEF r3, last
  <2> QED BY <1>3, <1>4, <1>5, <1>6
<1> QED BY <1>7 DEF query

LEMMA FlashRowsOnce ==
    ASSUME IInv, h.handler = "flash", response.ok
    PROVE  RowsOnce
<1>1. response = Flash_query(h, par, eng) /\ Flash_query(h, par, eng).ok
    BY DEF IInv, Answered
<1>2. PICK period : Flash_answer(par, eng, period).ok /\ response = Flash_answer(par, eng, period)
    BY <1>1, FlashAnswer
<1> DEFINE at == {i \in DOMAIN eng.strokes :
                     LET r == eng.strokes[i] IN period.begin <= r.time /\ r.time <= period.end /\ ~outside_bbox(par, r)}
           rows == Picked(eng.strokes, at)
           written == [i \in DOMAIN rows |-> [row |-> rows[i].num, data |-> par["meteo"]]]
           group == [ids |-> [feature_id |-> par["meteo"]], rows |-> written]
           gs == IF rows = <<>> THEN <<>> ELSE <<group>>
           answer == [begin |-> period.begin, end |-> period.end, box |-> par["bbox"], groups |-> gs]
           out == format_output(eng, answer)
           num == [m \in DOMAIN rows |-> rows[m].num]
<1>3. Flash_answer(par, eng, period) = IF eng.fails THEN NoCode ELSE out
    BY DEF Flash_answer, generate_rows
<1>4. ~NoCode.ok /\ ~ProcessingFailed.ok
    BY DEF NoCode, Fail, Throw, ProcessingFailed
<1>5. at \subseteq DOMAIN eng.strokes
    OBVIOUS
<1> HIDE DEF at
<1>6. Distinct(num)
    BY <1>5, RowsNumbered, PickedNumbers
<1> HIDE DEF rows
<1>7. \A i, j \in DOMAIN written : written[i].row = written[j].row => i = j
    BY <1>6 DEF Distinct
<1> HIDE DEF written
<1>8. group.rows = written
    OBVIOUS
<1> HIDE DEF group
<1>9. Once(gs)
  <2>1. CASE rows = <<>>
    BY <2>1, NoGroupOnce
  <2>2. CASE rows # <<>>
    <3>1. DOMAIN gs = {1} /\ gs[1] = group
      BY <2>2
    <3>2. gs[1].rows = written
      BY <1>8, <3>1
    <3> HIDE DEF gs
    <3> QED BY <1>7, <3>1, <3>2, OneGroupOnce
  <2> QED BY <2>1, <2>2
<1> HIDE DEF gs, out
<1>10. response = out /\ out.ok
    BY <1>2, <1>3, <1>4
<1>11. out = Ok(answer)
    BY <1>4, <1>10 DEF format_output, out
<1>12. response.val.groups = gs
    BY <1>10, <1>11 DEF Ok
<1> QED BY <1>9, <1>12, ResponseGroupsOnce

\* Aviation messages: those with a content, in one group.
LEMMA MessagesPicked ==
    ASSUME NEW hh, NEW p, NEW e, NEW airports, make_message_query(hh, p, e, airports).ok
    PROVE  \E at : at \subseteq DOMAIN e.messages /\ make_message_query(hh, p, e, airports).val = Picked(e.messages, at)
<1> DEFINE at == {i \in DOMAIN e.messages : /\ e.messages[i].icao \in {a.icao : a \in airports}
                                            /\ Optional(p, "latest", FALSE) => e.messages[i].last}
           c1 == IF hh.restrictions THEN check_time_interval(p["begintime"][1], p["endtime"][1], hh.max_hours) ELSE Ok(0)
           found == Picked(e.messages, at)
           r1 == IF c1.ok THEN IF e.fails THEN NoCode ELSE Ok(found) ELSE c1
           r == make_message_query(hh, p, e, airports)
<1>1. r = WithCode(r1, "OperationProcessingFailed")
    BY DEF make_message_query, Then
<1>2. ~NoCode.ok /\ (\A code : ~Fail(code).ok)
    BY DEF NoCode, Fail, Throw
<1>3. at \subseteq DOMAIN e.messages
    OBVIOUS
<1> HIDE DEF at, c1, r
<1>4. r = r1 /\ r1.ok
    BY <1>1, <1>2 DEF WithCode, r
<1>5. r = Ok(found)
  <2> HIDE DEF found
  <2> QED BY <1>2, <1>4
<1>6. r.val = found
  <2> HIDE DEF found
  <2> QED BY <1>5 DEF Ok
<1> QED BY <1>3, <1>6 DEF r

LEMMA AviationAnswer ==
    ASSUME NEW hh, NEW p, NEW e, Aviation_query(hh, p, e).ok
    PROVE  \/ Aviation_query(hh, p, e).val.groups = <<>>
           \/ \E airports : /\ make_message_query(hh, p, e, airports).ok
                            /\ LET last == Aviation_answer(e, make_message_query(hh, p, e, airports).val, airports)
                               IN  last.ok /\ Aviation_query(hh, p, e) = last
<1> DEFINE c1 == get_location_options(p, e)
           c2 == Singles(p, {"stationtype"})
           c3 == transformed_box(p, e)
           c4 == add_requested_icao_codes(e, p["icao"])
           typed == airports_of(e, p["stationtype"][1])
           airports == (IF c3.val = <<>> THEN {} ELSE add_locations_in_bbox(typed, c3.val[1]))
                           \cup c4.val \cup add_airport_locations(typed, c1.val)
           none == [begin |-> <<>>, end |-> <<>>, box |-> <<0, 0>>, groups |-> <<>>]
           empty == format_output(e, none)
           cm == make_message_query(hh, p, e, airports)
           last == Aviation_answer(e, cm.val, airports)
           r5 == IF airports = {} THEN empty ELSE IF cm.ok THEN last ELSE cm
           r4 == IF c4.ok THEN r5 ELSE c4
           r3 == IF c3.ok THEN r4 ELSE c3
           r2 == IF c2.ok THEN r3 ELSE c2
           r1 == IF c1.ok THEN r2 ELSE c1
           query == Aviation_query(hh, p, e)
<1>1. query = r1
    BY DEF Aviation_query, Then
<1>2. ~ProcessingFailed.ok
    BY DEF Fail, Throw, ProcessingFailed
<1> HIDE DEF c1, c2, c3, c4, airports, empty, cm, last, query
<1>3. query = r5 /\ r5.ok
    BY <1>1 DEF query
<1>4. CASE airports = {}
  <2>1. query = empty /\ empty.ok
    BY <1>3, <1>4
  <2>2. empty = Ok(none)
    BY <1>2, <2>1 DEF format_output, empty
  <2>3. query.val.groups = <<>>
    BY <2>1, <2>2 DEF Ok
  <2> QED BY <2>3 DEF query
<1>5. CASE airports # {}
  <2>1. cm.ok /\ query = last /\ last.ok
    BY <1>3, <1>5
  <2> QED BY <2>1 DEF query, last, cm
<1> QED BY <1>4, <1>5

LEMMA MessagesOnce ==
    ASSUME NEW e, Numbered(e.messages), NEW at, at \subseteq DOMAIN e.messages, NEW airports,
           Aviation_answer(e, Picked(e.messages, at), airports).ok
    PROVE  Once(Aviation_answer(e, Picked(e.messages, at), airports).val.groups)
<1> DEFINE messages == Picked(e.messages, at)
           with == {i \in DOMAIN messages : messages[i].content}
           positions == Ordered(with)
           written == [i \in DOMAIN positions |->
                          [row |-> messages[positions[i]].num, data |-> messages[positions[i]].icao]]
           group == [ids |-> [feature_id |-> "messages"], rows |-> written]
           gs == <<group>>
           answer == [begin |-> <<>>, end |-> <<>>, box |-> set_stations_bbox(messages, positions, airports), groups |-> gs]
           out == format_output(e, answer)
           num == [m \in DOMAIN messages |-> messages[m].num]
           n == Len(messages)
<1>1. Aviation_answer(e, messages, airports) = out
    BY DEF Aviation_answer, fill_iwxxm_content
<1>2. ~ProcessingFailed.ok
    BY DEF Fail, Throw, ProcessingFailed
<1>3. IsVector(messages) /\ Distinct(num)
    BY PickedNumbers
<1>4. n \in Nat /\ DOMAIN messages = 1 .. n
    BY <1>3, VectorOf
<1>5. out.ok
    BY <1>1
<1>6. Aviation_answer(e, Picked(e.messages, at), airports) = out
    BY <1>1
<1> HIDE DEF messages, n
<1>7. with \in SUBSET (1 .. n)
    BY <1>4
<1> HIDE DEF with
<1>8. /\ IsVector(positions) /\ Range(positions) = with
      /\ \A i, j \in DOMAIN positions : i < j => positions[i] < positions[j]
    BY <1>4, <1>7, OrderedPositions
<1> HIDE DEF positions
<1>9. \A i \in DOMAIN positions : positions[i] \in with
    BY <1>8 DEF Range
<1>10. \A i \in DOMAIN positions : positions[i] \in Int /\ positions[i] \in DOMAIN messages
  <2>1. \A x \in with : x \in Int /\ x \in DOMAIN messages
    BY <1>4, <1>7
  <2> QED BY <1>9, <2>1
<1>11. Distinct(positions)
  <2>1. \A i \in DOMAIN positions : positions[i] \in Int
    BY <1>10
  <2> QED BY <1>8, <2>1, IncreasingDistinct
<1>12. \A i, j \in DOMAIN written : written[i].row = written[j].row => i = j
  <2> SUFFICES ASSUME NEW i \in DOMAIN positions, NEW j \in DOMAIN positions,
                      messages[positions[i]].num = messages[positions[j]].num
               PROVE  i = j
    OBVIOUS
  <2> DEFINE a == positions[i]
             b == positions[j]
  <2>1. a \in DOMAIN messages /\ b \in DOMAIN messages
    BY <1>10
  <2>2. num[a] = num[b] /\ DOMAIN num = DOMAIN messages
    BY <2>1
  <2> HIDE DEF num
  <2>3. a = b
    BY <1>3, <2>1, <2>2 DEF Distinct
  <2> QED BY <1>11, <2>3 DEF Distinct
<1> HIDE DEF written
<1>13. DOMAIN gs = {1} /\ gs[1].rows = written
  <2>1. group.rows = written
    OBVIOUS
  <2> HIDE DEF group
  <2> QED BY <2>1
<1> HIDE DEF gs
<1>14. Once(gs)
    BY <1>12, <1>13, OneGroupOnce
<1>15. out = Ok(answer)
  <2> HIDE DEF answer
  <2> QED BY <1>2, <1>5 DEF format_output
<1>16. out.val.groups = gs
  <2> HIDE DEF out
  <2> QED BY <1>15 DEF Ok
<1> HIDE DEF out
<1> QED BY <1>6, <1>14, <1>16

LEMMA AviationRowsOnce ==
    ASSUME IInv, h.handler = "aviation", response.ok
    PROVE  RowsOnce
<1> DEFINE gs == response.val.groups
           Found(airports) == make_message_query(h, par, eng, airports)
<1>1. response = Aviation_query(h, par, eng) /\ Aviation_query(h, par, eng).ok
    BY DEF IInv, Answered
<1>2. \/ gs = <<>>
      \/ \E airports : /\ Found(airports).ok
                       /\ LET last == Aviation_answer(eng, Found(airports).val, airports)
                          IN  last.ok /\ response = last
    BY <1>1, AviationAnswer
<1>3. Numbered(eng.messages)
    BY RowsNumbered
<1>4. ASSUME NEW airports, Found(airports).ok,
             Aviation_answer(eng, Found(airports).val, airports).ok,
             response = Aviation_answer(eng, Found(airports).val, airports)
      PROVE  Once(gs)
  <2>1. PICK at : at \subseteq DOMAIN eng.messages /\ Found(airports).val = Picked(eng.messages, at)
    BY <1>4, MessagesPicked
  <2> DEFINE last == Aviation_answer(eng, Picked(eng.messages, at), airports)
  <2>2. last.ok /\ response = last
    BY <1>4, <2>1
  <2>3. Once(last.val.groups)
    BY <1>3, <2>1, <2>2, MessagesOnce
  <2> HIDE DEF last
  <2> QED BY <2>2, <2>3
<1> HIDE DEF gs, Found
<1>5. gs = <<>> => Once(gs)
    BY NoGroupOnce
<1>6. Once(gs)
    BY <1>2, <1>4, <1>5
<1> QED BY <1>6, ResponseGroupsOnce DEF gs

\* Soundings: a group for each run of the levels of one sounding.
LEMMA SoundingRows ==
    ASSUME NEW p, NEW e, NEW soundings, NEW shown, makeSoundingDataQuery(p, e, soundings, shown).ok
    PROVE  \E at : at \subseteq DOMAIN e.levels /\ makeSoundingDataQuery(p, e, soundings, shown).val \in {<<>>, Picked(e.levels, at)}
<1> DEFINE at == {i \in DOMAIN e.levels : e.levels[i].sounding \in {s.id : s \in soundings}
                                          /\ e.levels[i].measurand \in DOMAIN shown}
           found == Picked(e.levels, at)
           last == IF e.fails THEN NoCode ELSE Ok(found)
           checked == Checked(<< <<Len(p["altituderanges"]) % 2 = 1, "OperationParsingFailed">>,
                                 <<Len(p["pressureranges"]) % 2 = 1, "OperationParsingFailed">> >>, last)
           r == makeSoundingDataQuery(p, e, soundings, shown)
<1>1. r = IF soundings = {} \/ DOMAIN shown = {} THEN Ok(<<>>) ELSE IF ~e.registry THEN ProcessingFailed ELSE checked
    BY DEF makeSoundingDataQuery
<1>2. ~NoCode.ok /\ ~ProcessingFailed.ok
    BY DEF NoCode, Fail, Throw, ProcessingFailed
<1>3. at \subseteq DOMAIN e.levels
    OBVIOUS
<1> HIDE DEF at, found, checked, r
<1>4. CASE soundings = {} \/ DOMAIN shown = {}
  <2>1. r.val = <<>>
    BY <1>1, <1>4 DEF Ok
  <2> QED BY <1>3, <2>1 DEF r
<1>5. CASE ~(soundings = {} \/ DOMAIN shown = {})
  <2>1. r = checked /\ checked.ok
    BY <1>1, <1>2, <1>5 DEF r
  <2>2. checked = last
    <3> HIDE DEF last
    <3> DEFINE a == <<Len(p["altituderanges"]) % 2 = 1, "OperationParsingFailed">>
               b == <<Len(p["pressureranges"]) % 2 = 1, "OperationParsingFailed">>
    <3>1. checked = Checked(<<a, b>>, last)
      BY DEF checked
    <3> HIDE DEF a, b
    <3> QED BY <2>1, <3>1, TwoChecks
  <2>3. r = Ok(found)
    BY <1>2, <2>1, <2>2
  <2>4. r.val = found
    BY <2>3 DEF Ok
  <2> QED BY <1>3, <2>4 DEF r, found
<1> QED BY <1>4, <1>5

\* The data of a level, whatever it is.
SoundingData(e, soundings, rows, params, runs, k, i) ==
    LET Column(run, j) == Cardinality({rows[run[m]].measurand : m \in 1 .. j}) - (IF params.pressure THEN 0 ELSE 1)
        Row(run, j) == Cardinality({m \in 1 .. j : rows[run[m]].measurand = rows[run[j]].measurand})
        Level(run, j) == IF Row(run, j) \in DOMAIN run /\ rows[run[Row(run, j)]].measurand = rows[run[1]].measurand
                         THEN rows[run[Row(run, j)]].level ELSE 0
    IN  [at |-> set_sounding_station(e, soundings, rows, runs, k),
         column |-> Column(runs[k], i), level |-> Level(runs[k], i),
         shown |-> params.shown[rows[runs[k][i]].measurand]]
SoundingGroups(e, soundings, rows, params, runs) ==
    [k \in DOMAIN runs |->
        [ids |-> [feature_id |-> rows[runs[k][1]].sounding],
         rows |-> [i \in DOMAIN runs[k] |->
                      [row |-> rows[runs[k][i]].num, data |-> SoundingData(e, soundings, rows, params, runs, k, i)]]]]

LEMMA SoundingDataIs ==
    ASSUME NEW e, NEW soundings, NEW rows, NEW params
    PROVE  fill_sounding_data(e, soundings, rows, params)
               = SoundingGroups(e, soundings, rows, params, Runs(rows, LAMBDA r : r.sounding))
BY DEF fill_sounding_data, SoundingGroups, SoundingData

LEMMA LevelsOnce ==
    ASSUME NEW e, NEW soundings, NEW rows, NEW params, IsVector(rows), Distinct([m \in DOMAIN rows |-> rows[m].num])
    PROVE  Once(fill_sounding_data(e, soundings, rows, params))
<1> DEFINE n == Len(rows)
           Key(r) == r.sounding
           starts == {i \in DOMAIN rows : i = 1 \/ Key(rows[i]) # Key(rows[i - 1])}
           runs == RunsOf(starts, n)
           cut == Runs(rows, Key)
           Data(k, i) == SoundingData(e, soundings, rows, params, runs, k, i)
           gs == SoundingGroups(e, soundings, rows, params, runs)
           num == [m \in DOMAIN rows |-> rows[m].num]
<1>1. cut = runs
    BY DEF Runs, RunsOf
<1>2. fill_sounding_data(e, soundings, rows, params) = SoundingGroups(e, soundings, rows, params, cut)
    BY SoundingDataIs
<1>3. Partition(runs, n) /\ Cut(runs, n) /\ n \in Nat
  <2>1. starts \subseteq DOMAIN rows /\ (1 \in DOMAIN rows => 1 \in starts)
    OBVIOUS
  <2> HIDE DEF starts
  <2> QED BY <2>1, RunsCut
<1> HIDE DEF runs, cut, n
<1>4. gs = [k \in DOMAIN runs |->
               [ids |-> [feature_id |-> rows[runs[k][1]].sounding],
                rows |-> [i \in DOMAIN runs[k] |-> [row |-> rows[runs[k][i]].num, data |-> Data(k, i)]]]]
    BY DEF SoundingGroups
<1>5. fill_sounding_data(e, soundings, rows, params) = gs
    BY <1>1, <1>2
<1> HIDE DEF gs, Data
<1>6. DOMAIN gs = DOMAIN runs
    BY <1>4
<1>7. ASSUME NEW k \in DOMAIN runs, NEW j \in DOMAIN gs[k].rows
      PROVE  j \in DOMAIN runs[k] /\ gs[k].rows[j].row = rows[runs[k][j]].num
    BY <1>4
<1>8. DOMAIN rows = 1 .. n
    BY VectorOf DEF n
<1>9. DOMAIN num = 1 .. n /\ Distinct(num)
    BY <1>8
<1>10. ASSUME NEW k \in DOMAIN gs, NEW j \in DOMAIN gs[k].rows
       PROVE  j \in DOMAIN runs[k] /\ gs[k].rows[j].row = num[runs[k][j]]
  <2>1. j \in DOMAIN runs[k] /\ gs[k].rows[j].row = rows[runs[k][j]].num
    BY <1>6, <1>7
  <2>2. runs[k][j] \in DOMAIN rows
    BY <1>3, <1>6, <1>8, <2>1 DEF Cut
  <2> QED BY <2>1, <2>2
<1> HIDE DEF num
<1>11. Once(gs)
    BY <1>3, <1>6, <1>9, <1>10, CutOnce
<1> QED BY <1>5, <1>11

LEMMA SoundingAnswerIs ==
    ASSUME NEW hh, NEW p, NEW e, NEW params, Numbered(e.levels), Sounding_answer(hh, p, e, params).ok
    PROVE  Once(Sounding_answer(hh, p, e, params).val.groups)
<1> DEFINE cq == IF e.found = <<>> THEN Ok(<<>>) ELSE makeSoundingQuery(p, e)
           soundings == parseSoundingQuery(p, cq.val)
           c2 == IF hh.restrictions THEN checkMaxSoundings(hh, soundings) ELSE Ok(soundings)
           cd == makeSoundingDataQuery(p, e, soundings, params.shown)
           gs == fill_sounding_data(e, soundings, cd.val, params)
           answer == [begin |-> p["begintime"][1], end |-> p["endtime"][1], box |-> p["bbox"], groups |-> gs]
           out == format_output(e, answer)
           r3 == IF cd.ok THEN out ELSE cd
           r2 == IF c2.ok THEN r3 ELSE c2
           r1 == IF cq.ok THEN r2 ELSE cq
           r == Sounding_answer(hh, p, e, params)
<1>1. r = r1
    BY DEF Sounding_answer, Then
<1>2. ~ProcessingFailed.ok
    BY DEF Fail, Throw, ProcessingFailed
<1> HIDE DEF cq, soundings, c2, cd, gs, out, r
<1>3. r = out /\ out.ok /\ cd.ok
    BY <1>1 DEF r
<1>4. out = Ok(answer)
    BY <1>2, <1>3 DEF format_output, out
<1>5. r.val.groups = gs
    BY <1>3, <1>4 DEF Ok
<1>6. PICK at : at \subseteq DOMAIN e.levels /\ cd.val \in {<<>>, Picked(e.levels, at)}
    BY <1>3, SoundingRows DEF cd
<1> DEFINE rows == cd.val
           num == [m \in DOMAIN rows |-> rows[m].num]
<1>7. IsVector(rows) /\ Distinct(num)
  <2>1. CASE rows = <<>>
    <3>1. IsList(rows, 0)
      BY <2>1 DEF IsList
    <3>2. 0 \in Nat
      OBVIOUS
    <3>3. IsVector(rows)
      BY <3>1, <3>2, ListOf
    <3>4. Distinct(num)
      BY <2>1 DEF Distinct
    <3> QED BY <3>3, <3>4
  <2>2. CASE rows = Picked(e.levels, at)
    <3> HIDE DEF rows
    <3> QED BY <1>6, <2>2, PickedNumbers
  <2> QED BY <1>6, <2>1, <2>2
<1> HIDE DEF rows
<1>8. gs = fill_sounding_data(e, soundings, rows, params)
    BY DEF gs, rows
<1>9. Once(gs)
    BY <1>7, <1>8, LevelsOnce
<1> QED BY <1>5, <1>9 DEF r

LEMMA SoundingRowsOnce ==
    ASSUME IInv, h.handler = "sounding", response.ok
    PROVE  RowsOnce
<1> DEFINE c1 == Singles(par, {"missingtext", "crs"})
           c2 == create_transformation(solveCrs(par), eng)
           c3 == getStationSearchSettings(par, eng)
           c4 == validateAndPopulateMeteoParametersToMap(h, par, eng)
           c5 == Singles(par, {"begintime", "endtime", "latest"})
           c6 == IF h.restrictions THEN check_time_interval(par["begintime"][1], par["endtime"][1], h.max_hours) ELSE Ok(0)
           last == Sounding_answer(h, par, eng, c4.val)
           r6 == IF c6.ok THEN last ELSE c6
           r5 == IF c5.ok THEN r6 ELSE c5
           r4 == IF c4.ok THEN r5 ELSE c4
           rf == IF eng.fails THEN NoCode ELSE r4
           r3 == IF c3.ok THEN rf ELSE c3
           checked == Checked(<< <<c2.val \notin eng.heights, "InvalidParameterValue">> >>, r3)
           r2 == IF c2.ok THEN checked ELSE c2
           r1 == IF c1.ok THEN r2 ELSE c1
<1>1. response = Sounding_query(h, par, eng)
    BY DEF IInv, Answered
<1>2. Sounding_query(h, par, eng) = r1
    BY DEF Sounding_query, Then
<1>3. ~NoCode.ok
    BY DEF NoCode, Fail, Throw
<1> HIDE DEF c1, c2, c3, c4, c5, c6, checked, last
<1>4. response = checked /\ checked.ok
    BY <1>1, <1>2
<1>5. checked = r3
  <2> HIDE DEF r3
  <2>1. checked = Checked(<< <<c2.val \notin eng.heights, "InvalidParameterValue">> >>, r3)
    BY DEF checked
  <2> QED BY <1>4, <2>1, OneCheck
<1>6. response = last /\ last.ok
    BY <1>3, <1>4, <1>5
<1>7. Once(last.val.groups)
    BY <1>6, RowsNumbered, SoundingAnswerIs DEF last
<1> QED BY <1>6, <1>7, ResponseGroupsOnce

\* Forecasts: the rows of a group are those of its places.
RowsAtSites(rows, ids) == [k \in DOMAIN ids |-> Ordered({i \in DOMAIN rows : rows[i].site = ids[k]})]

LEMMA GroupDataRows ==
    ASSUME NEW rows, NEW ids
    PROVE  SameRows(set_group_data(rows, ids).rows, FlattenSeq(RowsAtSites(rows, ids)))
<1> DEFINE mine == FlattenSeq([k \in DOMAIN ids |-> Ordered({i \in DOMAIN rows : rows[i].site = ids[k]})])
           written == [q \in DOMAIN mine |-> [row |-> mine[q], data |-> rows[mine[q]]]]
<1>1. mine = FlattenSeq(RowsAtSites(rows, ids))
    BY DEF RowsAtSites
<1>2. set_group_data(rows, ids).rows = written
    BY DEF set_group_data
<1> HIDE DEF mine
<1>3. SameRows(written, mine)
    BY DEF SameRows
<1> HIDE DEF written
<1> QED BY <1>1, <1>2, <1>3

LEMMA ForecastGroupsOnce ==
    ASSUME NEW hh, NEW p, NEW st, IsVector(st.rows), \A i \in DOMAIN st.rows : st.rows[i].site \in Int
    PROVE  Once(Forecast_groups(hh, p, st))
<1> DEFINE rows == st.rows
           n == Len(rows)
           sites == SitesOf(rows)
           parts == RowsOf(rows)
           Data(ids) == set_group_data(rows, ids)
           Ids(ids) == [feature_id |-> <<ids, p["meteo"]>>,
                        param_ids |-> [i \in DOMAIN p["meteo"] |-> <<ids, <<p["meteo"][i]>> >>]]
           Group(ids) == [ids |-> Ids(ids), origin |-> st.reported, begin |-> Data(ids).begin,
                          end |-> Data(ids).end, rows |-> Data(ids).rows]
           gs == Forecast_groups(hh, p, st)
<1>1. gs = IF sites = <<>> THEN <<>>
           ELSE IF hh.separate_groups THEN [k \in DOMAIN sites |-> Group(<<sites[k]>>)] ELSE <<Group(sites)>>
    BY DEF Forecast_groups, Values, SitesOf
<1>2. /\ IsVector(sites) /\ DOMAIN parts = DOMAIN sites /\ Partition(parts, n) /\ n \in Nat
    BY RowsOfSites, VectorOf
<1>3. parts = RowsAtSites(rows, sites)
    BY DEF RowsOf, RowsAtSites
<1>4. \A ids : Group(ids).rows = Data(ids).rows
    OBVIOUS
<1>5. \A ids : SameRows(Group(ids).rows, FlattenSeq(RowsAtSites(rows, ids)))
    BY <1>4, GroupDataRows
<1> HIDE DEF Group, gs, sites, parts, rows, n
<1>6. CASE sites = <<>>
    BY <1>1, <1>6, NoGroupOnce DEF gs
<1>7. CASE sites # <<>> /\ hh.separate_groups
  <2>1. gs = [k \in DOMAIN sites |-> Group(<<sites[k]>>)]
    BY <1>1, <1>7
  <2>2. ASSUME NEW k \in DOMAIN parts PROVE SameRows(gs[k].rows, parts[k])
    <3> DEFINE s == sites[k]
               own == <<s>>
               at == Ordered({i \in DOMAIN rows : rows[i].site = s})
    <3>1. parts[k] = at
      BY <1>2, <1>3 DEF RowsAtSites
    <3> HIDE DEF s
    <3>2. RowsAtSites(rows, own) = <<at>>
      BY DEF RowsAtSites
    <3> HIDE DEF at
    <3>3. IsVector(at)
      BY <1>2, <3>1 DEF Partition
    <3>4. FlattenSeq(RowsAtSites(rows, own)) = at
      BY <3>2, <3>3, FlattenOne
    <3>5. gs[k] = Group(own)
      BY <1>2, <2>1 DEF s
    <3> HIDE DEF own
    <3>6. SameRows(gs[k].rows, at)
      BY <1>5, <3>4, <3>5
    <3> QED BY <3>1, <3>6
  <2>3. DOMAIN gs = DOMAIN parts
    BY <1>2, <2>1
  <2>4. \A k \in DOMAIN gs : DOMAIN gs[k].rows = DOMAIN parts[k] /\ \A j \in DOMAIN parts[k] : gs[k].rows[j].row = parts[k][j]
    BY <2>2, <2>3 DEF SameRows
  <2>5. Once(gs)
    BY <1>2, <2>3, <2>4, PartsOnce
  <2> QED BY <2>5 DEF gs
<1>8. CASE sites # <<>> /\ ~hh.separate_groups
  <2> DEFINE flat == FlattenSeq(parts)
  <2>1. gs = <<Group(sites)>>
    BY <1>1, <1>8
  <2>2. DOMAIN gs = {1} /\ gs[1] = Group(sites)
    BY <2>1
  <2>3. SameRows(gs[1].rows, flat)
    BY <1>3, <1>5, <2>2
  <2>4. DOMAIN gs[1].rows = DOMAIN flat /\ \A j \in DOMAIN flat : gs[1].rows[j].row = flat[j]
    BY <2>3 DEF SameRows
  <2>5. Once(gs)
    BY <1>2, <2>2, <2>4, JoinedOnce
  <2> QED BY <2>5 DEF gs
<1> QED BY <1>6, <1>7, <1>8

\* The rows of a loop over places are at places.
AtNumbers(rows) == IsVector(rows) /\ \A k \in DOMAIN rows : rows[k].site \in Int

LEMMA MoreRows ==
    ASSUME NEW s, NEW t, AtNumbers(s), IsVector(t), NEW place \in Int, \A k \in DOMAIN t : t[k].site = place
    PROVE  AtNumbers(s \o t)
<1> DEFINE c == s \o t
<1>1. Joins(c, s, t)
    BY ConcatJoins DEF AtNumbers
<1> HIDE DEF c
<1>2. AtNumbers(c)
    BY <1>1 DEF Joins, AtNumbers
<1> QED BY <1>2 DEF c

LEMMA TurnAtNumbers ==
    ASSUME NEW p, NEW e, NEW levels, NEW heights, IsFiniteSet(heights),
           \A m \in DOMAIN e.models : IsVector(e.models[m].levels) /\ IsVector(e.models[m].times),
           NEW place \in Int, NEW st, AtNumbers(st.rows), LocationTurn(p, e, levels, heights, place, st).ok
    PROVE  AtNumbers(LocationTurn(p, e, levels, heights, place, st).val.rows)
<1> DEFINE sel == select_producer(p, e, place)
           producer == sel.val
           got == get_model(e, producer, st.origin)
           run == got.val
           rows == set_location_rows(p, e, place, producer, run, levels, heights)
           old == st.rows
           new == LocationTurn(p, e, levels, heights, place, st).val
<1>1. sel.ok /\ got.ok /\ new.rows = old \o rows
    BY DEF LocationTurn, Then, Ok
<1>2. producer \in DOMAIN e.models
    BY <1>1 DEF get_model, Ok, NoCode, Fail, Throw
<1>3. IsVector(rows) /\ \A k \in DOMAIN rows : rows[k].site = place
    BY <1>2, LocationRows
<1>4. AtNumbers(old)
    OBVIOUS
<1> HIDE DEF rows, old, new
<1>5. AtNumbers(old \o rows)
    BY <1>3, <1>4, MoreRows
<1> QED BY <1>1, <1>5 DEF new

LEMMA ForecastAtNumbers ==
    ASSUME NEW p, NEW e, NEW levels, NEW heights, IsFiniteSet(heights),
           \A m \in DOMAIN e.models : IsVector(e.models[m].levels) /\ IsVector(e.models[m].times),
           IsVector(p["places"]), \A i \in DOMAIN p["places"] : p["places"][i] \in Int,
           extract_forecast(p, e, levels, heights).ok
    PROVE  AtNumbers(extract_forecast(p, e, levels, heights).val.rows)
<1> DEFINE n == Len(p["places"])
<1>1. n \in Nat /\ DOMAIN p["places"] = 1 .. n
    BY VectorOf
<1> HIDE DEF n
<1>2. PICK f : /\ LocationTurns(f, n, p, e, levels, heights)
               /\ extract_forecast(p, e, levels, heights) = f[n]
    BY <1>1, ExtractForecastIs DEF n
<1>3. \A i \in 0 .. n : f[i] = IF i = 0 THEN NoRows(p) ELSE LocationStep(p, e, levels, heights, i, f[i - 1])
    BY <1>2 DEF LocationTurns
<1> DEFINE N == {k \in Nat : k <= n /\ f[k].ok => AtNumbers(f[k].val.rows)}
<1>4. 0 \in N
  <2>1. NoRows(p).val.rows = <<>>
    BY DEF NoRows, Ok
  <2>2. AtNumbers(<<>>)
    BY DEF IsVector, AtNumbers
  <2>3. f[0] = NoRows(p)
    BY <1>1, <1>3
  <2> QED BY <2>1, <2>2, <2>3
<1>5. ASSUME NEW k \in Nat, k \in N PROVE k + 1 \in N
  <2> SUFFICES ASSUME k + 1 <= n, f[k + 1].ok PROVE AtNumbers(f[k + 1].val.rows)
    OBVIOUS
  <2> DEFINE i == k + 1
             st == f[k].val
             place == p["places"][i]
             turn == LocationTurn(p, e, levels, heights, place, st)
  <2>1. i \in 0 .. n /\ i # 0 /\ i - 1 = k /\ k <= n /\ i \in 1 .. n
    BY <1>1
  <2>2. f[i] = LocationStep(p, e, levels, heights, i, f[k])
    BY <1>3, <2>1
  <2>3. f[k].ok /\ f[i] = turn /\ turn.ok
    BY <2>2 DEF LocationStep
  <2>4. AtNumbers(st.rows) /\ place \in Int
    BY <1>1, <1>5, <2>1, <2>3
  <2> HIDE DEF st, place
  <2>5. AtNumbers(turn.val.rows)
    BY <2>3, <2>4, TurnAtNumbers
  <2> QED BY <2>3, <2>5
<1> HIDE DEF N
<1>6. n \in N
    BY <1>1, <1>4, <1>5, NatSetInduction
<1> QED BY <1>1, <1>2, <1>6 DEF N

LEMMA ForecastRowsOnce ==
    ASSUME IInv, h.handler = "forecast", response.ok
    PROVE  RowsOnce
<1>1. response = Forecast_query(h, par, eng) /\ Forecast_query(h, par, eng).ok
    BY DEF IInv, Answered
<1>2. {"places", "levelheights"} \subseteq registered[h.handler].other
    BY DEF registered, Forecast_registered
<1>3. /\ IsVector(par["places"]) /\ IsVector(par["levelheights"])
      /\ \A m \in DOMAIN eng.models : IsVector(eng.models[m].levels) /\ IsVector(eng.models[m].times)
    BY <1>2, Vectors
<1>4. \A i \in DOMAIN par["places"] : par["places"][i] \in Int
    BY <1>2, RowsNumbered
<1>5. PICK levels, heights :
          /\ heights = ToSet(par["levelheights"])
          /\ extract_forecast(par, eng, levels, heights).ok
          /\ response.val.groups = Forecast_groups(h, par, extract_forecast(par, eng, levels, heights).val)
    BY <1>1, ForecastAnswer
<1>6. IsFiniteSet(heights)
  <2> DEFINE s == par["levelheights"]
  <2>1. Len(s) \in Nat /\ DOMAIN s = 1 .. Len(s) /\ s \in [1 .. Len(s) -> Range(s)]
    BY <1>3 DEF IsVector
  <2>2. heights = Range(s)
    BY <1>5 DEF ToSet, Range
  <2> HIDE DEF s
  <2>3. IsFiniteSet(1 .. Len(s))
    <3>1. 1 \in Int /\ Len(s) \in Int
      BY <2>1
    <3> QED BY <3>1, FS_Interval
  <2> QED BY <2>1, <2>2, <2>3, RangeFinite
<1> DEFINE st == extract_forecast(par, eng, levels, heights).val
<1>7. AtNumbers(st.rows)
    BY <1>3, <1>4, <1>5, <1>6, ForecastAtNumbers
<1> HIDE DEF st
<1>8. Once(Forecast_groups(h, par, st))
    BY <1>7, ForecastGroupsOnce DEF AtNumbers
<1> QED BY <1>5, <1>8, ResponseGroupsOnce DEF st
-----------------------------------------------------------------------------
(* Forecasts of the grid engine: the same groups of rows it gives *)

GridNoRows(p) == Ok([reported |-> parse_times(p), rows |-> <<>>, rowCount |-> 0, shifted |-> FALSE])
GridStep(p, e, levels, heights, i, r) ==
    IF r.ok THEN processGridQuery(p, e, p["places"][i], levels, heights, r.val) ELSE r
GridTurns(f, n, p, e, levels, heights) ==
    f = [i \in 0 .. n |-> IF i = 0 THEN GridNoRows(p) ELSE GridStep(p, e, levels, heights, i, f[i - 1])]

LEMMA GridTurnsExist ==
    ASSUME NEW p, NEW e, NEW levels, NEW heights
    PROVE  \A n \in Nat : \E f : GridTurns(f, n, p, e, levels, heights)
<1> DEFINE Step(i, r) == GridStep(p, e, levels, heights, i, r)
           N == {n \in Nat : \E f : GridTurns(f, n, p, e, levels, heights)}
<1>0. \A f, n : GridTurns(f, n, p, e, levels, heights) <=>
                  f = [i \in 0 .. n |-> IF i = 0 THEN GridNoRows(p) ELSE Step(i, f[i - 1])]
    BY DEF GridTurns
<1> HIDE DEF Step
<1>1. 0 \in N
  <2> DEFINE f == [i \in 0 .. 0 |-> GridNoRows(p)]
  <2>1. f = [i \in 0 .. 0 |-> IF i = 0 THEN GridNoRows(p) ELSE Step(i, f[i - 1])]
    OBVIOUS
  <2> HIDE DEF f
  <2> QED BY <1>0, <2>1
<1>2. ASSUME NEW n \in Nat, n \in N PROVE n + 1 \in N
  <2>1. PICK f : f = [i \in 0 .. n |-> IF i = 0 THEN GridNoRows(p) ELSE Step(i, f[i - 1])]
    BY <1>0, <1>2
  <2> DEFINE g == [i \in 0 .. n + 1 |-> IF i <= n THEN f[i] ELSE Step(n + 1, f[n])]
  <2>2. \A i \in 0 .. n : f[i] = IF i = 0 THEN GridNoRows(p) ELSE Step(i, f[i - 1])
    BY <2>1
  <2>3. ASSUME NEW i \in 0 .. n + 1
        PROVE  g[i] = IF i = 0 THEN GridNoRows(p) ELSE Step(i, g[i - 1])
    <3>1. CASE i <= n
      <4>1. i \in 0 .. n /\ g[i] = f[i] /\ (i # 0 => g[i - 1] = f[i - 1])
        BY <3>1
      <4> QED BY <4>1, <2>2
    <3>2. CASE ~(i <= n)
      <4>1. i = n + 1 /\ i # 0 /\ g[i - 1] = f[n]
        BY <3>2
      <4>2. g[i] = Step(n + 1, f[n])
        BY <3>2
      <4> QED BY <4>1, <4>2
    <3> QED BY <3>1, <3>2
  <2>4. g = [i \in 0 .. n + 1 |-> IF i = 0 THEN GridNoRows(p) ELSE Step(i, g[i - 1])]
    <3> HIDE DEF g
    <3>1. DOMAIN g = 0 .. n + 1 /\ g = [i \in 0 .. n + 1 |-> g[i]]
      BY DEF g
    <3> QED BY <2>3, <3>1
  <2> HIDE DEF g
  <2> QED BY <1>0, <2>4
<1> HIDE DEF N
<1>3. Nat \subseteq N
    BY <1>1, <1>2, NatSetInduction
<1> QED BY <1>3 DEF N

LEMMA GridExtractIs ==
    ASSUME NEW p, NEW e, NEW levels, NEW heights, Len(p["places"]) \in Nat,
           GridForecast_extract_forecast(p, e, levels, heights).ok
    PROVE  \E f : /\ GridTurns(f, Len(p["places"]), p, e, levels, heights)
                  /\ GridForecast_extract_forecast(p, e, levels, heights) = f[Len(p["places"])]
<1> DEFINE n == Len(p["places"])
           F == CHOOSE f : GridTurns(f, n, p, e, levels, heights)
           r == GridForecast_extract_forecast(p, e, levels, heights)
<1>1. GridTurns(F, n, p, e, levels, heights)
    BY GridTurnsExist
<1>2. r = IF ~e.grid_enabled THEN NoCode ELSE F[n]
    BY DEF GridForecast_extract_forecast, GridTurns, GridStep, GridNoRows, Then
<1>3. ~NoCode.ok
    BY DEF NoCode, Fail, Throw
<1> HIDE DEF F
<1>4. r = F[n]
    BY <1>2, <1>3
<1> QED BY <1>1, <1>4

\* The producers the grid engine is asked for.
LEMMA ProducersAsked ==
    ASSUME NEW p, NEW e, IsVector(p["model"]), \A name \in DOMAIN e.mappings : IsVector(e.mappings[name])
    PROVE  IsVector(producer_list(p, e))
<1> DEFINE models == p["model"]
           n == Len(models)
           Names(i) == IF models[i] \in DOMAIN e.mappings THEN e.mappings[models[i]] ELSE <<models[i]>>
           lists == [i \in DOMAIN models |-> Names(i)]
<1>1. producer_list(p, e) = FlattenSeq(lists)
    BY DEF producer_list
<1>2. n \in Nat /\ DOMAIN models = 1 .. n
    BY VectorOf
<1>3. \A i : IsVector(Names(i))
    BY SingleVector
<1> HIDE DEF n, Names, models
<1>4. IsList(lists, n) /\ \A i \in 1 .. n : lists[i] = Names(i)
    BY <1>2 DEF IsList
<1> HIDE DEF lists
<1>5. \A i \in 1 .. n : IsVector(lists[i])
    BY <1>3, <1>4
<1>6. IsVector(FlattenSeq(lists))
    BY <1>2, <1>4, <1>5, FlattenMembers
<1> QED BY <1>1, <1>6

LEMMA ProducerTaken ==
    ASSUME NEW e, NEW q, IsVector(e.order), IsVector(q.producers), executeQuery(e, q).ok
    PROVE  executeQuery(e, q).val \in DOMAIN e.models
<1> DEFINE asked == IF q.producers = <<>> THEN e.order ELSE q.producers
           fit == {i \in DOMAIN asked : /\ asked[i] \in DOMAIN e.models /\ q.place \in e.models[asked[i]].places
                                        /\ e.models[asked[i]].runs # <<>>}
           fits == Picked(asked, fit)
           sel == executeQuery(e, q)
<1>1. sel = IF e.fails \/ fits = <<>> THEN throw_query_server_error ELSE Ok(fits[1])
    BY DEF executeQuery
<1>2. ~throw_query_server_error.ok
    BY DEF throw_query_server_error, NoCode, Fail, Throw
<1>3. IsVector(asked)
    OBVIOUS
<1>4. fit \subseteq DOMAIN asked /\ \A i \in fit : asked[i] \in DOMAIN e.models
    OBVIOUS
<1> HIDE DEF asked, fit
<1>5. Len(asked) \in Nat /\ DOMAIN asked = 1 .. Len(asked)
    BY <1>3, VectorOf
<1>6. fit \in SUBSET (1 .. Len(asked))
    BY <1>4, <1>5
<1>7. PickedFrom(fits, asked, fit)
    BY <1>5, <1>6, PickedIs
<1> HIDE DEF fits, sel
<1>8. fits # <<>> /\ sel.val = fits[1]
    BY <1>1, <1>2 DEF Ok, sel
<1>9. IsVector(fits) /\ \A m \in DOMAIN fits : fits[m] \in DOMAIN e.models
    BY <1>4, <1>7 DEF PickedFrom
<1>10. 1 \in DOMAIN fits
  <2> DEFINE T == Range(fits)
  <2>1. fits \in Seq(T)
    BY <1>9 DEF IsVector
  <2> HIDE DEF T
  <2> QED BY <1>8, <2>1
<1>11. sel.val \in DOMAIN e.models
    BY <1>8, <1>9, <1>10
<1> QED BY <1>11 DEF sel

LEMMA GridTurnAtNumbers ==
    ASSUME NEW p, NEW e, NEW levels, NEW heights,
           \A m \in DOMAIN e.models : IsVector(e.models[m].times),
           IsVector(p["model"]), \A name \in DOMAIN e.mappings : IsVector(e.mappings[name]), IsVector(e.order),
           NEW place \in Int, NEW st, AtNumbers(st.rows), processGridQuery(p, e, place, levels, heights, st).ok
    PROVE  AtNumbers(processGridQuery(p, e, place, levels, heights, st).val.rows)
<1> DEFINE q == grid_query(p, e, place, levels, heights)
           sel == executeQuery(e, q)
           producer == sel.val
           model == e.models[producer]
           tm == model.times
           S == {i \in DOMAIN tm : p["begintime"][1] <= tm[i] /\ tm[i] <= p["endtime"][1]}
           times == time_list(p, model)
           values == set_data_values(p, e)
           Row(t) == [site |-> place, level |-> 0, time |-> times[t], producer |-> producer,
                      origin |-> Last(model.runs), values |-> values]
           rows == [t \in DOMAIN times |-> Row(t)]
           old == st.rows
           new == [reported |-> set_origin_time_and_area(p, e, producer, st, rows), rows |-> old \o rows,
                   rowCount |-> st.rowCount + (IF rows = <<>> THEN 1 ELSE Len(rows)),
                   shifted |-> st.shifted \/ (rows # <<>> /\ st.rowCount # Len(st.rows))]
           r == processGridQuery(p, e, place, levels, heights, st)
<1>1. r = IF sel.ok THEN Ok(new) ELSE sel
    BY DEF processGridQuery, Then
<1>2. sel.ok
  <2> HIDE DEF sel, new
  <2> QED BY <1>1
<1>3. r.val.rows = old \o rows
  <2>1. new.rows = old \o rows
    <3> HIDE DEF rows, old
    <3> QED OBVIOUS
  <2> HIDE DEF new, sel, r
  <2>2. r = Ok(new)
    BY <1>1, <1>2
  <2>3. r.val = new
    BY <2>2 DEF Ok
  <2> QED BY <2>1, <2>3
<1>4. producer \in DOMAIN e.models
  <2>1. q.producers = producer_list(p, e)
    BY DEF grid_query
  <2> HIDE DEF q
  <2>2. IsVector(q.producers)
    BY <2>1, ProducersAsked
  <2> QED BY <1>2, <2>2, ProducerTaken
<1>5. IsVector(times)
  <2>1. times = Picked(tm, S) /\ S \in SUBSET DOMAIN tm
    BY DEF time_list
  <2>2. IsVector(tm)
    BY <1>4
  <2> HIDE DEF times, tm, S
  <2>3. Len(tm) \in Nat /\ DOMAIN tm = 1 .. Len(tm)
    BY <2>2, VectorOf
  <2> QED BY <2>1, <2>3, PickedMembers
<1>6. \A t : Row(t).site = place
    OBVIOUS
<1>7. AtNumbers(old)
    OBVIOUS
<1> HIDE DEF times, Row, old, r
<1>8. IsVector(rows) /\ \A k \in DOMAIN rows : rows[k].site = place
  <2>1. Len(times) \in Nat /\ IsList(rows, Len(times))
    BY <1>5, VectorOf DEF IsList
  <2>2. \A k \in DOMAIN rows : rows[k].site = place
    BY <1>6
  <2> HIDE DEF rows
  <2> QED BY <2>1, <2>2, ListOf
<1> HIDE DEF rows
<1>9. AtNumbers(old \o rows)
    BY <1>7, <1>8, MoreRows
<1> QED BY <1>3, <1>9 DEF r

LEMMA GridForecastAtNumbers ==
    ASSUME NEW p, NEW e, NEW levels, NEW heights,
           \A m \in DOMAIN e.models : IsVector(e.models[m].times),
           IsVector(p["model"]), \A name \in DOMAIN e.mappings : IsVector(e.mappings[name]), IsVector(e.order),
           IsVector(p["places"]), \A i \in DOMAIN p["places"] : p["places"][i] \in Int,
           GridForecast_extract_forecast(p, e, levels, heights).ok
    PROVE  AtNumbers(GridForecast_extract_forecast(p, e, levels, heights).val.rows)
<1> DEFINE n == Len(p["places"])
<1>1. n \in Nat /\ DOMAIN p["places"] = 1 .. n
    BY VectorOf
<1> HIDE DEF n
<1>2. PICK f : /\ GridTurns(f, n, p, e, levels, heights)
               /\ GridForecast_extract_forecast(p, e, levels, heights) = f[n]
    BY <1>1, GridExtractIs DEF n
<1>3. \A i \in 0 .. n : f[i] = IF i = 0 THEN GridNoRows(p) ELSE GridStep(p, e, levels, heights, i, f[i - 1])
    BY <1>2 DEF GridTurns
<1> DEFINE N == {k \in Nat : k <= n /\ f[k].ok => AtNumbers(f[k].val.rows)}
<1>4. 0 \in N
  <2>1. GridNoRows(p).val.rows = <<>>
    BY DEF GridNoRows, Ok
  <2>2. AtNumbers(<<>>)
    BY DEF IsVector, AtNumbers
  <2>3. f[0] = GridNoRows(p)
    BY <1>1, <1>3
  <2> QED BY <2>1, <2>2, <2>3
<1>5. ASSUME NEW k \in Nat, k \in N PROVE k + 1 \in N
  <2> SUFFICES ASSUME k + 1 <= n, f[k + 1].ok PROVE AtNumbers(f[k + 1].val.rows)
    OBVIOUS
  <2> DEFINE i == k + 1
             st == f[k].val
             place == p["places"][i]
             turn == processGridQuery(p, e, place, levels, heights, st)
  <2>1. i \in 0 .. n /\ i # 0 /\ i - 1 = k /\ k <= n /\ i \in 1 .. n
    BY <1>1
  <2>2. f[i] = GridStep(p, e, levels, heights, i, f[k])
    BY <1>3, <2>1
  <2>3. f[k].ok /\ f[i] = turn /\ turn.ok
    BY <2>2 DEF GridStep
  <2>4. AtNumbers(st.rows) /\ place \in Int
    BY <1>1, <1>5, <2>1, <2>3
  <2> HIDE DEF st, place
  <2>5. AtNumbers(turn.val.rows)
    BY <2>3, <2>4, GridTurnAtNumbers
  <2> QED BY <2>3, <2>5
<1> HIDE DEF N
<1>6. n \in N
    BY <1>1, <1>4, <1>5, NatSetInduction
<1> QED BY <1>1, <1>2, <1>6 DEF N

LEMMA GridForecastRowsOnce ==
    ASSUME IInv, h.handler = "gridforecast", response.ok
    PROVE  RowsOnce
<1> DEFINE heights == parse_level_heights(par)
           levels == parse_levels(par)
           out == GridForecast_extract_forecast(par, eng, levels.val, heights.val)
           st == out.val
           gs == Forecast_groups(h, par, st)
           answer == [begin |-> par["begintime"][1], end |-> par["endtime"][1], box |-> <<>>, groups |-> gs]
           formatted == format_output(eng, answer)
           last == IF st.shifted \/ ~tz_known(par, eng) THEN NoCode ELSE formatted
           r6 == IF out.ok THEN last ELSE out
           c5 == create_transformation(par["crs"][1], eng)
           r5 == IF c5.ok THEN r6 ELSE c5
           c4 == Singles(par, {"begintime", "endtime", "crs"})
           r4 == IF c4.ok THEN r5 ELSE c4
           r2 == IF levels.ok THEN r4 ELSE levels
           r1 == IF heights.ok THEN r2 ELSE heights
           c0 == get_location_options(par, eng)
           r0 == IF c0.ok THEN r1 ELSE c0
           ra == IF par["locale"][1] \notin eng.locales THEN ProcessingFailed ELSE r0
           cb == Singles(par, {"missingtext", "locale", "maxdistance", "findnearestvalid"})
           r == IF cb.ok THEN ra ELSE cb
<1>0. response = GridForecast_query(h, par, eng)
    BY DEF IInv, Answered
<1>1. GridForecast_query(h, par, eng) = IF r.ok THEN r ELSE ParsingFailed
    BY DEF GridForecast_query, Then
<1>2. ~ParsingFailed.ok /\ ~ProcessingFailed.ok /\ ~NoCode.ok
    BY DEF ParsingFailed, ProcessingFailed, NoCode, Fail, Throw
<1>3. r.ok /\ response = r
    BY <1>0, <1>1, <1>2
<1> HIDE DEF gs, formatted, out, heights, levels, c5, c4, c0, cb
<1>4. response = formatted /\ formatted.ok /\ out.ok
    BY <1>2, <1>3
<1>5. formatted = Ok(answer)
    BY <1>2, <1>4 DEF formatted, format_output
<1>6. response.val.groups = gs
    BY <1>4, <1>5 DEF Ok
<1>7. {"places", "model"} \subseteq registered[h.handler].other
    BY DEF registered, Forecast_registered
<1>8. /\ IsVector(par["places"]) /\ IsVector(par["model"])
      /\ \A m \in DOMAIN eng.models : IsVector(eng.models[m].times)
    BY <1>7, Vectors
<1>9. \A i \in DOMAIN par["places"] : par["places"][i] \in Int
    BY <1>7, RowsNumbered
<1>10. IsVector(eng.order) /\ \A name \in DOMAIN eng.mappings : IsVector(eng.mappings[name])
  <2>1. eng.order \in Possible("order") /\ eng.mappings \in Possible("mappings")
    BY EnginesAssumption DEF IInv, InputsRight
  <2> QED BY <2>1, EnginesAssumption
<1>11. AtNumbers(st.rows)
    BY <1>4, <1>8, <1>9, <1>10, GridForecastAtNumbers DEF out
<1> HIDE DEF st
<1>12. Once(gs)
    BY <1>11, ForecastGroupsOnce DEF AtNumbers, gs
<1> QED BY <1>6, <1>12, ResponseGroupsOnce

\* Stations: each is listed once, with a row of its own.
LEMMA ListedOnce ==
    ASSUME NEW rows, IsVector(rows), \A i \in DOMAIN rows : rows[i].station \in Int,
           NEW S, S \subseteq {rows[i].station : i \in DOMAIN rows}
    PROVE  Distinct(Ordered(S))
<1> DEFINE n == Len(rows)
           f == [i \in 1 .. n |-> rows[i].station]
           listed == Ordered(S)
<1>1. n \in Nat /\ DOMAIN rows = 1 .. n
    BY VectorOf
<1> HIDE DEF n
<1>2. f \in [1 .. n -> Int] /\ S \subseteq Range(f)
    BY <1>1 DEF Range
<1>3. Range(f) \subseteq Int
    BY <1>2 DEF Range
<1> HIDE DEF f
<1>4. IsVector(listed) /\ Range(listed) = S /\ \A i, j \in DOMAIN listed : i < j => listed[i] < listed[j]
    BY <1>1, <1>2, OrderedNumbers
<1> HIDE DEF listed
<1>5. \A i \in DOMAIN listed : listed[i] \in Int
  <2>1. \A x \in S : x \in Int
    BY <1>2, <1>3
  <2> QED BY <1>4, <2>1 DEF Range
<1>6. Distinct(listed)
    BY <1>4, <1>5, IncreasingDistinct
<1> QED BY <1>6 DEF listed

LEMMA StationsOnce ==
    ASSUME NEW p, NEW e, DatabaseRight(e.db)
    PROVE  Once(FacilityGroups(p, e, ValidStations(p, e)))
<1> DEFINE valid == ValidStations(p, e)
           groups == getStationGroupData(e, valid)
           S == valid \cap DOMAIN groups
           listed == Ordered(S)
           Station(s) == Facility_station(s, getStationCapabilities(p, e, valid), groups,
                                          getStationNetworkMembershipData(e, valid))
           gs == FacilityGroups(p, e, valid)
           rows == rows_read(e, "groups")
<1>1. gs = [k \in DOMAIN listed |-> Station(listed[k])]
    BY DEF FacilityGroups
<1>2. 0 \notin valid
    BY DEF ValidStations
<1>3. DatabaseQuery(e.db, "groups")
    BY DEF DatabaseRight
<1>4. /\ IsVector(rows)
      /\ \A i \in DOMAIN rows : \E k \in DOMAIN e.db["groups"] : rows[i] = e.db["groups"][k]
    BY <1>3, ReadRows
<1>5. \A i \in DOMAIN rows : rows[i].station \in Int
    BY <1>3, <1>4 DEF DatabaseQuery
<1>6. Sorted(rows, valid, groups)
    BY <1>4, ByStation DEF getStationGroupData
<1>7. \A s \in S : DOMAIN Station(s).rows = {1} /\ Station(s).rows[1].row = s
  <2> SUFFICES ASSUME NEW s \in S PROVE DOMAIN Station(s).rows = {1} /\ Station(s).rows[1].row = s
    OBVIOUS
  <2>1. s \in valid \cap DOMAIN getStationGroupData(e, valid) /\ s # 0
    BY <1>2
  <2> HIDE DEF valid
  <2> QED BY <2>1, StationShown
<1> HIDE DEF rows, groups, valid, Station, gs
<1>8. S \subseteq {rows[i].station : i \in DOMAIN rows}
    BY <1>6 DEF Sorted
<1> HIDE DEF S
<1>9. Distinct(listed) /\ Range(listed) = S
    BY <1>4, <1>5, <1>8, ListedOnce, StationsListed
<1> HIDE DEF listed
<1>10. \A k \in DOMAIN gs : k \in DOMAIN listed /\ DOMAIN gs[k].rows = {1} /\ gs[k].rows[1].row = listed[k]
    BY <1>1, <1>7, <1>9 DEF Range
<1>11. Once(gs)
  <2> SUFFICES ASSUME NEW k \in DOMAIN gs, NEW l \in DOMAIN gs, NEW i \in DOMAIN gs[k].rows, NEW j \in DOMAIN gs[l].rows,
                      gs[k].rows[i].row = gs[l].rows[j].row
               PROVE  k = l /\ i = j
    BY DEF Once
  <2>1. i = 1 /\ j = 1
    BY <1>10
  <2>2. listed[k] = listed[l] /\ k \in DOMAIN listed /\ l \in DOMAIN listed
    BY <1>10, <2>1
  <2> QED BY <1>9, <2>1, <2>2 DEF Distinct
<1> QED BY <1>11 DEF gs, valid

LEMMA FacilityRowsOnce ==
    ASSUME IInv, h.handler = "facility", response.ok
    PROVE  RowsOnce
<1>1. response = Facility_query(par, eng)
    BY DEF IInv, Answered
<1>2. response.val.groups = FacilityGroups(par, eng, ValidStations(par, eng))
    BY <1>1, FacilityAnswer
<1>3. Once(response.val.groups)
    BY <1>2, DatabaseIsRight, StationsOnce
<1> QED BY <1>3, ResponseGroupsOnce

\* Grids: a row for each level, parameter and time.
LEMMA GridsOnce ==
    ASSUME NEW p, IsVector(p["meteo"]), NEW model, IsVector(model.levels),
           NEW points, NEW times, NEW width, Grid_levels(p, model, points, times, width).ok
    PROVE  Once(Grid_levels(p, model, points, times, width).val)
<1> DEFINE names == p["meteo"]
           infos == add_param_info(names)
           n == Len(names)
           m == Len(model.levels)
           grids == grid_time_series(points, times, width)
           Made(l, i) == [ids |-> [feature_id |-> <<l, infos[i]>>],
                          rows |-> [t \in DOMAIN grids.val |->
                                       [row |-> <<l, i, t>>,
                                        data |-> [label |-> infos[i], name |-> names[i], grid |-> grids.val[t]]]]]
           Group(l, i) == IF i \notin DOMAIN infos THEN Throw("undefined", "none")
                          ELSE IF grids.ok THEN Ok(Made(l, i)) ELSE grids
           level(l) == [i \in DOMAIN names |-> Group(l, i)]
           levels == [l \in DOMAIN model.levels |-> All(level(l))]
           made == All(levels)
<1>1. Grid_levels(p, model, points, times, width) = IF made.ok THEN Ok(FlattenSeq(made.val)) ELSE made
    BY DEF Grid_levels, Then
<1>2. n \in Nat /\ DOMAIN names = 1 .. n /\ m \in Nat /\ DOMAIN model.levels = 1 .. m
    BY VectorOf
<1>3. \A l, i : \A t \in DOMAIN Made(l, i).rows : Made(l, i).rows[t].row = <<l, i, t>>
    OBVIOUS
<1> HIDE DEF Made
<1>4. \A l, i : Group(l, i).ok => Group(l, i).val = Made(l, i)
    BY DEF Ok, Throw
<1> HIDE DEF Group, grids, infos
<1>5. \A l : DOMAIN level(l) = 1 .. n /\ \A i \in 1 .. n : level(l)[i] = Group(l, i)
    BY <1>2
<1> HIDE DEF level
<1>6. DOMAIN levels = 1 .. m /\ \A l \in 1 .. m : levels[l] = All(level(l))
    BY <1>2
<1> HIDE DEF levels, n, m, names
<1>7. made.ok
    BY <1>1
<1>8. made = Ok([l \in 1 .. m |-> levels[l].val]) /\ \A l \in 1 .. m : levels[l].ok
    BY <1>2, <1>6, <1>7, AllOk
<1>9. \A l \in 1 .. m : levels[l].val = [i \in 1 .. n |-> Made(l, i)]
  <2> SUFFICES ASSUME NEW l \in 1 .. m PROVE levels[l].val = [i \in 1 .. n |-> Made(l, i)]
    OBVIOUS
  <2>1. All(level(l)).ok
    BY <1>6, <1>8
  <2>2. All(level(l)) = Ok([i \in 1 .. n |-> level(l)[i].val]) /\ \A i \in 1 .. n : level(l)[i].ok
    BY <1>2, <1>5, <2>1, AllOk
  <2>3. \A i \in 1 .. n : level(l)[i].val = Made(l, i)
    BY <1>4, <1>5, <2>2
  <2>4. All(level(l)).val = [i \in 1 .. n |-> level(l)[i].val]
    BY <2>2 DEF Ok
  <2> QED BY <1>6, <2>3, <2>4
<1> DEFINE parts == made.val
           f == FlattenSeq(parts)
<1>10. parts = [l \in 1 .. m |-> levels[l].val]
    BY <1>8 DEF Ok
<1> HIDE DEF made, parts
<1>11. IsList(parts, m) /\ \A l \in 1 .. m : IsVector(parts[l]) /\ \A i \in DOMAIN parts[l] : parts[l][i] = Made(l, i)
  <2>1. IsList(parts, m) /\ \A l \in 1 .. m : parts[l] = [i \in 1 .. n |-> Made(l, i)]
    BY <1>9, <1>10 DEF IsList
  <2>2. ASSUME NEW l \in 1 .. m PROVE IsVector(parts[l]) /\ \A i \in DOMAIN parts[l] : parts[l][i] = Made(l, i)
    <3> DEFINE s == parts[l]
    <3>1. s = [i \in 1 .. n |-> Made(l, i)]
      BY <2>1
    <3> HIDE DEF s
    <3>2. IsList(s, n) /\ \A i \in DOMAIN s : s[i] = Made(l, i)
      BY <3>1 DEF IsList
    <3>3. IsVector(s)
      BY <1>2, <3>2, ListOf
    <3> QED BY <3>2, <3>3 DEF s
  <2> QED BY <2>1, <2>2
<1>12. \A k \in DOMAIN f : \E l \in 1 .. m : \E i \in DOMAIN parts[l] : f[k] = parts[l][i]
    BY <1>2, <1>11, FlattenMembers
<1>13. ASSUME \A l, i : DOMAIN Made(l, i).rows # {} PROVE Distinct(f)
  <2>1. ASSUME NEW l \in DOMAIN parts, NEW k \in DOMAIN parts, NEW i \in DOMAIN parts[l], NEW j \in DOMAIN parts[k],
               parts[l][i] = parts[k][j]
        PROVE  l = k /\ i = j
    <3>1. l \in 1 .. m /\ k \in 1 .. m
      BY <1>11 DEF IsList
    <3>2. Made(l, i) = Made(k, j)
      BY <1>11, <2>1, <3>1
    <3>3. PICK t : t \in DOMAIN Made(l, i).rows
      BY <1>13
    <3>4. <<l, i, t>> = <<k, j, t>>
      BY <1>3, <3>2, <3>3
    <3> QED BY <3>4
  <2>2. AllDistinct(parts)
    BY <2>1 DEF AllDistinct
  <2> QED BY <1>2, <1>11, <2>2, FlattenDistinct
<1>14. \A l, i, k, j : DOMAIN Made(l, i).rows = DOMAIN Made(k, j).rows
    BY DEF Made
<1>15. Grid_levels(p, model, points, times, width).val = f
    BY <1>1, <1>7 DEF Ok, f, parts
<1> HIDE DEF f
<1>16. \A k \in DOMAIN f : \E l, i : f[k] = Made(l, i)
    BY <1>11, <1>12
<1>17. Once(f)
  <2> SUFFICES ASSUME NEW k \in DOMAIN f, NEW q \in DOMAIN f, NEW t \in DOMAIN f[k].rows, NEW u \in DOMAIN f[q].rows,
                      f[k].rows[t].row = f[q].rows[u].row
               PROVE  k = q /\ t = u
    BY DEF Once
  <2>1. PICK l, i : f[k] = Made(l, i)
    BY <1>16
  <2>2. PICK a, b : f[q] = Made(a, b)
    BY <1>16
  <2>3. <<l, i, t>> = <<a, b, u>>
    BY <1>3, <2>1, <2>2
  <2>4. l = a /\ i = b /\ t = u
    BY <2>3
  <2>5. \A x, y : DOMAIN Made(x, y).rows # {}
    BY <1>14, <2>1
  <2> QED BY <1>13, <2>1, <2>2, <2>4, <2>5 DEF Distinct
<1> QED BY <1>15, <1>17

LEMMA GridRowsOnce ==
    ASSUME IInv, h.handler = "grid", response.ok
    PROVE  RowsOnce
<1>1. response = Grid_query(h, par, eng) /\ Grid_query(h, par, eng).ok
    BY DEF IInv, Answered
<1>2. IsVector(par["meteo"]) /\ \A m \in DOMAIN eng.models : IsVector(eng.models[m].levels)
  <2>1. registered[h.handler] = Grid_registered
    BY DEF registered
  <2>2. "meteo" \in registered[h.handler].other
    BY <2>1 DEF Grid_registered
  <2> QED BY <2>2, Vectors
<1> DEFINE model == eng.models[par["producer"][1]]
           gs == response.val.groups
<1>3. par["producer"][1] \in DOMAIN eng.models
    BY <1>1, GridAnswer
<1>4. PICK points, times, width :
          Grid_levels(par, model, points, times, width).ok /\ gs = Grid_levels(par, model, points, times, width).val
    BY <1>1, GridAnswer
<1>5. IsVector(model.levels)
    BY <1>2, <1>3
<1> HIDE DEF model
<1>6. Once(gs)
    BY <1>2, <1>4, <1>5, GridsOnce
<1> QED BY <1>6, ResponseGroupsOnce

\* Contours: a row for each part of each.
Drawn(geoms) == \A i \in DOMAIN geoms : geoms[i].parts \in Nat
StepsDrawn(steps) == IsVector(steps) /\ \A k \in DOMAIN steps : Drawn(steps[k].geoms)

LEMMA TimeStepsDrawn ==
    ASSUME NEW p, NEW e, NEW grid, NEW limits, IsVector(limits), IsVector(e.times),
           \A l \in DOMAIN e.parts : e.parts[l] \in Nat, getContours(p, e, grid, limits).ok
    PROVE  StepsDrawn(getContours(p, e, grid, limits).val)
<1> DEFINE all == time_list(p, e)
           geoms == contour(e, limits)
           decoded == wkb_geometries(e, geoms)
<1>1. IsVector(all)
  <2> DEFINE S == {i \in DOMAIN e.times : p["begintime"][1] <= e.times[i] /\ e.times[i] <= p["endtime"][1]}
  <2>1. Len(e.times) \in Nat /\ DOMAIN e.times = 1 .. Len(e.times) /\ S \in SUBSET (1 .. Len(e.times))
    BY VectorOf
  <2>2. all = Picked(e.times, S)
    BY DEF time_list
  <2> HIDE DEF S, all
  <2> QED BY <2>1, <2>2, PickedMembers
<1> HIDE DEF all
<1>2. Len(all) \in Nat /\ DOMAIN all = 1 .. Len(all)
    BY <1>1, VectorOf
<1>3. StepsDrawn(<<>>)
    BY DEF StepsDrawn, IsVector
<1>4. Len(limits) \in Nat /\ DOMAIN geoms = 1 .. Len(limits) /\ Drawn(geoms)
  <2>1. Len(limits) \in Nat /\ DOMAIN limits = 1 .. Len(limits)
    BY VectorOf
  <2>2. DOMAIN geoms = DOMAIN limits /\ \A i \in DOMAIN geoms : geoms[i].parts \in Nat
    BY DEF contour
  <2> QED BY <2>1, <2>2 DEF Drawn
<1> HIDE DEF geoms
<1>5. Drawn(decoded)
  <2> DEFINE S == {i \in DOMAIN geoms : geoms[i].limits \notin e.undecodable}
  <2>1. decoded = Picked(geoms, S)
    BY DEF wkb_geometries
  <2>2. S \in SUBSET (1 .. Len(limits)) /\ S \subseteq DOMAIN geoms
    BY <1>4
  <2> HIDE DEF S, decoded
  <2>3. \A m \in DOMAIN decoded : \E i \in S : decoded[m] = geoms[i]
    BY <1>4, <2>1, <2>2, PickedMembers
  <2> QED BY <1>4, <2>2, <2>3 DEF Drawn
<1> HIDE DEF decoded
<1>6. StepsDrawn(getContours_qEngine(p, e, limits))
  <2> DEFINE S == {i \in DOMAIN all : all[i] \notin e.lost}
             times == Picked(all, S)
             steps == [k \in DOMAIN times |-> [time |-> times[k], geoms |-> geoms]]
  <2>1. getContours_qEngine(p, e, limits) = IF limits = <<>> THEN <<>> ELSE steps
    BY DEF getContours_qEngine, all, geoms
  <2>2. S \in SUBSET (1 .. Len(all))
    BY <1>2
  <2> HIDE DEF S
  <2>3. IsVector(times)
    BY <1>2, <2>2, PickedMembers
  <2> HIDE DEF times
  <2>4. Len(times) \in Nat /\ DOMAIN times = 1 .. Len(times)
    BY <2>3, VectorOf
  <2>5. IsList(steps, Len(times)) /\ \A k \in DOMAIN steps : steps[k].geoms = geoms
    BY <2>4 DEF IsList
  <2> HIDE DEF steps
  <2>6. StepsDrawn(steps)
    BY <1>4, <2>4, <2>5, ListOf DEF StepsDrawn
  <2> QED BY <1>3, <2>1, <2>6
<1>7. getContours_gridEngine(p, e, limits).ok => StepsDrawn(getContours_gridEngine(p, e, limits).val)
  <2> SUFFICES ASSUME getContours_gridEngine(p, e, limits).ok
               PROVE  StepsDrawn(getContours_gridEngine(p, e, limits).val)
    OBVIOUS
  <2> DEFINE steps == [k \in DOMAIN all |-> [time |-> all[k], geoms |-> decoded]]
             S == {k \in DOMAIN steps : steps[k].geoms # <<>>}
             out == Picked(steps, S)
  <2>1. getContours_gridEngine(p, e, limits) = IF e.fails THEN throw_query_server_error ELSE Ok(out)
    BY DEF getContours_gridEngine, all, decoded, geoms
  <2>2. ~throw_query_server_error.ok
    BY DEF throw_query_server_error, NoCode, Fail, Throw
  <2>3. DOMAIN steps = 1 .. Len(all) /\ \A k \in DOMAIN steps : steps[k].geoms = decoded
    BY <1>2
  <2> HIDE DEF steps
  <2>4. S \in SUBSET (1 .. Len(all)) /\ S \subseteq DOMAIN steps
    BY <2>3
  <2> HIDE DEF S
  <2>5. IsVector(out) /\ \A m \in DOMAIN out : \E i \in S : out[m] = steps[i]
    BY <1>2, <2>3, <2>4, PickedMembers
  <2> HIDE DEF out
  <2>6. StepsDrawn(out)
    BY <1>5, <2>3, <2>4, <2>5 DEF StepsDrawn
  <2> QED BY <2>1, <2>2, <2>6 DEF Ok
<1>8. ~Throw("crash", "none").ok
    BY DEF Throw
<1> DEFINE r == getContours(p, e, grid, limits)
<1>9. \/ r = getContours_gridEngine(p, e, limits)
      \/ r = Ok(<<>>)
      \/ r = Throw("crash", "none")
      \/ r = Ok(getContours_qEngine(p, e, limits))
    BY DEF getContours
<1> HIDE DEF r
<1>10. StepsDrawn(r.val)
    BY <1>3, <1>6, <1>7, <1>8, <1>9 DEF r, Ok
<1> QED BY <1>10 DEF r

LEMMA ContoursDrawn ==
    ASSUME NEW limits, IsVector(limits), NEW steps, StepsDrawn(steps)
    PROVE  LET results == label_contours(limits, steps)
           IN  IsVector(results) /\ \A m \in DOMAIN results : results[m].geom.parts \in Nat
<1> DEFINE n == Len(limits)
           S(i) == {k \in DOMAIN steps : i \in DOMAIN steps[k].geoms}
           with(i) == Picked(steps, S(i))
           Part(i) == [k \in DOMAIN with(i) |-> [label |-> limits[i], time |-> with(i)[k].time, geom |-> with(i)[k].geoms[i]]]
           parts == [i \in DOMAIN limits |-> Part(i)]
<1>1. label_contours(limits, steps) = FlattenSeq(parts)
    BY DEF label_contours
<1>2. n \in Nat /\ DOMAIN limits = 1 .. n
    BY VectorOf
<1>3. /\ Len(steps) \in Nat /\ DOMAIN steps = 1 .. Len(steps) /\ \A i : S(i) \in SUBSET (1 .. Len(steps))
      /\ \A i : \A k \in S(i) : steps[k].geoms[i].parts \in Nat
    BY VectorOf DEF StepsDrawn, Drawn
<1> HIDE DEF S, n
<1>4. \A i : IsVector(with(i)) /\ \A m \in DOMAIN with(i) : with(i)[m].geoms[i].parts \in Nat
  <2> SUFFICES ASSUME NEW i PROVE IsVector(with(i)) /\ \A m \in DOMAIN with(i) : with(i)[m].geoms[i].parts \in Nat
    OBVIOUS
  <2>1. IsVector(with(i)) /\ \A m \in DOMAIN with(i) : \E k \in S(i) : with(i)[m] = steps[k]
    BY <1>3, PickedMembers
  <2> HIDE DEF with
  <2> QED BY <1>3, <2>1
<1> HIDE DEF with
<1>5. \A i : IsVector(Part(i)) /\ \A k \in DOMAIN Part(i) : Part(i)[k].geom.parts \in Nat
  <2> SUFFICES ASSUME NEW i PROVE IsVector(Part(i)) /\ \A k \in DOMAIN Part(i) : Part(i)[k].geom.parts \in Nat
    OBVIOUS
  <2> DEFINE s == Part(i)
             m == Len(with(i))
  <2>1. m \in Nat /\ DOMAIN with(i) = 1 .. m
    BY <1>4, VectorOf
  <2>2. IsList(s, m) /\ \A k \in DOMAIN s : s[k].geom.parts \in Nat
    BY <1>4, <2>1 DEF IsList
  <2> HIDE DEF s, m
  <2>3. IsVector(s)
    BY <2>1, <2>2, ListOf
  <2> QED BY <2>2, <2>3 DEF s
<1>6. IsList(parts, n) /\ \A i \in 1 .. n : parts[i] = Part(i)
    BY <1>2 DEF IsList
<1> HIDE DEF Part, parts
<1> DEFINE f == FlattenSeq(parts)
<1>7. IsVector(f) /\ \A m \in DOMAIN f : \E i \in 1 .. n : \E j \in DOMAIN parts[i] : f[m] = parts[i][j]
  <2>1. \A i \in 1 .. n : IsVector(parts[i])
    BY <1>5, <1>6
  <2> QED BY <1>2, <1>6, <2>1, FlattenMembers
<1> HIDE DEF f
<1>8. \A m \in DOMAIN f : f[m].geom.parts \in Nat
    BY <1>5, <1>6, <1>7
<1> QED BY <1>1, <1>7, <1>8 DEF f

LEMMA MembersOnce ==
    ASSUME NEW results, IsVector(results), \A m \in DOMAIN results : results[m].geom.parts \in Nat
    PROVE  LET members == parseQueryResults(results)
           IN  \A m, k \in DOMAIN members : members[m].row = members[k].row => m = k
<1> DEFINE n == Len(results)
           Item(k, i) == [row |-> <<k, i>>,
                          data |-> [label |-> results[k].label, limits |-> results[k].geom.limits, time |-> results[k].time]]
           Part(k) == [i \in 1 .. results[k].geom.parts |-> Item(k, i)]
           parts == [k \in DOMAIN results |-> Part(k)]
           f == FlattenSeq(parts)
<1>1. parseQueryResults(results) = f
    BY DEF parseQueryResults
<1>2. n \in Nat /\ DOMAIN results = 1 .. n
    BY VectorOf
<1>3. \A k \in 1 .. n : IsVector(Part(k)) /\ \A i \in DOMAIN Part(k) : Part(k)[i] = Item(k, i)
  <2> SUFFICES ASSUME NEW k \in 1 .. n
               PROVE  IsVector(Part(k)) /\ \A i \in DOMAIN Part(k) : Part(k)[i] = Item(k, i)
    OBVIOUS
  <2> DEFINE s == Part(k)
             q == results[k].geom.parts
  <2>1. q \in Nat
    BY <1>2
  <2> HIDE DEF Item
  <2>2. IsList(s, q) /\ \A i \in DOMAIN s : s[i] = Item(k, i)
    BY DEF IsList
  <2> HIDE DEF s, q
  <2>3. IsVector(s)
    BY <2>1, <2>2, ListOf
  <2> QED BY <2>2, <2>3 DEF s
<1>4. \A k, i : Item(k, i).row = <<k, i>>
    OBVIOUS
<1>5. IsList(parts, n) /\ \A k \in 1 .. n : parts[k] = Part(k)
    BY <1>2 DEF IsList
<1> HIDE DEF Item, Part, parts, n
<1>6. \A k \in 1 .. n : IsVector(parts[k]) /\ \A i \in DOMAIN parts[k] : parts[k][i] = Item(k, i)
    BY <1>3, <1>5
<1>7. \A m \in DOMAIN f : \E k \in 1 .. n : \E i \in DOMAIN parts[k] : f[m] = parts[k][i]
    BY <1>2, <1>5, <1>6, FlattenMembers
<1>8. AllDistinct(parts)
  <2> SUFFICES ASSUME NEW k \in DOMAIN parts, NEW l \in DOMAIN parts, NEW i \in DOMAIN parts[k], NEW j \in DOMAIN parts[l],
                      parts[k][i] = parts[l][j]
               PROVE  k = l /\ i = j
    BY DEF AllDistinct
  <2>1. k \in 1 .. n /\ l \in 1 .. n
    BY <1>5 DEF IsList
  <2>2. <<k, i>> = <<l, j>>
    BY <1>4, <1>6, <2>1
  <2> QED BY <2>2
<1>9. Distinct(f)
    BY <1>2, <1>5, <1>6, <1>8, FlattenDistinct
<1> HIDE DEF f
<1>10. \A m \in DOMAIN f : \E k, i : f[m] = Item(k, i)
    BY <1>6, <1>7
<1>11. ASSUME NEW m \in DOMAIN f, NEW q \in DOMAIN f, f[m].row = f[q].row PROVE m = q
  <2>1. PICK k, i : f[m] = Item(k, i)
    BY <1>10
  <2>2. PICK l, j : f[q] = Item(l, j)
    BY <1>10
  <2>3. <<k, i>> = <<l, j>>
    BY <1>4, <1>11, <2>1, <2>2
  <2>4. k = l /\ i = j
    BY <2>3
  <2> QED BY <1>9, <2>1, <2>2, <2>4 DEF Distinct
<1> QED BY <1>1, <1>11

LEMMA ContourRowsOnce ==
    ASSUME IInv, h.handler = "contour", response.ok
    PROVE  RowsOnce
<1>1. response = Contour_query(h, par, eng) /\ Contour_query(h, par, eng).ok
    BY DEF IInv, Answered
<1>2. IsVector(par["limits"]) /\ IsVector(h.limits) /\ IsVector(eng.times)
      /\ \A limits \in DOMAIN eng.parts : eng.parts[limits] \in Nat
  <2>1. registered[h.handler] = Contour_registered
    BY DEF registered
  <2>2. "limits" \in registered[h.handler].other
    BY <2>1 DEF Contour_registered
  <2>3. eng.parts \in Possible("parts")
    BY EnginesAssumption DEF IInv, InputsRight
  <2>4. IsVector(h.limits)
    BY ConfiguredAssumption DEF IInv, InputsRight
  <2> QED BY <2>2, <2>3, <2>4, Vectors, EnginesAssumption
<1>3. PICK grid \in BOOLEAN : ContoursAnswered(h, par, eng, grid, response.val.groups)
    BY <1>1, ContourAnswer
<1> DEFINE limits == drawn_limits(h, par)
           steps == getContours(par, eng, grid, limits)
           results == label_contours(limits, steps.val)
           members == parseQueryResults(results)
           gs == response.val.groups
<1>4. /\ steps.ok
      /\ gs = [k \in DOMAIN members |-> [ids |-> [feature_id |-> members[k].row], rows |-> <<members[k]>>]]
    BY <1>3 DEF ContoursAnswered
<1>5. IsVector(limits)
    BY <1>2, DrawnLimits
<1> HIDE DEF limits
<1>6. StepsDrawn(steps.val)
    BY <1>2, <1>4, <1>5, TimeStepsDrawn
<1> HIDE DEF steps
<1>7. IsVector(results) /\ \A m \in DOMAIN results : results[m].geom.parts \in Nat
    BY <1>5, <1>6, ContoursDrawn
<1> HIDE DEF results
<1>8. \A m, k \in DOMAIN members : members[m].row = members[k].row => m = k
    BY <1>7, MembersOnce
<1> HIDE DEF members
<1>9. DOMAIN gs = DOMAIN members /\ \A k \in DOMAIN gs : gs[k].rows = <<members[k]>>
    BY <1>4
<1> HIDE DEF gs
<1>10. \A s, y, k : s = <<y>> /\ k \in DOMAIN s => k = 1 /\ s[k] = y
    OBVIOUS
<1>11. \A k \in DOMAIN gs : \A i \in DOMAIN gs[k].rows : i = 1 /\ gs[k].rows[i] = members[k]
    BY <1>9, <1>10
<1>12. Once(gs)
    BY <1>8, <1>9, <1>11 DEF Once
<1> QED BY <1>12, ResponseGroupsOnce DEF gs

\* The link of the parameters of the request: there is one.
LEMMA AtomRowsOnce ==
    ASSUME IInv, h.handler = "atom", response.ok
    PROVE  RowsOnce
<1> DEFINE sets == Atom_update_parameters(par)
           gs == response.val.groups
<1>1. response = Atom_query(h, eng, sets) /\ Atom_query(h, eng, sets).ok
    BY DEF IInv, Answered
<1>2. \E link : sets.val = <<link>>
    BY DEF Atom_update_parameters, Ok
<1>3. \A list, link : list = <<link>> => DOMAIN list = {1} /\ IsVector(list)
    BY SingleVector
<1>4. DOMAIN sets.val = {1} /\ IsVector(sets.val)
    BY <1>2, <1>3
<1> HIDE DEF sets
<1>5. DOMAIN gs = {1} /\ DOMAIN gs[1].rows = {1}
    BY <1>1, <1>4, AtomAnswer
<1> HIDE DEF gs
<1>6. Once(gs)
    BY <1>5, OneGroupOnce
<1> QED BY <1>6, ResponseGroupsOnce DEF gs

\* The handlers whose answers have rows that the engines, the database or the
\* request tell apart.
RowsApart ==
    {"obs", "mast", "nuclide", "sounding", "flash", "forecast", "contour", "grid", "gridforecast", "atom",
     "facility", "network", "aviation"}

\* However many rows, stations, places, models, levels, parameters and times
\* there are, in whatever order they come, no row is written twice, in one
\* group or in two: neither where rows are cut into runs (fill_mast_data,
\* fill_sounding_data, analyses and networks) nor where they are collected by
\* site or place (assign_groups of StoredObsQueryHandler.cpp, set_group_data
\* of the forecasts).  The observations and a mast's profile are all written.
THEOREM RowsAlwaysOnce == Spec => [](h.handler \in RowsApart => RowsOnce)
<1>1. IInv => (h.handler \in RowsApart => RowsOnce)
  <2> SUFFICES ASSUME IInv, h.handler \in RowsApart PROVE RowsOnce
    OBVIOUS
  <2>1. CASE ~response.ok
    BY <2>1, NoAnswerOnce
  <2>2. CASE response.ok
    <3>1. CASE h.handler \in {"obs", "mast", "nuclide", "sounding", "flash"}
      BY <2>2, <3>1, ObsRowsOnce, MastRowsOnce, NuclideRowsOnce, SoundingRowsOnce, FlashRowsOnce
    <3>2. CASE h.handler \in {"forecast", "contour", "grid", "gridforecast"}
      BY <2>2, <3>2, ForecastRowsOnce, ContourRowsOnce, GridRowsOnce, GridForecastRowsOnce
    <3>3. CASE h.handler \in {"atom", "facility", "network", "aviation"}
      BY <2>2, <3>3, AtomRowsOnce, FacilityRowsOnce, NetworkRowsOnce, AviationRowsOnce
    <3> QED BY <3>1, <3>2, <3>3 DEF RowsApart
  <2> QED BY <2>1, <2>2
<1> QED BY <1>1, AlwaysIInv, PTL
=============================================================================
