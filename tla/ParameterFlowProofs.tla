------------------------ MODULE ParameterFlowProofs ------------------------
(***************************************************************************)
(* Proofs about ParameterFlow: which requests are accepted and what the    *)
(* handlers are given, for every configuration, every request and every    *)
(* width of unsigned.                                                      *)
(***************************************************************************)
EXTENDS ParameterFlow, LoopLemmas, FiniteSetTheorems

\* What a RequestParameterMap and a request are sequences of.
Pairs == ParamNames \X SpineValues
Given_Texts == Seq(SpineValues) \ {<<>>}
Requests == Seq(ParamNames \X Given_Texts)

-----------------------------------------------------------------------------
(* RequestParameterMap *)

\* The sequence that values_of flattens.
Chosen(map, key) == [i \in DOMAIN map |-> IF map[i][1] = key THEN <<map[i][2]>> ELSE <<>>]

LEMMA ChosenType ==
    ASSUME NEW map \in Seq(Pairs), NEW key
    PROVE  Chosen(map, key) \in Seq(Seq(SpineValues)) /\ Len(Chosen(map, key)) = Len(map)
<1>1. \A i \in 1 .. Len(map) : map[i] \in Pairs
    BY ElementOfSeq
<1>2. \A i \in 1 .. Len(map) : map[i][2] \in SpineValues
    BY <1>1 DEF Pairs
<1>3. DOMAIN map = 1 .. Len(map) /\ Len(map) \in Nat
    BY LenProperties
<1>4. \A i \in 1 .. Len(map) : (IF map[i][1] = key THEN <<map[i][2]>> ELSE <<>>) \in Seq(SpineValues)
    BY <1>2
<1> QED BY <1>3, <1>4 DEF Chosen

LEMMA ValuesType ==
    ASSUME NEW map \in Seq(Pairs), NEW key
    PROVE  values_of(map, key) \in Seq(SpineValues)
<1>1. values_of(map, key) = FlattenSeq(Chosen(map, key))
    BY DEF values_of, Chosen
<1> QED BY <1>1, ChosenType, FlattenType

LEMMA ValuesOfEmpty ==
    ASSUME NEW key
    PROVE  values_of(<<>>, key) = <<>>
<1>1. [i \in DOMAIN <<>> |-> IF <<>>[i][1] = key THEN <<(<<>>[i][2])>> ELSE <<>>] = <<>>
    OBVIOUS
<1> QED BY <1>1, FlattenEmpty DEF values_of

LEMMA ValuesOfAppend ==
    ASSUME NEW map \in Seq(Pairs), NEW p \in Pairs, NEW key
    PROVE  values_of(Append(map, p), key) =
               values_of(map, key) \o (IF p[1] = key THEN <<p[2]>> ELSE <<>>)
<1> DEFINE a == Append(map, p)
           one == IF p[1] = key THEN <<p[2]>> ELSE <<>>
<1>1. /\ a \in Seq(Pairs) /\ Len(a) = Len(map) + 1 /\ Len(map) \in Nat
      /\ a[Len(map) + 1] = p /\ \A i \in 1 .. Len(map) : a[i] = map[i]
    BY AppendProperties, LenProperties
<1>2. one \in Seq(SpineValues)
    BY DEF Pairs
<1>3. Chosen(a, key) = Append(Chosen(map, key), one)
  <2>1. /\ Chosen(a, key) \in Seq(Seq(SpineValues)) /\ Len(Chosen(a, key)) = Len(map) + 1
    BY <1>1, ChosenType
  <2>2. /\ Chosen(map, key) \in Seq(Seq(SpineValues)) /\ Len(Chosen(map, key)) = Len(map)
    BY ChosenType
  <2>3. /\ Append(Chosen(map, key), one) \in Seq(Seq(SpineValues))
        /\ Len(Append(Chosen(map, key), one)) = Len(map) + 1
        /\ Append(Chosen(map, key), one)[Len(map) + 1] = one
        /\ \A i \in 1 .. Len(map) : Append(Chosen(map, key), one)[i] = Chosen(map, key)[i]
    <3> HIDE DEF one
    <3> QED BY <2>2, <1>2, AppendProperties
  <2>4. \A i \in 1 .. Len(map) : Chosen(a, key)[i] = Chosen(map, key)[i]
    BY <1>1, LenProperties DEF Chosen
  <2>5. Chosen(a, key)[Len(map) + 1] = one
    <3>1. Len(map) + 1 \in DOMAIN a
      BY <1>1, LenProperties
    <3> QED BY <1>1, <3>1 DEF Chosen
  <2>6. \A i \in 1 .. Len(map) + 1 : Chosen(a, key)[i] = Append(Chosen(map, key), one)[i]
    <3> HIDE DEF one, a
    <3> QED BY <2>3, <2>4, <2>5, <1>1
  <2> HIDE DEF one, a
  <2> QED BY <2>1, <2>3, <2>6, SeqEqual
<1>4. values_of(a, key) = FlattenSeq(Chosen(a, key)) /\ values_of(map, key) = FlattenSeq(Chosen(map, key))
    BY DEF values_of, Chosen
<1> HIDE DEF one, a
<1>5. FlattenSeq(Append(Chosen(map, key), one)) = FlattenSeq(Chosen(map, key)) \o one
    BY <1>2, ChosenType, FlattenAppend
<1> QED BY <1>3, <1>4, <1>5 DEF one, a

LEMMA ValuesOfConcat ==
    ASSUME NEW m \in Seq(Pairs), NEW n \in Seq(Pairs), NEW key
    PROVE  values_of(m \o n, key) = values_of(m, key) \o values_of(n, key)
<1> DEFINE S == {s \in Seq(Pairs) : values_of(m \o s, key) = values_of(m, key) \o values_of(s, key)}
<1>1. <<>> \in S
  <2>1. m \o <<>> = m
    BY ConcatEmptySeq
  <2>2. values_of(m, key) \o <<>> = values_of(m, key)
    BY ConcatEmptySeq, ValuesType
  <2>3. values_of(<<>>, key) = <<>>
    BY ValuesOfEmpty
  <2>4. values_of(m \o <<>>, key) = values_of(m, key) \o values_of(<<>>, key)
    BY <2>1, <2>2, <2>3
  <2> QED BY <2>4, EmptySeq
<1>2. ASSUME NEW s \in Seq(Pairs), NEW p \in Pairs, s \in S PROVE Append(s, p) \in S
  <2> DEFINE one == IF p[1] = key THEN <<p[2]>> ELSE <<>>
  <2>1. m \o Append(s, p) = Append(m \o s, p) /\ m \o s \in Seq(Pairs) /\ Append(s, p) \in Seq(Pairs)
    OBVIOUS
  <2>2. values_of(Append(m \o s, p), key) = values_of(m \o s, key) \o one
    BY <2>1, ValuesOfAppend
  <2>3. values_of(Append(s, p), key) = values_of(s, key) \o one
    BY ValuesOfAppend
  <2>4. one \in Seq(SpineValues)
    BY DEF Pairs
  <2> HIDE DEF one
  <2>5. (values_of(m, key) \o values_of(s, key)) \o one = values_of(m, key) \o (values_of(s, key) \o one)
    BY <2>4, ValuesType, ConcatAssociative
  <2>6. values_of(m \o s, key) = values_of(m, key) \o values_of(s, key)
    BY <1>2
  <2>7. values_of(m \o Append(s, p), key) = values_of(m, key) \o values_of(Append(s, p), key)
    BY <2>1, <2>2, <2>3, <2>5, <2>6
  <2> QED BY <2>1, <2>7
<1> HIDE DEF S
<1>3. Seq(Pairs) \subseteq S
    BY <1>1, <1>2, SeqSetInduction
<1> QED BY <1>3 DEF S

\* The values of one parameter, entered with its key, are found by that key
\* and by no other.
Keyed(k, vs) == [j \in DOMAIN vs |-> <<k, vs[j]>>]

LEMMA KeyedType ==
    ASSUME NEW k \in ParamNames, NEW vs \in Seq(SpineValues)
    PROVE  Keyed(k, vs) \in Seq(Pairs) /\ Len(Keyed(k, vs)) = Len(vs)
<1>1. DOMAIN vs = 1 .. Len(vs) /\ Len(vs) \in Nat /\ \A j \in 1 .. Len(vs) : vs[j] \in SpineValues
    BY LenProperties, ElementOfSeq
<1>2. \A j \in 1 .. Len(vs) : <<k, vs[j]>> \in Pairs
    BY <1>1 DEF Pairs
<1> QED BY <1>1, <1>2 DEF Keyed

LEMMA ValuesOfKeyed ==
    ASSUME NEW k \in ParamNames, NEW values \in Seq(SpineValues), NEW key
    PROVE  values_of(Keyed(k, values), key) = IF k = key THEN values ELSE <<>>
<1> DEFINE S == {s \in Seq(SpineValues) : values_of(Keyed(k, s), key) = IF k = key THEN s ELSE <<>>}
<1>1. <<>> \in S
  <2>1. Keyed(k, <<>>) = <<>>
    BY DEF Keyed
  <2> QED BY <2>1, ValuesOfEmpty
<1>2. ASSUME NEW s \in Seq(SpineValues), NEW v \in SpineValues, s \in S PROVE Append(s, v) \in S
  <2>1. /\ Append(s, v) \in Seq(SpineValues) /\ Len(Append(s, v)) = Len(s) + 1 /\ Len(s) \in Nat
        /\ Append(s, v)[Len(s) + 1] = v /\ \A i \in 1 .. Len(s) : Append(s, v)[i] = s[i]
    BY AppendProperties, LenProperties
  <2>2. <<k, v>> \in Pairs /\ Keyed(k, s) \in Seq(Pairs) /\ Len(Keyed(k, s)) = Len(s)
    BY KeyedType DEF Pairs
  <2>3. Keyed(k, Append(s, v)) = Append(Keyed(k, s), <<k, v>>)
    <3>1. Keyed(k, Append(s, v)) \in Seq(Pairs) /\ Len(Keyed(k, Append(s, v))) = Len(s) + 1
      BY <2>1, KeyedType
    <3>2. /\ Append(Keyed(k, s), <<k, v>>) \in Seq(Pairs)
          /\ Len(Append(Keyed(k, s), <<k, v>>)) = Len(s) + 1
          /\ Append(Keyed(k, s), <<k, v>>)[Len(s) + 1] = <<k, v>>
          /\ \A i \in 1 .. Len(s) : Append(Keyed(k, s), <<k, v>>)[i] = Keyed(k, s)[i]
      BY <2>2, AppendProperties
    <3>3. /\ \A i \in 1 .. Len(s) : Keyed(k, s)[i] = <<k, s[i]>>
          /\ \A i \in 1 .. Len(s) + 1 : Keyed(k, Append(s, v))[i] = <<k, Append(s, v)[i]>>
      <4>1. DOMAIN s = 1 .. Len(s) /\ DOMAIN Append(s, v) = 1 .. Len(s) + 1
        BY <2>1, LenProperties
      <4> QED BY <4>1 DEF Keyed
    <3>4. ASSUME NEW i \in 1 .. Len(s) + 1
          PROVE  Keyed(k, Append(s, v))[i] = Append(Keyed(k, s), <<k, v>>)[i]
      <4>1. Keyed(k, Append(s, v))[i] = <<k, Append(s, v)[i]>>
        BY <3>3
      <4>2. CASE i = Len(s) + 1
        <5>1. Append(s, v)[i] = v /\ Append(Keyed(k, s), <<k, v>>)[i] = <<k, v>>
          BY <2>1, <3>2, <4>2
        <5> QED BY <4>1, <5>1
      <4>3. CASE i # Len(s) + 1
        <5>1. i \in 1 .. Len(s)
          BY <2>1, <4>3
        <5>2. Append(s, v)[i] = s[i] /\ Append(Keyed(k, s), <<k, v>>)[i] = Keyed(k, s)[i]
          BY <2>1, <3>2, <5>1
        <5>3. Keyed(k, s)[i] = <<k, s[i]>>
          BY <3>3, <5>1
        <5> QED BY <4>1, <5>2, <5>3
      <4> QED BY <4>2, <4>3
    <3>5. \A i \in 1 .. Len(s) + 1 : Keyed(k, Append(s, v))[i] = Append(Keyed(k, s), <<k, v>>)[i]
      BY <3>4
    <3> QED BY <3>1, <3>2, <3>5, SeqEqual
  <2>4. values_of(Append(Keyed(k, s), <<k, v>>), key) =
            values_of(Keyed(k, s), key) \o (IF <<k, v>>[1] = key THEN << <<k, v>>[2] >> ELSE <<>>)
    BY <2>2, ValuesOfAppend
  <2>5. CASE k = key
    <3>1. values_of(Keyed(k, s), key) = s
      BY <1>2, <2>5
    <3>2. values_of(Keyed(k, Append(s, v)), key) = s \o <<v>>
      BY <2>3, <2>4, <2>5, <3>1
    <3> QED BY <2>1, <2>5, <3>2, AppendIsConcat
  <2>6. CASE k # key
    <3>1. values_of(Keyed(k, s), key) = <<>>
      BY <1>2, <2>6
    <3>2. values_of(Keyed(k, Append(s, v)), key) = <<>> \o <<>>
      BY <2>3, <2>4, <2>6, <3>1
    <3>3. <<>> \o <<>> = <<>>
      OBVIOUS
    <3> QED BY <2>1, <2>6, <3>2, <3>3
  <2> QED BY <2>5, <2>6
<1> HIDE DEF S
<1>3. Seq(SpineValues) \subseteq S
    BY <1>1, <1>2, SeqSetInduction
<1> QED BY <1>3 DEF S

\* The values of a key in what several parameters give together: those of
\* the one parameter that has the key.
LEMMA ValuesOfFlat ==
    ASSUME NEW parts \in Seq(Seq(Pairs)), NEW key, NEW i0 \in 0 .. Len(parts),
           \A i \in 1 .. Len(parts) : i # i0 => values_of(parts[i], key) = <<>>
    PROVE  values_of(FlattenSeq(parts), key) = IF i0 = 0 THEN <<>> ELSE values_of(parts[i0], key)
<1>1. CASE Len(parts) = 0
  <2>1. parts = <<>> /\ i0 = 0
    BY <1>1, EmptySeq
  <2> QED BY <2>1, FlattenEmpty, ValuesOfEmpty
<1>2. CASE Len(parts) # 0
  <2>1. PICK g : IsFlat(g, parts) /\ FlattenSeq(parts) = g[Len(parts)]
    BY <1>2, FlattenIs
  <2>2. \A i \in 1 .. Len(parts) : g[i] \in Seq(Pairs) /\ parts[i] \in Seq(Pairs)
    BY <2>1, FlatType, ElementOfSeq
  <2>3. \A i \in 1 .. Len(parts) : g[i] = IF i = 1 THEN parts[i] ELSE g[i - 1] \o parts[i]
    BY <2>1, FlatSteps
  <2> DEFINE Own == values_of(parts[i0], key)
             Until(n) == IF i0 \in 1 .. n THEN Own ELSE <<>>
             N == {n \in Nat : n \in 1 .. Len(parts) => values_of(g[n], key) = Until(n)}
  <2>4. 0 \in N
    OBVIOUS
  <2>5. ASSUME NEW n \in Nat, n \in N PROVE n + 1 \in N
    <3> SUFFICES ASSUME n + 1 \in 1 .. Len(parts) PROVE values_of(g[n + 1], key) = Until(n + 1)
      OBVIOUS
    <3>1. n + 1 # i0 => values_of(parts[n + 1], key) = <<>>
      OBVIOUS
    <3>2. CASE n = 0
      <4>1. g[n + 1] = parts[n + 1]
        BY <2>3, <3>2
      <4>2. Until(n + 1) = IF i0 = n + 1 THEN Own ELSE <<>>
        BY <3>2
      <4>3. CASE i0 = n + 1
        BY <4>1, <4>2, <4>3
      <4>4. CASE i0 # n + 1
        <5>1. values_of(parts[n + 1], key) = <<>>
          BY <3>1, <4>4
        <5> QED BY <4>1, <4>2, <4>4, <5>1
      <4> QED BY <4>3, <4>4
    <3>3. CASE n # 0
      <4>1. n \in 1 .. Len(parts) /\ n + 1 # 1 /\ (n + 1) - 1 = n
        BY <3>3, LenProperties
      <4>2. g[n + 1] = g[n] \o parts[n + 1]
        BY <2>3, <4>1
      <4>3. values_of(g[n + 1], key) = values_of(g[n], key) \o values_of(parts[n + 1], key)
        <5>1. g[n] \in Seq(Pairs) /\ parts[n + 1] \in Seq(Pairs)
          BY <2>2, <4>1
        <5>2. \A m1, m2 \in Seq(Pairs) : values_of(m1 \o m2, key) = values_of(m1, key) \o values_of(m2, key)
          BY ValuesOfConcat
        <5>3. values_of(g[n] \o parts[n + 1], key) = values_of(g[n], key) \o values_of(parts[n + 1], key)
          BY <5>1, <5>2, Zenon
        <5> QED BY <4>2, <5>3, Zenon
      <4>4. values_of(g[n], key) = Until(n)
        BY <2>5, <4>1
      <4>5. CASE i0 = n + 1
        <5>1. Until(n) = <<>> /\ Until(n + 1) = values_of(parts[n + 1], key)
          BY <4>5
        <5>2. values_of(parts[n + 1], key) \in Seq(SpineValues)
          BY <2>2, ValuesType
        <5> QED BY <4>3, <4>4, <5>1, <5>2, ConcatEmptySeq
      <4>6. CASE i0 # n + 1
        <5>1. Until(n + 1) = Until(n)
          BY <4>6
        <5>2. values_of(parts[n + 1], key) = <<>>
          BY <3>1, <4>6
        <5>3. values_of(g[n], key) \in Seq(SpineValues)
          BY <2>2, <4>1, ValuesType
        <5> QED BY <4>3, <4>4, <5>1, <5>2, <5>3, ConcatEmptySeq
      <4> QED BY <4>5, <4>6
    <3> QED BY <3>2, <3>3
  <2> HIDE DEF N
  <2>6. Nat \subseteq N
    BY <2>4, <2>5, NatSetInduction
  <2>7. values_of(g[Len(parts)], key) = Until(Len(parts))
    BY <1>2, <2>6, LenProperties DEF N
  <2> QED BY <2>1, <2>7
<1> QED BY <1>1, <1>2
-----------------------------------------------------------------------------
(* StoredQuery: what is extracted from a request *)

LEMMA ReadableType ==
    ASSUME NEW t \in ValueTypes, NEW n \in Int, t = "uint" => n >= 0
    PROVE  [types |-> ReadableAs(t, n), n |-> n] \in SpineValues
<1>1. /\ t = "int" => ReadableAs(t, n) = {"int", "double", "string"} \cup (IF n >= 0 THEN {"uint"} ELSE {})
      /\ t = "uint" => ReadableAs(t, n) = {"uint", "int", "double", "string"}
      /\ t \notin {"int", "uint"} => ReadableAs(t, n) = {t, "string"}
    BY DEF ReadableAs
<1>2. ReadableAs(t, n) \in SUBSET ValueTypes /\ ("uint" \in ReadableAs(t, n) => n >= 0)
  <2>1. CASE t = "int"
    BY <1>1, <2>1 DEF ValueTypes, ParamTypes
  <2>2. CASE t = "uint"
    BY <1>1, <2>2 DEF ValueTypes, ParamTypes
  <2>3. CASE t \notin {"int", "uint"}
    BY <1>1, <2>3 DEF ValueTypes, ParamTypes
  <2> QED BY <2>1, <2>2, <2>3
<1> QED BY <1>2 DEF SpineValues

LEMMA ReadValueType ==
    ASSUME NEW def, NEW text \in SpineValues, readValue(def, text).ok
    PROVE  readValue(def, text).val \in SpineValues
<1>1. /\ text.types \in SUBSET ValueTypes /\ text.n \in Int
      /\ "uint" \in text.types => text.n >= 0
    BY DEF SpineValues
<1>2. def.type \in text.types
    BY DEF readValue, ParsingFailed, Fail, Throw
<1>3. /\ def.type \in ValueTypes /\ (def.type = "uint" => text.n >= 0)
    BY <1>1, <1>2
<1>4. [types |-> ReadableAs(def.type, text.n), n |-> text.n] \in SpineValues
    BY <1>1, <1>3, ReadableType
<1>5. [types |-> text.types, n |-> text.n] \in SpineValues
    BY <1>1 DEF SpineValues
<1>6. readValue(def, text).val =
          [types |-> IF def.type = "string" THEN text.types ELSE ReadableAs(def.type, text.n), n |-> text.n]
    BY <1>2 DEF readValue, Ok
<1>7. CASE def.type = "string"
    BY <1>5, <1>6, <1>7
<1>8. CASE def.type # "string"
    BY <1>4, <1>6, <1>8
<1> QED BY <1>7, <1>8

LEMMA ReadAsType ==
    ASSUME NEW type, NEW text \in SpineValues, ReadAs(type, text).ok
    PROVE  ReadAs(type, text).val \in SpineValues
<1>1. /\ text.types \in SUBSET ValueTypes /\ text.n \in Int
      /\ "uint" \in text.types => text.n >= 0
    BY DEF SpineValues
<1>2. type \in text.types
    BY DEF ReadAs, NoCode, Fail, Throw
<1>3. ReadAs(type, text).val = [types |-> ReadableAs(type, text.n), n |-> text.n]
    BY <1>2 DEF ReadAs, Ok
<1> QED BY <1>1, <1>2, <1>3, ReadableType

LEMMA ExtractIntegerType ==
    ASSUME NEW xml_type, NEW text \in SpineValues, extract_integer(xml_type, text).ok
    PROVE  extract_integer(xml_type, text).val \in SpineValues
<1>1. text.n \in Int
    BY DEF SpineValues
<1>2. extract_integer(xml_type, text).val = [types |-> ReadableAs("int", text.n), n |-> text.n]
    BY DEF extract_integer, Ok, NoCode, Fail, Throw
<1>3. [types |-> ReadableAs("int", text.n), n |-> text.n] \in SpineValues
  <2>1. "int" \in ValueTypes /\ "int" # "uint"
    BY DEF ValueTypes, ParamTypes
  <2> QED BY <1>1, <2>1, ReadableType
<1> QED BY <1>2, <1>3

\* A loop whose turns return values returns a sequence of values.
LEMMA AllValues ==
    ASSUME NEW n \in Nat, NEW rs, DOMAIN rs = 1 .. n, NEW T,
           \A i \in 1 .. n : rs[i].ok => rs[i].val \in T, All(rs).ok
    PROVE  All(rs).val \in Seq(T) /\ Len(All(rs).val) = n /\ \A i \in 1 .. n : rs[i].ok /\ All(rs).val[i] = rs[i].val
<1>1. All(rs) = Ok([i \in 1 .. n |-> rs[i].val]) /\ \A i \in 1 .. n : rs[i].ok
    BY AllOk
<1>2. All(rs).val = [i \in 1 .. n |-> rs[i].val]
    BY <1>1 DEF Ok
<1> QED BY <1>1, <1>2

LEMMA ReadValuesType ==
    ASSUME NEW def, NEW texts \in Seq(SpineValues), readValues(def, texts).ok
    PROVE  readValues(def, texts).val \in Seq(SpineValues)
<1> DEFINE rs == [i \in DOMAIN texts |-> readValue(def, texts[i])]
           checks == << <<Len(texts) < def.min \/ Len(texts) > def.max, "OperationParsingFailed">> >>
<1>1. DOMAIN checks = 1 .. 1 /\ readValues(def, texts) = Checked(checks, All(rs))
    BY DEF readValues
<1>2. readValues(def, texts) = All(rs)
    BY <1>1, CheckedOk
<1>3. /\ Len(texts) \in Nat /\ DOMAIN rs = 1 .. Len(texts)
      /\ \A i \in 1 .. Len(texts) : rs[i] = readValue(def, texts[i]) /\ texts[i] \in SpineValues
    BY LenProperties, ElementOfSeq
<1>4. \A i \in 1 .. Len(texts) : rs[i].ok => rs[i].val \in SpineValues
    BY <1>3, ReadValueType
<1> HIDE DEF rs
<1> QED BY <1>2, <1>3, <1>4, AllValues

LEMMA LimitsOk ==
    ASSUME NEW desc, NEW v, check_limits(desc, v).ok
    PROVE  check_limits(desc, v).val = v
<1> DEFINE checks == << <<desc.lower # <<>> /\ v.n < desc.lower[1].n, "none">>,
                        <<desc.upper # <<>> /\ v.n > desc.upper[1].n, "none">> >>
<1>1. DOMAIN checks = 1 .. 2 /\ check_limits(desc, v) = Checked(checks, Ok(v))
    BY DEF check_limits
<1> HIDE DEF checks
<1>2. check_limits(desc, v) = Ok(v)
    BY <1>1, CheckedOk
<1> QED BY <1>2 DEF Ok

\* The limits let the values through as they are.
LEMMA WithinLimits ==
    ASSUME NEW desc, NEW vs \in Seq(SpineValues), check_all_limits(desc, vs).ok
    PROVE  check_all_limits(desc, vs).val \in Seq(SpineValues)
<1> DEFINE rs == [i \in DOMAIN vs |-> check_limits(desc, vs[i])]
<1>1. /\ Len(vs) \in Nat /\ DOMAIN rs = 1 .. Len(vs)
      /\ \A i \in 1 .. Len(vs) : rs[i] = check_limits(desc, vs[i]) /\ vs[i] \in SpineValues
    BY LenProperties, ElementOfSeq
<1>2. \A i \in 1 .. Len(vs) : rs[i].ok => rs[i].val \in SpineValues
    BY <1>1, LimitsOk
<1>3. check_all_limits(desc, vs) = All(rs)
    BY DEF check_all_limits
<1> HIDE DEF rs
<1> QED BY <1>1, <1>2, <1>3, AllValues

LEMMA SingleType ==
    ASSUME NEW r, r.ok => r.val \in SpineValues, Single(r).ok
    PROVE  Single(r).val \in Seq(SpineValues)
<1>1. r.ok
    BY DEF Single, Then
<1>2. Single(r).val = <<r.val>>
    BY <1>1 DEF Single, Then, Ok
<1>3. r.val \in SpineValues
    BY <1>1
<1>4. <<r.val>> \in Seq(SpineValues)
    BY <1>3
<1> QED BY <1>2, <1>4

\* A distance is a number of metres.
LEMMA ParseMeterType ==
    ASSUME NEW text \in SpineValues, parse_meter(text).ok
    PROVE  parse_meter(text).val \in SpineValues /\ "double" \in parse_meter(text).val.types
<1>1. text.n \in Int
    BY DEF SpineValues
<1>2. parse_meter(text).val = [types |-> ReadableAs("double", text.n), n |-> text.n]
    BY DEF parse_meter, Ok, NoCode, Fail, Throw
<1>3. "double" \in ValueTypes /\ "double" # "uint" /\ "double" \in ReadableAs("double", text.n)
    BY DEF ValueTypes, ParamTypes, ReadableAs
<1> QED BY <1>1, <1>2, <1>3, ReadableType

LEMMA InsertKvpType ==
    ASSUME NEW name, NEW desc, NEW texts \in Given_Texts, insert_kvp_values(name, desc, texts).ok
    PROVE  insert_kvp_values(name, desc, texts).val \in Seq(SpineValues)
<1> DEFINE r == kvp_values(name, desc, texts)
           vs == r.val
<1>1. insert_kvp_values(name, desc, texts) =
          IF r.ok THEN check_all_limits(desc, vs) ELSE r
    BY DEF insert_kvp_values, Then
<1>2. texts \in Seq(SpineValues) /\ texts # <<>> /\ texts[1] \in SpineValues
    BY DEF Given_Texts
<1>3. r.ok
    BY <1>1, Zenon
<1>4. vs \in Seq(SpineValues)
  <2>1. CASE desc.def.array
    <3>1. r = readValues(desc.def, texts)
      BY <2>1 DEF kvp_values
    <3> QED BY <1>2, <1>3, <3>1, ReadValuesType
  <2>2. CASE ~desc.def.array /\ IsDistance(name)
    <3>1. r = Single(parse_meter(texts[1]))
      BY <2>2 DEF kvp_values
    <3>2. parse_meter(texts[1]).ok => parse_meter(texts[1]).val \in SpineValues
      BY <1>2, ParseMeterType
    <3> QED BY <1>3, <3>1, <3>2, SingleType
  <2>3. CASE ~desc.def.array /\ ~IsDistance(name)
    <3>1. r = Single(readValue(desc.def, texts[1]))
      BY <2>3 DEF kvp_values
    <3>2. readValue(desc.def, texts[1]).ok => readValue(desc.def, texts[1]).val \in SpineValues
      BY <1>2, ReadValueType
    <3> QED BY <1>3, <3>1, <3>2, SingleType
  <2> QED BY <2>1, <2>2, <2>3
<1> HIDE DEF r, vs
<1>5. insert_kvp_values(name, desc, texts) = check_all_limits(desc, vs)
    BY <1>1, <1>3
<1> QED BY <1>4, <1>5, WithinLimits

LEMMA ReadEachType ==
    ASSUME NEW texts \in Seq(SpineValues), NEW type, ReadEach(type, texts).ok
    PROVE  ReadEach(type, texts).val \in Seq(SpineValues)
<1> DEFINE rs == [i \in DOMAIN texts |-> ReadAs(type, texts[i])]
<1>1. /\ Len(texts) \in Nat /\ DOMAIN rs = 1 .. Len(texts)
      /\ \A i \in 1 .. Len(texts) : rs[i] = ReadAs(type, texts[i]) /\ texts[i] \in SpineValues
    BY LenProperties, ElementOfSeq
<1>2. \A i \in 1 .. Len(texts) : rs[i].ok => rs[i].val \in SpineValues
    BY <1>1, ReadAsType
<1>3. ReadEach(type, texts) = All(rs)
    BY DEF ReadEach
<1> HIDE DEF rs
<1> QED BY <1>1, <1>2, <1>3, AllValues

\* The arms of extract_param.
LEMMA ExtractParamShapes ==
    ASSUME NEW xml_type, NEW texts
    PROVE  \/ extract_param(xml_type, texts) = NoCode
           \/ extract_param(xml_type, texts) = Ok(<<texts[1]>>)
           \/ extract_param(xml_type, texts) = Ok(texts)
           \/ \E type : extract_param(xml_type, texts) = ReadEach(type, texts)
           \/ \E type : extract_param(xml_type, texts) = Single(ReadAs(type, texts[1]))
           \/ extract_param(xml_type, texts) = Single(extract_integer(xml_type, texts[1]))
<1> DEFINE r == extract_param(xml_type, texts)
<1>1. CASE xml_type \notin XmlTypes
  <2>1. xml_type \notin {"string", "language", "float", "double", "NameList", "doubleList", "integerList",
                         "boolean", "dateTime", "pos", "Envelope"}
    BY <1>1 DEF XmlTypes
  <2>2. r = NoCode
    BY <1>1, <2>1 DEF extract_param
  <2> HIDE DEF r
  <2> QED BY <2>2 DEF r
<1>2. CASE xml_type \in XmlTypes
  <2>1. CASE xml_type \in {"string", "language"}
    <3>1. r = Ok(<<texts[1]>>)
      BY <1>2, <2>1 DEF extract_param
    <3> HIDE DEF r
    <3> QED BY <3>1 DEF r
  <2>2. CASE xml_type = "NameList"
    <3>1. r = Ok(texts)
      BY <1>2, <2>2 DEF extract_param
    <3> HIDE DEF r
    <3> QED BY <3>1 DEF r
  <2>3. CASE xml_type = "doubleList"
    <3>1. r = ReadEach("double", texts)
      BY <1>2, <2>3 DEF extract_param
    <3> HIDE DEF r
    <3> QED BY <3>1 DEF r
  <2>4. CASE xml_type = "integerList"
    <3>1. r = ReadEach("int", texts)
      BY <1>2, <2>4 DEF extract_param
    <3> HIDE DEF r
    <3> QED BY <3>1 DEF r
  <2>5. CASE xml_type = "boolean"
    <3>1. r = Single(ReadAs("bool", texts[1]))
      BY <1>2, <2>5 DEF extract_param
    <3> HIDE DEF r
    <3> QED BY <3>1 DEF r
  <2>6. CASE xml_type \in {"float", "double"}
    <3>1. r = Single(ReadAs("double", texts[1]))
      BY <1>2, <2>6 DEF extract_param
    <3> HIDE DEF r
    <3> QED BY <3>1 DEF r
  <2>7. CASE xml_type = "dateTime"
    <3>1. r = Single(ReadAs("time", texts[1]))
      BY <1>2, <2>7 DEF extract_param
    <3> HIDE DEF r
    <3> QED BY <3>1 DEF r
  <2>8. CASE xml_type = "pos"
    <3>1. r = IF Len(texts) = 2 THEN ReadEach("double", texts) ELSE NoCode
      BY <1>2, <2>8 DEF extract_param
    <3> HIDE DEF r
    <3> QED BY <3>1 DEF r
  <2>9. CASE xml_type = "Envelope"
    <3>1. r = Single(ReadAs("bbox", texts[1]))
      BY <1>2, <2>9 DEF extract_param
    <3> HIDE DEF r
    <3> QED BY <3>1 DEF r
  <2>10. CASE xml_type \notin {"string", "language", "float", "double", "NameList", "doubleList", "integerList",
                               "boolean", "dateTime", "pos", "Envelope"}
    <3>1. r = Single(extract_integer(xml_type, texts[1]))
      BY <1>2, <2>10 DEF extract_param
    <3> HIDE DEF r
    <3> QED BY <3>1 DEF r
  <2> HIDE DEF r
  <2> QED BY <2>1, <2>2, <2>3, <2>4, <2>5, <2>6, <2>7, <2>8, <2>9, <2>10 DEF r
<1> QED BY <1>1, <1>2

LEMMA ExtractParamType ==
    ASSUME NEW xml_type, NEW texts \in Given_Texts, extract_param(xml_type, texts).ok
    PROVE  extract_param(xml_type, texts).val \in Seq(SpineValues)
<1> DEFINE r == extract_param(xml_type, texts)
<1>1. texts \in Seq(SpineValues) /\ texts # <<>> /\ texts[1] \in SpineValues
    BY DEF Given_Texts
<1>2. \/ r = NoCode
      \/ r = Ok(<<texts[1]>>)
      \/ r = Ok(texts)
      \/ \E type : r = ReadEach(type, texts)
      \/ \E type : r = Single(ReadAs(type, texts[1]))
      \/ r = Single(extract_integer(xml_type, texts[1]))
    BY ExtractParamShapes
<1>3. r # NoCode
    BY DEF NoCode, Fail, Throw
<1>4. CASE r = Ok(<<texts[1]>>)
  <2>1. r.val = <<texts[1]>>
    BY <1>4 DEF Ok
  <2> QED BY <1>1, <2>1
<1>5. CASE r = Ok(texts)
  <2>1. r.val = texts
    BY <1>5 DEF Ok
  <2> QED BY <1>1, <2>1
<1>6. CASE \E type : r = ReadEach(type, texts)
    BY <1>1, <1>6, ReadEachType
<1>7. CASE \E type : r = Single(ReadAs(type, texts[1]))
  <2>1. PICK type : r = Single(ReadAs(type, texts[1]))
    BY <1>7
  <2>2. ReadAs(type, texts[1]).ok => ReadAs(type, texts[1]).val \in SpineValues
    BY <1>1, ReadAsType
  <2> QED BY <2>1, <2>2, SingleType
<1>8. CASE r = Single(extract_integer(xml_type, texts[1]))
  <2>1. extract_integer(xml_type, texts[1]).ok => extract_integer(xml_type, texts[1]).val \in SpineValues
    BY <1>1, ExtractIntegerType
  <2> QED BY <1>8, <2>1, SingleType
<1> QED BY <1>2, <1>3, <1>4, <1>5, <1>6, <1>7, <1>8

\* The state of the loop over the parameters of a request.
IsState(st) ==
    /\ st = [map |-> st.map, seen |-> st.seen, forbidden |-> st.forbidden, skipped |-> st.skipped]
    /\ st.map \in Seq(Pairs)

LEMMA KeyType ==
    ASSUME NEW c, NEW name \in ParamNames
    PROVE  Key(c, name) \in ParamNames
<1>1. name[1] \in STRING
    BY DEF ParamNames
<1>2. Lower(name) \in ParamNames
    BY <1>1 DEF Lower, ParamNames
<1> QED BY <1>2 DEF Key

LEMMA InsertType ==
    ASSUME NEW c, NEW map \in Seq(Pairs), NEW name \in ParamNames, NEW values \in Seq(SpineValues)
    PROVE  insert_values(c, map, name, values) \in Seq(Pairs)
<1>1. insert_values(c, map, name, values) = map \o Keyed(Key(c, name), values)
    BY DEF insert_values, Keyed
<1>2. Keyed(Key(c, name), values) \in Seq(Pairs)
    BY KeyType, KeyedType
<1> QED BY <1>1, <1>2, ConcatProperties

LEMMA SkipState ==
    ASSUME NEW st, IsState(st)
    PROVE  IsState([st EXCEPT !.skipped = @ + 1])
BY DEF IsState

LEMMA NextState ==
    ASSUME NEW map \in Seq(Pairs), NEW seen, NEW forbidden, NEW skipped
    PROVE  IsState([map |-> map, seen |-> seen, forbidden |-> forbidden, skipped |-> skipped])
BY DEF IsState

LEMMA KvpParameterType ==
    ASSUME NEW c, NEW st, IsState(st), NEW p \in ParamNames \X Given_Texts, kvp_parameter(c, st, p).ok
    PROVE  IsState(kvp_parameter(c, st, p).val)
<1> DEFINE r == kvp_parameter(c, st, p)
           known == get_param_desc(c, p[1])
           desc == CHOOSE d \in known : TRUE
           vs == insert_kvp_values(p[1], desc, p[2])
           checks == << <<check_param_max_occurs(st.seen, p[1], desc), "OperationParsingFailed">> >>
           new == [map |-> insert_values(c, st.map, p[1], vs.val), seen |-> Append(st.seen, p[1]),
                   forbidden |-> st.forbidden \cup {Lower(n) : n \in desc.conflicts},
                   skipped |-> st.skipped]
           added == IF vs.ok THEN Ok(new) ELSE vs
<1>1. /\ p[1] \in st.forbidden => r = ParsingFailed
      /\ p[1] \notin st.forbidden /\ known = {} => r = Ok([st EXCEPT !.skipped = @ + 1])
      /\ p[1] \notin st.forbidden /\ known # {} => r = Checked(checks, added)
    BY DEF kvp_parameter, Then
<1>2. p[1] \in ParamNames /\ p[2] \in Given_Texts /\ st.map \in Seq(Pairs)
    BY DEF IsState
<1>3. CASE p[1] \in st.forbidden
    BY <1>1, <1>3 DEF ParsingFailed, Fail, Throw
<1>4. CASE p[1] \notin st.forbidden /\ known = {}
  <2>1. r.val = [st EXCEPT !.skipped = @ + 1]
    BY <1>1, <1>4 DEF Ok
  <2> QED BY <2>1, SkipState
<1>5. CASE p[1] \notin st.forbidden /\ known # {}
  <2> HIDE DEF checks, added, vs, r
  <2>2. r = Checked(checks, added)
    BY <1>1, <1>5
  <2>3. r = added /\ added.ok
    BY <2>2, OneCheck DEF checks, r
  <2>4. vs.ok /\ added = Ok(new)
    BY <2>3 DEF added
  <2>5. vs.val \in Seq(SpineValues)
    BY <1>2, <2>4, InsertKvpType DEF vs
  <2>6. insert_values(c, st.map, p[1], vs.val) \in Seq(Pairs)
    BY <1>2, <2>5, InsertType
  <2>7. r.val = new
    BY <2>3, <2>4 DEF Ok
  <2>8. IsState(new)
    BY <2>6, NextState
  <2> QED BY <2>7, <2>8 DEF r
<1> QED BY <1>3, <1>4, <1>5

LEMMA XmlParameterType ==
    ASSUME NEW c, NEW st, IsState(st), NEW p \in ParamNames \X Given_Texts, xml_parameter(c, st, p).ok
    PROVE  IsState(xml_parameter(c, st, p).val)
<1> DEFINE r == xml_parameter(c, st, p)
           known == get_param_desc(c, p[1])
           desc == CHOOSE d \in known : TRUE
           vs == extract_param(desc.xml_type, p[2])
           ws == check_all_limits(desc, vs.val)
           checks == << <<p[1] \in st.forbidden, "none">>,
                        <<check_param_max_occurs(st.seen, p[1], desc), "OperationParsingFailed">> >>
           new == [map |-> insert_values(c, st.map, p[1], ws.val), seen |-> Append(st.seen, p[1]),
                   forbidden |-> st.forbidden \cup {Lower(n) : n \in desc.conflicts},
                   skipped |-> st.skipped]
           added == IF vs.ok THEN IF ws.ok THEN Ok(new) ELSE ws ELSE vs
<1>1. /\ known = {} => r = Ok([st EXCEPT !.skipped = @ + 1])
      /\ known # {} => r = Checked(checks, added)
    BY DEF xml_parameter, Then
<1>2. p[1] \in ParamNames /\ p[2] \in Given_Texts /\ st.map \in Seq(Pairs)
    BY DEF IsState
<1>3. CASE known = {}
  <2>1. r.val = [st EXCEPT !.skipped = @ + 1]
    BY <1>1, <1>3 DEF Ok
  <2> QED BY <2>1, SkipState
<1>4. CASE known # {}
  <2> HIDE DEF checks, added, vs, ws, r
  <2>2. r = Checked(checks, added)
    BY <1>1, <1>4
  <2>3. r = added /\ added.ok
    BY <2>2, TwoChecks DEF checks, r
  <2>4. vs.ok /\ ws.ok /\ added = Ok(new)
    BY <2>3 DEF added
  <2>5. vs.val \in Seq(SpineValues)
    BY <1>2, <2>4, ExtractParamType DEF vs
  <2>6. ws.val \in Seq(SpineValues)
    BY <2>4, <2>5, WithinLimits DEF ws
  <2>7. insert_values(c, st.map, p[1], ws.val) \in Seq(Pairs)
    BY <1>2, <2>6, InsertType
  <2>8. r.val = new
    BY <2>3, <2>4 DEF Ok
  <2>9. IsState(new)
    BY <2>7, NextState
  <2> QED BY <2>8, <2>9 DEF r
<1> QED BY <1>3, <1>4

\* The function by which extract_parameters is defined: f[i] is the outcome
\* of the first i turns of the loop.
Turn(form, c, x, p) == IF x.ok THEN Parameter(form, c, x.val, p) ELSE x
Turns(f, n, form, c, ps) == f = [i \in 0 .. n |-> IF i = 0 THEN Start ELSE Turn(form, c, f[i - 1], ps[i])]

LEMMA TurnSteps ==
    ASSUME NEW f, NEW n, NEW form, NEW c, NEW ps, Turns(f, n, form, c, ps)
    PROVE  \A i \in 0 .. n : f[i] = IF i = 0 THEN Start ELSE Turn(form, c, f[i - 1], ps[i])
BY DEF Turns

LEMMA TurnsExist ==
    ASSUME NEW form, NEW c, NEW ps
    PROVE  \A n \in Nat : \E f : Turns(f, n, form, c, ps)
<1> DEFINE N == {n \in Nat : \E f : Turns(f, n, form, c, ps)}
<1>1. 0 \in N
  <2> DEFINE f == [i \in 0 .. 0 |-> Start]
  <2>1. Turns(f, 0, form, c, ps)
    BY DEF Turns
  <2> HIDE DEF f
  <2> QED BY <2>1
<1>2. ASSUME NEW n \in Nat, n \in N PROVE n + 1 \in N
  <2>1. PICK f : Turns(f, n, form, c, ps)
    BY <1>2
  <2> DEFINE h == [i \in 0 .. n + 1 |-> IF i <= n THEN f[i] ELSE Turn(form, c, f[n], ps[n + 1])]
  <2>2. \A i \in 0 .. n : f[i] = IF i = 0 THEN Start ELSE Turn(form, c, f[i - 1], ps[i])
    BY <2>1, TurnSteps
  <2>3. ASSUME NEW i \in 0 .. n + 1
        PROVE  h[i] = IF i = 0 THEN Start ELSE Turn(form, c, h[i - 1], ps[i])
    <3>1. CASE i <= n
      <4>1. i \in 0 .. n /\ h[i] = f[i] /\ (i # 0 => h[i - 1] = f[i - 1])
        BY <3>1
      <4> QED BY <4>1, <2>2
    <3>2. CASE ~(i <= n)
      <4>1. i = n + 1 /\ i # 0 /\ h[i - 1] = f[n]
        BY <3>2
      <4>2. h[i] = Turn(form, c, f[n], ps[n + 1])
        BY <3>2
      <4> QED BY <4>1, <4>2
    <3> QED BY <3>1, <3>2
  <2>4. Turns(h, n + 1, form, c, ps)
    <3> HIDE DEF h
    <3>1. DOMAIN h = 0 .. n + 1 /\ h = [i \in 0 .. n + 1 |-> h[i]]
      BY DEF h
    <3> QED BY <2>3, <3>1 DEF Turns
  <2> HIDE DEF h
  <2> QED BY <2>4
<1> HIDE DEF N
<1>3. Nat \subseteq N
    BY <1>1, <1>2, NatSetInduction
<1> QED BY <1>3 DEF N

LEMMA StartState == Start.ok /\ IsState(Start.val)
<1>1. Start.val = [map |-> <<>>, seen |-> <<>>, forbidden |-> {}, skipped |-> 0] /\ Start.ok
    BY DEF Start, Ok
<1>2. <<>> \in Seq(Pairs)
    OBVIOUS
<1> QED BY <1>1, <1>2, NextState

LEMMA TurnsType ==
    ASSUME NEW form, NEW c, NEW ps \in Requests, NEW f, Turns(f, Len(ps), form, c, ps)
    PROVE  \A i \in 0 .. Len(ps) : f[i].ok => IsState(f[i].val)
<1> DEFINE N == {n \in Nat : n <= Len(ps) => (f[n].ok => IsState(f[n].val))}
<1>1. Len(ps) \in Nat
    BY LenProperties DEF Requests
<1>2. \A i \in 0 .. Len(ps) : f[i] = IF i = 0 THEN Start ELSE Turn(form, c, f[i - 1], ps[i])
    BY TurnSteps
<1>3. 0 \in N
  <2>1. f[0] = Start
    BY <1>1, <1>2
  <2> QED BY <2>1, StartState
<1>4. ASSUME NEW n \in Nat, n \in N PROVE n + 1 \in N
  <2> SUFFICES ASSUME n + 1 <= Len(ps), f[n + 1].ok PROVE IsState(f[n + 1].val)
    OBVIOUS
  <2>1. n <= Len(ps) /\ n + 1 \in 0 .. Len(ps) /\ n + 1 \in 1 .. Len(ps) /\ n + 1 # 0 /\ (n + 1) - 1 = n
    BY <1>1
  <2>2. f[n + 1] = Turn(form, c, f[n], ps[n + 1])
    BY <1>2, <2>1
  <2>3. f[n].ok /\ f[n + 1] = Parameter(form, c, f[n].val, ps[n + 1])
    BY <2>2 DEF Turn
  <2>4. IsState(f[n].val)
    BY <1>4, <2>1, <2>3
  <2>5. ps[n + 1] \in ParamNames \X Given_Texts
    BY <2>1, ElementOfSeq DEF Requests
  <2>6. CASE form = "kvp"
    <3>1. f[n + 1] = kvp_parameter(c, f[n].val, ps[n + 1])
      BY <2>3, <2>6 DEF Parameter
    <3> QED BY <2>4, <2>5, <3>1, KvpParameterType
  <2>7. CASE form # "kvp"
    <3>1. f[n + 1] = xml_parameter(c, f[n].val, ps[n + 1])
      BY <2>3, <2>7 DEF Parameter
    <3> QED BY <2>4, <2>5, <3>1, XmlParameterType
  <2> QED BY <2>6, <2>7
<1> HIDE DEF N
<1>5. Nat \subseteq N
    BY <1>3, <1>4, NatSetInduction
<1> QED BY <1>1, <1>5 DEF N

\* What is extracted from a request is a map of names and values.
LEMMA ExtractType ==
    ASSUME NEW form, NEW c, NEW ps \in Requests, extract_parameters(form, c, ps).ok
    PROVE  extract_parameters(form, c, ps).val.map \in Seq(Pairs)
<1> DEFINE f == CHOOSE g : Turns(g, Len(ps), form, c, ps)
<1>1. Len(ps) \in Nat
    BY LenProperties DEF Requests
<1>2. Turns(f, Len(ps), form, c, ps)
    BY <1>1, TurnsExist
<1>3. extract_parameters(form, c, ps) = Finish(c, f[Len(ps)])
    BY DEF extract_parameters, Turns, Turn, Then
<1> HIDE DEF f
<1> DEFINE r == f[Len(ps)]
           check == <<\E d \in c.params : check_param_min_occurs(r.val.seen, d), "OperationParsingFailed">>
<1>4. Finish(c, r) = IF r.ok THEN Checked(<<check>>, Ok(r.val)) ELSE r
    BY DEF Finish, Then
<1>5. r.ok => IsState(r.val)
    BY <1>1, <1>2, TurnsType
<1> HIDE DEF r, check
<1>6. r.ok /\ Checked(<<check>>, Ok(r.val)).ok /\ Finish(c, r) = Checked(<<check>>, Ok(r.val))
    BY <1>3, <1>4 DEF r
<1>7. Finish(c, r) = Ok(r.val)
    BY <1>6, OneCheck
<1>8. extract_parameters(form, c, ps).val = r.val
    BY <1>3, <1>7 DEF Ok, r
<1> QED BY <1>5, <1>6, <1>8 DEF IsState

LEMMA ExtractKvpType ==
    ASSUME NEW c, NEW ps \in Requests, extract_kvp_parameters(c, ps).ok
    PROVE  extract_kvp_parameters(c, ps).val.map \in Seq(Pairs)
BY ExtractType DEF extract_kvp_parameters

LEMMA ExtractXmlType ==
    ASSUME NEW c, NEW ps \in Requests, extract_xml_parameters(c, ps).ok
    PROVE  extract_xml_parameters(c, ps).val.map \in Seq(Pairs)
<1>1. extract_xml_parameters(c, ps) = extract_parameters("xml", c, ps)
    BY DEF extract_xml_parameters, WithCode, Fail, Throw
<1> QED BY <1>1, ExtractType
-----------------------------------------------------------------------------
(* ParameterTemplateItem and the templates *)

\* What an item gives: one value unless it is an array, none when not found.
Founds ==
    {f \in [found : BOOLEAN, vs : Seq(SpineValues), array : BOOLEAN] :
        /\ f.array => f.found
        /\ ~f.array => Len(f.vs) = IF f.found THEN 1 ELSE 0}
GivesFound(r) == r.ok => r.val \in Founds

LEMMA FoundTypes ==
    /\ GivesFound(NoCode) /\ GivesFound(ParsingFailed) /\ GivesFound(Ok(Absent))
    /\ \A v \in SpineValues : GivesFound(Ok(One(v)))
    /\ \A vs \in Seq(SpineValues) : GivesFound(Ok(Many(vs)))
<1>1. GivesFound(NoCode) /\ GivesFound(ParsingFailed)
    BY DEF GivesFound, NoCode, ParsingFailed, Fail, Throw
<1>2. GivesFound(Ok(Absent))
  <2>1. Absent \in Founds
    BY DEF Absent, Founds
  <2> QED BY <2>1 DEF GivesFound, Ok
<1>3. ASSUME NEW v \in SpineValues PROVE GivesFound(Ok(One(v)))
  <2>1. <<v>> \in Seq(SpineValues) /\ Len(<<v>>) = 1
    OBVIOUS
  <2>2. One(v) \in Founds
    BY <2>1 DEF One, Founds
  <2> QED BY <2>2 DEF GivesFound, Ok
<1>4. ASSUME NEW vs \in Seq(SpineValues) PROVE GivesFound(Ok(Many(vs)))
  <2>1. Many(vs) \in Founds
    BY DEF Many, Founds
  <2> QED BY <2>1 DEF GivesFound, Ok
<1> QED BY <1>1, <1>2, <1>3, <1>4

LEMMA RefValuesFound ==
    ASSUME NEW vs \in Seq(SpineValues), NEW allow_array
    PROVE  GivesFound(get_ref_values(vs, allow_array))
<1> DEFINE r == get_ref_values(vs, allow_array)
<1>1. CASE Len(vs) = 1
  <2>1. r = Ok(One(vs[1])) /\ vs[1] \in SpineValues
    BY <1>1 DEF get_ref_values
  <2> QED BY <2>1, FoundTypes
<1>2. CASE Len(vs) # 1 /\ allow_array
  <2>1. r = Ok(Many(vs))
    BY <1>2 DEF get_ref_values
  <2> QED BY <2>1, FoundTypes
<1>3. CASE Len(vs) # 1 /\ ~allow_array
  <2>1. r = ParsingFailed
    BY <1>3 DEF get_ref_values
  <2> QED BY <2>1, FoundTypes
<1> QED BY <1>1, <1>2, <1>3

\* The values of a name in a map of names and values.
LEMMA GetValuesType ==
    ASSUME NEW c, NEW map \in Seq(Pairs), NEW name
    PROVE  get_values(c, map, name) \in Seq(SpineValues)
BY ValuesType DEF get_values

LEMMA ItemTypes ==
    ASSUME NEW item \in TemplateItems
    PROVE  /\ item.text \in SpineValues /\ item.name \in ParamNames
           /\ item.ind \in Seq(Nat) /\ (item.ind # <<>> => item.ind[1] \in Nat)
           /\ item.default # <<>> => item.default[1] \in SpineValues
           /\ item.redirect # <<>> => item.redirect[1] \in ParamNames
<1>1. /\ item.text \in SpineValues /\ item.name \in ParamNames /\ item.ind \in Seq(Nat)
      /\ item.default \in Seq(SpineValues) /\ item.redirect \in Seq(ParamNames)
    BY DEF TemplateItems
<1> HIDE DEF TemplateItems
<1>2. \A T, s : s \in Seq(T) /\ s # <<>> => s[1] \in T
    OBVIOUS
<1> QED BY <1>1, <1>2

LEMMA DirectValueFound ==
    ASSUME NEW c, NEW map \in Seq(Pairs), NEW item \in TemplateItems, NEW allow_array
    PROVE  GivesFound(get_direct_value(c, map, item, allow_array))
<1> DEFINE r == get_direct_value(c, map, item, allow_array)
           vs == get_values(c, map, item.name)
           i == item.ind[1] + 1
<1>1. vs \in Seq(SpineValues)
    BY GetValuesType
<1>2. /\ item.kind = "absent" => r = Ok(Absent)
      /\ item.kind = "text" => r = Ok(One(item.text))
      /\ item.kind = "ref" /\ vs # <<>> /\ item.ind = <<>> => r = get_ref_values(vs, allow_array)
      /\ item.kind = "ref" /\ vs # <<>> /\ item.ind # <<>> /\ i <= Len(vs) => r = Ok(One(vs[i]))
      /\ \/ item.kind = "absent" \/ item.kind = "text"
         \/ item.kind = "ref" /\ vs # <<>> /\ item.ind = <<>>
         \/ item.kind = "ref" /\ vs # <<>> /\ item.ind # <<>> /\ i <= Len(vs)
         \/ r = Ok(One(item.default[1])) /\ item.default # <<>>
         \/ r \in {NoCode, ParsingFailed, Ok(Many(<<>>)), Ok(Absent)}
    BY DEF get_direct_value
<1> HIDE DEF r, vs
<1>3. CASE item.kind = "absent"
    BY <1>2, <1>3, FoundTypes DEF r
<1>4. CASE item.kind = "text"
    BY <1>2, <1>4, FoundTypes, ItemTypes DEF r
<1>5. CASE item.kind = "ref" /\ vs # <<>> /\ item.ind = <<>>
    BY <1>1, <1>2, <1>5, RefValuesFound DEF r
<1>6. CASE item.kind = "ref" /\ vs # <<>> /\ item.ind # <<>> /\ i <= Len(vs)
  <2>1. i \in 1 .. Len(vs)
    BY <1>1, <1>6, ItemTypes, LenProperties
  <2>2. vs[i] \in SpineValues
    BY <1>1, <2>1, ElementOfSeq
  <2> QED BY <1>2, <1>6, <2>2, FoundTypes DEF r
<1>7. CASE r = Ok(One(item.default[1])) /\ item.default # <<>>
    BY <1>7, FoundTypes, ItemTypes DEF r
<1>8. CASE r \in {NoCode, ParsingFailed, Ok(Many(<<>>)), Ok(Absent)}
  <2>1. <<>> \in Seq(SpineValues)
    OBVIOUS
  <2> QED BY <1>8, <2>1, FoundTypes DEF r
<1> QED BY <1>2, <1>3, <1>4, <1>5, <1>6, <1>7, <1>8

LEMMA SizedFound ==
    ASSUME NEW template, NEW vs \in Seq(SpineValues)
    PROVE  /\ GivesFound(sized(template, vs))
           /\ sized(template, vs).ok => sized(template, vs).val = Many(vs)
<1> DEFINE a == <<Len(vs) > template.max, "OperationParsingFailed">>
           b == <<Len(vs) < template.min, "OperationParsingFailed">>
<1>1. sized(template, vs) = Checked(<<a, b>>, Ok(Many(vs)))
    BY DEF sized
<1> HIDE DEF a, b
<1>2. sized(template, vs).ok => sized(template, vs) = Ok(Many(vs))
    BY <1>1, TwoChecks
<1> QED BY <1>2, FoundTypes DEF GivesFound, Ok

\* The values of several items, one after the other.
LEMMA ConcatenatedType ==
    ASSUME NEW n \in Nat, NEW rs, DOMAIN rs = 1 .. n, \A i \in 1 .. n : GivesFound(rs[i]),
           Concatenated(rs).ok
    PROVE  Concatenated(rs).val \in Seq(SpineValues)
<1> DEFINE all == All(rs)
           r == all.val
           parts == [i \in DOMAIN r |-> r[i].vs]
<1>1. Concatenated(rs) = IF all.ok THEN Ok(FlattenSeq(parts)) ELSE all
    BY DEF Concatenated, Then
<1>2. all.ok
    BY <1>1
<1>3. r \in Seq(Founds) /\ Len(r) = n
  <2>1. \A i \in 1 .. n : rs[i].ok => rs[i].val \in Founds
    BY DEF GivesFound
  <2> QED BY <1>2, <2>1, AllValues
<1>4. Concatenated(rs).val = FlattenSeq(parts)
    BY <1>1, <1>2 DEF Ok
<1> HIDE DEF all, r
<1>5. parts \in Seq(Seq(SpineValues))
  <2>1. DOMAIN r = 1 .. n /\ \A i \in 1 .. n : r[i] \in Founds
    BY <1>3, LenProperties, ElementOfSeq
  <2>2. \A i \in 1 .. n : r[i].vs \in Seq(SpineValues)
    BY <2>1 DEF Founds
  <2> QED BY <2>1, <2>2
<1> QED BY <1>4, <1>5, FlattenType

LEMMA ScalarFound ==
    ASSUME NEW r, GivesFound(r)
    PROVE  GivesFound(scalar_of(r)) /\ (scalar_of(r).ok => Len(scalar_of(r).val.vs) <= 1)
<1> DEFINE v == r.val
           s == scalar_of(r)
<1>1. /\ ~r.ok => s = r
      /\ r.ok /\ (~v.found \/ ~v.array) => s = Ok(v)
      /\ r.ok /\ v.found /\ v.array /\ Len(v.vs) <= 1 => s = Ok(IF v.vs = <<>> THEN Absent ELSE One(v.vs[1]))
      /\ r.ok /\ v.found /\ v.array /\ ~(Len(v.vs) <= 1) => s = NoCode
    BY DEF scalar_of, Then
<1> HIDE DEF s
<1>2. CASE ~r.ok
    BY <1>1, <1>2 DEF GivesFound, s
<1>3. CASE r.ok
  <2>1. /\ v \in Founds /\ v.vs \in Seq(SpineValues) /\ v.found \in BOOLEAN /\ v.array \in BOOLEAN
        /\ v.array => v.found
        /\ ~v.array => Len(v.vs) = IF v.found THEN 1 ELSE 0
    BY <1>3 DEF GivesFound, Founds
  <2>2. CASE ~v.found \/ ~v.array
    <3>1. s.val = v
      BY <1>1, <1>3, <2>2 DEF Ok
    <3>2. Len(v.vs) <= 1
      BY <2>1, <2>2
    <3> QED BY <2>1, <3>1, <3>2 DEF GivesFound, s
  <2>3. CASE v.found /\ v.array /\ Len(v.vs) <= 1
    <3>1. CASE v.vs = <<>>
      <4>1. s = Ok(Absent)
        BY <1>1, <1>3, <2>3, <3>1
      <4> QED BY <4>1, FoundTypes DEF Ok, Absent, s
    <3>2. CASE v.vs # <<>>
      <4>1. s = Ok(One(v.vs[1]))
        BY <1>1, <1>3, <2>3, <3>2
      <4>2. v.vs[1] \in SpineValues
        BY <2>1, <3>2
      <4>3. GivesFound(s)
        BY <4>1, <4>2, FoundTypes
      <4>4. s.val.vs = <<v.vs[1]>>
        BY <4>1 DEF Ok, One
      <4> HIDE DEF v
      <4>5. Len(s.val.vs) = 1
        BY <4>4
      <4> QED BY <4>3, <4>5 DEF s
    <3> QED BY <3>1, <3>2
  <2>4. CASE v.found /\ v.array /\ ~(Len(v.vs) <= 1)
    <3>1. s = NoCode
      BY <1>1, <1>3, <2>4
    <3> QED BY <3>1, FoundTypes DEF NoCode, Fail, Throw, s
  <2> QED BY <2>2, <2>3, <2>4
<1> QED BY <1>2, <1>3

\* The named parameters of a configuration that was read.
Extras ==
    {e \in [name : ParamNames, array : BOOLEAN, items : Seq(TemplateItems), min : Nat, max : Nat] :
        ~e.array => Len(e.items) = 1}

LEMMA RedirectionFound ==
    ASSUME NEW c, NEW map \in Seq(Pairs), NEW extra \in SUBSET Extras, NEW name
    PROVE  GivesFound(handle_redirection(c, map, extra, name))
<1> DEFINE r == handle_redirection(c, map, extra, name)
           known == {e \in extra : Lower(e.name) = Lower(name)}
           e == CHOOSE x \in known : TRUE
           rs == [i \in DOMAIN e.items |-> get_direct_value(c, map, e.items[i], TRUE)]
           all == Concatenated(rs)
<1>1. /\ known = {} => r = NoCode
      /\ known # {} /\ e.array => r = IF all.ok THEN sized(e, all.val) ELSE all
      /\ known # {} /\ ~e.array => r = scalar_of(get_direct_value(c, map, e.items[1], FALSE))
    BY DEF handle_redirection, Then
<1>2. known # {} => e \in Extras
    BY DEF Extras
<1> HIDE DEF r, e, known
<1>3. CASE known = {}
    BY <1>1, <1>3, FoundTypes DEF r
<1>4. CASE known # {} /\ e.array
  <2>1. /\ e.items \in Seq(TemplateItems) /\ Len(e.items) \in Nat
        /\ DOMAIN e.items = 1 .. Len(e.items)
        /\ \A i \in 1 .. Len(e.items) : e.items[i] \in TemplateItems
    BY <1>2, <1>4, LenProperties, ElementOfSeq DEF Extras
  <2>2. DOMAIN rs = 1 .. Len(e.items) /\ \A i \in 1 .. Len(e.items) : GivesFound(rs[i])
    BY <2>1, DirectValueFound
  <2> HIDE DEF rs
  <2>3. all.ok => all.val \in Seq(SpineValues)
    BY <2>1, <2>2, ConcatenatedType
  <2> HIDE DEF all
  <2>4. CASE all.ok
    BY <1>1, <1>4, <2>3, <2>4, SizedFound DEF r
  <2>5. CASE ~all.ok
    BY <1>1, <1>4, <2>5 DEF r, GivesFound
  <2> QED BY <2>4, <2>5
<1>5. CASE known # {} /\ ~e.array
  <2>1. e.items \in Seq(TemplateItems) /\ Len(e.items) = 1
    BY <1>2, <1>5 DEF Extras
  <2>2. e.items[1] \in TemplateItems
    BY <2>1
  <2>3. GivesFound(get_direct_value(c, map, e.items[1], FALSE))
    BY <2>2, DirectValueFound
  <2> QED BY <1>1, <1>5, <2>3, ScalarFound DEF r
<1> QED BY <1>3, <1>4, <1>5

LEMMA AbsentRefFound ==
    ASSUME NEW c, NEW map \in Seq(Pairs), NEW extra \in SUBSET Extras, NEW item \in TemplateItems, NEW allow_array
    PROVE  GivesFound(get_absent_ref_value(c, map, extra, item, allow_array))
<1> DEFINE r == get_absent_ref_value(c, map, extra, item, allow_array)
<1>1. \/ r = Ok(One(item.default[1])) /\ item.default # <<>>
      \/ r = handle_redirection(c, map, extra, item.redirect[1])
      \/ r = Ok(Many(<<>>)) \/ r = Ok(Absent)
    BY DEF get_absent_ref_value
<1> HIDE DEF r
<1>2. <<>> \in Seq(SpineValues)
    OBVIOUS
<1>3. GivesFound(r)
    BY <1>1, <1>2, FoundTypes, ItemTypes, RedirectionFound
<1> QED BY <1>3 DEF r

LEMMA IndexedRefFound ==
    ASSUME NEW c, NEW map \in Seq(Pairs), NEW extra \in SUBSET Extras, NEW item \in TemplateItems,
           item.ind # <<>>, NEW vs \in Seq(SpineValues)
    PROVE  GivesFound(get_indexed_ref_value(c, map, extra, item, vs))
<1> DEFINE r == get_indexed_ref_value(c, map, extra, item, vs)
<1>1. \/ r = Ok(One(vs[item.ind[1] + 1])) /\ item.ind[1] < Len(vs)
      \/ r = Ok(One(item.default[1])) /\ item.default # <<>>
      \/ r = handle_redirection(c, map, extra, item.redirect[1])
      \/ r = ParsingFailed
    BY DEF get_indexed_ref_value
<1> HIDE DEF r
<1>2. item.ind[1] < Len(vs) => vs[item.ind[1] + 1] \in SpineValues
  <2>1. item.ind[1] < Len(vs) => item.ind[1] + 1 \in 1 .. Len(vs)
    BY ItemTypes, LenProperties
  <2> QED BY <2>1, ElementOfSeq
<1>3. GivesFound(r)
    BY <1>1, <1>2, FoundTypes, ItemTypes, RedirectionFound
<1> QED BY <1>3 DEF r

LEMMA ValueFound ==
    ASSUME NEW c, NEW map \in Seq(Pairs), NEW extra \in SUBSET Extras, NEW item \in TemplateItems, NEW allow_array
    PROVE  GivesFound(get_value(c, map, extra, item, allow_array))
<1> DEFINE r == get_value(c, map, extra, item, allow_array)
           vs == get_values(c, map, item.name)
<1>1. \/ r = get_direct_value(c, map, item, allow_array)
      \/ r = get_absent_ref_value(c, map, extra, item, allow_array)
      \/ item.ind # <<>> /\ r = get_indexed_ref_value(c, map, extra, item, vs)
      \/ r = get_ref_values(vs, allow_array)
    BY DEF get_value
<1>2. vs \in Seq(SpineValues)
    BY GetValuesType
<1> HIDE DEF r, vs
<1>3. GivesFound(r)
    BY <1>1, <1>2, DirectValueFound, AbsentRefFound, IndexedRefFound, RefValuesFound
<1> QED BY <1>3 DEF r

LEMMA StrictValueFound ==
    ASSUME NEW c, NEW map, NEW extra, NEW item, NEW allow_array,
           GivesFound(get_value(c, map, extra, item, allow_array))
    PROVE  GivesFound(get_value_strict(c, map, extra, item, allow_array))
<1> DEFINE v == get_value(c, map, extra, item, allow_array)
           r == get_value_strict(c, map, extra, item, allow_array)
<1>1. r = IF v.ok THEN (IF v.val.found THEN Ok(v.val) ELSE IF item.kind = "absent" THEN NoCode ELSE ParsingFailed)
          ELSE v
    BY DEF get_value_strict, Then
<1>2. GivesFound(v)
    OBVIOUS
<1> HIDE DEF v, r
<1>3. GivesFound(r)
    BY <1>1, <1>2, FoundTypes DEF GivesFound, Ok
<1> QED BY <1>3 DEF r

\* A template without a setting gives no value.
LEMMA ScalarItemFound ==
    ASSUME NEW c, NEW map \in Seq(Pairs), NEW extra \in SUBSET Extras, NEW items \in Seq(TemplateItems)
    PROVE  GivesFound(get_value(c, map, extra, ScalarItem(items), FALSE))
<1>1. CASE items = <<>>
  <2>1. ScalarItem(items).kind = "absent"
    BY <1>1 DEF ScalarItem, Item
  <2>2. get_value(c, map, extra, ScalarItem(items), FALSE) = get_direct_value(c, map, ScalarItem(items), FALSE)
    BY <2>1 DEF get_value
  <2>3. get_direct_value(c, map, ScalarItem(items), FALSE) = Ok(Absent)
    BY <2>1 DEF get_direct_value
  <2> QED BY <2>2, <2>3, FoundTypes
<1>2. CASE items # <<>>
  <2>1. ScalarItem(items) = items[1] /\ items[1] \in TemplateItems
    BY <1>2 DEF ScalarItem
  <2> QED BY <2>1, ValueFound
<1> QED BY <1>1, <1>2

\* A required scalar has one value, an optional one at most one.
LEMMA ScalarGetType ==
    ASSUME NEW c, NEW map \in Seq(Pairs), NEW extra \in SUBSET Extras, NEW items \in Seq(TemplateItems),
           ScalarTemplate_get(c, map, extra, items).ok
    PROVE  /\ ScalarTemplate_get(c, map, extra, items).val \in Seq(SpineValues)
           /\ Len(ScalarTemplate_get(c, map, extra, items).val) = 1
<1> DEFINE r == ScalarTemplate_get(c, map, extra, items)
           s == get_value_strict(c, map, extra, ScalarItem(items), FALSE)
<1>1. \/ r = s /\ ~s.ok
      \/ s.ok /\ r = Ok(<<EmptyValue>>)
      \/ s.ok /\ Len(s.val.vs) = 1 /\ r = Ok(s.val.vs)
      \/ r = NoCode
  <2>1. CASE ~s.ok
    BY <2>1 DEF ScalarTemplate_get, Then
  <2>2. CASE s.ok
    <3>1. r = CASE Len(s.val.vs) = 0 -> Ok(<<EmptyValue>>)
                [] Len(s.val.vs) = 1 -> Ok(s.val.vs)
                [] OTHER -> NoCode
      BY <2>2 DEF ScalarTemplate_get, Then
    <3> HIDE DEF r, s
    <3> QED BY <2>2, <3>1
  <2> QED BY <2>1, <2>2
<1>2. GivesFound(s)
    BY ScalarItemFound, StrictValueFound
<1>3. EmptyValue \in SpineValues
    BY DEF EmptyValue, SpineValues
<1>4. r.ok
    OBVIOUS
<1> HIDE DEF r, s
<1>5. CASE r = Ok(<<EmptyValue>>)
  <2>1. r.val = <<EmptyValue>>
    BY <1>5 DEF Ok
  <2>2. <<EmptyValue>> \in Seq(SpineValues) /\ Len(<<EmptyValue>>) = 1
    BY <1>3
  <2> QED BY <2>1, <2>2 DEF r
<1>6. CASE s.ok /\ Len(s.val.vs) = 1 /\ r = Ok(s.val.vs)
  <2>1. r.val = s.val.vs
    BY <1>6 DEF Ok
  <2>2. s.val.vs \in Seq(SpineValues)
    BY <1>2, <1>6 DEF GivesFound, Founds
  <2> QED BY <1>6, <2>1, <2>2 DEF r
<1>7. r # NoCode
    BY <1>4 DEF NoCode, Fail, Throw
<1> QED BY <1>1, <1>4, <1>5, <1>6, <1>7

LEMMA ScalarGetOptionalType ==
    ASSUME NEW c, NEW map \in Seq(Pairs), NEW extra \in SUBSET Extras, NEW items \in Seq(TemplateItems),
           ScalarTemplate_get_optional(c, map, extra, items).ok
    PROVE  /\ ScalarTemplate_get_optional(c, map, extra, items).val \in Seq(SpineValues)
           /\ Len(ScalarTemplate_get_optional(c, map, extra, items).val) <= 1
<1> DEFINE r == ScalarTemplate_get_optional(c, map, extra, items)
           v == get_value(c, map, extra, ScalarItem(items), FALSE)
           s == scalar_of(v)
<1>1. r = IF s.ok THEN Ok(s.val.vs) ELSE s
    BY DEF ScalarTemplate_get_optional, Then
<1>2. GivesFound(s) /\ (s.ok => Len(s.val.vs) <= 1)
  <2>1. GivesFound(v)
    BY ScalarItemFound
  <2> HIDE DEF v
  <2> QED BY <2>1, ScalarFound
<1>3. r.ok
    OBVIOUS
<1> HIDE DEF r, s
<1>4. s.ok /\ r.val = s.val.vs
    BY <1>1, <1>3 DEF Ok
<1>5. s.val.vs \in Seq(SpineValues)
    BY <1>2, <1>4 DEF GivesFound, Founds
<1> QED BY <1>2, <1>4, <1>5 DEF r

LEMMA ArrayGetType ==
    ASSUME NEW c, NEW map \in Seq(Pairs), NEW extra \in SUBSET Extras, NEW template,
           template.items \in Seq(TemplateItems), ArrayTemplate_get(c, map, extra, template).ok
    PROVE  ArrayTemplate_get(c, map, extra, template).val \in Seq(SpineValues)
<1> DEFINE r == ArrayTemplate_get(c, map, extra, template)
           n == Len(template.items)
           rs == [i \in DOMAIN template.items |-> get_value_strict(c, map, extra, template.items[i], TRUE)]
           all == Concatenated(rs)
           s == sized(template, all.val)
<1>1. r = IF all.ok THEN IF s.ok THEN Ok(s.val.vs) ELSE s ELSE all
    BY DEF ArrayTemplate_get, Then
<1>2. /\ n \in Nat /\ DOMAIN rs = 1 .. n
      /\ \A i \in 1 .. n : rs[i] = get_value_strict(c, map, extra, template.items[i], TRUE)
      /\ \A i \in 1 .. n : template.items[i] \in TemplateItems
    BY LenProperties, ElementOfSeq
<1>3. r.ok
    OBVIOUS
<1> HIDE DEF rs, r, n
<1>4. \A i \in 1 .. n : GivesFound(rs[i])
    BY <1>2, ValueFound, StrictValueFound
<1>5. all.ok => all.val \in Seq(SpineValues)
    BY <1>2, <1>4, ConcatenatedType
<1> HIDE DEF all
<1>6. all.ok => (s.ok => s.val = Many(all.val))
    BY <1>5, SizedFound
<1> HIDE DEF s
<1>7. all.ok /\ s.ok /\ r.val = s.val.vs
    BY <1>1, <1>3 DEF Ok
<1>8. s.val.vs = all.val
    BY <1>6, <1>7 DEF Many
<1> QED BY <1>5, <1>7, <1>8 DEF r
-----------------------------------------------------------------------------
(* StoredQueryParamRegistry: what the handler is given *)

LEMMA TypedOk ==
    ASSUME NEW rec, NEW v, Typed(rec, v).ok
    PROVE  Typed(rec, v).val = v /\ rec.type \in v.types
BY DEF Typed, Ok, NoCode, Fail, Throw

LEMMA AddScalarOk ==
    ASSUME NEW rec, NEW v \in SpineValues, add_scalar_value(rec, v).ok
    PROVE  add_scalar_value(rec, v).val \in SpineValues /\ rec.type \in add_scalar_value(rec, v).val.types
<1> DEFINE distance == rec.type = "double" /\ "double" \notin v.types /\ IsDistance(rec.name) /\ "string" \in v.types
<1>1. CASE distance
  <2>1. add_scalar_value(rec, v) = parse_meter(v) /\ rec.type = "double"
    BY <1>1 DEF add_scalar_value
  <2> QED BY <2>1, ParseMeterType
<1>2. CASE ~distance
  <2>1. add_scalar_value(rec, v) = Typed(rec, v)
    BY <1>2 DEF add_scalar_value
  <2> QED BY <2>1, TypedOk
<1> QED BY <1>1, <1>2

LEMMA AddArrayOk ==
    ASSUME NEW rec, NEW v, add_array_value(rec, v).ok
    PROVE  add_array_value(rec, v).val = v /\ rec.type \in v.types
<1>1. add_array_value(rec, v) = Typed(rec, v)
    BY DEF add_array_value, NoCode, Fail, Throw
<1> QED BY <1>1, TypedOk

\* Each value gives one, and all have the type.
LEMMA AddScalarsOk ==
    ASSUME NEW rec, NEW vs \in Seq(SpineValues), add_scalar_values(rec, vs).ok
    PROVE  LET ws == add_scalar_values(rec, vs).val
           IN  ws \in Seq(SpineValues) /\ Len(ws) = Len(vs) /\ \A i \in DOMAIN ws : rec.type \in ws[i].types
<1> DEFINE rs == [i \in DOMAIN vs |-> add_scalar_value(rec, vs[i])]
<1>1. /\ Len(vs) \in Nat /\ DOMAIN vs = 1 .. Len(vs) /\ DOMAIN rs = 1 .. Len(vs)
      /\ \A i \in 1 .. Len(vs) : rs[i] = add_scalar_value(rec, vs[i]) /\ vs[i] \in SpineValues
    BY LenProperties, ElementOfSeq
<1>2. add_scalar_values(rec, vs) = All(rs)
    BY DEF add_scalar_values
<1> HIDE DEF rs
<1>3. \A i \in 1 .. Len(vs) : rs[i].ok => rs[i].val \in SpineValues /\ rec.type \in rs[i].val.types
    BY <1>1, AddScalarOk
<1>4. /\ All(rs).val \in Seq(SpineValues) /\ Len(All(rs).val) = Len(vs)
      /\ \A i \in 1 .. Len(vs) : rs[i].ok /\ All(rs).val[i] = rs[i].val
    BY <1>1, <1>2, <1>3, AllValues
<1>5. DOMAIN All(rs).val = 1 .. Len(vs)
    BY <1>4, LenProperties
<1> QED BY <1>2, <1>3, <1>4, <1>5

\* The values are entered as they are, and all have the type.
LEMMA AddArraysOk ==
    ASSUME NEW rec, NEW vs \in Seq(SpineValues), add_array_values(rec, vs).ok
    PROVE  add_array_values(rec, vs).val = vs /\ \A i \in DOMAIN vs : rec.type \in vs[i].types
<1> DEFINE rs == [i \in DOMAIN vs |-> add_array_value(rec, vs[i])]
<1>1. /\ Len(vs) \in Nat /\ DOMAIN vs = 1 .. Len(vs) /\ DOMAIN rs = 1 .. Len(vs)
      /\ \A i \in 1 .. Len(vs) : rs[i] = add_array_value(rec, vs[i]) /\ vs[i] \in SpineValues
    BY LenProperties, ElementOfSeq
<1>2. add_array_values(rec, vs) = All(rs)
    BY DEF add_array_values
<1> HIDE DEF rs
<1>3. \A i \in 1 .. Len(vs) : rs[i].ok => rs[i].val = vs[i] /\ rec.type \in vs[i].types
    BY <1>1, AddArrayOk
<1>4. /\ All(rs).val \in Seq(SpineValues) /\ Len(All(rs).val) = Len(vs)
      /\ \A i \in 1 .. Len(vs) : rs[i].ok /\ All(rs).val[i] = rs[i].val
    BY <1>1, <1>2, <1>3, AllValues
<1>5. \A i \in 1 .. Len(vs) : All(rs).val[i] = vs[i]
    BY <1>3, <1>4
<1>6. All(rs).val = vs
    BY <1>4, <1>5, SeqEqual
<1> QED BY <1>1, <1>2, <1>3, <1>4, <1>6

\* The values a registered parameter may have.
AsRegistered(rec, vs) ==
    /\ vs \in Seq(SpineValues)
    /\ \A j \in DOMAIN vs : rec.type \in vs[j].types
    /\ IF rec.array THEN Len(vs) \in rec.min .. rec.max
       ELSE Len(vs) <= 1 /\ (rec.required => Len(vs) = 1)

LEMMA ResolveOk ==
    ASSUME NEW c, NEW map \in Seq(Pairs), NEW extra \in SUBSET Extras, NEW rec \in ParamRecs,
           resolve_parameter(c, map, extra, rec).ok
    PROVE  AsRegistered(rec, resolve_parameter(c, map, extra, rec).val)
<1> DEFINE r == resolve_parameter(c, map, extra, rec)
<1>1. rec.template.items \in Seq(TemplateItems) /\ rec.min \in Nat /\ rec.max \in Nat
    BY DEF ParamRecs
<1>2. CASE rec.array
  <2> DEFINE vs == ArrayTemplate_get(c, map, extra, rec.template)
             n == check_value_count(rec, Len(vs.val))
             ws == add_array_values(rec, vs.val)
             a == <<Len(vs.val) < rec.min \/ Len(vs.val) > rec.max, "none">>
             b == <<rec.step > 1 /\ (Len(vs.val) - rec.min) % rec.step # 0, "none">>
  <2>1. r = IF vs.ok THEN IF n.ok THEN ws ELSE n ELSE vs
    BY <1>2 DEF resolve_parameter, Then
  <2>2. vs.ok => vs.val \in Seq(SpineValues)
    BY <1>1, ArrayGetType
  <2>3. n = Checked(<<a, b>>, Ok(Len(vs.val)))
    BY DEF check_value_count
  <2>4. r.ok
    OBVIOUS
  <2> HIDE DEF r, vs
  <2>5. vs.ok /\ n.ok /\ r = ws /\ ws.ok
    BY <2>1, <2>4
  <2>6. ~(Len(vs.val) < rec.min \/ Len(vs.val) > rec.max)
    <3> HIDE DEF a, b, n
    <3>1. ~a[1]
      BY <2>3, <2>5, TwoChecks
    <3> QED BY <3>1 DEF a
  <2>7. r.val = vs.val /\ \A i \in DOMAIN vs.val : rec.type \in (vs.val)[i].types
    <3>1. vs.val \in Seq(SpineValues) /\ add_array_values(rec, vs.val).ok
      BY <2>2, <2>5
    <3> QED BY <2>5, <3>1, AddArraysOk
  <2>8. Len(vs.val) \in rec.min .. rec.max
    BY <1>1, <2>2, <2>5, <2>6, LenProperties
  <2> QED BY <1>2, <2>2, <2>5, <2>7, <2>8 DEF AsRegistered, r
<1>3. CASE ~rec.array
  <2> DEFINE vs == scalar_values(c, map, extra, rec)
             ws == add_scalar_values(rec, vs.val)
  <2>1. r = IF vs.ok THEN ws ELSE vs
    BY <1>3 DEF resolve_parameter, Then
  <2>2. vs.ok => vs.val \in Seq(SpineValues) /\ Len(vs.val) <= 1 /\ (rec.required => Len(vs.val) = 1)
    <3>1. CASE rec.required
      <4>1. vs = ScalarTemplate_get(c, map, extra, rec.template.items)
        BY <3>1 DEF scalar_values
      <4>2. vs.ok => vs.val \in Seq(SpineValues) /\ Len(vs.val) = 1
        BY <1>1, <4>1, ScalarGetType
      <4> HIDE DEF vs
      <4>3. 1 <= 1
        OBVIOUS
      <4> QED BY <4>2, <4>3, Zenon
    <3>2. CASE ~rec.required
      <4>1. vs = ScalarTemplate_get_optional(c, map, extra, rec.template.items)
        BY <3>2 DEF scalar_values
      <4> QED BY <1>1, <3>2, <4>1, ScalarGetOptionalType
    <3> QED BY <3>1, <3>2
  <2>3. r.ok
    OBVIOUS
  <2> HIDE DEF r, vs
  <2>4. vs.ok /\ r = ws /\ ws.ok
    BY <2>1, <2>3
  <2>5. /\ r.val \in Seq(SpineValues) /\ Len(r.val) = Len(vs.val)
        /\ \A i \in DOMAIN r.val : rec.type \in (r.val)[i].types
    <3>1. vs.val \in Seq(SpineValues) /\ add_scalar_values(rec, vs.val).ok
      BY <2>2, <2>4
    <3> QED BY <2>4, <3>1, AddScalarsOk
  <2> QED BY <1>3, <2>2, <2>4, <2>5 DEF AsRegistered, r
<1> QED BY <1>2, <1>3

LEMMA EnterOk ==
    ASSUME NEW c, NEW map \in Seq(Pairs), NEW extra \in SUBSET Extras, NEW rec \in ParamRecs,
           enter_parameter(c, map, extra, rec).ok
    PROVE  \E vs : /\ AsRegistered(rec, vs)
                   /\ enter_parameter(c, map, extra, rec).val = Keyed(Key(c, rec.name), vs)
<1> DEFINE r == resolve_parameter(c, map, extra, rec)
           e == enter_parameter(c, map, extra, rec)
<1>1. e = IF r.ok THEN Ok(insert_values(c, <<>>, rec.name, r.val)) ELSE r
    BY DEF enter_parameter, Then
<1>2. r.ok => AsRegistered(rec, r.val)
    BY ResolveOk
<1>3. e.ok
    OBVIOUS
<1> HIDE DEF r, e
<1>4. r.ok /\ e.val = insert_values(c, <<>>, rec.name, r.val)
    BY <1>1, <1>3 DEF Ok
<1>5. Keyed(Key(c, rec.name), r.val) \in Seq(Pairs)
  <2>1. rec.name \in ParamNames /\ r.val \in Seq(SpineValues)
    BY <1>2, <1>4 DEF AsRegistered, ParamRecs
  <2> QED BY <2>1, KeyType, KeyedType
<1>6. insert_values(c, <<>>, rec.name, r.val) = <<>> \o Keyed(Key(c, rec.name), r.val)
    BY DEF insert_values, Keyed
<1>7. e.val = Keyed(Key(c, rec.name), r.val)
    BY <1>4, <1>5, <1>6, ConcatEmptySeq
<1> QED BY <1>2, <1>4, <1>7 DEF e

LEMMA AllParts ==
    ASSUME NEW n \in Nat, NEW rs, DOMAIN rs = 1 .. n,
           \A i \in 1 .. n : rs[i].ok => rs[i].val \in Seq(Pairs), All(rs).ok
    PROVE  /\ All(rs).val \in Seq(Seq(Pairs)) /\ Len(All(rs).val) = n
           /\ \A i \in 1 .. n : rs[i].ok /\ All(rs).val[i] = rs[i].val
<1> DEFINE T == Seq(Pairs)
<1>1. \A i \in 1 .. n : rs[i].ok => rs[i].val \in T
    OBVIOUS
<1> HIDE DEF T
<1>2. /\ All(rs).val \in Seq(T) /\ Len(All(rs).val) = n
      /\ \A i \in 1 .. n : rs[i].ok /\ All(rs).val[i] = rs[i].val
    BY <1>1, AllValues
<1> QED BY <1>2 DEF T

\* Every parameter is found by its name with the values it may have, and
\* nothing is found by another name.
LEMMA ResolveHandlerOk ==
    ASSUME NEW c, NEW map \in Seq(Pairs), NEW extra \in SUBSET Extras, NEW recs \in Seq(ParamRecs),
           \A i, j \in DOMAIN recs : Key(c, recs[i].name) = Key(c, recs[j].name) => i = j,
           resolve_handler_parameters(c, map, extra, recs).ok
    PROVE  LET all == resolve_handler_parameters(c, map, extra, recs).val
           IN  /\ all \in Seq(Pairs)
               /\ \A i \in DOMAIN recs : AsRegistered(recs[i], values_of(all, Key(c, recs[i].name)))
               /\ \A key : (\A i \in DOMAIN recs : Key(c, recs[i].name) # key) => values_of(all, key) = <<>>
<1> DEFINE r == resolve_handler_parameters(c, map, extra, recs)
           n == Len(recs)
           rs == [i \in DOMAIN recs |-> enter_parameter(c, map, extra, recs[i])]
           a == All(rs)
           parts == a.val
<1>1. r = IF a.ok THEN Ok(FlattenSeq(parts)) ELSE a
    BY DEF resolve_handler_parameters, Then
<1>2. /\ n \in Nat /\ DOMAIN recs = 1 .. n /\ DOMAIN rs = 1 .. n
      /\ \A i \in 1 .. n : rs[i] = enter_parameter(c, map, extra, recs[i]) /\ recs[i] \in ParamRecs
    BY LenProperties, ElementOfSeq
<1>3. r.ok
    OBVIOUS
<1> HIDE DEF rs, n, r
<1>4. \A i \in 1 .. n : rs[i].ok =>
          \E vs : AsRegistered(recs[i], vs) /\ rs[i].val = Keyed(Key(c, recs[i].name), vs)
    BY <1>2, EnterOk
<1>5. \A i \in 1 .. n : \A vs : AsRegistered(recs[i], vs) =>
          Key(c, recs[i].name) \in ParamNames /\ vs \in Seq(SpineValues)
              /\ Keyed(Key(c, recs[i].name), vs) \in Seq(Pairs)
  <2>1. \A i \in 1 .. n : Key(c, recs[i].name) \in ParamNames
    BY <1>2, KeyType DEF ParamRecs
  <2>2. \A i, vs : AsRegistered(recs[i], vs) => vs \in Seq(SpineValues)
    BY DEF AsRegistered
  <2>3. \A k \in ParamNames, vs \in Seq(SpineValues) : Keyed(k, vs) \in Seq(Pairs)
    BY KeyedType
  <2> QED BY <2>1, <2>2, <2>3
<1>6. \A i \in 1 .. n : rs[i].ok => rs[i].val \in Seq(Pairs)
    BY <1>4, <1>5
<1>7. a.ok /\ r.val = FlattenSeq(parts)
    BY <1>1, <1>3 DEF Ok
<1>8. /\ parts \in Seq(Seq(Pairs)) /\ Len(parts) = n
      /\ \A i \in 1 .. n : rs[i].ok /\ parts[i] = rs[i].val
  <2>1. n \in Nat /\ DOMAIN rs = 1 .. n /\ All(rs).ok
    BY <1>2, <1>7
  <2> QED BY <1>6, <2>1, AllParts
<1> HIDE DEF a, parts
<1>9. \A i \in 1 .. n : \E vs : AsRegistered(recs[i], vs) /\ parts[i] = Keyed(Key(c, recs[i].name), vs)
    BY <1>4, <1>8
<1>10. r.val \in Seq(Pairs)
    BY <1>7, <1>8, FlattenType
<1>11. \A i \in 1 .. n : \A key : Key(c, recs[i].name) # key => values_of(parts[i], key) = <<>>
  <2> SUFFICES ASSUME NEW i \in 1 .. n, NEW key, Key(c, recs[i].name) # key
               PROVE  values_of(parts[i], key) = <<>>
    OBVIOUS
  <2>1. PICK vs : AsRegistered(recs[i], vs) /\ parts[i] = Keyed(Key(c, recs[i].name), vs)
    BY <1>9
  <2>2. Key(c, recs[i].name) \in ParamNames /\ vs \in Seq(SpineValues)
    BY <1>5, <2>1
  <2>3. values_of(Keyed(Key(c, recs[i].name), vs), key) = IF Key(c, recs[i].name) = key THEN vs ELSE <<>>
    BY <2>2, ValuesOfKeyed
  <2> QED BY <2>1, <2>3
<1>12. ASSUME NEW i \in 1 .. n PROVE AsRegistered(recs[i], values_of(r.val, Key(c, recs[i].name)))
  <2> DEFINE key == Key(c, recs[i].name)
  <2>1. PICK vs : AsRegistered(recs[i], vs) /\ parts[i] = Keyed(key, vs)
    BY <1>9
  <2>2. key \in ParamNames /\ vs \in Seq(SpineValues)
    BY <1>5, <2>1
  <2>3. values_of(Keyed(key, vs), key) = vs
    BY <2>2, ValuesOfKeyed
  <2>4. \A j \in 1 .. Len(parts) : j # i => values_of(parts[j], key) = <<>>
    BY <1>2, <1>8, <1>11
  <2>5. i \in 0 .. Len(parts) /\ i # 0
    BY <1>2, <1>8
  <2> HIDE DEF key
  <2>6. parts \in Seq(Seq(Pairs)) /\ i \in 0 .. Len(parts)
    BY <1>8, <2>5
  <2>7. values_of(FlattenSeq(parts), key) = IF i = 0 THEN <<>> ELSE values_of(parts[i], key)
    BY <2>4, <2>6, ValuesOfFlat, Zenon
  <2>8. values_of(FlattenSeq(parts), key) = values_of(parts[i], key)
    BY <2>5, <2>7
  <2> QED BY <1>7, <2>1, <2>3, <2>8 DEF key
<1>13. ASSUME NEW key, \A i \in 1 .. n : Key(c, recs[i].name) # key
       PROVE  values_of(r.val, key) = <<>>
  <2>1. \A j \in 1 .. Len(parts) : j # 0 => values_of(parts[j], key) = <<>>
    BY <1>8, <1>11, <1>13
  <2>2. 0 \in 0 .. Len(parts)
    BY <1>2, <1>8
  <2>3. parts \in Seq(Seq(Pairs))
    BY <1>8
  <2>4. values_of(FlattenSeq(parts), key) = IF 0 = 0 THEN <<>> ELSE values_of(parts[0], key)
    BY <2>1, <2>2, <2>3, ValuesOfFlat, Zenon
  <2> QED BY <1>7, <2>4
<1> QED BY <1>2, <1>10, <1>12, <1>13 DEF r
-----------------------------------------------------------------------------
(* SupportsTimeParameters *)

LEMMA GetOk ==
    ASSUME NEW c, NEW map \in Seq(Pairs), NEW name, NEW type, NEW min, NEW max, NEW step,
           get(c, map, name, type, min, max, step).ok
    PROVE  LET vs == get(c, map, name, type, min, max, step).val
           IN  /\ vs = get_values(c, map, name) /\ vs \in Seq(SpineValues)
               /\ \A i \in 1 .. Len(vs) : type \in vs[i].types /\ vs[i] \in SpineValues
               /\ ~(Len(vs) > max) /\ ~(Len(vs) < min)
<1> DEFINE r == get(c, map, name, type, min, max, step)
           vs == get_values(c, map, name)
           k1 == <<Len(vs) > max, "none">>
           k2 == <<\E i \in DOMAIN vs : type \notin vs[i].types, "none">>
           k3 == <<Len(vs) < min, "none">>
           k4 == <<step > 1 /\ Len(vs) % step # 0, "none">>
<1>1. r = Checked(<<k1, k2, k3, k4>>, Ok(vs))
    BY DEF get
<1>2. vs \in Seq(SpineValues)
    BY GetValuesType
<1>3. r.ok
    OBVIOUS
<1>4. /\ Len(vs) > max <=> k1[1]
      /\ (\E i \in DOMAIN vs : type \notin vs[i].types) <=> k2[1]
      /\ Len(vs) < min <=> k3[1]
    BY Zenon
<1> HIDE DEF r, vs, k1, k2, k3, k4
<1>5. r = Ok(vs) /\ ~k1[1] /\ ~k2[1] /\ ~k3[1]
    BY <1>1, <1>3, FourChecks
<1>6. r.val = vs
    BY <1>5 DEF Ok
<1>7. \A i \in 1 .. Len(vs) : type \in vs[i].types /\ vs[i] \in SpineValues
    BY <1>2, <1>4, <1>5, LenProperties, ElementOfSeq
<1> QED BY <1>2, <1>4, <1>5, <1>6, <1>7 DEF r, vs

\* Times of the day, HHMM.
TimesOfDay == {t \in Nat : t \div 100 <= 23 /\ t % 100 <= 59}

\* The options, as far as they have been read.
TimeOptions ==
    [mode : {"TimeSteps", "FixedTimes", "DataTimes"}, timeList : SUBSET TimesOfDay, timeStep : Seq(Nat \ {0}),
     timeSteps : Seq(Nat \ {0}), startTime : Int, endTime : Int]
Sound(o) == o \in TimeOptions /\ (o.mode = "FixedTimes" <=> o.timeList # {})
GivesSound(r) == r.ok => Sound(r.val)

LEMMA UnsignedType ==
    ASSUME NEW n \in Int
    PROVE  /\ ToUnsigned(n) \in Nat /\ ToUnsigned(n) < 2 ^ UIntBits
           /\ n \in Nat /\ n < 2 ^ UIntBits => ToUnsigned(n) = n
<1> DEFINE m == 2 ^ UIntBits
<1>1. m \in Nat \ {0}
    BY UIntBitsAssumption
<1> HIDE DEF m
<1>2. n % m \in Nat /\ n % m < m /\ (n \in Nat /\ n < m => n % m = n)
    BY <1>1
<1> QED BY <1>2 DEF ToUnsigned, m

LEMMA FixedHoursSound ==
    ASSUME NEW o, Sound(o), NEW vs \in Seq(SpineValues), vs # <<>>
    PROVE  GivesSound(add_fixed_hours(o, vs))
<1> DEFINE r == add_fixed_hours(o, vs)
           new == {100 * ToUnsigned(vs[i].n) : i \in DOMAIN vs}
<1>1. /\ DOMAIN vs = 1 .. Len(vs) /\ Len(vs) \in Nat \ {0}
      /\ \A i \in DOMAIN vs : vs[i] \in SpineValues
    BY LenProperties, ElementOfSeq
<1>2. \A i \in DOMAIN vs : ToUnsigned(vs[i].n) \in Nat
    BY <1>1, UnsignedType DEF SpineValues
<1>3. CASE \E i \in DOMAIN vs : ToUnsigned(vs[i].n) > 23
    BY <1>3 DEF add_fixed_hours, GivesSound, ParsingFailed, Fail, Throw
<1>4. CASE ~\E i \in DOMAIN vs : ToUnsigned(vs[i].n) > 23
  <2>1. r.val = [o EXCEPT !.mode = "FixedTimes", !.timeList = @ \cup new]
    BY <1>4 DEF add_fixed_hours, Ok
  <2>2. new \in SUBSET TimesOfDay
    <3>1. \A u \in Nat : ~(u > 23) => 100 * u \in TimesOfDay
      BY DEF TimesOfDay
    <3> QED BY <1>2, <1>4, <3>1
  <2>3. new # {}
    <3>1. 1 \in DOMAIN vs
      BY <1>1
    <3> QED BY <3>1
  <2> HIDE DEF new
  <2>4. Sound([o EXCEPT !.mode = "FixedTimes", !.timeList = @ \cup new])
    BY <2>2, <2>3 DEF Sound, TimeOptions
  <2> QED BY <2>1, <2>4 DEF GivesSound
<1> QED BY <1>3, <1>4

LEMMA FixedTimesSound ==
    ASSUME NEW o, Sound(o), NEW vs \in Seq(SpineValues), vs # <<>>
    PROVE  GivesSound(add_fixed_times(o, vs))
<1> DEFINE r == add_fixed_times(o, vs)
           t(i) == ToUnsigned(vs[i].n)
           new == {t(i) : i \in DOMAIN vs}
           wrong == \E i \in DOMAIN vs : t(i) \div 100 > 23 \/ t(i) % 100 > 59
<1>1. /\ DOMAIN vs = 1 .. Len(vs) /\ Len(vs) \in Nat \ {0}
      /\ \A i \in DOMAIN vs : vs[i] \in SpineValues
    BY LenProperties, ElementOfSeq
<1>2. \A i \in DOMAIN vs : t(i) \in Nat
    BY <1>1, UnsignedType DEF SpineValues
<1>3. CASE wrong
    BY <1>3 DEF add_fixed_times, GivesSound, ParsingFailed, Fail, Throw
<1>4. CASE ~wrong
  <2>1. r.val = [o EXCEPT !.mode = "FixedTimes", !.timeList = @ \cup new]
    BY <1>4 DEF add_fixed_times, Ok
  <2>2. new \in SUBSET TimesOfDay
    <3>1. \A u \in Nat : ~(u \div 100 > 23 \/ u % 100 > 59) => u \in TimesOfDay
      BY DEF TimesOfDay
    <3> QED BY <1>2, <1>4, <3>1
  <2>3. new # {}
    <3>1. 1 \in DOMAIN vs
      BY <1>1
    <3> QED BY <3>1
  <2> HIDE DEF new
  <2>4. Sound([o EXCEPT !.mode = "FixedTimes", !.timeList = @ \cup new])
    BY <2>2, <2>3 DEF Sound, TimeOptions
  <2> QED BY <2>1, <2>4 DEF GivesSound
<1> QED BY <1>3, <1>4

LEMMA TimeStepSound ==
    ASSUME NEW o, Sound(o), NEW step \in Nat
    PROVE  GivesSound(set_time_step(o, step))
<1> DEFINE r == set_time_step(o, step)
           new == IF step = 0 THEN [o EXCEPT !.mode = "DataTimes"] ELSE [o EXCEPT !.timeStep = <<step>>]
           a == <<o.mode # "TimeSteps", "OperationParsingFailed">>
           b == <<step # 0 /\ 1440 % step # 0, "OperationParsingFailed">>
<1> SUFFICES ASSUME r.ok PROVE Sound(r.val)
    BY DEF GivesSound
<1>1. r = Checked(<<a, b>>, Ok(new))
    BY DEF set_time_step
<1>2. a[1] <=> o.mode # "TimeSteps"
    BY Zenon
<1> HIDE DEF a, b, new, r
<1>3. r = Ok(new) /\ o.mode = "TimeSteps"
    BY <1>1, <1>2, TwoChecks
<1>4. Sound(new)
  <2>1. CASE step = 0
    <3>1. new = [o EXCEPT !.mode = "DataTimes"]
      BY <2>1 DEF new
    <3> QED BY <1>3, <3>1 DEF Sound, TimeOptions
  <2>2. CASE step # 0
    <3>1. new = [o EXCEPT !.timeStep = <<step>>]
      BY <2>2 DEF new
    <3>2. <<step>> \in Seq(Nat \ {0})
      BY <2>2
    <3> QED BY <3>1, <3>2 DEF Sound, TimeOptions
  <2> QED BY <2>1, <2>2
<1> QED BY <1>3, <1>4 DEF Ok

LEMMA NumStepsSound ==
    ASSUME NEW o, Sound(o), NEW n \in Nat
    PROVE  GivesSound(set_num_steps(o, n))
<1> DEFINE r == set_num_steps(o, n)
           new == [o EXCEPT !.timeSteps = <<n>>]
           a == <<n = 0 \/ n > 2 ^ (UIntBits - 1) - 1, "OperationParsingFailed">>
<1> SUFFICES ASSUME r.ok PROVE Sound(r.val)
    BY DEF GivesSound
<1>1. r = Checked(<<a>>, Ok(new))
    BY DEF set_num_steps
<1>2. ~a[1] => n # 0
    BY Zenon
<1> HIDE DEF a, new, r
<1>3. r = Ok(new) /\ n # 0
    BY <1>1, <1>2, OneCheck
<1>4. Sound(new)
  <2>1. <<n>> \in Seq(Nat \ {0})
    BY <1>3
  <2> QED BY <2>1 DEF Sound, TimeOptions, new
<1> QED BY <1>3, <1>4 DEF Ok

\* What the reads of a parameter give: values of the type, and at most one
\* when it is optional; unsigned numbers are not negative.
LEMMA GetReads ==
    ASSUME NEW map \in Seq(Pairs), NEW name, NEW type
    PROVE  /\ Get(map, name, type).ok => Get(map, name, type).val \in Seq(SpineValues)
           /\ GetOptional(map, name, type).ok => GetOptional(map, name, type).val \in Seq(SpineValues)
<1>1. ASSUME Get(map, name, type).ok PROVE Get(map, name, type).val \in Seq(SpineValues)
    BY <1>1, GetOk DEF Get
<1>2. ASSUME GetOptional(map, name, type).ok PROVE GetOptional(map, name, type).val \in Seq(SpineValues)
    BY <1>2, GetOk DEF GetOptional, get_optional
<1> QED BY <1>1, <1>2

LEMMA UnsignedReads ==
    ASSUME NEW map \in Seq(Pairs), NEW name, GetOptional(map, name, "uint").ok,
           GetOptional(map, name, "uint").val # <<>>
    PROVE  GetOptional(map, name, "uint").val[1].n \in Nat
<1> DEFINE vs == GetOptional(map, name, "uint").val
<1>1. /\ vs \in Seq(SpineValues)
      /\ \A i \in 1 .. Len(vs) : "uint" \in vs[i].types /\ vs[i] \in SpineValues
    BY GetOk DEF GetOptional, get_optional
<1>2. vs # <<>>
    OBVIOUS
<1> HIDE DEF vs
<1>3. 1 \in 1 .. Len(vs)
    BY <1>1, <1>2
<1>4. vs[1] \in SpineValues /\ "uint" \in vs[1].types
    BY <1>1, <1>3
<1>5. vs[1].n \in Int /\ vs[1].n >= 0
    BY <1>4 DEF SpineValues
<1> QED BY <1>5 DEF vs

LEMMA HoursSound ==
    ASSUME NEW map \in Seq(Pairs), NEW now \in Int
    PROVE  GivesSound(with_hours(map, now))
<1> DEFINE r == with_hours(map, now)
           vs == Get(map, "hours", "uint")
<1>1. r = IF vs.ok THEN IF vs.val = <<>> THEN Ok(fresh(now)) ELSE add_fixed_hours(fresh(now), vs.val) ELSE vs
    BY DEF with_hours, With, Then, Ok
<1>2. Sound(fresh(now))
    BY DEF fresh, Sound, TimeOptions
<1>3. vs.ok => vs.val \in Seq(SpineValues)
    BY GetReads
<1> HIDE DEF r, vs
<1>4. GivesSound(r)
    BY <1>1, <1>2, <1>3, FixedHoursSound DEF GivesSound, Ok
<1> QED BY <1>4 DEF r

LEMMA TimesSound ==
    ASSUME NEW map \in Seq(Pairs), NEW now \in Int
    PROVE  GivesSound(with_times(map, now))
<1> DEFINE r == with_times(map, now)
           p == with_hours(map, now)
           vs == Get(map, "times", "uint")
<1>1. r = IF p.ok THEN IF vs.ok THEN IF vs.val = <<>> THEN Ok(p.val) ELSE add_fixed_times(p.val, vs.val) ELSE vs
          ELSE p
    BY DEF with_times, With, Then
<1>2. GivesSound(p)
    BY HoursSound
<1>3. vs.ok => vs.val \in Seq(SpineValues)
    BY GetReads
<1> HIDE DEF r, vs, p
<1>4. GivesSound(r)
    BY <1>1, <1>2, <1>3, FixedTimesSound DEF GivesSound, Ok
<1> QED BY <1>4 DEF r

LEMMA StepSound ==
    ASSUME NEW map \in Seq(Pairs), NEW now \in Int
    PROVE  GivesSound(with_step(map, now))
<1> DEFINE r == with_step(map, now)
           p == with_times(map, now)
           vs == GetOptional(map, "timestep", "uint")
<1>1. r = IF p.ok THEN IF vs.ok THEN IF vs.val = <<>> THEN Ok(p.val) ELSE set_time_step(p.val, vs.val[1].n) ELSE vs
          ELSE p
    BY DEF with_step, With, Then
<1>2. GivesSound(p)
    BY TimesSound
<1>3. vs.ok /\ vs.val # <<>> => vs.val[1].n \in Nat
    BY UnsignedReads
<1> HIDE DEF r, vs, p
<1>4. GivesSound(r)
    BY <1>1, <1>2, <1>3, TimeStepSound DEF GivesSound, Ok
<1> QED BY <1>4 DEF r

LEMMA StepsSound ==
    ASSUME NEW map \in Seq(Pairs), NEW now \in Int
    PROVE  GivesSound(with_steps(map, now))
<1> DEFINE r == with_steps(map, now)
           p == with_step(map, now)
           vs == GetOptional(map, "timesteps", "uint")
<1>1. r = IF p.ok THEN IF vs.ok THEN IF vs.val = <<>> THEN Ok(p.val) ELSE set_num_steps(p.val, vs.val[1].n) ELSE vs
          ELSE p
    BY DEF with_steps, With, Then
<1>2. GivesSound(p)
    BY StepSound
<1>3. vs.ok /\ vs.val # <<>> => vs.val[1].n \in Nat
    BY UnsignedReads
<1> HIDE DEF r, vs, p
<1>4. GivesSound(r)
    BY <1>1, <1>2, <1>3, NumStepsSound DEF GivesSound, Ok
<1> QED BY <1>4 DEF r

\* From here on there is a time step.
Stepped(o) == Sound(o) /\ o.timeStep # <<>>
GivesStepped(r) == r.ok => Stepped(r.val)

LEMMA HourlySound ==
    ASSUME NEW map \in Seq(Pairs), NEW now \in Int
    PROVE  GivesStepped(hourly(map, now))
<1> DEFINE r == hourly(map, now)
           p == with_steps(map, now)
           o == p.val
<1>1. r = IF p.ok THEN Ok(IF o.timeStep = <<>> THEN [o EXCEPT !.timeStep = <<60>>] ELSE o) ELSE p
    BY DEF hourly, Then
<1>2. p.ok => Sound(o)
    BY StepsSound DEF GivesSound
<1> HIDE DEF r, p, o
<1> SUFFICES ASSUME r.ok PROVE Stepped(r.val)
    BY DEF GivesStepped, r
<1>3. p.ok /\ r.val = IF o.timeStep = <<>> THEN [o EXCEPT !.timeStep = <<60>>] ELSE o
    BY <1>1 DEF Ok
<1>4. CASE o.timeStep = <<>>
  <2>1. r.val = [o EXCEPT !.timeStep = <<60>>]
    BY <1>3, <1>4
  <2>2. <<60>> \in Seq(Nat \ {0}) /\ <<60>> # <<>>
    OBVIOUS
  <2> QED BY <1>2, <1>3, <2>1, <2>2 DEF Stepped, Sound, TimeOptions
<1>5. CASE o.timeStep # <<>>
    BY <1>2, <1>3, <1>5 DEF Stepped
<1> QED BY <1>4, <1>5

LEMMA BeginSound ==
    ASSUME NEW map \in Seq(Pairs), NEW now \in Int
    PROVE  GivesStepped(with_begin(map, now))
<1> DEFINE r == with_begin(map, now)
           p == hourly(map, now)
           vs == Get(map, "begintime", "time")
           new == IF Len(vs.val) > 1 THEN NoCode ELSE Ok([p.val EXCEPT !.startTime = vs.val[1].n])
<1>1. r = IF p.ok THEN IF vs.ok THEN IF vs.val = <<>> THEN Ok(p.val) ELSE new ELSE vs ELSE p
    BY DEF with_begin, With, Then
<1>2. p.ok => Stepped(p.val)
    BY HourlySound DEF GivesStepped
<1>3. vs.ok => vs.val \in Seq(SpineValues)
    BY GetReads
<1> HIDE DEF r, vs, p
<1> SUFFICES ASSUME r.ok PROVE Stepped(r.val)
    BY DEF GivesStepped, r
<1>4. p.ok /\ vs.ok
    BY <1>1
<1>5. CASE vs.val = <<>>
    BY <1>1, <1>2, <1>4, <1>5 DEF Ok
<1>6. CASE vs.val # <<>>
  <2>1. r.val = [p.val EXCEPT !.startTime = vs.val[1].n]
    BY <1>1, <1>4, <1>6 DEF Ok, NoCode, Fail, Throw
  <2>2. vs.val[1] \in SpineValues
    BY <1>3, <1>4, <1>6
  <2>3. vs.val[1].n \in Int
    BY <2>2 DEF SpineValues
  <2> QED BY <1>2, <1>4, <2>1, <2>3 DEF Stepped, Sound, TimeOptions
<1> QED BY <1>5, <1>6

LEMMA StartStepSound ==
    ASSUME NEW map \in Seq(Pairs), NEW now \in Int
    PROVE  GivesStepped(with_start_step(map, now))
<1> DEFINE r == with_start_step(map, now)
           p == with_begin(map, now)
           o == p.val
           vs == GetOptional(map, "startstep", "uint")
           n == vs.val[1].n
           a == <<n > 10000, "OperationParsingFailed">>
           later == [o EXCEPT !.startTime = @ + n * o.timeStep[1]]
<1>1. r = IF p.ok THEN IF vs.ok THEN IF vs.val = <<>> THEN Ok(o) ELSE add_start_step(o, n) ELSE vs ELSE p
    BY DEF with_start_step, With, Then
<1>2. p.ok => Stepped(o)
    BY BeginSound DEF GivesStepped
<1>3. vs.ok /\ vs.val # <<>> => n \in Nat
    BY UnsignedReads
<1>4. add_start_step(o, n) = Checked(<<a>>, Ok(later))
    BY DEF add_start_step
<1> HIDE DEF r, vs, p, o, n, a
<1> SUFFICES ASSUME r.ok PROVE Stepped(r.val)
    BY DEF GivesStepped, r
<1>5. p.ok /\ vs.ok
    BY <1>1
<1>6. CASE vs.val = <<>>
    BY <1>1, <1>2, <1>5, <1>6 DEF Ok
<1>7. CASE vs.val # <<>>
  <2>1. r = add_start_step(o, n)
    BY <1>1, <1>5, <1>7
  <2>2. add_start_step(o, n) = Ok(later)
    <3> HIDE DEF later
    <3> QED BY <1>4, <2>1, OneCheck
  <2>3. r.val = later
    BY <2>1, <2>2 DEF Ok
  <2>4. o.timeStep \in Seq(Nat \ {0}) /\ o.timeStep # <<>> /\ o.startTime \in Int /\ n \in Nat
    BY <1>2, <1>3, <1>5, <1>7 DEF Stepped, Sound, TimeOptions
  <2>5. o.timeStep[1] \in Nat
    BY <2>4
  <2>6. n * o.timeStep[1] \in Int
    BY <2>4, <2>5
  <2>7. o.startTime + n * o.timeStep[1] \in Int
    BY <2>4, <2>6
  <2>8. Stepped(later)
    BY <1>2, <1>5, <2>7 DEF Stepped, Sound, TimeOptions
  <2> QED BY <2>3, <2>8
<1> QED BY <1>6, <1>7

\* What TimesMeaningful says of the options o read from a map.
TimesRight(map, o) ==
    /\ \A t \in o.timeList : t \div 100 <= 23 /\ t % 100 <= 59
    /\ o.mode = "FixedTimes" <=> o.timeList # {}
    /\ ~Wraps(o) /\ ~Has(map, "endtime") =>
          /\ o.timeSteps # <<>> => o.endTime = o.startTime + o.timeStep[1] * o.timeSteps[1]
          /\ o.endTime > o.startTime
    /\ Wraps(o) => o.endTime - o.startTime \in 0 .. 2 ^ UIntBits - 1

LEMMA ProductPositive ==
    ASSUME NEW m \in Nat \ {0}, NEW n \in Nat \ {0}
    PROVE  m * n \in Nat \ {0}
OBVIOUS

LEMMA EndMeaningful ==
    ASSUME NEW map \in Seq(Pairs), NEW o, Stepped(o), set_end(map, o).ok
    PROVE  TimesRight(map, set_end(map, o).val)
<1> DEFINE r == set_end(map, o)
           t == get_single(HandlerConfig, map, P("endtime"), "time")
           end == o.startTime + IF o.timeSteps # <<>> THEN ToUnsigned(o.timeStep[1] * o.timeSteps[1]) ELSE 1440
<1>1. /\ Has(map, "endtime") /\ o.timeSteps # <<>> => r = ParsingFailed
      /\ Has(map, "endtime") /\ o.timeSteps = <<>> => r = IF t.ok THEN Ok([o EXCEPT !.endTime = t.val.n]) ELSE t
      /\ ~Has(map, "endtime") => r = Ok([o EXCEPT !.endTime = end])
    BY DEF set_end, Then
<1>2. /\ o \in TimeOptions /\ (o.mode = "FixedTimes" <=> o.timeList # {})
      /\ o.timeStep # <<>> /\ o.timeStep \in Seq(Nat \ {0}) /\ o.timeSteps \in Seq(Nat \ {0})
      /\ o.startTime \in Int /\ o.timeList \in SUBSET TimesOfDay
    BY DEF Stepped, Sound, TimeOptions
<1>3. \A x \in o.timeList : x \div 100 <= 23 /\ x % 100 <= 59
    BY <1>2 DEF TimesOfDay
<1>4. \A e : LET q == [o EXCEPT !.endTime = e]
             IN  /\ q.timeList = o.timeList /\ q.mode = o.mode /\ q.timeSteps = o.timeSteps
                 /\ q.timeStep = o.timeStep /\ q.startTime = o.startTime /\ q.endTime = e
    BY <1>2 DEF TimeOptions
<1>5. r.ok
    OBVIOUS
<1> HIDE DEF r, t
<1>6. CASE Has(map, "endtime")
  <2>1. o.timeSteps = <<>> /\ r.val = [o EXCEPT !.endTime = t.val.n]
    BY <1>1, <1>5, <1>6 DEF Ok, ParsingFailed, Fail, Throw
  <2> DEFINE q == [o EXCEPT !.endTime = t.val.n]
  <2>2. q.timeList = o.timeList /\ q.mode = o.mode /\ q.timeSteps = o.timeSteps
    BY <1>4
  <2> HIDE DEF q
  <2>3. TimesRight(map, q)
    BY <1>2, <1>3, <1>6, <2>1, <2>2 DEF TimesRight, Wraps
  <2> QED BY <2>1, <2>3 DEF q, r
<1>7. CASE ~Has(map, "endtime")
  <2> DEFINE q == [o EXCEPT !.endTime = end]
  <2>1. r.val = q
    BY <1>1, <1>7 DEF Ok
  <2>2. /\ q.timeList = o.timeList /\ q.mode = o.mode /\ q.timeSteps = o.timeSteps
        /\ q.timeStep = o.timeStep /\ q.startTime = o.startTime /\ q.endTime = end
    BY <1>4
  <2>3. ASSUME o.timeSteps = <<>> PROVE TimesRight(map, q)
    <3>1. end > o.startTime /\ ~Wraps(q)
      BY <1>2, <2>2, <2>3 DEF Wraps
    <3> HIDE DEF q, end
    <3> QED BY <1>2, <1>3, <2>2, <2>3, <3>1 DEF TimesRight
  <2>4. ASSUME o.timeSteps # <<>> PROVE TimesRight(map, q)
    <3> DEFINE made == o.timeStep[1] * o.timeSteps[1]
    <3>1. o.timeStep[1] \in Nat \ {0} /\ o.timeSteps[1] \in Nat \ {0}
      BY <1>2, <2>4
    <3>2. made \in Nat \ {0}
      BY <3>1, ProductPositive
    <3>3. /\ ToUnsigned(made) \in Nat /\ ToUnsigned(made) < 2 ^ UIntBits
          /\ made < 2 ^ UIntBits => ToUnsigned(made) = made
      <4> HIDE DEF made
      <4> QED BY <3>2, UnsignedType
    <3>4. end = o.startTime + ToUnsigned(made) /\ (Wraps(q) <=> made >= 2 ^ UIntBits)
      BY <2>2, <2>4 DEF Wraps
    <3>5. q.timeSteps # <<>> /\ q.timeStep[1] * q.timeSteps[1] = made
      BY <2>2, <2>4
    <3> HIDE DEF q, end, made
    <3>6. ~Wraps(q) => end = o.startTime + made /\ end > o.startTime
      <4>1. ~Wraps(q) => ToUnsigned(made) = made
        BY <3>2, <3>3, <3>4, UIntBitsAssumption
      <4> QED BY <1>2, <3>2, <3>4, <4>1
    <3>7. end - o.startTime \in 0 .. 2 ^ UIntBits - 1
      BY <1>2, <3>3, <3>4, UIntBitsAssumption
    <3> QED BY <1>2, <1>3, <2>2, <3>5, <3>6, <3>7 DEF TimesRight
  <2>5. TimesRight(map, q)
    BY <2>3, <2>4
  <2> QED BY <2>1, <2>5 DEF r
<1> QED BY <1>6, <1>7

LEMMA TimesOk ==
    ASSUME NEW map \in Seq(Pairs), NEW now \in Int, get_time_generator_options(map, now).ok
    PROVE  TimesRight(map, get_time_generator_options(map, now).val)
<1> DEFINE p == with_start_step(map, now)
<1>1. get_time_generator_options(map, now) = IF p.ok THEN set_end(map, p.val) ELSE p
    BY DEF get_time_generator_options, Then
<1>2. p.ok => Stepped(p.val)
    BY StartStepSound DEF GivesStepped
<1> HIDE DEF p
<1>3. p.ok /\ get_time_generator_options(map, now) = set_end(map, p.val)
    BY <1>1
<1> QED BY <1>2, <1>3, EndMeaningful
-----------------------------------------------------------------------------
(* SupportsBoundingBox, SupportsQualityParameters and SupportsTimeZone *)

\* A read that nothing is against gives the values.
LEMMA GetPasses ==
    ASSUME NEW c, NEW map, NEW name, NEW type, NEW min, NEW max,
           ~(Len(get_values(c, map, name)) > max), ~(Len(get_values(c, map, name)) < min),
           \A i \in DOMAIN get_values(c, map, name) : type \in get_values(c, map, name)[i].types
    PROVE  get(c, map, name, type, min, max, 1) = Ok(get_values(c, map, name))
<1> DEFINE vs == get_values(c, map, name)
           k1 == <<Len(vs) > max, "none">>
           k2 == <<\E i \in DOMAIN vs : type \notin vs[i].types, "none">>
           k3 == <<Len(vs) < min, "none">>
           k4 == <<1 > 1 /\ Len(vs) % 1 # 0, "none">>
           checks == <<k1, k2, k3, k4>>
<1>1. get(c, map, name, type, min, max, 1) = Checked(checks, Ok(vs))
    BY DEF get
<1>2. ~k1[1] /\ ~k2[1] /\ ~k3[1]
    BY Zenon
<1>3. ~k4[1]
  <2>1. ~(1 > 1)
    OBVIOUS
  <2>2. k4[1] <=> (1 > 1 /\ Len(vs) % 1 # 0)
    BY Zenon
  <2> HIDE DEF k4
  <2> QED BY <2>1, <2>2
<1> HIDE DEF k1, k2, k3, k4, vs
<1>4. ~\E i \in DOMAIN checks : checks[i][1]
    BY <1>2, <1>3
<1> HIDE DEF checks
<1>5. Checked(checks, Ok(vs)) = Ok(vs)
    BY <1>4 DEF Checked
<1> QED BY <1>1, <1>5 DEF vs

\* A scalar of a type, perhaps left out.
AtMostOne(map, name, type) ==
    LET vs == values_of(map, P(name))
    IN  vs \in Seq(SpineValues) /\ Len(vs) <= 1 /\ \A i \in DOMAIN vs : type \in vs[i].types

LEMMA HandlerKey ==
    ASSUME NEW map, NEW name
    PROVE  get_values(HandlerConfig, map, P(name)) = values_of(map, P(name))
<1>1. Lower(P(name)) = P(name)
    BY DEF Lower, P
<1>2. Key(HandlerConfig, P(name)) = P(name)
    BY <1>1 DEF Key, HandlerConfig
<1> QED BY <1>2 DEF get_values

LEMMA BoxOk ==
    ASSUME NEW map, NEW crs, AtMostOne(map, "boundingbox", "bbox")
    PROVE  get_bounding_box(map, crs).ok
<1> DEFINE vs == get_values(HandlerConfig, map, P("boundingbox"))
           g == get(HandlerConfig, map, P("boundingbox"), "bbox", 1, 1, 1)
           b == get_single(HandlerConfig, map, P("boundingbox"), "bbox")
<1>1. vs \in Seq(SpineValues) /\ Len(vs) <= 1 /\ Len(vs) \in Nat /\ \A i \in DOMAIN vs : "bbox" \in vs[i].types
  <2>1. vs = values_of(map, P("boundingbox"))
    BY HandlerKey
  <2> HIDE DEF vs
  <2> QED BY <2>1, LenProperties DEF AtMostOne
<1>2. CASE ~Has(map, "boundingbox")
    BY <1>2 DEF get_bounding_box, Ok
<1>3. CASE Has(map, "boundingbox")
  <2>1. ~(Len(vs) > 1) /\ ~(Len(vs) < 1)
    BY <1>1, <1>3 DEF Has, count
  <2>2. g = Ok(vs)
    BY <1>1, <2>1, GetPasses
  <2>3. b = IF g.ok THEN Ok(g.val[1]) ELSE g
    BY DEF get_single, Then
  <2> HIDE DEF vs, g
  <2>4. b.ok
    BY <2>2, <2>3 DEF Ok
  <2>5. get_bounding_box(map, crs) = IF b.ok THEN Ok(<< [box |-> b.val.n, crs |-> crs] >>) ELSE b
    BY <1>3 DEF get_bounding_box, Then
  <2> HIDE DEF b
  <2> QED BY <2>4, <2>5 DEF Ok
<1> QED BY <1>2, <1>3

LEMMA QualityOk ==
    ASSUME NEW map, AtMostOne(map, "qualityinfo", "bool")
    PROVE  supportQualityInfo(map).ok
<1> DEFINE vs == get_values(HandlerConfig, map, P("qualityinfo"))
           g == GetOptional(map, "qualityinfo", "bool")
<1>1. /\ vs \in Seq(SpineValues) /\ ~(Len(vs) > 1) /\ ~(Len(vs) < 0)
      /\ \A i \in DOMAIN vs : "bool" \in vs[i].types
  <2>1. vs = values_of(map, P("qualityinfo"))
    BY HandlerKey
  <2> HIDE DEF vs
  <2> QED BY <2>1, LenProperties DEF AtMostOne
<1>2. g = Ok(vs)
    BY <1>1, GetPasses DEF GetOptional, get_optional
<1>3. supportQualityInfo(map) = IF g.ok THEN Ok(g.val # <<>> /\ g.val[1].n = 1) ELSE g
    BY DEF supportQualityInfo, Then
<1> HIDE DEF g, vs
<1> QED BY <1>2, <1>3 DEF Ok

LEMMA ZoneOk ==
    ASSUME NEW map, AtMostOne(map, "timezone", "string")
    PROVE  get_tz_name(map).ok
<1> DEFINE vs == get_values(HandlerConfig, map, P("timezone"))
           g == Get(map, "timezone", "string")
<1>1. /\ vs \in Seq(SpineValues) /\ ~(Len(vs) > 65535) /\ ~(Len(vs) < 0)
      /\ \A i \in DOMAIN vs : "string" \in vs[i].types
  <2>1. vs = values_of(map, P("timezone"))
    BY HandlerKey
  <2> HIDE DEF vs
  <2> QED BY <2>1, LenProperties DEF AtMostOne
<1>2. g = Ok(vs)
    BY <1>1, GetPasses DEF Get
<1>3. get_tz_name(map) = IF Has(map, "timezone") THEN g ELSE Ok(<<>>)
    BY DEF get_tz_name
<1> HIDE DEF g, vs
<1> QED BY <1>2, <1>3 DEF Ok
-----------------------------------------------------------------------------
(* The constructor of a handler *)

LEMMA ArrayInitSame ==
    ASSUME NEW c, NEW template, ArrayTemplate_init(c, template).ok
    PROVE  ArrayTemplate_init(c, template).val = template
<1> DEFINE r == ArrayTemplate_init(c, template)
           s == array_sizes(c, template)
           a == <<template.items = <<>> /\ template.min > 0, "none">>
           b == <<~sizes_fit(template, s.val), "none">>
           t == IF s.ok THEN Checked(<<b>>, Ok(template)) ELSE s
<1>1. r = Checked(<<a>>, t)
    BY DEF ArrayTemplate_init, Then
<1>2. r.ok
    OBVIOUS
<1> HIDE DEF r, s, a, b
<1>3. r = t /\ t.ok
  <2> HIDE DEF t
  <2> QED BY <1>1, <1>2, OneCheck
<1>4. t = Checked(<<b>>, Ok(template)) /\ Checked(<<b>>, Ok(template)).ok
    BY <1>3
<1>5. Checked(<<b>>, Ok(template)) = Ok(template)
    BY <1>4, OneCheck
<1> QED BY <1>3, <1>4, <1>5 DEF Ok, r

LEMMA InitNamedSame ==
    ASSUME NEW c, NEW e, init_named(c, e).ok
    PROVE  init_named(c, e).val = e
<1>1. CASE e.form = "array"
  <2>1. init_named(c, e) = ArrayTemplate_init(c, e)
    BY <1>1 DEF init_named
  <2> QED BY <2>1, ArrayInitSame
<1>2. CASE e.form # "array"
  <2> DEFINE s == ScalarTemplate_init(c, e.items)
  <2>1. init_named(c, e) = IF s.ok THEN Ok(e) ELSE s
    BY <1>2 DEF init_named, Then
  <2> HIDE DEF s
  <2> QED BY <2>1 DEF Ok
<1> QED BY <1>1, <1>2

LEMMA NamedParamType ==
    ASSUME NEW c, NEW entries \in Seq(NamedParams), NEW i \in 1 .. Len(entries), named_param(c, entries, i).ok
    PROVE  named_param(c, entries, i).val \in Extras
<1> DEFINE e == entries[i]
           r == named_param(c, entries, i)
           k1 == <<~e.complete, "none">>
           k2 == <<e.form \notin {"array", "scalar"}, "none">>
           k3 == <<\E j \in 1 .. i - 1 : Lower(entries[j].name) = Lower(entries[i].name), "none">>
           d == init_named(c, e)
           Rec(t) == [name |-> t.name, array |-> t.form = "array", items |-> t.items, min |-> t.min, max |-> t.max]
           s == IF d.ok THEN Ok(Rec(d.val)) ELSE d
<1>1. r = Checked(<<k1, k2, k3>>, s)
    BY DEF named_param, Then
<1>2. e \in NamedParams
    BY ElementOfSeq
<1>3. ~k2[1] => e.form \in {"array", "scalar"}
    BY Zenon
<1>4. d.ok => d.val = e
    BY InitNamedSame
<1>5. r.ok
    OBVIOUS
<1> HIDE DEF k1, k2, k3, r, d, e
<1>6. r = s /\ s.ok /\ ~k2[1]
  <2> HIDE DEF s
  <2> QED BY <1>1, <1>5, ThreeChecks
<1>7. r.val = Rec(e)
    BY <1>4, <1>6 DEF Ok
<1>8. /\ e.name \in ParamNames /\ e.items \in Seq(TemplateItems) /\ e.min \in Nat /\ e.max \in Nat
      /\ e.form = "scalar" => Len(e.items) = 1
    BY <1>2 DEF NamedParams
<1>9. (e.form = "array") \in BOOLEAN
    OBVIOUS
<1>10. Rec(e) \in Extras
    BY <1>3, <1>6, <1>8, <1>9 DEF Extras
<1> QED BY <1>7, <1>10 DEF r

LEMMA ExtrasType ==
    ASSUME NEW c, NEW entries \in Seq(NamedParams), ExtraHandlerParams(c, entries).ok
    PROVE  ExtraHandlerParams(c, entries).val \in SUBSET Extras
<1> DEFINE r == ExtraHandlerParams(c, entries)
           n == Len(entries)
           rs == [i \in DOMAIN entries |-> named_param(c, entries, i)]
           a == All(rs)
<1>1. r = IF a.ok THEN Ok({a.val[i] : i \in DOMAIN a.val}) ELSE a
    BY DEF ExtraHandlerParams, Then
<1>2. n \in Nat /\ DOMAIN rs = 1 .. n /\ \A i \in 1 .. n : rs[i] = named_param(c, entries, i)
    BY LenProperties
<1>3. \A i \in 1 .. n : rs[i].ok => rs[i].val \in Extras
    BY <1>2, NamedParamType
<1>4. r.ok
    OBVIOUS
<1> HIDE DEF r, n, rs
<1>5. a.ok /\ r.val = {a.val[i] : i \in DOMAIN a.val}
  <2> HIDE DEF a
  <2> QED BY <1>1, <1>4 DEF Ok
<1>6. a.val \in Seq(Extras)
  <2>1. All(rs).ok
    BY <1>5
  <2> QED BY <1>2, <1>3, <2>1, AllValues
<1> HIDE DEF a
<1>7. \A i \in DOMAIN a.val : a.val[i] \in Extras
    BY <1>6, LenProperties, ElementOfSeq
<1> QED BY <1>5, <1>7 DEF r

LEMMA TemplatesSame ==
    ASSUME NEW c, NEW ts \in Seq(ParamRecs), init_templates(c, ts).ok
    PROVE  init_templates(c, ts).val = ts
<1> DEFINE n == Len(ts)
           Read(i) == init_template(c, ts[i])
           rs == [i \in DOMAIN ts |-> IF Read(i).ok THEN Ok(ts[i]) ELSE Read(i)]
<1>1. init_templates(c, ts) = All(rs)
    BY DEF init_templates, Then
<1>2. /\ n \in Nat /\ DOMAIN ts = 1 .. n /\ DOMAIN rs = 1 .. n
      /\ \A i \in 1 .. n : rs[i] = IF Read(i).ok THEN Ok(ts[i]) ELSE Read(i)
      /\ \A i \in 1 .. n : ts[i] \in ParamRecs
    BY LenProperties, ElementOfSeq
<1> HIDE DEF rs, n
<1>3. \A i \in 1 .. n : rs[i].ok => rs[i].val = ts[i]
  <2> HIDE DEF Read
  <2> QED BY <1>2 DEF Ok
<1>4. /\ All(rs).val \in Seq(ParamRecs) /\ Len(All(rs).val) = n
      /\ \A i \in 1 .. n : rs[i].ok /\ All(rs).val[i] = rs[i].val
  <2>1. \A i \in 1 .. n : rs[i].ok => rs[i].val \in ParamRecs
    BY <1>2, <1>3
  <2>2. n \in Nat /\ DOMAIN rs = 1 .. n /\ All(rs).ok
    BY <1>1, <1>2
  <2> QED BY <2>1, <2>2, AllValues
<1>5. \A i \in 1 .. n : All(rs).val[i] = ts[i]
    BY <1>3, <1>4
<1>6. All(rs).val = ts
    BY <1>4, <1>5, SeqEqual DEF n
<1> QED BY <1>1, <1>6

LEMMA ConstructOk ==
    ASSUME NEW c \in Configs, construct(c).ok
    PROVE  construct(c).val.extra \in SUBSET Extras /\ construct(c).val.recs = c.handler_params
<1> DEFINE r == construct(c)
           read == parse_config(c, c.case_sensitive)
           named == ExtraHandlerParams(read.val, c.named)
           ts == init_templates(read.val, c.handler_params)
           recs == add_param_rec(ts.val)
           built == [config |-> read.val, extra |-> named.val, recs |-> recs.val]
<1>1. r = IF read.ok THEN IF named.ok THEN IF ts.ok THEN IF recs.ok THEN Ok(built)
                                                         ELSE recs ELSE ts ELSE named ELSE read
    BY DEF construct, Then
<1>2. c.named \in Seq(NamedParams) /\ c.handler_params \in Seq(ParamRecs)
    BY ConfigsAssumption
<1>3. named.ok => named.val \in SUBSET Extras
    BY <1>2, ExtrasType
<1>4. ts.ok => ts.val = c.handler_params
    BY <1>2, TemplatesSame
<1>5. recs.ok => recs.val = ts.val
    BY DEF add_param_rec, Ok, NoCode, Fail, Throw
<1>6. r.ok
    OBVIOUS
<1> HIDE DEF r, read, named, ts, recs
<1>7. named.ok /\ ts.ok /\ recs.ok /\ r.val = built
    BY <1>1, <1>6 DEF Ok
<1> QED BY <1>3, <1>4, <1>5, <1>7 DEF r
-----------------------------------------------------------------------------
(* The inductive invariant *)

\* What ConfigsAssumption says of the registered parameters.
WellRegistered(recs) ==
    /\ recs \in Seq(ParamRecs)
    /\ \A i, j \in DOMAIN recs : Lower(recs[i].name) = Lower(recs[j].name) => i = j
    /\ \A i \in DOMAIN recs :
          /\ Lower(recs[i].name) = P("boundingbox") => recs[i].type = "bbox" /\ ~recs[i].array
          /\ Lower(recs[i].name) = P("qualityinfo") => recs[i].type = "bool" /\ ~recs[i].array
          /\ Lower(recs[i].name) = P("timezone") => recs[i].type = "string" /\ ~recs[i].array

\* The handler's parameters, once they are resolved.
Filled(map, c, recs) ==
    /\ \A i \in DOMAIN recs : AsRegistered(recs[i], values_of(map, Key(c, recs[i].name)))
    /\ AtMostOne(map, "boundingbox", "bbox")
    /\ AtMostOne(map, "qualityinfo", "bool")
    /\ AtMostOne(map, "timezone", "string")

\* The options are the ones of the last parameters resolved.
OptionsRead ==
    \/ options = NoOptions
    \/ /\ phase = "done"
       /\ options.time = get_time_generator_options(par, Now)
       /\ options.box = get_bounding_box(par, DefaultCrs)
       /\ options.quality = supportQualityInfo(par) /\ options.zone = get_tz_name(par)

IInv ==
    /\ handler.extra \in SUBSET Extras /\ WellRegistered(handler.recs)
    /\ par \in Seq(Pairs)
    /\ phase \in {"resolved", "done"} => Filled(par, config, handler.recs)
    /\ OptionsRead
    /\ phase # "done" => options = NoOptions

LEMMA HandlerScalar ==
    ASSUME NEW c, NEW recs \in Seq(ParamRecs), NEW map, NEW name, NEW type,
           \A i \in DOMAIN recs : AsRegistered(recs[i], values_of(map, Key(c, recs[i].name))),
           \A key : (\A i \in DOMAIN recs : Key(c, recs[i].name) # key) => values_of(map, key) = <<>>,
           \A i \in DOMAIN recs : Lower(recs[i].name) = P(name) => recs[i].type = type /\ ~recs[i].array
    PROVE  AtMostOne(map, name, type)
<1> DEFINE key == P(name)
           vs == values_of(map, key)
<1>1. CASE \A i \in DOMAIN recs : Key(c, recs[i].name) # key
  <2>1. vs = <<>>
    BY <1>1
  <2> QED BY <2>1 DEF AtMostOne
<1>2. CASE ~\A i \in DOMAIN recs : Key(c, recs[i].name) # key
  <2>1. PICK i \in DOMAIN recs : Key(c, recs[i].name) = key
    BY <1>2
  <2>2. Lower(P(name)) = P(name)
    BY DEF Lower, P
  <2>3. Lower(recs[i].name) = key
    BY <2>1, <2>2 DEF Key
  <2>4. recs[i].type = type /\ ~recs[i].array
    BY <2>3
  <2>5. AsRegistered(recs[i], vs)
    BY <2>1
  <2> HIDE DEF vs, key
  <2>6. vs \in Seq(SpineValues) /\ Len(vs) <= 1 /\ \A j \in DOMAIN vs : type \in vs[j].types
    BY <2>4, <2>5 DEF AsRegistered
  <2> QED BY <2>6 DEF AtMostOne, vs, key
<1> QED BY <1>1, <1>2

LEMMA ResolveFills ==
    ASSUME NEW c, NEW map \in Seq(Pairs), NEW extra \in SUBSET Extras, NEW recs, WellRegistered(recs),
           resolve_handler_parameters(c, map, extra, recs).ok
    PROVE  LET all == resolve_handler_parameters(c, map, extra, recs).val
           IN  all \in Seq(Pairs) /\ Filled(all, c, recs)
<1> DEFINE all == resolve_handler_parameters(c, map, extra, recs).val
<1>1. recs \in Seq(ParamRecs)
    BY DEF WellRegistered
<1>2. \A i, j \in DOMAIN recs : Key(c, recs[i].name) = Key(c, recs[j].name) => i = j
  <2> SUFFICES ASSUME NEW i \in DOMAIN recs, NEW j \in DOMAIN recs, Key(c, recs[i].name) = Key(c, recs[j].name)
               PROVE  i = j
    OBVIOUS
  <2>1. Lower(recs[i].name) = Lower(recs[j].name)
    <3>1. CASE c.case_sensitive
      <4>1. recs[i].name = recs[j].name
        BY <3>1 DEF Key
      <4> QED BY <4>1
    <3>2. CASE ~c.case_sensitive
      BY <3>2 DEF Key
    <3> QED BY <3>1, <3>2
  <2> QED BY <2>1 DEF WellRegistered
<1>3. /\ all \in Seq(Pairs)
      /\ \A i \in DOMAIN recs : AsRegistered(recs[i], values_of(all, Key(c, recs[i].name)))
      /\ \A key : (\A i \in DOMAIN recs : Key(c, recs[i].name) # key) => values_of(all, key) = <<>>
    BY <1>1, <1>2, ResolveHandlerOk
<1> HIDE DEF all
<1>4. AtMostOne(all, "boundingbox", "bbox")
  <2>1. \A i \in DOMAIN recs : Lower(recs[i].name) = P("boundingbox") => recs[i].type = "bbox" /\ ~recs[i].array
    BY DEF WellRegistered
  <2> QED BY <1>1, <1>3, <2>1, HandlerScalar
<1>5. AtMostOne(all, "qualityinfo", "bool")
  <2>1. \A i \in DOMAIN recs : Lower(recs[i].name) = P("qualityinfo") => recs[i].type = "bool" /\ ~recs[i].array
    BY DEF WellRegistered
  <2> QED BY <1>1, <1>3, <2>1, HandlerScalar
<1>6. AtMostOne(all, "timezone", "string")
  <2>1. \A i \in DOMAIN recs : Lower(recs[i].name) = P("timezone") => recs[i].type = "string" /\ ~recs[i].array
    BY DEF WellRegistered
  <2> QED BY <1>1, <1>3, <2>1, HandlerScalar
<1> QED BY <1>3, <1>4, <1>5, <1>6 DEF all, Filled

LEMMA InitIInv == Init => IInv
<1> SUFFICES ASSUME Init PROVE IInv
    OBVIOUS
<1>1. handler = [extra |-> {}, recs |-> <<>>] /\ par = <<>> /\ options = NoOptions /\ phase = "new"
    BY DEF Init
<1>2. WellRegistered(<<>>)
    BY DEF WellRegistered
<1>3. handler.extra \in SUBSET Extras /\ handler.recs = <<>>
    BY <1>1
<1>4. par \in Seq(Pairs)
    BY <1>1
<1> QED BY <1>1, <1>2, <1>3, <1>4 DEF IInv, OptionsRead

LEMMA NextIInv == IInv /\ [Next]_vars => IInv'
<1> SUFFICES ASSUME IInv, [Next]_vars PROVE IInv'
    OBVIOUS
<1>1. CASE Configure
  <2>1. PICK c \in Configs : LET r == construct(c)
            IN  /\ phase' = IF r.ok THEN "ready" ELSE "refused"
                /\ handler' = IF r.ok THEN [extra |-> r.val.extra, recs |-> r.val.recs] ELSE handler
    BY <1>1 DEF Configure
  <2>2. phase = "new" /\ UNCHANGED <<par, options>>
    BY <1>1 DEF Configure
  <2>3. phase' \in {"ready", "refused"}
    BY <2>1
  <2>4. (handler.extra \in SUBSET Extras /\ WellRegistered(handler.recs))'
    <3>1. CASE construct(c).ok
      <4>1. construct(c).val.extra \in SUBSET Extras /\ construct(c).val.recs = c.handler_params
        BY <3>1, ConstructOk
      <4>2. WellRegistered(c.handler_params)
        BY ConfigsAssumption DEF WellRegistered
      <4>3. handler' = [extra |-> construct(c).val.extra, recs |-> construct(c).val.recs]
        BY <2>1, <3>1
      <4>4. handler'.extra = construct(c).val.extra /\ handler'.recs = c.handler_params
        BY <4>1, <4>3
      <4> QED BY <4>1, <4>2, <4>4
    <3>2. CASE ~construct(c).ok
      <4>1. handler' = handler
        BY <2>1, <3>2
      <4> QED BY <4>1 DEF IInv
    <3> QED BY <3>1, <3>2
  <2> QED BY <2>2, <2>3, <2>4 DEF IInv, OptionsRead
<1>2. ASSUME NEW form, NEW ps, NEW r, phase = "ready", Extract(form, ps, r), r.ok => r.val.map \in Seq(Pairs)
      PROVE  IInv'
  <2>1. /\ phase = "ready" /\ phase' \in {"extracted", "rejected"}
        /\ par' = IF r.ok THEN r.val.map ELSE <<>>
        /\ UNCHANGED <<config, handler, options>>
    BY <1>2 DEF Extract
  <2>2. par' \in Seq(Pairs)
    <3>1. <<>> \in Seq(Pairs)
      OBVIOUS
    <3> QED BY <1>2, <2>1, <3>1
  <2> QED BY <2>1, <2>2 DEF IInv, OptionsRead
<1>3. CASE ExtractKvp
  <2>1. PICK ps \in KvpRequests : phase = "ready" /\ Extract("kvp", ps, extract_kvp_parameters(config, ps))
    BY <1>3 DEF ExtractKvp
  <2>2. ps \in Requests
    BY RequestsAssumption DEF Requests, Given_Texts
  <2>3. extract_kvp_parameters(config, ps).ok => extract_kvp_parameters(config, ps).val.map \in Seq(Pairs)
    BY <2>2, ExtractKvpType
  <2> QED BY <1>2, <2>1, <2>3
<1>4. CASE ExtractXml
  <2>1. PICK ps \in XmlRequests : phase = "ready" /\ Extract("xml", ps, extract_xml_parameters(config, ps))
    BY <1>4 DEF ExtractXml
  <2>2. ps \in Requests
    BY RequestsAssumption DEF Requests, Given_Texts
  <2>3. extract_xml_parameters(config, ps).ok => extract_xml_parameters(config, ps).val.map \in Seq(Pairs)
    BY <2>2, ExtractXmlType
  <2> QED BY <1>2, <2>1, <2>3
<1>5. CASE Resolve
  <2> DEFINE r == resolve_handler_parameters(config, par, handler.extra, handler.recs)
  <2>1. /\ phase = "extracted"
        /\ par' = IF r.ok THEN r.val ELSE par
        /\ phase' = IF r.ok THEN "resolved" ELSE "failed"
        /\ UNCHANGED <<config, handler, request, options>>
    BY <1>5 DEF Resolve, process_params
  <2>2. r.ok => r.val \in Seq(Pairs) /\ Filled(r.val, config, handler.recs)
    <3>1. par \in Seq(Pairs) /\ handler.extra \in SUBSET Extras /\ WellRegistered(handler.recs)
      BY DEF IInv
    <3> QED BY <3>1, ResolveFills
  <2> HIDE DEF r
  <2>3. CASE r.ok
    <3>1. par' \in Seq(Pairs) /\ Filled(par', config', handler'.recs) /\ phase' = "resolved"
      BY <2>1, <2>2, <2>3
    <3> QED BY <2>1, <3>1 DEF IInv, OptionsRead
  <2>4. CASE ~r.ok
    <3>1. par' = par /\ phase' = "failed"
      BY <2>1, <2>4
    <3> QED BY <2>1, <3>1 DEF IInv, OptionsRead
  <2> QED BY <2>3, <2>4
<1>6. CASE ReadOptions
  <2>1. /\ phase = "resolved" /\ phase' = "done" /\ UNCHANGED <<config, handler, request, outcome, par>>
        /\ options'.time = get_time_generator_options(par, Now)
        /\ options'.box = get_bounding_box(par, DefaultCrs)
        /\ options'.quality = supportQualityInfo(par) /\ options'.zone = get_tz_name(par)
    BY <1>6 DEF ReadOptions
  <2>2. (handler.extra \in SUBSET Extras /\ WellRegistered(handler.recs) /\ par \in Seq(Pairs)
            /\ Filled(par, config, handler.recs))'
    BY <2>1 DEF IInv
  <2>3. OptionsRead'
    BY <2>1 DEF OptionsRead
  <2> QED BY <2>1, <2>2, <2>3 DEF IInv
<1>7. CASE Again
  <2>1. phase' = "ready" /\ par' = <<>> /\ options' = NoOptions /\ UNCHANGED <<config, handler>>
    BY <1>7 DEF Again
  <2>2. par' \in Seq(Pairs)
    BY <2>1
  <2>3. OptionsRead'
    BY <2>1 DEF OptionsRead
  <2> QED BY <2>1, <2>2, <2>3 DEF IInv
<1>8. CASE UNCHANGED vars
  <2>1. UNCHANGED <<phase, config, handler, request, outcome, par, options>>
    BY <1>8 DEF vars
  <2> QED BY <2>1 DEF IInv, OptionsRead
<1> QED BY <1>1, <1>3, <1>4, <1>5, <1>6, <1>7, <1>8 DEF Next

LEMMA AlwaysIInv == Spec => []IInv
BY InitIInv, NextIInv, PTL DEF Spec

-----------------------------------------------------------------------------
(* The theorems *)

\* Whatever a configuration registers, whatever its templates refer to and
\* whatever a request gives by either form, a handler is given every
\* parameter with the type and the number of values it was registered with,
\* and its box, quality information and time zone can be read
\* (StoredQueryParamRegistry::resolve_handler_parameters).
THEOREM AlwaysResolvedAsRegistered == Spec => []ResolvedAsRegistered
<1>1. IInv => ResolvedAsRegistered
  <2> SUFFICES ASSUME IInv PROVE ResolvedAsRegistered
    OBVIOUS
  <2>1. options.box.ok /\ options.quality.ok /\ options.zone.ok
    <3>1. CASE options = NoOptions
      BY <3>1 DEF NoOptions, Ok
    <3>2. CASE options # NoOptions
      <4>1. /\ phase = "done" /\ options.box = get_bounding_box(par, DefaultCrs)
            /\ options.quality = supportQualityInfo(par) /\ options.zone = get_tz_name(par)
        BY <3>2 DEF IInv, OptionsRead
      <4>2. /\ AtMostOne(par, "boundingbox", "bbox") /\ AtMostOne(par, "qualityinfo", "bool")
            /\ AtMostOne(par, "timezone", "string")
        BY <4>1 DEF IInv, Filled
      <4> QED BY <4>1, <4>2, BoxOk, QualityOk, ZoneOk
    <3> QED BY <3>1, <3>2
  <2>2. ASSUME phase = "resolved", NEW i \in DOMAIN handler.recs
        PROVE  LET rec == handler.recs[i]
                   vs == get_values(config, par, rec.name)
               IN  /\ \A j \in DOMAIN vs : rec.type \in vs[j].types
                   /\ IF rec.array THEN Len(vs) \in rec.min .. rec.max
                      ELSE Len(vs) <= 1 /\ (rec.required => Len(vs) = 1)
    <3>1. AsRegistered(handler.recs[i], values_of(par, Key(config, handler.recs[i].name)))
      BY <2>2 DEF IInv, Filled
    <3> QED BY <3>1 DEF AsRegistered, get_values
  <2> QED BY <2>1, <2>2 DEF ResolvedAsRegistered
<1> QED BY <1>1, AlwaysIInv, PTL

\* Time options that are accepted are meaningful for every width of unsigned
\* that holds a day of minutes, every start time and every map of parameters:
\* times of the day that exist, and a computed end that the steps lead to, after
\* the start, or, when the product of the unsigned numbers has wrapped, one that
\* is not before the start (SupportsTimeParameters.cpp:189, :254).
THEOREM TimesAlwaysMeaningful == Spec => []TimesMeaningful
<1>1. IInv => TimesMeaningful
  <2> SUFFICES ASSUME IInv, options.time.ok PROVE TimesRight(par, options.time.val)
    BY DEF TimesMeaningful, TimesRight, EndGiven
  <2>1. CASE options = NoOptions
    BY <2>1 DEF NoOptions, NoCode, Fail, Throw
  <2>2. CASE options # NoOptions
    <3>1. options.time = get_time_generator_options(par, Now) /\ par \in Seq(Pairs)
      BY <2>2 DEF IInv, OptionsRead
    <3> QED BY <3>1, NowAssumption, TimesOk
  <2> QED BY <2>1, <2>2
<1> QED BY <1>1, AlwaysIInv, PTL
-----------------------------------------------------------------------------
(* When the values of a request are accepted *)

\* The limits of a description are values of its type, and a scalar is one value.
SoundDesc(d) ==
    /\ d.min_occurs \in Int /\ d.max_occurs \in Int
    /\ d.lower \in Seq(SpineValues) /\ d.upper \in Seq(SpineValues)
    /\ ~d.def.array => d.def.min = 1 /\ d.def.max = 1

Inside(d, v) ==
    /\ d.lower # <<>> => v.n >= d.lower[1].n
    /\ d.upper # <<>> => v.n <= d.upper[1].n

LEMMA LimitsRight ==
    ASSUME NEW d, SoundDesc(d), NEW v \in SpineValues
    PROVE  check_limits(d, v).ok <=> Inside(d, v)
<1> DEFINE a == <<d.lower # <<>> /\ v.n < d.lower[1].n, "none">>
           b == <<d.upper # <<>> /\ v.n > d.upper[1].n, "none">>
<1>1. v.n \in Int
    BY DEF SpineValues
<1>2. d.lower # <<>> => d.lower[1].n \in Int
  <2>1. d.lower # <<>> => d.lower[1] \in SpineValues
    BY DEF SoundDesc
  <2> QED BY <2>1 DEF SpineValues
<1>3. d.upper # <<>> => d.upper[1].n \in Int
  <2>1. d.upper # <<>> => d.upper[1] \in SpineValues
    BY DEF SoundDesc
  <2> QED BY <2>1 DEF SpineValues
<1>4. Inside(d, v) <=> ~a[1] /\ ~b[1]
  <2>1. a[1] = (d.lower # <<>> /\ v.n < d.lower[1].n) /\ b[1] = (d.upper # <<>> /\ v.n > d.upper[1].n)
    BY Zenon
  <2>2. d.lower # <<>> => (v.n >= d.lower[1].n <=> ~(v.n < d.lower[1].n))
    BY <1>1, <1>2
  <2>3. d.upper # <<>> => (v.n <= d.upper[1].n <=> ~(v.n > d.upper[1].n))
    BY <1>1, <1>3
  <2> HIDE DEF a, b
  <2> QED BY <2>1, <2>2, <2>3 DEF Inside
<1>5. check_limits(d, v) = Checked(<<a, b>>, Ok(v))
    BY DEF check_limits
<1> HIDE DEF a, b
<1>6. CASE Inside(d, v)
  <2>1. Checked(<<a, b>>, Ok(v)) = Ok(v)
    BY <1>4, <1>6, TwoChecksPass
  <2> QED BY <1>5, <1>6, <2>1 DEF Ok
<1>7. CASE ~Inside(d, v)
    BY <1>4, <1>5, <1>7, TwoChecks
<1> QED BY <1>6, <1>7

LEMMA AllLimitsRight ==
    ASSUME NEW d, SoundDesc(d), NEW vs \in Seq(SpineValues)
    PROVE  check_all_limits(d, vs).ok <=> \A i \in DOMAIN vs : Inside(d, vs[i])
<1> DEFINE rs == [i \in DOMAIN vs |-> check_limits(d, vs[i])]
<1>1. /\ Len(vs) \in Nat /\ DOMAIN vs = 1 .. Len(vs) /\ DOMAIN rs = DOMAIN vs
      /\ \A i \in DOMAIN vs : rs[i] = check_limits(d, vs[i]) /\ vs[i] \in SpineValues
    BY LenProperties, ElementOfSeq
<1>2. \A i \in DOMAIN vs : rs[i].ok <=> Inside(d, vs[i])
    BY <1>1, LimitsRight
<1>3. check_all_limits(d, vs) = All(rs)
    BY DEF check_all_limits
<1> HIDE DEF rs
<1>4. CASE \A i \in DOMAIN vs : Inside(d, vs[i])
    BY <1>1, <1>2, <1>3, <1>4, AllPass
<1>5. CASE ~\A i \in DOMAIN vs : Inside(d, vs[i])
  <2>1. ~\A i \in DOMAIN rs : rs[i].ok
    BY <1>1, <1>2, <1>5
  <2> QED BY <1>1, <1>3, <1>5, <2>1, AllOk
<1> QED BY <1>4, <1>5

\* One text is read by readValues as readValue reads it.
LEMMA ReadOne ==
    ASSUME NEW def, def.min = 1, def.max = 1, NEW text
    PROVE  /\ readValues(def, <<text>>).ok <=> readValue(def, text).ok
           /\ readValue(def, text).ok => readValues(def, <<text>>).val = <<readValue(def, text).val>>
<1> DEFINE texts == <<text>>
           a == <<Len(texts) < def.min \/ Len(texts) > def.max, "OperationParsingFailed">>
           rs == [i \in DOMAIN texts |-> readValue(def, texts[i])]
<1>1. readValues(def, texts) = Checked(<<a>>, All(rs))
    BY DEF readValues
<1>2. ~a[1]
  <2>1. ~(Len(texts) < def.min \/ Len(texts) > def.max)
    OBVIOUS
  <2> QED BY <2>1, Zenon
<1>3. DOMAIN rs = 1 .. 1 /\ rs[1] = readValue(def, text)
    OBVIOUS
<1> HIDE DEF a, rs
<1>4. readValues(def, texts) = All(rs)
    BY <1>1, <1>2, OneCheckPasses
<1> HIDE DEF texts
<1>5. CASE readValue(def, text).ok
  <2>1. \A i \in DOMAIN rs : rs[i].ok
    BY <1>3, <1>5
  <2>2. All(rs) = Ok([i \in DOMAIN rs |-> rs[i].val]) /\ All(rs).ok
    BY <2>1, AllPass
  <2>3. All(rs).val = [i \in DOMAIN rs |-> rs[i].val]
    BY <2>2 DEF Ok
  <2>4. [i \in DOMAIN rs |-> rs[i].val] = <<readValue(def, text).val>>
    <3> DEFINE x == readValue(def, text)
    <3> HIDE DEF x
    <3>1. DOMAIN rs = 1 .. 1 /\ rs[1] = x
      BY <1>3 DEF x
    <3>2. [i \in DOMAIN rs |-> rs[i].val] = [i \in 1 .. 1 |-> x.val]
      BY <3>1
    <3>3. [i \in 1 .. 1 |-> x.val] = <<x.val>>
      OBVIOUS
    <3> QED BY <3>2, <3>3 DEF x
  <2>5. All(rs).val = <<readValue(def, text).val>>
    BY <2>3, <2>4
  <2> QED BY <1>4, <1>5, <2>2, <2>5 DEF texts
<1>6. CASE ~readValue(def, text).ok
  <2>1. ASSUME All(rs).ok PROVE FALSE
    <3>1. 1 \in Nat /\ DOMAIN rs = 1 .. 1
      BY <1>3
    <3>2. \A i \in 1 .. 1 : rs[i].ok
      BY <2>1, <3>1, AllOk
    <3>3. rs[1].ok
      BY <3>2
    <3> QED BY <1>3, <1>6, <3>3
  <2> QED BY <1>4, <1>6, <2>1 DEF texts
<1> QED BY <1>5, <1>6

\* The values of a parameter are accepted when they can be read and are
\* inside the limits.
LEMMA KvpRight ==
    ASSUME NEW name, NEW d, SoundDesc(d), IsDistance(name) <=> IsDistance(d.name), NEW texts \in Given_Texts
    PROVE  insert_kvp_values(name, d, texts).ok <=> Readable("kvp", d, texts)
<1> DEFINE r == kvp_values(name, d, texts)
           s == CASE d.def.array -> readValues(d.def, texts)
                  [] ~d.def.array /\ IsDistance(d.name) -> Single(parse_meter(texts[1]))
                  [] OTHER -> readValues(d.def, <<texts[1]>>)
<1>1. texts \in Seq(SpineValues) /\ texts # <<>> /\ texts[1] \in SpineValues
    BY DEF Given_Texts
<1>2. (r.ok <=> s.ok) /\ (r.ok => r.val = s.val)
  <2>1. CASE d.def.array
    BY <2>1 DEF kvp_values
  <2>2. CASE ~d.def.array /\ IsDistance(d.name)
    BY <2>2 DEF kvp_values
  <2>3. CASE ~d.def.array /\ ~IsDistance(d.name)
    <3> DEFINE v == readValue(d.def, texts[1])
    <3>1. r = Single(v) /\ s = readValues(d.def, <<texts[1]>>)
      BY <2>3 DEF kvp_values
    <3>2. (s.ok <=> v.ok) /\ (v.ok => s.val = <<v.val>>)
      <4>1. d.def.min = 1 /\ d.def.max = 1
        BY <2>3 DEF SoundDesc
      <4> QED BY <3>1, <4>1, ReadOne
    <3> HIDE DEF v, r, s
    <3>3. Single(v) = IF v.ok THEN Ok(<<v.val>>) ELSE v
      BY DEF Single, Then
    <3> QED BY <3>1, <3>2, <3>3 DEF Ok
  <2> QED BY <2>1, <2>2, <2>3
<1>3. s.ok => s.val \in Seq(SpineValues)
  <2>1. CASE d.def.array
    BY <1>1, <2>1, ReadValuesType
  <2>2. CASE ~d.def.array /\ IsDistance(d.name)
    <3>1. s = Single(parse_meter(texts[1]))
      BY <2>2
    <3>2. parse_meter(texts[1]).ok => parse_meter(texts[1]).val \in SpineValues
      BY <1>1, ParseMeterType
    <3> HIDE DEF s
    <3> QED BY <3>1, <3>2, SingleType
  <2>3. CASE ~d.def.array /\ ~IsDistance(d.name)
    <3>1. <<texts[1]>> \in Seq(SpineValues)
      BY <1>1
    <3> QED BY <2>3, <3>1, ReadValuesType
  <2> QED BY <2>1, <2>2, <2>3
<1>4. insert_kvp_values(name, d, texts) = IF r.ok THEN check_all_limits(d, r.val) ELSE r
    BY DEF insert_kvp_values, Then
<1>5. Readable("kvp", d, texts) <=> s.ok /\ \A i \in DOMAIN s.val : Inside(d, s.val[i])
    BY DEF Readable, Inside
<1> HIDE DEF r, s
<1>6. CASE s.ok
  <2>1. check_all_limits(d, s.val).ok <=> \A i \in DOMAIN s.val : Inside(d, s.val[i])
    BY <1>3, <1>6, AllLimitsRight
  <2> QED BY <1>2, <1>4, <1>5, <1>6, <2>1
<1>7. CASE ~s.ok
    BY <1>2, <1>4, <1>5, <1>7
<1> QED BY <1>6, <1>7

LEMMA XmlRight ==
    ASSUME NEW d, SoundDesc(d), NEW texts \in Given_Texts
    PROVE  Readable("xml", d, texts) <=>
               /\ extract_param(d.xml_type, texts).ok
               /\ check_all_limits(d, extract_param(d.xml_type, texts).val).ok
<1> DEFINE r == extract_param(d.xml_type, texts)
<1>1. r.ok => r.val \in Seq(SpineValues)
    BY ExtractParamType
<1>2. Readable("xml", d, texts) <=> r.ok /\ \A i \in DOMAIN r.val : Inside(d, r.val[i])
    BY DEF Readable, Inside
<1> HIDE DEF r
<1>3. r.ok => (check_all_limits(d, r.val).ok <=> \A i \in DOMAIN r.val : Inside(d, r.val[i]))
    BY <1>1, AllLimitsRight
<1> QED BY <1>2, <1>3 DEF r
-----------------------------------------------------------------------------
(* One turn of the loop over a request *)

Lowered(S) == {Lower(n) : n \in S}

LEMMA UnknownTurn ==
    ASSUME NEW form \in {"kvp", "xml"}, NEW c, NEW st, IsState(st), NEW p,
           get_param_desc(c, p[1]) = {}, p[1] \notin st.forbidden
    PROVE  /\ Parameter(form, c, st, p).ok
           /\ Parameter(form, c, st, p).val.seen = st.seen
           /\ Parameter(form, c, st, p).val.forbidden = st.forbidden
<1> DEFINE r == Parameter(form, c, st, p)
           new == [st EXCEPT !.skipped = @ + 1]
<1>1. r = Ok(new)
  <2>1. CASE form = "kvp"
    <3>1. r = kvp_parameter(c, st, p)
      BY <2>1 DEF Parameter
    <3> QED BY <3>1 DEF kvp_parameter
  <2>2. CASE form = "xml"
    <3>1. r = xml_parameter(c, st, p)
      BY <2>2 DEF Parameter
    <3> QED BY <3>1 DEF xml_parameter
  <2> QED BY <2>1, <2>2
<1>2. new.seen = st.seen /\ new.forbidden = st.forbidden
    BY DEF IsState
<1> HIDE DEF r, new
<1>3. r.ok /\ r.val = new
    BY <1>1 DEF Ok
<1> QED BY <1>2, <1>3 DEF r

LEMMA KnownKvpTurn ==
    ASSUME NEW c, NEW st, NEW p \in ParamNames \X Given_Texts,
           NEW d, get_param_desc(c, p[1]) = {d}, SoundDesc(d)
    PROVE  /\ kvp_parameter(c, st, p).ok <=> /\ p[1] \notin st.forbidden
                                             /\ ~check_param_max_occurs(st.seen, p[1], d)
                                             /\ Readable("kvp", d, p[2])
           /\ kvp_parameter(c, st, p).ok =>
                  /\ kvp_parameter(c, st, p).val.seen = Append(st.seen, p[1])
                  /\ kvp_parameter(c, st, p).val.forbidden = st.forbidden \cup Lowered(d.conflicts)
<1> DEFINE r == kvp_parameter(c, st, p)
           vs == insert_kvp_values(p[1], d, p[2])
           check == <<check_param_max_occurs(st.seen, p[1], d), "OperationParsingFailed">>
           new == [map |-> insert_values(c, st.map, p[1], vs.val), seen |-> Append(st.seen, p[1]),
                   forbidden |-> st.forbidden \cup Lowered(d.conflicts),
                   skipped |-> st.skipped]
           added == IF vs.ok THEN Ok(new) ELSE vs
<1>1. (CHOOSE x \in get_param_desc(c, p[1]) : TRUE) = d
    OBVIOUS
<1>2. /\ p[1] \in st.forbidden => r = ParsingFailed
      /\ p[1] \notin st.forbidden => r = Checked(<<check>>, added)
  <2>1. get_param_desc(c, p[1]) # {}
    OBVIOUS
  <2> QED BY <1>1, <2>1 DEF kvp_parameter, Then, Lowered
<1>3. vs.ok <=> Readable("kvp", d, p[2])
  <2>1. p[2] \in Given_Texts /\ d \in get_param_desc(c, p[1])
    OBVIOUS
  <2>2. IsDistance(p[1]) <=> IsDistance(d.name)
    BY <2>1 DEF get_param_desc, IsDistance
  <2> QED BY <2>1, <2>2, KvpRight
<1>4. check[1] <=> check_param_max_occurs(st.seen, p[1], d)
    BY Zenon
<1>5. new.seen = Append(st.seen, p[1]) /\ new.forbidden = st.forbidden \cup Lowered(d.conflicts)
    OBVIOUS
<1> HIDE DEF r, vs, check, new
<1>6. added.ok <=> vs.ok
    BY DEF Ok
<1> HIDE DEF added
<1>7. CASE p[1] \in st.forbidden
  <2>1. ~r.ok
    BY <1>2, <1>7 DEF ParsingFailed, Fail, Throw
  <2> QED BY <1>7, <2>1 DEF r
<1>8. CASE p[1] \notin st.forbidden /\ check[1]
  <2>1. r = Checked(<<check>>, added)
    BY <1>2, <1>8
  <2>2. ~r.ok
    BY <1>8, <2>1, OneCheck
  <2> QED BY <1>4, <1>8, <2>2 DEF r
<1>9. CASE p[1] \notin st.forbidden /\ ~check[1]
  <2>1. r = Checked(<<check>>, added)
    BY <1>2, <1>9
  <2>2. r = added
    BY <1>9, <2>1, OneCheckPasses
  <2>3. r.ok <=> vs.ok
    BY <1>6, <2>2
  <2>4. r.ok => r.val = new
    BY <2>2, <2>3 DEF added, Ok
  <2> QED BY <1>3, <1>4, <1>5, <1>9, <2>3, <2>4 DEF r
<1> QED BY <1>7, <1>8, <1>9

LEMMA KnownXmlTurn ==
    ASSUME NEW c, NEW st, NEW p \in ParamNames \X Given_Texts,
           NEW d, get_param_desc(c, p[1]) = {d}, SoundDesc(d)
    PROVE  /\ xml_parameter(c, st, p).ok <=> /\ p[1] \notin st.forbidden
                                             /\ ~check_param_max_occurs(st.seen, p[1], d)
                                             /\ Readable("xml", d, p[2])
           /\ xml_parameter(c, st, p).ok =>
                  /\ xml_parameter(c, st, p).val.seen = Append(st.seen, p[1])
                  /\ xml_parameter(c, st, p).val.forbidden = st.forbidden \cup Lowered(d.conflicts)
<1> DEFINE r == xml_parameter(c, st, p)
           vs == extract_param(d.xml_type, p[2])
           ws == check_all_limits(d, vs.val)
           a == <<p[1] \in st.forbidden, "none">>
           b == <<check_param_max_occurs(st.seen, p[1], d), "OperationParsingFailed">>
           new == [map |-> insert_values(c, st.map, p[1], ws.val), seen |-> Append(st.seen, p[1]),
                   forbidden |-> st.forbidden \cup Lowered(d.conflicts),
                   skipped |-> st.skipped]
           added == IF vs.ok THEN IF ws.ok THEN Ok(new) ELSE ws ELSE vs
<1>1. (CHOOSE x \in get_param_desc(c, p[1]) : TRUE) = d
    OBVIOUS
<1>2. r = Checked(<<a, b>>, added)
  <2>1. get_param_desc(c, p[1]) # {}
    OBVIOUS
  <2> QED BY <1>1, <2>1 DEF xml_parameter, Then, Lowered
<1>3. vs.ok /\ ws.ok <=> Readable("xml", d, p[2])
  <2>1. p[2] \in Given_Texts
    OBVIOUS
  <2> QED BY <2>1, XmlRight
<1>4. (a[1] <=> p[1] \in st.forbidden) /\ (b[1] <=> check_param_max_occurs(st.seen, p[1], d))
    BY Zenon
<1>5. new.seen = Append(st.seen, p[1]) /\ new.forbidden = st.forbidden \cup Lowered(d.conflicts)
    OBVIOUS
<1> HIDE DEF r, vs, ws, a, b, new
<1>6. added.ok <=> vs.ok /\ ws.ok
    BY DEF Ok
<1> HIDE DEF added
<1>7. CASE a[1] \/ b[1]
  <2>1. ~r.ok
    BY <1>2, <1>7, TwoChecks
  <2> QED BY <1>4, <1>7, <2>1 DEF r
<1>8. CASE ~a[1] /\ ~b[1]
  <2>1. r = added
    BY <1>2, <1>8, TwoChecksPass
  <2>2. r.ok <=> vs.ok /\ ws.ok
    BY <1>6, <2>1
  <2>3. r.ok => r.val = new
    BY <2>1, <2>2 DEF added, Ok
  <2> QED BY <1>3, <1>4, <1>5, <1>8, <2>2, <2>3 DEF r
<1> QED BY <1>7, <1>8
-----------------------------------------------------------------------------
(* The loop over a request *)

\* The places of a name among the first k parameters, and its occurrences
\* among the parameters met.
At(ps, k, n) == {j \in 1 .. k : ps[j][1] = n}
Occurrences(seen, n) == Cardinality({i \in DOMAIN seen : seen[i] = n})

\* A conflict is known on both sides, under the names of other parameters.
Mutual(params) ==
    \A d \in params : \A n \in d.conflicts :
        /\ Lower(n) # d.name
        /\ \E e \in params : e.name = Lower(n) /\ d.name \in Lowered(e.conflicts)

Distinct(params) == \A d, e \in params : d.name = e.name => d = e

\* What is asked of the first k parameters; not the least occurrences.
AcceptableUpTo(form, params, ps, k) ==
    \A d \in params :
        /\ At(ps, k, d.name) # {} => Cardinality(At(ps, k, d.name)) <= d.max_occurs
        /\ \A i \in At(ps, k, d.name) : Readable(form, d, ps[i][2])
        /\ \A e \in params : At(ps, k, d.name) # {} /\ At(ps, k, e.name) # {} => e.name \notin Lowered(d.conflicts)

\* What the loop has kept of them.
Kept(params, ps, k, st) ==
    /\ st.seen \in Seq(ParamNames)
    /\ \A d \in params : Occurrences(st.seen, d.name) = Cardinality(At(ps, k, d.name))
    /\ \A n : n \in st.forbidden <=> \E d \in params : At(ps, k, d.name) # {} /\ n \in Lowered(d.conflicts)

LEMMA AtGrows ==
    ASSUME NEW ps, NEW k \in Nat, NEW n
    PROVE  /\ IsFiniteSet(At(ps, k, n)) /\ Cardinality(At(ps, k, n)) \in Nat
           /\ ps[k + 1][1] # n => At(ps, k + 1, n) = At(ps, k, n)
           /\ ps[k + 1][1] = n => /\ At(ps, k + 1, n) = At(ps, k, n) \cup {k + 1}
                                  /\ Cardinality(At(ps, k + 1, n)) = Cardinality(At(ps, k, n)) + 1
<1>1. IsFiniteSet(At(ps, k, n)) /\ Cardinality(At(ps, k, n)) \in Nat
  <2>1. IsFiniteSet(1 .. k)
    BY FS_Interval
  <2>2. At(ps, k, n) \in SUBSET (1 .. k)
    BY DEF At
  <2>3. IsFiniteSet(At(ps, k, n))
    BY <2>1, <2>2, FS_Subset
  <2> QED BY <2>3, FS_CardinalityType
<1>2. 1 .. k + 1 = (1 .. k) \cup {k + 1} /\ k + 1 \notin 1 .. k
    OBVIOUS
<1>3. ps[k + 1][1] # n => At(ps, k + 1, n) = At(ps, k, n)
    BY <1>2 DEF At
<1>4. ASSUME ps[k + 1][1] = n
      PROVE  /\ At(ps, k + 1, n) = At(ps, k, n) \cup {k + 1}
             /\ Cardinality(At(ps, k + 1, n)) = Cardinality(At(ps, k, n)) + 1
  <2>1. At(ps, k + 1, n) = At(ps, k, n) \cup {k + 1} /\ k + 1 \notin At(ps, k, n)
    BY <1>2, <1>4 DEF At
  <2> QED BY <1>1, <2>1, FS_AddElement
<1> QED BY <1>1, <1>3, <1>4

LEMMA OccurrencesGrow ==
    ASSUME NEW seen \in Seq(ParamNames), NEW x \in ParamNames, NEW n
    PROVE  /\ Append(seen, x) \in Seq(ParamNames) /\ Occurrences(seen, n) \in Nat
           /\ Occurrences(Append(seen, x), n) = IF x = n THEN Occurrences(seen, n) + 1 ELSE Occurrences(seen, n)
<1> DEFINE k == Len(seen)
           new == Append(seen, x)
           old_places == {i \in DOMAIN seen : seen[i] = n}
           new_places == {i \in DOMAIN new : new[i] = n}
<1>1. /\ k \in Nat /\ new \in Seq(ParamNames) /\ DOMAIN seen = 1 .. k /\ DOMAIN new = 1 .. k + 1
      /\ new[k + 1] = x /\ \A i \in 1 .. k : new[i] = seen[i]
    BY AppendProperties, LenProperties
<1>2. IsFiniteSet(old_places) /\ Cardinality(old_places) \in Nat
  <2>1. IsFiniteSet(1 .. k)
    BY <1>1, FS_Interval
  <2>2. old_places \in SUBSET (1 .. k)
    BY <1>1
  <2>3. IsFiniteSet(old_places)
    BY <2>1, <2>2, FS_Subset
  <2> QED BY <2>3, FS_CardinalityType
<1>3. 1 .. k + 1 = (1 .. k) \cup {k + 1} /\ k + 1 \notin 1 .. k
    BY <1>1
<1>4. x # n => new_places = old_places
    BY <1>1, <1>3
<1>5. x = n => new_places = old_places \cup {k + 1} /\ k + 1 \notin old_places
    BY <1>1, <1>3
<1>6. Occurrences(seen, n) = Cardinality(old_places) /\ Occurrences(new, n) = Cardinality(new_places)
    BY DEF Occurrences
<1> HIDE DEF old_places, new_places, k
<1>7. x = n => Cardinality(new_places) = Cardinality(old_places) + 1
    BY <1>2, <1>5, FS_AddElement
<1> QED BY <1>1, <1>2, <1>4, <1>6, <1>7

\* A name that is described nowhere changes nothing.
LEMMA UnknownKeeps ==
    ASSUME NEW form \in {"kvp", "xml"}, NEW c, NEW ps, NEW k \in Nat, NEW st, IsState(st), Mutual(c.params),
           get_param_desc(c, ps[k + 1][1]) = {}, \A d \in c.params : d.name # ps[k + 1][1],
           Kept(c.params, ps, k, st), AcceptableUpTo(form, c.params, ps, k)
    PROVE  /\ Parameter(form, c, st, ps[k + 1]).ok
           /\ AcceptableUpTo(form, c.params, ps, k + 1)
           /\ Kept(c.params, ps, k + 1, Parameter(form, c, st, ps[k + 1]).val)
<1> DEFINE p == ps[k + 1]
           r == Parameter(form, c, st, p)
<1>1. \A d \in c.params : At(ps, k + 1, d.name) = At(ps, k, d.name)
    BY AtGrows
<1>2. p[1] \notin st.forbidden
  <2> SUFFICES ASSUME p[1] \in st.forbidden PROVE FALSE
    OBVIOUS
  <2>1. PICK d \in c.params : p[1] \in Lowered(d.conflicts)
    BY DEF Kept
  <2>2. PICK n \in d.conflicts : p[1] = Lower(n)
    BY <2>1 DEF Lowered
  <2> QED BY <2>2 DEF Mutual
<1>3. r.ok /\ r.val.seen = st.seen /\ r.val.forbidden = st.forbidden
    BY <1>2, UnknownTurn
<1> HIDE DEF r
<1>4. AcceptableUpTo(form, c.params, ps, k + 1)
    BY <1>1 DEF AcceptableUpTo
<1>5. Kept(c.params, ps, k + 1, r.val)
    BY <1>1, <1>3 DEF Kept
<1> QED BY <1>3, <1>4, <1>5 DEF r

LEMMA KnownTurn ==
    ASSUME NEW form \in {"kvp", "xml"}, NEW c, NEW st, NEW p \in ParamNames \X Given_Texts,
           NEW d, get_param_desc(c, p[1]) = {d}, SoundDesc(d)
    PROVE  /\ Parameter(form, c, st, p).ok <=> /\ p[1] \notin st.forbidden
                                               /\ ~check_param_max_occurs(st.seen, p[1], d)
                                               /\ Readable(form, d, p[2])
           /\ Parameter(form, c, st, p).ok =>
                  /\ Parameter(form, c, st, p).val.seen = Append(st.seen, p[1])
                  /\ Parameter(form, c, st, p).val.forbidden = st.forbidden \cup Lowered(d.conflicts)
<1>1. CASE form = "kvp"
  <2>1. Parameter(form, c, st, p) = kvp_parameter(c, st, p)
    BY <1>1 DEF Parameter
  <2> QED BY <1>1, <2>1, KnownKvpTurn
<1>2. CASE form = "xml"
  <2>1. Parameter(form, c, st, p) = xml_parameter(c, st, p)
    BY <1>2 DEF Parameter
  <2> QED BY <1>2, <2>1, KnownXmlTurn
<1> QED BY <1>1, <1>2

\* One more parameter that is described: the loop goes on exactly when the
\* parameters up to it are acceptable.
LEMMA KnownKeeps ==
    ASSUME NEW form \in {"kvp", "xml"}, NEW c, NEW ps, NEW k \in Nat, NEW st,
           ps[k + 1] \in ParamNames \X Given_Texts, NEW d \in c.params,
           \A e \in c.params : SoundDesc(e), Distinct(c.params), Mutual(c.params),
           get_param_desc(c, ps[k + 1][1]) = {d}, d.name = ps[k + 1][1],
           Kept(c.params, ps, k, st), AcceptableUpTo(form, c.params, ps, k)
    PROVE  /\ Parameter(form, c, st, ps[k + 1]).ok <=> AcceptableUpTo(form, c.params, ps, k + 1)
           /\ Parameter(form, c, st, ps[k + 1]).ok =>
                  Kept(c.params, ps, k + 1, Parameter(form, c, st, ps[k + 1]).val)
<1> DEFINE p == ps[k + 1]
           r == Parameter(form, c, st, p)
           here == At(ps, k, d.name)
<1>1. /\ At(ps, k + 1, d.name) = here \cup {k + 1} /\ Cardinality(here) \in Nat
      /\ Cardinality(At(ps, k + 1, d.name)) = Cardinality(here) + 1
  <2>1. ps[k + 1][1] = d.name
    OBVIOUS
  <2> DEFINE n == d.name
  <2> HIDE DEF n
  <2>2. /\ Cardinality(At(ps, k, n)) \in Nat
        /\ ps[k + 1][1] = n => /\ At(ps, k + 1, n) = At(ps, k, n) \cup {k + 1}
                               /\ Cardinality(At(ps, k + 1, n)) = Cardinality(At(ps, k, n)) + 1
    BY AtGrows
  <2> QED BY <2>1, <2>2 DEF n
<1>2. \A e \in c.params : e # d => e.name # p[1] /\ At(ps, k + 1, e.name) = At(ps, k, e.name)
  <2>1. \A e \in c.params : e # d => e.name # p[1]
    BY DEF Distinct
  <2> QED BY <2>1, AtGrows
<1>3. check_param_max_occurs(st.seen, p[1], d) <=> Cardinality(here) + 1 > d.max_occurs
  <2>1. Occurrences(st.seen, p[1]) = Cardinality(here)
    BY DEF Kept
  <2> QED BY <2>1 DEF check_param_max_occurs, Occurrences
<1>4. /\ r.ok <=> /\ p[1] \notin st.forbidden
                  /\ ~check_param_max_occurs(st.seen, p[1], d)
                  /\ Readable(form, d, p[2])
      /\ r.ok => r.val.seen = Append(st.seen, p[1]) /\ r.val.forbidden = st.forbidden \cup Lowered(d.conflicts)
    BY KnownTurn
<1>5. d.max_occurs \in Int
    BY DEF SoundDesc
<1>6. r.ok <=> p[1] \notin st.forbidden /\ Cardinality(here) + 1 <= d.max_occurs /\ Readable(form, d, p[2])
    BY <1>1, <1>3, <1>4, <1>5
<1> HIDE DEF r, here
<1>7. ASSUME AcceptableUpTo(form, c.params, ps, k + 1) PROVE r.ok
  <2>1. Cardinality(here) + 1 <= d.max_occurs /\ Readable(form, d, p[2])
    <3>1. k + 1 \in At(ps, k + 1, d.name)
      BY <1>1
    <3> QED BY <1>1, <1>7, <3>1 DEF AcceptableUpTo
  <2>2. p[1] \notin st.forbidden
    <3> SUFFICES ASSUME p[1] \in st.forbidden PROVE FALSE
      OBVIOUS
    <3>1. PICK e \in c.params : At(ps, k, e.name) # {} /\ p[1] \in Lowered(e.conflicts)
      BY DEF Kept
    <3>2. At(ps, k + 1, e.name) # {} /\ At(ps, k + 1, d.name) # {}
      BY <1>1, <1>2, <3>1
    <3> QED BY <1>7, <3>1, <3>2 DEF AcceptableUpTo
  <2> QED BY <1>6, <2>1, <2>2
<1>8. ASSUME r.ok PROVE AcceptableUpTo(form, c.params, ps, k + 1)
  <2> SUFFICES ASSUME NEW e \in c.params
               PROVE  /\ At(ps, k + 1, e.name) # {} => Cardinality(At(ps, k + 1, e.name)) <= e.max_occurs
                      /\ \A i \in At(ps, k + 1, e.name) : Readable(form, e, ps[i][2])
                      /\ \A g \in c.params : At(ps, k + 1, e.name) # {} /\ At(ps, k + 1, g.name) # {} =>
                             g.name \notin Lowered(e.conflicts)
    BY DEF AcceptableUpTo
  <2>1. /\ At(ps, k, e.name) # {} => Cardinality(At(ps, k, e.name)) <= e.max_occurs
        /\ \A i \in At(ps, k, e.name) : Readable(form, e, ps[i][2])
    BY DEF AcceptableUpTo
  <2>2. At(ps, k + 1, e.name) # {} => Cardinality(At(ps, k + 1, e.name)) <= e.max_occurs
    BY <1>1, <1>2, <1>6, <1>8, <2>1
  <2>3. \A i \in At(ps, k + 1, e.name) : Readable(form, e, ps[i][2])
    BY <1>1, <1>2, <1>6, <1>8, <2>1 DEF here
  <2>4. ASSUME NEW g \in c.params, At(ps, k + 1, e.name) # {}, At(ps, k + 1, g.name) # {}, g.name \in Lowered(e.conflicts)
        PROVE  FALSE
    <3>1. PICK n \in e.conflicts : g.name = Lower(n)
      BY <2>4 DEF Lowered
    <3>2. g.name # e.name /\ e.name \in Lowered(g.conflicts)
      BY <3>1 DEF Mutual, Distinct
    <3>3. CASE e # d /\ g # d
      <4>1. At(ps, k, e.name) # {} /\ At(ps, k, g.name) # {}
        BY <1>2, <2>4, <3>3
      <4> QED BY <2>4, <4>1 DEF AcceptableUpTo
    <3>4. CASE e # d /\ g = d
      <4>1. At(ps, k, e.name) # {}
        BY <1>2, <2>4, <3>4
      <4>2. d.name \in st.forbidden
        BY <2>4, <3>4, <4>1 DEF Kept
      <4> QED BY <1>6, <1>8, <4>2
    <3>5. CASE e = d /\ g # d
      <4>1. At(ps, k, g.name) # {}
        BY <1>2, <2>4, <3>5
      <4>2. d.name \in st.forbidden
        BY <3>2, <3>5, <4>1 DEF Kept
      <4> QED BY <1>6, <1>8, <4>2
    <3> QED BY <3>2, <3>3, <3>4, <3>5
  <2> QED BY <2>2, <2>3, <2>4
<1>9. ASSUME r.ok PROVE Kept(c.params, ps, k + 1, r.val)
  <2>1. st.seen \in Seq(ParamNames) /\ p[1] \in ParamNames
    BY DEF Kept
  <2>2. r.val.seen = Append(st.seen, p[1]) /\ r.val.forbidden = st.forbidden \cup Lowered(d.conflicts)
    BY <1>4, <1>9
  <2>3. r.val.seen \in Seq(ParamNames)
    BY <2>1, <2>2, OccurrencesGrow
  <2>4. ASSUME NEW e \in c.params
        PROVE  Occurrences(r.val.seen, e.name) = Cardinality(At(ps, k + 1, e.name))
    <3>1. Occurrences(st.seen, e.name) = Cardinality(At(ps, k, e.name))
      BY DEF Kept
    <3>2. Occurrences(r.val.seen, e.name) =
              IF p[1] = e.name THEN Occurrences(st.seen, e.name) + 1 ELSE Occurrences(st.seen, e.name)
      BY <2>1, <2>2, OccurrencesGrow
    <3>3. CASE e = d
      BY <1>1, <3>1, <3>2, <3>3 DEF here
    <3>4. CASE e # d
      BY <1>2, <3>1, <3>2, <3>4
    <3> QED BY <3>3, <3>4
  <2>5. ASSUME NEW n
        PROVE  n \in r.val.forbidden <=> \E e \in c.params : At(ps, k + 1, e.name) # {} /\ n \in Lowered(e.conflicts)
    <3>1. n \in st.forbidden <=> \E e \in c.params : At(ps, k, e.name) # {} /\ n \in Lowered(e.conflicts)
      BY DEF Kept
    <3>2. At(ps, k + 1, d.name) # {}
      BY <1>1
    <3>3. \A e \in c.params : At(ps, k, e.name) # {} => At(ps, k + 1, e.name) # {}
      BY <1>2, <3>2
    <3>4. \A e \in c.params : At(ps, k + 1, e.name) # {} => e = d \/ At(ps, k, e.name) # {}
      BY <1>2
    <3> QED BY <2>2, <3>1, <3>2, <3>3, <3>4
  <2> QED BY <2>3, <2>4, <2>5 DEF Kept
<1> QED BY <1>7, <1>8, <1>9 DEF r

\* What is not acceptable so far is not acceptable later.
LEMMA NeverAgain ==
    ASSUME NEW form, NEW params, \A d \in params : SoundDesc(d), NEW ps, NEW k \in Nat,
           AcceptableUpTo(form, params, ps, k + 1)
    PROVE  AcceptableUpTo(form, params, ps, k)
<1>1. ASSUME NEW d \in params
      PROVE  /\ At(ps, k, d.name) \subseteq At(ps, k + 1, d.name)
             /\ Cardinality(At(ps, k, d.name)) <= Cardinality(At(ps, k + 1, d.name))
             /\ Cardinality(At(ps, k, d.name)) \in Nat /\ Cardinality(At(ps, k + 1, d.name)) \in Nat
  <2>1. Cardinality(At(ps, k, d.name)) \in Nat /\ Cardinality(At(ps, k + 1, d.name)) \in Nat
    <3>1. k + 1 \in Nat
      OBVIOUS
    <3>2. Cardinality(At(ps, k, d.name)) \in Nat
      BY AtGrows
    <3> QED BY <3>1, <3>2, AtGrows
  <2>2. CASE ps[k + 1][1] = d.name
    <3>1. /\ At(ps, k + 1, d.name) = At(ps, k, d.name) \cup {k + 1}
          /\ Cardinality(At(ps, k + 1, d.name)) = Cardinality(At(ps, k, d.name)) + 1
      BY <2>2, AtGrows
    <3> QED BY <2>1, <3>1
  <2>3. CASE ps[k + 1][1] # d.name
    <3>1. At(ps, k + 1, d.name) = At(ps, k, d.name)
      BY <2>3, AtGrows
    <3> QED BY <2>1, <3>1
  <2> QED BY <2>2, <2>3
<1> SUFFICES ASSUME NEW d \in params
             PROVE  /\ At(ps, k, d.name) # {} => Cardinality(At(ps, k, d.name)) <= d.max_occurs
                    /\ \A i \in At(ps, k, d.name) : Readable(form, d, ps[i][2])
                    /\ \A e \in params : At(ps, k, d.name) # {} /\ At(ps, k, e.name) # {} =>
                           e.name \notin Lowered(d.conflicts)
    BY DEF AcceptableUpTo
<1>2. /\ At(ps, k + 1, d.name) # {} => Cardinality(At(ps, k + 1, d.name)) <= d.max_occurs
      /\ \A i \in At(ps, k + 1, d.name) : Readable(form, d, ps[i][2])
      /\ \A e \in params : At(ps, k + 1, d.name) # {} /\ At(ps, k + 1, e.name) # {} =>
             e.name \notin Lowered(d.conflicts)
    BY DEF AcceptableUpTo
<1>3. At(ps, k, d.name) # {} => Cardinality(At(ps, k, d.name)) <= d.max_occurs
  <2>1. d.max_occurs \in Int
    BY DEF SoundDesc
  <2> QED BY <1>1, <1>2, <2>1
<1>4. \A i \in At(ps, k, d.name) : Readable(form, d, ps[i][2])
    BY <1>1, <1>2
<1>5. \A e \in params : At(ps, k, d.name) # {} /\ At(ps, k, e.name) # {} => e.name \notin Lowered(d.conflicts)
    BY <1>1, <1>2
<1> QED BY <1>3, <1>4, <1>5

\* The request names described parameters as they are described.
Spelled(c, ps) ==
    \A i \in 1 .. Len(ps) : get_param_desc(c, ps[i][1]) = {d \in c.params : d.name = ps[i][1]}

\* The loop is at its end exactly when all parameters are acceptable.
LEMMA LoopAccepts ==
    ASSUME NEW form \in {"kvp", "xml"}, NEW c, NEW ps \in Requests, Spelled(c, ps),
           \A d \in c.params : SoundDesc(d), Distinct(c.params), Mutual(c.params),
           NEW f, Turns(f, Len(ps), form, c, ps)
    PROVE  \A k \in 0 .. Len(ps) : /\ f[k].ok <=> AcceptableUpTo(form, c.params, ps, k)
                                   /\ f[k].ok => Kept(c.params, ps, k, f[k].val)
<1> DEFINE N == {k \in Nat : k <= Len(ps) => /\ f[k].ok <=> AcceptableUpTo(form, c.params, ps, k)
                                             /\ f[k].ok => Kept(c.params, ps, k, f[k].val)}
<1>1. Len(ps) \in Nat
    BY LenProperties DEF Requests
<1>2. \A i \in 0 .. Len(ps) : f[i] = IF i = 0 THEN Start ELSE Turn(form, c, f[i - 1], ps[i])
    BY TurnSteps
<1>3. \A i \in 0 .. Len(ps) : f[i].ok => IsState(f[i].val)
    BY TurnsType
<1>4. 0 \in N
  <2>1. \A n : At(ps, 0, n) = {}
    BY DEF At
  <2>2. f[0].ok /\ f[0].val.seen = <<>> /\ f[0].val.forbidden = {}
    <3>1. f[0] = Start
      BY <1>1, <1>2
    <3> QED BY <3>1 DEF Start, Ok
  <2>3. AcceptableUpTo(form, c.params, ps, 0)
    BY <2>1 DEF AcceptableUpTo
  <2>4. Kept(c.params, ps, 0, f[0].val)
    <3>1. <<>> \in Seq(ParamNames)
      OBVIOUS
    <3>2. \A n : Occurrences(<<>>, n) = Cardinality({})
      <4>1. \A n : {i \in DOMAIN <<>> : <<>>[i] = n} = {}
        OBVIOUS
      <4> QED BY <4>1 DEF Occurrences
    <3> QED BY <2>1, <2>2, <3>1, <3>2 DEF Kept
  <2> QED BY <2>2, <2>3, <2>4
<1>5. ASSUME NEW k \in Nat, k \in N PROVE k + 1 \in N
  <2> SUFFICES ASSUME k + 1 <= Len(ps)
               PROVE  /\ f[k + 1].ok <=> AcceptableUpTo(form, c.params, ps, k + 1)
                      /\ f[k + 1].ok => Kept(c.params, ps, k + 1, f[k + 1].val)
    OBVIOUS
  <2>1. k \in 0 .. Len(ps) /\ k + 1 \in 0 .. Len(ps) /\ k + 1 \in 1 .. Len(ps) /\ k + 1 # 0 /\ (k + 1) - 1 = k
    BY <1>1
  <2>2. /\ f[k].ok <=> AcceptableUpTo(form, c.params, ps, k)
        /\ f[k].ok => Kept(c.params, ps, k, f[k].val)
    BY <1>1, <1>5
  <2>3. f[k + 1] = Turn(form, c, f[k], ps[k + 1])
    BY <1>2, <2>1
  <2>4. CASE ~f[k].ok
    <3>1. ~f[k + 1].ok
      BY <2>3, <2>4 DEF Turn
    <3>2. ~AcceptableUpTo(form, c.params, ps, k + 1)
      BY <2>2, <2>4, NeverAgain
    <3> QED BY <3>1, <3>2
  <2>5. CASE f[k].ok
    <3>1. f[k + 1] = Parameter(form, c, f[k].val, ps[k + 1])
      BY <2>3, <2>5 DEF Turn
    <3>2. IsState(f[k].val) /\ Kept(c.params, ps, k, f[k].val) /\ AcceptableUpTo(form, c.params, ps, k)
      BY <1>3, <2>1, <2>2, <2>5
    <3>3. ps[k + 1] \in ParamNames \X Given_Texts
      BY <2>1, ElementOfSeq DEF Requests
    <3>4. get_param_desc(c, ps[k + 1][1]) = {d \in c.params : d.name = ps[k + 1][1]}
      BY <2>1 DEF Spelled
    <3>5. CASE \A d \in c.params : d.name # ps[k + 1][1]
      <4>1. get_param_desc(c, ps[k + 1][1]) = {}
        BY <3>4, <3>5
      <4> QED BY <3>1, <3>2, <3>5, <4>1, UnknownKeeps
    <3>6. CASE \E d \in c.params : d.name = ps[k + 1][1]
      <4>1. PICK d \in c.params : d.name = ps[k + 1][1]
        BY <3>6
      <4>2. get_param_desc(c, ps[k + 1][1]) = {d}
        BY <3>4, <4>1 DEF Distinct
      <4> QED BY <3>1, <3>2, <3>3, <4>1, <4>2, KnownKeeps
    <3> QED BY <3>5, <3>6
  <2> QED BY <2>4, <2>5
<1> HIDE DEF N
<1>6. Nat \subseteq N
    BY <1>4, <1>5, NatSetInduction
<1> QED BY <1>1, <1>6 DEF N

\* What Acceptable says, of the places of the names.
AsDescribed(form, params, ps) ==
    /\ AcceptableUpTo(form, params, ps, Len(ps))
    /\ \A d \in params : Cardinality(At(ps, Len(ps), d.name)) >= d.min_occurs

LEMMA ExtractAccepts ==
    ASSUME NEW form \in {"kvp", "xml"}, NEW c, NEW ps \in Requests, Spelled(c, ps),
           \A d \in c.params : SoundDesc(d), Distinct(c.params), Mutual(c.params)
    PROVE  extract_parameters(form, c, ps).ok <=> AsDescribed(form, c.params, ps)
<1> DEFINE f == CHOOSE g : Turns(g, Len(ps), form, c, ps)
<1>1. Len(ps) \in Nat /\ Len(ps) \in 0 .. Len(ps)
    BY LenProperties DEF Requests
<1>2. Turns(f, Len(ps), form, c, ps)
    BY <1>1, TurnsExist
<1>3. extract_parameters(form, c, ps) = Finish(c, f[Len(ps)])
    BY DEF extract_parameters, Turns, Turn, Then
<1> HIDE DEF f
<1> DEFINE r == f[Len(ps)]
           check == <<\E d \in c.params : check_param_min_occurs(r.val.seen, d), "OperationParsingFailed">>
<1>4. Finish(c, r) = IF r.ok THEN Checked(<<check>>, Ok(r.val)) ELSE r
    BY DEF Finish, Then
<1>5. /\ r.ok <=> AcceptableUpTo(form, c.params, ps, Len(ps))
      /\ r.ok => Kept(c.params, ps, Len(ps), r.val)
    BY <1>1, <1>2, LoopAccepts
<1>6. check[1] <=> \E d \in c.params : check_param_min_occurs(r.val.seen, d)
    BY Zenon
<1>7. extract_parameters(form, c, ps) = Finish(c, r)
    BY <1>3
<1> HIDE DEF r, check
<1>8. CASE ~r.ok
  <2>1. ~extract_parameters(form, c, ps).ok
    BY <1>4, <1>7, <1>8
  <2> QED BY <1>5, <1>8, <2>1 DEF AsDescribed
<1>9. CASE r.ok
  <2>1. extract_parameters(form, c, ps).ok <=> ~check[1]
    <3>1. extract_parameters(form, c, ps) = Checked(<<check>>, Ok(r.val))
      BY <1>4, <1>7, <1>9
    <3>2. CASE check[1]
      BY <3>1, <3>2, OneCheck
    <3>3. CASE ~check[1]
      <4>1. Checked(<<check>>, Ok(r.val)) = Ok(r.val)
        BY <3>3, OneCheckPasses
      <4> QED BY <3>1, <3>3, <4>1 DEF Ok
    <3> QED BY <3>2, <3>3
  <2>2. ASSUME NEW d \in c.params
        PROVE  check_param_min_occurs(r.val.seen, d) <=> ~(Cardinality(At(ps, Len(ps), d.name)) >= d.min_occurs)
    <3>1. d.min_occurs \in Int /\ Cardinality(At(ps, Len(ps), d.name)) \in Nat
      BY <1>1, AtGrows DEF SoundDesc
    <3>2. Occurrences(r.val.seen, d.name) = Cardinality(At(ps, Len(ps), d.name))
      BY <1>5, <1>9 DEF Kept
    <3>3. check_param_min_occurs(r.val.seen, d) <=> Occurrences(r.val.seen, d.name) < d.min_occurs
      BY DEF check_param_min_occurs, Occurrences
    <3> QED BY <3>1, <3>2, <3>3
  <2> QED BY <1>5, <1>6, <1>9, <2>1, <2>2 DEF AsDescribed
<1> QED BY <1>8, <1>9
-----------------------------------------------------------------------------
(* What the configuration is checked for *)

IsDesc(v) ==
    v = [name |-> v.name, def |-> v.def, xml_type |-> v.xml_type, min_occurs |-> v.min_occurs,
         max_occurs |-> v.max_occurs, lower |-> v.lower, upper |-> v.upper, conflicts |-> v.conflicts]

LimitOf(def, l) == IF l = <<>> THEN Ok(<<>>) ELSE Then(convValue(def, l[1]), LAMBDA v : Ok(<<v>>))

LEMMA LimitType ==
    ASSUME NEW def, NEW l \in Seq(SpineValues), LimitOf(def, l).ok
    PROVE  LimitOf(def, l).val \in Seq(SpineValues)
<1>1. CASE l = <<>>
  <2>1. LimitOf(def, l).val = <<>>
    BY <1>1 DEF LimitOf, Ok
  <2> QED BY <2>1
<1>2. CASE l # <<>>
  <2> DEFINE v == convValue(def, l[1])
  <2>1. LimitOf(def, l) = IF v.ok THEN Ok(<<v.val>>) ELSE v
    BY <1>2 DEF LimitOf, Then
  <2>2. v.ok => v.val \in SpineValues
    <3>1. l[1] \in SpineValues
      BY <1>2
    <3>2. v.ok => v = readValue(def, l[1])
      BY DEF convValue, ParsingFailed, Fail, Throw
    <3> QED BY <3>1, <3>2, ReadValueType
  <2> HIDE DEF v
  <2>3. v.ok /\ LimitOf(def, l).val = <<v.val>>
    BY <2>1 DEF Ok
  <2>4. v.val \in SpineValues
    BY <2>2, <2>3
  <2>5. <<v.val>> \in Seq(SpineValues)
    BY <2>4
  <2> QED BY <2>3, <2>5
<1> QED BY <1>1, <1>2

LEMMA ParsedDef ==
    ASSUME NEW def, parse_def(def).ok
    PROVE  ~parse_def(def).val.array => parse_def(def).val.min = 1 /\ parse_def(def).val.max = 1
<1> DEFINE a == <<def.type = "unknown", "none">>
           b == <<def.dims # <<>> /\ def.dims[1] > def.dims[Len(def.dims)], "none">>
           v == [type |-> def.type, array |-> def.dims # <<>>,
                 min |-> IF def.dims = <<>> THEN 1 ELSE def.dims[1],
                 max |-> IF def.dims = <<>> THEN 1 ELSE def.dims[Len(def.dims)]]
<1>1. parse_def(def) = Checked(<<a, b>>, Ok(v))
    BY DEF parse_def
<1>2. ~v.array => v.min = 1 /\ v.max = 1
    OBVIOUS
<1> HIDE DEF a, b, v
<1>3. parse_def(def) = Ok(v)
    BY <1>1, TwoChecks
<1> QED BY <1>2, <1>3 DEF Ok

\* The description of an entry of the configuration.
LEMMA ParsedDesc ==
    ASSUME NEW item \in ParamItems, NEW taken, NEW sensitive, parse_param_desc(item, taken, sensitive).ok
    PROVE  LET v == parse_param_desc(item, taken, sensitive).val
           IN  IsDesc(v) /\ SoundDesc(v) /\ v.name = item.name
<1> DEFINE r == parse_param_desc(item, taken, sensitive)
           a == <<~sensitive /\ Lower(item.name) \in taken, "none">>
           b == <<~item.complete, "none">>
           def == parse_def(item.type)
           low == LimitOf(def.val, item.lower)
           up == LimitOf(def.val, item.upper)
           check == <<low.val \o up.val # <<>> /\ def.val.type \in {"string", "bool"}, "none">>
           new == [name |-> item.name, def |-> def.val, xml_type |-> item.xml_type,
                   min_occurs |-> item.min_occurs, max_occurs |-> item.max_occurs,
                   lower |-> low.val, upper |-> up.val, conflicts |-> item.conflicts]
           desc == IF low.ok THEN IF up.ok THEN Checked(<<check>>, Ok(new)) ELSE up ELSE low
           made == IF def.ok THEN desc ELSE def
<1>1. r = Checked(<<a, b>>, made)
    BY DEF parse_param_desc, LimitOf, Then
<1>2. /\ item.lower \in Seq(SpineValues) /\ item.upper \in Seq(SpineValues)
      /\ item.min_occurs \in Int /\ item.max_occurs \in Int
    BY DEF ParamItems
<1>3. low.ok => low.val \in Seq(SpineValues)
    BY <1>2, LimitType
<1>4. up.ok => up.val \in Seq(SpineValues)
    BY <1>2, LimitType
<1>5. def.ok => (~def.val.array => def.val.min = 1 /\ def.val.max = 1)
    BY ParsedDef
<1>6. r.ok
    OBVIOUS
<1> HIDE DEF r, a, b, def, low, up, check
<1>7. r = made /\ made.ok
    BY <1>1, <1>6, TwoChecks
<1>8. def.ok /\ low.ok /\ up.ok /\ made = Checked(<<check>>, Ok(new)) /\ Checked(<<check>>, Ok(new)).ok
    BY <1>7
<1>9. Checked(<<check>>, Ok(new)) = Ok(new)
    BY <1>8, OneCheck
<1>10. r.val = new
    BY <1>7, <1>8, <1>9 DEF Ok
<1>11. IsDesc(new) /\ SoundDesc(new) /\ new.name = item.name
    BY <1>2, <1>3, <1>4, <1>5, <1>8 DEF IsDesc, SoundDesc
<1> HIDE DEF new
<1> QED BY <1>10, <1>11 DEF r

\* The function by which check_param_conflicts is defined.
Entries(f, n, descs) ==
    f = [i \in 0 .. n |-> IF i = 0 THEN [k \in DOMAIN descs |-> descs[k].conflicts]
                          ELSE enter_conflicts(descs, f[i - 1], i)]

LEMMA EntrySteps ==
    ASSUME NEW f, NEW n, NEW descs, Entries(f, n, descs)
    PROVE  \A i \in 0 .. n : f[i] = IF i = 0 THEN [k \in DOMAIN descs |-> descs[k].conflicts]
                                    ELSE enter_conflicts(descs, f[i - 1], i)
BY DEF Entries

LEMMA EntriesExist ==
    ASSUME NEW descs
    PROVE  \A n \in Nat : \E f : Entries(f, n, descs)
<1> DEFINE own == [k \in DOMAIN descs |-> descs[k].conflicts]
           N == {n \in Nat : \E f : Entries(f, n, descs)}
<1>1. 0 \in N
  <2> DEFINE f == [i \in 0 .. 0 |-> own]
  <2>1. Entries(f, 0, descs)
    BY DEF Entries
  <2> HIDE DEF f
  <2> QED BY <2>1
<1>2. ASSUME NEW n \in Nat, n \in N PROVE n + 1 \in N
  <2>1. PICK f : Entries(f, n, descs)
    BY <1>2
  <2> DEFINE h == [i \in 0 .. n + 1 |-> IF i <= n THEN f[i] ELSE enter_conflicts(descs, f[n], n + 1)]
  <2>2. \A i \in 0 .. n : f[i] = IF i = 0 THEN own ELSE enter_conflicts(descs, f[i - 1], i)
    BY <2>1, EntrySteps
  <2> HIDE DEF own
  <2>3. ASSUME NEW i \in 0 .. n + 1
        PROVE  h[i] = IF i = 0 THEN own ELSE enter_conflicts(descs, h[i - 1], i)
    <3>1. CASE i <= n
      <4>1. i \in 0 .. n /\ h[i] = f[i] /\ (i # 0 => h[i - 1] = f[i - 1])
        BY <3>1
      <4> QED BY <4>1, <2>2
    <3>2. CASE ~(i <= n)
      <4>1. i = n + 1 /\ i # 0 /\ h[i - 1] = f[n]
        BY <3>2
      <4>2. h[i] = enter_conflicts(descs, f[n], n + 1)
        BY <3>2
      <4> QED BY <4>1, <4>2
    <3> QED BY <3>1, <3>2
  <2>4. Entries(h, n + 1, descs)
    <3> HIDE DEF h
    <3>1. DOMAIN h = 0 .. n + 1 /\ h = [i \in 0 .. n + 1 |-> h[i]]
      BY DEF h
    <3> QED BY <2>3, <3>1 DEF Entries, own
  <2> HIDE DEF h
  <2> QED BY <2>4
<1> HIDE DEF N
<1>3. Nat \subseteq N
    BY <1>1, <1>2, NatSetInduction
<1> QED BY <1>3 DEF N

\* The conflicts of parameter k are known on the other side.
Answered(descs, conf, k) ==
    \A x \in conf[k] :
        /\ Lower(x) # descs[k].name
        /\ \E m \in DOMAIN descs : descs[m].name = Lower(x) /\ descs[k].name \in Lowered(conf[m])

\* Each parameter met is entered on the other side of its conflicts, and what
\* is entered later is entered for a conflict on the other side.
LEMMA EntriesAnswered ==
    ASSUME NEW n \in Nat, NEW descs, DOMAIN descs = 1 .. n, NEW f, Entries(f, n, descs),
           \A k \in 1 .. n : descs[k].name = Lower(descs[k].name),
           \A k, m \in 1 .. n : descs[k].name = descs[m].name => k = m,
           \A i \in 1 .. n : ~wrong_conflict(descs, f[i - 1], i)
    PROVE  \A k \in 1 .. n : Answered(descs, f[n], k)
<1> DEFINE N == {i \in Nat : i <= n => \A k \in 1 .. i : Answered(descs, f[i], k)}
           own == [k \in DOMAIN descs |-> descs[k].conflicts]
<1>1. 0 \in N
    OBVIOUS
<1>2. \A i \in 0 .. n : f[i] = IF i = 0 THEN own ELSE enter_conflicts(descs, f[i - 1], i)
    BY DEF Entries
<1> HIDE DEF own
<1>3. ASSUME NEW j \in Nat, j \in N PROVE j + 1 \in N
  <2> DEFINE i == j + 1
  <2> SUFFICES ASSUME i <= n, NEW k \in 1 .. i, NEW x \in f[i][k]
               PROVE  /\ Lower(x) # descs[k].name
                      /\ \E m \in DOMAIN descs : descs[m].name = Lower(x) /\ descs[k].name \in Lowered(f[i][m])
    BY DEF Answered
  <2>1. i \in 1 .. n /\ i \in 0 .. n /\ i # 0 /\ i - 1 = j /\ k \in 1 .. n /\ j <= n
    OBVIOUS
  <2>2. f[i] = enter_conflicts(descs, f[j], i)
    BY <1>2, <2>1
  <2>3. ~wrong_conflict(descs, f[j], i)
    BY <2>1
  <2> HIDE DEF i
  <2>4. \A m \in 1 .. n : f[i][m] = IF \E c \in f[j][i] : Lower(c) = descs[m].name
                                    THEN f[j][m] \cup {descs[i].name} ELSE f[j][m]
    BY <2>2 DEF enter_conflicts
  <2>5. \A m \in 1 .. n : Lowered(f[j][m]) \subseteq Lowered(f[i][m])
    <3>1. \A m \in 1 .. n : f[j][m] \subseteq f[i][m]
      BY <2>4
    <3> QED BY <3>1 DEF Lowered
  <2>6. \A c \in f[j][i] : Lower(c) # descs[i].name /\ \E m \in 1 .. n : descs[m].name = Lower(c)
    BY <2>3 DEF wrong_conflict
  <2>7. CASE x \in f[j][k] /\ k # i
    <3>1. Answered(descs, f[j], k)
      <4>1. k \in 1 .. j
        BY <2>7 DEF i
      <4> QED BY <1>3, <2>1, <4>1
    <3>2. PICK m \in 1 .. n : Lower(x) # descs[k].name /\ descs[m].name = Lower(x) /\ descs[k].name \in Lowered(f[j][m])
      BY <2>7, <3>1 DEF Answered
    <3> QED BY <2>5, <3>2
  <2>8. CASE x \in f[j][k] /\ k = i
    <3>1. PICK m \in 1 .. n : Lower(x) # descs[i].name /\ descs[m].name = Lower(x)
      BY <2>6, <2>8
    <3>2. descs[i].name \in f[i][m]
      BY <2>4, <2>8, <3>1
    <3>3. descs[i].name \in Lowered(f[i][m])
      <4>1. descs[i].name = Lower(descs[i].name)
        BY <2>1
      <4> QED BY <3>2, <4>1 DEF Lowered
    <3> QED BY <2>8, <3>1, <3>3
  <2>9. CASE x \notin f[j][k]
    <3>1. x = descs[i].name /\ \E c \in f[j][i] : Lower(c) = descs[k].name
      BY <2>1, <2>4, <2>9
    <3>2. PICK c \in f[j][i] : Lower(c) = descs[k].name
      BY <3>1
    <3>3. descs[k].name # descs[i].name
      BY <2>6, <3>2
    <3>4. Lower(x) = descs[i].name
      BY <2>1, <3>1
    <3>5. descs[k].name \in Lowered(f[i][i])
      <4>1. descs[k].name \in Lowered(f[j][i])
        BY <3>2 DEF Lowered
      <4> QED BY <2>1, <2>5, <4>1
    <3> QED BY <2>1, <3>3, <3>4, <3>5
  <2> QED BY <2>7, <2>8, <2>9
<1> HIDE DEF N
<1>4. Nat \subseteq N
    BY <1>1, <1>3, NatSetInduction
<1> QED BY <1>4 DEF N

\* What is known of the descriptions of a configuration that is accepted.
Consistent(params) ==
    /\ \A d \in params : SoundDesc(d)
    /\ Distinct(params)
    /\ (\A d \in params : d.name = Lower(d.name)) => Mutual(params)

LEMMA ConflictsConsistent ==
    ASSUME NEW n \in Nat, NEW descs, DOMAIN descs = 1 .. n, Len(descs) = n,
           \A k \in 1 .. n : IsDesc(descs[k]) /\ SoundDesc(descs[k]),
           \A k, m \in 1 .. n : descs[k].name = descs[m].name => k = m,
           check_param_conflicts(descs).ok
    PROVE  Consistent(check_param_conflicts(descs).val)
<1> DEFINE f == CHOOSE g : Entries(g, n, descs)
           with(k) == [descs[k] EXCEPT !.conflicts = f[n][k]]
           params == {with(k) : k \in DOMAIN descs}
<1>1. Entries(f, n, descs)
    BY EntriesExist
<1>2. check_param_conflicts(descs) =
          IF \E i \in DOMAIN descs : wrong_conflict(descs, f[i - 1], i) THEN NoCode ELSE Ok(params)
    BY DEF check_param_conflicts, Entries
<1> HIDE DEF f
<1>3. /\ \A i \in 1 .. n : ~wrong_conflict(descs, f[i - 1], i)
      /\ check_param_conflicts(descs).val = params
    BY <1>2 DEF NoCode, Fail, Throw, Ok
<1>4. ASSUME NEW k \in 1 .. n
      PROVE  /\ with(k).name = descs[k].name /\ with(k).conflicts = f[n][k] /\ SoundDesc(with(k))
  <2>1. IsDesc(descs[k]) /\ SoundDesc(descs[k])
    OBVIOUS
  <2> QED BY <2>1 DEF IsDesc, SoundDesc
<1> HIDE DEF with
<1>5. \A d \in params : SoundDesc(d)
    BY <1>4
<1>6. Distinct(params)
  <2> SUFFICES ASSUME NEW d \in params, NEW e \in params, d.name = e.name PROVE d = e
    BY DEF Distinct
  <2>1. PICK k \in 1 .. n : d = with(k)
    OBVIOUS
  <2>2. PICK m \in 1 .. n : e = with(m)
    OBVIOUS
  <2>3. descs[k].name = descs[m].name
    BY <1>4, <2>1, <2>2
  <2>4. k = m
    BY <2>3
  <2> QED BY <2>1, <2>2, <2>4
<1>7. ASSUME \A d \in params : d.name = Lower(d.name) PROVE Mutual(params)
  <2>1. \A k \in 1 .. n : descs[k].name = Lower(descs[k].name)
    <3> SUFFICES ASSUME NEW k \in 1 .. n PROVE descs[k].name = Lower(descs[k].name)
      OBVIOUS
    <3>1. with(k) \in params
      OBVIOUS
    <3>2. with(k).name = Lower(with(k).name)
      BY <1>7, <3>1
    <3> QED BY <1>4, <3>2
  <2>2. \A k \in 1 .. n : Answered(descs, f[n], k)
    BY <1>1, <1>3, <2>1, EntriesAnswered
  <2> SUFFICES ASSUME NEW d \in params, NEW x \in d.conflicts
               PROVE  /\ Lower(x) # d.name
                      /\ \E e \in params : e.name = Lower(x) /\ d.name \in Lowered(e.conflicts)
    BY DEF Mutual
  <2>3. PICK k \in 1 .. n : d = with(k)
    OBVIOUS
  <2>4. d.name = descs[k].name /\ d.conflicts = f[n][k]
    BY <1>4, <2>3
  <2>5. PICK m \in 1 .. n : descs[m].name = Lower(x) /\ descs[k].name \in Lowered(f[n][m]) /\ Lower(x) # descs[k].name
    BY <2>2, <2>4 DEF Answered
  <2>6. with(m) \in params /\ with(m).name = descs[m].name /\ with(m).conflicts = f[n][m]
    BY <1>4
  <2> HIDE DEF params
  <2> QED BY <2>4, <2>5, <2>6
<1> HIDE DEF params
<1> QED BY <1>3, <1>5, <1>6, <1>7 DEF Consistent

LEMMA ConfigConsistent ==
    ASSUME NEW c, c.parameters \in Seq(ParamItems), NEW sensitive, parse_config(c, sensitive).ok
    PROVE  Consistent(parse_config(c, sensitive).val.params)
<1> DEFINE r == parse_config(c, sensitive)
           items == c.parameters
           n == Len(items)
           Names(i) == {Lower(items[j].name) : j \in 1 .. i - 1}
           desc(i) == parse_param_desc(items[i], Names(i), sensitive)
           check(i) == <<\E j \in 1 .. i - 1 : items[j].name = desc(i).val.name, "none">>
           rs == [i \in DOMAIN items |-> IF desc(i).ok THEN Checked(<<check(i)>>, Ok(desc(i).val)) ELSE desc(i)]
           descs == All(rs)
           params == check_param_conflicts(descs.val)
           a == <<~c.complete, "none">>
           b == <<"" \in c.formats, "none">>
           new == [params |-> params.val, case_sensitive |-> sensitive, expires |-> c.expires, template |-> c.template]
           made == IF descs.ok THEN IF params.ok THEN Ok(new) ELSE params ELSE descs
<1>1. r = Checked(<<a, b>>, made)
    BY DEF parse_config, Then
<1>2. r.ok
    OBVIOUS
<1>3. n \in Nat /\ DOMAIN items = 1 .. n /\ DOMAIN rs = 1 .. n /\ \A i \in 1 .. n : items[i] \in ParamItems
    BY LenProperties, ElementOfSeq
<1>4. ASSUME NEW i \in 1 .. n, rs[i].ok
      PROVE  /\ IsDesc(rs[i].val) /\ SoundDesc(rs[i].val) /\ rs[i].val.name = items[i].name
             /\ \A j \in 1 .. i - 1 : items[j].name # items[i].name
  <2>1. rs[i] = IF desc(i).ok THEN Checked(<<check(i)>>, Ok(desc(i).val)) ELSE desc(i)
    BY <1>3
  <2>2. desc(i).ok => IsDesc(desc(i).val) /\ SoundDesc(desc(i).val) /\ desc(i).val.name = items[i].name
    <3> SUFFICES ASSUME desc(i).ok PROVE IsDesc(desc(i).val) /\ SoundDesc(desc(i).val) /\ desc(i).val.name = items[i].name
      OBVIOUS
    <3>1. items[i] \in ParamItems
      BY <1>3
    <3> QED BY <3>1, ParsedDesc
  <2>3. check(i)[1] <=> \E j \in 1 .. i - 1 : items[j].name = desc(i).val.name
    BY Zenon
  <2> HIDE DEF desc, check, rs
  <2>4. desc(i).ok /\ Checked(<<check(i)>>, Ok(desc(i).val)).ok /\ rs[i] = Checked(<<check(i)>>, Ok(desc(i).val))
    BY <1>4, <2>1
  <2>5. rs[i] = Ok(desc(i).val) /\ ~check(i)[1]
    BY <2>4, OneCheck
  <2>6. rs[i].val = desc(i).val
    BY <2>5 DEF Ok
  <2> QED BY <2>2, <2>3, <2>4, <2>5, <2>6
<1> HIDE DEF r, a, b, rs, params, descs, n
<1>5. r = made /\ made.ok
    BY <1>1, <1>2, TwoChecks
<1>6. descs.ok /\ params.ok /\ r = Ok(new)
    BY <1>5
<1>7. r.val.params = params.val
    BY <1>6 DEF Ok
<1>8. descs = Ok([i \in 1 .. n |-> rs[i].val]) /\ \A i \in 1 .. n : rs[i].ok
    BY <1>3, <1>6, AllOk DEF descs
<1> DEFINE ds == [i \in 1 .. n |-> rs[i].val]
<1>9. descs.val = ds
    BY <1>8 DEF Ok
<1>10. DOMAIN ds = 1 .. n /\ Len(ds) = n
    BY <1>3
<1>11. \A i \in 1 .. n : /\ IsDesc(ds[i]) /\ SoundDesc(ds[i]) /\ ds[i].name = items[i].name
                         /\ \A j \in 1 .. i - 1 : items[j].name # items[i].name
    BY <1>4, <1>8
<1>12. \A k, m \in 1 .. n : ds[k].name = ds[m].name => k = m
  <2> SUFFICES ASSUME NEW k \in 1 .. n, NEW m \in 1 .. n, ds[k].name = ds[m].name PROVE k = m
    OBVIOUS
  <2> HIDE DEF ds
  <2>1. items[k].name = items[m].name
    BY <1>11
  <2>2. ~(k < m)
  <3> SUFFICES ASSUME k < m PROVE FALSE
      OBVIOUS
    <3>1. k \in 1 .. m - 1
      BY <1>3
    <3> QED BY <1>11, <2>1, <3>1
  <2>3. ~(m < k)
    <3> SUFFICES ASSUME m < k PROVE FALSE
      OBVIOUS
    <3>1. m \in 1 .. k - 1
      BY <1>3
    <3> QED BY <1>11, <2>1, <3>1
  <2> QED BY <1>3, <2>2, <2>3
<1> HIDE DEF ds
<1>13. check_param_conflicts(ds).ok
    BY <1>6, <1>9 DEF params
<1>14. Consistent(check_param_conflicts(ds).val)
    BY <1>3, <1>10, <1>11, <1>12, <1>13, ConflictsConsistent
<1> QED BY <1>7, <1>9, <1>14 DEF params, r

\* The configuration in use was accepted, and a request that was looked at
\* was accepted exactly when the loop came to its end.
JInv ==
    /\ Consistent(config.params)
    /\ phase \in {"extracted", "rejected"} =>
           /\ request.form \in {"kvp", "xml"} /\ request.params \in Requests
           /\ phase = "extracted" <=> extract_parameters(request.form, config, request.params).ok

LEMMA InitJInv == Init => JInv
<1> SUFFICES ASSUME Init PROVE JInv
    OBVIOUS
<1>1. config.params = {} /\ phase = "new"
    BY DEF Init, NoConfig
<1> QED BY <1>1 DEF JInv, Consistent, Distinct, Mutual

LEMMA NextJInv == JInv /\ [Next]_vars => JInv'
<1> SUFFICES ASSUME JInv, [Next]_vars PROVE JInv'
    OBVIOUS
<1>1. CASE Configure
  <2>1. PICK c \in Configs : LET r == construct(c)
                             IN  /\ phase' = IF r.ok THEN "ready" ELSE "refused"
                                 /\ config' = IF r.ok THEN r.val.config ELSE config
    BY <1>1 DEF Configure
  <2> DEFINE r == construct(c)
             read == parse_config(c, c.case_sensitive)
  <2>2. r.ok => read.ok /\ r.val.config = read.val
    <3> DEFINE named == ExtraHandlerParams(read.val, c.named)
               ts == init_templates(read.val, c.handler_params)
               recs == add_param_rec(ts.val)
               built == [config |-> read.val, extra |-> named.val, recs |-> recs.val]
    <3>1. r = IF read.ok THEN IF named.ok THEN IF ts.ok THEN IF recs.ok THEN Ok(built)
                                                             ELSE recs ELSE ts ELSE named ELSE read
      BY DEF construct, Then
    <3> HIDE DEF r, read, named, ts, recs
    <3> QED BY <3>1 DEF Ok
  <2>3. c.parameters \in Seq(ParamItems)
    BY ConfigsAssumption
  <2>4. read.ok => Consistent(read.val.params)
    BY <2>3, ConfigConsistent
  <2>5. phase' \in {"ready", "refused"} /\ config' = IF r.ok THEN r.val.config ELSE config
    BY <2>1
  <2> HIDE DEF r, read
  <2>6. Consistent(config'.params)
    BY <2>2, <2>4, <2>5 DEF JInv
  <2> QED BY <2>5, <2>6 DEF JInv
<1>2. CASE ExtractKvp
  <2>1. PICK ps \in KvpRequests : Extract("kvp", ps, extract_kvp_parameters(config, ps))
    BY <1>2 DEF ExtractKvp
  <2> DEFINE r == extract_parameters("kvp", config, ps)
  <2>2. r = extract_kvp_parameters(config, ps)
    BY DEF extract_kvp_parameters
  <2>3. ps \in Requests
    BY RequestsAssumption DEF Requests, Given_Texts
  <2>4. /\ request' = [form |-> "kvp", params |-> ps] /\ config' = config
        /\ phase' = IF r.ok THEN "extracted" ELSE "rejected"
    BY <2>1, <2>2 DEF Extract
  <2> HIDE DEF r
  <2>5. request'.form = "kvp" /\ request'.params = ps /\ (phase' = "extracted" <=> r.ok)
    BY <2>4
  <2>6. extract_parameters(request'.form, config', request'.params) = r
    BY <2>4, <2>5 DEF r
  <2> QED BY <2>3, <2>4, <2>5, <2>6 DEF JInv
<1>3. CASE ExtractXml
  <2>1. PICK ps \in XmlRequests : Extract("xml", ps, extract_xml_parameters(config, ps))
    BY <1>3 DEF ExtractXml
  <2> DEFINE r == extract_parameters("xml", config, ps)
             s == extract_xml_parameters(config, ps)
  <2>2. r.ok <=> s.ok
    BY DEF extract_xml_parameters, WithCode, Fail, Throw
  <2>3. ps \in Requests
    BY RequestsAssumption DEF Requests, Given_Texts
  <2>4. /\ request' = [form |-> "xml", params |-> ps] /\ config' = config
        /\ phase' = IF s.ok THEN "extracted" ELSE "rejected"
    BY <2>1 DEF Extract
  <2> HIDE DEF r, s
  <2>5. request'.form = "xml" /\ request'.params = ps /\ (phase' = "extracted" <=> r.ok)
    BY <2>2, <2>4
  <2>6. extract_parameters(request'.form, config', request'.params) = r
    BY <2>4, <2>5 DEF r
  <2> QED BY <2>3, <2>4, <2>5, <2>6 DEF JInv
<1>4. CASE Resolve
  <2>1. config' = config /\ phase' \in {"resolved", "failed"}
    BY <1>4 DEF Resolve
  <2> QED BY <2>1 DEF JInv
<1>5. CASE ReadOptions
  <2>1. config' = config /\ phase' = "done"
    BY <1>5 DEF ReadOptions
  <2> QED BY <2>1 DEF JInv
<1>6. CASE Again
  <2>1. config' = config /\ phase' = "ready"
    BY <1>6 DEF Again
  <2> QED BY <2>1 DEF JInv
<1>7. CASE UNCHANGED vars
    BY <1>7 DEF vars, JInv
<1> QED BY <1>1, <1>2, <1>3, <1>4, <1>5, <1>6, <1>7 DEF Next

LEMMA AlwaysJInv == Spec => []JInv
<1>1. Init => JInv
    BY InitJInv
<1>2. JInv /\ [Next]_vars => JInv'
    BY NextJInv
<1> QED BY <1>1, <1>2, PTL DEF Spec

\* What Acceptable asks of the parameters given is what is asked of the places
\* of their names, when a request spells them as they are described.
LEMMA AcceptableIs ==
    ASSUME JInv, DescribedInLowerCase, NEW form, NEW ps \in Requests, SpelledAsDescribed(ps)
    PROVE  Acceptable(form, ps) <=> AsDescribed(form, config.params, ps)
<1>1. Len(ps) \in Nat /\ DOMAIN ps = 1 .. Len(ps)
    BY LenProperties DEF Requests
<1>2. \A d \in config.params : Given(ps, d) = At(ps, Len(ps), d.name)
    BY <1>1 DEF Given, At, SpelledAsDescribed
<1>3. \A d \in config.params : Lower(d.name) = d.name
    BY DEF DescribedInLowerCase
<1>4. Acceptable(form, ps) <=>
          \A d \in config.params :
              /\ Cardinality(At(ps, Len(ps), d.name)) >= d.min_occurs
              /\ At(ps, Len(ps), d.name) # {} => Cardinality(At(ps, Len(ps), d.name)) <= d.max_occurs
              /\ \A i \in At(ps, Len(ps), d.name) : Readable(form, d, ps[i][2])
              /\ \A e \in config.params :
                     At(ps, Len(ps), d.name) # {} /\ At(ps, Len(ps), e.name) # {} => e.name \notin Lowered(d.conflicts)
    BY <1>2, <1>3 DEF Acceptable, Lowered
<1> QED BY <1>4 DEF AsDescribed, AcceptableUpTo

LEMMA SpelledIs ==
    ASSUME NEW ps \in Requests, SpelledAsDescribed(ps)
    PROVE  Spelled(config, ps)
<1>1. DOMAIN ps = 1 .. Len(ps)
    BY LenProperties DEF Requests
<1> SUFFICES ASSUME NEW i \in 1 .. Len(ps)
             PROVE  get_param_desc(config, ps[i][1]) = {d \in config.params : d.name = ps[i][1]}
    BY DEF Spelled
<1>2. \A d \in config.params : i \in Given(ps, d) => ps[i][1] = d.name
    BY DEF SpelledAsDescribed
<1>3. \A d \in config.params : i \in Given(ps, d) <=> IF config.case_sensitive THEN ps[i][1] = d.name
                                                      ELSE Lower(ps[i][1]) = Lower(d.name)
    BY <1>1 DEF Given
<1>4. \A d \in config.params : (IF config.case_sensitive THEN d.name = ps[i][1] ELSE Lower(d.name) = Lower(ps[i][1]))
                                   <=> d.name = ps[i][1]
    BY <1>2, <1>3
<1> QED BY <1>4 DEF get_param_desc

\* For every configuration and every request, the loops of StoredQuery.cpp:420
\* and :504 accept a request that spells the names as they are described, in
\* lower case, exactly when the descriptions do.
THEOREM AlwaysAcceptedAsDescribed == Spec => []AcceptedAsDescribed
<1>1. JInv => AcceptedAsDescribed
  <2> SUFFICES ASSUME JInv, phase \in {"extracted", "rejected"}, DescribedInLowerCase,
                      SpelledAsDescribed(request.params)
               PROVE  phase = "extracted" <=> Acceptable(request.form, request.params)
    BY DEF AcceptedAsDescribed
  <2> DEFINE form == request.form
             ps == request.params
  <2>1. /\ form \in {"kvp", "xml"} /\ ps \in Requests
        /\ phase = "extracted" <=> extract_parameters(form, config, ps).ok
    BY DEF JInv
  <2>2. /\ \A d \in config.params : SoundDesc(d)
        /\ Distinct(config.params) /\ Mutual(config.params)
    BY DEF JInv, Consistent, DescribedInLowerCase
  <2>3. SpelledAsDescribed(ps)
    OBVIOUS
  <2> HIDE DEF form, ps
  <2>4. Spelled(config, ps)
    BY <2>1, <2>3, SpelledIs
  <2>5. extract_parameters(form, config, ps).ok <=> AsDescribed(form, config.params, ps)
    BY <2>1, <2>2, <2>4, ExtractAccepts
  <2>6. Acceptable(form, ps) <=> AsDescribed(form, config.params, ps)
    BY <2>1, <2>3, AcceptableIs
  <2> QED BY <2>1, <2>5, <2>6 DEF form, ps
<1> QED BY <1>1, AlwaysJInv, PTL
=============================================================================
