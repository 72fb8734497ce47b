-------------------------- MODULE QueryParameters --------------------------
(***************************************************************************)
(* From the parameters of a request to the parameters of a handler: they   *)
(* are checked against their descriptions and converted (StoredQuery),     *)
(* kept in a RequestParameterMap, and the templates of the handler's own   *)
(* parameters are filled in from it (ParameterTemplateItem, the scalar and *)
(* the array template, StoredQueryParamRegistry).                          *)
(*                                                                         *)
(* A request is a sequence of <<name, texts>>; a RequestParameterMap is a  *)
(* sequence of <<name, value>>.                                            *)
(***************************************************************************)
EXTENDS StoredQueryConfig, SequencesExt
-----------------------------------------------------------------------------
(* RequestParameterMap *)

Key(config, name) == IF config.case_sensitive THEN name ELSE Lower(name)

\* insert_value for each of the values, behind the ones with the same key.
insert_values(config, map, name, values) ==
    map \o [i \in DOMAIN values |-> <<Key(config, name), values[i]>>]

\* The values with a key, in the order of their insertion.
values_of(map, key) ==
    FlattenSeq([i \in DOMAIN map |-> IF map[i][1] = key THEN <<map[i][2]>> ELSE <<>>])

get_values(config, map, name) == values_of(map, Key(config, name))

count(config, map, name) == Len(get_values(config, map, name))

\* get<T>: the values of a parameter, their number between min and max and
\* whole groups of step values.
get(config, map, name, type, min, max, step) ==
    LET vs == get_values(config, map, name)
    IN  Checked(<< <<Len(vs) > max, "none">>,
                   <<\E i \in DOMAIN vs : type \notin vs[i].types, "none">>,
                   <<Len(vs) < min, "none">>,
                   <<step > 1 /\ Len(vs) % step # 0, "none">> >>, Ok(vs))

get_single(config, map, name, type) ==
    Then(get(config, map, name, type, 1, 1, 1), LAMBDA vs : Ok(vs[1]))

\* A sequence of at most one value.
get_optional(config, map, name, type) == get(config, map, name, type, 0, 1, 1)

-----------------------------------------------------------------------------
(* StoredQuery: the parameters of a request *)

check_param_max_occurs(seen, name, desc) ==
    Cardinality({i \in DOMAIN seen : seen[i] = name}) + 1 > desc.max_occurs

\* The occurrences are counted by the name as the request spells it.
check_param_min_occurs(seen, desc) ==
    Cardinality({i \in DOMAIN seen : seen[i] = desc.name}) < desc.min_occurs

check_limits(desc, v) ==
    Checked(<< <<desc.lower # <<>> /\ v.n < desc.lower[1].n, "none">>,
               <<desc.upper # <<>> /\ v.n > desc.upper[1].n, "none">> >>, Ok(v))

check_all_limits(desc, vs) == All([i \in DOMAIN vs |-> check_limits(desc, vs[i])])

\* One value, as a sequence.
Single(r) == Then(r, LAMBDA v : Ok(<<v>>))

\* DistanceParser::parse_meter: a number of metres.
parse_meter(text) ==
    IF "distance" \in text.types THEN Ok([types |-> ReadableAs("double", text.n), n |-> text.n]) ELSE NoCode

IsDistance(name) == Lower(name) = <<"maxdistance", "lower">>

\* The text of an array is split at its commas; a scalar is one text, that of
\* maxdistance a distance whatever its type.
kvp_values(name, desc, texts) ==
    CASE desc.def.array -> readValues(desc.def, texts)
      [] ~desc.def.array /\ IsDistance(name) -> Single(parse_meter(texts[1]))
      [] OTHER -> Single(readValue(desc.def, texts[1]))

insert_kvp_values(name, desc, texts) ==
    Then(kvp_values(name, desc, texts), LAMBDA vs : check_all_limits(desc, vs))

XmlTypes ==
    {"string", "language", "byte", "short", "int", "long", "integer", "unsignedByte",
     "unsignedShort", "unsignedInt", "unsignedLong", "unsignedInteger", "negativeInteger",
     "nonNegativeInteger", "nonPositiveInteger", "positiveInteger", "boolean", "float",
     "double", "dateTime", "NameList", "doubleList", "integerList", "pos", "Envelope"}

\* extract_integer and extract_unsigned_integer with the range of an XML type
\* (ranges wider than the numbers of a model are not refused).
IntegerRange(xml_type, n) ==
    CASE xml_type \in {"byte"} -> n \in -128 .. 127
      [] xml_type \in {"unsignedByte"} -> n \in 0 .. 255
      [] xml_type \in {"negativeInteger"} -> n < 0
      [] xml_type \in {"nonPositiveInteger"} -> n <= 0
      [] xml_type \in {"positiveInteger"} -> n > 0
      [] xml_type \in {"short", "int", "long", "integer"} -> TRUE
      [] OTHER -> n >= 0

extract_integer(xml_type, text) ==
    IF "int" \in text.types /\ IntegerRange(xml_type, text.n)
    THEN Ok([types |-> ReadableAs("int", text.n), n |-> text.n]) ELSE NoCode

ReadAs(type, text) ==
    IF type \in text.types THEN Ok([types |-> ReadableAs(type, text.n), n |-> text.n]) ELSE NoCode

ReadEach(type, texts) == All([i \in DOMAIN texts |-> ReadAs(type, texts[i])])

\* One text for a plain type, all words for a list, a gml:pos gives its two
\* coordinates and a gml:Envelope one box.
extract_param(xml_type, texts) ==
    CASE xml_type \notin XmlTypes -> NoCode
      [] xml_type \in {"string", "language"} -> Ok(<<texts[1]>>)
      [] xml_type = "NameList" -> Ok(texts)
      [] xml_type = "doubleList" -> ReadEach("double", texts)
      [] xml_type = "integerList" -> ReadEach("int", texts)
      [] xml_type = "boolean" -> Single(ReadAs("bool", texts[1]))
      [] xml_type \in {"float", "double"} -> Single(ReadAs("double", texts[1]))
      [] xml_type = "dateTime" -> Single(ReadAs("time", texts[1]))
      [] xml_type = "pos" -> IF Len(texts) = 2 THEN ReadEach("double", texts) ELSE NoCode
      [] xml_type = "Envelope" -> Single(ReadAs("bbox", texts[1]))
      [] OTHER -> Single(extract_integer(xml_type, texts[1]))

\* The state of the loop over the parameters of a request.
Start == Ok([map |-> <<>>, seen |-> <<>>, forbidden |-> {}, skipped |-> 0])

\* Mutant: what a parameter excludes is forgotten at the next one.
kvp_parameter_forgetful(config, st, p) ==
    LET known == get_param_desc(config, p[1])
        desc == CHOOSE d \in known : TRUE
    IN  IF known = {} THEN Ok([st EXCEPT !.skipped = @ + 1])
        ELSE Checked(<< <<p[1] \in st.forbidden, "OperationParsingFailed">>,
                        <<check_param_max_occurs(st.seen, p[1], desc), "OperationParsingFailed">> >>,
             Then(insert_kvp_values(p[1], desc, p[2]), LAMBDA vs :
                  Ok([map |-> insert_values(config, st.map, p[1], vs),
                      seen |-> Append(st.seen, p[1]),
                      forbidden |-> {Lower(c) : c \in desc.conflicts},
                      skipped |-> st.skipped])))

\* A name that is forbidden is tested before it is known to be described.
kvp_parameter(config, st, p) ==
    LET known == get_param_desc(config, p[1])
        desc == CHOOSE d \in known : TRUE
    IN  CASE p[1] \in st.forbidden -> ParsingFailed
          [] p[1] \notin st.forbidden /\ known = {} -> Ok([st EXCEPT !.skipped = @ + 1])
          [] OTHER ->
                Checked(<< <<check_param_max_occurs(st.seen, p[1], desc), "OperationParsingFailed">> >>,
                Then(insert_kvp_values(p[1], desc, p[2]), LAMBDA vs :
                    Ok([map |-> insert_values(config, st.map, p[1], vs),
                        seen |-> Append(st.seen, p[1]),
                        forbidden |-> st.forbidden \cup {Lower(c) : c \in desc.conflicts},
                        skipped |-> st.skipped])))

\* The checks at the end, over all descriptions.
Finish(config, r) ==
    Then(r, LAMBDA st :
        Checked(<< <<\E d \in config.params : check_param_min_occurs(st.seen, d),
                     "OperationParsingFailed">> >>, Ok(st)))

xml_parameter(config, st, p) ==
    LET known == get_param_desc(config, p[1])
        desc == CHOOSE d \in known : TRUE
    IN  IF known = {} THEN Ok([st EXCEPT !.skipped = @ + 1])
        ELSE Checked(<< <<p[1] \in st.forbidden, "none">>,
                        <<check_param_max_occurs(st.seen, p[1], desc), "OperationParsingFailed">> >>,
             Then(extract_param(desc.xml_type, p[2]), LAMBDA vs :
             Then(check_all_limits(desc, vs), LAMBDA ws :
                  Ok([map |-> insert_values(config, st.map, p[1], ws),
                      seen |-> Append(st.seen, p[1]),
                      forbidden |-> st.forbidden \cup {Lower(c) : c \in desc.conflicts},
                      skipped |-> st.skipped]))))

\* The loop over the parameters of a request.
Parameter(form, config, st, p) ==
    IF form = "kvp" THEN kvp_parameter(config, st, p) ELSE xml_parameter(config, st, p)

extract_parameters(form, config, request) ==
    LET after[i \in 0 .. Len(request)] ==
            IF i = 0 THEN Start ELSE Then(after[i - 1], LAMBDA st : Parameter(form, config, st, request[i]))
    IN  Finish(config, after[Len(request)])

\* request.getParameterMap() is ordered by name: the caller gives it in that order.
extract_kvp_parameters(config, request) == extract_parameters("kvp", config, request)

\* Every failure leaves with a code.
extract_xml_parameters(config, request) ==
    WithCode(extract_parameters("xml", config, request), "OperationParsingFailed")

\* StoredQuery::get_param: the name is looked up as it is given.
get_param(map, name) ==
    LET vs == SelectSeq(map, LAMBDA p : p[1] = name)
    IN  IF Len(vs) = 1 THEN Ok(vs[1][2]) ELSE ParsingFailed
=============================================================================
