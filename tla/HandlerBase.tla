---------------------------- MODULE HandlerBase ----------------------------
(***************************************************************************)
(* What the data handlers share.  The parameters of a query are a function *)
(* par from names to the sequences of their values: resolve_handler_       *)
(* parameters has given them the types and numbers they are registered     *)
(* with (see ParameterFlow).  Times are minutes.  What the engines know    *)
(* and return is the record eng.  A handler answers with a record of what  *)
(* it asked the engine for and of the groups it wrote.                     *)
(*                                                                         *)
(* The name of a meteorological parameter is a pair of a word and a form:  *)
(* "lower" or "Upper" for its spelling, "qc" and "source" for the names    *)
(* qc_<word> and <word>_data_source.                                       *)
(***************************************************************************)
EXTENDS Integers, FiniteSets, SequencesExt, Outcome

ParsingFailed == Fail("OperationParsingFailed")
ProcessingFailed == Fail("OperationProcessingFailed")
InvalidValue == Fail("InvalidParameterValue")

\* RequestParameterMap::get_single, get_optional and get.
Single(par, name) == IF Len(par[name]) = 1 THEN Ok(par[name][1]) ELSE NoCode
Optional(par, name, default) == IF par[name] = <<>> THEN default ELSE par[name][1]
Singles(par, names) == IF \A n \in names : Len(par[n]) = 1 THEN Ok(par) ELSE NoCode

\* check_time_interval (WfsConvenience.cpp)
check_time_interval(begin, end, max_hours) ==
    Checked(<< <<begin > end, "OperationParsingFailed">>,
               <<begin + 60 * max_hours < end, "OperationProcessingFailed">> >>, Ok(end))

\* SupportsLocationParameters::get_location_options: each name of a place,
\* position or station has to be known (HandlerParams has the details).
get_location_options(par, eng) ==
    IF \E i \in DOMAIN par["places"] : par["places"][i] \notin eng.places THEN ParsingFailed
    ELSE Ok(par["places"])

\* SupportsBoundingBox::get_bounding_box and transform_bounding_box.
transformed_box(par, eng) ==
    IF par["bbox"] = <<>> THEN Ok(<<>>)
    ELSE IF par["bbox"][1] \notin eng.boxes THEN NoCode
    ELSE Ok(par["bbox"])

\* crs_registry.create_transformation throws for a system it does not know.
create_transformation(crs, eng) == IF crs \in eng.crs THEN Ok(crs) ELSE NoCode

\* SupportsTimeZone::get_tz_for_site
tz_known(par, eng) == Optional(par, "timezone", "UTC") \in eng.zones

\* StoredQueryHandlerBase::format_output: a template that fails.
format_output(eng, answer) == IF eng.template THEN Ok(answer) ELSE ProcessingFailed

\* The catch (...) around every query function.
Guarded(r) == WithCode(r, "OperationProcessingFailed")

Fold(name) == <<name[1], IF name[2] = "Upper" THEN "lower" ELSE name[2]>>
Duplicate(names, i) == \E j \in 1 .. i - 1 : Fold(names[j]) = Fold(names[i])
isQCParameter(name) == name[2] = "qc"

\* The elements of a set of numbers in increasing order (the order of a
\* std::map or std::set).
Ordered(S) == [n \in 1 .. Cardinality(S) |-> CHOOSE x \in S : Cardinality({y \in S : y < x}) = n - 1]

\* The elements of a sequence at some positions, in their order: a loop that
\* passes over the others.
Picked(s, positions) == LET at == Ordered(positions) IN [n \in DOMAIN at |-> s[at[n]]]

\* A std::vector.
IsVector(s) == s \in Seq(Range(s))

\* The positions of a sequence of rows, cut where the key changes.
Runs(rows, Key(_)) ==
    LET starts == Ordered({i \in DOMAIN rows : i = 1 \/ Key(rows[i]) # Key(rows[i - 1])})
        End(k) == IF k = Len(starts) THEN Len(rows) ELSE starts[k + 1] - 1
    IN  [k \in DOMAIN starts |-> [j \in 1 .. End(k) - starts[k] + 1 |-> starts[k] + j - 1]]

\* The distinct values a field has in a sequence of rows.
Values(rows, F(_)) == {F(rows[i]) : i \in DOMAIN rows}
=============================================================================
