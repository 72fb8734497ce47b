------------------------- MODULE StoredQueryConfig -------------------------
(***************************************************************************)
(* The configuration of a stored query: the descriptions of its parameters *)
(* and the checks that accept or refuse them.                              *)
(*                                                                         *)
(* A name is a pair of its lower case form and a spelling, "lower" for the *)
(* lower case form itself.  A text (of a setting or a request) is a record *)
(* of the types it can be read as and the number it stands for; a typed    *)
(* value is a text with the types that type can be read as.                *)
(***************************************************************************)
EXTENDS Integers, Sequences, FiniteSets, Outcome

Lower(name) == <<name[1], "lower">>

\* What texts and values are; unsigned numbers are not negative.  A text that is
\* a distance ("50km") stands for a number of metres.
ParamNames == STRING \X {"lower", "Upper"}
ParamTypes == {"string", "int", "uint", "double", "time", "point", "bbox", "bool"}
ValueTypes == ParamTypes \cup {"distance"}
SpineValues == {v \in [types : SUBSET ValueTypes, n : Int] : "uint" \in v.types => v.n >= 0}

\* Spine::Value: what a value of a type can be read as.
ReadableAs(t, n) ==
    CASE t = "int"  -> {"int", "double", "string"} \cup (IF n >= 0 THEN {"uint"} ELSE {})
      [] t = "uint" -> {"uint", "int", "double", "string"}
      [] OTHER      -> {t, "string"}

ParsingFailed == Fail("OperationParsingFailed")
-----------------------------------------------------------------------------
(* StoredQueryParamDef *)

\* type[min..max]: dims is empty for a scalar.
parse_def(def) ==
    Checked(<< <<def.type = "unknown", "none">>,
               <<def.dims # <<>> /\ def.dims[1] > def.dims[Len(def.dims)], "none">> >>,
            Ok([type |-> def.type, array |-> def.dims # <<>>,
                min |-> IF def.dims = <<>> THEN 1 ELSE def.dims[1],
                max |-> IF def.dims = <<>> THEN 1 ELSE def.dims[Len(def.dims)]]))

readValue(def, text) ==
    IF def.type \in text.types
    THEN Ok([types |-> IF def.type = "string" THEN text.types ELSE ReadableAs(def.type, text.n),
             n |-> text.n])
    ELSE ParsingFailed

\* The limits of the configuration; points and boxes are not converted.
convValue(def, value) ==
    IF def.type \in {"point", "bbox"} THEN ParsingFailed ELSE readValue(def, value)

readValues(def, texts) ==
    Checked(<< <<Len(texts) < def.min \/ Len(texts) > def.max, "OperationParsingFailed">> >>,
            All([i \in DOMAIN texts |-> readValue(def, texts[i])]))
-----------------------------------------------------------------------------
(* StoredQueryConfig *)

ParamArray(desc) == desc.max_occurs > 1 \/ desc.def.array
MaxSize(desc) == desc.max_occurs * desc.def.max

\* An entry of "parameters", as far as it can be read.
ParamItems ==
    [name : ParamNames, type : [type : ParamTypes \cup {"unknown"}, dims : Seq(Nat)], xml_type : STRING,
     min_occurs : Int, max_occurs : Int, lower : Seq(SpineValues), upper : Seq(SpineValues),
     conflicts : SUBSET ParamNames, complete : BOOLEAN]

\* One entry of "parameters"; case_map holds the names taken so far.  A limit
\* is a sequence of at most one value.
parse_param_desc(item, case_map, case_sensitive) ==
    LET Limit(def, l) == IF l = <<>> THEN Ok(<<>>)
                         ELSE Then(convValue(def, l[1]), LAMBDA v : Ok(<<v>>))
        Desc(def) ==
            Then(Limit(def, item.lower), LAMBDA lower :
            Then(Limit(def, item.upper), LAMBDA upper :
                Checked(<< <<lower \o upper # <<>> /\ def.type \in {"string", "bool"}, "none">> >>,
                    Ok([name |-> item.name, def |-> def, xml_type |-> item.xml_type,
                        min_occurs |-> item.min_occurs, max_occurs |-> item.max_occurs,
                        lower |-> lower, upper |-> upper, conflicts |-> item.conflicts]))))
    IN  Checked(<< <<~case_sensitive /\ Lower(item.name) \in case_map, "none">>,
                   <<~item.complete, "none">> >>,
                Then(parse_def(item.type), Desc))

\* Parameter i, met on the way through param_map, is entered on the other side
\* of each of its conflicts, which are looked up in lower case.
enter_conflicts(descs, conflicts, i) ==
    [k \in DOMAIN descs |-> IF \E c \in conflicts[i] : Lower(c) = descs[k].name
                            THEN conflicts[k] \cup {descs[i].name} ELSE conflicts[k]]

\* The conflicts, those entered so far included, that are wrong for parameter i.
wrong_conflict(descs, conflicts, i) ==
    \E c \in conflicts[i] :
        \/ Lower(c) = descs[i].name
        \/ \A k \in DOMAIN descs : descs[k].name # Lower(c)
        \/ \E k \in DOMAIN descs : descs[k].name = Lower(c) /\ descs[i].min_occurs > 0 /\ descs[k].min_occurs > 0

\* descs is in the order of names, the order of param_map.
check_param_conflicts(descs) ==
    LET after[i \in 0 .. Len(descs)] ==
            IF i = 0 THEN [k \in DOMAIN descs |-> descs[k].conflicts]
            ELSE enter_conflicts(descs, after[i - 1], i)
    IN  IF \E i \in DOMAIN descs : wrong_conflict(descs, after[i - 1], i) THEN NoCode
        ELSE Ok({[descs[k] EXCEPT !.conflicts = after[Len(descs)][k]] : k \in DOMAIN descs})

\* The mandatory settings are id, constructor_name, title, abstract,
\* returnTypeNames and parameters; a repeated name is refused.  The order of the
\* parameters in the file decides at most which error is reported: they are
\* given in the order of names here.
parse_config(c, case_sensitive) ==
    LET Names(i) == {Lower(c.parameters[j].name) : j \in 1 .. i - 1}
        Read(i) ==
            Then(parse_param_desc(c.parameters[i], Names(i), case_sensitive), LAMBDA d :
                Checked(<< <<\E j \in 1 .. i - 1 : c.parameters[j].name = d.name, "none">> >>, Ok(d)))
    IN  Checked(<< <<~c.complete, "none">>, <<"" \in c.formats, "none">> >>,
            Then(All([i \in DOMAIN c.parameters |-> Read(i)]), LAMBDA descs :
            Then(check_param_conflicts(descs), LAMBDA params :
                Ok([params |-> params, case_sensitive |-> case_sensitive,
                    expires |-> c.expires, template |-> c.template]))))

\* The description a name of a request stands for: a set of at most one.
get_param_desc(config, name) ==
    {d \in config.params : IF config.case_sensitive THEN d.name = name
                           ELSE Lower(d.name) = Lower(name)}
=============================================================================
