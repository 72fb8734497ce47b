------------------------- MODULE ParameterTemplates -------------------------
(***************************************************************************)
(* The templates a stored query configuration gives for the parameters of  *)
(* its handler, e.g. beginTime = "${starttime > defaultStart}", and how    *)
(* they are filled in from the parameters of a request.                    *)
(*                                                                         *)
(* An item has a kind: "absent" (${}), "text" or "ref"; a reference has    *)
(* the name, weak (%{}), and as sequences of at most one element the       *)
(* index, the default text and the name of the parameter to redirect to.   *)
(* A named parameter of the configuration is a record of its name, whether *)
(* it is an array, its items and its sizes.                                *)
(***************************************************************************)
EXTENDS QueryParameters

\* A Spine::Value that holds nothing.
EmptyValue == [types |-> {}, n |-> 0]

Item(kind) ==
    [kind |-> kind, text |-> EmptyValue, weak |-> FALSE, name |-> <<"-", "lower">>,
     ind |-> <<>>, default |-> <<>>, redirect |-> <<>>]

\* Items, named parameters (a scalar one is a single setting) and registered
\* parameters, as far as they are numbers and texts.
TemplateItems ==
    [kind : STRING, text : SpineValues, weak : BOOLEAN, name : ParamNames, ind : Seq(Nat),
     default : Seq(SpineValues), redirect : Seq(ParamNames)]
NamedParams ==
    {e \in [name : ParamNames, form : STRING, complete : BOOLEAN, items : Seq(TemplateItems), min : Nat, max : Nat] :
        e.form = "scalar" => Len(e.items) = 1}
ParamRecs ==
    [name : ParamNames, type : STRING, array : BOOLEAN, required : BOOLEAN,
     template : [items : Seq(TemplateItems), min : Nat, max : Nat], min : Nat, max : Nat, step : Nat]

\* ParameterTemplateItem::parse: the text of a setting is parsed already.
parse_item(item, allow_absent) ==
    Checked(<< <<item.kind = "malformed", "none">>,
               <<item.kind = "absent" /\ ~allow_absent, "none">> >>, Ok(item))

\* ParameterTemplateBase::get_param_desc
template_param_desc(config, name) ==
    LET known == get_param_desc(config, name)
    IN  IF known = {} THEN NoCode ELSE Ok(CHOOSE d \in known : TRUE)
-----------------------------------------------------------------------------
(* ParameterTemplateItem: the value of an item.  The result is             *)
(* [found, vs, array]: vs is the vector, or the one value when ~array.     *)

Absent == [found |-> FALSE, vs |-> <<>>, array |-> FALSE]
One(v) == [found |-> TRUE, vs |-> <<v>>, array |-> FALSE]
Many(vs) == [found |-> TRUE, vs |-> vs, array |-> TRUE]

get_ref_values(vs, allow_array) ==
    CASE Len(vs) = 1 -> Ok(One(vs[1]))
      [] Len(vs) # 1 /\ allow_array -> Ok(Many(vs))
      [] OTHER -> ParsingFailed

\* A plain item or reference without the redirection, as handle_redirection
\* evaluates the named parameter (it passes no extra_params on).
get_direct_value(config, map, item, allow_array) ==
    LET vs == get_values(config, map, item.name)
        i == item.ind[1] + 1
    IN  CASE item.kind = "absent" -> Ok(Absent)
          [] item.kind = "text" -> Ok(One(item.text))
          [] item.kind = "ref" /\ vs # <<>> /\ item.ind = <<>> -> get_ref_values(vs, allow_array)
          [] item.kind = "ref" /\ vs # <<>> /\ item.ind # <<>> /\ i <= Len(vs) -> Ok(One(vs[i]))
          [] OTHER ->
                CASE item.default # <<>> -> Ok(One(item.default[1]))
                  [] item.default = <<>> /\ item.redirect # <<>> -> NoCode
                  [] OTHER -> IF vs # <<>> THEN ParsingFailed
                              ELSE Ok(IF allow_array THEN Many(<<>>) ELSE Absent)

\* The sizes of an array template, over the values of all its items.
sized(template, vs) ==
    Checked(<< <<Len(vs) > template.max, "OperationParsingFailed">>,
               <<Len(vs) < template.min, "OperationParsingFailed">> >>, Ok(Many(vs)))

Concatenated(rs) ==
    Then(All(rs), LAMBDA r : Ok(FlattenSeq([i \in DOMAIN r |-> r[i].vs])))

\* ScalarParameterTemplate::get_value (tribool) of what an item gives.
scalar_of(r) ==
    Then(r, LAMBDA v :
        CASE ~v.found \/ ~v.array -> Ok(v)
          [] v.found /\ v.array /\ Len(v.vs) <= 1 -> Ok(IF v.vs = <<>> THEN Absent ELSE One(v.vs[1]))
          [] OTHER -> NoCode)

\* SupportsExtraHandlerParams::get_param and the value of what it finds.
handle_redirection(config, map, extra, name) ==
    LET known == {e \in extra : Lower(e.name) = Lower(name)}
        e == CHOOSE e \in known : TRUE
    IN  CASE known = {} -> NoCode
          [] known # {} /\ e.array ->
                Then(Concatenated([i \in DOMAIN e.items |->
                                      get_direct_value(config, map, e.items[i], TRUE)]),
                     LAMBDA vs : sized(e, vs))
          [] OTHER -> scalar_of(get_direct_value(config, map, e.items[1], FALSE))

get_absent_ref_value(config, map, extra, item, allow_array) ==
    CASE item.default # <<>> -> Ok(One(item.default[1]))
      [] item.default = <<>> /\ item.redirect # <<>> ->
            handle_redirection(config, map, extra, item.redirect[1])
      [] OTHER -> Ok(IF allow_array THEN Many(<<>>) ELSE Absent)

get_indexed_ref_value(config, map, extra, item, vs) ==
    CASE item.ind[1] < Len(vs) -> Ok(One(vs[item.ind[1] + 1]))
      [] item.ind[1] >= Len(vs) /\ item.default # <<>> -> Ok(One(item.default[1]))
      [] item.ind[1] >= Len(vs) /\ item.default = <<>> /\ item.redirect # <<>> ->
            handle_redirection(config, map, extra, item.redirect[1])
      [] OTHER -> ParsingFailed

get_value(config, map, extra, item, allow_array) ==
    LET vs == get_values(config, map, item.name)
    IN  CASE item.kind # "ref" -> get_direct_value(config, map, item, allow_array)
          [] item.kind = "ref" /\ vs = <<>> ->
                get_absent_ref_value(config, map, extra, item, allow_array)
          [] item.kind = "ref" /\ vs # <<>> /\ item.ind # <<>> ->
                get_indexed_ref_value(config, map, extra, item, vs)
          [] OTHER -> get_ref_values(vs, allow_array)

\* The strict form: a value that is not found is an error.
get_value_strict(config, map, extra, item, allow_array) ==
    Then(get_value(config, map, extra, item, allow_array), LAMBDA v :
        IF v.found THEN Ok(v) ELSE IF item.kind = "absent" THEN NoCode ELSE ParsingFailed)
-----------------------------------------------------------------------------
(* ScalarParameterTemplate and ArrayParameterTemplate *)

\* A template without a setting has no items.
ScalarTemplate_init(config, items) ==
    IF items = <<>> THEN Ok(items)
    ELSE Then(parse_item(items[1], TRUE), LAMBDA item :
         IF item.weak \/ item.kind # "ref" THEN Ok(items)
         ELSE Then(template_param_desc(config, item.name), LAMBDA d :
              Checked(<< <<ParamArray(d) /\ item.ind = <<>>, "none">>,
                         <<ParamArray(d) /\ item.ind # <<>> /\ item.ind[1] >= MaxSize(d), "none">> >>,
                      Ok(items))))

\* A template without a setting is an absent item.
ScalarItem(items) == IF items = <<>> THEN Item("absent") ELSE items[1]

\* An empty array, of a named parameter, is an empty value, of no type.
ScalarTemplate_get(config, map, extra, items) ==
    Then(get_value_strict(config, map, extra, ScalarItem(items), FALSE), LAMBDA v :
         CASE Len(v.vs) = 0 -> Ok(<<EmptyValue>>)
           [] Len(v.vs) = 1 -> Ok(v.vs)
           [] OTHER -> NoCode)

ScalarTemplate_get_optional(config, map, extra, items) ==
    Then(scalar_of(get_value(config, map, extra, ScalarItem(items), FALSE)), LAMBDA v : Ok(v.vs))

\* What an item adds to the smallest and the largest size of the array.
add_param_ref_size(item, d) ==
    Checked(<< <<ParamArray(d) /\ item.ind # <<>> /\ item.ind[1] >= d.def.max, "none">> >>,
            Ok(IF item.ind = <<>> /\ ParamArray(d) THEN <<d.def.min, d.def.max>> ELSE <<1, 1>>))

array_sizes(config, template) ==
    LET Sizes(item) ==
            CASE ~item.weak /\ item.kind = "ref" ->
                    Then(template_param_desc(config, item.name), LAMBDA d : add_param_ref_size(item, d))
              [] item.kind = "text" -> Ok(<<1, 1>>)
              [] OTHER -> Ok(<<0, 0>>)
    IN  All([i \in DOMAIN template.items |->
                Then(parse_item(template.items[i], FALSE), LAMBDA item : Sizes(item))])

\* The sizes are not known when a reference is weak.
sizes_fit(template, sizes) ==
    LET Sum(k) == FoldLeft(LAMBDA n, s : n + s[k], 0, sizes)
    IN  \/ \E i \in DOMAIN template.items : template.items[i].weak
        \/ Sum(1) <= template.max /\ Sum(2) >= template.min

ArrayTemplate_init(config, template) ==
    Checked(<< <<template.items = <<>> /\ template.min > 0, "none">> >>,
        Then(array_sizes(config, template), LAMBDA sizes :
             Checked(<< <<~sizes_fit(template, sizes), "none">> >>, Ok(template))))

ArrayTemplate_get(config, map, extra, template) ==
    Then(Concatenated([i \in DOMAIN template.items |->
                          get_value_strict(config, map, extra, template.items[i], TRUE)]),
         LAMBDA vs : Then(sized(template, vs), LAMBDA v : Ok(v.vs)))
-----------------------------------------------------------------------------
(* StoredQueryParamRegistry: a registered parameter has a name, a type, a  *)
(* template and either required, or the sizes of an array and its step.    *)

Supported == {"string", "int", "uint", "double", "time", "point", "bbox", "bool"}

\* register_scalar_param and register_array_param; recs is param_map, which is
\* ordered by name (no failure has a code, so the order of the calls is
\* not told by them).
add_param_rec(recs) ==
    IF \E i \in DOMAIN recs : \/ recs[i].type \notin Supported
                              \/ \E j \in 1 .. i - 1 : recs[j].name = recs[i].name
    THEN NoCode ELSE Ok(recs)

Typed(rec, v) == IF rec.type \in v.types THEN Ok(v) ELSE NoCode

\* A value of maxdistance that is no number may be the text of a distance.
add_scalar_value(rec, v) ==
    IF rec.type = "double" /\ "double" \notin v.types /\ IsDistance(rec.name) /\ "string" \in v.types
    THEN parse_meter(v) ELSE Typed(rec, v)

check_value_count(rec, n) ==
    Checked(<< <<n < rec.min \/ n > rec.max, "none">>,
               <<rec.step > 1 /\ (n - rec.min) % rec.step # 0, "none">> >>, Ok(n))

add_array_value(rec, v) ==
    IF rec.type \in {"point", "bbox", "bool"} THEN NoCode ELSE Typed(rec, v)

add_scalar_values(rec, vs) == All([i \in DOMAIN vs |-> add_scalar_value(rec, vs[i])])
add_array_values(rec, vs) == All([i \in DOMAIN vs |-> add_array_value(rec, vs[i])])

\* None for an optional scalar left out.
scalar_values(config, map, extra, rec) ==
    IF rec.required THEN ScalarTemplate_get(config, map, extra, rec.template.items)
    ELSE ScalarTemplate_get_optional(config, map, extra, rec.template.items)

\* Mutant: the values of an array are not counted.
resolve_parameter_uncounted(config, map, extra, rec) ==
    IF rec.array
    THEN Then(ArrayTemplate_get(config, map, extra, rec.template), LAMBDA vs : add_array_values(rec, vs))
    ELSE Then(scalar_values(config, map, extra, rec), LAMBDA vs : add_scalar_values(rec, vs))

\* One registered parameter: its values.
resolve_parameter(config, map, extra, rec) ==
    IF rec.array
    THEN Then(ArrayTemplate_get(config, map, extra, rec.template), LAMBDA vs :
         Then(check_value_count(rec, Len(vs)), LAMBDA n : add_array_values(rec, vs)))
    ELSE Then(scalar_values(config, map, extra, rec), LAMBDA vs : add_scalar_values(rec, vs))

enter_parameter(config, map, extra, rec) ==
    Then(resolve_parameter(config, map, extra, rec), LAMBDA vs :
         Ok(insert_values(config, <<>>, rec.name, vs)))

\* The handler's parameters, as a RequestParameterMap.
resolve_handler_parameters(config, map, extra, recs) ==
    Then(All([i \in DOMAIN recs |-> enter_parameter(config, map, extra, recs[i])]),
         LAMBDA parts : Ok(FlattenSeq(parts)))
-----------------------------------------------------------------------------
(* SupportsExtraHandlerParams: the named parameters of the configuration   *)

init_named(config, e) ==
    IF e.form = "array" THEN ArrayTemplate_init(config, e)
    ELSE Then(ScalarTemplate_init(config, e.items), LAMBDA t : Ok(e))

\* Each is an array or a scalar, its template is initialised, and its name
\* is taken once.
named_param(config, entries, i) ==
    Checked(<< <<~entries[i].complete, "none">>,
               <<entries[i].form \notin {"array", "scalar"}, "none">>,
               <<\E j \in 1 .. i - 1 : Lower(entries[j].name) = Lower(entries[i].name), "none">> >>,
        Then(init_named(config, entries[i]), LAMBDA t :
             Ok([name |-> t.name, array |-> t.form = "array", items |-> t.items,
                 min |-> t.min, max |-> t.max])))

ExtraHandlerParams(config, entries) ==
    Then(All([i \in DOMAIN entries |-> named_param(config, entries, i)]),
         LAMBDA es : Ok({es[i] : i \in DOMAIN es}))

\* The values shown to the output template: those that are found.
dump_named_params(config, map, extra) ==
    LET Value(e) ==
            IF e.array
            THEN Then(Concatenated([i \in DOMAIN e.items |->
                                       get_value(config, map, extra, e.items[i], TRUE)]),
                      LAMBDA vs : sized(e, vs))
            ELSE scalar_of(get_value(config, map, extra, e.items[1], FALSE))
    IN  IF \E e \in extra : ~Value(e).ok
        THEN Value(CHOOSE e \in extra : ~Value(e).ok)
        ELSE Ok({<<e.name, Value(e).val.vs>> : e \in {e \in extra : Value(e).val.found}})
=============================================================================
