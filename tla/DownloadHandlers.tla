-------------------------- MODULE DownloadHandlers --------------------------
(***************************************************************************)
(* The handlers that answer with links: StoredAtomQueryHandlerBase, and    *)
(* its descendants for model data (StoredQEDownloadQueryHandler) and for   *)
(* files (StoredFileQueryHandler).  update_parameters makes one set of     *)
(* parameters per link, a function from names to sequences of values, and  *)
(* the URL template of the configuration turns each set into a URL.        *)
(***************************************************************************)
EXTENDS HandlerBase

-----------------------------------------------------------------------------
(* UrlTemplateGenerator.  The URL has references of its own; its parameter *)
(* definitions are ${name}, ${?name}, ${*name} and name=text with          *)
(* references.  A URL is the sequence of its parameters.                   *)

\* The named parameter of the configuration gives the value; a name that is
\* not configured is found out only here.
get_param_callback(h, set, name) ==
    IF name \notin DOMAIN h.named THEN NoCode
    ELSE Ok(IF h.named[name] \in DOMAIN set THEN set[h.named[name]] ELSE <<>>)

\* The references in a text; the URL takes no lists.
substitute_param_ref(h, set, name, allow_list) ==
    Then(get_param_callback(h, set, name), LAMBDA vs :
    IF Len(vs) > 1 /\ ~allow_list THEN NoCode ELSE Ok(vs))

eval_string_param(h, set, refs, allow_list) ==
    Then(All([i \in DOMAIN refs |-> substitute_param_ref(h, set, refs[i], allow_list)]), LAMBDA vs :
    Ok(FlattenSeq(vs)))

\* ${*name}: a parameter per value, ${?name}: none without a value.  A list
\* takes no value with a comma in it (h.commas).
append_param_ref(h, ref, vs) ==
    IF ref.kind = "separate" THEN Ok([i \in DOMAIN vs |-> <<ref.name, <<vs[i]>> >>])
    ELSE IF \E i \in DOMAIN vs : <<ref.name, vs[i]>> \in h.commas THEN NoCode
    ELSE Ok(IF ref.kind = "omit" /\ vs = <<>> THEN <<>> ELSE << <<ref.name, vs>> >>)

generate(h, set) ==
    Then(eval_string_param(h, set, h.url, FALSE), LAMBDA base :
    Then(All([i \in DOMAIN h.url_params |->
                 LET p == h.url_params[i]
                 IN  IF p.kind = "text"
                     THEN Then(eval_string_param(h, set, p.refs, TRUE), LAMBDA vs : Ok(<< <<p.name, vs>> >>))
                     ELSE Then(get_param_callback(h, set, p.name), LAMBDA vs : append_param_ref(h, p, vs))]),
         LAMBDA ps : Ok([base |-> base, params |-> FlattenSeq(ps)])))
-----------------------------------------------------------------------------
(* StoredAtomQueryHandlerBase.                                             *)

Atom_registered == [single |-> {}, other |-> {"meteo", "begintime"}]

\* The parameters of the request as they are, one link.
Atom_update_parameters(par) == Ok(<<[id |-> "request", data |-> par, set |-> par]>>)

\* The links of the sets; the host is looked up only after the sets are made.
Atom_query(h, eng, sets) ==
    Then(sets, LAMBDA ss :
    IF ~eng.host THEN NoCode
    ELSE IF h.debug /\ ss = <<>> THEN ProcessingFailed
    ELSE Then(All([i \in DOMAIN ss |-> generate(h, ss[i].set)]), LAMBDA urls :
    format_output(eng, [begin |-> <<>>, end |-> <<>>, box |-> <<>>,
                        groups |-> << [ids |-> <<>>,
                                       rows |-> [i \in DOMAIN ss |->
                                           [row |-> ss[i].id, data |-> ss[i].data, url |-> urls[i]]]] >>])))
-----------------------------------------------------------------------------
(* StoredQEDownloadQueryHandler.  eng.metadata is what getEngineMetadata   *)
(* tells of each run of each model; meets are the boxes its area meets,    *)
(* and a model on points has no area.                                      *)

Download_registered ==
    [single |-> {"fullinterval"},
     other |-> {"producer", "origintime", "begintime", "endtime", "meteo", "leveltype", "levelvalue", "format",
                "projection", "bbox"}]

\* The names are compared as they are configured, though asked for in lower case.
supported_formats(h) == h.formats \cup {<<"grib2", "lower">>}

\* handle_opt_param and getEngineMetadata: the producer and the run asked for.
getEngineMetadata(par, eng) ==
    Picked(eng.metadata, {i \in DOMAIN eng.metadata :
        /\ par["producer"] # <<>> => eng.metadata[i].producer = par["producer"][1]
        /\ par["origintime"] # <<>> => eng.metadata[i].origin = par["origintime"][1]})

producer_selected(h, m) == h.producers = {} \/ m.producer \in h.producers

get_cache_key_qualifier(h, par, eng) ==
    LET list == getEngineMetadata(par, eng)
    IN  {<<list[i].producer, list[i].origin>> : i \in {j \in DOMAIN list : producer_selected(h, list[j])}}

\* Mutant: a model that ends before the interval is taken.
model_time_selected_early(par, m) ==
    Ok(~(par["endtime"] # <<>> /\ m.first > par["endtime"][1]))

\* With fullInterval a model that covers the interval is refused with an error;
\* the only request that passes gives an end and no beginning.
model_time_selected(par, m) ==
    LET start == par["begintime"]
        end == par["endtime"]
    IN  IF par["fullinterval"][1] # 0
        THEN IF start # <<>> /\ end # <<>> /\ (m.first > start[1] \/ m.last < end[1]) THEN Ok(FALSE)
             ELSE IF start = <<>> /\ end # <<>> THEN Ok(TRUE)
             ELSE ProcessingFailed
        ELSE Ok(~((end # <<>> /\ m.first > end[1]) \/ (start # <<>> /\ m.last < start[1])))

\* The run is fetched again: it may be gone by now.
get_model_boundary(eng, m) == IF <<m.producer, m.origin>> \in eng.removed THEN NoCode ELSE Ok(m.meets # {})

\* No area is left when the box does not meet that of the model; a box in a
\* system that is not known is noticed here.
bbox_intersection(eng, box, m) ==
    IF m.meets # {} /\ box[1] \notin eng.boxes THEN NoCode
    ELSE Ok(IF box[1] \in m.meets THEN box ELSE <<>>)

add_area_info(eng, m, box) ==
    Then(get_model_boundary(eng, m), LAMBDA area :
    IF box # <<>> THEN bbox_intersection(eng, box, m) ELSE Ok(IF area THEN <<"model">> ELSE <<>>))

\* The interval of the data within the interval asked for.
add_time_info(par, m) ==
    LET start == Optional(par, "begintime", m.first)
        end == Optional(par, "endtime", m.last)
    IN  <<IF start > m.first THEN start ELSE m.first, IF end < m.last THEN end ELSE m.last>>

\* The parameters and levels of the model that are asked for; an empty list
\* asks for all.
add_params_and_levels(par, m) ==
    [params |-> Picked(m.names, {k \in DOMAIN m.names :
                    par["meteo"] = <<>> \/ \E i \in DOMAIN par["meteo"] : Fold(par["meteo"][i]) = Fold(m.names[k])}),
     levels |-> Picked(m.levels, {k \in DOMAIN m.levels :
                    /\ par["leveltype"] = <<>> \/ \E i \in DOMAIN par["leveltype"] : par["leveltype"][i] = m.leveltype
                    /\ par["levelvalue"] = <<>> \/ \E i \in DOMAIN par["levelvalue"] : par["levelvalue"][i] = m.levels[k]})]

\* The projection may be left out, and then it is missed here.
add_format_and_crs(h, par, eng) ==
    LET format == Fold(Optional(par, "format", <<"grib2", "lower">>))
    IN  IF format \notin supported_formats(h) THEN InvalidValue
        ELSE Then(Single(par, "projection"), LAMBDA crs :
             IF crs \notin eng.epsg THEN ParsingFailed ELSE Ok([format |-> format, crs |-> crs]))

\* add_model_info and the rest of the set of one run.
add_model_info(par, m, area, choice) ==
    LET what == add_params_and_levels(par, m)
    IN  [id |-> <<m.producer, m.origin>>,
         data |-> [producer |-> m.producer, origin |-> m.origin, area |-> area, interval |-> add_time_info(par, m)],
         set |-> [producer |-> <<m.producer>>, origintime |-> <<m.origin>>, area |-> area,
                  first |-> <<m.first>>, last |-> <<m.last>>, begin |-> <<add_time_info(par, m)[1]>>,
                  end |-> <<add_time_info(par, m)[2]>>, param |-> what.params, level |-> what.levels,
                  format |-> <<choice.format>>, crs |-> <<choice.crs>>]]

\* The format and the projection are examined only when a run is found.
Download_update_parameters(h, par, eng) ==
    LET Run(m) ==
            IF ~producer_selected(h, m) THEN Ok(<<>>)
            ELSE Then(model_time_selected(par, m), LAMBDA selected :
                 IF ~selected THEN Ok(<<>>)
                 ELSE Then(add_area_info(eng, m, par["bbox"]), LAMBDA area :
                 IF area = <<>> THEN Ok(<<>>)
                 ELSE Then(add_format_and_crs(h, par, eng), LAMBDA choice :
                 Ok(<<add_model_info(par, m, area, choice)>>))))
        list == getEngineMetadata(par, eng)
    IN  Then(All([i \in DOMAIN list |-> Run(list[i])]), LAMBDA ss : Ok(FlattenSeq(ss)))

Download_query(h, par, eng) == Atom_query(h, eng, Download_update_parameters(h, par, eng))
-----------------------------------------------------------------------------
(* StoredFileQueryHandler and DataSetDefinition.  A data set has a name,   *)
(* parameters, levels and an area; the files of its directory are those of *)
(* eng.files.  The parameter "file" is read too, but not registered.       *)

File_registered == [single |-> {}, other |-> {"dataset", "level", "meteo", "bbox", "begintime", "endtime"}]

\* A parameter or a level named twice, no box or no directory: the constructor
\* of the data set throws.
DataSetDefinition(d, eng) == IsInjective(d.params) /\ IsInjective(d.levels) /\ d.meets # {} /\ d.name \in DOMAIN eng.files

\* A data set that cannot be constructed is logged and left out.
data_sets(h, eng) == Picked(h.datasets, {i \in DOMAIN h.datasets : DataSetDefinition(h.datasets[i], eng)})

\* What is selected of all, or all when nothing is selected.
select_common_items(selected, all) == IF selected = {} THEN all ELSE selected \cap all

\* The time is taken from the name, in which it may be missing.
extract_origintime(file) == IF file.origin = <<>> THEN NoCode ELSE Ok(file.origin[1])

\* Files of other names, and of names without a time, are passed over.
query_files(files, begin, end) ==
    Picked(files, {i \in DOMAIN files :
        LET time == extract_origintime(files[i])
        IN  files[i].matches /\ time.ok /\ begin <= time.val /\ time.val <= end})

File_update_parameters(h, par, eng) ==
    LET sets == data_sets(h, eng)
        Links(k) ==
            LET d == sets[k]
                levels == select_common_items(Range(par["level"]), Range(d.levels))
                params == select_common_items(Range(par["meteo"]), Range(d.params))
                files == query_files(eng.files[d.name], par["begintime"][1], par["endtime"][1])
            IN  IF \/ par["dataset"] # <<>> /\ par["dataset"][1] # d.name
                   \/ levels = {} \/ params = {}
                   \/ par["bbox"] # <<>> /\ par["bbox"][1] \notin d.meets
                THEN <<>>
                ELSE [i \in DOMAIN files |->
                         [id |-> <<k, files[i].name>>,
                          data |-> [origin |-> extract_origintime(files[i]).val, levels |-> levels, params |-> params],
                          set |-> [producer |-> <<d.name>>, origintime |-> <<extract_origintime(files[i]).val>>,
                                   level |-> Ordered(levels), param |-> SetToSeq(params), file |-> <<files[i].name>>]]]
    IN  Then(Singles(par, {"begintime", "endtime"}), LAMBDA p :
        Ok(FlattenSeq([k \in DOMAIN sets |-> Links(k)])))

File_query(h, par, eng) == Atom_query(h, eng, File_update_parameters(h, par, eng))
=============================================================================
