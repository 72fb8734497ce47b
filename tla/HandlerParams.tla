---------------------------- MODULE HandlerParams ----------------------------
(***************************************************************************)
(* The parameters handlers share: times, locations, the bounding box, the  *)
(* quality information and the time zone.  par is the RequestParameterMap  *)
(* of the handler; times are numbers of minutes; the geographic engine is  *)
(* a record geo of the ids, names and keywords it knows.                   *)
(***************************************************************************)
EXTENDS ParameterTemplates

CONSTANT UIntBits   \* width of unsigned, narrower than the 64 bits of a value

\* The second part is a fact of arithmetic the provers do not know; a step, at
\* most a day, fits.
ASSUME UIntBitsAssumption == UIntBits \in Nat /\ 2 ^ UIntBits \in Nat /\ 2 ^ UIntBits > 1440

\* The name of a parameter, registered and looked up in one spelling.
P(name) == <<name, "lower">>
HandlerConfig == [case_sensitive |-> FALSE]
Get(par, name, type) == get(HandlerConfig, par, P(name), type, 0, 65535, 1)
GetOptional(par, name, type) == get_optional(HandlerConfig, par, P(name), type)
Has(par, name) == count(HandlerConfig, par, P(name)) > 0
-----------------------------------------------------------------------------
(* SupportsTimeParameters *)

\* Values are copied to a vector of unsigned.
ToUnsigned(n) == n % 2 ^ UIntBits

add_fixed_hours(options, hours) ==
    IF \E i \in DOMAIN hours : ToUnsigned(hours[i].n) > 23
    THEN ParsingFailed
    ELSE Ok([options EXCEPT !.mode = "FixedTimes",
                            !.timeList = @ \cup {100 * ToUnsigned(hours[i].n) : i \in DOMAIN hours}])

add_fixed_times(options, times) ==
    LET t(i) == ToUnsigned(times[i].n)
    IN  IF \E i \in DOMAIN times : t(i) \div 100 > 23 \/ t(i) % 100 > 59
        THEN ParsingFailed
        ELSE Ok([options EXCEPT !.mode = "FixedTimes",
                                !.timeList = @ \cup {t(i) : i \in DOMAIN times}])

set_time_step(options, step) ==
    Checked(<< <<options.mode # "TimeSteps", "OperationParsingFailed">>,
               <<step # 0 /\ 1440 % step # 0, "OperationParsingFailed">> >>,
            Ok(IF step = 0 THEN [options EXCEPT !.mode = "DataTimes"]
               ELSE [options EXCEPT !.timeStep = <<step>>]))

\* Mutant: no steps at all are accepted.
set_num_steps_any(options, n) == Ok([options EXCEPT !.timeSteps = <<n>>])

set_num_steps(options, n) ==
    Checked(<< <<n = 0 \/ n > 2 ^ (UIntBits - 1) - 1, "OperationParsingFailed">> >>,
            Ok([options EXCEPT !.timeSteps = <<n>>]))

add_start_step(options, n) ==
    Checked(<< <<n > 10000, "OperationParsingFailed">> >>,
            Ok([options EXCEPT !.startTime = @ + n * options.timeStep[1]]))

\* get_time_generator_options, block by block: each changes the options when
\* the parameter it reads is given.
With(r, vs, Op(_, _)) == Then(r, LAMBDA o : Then(vs, LAMBDA v : IF v = <<>> THEN Ok(o) ELSE Op(o, v)))

fresh(now) ==
    [mode |-> "TimeSteps", timeList |-> {}, timeStep |-> <<>>, timeSteps |-> <<>>,
     startTime |-> now, endTime |-> now]
with_hours(par, now) == With(Ok(fresh(now)), Get(par, "hours", "uint"), add_fixed_hours)
with_times(par, now) == With(with_hours(par, now), Get(par, "times", "uint"), add_fixed_times)
with_step(par, now) ==
    With(with_times(par, now), GetOptional(par, "timestep", "uint"), LAMBDA o, v : set_time_step(o, v[1].n))
with_steps(par, now) ==
    With(with_step(par, now), GetOptional(par, "timesteps", "uint"), LAMBDA o, v : set_num_steps(o, v[1].n))
hourly(par, now) ==
    Then(with_steps(par, now), LAMBDA o : Ok(IF o.timeStep = <<>> THEN [o EXCEPT !.timeStep = <<60>>] ELSE o))
with_begin(par, now) ==
    With(hourly(par, now), Get(par, "begintime", "time"), LAMBDA o, v :
         IF Len(v) > 1 THEN NoCode ELSE Ok([o EXCEPT !.startTime = v[1].n]))
with_start_step(par, now) ==
    With(with_begin(par, now), GetOptional(par, "startstep", "uint"), LAMBDA o, v : add_start_step(o, v[1].n))

\* The default start is now; the end is given, or follows from the steps, whose
\* product is unsigned, or is a day after the start.
set_end(par, o) ==
    CASE Has(par, "endtime") /\ o.timeSteps # <<>> -> ParsingFailed
      [] Has(par, "endtime") /\ o.timeSteps = <<>> ->
            Then(get_single(HandlerConfig, par, P("endtime"), "time"), LAMBDA t :
                 Ok([o EXCEPT !.endTime = t.n]))
      [] OTHER -> Ok([o EXCEPT !.endTime = o.startTime +
                         IF o.timeSteps # <<>> THEN ToUnsigned(o.timeStep[1] * o.timeSteps[1]) ELSE 1440])

get_time_generator_options(par, now) == Then(with_start_step(par, now), LAMBDA o : set_end(par, o))

-----------------------------------------------------------------------------
(* SupportsLocationParameters *)

\* get_fmisids, get_wmos and get_lpnns: ids of stations the engine must know
\* when the option is on; they are read but not entered when it is off.
get_ids(par, geo, name, include) ==
    Then(Get(par, name, "int"), LAMBDA ids :
        IF ~include THEN Ok(<<>>)
        ELSE IF \E i \in DOMAIN ids : ids[i].n \notin geo.stations THEN ParsingFailed
        ELSE Ok([i \in DOMAIN ids |-> <<name, ids[i].n>>]))

\* idSearch of an unknown id throws.
get_geoids(par, geo, include) ==
    IF ~include THEN Ok(<<>>)
    ELSE Then(Get(par, "geoids", "int"), LAMBDA ids :
         IF \E i \in DOMAIN ids : ids[i].n \notin geo.ids THEN NoCode
         ELSE Ok([i \in DOMAIN ids |-> <<"geoids", ids[i].n>>]))

\* Latitudes and longitudes come in pairs; a position always has a location.
get_latlons(par) ==
    Then(get(HandlerConfig, par, P("latlons"), "double", 0, 998, 2), LAMBDA vs :
        Ok([i \in 1 .. Len(vs) \div 2 |-> <<"latlons", 2 * i>>]))

get_places(par, geo) ==
    Then(Get(par, "places", "string"), LAMBDA vs :
        IF \E i \in DOMAIN vs : vs[i].n \notin geo.names THEN ParsingFailed
        ELSE Ok([i \in DOMAIN vs |-> <<"places", vs[i].n>>]))

\* A keyword adds its locations unless it may be overwritten and the request
\* names locations of its own (station ids and a box count as such).
get_keyword(par, geo, options, given) ==
    Then(GetOptional(par, "keyword_overwritable", "bool"), LAMBDA overwritable :
        IF \/ "keywords" \notin options
           \/ /\ overwritable # <<>> /\ overwritable[1].n = 1
              /\ given \/ Has(par, "fmisids") \/ Has(par, "wmos") \/ Has(par, "boundingbox")
        THEN Ok(<<>>)
        ELSE Then(GetOptional(par, "keyword", "string"), LAMBDA kw :
             IF kw = <<>> THEN Ok(<<>>)
             ELSE IF kw[1].n \notin DOMAIN geo.keywords THEN ParsingFailed
             ELSE Ok([i \in DOMAIN geo.keywords[kw[1].n] |->
                         <<"keyword", geo.keywords[kw[1].n][i]>>])))

get_location_options(par, geo, options) ==
    Then(get_single(HandlerConfig, par, P("maxdistance"), "double"), LAMBDA distance :
    Then(All(<<get_latlons(par), get_geoids(par, geo, "geoids" \in options),
               get_ids(par, geo, "fmisids", "fmisids" \in options),
               get_ids(par, geo, "wmos", "wmos" \in options),
               get_ids(par, geo, "lpnns", "lpnns" \in options), get_places(par, geo)>>), LAMBDA parts :
    Then(get_keyword(par, geo, options, FlattenSeq(parts) # <<>>), LAMBDA places :
        Ok(FlattenSeq(parts) \o places))))
-----------------------------------------------------------------------------
(* SupportsBoundingBox, SupportsQualityParameters and SupportsTimeZone     *)

\* The box, with the default system when it names none; empty when not given.
get_bounding_box(par, default_crs) ==
    IF ~Has(par, "boundingbox") THEN Ok(<<>>)
    ELSE Then(get_single(HandlerConfig, par, P("boundingbox"), "bbox"), LAMBDA b :
         Ok(<< [box |-> b.n, crs |-> default_crs] >>))

supportQualityInfo(par) ==
    Then(GetOptional(par, "qualityinfo", "bool"), LAMBDA q : Ok(q # <<>> /\ q[1].n = 1))

\* The name given, empty for UTC.
get_tz_name(par) == IF Has(par, "timezone") THEN Get(par, "timezone", "string") ELSE Ok(<<>>)

=============================================================================
