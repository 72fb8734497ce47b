-------------------------- MODULE StationHandlers --------------------------
(***************************************************************************)
(* The handlers of stations and airports: monitoring facilities and        *)
(* networks, aviation messages and winter weather probabilities.           *)
(*                                                                         *)
(* The database of stations is the record eng.db: the rows of each query   *)
(* in the order of station ids (0 for a field without a value), and in     *)
(* breaks the queries whose reading throws, with the number of rows read   *)
(* before.                                                                 *)
(***************************************************************************)
EXTENDS ModelHandlers

db_registry(eng, r) == IF eng.registry THEN r ELSE ProcessingFailed

\* The rows of a query that are read: all, or those before an exception.
rows_read(eng, query) ==
    IF query \in DOMAIN eng.db.breaks THEN SubSeq(eng.db[query], 1, eng.db.breaks[query])
    ELSE eng.db[query]
-----------------------------------------------------------------------------
(* StoredEnvMonitoringFacilityQueryHandler *)

Facility_registered ==
    [single |-> {"begintime", "endtime", "namespace", "authority"},
     other |-> {"classid", "groupid", "stationid", "stationname", "measurand", "showcapability"}]

\* A row whose id is no integer is skipped, the first row of a station counts;
\* an exception ends the reading and is ignored, one of the query is not.
getValidStations(par, eng) ==
    IF eng.fails THEN NoCode
    ELSE LET read == Range(rows_read(eng, "stations"))
         IN  Ok({r.station : r \in {r \in read : par["stationid"] = <<>> \/ r.station \in ToSet(par["stationid"])}} \ {0})

\* Mutant: a row without a station is skipped, but not its item.
by_station_shifted(rows, stations) ==
    LET kept == Picked(rows, {i \in DOMAIN rows : rows[i].station # 0})
    IN  [s \in {kept[i].station : i \in DOMAIN kept} \cap stations |->
            LET own == Ordered({i \in DOMAIN kept : kept[i].station = s})
            IN  [i \in DOMAIN own |-> rows[own[i]].item]]

\* The loops over parallel columns of getStationCapabilities,
\* getStationGroupData and getStationNetworkMembershipData: the items of each
\* station that has one, in their order.  The query names the valid stations.
by_station(rows, stations) ==
    LET kept == Picked(rows, {i \in DOMAIN rows : rows[i].station # 0})
    IN  [s \in {kept[i].station : i \in DOMAIN kept} \cap stations |->
            LET own == Picked(kept, {i \in DOMAIN kept : kept[i].station = s})
            IN  [i \in DOMAIN own |-> own[i].item]]

\* The three tasks.  The futures are waited for, never asked for their value:
\* a task that throws leaves the map with what it had entered.
getStationCapabilities(par, eng, stations) ==
    IF Optional(par, "showcapability", FALSE) THEN by_station(rows_read(eng, "capabilities"), stations)
    ELSE <<>>
getStationGroupData(eng, stations) == by_station(rows_read(eng, "groups"), stations)
getStationNetworkMembershipData(eng, stations) == by_station(rows_read(eng, "networks"), stations)

\* Networks with an active code; the last code of a network stays.
ActiveNetworks == {20, 40, 70}
set_network_memberships(members) ==
    LET At(n) == Picked(members, {i \in DOMAIN members : members[i].network = n})
    IN  [n \in {n \in ActiveNetworks : At(n) # <<>>} |-> Last(At(n)).code]

set_observing_capabilities(capabilities) ==
    [measurands |-> capabilities, media |-> {capabilities[i].layer : i \in DOMAIN capabilities}]

\* A station without a group is left out.
Facility_station(s, capabilities, groups, networks) ==
    [ids |-> [feature_id |-> s],
     rows |-> <<[row |-> s,
                 data |-> [groups |-> groups[s],
                           networks |-> IF s \in DOMAIN networks THEN set_network_memberships(networks[s]) ELSE <<>>,
                           capabilities |-> IF s \in DOMAIN capabilities
                                            THEN set_observing_capabilities(capabilities[s])
                                            ELSE set_observing_capabilities(<<>>)]]>>]

Facility_answer(par, eng, valid) ==
    LET groups == getStationGroupData(eng, valid)
        listed == Ordered(valid \cap DOMAIN groups)
    IN  format_output(eng,
            [begin |-> par["begintime"][1], end |-> par["endtime"][1], box |-> <<>>,
             groups |-> [k \in DOMAIN listed |->
                            Facility_station(listed[k], getStationCapabilities(par, eng, valid), groups,
                                             getStationNetworkMembershipData(eng, valid))]])

Facility_query(par, eng) ==
    Guarded(
    Then(Singles(par, {"namespace", "authority", "begintime", "endtime"}), LAMBDA p :
    db_registry(eng,
    Then(getValidStations(par, eng), LAMBDA valid :
    Facility_answer(par, eng, valid)))))
-----------------------------------------------------------------------------
(* StoredEnvMonitoringNetworkQueryHandler *)

Network_registered ==
    [single |-> {"namespace", "authority"},
     other |-> {"networkid", "classid", "groupid", "stationid", "stationname"}]

\* A network for each run of one group id; the first run is left out when it
\* has no id, all when the columns differ in length.
fill_networks(eng) ==
    LET rows == eng.db.memberships
        runs == Runs(rows, LAMBDA r : r.group)
        kept == IF runs # <<>> /\ rows[1].group = 0 THEN Tail(runs) ELSE runs
    IN  IF ~eng.db.aligned THEN <<>>
        ELSE [k \in DOMAIN kept |->
                 [ids |-> [feature_id |-> rows[kept[k][1]].group],
                  rows |-> <<[row |-> kept[k][1], data |-> rows[kept[k][1]].group]>>]]

Network_query(par, eng) ==
    Guarded(
    Then(Singles(par, {"namespace", "authority"}), LAMBDA p :
    db_registry(eng,
    IF eng.fails THEN NoCode
    ELSE format_output(eng, [begin |-> <<>>, end |-> <<>>, box |-> <<>>, groups |-> fill_networks(eng)]))))
-----------------------------------------------------------------------------
(* StoredAviationObservationQueryHandler.  An airport has a code, a geoid  *)
(* (its place), the box it lies in and a longitude.                        *)

Aviation_registered ==
    [single |-> {"begintime", "endtime", "stationtype"}, other |-> {"icao", "latest", "places", "bbox"}]

\* geo_engine->keywordSearch; an empty type stands for "finavia".
airports_of(eng, type) ==
    Picked(eng.airports, {i \in DOMAIN eng.airports : eng.airports[i].keyword = IF type = "-" THEN "finavia" ELSE type})

add_locations_in_bbox(airports, box) ==
    {airports[i] : i \in {i \in DOMAIN airports : airports[i].box = box}}

\* A code that does not have four characters is passed over.
add_requested_icao_codes(eng, codes) ==
    LET asked == {codes[i] : i \in DOMAIN codes} \ {"LONGER"}
        known == {eng.airports[i] : i \in DOMAIN eng.airports}
    IN  IF asked \ {a.icao : a \in known} # {} THEN InvalidValue
        ELSE Ok({a \in known : a.icao \in asked})

add_airport_locations(airports, places) ==
    {airports[i] : i \in {i \in DOMAIN airports : airports[i].geoid \in ToSet(places)}}

make_message_query(h, par, eng, airports) ==
    WithCode(
    Then(IF h.restrictions THEN check_time_interval(par["begintime"][1], par["endtime"][1], h.max_hours)
         ELSE Ok(0), LAMBDA p :
    IF eng.fails THEN NoCode
    ELSE Ok(Picked(eng.messages, {i \in DOMAIN eng.messages :
                /\ eng.messages[i].icao \in {a.icao : a \in airports}
                /\ Optional(par, "latest", FALSE) => eng.messages[i].last}))),
    "OperationProcessingFailed")

\* The positions of the messages that have a content.
fill_iwxxm_content(messages) == Ordered({i \in DOMAIN messages : messages[i].content})

\* The corners of the airports with a message; both zero without one.
set_stations_bbox(messages, positions, airports) ==
    LET xs == {a.x : a \in {a \in airports : \E i \in DOMAIN positions : messages[positions[i]].icao = a.icao}}
    IN  IF xs = {} THEN <<0, 0>>
        ELSE <<Ordered(xs)[1], Last(Ordered(xs))>>

Aviation_answer(eng, messages, airports) ==
    LET positions == fill_iwxxm_content(messages)
    IN  format_output(eng,
            [begin |-> <<>>, end |-> <<>>,
             box |-> set_stations_bbox(messages, positions, airports),
             groups |-> <<[ids |-> [feature_id |-> "messages"],
                           rows |-> [i \in DOMAIN positions |->
                                        [row |-> messages[positions[i]].num, data |-> messages[positions[i]].icao]]]>>])

\* Without an airport no message is looked for, and the period is not checked.
Aviation_query(h, par, eng) ==
    Then(get_location_options(par, eng), LAMBDA places :
    Then(Singles(par, {"stationtype"}), LAMBDA p1 :
    Then(transformed_box(par, eng), LAMBDA box :
    Then(add_requested_icao_codes(eng, par["icao"]), LAMBDA requested :
    LET typed == airports_of(eng, par["stationtype"][1])
        airports == (IF box = <<>> THEN {} ELSE add_locations_in_bbox(typed, box[1]))
                        \cup requested \cup add_airport_locations(typed, places)
    IN  IF airports = {}
        THEN format_output(eng, [begin |-> <<>>, end |-> <<>>, box |-> <<0, 0>>, groups |-> <<>>])
        ELSE Then(make_message_query(h, par, eng, airports), LAMBDA messages :
             Aviation_answer(eng, messages, airports))))))
-----------------------------------------------------------------------------
(* StoredWWProbabilityQueryHandler *)

Probability_registered ==
    [single |-> {"findnearestvalid", "locale", "missingtext", "producer", "crs", "begintime", "endtime"},
     other |-> {"origintime", "icao", "places", "bbox", "timezone"}]

\* The airports of the places, in their order, that lie in the box and are
\* among those asked for; without a box there is no coordinate system to
\* transform from.  (Every place of eng.places has an airport.)
airport_list(par, eng, places) ==
    LET At(p) == Picked(eng.airports, {i \in DOMAIN eng.airports : eng.airports[i].geoid = p})[1]
        all == [i \in DOMAIN places |-> At(places[i])]
    IN  IF par["bbox"] = <<>> THEN NoCode
        ELSE Then(transformed_box(par, eng), LAMBDA box :
             Ok(Picked(all, {i \in DOMAIN all :
                    all[i].box = box[1] /\ (par["icao"] = <<>> \/ all[i].icao \in ToSet(par["icao"]))})))

\* The light, moderate and heavy series have to be of one length.  A value of
\* the light one that is missing (eng.lost) ends them; before that, one of the
\* others that is missing (eng.light_only) is read as a number and fails.
getProbabilities(eng, times, param) ==
    LET complete == {k \in 0 .. Len(times) : \A i \in 1 .. k : times[i] \notin eng.lost}
        series == SubSeq(times, 1, CHOOSE k \in complete : \A j \in complete : j <= k)
    IN  Checked(<< <<param \in eng.uneven, "OperationProcessingFailed">>,
                   <<ToSet(series) \cap eng.light_only # {}, "none">> >>, Ok(series))

\* A member for each airport and each type of the configuration.
Probability_members(par, eng, types, airports, times) ==
    Then(IF airports = <<>> THEN Ok(<<>>) ELSE All([i \in DOMAIN types |-> getProbabilities(eng, times, types[i])]),
    LAMBDA series :
    Ok([k \in DOMAIN airports |->
           [ids |-> [feature_id |-> airports[k].icao],
            rows |-> [i \in DOMAIN types |->
                         [row |-> <<airports[k].icao, types[i]>>, data |-> series[i]]]]]))

\* Without a place nothing at all is written.  The zone "local" has no meaning.
Probability_query(h, par, eng) ==
    Then(Singles(par, {"crs", "locale", "producer", "missingtext"}), LAMBDA p1 :
    Checked(<< <<par["crs"][1] \notin eng.crs, "OperationProcessingFailed">>,
               <<par["locale"][1] \notin eng.locales, "none">> >>,
    Then(get_location_options(par, eng), LAMBDA places :
    IF places = <<>> THEN Ok([begin |-> <<>>, end |-> <<>>, box |-> <<>>, groups |-> <<>>])
    ELSE
    Then(airport_list(par, eng, places), LAMBDA airports :
    Then(get_model(eng, par["producer"][1], par["origintime"]), LAMBDA run :
    Then(Probability_members(par, eng, h.ww_types, airports, time_list(par, eng.models[par["producer"][1]])),
         LAMBDA members :
    IF Optional(par, "timezone", "UTC") \notin eng.zones \ {"local"} THEN NoCode
    ELSE format_output(eng, [begin |-> par["begintime"][1], end |-> par["endtime"][1], box |-> par["bbox"],
                             groups |-> members])))))))
=============================================================================
