# A TLA+ model of the SmartMet WFS plugin

The plugin answers OGC Web Feature Service requests inside the SmartMet server.
Its answers are produced by *stored queries*: each is configured by one file,
which names the C++ handler that turns engine data into a response. Two things
are hard. Around the handlers, files change while queries are served, handlers
are built by background threads, the whole plugin is rebuilt at run time, and all
requests share one implementation object with its response cache and its schema
resolver. Inside a request, a text goes through descriptions, templates, filters,
pages and handlers, each of which keeps its own counts and positions and relies
on those of the others.

This directory models both in TLA+, checks them with TLC on small instances and
proves most of their safety properties, and the refinement of the abstract
service, with TLAPS for every size.

## The system

| Component | State | Operations | Interacts with |
|---|---|---|---|
| Plugin life cycle (`wfs/Plugin.cpp`) | `plugin_impl`, `itsReloading`, `itsShuttingDown`, the update loop thread, the registered URLs | `init`, `reload`, `updateLoop`, `ensureUpdateLoopStarted`, `stopUpdateLoop`, `shutdown` | builds a `PluginImpl`; asks its registry whether a reload is required; registers URLs with the reactor |
| Stored query registry (`libwfs/StoredQueryMap.cpp`, `FileContentChecker.cpp`) | `handler_map`, `duplicate`, `file_hash_map`, `config_dirs`, load flags, `init_tasks` | `on_config_change` and the handlers for added, modified, deleted and ignored files, `add_handler`, `wait_for_init`, `is_reload_required` | callbacks of the directory monitor thread, task threads, look-ups by every request |
| Requests for features (`libwfs/request/GetFeature.cpp`, `GetPropertyValue.cpp`, `libwfs/StoredQuery.cpp`) | locals of the request, `PluginImpl::query_cache`, `PluginImpl::data_source` | create the queries (with redirects), look up the cache, execute, merge, cut the page | registry, cache, data engines, one server thread per request |
| Requests about the service (`ListStoredQueries`, `DescribeStoredQueries`, `DescribeFeatureType`, `GetCapabilities`, `WfsCapabilities`) | features in use, data sets, namespaces | list, describe; registration while handlers are constructed | registry, which changes meanwhile |
| Dispatch and errors (`PluginImpl`, `RequestFactory`, `RequestBase`, `ErrorResponseGenerator`) | none between requests | parse, execute, headers, validate, error report | all requests |
| Schema resolver (`libwfs/XmlEntityResolver.cpp`) | `cache`, `download_map`, allowed URIs of a parse | `resolveEntity`, `get_schema`, downloads, `merge_downloaded_schemas` | every validating thread, the dump of the cache |
| Ad hoc queries (`libwfs/AdHocQuery.cpp`) | none | type names and a filter become stored queries | descriptions, handlers |
| Parameters (`StoredQueryConfig`, `StoredQueryParamRegistry`, `*ParameterTemplate`, `Supports*`) | the configuration | check the description, read KVP and XML, fill in the handler's parameters | every handler |
| Data handlers (`wfs/stored_queries`, `wfs/StoredContourHandlerBase.cpp`) | none between requests | `query`, `update_parameters`, `redirect`, `get_cache_key_qualifier` | observation, model, grid, contour and geographic engines |

What makes each correct:

* **life cycle**: after any mixture of reloads every URL is served again; a
  required reload is carried out; shutdown ends.
* **registry**: it serves exactly the configurations that may be served, under
  their own ids; changes are neither lost nor applied to the wrong file; the
  first load ends and is complete.
* **requests**: every request ends; the answer to a query is an answer to that
  query, from data that is not out of date; a page is the page asked for; a
  listing is complete however the registry changes.
* **dispatch**: a client gets an answer or an error with a code, and only one.
* **resolver**: what is handed out was downloaded; downloads are shared, retried
  and given up; nobody waits for ever.
* **parameters and filters**: the bookkeeping amounts to the description.
* **handlers**: what is answered was asked for, and is labelled as what it is.

The behaviours that are hard to test are listed in `PROJECT.json` under
`hazards`, each at its line.

## Modules

| Module | Contents |
|---|---|
| `StoredQueryMap` | the registry, its monitor thread, tasks, the waiting main thread and the editors of the files |
| `Plugin` | the life cycle: server thread, admin requests, update loops |
| `GetFeature` | concurrent requests, stored query creation, response cache, data source; implements `RequestService` |
| `RequestService` | the abstract service: a request is taken and answered in one step |
| `XmlEntityResolver` | the schema resolver with its validating, downloading and dumping threads |
| `WfsRequests` | the listings, and what handlers register while they are constructed |
| `Outcome` | results: a value, or an exception with a code; order of checks |
| `RequestFactory` → `PluginImpl` | reading a request; its way through `realRequestHandler` |
| `QueryParameters`, `StoredQueryConfig`, `ParameterTemplates` → `HandlerParams` → `ParameterFlow` | parameters from the configuration and the request to the options of a handler |
| `Paging` → `Responses`; `AdHocQuery` → `AdHocResponses` | from queries and their answers to a page; from type names and filters to the queries |
| `HandlerBase`, `ObsHandlers`, `SoundingHandlers`, `ModelHandlers`, `GridHandlers`, `DownloadHandlers`, `StationHandlers` → `Handlers` | the data handlers, family by family, and their composition |
| `MC...` | small instances for TLC |
| `StoredQueryMapProofs`, `GetFeatureProofs`, `XmlEntityResolverProofs`, `ParameterFlowProofs`, `ResponsesProofs`, `HandlersProofs` | theorems about the module of that name; the refinement of `RequestService` is in `GetFeatureProofs` |
| `PluginProofs` | theorems about `Plugin`, `PluginImpl` and `WfsRequests`; the specifications of the last two are named `ImplSpec` and `RequestsSpec`, so that one module can extend all three |
| `LoopLemmas` | what `Outcome`'s checks and loops and the community module's `FlattenSeq` give, for every input, and finite sets of numbers as ordered lists |

Operators whose name ends in a lower case suffix and whose comment begins with
*Mutant* are faulty variants of the definition that follows them. No
specification uses them; they show that the properties can fail.

### StoredQueryMap and the code

Each step is one critical section or one access to the file system, so that
everything other threads can do between two of them is possible. The monitor
thread is one process with the program counter `pc`:

`on_config_change` begins a callback → `NextFile` takes the reported files in
path order (and leaves the loop once a reload is required) →
`handle_query_remove`, or `check_file_hash`, `Parse`/`ParseFails` and one of
`handle_query_add`, `handle_query_modify`, `handle_query_ignore` → `EnqueueTask`,
`AddNow` or `AddFails` (`enqueue_query_add` and `add_handler`) → `EraseHandler`
→ after the last file `retry_duplicates` → `CallbackEnds`.

`RunTask` is one task of `init_tasks`; `WaitLoaded`, `WaitTimesOut` and
`WaitTasks` are `wait_for_init`. A configuration is its id, a revision (two
contents differ), its marks (disabled, test, demo) and what is wrong with it.
Digests are taken to be injective, so the stored digest is the content. Files
are numbers because the code visits them in path order. The directory monitor is
external: it reports a file as created, deleted or modified by comparing name
and modification time with its last scan. `Edit` is anyone with an editor.
Whether a file passes the name filter of `handle_config_file_change` is left out:
all files here are `*.conf`. All watched directories are registered from the
beginning.

### Plugin and the code

The server thread runs `init`, later `shutdown` and the destructor; admins run
`reload`; update loop threads run `updateCheck`, `updateLoop` and `reload`.
Building a `PluginImpl` is one step that succeeds or throws (what happens inside
is `StoredQueryMap`). `itsReloading` and `itsShuttingDown` are atomic flags, so
each test and each assignment is a step. URLs are numbered in the order `init`
registers them; the reactor refuses a URL that is taken. Configuration polling is
taken to be enabled; without it the update loop does nothing.

### GetFeature, RequestService and the code

`realRequestHandler` sets the shared data source; `NextQuery`,
`get_handler_by_name`, `redirect`, `KeySource` and `Qualify` are
`StoredQuery::create_from_kvp` and `create_from_xml`; `get_cached_responses` and
the steps at `"collect"` and `"insert"` are the methods of the same names in
`GetFeature` and `GetPropertyValue`; `Throw` is the catch in
`PluginImpl::realRequestHandler`. An id stands for the stored query id together
with the parameters and the language, all of which are part of the key. Origin
times of model runs are numbers that grow. A response records what produced it,
so that properties can compare it with what was asked. Reading the engines is
one step. The cache is external: inserting a key that is present keeps or
replaces the entry, a full cache evicts any entry.

`data_source` is a string that threads write and read without a lock. A read
here yields some value that was written; a torn string is not modelled.

`RequestService` knows no redirects, cache or order of execution. The refinement
mapping reads `GetFeature`'s program counters as the state of a request
(`StateSeen`) and the responses of an answered request as its answers
(`AnswersSeen`); `ImplementsService` is `RequestService!Spec` under that mapping:
each request gets, in one visible step, to each of its queries an error or the
answer of a query it stands for, and the status is good exactly when one query
was answered or none was asked.

### XmlEntityResolver and the code

A thread that parses opens a scope with the URI it may download (`OpenScope`,
`CloseScope`), and its references go through `resolveEntity` and `get_schema`.
`select_download`, `assign_task`, `copy_task`, `task_get`, `count_failure` and
`store_time` are the parts of `get_schema` between its locks and unlocks, each a
step; the counter and the time of the last failure are changed without the lock,
so each read and each write is a step too. After the unlock the thread goes on with
an iterator whose node a dump may have erased. What it then reads and writes is
undefined: `Points` says whose node the memory may belong to, and `Crash` ends the
process. The constant `Reuse` says whether memory is reused that soon; without it a
freed node keeps its content and nobody reads what is written to it. A download is
a task that later succeeds or fails. `merge_lock`, `merge_entry` and `merge_end` are the dump of the
cache, which holds the mutex while it waits for running downloads. Time is a
bounded counter; the pauses and the number of tries are constants.

### WfsRequests and the code

The monitor adds, replaces and removes handlers while a listing runs. A listing
copies the names, then looks up one handler after the other (`Step`), then
answers (`Finish`). Constructing a handler registers the features it returns
(`register_feature_use`) and its data sets before it is known whether the
construction succeeds.

### PluginImpl, RequestFactory and the code

A request is a record of what the code tests: method, content type, what its body
is, its service, version, names, presentation parameters. `Outcome` gives a
result as a value or an exception with its code, and `Checked` tests conditions
in the order of the code, so that the first one that fails decides the code.
`realRequestHandler` is one action per stage: parsed, answered, headers set,
output validated, error reported. `create_error_response` maps codes to HTTP
states. An engine may also throw `boost::thread_interrupted` when the thread is
told to stop: `Fmi::Exception::Trace` lets it pass (`Traced`), and
`create_error_response` throws it again before the response is touched
(`Interrupted`).

### ParameterFlow and the code

A text is a record of what it can be read as (`types`) and its value; a name is a
pair of its folded form and its spelling, which is all the code distinguishes.
`StoredQueryConfig` has the checks of the configuration, `QueryParameters` the
loops of `StoredQuery.cpp` over the parameters of a request and the insertion
into `RequestParameterMap`, `ParameterTemplates` the resolution of templates
(literals, references with default and index, redirection to other parameters,
arrays), `HandlerParams` the options of time, location, box, quality and zone.
Integers that the code narrows have the width `UIntBits`, and so has the product of
time step and number of steps. The scalar `maxdistance` of a GET request is read as
a distance (`parse_meter`, external); where it reaches the handler's parameter as a
text, `add_scalar_value` reads it so.

### Responses and the code

`AdHocQuery` follows the recursion over a filter with its list of queries and the
positions of alternatives, and the marks of *Or* elements. `Paging` cuts pages
with `int` and `size_t` of `IntBits` and `SizeBits` bits and the conversions
between them. The XPath engine is external: a member has a number of values. A
response has its members, after the filter of an ad hoc query, and the number
matched the handler wrote, which need not be their number then.
`Responses` takes the queries a request becomes as a parameter; `AdHocResponses`
extends it with `AdHocQuery`'s, which the run uses. `Responses` itself has no
recursive operators and can be proved about.

### Handlers and the code

The state is a configured handler, the parameters of a request (already resolved,
see `ParameterFlow`), the data and health of the engines, and the last response.
`Ask` and `Happen` vary them, `Again` starts over; one action per handler class is its `query`
(or `update_parameters`). A response lists its groups, each with the ids in it and
the rows written; a row refers to the row of the engine's answer it was made of,
and a value to its column. Coordinates, times and values are small numbers. Engines
are external: they return the rows, runs, grids and geometries of the record
`eng`, or throw. The three parallel tasks of the facility handler write to separate
maps and are all awaited before any map is read, so their order does not matter;
that each may fail half way does. A place without time steps takes up a row number
in the table of a grid forecast (`rowCount`); the table is external, and what it
has for a row that was never set is not a coordinate, so that the answer fails.

## Runs

| Run | Result | Question |
|---|---|---|
| `Registry_polling` | passes | with polling, are all changes taken, nothing stale or doubled, everything eventually served? |
| `Registry_parallel` | passes | with background initialisation: does `wait_for_init` end, and is its success true? |
| `Plugin_reload` | passes | concurrent and failing reloads: are the URLs restored, are required reloads taken? |
| `Plugin_shutdown` | violation | does shutdown end? |
| `GetFeature_cache` | passes | does every request end, with the right and fresh enough answers, as the abstract service allows? |
| `GetFeature_source` | violation | do responses come from the requested source? |
| `Resolver_downloads` | passes | are schemas genuine, downloads shared and given up, does every look-up end? |
| `Requests_listing` | passes | are listings complete while the registry changes, and do features in use agree with the handlers? |
| `PluginImpl_requests` | passes | is each request answered by an answer or by an error with its code, with the right headers, unless it is interrupted or the report is itself invalid? |
| `Parameters_described` | passes | are requests accepted exactly as described, and do handlers get what they registered? |
| `Responses_pages` | passes | does a filter mean its alternatives, and is a page the slice asked for? |
| `Handlers_queries` | passes | do all handlers answer with the rows, columns, grids, runs, links and details asked for? |

Each violation contradicts a comment or the documentation; `findings` in
`PROJECT.json` quotes the line. A run is started with, for example,
`tlc -config Registry_polling.cfg MCStoredQueryMap`.

### Bounds

* Registry: two files and two ids give duplicates, renames onto a free and a
  taken id, and a reload request. Two edits (polling) give rename and delete in
  either order; one edit is enough for the parallel run, where the tasks race
  each other and the callbacks of two directories. Contents include disabled,
  test, too long, unparsable and unbuildable configurations.
* Plugin: one admin, two update loop threads and two reload requests give two
  overlapping reloads, one of which may fail, next to a shutdown; two languages
  and the default URL make three positions where a second reload can interfere.
* GetFeature: two threads and a cache of one entry give concurrent inserts under
  one key and evictions; the asks are none, one redirected query that may run
  in a circle or nowhere, and two queries.
* Resolver: two threads share one URI, which each may or may not download,
  and one thread dumps the cache; the memory of an erased node may be reused at
  once (`Reuse = TRUE`), by a new node of the URI;
  `GiveUp` and `Patience` are 2 instead of 100 and 10, so that both limits are
  passed with four tasks and three ticks.
* Listings: three ids, three features (one hidden) and an unknown one, three
  changes of the registry: one before, one between and one after two look-ups.
* Requests: every request type, with any one or two deviations from a proper
  request, under plugin configurations with one setting missing or broken.
* Parameters: 11 bits for `unsigned`, just enough for the minutes of a day, so
  that counts, steps and products of them beyond the width occur; each
  configuration defect alone, requests of up to three parameters.
* Pages: `int` of 4 and `size_t` of 8 bits, up to three queries, start indices
  and counts around the end of each response and around the widths; filters of
  depth three.
* Handlers: `MaxChanges = 2`, that is any two deviations, in the parameters or in
  the engines, from an ordinary request on an ordinary day; data of two or three
  stations, runs, levels and times.

Deadlock is checked except where the system may stop: when the edits, reloads or
requests of the instance are used up (`GetFeature_*`, `Plugin_*`, `Registry_*`)
and where a request is one pass without return (`Parameters_described`,
`Responses_pages`). These configurations say `CHECK_DEADLOCK FALSE`.

### Fairness

`StoredQueryMap!FairSpec` assumes weak fairness of the monitor thread, of the
tasks and of the main thread: the thread of `Fmi::DirectoryMonitor::run` polls
for ever, `AsyncTaskGroup` runs what it was given, and `wait_for_init` wakes up
at least once a second. Nobody has to edit files or stop the server.
`Plugin!FairSpec` assumes that each thread inside `init`, `reload`, the update
loop (which wakes up every second) or `stopUpdateLoop` goes on; nobody has to
request a reload or a shutdown. `GetFeature!FairSpec` and `WfsRequests!Spec` assume
that a thread goes on with its request. `XmlEntityResolver!Spec` assumes that
downloads end (they have a time limit), that a dump goes on, and strong fairness
of the threads: the mutex is free again and again, and a thread that waits for it
is not passed over for ever.

## Disagreements and limits

The two runs that expect a violation contradict the documentation. The following
were met as well. The properties named are stated in the modules and are violated
in the configurations given; no passing run lists them.

| Property | How to see it | What happens |
|---|---|---|
| `StoredQueryMap!DuplicatesRetried` | `Registry_polling` with `Contents <- MCPlain`, `MaxEdits = 1` | a rejected duplicate is retried through the hash check, which finds it unchanged |
| `StoredQueryMap!ReloadOnlyOnChange` | add to `Registry_parallel` | a disabled file with the id of another one meets the handler that an init task has just entered, and requires a reload |
| `Plugin!ReloadingMeansRunning` | `Plugin_reload` with `Admins = {a1, a2}`, `MaxReloads = 3` | a build that throws leaves `itsReloading` set; later admin reloads are refused |
| `GetFeature!HostHonoured` | `GetFeature_source` with one source, `Hosts = {"h1", "h2"}` | the cache key has no host; download links of one host are sent to another |
| `GetFeature!ConfigHonoured` | `GetFeature_source` with one source, `MaxEdits = 1` | the cache key has no trace of the configuration, and entries do not age |
| `XmlEntityResolver!NodeAlive` | add to `Resolver_downloads` | a dump erases the node a thread goes back to |
| `XmlEntityResolver!SchemasGenuine` | `Resolver_downloads` with `Uris = {u1, u2}`, `MaxTasks = 2`, `MaxTime = 1` | the memory of the erased node is taken by the node of another schema, whose content the thread is handed; `FirstAttemptShared` and `RetriesStop` are violated in the same way with `MaxTasks = 4`, `MaxTime = 3` |
| `ParameterFlow!SpellingIrrelevant` | add to `Parameters_described` | occurrences and conflicts compare names as they are spelled |
| `ParameterFlow!EndFollowsSteps` | add to `Parameters_described` | time step times number of steps wraps at the width of `unsigned`; the computed end may be the start |
| `AdHocResponses!FilterMeansItsAlternatives` | add to `Responses_pages` | the end of an *And* inside an *Or* clears the alternatives of the outer element, and the query of an empty *And* is erased |
| `AdHocResponses!OrInOrMeansAlternatives` | add to `Responses_pages` | without such *And* elements: an *Or* that begins with an *Or*, among several *Or* elements of an *And*, is not marked as a set of alternatives (`AdHocQuery.cpp:830`) |
| `Responses!ZeroIsNothing` | add to `Responses_pages` | count 0 of several queries, from the start, returns every member (`GetFeature.cpp:323`) |
| `Responses!MatchedAreCounted` | add to `Responses_pages` | a single query filtered afterwards keeps the `numberMatched` of the handler (`GetFeature.cpp:204`) |
| `Handlers!OriginHonoured` | add to `Handlers_queries` | the grid forecast handler does not pass `originTime` on |
| `Handlers!FailedTasksReported` | add to `Handlers_queries` | exceptions of the facility handler's tasks are lost |

The properties that pass exclude some cases, because the code is wrong there; each
property's comment says so:

* `ChangesTaken`, `OneHandlerPerFile`: an edit between the hash and the parse of
  a file (`QuietEdits` forbids it); with two watched directories, a retried
  duplicate can be taken up before its own directory reports its edit, and is
  then served twice.
* `SchemasGenuine`, `FirstAttemptShared`, `RetriesStop`: the memory of an erased
  node is taken by the node of another schema (see the table above).
* `RetriesStop` says that retries stop once the threads that started downloads have
  counted their failures, not that they stop at `GiveUp`: with three threads one
  may hold a low count and another a high one, and when the low count is written
  back more retries start. The number of attempts has no bound near the limit.
* `NoStaleHandler`: background initialisation together with
  polling (a late task restores the configuration of a modified file); ids in
  upper case (`handle_query_modify` erases the id as it is spelled).
* `StaysServed`: background initialisation together with polling. What
  `handle_query_ignore` finds may then be the file's own handler, which a late task
  replaces before it is erased by key.
* `AcceptedAsDescribed`: parameters described with upper case letters. The
  forbidden names are kept in lower case and compared with the name as the request
  spells it (`StoredQuery.cpp:447`), so that a parameter described, and given, in
  upper case is not refused when one that excludes it was given before.
* `TimesMeaningful`: when time step and number of steps make 2^32 minutes or more,
  the end is only known not to lie before the start.
* `FilterMeansAlternatives`: an *And* inside another element, an *And* without
  elements, and an *Or* that begins with an *Or* where an *And* has several *Or*
  elements. The table names the properties that show each.
* `PageIsTheSlice`: several queries with startIndex 0 and count 0; and for a single
  query `numberMatched` is only said to be the handler's.
* `ValuesFromTheStart`: GetPropertyValue with a start index reads past the last
  member (`GetPropertyValue.cpp:403`).
* `LabelledAsComputed`: a geometry that cannot be decoded shifts the labels of
  the later ones (`StoredContourHandlerBase.cpp:89`).
* `GridAsAsked`: a grid of one column is taken for a row
  (`StoredGridQueryHandler.cpp:620`).
* `CacheHeaders`: an output found invalid is reported as an error with the cache
  headers of an answer (`PluginImpl.cpp:813`).

Seen while translating, and modelled as it is: with `fullInterval` the download
handler refuses a model that covers the interval asked for
(`StoredQEDownloadQyeryHandler.cpp:501`) and compares formats without folding
their case; contours read the shared data source twice
(`StoredContourHandlerBase.cpp:371`) and may choose two engines; the winter weather
probability handler writes nothing at all without a place, does not know the
zone `local`, and fails when the probability of moderate or heavy weather is missing
where that of light weather is not (`StoredWWProbabilityQueryHandler.cpp:145`); a
place without time steps makes a grid forecast fail when a place with some follows
it (`StoredGridForecastQueryHandler.cpp:698`).

## Proofs

TLAPS proves these for every value of the constants, from the named assumptions
of the modules (which TLC evaluates in the runs). Every inductive invariant was
checked by TLC on the instances of the runs before it was proved. The theorems
named `TypeCorrect` state that the variables keep their types; they carry the facts
that a step has what it uses (a file, a query, a node).

### The registry (`StoredQueryMapProofs`)

* `RegistrySound`: `HandlersSound` alone is not inductive, because handlers reach
  the map in several steps. The invariant adds that the configuration the callback
  carries towards `enqueue_query_add` may be served (`CarriedSound`), that this is
  so for every pending task (`TasksSound`), and that the map holds only such
  handlers that could be built, each under the key of its own id (`MapSound`). It
  needs no restriction on edits, directories or background initialisation.
* `OnceServed`: without polling no id that is served stops being served, however
  tasks and callbacks race. It needs the invariant of `InitAlwaysComplete`
  (`FirstLoad`): every callback is the first of its directory, and every handler
  and task is of a file other than the one in hand (`AllPast`), so that
  `handle_query_ignore` never takes what it finds for its own.
* `ChangesAlwaysTaken`, `HandlersNeverStale` and `AlwaysOneHandlerPerFile` share
  the hypothesis `OneQuietDirectory` (one watched directory, polling, no background
  loading, ids in lower case, edits between callbacks); *Disagreements and limits*
  tells what goes wrong without each part. The properties speak of a registry at
  rest, or of one file, and say nothing about the way there. `ChangesInv` follows
  every file through the callbacks: between callbacks only a touched file can be out
  of date (`Rested`); a reported change says what the registry knows of the file and
  what is on disk (`Reported`); the file in hand is described at each step of the
  callback (`AtFile`), in particular between the two halves of a rename, where the
  map is right *after* the erasure that is still to come; all other files are up to
  date (`UpToDate`). All this holds as long as no reload is due: from then on the
  registry waits to be replaced. It also shows that `retry_duplicates` then never
  gets beyond the hash check.
* `InitAlwaysComplete`, with or without background loading and for any number of
  directories, assumes `~Polling` and `QuietEdits`. `FirstLoad` says that every
  callback is the first one of its directory and only adds, that no handler or task
  of the file in hand exists yet, and that each loadable digest is provided for: by
  the map, by a task, by the file in hand, or the load has failed or is stopped.

### Requests (`GetFeatureProofs`)

* `AlwaysFreshEnough`, for a single data source: the qualifier of a key is never
  newer than the data in the response stored under it (`CacheFresh`,
  `ThreadFresh`) and never older than the data when the request arrived. With
  several sources the statement fails, because the shared `data_source` may change
  between key and execution (`GetFeature_source`). `AtWork` says that there is a
  query where one is being created or inserted.
* `AnswersAlwaysMatch`: `Match` says that an entry of the cache has the id of its
  key, that the redirects of each query asked lead to the query made for it, and
  that the responses collected so far belong to their queries, at each step.
* `Implements`: from `Match`, each action of `GetFeature` is, under the mapping,
  `RequestService`'s taking, answering or refusing of a request, or a stutter. The
  assumption that `ErrorResponse` is neither a response nor an id lets the client
  tell an error from an answer.

### The plugin (`PluginProofs`)

* `ServiceAlwaysRestored`: `Covered` says that for every missing URL some thread is
  on its way to it and will find all URLs up to it free. A thread that gives up
  because a URL is taken leaves the rest to the thread that took it, and one that
  removes all URLs begins at the first.
* `AlwaysAnswerOrError`, `HeadersAlwaysDue`, `HostsAlwaysClean`,
  `AlwaysThrowsUnlessReported`: the invariant goes through `realRequestHandler` stage by stage: which stages have
  an output and which an error (`Outcomes`), when the cache headers are set and who
  may still throw after that (`Headers`). An interruption never reaches the stage
  where a report is validated. Nothing is assumed of what the parsers
  return. `HostsAssumption`: the place holder for the host is itself a host that
  `is_valid` refuses (it has an `@`), the fallback is not.

### The schema resolver (`XmlEntityResolverProofs`)

* `Structure` is the shape of `download_map` that the properties rest on: a node
  without a future is known only to the thread that holds the mutex and is about to
  store it, a stored future is a download of the node's URI, and a thread waits
  for a download of the schema it looks for, although the node may be gone. The
  last holds unless the memory of an erased node is taken by the node of another
  schema (`Foreign`), which the three theorems after the next assume not to happen.
* `OnlyOwnOutputDownloaded`: the flag of a thread is that of its `DownloadScope`
  (`Scopes`), on every way out of a parse.
* `SchemasAlwaysGenuine`: what is cached was loaded or comes from a completed
  download (`Genuine`), and what a thread is handed comes from the cache or from the
  task it waited for (`Handed`); a look-up begins without a task (`Fresh`).
* `FirstAttemptAlwaysShared`: a count is above zero only after a failure, and what
  was ever downloaded stays in the map or in the cache (`Counts`).
* `RetriesAlwaysStop`, for any number of threads: only a thread that started a
  download writes a count above zero (`Counters`), so when the schema is `Settled`
  nothing changes the count any more except to zero, and `select_download` starts
  nothing. `NoneAssumption`: the mark for a missing node is not a node.

### Listings (`PluginProofs`)

* `ListingAlwaysComplete`, `ListingFailsOnlyThen`: a visible handler that nobody
  changed is listed or on the list (`Pending`), and while nothing changes every
  name on the list has its handler (`Present`).
* `ReturnTypesAlwaysKnown`: what a visible handler returns was registered when it
  was constructed, and no registration is taken back (`Known`, `Announced`).
  `SortedElements` proves that `Sorted` yields each element once, in order; it is
  defined by ranks, without recursion (`InOrderElements` in `LoopLemmas`). `ConfigsAssumption`: the return types of a
  configuration are a list.

### Parameters (`ParameterFlowProofs`, `LoopLemmas`)

* `AlwaysResolvedAsRegistered`: a value is followed from the request to the handler.
  What the loops over a request accept is a list of typed values (`Pairs`); an item
  of a template, a redirection to a named parameter included, yields such values or
  none; `resolve_parameter` checks type and number; and since `get_values` is a look-up
  by key in one list for all parameters, a registered parameter gets its own values
  and no other's. The last step is where `ConfigsAssumption` is used. The box, the
  quality information and the time zone are then at most one value of their type
  (`AtMostOne`), so that the handlers' calls cannot fail.
* `TimesAlwaysMeaningful`: each block of `get_time_generator_options` keeps the
  facts about the options (times of the day that exist, `FixedTimes` exactly with a
  list, a positive step), and `set_end` makes the end agree with them as long as the
  product of the steps fits into an `unsigned`. When it does not, the end is less
  than 2^`UIntBits` minutes from the start and not before it; more is not true
  (`EndFollowsSteps`).
* `AlwaysAcceptedAsDescribed`: the loops over a request, with their counts and
  their set of forbidden names, accept exactly the requests that meet the
  descriptions. Both directions go through one fact about the first `n` parameters
  of a request: the loop is still running after them if and only if they are
  acceptable so far (`LoopAccepts`), where `AcceptableUpTo` has no minimum number of
  occurrences, and a parameter once forbidden or once given too often
  stays so (`NeverAgain`). The counts of the loop are the sizes of sets of places
  (`Occurrences`), the forbidden names those a given parameter excludes (`Kept`),
  and the values of one parameter are accepted exactly when each can be read and
  lies inside the limits (`KvpRight`, `XmlRight`). That an exclusion is seen whichever of
  the two comes first needs the configuration to be `Consistent`: names are
  distinct and conflicts mutual. `ConfigConsistent` proves that of every
  configuration that `parse_config` accepts, from the loop of
  `check_param_conflicts`, which enters each conflict on its other side while it
  goes through the parameters. `JInv` carries both facts to the requests. A
  `maxdistance` is read in its own way (`parse_meter`); what can be read is part of
  the description here too.
* The inductive invariant of the first two theorems is `IInv`: the named and the registered parameters have
  their types (`Extras`, `WellRegistered`), `par` is a list of typed values, after
  the resolution it is filled as registered (`Filled`), and the options are either
  not read yet or read from `par` (`OptionsRead`).
* The loops are recursive functions and flattenings of sequences of any length.
  Where a statement about them needs induction, `LoopLemmas` and the lemmas on
  `extract_parameters` argue by the least index that fails, a set of naturals, for
  which no induction scheme is needed.
* Assumptions. `ConfigsAssumption`: what libconfig returns has its type
  (`ParamItems`, `NamedParams`, `ParamRecs`), a scalar named parameter is one setting, the constructors of the handlers register each
  name once, and the box, the quality information and the time zone as scalars of
  their types (`SupportsBoundingBox.cpp`, `SupportsQualityParameters.cpp`,
  `SupportsTimeZone.cpp`). `RequestsAssumption`: a parameter of a request has at least
  one text, possibly empty. `NowAssumption` and `UIntBitsAssumption` are about numbers;
  that a power of two is a number, and that the default of a day in minutes fits into
  an `unsigned`, is assumed because the provers do not know it.
* The proof found a mistake of the model: a required scalar that is redirected to
  an empty array was said to get no value. The code gives it one empty value, of no
  type (`ScalarParameterTemplate.cpp:77`), which `add_scalar_value` then refuses.

### Pages (`ResponsesProofs`)

* `PageAlwaysTheSlice`: the loops of GetFeature over responses and members are
  recursive functions whose state is the position in the response, the number of
  members still to skip and still to return. After every response the output is the
  part of the slice that lies in the responses so far (`SlicedSoFar`,
  `OutputSoFar`), and what is left to skip and to return is the rest of the interval
  (`CountedSoFar`); after the last one the page is the slice and the number matched
  the number of all members (`SeveralQueries`). A request with one query takes
  another way through the code (`OneQuery`, `OnePage`), which also serves count 0,
  and whose number matched is the handler's.
* `ValuesAlwaysFromTheStart`: the same for the values of GetPropertyValue, whose
  loop runs over the members of a response with a filter and over the whole
  response without. `ValuesSpread` shows that both give the values in one order,
  `ValuesReturned` that the first `count` of them are returned and none beyond the
  last is read.
* The conversions between `int`, `unsigned` and `size_t` are part of what is proved,
  for every width: the properties assume that start index and count, as given, fit
  into an `int` (`FitsInt`), and `ToIntSame` and `ToSizeSame` show that the
  numbers derived from them then survive the conversions.
* The invariant `IInv`: the queries are a vector, each answered one has a list of
  values per member, and the result of a page is what the two requests compute from
  the responses as the handlers left them.
* Assumptions. `WidthAssumption`: `size_t` is wider than `int`; `RangesAssumption`
  says what follows from it for powers of two, which the provers do not know (TLC
  evaluates both). `CreatedAssumption`: the queries of a request are a
  `std::vector`. `PresentationsAssumption`: start index and count are unsigned.
  `BodiesAssumption`: a member has a number of values, a response a number matched.

### Handlers (`HandlersProofs`)

A handler keeps nothing between requests, so the inductive invariant `IInv` says
only that the parameters and the engines are such as requests and changes can make
them (`InputsRight`) and that the response, if there is one, is what the handler
computes from them as they are now (`Answered`). The work is in the lemmas on the
computations, which are about operators and hold for lists of any length. The
loops of the handlers are written as recursive functions over positions, and
what passes over some rows as `Picked`, so that the lemmas can argue about them.

* `ForecastAlwaysOneRun`: `OneRun` is the invariant of the loop over the places in
  `extract_forecast`: before the first model nothing is read, and from then on
  every row is of the run that is reported, or no run was asked for and the first
  model is spread over several files. `GroupRowsAre` and `ForecastGroupsAre` carry
  it through the grouping by place.
* `ColumnsAlwaysOwn`: `ColumnsRight` is the invariant of `add_parameters`: the
  columns of the entries so far lie below the next free one and are disjoint
  outside the initial columns (`EntriesApart`). `MeteoColumns` has the products of
  the sensor's number and the width of an entry.
* `LabelsAlwaysRight`: the engine returns one contour per pair of limits, in their
  order, for each time step (`StepsRight`); the label is found by position, which is
  right as long as nothing is left out. Likewise for the names of a grid query
  (`GridsLabelled`), whose entries move up when a name is repeated.
* `LinksAlwaysAsAsked`: `IsLink` says how a link of a download was made, from a run
  that was selected and with the interval that both the run and the request have
  (`IntervalRight`). What the URL names is followed through the substitution of the
  template's parameters (`UrlNames`); the property therefore speaks of templates
  that refer to `producer` and `origintime`. `FileLink` is the same for files.
* `StationsAlwaysOwnDetails`: `Sorted` says what `by_station` makes of parallel
  columns, some of which have no station: for every station the items of its rows,
  all of them, and no others. `ReadRows` describes a query that breaks off.
* `RowsAlwaysOnce`: `RowsOnce` for thirteen of the sixteen handlers (`RowsApart`).
  Rows are told apart by their place in what the engine returned, a level, parameter
  and time of a grid, a part of a contour, or the number of a station. Where sorted
  rows are cut into runs, `Cut` says that no position is in two of them, and
  `Partition` that none is left out; `RunsPartition` proves both of the loops that
  compare neighbours, `RowsOfSites` of those that collect by site, and
  `FlattenDistinct` and `FlattenRows` carry them through the joining of groups. The
  rows of a forecast are all at places with numbers (`TurnAtNumbers`,
  `GridTurnAtNumbers`), by which they are collected; those of a place that is asked
  for twice are read twice, and each is written once. For observations and masts
  all rows are written (`Written`).
* Assumptions. `ConfiguredAssumption` and `ParametersAssumption`: the lists of
  a configuration and of a request are vectors, an origin time is a scalar, times
  and geoids are numbers, as the constructors register them. `EnginesAssumption`:
  what the engines return are vectors, in which `num` is the position of a row, the
  name the model gives it; stations have numbers; the data of a run begins no later
  than it ends; the columns of a database query have one length and a query that
  breaks off has read some of its rows.

### Left to TLC

* Liveness and everything else under fairness, which is out of reach of the
  prover: `InitEnds`, `EventuallyServed`, `RequestTaken`, the ends of requests,
  look-ups and listings.
* `FilterMeansAlternatives`: `AdHocQuery` is recursive over the tree of a filter, an
  induction over data that the provers cannot do.
* `RowsOnce` for downloads, files and the probabilities of winter weather. A link is
  named by its run or its files, so that it depends on the engine listing each run
  once, which nothing in this repository says. A probability is named by its
  airport, and a request that repeats a place would repeat its rows; the requests
  of the run repeat none.
* `GridAsAsked` of `Handlers`. It relates divisions and remainders by two widths
  that `getDataIndexExtents` guesses from distances, arithmetic of products that the
  SMT solver does not decide.

## Not modelled

* `FeatureID` and `BStream`: an encoding of characters and typed values at bit
  level; `create_from_feature_id` and `GetFeatureById`, which depend on it.
* GeoServer access (`GeoServerDB`, `GeoServerDataIndex`,
  `StoredGeoserverQueryHandler`): database connections and SQL.
* `XmlEnvInit`, `XPathSnapshot`, the error handlers: wrappers of Xerces and
  Xqilla.
* The plugin's own `Config` and the reading of libconfig files: names and
  defaults of settings. The texts of `CapabilitiesConf` and
  `HandlerFactorySummary`.
* The formatting of responses by templates, numeric interpolation, projection
  of coordinates, the encoding of URLs, SQL conditions other than station ids.

The components list of `PROJECT.json` gives the reason for each part.

## Plan

1. *(done)* `StoredQueryMap`, `Plugin`, `GetFeature` with their runs and proofs.
2. *(done)* `XmlEntityResolver`, `WfsRequests`, `PluginImpl`, `ParameterFlow`,
   `Responses`, `Handlers`, `RequestService` and the refinement.
3. *(done)* Theorems about all concurrent modules and about `PluginImpl`: the
   safety invariants of their runs, the action properties of the registry, the
   refinement of `RequestService`.
4. *(done)* Theorems about the sequential modules `ParameterFlow`, `Responses` and
   `Handlers`: all their invariants except the one about filters, the geometry of
   grids and the rows of three handlers.
5. Registration of directories in `StoredQueryMap` while the monitor runs; the
   bit stream of feature ids; the GeoServer index.
