-------------------------- MODULE XmlEntityResolver --------------------------
(***************************************************************************)
(* The XML schema resolver (libwfs/XmlEntityResolver.cpp): every server    *)
(* thread that parses XML asks it for schemas, and wfs:xmlSchemaCache      *)
(* (ParserMT::dump_schema_cache) merges what was downloaded into its       *)
(* cache.  The mutex protects the look-ups; the wait for a download and    *)
(* the bookkeeping after it happen with the mutex released.                *)
(***************************************************************************)
EXTENDS Naturals, Sequences, FiniteSets

CONSTANTS
    Threads,      \* server threads that parse XML
    Dumpers,      \* admin threads that dump the schema cache
    Uris,         \* the schemas referred to, as absolute URIs
    Loaded,       \* the URIs in the serialized schema cache read at start
    enable_download,  \* validateXmlOutput: init_schema_download was called
    GiveUp,       \* 100 in the code: failures after which nothing is retried
    Patience,     \* 10: failures up to which the short pause applies
    ShortPause, LongPause,  \* 10 and 600 seconds
    References,   \* the forms of references that XML documents hold
    Reuse,        \* may the memory of an erased map node be taken or unmapped
                  \* while a thread's iterator still points to it?
    MaxTime, MaxTasks,      \* bounds on the clock and on downloads
    None

ASSUME ResolverAssumption ==
    /\ Loaded \subseteq Uris /\ enable_download \in BOOLEAN /\ Reuse \in BOOLEAN
    /\ {GiveUp, Patience, ShortPause, LongPause, MaxTime, MaxTasks} \subseteq Nat
    /\ Threads \cap Dumpers = {} /\ None \notin Threads \cup Dumpers \cup Uris
    /\ GiveUp > 0 /\ Patience <= GiveUp

VARIABLES
    cache,         \* the URIs whose content is cached
    download_map,  \* URI -> its Download, or None
    tasks,         \* the asynchronous downloads, in the order they were started
    mutex,         \* who holds it
    now,           \* std::time
    pc,
    uri,           \* the schema a thread looks for
    output,        \* thread -> (history) it validates its own output
    allowed,       \* thread -> download_allowed_in_thread
    previous,      \* thread -> the member of its DownloadScope
    it_d,          \* thread -> the map node its iterator points to: its number
    downloading,   \* thread -> the local of get_schema
    task,          \* thread -> the download it waits for, 0: none
    seen,          \* thread -> num_failed as read by num_failed++
    served,        \* thread -> how its get_schema ended
    visited        \* dumper -> the URIs merge_downloaded_schemas has passed

locals == <<uri, output, allowed, previous, it_d, downloading, task, seen, served>>
vars == <<cache, download_map, tasks, mutex, now, pc, locals, visited>>

\* A node of download_map: its number tells it from one entered later for the
\* same URI, task is its shared_future.
Downloads == [node : Nat, task : Nat, num_failed : Nat, last_failed : Nat]

ASSUME NoneAssumption == None \notin Downloads

Tasks == [uri : Uris, by : Threads, output : BOOLEAN, state : {"running", "ok", "failed"}]

TypeOK ==
    /\ cache \in SUBSET Uris
    /\ download_map \in [Uris -> Downloads \cup {None}]
    /\ tasks \in Seq(Tasks)
    /\ mutex \in Threads \cup Dumpers \cup {None}
    /\ now \in Nat
    /\ pc \in [Threads \cup Dumpers ->
               {"idle", "lock", "assign", "copy", "wait", "bump", "store", "done", "merge",
                "crashed"}]
    /\ uri \in [Threads -> Uris] /\ output \in [Threads -> BOOLEAN]
    /\ allowed \in [Threads -> BOOLEAN] /\ previous \in [Threads -> BOOLEAN]
    /\ it_d \in [Threads -> Nat] /\ downloading \in [Threads -> BOOLEAN]
    /\ task \in [Threads -> Nat] /\ seen \in [Threads -> Nat]
    /\ served \in [Threads -> {"nothing", "schema", "exception"}]
    /\ visited \in [Dumpers -> SUBSET Uris]

Init ==
    /\ cache = Loaded
    /\ download_map = [u \in Uris |-> None]
    /\ tasks = <<>> /\ mutex = None /\ now = 0
    /\ pc = [t \in Threads \cup Dumpers |-> "idle"]
    /\ uri \in [Threads -> Uris]
    /\ output = [t \in Threads |-> FALSE]
    /\ allowed = [t \in Threads |-> FALSE]
    /\ previous = [t \in Threads |-> FALSE]
    /\ it_d = [t \in Threads |-> 0]
    /\ downloading = [t \in Threads |-> FALSE]
    /\ task = [t \in Threads |-> 0]
    /\ seen = [t \in Threads |-> 0]
    /\ served = [t \in Threads |-> "nothing"]
    /\ visited = [d \in Dumpers |-> {}]

Go(t, from, to) == pc[t] = from /\ pc' = [pc EXCEPT ![t] = to]

-----------------------------------------------------------------------------
(* resolveEntity: which reference leads to get_schema, and for which URI.  *)

\* The URI of a reference by its type, the form of its system id and the form
\* of its base URI.  "refused": nullptr, so that Xerces resolves nothing;
\* "own": the system id; "joined": the system id after the last slash of the
\* base URI.
remote_uri(ref) ==
    IF ref.type \notin {"SchemaGrammar", "SchemaImport", "SchemaInclude", "SchemaRedefine"}
    THEN "refused"
    ELSE IF ref.system_id = "url" THEN "own"
    ELSE IF ref.system_id \in {"empty", "absolute"} \/ ref.base_uri = "absolute" THEN "refused"
    ELSE IF ref.base_uri = "noslash" THEN "refused" ELSE "joined"

\* The constructor and the destructor of DownloadScope.
OpenScope(t) ==
    /\ previous' = [previous EXCEPT ![t] = allowed[t]]
    /\ allowed' = [allowed EXCEPT ![t] = TRUE]

\* Mutant: the destructor leaves the flag set.
CloseScope_kept(t) == UNCHANGED <<allowed, previous>>

CloseScope(t) ==
    /\ allowed' = [allowed EXCEPT ![t] = previous[t]]
    /\ UNCHANGED previous

\* A thread meets a reference to the schema u.  maybe_validate_output opens a
\* scope around the parse of a response; a request is parsed without one.
resolveEntity(t, ref, u, own_output) ==
    /\ Len(tasks) + Cardinality({s \in Threads : pc[s] # "idle"}) < MaxTasks
    /\ remote_uri(ref) # "refused"
    /\ Go(t, "idle", "lock")
    /\ uri' = [uri EXCEPT ![t] = u]
    /\ output' = [output EXCEPT ![t] = own_output]
    /\ served' = [served EXCEPT ![t] = "nothing"]
    /\ IF own_output THEN OpenScope(t) ELSE UNCHANGED <<allowed, previous>>
    /\ UNCHANGED <<cache, download_map, tasks, mutex, now, it_d, downloading, task, seen, visited>>

\* The parse ends, with the schema or with an exception, and its locals with it.
EndParse(t) ==
    /\ Go(t, "done", "idle")
    /\ IF output[t] THEN CloseScope(t) ELSE UNCHANGED <<allowed, previous>>
    /\ it_d' = [it_d EXCEPT ![t] = 0] /\ task' = [task EXCEPT ![t] = 0]
    /\ seen' = [seen EXCEPT ![t] = 0] /\ downloading' = [downloading EXCEPT ![t] = FALSE]
    /\ served' = [served EXCEPT ![t] = "nothing"]
    /\ output' = [output EXCEPT ![t] = FALSE]
    /\ UNCHANGED <<cache, download_map, tasks, mutex, now, uri, visited>>

-----------------------------------------------------------------------------
(* get_schema.                                                             *)

\* Mutants: a running download counts as one to retry; there is no last attempt.
Retry_running(d) ==
    /\ d.num_failed < GiveUp
    /\ now > d.last_failed + (IF d.num_failed < Patience THEN ShortPause ELSE LongPause)

Retry_forever(d) ==
    /\ d.num_failed # 0
    /\ now > d.last_failed + (IF d.num_failed < Patience THEN ShortPause ELSE LongPause)

\* select_download: is a new attempt to be started?
Retry(d) ==
    /\ d.num_failed # 0 /\ d.num_failed < GiveUp
    /\ now > d.last_failed + (IF d.num_failed < Patience THEN ShortPause ELSE LongPause)

select_download(u) == IF download_map[u] = None THEN TRUE ELSE Retry(download_map[u])

\* The future that the thread is about to replace in the node.
Replaced(u) == IF download_map[u] = None THEN 0 ELSE download_map[u].task

\* get_schema under the mutex: a hit, a refusal, or the node of the URI, with a
\* download started when select_download says so.
get_schema(t) ==
    LET u == uri[t] IN
    /\ mutex = None
    /\ \/ /\ u \in cache
          /\ Go(t, "lock", "done")
          /\ served' = [served EXCEPT ![t] = "schema"]
          /\ UNCHANGED <<download_map, tasks, mutex, it_d, downloading>>
       \/ /\ u \notin cache /\ ~(enable_download /\ allowed[t])
          /\ Go(t, "lock", "done")
          /\ served' = [served EXCEPT ![t] = "exception"]
          /\ UNCHANGED <<download_map, tasks, mutex, it_d, downloading>>
       \/ /\ u \notin cache /\ enable_download /\ allowed[t]
          /\ downloading' = [downloading EXCEPT ![t] = select_download(u)]
          /\ IF select_download(u)
             THEN /\ tasks' = Append(tasks, [uri |-> u, by |-> t, output |-> output[t],
                                             state |-> "running"])
                  /\ download_map' = [download_map EXCEPT ![u] =
                        IF @ = None THEN [node |-> Len(tasks) + 1, task |-> 0,
                                          num_failed |-> 0, last_failed |-> 0] ELSE @]
                  /\ Go(t, "lock", "assign") /\ mutex' = t
             ELSE Go(t, "lock", "copy") /\ UNCHANGED <<download_map, tasks, mutex>>
          /\ it_d' = [it_d EXCEPT ![t] = download_map'[u].node]
          /\ UNCHANGED served
    /\ UNCHANGED <<cache, now, uri, output, allowed, previous, task, seen, visited>>

\* The future of the new download is stored.  If it replaces the last one
\* that refers to an unfinished download, its destructor waits for that one.
assign_task(t) ==
    LET old == Replaced(uri[t])
        new == CHOOSE k \in DOMAIN tasks :
                   tasks[k].by = t /\ \A j \in DOMAIN tasks : tasks[j].by = t => j <= k
    IN  /\ Go(t, "assign", "copy")
        /\ \/ old = 0
           \/ old # 0 /\ tasks[old].state # "running"
           \/ \E s \in Threads : pc[s] = "wait" /\ task[s] = old
        /\ download_map' = [download_map EXCEPT ![uri[t]].task = new]
        /\ mutex' = None
        /\ UNCHANGED <<cache, tasks, now, locals, visited>>

\* Is the node that the thread's iterator points to still in the map?
Alive(t) == download_map[uri[t]] # None /\ download_map[uri[t]].node = it_d[t]

\* The URIs whose node the memory behind the iterator may belong to: that of an
\* erased node is undefined, and may be any node entered since.
Points(t) ==
    IF Alive(t) THEN {uri[t]} ELSE {u \in Uris : Reuse /\ download_map[u] # None}

\* auto task = it_d->second.task, after the unlock.  An erased node shows its old
\* memory, the future of a download of the URI, or that of another node.
copy_task(t) ==
    /\ Go(t, "copy", "wait")
    /\ \/ Alive(t) /\ task' = [task EXCEPT ![t] = download_map[uri[t]].task]
       \/ /\ ~Alive(t)
          /\ \E k \in DOMAIN tasks :
               (tasks[k].uri = uri[t] \/ Reuse) /\ task' = [task EXCEPT ![t] = k]
    /\ UNCHANGED <<cache, download_map, tasks, mutex, now, uri, output, allowed, previous, it_d, downloading, seen,
                   served, visited>>

\* A write through the iterator: into the node, into the one that has taken the
\* memory of an erased node, or into memory that nobody reads.
Write(t, field, value) ==
    \/ ~Alive(t) /\ UNCHANGED download_map
    \/ \E u \in Points(t) : download_map' = [download_map EXCEPT ![u][field] = value]

\* The count that num_failed++ reads: that of an erased node is undefined.
Read(t) == {download_map[u].num_failed : u \in Points(t)} \cup (IF Alive(t) THEN {} ELSE 0 .. GiveUp)

\* The memory behind the iterator is no longer the program's: it is killed.
Crash(t) ==
    /\ Reuse /\ ~Alive(t)
    /\ pc[t] \in {"copy", "wait", "bump", "store"}
    /\ pc' = [pc EXCEPT ![t] = "crashed"]
    /\ UNCHANGED <<cache, download_map, tasks, mutex, now, locals, visited>>

\* task.get() returns: num_failed = 0.
task_get(t) ==
    /\ Go(t, "wait", "done")
    /\ tasks[task[t]].state = "ok"
    /\ Write(t, "num_failed", 0)
    /\ served' = [served EXCEPT ![t] = "schema"]
    /\ UNCHANGED <<cache, tasks, mutex, now, uri, output, allowed, previous, it_d, downloading, task, seen, visited>>

\* Mutant: a thread that only waited looks the schema up again.
task_failed_again(t) ==
    /\ pc[t] = "wait" /\ tasks[task[t]].state = "failed"
    /\ Go(t, "wait", IF downloading[t] THEN "bump" ELSE "lock")
    /\ \E n \in Read(t) : seen' = [seen EXCEPT ![t] = n]
    /\ UNCHANGED <<cache, download_map, tasks, mutex, now, uri, output, allowed, previous, it_d,
                   downloading, task, served, visited>>

\* task.get() throws.  The thread that started a download counts the failure:
\* num_failed++ reads and writes without the mutex.
task_failed(t) ==
    /\ pc[t] = "wait"
    /\ tasks[task[t]].state = "failed"
    /\ IF downloading[t]
       THEN /\ Go(t, "wait", "bump")
            /\ \E n \in Read(t) : seen' = [seen EXCEPT ![t] = n]
            /\ UNCHANGED served
       ELSE /\ Go(t, "wait", "done")
            /\ served' = [served EXCEPT ![t] = "exception"]
            /\ UNCHANGED seen
    /\ UNCHANGED <<cache, download_map, tasks, mutex, now, uri, output, allowed, previous, it_d, downloading, task,
                   visited>>

count_failure(t) ==
    /\ Go(t, "bump", "store")
    /\ Write(t, "num_failed", seen[t] + 1)
    /\ UNCHANGED <<cache, tasks, mutex, now, locals, visited>>

store_time(t) ==
    /\ Go(t, "store", "done")
    /\ Write(t, "last_failed", now)
    /\ served' = [served EXCEPT ![t] = "exception"]
    /\ UNCHANGED <<cache, tasks, mutex, now, uri, output, allowed, previous, it_d, downloading, task, seen, visited>>

-----------------------------------------------------------------------------
\* download: curl ends with the content or an error, within its time limits.
download(k) ==
    /\ tasks[k].state = "running"
    /\ \E s \in {"ok", "failed"} : tasks' = [tasks EXCEPT ![k].state = s]
    /\ UNCHANGED <<cache, download_map, mutex, now, pc, locals, visited>>

Tick ==
    /\ now < MaxTime /\ now' = now + 1
    /\ UNCHANGED <<cache, download_map, tasks, mutex, pc, locals, visited>>

-----------------------------------------------------------------------------
(* merge_downloaded_schemas, with the mutex held from the first entry to   *)
(* the last, waiting for every download that still runs.                   *)

merge_lock(d) ==
    /\ Go(d, "idle", "merge")
    /\ mutex = None /\ mutex' = d
    /\ visited' = [visited EXCEPT ![d] = {}]
    /\ UNCHANGED <<cache, download_map, tasks, now, locals>>

\* Mutant: the content is cached whether or not the download succeeded.
merge_entry_failed(d, u) ==
    /\ pc[d] = "merge" /\ u \notin visited[d]
    /\ download_map[u] # None
    /\ tasks[download_map[u].task].state # "running"
    /\ visited' = [visited EXCEPT ![d] = @ \cup {u}]
    /\ cache' = cache \cup {u}
    /\ download_map' = [download_map EXCEPT ![u] = None]
    /\ UNCHANGED <<tasks, mutex, now, pc, locals>>

merge_entry(d, u) ==
    /\ pc[d] = "merge" /\ u \notin visited[d]
    /\ download_map[u] # None
    /\ tasks[download_map[u].task].state # "running"
    /\ visited' = [visited EXCEPT ![d] = @ \cup {u}]
    /\ IF tasks[download_map[u].task].state = "ok"
       THEN /\ cache' = cache \cup {u}
            /\ download_map' = [download_map EXCEPT ![u] = None]
       ELSE UNCHANGED <<cache, download_map>>
    /\ UNCHANGED <<tasks, mutex, now, pc, locals>>

merge_end(d) ==
    /\ Go(d, "merge", "idle")
    /\ \A u \in Uris \ visited[d] : download_map[u] = None
    /\ mutex' = None
    /\ UNCHANGED <<cache, download_map, tasks, now, locals, visited>>

-----------------------------------------------------------------------------
ThreadStep(t) ==
    \/ EndParse(t) \/ get_schema(t) \/ assign_task(t) \/ copy_task(t)
    \/ task_get(t) \/ task_failed(t) \/ count_failure(t) \/ store_time(t)

DumperStep(d) == merge_end(d) \/ \E u \in Uris : merge_entry(d, u)

Next ==
    \/ \E t \in Threads :
         \/ \E ref \in References, u \in Uris, own_output \in BOOLEAN :
              resolveEntity(t, ref, u, own_output)
         \/ ThreadStep(t) \/ Crash(t)
    \/ \E d \in Dumpers : merge_lock(d) \/ DumperStep(d)
    \/ \E k \in DOMAIN tasks : download(k)
    \/ Tick

\* A started parse, merge or download goes on: threads run, and curl's
\* connection and transfer time limits end every download.
Spec ==
    /\ Init /\ [][Next]_vars
    /\ \A t \in Threads : SF_vars(ThreadStep(t))
    /\ \A d \in Dumpers : WF_vars(DumperStep(d))
    /\ WF_vars(\E k \in DOMAIN tasks : download(k))

-----------------------------------------------------------------------------
(* Properties.                                                             *)

\* What is cached was loaded at the start or is the result of a completed
\* download, and a thread is handed the schema it asked for, from the cache or
\* from a download of that URI that succeeded: neither a retry nor a merge makes a
\* schema of a failed download or of another one (get_schema,
\* merge_downloaded_schemas).  With several URIs and Reuse a thread whose node was
\* erased may be handed the schema whose node has taken the memory.
SchemasGenuine ==
    /\ cache \subseteq Loaded \cup {tasks[k].uri : k \in {j \in DOMAIN tasks : tasks[j].state = "ok"}}
    /\ \A t \in Threads : served[t] = "schema" =>
          IF task[t] = 0 THEN uri[t] \in cache
          ELSE tasks[task[t]].state = "ok" /\ tasks[task[t]].uri = uri[t]

\* Downloads are started only for the schemas of the server's own output,
\* whatever the thread parsed before and however that parse ended (the comment
\* on DownloadScope in XmlEntityResolver.h).
OnlyOwnOutput == \A k \in DOMAIN tasks : tasks[k].output

\* Until a download of the URI has failed its threads share one download
\* (select_download).  A failure written into memory that another schema's node
\* has taken would start a second one.
FirstAttemptShared ==
    \A j, k \in DOMAIN tasks :
        (j # k /\ tasks[j].uri = tasks[k].uri)
            => \E i \in DOMAIN tasks : tasks[i].uri = tasks[k].uri /\ tasks[i].state = "failed"

\* Is the URI settled?  It is cached, or its last download succeeded or was the
\* last attempt, and no thread that started one is still to count its failure.
Settled(u) ==
    \/ u \in cache
    \/ /\ download_map[u] # None
       /\ download_map[u].num_failed \notin 1 .. GiveUp - 1
       /\ \A t \in Threads :
            ~(uri[t] = u /\ downloading[t] /\ pc[t] \in {"assign", "copy", "wait", "bump"})

\* Retries stop: when all threads have counted the failures of their downloads
\* and the count says give up, nothing starts a download of the schema again,
\* though counting takes no mutex and a thread that only waited writes the count
\* too.  While one still has to count, its old value may bring retries back.
RetriesStop == [][\A u \in Uris : Settled(u) => Settled(u)']_vars

\* Every look-up ends, also when the cache is dumped, which keeps the mutex
\* while it waits for the downloads that run; or an erased node's memory has
\* ended the process.
LookupEnds ==
    \A t \in Threads :
        pc[t] = "lock" ~> (pc[t] = "idle" \/ \E s \in Threads : pc[s] = "crashed")

\* A thread that goes back to the download state of its URI finds the node it
\* selected (get_schema after lock.unlock()).  It does not hold when the cache
\* is dumped in between: merge_downloaded_schemas erases the node.
NodeAlive == \A t \in Threads : pc[t] \in {"copy", "wait", "bump", "store"} => Alive(t)

=============================================================================
