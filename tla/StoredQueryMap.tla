--------------------------- MODULE StoredQueryMap ---------------------------
(***************************************************************************)
(* The registry of stored queries (libwfs/StoredQueryMap.cpp) and the      *)
(* content checker it inherits from (libwfs/FileContentChecker.cpp).       *)
(*                                                                         *)
(* Three kinds of threads touch the registry: the directory monitor thread *)
(* runs on_config_change for one watched directory at a time, the tasks of *)
(* init_tasks build handlers in the background during the first load, and  *)
(* the main thread sits in wait_for_init.  Somebody edits the files all    *)
(* the while.  Every step below is one critical section of the code, or    *)
(* one access to the file system.                                          *)
(***************************************************************************)
EXTENDS Naturals, FiniteSets

CONSTANTS
    Files,          \* paths of *.conf files, numbered in path order
    Dirs,           \* watched configuration directories
    DirOf,          \* the directory each file lives in
    Ids,            \* spellings of stored query ids
    Lower,          \* ascii_tolower_copy, as a function on Ids
    Contents,       \* what a configuration file may contain
    EnabledMarks,   \* subset of {"test", "demo"}: enableTestQueries, enableDemoQueries
    BackgroundInit, \* parallelInit
    Polling,        \* enableConfigurationPolling
    QuietEdits,     \* TRUE: files change only while no callback is running
    MaxEdits,       \* bound on the number of file system changes
    NoFile, NoHandler, NoKey

Keys == {Lower[i] : i \in Ids}
Marks == {"disabled", "test", "demo"}

\* What is wrong with a file: longer than max_size, unparsable by
\* StoredQueryConfig, or refused by the constructor of its handler.
Defects == {"none", "oversize", "parse", "construct"}

ASSUME FilesAssumption == Files \subseteq Nat /\ IsFiniteSet(Files)
ASSUME DirsAssumption == DirOf \in [Files -> Dirs]
ASSUME LowerAssumption ==
    Lower \in [Ids -> Ids] /\ \A i \in Ids : Lower[Lower[i]] = Lower[i]
ASSUME ContentsAssumption ==
    Contents \subseteq [id : Ids, rev : Nat, marks : SUBSET Marks, defect : Defects]
ASSUME MarksAssumption == EnabledMarks \subseteq {"test", "demo"}
ASSUME SwitchAssumption ==
    /\ BackgroundInit \in BOOLEAN /\ Polling \in BOOLEAN /\ QuietEdits \in BOOLEAN
    /\ MaxEdits \in Nat
ASSUME NullAssumption == NoFile \notin Contents /\ NoKey \notin Ids

\* A StoredQueryHandlerBase: the file its configuration came from, and the
\* configuration.  All directories share one template_dir
\* (PluginImpl::create_stored_query_map), so it tells no handlers apart.
Handlers == [file : Files, content : Contents]

ASSUME NoHandlerAssumption == NoHandler \notin Handlers

VARIABLES
    fs,              \* file -> content now on disk, or NoFile
    edits,           \* number of changes made so far
    known,           \* external: files in the monitor's last scan
    touched,         \* external: files written since the monitor's last scan
    scanned,         \* external: directories whose first callback has returned
    file_hash_map,   \* file -> content whose digest is stored, or NoFile
    handler_map,     \* lower case id -> handler, or NoHandler
    duplicate,       \* files rejected because their id was taken
    updated,         \* directories with num_updates > 0
    loading_started, load_failed, reload_required,
    handed,          \* the update loop has taken the reload request
    tasks,           \* init tasks not yet run
    pc, dir, initial, change, retrying, todo, cur, cfg, ph1, erasing, errors,
                     \* the locals of on_config_change and the handlers it calls
    main,            \* where the thread in wait_for_init is
    shutting         \* Reactor::isShuttingDown()

env == <<fs, edits>>
monitor == <<known, touched, scanned>>
registry == <<file_hash_map, handler_map, duplicate>>
flags == <<loading_started, load_failed, reload_required, handed>>
scan == <<dir, initial, change>>
job == <<cur, cfg, ph1, erasing>>
vars == <<env, monitor, registry, updated, flags, tasks, pc, scan, retrying,
          todo, job, errors, main, shutting>>

-----------------------------------------------------------------------------
\* Mutant: test queries are loaded whatever enableTestQueries says.
should_be_ignored_no_test(c) ==
    "disabled" \in c.marks \/ ("demo" \in c.marks /\ "demo" \notin EnabledMarks)

should_be_ignored(c) ==
    \/ "disabled" \in c.marks
    \/ \E m \in {"test", "demo"} : m \in c.marks /\ m \notin EnabledMarks

\* Keys under which get_handler_by_file_name finds a handler of f.  The code
\* takes the first one in key order; ids have no order here.
KeysOf(f) == {k \in Keys : handler_map[k] # NoHandler /\ handler_map[k].file = f}

get_handler_by_name_nothrow(id) == handler_map[Lower[id]]

\* add_handler(handler): an earlier handler with the same key is replaced.
add_handler(h) == [handler_map EXCEPT ![Lower[h.content.id]] = h]

\* Mutant: the erase is forgotten.
erase_nothing(key) == handler_map

\* handler_map.erase(key): nothing happens when the key is not there.
erase(key) == [k \in Keys |-> IF k = key THEN NoHandler ELSE handler_map[k]]

\* Mutant: the hash of a deleted file is kept.
remove_file_hash_kept(f) == file_hash_map

remove_file_hash(f) == [file_hash_map EXCEPT ![f] = NoFile]

\* Mutant: a file once hashed is taken for unchanged.
Unchanged_once(f) == file_hash_map[f] # NoFile

\* The digest of f is the stored one.
Unchanged(f) == file_hash_map[f] = fs[f]

\* The constructor of StoredQueryConfig throws.
ParseRefused(f) == IF fs[f] = NoFile THEN TRUE ELSE fs[f].defect = "parse"

\* Mutant: the old id of a renamed query is not removed.
RenamedFrom_kept(old, found) == NoKey

\* handle_query_modify: the id to remove after the new handler is in place,
\* spelled as the old configuration spelled it.
RenamedFrom(old, found) == IF found # old THEN old.content.id ELSE NoKey

\* Mutant: handle_query_ignore does not ask whose handler it found.
IsOwn_any(h) == TRUE

\* handle_query_ignore: the handler found was built from this file.
IsOwn(h) == h.file = cur

\* directory_monitor.ready(): every directory has had its first callback.
ready == scanned = Dirs

\* Mutant: a failed load does not end the wait.
done_no_failure == shutting \/ ready

\* The condition wait_for_init waits for.
done == shutting \/ ready \/ load_failed

\* Mutant: wait_for_init does not wait for init_tasks.
TasksOver_unawaited == TRUE

\* init_tasks->wait() can return.
TasksOver == tasks = {}

Present == {f \in Files : fs[f] # NoFile}

\* The change the monitor reports for f: files are compared by name and
\* modification time with the previous scan.
ChangeOf(f) ==
    IF f \in known THEN IF f \notin Present THEN "DELETE"
                        ELSE IF f \in touched THEN "MODIFY" ELSE "NOCHANGE"
    ELSE IF f \in Present THEN "CREATE" ELSE "NOCHANGE"

Changed(d) == {f \in Files : DirOf[f] = d /\ ChangeOf(f) # "NOCHANGE"}

TypeOK ==
    /\ fs \in [Files -> Contents \cup {NoFile}]
    /\ edits \in Nat
    /\ known \subseteq Files /\ touched \subseteq Files /\ scanned \subseteq Dirs
    /\ file_hash_map \in [Files -> Contents \cup {NoFile}]
    /\ handler_map \in [Keys -> Handlers \cup {NoHandler}]
    /\ duplicate \subseteq Files
    /\ updated \subseteq Dirs
    /\ loading_started \in BOOLEAN /\ load_failed \in BOOLEAN
    /\ reload_required \in BOOLEAN /\ handed \in BOOLEAN
    /\ tasks \subseteq Handlers
    /\ pc \in {"idle", "next", "remove", "hash", "parse", "decide", "ignore",
               "put", "erase", "end", "thrown"}
    /\ dir \in Dirs /\ initial \in BOOLEAN /\ retrying \in BOOLEAN /\ errors \in BOOLEAN
    /\ change \in [Files -> {"CREATE", "DELETE", "MODIFY", "NOCHANGE"}]
    /\ todo \subseteq Files
    /\ cur \in Files \cup {NoFile}
    /\ pc \notin {"idle", "next", "end", "thrown"} => cur \in Files
    /\ cfg \in Contents \cup {NoFile}
    /\ pc \in {"decide", "ignore", "put"} => cfg \in Contents
    /\ ph1 \in Handlers \cup {NoHandler}
    /\ erasing \in Ids \cup {NoKey}
    /\ main \in {"waiting", "tasks", "done", "failed"}
    /\ shutting \in BOOLEAN

Init ==
    /\ fs \in [Files -> Contents \cup {NoFile}] /\ edits = 0
    /\ known = {} /\ touched = {} /\ scanned = {}
    /\ file_hash_map = [f \in Files |-> NoFile]
    /\ handler_map = [k \in Keys |-> NoHandler]
    /\ duplicate = {} /\ updated = {}
    /\ loading_started = FALSE /\ load_failed = FALSE
    /\ reload_required = FALSE /\ handed = FALSE
    /\ tasks = {}
    /\ pc = "idle" /\ dir \in Dirs /\ initial = TRUE
    /\ change = [f \in Files |-> "NOCHANGE"]
    /\ retrying = FALSE /\ todo = {} /\ errors = FALSE
    /\ cur = NoFile /\ cfg = NoFile /\ ph1 = NoHandler /\ erasing = NoKey
    /\ main = "waiting" /\ shutting = FALSE

-----------------------------------------------------------------------------
\* Someone writes, rewrites or deletes a configuration file.
Edit(f, c) ==
    /\ edits < MaxEdits
    /\ QuietEdits => pc = "idle"
    /\ ~(fs[f] = NoFile /\ c = NoFile)
    /\ fs' = [fs EXCEPT ![f] = c]
    /\ touched' = touched \cup {f}
    /\ edits' = edits + 1
    /\ UNCHANGED <<known, scanned, registry, updated, flags, tasks, pc, scan,
                   retrying, todo, job, errors, main, shutting>>

-----------------------------------------------------------------------------
(* The directory monitor thread.                                           *)

\* The callback of directory d begins: at the first scan, and later when
\* some file changed.  A finished load with polling off ignores the change.
on_config_change(d) ==
    /\ pc = "idle" /\ main # "failed"
    /\ IF ready THEN Changed(d) # {} ELSE d \notin scanned
    /\ loading_started' = TRUE
    /\ known' = {f \in known : DirOf[f] # d} \cup {f \in Present : DirOf[f] = d}
    /\ touched' = {f \in touched : DirOf[f] # d}
    /\ dir' = d
    /\ initial' = (d \notin updated)
    /\ IF ready /\ ~Polling
       THEN UNCHANGED <<change, todo, pc>>
       ELSE /\ change' = [f \in Files |-> IF DirOf[f] = d THEN ChangeOf(f) ELSE "NOCHANGE"]
            /\ todo' = Changed(d)
            /\ pc' = "next"
    /\ UNCHANGED <<env, scanned, registry, updated, load_failed, reload_required,
                   handed, tasks, retrying, job, errors, main, shutting>>

\* The loops over the reported files, in path order, and over a copy of
\* duplicate.  The first loop stops as soon as a reload is required.
NextFile ==
    /\ pc = "next"
    /\ retrying \/ ~reload_required
    /\ \E f \in todo :
         /\ \A g \in todo : f <= g
         /\ cur' = f
         /\ todo' = todo \ {f}
         /\ pc' = IF ~retrying /\ change[f] = "DELETE" THEN "remove" ELSE "hash"
    /\ erasing' = NoKey
    /\ UNCHANGED <<env, monitor, registry, updated, flags, tasks, scan, retrying,
                   cfg, ph1, errors, main, shutting>>

retry_duplicates ==
    /\ pc = "next" /\ ~retrying /\ ~initial
    /\ todo = {} \/ reload_required
    /\ retrying' = TRUE
    /\ todo' = duplicate
    /\ UNCHANGED <<env, monitor, registry, updated, flags, tasks, pc, scan, job,
                   errors, main, shutting>>

LoopsDone ==
    /\ pc = "next"
    /\ IF retrying THEN todo = {} ELSE initial /\ (todo = {} \/ reload_required)
    /\ todo' = {}
    /\ pc' = "end"
    /\ UNCHANGED <<env, monitor, registry, updated, flags, tasks, scan, retrying,
                   job, errors, main, shutting>>

\* The file was handled without an exception: num_updates++ in the first loop.
Handled ==
    /\ pc' = "next"
    /\ updated' = IF retrying THEN updated ELSE updated \cup {dir}
    /\ UNCHANGED errors

\* An exception reached the loop.  retry_duplicates only logs it; the first
\* loop counts it, and in the first update also calls notify_failed.
Raise(failed) ==
    /\ pc' = "next"
    /\ errors' = (errors \/ (~retrying /\ ~shutting))
    /\ load_failed' = (failed \/ (~retrying /\ ~shutting /\ initial))
    /\ UNCHANGED updated

\* handle_query_remove: forget the hash, find the handler by file name.
handle_query_remove ==
    /\ pc = "remove"
    /\ file_hash_map' = remove_file_hash(cur)
    /\ duplicate' = duplicate \ {cur}
    /\ IF KeysOf(cur) = {}
       THEN Handled /\ UNCHANGED erasing
       ELSE /\ \E k \in KeysOf(cur) : erasing' = Lower[handler_map[k].content.id]
            /\ pc' = "erase"
            /\ UNCHANGED <<updated, errors>>
    /\ UNCHANGED <<env, monitor, handler_map, flags, tasks, scan, retrying, todo,
                   cur, cfg, ph1, main, shutting>>

\* check_file_hash, with the fs::is_regular_file test made just before it: a
\* missing, too long or unchanged file is left alone.
check_file_hash ==
    /\ pc = "hash"
    /\ IF \/ fs[cur] = NoFile
          \/ fs[cur].defect = "oversize"
          \/ Unchanged(cur)
       THEN Handled /\ UNCHANGED file_hash_map
       ELSE /\ file_hash_map' = [file_hash_map EXCEPT ![cur] = fs[cur]]
            /\ pc' = "parse"
            /\ UNCHANGED <<updated, errors>>
    /\ UNCHANGED <<env, monitor, handler_map, duplicate, flags, tasks, scan,
                   retrying, todo, job, main, shutting>>

\* handle_query_add rather than handle_query_modify is running.
Adding == retrying \/ change[cur] = "CREATE"

\* The file is read again, by the constructor of StoredQueryConfig.
ParseFails ==
    /\ pc = "parse"
    /\ ParseRefused(cur)
    /\ Raise(load_failed)
    /\ UNCHANGED <<env, monitor, registry, loading_started, reload_required, handed,
                   tasks, scan, retrying, todo, job, main, shutting>>

\* A modified file that is now to be ignored goes to handle_query_ignore;
\* otherwise handle_query_modify looks up ph1, the handler of the file.
Parse ==
    /\ pc = "parse"
    /\ ~ParseRefused(cur)
    /\ cfg' = fs[cur]
    /\ IF ~Adding /\ should_be_ignored(fs[cur])
       THEN /\ duplicate' = duplicate \ {cur}
            /\ ph1' = NoHandler
            /\ pc' = "ignore"
       ELSE /\ IF Adding \/ KeysOf(cur) = {}
               THEN ph1' = NoHandler
               ELSE \E k \in KeysOf(cur) : ph1' = handler_map[k]
            /\ pc' = "decide"
            /\ UNCHANGED duplicate
    /\ UNCHANGED <<env, monitor, file_hash_map, handler_map, updated, flags, tasks,
                   scan, retrying, todo, cur, erasing, errors, main, shutting>>

handle_query_add ==
    /\ pc = "decide" /\ Adding
    /\ IF get_handler_by_name_nothrow(cfg.id) # NoHandler
       THEN /\ duplicate' = duplicate \cup {cur}
            /\ Handled
       ELSE /\ duplicate' = duplicate \ {cur}
            /\ pc' = IF should_be_ignored(cfg) THEN "ignore" ELSE "put"
            /\ UNCHANGED <<updated, errors>>
    /\ UNCHANGED <<env, monitor, file_hash_map, handler_map, flags, tasks, scan,
                   retrying, todo, job, main, shutting>>

\* ph2 is the handler with the new id; another file's means a reload.
handle_query_modify ==
    /\ pc = "decide" /\ ~Adding
    /\ LET ph2 == get_handler_by_name_nothrow(cfg.id) IN
       IF ph2 # NoHandler /\ ph1 # ph2
       THEN reload_required' = TRUE /\ Handled /\ UNCHANGED erasing
       ELSE /\ erasing' = RenamedFrom(ph1, ph2)
            /\ pc' = "put"
            /\ UNCHANGED <<reload_required, updated, errors>>
    /\ UNCHANGED <<env, monitor, registry, loading_started, load_failed, handed, tasks,
                   scan, retrying, todo, cur, cfg, ph1, main, shutting>>

handle_query_ignore ==
    /\ pc = "ignore"
    /\ LET prev_handler == get_handler_by_name_nothrow(cfg.id) IN
       \/ /\ prev_handler = NoHandler
          /\ Handled /\ UNCHANGED <<erasing, reload_required>>
       \/ /\ prev_handler # NoHandler /\ IsOwn(prev_handler)
          /\ erasing' = Lower[cfg.id]
          /\ pc' = "erase"
          /\ UNCHANGED <<updated, errors, reload_required>>
       \/ /\ prev_handler # NoHandler /\ ~IsOwn(prev_handler)
          /\ reload_required' = TRUE
          /\ Handled /\ UNCHANGED erasing
    /\ UNCHANGED <<env, monitor, registry, loading_started, load_failed, handed, tasks,
                   scan, retrying, todo, cur, cfg, ph1, main, shutting>>

NewHandler == [file |-> cur, content |-> cfg]

\* enqueue_query_add in the first update with background_init: a task.
EnqueueTask ==
    /\ pc = "put" /\ BackgroundInit /\ Adding /\ ~retrying /\ initial
    /\ tasks' = tasks \cup {NewHandler}
    /\ Handled
    /\ UNCHANGED <<env, monitor, registry, flags, scan, retrying, todo, job, main, shutting>>

\* enqueue_query_add otherwise: the handler is built and entered at once.
\* During shutdown a failing constructor is not reported.
AddNow ==
    /\ pc = "put" /\ ~(BackgroundInit /\ Adding /\ ~retrying /\ initial)
    /\ cfg.defect # "construct" \/ shutting
    /\ handler_map' = IF cfg.defect = "construct" THEN handler_map ELSE add_handler(NewHandler)
    /\ IF erasing = NoKey THEN Handled ELSE pc' = "erase" /\ UNCHANGED <<updated, errors>>
    /\ UNCHANGED <<env, monitor, file_hash_map, duplicate, flags, tasks, scan, retrying,
                   todo, job, main, shutting>>

AddFails ==
    /\ pc = "put" /\ ~(BackgroundInit /\ Adding /\ ~retrying /\ initial)
    /\ cfg.defect = "construct" /\ ~shutting
    /\ Raise(TRUE)
    /\ UNCHANGED <<env, monitor, registry, loading_started, reload_required, handed,
                   tasks, scan, retrying, todo, job, main, shutting>>

\* handler_map.erase in handle_query_remove, _modify and _ignore.
EraseHandler ==
    /\ pc = "erase"
    /\ handler_map' = erase(erasing)
    /\ Handled
    /\ UNCHANGED <<env, monitor, file_hash_map, duplicate, flags, tasks, scan, retrying,
                   todo, job, main, shutting>>

\* The end of on_config_change, whose locals are gone: a first update with
\* errors throws.
CallbackEnds ==
    /\ pc = "end"
    /\ IF errors /\ ~shutting /\ initial
       THEN load_failed' = TRUE /\ pc' = "thrown" /\ UNCHANGED scanned
       ELSE pc' = "idle" /\ scanned' = scanned \cup {dir} /\ UNCHANGED load_failed
    /\ change' = [f \in Files |-> "NOCHANGE"]
    /\ retrying' = FALSE /\ errors' = FALSE
    /\ cur' = NoFile /\ cfg' = NoFile /\ ph1' = NoHandler /\ erasing' = NoKey
    /\ UNCHANGED <<env, known, touched, registry, updated, loading_started,
                   reload_required, handed, tasks, dir, initial, todo, main, shutting>>

-----------------------------------------------------------------------------
(* The tasks of init_tasks, each one add_handler(config, template_dir).    *)

RunTask(t) ==
    /\ t \in tasks
    /\ tasks' = tasks \ {t}
    /\ IF t.content.defect = "construct"
       THEN load_failed' = (load_failed \/ ~shutting) /\ UNCHANGED handler_map
       ELSE handler_map' = add_handler(t) /\ UNCHANGED load_failed
    /\ UNCHANGED <<env, monitor, file_hash_map, duplicate, updated, loading_started,
                   reload_required, handed, pc, scan, retrying, todo, job, errors,
                   main, shutting>>

\* shutdown(): init_tasks->stop() drops what has not been started.
shutdown ==
    /\ shutting
    /\ tasks # {} /\ tasks' \in SUBSET tasks
    /\ UNCHANGED <<env, monitor, registry, updated, flags, pc, scan, retrying, todo,
                   job, errors, main, shutting>>

-----------------------------------------------------------------------------
(* The main thread in wait_for_init, and the server around it.             *)

\* The condition is polled at least once a second.
WaitLoaded ==
    /\ main = "waiting"
    /\ done
    /\ main' = "tasks"
    /\ tasks' \in IF shutting \/ load_failed THEN SUBSET tasks ELSE {tasks}
    /\ UNCHANGED <<env, monitor, registry, updated, flags, pc, scan, retrying, todo,
                   job, errors, shutting>>

WaitTimesOut ==
    /\ main = "waiting"
    /\ ~done
    /\ ~loading_started
    /\ main' = "failed"
    /\ UNCHANGED <<env, monitor, registry, updated, flags, tasks, pc, scan, retrying,
                   todo, job, errors, shutting>>

\* init_tasks->wait() returned: throw if anything failed, unless shutting down.
WaitTasks ==
    /\ main = "tasks" /\ TasksOver
    /\ main' = IF load_failed /\ ~shutting THEN "failed" ELSE "done"
    /\ UNCHANGED <<env, monitor, registry, updated, flags, tasks, pc, scan, retrying,
                   todo, job, errors, shutting>>

\* The plugin's update loop takes the request and starts a reload.
is_reload_required ==
    /\ main = "done" /\ reload_required
    /\ reload_required' = FALSE
    /\ handed' = TRUE
    /\ UNCHANGED <<env, monitor, registry, updated, loading_started, load_failed, tasks,
                   pc, scan, retrying, todo, job, errors, main, shutting>>

ServerShutsDown ==
    /\ ~shutting
    /\ shutting' = TRUE
    /\ UNCHANGED <<env, monitor, registry, updated, flags, tasks, pc, scan, retrying,
                   todo, job, errors, main>>

-----------------------------------------------------------------------------
MonitorStep ==
    \/ \E d \in Dirs : on_config_change(d)
    \/ NextFile \/ retry_duplicates \/ LoopsDone
    \/ handle_query_remove \/ check_file_hash \/ ParseFails \/ Parse
    \/ handle_query_add \/ handle_query_modify \/ handle_query_ignore
    \/ EnqueueTask \/ AddNow \/ AddFails \/ EraseHandler \/ CallbackEnds

TaskStep == \E t \in tasks : RunTask(t)

MainStep == WaitLoaded \/ WaitTasks

Next ==
    \/ \E f \in Files, c \in Contents \cup {NoFile} : Edit(f, c)
    \/ MonitorStep \/ TaskStep \/ MainStep
    \/ shutdown \/ WaitTimesOut \/ is_reload_required \/ ServerShutsDown

Spec == Init /\ [][Next]_vars

\* The monitor thread, the task threads and the waiting main thread are
\* scheduled; nobody is obliged to edit files, to shut the server down or to
\* take the reload request.
FairSpec ==
    /\ Spec
    /\ WF_vars(MonitorStep) /\ WF_vars(TaskStep) /\ WF_vars(MainStep)
-----------------------------------------------------------------------------
(* Properties.                                                             *)

\* A configuration that can be served here.
Loadable(c) == c # NoFile /\ c.defect = "none" /\ c.marks \subseteq EnabledMarks

\* Whatever the interleaving of monitor thread, init tasks and edits, a
\* handler can be found under the lower case spelling of its own id only, and
\* never serves a configuration that is disabled, is a test or demo query not
\* enabled here, could not be parsed, or whose handler could not be built
\* (should_be_ignored, handle_query_add, handle_query_modify, add_handler).
HandlersSound ==
    \A k \in Keys : handler_map[k] # NoHandler =>
        LET c == handler_map[k].content IN
        /\ Lower[c.id] = k
        /\ c.marks \subseteq EnabledMarks
        /\ c.defect \notin {"parse", "construct"}

\* The registry has caught up with the files: nothing is being loaded, the
\* monitor has seen every change and no reload of the whole plugin is due.
CaughtUp ==
    /\ pc = "idle" /\ ready /\ known = Present /\ touched = {}
    /\ tasks = {} /\ main = "done" /\ ~shutting
    /\ ~reload_required /\ ~handed

\* Once the registry has caught up, each loadable file is served with its
\* current content unless it is remembered as a duplicate: the hash check, the
\* three handlers and the loop that stops at a required reload lose no change
\* (enableConfigurationPolling).
ChangesTaken ==
    CaughtUp => \A f \in Files :
        Loadable(fs[f]) => \/ f \in duplicate
                           \/ \E k \in KeysOf(f) : handler_map[k].content = fs[f]

\* Once the registry has caught up no handler outlives its configuration:
\* its file exists and holds what the handler was built from, except that a
\* file that turned unloadable may leave the last good handler in place.
NoStaleHandler ==
    CaughtUp => \A k \in Keys : handler_map[k] # NoHandler =>
        LET now == fs[handler_map[k].file] IN
        now # NoFile /\ (Loadable(now) => now = handler_map[k].content)

\* A file is served under one id only, except between the two halves of a
\* rename in handle_query_modify, and until a required reload is carried out.
OneHandlerPerFile ==
    ~reload_required /\ ~handed /\ pc # "erase" =>
        \A f \in Files : Cardinality(KeysOf(f)) <= 1

\* Once the registry has caught up, a file rejected as a duplicate is served
\* as soon as its id is free (StoredQueryMap.h on retry_duplicates: "Retry
\* adding stored queries rejected earlier as duplicates").  It does not hold:
\* the hash of a rejected file is the current one, and the retry returns early.
DuplicatesRetried ==
    CaughtUp => \A f \in duplicate :
        Loadable(fs[f]) => handler_map[Lower[fs[f].id]] # NoHandler

\* Without polling no id that is served ever stops being served, whatever the
\* order of callbacks and init tasks: handle_query_ignore looks up whose handler
\* is under the id of a file that is not to be loaded, lets go of the lock and
\* erases by key, while a task may have entered the handler of another file
\* with that id since handle_query_add found the id free.
StaysServed ==
    [][\A k \in Keys : handler_map[k] # NoHandler => handler_map'[k] # NoHandler]_vars

\* A reload is required only after some file has changed (handle_query_ignore:
\* "ID changed since last update: request reload").  It does not hold: in the
\* first load a task may enter a handler under the id of a disabled file between
\* handle_query_add, which finds the id free, and handle_query_ignore.
ReloadOnlyOnChange == reload_required => edits > 0

\* wait_for_init reports success only when the id of every loadable file the
\* monitor has handled so far is being served.
InitComplete ==
    [][main = "tasks" /\ main' = "done" /\ ~shutting =>
         \A f \in known : Loadable(file_hash_map[f]) =>
             handler_map[Lower[file_hash_map[f].id]] # NoHandler]_vars

\* wait_for_init always ends, with success or with an exception: the monitor
\* thread and the init tasks cannot leave the main thread waiting.
InitEnds == <>(main \in {"done", "failed"})

\* When the edits stop, every loadable file ends up served for good with the
\* content it then has, unless it is remembered as a duplicate, the plugin is
\* to be reloaded, or the server failed to start or is going down.
EventuallyServed ==
    <>[](\/ main = "failed" \/ shutting \/ reload_required \/ handed
         \/ \A f \in Files : Loadable(fs[f]) =>
               \/ f \in duplicate
               \/ \E k \in KeysOf(f) : handler_map[k].content = fs[f])
=============================================================================
