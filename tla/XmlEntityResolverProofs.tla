----------------------- MODULE XmlEntityResolverProofs -----------------------
(***************************************************************************)
(* Proofs about XmlEntityResolver, for every set of threads, dumpers and   *)
(* schemas and for all pauses and bounds.                                  *)
(***************************************************************************)
EXTENDS XmlEntityResolver, TLAPS

-----------------------------------------------------------------------------
(* What the steps that several actions share do to the map and the tasks.  *)

\* May the memory of an erased node be taken by the node of another schema?
Foreign == Reuse /\ \E u, v \in Uris : u # v

LEMMA PointsIn ==
    ASSUME TypeOK, NEW t \in Threads
    PROVE  \A u \in Points(t) : u \in Uris /\ download_map[u] # None /\ (u = uri[t] \/ Foreign)
<1>1. uri[t] \in Uris
  BY DEF TypeOK
<1> QED  BY <1>1 DEF Points, Alive, Foreign

\* A failure count written through the iterator changes that field of the
\* node of the thread's URI, or of the node that has taken its memory, or nothing.
LEMMA WriteCount ==
    ASSUME TypeOK, NEW t \in Threads, NEW n \in Nat, Write(t, "num_failed", n)
    PROVE  /\ download_map' \in [Uris -> Downloads \cup {None}]
           /\ \A u \in Uris :
                /\ download_map'[u] = None <=> download_map[u] = None
                /\ download_map[u] # None =>
                    /\ download_map'[u].node = download_map[u].node
                    /\ download_map'[u].task = download_map[u].task
                    /\ \/ download_map'[u].num_failed = download_map[u].num_failed
                       \/ (u = uri[t] \/ Foreign) /\ download_map'[u].num_failed = n
<1>1. CASE UNCHANGED download_map
  BY <1>1 DEF TypeOK
<1>2. ASSUME NEW v \in Points(t), download_map' = [download_map EXCEPT ![v]["num_failed"] = n]
      PROVE  /\ download_map' \in [Uris -> Downloads \cup {None}]
             /\ \A u \in Uris :
                  /\ download_map'[u] = None <=> download_map[u] = None
                  /\ download_map[u] # None =>
                      /\ download_map'[u].node = download_map[u].node
                      /\ download_map'[u].task = download_map[u].task
                      /\ \/ download_map'[u].num_failed = download_map[u].num_failed
                         \/ (u = uri[t] \/ Foreign) /\ download_map'[u].num_failed = n
  <2> DEFINE d == download_map[v]
             e == [d EXCEPT !["num_failed"] = n]
  <2>1. v \in Uris /\ d \in Downloads /\ (v = uri[t] \/ Foreign)
    BY PointsIn DEF TypeOK
  <2>2. e \in Downloads /\ e.node = d.node /\ e.task = d.task /\ e.num_failed = n
    BY <2>1 DEF Downloads
  <2>3. download_map' = [download_map EXCEPT ![v] = e]
    BY <1>2
  <2> HIDE DEF e
  <2> QED  BY <2>1, <2>2, <2>3, NoneAssumption DEF TypeOK
<1> QED  BY <1>1, <1>2 DEF Write

\* The time of a failure written through the iterator leaves the other fields.
LEMMA WriteTime ==
    ASSUME TypeOK, NEW t \in Threads, NEW n \in Nat, Write(t, "last_failed", n)
    PROVE  /\ download_map' \in [Uris -> Downloads \cup {None}]
           /\ \A u \in Uris :
                /\ download_map'[u] = None <=> download_map[u] = None
                /\ download_map[u] # None =>
                    /\ download_map'[u].node = download_map[u].node
                    /\ download_map'[u].task = download_map[u].task
                    /\ download_map'[u].num_failed = download_map[u].num_failed
<1>1. CASE UNCHANGED download_map
  BY <1>1 DEF TypeOK
<1>2. ASSUME NEW v \in Points(t), download_map' = [download_map EXCEPT ![v]["last_failed"] = n]
      PROVE  /\ download_map' \in [Uris -> Downloads \cup {None}]
             /\ \A u \in Uris :
                  /\ download_map'[u] = None <=> download_map[u] = None
                  /\ download_map[u] # None =>
                      /\ download_map'[u].node = download_map[u].node
                      /\ download_map'[u].task = download_map[u].task
                      /\ download_map'[u].num_failed = download_map[u].num_failed
  <2> DEFINE d == download_map[v]
             e == [d EXCEPT !["last_failed"] = n]
  <2>1. v \in Uris /\ d \in Downloads /\ (v = uri[t] \/ Foreign)
    BY PointsIn DEF TypeOK
  <2>2. e \in Downloads /\ e.node = d.node /\ e.task = d.task /\ e.num_failed = d.num_failed
    BY <2>1 DEF Downloads
  <2>3. download_map' = [download_map EXCEPT ![v] = e]
    BY <1>2
  <2> HIDE DEF e
  <2> QED  BY <2>1, <2>2, <2>3, NoneAssumption DEF TypeOK
<1> QED  BY <1>1, <1>2 DEF Write

\* A download that ends changes the state of its task only.
LEMMA DownloadEnds ==
    ASSUME TypeOK, NEW k \in DOMAIN tasks, download(k)
    PROVE  /\ tasks' \in Seq(Tasks) /\ Len(tasks') = Len(tasks)
           /\ \A j \in DOMAIN tasks :
                /\ tasks'[j].uri = tasks[j].uri /\ tasks'[j].by = tasks[j].by
                /\ tasks'[j].output = tasks[j].output
                /\ tasks[j].state # "running" => tasks'[j].state = tasks[j].state
<1>1. PICK x \in {"ok", "failed"} : tasks' = [tasks EXCEPT ![k].state = x]
  BY DEF download
<1> DEFINE e == [tasks[k] EXCEPT !.state = x]
<1>2. tasks \in Seq(Tasks) /\ DOMAIN tasks = 1 .. Len(tasks) /\ tasks[k] \in Tasks
  BY DEF TypeOK
<1>3. /\ e \in Tasks /\ e.uri = tasks[k].uri /\ e.by = tasks[k].by
      /\ e.output = tasks[k].output
  BY <1>2 DEF Tasks
<1>4. tasks' = [tasks EXCEPT ![k] = e]
  BY <1>1
<1>5. tasks[k].state = "running"
  BY DEF download
<1> HIDE DEF e
<1> QED  BY <1>2, <1>3, <1>4, <1>5

\* A download is one of a schema that was referred to.
LEMMA TaskUris ==
    ASSUME TypeOK
    PROVE  \A k \in DOMAIN tasks : tasks[k].uri \in Uris
<1>1. \A k \in DOMAIN tasks : tasks[k] \in Tasks
  BY DEF TypeOK
<1> QED  BY <1>1 DEF Tasks

\* A download that starts is appended.
LEMMA DownloadStarts ==
    ASSUME TypeOK, NEW e \in Tasks, tasks' = Append(tasks, e)
    PROVE  /\ tasks' \in Seq(Tasks) /\ Len(tasks') = Len(tasks) + 1
           /\ DOMAIN tasks' = DOMAIN tasks \cup {Len(tasks')}
           /\ \A j \in DOMAIN tasks : tasks'[j] = tasks[j]
           /\ tasks'[Len(tasks')] = e
<1>1. tasks \in Seq(Tasks) /\ DOMAIN tasks = 1 .. Len(tasks) /\ Len(tasks) \in Nat
  BY DEF TypeOK
<1>2. tasks' \in Seq(Tasks) /\ Len(tasks') = Len(tasks) + 1 /\ DOMAIN tasks' = 1 .. Len(tasks')
  BY <1>1
<1> QED  BY <1>1, <1>2

\* The three outcomes of get_schema: a hit or a refusal, a download that is
\* shared, and a new download, in a new node or in the one there is.
LEMMA GetSchemaCases ==
    ASSUME TypeOK, NEW t \in Threads, get_schema(t)
    PROVE  /\ pc[t] = "lock" /\ mutex = None
           /\ \/ /\ pc' = [pc EXCEPT ![t] = "done"]
                 /\ \/ uri[t] \in cache /\ served' = [served EXCEPT ![t] = "schema"]
                    \/ served' = [served EXCEPT ![t] = "exception"]
                 /\ UNCHANGED <<download_map, tasks, mutex, it_d, downloading>>
              \/ /\ uri[t] \notin cache /\ download_map[uri[t]] # None
                 /\ pc' = [pc EXCEPT ![t] = "copy"]
                 /\ it_d' = [it_d EXCEPT ![t] = download_map[uri[t]].node]
                 /\ downloading' = [downloading EXCEPT ![t] = FALSE]
                 /\ UNCHANGED <<download_map, tasks, mutex, served>>
              \/ /\ uri[t] \notin cache /\ allowed[t]
                 /\ \/ /\ download_map[uri[t]] = None
                       /\ download_map' = [download_map EXCEPT ![uri[t]] =
                            [node |-> Len(tasks) + 1, task |-> 0, num_failed |-> 0,
                             last_failed |-> 0]]
                    \/ /\ download_map[uri[t]] # None
                       /\ download_map[uri[t]].num_failed # 0
                       /\ download_map[uri[t]].num_failed < GiveUp
                       /\ UNCHANGED download_map
                 /\ pc' = [pc EXCEPT ![t] = "assign"] /\ mutex' = t
                 /\ tasks' = Append(tasks, [uri |-> uri[t], by |-> t, output |-> output[t],
                                             state |-> "running"])
                 /\ it_d' = [it_d EXCEPT ![t] = download_map'[uri[t]].node]
                 /\ downloading' = [downloading EXCEPT ![t] = TRUE]
                 /\ UNCHANGED served
           /\ UNCHANGED <<cache, now, uri, output, allowed, previous, task, seen, visited>>
<1>1. uri[t] \in Uris
  BY DEF TypeOK
<1>2. CASE uri[t] \in cache \/ ~(enable_download /\ allowed[t])
  BY <1>2 DEF get_schema, Go
<1>3. CASE uri[t] \notin cache /\ allowed[t] /\ ~select_download(uri[t])
  <2>1. download_map[uri[t]] # None /\ download_map' = download_map
    BY <1>2, <1>3 DEF get_schema, select_download
  <2> QED  BY <1>2, <1>3, <2>1 DEF get_schema, Go
<1>4. CASE uri[t] \notin cache /\ allowed[t] /\ select_download(uri[t])
  <2>1. CASE ~enable_download
    BY <1>2, <2>1
  <2>2. CASE enable_download /\ download_map[uri[t]] = None
    <3>1. download_map' = [download_map EXCEPT ![uri[t]] =
             [node |-> Len(tasks) + 1, task |-> 0, num_failed |-> 0, last_failed |-> 0]]
      BY <1>1, <1>4, <2>2 DEF get_schema, TypeOK
    <3> QED  BY <1>4, <2>2, <3>1 DEF get_schema, Go
  <2>3. CASE enable_download /\ download_map[uri[t]] # None
    <3>1. download_map' = download_map
      BY <1>1, <1>4, <2>3 DEF get_schema, TypeOK
    <3>2. download_map[uri[t]].num_failed # 0 /\ download_map[uri[t]].num_failed < GiveUp
      BY <1>4, <2>3 DEF select_download, Retry
    <3> QED  BY <1>4, <2>3, <3>1, <3>2 DEF get_schema, Go
  <2> QED  BY <2>1, <2>2, <2>3
<1> QED  BY <1>2, <1>3, <1>4

-----------------------------------------------------------------------------
(* Type correctness.                                                       *)

LEMMA TypeInit == Init => TypeOK
BY ResolverAssumption DEF Init, TypeOK

\* A stored future is a download: a thread that assigns started the last one,
\* for the URI it looks for.
Assigning ==
    \A t \in Threads : pc[t] = "assign" =>
        /\ mutex = t
        /\ Len(tasks) \in DOMAIN tasks
        /\ tasks[Len(tasks)].by = t /\ tasks[Len(tasks)].uri = uri[t]
        /\ download_map[uri[t]] # None

\* assign_task stores the download that the thread has just started.
LEMMA AssignCase ==
    ASSUME TypeOK, Assigning, NEW t \in Threads, assign_task(t)
    PROVE  /\ pc[t] = "assign" /\ mutex = t /\ Len(tasks) \in DOMAIN tasks
           /\ download_map[uri[t]] \in Downloads /\ download_map[uri[t]] # None
           /\ tasks[Len(tasks)].uri = uri[t]
           /\ download_map' = [download_map EXCEPT ![uri[t]] =
                                 [download_map[uri[t]] EXCEPT !.task = Len(tasks)]]
<1> DEFINE P(k) == tasks[k].by = t /\ \A j \in DOMAIN tasks : tasks[j].by = t => j <= k
<1>1. pc[t] = "assign" /\ download_map' = [download_map EXCEPT ![uri[t]].task =
            CHOOSE k \in DOMAIN tasks : P(k)]
  BY DEF assign_task, Go
<1>2. /\ mutex = t /\ Len(tasks) \in DOMAIN tasks /\ tasks[Len(tasks)].by = t
      /\ tasks[Len(tasks)].uri = uri[t]
      /\ download_map[uri[t]] # None
  BY <1>1 DEF Assigning
<1>3. DOMAIN tasks = 1 .. Len(tasks) /\ Len(tasks) \in Nat
  BY DEF TypeOK
<1>4. P(Len(tasks))
  BY <1>2, <1>3
<1>5. \A k \in DOMAIN tasks : P(k) => k = Len(tasks)
  BY <1>2, <1>3
<1>6. (CHOOSE k \in DOMAIN tasks : P(k)) = Len(tasks)
  <2> HIDE DEF P
  <2> QED  BY <1>2, <1>4, <1>5
<1>7. download_map[uri[t]] \in Downloads
  BY <1>2 DEF TypeOK
<1> HIDE DEF P
<1> QED  BY <1>1, <1>2, <1>6, <1>7

LEMMA TypeNext == TypeOK /\ Assigning /\ [Next]_vars => TypeOK'
<1> SUFFICES ASSUME TypeOK, Assigning, [Next]_vars PROVE TypeOK'
  OBVIOUS
<1>1. ASSUME NEW t \in Threads, NEW ref \in References, NEW u \in Uris, NEW own_output \in BOOLEAN,
             resolveEntity(t, ref, u, own_output)
      PROVE  TypeOK'
  <2>1. allowed' \in [Threads -> BOOLEAN] /\ previous' \in [Threads -> BOOLEAN]
    <3>1. \/ /\ previous' = [previous EXCEPT ![t] = allowed[t]]
             /\ allowed' = [allowed EXCEPT ![t] = TRUE]
          \/ UNCHANGED <<allowed, previous>>
      BY <1>1 DEF resolveEntity, OpenScope
    <3>2. allowed[t] \in BOOLEAN /\ TRUE \in BOOLEAN
      BY DEF TypeOK
    <3> QED  BY <3>1, <3>2, Zenon DEF TypeOK
  <2> QED  BY <1>1, <2>1 DEF resolveEntity, Go, TypeOK
<1>2. ASSUME NEW t \in Threads, EndParse(t) PROVE TypeOK'
  <2>1. allowed' \in [Threads -> BOOLEAN] /\ previous' \in [Threads -> BOOLEAN]
    BY <1>2 DEF EndParse, CloseScope, TypeOK
  <2> QED  BY <1>2, <2>1 DEF EndParse, Go, TypeOK
<1>3. ASSUME NEW t \in Threads, get_schema(t) PROVE TypeOK'
  <2> DEFINE e == [uri |-> uri[t], by |-> t, output |-> output[t], state |-> "running"]
             n == [node |-> Len(tasks) + 1, task |-> 0, num_failed |-> 0, last_failed |-> 0]
  <2>1. e \in Tasks /\ n \in Downloads /\ uri[t] \in Uris /\ Len(tasks) \in Nat
    BY DEF TypeOK, Tasks, Downloads
  <2>2. download_map' \in [Uris -> Downloads \cup {None}]
    <3>1. UNCHANGED download_map \/ download_map' = [download_map EXCEPT ![uri[t]] = n]
      BY <1>3, GetSchemaCases
    <3>2. n \in Downloads \cup {None} /\ download_map \in [Uris -> Downloads \cup {None}]
      BY <2>1 DEF TypeOK
    <3> HIDE DEF n
    <3> QED  BY <3>1, <3>2, Zenon
  <2>3. tasks' \in Seq(Tasks)
    <3>1. UNCHANGED tasks \/ tasks' = Append(tasks, e)
      BY <1>3, GetSchemaCases
    <3> HIDE DEF e
    <3> QED  BY <2>1, <3>1, DownloadStarts DEF TypeOK
  <2>4. it_d' \in [Threads -> Nat]
    <3>1. \/ UNCHANGED it_d
          \/ download_map'[uri[t]] # None /\ it_d' = [it_d EXCEPT ![t] = download_map'[uri[t]].node]
      <4>1. n # None
        BY <2>1, NoneAssumption
      <4> HIDE DEF n
      <4> QED  BY <1>3, <2>1, <4>1, GetSchemaCases DEF n, TypeOK
    <3>2. download_map'[uri[t]] # None => download_map'[uri[t]].node \in Nat
      BY <2>1, <2>2 DEF Downloads
    <3> QED  BY <3>1, <3>2 DEF TypeOK
  <2>5. /\ pc' \in [Threads \cup Dumpers ->
               {"idle", "lock", "assign", "copy", "wait", "bump", "store", "done", "merge",
                "crashed"}]
        /\ mutex' \in Threads \cup Dumpers \cup {None}
        /\ served' \in [Threads -> {"nothing", "schema", "exception"}]
    BY <1>3, GetSchemaCases DEF TypeOK
  <2>6. downloading' \in [Threads -> BOOLEAN]
    <3>1. \/ UNCHANGED downloading \/ downloading' = [downloading EXCEPT ![t] = TRUE]
          \/ downloading' = [downloading EXCEPT ![t] = FALSE]
      BY <1>3, GetSchemaCases
    <3> QED  BY <3>1, Zenon DEF TypeOK
  <2>7. UNCHANGED <<cache, now, uri, output, allowed, previous, task, seen, visited>>
    BY <1>3, GetSchemaCases
  <2> QED  BY <2>2, <2>3, <2>4, <2>5, <2>6, <2>7 DEF TypeOK
<1>4. ASSUME NEW t \in Threads, assign_task(t) PROVE TypeOK'
  <2> DEFINE e == [download_map[uri[t]] EXCEPT !.task = Len(tasks)]
  <2>1. e \in Downloads
    <3>1. Len(tasks) \in Nat
      BY DEF TypeOK
    <3> QED  BY <1>4, <3>1, AssignCase DEF Downloads
  <2>2. download_map' = [download_map EXCEPT ![uri[t]] = e]
    BY <1>4, AssignCase
  <2>3. download_map' \in [Uris -> Downloads \cup {None}]
    <3> HIDE DEF e
    <3> QED  BY <2>1, <2>2 DEF TypeOK
  <2> QED  BY <1>4, <2>3 DEF assign_task, Go, locals, TypeOK
<1>5. ASSUME NEW t \in Threads, copy_task(t) PROVE TypeOK'
  <2>1. task' \in [Threads -> Nat]
    <3>1. Alive(t) => download_map[uri[t]].task \in Nat
      BY DEF Alive, TypeOK, Downloads
    <3>2. DOMAIN tasks \subseteq Nat
      BY DEF TypeOK
    <3> QED  BY <1>5, <3>1, <3>2 DEF copy_task, TypeOK
  <2> QED  BY <1>5, <2>1 DEF copy_task, Go, TypeOK
<1>6. ASSUME NEW t \in Threads, task_get(t) PROVE TypeOK'
  <2>1. download_map' \in [Uris -> Downloads \cup {None}]
    BY <1>6, WriteCount DEF task_get
  <2> QED  BY <1>6, <2>1 DEF task_get, Go, TypeOK
<1>7. ASSUME NEW t \in Threads, task_failed(t) PROVE TypeOK'
  <2>1. \A n \in Read(t) : n \in Nat
    <3>1. \A u \in Points(t) : download_map[u].num_failed \in Nat
      BY PointsIn DEF TypeOK, Downloads
    <3>2. 0 .. GiveUp \subseteq Nat
      BY ResolverAssumption
    <3> QED  BY <3>1, <3>2 DEF Read
  <2>2. seen' \in [Threads -> Nat]
    <3>1. \E n \in Nat : seen' = [seen EXCEPT ![t] = n] \/ UNCHANGED seen
      BY <1>7, <2>1 DEF task_failed
    <3> QED  BY <3>1 DEF TypeOK
  <2> QED  BY <1>7, <2>2 DEF task_failed, Go, TypeOK
<1>8. ASSUME NEW t \in Threads, count_failure(t) PROVE TypeOK'
  <2>1. seen[t] + 1 \in Nat
    BY DEF TypeOK
  <2>2. download_map' \in [Uris -> Downloads \cup {None}]
    BY <1>8, <2>1, WriteCount DEF count_failure
  <2> QED  BY <1>8, <2>2 DEF count_failure, Go, locals, TypeOK
<1>9. ASSUME NEW t \in Threads, store_time(t) PROVE TypeOK'
  <2>1. now \in Nat
    BY DEF TypeOK
  <2>2. download_map' \in [Uris -> Downloads \cup {None}]
    BY <1>9, <2>1, WriteTime DEF store_time
  <2> QED  BY <1>9, <2>2 DEF store_time, Go, TypeOK
<1>10. ASSUME NEW d \in Dumpers, merge_lock(d) \/ merge_end(d) PROVE TypeOK'
  BY <1>10 DEF merge_lock, merge_end, Go, locals, TypeOK
<1>11. ASSUME NEW d \in Dumpers, NEW u \in Uris, merge_entry(d, u) PROVE TypeOK'
  <2>1. download_map' \in [Uris -> Downloads \cup {None}] /\ cache' \in SUBSET Uris
    BY <1>11 DEF merge_entry, TypeOK
  <2> QED  BY <1>11, <2>1 DEF merge_entry, locals, TypeOK
<1>12. ASSUME NEW k \in DOMAIN tasks, download(k) PROVE TypeOK'
  BY <1>12, DownloadEnds DEF download, locals, TypeOK
<1>13. CASE Tick
  BY <1>13 DEF Tick, locals, TypeOK
<1>14. CASE UNCHANGED vars
  BY <1>14 DEF vars, locals, TypeOK
<1>15. ASSUME NEW t \in Threads, Crash(t) PROVE TypeOK'
  BY <1>15 DEF Crash, locals, TypeOK
<1> QED
  BY <1>1, <1>2, <1>3, <1>4, <1>5, <1>6, <1>7, <1>8, <1>9, <1>10, <1>11, <1>12, <1>13, <1>14, <1>15
     DEF Next, ThreadStep, DumperStep

-----------------------------------------------------------------------------
(* The structure of the map and the downloads: the inductive invariant.    *)

\* The cache is merged with the mutex held.
Merging == \A d \in Dumpers : pc[d] = "merge" => mutex = d

\* The future of a node is a download of its URI, or has not been stored yet:
\* then the thread that will store it holds the mutex, and only its iterator
\* points to the node.
Nodes ==
    \A u \in Uris : download_map[u] # None =>
        LET d == download_map[u] IN
        /\ d.node \in 1 .. Len(tasks)
        /\ \/ d.task \in DOMAIN tasks /\ tasks[d.task].uri = u
           \/ /\ d.task = 0
              /\ mutex \in Threads /\ pc[mutex] = "assign" /\ uri[mutex] = u
              /\ \A s \in Threads : it_d[s] = d.node => s = mutex

Iterators == \A t \in Threads : it_d[t] <= Len(tasks)

\* A thread waits for a download, of the schema it looks for unless the memory
\* of the node it selected has been taken.
Waiting ==
    \A t \in Threads : pc[t] \in {"wait", "bump", "store"} =>
        task[t] \in DOMAIN tasks /\ (tasks[task[t]].uri = uri[t] \/ Foreign)

Structure == Assigning /\ Merging /\ Nodes /\ Iterators /\ Waiting

\* The flag of the thread is that of its DownloadScope.
Scopes ==
    \A t \in Threads :
        /\ allowed[t] = output[t] /\ previous[t] = FALSE
        /\ pc[t] = "idle" => output[t] = FALSE

FailedOnce(u) == \E k \in DOMAIN tasks : tasks[k].uri = u /\ tasks[k].state = "failed"

\* Failures are counted only after one, and what was downloaded is in the
\* map or in the cache.
Counts ==
    /\ \A u \in Uris : download_map[u] # None /\ download_map[u].num_failed # 0 => FailedOnce(u)
    /\ \A t \in Threads : pc[t] = "bump" => FailedOnce(uri[t])
    /\ \A k \in DOMAIN tasks : tasks[k].uri \in cache \/ download_map[tasks[k].uri] # None

-----------------------------------------------------------------------------
\* Downloads are never forgotten, and a finished one keeps its result.
TasksKept ==
    /\ Len(tasks) <= Len(tasks')
    /\ DOMAIN tasks \subseteq DOMAIN tasks'
    /\ \A j \in DOMAIN tasks :
        /\ tasks'[j].uri = tasks[j].uri /\ tasks'[j].output = tasks[j].output
        /\ tasks[j].state # "running" => tasks'[j].state = tasks[j].state

LEMMA TasksGrow == TypeOK /\ [Next]_vars => TasksKept
<1> SUFFICES ASSUME TypeOK, [Next]_vars PROVE TasksKept
  OBVIOUS
<1>1. tasks \in Seq(Tasks) /\ Len(tasks) \in Nat /\ DOMAIN tasks = 1 .. Len(tasks)
  BY DEF TypeOK
<1>2. ASSUME UNCHANGED tasks PROVE TasksKept
  BY <1>1, <1>2 DEF TasksKept
<1>3. ASSUME NEW k \in DOMAIN tasks, download(k) PROVE TasksKept
  <2>1. tasks' \in Seq(Tasks) /\ Len(tasks') = Len(tasks)
    BY <1>3, DownloadEnds
  <2>2. DOMAIN tasks' = 1 .. Len(tasks')
    BY <2>1
  <2> QED  BY <1>1, <1>3, <2>1, <2>2, DownloadEnds DEF TasksKept
<1>4. ASSUME NEW t \in Threads, get_schema(t), ~UNCHANGED tasks PROVE TasksKept
  <2> DEFINE e == [uri |-> uri[t], by |-> t, output |-> output[t], state |-> "running"]
  <2>1. e \in Tasks
    BY DEF TypeOK, Tasks
  <2>2. tasks' = Append(tasks, e)
    BY <1>4, GetSchemaCases
  <2> HIDE DEF e
  <2> QED  BY <1>1, <2>1, <2>2, DownloadStarts DEF TasksKept
<1> QED
  BY <1>2, <1>3, <1>4 DEF Next, ThreadStep, DumperStep, vars, resolveEntity, EndParse, assign_task,
     copy_task, task_get, task_failed, count_failure, store_time, merge_lock, merge_end, merge_entry, Tick, Crash

\* The nodes of the map, their futures apart from their failures, stay.
MapKept ==
    \A u \in Uris :
        /\ download_map'[u] = None <=> download_map[u] = None
        /\ download_map[u] # None =>
            /\ download_map'[u].node = download_map[u].node
            /\ download_map'[u].task = download_map[u].task

\* A step that starts no download and stores no future keeps the structure.
LEMMA QuietStructure ==
    ASSUME TypeOK, TypeOK', Structure, TasksKept, MapKept, Len(tasks') = Len(tasks),
           \A j \in DOMAIN tasks : tasks'[j].by = tasks[j].by,
           \A t \in Threads :
             /\ pc'[t] = "assign" <=> pc[t] = "assign"
             /\ pc[t] = "assign" => uri'[t] = uri[t] /\ mutex' = mutex
             /\ it_d'[t] = it_d[t] \/ it_d'[t] = 0
             /\ pc'[t] \in {"wait", "bump", "store"} =>
                  task'[t] \in DOMAIN tasks /\ (tasks[task'[t]].uri = uri'[t] \/ Foreign),
           Merging'
    PROVE  Structure'
<1>1. /\ Len(tasks) \in Nat /\ DOMAIN tasks = 1 .. Len(tasks) /\ DOMAIN tasks' = DOMAIN tasks
      /\ \A j \in DOMAIN tasks : tasks'[j].uri = tasks[j].uri
  BY DEF TypeOK, TasksKept
<1>2. Assigning'
  <2> SUFFICES ASSUME NEW t \in Threads, pc'[t] = "assign"
               PROVE  /\ mutex' = t /\ Len(tasks') \in DOMAIN tasks'
                      /\ tasks'[Len(tasks')].by = t /\ tasks'[Len(tasks')].uri = uri'[t]
                      /\ download_map'[uri'[t]] # None
    BY DEF Assigning
  <2>1. /\ mutex' = t /\ Len(tasks) \in DOMAIN tasks /\ uri'[t] = uri[t]
        /\ tasks[Len(tasks)].by = t /\ tasks[Len(tasks)].uri = uri[t]
        /\ download_map[uri[t]] # None
    BY DEF Structure, Assigning
  <2>2. uri[t] \in Uris
    BY DEF TypeOK
  <2> QED  BY <1>1, <2>1, <2>2 DEF MapKept
<1>3. Nodes'
  <2> SUFFICES ASSUME NEW u \in Uris, download_map'[u] # None
               PROVE  LET d == download_map'[u] IN
                      /\ d.node \in 1 .. Len(tasks')
                      /\ \/ d.task \in DOMAIN tasks' /\ tasks'[d.task].uri = u
                         \/ /\ d.task = 0
                            /\ mutex' \in Threads /\ pc'[mutex'] = "assign" /\ uri'[mutex'] = u
                            /\ \A s \in Threads : it_d'[s] = d.node => s = mutex'
    BY DEF Nodes
  <2>1. /\ download_map[u] # None /\ download_map'[u].node = download_map[u].node
        /\ download_map'[u].task = download_map[u].task
    BY DEF MapKept
  <2>2. download_map[u].node \in 1 .. Len(tasks)
    BY <2>1 DEF Structure, Nodes
  <2>3. CASE download_map[u].task \in DOMAIN tasks /\ tasks[download_map[u].task].uri = u
    BY <1>1, <2>1, <2>2, <2>3
  <2>4. CASE /\ download_map[u].task = 0
             /\ mutex \in Threads /\ pc[mutex] = "assign" /\ uri[mutex] = u
             /\ \A s \in Threads : it_d[s] = download_map[u].node => s = mutex
    <3>1. mutex' = mutex /\ pc'[mutex] = "assign" /\ uri'[mutex] = u
      BY <2>4
    <3>2. \A s \in Threads : it_d'[s] = download_map[u].node => s = mutex
      BY <1>1, <2>2, <2>4
    <3> QED  BY <1>1, <2>1, <2>2, <2>4, <3>1, <3>2
  <2> QED  BY <2>1, <2>3, <2>4 DEF Structure, Nodes
<1>4. Iterators'
  BY <1>1 DEF Structure, Iterators
<1>5. Waiting'
  BY <1>1 DEF Waiting
<1> QED  BY <1>2, <1>3, <1>4, <1>5 DEF Structure

\* get_schema starts a download, or shares the one there is.
LEMMA GetSchemaStructure ==
    ASSUME TypeOK, TypeOK', Structure, TasksKept, NEW t \in Threads, get_schema(t)
    PROVE  Structure'
<1>1. /\ pc[t] = "lock" /\ mutex = None /\ UNCHANGED <<uri, task>> /\ uri[t] \in Uris
      /\ Len(tasks) \in Nat /\ DOMAIN tasks = 1 .. Len(tasks)
  <2>1. uri[t] \in Uris /\ Len(tasks) \in Nat /\ DOMAIN tasks = 1 .. Len(tasks)
    BY DEF TypeOK
  <2> QED  BY <2>1, GetSchemaCases
<1>2. \A s \in Threads : pc[s] # "assign"
  BY <1>1, ResolverAssumption DEF Structure, Assigning
<1>3. \A d \in Dumpers : pc[d] # "merge" /\ d # t
  BY <1>1, ResolverAssumption DEF Structure, Merging
<1>4. \A u \in Uris : download_map[u] # None =>
        /\ download_map[u].node \in 1 .. Len(tasks)
        /\ download_map[u].task \in DOMAIN tasks /\ tasks[download_map[u].task].uri = u
  BY <1>1, ResolverAssumption DEF Structure, Nodes
<1>5. CASE UNCHANGED <<download_map, tasks, mutex, it_d>> /\ pc' = [pc EXCEPT ![t] = "done"]
  <2>1. MapKept /\ Merging'
    BY <1>3, <1>5 DEF MapKept, Merging, TypeOK
  <2>2. \A s \in Threads :
             /\ pc'[s] = "assign" <=> pc[s] = "assign"
             /\ pc[s] = "assign" => uri'[s] = uri[s] /\ mutex' = mutex
             /\ it_d'[s] = it_d[s] \/ it_d'[s] = 0
             /\ pc'[s] \in {"wait", "bump", "store"} =>
                  task'[s] \in DOMAIN tasks /\ (tasks[task'[s]].uri = uri'[s] \/ Foreign)
    BY <1>1, <1>5 DEF Structure, Waiting, TypeOK
  <2> QED  BY <1>5, <2>1, <2>2, QuietStructure
<1>6. CASE /\ UNCHANGED <<download_map, tasks, mutex>> /\ pc' = [pc EXCEPT ![t] = "copy"]
           /\ download_map[uri[t]] # None
           /\ it_d' = [it_d EXCEPT ![t] = download_map[uri[t]].node]
  <2>1. Assigning' /\ Merging'
    BY <1>2, <1>3, <1>6 DEF Assigning, Merging, TypeOK
  <2>2. Nodes'
    BY <1>4, <1>6 DEF Nodes
  <2>3. Iterators'
    <3>1. download_map[uri[t]].node <= Len(tasks)
      BY <1>1, <1>4, <1>6
    <3> QED  BY <1>6, <3>1 DEF Structure, Iterators, TypeOK
  <2>4. Waiting'
    BY <1>1, <1>6 DEF Structure, Waiting, TypeOK
  <2> QED  BY <2>1, <2>2, <2>3, <2>4 DEF Structure
<1>7. CASE /\ pc' = [pc EXCEPT ![t] = "assign"] /\ mutex' = t
           /\ tasks' = Append(tasks, [uri |-> uri[t], by |-> t, output |-> output[t],
                                       state |-> "running"])
           /\ it_d' = [it_d EXCEPT ![t] = download_map'[uri[t]].node]
           /\ \/ /\ download_map[uri[t]] = None
                 /\ download_map' = [download_map EXCEPT ![uri[t]] =
                            [node |-> Len(tasks) + 1, task |-> 0, num_failed |-> 0,
                             last_failed |-> 0]]
              \/ download_map[uri[t]] # None /\ UNCHANGED download_map
  <2> DEFINE e == [uri |-> uri[t], by |-> t, output |-> output[t], state |-> "running"]
             n == [node |-> Len(tasks) + 1, task |-> 0, num_failed |-> 0, last_failed |-> 0]
  <2>1. e \in Tasks /\ e.uri = uri[t] /\ e.by = t
    BY DEF TypeOK, Tasks
  <2>2. n \in Downloads /\ n # None /\ n.node = Len(tasks) + 1 /\ n.task = 0
    BY <1>1, NoneAssumption DEF Downloads
  <2>3. /\ Len(tasks') = Len(tasks) + 1 /\ DOMAIN tasks' = DOMAIN tasks \cup {Len(tasks')}
        /\ \A j \in DOMAIN tasks : tasks'[j] = tasks[j]
        /\ tasks'[Len(tasks')].uri = uri[t] /\ tasks'[Len(tasks')].by = t
    <3>1. tasks' = Append(tasks, e)
      BY <1>7
    <3> HIDE DEF e
    <3> QED  BY <2>1, <3>1, DownloadStarts
  <2>4. \/ download_map[uri[t]] = None /\ download_map' = [download_map EXCEPT ![uri[t]] = n]
        \/ download_map[uri[t]] # None /\ UNCHANGED download_map
    BY <1>7
  <2> HIDE DEF e, n
  <2>5. download_map'[uri[t]] # None
    BY <1>1, <2>2, <2>4 DEF TypeOK
  <2>6. Assigning'
    <3>1. \A s \in Threads : pc'[s] = "assign" => s = t
      BY <1>2, <1>7 DEF TypeOK
    <3> QED  BY <1>1, <1>7, <2>3, <2>5, <3>1 DEF Assigning
  <2>7. Merging'
    BY <1>3, <1>7 DEF Merging, TypeOK
  <2>8. Iterators'
    <3>1. download_map'[uri[t]].node <= Len(tasks) + 1
      BY <1>1, <1>4, <2>2, <2>4 DEF TypeOK
    <3>2. \A s \in Threads : it_d[s] \in Nat /\ it_d[s] <= Len(tasks) + 1
      BY <1>1 DEF Structure, Iterators, TypeOK
    <3> QED  BY <1>7, <2>3, <3>1, <3>2 DEF Iterators, TypeOK
  <2>9. Nodes'
    <3> SUFFICES ASSUME NEW u \in Uris, download_map'[u] # None
                 PROVE  LET d == download_map'[u] IN
                        /\ d.node \in 1 .. Len(tasks')
                        /\ \/ d.task \in DOMAIN tasks' /\ tasks'[d.task].uri = u
                           \/ /\ d.task = 0
                              /\ mutex' \in Threads /\ pc'[mutex'] = "assign" /\ uri'[mutex'] = u
                              /\ \A s \in Threads : it_d'[s] = d.node => s = mutex'
      BY DEF Nodes
    <3>1. CASE download_map'[u] = download_map[u]
      BY <1>1, <1>4, <2>3, <3>1
    <3>2. CASE download_map'[u] # download_map[u]
      <4>1. u = uri[t] /\ download_map'[u] = n
        BY <1>1, <2>4, <3>2 DEF TypeOK
      <4>2. mutex' \in Threads /\ pc'[mutex'] = "assign" /\ uri'[mutex'] = u
        BY <1>1, <1>7, <4>1 DEF TypeOK
      <4>3. \A s \in Threads : it_d'[s] = n.node => s = mutex'
        BY <1>1, <1>7, <2>2 DEF Structure, Iterators, TypeOK
      <4>4. n.node \in 1 .. Len(tasks')
        BY <1>1, <2>2, <2>3
      <4> QED  BY <2>2, <4>1, <4>2, <4>3, <4>4
    <3> QED  BY <3>1, <3>2
  <2>10. Waiting'
    BY <1>1, <1>7, <2>3 DEF Structure, Waiting, TypeOK
  <2> QED  BY <2>6, <2>7, <2>8, <2>9, <2>10 DEF Structure
<1> QED  BY <1>5, <1>6, <1>7, GetSchemaCases

\* assign_task stores the future and releases the mutex.
LEMMA AssignStructure ==
    ASSUME TypeOK, TypeOK', Structure, NEW t \in Threads, assign_task(t)
    PROVE  Structure'
<1> DEFINE e == [download_map[uri[t]] EXCEPT !.task = Len(tasks)]
<1>1. /\ pc[t] = "assign" /\ mutex = t /\ Len(tasks) \in DOMAIN tasks /\ uri[t] \in Uris
      /\ tasks[Len(tasks)].uri = uri[t] /\ download_map[uri[t]] # None
      /\ download_map' = [download_map EXCEPT ![uri[t]] = e]
      /\ Len(tasks) \in Nat /\ DOMAIN tasks = 1 .. Len(tasks)
  <2>1. uri[t] \in Uris /\ Len(tasks) \in Nat /\ DOMAIN tasks = 1 .. Len(tasks)
    BY DEF TypeOK
  <2> QED  BY <2>1, AssignCase DEF Structure
<1>2. e.node = download_map[uri[t]].node /\ e.task = Len(tasks)
  <2>1. download_map[uri[t]] \in Downloads
    BY AssignCase DEF Structure
  <2> QED  BY <2>1 DEF Downloads
<1>3. UNCHANGED <<tasks, uri, task, it_d>> /\ mutex' = None /\ pc' = [pc EXCEPT ![t] = "copy"]
  BY DEF assign_task, Go, locals
<1> HIDE DEF e
<1>4. \A s \in Threads : pc'[s] # "assign"
  BY <1>1, <1>3 DEF Structure, Assigning, TypeOK
<1>5. Assigning'
  BY <1>4 DEF Assigning
<1>6. Merging'
  BY <1>1, <1>3, ResolverAssumption DEF Structure, Merging, TypeOK
<1>7. Nodes'
  <2>1. ASSUME NEW u \in Uris, download_map'[u] # None
        PROVE  /\ download_map'[u].node \in 1 .. Len(tasks)
               /\ download_map'[u].task \in DOMAIN tasks
               /\ tasks[download_map'[u].task].uri = u
    <3>1. CASE u = uri[t]
      <4>1. download_map[u].node \in 1 .. Len(tasks)
        BY <1>1, <3>1 DEF Structure, Nodes
      <4>2. download_map'[u] = e
        BY <1>1, <3>1 DEF TypeOK
      <4> QED  BY <1>1, <1>2, <3>1, <4>1, <4>2
    <3>2. CASE u # uri[t]
      <4>1. download_map'[u] = download_map[u]
        BY <1>1, <3>2 DEF TypeOK
      <4> QED  BY <1>1, <2>1, <3>2, <4>1 DEF Structure, Nodes
    <3> QED  BY <3>1, <3>2
  <2> QED  BY <1>3, <2>1 DEF Nodes
<1>8. Iterators'
  BY <1>3 DEF Structure, Iterators
<1>9. Waiting'
  BY <1>3 DEF Structure, Waiting, TypeOK
<1> QED  BY <1>5, <1>6, <1>7, <1>8, <1>9 DEF Structure

\* merge_downloaded_schemas takes nodes out of the map.
LEMMA MergeStructure ==
    ASSUME TypeOK, TypeOK', Structure, NEW d \in Dumpers, NEW v \in Uris, merge_entry(d, v)
    PROVE  Structure'
<1>1. mutex = d /\ d \notin Threads
  BY ResolverAssumption DEF merge_entry, Structure, Merging
<1>2. UNCHANGED <<tasks, mutex, pc, uri, task, it_d>>
  BY DEF merge_entry, locals
<1>3. \A s \in Threads : pc[s] # "assign"
  BY <1>1 DEF Structure, Assigning
<1>4. \A u \in Uris : download_map'[u] # None =>
          download_map[u] # None /\ download_map'[u] = download_map[u]
  BY DEF merge_entry, TypeOK
<1>5. Nodes'
  BY <1>2, <1>4 DEF Structure, Nodes
<1> QED  BY <1>2, <1>3, <1>5 DEF Structure, Assigning, Merging, Iterators, Waiting

LEMMA StructureNext ==
    ASSUME TypeOK, Structure, [Next]_vars
    PROVE  Structure'
<1>1. TypeOK' /\ TasksKept
  BY TypeNext, TasksGrow DEF Structure
<1> DEFINE Moves(t) ==
             /\ pc'[t] = "assign" <=> pc[t] = "assign"
             /\ pc[t] = "assign" => uri'[t] = uri[t] /\ mutex' = mutex
             /\ it_d'[t] = it_d[t] \/ it_d'[t] = 0
             /\ pc'[t] \in {"wait", "bump", "store"} =>
                  task'[t] \in DOMAIN tasks /\ (tasks[task'[t]].uri = uri'[t] \/ Foreign)
<1>2. ASSUME UNCHANGED download_map PROVE MapKept
  BY <1>2 DEF MapKept
<1>3. ASSUME UNCHANGED tasks, MapKept, Merging', \A t \in Threads : Moves(t) PROVE Structure'
  BY <1>1, <1>3, QuietStructure
<1>4. ASSUME NEW t \in Threads, NEW ref \in References, NEW u \in Uris, NEW own_output \in BOOLEAN,
             resolveEntity(t, ref, u, own_output)
      PROVE  Structure'
  <2>1. Merging'
    BY <1>4, ResolverAssumption DEF resolveEntity, Go, Structure, Merging, TypeOK
  <2>2. \A s \in Threads : Moves(s)
    BY <1>4 DEF resolveEntity, Go, Structure, Waiting, TypeOK
  <2>3. UNCHANGED <<tasks, download_map>>
    BY <1>4 DEF resolveEntity
  <2> QED  BY <1>2, <1>3, <2>1, <2>2, <2>3
<1>5. ASSUME NEW t \in Threads, EndParse(t) PROVE Structure'
  <2>1. Merging'
    BY <1>5, ResolverAssumption DEF EndParse, Go, Structure, Merging, TypeOK
  <2>2. \A s \in Threads : Moves(s)
    BY <1>5 DEF EndParse, Go, Structure, Waiting, TypeOK
  <2>3. UNCHANGED <<tasks, download_map>>
    BY <1>5 DEF EndParse
  <2> QED  BY <1>2, <1>3, <2>1, <2>2, <2>3
<1>6. ASSUME NEW t \in Threads, copy_task(t) PROVE Structure'
  <2>1. Merging'
    BY <1>6, ResolverAssumption DEF copy_task, Go, Structure, Merging, TypeOK
  <2>2. pc[t] = "copy" /\ pc' = [pc EXCEPT ![t] = "wait"] /\ UNCHANGED <<tasks, download_map, mutex, uri, it_d>>
    BY <1>6 DEF copy_task, Go
  <2>3. PICK k \in DOMAIN tasks :
             (tasks[k].uri = uri[t] \/ Foreign) /\ task' = [task EXCEPT ![t] = k]
    <3>1. CASE Alive(t) /\ task' = [task EXCEPT ![t] = download_map[uri[t]].task]
      <4>1. uri[t] \in Uris /\ download_map[uri[t]] # None /\ download_map[uri[t]].node = it_d[t]
        BY <3>1 DEF Alive, TypeOK
      <4>2. /\ download_map[uri[t]].task \in DOMAIN tasks
            /\ tasks[download_map[uri[t]].task].uri = uri[t]
        BY <2>2, <4>1 DEF Structure, Nodes
      <4> QED  BY <3>1, <4>2
    <3>2. CASE ~Alive(t)
      <4>1. PICK k \in DOMAIN tasks :
                 (tasks[k].uri = uri[t] \/ Reuse) /\ task' = [task EXCEPT ![t] = k]
        BY <1>6, <3>2 DEF copy_task
      <4>2. tasks[k].uri \in Uris /\ uri[t] \in Uris
        BY TaskUris DEF TypeOK
      <4> QED  BY <4>1, <4>2 DEF Foreign
    <3> QED  BY <1>6, <3>1, <3>2 DEF copy_task
  <2>4. \A s \in Threads : Moves(s)
    BY <2>2, <2>3 DEF Structure, Waiting, TypeOK
  <2> QED  BY <1>2, <1>3, <2>1, <2>2, <2>4
<1>7. ASSUME NEW t \in Threads, task_get(t) \/ count_failure(t) PROVE Structure'
  <2>1. Merging'
    BY <1>7, ResolverAssumption DEF task_get, count_failure, Go, Structure, Merging, TypeOK
  <2>2. \A s \in Threads : Moves(s)
    BY <1>7 DEF task_get, count_failure, Go, Structure, Waiting, TypeOK, locals
  <2>3. MapKept
    <3>1. seen[t] + 1 \in Nat
      BY DEF TypeOK
    <3> QED  BY <1>7, <3>1, WriteCount DEF task_get, count_failure, MapKept
  <2> QED  BY <1>3, <1>7, <2>1, <2>2, <2>3 DEF task_get, count_failure
<1>8. ASSUME NEW t \in Threads, task_failed(t) PROVE Structure'
  <2>1. /\ UNCHANGED <<tasks, download_map, mutex, uri, task, it_d>>
        /\ pc[t] = "wait" /\ \E p \in {"bump", "done"} : pc' = [pc EXCEPT ![t] = p]
    BY <1>8 DEF task_failed, Go
  <2>2. Merging'
    BY <2>1, ResolverAssumption DEF Structure, Merging, TypeOK
  <2>3. \A s \in Threads : Moves(s)
    BY <2>1 DEF Structure, Waiting, TypeOK
  <2> QED  BY <1>2, <1>3, <2>1, <2>2, <2>3
<1>9. ASSUME NEW t \in Threads, store_time(t) PROVE Structure'
  <2>1. Merging'
    BY <1>9, ResolverAssumption DEF store_time, Go, Structure, Merging, TypeOK
  <2>2. \A s \in Threads : Moves(s)
    BY <1>9 DEF store_time, Go, Structure, Waiting, TypeOK
  <2>3. MapKept
    <3>1. now \in Nat
      BY DEF TypeOK
    <3> QED  BY <1>9, <3>1, WriteTime DEF store_time, MapKept
  <2> QED  BY <1>3, <1>9, <2>1, <2>2, <2>3 DEF store_time
<1>10. ASSUME NEW d \in Dumpers, merge_lock(d) \/ merge_end(d) PROVE Structure'
  <2>1. d \notin Threads /\ (mutex = None \/ mutex = d) /\ None \notin Threads
    BY <1>10, ResolverAssumption DEF merge_lock, merge_end, Go, Structure, Merging
  <2>2. \A s \in Threads : pc[s] # "assign"
    BY <2>1 DEF Structure, Assigning
  <2>3. Merging'
    BY <1>10, <2>1, ResolverAssumption DEF merge_lock, merge_end, Go, Structure, Merging, TypeOK
  <2>4. \A s \in Threads : Moves(s)
    BY <1>10, <2>1, <2>2 DEF merge_lock, merge_end, Go, Structure, Waiting, TypeOK, locals
  <2>5. UNCHANGED <<tasks, download_map>>
    BY <1>10 DEF merge_lock, merge_end
  <2> QED  BY <1>2, <1>3, <2>3, <2>4, <2>5
<1>11. ASSUME NEW k \in DOMAIN tasks, download(k) PROVE Structure'
  <2>1. UNCHANGED <<download_map, mutex, pc, uri, task, it_d>>
    BY <1>11 DEF download, locals
  <2>2. Merging' /\ \A s \in Threads : Moves(s)
    BY <2>1 DEF Structure, Merging, Waiting
  <2> QED  BY <1>1, <1>2, <1>11, <2>1, <2>2, DownloadEnds, QuietStructure
<1>12. CASE Tick \/ UNCHANGED vars
  <2>1. UNCHANGED <<tasks, download_map, mutex, pc, uri, task, it_d>>
    BY <1>12 DEF Tick, vars, locals
  <2>2. Merging' /\ \A s \in Threads : Moves(s)
    BY <2>1 DEF Structure, Merging, Waiting
  <2> QED  BY <1>2, <1>3, <2>1, <2>2
<1>13. ASSUME NEW t \in Threads, Crash(t) PROVE Structure'
  <2>1. /\ UNCHANGED <<tasks, download_map, mutex, uri, task, it_d>>
        /\ pc[t] # "assign" /\ pc' = [pc EXCEPT ![t] = "crashed"]
    BY <1>13 DEF Crash, locals
  <2>2. Merging'
    BY <2>1, ResolverAssumption DEF Structure, Merging, TypeOK
  <2>3. \A s \in Threads : Moves(s)
    BY <2>1 DEF Structure, Waiting, TypeOK
  <2> QED  BY <1>2, <1>3, <2>1, <2>2, <2>3
<1> QED
  BY <1>1, <1>4, <1>5, <1>6, <1>7, <1>8, <1>9, <1>10, <1>11, <1>12, <1>13, GetSchemaStructure,
     AssignStructure, MergeStructure DEF Next, ThreadStep, DumperStep

LEMMA StructureInit == Init => Structure
BY DEF Init, Structure, Assigning, Merging, Nodes, Iterators, Waiting

\* Type correctness of the schema resolver.
THEOREM TypeCorrect == Spec => []TypeOK
<1>1. TypeOK /\ Structure /\ [Next]_vars => TypeOK' /\ Structure'
  BY TypeNext, StructureNext DEF Structure
<1> QED  BY TypeInit, StructureInit, <1>1, PTL DEF Spec

-----------------------------------------------------------------------------
(* Downloads for the server's own output only.                             *)

LEMMA ScopesNext ==
    ASSUME TypeOK, Scopes, [Next]_vars
    PROVE  Scopes'
<1>1. ASSUME NEW t \in Threads, NEW ref \in References, NEW u \in Uris, NEW own_output \in BOOLEAN,
             resolveEntity(t, ref, u, own_output)
      PROVE  Scopes'
  <2>1. /\ pc[t] = "idle" /\ pc' = [pc EXCEPT ![t] = "lock"]
        /\ output' = [output EXCEPT ![t] = own_output]
    BY <1>1 DEF resolveEntity, Go
  <2>2. allowed[t] = FALSE /\ output[t] = FALSE /\ previous[t] = FALSE
    BY <2>1 DEF Scopes
  <2>3. CASE own_output = TRUE
    <3>1. previous' = [previous EXCEPT ![t] = FALSE] /\ allowed' = [allowed EXCEPT ![t] = TRUE]
      BY <1>1, <2>2, <2>3 DEF resolveEntity, OpenScope
    <3> QED  BY <2>1, <2>3, <3>1 DEF Scopes, TypeOK
  <2>4. CASE own_output = FALSE
    <3>1. UNCHANGED <<allowed, previous>>
      BY <1>1, <2>4 DEF resolveEntity
    <3> QED  BY <2>1, <2>2, <2>4, <3>1 DEF Scopes, TypeOK
  <2> QED  BY <2>3, <2>4
<1>2. ASSUME NEW t \in Threads, EndParse(t) PROVE Scopes'
  <2>1. pc' = [pc EXCEPT ![t] = "idle"] /\ output' = [output EXCEPT ![t] = FALSE]
    BY <1>2 DEF EndParse, Go
  <2>2. CASE output[t] = TRUE
    <3>1. allowed' = [allowed EXCEPT ![t] = FALSE] /\ UNCHANGED previous
      BY <1>2, <2>2 DEF EndParse, CloseScope, Scopes
    <3> QED  BY <2>1, <3>1 DEF Scopes, TypeOK
  <2>3. CASE output[t] = FALSE
    <3>1. UNCHANGED <<allowed, previous>> /\ allowed[t] = FALSE
      BY <1>2, <2>3 DEF EndParse, Scopes
    <3> QED  BY <2>1, <3>1 DEF Scopes, TypeOK
  <2> QED  BY <2>2, <2>3 DEF TypeOK
<1>3. ASSUME UNCHANGED <<allowed, output, previous>>,
             \A t \in Threads : pc'[t] = "idle" => pc[t] = "idle"
      PROVE  Scopes'
  BY <1>3 DEF Scopes
<1>4. ASSUME NEW t \in Threads,
             \/ get_schema(t) \/ assign_task(t) \/ copy_task(t) \/ task_get(t)
             \/ task_failed(t) \/ count_failure(t) \/ store_time(t) \/ Crash(t)
      PROVE  Scopes'
  <2>1. UNCHANGED <<allowed, output, previous>>
    BY <1>4 DEF get_schema, assign_task, copy_task, task_get, task_failed, count_failure, store_time,
       Crash, locals
  <2>2. \E p \in {"done", "assign", "copy", "wait", "bump", "store", "crashed"} :
            pc' = [pc EXCEPT ![t] = p]
    BY <1>4 DEF get_schema, assign_task, copy_task, task_get, task_failed, count_failure, store_time,
       Crash, Go
  <2> QED  BY <1>3, <2>1, <2>2 DEF TypeOK
<1>5. ASSUME NEW d \in Dumpers, merge_lock(d) \/ DumperStep(d) PROVE Scopes'
  <2>1. UNCHANGED <<allowed, output, previous>>
    BY <1>5 DEF merge_lock, merge_end, merge_entry, DumperStep, locals
  <2>2. \A t \in Threads : pc'[t] = pc[t]
    BY <1>5, ResolverAssumption DEF merge_lock, merge_end, merge_entry, DumperStep, Go, TypeOK
  <2> QED  BY <1>3, <2>1, <2>2
<1>6. CASE Tick \/ UNCHANGED vars \/ \E k \in DOMAIN tasks : download(k)
  BY <1>3, <1>6 DEF Tick, vars, download, locals
<1> QED  BY <1>1, <1>2, <1>4, <1>5, <1>6 DEF Next, ThreadStep

LEMMA OutputNext ==
    ASSUME TypeOK, Scopes, OnlyOwnOutput, [Next]_vars
    PROVE  OnlyOwnOutput'
<1>1. ASSUME NEW t \in Threads, get_schema(t), ~UNCHANGED tasks PROVE OnlyOwnOutput'
  <2> DEFINE e == [uri |-> uri[t], by |-> t, output |-> output[t], state |-> "running"]
  <2>1. tasks' = Append(tasks, e) /\ allowed[t]
    BY <1>1, GetSchemaCases
  <2>2. e \in Tasks /\ e.output
    BY <2>1 DEF Scopes, TypeOK, Tasks
  <2> HIDE DEF e
  <2> QED  BY <2>1, <2>2, DownloadStarts DEF OnlyOwnOutput
<1>2. ASSUME NEW k \in DOMAIN tasks, download(k) PROVE OnlyOwnOutput'
  <2>1. TypeOK /\ DOMAIN tasks' = DOMAIN tasks
    BY <1>2, DownloadEnds DEF TypeOK
  <2> QED  BY <1>2, <2>1, DownloadEnds DEF OnlyOwnOutput
<1>3. ASSUME UNCHANGED tasks PROVE OnlyOwnOutput'
  BY <1>3 DEF OnlyOwnOutput
<1> QED
  BY <1>1, <1>2, <1>3 DEF Next, ThreadStep, DumperStep, vars, resolveEntity, EndParse, assign_task,
     copy_task, task_get, task_failed, count_failure, store_time, merge_lock, merge_end, merge_entry, Tick, Crash

\* A download is started only for a schema of the server's own output: the
\* flag of DownloadScope never outlives the scope, so no thread that parses a
\* request starts one.
THEOREM OnlyOwnOutputDownloaded == Spec => []OnlyOwnOutput
<1>1. Init => Scopes /\ OnlyOwnOutput
  BY DEF Init, Scopes, OnlyOwnOutput
<1>2. TypeOK /\ Scopes /\ OnlyOwnOutput /\ [Next]_vars => Scopes' /\ OnlyOwnOutput'
  BY ScopesNext, OutputNext
<1> QED  BY TypeCorrect, <1>1, <1>2, PTL DEF Spec

-----------------------------------------------------------------------------
(* Schemas come from completed downloads.                                  *)

Have(u) == u \in Loaded \/ \E k \in DOMAIN tasks : tasks[k].state = "ok" /\ tasks[k].uri = u

\* What the thread t is handed: from the cache, or from the task it waited for.
Handed(t) ==
    \/ task[t] = 0 /\ uri[t] \in cache
    \/ task[t] \in DOMAIN tasks /\ tasks[task[t]].state = "ok" /\ tasks[task[t]].uri = uri[t]

\* A look-up begins without a task and is answered when it is done.
Fresh ==
    \A t \in Threads :
        /\ pc[t] \in {"idle", "lock", "assign", "copy"} => task[t] = 0
        /\ pc[t] # "done" => served[t] = "nothing"

Genuine ==
    /\ \A u \in cache : Have(u)
    /\ \A t \in Threads : served[t] = "schema" => Handed(t)

LEMMA FreshNext ==
    ASSUME TypeOK, Fresh, [Next]_vars
    PROVE  Fresh'
<1>1. ASSUME NEW t \in Threads, NEW ref \in References, NEW u \in Uris, NEW own_output \in BOOLEAN,
             resolveEntity(t, ref, u, own_output)
      PROVE  Fresh'
  BY <1>1 DEF resolveEntity, Go, Fresh, TypeOK
<1>2. ASSUME NEW t \in Threads, get_schema(t) PROVE Fresh'
  <2>1. /\ pc[t] = "lock" /\ UNCHANGED task
        /\ \/ pc' = [pc EXCEPT ![t] = "done"] /\ \E x : served' = [served EXCEPT ![t] = x]
           \/ UNCHANGED served /\ \E p \in {"copy", "assign"} : pc' = [pc EXCEPT ![t] = p]
    BY <1>2, GetSchemaCases
  <2> QED  BY <2>1 DEF Fresh, TypeOK
<1>3. ASSUME NEW t \in Threads, EndParse(t) PROVE Fresh'
  BY <1>3 DEF EndParse, Go, Fresh, TypeOK
<1>4. ASSUME NEW t \in Threads, copy_task(t) PROVE Fresh'
  <2>1. /\ pc[t] = "copy" /\ pc' = [pc EXCEPT ![t] = "wait"] /\ UNCHANGED served
        /\ \E k : task' = [task EXCEPT ![t] = k]
    BY <1>4 DEF copy_task, Go
  <2> QED  BY <2>1 DEF Fresh, TypeOK
<1>5. ASSUME NEW t \in Threads, assign_task(t) \/ count_failure(t) \/ Crash(t) PROVE Fresh'
  <2>1. /\ pc[t] \in {"assign", "copy", "wait", "bump", "store"} /\ UNCHANGED <<task, served>>
        /\ \/ pc[t] = "assign" /\ pc' = [pc EXCEPT ![t] = "copy"]
           \/ \E p \in {"store", "crashed"} : pc' = [pc EXCEPT ![t] = p]
    BY <1>5 DEF assign_task, count_failure, Crash, Go, locals
  <2> QED  BY <2>1 DEF Fresh, TypeOK
<1>6. ASSUME NEW t \in Threads, task_get(t) \/ task_failed(t) \/ store_time(t) PROVE Fresh'
  <2>1. /\ UNCHANGED task
        /\ \/ pc[t] = "wait" /\ pc' = [pc EXCEPT ![t] = "bump"] /\ UNCHANGED served
           \/ pc' = [pc EXCEPT ![t] = "done"] /\ \E x : served' = [served EXCEPT ![t] = x]
    BY <1>6 DEF task_get, task_failed, store_time, Go
  <2> QED  BY <2>1 DEF Fresh, TypeOK
<1>7. ASSUME NEW d \in Dumpers, merge_lock(d) \/ DumperStep(d) PROVE Fresh'
  <2>1. UNCHANGED <<task, served>> /\ \A t \in Threads : pc'[t] = pc[t]
    BY <1>7, ResolverAssumption DEF merge_lock, DumperStep, merge_end, merge_entry, Go, locals, TypeOK
  <2> QED  BY <2>1 DEF Fresh
<1>8. CASE Tick \/ UNCHANGED vars \/ \E k \in DOMAIN tasks : download(k)
  BY <1>8 DEF Tick, vars, download, locals, Fresh
<1> QED  BY <1>1, <1>2, <1>3, <1>4, <1>5, <1>6, <1>7, <1>8 DEF Next, ThreadStep

LEMMA GenuineNext ==
    ASSUME ~Foreign, TypeOK, Structure, Fresh, Genuine, [Next]_vars
    PROVE  Genuine'
<1>1. TasksKept /\ (\A u : Have(u) => Have(u)') /\ cache \subseteq cache'
  <2>1. TasksKept
    BY TasksGrow
  <2>2. cache \subseteq cache'
    BY DEF Next, ThreadStep, DumperStep, vars, locals, resolveEntity, EndParse, get_schema, assign_task,
       copy_task, task_get, task_failed, count_failure, store_time, merge_lock, merge_end, merge_entry,
       download, Tick, Crash
  <2> QED  BY <2>1, <2>2 DEF Have, TasksKept
<1>2. \A t \in Threads : Handed(t) /\ uri'[t] = uri[t] /\ task'[t] = task[t] => Handed(t)'
  BY <1>1 DEF Handed, TasksKept
<1>3. ASSUME UNCHANGED cache,
             \A t \in Threads : served'[t] = "schema" =>
                Handed(t)' \/ (served[t] = "schema" /\ uri'[t] = uri[t] /\ task'[t] = task[t])
      PROVE  Genuine'
  BY <1>1, <1>2, <1>3 DEF Genuine
<1>4. ASSUME NEW t \in Threads, NEW ref \in References, NEW u \in Uris, NEW own_output \in BOOLEAN,
             resolveEntity(t, ref, u, own_output)
      PROVE  Genuine'
  BY <1>3, <1>4 DEF resolveEntity, TypeOK
<1>5. ASSUME NEW t \in Threads, EndParse(t) PROVE Genuine'
  BY <1>3, <1>5 DEF EndParse, TypeOK
<1>6. ASSUME NEW t \in Threads, task_failed(t) \/ store_time(t) PROVE Genuine'
  <2>1. /\ UNCHANGED <<cache, uri, task>>
        /\ UNCHANGED served \/ served' = [served EXCEPT ![t] = "exception"]
    BY <1>6 DEF task_failed, store_time
  <2> QED  BY <1>3, <2>1 DEF TypeOK
<1>7. ASSUME NEW t \in Threads, get_schema(t) PROVE Genuine'
  <2>1. /\ UNCHANGED <<cache, uri, task>> /\ pc[t] = "lock"
        /\ \/ uri[t] \in cache /\ served' = [served EXCEPT ![t] = "schema"]
           \/ served' = [served EXCEPT ![t] = "exception"] \/ UNCHANGED served
    BY <1>7, GetSchemaCases
  <2>2. task[t] = 0
    BY <2>1 DEF Fresh
  <2>3. uri[t] \in cache => Handed(t)'
    BY <2>1, <2>2 DEF Handed
  <2> QED  BY <1>3, <2>1, <2>3 DEF TypeOK
<1>8. ASSUME NEW t \in Threads, copy_task(t) PROVE Genuine'
  <2>1. /\ UNCHANGED <<cache, uri, served>> /\ pc[t] = "copy" /\ \E k : task' = [task EXCEPT ![t] = k]
    BY <1>8 DEF copy_task, Go
  <2>2. served[t] # "schema"
    BY <2>1 DEF Fresh
  <2> QED  BY <1>3, <2>1, <2>2 DEF TypeOK
<1>9. ASSUME NEW t \in Threads, task_get(t) PROVE Genuine'
  <2>1. /\ pc[t] = "wait" /\ tasks[task[t]].state = "ok" /\ UNCHANGED <<cache, uri, tasks, task>>
        /\ served' = [served EXCEPT ![t] = "schema"]
    BY <1>9 DEF task_get, Go
  <2>2. Handed(t)'
    BY <2>1 DEF Structure, Waiting, Handed
  <2> QED  BY <1>3, <2>1, <2>2 DEF TypeOK
<1>10. ASSUME NEW d \in Dumpers, NEW u \in Uris, merge_entry(d, u) PROVE Genuine'
  <2>1. /\ pc[d] = "merge" /\ download_map[u] # None /\ UNCHANGED <<uri, served, tasks, task>>
        /\ \/ UNCHANGED cache
           \/ cache' = cache \cup {u} /\ tasks[download_map[u].task].state = "ok"
    BY <1>10 DEF merge_entry, locals
  <2>2. mutex \notin Threads
    BY <2>1, ResolverAssumption DEF Structure, Merging
  <2>3. download_map[u].task \in DOMAIN tasks /\ tasks[download_map[u].task].uri = u
    BY <2>1, <2>2 DEF Structure, Nodes
  <2>4. \A v \in cache' : Have(v)'
    BY <2>1, <2>3 DEF Genuine, Have
  <2> QED  BY <1>2, <2>1, <2>4 DEF Genuine
<1>11. ASSUME UNCHANGED <<cache, served, uri, task>> PROVE Genuine'
  BY <1>3, <1>11
<1> QED
  BY <1>4, <1>5, <1>6, <1>7, <1>8, <1>9, <1>10, <1>11 DEF Next, ThreadStep, DumperStep, vars, locals,
     assign_task, count_failure, merge_lock, merge_end, download, Tick, Crash

\* Every cached schema was loaded at the start or comes from a download of its
\* URI that succeeded, and every schema handed to a parser comes from the cache or
\* from such a download, even when a retry replaces the future or a dump erases the
\* node that a thread uses, as long as the erased node's memory is not taken by
\* another schema's node.
THEOREM SchemasAlwaysGenuine ==
    ASSUME ~Foreign
    PROVE  Spec => []SchemasGenuine
<1>1. Init => Fresh /\ Genuine
  BY DEF Init, Fresh, Genuine, Have
<1>2. TypeOK /\ Structure /\ [Next]_vars => TypeOK' /\ Structure'
  BY TypeNext, StructureNext DEF Structure
<1>3. TypeOK /\ Structure /\ Fresh /\ Genuine /\ [Next]_vars => Fresh' /\ Genuine'
  BY FreshNext, GenuineNext
<1>4. TypeOK /\ Genuine => SchemasGenuine
  <2> SUFFICES ASSUME TypeOK, Genuine PROVE SchemasGenuine
    OBVIOUS
  <2>1. DOMAIN tasks = 1 .. Len(tasks)
    BY DEF TypeOK
  <2> QED  BY <2>1 DEF Genuine, Have, Handed, SchemasGenuine
<1> QED  BY TypeInit, StructureInit, <1>1, <1>2, <1>3, <1>4, PTL DEF Spec

-----------------------------------------------------------------------------
(* Until a download fails there is one download of a schema.               *)

LEMMA CountsNext ==
    ASSUME ~Foreign, TypeOK, Structure, Counts, [Next]_vars
    PROVE  Counts'
<1>1. TasksKept /\ TypeOK' /\ \A u : FailedOnce(u) => FailedOnce(u)'
  <2>1. TasksKept
    BY TasksGrow
  <2> QED  BY <2>1, TypeNext DEF FailedOnce, TasksKept, Structure
<1>2. ASSUME Len(tasks') = Len(tasks),
             \A u \in Uris : download_map'[u] # None /\ download_map'[u].num_failed # 0 => FailedOnce(u)',
             \A u \in Uris : (u \in cache \/ download_map[u] # None)
                               => (u \in cache' \/ download_map'[u] # None),
             \A t \in Threads : pc'[t] = "bump" => FailedOnce(uri'[t])
      PROVE  Counts'
  <2>1. DOMAIN tasks' = DOMAIN tasks /\ \A k \in DOMAIN tasks : tasks[k].uri \in Uris
    <3>1. DOMAIN tasks' = 1 .. Len(tasks') /\ DOMAIN tasks = 1 .. Len(tasks)
      BY <1>1 DEF TypeOK
    <3> QED  BY <1>2, <3>1, TaskUris
  <2>2. \A k \in DOMAIN tasks' : tasks'[k].uri \in cache' \/ download_map'[tasks'[k].uri] # None
    BY <1>1, <1>2, <2>1 DEF Counts, TasksKept
  <2> QED  BY <1>1, <1>2, <2>2 DEF Counts
<1>3. ASSUME UNCHANGED <<tasks, download_map, cache>>,
             \A t \in Threads : pc'[t] = "bump" => FailedOnce(uri'[t])
      PROVE  Counts'
  BY <1>1, <1>2, <1>3 DEF Counts
<1>4. ASSUME NEW t \in Threads, NEW ref \in References, NEW u \in Uris, NEW own_output \in BOOLEAN,
             resolveEntity(t, ref, u, own_output)
      PROVE  Counts'
  BY <1>3, <1>4 DEF resolveEntity, Go, Counts, TypeOK
<1>5. ASSUME NEW t \in Threads, EndParse(t) \/ copy_task(t) PROVE Counts'
  BY <1>3, <1>5 DEF EndParse, copy_task, Go, Counts, TypeOK
<1>6. ASSUME NEW t \in Threads, get_schema(t), UNCHANGED tasks PROVE Counts'
  <2>1. /\ UNCHANGED <<uri, cache>> /\ \E p \in {"done", "copy", "assign"} : pc' = [pc EXCEPT ![t] = p]
    BY <1>6, GetSchemaCases
  <2>2. UNCHANGED download_map
    <3>1. ASSUME NEW e PROVE Append(tasks, e) # tasks
      BY DEF TypeOK
    <3> QED  BY <1>6, <3>1, GetSchemaCases
  <2> QED  BY <1>3, <1>6, <2>1, <2>2 DEF Counts, TypeOK
<1>7. ASSUME NEW t \in Threads, get_schema(t), ~UNCHANGED tasks PROVE Counts'
  <2> DEFINE e == [uri |-> uri[t], by |-> t, output |-> output[t], state |-> "running"]
             n == [node |-> Len(tasks) + 1, task |-> 0, num_failed |-> 0, last_failed |-> 0]
  <2>1. /\ tasks' = Append(tasks, e) /\ UNCHANGED <<uri, cache>> /\ pc' = [pc EXCEPT ![t] = "assign"]
        /\ \/ download_map' = [download_map EXCEPT ![uri[t]] = n]
           \/ download_map[uri[t]] # None /\ UNCHANGED download_map
    BY <1>7, GetSchemaCases
  <2>2. e \in Tasks /\ e.uri = uri[t] /\ uri[t] \in Uris
    BY DEF TypeOK, Tasks
  <2>3. n # None /\ n.num_failed = 0
    <3>1. n \in Downloads
      BY DEF TypeOK, Downloads
    <3> QED  BY <3>1, NoneAssumption
  <2> HIDE DEF e, n
  <2>4. \A u \in Uris : download_map[u] # None \/ u = uri[t] => download_map'[u] # None
    BY <2>1, <2>2, <2>3 DEF TypeOK
  <2>5. \A u \in Uris : download_map'[u] # None /\ download_map'[u].num_failed # 0 => FailedOnce(u)'
    BY <1>1, <2>1, <2>2, <2>3 DEF Counts, TypeOK
  <2>6. \A s \in Threads, u \in Uris : pc'[s] = "bump" /\ uri'[s] = u => FailedOnce(u)'
    BY <1>1, <2>1 DEF Counts, TypeOK
  <2>7. \A k \in DOMAIN tasks' : tasks'[k].uri \in cache' \/ download_map'[tasks'[k].uri] # None
    <3>1. /\ DOMAIN tasks' = DOMAIN tasks \cup {Len(tasks')} /\ tasks'[Len(tasks')] = e
          /\ \A j \in DOMAIN tasks : tasks'[j] = tasks[j]
      BY <2>1, <2>2, DownloadStarts
    <3>2. \A j \in DOMAIN tasks : tasks[j].uri \in Uris
      BY TaskUris
    <3> QED  BY <2>1, <2>2, <2>4, <3>1, <3>2 DEF Counts
  <2>8. \A s \in Threads : uri'[s] \in Uris
    BY <1>1 DEF TypeOK
  <2> QED  BY <2>5, <2>6, <2>7, <2>8 DEF Counts
<1>8. ASSUME NEW t \in Threads, assign_task(t) PROVE Counts'
  <2> DEFINE e == [download_map[uri[t]] EXCEPT !.task = Len(tasks)]
  <2>1. /\ download_map[uri[t]] \in Downloads /\ download_map[uri[t]] # None
        /\ download_map' = [download_map EXCEPT ![uri[t]] = e]
    BY <1>8, AssignCase DEF Structure
  <2>2. /\ UNCHANGED <<tasks, cache, uri>> /\ pc' = [pc EXCEPT ![t] = "copy"] /\ uri[t] \in Uris
    BY <1>8 DEF assign_task, Go, locals, TypeOK
  <2>3. e # None /\ e.num_failed = download_map[uri[t]].num_failed
    <3>1. Len(tasks) \in Nat
      BY DEF TypeOK
    <3>2. e \in Downloads
      BY <2>1, <3>1 DEF Downloads
    <3> QED  BY <2>1, <3>2, NoneAssumption DEF Downloads
  <2> HIDE DEF e
  <2>4. \A u \in Uris : /\ download_map'[u] # None <=> download_map[u] # None
                        /\ download_map'[u] # None =>
                              download_map'[u].num_failed = download_map[u].num_failed
    BY <2>1, <2>2, <2>3 DEF TypeOK
  <2> QED  BY <1>1, <1>2, <2>2, <2>4 DEF Counts, TypeOK
<1>9. ASSUME NEW t \in Threads, task_get(t) PROVE Counts'
  <2>1. UNCHANGED <<tasks, cache, uri>> /\ pc' = [pc EXCEPT ![t] = "done"]
    BY <1>9 DEF task_get, Go
  <2>2. \A u \in Uris : /\ download_map'[u] # None <=> download_map[u] # None
                        /\ download_map'[u] # None =>
                              \/ download_map'[u].num_failed = download_map[u].num_failed
                              \/ download_map'[u].num_failed = 0
    BY <1>9, WriteCount DEF task_get
  <2> QED  BY <1>1, <1>2, <2>1, <2>2 DEF Counts, TypeOK
<1>10. ASSUME NEW t \in Threads, task_failed(t) PROVE Counts'
  <2>1. /\ UNCHANGED <<tasks, cache, uri, download_map>> /\ pc[t] = "wait"
        /\ \E p \in {"bump", "done"} : pc' = [pc EXCEPT ![t] = p]
        /\ tasks[task[t]].state = "failed"
    BY <1>10 DEF task_failed, Go
  <2>2. FailedOnce(uri[t])
    BY <2>1 DEF Structure, Waiting, FailedOnce
  <2> QED  BY <1>3, <2>1, <2>2 DEF Counts, TypeOK
<1>11. ASSUME NEW t \in Threads, count_failure(t) PROVE Counts'
  <2>1. UNCHANGED <<tasks, cache, uri>> /\ pc[t] = "bump" /\ pc' = [pc EXCEPT ![t] = "store"]
    BY <1>11 DEF count_failure, Go, locals
  <2>2. seen[t] + 1 \in Nat
    BY DEF TypeOK
  <2>3. \A u \in Uris : /\ download_map'[u] # None <=> download_map[u] # None
                        /\ download_map'[u] # None =>
                              download_map'[u].num_failed = download_map[u].num_failed \/ u = uri[t]
    BY <1>11, <2>2, WriteCount DEF count_failure
  <2>4. FailedOnce(uri[t])
    BY <2>1 DEF Counts
  <2>5. \A u \in Uris : download_map'[u] # None /\ download_map'[u].num_failed # 0 => FailedOnce(u)'
    BY <1>1, <2>3, <2>4 DEF Counts
  <2>6. \A s \in Threads : pc'[s] = "bump" => FailedOnce(uri'[s])
    BY <2>1 DEF Counts, TypeOK
  <2> QED  BY <1>2, <2>1, <2>3, <2>5, <2>6
<1>12. ASSUME NEW t \in Threads, store_time(t) PROVE Counts'
  <2>1. UNCHANGED <<tasks, cache, uri>> /\ pc' = [pc EXCEPT ![t] = "done"] /\ now \in Nat
    BY <1>12 DEF store_time, Go, TypeOK
  <2>2. \A u \in Uris : /\ download_map'[u] # None <=> download_map[u] # None
                        /\ download_map'[u] # None =>
                              download_map'[u].num_failed = download_map[u].num_failed
    BY <1>12, <2>1, WriteTime DEF store_time
  <2> QED  BY <1>1, <1>2, <2>1, <2>2 DEF Counts, TypeOK
<1>13. ASSUME NEW d \in Dumpers, merge_lock(d) \/ merge_end(d) PROVE Counts'
  <2>1. UNCHANGED <<tasks, download_map, cache, uri>> /\ \A t \in Threads : pc'[t] = pc[t]
    BY <1>13, ResolverAssumption DEF merge_lock, merge_end, Go, locals, TypeOK
  <2> QED  BY <1>3, <2>1 DEF Counts
<1>14. ASSUME NEW d \in Dumpers, NEW v \in Uris, merge_entry(d, v) PROVE Counts'
  <2>1. UNCHANGED <<tasks, uri, pc>>
    BY <1>14 DEF merge_entry, locals
  <2>2. \A u \in Uris :
          /\ download_map'[u] # None => download_map'[u] = download_map[u]
          /\ u \in cache \/ download_map[u] # None => u \in cache' \/ download_map'[u] # None
    BY <1>14 DEF merge_entry, TypeOK
  <2> QED  BY <1>1, <1>2, <2>1, <2>2 DEF Counts
<1>15. ASSUME NEW k \in DOMAIN tasks, download(k) PROVE Counts'
  <2>1. UNCHANGED <<download_map, cache, pc, uri>> /\ Len(tasks') = Len(tasks)
    BY <1>15, DownloadEnds DEF download, locals
  <2> QED  BY <1>1, <1>2, <2>1 DEF Counts
<1>16. CASE Tick \/ UNCHANGED vars
  BY <1>3, <1>16 DEF Tick, vars, locals, Counts
<1>17. ASSUME NEW t \in Threads, Crash(t) PROVE Counts'
  BY <1>3, <1>17 DEF Crash, locals, Counts, TypeOK
<1> QED
  BY <1>4, <1>5, <1>6, <1>7, <1>8, <1>9, <1>10, <1>11, <1>12, <1>13, <1>14, <1>15, <1>16, <1>17
     DEF Next, ThreadStep, DumperStep

LEMMA SharedNext ==
    ASSUME TypeOK, Structure, Counts, FirstAttemptShared, [Next]_vars
    PROVE  FirstAttemptShared'
<1>1. TasksKept /\ \A u : FailedOnce(u) => FailedOnce(u)'
  <2>1. TasksKept
    BY TasksGrow
  <2> QED  BY <2>1 DEF FailedOnce, TasksKept
<1>2. \A j, k \in DOMAIN tasks : j # k /\ tasks[j].uri = tasks[k].uri => FailedOnce(tasks[k].uri)
  BY DEF FirstAttemptShared, FailedOnce
<1>3. SUFFICES \A u : \A j, k \in DOMAIN tasks' :
                  j # k /\ tasks'[j].uri = u /\ tasks'[k].uri = u => FailedOnce(u)'
  BY DEF FirstAttemptShared, FailedOnce
<1>4. ASSUME DOMAIN tasks' = DOMAIN tasks
      PROVE  \A u : \A j, k \in DOMAIN tasks' :
                  j # k /\ tasks'[j].uri = u /\ tasks'[k].uri = u => FailedOnce(u)'
  BY <1>1, <1>2, <1>4 DEF TasksKept
<1>5. ASSUME NEW t \in Threads, get_schema(t), ~UNCHANGED tasks
      PROVE  \A u : \A j, k \in DOMAIN tasks' :
                  j # k /\ tasks'[j].uri = u /\ tasks'[k].uri = u => FailedOnce(u)'
  <2> DEFINE e == [uri |-> uri[t], by |-> t, output |-> output[t], state |-> "running"]
  <2>1. /\ tasks' = Append(tasks, e) /\ uri[t] \notin cache
        /\ download_map[uri[t]] # None => download_map[uri[t]].num_failed # 0
    BY <1>5, GetSchemaCases
  <2>2. e \in Tasks /\ e.uri = uri[t] /\ uri[t] \in Uris
    BY DEF TypeOK, Tasks
  <2> HIDE DEF e
  <2>3. /\ DOMAIN tasks' = DOMAIN tasks \cup {Len(tasks')} /\ tasks'[Len(tasks')] = e
        /\ \A j \in DOMAIN tasks : tasks'[j] = tasks[j]
    BY <2>1, <2>2, DownloadStarts
  <2>4. \A j \in DOMAIN tasks : tasks[j].uri = uri[t] => FailedOnce(uri[t])
    BY <2>1, <2>2 DEF Counts
  <2> QED  BY <1>1, <1>2, <2>2, <2>3, <2>4
<1>6. ASSUME NEW k \in DOMAIN tasks, download(k) PROVE DOMAIN tasks' = DOMAIN tasks
  BY <1>6, DownloadEnds DEF TypeOK
<1> QED
  BY <1>4, <1>5, <1>6 DEF Next, ThreadStep, DumperStep, vars, resolveEntity, EndParse, assign_task,
     copy_task, task_get, task_failed, count_failure, store_time, merge_lock, merge_end, merge_entry, Tick, Crash

\* Threads that need the same schema share one download until a download of
\* it has failed, whatever dumps and retries come between (select_download),
\* as long as no erased node's memory is taken by another schema's node.
THEOREM FirstAttemptAlwaysShared ==
    ASSUME ~Foreign
    PROVE  Spec => []FirstAttemptShared
<1>1. Init => Counts /\ FirstAttemptShared
  BY DEF Init, Counts, FirstAttemptShared
<1>2. TypeOK /\ Structure /\ [Next]_vars => TypeOK' /\ Structure'
  BY TypeNext, StructureNext DEF Structure
<1>3. TypeOK /\ Structure /\ Counts /\ FirstAttemptShared /\ [Next]_vars
        => Counts' /\ FirstAttemptShared'
  BY CountsNext, SharedNext
<1> QED  BY TypeInit, StructureInit, <1>1, <1>2, <1>3, PTL DEF Spec

-----------------------------------------------------------------------------
(* Retries stop: a settled schema stays settled, for any number of threads. *)

\* Only a thread that started a download comes to count its failure.
Counters == \A t \in Threads : pc[t] = "bump" => downloading[t]

LEMMA CountersNext ==
    ASSUME TypeOK, Counters, [Next]_vars
    PROVE  Counters'
<1>1. ASSUME NEW t \in Threads, get_schema(t) PROVE Counters'
  <2>1. /\ pc[t] = "lock" /\ \E p \in {"done", "copy", "assign"} : pc' = [pc EXCEPT ![t] = p]
        /\ \/ UNCHANGED downloading \/ downloading' = [downloading EXCEPT ![t] = FALSE]
           \/ downloading' = [downloading EXCEPT ![t] = TRUE]
    BY <1>1, GetSchemaCases
  <2> QED  BY <2>1 DEF Counters, TypeOK
<1>2. ASSUME NEW t \in Threads, NEW ref \in References, NEW u \in Uris, NEW own_output \in BOOLEAN,
             resolveEntity(t, ref, u, own_output)
      PROVE  Counters'
  BY <1>2 DEF resolveEntity, Go, Counters, TypeOK
<1>3. ASSUME NEW t \in Threads,
             EndParse(t) \/ assign_task(t) \/ copy_task(t) \/ task_get(t) \/ task_failed(t)
             \/ count_failure(t) \/ store_time(t) \/ Crash(t)
      PROVE  Counters'
  <2>1. CASE EndParse(t)
    BY <2>1 DEF EndParse, Go, Counters, TypeOK
  <2>2. CASE task_failed(t)
    BY <2>2 DEF task_failed, Go, Counters, TypeOK
  <2>3. CASE copy_task(t) \/ task_get(t) \/ store_time(t)
    BY <2>3 DEF copy_task, task_get, store_time, Go, Counters, TypeOK
  <2>4. CASE assign_task(t) \/ count_failure(t) \/ Crash(t)
    <3>1. /\ UNCHANGED downloading
          /\ \E p \in {"copy", "store", "crashed"} : pc' = [pc EXCEPT ![t] = p]
      BY <2>4 DEF assign_task, count_failure, Crash, Go, locals
    <3> QED  BY <3>1 DEF Counters, TypeOK
  <2> QED  BY <1>3, <2>1, <2>2, <2>3, <2>4
<1>4. ASSUME NEW d \in Dumpers, merge_lock(d) \/ DumperStep(d) PROVE Counters'
  BY <1>4, ResolverAssumption DEF merge_lock, DumperStep, merge_end, merge_entry, Go, locals, Counters, TypeOK
<1>5. CASE Tick \/ UNCHANGED vars \/ \E k \in DOMAIN tasks : download(k)
  BY <1>5 DEF Tick, vars, download, locals, Counters
<1> QED  BY <1>1, <1>2, <1>3, <1>4, <1>5 DEF Next, ThreadStep

\* May t still write a count of the schema u other than 0?
Pending(t, u) == uri[t] = u /\ downloading[t] /\ pc[t] \in {"assign", "copy", "wait", "bump"}

LEMMA SettledNext ==
    ASSUME ~Foreign, TypeOK, Structure, Counters, [Next]_vars, NEW u \in Uris, Settled(u)
    PROVE  Settled(u)'
<1>1. \/ u \in cache
      \/ /\ u \notin cache /\ download_map[u] # None
         /\ download_map[u].num_failed \notin 1 .. GiveUp - 1
         /\ \A t \in Threads : ~Pending(t, u)
  BY DEF Settled, Pending
<1>2. CASE u \in cache
  <2>1. cache \subseteq cache'
    BY DEF Next, ThreadStep, DumperStep, vars, locals, resolveEntity, EndParse, get_schema, assign_task,
       copy_task, task_get, task_failed, count_failure, store_time, merge_lock, merge_end, merge_entry,
       download, Tick, Crash
  <2> QED  BY <1>2, <2>1 DEF Settled
<1>3. CASE /\ u \notin cache /\ download_map[u] # None
           /\ download_map[u].num_failed \notin 1 .. GiveUp - 1
           /\ \A t \in Threads : ~Pending(t, u)
  <2> DEFINE Quiet == \A s \in Threads : ~Pending(s, u)'
             Same == /\ download_map'[u] # None
                     /\ \/ download_map'[u].num_failed = download_map[u].num_failed
                        \/ download_map'[u].num_failed = 0
  <2>1. ASSUME Same, Quiet PROVE Settled(u)'
    BY <1>3, <2>1 DEF Settled, Pending
  <2>2. ASSUME UNCHANGED download_map PROVE Same
    BY <1>3, <2>2
  <2>3. ASSUME NEW t \in Threads, NEW ref \in References, NEW v \in Uris, NEW own_output \in BOOLEAN,
               resolveEntity(t, ref, v, own_output)
        PROVE  Settled(u)'
    <3>1. Quiet
      BY <1>3, <2>3 DEF resolveEntity, Go, Pending, TypeOK
    <3> QED  BY <2>1, <2>2, <2>3, <3>1 DEF resolveEntity
  <2>4. ASSUME NEW t \in Threads, EndParse(t) \/ copy_task(t) \/ task_failed(t) \/ Crash(t)
        PROVE  Settled(u)'
    <3>1. Quiet
      BY <1>3, <2>4 DEF EndParse, copy_task, task_failed, Crash, Go, locals, Pending, TypeOK
    <3> QED  BY <2>1, <2>2, <2>4, <3>1 DEF EndParse, copy_task, task_failed, Crash
  <2>5. ASSUME NEW t \in Threads, get_schema(t) PROVE Settled(u)'
    <3>1. CASE uri[t] # u
      <4>1. /\ UNCHANGED uri /\ \E p : pc' = [pc EXCEPT ![t] = p]
            /\ \E b \in BOOLEAN : downloading' = [downloading EXCEPT ![t] = b] \/ UNCHANGED downloading
            /\ UNCHANGED download_map \/ \E n : download_map' = [download_map EXCEPT ![uri[t]] = n]
        BY <2>5, GetSchemaCases
      <4>2. download_map'[u] = download_map[u] /\ Quiet
        BY <1>3, <3>1, <4>1 DEF Pending, TypeOK
      <4> QED  BY <1>3, <2>1, <4>2
    <3>2. CASE uri[t] = u
      <4>1. ~(download_map[u].num_failed # 0 /\ download_map[u].num_failed < GiveUp)
        <5>1. download_map[u].num_failed \in Nat
          BY <1>3 DEF TypeOK, Downloads
        <5> QED  BY <1>3, <5>1, ResolverAssumption
      <4>2. /\ UNCHANGED <<download_map, uri>>
            /\ \/ pc' = [pc EXCEPT ![t] = "done"] /\ UNCHANGED downloading
               \/ pc' = [pc EXCEPT ![t] = "copy"] /\ downloading' = [downloading EXCEPT ![t] = FALSE]
        BY <1>3, <2>5, <3>2, <4>1, GetSchemaCases
      <4>3. Quiet
        BY <1>3, <4>2 DEF Pending, TypeOK
      <4> QED  BY <2>1, <2>2, <4>2, <4>3
    <3> QED  BY <3>1, <3>2
  <2>6. ASSUME NEW t \in Threads, assign_task(t) PROVE Settled(u)'
    <3>1. uri[t] \in Uris
      BY DEF TypeOK
    <3>2. Same
      <4> HIDE DEF Quiet, Same
      <4> DEFINE e == [download_map[uri[t]] EXCEPT !.task = Len(tasks)]
      <4>1. /\ download_map[uri[t]] \in Downloads /\ download_map[uri[t]] # None
            /\ download_map' = [download_map EXCEPT ![uri[t]] = e]
        BY <2>6, AssignCase DEF Structure
      <4>2. e # None /\ e.num_failed = download_map[uri[t]].num_failed
        <5>1. Len(tasks) \in Nat
          BY DEF TypeOK
        <5>2. e \in Downloads
          BY <4>1, <5>1 DEF Downloads
        <5> QED  BY <4>1, <5>2, NoneAssumption DEF Downloads
      <4> HIDE DEF e
      <4> QED  BY <1>3, <3>1, <4>1, <4>2 DEF Same, TypeOK
    <3>3. Quiet
      BY <1>3, <2>6 DEF assign_task, Go, locals, Pending, TypeOK
    <3> QED  BY <2>1, <3>2, <3>3
  <2>7. ASSUME NEW t \in Threads, task_get(t) PROVE Settled(u)'
    <3>1. Same
      BY <1>3, <2>7, WriteCount DEF task_get
    <3>2. Quiet
      BY <1>3, <2>7 DEF task_get, Go, Pending, TypeOK
    <3> QED  BY <2>1, <3>1, <3>2
  <2>8. ASSUME NEW t \in Threads, count_failure(t) PROVE Settled(u)'
    <3>1. uri[t] # u
      BY <1>3, <2>8 DEF count_failure, Go, Pending, Counters
    <3>2. Same
      <4>1. seen[t] + 1 \in Nat
        BY DEF TypeOK
      <4> QED  BY <1>3, <2>8, <3>1, <4>1, WriteCount DEF count_failure
    <3>3. Quiet
      BY <1>3, <2>8 DEF count_failure, Go, locals, Pending, TypeOK
    <3> QED  BY <2>1, <3>2, <3>3
  <2>9. ASSUME NEW t \in Threads, store_time(t) PROVE Settled(u)'
    <3>1. Same
      <4>1. now \in Nat
        BY DEF TypeOK
      <4> QED  BY <1>3, <2>9, <4>1, WriteTime DEF store_time
    <3>2. Quiet
      BY <1>3, <2>9 DEF store_time, Go, Pending, TypeOK
    <3> QED  BY <2>1, <3>1, <3>2
  <2>10. ASSUME NEW d \in Dumpers, merge_lock(d) \/ merge_end(d) PROVE Settled(u)'
    <3>1. UNCHANGED download_map /\ Quiet
      BY <1>3, <2>10, ResolverAssumption DEF merge_lock, merge_end, Go, locals, Pending, TypeOK
    <3> QED  BY <2>1, <2>2, <3>1
  <2>11. ASSUME NEW d \in Dumpers, NEW v \in Uris, merge_entry(d, v) PROVE Settled(u)'
    <3>1. u \in cache' \/ download_map'[u] = download_map[u]
      BY <2>11 DEF merge_entry, TypeOK
    <3>2. Quiet
      BY <1>3, <2>11 DEF merge_entry, locals, Pending
    <3> QED  BY <1>3, <2>1, <3>1, <3>2 DEF Settled
  <2>12. CASE Tick \/ UNCHANGED vars \/ \E k \in DOMAIN tasks : download(k)
    <3>1. UNCHANGED download_map /\ Quiet
      BY <1>3, <2>12 DEF Tick, vars, download, locals, Pending
    <3> QED  BY <2>1, <2>2, <3>1
  <2> QED
    BY <2>3, <2>4, <2>5, <2>6, <2>7, <2>8, <2>9, <2>10, <2>11, <2>12 DEF Next, ThreadStep, DumperStep
<1> QED  BY <1>1, <1>2, <1>3

\* Failures are counted without the mutex (num_failed++ in get_schema), and a
\* count may be lost or written back late.  Whatever the number of threads, a
\* schema whose last download succeeded or whose count has reached GiveUp is not
\* downloaded again once the threads that started downloads of it have counted,
\* as long as no erased node's memory is taken by another schema's node.
THEOREM RetriesAlwaysStop ==
    ASSUME ~Foreign
    PROVE  Spec => RetriesStop
<1>1. Init => Counters
  BY DEF Init, Counters
<1>2. TypeOK /\ Structure /\ [Next]_vars => TypeOK' /\ Structure'
  BY TypeNext, StructureNext DEF Structure
<1>3. TypeOK /\ Counters /\ [Next]_vars => Counters'
  BY CountersNext
<1>4. TypeOK /\ Structure /\ Counters /\ [Next]_vars
        => [\A u \in Uris : Settled(u) => Settled(u)']_vars
  BY SettledNext
<1> QED  BY TypeInit, StructureInit, <1>1, <1>2, <1>3, <1>4, PTL DEF Spec, RetriesStop

=============================================================================
