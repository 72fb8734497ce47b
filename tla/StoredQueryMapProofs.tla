------------------------ MODULE StoredQueryMapProofs ------------------------
(***************************************************************************)
(* Proofs about StoredQueryMap, for every value of its constants: any      *)
(* number of files, ids and edits.  TypeCorrect and RegistrySound hold for *)
(* any number of directories, with or without background loading and       *)
(* polling, and with edits racing the callbacks; the other theorems state  *)
(* the conditions the code needs.                                          *)
(***************************************************************************)
EXTENDS StoredQueryMap, FiniteSetTheorems, TLAPS

USE DEF Keys, env, monitor, registry, flags, scan, job

\* The keys of the registry are spellings of ids: lower case is idempotent.
LEMMA KeysAreIds ==
    /\ \A i \in Ids : Lower[i] \in Keys /\ Lower[i] \in Ids
    /\ Keys \subseteq Ids
  BY LowerAssumption

\* The components of a configuration and of a handler have the right types.
LEMMA ContentTypes ==
    /\ \A c \in Contents : c.id \in Ids /\ c.marks \subseteq Marks
    /\ \A h \in Handlers : h.file \in Files /\ h.content \in Contents
  BY ContentsAssumption DEF Handlers

\* The registry stays a map from lower case ids to handlers.
LEMMA MapTypes ==
    ASSUME handler_map \in [Keys -> Handlers \cup {NoHandler}]
    PROVE  /\ \A h \in Handlers : add_handler(h) \in [Keys -> Handlers \cup {NoHandler}]
           /\ \A k : erase(k) \in [Keys -> Handlers \cup {NoHandler}]
  <1>1. \A h \in Handlers : Lower[h.content.id] \in Keys
    BY KeysAreIds, ContentTypes
  <1> QED  BY <1>1 DEF add_handler, erase

\* Type correctness holds initially and is preserved by every step.
THEOREM TypeCorrect == Spec => []TypeOK
  <1>1. Init => TypeOK
    <2> SUFFICES ASSUME Init PROVE TypeOK
      OBVIOUS
    <2>1. /\ fs \in [Files -> Contents \cup {NoFile}] /\ edits \in Nat
          /\ known \subseteq Files /\ touched \subseteq Files /\ scanned \subseteq Dirs
          /\ file_hash_map \in [Files -> Contents \cup {NoFile}]
          /\ handler_map \in [Keys -> Handlers \cup {NoHandler}]
          /\ duplicate \subseteq Files /\ updated \subseteq Dirs /\ tasks \subseteq Handlers
          /\ change \in [Files -> {"CREATE", "DELETE", "MODIFY", "NOCHANGE"}]
          /\ dir \in Dirs /\ todo \subseteq Files
      BY DEF Init
    <2>2. /\ loading_started \in BOOLEAN /\ load_failed \in BOOLEAN
          /\ reload_required \in BOOLEAN /\ handed \in BOOLEAN
          /\ initial \in BOOLEAN /\ retrying \in BOOLEAN /\ errors \in BOOLEAN
          /\ shutting \in BOOLEAN
      BY Zenon DEF Init
    <2>3. /\ pc = "idle" /\ main = "waiting"
          /\ cur = NoFile /\ cfg = NoFile /\ ph1 = NoHandler /\ erasing = NoKey
      BY DEF Init
    <2> QED  BY <2>1, <2>2, <2>3 DEF TypeOK
  <1>2. TypeOK /\ [Next]_vars => TypeOK'
    <2> SUFFICES ASSUME TypeOK, [Next]_vars PROVE TypeOK'
      OBVIOUS
    <2>0. CASE UNCHANGED vars
      BY <2>0 DEF TypeOK, vars
    <2>1. ASSUME NEW f \in Files, NEW c \in Contents \cup {NoFile}, Edit(f, c) PROVE TypeOK'
      BY <2>1 DEF TypeOK, Edit
    <2>2. ASSUME NEW d \in Dirs, on_config_change(d) PROVE TypeOK'
      BY <2>2 DEF TypeOK, on_config_change, Changed, ChangeOf, Present
    <2>3. CASE NextFile
      BY <2>3 DEF TypeOK, NextFile
    <2>4. CASE retry_duplicates
      BY <2>4 DEF TypeOK, retry_duplicates
    <2>5. CASE LoopsDone
      BY <2>5 DEF TypeOK, LoopsDone
    <2>6. CASE handle_query_remove
      BY <2>6, KeysAreIds, ContentTypes DEF TypeOK, handle_query_remove, Handled, remove_file_hash, KeysOf
    <2>7. CASE check_file_hash
      BY <2>7 DEF TypeOK, check_file_hash, Handled
    <2>8. CASE ParseFails
      BY <2>8 DEF TypeOK, ParseFails, Raise
    <2>9. CASE Parse
      BY <2>9 DEF TypeOK, Parse, ParseRefused, KeysOf
    <2>10. CASE handle_query_add
      BY <2>10 DEF TypeOK, handle_query_add, Handled
    <2>11. CASE handle_query_modify
      <3>1. reload_required' \in BOOLEAN
        BY <2>11 DEF TypeOK, handle_query_modify
      <3>2. erasing' \in Ids \cup {NoKey}
        <4>1. get_handler_by_name_nothrow(cfg.id) \in Handlers \cup {NoHandler}
          BY <2>11, KeysAreIds, ContentTypes DEF TypeOK, handle_query_modify, get_handler_by_name_nothrow
        <4>2. ph1 \in Handlers => ph1.content.id \in Ids
          BY ContentTypes
        <4> QED  BY <2>11, <4>1, <4>2 DEF TypeOK, handle_query_modify, RenamedFrom
      <3>3. pc' \in {"next", "put"} /\ updated' \subseteq Dirs /\ errors' = errors
        BY <2>11 DEF TypeOK, handle_query_modify, Handled
      <3> QED  BY <2>11, <3>1, <3>2, <3>3 DEF TypeOK, handle_query_modify
    <2>12. CASE handle_query_ignore
      <3>1. reload_required' \in BOOLEAN
        BY <2>12 DEF TypeOK, handle_query_ignore
      <3>2. erasing' \in Ids \cup {NoKey}
        BY <2>12, KeysAreIds, ContentTypes DEF TypeOK, handle_query_ignore
      <3>3. pc' \in {"next", "erase"} /\ updated' \subseteq Dirs /\ errors' = errors
        BY <2>12 DEF TypeOK, handle_query_ignore, Handled
      <3> QED  BY <2>12, <3>1, <3>2, <3>3 DEF TypeOK, handle_query_ignore
    <2>13. CASE EnqueueTask
      BY <2>13 DEF TypeOK, EnqueueTask, Handled, NewHandler, Handlers
    <2>14. CASE AddNow
      <3>1. NewHandler \in Handlers
        BY <2>14 DEF TypeOK, AddNow, NewHandler, Handlers
      <3>2. handler_map' \in [Keys -> Handlers \cup {NoHandler}]
        BY <2>14, <3>1, MapTypes DEF TypeOK, AddNow
      <3> QED  BY <2>14, <3>2 DEF TypeOK, AddNow, Handled
    <2>15. CASE AddFails
      BY <2>15 DEF TypeOK, AddFails, Raise
    <2>16. CASE EraseHandler
      <3>1. handler_map' \in [Keys -> Handlers \cup {NoHandler}]
        BY <2>16, MapTypes DEF TypeOK, EraseHandler
      <3> QED  BY <2>16, <3>1 DEF TypeOK, EraseHandler, Handled
    <2>17. CASE CallbackEnds
      BY <2>17 DEF TypeOK, CallbackEnds
    <2>18. ASSUME NEW t \in tasks, RunTask(t) PROVE TypeOK'
      <3>1. t \in Handlers
        BY DEF TypeOK
      <3>2. handler_map' \in [Keys -> Handlers \cup {NoHandler}]
        BY <2>18, <3>1, MapTypes DEF TypeOK, RunTask
      <3>3. load_failed' \in BOOLEAN
        BY <2>18 DEF TypeOK, RunTask
      <3>4. tasks' \subseteq Handlers
        BY <2>18 DEF TypeOK, RunTask
      <3> QED  BY <2>18, <3>2, <3>3, <3>4 DEF TypeOK, RunTask
    <2>19. CASE shutdown
      BY <2>19 DEF TypeOK, shutdown
    <2>20. CASE WaitLoaded
      BY <2>20 DEF TypeOK, WaitLoaded
    <2>21. CASE WaitTimesOut
      BY <2>21 DEF TypeOK, WaitTimesOut
    <2>22. CASE WaitTasks
      BY <2>22 DEF TypeOK, WaitTasks
    <2>23. CASE is_reload_required
      <3>1. reload_required' \in BOOLEAN /\ handed' \in BOOLEAN
        BY <2>23, Zenon DEF is_reload_required
      <3> QED  BY <2>23, <3>1 DEF TypeOK, is_reload_required
    <2>24. CASE ServerShutsDown
      BY <2>24 DEF TypeOK, ServerShutsDown
    <2> QED
      BY <2>0, <2>1, <2>2, <2>3, <2>4, <2>5, <2>6, <2>7, <2>8, <2>9, <2>10, <2>11, <2>12,
         <2>13, <2>14, <2>15, <2>16, <2>17, <2>18, <2>19, <2>20, <2>21, <2>22, <2>23, <2>24
      DEF Next, MonitorStep, TaskStep, MainStep
  <1> QED  BY <1>1, <1>2, PTL DEF Spec

-----------------------------------------------------------------------------
(* HandlersSound is not inductive: what a step puts into the map was       *)
(* decided earlier, in another critical section, and travelled there in    *)
(* cfg or in a task while files and map changed.                           *)

\* A configuration that may become a handler: it was parsed and is enabled.
Servable(c) == c.defect # "parse" /\ ~should_be_ignored(c)

\* What the callback carries from the parse to the put.
CarriedSound ==
    /\ pc \in {"decide", "ignore", "put"} => cfg.defect # "parse"
    /\ pc = "decide" /\ ~Adding => ~should_be_ignored(cfg)
    /\ pc = "put" => Servable(cfg)

TasksSound == \A t \in tasks : Servable(t.content)

MapSound ==
    \A k \in Keys : handler_map[k] # NoHandler =>
        /\ Lower[handler_map[k].content.id] = k
        /\ Servable(handler_map[k].content)
        /\ handler_map[k].content.defect # "construct"

\* A configuration that is not ignored carries enabled marks only.
LEMMA ServableEnabled ==
    ASSUME NEW c \in Contents, Servable(c) PROVE c.marks \subseteq EnabledMarks
  BY ContentTypes DEF Servable, should_be_ignored, Marks

\* Entering a servable handler keeps the map sound.
LEMMA AddKeepsMapSound ==
    ASSUME TypeOK, MapSound, NEW h \in Handlers,
           Servable(h.content), h.content.defect # "construct",
           handler_map' = add_handler(h)
    PROVE  MapSound'
  <1>1. Lower[h.content.id] \in Keys
    BY KeysAreIds, ContentTypes
  <1>2. \A k \in Keys : handler_map'[k] = IF k = Lower[h.content.id] THEN h ELSE handler_map[k]
    BY <1>1 DEF TypeOK, add_handler
  <1> QED  BY <1>2 DEF MapSound, Servable, should_be_ignored

\* Erasing keeps it sound too.
LEMMA EraseKeepsMapSound ==
    ASSUME MapSound, NEW key, handler_map' = erase(key)
    PROVE  MapSound'
  BY DEF MapSound, erase, Servable, should_be_ignored

\* The registry never serves a configuration that is disabled here or that
\* failed to load, under no other key than its lower case id, whatever the
\* interleaving of callbacks, init tasks, edits, failures and shutdown.
THEOREM RegistrySound == Spec => []HandlersSound
  <1>1. Init => CarriedSound /\ TasksSound /\ MapSound
    BY DEF Init, CarriedSound, TasksSound, MapSound
  <1>2. TypeOK /\ CarriedSound /\ TasksSound /\ MapSound /\ [Next]_vars
          => CarriedSound' /\ TasksSound' /\ MapSound'
    <2> SUFFICES ASSUME TypeOK, CarriedSound, TasksSound, MapSound, [Next]_vars
                 PROVE  CarriedSound' /\ TasksSound' /\ MapSound'
      OBVIOUS
    <2> USE DEF Servable, should_be_ignored
    <2>1. CASE UNCHANGED <<handler_map, tasks, pc, cfg, retrying, cur, change>>
      BY <2>1 DEF CarriedSound, TasksSound, MapSound, Adding
    <2>2. CASE UNCHANGED <<handler_map, tasks>> /\ pc' \notin {"decide", "ignore", "put"}
      BY <2>2 DEF CarriedSound, TasksSound, MapSound
    <2>3. CASE Parse
      BY <2>3 DEF Parse, ParseRefused, CarriedSound, TasksSound, MapSound, Adding
    <2>4. CASE handle_query_add
      <3>1. CarriedSound'
        BY <2>4 DEF handle_query_add, Handled, CarriedSound, Adding
      <3> QED  BY <2>4, <3>1 DEF handle_query_add, TasksSound, MapSound
    <2>5. CASE handle_query_modify
      <3>1. CarriedSound'
        BY <2>5 DEF handle_query_modify, Handled, CarriedSound, Adding
      <3> QED  BY <2>5, <3>1 DEF handle_query_modify, TasksSound, MapSound
    <2>6. CASE EnqueueTask
      <3>1. Servable(NewHandler.content)
        BY <2>6 DEF EnqueueTask, NewHandler, CarriedSound
      <3>2. TasksSound'
        BY <2>6, <3>1 DEF EnqueueTask, TasksSound
      <3> QED  BY <2>6, <3>2 DEF EnqueueTask, Handled, CarriedSound, MapSound
    <2>7. CASE AddNow
      <3>1. pc' \in {"next", "erase"} /\ tasks' = tasks
        BY <2>7 DEF AddNow, Handled
      <3>2. NewHandler \in Handlers /\ NewHandler.content = cfg
        BY <2>7 DEF TypeOK, AddNow, NewHandler, Handlers
      <3>3. Servable(cfg)
        BY <2>7 DEF AddNow, CarriedSound
      <3>4. MapSound'
        <4>1. CASE cfg.defect = "construct"
          BY <2>7, <4>1 DEF AddNow, MapSound
        <4>2. CASE cfg.defect # "construct"
          BY <2>7, <4>2, <3>2, <3>3, AddKeepsMapSound DEF AddNow
        <4> QED  BY <4>1, <4>2
      <3> QED  BY <3>1, <3>4 DEF CarriedSound, TasksSound
    <2>8. CASE EraseHandler
      BY <2>8, EraseKeepsMapSound DEF EraseHandler, Handled, CarriedSound, TasksSound
    <2>9. ASSUME NEW t \in tasks, RunTask(t) PROVE CarriedSound' /\ TasksSound' /\ MapSound'
      <3>1. t \in Handlers /\ Servable(t.content)
        BY DEF TypeOK, TasksSound
      <3>2. MapSound'
        <4>1. CASE t.content.defect = "construct"
          BY <2>9, <4>1 DEF RunTask, MapSound
        <4>2. CASE t.content.defect # "construct"
          BY <2>9, <4>2, <3>1, AddKeepsMapSound DEF RunTask
        <4> QED  BY <4>1, <4>2
      <3>3. CarriedSound'
        BY <2>9 DEF RunTask, CarriedSound, Adding
      <3> QED  BY <2>9, <3>2, <3>3 DEF RunTask, TasksSound
    <2>10. CASE shutdown \/ WaitLoaded
      <3>1. tasks' \subseteq tasks
        BY <2>10 DEF shutdown, WaitLoaded
      <3>2. UNCHANGED <<handler_map, pc, cfg, retrying, cur, change>>
        BY <2>10 DEF shutdown, WaitLoaded
      <3> QED  BY <3>1, <3>2 DEF CarriedSound, TasksSound, MapSound, Adding
    <2>11. CASE \E d \in Dirs : on_config_change(d)
      BY <2>11, <2>2 DEF on_config_change, TypeOK
    <2>12. CASE NextFile \/ retry_duplicates \/ LoopsDone
      BY <2>12, <2>2 DEF NextFile, retry_duplicates, LoopsDone
    <2>13. CASE handle_query_remove \/ check_file_hash \/ handle_query_ignore
      BY <2>13, <2>2 DEF handle_query_remove, check_file_hash, handle_query_ignore, Handled
    <2>14. CASE ParseFails \/ AddFails \/ CallbackEnds
      BY <2>14, <2>2 DEF ParseFails, AddFails, CallbackEnds, Raise
    <2>15. CASE WaitTasks \/ WaitTimesOut \/ is_reload_required \/ ServerShutsDown
      BY <2>15, <2>1 DEF WaitTasks, WaitTimesOut, is_reload_required, ServerShutsDown
    <2>16. ASSUME NEW f \in Files, NEW c \in Contents \cup {NoFile}, Edit(f, c)
           PROVE  CarriedSound' /\ TasksSound' /\ MapSound'
      BY <2>16, <2>1 DEF Edit
    <2>17. CASE UNCHANGED vars
      BY <2>17, <2>1 DEF vars
    <2> QED
      BY <2>3, <2>4, <2>5, <2>6, <2>7, <2>8, <2>9, <2>10, <2>11, <2>12, <2>13, <2>14, <2>15,
         <2>16, <2>17
      DEF Next, MonitorStep, TaskStep, MainStep
  <1>3. TypeOK /\ MapSound => HandlersSound
    <2> SUFFICES ASSUME TypeOK, MapSound, NEW k \in Keys, handler_map[k] # NoHandler
                 PROVE  /\ Lower[handler_map[k].content.id] = k
                        /\ handler_map[k].content.marks \subseteq EnabledMarks
                        /\ handler_map[k].content.defect \notin {"parse", "construct"}
      BY DEF HandlersSound
    <2>1. handler_map[k].content \in Contents
      BY ContentTypes DEF TypeOK
    <2> QED  BY <2>1, ServableEnabled DEF MapSound, Servable
  <1> QED  BY <1>1, <1>2, <1>3, TypeCorrect, PTL DEF Spec

-----------------------------------------------------------------------------
(* The section that looks up whose handler is to go and the one that       *)
(* erases it are two.  The invariant says what may be relied on between    *)
(* them when no init task runs in between; ChangesTaken rests on it.       *)

\* Nothing is erased on behalf of a file before its handler is looked up.
NotYetErasing == pc \in {"hash", "parse", "decide", "ignore"} => erasing = NoKey

\* ph1 is still the handler of the file, under its own key.
LookedUp ==
    pc = "decide" /\ ~Adding /\ ph1 # NoHandler =>
        ph1.file = cur /\ handler_map[Lower[ph1.content.id]] = ph1

\* What is to be erased belongs to the file, or is gone already.
ErasingOwn ==
    pc \in {"put", "erase"} /\ erasing \in Keys =>
        handler_map[erasing] = NoHandler \/ handler_map[erasing].file = cur

EraseInv == tasks = {} /\ NotYetErasing /\ LookedUp /\ ErasingOwn

\* A key is its own lower case spelling.
LEMMA KeysAreLower == \A k \in Keys : Lower[k] = k
  BY LowerAssumption

\* No step of the callback disturbs what was looked up.
LEMMA EraseInvStep ==
    ASSUME ~BackgroundInit, TypeOK, HandlersSound, EraseInv, [Next]_vars
    PROVE  EraseInv'
  <1> USE DEF EraseInv
  <1>0. NoKey \notin Keys
    BY NullAssumption, KeysAreIds
  <1>1. CASE UNCHANGED <<handler_map, tasks, pc, cur, ph1, erasing, retrying, change>>
    BY <1>1 DEF NotYetErasing, LookedUp, ErasingOwn, Adding
  <1>2. CASE tasks' = tasks /\ pc' \in {"idle", "next", "remove", "end", "thrown"}
    BY <1>2 DEF NotYetErasing, LookedUp, ErasingOwn
  <1>3. CASE NextFile
    BY <1>3 DEF NextFile, NotYetErasing, LookedUp, ErasingOwn
  <1>4. CASE handle_query_remove
    <2>1. CASE KeysOf(cur) = {}
      BY <1>4, <2>1, <1>2 DEF handle_query_remove, Handled
    <2>2. CASE KeysOf(cur) # {}
      <3>1. PICK k \in KeysOf(cur) : erasing' = Lower[handler_map[k].content.id]
        BY <1>4, <2>2 DEF handle_query_remove
      <3>2. k \in Keys /\ handler_map[k] # NoHandler /\ handler_map[k].file = cur
        BY DEF KeysOf
      <3>3. erasing' = k
        BY <3>1, <3>2 DEF HandlersSound
      <3>4. UNCHANGED <<handler_map, tasks, cur>> /\ pc' = "erase"
        BY <1>4, <2>2 DEF handle_query_remove
      <3> QED  BY <3>2, <3>3, <3>4 DEF NotYetErasing, LookedUp, ErasingOwn
    <2> QED  BY <2>1, <2>2
  <1>5. CASE check_file_hash
    BY <1>5 DEF check_file_hash, Handled, NotYetErasing, LookedUp, ErasingOwn
  <1>6. CASE Parse
    <2>1. UNCHANGED <<handler_map, tasks, cur, erasing, retrying, change>> /\ pc = "parse"
      BY <1>6 DEF Parse
    <2>2. pc' \in {"ignore", "decide"}
      BY <1>6 DEF Parse
    <2>3. ASSUME pc' = "decide", ~Adding, ph1' # NoHandler
          PROVE  ph1'.file = cur /\ handler_map[Lower[ph1'.content.id]] = ph1'
      <3>1. PICK k \in KeysOf(cur) : ph1' = handler_map[k]
        BY <1>6, <2>3 DEF Parse
      <3>2. k \in Keys /\ handler_map[k] # NoHandler /\ handler_map[k].file = cur
        BY DEF KeysOf
      <3> QED  BY <3>1, <3>2 DEF HandlersSound
    <2> QED  BY <2>1, <2>2, <2>3 DEF NotYetErasing, LookedUp, ErasingOwn, Adding
  <1>7. CASE handle_query_add
    BY <1>7, <1>0 DEF handle_query_add, Handled, NotYetErasing, LookedUp, ErasingOwn
  <1>8. CASE handle_query_modify
    <2>1. UNCHANGED <<handler_map, tasks, cur>> /\ pc = "decide" /\ ~Adding
      BY <1>8 DEF handle_query_modify
    <2>2. CASE pc' = "next"
      BY <2>1, <2>2, <1>2
    <2>3. CASE pc' = "put" /\ erasing' = RenamedFrom(ph1, get_handler_by_name_nothrow(cfg.id))
              /\ ~(get_handler_by_name_nothrow(cfg.id) # NoHandler
                    /\ ph1 # get_handler_by_name_nothrow(cfg.id))
      <3>1. CASE erasing' = NoKey
        BY <2>1, <2>3, <3>1, <1>0 DEF NotYetErasing, LookedUp, ErasingOwn
      <3>2. CASE ph1 # NoHandler /\ erasing' = ph1.content.id
        <4>1. ph1.file = cur /\ handler_map[Lower[ph1.content.id]] = ph1
          BY <2>1, <3>2 DEF LookedUp
        <4>2. erasing' \in Keys => handler_map[erasing'] = ph1
          BY <4>1, <3>2, KeysAreLower
        <4> QED  BY <2>1, <2>3, <4>1, <4>2 DEF NotYetErasing, LookedUp, ErasingOwn
      <3> QED  BY <2>3, <3>1, <3>2 DEF RenamedFrom
    <2> QED  BY <1>8, <2>2, <2>3 DEF handle_query_modify, Handled
  <1>9. CASE handle_query_ignore
    <2>1. UNCHANGED <<handler_map, tasks, cur>>
      BY <1>9 DEF handle_query_ignore
    <2>2. CASE pc' = "next"
      BY <2>1, <2>2, <1>2
    <2>3. CASE pc' = "erase" /\ erasing' = Lower[cfg.id] /\ IsOwn(get_handler_by_name_nothrow(cfg.id))
      BY <2>1, <2>3 DEF IsOwn, get_handler_by_name_nothrow, NotYetErasing, LookedUp, ErasingOwn
    <2> QED  BY <1>9, <2>2, <2>3 DEF handle_query_ignore, Handled
  <1>10. CASE AddNow
    <2>1. UNCHANGED <<tasks, cur, erasing>> /\ pc = "put" /\ pc' \in {"next", "erase"}
      BY <1>10 DEF AddNow, Handled
    <2>2. NewHandler \in Handlers /\ NewHandler.file = cur
      BY <1>10 DEF TypeOK, AddNow, NewHandler, Handlers
    <2>3. \A k \in Keys : handler_map'[k] \in {handler_map[k], NewHandler}
      <3>1. Lower[NewHandler.content.id] \in Keys
        BY <2>2, KeysAreIds, ContentTypes
      <3> QED  BY <1>10, <3>1 DEF AddNow, add_handler, TypeOK
    <2> QED  BY <2>1, <2>2, <2>3 DEF NotYetErasing, LookedUp, ErasingOwn
  <1>11. CASE EraseHandler
    BY <1>11, <1>2 DEF EraseHandler, Handled
  <1>12. CASE \E d \in Dirs : on_config_change(d)
    BY <1>12, <1>2 DEF on_config_change
  <1>13. CASE retry_duplicates \/ LoopsDone
    BY <1>13, <1>2 DEF retry_duplicates, LoopsDone
  <1>14. CASE ParseFails \/ AddFails \/ CallbackEnds
    BY <1>14, <1>2 DEF ParseFails, AddFails, CallbackEnds, Raise
  <1>15. CASE EnqueueTask \/ shutdown \/ TaskStep
    BY <1>15 DEF EnqueueTask, shutdown, TaskStep
  <1>16. CASE WaitLoaded
    <2>1. tasks' = {}
      BY <1>16 DEF WaitLoaded
    <2> QED  BY <1>16, <2>1, <1>1 DEF WaitLoaded
  <1>17. CASE WaitTasks \/ WaitTimesOut \/ is_reload_required \/ ServerShutsDown
    BY <1>17, <1>1 DEF WaitTasks, WaitTimesOut, is_reload_required, ServerShutsDown
  <1>18. ASSUME NEW f \in Files, NEW c \in Contents \cup {NoFile}, Edit(f, c) PROVE EraseInv'
    BY <1>18, <1>1 DEF Edit
  <1>19. CASE UNCHANGED vars
    BY <1>19, <1>1 DEF vars
  <1> QED
    BY <1>3, <1>4, <1>5, <1>6, <1>7, <1>8, <1>9, <1>10, <1>11, <1>12, <1>13, <1>14, <1>15,
       <1>16, <1>17, <1>18, <1>19
    DEF Next, MonitorStep, MainStep

\* Only EraseHandler removes a handler: all others enter one or leave the map.
LEMMA OnlyEraseRemoves ==
    ASSUME TypeOK, Next, NEW k \in Keys, handler_map[k] # NoHandler, handler_map'[k] = NoHandler
    PROVE  EraseHandler
  <1>1. handler_map' # handler_map
    OBVIOUS
  <1>2. CASE EraseHandler
    BY <1>2
  <1>3. CASE AddNow
    <2>1. NewHandler \in Handlers /\ NewHandler # NoHandler
      BY <1>3, NoHandlerAssumption DEF TypeOK, AddNow, NewHandler, Handlers
    <2>2. handler_map'[k] \in {handler_map[k], NewHandler}
      BY <1>3 DEF AddNow, add_handler, TypeOK
    <2> QED  BY <2>1, <2>2
  <1>4. CASE TaskStep
    <2>1. PICK t \in tasks : RunTask(t)
      BY <1>4 DEF TaskStep
    <2>2. t \in Handlers /\ t # NoHandler
      BY NoHandlerAssumption DEF TypeOK
    <2>3. handler_map'[k] \in {handler_map[k], t}
      BY <2>1 DEF RunTask, add_handler, TypeOK
    <2> QED  BY <2>2, <2>3
  <1>5. CASE \E f \in Files, c \in Contents \cup {NoFile} : Edit(f, c)
    BY <1>1, <1>5 DEF Edit
  <1>6. CASE \E d \in Dirs : on_config_change(d)
    BY <1>1, <1>6 DEF on_config_change
  <1>7. CASE NextFile \/ retry_duplicates \/ LoopsDone \/ handle_query_remove \/ check_file_hash
    BY <1>1, <1>7 DEF NextFile, retry_duplicates, LoopsDone, handle_query_remove, check_file_hash
  <1>8. CASE ParseFails \/ Parse \/ handle_query_add \/ handle_query_modify \/ handle_query_ignore
    BY <1>1, <1>8 DEF ParseFails, Parse, handle_query_add, handle_query_modify, handle_query_ignore
  <1>9. CASE EnqueueTask \/ AddFails \/ CallbackEnds \/ shutdown \/ WaitLoaded
    BY <1>1, <1>9 DEF EnqueueTask, AddFails, CallbackEnds, shutdown, WaitLoaded
  <1>10. CASE WaitTasks \/ WaitTimesOut \/ is_reload_required \/ ServerShutsDown
    BY <1>1, <1>10 DEF WaitTasks, WaitTimesOut, is_reload_required, ServerShutsDown
  <1> QED
    BY <1>2, <1>3, <1>4, <1>5, <1>6, <1>7, <1>8, <1>9, <1>10 DEF Next, MonitorStep, MainStep

\* What is looked up stays so up to the erase, without background loading.
LEMMA EraseInvAlways == ASSUME ~BackgroundInit PROVE Spec => []EraseInv
  <1>1. Init => EraseInv
    BY DEF Init, EraseInv, NotYetErasing, LookedUp, ErasingOwn
  <1>2. TypeOK /\ HandlersSound /\ EraseInv /\ [Next]_vars => EraseInv'
    BY EraseInvStep
  <1> QED  BY <1>1, <1>2, TypeCorrect, RegistrySound, PTL DEF Spec

-----------------------------------------------------------------------------
(* ChangesTaken, NoStaleHandler and OneHandlerPerFile speak of a registry  *)
(* at rest.  The invariant follows each file through the callbacks: what   *)
(* the monitor reports of it, what the digest, the map and the duplicates  *)
(* say of it, and how far the callback has come with it.                   *)

\* No reload of the whole plugin is due: the registry has to be right by itself.
NoReloadDue == ~reload_required /\ ~handed

\* The keys under which the map m serves the file f; KeysOf(f) for handler_map.
Own(m, f) == {k \in Keys : m[k] # NoHandler /\ m[k].file = f}

\* The map m serves f under one key at most, and if the digest taken last is
\* that of a loadable configuration, f is served with it or is a duplicate.
Settled(m, f) ==
    /\ \A j, k \in Own(m, f) : j = k
    /\ Loadable(file_hash_map[f]) =>
         /\ f \in duplicate \/ Own(m, f) # {}
         /\ \A k \in Own(m, f) : m[k].content = file_hash_map[f]

\* The registry has no trace of f.
Unseen(m, f) == file_hash_map[f] = NoFile /\ f \notin duplicate /\ Own(m, f) = {}

\* With the map m there is nothing to do for f.
UpToDate(m, f) ==
    IF fs[f] = NoFile THEN Unseen(m, f)
    ELSE Settled(m, f) /\ (fs[f].defect = "oversize" \/ file_hash_map[f] = fs[f])

\* Between callbacks: only written files can be out of date.
Rested ==
    /\ ~retrying
    /\ \A f \in Files :
         /\ f \notin known => Unseen(handler_map, f)
         /\ f \in known => Settled(handler_map, f)
         /\ f \in known \ touched => fs[f] # NoFile /\ UpToDate(handler_map, f)

\* A change reported for f and not yet looked at tells what the registry
\* knows of f and what there is on disk.
Reported(f) ==
    /\ change[f] # "NOCHANGE"
    /\ change[f] = "DELETE" <=> fs[f] = NoFile
    /\ change[f] = "CREATE" => Unseen(handler_map, f)
    /\ Settled(handler_map, f)

Busy == {"remove", "hash", "parse", "decide", "ignore", "put", "erase"}

\* The files the callback has still to deal with.
Work == IF retrying THEN {}
        ELSE IF pc \in Busy THEN todo \cup {cur} ELSE todo

\* The state of the file in hand, from one step of the callback to the next.
AtFile ==
    /\ pc \in {"remove", "hash"} /\ ~retrying => Reported(cur)
    /\ pc = "remove" => change[cur] = "DELETE"
    /\ pc = "hash" /\ ~retrying => change[cur] # "DELETE"
    /\ pc \in {"parse", "decide", "ignore", "put"} =>
         /\ fs[cur] # NoFile /\ fs[cur].defect # "oversize"
         /\ file_hash_map[cur] = fs[cur]
         /\ \A j, k \in Own(handler_map, cur) : j = k
         /\ change[cur] = "CREATE" => Own(handler_map, cur) = {}
    /\ pc \in {"decide", "ignore", "put"} => cfg = fs[cur]
    /\ pc = "ignore" => should_be_ignored(cfg)
    /\ pc = "decide" /\ ~Adding /\ ph1 = NoHandler => Own(handler_map, cur) = {}
    /\ pc = "put" =>
         /\ \A k \in Own(handler_map, cur) : k \in {erasing, Lower[cfg.id]}
         /\ erasing # Lower[cfg.id]
         /\ handler_map[Lower[cfg.id]] # NoHandler => handler_map[Lower[cfg.id]].file = cur
    /\ pc = "erase" => UpToDate(erase(erasing), cur)

\* During a callback, after which the registry is up to date.
Running ==
    /\ known = Present /\ touched = {}
    /\ \A f \in Files \ Work : UpToDate(handler_map, f)
    /\ ~retrying => \A f \in todo : Reported(f)
    /\ retrying => pc \in {"next", "hash", "end", "thrown"}
    /\ pc \in Busy /\ ~retrying => cur \notin todo
    /\ pc \in {"end", "thrown"} => todo = {}
    /\ AtFile

ChangesInv == NoReloadDue => IF pc = "idle" THEN Rested ELSE Running

\* The conditions under which the registry keeps up with its files: one
\* watched directory that is polled, handlers built by the callback itself,
\* ids in lower case, and no edits while a callback runs.  The module's
\* comments and the table of limits say what goes wrong without each of them.
OneQuietDirectory ==
    /\ ~BackgroundInit /\ Polling /\ QuietEdits
    /\ \A d, e \in Dirs : d = e
    /\ \A i \in Ids : Lower[i] = i

\* The step leaves alone what the registry knows of f.
LeavesAlone(f) ==
    /\ file_hash_map'[f] = file_hash_map[f]
    /\ f \in duplicate' <=> f \in duplicate
    /\ \A k \in Keys : handler_map'[k] # handler_map[k] =>
         /\ handler_map[k] = NoHandler \/ handler_map[k].file # f
         /\ handler_map'[k] = NoHandler \/ handler_map'[k].file # f

\* Then it stays as settled as it was.
LEMMA SettledKept ==
    ASSUME NEW f \in Files, LeavesAlone(f)
    PROVE  /\ Settled(handler_map, f) => Settled(handler_map, f)'
           /\ Unseen(handler_map, f) => Unseen(handler_map, f)'
  <1>1. Own(handler_map, f)' = Own(handler_map, f)
    BY DEF LeavesAlone, Own
  <1>2. \A k \in Own(handler_map, f) : handler_map'[k] = handler_map[k]
    BY DEF LeavesAlone, Own
  <1>3. file_hash_map'[f] = file_hash_map[f] /\ (f \in duplicate' <=> f \in duplicate)
    BY DEF LeavesAlone
  <1> QED  BY <1>1, <1>2, <1>3 DEF Settled, Unseen, Loadable

\* A file that is not written either stays up to date, or as reported.
LEMMA FileKept ==
    ASSUME NEW f \in Files, LeavesAlone(f), fs'[f] = fs[f]
    PROVE  /\ UpToDate(handler_map, f) => UpToDate(handler_map, f)'
           /\ change'[f] = change[f] /\ Reported(f) => Reported(f)'
  <1>1. file_hash_map'[f] = file_hash_map[f]
    BY DEF LeavesAlone
  <1> QED  BY <1>1, SettledKept DEF UpToDate, Reported

\* A callback that works on one file of the first loop: the others stay as
\* they were, and what is left to show is the state of the file itself.
LEMMA FileStep ==
    ASSUME TypeOK, Running, ~retrying, pc \in Busy,
           UNCHANGED <<known, touched, fs, todo, cur, retrying, change>>,
           \A f \in Files \ {cur} : LeavesAlone(f),
           pc' \in Busy \cup {"next"},
           pc' \in Busy => AtFile',
           pc' = "next" => UpToDate(handler_map, cur)'
    PROVE  Running'
  <1>1. known' = Present' /\ touched' = {} /\ ~retrying'
    BY DEF Running, Present
  <1>2. cur \notin todo
    BY DEF Running
  <1>3. \A f \in Files \ Work' : UpToDate(handler_map, f)'
    <2> SUFFICES ASSUME NEW f \in Files \ Work' PROVE UpToDate(handler_map, f)'
      OBVIOUS
    <2>1. CASE f = cur
      BY <1>1, <2>1 DEF Work
    <2>2. CASE f # cur
      BY <1>1, <2>2, FileKept DEF Work, Running
    <2> QED  BY <2>1, <2>2
  <1>4. \A f \in todo' : Reported(f)'
    BY <1>2, FileKept DEF Running, TypeOK
  <1>5. pc' = "next" => AtFile'
    BY DEF AtFile
  <1>6. /\ pc' \in Busy /\ ~retrying' => cur' \notin todo'
        /\ pc' \notin {"end", "thrown"}
        /\ AtFile'
    BY <1>2, <1>5 DEF Busy
  <1> QED  BY <1>1, <1>3, <1>4, <1>6 DEF Running

\* A step that changes nothing the invariant mentions.
LEMMA NothingStep ==
    ASSUME TypeOK, ChangesInv,
           UNCHANGED <<known, touched, fs, todo, cur, cfg, ph1, erasing, retrying, change,
                       registry, pc>>,
           NoReloadDue' => NoReloadDue
    PROVE  ChangesInv'
  <1>1. \A f \in Files : LeavesAlone(f) /\ fs'[f] = fs[f] /\ change'[f] = change[f]
    BY DEF LeavesAlone
  <1>2. Rested => Rested'
    BY <1>1, SettledKept, FileKept DEF Rested
  <1>3. ASSUME Running PROVE Running'
    <2>1. Work' = Work /\ Present' = Present
      BY DEF Work, Present
    <2>2. /\ \A f \in Files \ Work' : UpToDate(handler_map, f)'
          /\ ~retrying' => \A f \in todo' : Reported(f)'
      BY <1>1, <1>3, <2>1, FileKept DEF Running, TypeOK
    <2>3. erase(erasing)' = erase(erasing)
      BY DEF erase
    <2>4. \A m, f : UpToDate(m, f) <=> UpToDate(m, f)'
      BY DEF UpToDate, Unseen, Settled, Own, Loadable
    <2>5. AtFile'
      <3>1. AtFile
        BY <1>3 DEF Running
      <3>2. Reported(cur) => Reported(cur)'
        BY DEF Reported, Unseen, Settled, Own, Loadable
      <3>3. Own(handler_map, cur)' = Own(handler_map, cur) /\ (Adding <=> Adding')
        BY DEF Own, Adding
      <3>4. pc' = "erase" => UpToDate(erase(erasing), cur)'
        BY <2>3, <2>4, <3>1 DEF AtFile
      <3> QED  BY <3>1, <3>2, <3>3, <3>4 DEF AtFile, should_be_ignored
    <2> QED  BY <1>3, <2>1, <2>2, <2>5 DEF Running
  <1> QED  BY <1>2, <1>3 DEF ChangesInv

\* An edit falls between callbacks and touches its file.
LEMMA EditKeepsUp ==
    ASSUME OneQuietDirectory, TypeOK, ChangesInv,
           NEW f \in Files, NEW c \in Contents \cup {NoFile}, Edit(f, c)
    PROVE  ChangesInv'
  <1> SUFFICES ASSUME NoReloadDue PROVE pc' = "idle" /\ Rested'
    BY DEF ChangesInv, NoReloadDue, Edit
  <1>1. pc = "idle" /\ Rested
    BY DEF ChangesInv, OneQuietDirectory, Edit
  <1>2. UNCHANGED <<pc, retrying, known, registry>> /\ touched' = touched \cup {f}
    BY DEF Edit
  <1>3. \A g \in Files : LeavesAlone(g)
    BY <1>2 DEF LeavesAlone
  <1>4. \A g \in Files \ {f} : fs'[g] = fs[g]
    BY DEF Edit, TypeOK
  <1> QED  BY <1>1, <1>2, <1>3, <1>4, SettledKept, FileKept DEF Rested

\* A callback begins: what the monitor reports is what is out of date.
LEMMA CallbackBegins ==
    ASSUME OneQuietDirectory, TypeOK, ChangesInv, NEW d \in Dirs, on_config_change(d)
    PROVE  ChangesInv'
  <1> SUFFICES ASSUME NoReloadDue PROVE pc' # "idle" /\ Running'
    BY DEF ChangesInv, NoReloadDue, on_config_change
  <1>1. pc = "idle" /\ Rested
    BY DEF ChangesInv, on_config_change
  <1>2. \A f \in Files : DirOf[f] = d
    BY DirsAssumption DEF OneQuietDirectory
  <1>3. /\ change' = [f \in Files |-> ChangeOf(f)] /\ todo' = Changed(d) /\ pc' = "next"
        /\ UNCHANGED <<fs, registry, retrying>>
    BY <1>2 DEF on_config_change, OneQuietDirectory
  <1>4. known' = Present
    BY <1>2 DEF on_config_change, TypeOK, Present
  <1>5. touched' = {} /\ Present' = Present
    BY <1>2, <1>3 DEF on_config_change, TypeOK, Present
  <1>6. ~retrying /\ ~retrying' /\ Work' = Changed(d)
    BY <1>1, <1>3 DEF Rested, Work, Busy
  <1>7. \A f \in Files : LeavesAlone(f)
    BY <1>3 DEF LeavesAlone
  <1>8. \A f \in Files \ Work' : UpToDate(handler_map, f)'
    <2> SUFFICES ASSUME NEW f \in Files \ Work' PROVE UpToDate(handler_map, f)'
      OBVIOUS
    <2>1. ChangeOf(f) = "NOCHANGE"
      BY <1>2, <1>6 DEF Changed
    <2>2. (f \notin known /\ fs[f] = NoFile) \/ f \in known \ touched
      BY <2>1 DEF ChangeOf, Present
    <2>3. UpToDate(handler_map, f)
      BY <1>1, <2>2 DEF Rested, UpToDate
    <2> QED  BY <1>3, <1>7, <2>3, FileKept
  <1>9. \A f \in todo' : Reported(f)'
    <2> SUFFICES ASSUME NEW f \in todo' PROVE Reported(f)'
      OBVIOUS
    <2>1. f \in Files /\ change'[f] = ChangeOf(f) /\ ChangeOf(f) # "NOCHANGE" /\ fs'[f] = fs[f]
      BY <1>3 DEF Changed
    <2>2. ChangeOf(f) = "DELETE" <=> fs[f] = NoFile
      BY <2>1 DEF ChangeOf, Present
    <2>3. ChangeOf(f) = "CREATE" => f \notin known
      BY <2>1 DEF ChangeOf
    <2>4. f \notin known => Unseen(handler_map, f)
      BY <1>1, <2>1 DEF Rested
    <2>5. Settled(handler_map, f)
      <3>1. CASE f \in known
        BY <1>1, <2>1, <3>1 DEF Rested
      <3>2. CASE f \notin known
        BY <2>4, <3>2 DEF Unseen, Settled, Loadable
      <3> QED  BY <3>1, <3>2
    <2> QED  BY <1>7, <2>1, <2>2, <2>3, <2>4, <2>5, SettledKept DEF Reported
  <1> QED  BY <1>3, <1>4, <1>5, <1>6, <1>8, <1>9 DEF Running, AtFile, Busy

\* The loops pass from file to file.
LEMMA LoopStep ==
    ASSUME TypeOK, ChangesInv, NextFile \/ retry_duplicates \/ LoopsDone \/ CallbackEnds
    PROVE  ChangesInv'
  <1> SUFFICES ASSUME NoReloadDue PROVE IF pc' = "idle" THEN Rested' ELSE Running'
    BY DEF ChangesInv, NoReloadDue, NextFile, retry_duplicates, LoopsDone, CallbackEnds
  <1>1. pc \in {"next", "end"} /\ Running
    BY DEF ChangesInv, NextFile, retry_duplicates, LoopsDone, CallbackEnds
  <1>2. UNCHANGED <<fs, known, touched, registry>> /\ Present' = Present
    BY DEF NextFile, retry_duplicates, LoopsDone, CallbackEnds, Present
  <1>3. \A f \in Files : LeavesAlone(f) /\ fs'[f] = fs[f]
    BY <1>2 DEF LeavesAlone
  <1>4. /\ Work = IF retrying THEN {} ELSE todo
        /\ \A f \in Files \ Work : UpToDate(handler_map, f)'
    BY <1>1, <1>3, FileKept DEF Running, Work, Busy
  <1>5. known' = Present' /\ touched' = {}
    BY <1>1, <1>2 DEF Running
  <1>6. CASE NextFile
    <2>1. PICK f \in todo :
            /\ cur' = f /\ todo' = todo \ {f}
            /\ pc' = IF ~retrying /\ change[f] = "DELETE" THEN "remove" ELSE "hash"
      BY <1>6 DEF NextFile
    <2>2. UNCHANGED <<change, retrying>> /\ f \in Files
      BY <1>6 DEF NextFile, TypeOK
    <2>3. Work' = Work
      BY <1>4, <2>1, <2>2 DEF Work, Busy
    <2>4. ~retrying => \A g \in todo : Reported(g)'
      BY <1>1, <1>3, <2>2, FileKept DEF Running, TypeOK
    <2>5. AtFile'
      BY <2>1, <2>2, <2>4 DEF AtFile
    <2>6. /\ ~retrying' => \A g \in todo' : Reported(g)'
          /\ pc' \in Busy /\ ~retrying' => cur' \notin todo'
          /\ pc' \in {"remove", "hash"} /\ (retrying' => pc' = "hash")
      BY <2>1, <2>2, <2>4
    <2> QED  BY <1>4, <1>5, <2>3, <2>5, <2>6 DEF Running
  <1>7. CASE retry_duplicates
    <2>1. todo = {} /\ retrying' /\ pc' = "next" /\ ~retrying
      BY <1>7 DEF retry_duplicates, NoReloadDue
    <2>2. Work' = {} /\ Work = {}
      BY <1>4, <2>1 DEF Work
    <2> QED  BY <1>4, <1>5, <2>1, <2>2 DEF Running, AtFile, Busy
  <1>8. CASE LoopsDone
    <2>1. todo = {} /\ todo' = {} /\ pc' = "end" /\ retrying' = retrying
      BY <1>8 DEF LoopsDone, NoReloadDue
    <2>2. Work' = {} /\ Work = {}
      BY <1>4, <2>1 DEF Work, Busy
    <2> QED  BY <1>4, <1>5, <2>1, <2>2 DEF Running, AtFile, Busy
  <1>9. CASE CallbackEnds
    <2>1. todo = {} /\ todo' = {} /\ ~retrying' /\ pc' \in {"idle", "thrown"}
      BY <1>1, <1>9 DEF CallbackEnds, Running
    <2>2. Work' = {} /\ Work = {}
      BY <1>4, <2>1 DEF Work, Busy
    <2>3. CASE pc' = "thrown"
      BY <1>4, <1>5, <2>1, <2>2, <2>3 DEF Running, AtFile, Busy
    <2>4. CASE pc' = "idle"
      BY <1>4, <1>5, <2>1, <2>2, <2>4 DEF Rested, UpToDate, Present
    <2> QED  BY <2>1, <2>3, <2>4
  <1> QED  BY <1>6, <1>7, <1>8, <1>9

\* The digest of a loadable configuration is that of a parsable, buildable
\* and enabled one.
LEMMA LoadableMeans ==
    ASSUME NEW c, Loadable(c)
    PROVE  c # NoFile /\ c.defect = "none" /\ ~should_be_ignored(c)
  BY MarksAssumption DEF Loadable, should_be_ignored

\* handle_query_remove leaves no trace of the file but what is to be erased.
LEMMA RemoveKeepsUp ==
    ASSUME TypeOK, HandlersSound, ChangesInv, handle_query_remove
    PROVE  ChangesInv'
  <1> SUFFICES ASSUME NoReloadDue PROVE pc' # "idle" /\ Running'
    BY DEF ChangesInv, NoReloadDue, handle_query_remove, Handled
  <1>1. pc = "remove" /\ Running
    BY DEF ChangesInv, handle_query_remove
  <1>2. cur \in Files /\ ~retrying
    BY <1>1 DEF TypeOK, Running
  <1>3. Reported(cur) /\ fs[cur] = NoFile
    BY <1>1, <1>2 DEF Running, AtFile, Reported
  <1>4. /\ UNCHANGED <<known, touched, fs, todo, cur, retrying, change, handler_map>>
        /\ file_hash_map' = [file_hash_map EXCEPT ![cur] = NoFile]
        /\ duplicate' = duplicate \ {cur}
    BY DEF handle_query_remove, remove_file_hash
  <1>5. \A f \in Files \ {cur} : LeavesAlone(f)
    BY <1>2, <1>4 DEF LeavesAlone, TypeOK
  <1>6. file_hash_map'[cur] = NoFile /\ cur \notin duplicate' /\ fs'[cur] = NoFile
    BY <1>2, <1>3, <1>4 DEF TypeOK
  <1>7. CASE KeysOf(cur) = {}
    <2>1. pc' = "next"
      BY <1>7 DEF handle_query_remove, Handled
    <2>2. UpToDate(handler_map, cur)'
      BY <1>4, <1>6, <1>7 DEF UpToDate, Unseen, Own, KeysOf
    <2> QED  BY <1>1, <1>2, <1>4, <1>5, <2>1, <2>2, FileStep DEF Busy
  <1>8. CASE KeysOf(cur) # {}
    <2>1. PICK k \in KeysOf(cur) : erasing' = Lower[handler_map[k].content.id]
      BY <1>8 DEF handle_query_remove
    <2>2. erasing' = k /\ pc' = "erase"
      BY <1>8, <2>1 DEF handle_query_remove, KeysOf, HandlersSound
    <2>3. Own(erase(erasing)', cur) = {}
      BY <1>3, <1>4, <2>1, <2>2 DEF Own, KeysOf, erase, Reported, Settled
    <2>4. UpToDate(erase(erasing), cur)'
      BY <1>4, <1>6, <2>3 DEF UpToDate, Unseen, Own
    <2>5. AtFile'
      BY <2>2, <2>4 DEF AtFile
    <2> QED  BY <1>1, <1>2, <1>4, <1>5, <2>2, <2>5, FileStep DEF Busy
  <1> QED  BY <1>7, <1>8

\* check_file_hash stops at a file that is up to date, and at no other one.
LEMMA HashKeepsUp ==
    ASSUME TypeOK, ChangesInv, check_file_hash
    PROVE  ChangesInv'
  <1> SUFFICES ASSUME NoReloadDue PROVE pc' # "idle" /\ Running'
    BY DEF ChangesInv, NoReloadDue, check_file_hash, Handled
  <1>1. pc = "hash" /\ Running /\ cur \in Files
    BY DEF ChangesInv, check_file_hash, TypeOK
  <1>2. UNCHANGED <<known, touched, fs, todo, cur, retrying, change, handler_map, duplicate>>
    BY DEF check_file_hash
  <1>3. \A f \in Files \ {cur} : LeavesAlone(f)
    BY <1>1, <1>2 DEF LeavesAlone, TypeOK, check_file_hash
  <1> DEFINE Left == fs[cur] = NoFile \/ fs[cur].defect = "oversize" \/ Unchanged(cur)
  <1>4. CASE Left
    <2>1. pc' = "next" /\ UNCHANGED file_hash_map
      BY <1>4 DEF check_file_hash, Handled
    <2>2. \A f \in Files : LeavesAlone(f) /\ fs'[f] = fs[f]
      BY <1>2, <2>1 DEF LeavesAlone
    <2>3. CASE retrying
      <3>1. Work = {} /\ Work' = {} /\ Present' = Present
        BY <1>2, <2>3 DEF Work, Present
      <3>2. \A f \in Files : UpToDate(handler_map, f)'
        BY <1>1, <2>2, <3>1, FileKept DEF Running
      <3> QED  BY <1>1, <1>2, <2>1, <2>3, <3>1, <3>2 DEF Running, AtFile, Busy
    <2>4. CASE ~retrying
      <3>1. Reported(cur) /\ fs[cur] # NoFile
        BY <1>1, <2>4 DEF Running, AtFile, Reported
      <3>2. UpToDate(handler_map, cur)
        BY <1>4, <3>1 DEF UpToDate, Reported, Unchanged
      <3>3. UpToDate(handler_map, cur)'
        BY <1>1, <1>2, <2>2, <3>2, FileKept
      <3> QED  BY <1>1, <1>2, <1>3, <2>1, <2>4, <3>3, FileStep DEF Busy
    <2> QED  BY <2>3, <2>4
  <1>5. CASE ~Left
    <2>1. pc' = "parse" /\ file_hash_map' = [file_hash_map EXCEPT ![cur] = fs[cur]]
      BY <1>5 DEF check_file_hash
    <2>2. ~retrying
      <3>1. ASSUME retrying PROVE FALSE
        <4>1. UpToDate(handler_map, cur)
          BY <1>1, <3>1 DEF Running, Work
        <4> QED  BY <1>5, <4>1 DEF UpToDate, Unchanged
      <3> QED  BY <3>1
    <2>3. Reported(cur)
      BY <1>1, <2>2 DEF Running, AtFile
    <2>4. file_hash_map'[cur] = fs[cur] /\ fs'[cur] = fs[cur] /\ fs[cur].defect # "oversize"
          /\ fs[cur] # NoFile
      BY <1>1, <1>2, <1>5, <2>1 DEF TypeOK
    <2>5. /\ Own(handler_map, cur)' = Own(handler_map, cur)
          /\ \A j, k \in Own(handler_map, cur) : j = k
          /\ change[cur] = "CREATE" => Own(handler_map, cur) = {}
      BY <1>2, <2>3 DEF Own, Reported, Settled, Unseen
    <2>6. AtFile'
      BY <1>2, <2>1, <2>4, <2>5 DEF AtFile
    <2> QED  BY <1>1, <1>2, <1>3, <2>1, <2>2, <2>6, FileStep DEF Busy
  <1> QED  BY <1>4, <1>5

\* The file in hand once its digest is stored.
LEMMA HandedOn ==
    ASSUME TypeOK, ChangesInv, NoReloadDue, pc \in {"parse", "decide", "ignore", "put"}
    PROVE  /\ Running /\ ~retrying /\ cur \in Files /\ pc \in Busy
           /\ fs[cur] # NoFile /\ fs[cur].defect # "oversize" /\ file_hash_map[cur] = fs[cur]
           /\ \A j, k \in Own(handler_map, cur) : j = k
           /\ Adding <=> change[cur] = "CREATE"
           /\ Adding => Own(handler_map, cur) = {}
           /\ pc # "parse" => cfg = fs[cur]
  BY DEF ChangesInv, Running, AtFile, TypeOK, Adding, Busy

\* A file given up keeps its handler, if any: it is not loadable.
LEMMA GivenUp ==
    ASSUME TypeOK, ChangesInv, NoReloadDue, pc \in {"parse", "decide", "ignore", "put"},
           UNCHANGED <<known, touched, fs, todo, cur, retrying, change, handler_map, file_hash_map>>,
           \A f \in Files \ {cur} : f \in duplicate' <=> f \in duplicate,
           pc' = "next",
           Loadable(fs[cur]) => cur \in duplicate' /\ Own(handler_map, cur) = {}
    PROVE  Running'
  <1>1. \A f \in Files \ {cur} : LeavesAlone(f)
    BY DEF LeavesAlone
  <1>2. Own(handler_map, cur)' = Own(handler_map, cur)
    BY DEF Own
  <1>3. /\ Running /\ ~retrying /\ cur \in Files /\ pc \in Busy
        /\ fs[cur] # NoFile /\ file_hash_map[cur] = fs[cur]
        /\ \A j, k \in Own(handler_map, cur) : j = k
    BY HandedOn
  <1>4. UpToDate(handler_map, cur)'
    BY <1>2, <1>3 DEF UpToDate, Settled, Loadable
  <1> QED  BY <1>1, <1>3, <1>4, FileStep DEF Busy

\* A file that cannot be parsed, or whose handler cannot be built.
LEMMA FailureKeepsUp ==
    ASSUME TypeOK, ChangesInv, ParseFails \/ AddFails
    PROVE  ChangesInv'
  <1> SUFFICES ASSUME NoReloadDue PROVE pc' # "idle" /\ Running'
    BY DEF ChangesInv, NoReloadDue, ParseFails, AddFails, Raise
  <1>1. pc \in {"parse", "put"} /\ pc' = "next"
        /\ UNCHANGED <<known, touched, fs, todo, cur, retrying, change, handler_map, file_hash_map,
                       duplicate>>
    BY DEF ParseFails, AddFails, Raise
  <1>2. fs[cur].defect \in {"parse", "construct"}
    <2>1. CASE ParseFails
      BY <2>1, HandedOn DEF ParseFails, ParseRefused
    <2>2. CASE AddFails
      BY <2>2, HandedOn DEF AddFails
    <2> QED  BY <2>1, <2>2
  <1>3. ~Loadable(fs[cur])
    BY <1>2 DEF Loadable
  <1> QED  BY <1>1, <1>3, GivenUp

\* Parse fetches the configuration the digest was taken of, and ph1.
LEMMA ParseKeepsUp ==
    ASSUME TypeOK, ChangesInv, Parse
    PROVE  ChangesInv'
  <1> SUFFICES ASSUME NoReloadDue PROVE pc' # "idle" /\ Running'
    BY DEF ChangesInv, NoReloadDue, Parse
  <1>1. /\ pc = "parse" /\ pc' \in {"ignore", "decide"} /\ cfg' = fs[cur]
        /\ UNCHANGED <<known, touched, fs, todo, cur, retrying, change, handler_map, file_hash_map>>
        /\ duplicate' \in {duplicate, duplicate \ {cur}}
    BY DEF Parse
  <1>2. /\ Running /\ ~retrying /\ cur \in Files /\ pc \in Busy
        /\ fs[cur] # NoFile /\ fs[cur].defect # "oversize" /\ file_hash_map[cur] = fs[cur]
        /\ \A j, k \in Own(handler_map, cur) : j = k
        /\ change[cur] = "CREATE" => Own(handler_map, cur) = {}
    BY <1>1, HandedOn
  <1>3. \A f \in Files \ {cur} : LeavesAlone(f)
    BY <1>1 DEF LeavesAlone
  <1>4. Own(handler_map, cur)' = Own(handler_map, cur) /\ (Adding' <=> Adding)
    BY <1>1 DEF Own, Adding
  <1>5. pc' = "ignore" => should_be_ignored(cfg')
    BY <1>1 DEF Parse
  <1>6. pc' = "decide" /\ ~Adding /\ ph1' = NoHandler => Own(handler_map, cur) = {}
    BY DEF Parse, KeysOf, Own
  <1>7. AtFile'
    BY <1>1, <1>2, <1>4, <1>5, <1>6 DEF AtFile, should_be_ignored
  <1> QED  BY <1>1, <1>2, <1>3, <1>7, FileStep DEF Busy

\* handle_query_add finds the id free, or remembers the duplicate.
LEMMA AddKeepsUp ==
    ASSUME TypeOK, EraseInv, ChangesInv, handle_query_add
    PROVE  ChangesInv'
  <1> SUFFICES ASSUME NoReloadDue PROVE pc' # "idle" /\ Running'
    BY DEF ChangesInv, NoReloadDue, handle_query_add, Handled
  <1>1. /\ pc = "decide" /\ pc' \in {"next", "ignore", "put"} /\ Adding
        /\ UNCHANGED <<known, touched, fs, todo, cur, retrying, change, handler_map, file_hash_map,
                       cfg, erasing>>
        /\ duplicate' \in {duplicate \cup {cur}, duplicate \ {cur}}
    BY DEF handle_query_add, Handled
  <1>2. /\ Running /\ ~retrying /\ cur \in Files /\ pc \in Busy
        /\ fs[cur] # NoFile /\ fs[cur].defect # "oversize" /\ file_hash_map[cur] = fs[cur]
        /\ Own(handler_map, cur) = {} /\ cfg = fs[cur]
    BY <1>1, HandedOn
  <1>3. CASE get_handler_by_name_nothrow(cfg.id) # NoHandler
    <2>1. pc' = "next" /\ duplicate' = duplicate \cup {cur}
      BY <1>3 DEF handle_query_add, Handled
    <2> QED  BY <1>1, <1>2, <2>1, GivenUp
  <1>4. CASE get_handler_by_name_nothrow(cfg.id) = NoHandler
    <2>1. pc' = IF should_be_ignored(cfg) THEN "ignore" ELSE "put"
      BY <1>4 DEF handle_query_add
    <2>2. \A f \in Files \ {cur} : LeavesAlone(f)
      BY <1>1 DEF LeavesAlone
    <2>3. Own(handler_map, cur)' = {}
      BY <1>1, <1>2 DEF Own
    <2>4. erasing = NoKey /\ Lower[cfg.id] # NoKey
      <3>1. erasing = NoKey
        BY <1>1 DEF EraseInv, NotYetErasing
      <3>2. cfg \in Contents
        BY <1>1 DEF TypeOK
      <3> QED  BY <3>1, <3>2, ContentTypes, KeysAreIds, NullAssumption
    <2>5. handler_map[Lower[cfg.id]] = NoHandler
      BY <1>4 DEF get_handler_by_name_nothrow
    <2>6. AtFile'
      BY <1>1, <1>2, <2>1, <2>3, <2>4, <2>5 DEF AtFile, should_be_ignored
    <2> QED  BY <1>1, <1>2, <2>1, <2>2, <2>6, FileStep DEF Busy
  <1> QED  BY <1>3, <1>4

\* handle_query_modify goes on only if the new id is free or the file's own.
LEMMA ModifyKeepsUp ==
    ASSUME OneQuietDirectory, TypeOK, HandlersSound, EraseInv, ChangesInv, handle_query_modify
    PROVE  ChangesInv'
  <1> SUFFICES ASSUME NoReloadDue, NoReloadDue' PROVE pc' # "idle" /\ Running'
    BY DEF ChangesInv, NoReloadDue, handle_query_modify, Handled
  <1> DEFINE ph2 == get_handler_by_name_nothrow(cfg.id)
  <1>1. /\ pc = "decide" /\ ~Adding /\ pc' = "put" /\ erasing' = RenamedFrom(ph1, ph2)
        /\ ph2 = NoHandler \/ ph1 = ph2
        /\ UNCHANGED <<known, touched, fs, todo, cur, retrying, change, registry, cfg>>
    BY DEF handle_query_modify, NoReloadDue
  <1>2. /\ Running /\ ~retrying /\ cur \in Files /\ pc \in Busy
        /\ fs[cur] # NoFile /\ fs[cur].defect # "oversize" /\ file_hash_map[cur] = fs[cur]
        /\ \A j, k \in Own(handler_map, cur) : j = k
        /\ change[cur] # "CREATE" /\ cfg = fs[cur]
    BY <1>1, HandedOn
  <1>3. \A f \in Files \ {cur} : LeavesAlone(f)
    BY <1>1 DEF LeavesAlone
  <1>4. Own(handler_map, cur)' = Own(handler_map, cur)
    BY <1>1 DEF Own
  <1>5. cfg \in Contents /\ cfg.id \in Ids /\ Lower[cfg.id] \in Keys /\ Lower[cfg.id] # NoKey
    <2>1. cfg \in Contents
      BY <1>1 DEF TypeOK
    <2> QED  BY <2>1, ContentTypes, KeysAreIds, NullAssumption
  <1>6. ph2 = handler_map[Lower[cfg.id]]
    BY DEF get_handler_by_name_nothrow
  <1> HIDE DEF ph2
  <1>7. /\ \A k \in Own(handler_map, cur) : k \in {erasing', Lower[cfg.id]}
        /\ erasing' # Lower[cfg.id]
        /\ ph2 # NoHandler => ph2.file = cur
    <2>1. CASE ph1 = NoHandler
      <3>1. ph2 = NoHandler /\ erasing' = NoKey
        BY <1>1, <2>1 DEF RenamedFrom
      <3>2. Own(handler_map, cur) = {}
        BY <1>1, <1>2, <2>1 DEF Running, AtFile
      <3> QED  BY <3>1, <3>2, <1>5
    <2>2. CASE ph1 # NoHandler
      <3>1. ph1.file = cur /\ handler_map[Lower[ph1.content.id]] = ph1
        BY <1>1, <2>2 DEF EraseInv, LookedUp
      <3>2. ph1.content.id \in Ids
        BY <2>2, ContentTypes DEF TypeOK
      <3>3. Lower[ph1.content.id] = ph1.content.id /\ ph1.content.id \in Keys
        BY <3>2, KeysAreIds DEF OneQuietDirectory
      <3>4. \A k \in Own(handler_map, cur) : k = ph1.content.id
        BY <1>2, <2>2, <3>1, <3>3 DEF Own
      <3>5. CASE ph2 = ph1
        <4>1. erasing' = NoKey
          BY <1>1, <3>5 DEF RenamedFrom
        <4>2. Lower[cfg.id] = ph1.content.id
          BY <1>5, <1>6, <2>2, <3>1, <3>3, <3>4, <3>5 DEF Own
        <4> QED  BY <1>5, <3>1, <3>4, <3>5, <4>1, <4>2
      <3>6. CASE ph2 # ph1
        <4>1. erasing' = ph1.content.id /\ ph2 = NoHandler
          BY <1>1, <3>6 DEF RenamedFrom
        <4> QED  BY <1>6, <2>2, <3>1, <3>3, <3>4, <4>1
      <3> QED  BY <3>5, <3>6
    <2> QED  BY <2>1, <2>2
  <1>8. AtFile'
    BY <1>1, <1>2, <1>4, <1>6, <1>7 DEF AtFile
  <1> QED  BY <1>1, <1>2, <1>3, <1>8, FileStep DEF Busy

\* handle_query_ignore erases the handler of the file, if it has its new id.
LEMMA IgnoreKeepsUp ==
    ASSUME TypeOK, ChangesInv, handle_query_ignore
    PROVE  ChangesInv'
  <1> SUFFICES ASSUME NoReloadDue, NoReloadDue' PROVE pc' # "idle" /\ Running'
    BY DEF ChangesInv, NoReloadDue, handle_query_ignore, Handled
  <1>1. /\ pc = "ignore" /\ pc' \in {"next", "erase"}
        /\ UNCHANGED <<known, touched, fs, todo, cur, retrying, change, registry>>
    BY DEF handle_query_ignore, Handled
  <1>2. /\ Running /\ ~retrying /\ cur \in Files /\ pc \in Busy
        /\ fs[cur] # NoFile /\ file_hash_map[cur] = fs[cur]
        /\ \A j, k \in Own(handler_map, cur) : j = k
        /\ should_be_ignored(fs[cur])
    BY <1>1, HandedOn DEF Running, AtFile
  <1>3. ~Loadable(fs[cur])
    BY <1>2, LoadableMeans
  <1>4. CASE pc' = "next"
    BY <1>1, <1>2, <1>3, <1>4, GivenUp
  <1>5. CASE pc' = "erase"
    <2>1. \A f \in Files \ {cur} : LeavesAlone(f)
      BY <1>1 DEF LeavesAlone
    <2>2. Own(erase(erasing)', cur) \subseteq Own(handler_map, cur)
      BY <1>1 DEF Own, erase
    <2>3. UpToDate(erase(erasing), cur)'
      BY <1>1, <1>2, <1>3, <2>2 DEF UpToDate, Settled, Own
    <2>4. AtFile'
      BY <1>5, <2>3 DEF AtFile
    <2> QED  BY <1>1, <1>2, <1>5, <2>1, <2>4, FileStep DEF Busy
  <1> QED  BY <1>1, <1>4, <1>5

\* The new handler takes a free key, or replaces the file's own handler.
LEMMA PutKeepsUp ==
    ASSUME TypeOK, ChangesInv, AddNow
    PROVE  ChangesInv'
  <1> SUFFICES ASSUME NoReloadDue PROVE pc' # "idle" /\ Running'
    BY DEF ChangesInv, NoReloadDue, AddNow, Handled
  <1> DEFINE key == Lower[cfg.id]
  <1>1. /\ pc = "put" /\ pc' = IF erasing = NoKey THEN "next" ELSE "erase"
        /\ UNCHANGED <<known, touched, fs, todo, cur, retrying, change, file_hash_map, duplicate,
                       cfg, erasing>>
    BY DEF AddNow, Handled
  <1>2. /\ Running /\ ~retrying /\ cur \in Files /\ pc \in Busy
        /\ fs[cur] # NoFile /\ fs[cur].defect # "oversize" /\ file_hash_map[cur] = fs[cur]
        /\ \A j, k \in Own(handler_map, cur) : j = k
        /\ cfg = fs[cur]
    BY <1>1, HandedOn
  <1>3. /\ \A k \in Own(handler_map, cur) : k \in {erasing, key}
        /\ erasing # key
        /\ handler_map[key] # NoHandler => handler_map[key].file = cur
    BY <1>1, <1>2 DEF Running, AtFile
  <1>4. cfg \in Contents /\ key \in Keys /\ NoKey \notin Keys
    <2>1. cfg \in Contents
      BY <1>1 DEF TypeOK
    <2> QED  BY <2>1, ContentTypes, KeysAreIds, NullAssumption
  <1>5. NewHandler \in Handlers /\ NewHandler.file = cur /\ NewHandler.content = cfg
        /\ NewHandler # NoHandler
    BY <1>2, <1>4, NoHandlerAssumption DEF NewHandler, Handlers
  <1> HIDE DEF key
  <1>6. ASSUME cfg.defect # "construct"
        PROVE  \A k \in Keys : handler_map'[k] = IF k = key THEN NewHandler ELSE handler_map[k]
    BY <1>4, <1>5, <1>6 DEF AddNow, add_handler, TypeOK, key
  <1>7. cfg.defect = "construct" => handler_map' = handler_map
    BY DEF AddNow
  <1>8. \A f \in Files \ {cur} : LeavesAlone(f)
    BY <1>1, <1>3, <1>5, <1>6, <1>7 DEF LeavesAlone
  <1>9. /\ \A j, k \in Own(handler_map', cur) \ {erasing} : j = k
        /\ Loadable(cfg) => key \in Own(handler_map', cur) /\ handler_map'[key].content = cfg
    <2>1. CASE cfg.defect = "construct"
      BY <1>2, <1>7, <2>1 DEF Loadable
    <2>2. CASE cfg.defect # "construct"
      BY <1>3, <1>4, <1>5, <1>6, <2>2 DEF Own
    <2> QED  BY <2>1, <2>2
  <1>10. CASE erasing = NoKey
    <2>1. \A k \in Own(handler_map', cur) : k # erasing
      BY <1>4, <1>10 DEF Own
    <2>2. Settled(handler_map, cur)'
      BY <1>1, <1>2, <1>9, <2>1 DEF Settled
    <2>3. UpToDate(handler_map, cur)'
      BY <1>1, <1>2, <2>2 DEF UpToDate
    <2> QED  BY <1>1, <1>2, <1>8, <1>10, <2>3, FileStep DEF Busy
  <1>11. CASE erasing # NoKey
    <2>1. erase(erasing)' = [k \in Keys |-> IF k = erasing THEN NoHandler ELSE handler_map'[k]]
      BY <1>1 DEF erase
    <2>2. Own(erase(erasing)', cur) = Own(handler_map', cur) \ {erasing}
      BY <2>1 DEF Own
    <2>3. key # erasing => erase(erasing)'[key] = handler_map'[key]
      BY <1>4, <2>1
    <2>4. Settled(erase(erasing), cur)'
      BY <1>1, <1>2, <1>3, <1>9, <2>2, <2>3 DEF Settled
    <2>5. UpToDate(erase(erasing), cur)'
      BY <1>1, <1>2, <2>4 DEF UpToDate
    <2>6. AtFile'
      BY <1>1, <1>11, <2>5 DEF AtFile
    <2> QED  BY <1>1, <1>2, <1>8, <1>11, <2>6, FileStep DEF Busy
  <1> QED  BY <1>10, <1>11

\* The old handler goes, and no other one.
LEMMA EraseKeepsUp ==
    ASSUME TypeOK, EraseInv, ChangesInv, EraseHandler
    PROVE  ChangesInv'
  <1> SUFFICES ASSUME NoReloadDue PROVE pc' # "idle" /\ Running'
    BY DEF ChangesInv, NoReloadDue, EraseHandler, Handled
  <1>1. /\ pc = "erase" /\ pc' = "next"
        /\ handler_map' = erase(erasing)
        /\ UNCHANGED <<known, touched, fs, todo, cur, retrying, change, file_hash_map, duplicate>>
    BY DEF EraseHandler, Handled
  <1>2. Running /\ ~retrying /\ cur \in Files /\ pc \in Busy /\ UpToDate(erase(erasing), cur)
    BY <1>1 DEF ChangesInv, Running, AtFile, TypeOK, Busy
  <1>3. \A f \in Files \ {cur} : LeavesAlone(f)
    BY <1>1 DEF LeavesAlone, erase, EraseInv, ErasingOwn
  <1>4. \A m, f : UpToDate(m, f) <=> UpToDate(m, f)'
    BY <1>1 DEF UpToDate, Unseen, Settled, Own, Loadable
  <1>5. UpToDate(handler_map, cur)'
    BY <1>1, <1>2, <1>4
  <1> QED  BY <1>1, <1>2, <1>3, <1>5, FileStep DEF Busy

\* Every step keeps the registry on its way to being up to date.
LEMMA ChangesStep ==
    ASSUME OneQuietDirectory, TypeOK, HandlersSound, EraseInv, ChangesInv, [Next]_vars
    PROVE  ChangesInv'
  <1>1. CASE EnqueueTask \/ shutdown \/ TaskStep
    <2>1. ~BackgroundInit /\ tasks = {}
      BY DEF OneQuietDirectory, EraseInv
    <2> QED  BY <1>1, <2>1 DEF EnqueueTask, shutdown, TaskStep
  <1>2. CASE MainStep \/ WaitTimesOut \/ is_reload_required \/ ServerShutsDown
    <2>1. NoReloadDue' => NoReloadDue
      BY <1>2 DEF MainStep, WaitLoaded, WaitTasks, WaitTimesOut, is_reload_required,
                  ServerShutsDown, NoReloadDue
    <2> QED
      BY <1>2, <2>1, NothingStep
      DEF MainStep, WaitLoaded, WaitTasks, WaitTimesOut, is_reload_required, ServerShutsDown
  <1>3. CASE UNCHANGED vars
    <2>1. NoReloadDue' => NoReloadDue
      BY <1>3 DEF vars, NoReloadDue
    <2> QED  BY <1>3, <2>1, NothingStep DEF vars
  <1> QED
    BY <1>1, <1>2, <1>3, EditKeepsUp, CallbackBegins, LoopStep, RemoveKeepsUp, HashKeepsUp,
       FailureKeepsUp, ParseKeepsUp, AddKeepsUp, ModifyKeepsUp, IgnoreKeepsUp, PutKeepsUp,
       EraseKeepsUp
    DEF Next, MonitorStep

\* So it is, in every behaviour.
LEMMA ChangesAlways ==
    ASSUME OneQuietDirectory PROVE Spec => [](TypeOK /\ ChangesInv)
  <1>1. Init => ChangesInv
    BY DEF Init, ChangesInv, Rested, Unseen, Own
  <1>2. TypeOK /\ HandlersSound /\ EraseInv /\ ChangesInv /\ [Next]_vars => ChangesInv'
    BY ChangesStep
  <1>3. Spec => []EraseInv
    BY EraseInvAlways DEF OneQuietDirectory
  <1> QED  BY <1>1, <1>2, <1>3, TypeCorrect, RegistrySound, PTL DEF Spec

\* A polled registry serves each loadable file, once it has caught up, with
\* the content the file has, or remembers it as a duplicate: of any number of
\* files, after any number of creations, changes, renames and deletions, no
\* change is lost between check_file_hash, the handlers for new, changed and
\* ignored files and the loops of on_config_change.
THEOREM ChangesAlwaysTaken ==
    ASSUME OneQuietDirectory PROVE Spec => []ChangesTaken
  <1>1. TypeOK /\ ChangesInv => ChangesTaken
    <2> SUFFICES ASSUME TypeOK, ChangesInv, CaughtUp, NEW f \in Files, Loadable(fs[f])
                 PROVE  f \in duplicate \/ \E k \in KeysOf(f) : handler_map[k].content = fs[f]
      BY DEF ChangesTaken
    <2>1. Rested /\ f \in known \ touched
      BY DEF CaughtUp, ChangesInv, NoReloadDue, Loadable, Present
    <2>2. Settled(handler_map, f) /\ file_hash_map[f] = fs[f]
      BY <2>1 DEF Rested, UpToDate, Loadable
    <2> QED  BY <2>2 DEF Settled, Own, KeysOf
  <1> QED  BY <1>1, ChangesAlways, PTL

\* No handler of a polled registry outlives its configuration: once the
\* registry has caught up, the file of every handler exists, and holds what
\* the handler was built from unless it became unloadable.
THEOREM HandlersNeverStale ==
    ASSUME OneQuietDirectory PROVE Spec => []NoStaleHandler
  <1>1. TypeOK /\ ChangesInv => NoStaleHandler
    <2> SUFFICES ASSUME TypeOK, ChangesInv, CaughtUp, NEW k \in Keys, handler_map[k] # NoHandler
                 PROVE  /\ fs[handler_map[k].file] # NoFile
                        /\ Loadable(fs[handler_map[k].file])
                             => fs[handler_map[k].file] = handler_map[k].content
      BY DEF NoStaleHandler
    <2> DEFINE f == handler_map[k].file
    <2>1. f \in Files
      BY ContentTypes DEF TypeOK
    <2>2. k \in Own(handler_map, f)
      BY DEF Own
    <2> HIDE DEF f
    <2>3. Rested /\ f \in known \ touched
      BY <2>1, <2>2 DEF CaughtUp, ChangesInv, NoReloadDue, Rested, Unseen
    <2>4. fs[f] # NoFile /\ Settled(handler_map, f)
          /\ (Loadable(fs[f]) => file_hash_map[f] = fs[f])
      BY <2>1, <2>3 DEF Rested, UpToDate, Loadable
    <2> QED  BY <2>2, <2>4 DEF Settled, f
  <1> QED  BY <1>1, ChangesAlways, PTL

\* A file is never served under two ids, except between the two halves of a
\* rename and until a required reload is carried out.
THEOREM AlwaysOneHandlerPerFile ==
    ASSUME OneQuietDirectory PROVE Spec => []OneHandlerPerFile
  <1>1. TypeOK /\ ChangesInv => OneHandlerPerFile
    <2> SUFFICES ASSUME TypeOK, ChangesInv, NoReloadDue, pc # "erase", NEW f \in Files
                 PROVE  Cardinality(KeysOf(f)) <= 1
      BY DEF OneHandlerPerFile, NoReloadDue
    <2>1. \A j, k \in Own(handler_map, f) : j = k
      <3>1. UpToDate(handler_map, f) => Settled(handler_map, f) \/ Own(handler_map, f) = {}
        BY DEF UpToDate, Unseen
      <3>2. CASE pc = "idle"
        BY <3>2 DEF ChangesInv, Rested, Unseen, Settled
      <3>3. CASE pc # "idle" /\ f \notin Work
        BY <3>1, <3>3 DEF ChangesInv, Running, Settled
      <3>4. CASE pc # "idle" /\ f \in todo /\ ~retrying
        BY <3>4 DEF ChangesInv, Running, Reported, Settled
      <3>5. CASE pc \in Busy /\ f = cur /\ ~retrying
        BY <3>5 DEF ChangesInv, Running, AtFile, Reported, Settled, Busy
      <3> QED  BY <3>2, <3>3, <3>4, <3>5 DEF Work
    <2>2. KeysOf(f) = Own(handler_map, f)
      BY DEF KeysOf, Own
    <2>3. CASE KeysOf(f) = {}
      BY <2>3, FS_EmptySet
    <2>4. CASE KeysOf(f) # {}
      <3>1. PICK k : KeysOf(f) = {k}
        BY <2>1, <2>2, <2>4
      <3> QED  BY <3>1, FS_Singleton
    <2> QED  BY <2>3, <2>4
  <1> QED  BY <1>1, ChangesAlways, PTL

-----------------------------------------------------------------------------
(* StaysServed and InitComplete.  Without polling each directory has one callback, which   *)
(* only ever adds; what it hands to init_tasks is put into the map by      *)
(* other threads, in any order, before wait_for_init reports success.      *)

\* Where a file in hand may still become a handler.
InHand == {"parse", "decide", "ignore", "put"}

\* The directories whose files the monitor has been told about.
Begun == scanned \cup (IF pc = "idle" THEN {} ELSE {dir})

\* Every callback is the first one of its directory, and knows new files only.
FirstCallbacks ==
    /\ \A f \in Files : f \in known \/ file_hash_map[f] # NoFile => DirOf[f] \in Begun
    /\ updated \subseteq Begun
    /\ ~retrying
    /\ pc # "idle" => initial /\ dir \notin scanned
    /\ pc = "thrown" => load_failed
    /\ pc \in Busy \cup {"next"} =>
         \A f \in todo : change[f] = "CREATE" /\ file_hash_map[f] = NoFile /\ DirOf[f] = dir

\* The file in hand is a new one and has no handler.
NewFile ==
    /\ pc \notin {"remove", "erase"}
    /\ pc \in Busy => /\ change[cur] = "CREATE" /\ DirOf[cur] = dir
                     /\ cur \notin todo /\ erasing = NoKey
    /\ pc = "hash" => file_hash_map[cur] = NoFile
    /\ pc \in InHand => file_hash_map[cur] = fs[cur]
    /\ pc \in InHand \ {"parse"} => cfg = fs[cur]
    /\ pc = "ignore" => should_be_ignored(cfg)

\* The handler was built from a file the callbacks have dealt with.
Past(h) == file_hash_map[h.file] # NoFile /\ (pc \in InHand => h.file # cur)

AllPast ==
    /\ \A k \in Keys : handler_map[k] # NoHandler => Past(handler_map[k])
    /\ \A t \in tasks : Past(t)

\* A handler is in place, or on its way in a task, under the id of c.
Provided(c) ==
    \/ handler_map[Lower[c.id]] # NoHandler
    \/ \E t \in tasks : Lower[t.content.id] = Lower[c.id]

\* What was loadable when its digest was taken is provided for, unless it is
\* in hand or the load failed or is stopped.
AllProvided ==
    \A f \in Files : Loadable(file_hash_map[f]) =>
        \/ load_failed \/ shutting
        \/ pc \in InHand /\ f = cur
        \/ Provided(file_hash_map[f])

WaitOver == main \in {"tasks", "done"} => ready \/ load_failed \/ shutting

FirstLoad == FirstCallbacks /\ NewFile /\ AllPast /\ AllProvided /\ WaitOver

\* An init task, or the callback, enters a handler: the map only grows.
LEMMA AddProvides ==
    ASSUME TypeOK, NEW h \in Handlers, handler_map' = add_handler(h)
    PROVE  /\ handler_map'[Lower[h.content.id]] = h
           /\ \A k \in Keys : handler_map'[k] \in {handler_map[k], h}
           /\ \A k \in Keys : handler_map[k] # NoHandler => handler_map'[k] # NoHandler
  <1>1. Lower[h.content.id] \in Keys /\ h # NoHandler
    BY KeysAreIds, ContentTypes, NoHandlerAssumption
  <1> QED  BY <1>1 DEF TypeOK, add_handler

\* The digest of a file in hand is that of a configuration.
LEMMA DigestTypes ==
    ASSUME TypeOK
    PROVE  /\ \A f \in Files : file_hash_map[f] # NoFile =>
                file_hash_map[f] \in Contents /\ Lower[file_hash_map[f].id] \in Keys
           /\ pc \in InHand \ {"parse"} => cfg \in Contents /\ cfg # NoFile
  BY ContentTypes, KeysAreIds, NullAssumption DEF TypeOK, InHand

\* What is provided for stays so when tasks and map do not shrink.
LEMMA ProvidedKept ==
    ASSUME TypeOK, NEW c \in Contents, Provided(c),
           \A k \in Keys : handler_map[k] # NoHandler => handler_map'[k] # NoHandler,
           tasks \subseteq tasks'
    PROVE  Provided(c)'
  BY ContentTypes, KeysAreIds DEF Provided

\* A step of the callback that decides nothing about the file in hand.
LEMMA QuietStep ==
    ASSUME TypeOK, AllPast, AllProvided, WaitOver,
           UNCHANGED <<file_hash_map, handler_map, tasks, main, scanned, shutting>>,
           load_failed => load_failed',
           pc' \in InHand => pc \in InHand /\ cur' = cur,
           pc \in InHand /\ pc' \notin InHand =>
               \/ ~Loadable(file_hash_map[cur]) \/ load_failed' \/ Provided(file_hash_map[cur])
    PROVE  AllPast' /\ AllProvided' /\ WaitOver'
  <1>1. AllPast'
    BY DEF AllPast, Past
  <1>2. WaitOver'
    BY DEF WaitOver, ready
  <1>3. AllProvided'
    BY DEF AllProvided, Provided, Loadable
  <1> QED  BY <1>1, <1>2, <1>3

LEMMA FirstEdit ==
    ASSUME QuietEdits, TypeOK, FirstLoad,
           NEW f \in Files, NEW c \in Contents \cup {NoFile}, Edit(f, c)
    PROVE  FirstLoad'
  <1>1. pc = "idle" /\ pc' = "idle"
        /\ UNCHANGED <<known, scanned, registry, updated, flags, tasks, scan, retrying, todo, job,
                       main, shutting>>
    BY DEF Edit
  <1>2. AllPast' /\ AllProvided' /\ WaitOver'
    BY <1>1, QuietStep DEF FirstLoad, InHand
  <1>3. FirstCallbacks' /\ NewFile'
    BY <1>1 DEF FirstLoad, FirstCallbacks, NewFile, Begun, InHand, Busy
  <1> QED  BY <1>2, <1>3 DEF FirstLoad

LEMMA FirstBegins ==
    ASSUME ~Polling, TypeOK, FirstLoad, NEW d \in Dirs, on_config_change(d)
    PROVE  FirstLoad'
  <1>1. pc = "idle" /\ pc' \in {"idle", "next"}
        /\ UNCHANGED <<scanned, registry, updated, load_failed, tasks, retrying, job, main, shutting>>
        /\ dir' = d /\ initial' = (d \notin updated)
    BY DEF on_config_change, TypeOK
  <1>2. AllPast' /\ AllProvided' /\ WaitOver'
    BY <1>1, QuietStep DEF FirstLoad, InHand
  <1>3. NewFile'
    BY <1>1 DEF NewFile, InHand, Busy
  <1>4. /\ \A f \in Files : f \in known => DirOf[f] \in scanned
        /\ \A f \in Files : file_hash_map[f] # NoFile => DirOf[f] \in scanned
        /\ updated \subseteq scanned /\ ~retrying
    BY <1>1 DEF FirstLoad, FirstCallbacks, Begun
  <1>5. \A f \in Files : f \in known' => f \in known \/ DirOf[f] = d
    BY DEF on_config_change, Present
  <1>6. CASE ready
    <2>1. pc' = "idle" /\ scanned = Dirs
      BY <1>6 DEF on_config_change, ready
    <2>2. \A f \in Files : DirOf[f] \in Dirs
      BY DirsAssumption
    <2> QED
      BY <1>1, <1>2, <1>3, <1>4, <2>1, <2>2 DEF FirstLoad, FirstCallbacks, Begun, Busy
  <1>7. CASE ~ready
    <2>1. d \notin scanned /\ pc' = "next" /\ todo' = Changed(d)
          /\ change' = [f \in Files |-> IF DirOf[f] = d THEN ChangeOf(f) ELSE "NOCHANGE"]
      BY <1>7 DEF on_config_change
    <2>2. \A f \in todo' :
            change'[f] = "CREATE" /\ file_hash_map'[f] = NoFile /\ DirOf[f] = dir'
      BY <1>1, <1>4, <2>1 DEF Changed, ChangeOf
    <2>3. Begun' = scanned \cup {d} /\ initial'
      BY <1>1, <1>4, <2>1 DEF Begun
    <2> QED
      BY <1>1, <1>2, <1>3, <1>4, <1>5, <2>1, <2>2, <2>3 DEF FirstLoad, FirstCallbacks
  <1> QED  BY <1>6, <1>7

LEMMA FirstLoops ==
    ASSUME TypeOK, FirstLoad, NextFile \/ retry_duplicates \/ LoopsDone \/ CallbackEnds
    PROVE  FirstLoad'
  <1>1. pc \in {"next", "end"} /\ pc' \notin InHand
        /\ UNCHANGED <<file_hash_map, handler_map, tasks, main, shutting, known, updated, dir, initial>>
        /\ (load_failed => load_failed')
    BY DEF NextFile, retry_duplicates, LoopsDone, CallbackEnds, InHand
  <1>2. initial /\ ~retrying /\ dir \notin scanned
    BY <1>1 DEF FirstLoad, FirstCallbacks
  <1>3. AllPast' /\ AllProvided'
    BY <1>1 DEF FirstLoad, AllPast, Past, AllProvided, Provided, Loadable, InHand
  <1>4. CASE NextFile
    <2>1. PICK f \in todo : cur' = f /\ todo' = todo \ {f}
            /\ pc' = IF ~retrying /\ change[f] = "DELETE" THEN "remove" ELSE "hash"
      BY <1>4 DEF NextFile
    <2>2. pc = "next" /\ erasing' = NoKey
          /\ UNCHANGED <<change, retrying, scanned, load_failed, fs, main>>
      BY <1>4 DEF NextFile
    <2>3. change[f] = "CREATE" /\ file_hash_map[f] = NoFile /\ DirOf[f] = dir /\ pc' = "hash"
      BY <2>1, <2>2 DEF FirstLoad, FirstCallbacks
    <2>4. FirstCallbacks'
      <3>1. Begun' = Begun
        BY <1>1, <2>2, <2>3 DEF Begun
      <3>2. \A g \in todo' :
              change'[g] = "CREATE" /\ file_hash_map'[g] = NoFile /\ DirOf[g] = dir'
        BY <1>1, <2>1, <2>2 DEF FirstLoad, FirstCallbacks
      <3> QED  BY <1>1, <1>2, <2>2, <2>3, <3>1, <3>2 DEF FirstLoad, FirstCallbacks
    <2>5. NewFile'
      BY <1>1, <2>1, <2>2, <2>3 DEF NewFile, InHand
    <2>6. WaitOver'
      BY <1>1, <2>2 DEF FirstLoad, WaitOver, ready
    <2> QED  BY <1>3, <2>4, <2>5, <2>6 DEF FirstLoad
  <1>5. CASE retry_duplicates
    BY <1>2, <1>5 DEF retry_duplicates
  <1>6. CASE LoopsDone
    <2>1. pc' = "end" /\ UNCHANGED <<retrying, scanned, load_failed>>
      BY <1>6 DEF LoopsDone
    <2>2. Begun' = Begun
      BY <1>1, <2>1 DEF Begun
    <2>3. FirstCallbacks' /\ NewFile'
      BY <1>1, <1>2, <2>1, <2>2 DEF FirstLoad, FirstCallbacks, NewFile, InHand, Busy
    <2>4. WaitOver'
      BY <1>1, <2>1 DEF FirstLoad, WaitOver, ready
    <2> QED  BY <1>3, <2>3, <2>4 DEF FirstLoad
  <1>7. CASE CallbackEnds
    <2>1. \/ pc' = "thrown" /\ load_failed' /\ scanned' = scanned
          \/ pc' = "idle" /\ scanned' = scanned \cup {dir}
      BY <1>7 DEF CallbackEnds
    <2>2. ~retrying' /\ pc = "end"
      BY <1>7 DEF CallbackEnds
    <2>3. Begun' = Begun
      BY <1>1, <2>1, <2>2 DEF Begun
    <2>4. FirstCallbacks' /\ NewFile'
      BY <1>1, <1>2, <2>1, <2>2, <2>3 DEF FirstLoad, FirstCallbacks, NewFile, InHand, Busy
    <2>5. WaitOver'
      BY <1>1, <2>1 DEF FirstLoad, WaitOver, ready, TypeOK
    <2> QED  BY <1>3, <2>4, <2>5 DEF FirstLoad
  <1> QED  BY <1>4, <1>5, <1>6, <1>7

\* Facts about the file in hand.
LEMMA InHandFacts ==
    ASSUME TypeOK, FirstLoad, pc \in Busy
    PROVE  /\ pc \notin {"remove", "erase"} /\ Adding /\ ~retrying /\ initial /\ cur \in Files
           /\ DirOf[cur] = dir /\ cur \notin todo /\ dir \notin scanned /\ change[cur] = "CREATE" /\ erasing = NoKey
           /\ pc \in InHand => file_hash_map[cur] = fs[cur]
           /\ pc \in InHand \ {"parse"} => cfg = fs[cur]
           /\ pc = "ignore" => should_be_ignored(cfg)
  BY DEF FirstLoad, FirstCallbacks, NewFile, TypeOK, Adding, Busy

\* The control facts survive a step on the file in hand.
LEMMA FirstControl ==
    ASSUME TypeOK, FirstLoad, pc \in Busy, pc' \in (Busy \cup {"next"}) \ {"remove", "erase"},
           UNCHANGED <<known, scanned, dir, initial, retrying, change, todo>>,
           updated' \subseteq updated \cup {dir},
           \A f \in Files \ {cur} : file_hash_map'[f] = file_hash_map[f]
    PROVE  FirstCallbacks'
  <1>1. Begun' = Begun /\ dir \in Begun /\ cur \in Files /\ cur \notin todo /\ DirOf[cur] = dir
    BY InHandFacts DEF Begun, Busy
  <1>2. \A f \in todo' :
          change'[f] = "CREATE" /\ file_hash_map'[f] = NoFile /\ DirOf[f] = dir'
    BY <1>1 DEF FirstLoad, FirstCallbacks, TypeOK
  <1>3. \A f \in Files : f \in known' \/ file_hash_map'[f] # NoFile => DirOf[f] \in Begun'
    BY <1>1 DEF FirstLoad, FirstCallbacks
  <1>4. updated' \subseteq Begun' /\ ~retrying' /\ initial' /\ dir' \notin scanned'
    BY <1>1 DEF FirstLoad, FirstCallbacks, Busy
  <1> QED  BY <1>2, <1>3, <1>4 DEF FirstCallbacks, Busy

LEMMA FirstHash ==
    ASSUME TypeOK, FirstLoad, check_file_hash
    PROVE  FirstLoad'
  <1>1. /\ pc = "hash" /\ pc \in Busy
        /\ UNCHANGED <<fs, known, scanned, handler_map, tasks, dir, initial, change, retrying, todo,
                       cur, erasing, load_failed, main, shutting>>
        /\ updated' \subseteq updated \cup {dir}
    BY DEF check_file_hash, Handled, Busy
  <1>2. cur \in Files /\ cur \notin todo /\ change[cur] = "CREATE" /\ erasing = NoKey
        /\ DirOf[cur] = dir
    BY <1>1, InHandFacts
  <1>3. file_hash_map[cur] = NoFile
    BY <1>1 DEF FirstLoad, NewFile
  <1>4. /\ \A f \in Files \ {cur} : file_hash_map'[f] = file_hash_map[f]
        /\ pc' \in {"next", "parse"}
        /\ pc' = "next" => file_hash_map' = file_hash_map
        /\ pc' = "parse" => file_hash_map'[cur] = fs[cur] /\ fs[cur] # NoFile
    BY <1>2 DEF check_file_hash, Handled, TypeOK
  <1>5. FirstCallbacks'
    BY <1>1, <1>2, <1>4, FirstControl DEF TypeOK, Busy
  <1>6. NewFile'
    BY <1>1, <1>2, <1>4 DEF NewFile, InHand, Busy
  <1>7. AllPast'
    BY <1>1, <1>2, <1>3, <1>4, ContentTypes DEF FirstLoad, AllPast, Past, InHand, TypeOK
  <1>8. AllProvided'
    BY <1>1, <1>2, <1>4 DEF FirstLoad, AllProvided, Provided, Loadable, InHand
  <1>9. WaitOver'
    BY <1>1 DEF FirstLoad, WaitOver, ready
  <1> QED  BY <1>5, <1>6, <1>7, <1>8, <1>9 DEF FirstLoad

\* A step that leaves the registry alone: on the way to the put, or away
\* from a file that is not loadable, is provided for, or failed.
LEMMA FirstDecides ==
    ASSUME TypeOK, FirstLoad, pc \in InHand, pc' \in InHand \cup {"next"},
           UNCHANGED <<fs, known, scanned, file_hash_map, handler_map, tasks, dir, initial, change,
                       retrying, todo, cur, erasing, main, shutting>>,
           updated' \subseteq updated \cup {dir},
           load_failed => load_failed',
           pc' \in InHand => pc' # "parse" /\ cfg' = fs[cur],
           pc' = "ignore" => should_be_ignored(cfg'),
           pc' = "next" => \/ ~Loadable(file_hash_map[cur]) \/ load_failed'
                           \/ Provided(file_hash_map[cur])
    PROVE  FirstLoad'
  <1>1. pc \in Busy /\ pc' \in (Busy \cup {"next"}) \ {"remove", "erase"}
    BY DEF InHand, Busy
  <1>2. FirstCallbacks'
    BY <1>1, FirstControl
  <1>3. AllPast' /\ AllProvided' /\ WaitOver'
    BY QuietStep DEF FirstLoad, InHand
  <1>4. NewFile'
    <2>1. /\ DirOf[cur] = dir /\ cur \notin todo /\ change[cur] = "CREATE" /\ erasing = NoKey
          /\ file_hash_map[cur] = fs[cur]
      BY <1>1, InHandFacts
    <2> QED  BY <1>1, <2>1 DEF NewFile, InHand, Busy, should_be_ignored
  <1> QED  BY <1>2, <1>3, <1>4 DEF FirstLoad

LEMMA FirstParse ==
    ASSUME TypeOK, FirstLoad, ParseFails \/ Parse
    PROVE  FirstLoad'
  <1>1. pc = "parse" /\ pc \in Busy /\ pc \in InHand
    BY DEF ParseFails, Parse, Busy, InHand
  <1>2. Adding /\ file_hash_map[cur] = fs[cur] /\ initial
    BY <1>1, InHandFacts
  <1>3. CASE ParseFails
    <2>1. ~Loadable(fs[cur])
      BY <1>3 DEF ParseFails, ParseRefused, Loadable
    <2>2. pc' = "next" /\ (load_failed => load_failed') /\ updated' = updated
      BY <1>3 DEF ParseFails, Raise
    <2> QED  BY <1>1, <1>2, <1>3, <2>1, <2>2, FirstDecides DEF ParseFails, InHand
  <1>4. CASE Parse
    <2>1. pc' = "decide" /\ cfg' = fs[cur]
      BY <1>2, <1>4 DEF Parse
    <2> QED  BY <1>1, <1>4, <2>1, FirstDecides DEF Parse, InHand
  <1> QED  BY <1>3, <1>4

LEMMA FirstDecision ==
    ASSUME TypeOK, FirstLoad, handle_query_add \/ handle_query_modify \/ handle_query_ignore
    PROVE  FirstLoad'
  <1>1. pc \in {"decide", "ignore"} /\ pc \in Busy /\ pc \in InHand
    BY DEF handle_query_add, handle_query_modify, handle_query_ignore, Busy, InHand
  <1>2. Adding /\ file_hash_map[cur] = fs[cur] /\ cfg = fs[cur]
        /\ (pc = "ignore" => should_be_ignored(cfg))
    BY <1>1, InHandFacts DEF InHand
  <1>3. CASE handle_query_add
    <2>1. /\ pc' \in {"next", "ignore", "put"} /\ cfg' = cfg
          /\ pc' = "next" => get_handler_by_name_nothrow(cfg.id) # NoHandler
          /\ pc' = "ignore" => should_be_ignored(cfg)
          /\ updated' \subseteq updated \cup {dir} /\ load_failed' = load_failed
      BY <1>3 DEF handle_query_add, Handled
    <2>2. pc' = "ignore" => should_be_ignored(cfg')
      BY <2>1
    <2>3. pc' = "next" => Provided(file_hash_map[cur])
      BY <1>2, <2>1 DEF Provided, get_handler_by_name_nothrow
    <2> QED  BY <1>1, <1>2, <1>3, <2>1, <2>2, <2>3, FirstDecides DEF handle_query_add, InHand
  <1>4. CASE handle_query_modify
    BY <1>2, <1>4 DEF handle_query_modify
  <1>5. CASE handle_query_ignore
    <2>1. pc = "ignore" /\ cfg \in Contents /\ Lower[cfg.id] \in Keys
      BY <1>1, <1>5, ContentTypes, KeysAreIds DEF handle_query_ignore, TypeOK
    <2>2. get_handler_by_name_nothrow(cfg.id) # NoHandler => ~IsOwn(get_handler_by_name_nothrow(cfg.id))
      BY <1>1, <2>1 DEF get_handler_by_name_nothrow, IsOwn, FirstLoad, AllPast, Past
    <2>3. pc' = "next" /\ UNCHANGED erasing /\ updated' \subseteq updated \cup {dir}
      BY <1>5, <2>2 DEF handle_query_ignore, Handled
    <2>4. ~Loadable(file_hash_map[cur])
      BY <1>2, <2>1, LoadableMeans
    <2> QED  BY <1>1, <1>5, <2>3, <2>4, FirstDecides DEF handle_query_ignore, InHand
  <1> QED  BY <1>3, <1>4, <1>5

\* The file in hand ends in a task, in the map, or in a failed load.
LEMMA FirstPut ==
    ASSUME TypeOK, FirstLoad, EnqueueTask \/ AddNow \/ AddFails
    PROVE  FirstLoad'
  <1>1. pc = "put" /\ pc \in Busy /\ pc \in InHand
    BY DEF EnqueueTask, AddNow, AddFails, Busy, InHand
  <1>2. cur \in Files /\ file_hash_map[cur] = fs[cur] /\ cfg = fs[cur] /\ erasing = NoKey
    BY <1>1, InHandFacts DEF InHand
  <1>3. cfg \in Contents /\ cfg # NoFile /\ Lower[cfg.id] \in Keys
    BY <1>1, ContentTypes, KeysAreIds, NullAssumption DEF TypeOK
  <1>4. CASE AddFails
    <2>1. pc' = "next" /\ load_failed' /\ updated' = updated
      BY <1>4 DEF AddFails, Raise
    <2> QED  BY <1>1, <1>4, <2>1, FirstDecides DEF AddFails, InHand
  <1>5. CASE EnqueueTask \/ AddNow
    <2>1. /\ pc' = "next" /\ updated' \subseteq updated \cup {dir}
          /\ UNCHANGED <<fs, known, scanned, file_hash_map, dir, initial, change, retrying, todo,
                         cur, erasing, load_failed, main, shutting>>
      BY <1>2, <1>5 DEF EnqueueTask, AddNow, Handled
    <2>2. NewHandler \in Handlers /\ NewHandler.file = cur /\ NewHandler.content = cfg
      BY <1>2, <1>3 DEF NewHandler, Handlers
    <2>3. /\ \A k \in Keys : handler_map'[k] \in {handler_map[k], NewHandler}
          /\ \A k \in Keys : handler_map[k] # NoHandler => handler_map'[k] # NoHandler
          /\ tasks \subseteq tasks' /\ tasks' \subseteq tasks \cup {NewHandler}
      <3>1. CASE EnqueueTask
        BY <3>1 DEF EnqueueTask
      <3>2. CASE AddNow
        <4>1. tasks' = tasks
          BY <3>2 DEF AddNow
        <4>2. CASE cfg.defect = "construct"
          BY <3>2, <4>1, <4>2 DEF AddNow
        <4>3. CASE cfg.defect # "construct"
          <5>1. handler_map' = add_handler(NewHandler)
            BY <3>2, <4>3 DEF AddNow
          <5> QED  BY <2>2, <4>1, <5>1, AddProvides
        <4> QED  BY <4>2, <4>3
      <3> QED  BY <1>5, <3>1, <3>2
    <2>4. \A c : c = cfg /\ Loadable(c) => Provided(c)'
      <3>1. CASE EnqueueTask
        BY <2>2, <3>1 DEF EnqueueTask, Provided
      <3>2. CASE AddNow /\ Loadable(cfg)
        <4>1. handler_map' = add_handler(NewHandler)
          BY <3>2 DEF AddNow, Loadable
        <4>2. handler_map'[Lower[cfg.id]] = NewHandler /\ NewHandler # NoHandler
          BY <2>2, <4>1, AddProvides, NoHandlerAssumption
        <4> QED  BY <4>2 DEF Provided
      <3> QED  BY <1>5, <3>1, <3>2
    <2>5. FirstCallbacks'
      BY <1>1, <2>1, FirstControl DEF Busy
    <2>6. NewFile'
      BY <2>1 DEF NewFile, InHand, Busy
    <2>7. AllPast'
      BY <1>1, <1>2, <1>3, <2>1, <2>2, <2>3 DEF FirstLoad, AllPast, Past, InHand
    <2>8. AllProvided'
      <3> SUFFICES ASSUME NEW f \in Files, Loadable(file_hash_map[f]), ~load_failed, ~shutting
                   PROVE  Provided(file_hash_map[f])'
        BY <2>1 DEF AllProvided, Loadable
      <3>1. CASE f = cur
        BY <1>2, <2>1, <2>4, <3>1
      <3>2. CASE f # cur
        BY <2>1, <2>3, <3>2, DigestTypes, ProvidedKept DEF FirstLoad, AllProvided, Loadable
      <3> QED  BY <3>1, <3>2
    <2>9. WaitOver'
      BY <2>1 DEF FirstLoad, WaitOver, ready
    <2> QED  BY <2>5, <2>6, <2>7, <2>8, <2>9 DEF FirstLoad
  <1> QED  BY <1>4, <1>5

\* The threads of init_tasks and the main thread.
LEMMA FirstTask ==
    ASSUME TypeOK, FirstLoad, NEW t \in tasks, RunTask(t)
    PROVE  FirstLoad'
  <1>1. /\ UNCHANGED <<fs, known, scanned, file_hash_map, updated, dir, initial, change, retrying,
                       todo, cur, cfg, erasing, pc, main, shutting>>
        /\ tasks' = tasks \ {t} /\ t \in Handlers
        /\ load_failed => load_failed'
    BY DEF RunTask, TypeOK
  <1>2. FirstCallbacks' /\ NewFile'
    BY <1>1 DEF FirstLoad, FirstCallbacks, NewFile, Begun, should_be_ignored
  <1>3. WaitOver'
    BY <1>1 DEF FirstLoad, WaitOver, ready
  <1>4. CASE t.content.defect = "construct"
    <2>1. (load_failed' \/ shutting') /\ handler_map' = handler_map
      <3>1. load_failed' = (load_failed \/ ~shutting) /\ handler_map' = handler_map
        BY <1>4 DEF RunTask
      <3>2. ~shutting => load_failed'
        BY <3>1, Zenon
      <3> QED  BY <1>1, <3>1, <3>2
    <2>2. AllPast'
      BY <1>1, <2>1 DEF FirstLoad, AllPast, Past
    <2>3. AllProvided'
      BY <2>1 DEF AllProvided
    <2> QED  BY <1>2, <1>3, <2>2, <2>3 DEF FirstLoad
  <1>5. CASE t.content.defect # "construct"
    <2>1. handler_map' = add_handler(t) /\ load_failed' = load_failed
      BY <1>5 DEF RunTask
    <2>2. /\ handler_map'[Lower[t.content.id]] = t /\ t # NoHandler
          /\ \A k \in Keys : handler_map'[k] \in {handler_map[k], t}
          /\ \A k \in Keys : handler_map[k] # NoHandler => handler_map'[k] # NoHandler
      BY <1>1, <2>1, AddProvides, NoHandlerAssumption
    <2>3. AllPast'
      BY <1>1, <2>2 DEF FirstLoad, AllPast, Past
    <2>4. \A c \in Contents : Provided(c) => Provided(c)'
      BY <1>1, <2>2, ContentTypes, KeysAreIds DEF Provided
    <2>5. AllProvided'
      BY <1>1, <2>1, <2>4, DigestTypes DEF FirstLoad, AllProvided, Loadable
    <2> QED  BY <1>2, <1>3, <2>3, <2>5 DEF FirstLoad
  <1> QED  BY <1>4, <1>5

LEMMA FirstOther ==
    ASSUME TypeOK, FirstLoad,
           \/ shutdown \/ MainStep \/ WaitTimesOut \/ is_reload_required \/ ServerShutsDown
           \/ UNCHANGED vars
    PROVE  FirstLoad'
  <1>1. /\ UNCHANGED <<fs, known, scanned, registry, updated, dir, initial, change, retrying,
                       todo, cur, cfg, erasing, pc, load_failed>>
        /\ shutting => shutting'
        /\ tasks' \subseteq tasks
        /\ tasks' = tasks \/ load_failed \/ shutting
        /\ main' = main \/ main' = "failed" \/ done \/ main = "tasks"
    BY DEF shutdown, MainStep, WaitLoaded, WaitTasks, WaitTimesOut, is_reload_required,
           ServerShutsDown, vars
  <1>2. FirstCallbacks' /\ NewFile'
    BY <1>1 DEF FirstLoad, FirstCallbacks, NewFile, Begun, should_be_ignored
  <1>3. WaitOver'
    BY <1>1 DEF FirstLoad, WaitOver, ready, done
  <1>4. AllPast'
    BY <1>1 DEF FirstLoad, AllPast, Past
  <1>5. AllProvided'
    BY <1>1 DEF FirstLoad, AllProvided, Provided, Loadable
  <1> QED  BY <1>2, <1>3, <1>4, <1>5 DEF FirstLoad

LEMMA FirstLoadStep ==
    ASSUME ~Polling, QuietEdits, TypeOK, FirstLoad, [Next]_vars
    PROVE  FirstLoad'
  <1>1. CASE handle_query_remove \/ EraseHandler
    BY <1>1 DEF handle_query_remove, EraseHandler, FirstLoad, NewFile
  <1> QED
    BY <1>1, FirstEdit, FirstBegins, FirstLoops, FirstHash, FirstParse, FirstDecision, FirstPut,
       FirstTask, FirstOther
    DEF Next, MonitorStep, TaskStep

\* Without polling the callbacks are first ones all along.
LEMMA FirstLoadAlways == ASSUME ~Polling, QuietEdits PROVE Spec => []FirstLoad
  <1>1. Init => FirstLoad
    BY DEF Init, FirstLoad, FirstCallbacks, NewFile, AllPast, AllProvided, WaitOver, Begun, InHand,
           Busy, Loadable
  <1>2. TypeOK /\ FirstLoad /\ [Next]_vars => FirstLoad'
    BY FirstLoadStep
  <1> QED  BY <1>1, <1>2, TypeCorrect, PTL DEF Spec

\* Without polling no id that is served stops being served, for any number of
\* files, directories and init tasks: a handler found under the id of a file
\* that is to be ignored is never that file's own, since the callback that sees
\* the file first has not entered or enqueued anything for it (AllPast).
THEOREM OnceServed == ASSUME ~Polling, QuietEdits PROVE Spec => StaysServed
  <1>1. TypeOK /\ FirstLoad /\ [Next]_vars =>
          [\A k \in Keys : handler_map[k] # NoHandler => handler_map'[k] # NoHandler]_vars
    <2> SUFFICES ASSUME TypeOK, FirstLoad, Next,
                        NEW k \in Keys, handler_map[k] # NoHandler, handler_map'[k] = NoHandler
                 PROVE  FALSE
      OBVIOUS
    <2>1. EraseHandler
      BY OnlyEraseRemoves
    <2> QED  BY <2>1 DEF EraseHandler, FirstLoad, NewFile
  <1> QED  BY <1>1, FirstLoadAlways, TypeCorrect, PTL DEF Spec, StaysServed

\* wait_for_init reports success only when the id of every loadable file in
\* every directory is served: without polling, for any number of files,
\* directories and init tasks, whatever the order in which the tasks run.
THEOREM InitAlwaysComplete ==
    ASSUME ~Polling, QuietEdits PROVE Spec => InitComplete
  <1>1. TypeOK /\ FirstLoad /\ [Next]_vars =>
          [main = "tasks" /\ main' = "done" /\ ~shutting =>
             \A f \in known : Loadable(file_hash_map[f]) =>
                 handler_map[Lower[file_hash_map[f].id]] # NoHandler]_vars
    <2> SUFFICES ASSUME TypeOK, FirstLoad, Next, main = "tasks", main' = "done", ~shutting,
                        NEW f \in known, Loadable(file_hash_map[f])
                 PROVE  handler_map[Lower[file_hash_map[f].id]] # NoHandler
      OBVIOUS
    <2>1. WaitTasks
      BY DEF Next, MonitorStep, TaskStep, MainStep, Edit, on_config_change, NextFile,
             retry_duplicates, LoopsDone, handle_query_remove, check_file_hash, ParseFails, Parse,
             handle_query_add, handle_query_modify, handle_query_ignore, EnqueueTask, AddNow,
             AddFails, EraseHandler, CallbackEnds, RunTask, shutdown, WaitLoaded, WaitTimesOut,
             is_reload_required, ServerShutsDown
    <2>2. tasks = {} /\ ~load_failed
      BY <2>1 DEF WaitTasks, TasksOver
    <2>3. pc = "idle"
      BY <2>2 DEF FirstLoad, WaitOver, ready, FirstCallbacks, TypeOK
    <2>4. Provided(file_hash_map[f])
      BY <2>2, <2>3 DEF FirstLoad, AllProvided, InHand, TypeOK
    <2> QED  BY <2>2, <2>4 DEF Provided
  <1> QED  BY <1>1, FirstLoadAlways, TypeCorrect, PTL DEF Spec, InitComplete
=============================================================================
