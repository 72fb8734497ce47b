------------------------------- MODULE Plugin -------------------------------
(***************************************************************************)
(* The life cycle of the plugin (wfs/Plugin.cpp): init, reload, the update *)
(* loop and shutdown, run by the server's own thread, by admin requests    *)
(* (wfs:reload) and by the update loop thread.  itsReloading and           *)
(* itsShuttingDown are atomic flags tested and set in separate steps; only *)
(* itsUpdateLoopThread is guarded by a mutex.                              *)
(***************************************************************************)
EXTENDS Naturals

CONSTANTS
    Server,        \* the thread that runs init, shutdown and the destructor
    Admins,        \* threads of wfs:reload requests
    Loops,         \* identities of update loop threads
    NumLanguages,  \* languages, each with a URL of its own
    BuildCanFail,  \* TRUE: the constructor of PluginImpl may throw
    ServerStops,   \* TRUE: the server may shut the plugin down
    MaxReloads,    \* bound on the reload requests of admins and of the registry
    NoLoop

Procs == {Server} \cup Admins \cup Loops

\* URLs in the order init registers them: the languages, then the default.
Urls == 1 .. (NumLanguages + 1)

ASSUME LanguagesAssumption == NumLanguages \in Nat
ASSUME ProcsAssumption ==
    /\ Server \notin Admins \cup Loops /\ Admins \cap Loops = {} /\ NoLoop \notin Loops
ASSUME BoundsAssumption ==
    BuildCanFail \in BOOLEAN /\ ServerStops \in BOOLEAN /\ MaxReloads \in Nat

VARIABLES
    pc,                  \* where each thread is
    pos,                 \* the URL a thread in init registers next
    new_impl,            \* the PluginImpl a thread in init has built
    plugin_impl,         \* the PluginImpl requests use, 0 for none
    builds,              \* number of PluginImpl objects built
    urls,                \* external: URLs registered with the reactor
    itsReloading, itsShuttingDown,
    itsUpdateLoopThread, \* a loop or NoLoop
    joining,             \* the thread stopUpdateLoop swapped out
    stops,               \* calls of stopUpdateLoop finished: shutdown, destructor
    required,            \* the registry's reload_required
    reloads              \* reload requests made

vars == <<pc, pos, new_impl, plugin_impl, builds, urls, itsReloading, itsShuttingDown,
          itsUpdateLoopThread, joining, stops, required, reloads>>

\* Steps of init, after the constructor of PluginImpl.
Registering == {"lang", "ensure", "ensure_set", "ensure_lock", "store", "default"}
InInit == {"build", "remove"} \cup Registering
InReload == {"set", "unset"} \cup InInit

TypeOK ==
    /\ pc \in [Procs -> {"out", "none", "check", "poll", "test", "run", "swap", "join",
                         "reset", "impl_shutdown", "down", "dead", "ended"} \cup InReload]
    /\ pos \in [Procs -> Nat]
    /\ new_impl \in [Procs -> Nat]
    /\ plugin_impl \in Nat /\ builds \in Nat /\ stops \in Nat /\ reloads \in Nat
    /\ urls \subseteq Urls
    /\ itsReloading \in BOOLEAN /\ itsShuttingDown \in BOOLEAN /\ required \in BOOLEAN
    /\ itsUpdateLoopThread \in Loops \cup {NoLoop} /\ joining \in Loops \cup {NoLoop}

Init ==
    /\ pc = [p \in Procs |-> IF p = Server THEN "build" ELSE IF p \in Admins THEN "out" ELSE "none"]
    /\ pos = [p \in Procs |-> 1]
    /\ new_impl = [p \in Procs |-> 0]
    /\ plugin_impl = 0 /\ builds = 0 /\ urls = {}
    /\ itsReloading = FALSE /\ itsShuttingDown = FALSE
    /\ itsUpdateLoopThread = NoLoop /\ joining = NoLoop
    /\ stops = 0 /\ required = FALSE /\ reloads = 0

Goto(p, s) == pc' = [pc EXCEPT ![p] = s]

\* Where a thread is once reload has returned or thrown: an admin request
\* ends, the update loop catches everything and goes on.
After(p) == IF p \in Loops THEN "check" ELSE "out"

\* An exception leaves init.  reload rethrows it without touching
\* itsReloading; the server's own init gives up.
Thrown(p) == IF p = Server THEN "dead" ELSE After(p)

-----------------------------------------------------------------------------
(* init() and reload().                                                    *)

\* Mutant: the old content handlers are removed before the new PluginImpl is
\* built.
BuildFails_removed(p) ==
    /\ pc[p] = "build" /\ BuildCanFail
    /\ urls' = {}
    /\ Goto(p, Thrown(p))
    /\ UNCHANGED <<pos, new_impl, plugin_impl, builds, itsReloading, itsShuttingDown,
                   itsUpdateLoopThread, joining, stops, required, reloads>>

BuildFails(p) ==
    /\ pc[p] = "build" /\ BuildCanFail
    /\ Goto(p, Thrown(p))
    /\ UNCHANGED <<pos, new_impl, plugin_impl, builds, urls, itsReloading, itsShuttingDown,
                   itsUpdateLoopThread, joining, stops, required, reloads>>

Build(p) ==
    /\ pc[p] = "build"
    /\ builds' = builds + 1
    /\ new_impl' = [new_impl EXCEPT ![p] = builds + 1]
    /\ Goto(p, "remove")
    /\ UNCHANGED <<pos, plugin_impl, urls, itsReloading, itsShuttingDown,
                   itsUpdateLoopThread, joining, stops, required, reloads>>

removeContentHandlers(p) ==
    /\ pc[p] = "remove"
    /\ urls' = {}
    /\ pos' = [pos EXCEPT ![p] = 1]
    /\ Goto(p, IF NumLanguages = 0 THEN "ensure" ELSE "lang")
    /\ UNCHANGED <<new_impl, plugin_impl, builds, itsReloading, itsShuttingDown,
                   itsUpdateLoopThread, joining, stops, required, reloads>>

\* The loop over the languages ends with this one.
LastLanguage(p) == pos[p] = NumLanguages

\* addContentHandler for a language: refused when the URL is taken.
addLanguageHandler(p) ==
    /\ pc[p] = "lang"
    /\ IF pos[p] \in urls
       THEN Goto(p, Thrown(p)) /\ UNCHANGED <<urls, pos>>
       ELSE /\ urls' = urls \cup {pos[p]}
            /\ pos' = [pos EXCEPT ![p] = pos[p] + 1]
            /\ Goto(p, IF LastLanguage(p) THEN "ensure" ELSE "lang")
    /\ UNCHANGED <<new_impl, plugin_impl, builds, itsReloading, itsShuttingDown,
                   itsUpdateLoopThread, joining, stops, required, reloads>>

\* ensureUpdateLoopStarted: test the flag, set it, create the thread.
EnsureTest(p) ==
    /\ pc[p] = "ensure"
    /\ Goto(p, IF itsShuttingDown THEN "store" ELSE "ensure_set")
    /\ UNCHANGED <<pos, new_impl, plugin_impl, builds, urls, itsReloading, itsShuttingDown,
                   itsUpdateLoopThread, joining, stops, required, reloads>>

EnsureSet(p) ==
    /\ pc[p] = "ensure_set"
    /\ itsShuttingDown' = FALSE
    /\ Goto(p, "ensure_lock")
    /\ UNCHANGED <<pos, new_impl, plugin_impl, builds, urls, itsReloading,
                   itsUpdateLoopThread, joining, stops, required, reloads>>

\* Mutant: the update loop is never started.
EnsureLock_idle(p) ==
    /\ pc[p] = "ensure_lock"
    /\ Goto(p, "store")
    /\ UNCHANGED <<pos, new_impl, plugin_impl, builds, urls, itsReloading, itsShuttingDown,
                   itsUpdateLoopThread, joining, stops, required, reloads>>

EnsureLock(p) ==
    /\ pc[p] = "ensure_lock"
    /\ IF itsUpdateLoopThread # NoLoop
       THEN Goto(p, "store") /\ UNCHANGED itsUpdateLoopThread
       ELSE \E l \in Loops :
              /\ pc[l] = "none"
              /\ itsUpdateLoopThread' = l
              /\ pc' = [pc EXCEPT ![p] = "store", ![l] = "check"]
    /\ UNCHANGED <<pos, new_impl, plugin_impl, builds, urls, itsReloading, itsShuttingDown,
                   joining, stops, required, reloads>>

\* plugin_impl.store: the registry of the new implementation starts afresh.
Store(p) ==
    /\ pc[p] = "store"
    /\ plugin_impl' = new_impl[p]
    /\ required' = FALSE
    /\ Goto(p, "default")
    /\ UNCHANGED <<pos, new_impl, builds, urls, itsReloading, itsShuttingDown,
                   itsUpdateLoopThread, joining, stops, reloads>>

\* addContentHandler for the default URL ends init.
addDefaultHandler(p) ==
    /\ pc[p] = "default"
    /\ IF pos[p] \in urls
       THEN Goto(p, Thrown(p)) /\ UNCHANGED urls
       ELSE /\ urls' = urls \cup {pos[p]}
            /\ Goto(p, IF p = Server THEN "run" ELSE "unset")
    /\ UNCHANGED <<pos, new_impl, plugin_impl, builds, itsReloading, itsShuttingDown,
                   itsUpdateLoopThread, joining, stops, required, reloads>>

\* reload: test itsReloading, set it, init, clear it.
ReloadTest(p) ==
    /\ pc[p] = "test"
    /\ Goto(p, IF itsReloading THEN After(p) ELSE "set")
    /\ UNCHANGED <<pos, new_impl, plugin_impl, builds, urls, itsReloading, itsShuttingDown,
                   itsUpdateLoopThread, joining, stops, required, reloads>>

ReloadSet(p) ==
    /\ pc[p] = "set"
    /\ itsReloading' = TRUE
    /\ Goto(p, "build")
    /\ UNCHANGED <<pos, new_impl, plugin_impl, builds, urls, itsShuttingDown,
                   itsUpdateLoopThread, joining, stops, required, reloads>>

ReloadDone(p) ==
    /\ pc[p] = "unset"
    /\ itsReloading' = FALSE
    /\ Goto(p, After(p))
    /\ UNCHANGED <<pos, new_impl, plugin_impl, builds, urls, itsShuttingDown,
                   itsUpdateLoopThread, joining, stops, required, reloads>>

-----------------------------------------------------------------------------
(* The update loop.                                                        *)

updateCheck(l) ==
    /\ pc[l] = "check"
    /\ Goto(l, IF itsShuttingDown THEN "ended" ELSE "poll")
    /\ UNCHANGED <<pos, new_impl, plugin_impl, builds, urls, itsReloading, itsShuttingDown,
                   itsUpdateLoopThread, joining, stops, required, reloads>>

\* is_reload_required(true) takes the request.
updateLoop(l) ==
    /\ pc[l] = "poll"
    /\ IF plugin_impl # 0 /\ required
       THEN required' = FALSE /\ Goto(l, "test")
       ELSE Goto(l, "check") /\ UNCHANGED required
    /\ UNCHANGED <<pos, new_impl, plugin_impl, builds, urls, itsReloading, itsShuttingDown,
                   itsUpdateLoopThread, joining, stops, reloads>>

-----------------------------------------------------------------------------
(* shutdown() and the destructor, both through stopUpdateLoop().           *)

stopUpdateLoop ==
    /\ ServerStops
    /\ pc[Server] = "run" \/ (pc[Server] = "down" /\ stops = 1)
    /\ itsShuttingDown' = TRUE
    /\ Goto(Server, "swap")
    /\ UNCHANGED <<pos, new_impl, plugin_impl, builds, urls, itsReloading,
                   itsUpdateLoopThread, joining, stops, required, reloads>>

SwapThread ==
    /\ pc[Server] = "swap"
    /\ joining' = itsUpdateLoopThread
    /\ itsUpdateLoopThread' = NoLoop
    /\ Goto(Server, "join")
    /\ UNCHANGED <<pos, new_impl, plugin_impl, builds, urls, itsReloading, itsShuttingDown,
                   stops, required, reloads>>

JoinThread ==
    /\ pc[Server] = "join"
    /\ IF joining = NoLoop THEN TRUE ELSE pc[joining] = "ended"
    /\ Goto(Server, "reset")
    /\ UNCHANGED <<pos, new_impl, plugin_impl, builds, urls, itsReloading, itsShuttingDown,
                   itsUpdateLoopThread, joining, stops, required, reloads>>

ResetFlag ==
    /\ pc[Server] = "reset"
    /\ itsShuttingDown' = FALSE
    /\ Goto(Server, IF stops = 0 THEN "impl_shutdown" ELSE "down")
    /\ stops' = stops + 1
    /\ UNCHANGED <<pos, new_impl, plugin_impl, builds, urls, itsReloading,
                   itsUpdateLoopThread, joining, required, reloads>>

shutdown ==
    /\ pc[Server] = "impl_shutdown"
    /\ Goto(Server, "down")
    /\ UNCHANGED <<pos, new_impl, plugin_impl, builds, urls, itsReloading, itsShuttingDown,
                   itsUpdateLoopThread, joining, stops, required, reloads>>

-----------------------------------------------------------------------------
(* What arrives from outside: an admin's wfs:reload, and a configuration   *)
(* change that makes the registry of the current PluginImpl ask for one.   *)

AdminReload(a) ==
    /\ pc[a] = "out" /\ pc[Server] = "run"
    /\ reloads < MaxReloads
    /\ reloads' = reloads + 1
    /\ Goto(a, "test")
    /\ UNCHANGED <<pos, new_impl, plugin_impl, builds, urls, itsReloading, itsShuttingDown,
                   itsUpdateLoopThread, joining, stops, required>>

request_reload ==
    /\ plugin_impl # 0 /\ ~required
    /\ reloads < MaxReloads
    /\ reloads' = reloads + 1
    /\ required' = TRUE
    /\ UNCHANGED <<pc, pos, new_impl, plugin_impl, builds, urls, itsReloading,
                   itsShuttingDown, itsUpdateLoopThread, joining, stops>>

-----------------------------------------------------------------------------
ReloadStep(p) ==
    \/ ReloadTest(p) \/ ReloadSet(p) \/ ReloadDone(p)
    \/ BuildFails(p) \/ Build(p) \/ removeContentHandlers(p) \/ addLanguageHandler(p)
    \/ EnsureTest(p) \/ EnsureSet(p) \/ EnsureLock(p) \/ Store(p) \/ addDefaultHandler(p)

LoopStep(l) == updateCheck(l) \/ updateLoop(l)

ServerStep == SwapThread \/ JoinThread \/ ResetFlag \/ shutdown

Next ==
    \/ \E p \in Procs : ReloadStep(p)
    \/ \E l \in Loops : LoopStep(l)
    \/ stopUpdateLoop \/ ServerStep
    \/ \E a \in Admins : AdminReload(a)
    \/ request_reload

Spec == Init /\ [][Next]_vars

\* Every running thread is scheduled.  Nobody is obliged to request a reload
\* or to shut the server down.
FairSpec ==
    /\ Spec
    /\ \A p \in Procs : WF_vars(ReloadStep(p))
    /\ \A l \in Loops : WF_vars(LoopStep(l))
    /\ WF_vars(ServerStep)

-----------------------------------------------------------------------------
(* Properties.                                                             *)

\* Whenever no init is running, every URL of the plugin is registered: a
\* failed reload, or two reloads that slipped past the test of itsReloading
\* and removed and registered handlers at the same time, leave no URL without
\* a handler (init, removeContentHandlers and addContentHandler).
ServiceRestored ==
    (pc[Server] # "dead" /\ \A p \in Procs : pc[p] \notin InInit) => urls = Urls

\* A reload the registry asks for is taken by the update loop while the
\* server runs, even if earlier reloads failed or were refused (updateLoop).
RequestTaken == required ~> (~required \/ pc[Server] # "run")

\* A wfs:reload request is refused only while a reload is in progress
\* (docs/Configuring-the-WFS-Plugin.md: "Reloads the WFS plugin
\* configuration"): itsReloading is set by somebody who will clear it.  It
\* does not hold when a build fails: the exception passes the assignment by.
ReloadingMeansRunning ==
    itsReloading => \E p \in Procs \ {Server} : pc[p] \in InReload

\* shutdown, once begun, ends (wfs/Plugin.cpp: "Shutdown the plugin").
ShutdownEnds == (pc[Server] = "swap") ~> (pc[Server] = "down")
=============================================================================
