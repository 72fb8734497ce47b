---------------------------- MODULE PluginProofs ----------------------------
(***************************************************************************)
(* Proofs about the plugin and what it owns:                               *)
(*  - Plugin, for any number of admin threads, update loops, languages and *)
(*    reloads;                                                             *)
(*  - PluginImpl, for every set of requests, hosts and configurations;     *)
(*    nothing is assumed of what the parsers return;                       *)
(*  - WfsRequests, for all sets of stored queries and features and however *)
(*    often the directory monitor changes the handlers.                    *)
(***************************************************************************)
EXTENDS Plugin, PluginImpl, WfsRequests, LoopLemmas

-----------------------------------------------------------------------------
(* Plugin: the URLs while reloads collide.                                 *)

\* A thread that registers URLs knows which one is next.
PosOK ==
    \A p \in Procs :
        /\ pc[p] = "lang" => pos[p] \in 1 .. NumLanguages
        /\ pc[p] \in Registering \ {"lang"} => pos[p] = NumLanguages + 1

\* p is on its way to register u and will find every URL up to u free.
Helps(p, u) ==
    /\ pc[p] \in Registering
    /\ pos[p] <= u
    /\ \A v \in Urls : pos[p] <= v /\ v <= u => v \notin urls

\* Some thread is on its way to every URL that is missing.  Two threads in
\* init cannot both give up on a URL: the one that finds a URL taken leaves
\* the rest to the thread that took it.
Covered ==
    \/ pc[Server] \in {"build", "remove", "dead"}
    \/ \A u \in Urls \ urls : \E p \in Procs : Helps(p, u)

\* Type correctness, with the position of every registering thread.
LEMMA TypeAndPosition == Spec => [](TypeOK /\ PosOK)
  <1> USE DEF InReload, InInit, Registering
  <1>1. Init => TypeOK /\ PosOK
    <2> SUFFICES ASSUME Init PROVE TypeOK /\ PosOK
      OBVIOUS
    <2>1. itsReloading \in BOOLEAN /\ itsShuttingDown \in BOOLEAN /\ required \in BOOLEAN
      BY Zenon DEF Init
    <2> QED  BY <2>1 DEF Init, TypeOK, PosOK, Procs
  <1>2. TypeOK /\ PosOK /\ [Next]_vars => (TypeOK /\ PosOK)'
    <2> SUFFICES ASSUME TypeOK, PosOK, [Next]_vars PROVE TypeOK' /\ PosOK'
      OBVIOUS
    <2> USE LanguagesAssumption DEF TypeOK, PosOK, Goto
    <2>1. ASSUME NEW p \in Procs, ReloadStep(p) PROVE TypeOK' /\ PosOK'
      <3> USE DEF Thrown, After
      <3>1. CASE ReloadTest(p)
        BY <3>1 DEF ReloadTest
      <3>2. CASE ReloadSet(p)
        BY <3>2 DEF ReloadSet
      <3>3. CASE ReloadDone(p)
        BY <3>3 DEF ReloadDone
      <3>4. CASE BuildFails(p)
        BY <3>4 DEF BuildFails
      <3>5. CASE Build(p)
        BY <3>5 DEF Build
      <3>6. CASE removeContentHandlers(p)
        BY <3>6 DEF removeContentHandlers
      <3>7. CASE EnsureTest(p)
        BY <3>7 DEF EnsureTest
      <3>8. CASE EnsureSet(p)
        BY <3>8 DEF EnsureSet
      <3>9. CASE EnsureLock(p)
        BY <3>9 DEF EnsureLock, Procs
      <3>10. CASE Store(p)
        BY <3>10 DEF Store
      <3>11. CASE addLanguageHandler(p)
        <4>1. pos[p] \in Urls
          BY <3>11 DEF addLanguageHandler, LastLanguage, Urls
        <4> QED  BY <3>11, <4>1 DEF addLanguageHandler, LastLanguage
      <3>12. CASE addDefaultHandler(p)
        <4>1. pos[p] \in Urls
          BY <3>12 DEF addDefaultHandler, Urls
        <4> QED  BY <3>12, <4>1 DEF addDefaultHandler
      <3> QED  BY <2>1, <3>1, <3>2, <3>3, <3>4, <3>5, <3>6, <3>7, <3>8, <3>9, <3>10, <3>11, <3>12
               DEF ReloadStep
    <2>2. ASSUME NEW l \in Loops, LoopStep(l) PROVE TypeOK' /\ PosOK'
      BY <2>2 DEF LoopStep, updateCheck, updateLoop, Procs
    <2>3. CASE stopUpdateLoop
      <3>1. itsShuttingDown' \in BOOLEAN
        BY <2>3, Zenon DEF stopUpdateLoop
      <3> QED  BY <2>3, <3>1 DEF stopUpdateLoop, Procs
    <2>4. CASE SwapThread \/ JoinThread
      BY <2>4 DEF SwapThread, JoinThread, Procs
    <2>5. CASE ResetFlag \/ shutdown
      <3>1. itsShuttingDown' \in BOOLEAN
        BY <2>5 DEF ResetFlag, shutdown
      <3> QED  BY <2>5, <3>1 DEF ResetFlag, shutdown, Procs
    <2>6. ASSUME NEW a \in Admins, AdminReload(a) PROVE TypeOK' /\ PosOK'
      BY <2>6 DEF AdminReload, Procs
    <2>7. CASE request_reload
      BY <2>7 DEF request_reload
    <2>8. CASE UNCHANGED vars
      BY <2>8 DEF vars
    <2> QED  BY <2>1, <2>2, <2>3, <2>4, <2>5, <2>6, <2>7, <2>8 DEF Next, ServerStep
  <1> QED  BY <1>1, <1>2, PTL DEF Spec

\* Type correctness.
THEOREM TypeCorrect == Spec => []TypeOK
  BY TypeAndPosition, PTL

-----------------------------------------------------------------------------
\* A step that leaves the registered URLs alone and moves only threads that
\* register nothing, before and after, keeps every URL covered.
LEMMA OthersKeepCovered ==
    ASSUME Covered, urls' = urls, pos' = pos,
           \A p \in Procs : pc[p] \in Registering => pc'[p] \in Registering,
           pc[Server] \in {"build", "remove", "dead"} => pc'[Server] \in {"build", "remove", "dead"}
    PROVE  Covered'
  BY DEF Covered, Helps, Urls

\* A thread that finds its next URL taken helps nobody, so it may give up.
LEMMA GivingUpKeepsCovered ==
    ASSUME TypeOK, PosOK, Covered, NEW p \in Procs,
           pc[p] \in Registering, pos[p] \in urls,
           pc[p] \notin {"build", "remove", "dead"},
           urls' = urls, pos' = pos, Goto(p, Thrown(p))
    PROVE  Covered'
  <1>1. CASE p = Server
    BY <1>1 DEF Covered, Goto, Thrown, TypeOK
  <1>2. CASE p # Server
    <2>1. pc'[Server] = pc[Server]
      BY <1>2 DEF Goto, TypeOK, Procs
    <2>2. \A q \in Procs, u \in Urls : Helps(q, u) => q # p
      BY DEF Helps, TypeOK
    <2>3. \A q \in Procs : q # p => pc'[q] = pc[q]
      BY DEF Goto, TypeOK
    <2>4. \A q \in Procs, u \in Urls : Helps(q, u) => Helps(q, u)'
      BY <2>2, <2>3 DEF Helps, Urls
    <2> QED  BY <2>1, <2>4 DEF Covered, Urls
  <1> QED  BY <1>1, <1>2

\* A thread that registers its URL takes over, for the URLs beyond it, from
\* every thread that was on its way across that URL.
LEMMA RegisteringKeepsCovered ==
    ASSUME TypeOK, PosOK, Covered, NEW p \in Procs,
           pc[p] \in Registering, pos[p] \notin urls,
           urls' = urls \cup {pos[p]},
           \A q \in Procs : q # p => pc'[q] = pc[q] /\ pos'[q] = pos[q],
           pos[p] \in Urls,
           pos[p] < NumLanguages + 1 => pc'[p] \in Registering /\ pos'[p] = pos[p] + 1,
           pc[Server] \in {"build", "remove", "dead"} => pc'[Server] \in {"build", "remove", "dead"}
    PROVE  Covered'
  <1> SUFFICES ASSUME pc[Server] \notin {"build", "remove", "dead"},
                      NEW u \in Urls, u \notin urls, u # pos[p]
               PROVE  \E q \in Procs : Helps(q, u)'
    BY DEF Covered, Urls
  <1>1. PICK q \in Procs : Helps(q, u)
    BY DEF Covered
  <1>2. /\ u \in Nat /\ pos[p] \in Nat /\ pos[q] \in Nat
        /\ u <= NumLanguages + 1 /\ pos[p] <= NumLanguages + 1
    BY LanguagesAssumption DEF TypeOK, Urls
  <1>3. CASE q # p /\ ~(pos[q] <= pos[p] /\ pos[p] <= u)
    <2>1. \A v \in Urls : pos[q] <= v /\ v <= u => v \notin urls'
      BY <1>1, <1>2, <1>3 DEF Helps
    <2> QED  BY <1>1, <1>3, <2>1 DEF Helps, Urls
  <1>4. CASE q = p \/ (pos[q] <= pos[p] /\ pos[p] <= u)
    <2>1. pos[q] <= pos[p] /\ pos[p] < u
      BY <1>1, <1>2, <1>4 DEF Helps
    <2>2. pc'[p] \in Registering /\ pos'[p] = pos[p] + 1
      BY <1>2, <2>1, LanguagesAssumption
    <2>3. \A v \in Urls : pos[p] + 1 <= v /\ v <= u => v \notin urls'
      <3> SUFFICES ASSUME NEW v \in Urls, pos[p] + 1 <= v, v <= u PROVE v \notin urls'
        OBVIOUS
      <3>1. v \in Nat /\ pos[q] <= v /\ v # pos[p]
        BY <1>2, <2>1, LanguagesAssumption DEF Urls
      <3> QED  BY <1>1, <3>1 DEF Helps
    <2>4. pos[p] + 1 <= u
      BY <1>2, <2>1
    <2> QED  BY <2>2, <2>3, <2>4 DEF Helps, Urls
  <1> QED  BY <1>3, <1>4

\* Whatever reloads run at the same time, fail or collide, every URL is
\* registered again once no init is running.
THEOREM ServiceAlwaysRestored == Spec => []ServiceRestored
  <1>1. Init => Covered
    BY DEF Init, Covered, Procs
  <1>2. TypeOK /\ PosOK /\ Covered /\ [Next]_vars => Covered'
    <2> SUFFICES ASSUME TypeOK, PosOK, Covered, [Next]_vars PROVE Covered'
      OBVIOUS
    <2>1. ASSUME NEW p \in Procs, ReloadStep(p) PROVE Covered'
      <3>1. CASE ReloadTest(p) \/ ReloadSet(p) \/ ReloadDone(p)
        BY <3>1, OthersKeepCovered
        DEF ReloadTest, ReloadSet, ReloadDone, Goto, After, TypeOK, Registering, Procs
      <3>2. CASE BuildFails(p) \/ Build(p)
        BY <3>2, OthersKeepCovered, ProcsAssumption
        DEF BuildFails, Build, Goto, Thrown, After, TypeOK, Registering, Procs
      <3>3. CASE removeContentHandlers(p)
        <4>1. pc'[p] \in Registering /\ pos'[p] = 1 /\ urls' = {}
          BY <3>3 DEF removeContentHandlers, Goto, TypeOK, Registering
        <4>2. \A u \in Urls : Helps(p, u)'
          BY <4>1, LanguagesAssumption DEF Helps, Urls
        <4> QED  BY <4>2 DEF Covered, Urls
      <3>4. CASE addLanguageHandler(p)
        <4>1. pc[p] = "lang" /\ pos[p] \in 1 .. NumLanguages /\ pc[p] \in Registering
          BY <3>4 DEF addLanguageHandler, LastLanguage, PosOK, Registering
        <4>2. CASE pos[p] \in urls
          BY <3>4, <4>1, <4>2, GivingUpKeepsCovered DEF addLanguageHandler
        <4>3. CASE pos[p] \notin urls
          <5>1. pos[p] \in Urls
            BY <4>1, LanguagesAssumption DEF Urls
          <5>2. \A q \in Procs : q # p => pc'[q] = pc[q] /\ pos'[q] = pos[q]
            BY <3>4, <4>3 DEF addLanguageHandler, LastLanguage, Goto, TypeOK
          <5>3. pc'[p] \in Registering /\ pos'[p] = pos[p] + 1
            BY <3>4, <4>3 DEF addLanguageHandler, LastLanguage, Goto, TypeOK, Registering
          <5>4. pc[Server] \in {"build", "remove", "dead"} => pc'[Server] = pc[Server]
            BY <4>1, <5>2 DEF Procs
          <5>5. urls' = urls \cup {pos[p]}
            BY <3>4, <4>3 DEF addLanguageHandler
          <5> QED  BY <4>1, <4>3, <5>1, <5>2, <5>3, <5>4, <5>5, RegisteringKeepsCovered
        <4> QED  BY <4>2, <4>3
      <3>5. CASE EnsureTest(p) \/ EnsureSet(p) \/ Store(p)
        BY <3>5, OthersKeepCovered DEF EnsureTest, EnsureSet, Store, Goto, TypeOK, Registering, Procs
      <3>6. CASE EnsureLock(p)
        BY <3>6, OthersKeepCovered DEF EnsureLock, Goto, TypeOK, Registering, Procs
      <3>7. CASE addDefaultHandler(p)
        <4>1. pc[p] = "default" /\ pos[p] = NumLanguages + 1 /\ pc[p] \in Registering
          BY <3>7 DEF addDefaultHandler, PosOK, Registering
        <4>2. CASE pos[p] \in urls
          BY <3>7, <4>1, <4>2, GivingUpKeepsCovered DEF addDefaultHandler
        <4>3. CASE pos[p] \notin urls
          <5>1. pos[p] \in Urls /\ ~(pos[p] < NumLanguages + 1)
            BY <4>1, LanguagesAssumption DEF Urls
          <5>2. \A q \in Procs : q # p => pc'[q] = pc[q] /\ pos'[q] = pos[q]
            BY <3>7, <4>3 DEF addDefaultHandler, Goto, TypeOK
          <5>3. pc[Server] \in {"build", "remove", "dead"} => pc'[Server] = pc[Server]
            BY <4>1, <5>2 DEF Procs
          <5>4. urls' = urls \cup {pos[p]}
            BY <3>7, <4>3 DEF addDefaultHandler
          <5> QED  BY <4>1, <4>3, <5>1, <5>2, <5>3, <5>4, RegisteringKeepsCovered
        <4> QED  BY <4>2, <4>3
      <3> QED  BY <2>1, <3>1, <3>2, <3>3, <3>4, <3>5, <3>6, <3>7 DEF ReloadStep
    <2>2. ASSUME NEW l \in Loops, LoopStep(l) PROVE Covered'
      BY <2>2, OthersKeepCovered, ProcsAssumption
      DEF LoopStep, updateCheck, updateLoop, Goto, TypeOK, Registering, Procs
    <2>3. CASE stopUpdateLoop \/ ServerStep
      BY <2>3, OthersKeepCovered
      DEF stopUpdateLoop, ServerStep, SwapThread, JoinThread, ResetFlag, shutdown, Goto, TypeOK,
          Registering, Procs
    <2>4. ASSUME NEW a \in Admins, AdminReload(a) PROVE Covered'
      BY <2>4, OthersKeepCovered, ProcsAssumption DEF AdminReload, Goto, TypeOK, Registering, Procs
    <2>5. CASE request_reload \/ UNCHANGED vars
      BY <2>5, OthersKeepCovered DEF request_reload, vars
    <2> QED  BY <2>1, <2>2, <2>3, <2>4, <2>5 DEF Next
  <1>3. TypeOK /\ Covered => ServiceRestored
    BY DEF TypeOK, Covered, Helps, ServiceRestored, InInit, Procs
  <1> QED  BY <1>1, <1>2, <1>3, TypeAndPosition, PTL DEF Spec

-----------------------------------------------------------------------------
(* PluginImpl: the outcome of a request and the response, stage by stage.  *)

\* A request is under way from its parsing on.
Asked == stage \notin {"new", "refused", "idle"} => req \in HttpRequests

\* No header or body is set before a request was executed.
Untouched == stage \in {"new", "refused", "idle", "execute"} => resp = NoResponse

\* Outputs are under way while nothing has thrown, reports after it.
Outcomes ==
    /\ stage \in {"answer", "validate"} => result.ok /\ resp.error = "none"
    /\ stage = "error" => ~result.ok /\ resp.error = "none"
    /\ stage = "validateError" =>
         /\ ~result.ok /\ result.kind # "Interrupted"
         /\ resp.error # "none" /\ resp.status # 200
    /\ stage = "thrown" => ~result.ok
    /\ stage = "sent" =>
         \/ result.ok /\ resp.error = "none"
         \/ ~result.ok /\ resp.error # "none" /\ resp.status # 200

\* The cache headers are set by Answer, for status 200, and what comes after it
\* throws only when the output is validated and failures count.
Headers ==
    /\ stage = "answer" => ~resp.cached
    /\ stage \in {"validate", "sent"} /\ resp.cached =>
         \/ resp.status = 200
         \/ ~result.ok /\ config.validate /\ config.failOnErrors
    /\ stage \in {"error", "validateError"} /\ resp.cached =>
         config.validate /\ config.failOnErrors

ImplInv ==
    /\ ImplTypeOK /\ Asked /\ Untouched /\ Outcomes /\ Headers
    /\ HostsClean /\ ThrowsUnlessReported

\* Every error report has a status and a code.
LEMMA ReportHasCode ==
    ASSUME NEW exc
    PROVE  /\ create_error_response(exc).status \in {400, 500}
           /\ create_error_response(exc).code # "none"
BY DEF create_error_response

\* What executing a request writes: the placeholders are replaced by a proper
\* host, a known protocol and an API key that may be returned.
LEMMA BodySubstituted ==
    ASSUME NEW r \in HttpRequests, NEW out \in Execution
    PROVE  LET body == substitute_all(execute_request(r, out), out) IN
           /\ body.form = out.form /\ body.valid = out.valid
           /\ body.host \in Hosts \cup {Fallback, "-"}
           /\ body.host \notin BadHosts /\ body.host # "HOST"
           /\ body.protocol \in {"http", "https"}
           /\ body.apikey = (r.apikey = "good")
<1> DEFINE target == execute_request(r, out)
<1>1. /\ out.host = "HOST" /\ out.protocol = "PROTOCOL"
      /\ DOMAIN out = {"form", "valid", "host", "protocol", "apikey", "status"}
  BY DEF Execution
<1>2. /\ RequestHost(r) \in Hosts \cup {Fallback, "-"}
      /\ target.host = IF RequestHost(r) \in BadHosts THEN Fallback ELSE RequestHost(r)
      /\ target.protocol = IF r.protocol \in {"http", "https"} THEN r.protocol ELSE "http"
      /\ target.apikey = (r.apikey = "good")
  <2>1. RequestHost(r) \in Hosts \cup {Fallback, "-"}
    BY HostsAssumption DEF RequestHost
  <2> QED  BY <1>1, <2>1 DEF execute_request
<1>3. target.host \notin BadHosts /\ target.host # "HOST" /\ target.host \in Hosts \cup {Fallback, "-"}
  BY <1>2, HostsAssumption
<1> HIDE DEF target
<1>4. target.protocol \in {"http", "https"}
  BY <1>2
<1> DEFINE body == substitute_all(target, out)
<1>5. /\ body.form = out.form /\ body.valid = out.valid /\ body.host = target.host
      /\ body.protocol = target.protocol /\ body.apikey = target.apikey
  BY <1>1 DEF substitute_all
<1> HIDE DEF body
<1>6. /\ body.form = out.form /\ body.valid = out.valid
      /\ body.host \in Hosts \cup {Fallback, "-"}
      /\ body.host \notin BadHosts /\ body.host # "HOST"
      /\ body.protocol \in {"http", "https"}
      /\ body.apikey = (r.apikey = "good")
  BY <1>2, <1>3, <1>4, <1>5
<1> QED  BY <1>6 DEF body, target

LEMMA ImplInvInit == ImplInit => ImplInv
<1> SUFFICES ASSUME ImplInit PROVE ImplInv
  OBVIOUS
<1>1. /\ stage = "new" /\ resp = NoResponse /\ req = [name |-> "-"]
      /\ config.validate = FALSE /\ config.failOnErrors = FALSE
  BY DEF ImplInit
<1>2. ImplTypeOK
  BY <1>1 DEF ImplTypeOK, Stages, NoResponse
<1> QED  BY <1>1, <1>2 DEF ImplInv, Asked, Untouched, Outcomes, Headers, HostsClean, ThrowsUnlessReported

\* One step of realRequestHandler keeps the invariant.
LEMMA ImplInvNext ==
    ASSUME ImplInv, [ImplNext]_impl_vars
    PROVE  ImplInv'
<1> USE DEF ImplInv
<1>1. ASSUME NEW cfg \in ImplConfigs, NewPluginImpl(cfg) PROVE ImplInv'
  <2>1. /\ stage = "new" /\ stage' \in {"idle", "refused"} /\ UNCHANGED <<req, result, resp>>
        /\ resp = NoResponse
    BY <1>1 DEF NewPluginImpl, Untouched
  <2>2. config'.validate \in BOOLEAN /\ config'.failOnErrors \in BOOLEAN
    <3> DEFINE v == "validateXmlOutput" \in cfg.params
               f == "failOnValidateErrors" \in cfg.params
    <3>1. v \in BOOLEAN /\ f \in BOOLEAN
      OBVIOUS
    <3> HIDE DEF v, f
    <3>2. config' = config \/ \E p : config' = [validate |-> v, failOnErrors |-> f, parts |-> p]
      BY <1>1 DEF NewPluginImpl, v, f
    <3> QED  BY <3>1, <3>2 DEF ImplTypeOK
  <2>3. ImplTypeOK'
    BY <2>1, <2>2 DEF ImplTypeOK, Stages
  <2> QED  BY <2>1, <2>3 DEF Asked, Untouched, Outcomes,
              Headers, HostsClean, ThrowsUnlessReported
<1>2. ASSUME NEW r \in HttpRequests, Query(r) PROVE ImplInv'
  <2>1. /\ stage = "idle" /\ req' = r /\ UNCHANGED <<config, resp>> /\ resp = NoResponse
        /\ \/ stage' = "execute"
           \/ stage' = "error" /\ ~result'.ok
    BY <1>2 DEF Query, Untouched
  <2>2. ImplTypeOK'
    BY <2>1 DEF ImplTypeOK, Stages
  <2>3. resp.error = "none" /\ resp.cached = FALSE
    BY <2>1 DEF NoResponse
  <2> QED  BY <2>1, <2>2, <2>3 DEF Asked, Untouched, Outcomes,
              Headers, HostsClean, ThrowsUnlessReported
<1>3. ASSUME NEW out \in Execution, Executed(out) PROVE ImplInv'
  <2> DEFINE body == substitute_all(execute_request(req, out), out)
             status == IF out.status = 0 THEN 200 ELSE out.status
             type == IF body.form = "html" THEN "html" ELSE "xml"
  <2>1. /\ stage = "execute" /\ stage' = "answer" /\ UNCHANGED <<config, req>> /\ result'.ok
        /\ resp' = [resp EXCEPT !.form = body.form, !.valid = body.valid, !.host = body.host,
                                !.protocol = body.protocol, !.apikey = body.apikey,
                                !.status = status, !.type = type]
    BY <1>3 DEF Executed, Ok
  <2>2. resp = NoResponse
    BY <2>1 DEF Untouched
  <2>3. /\ body.form \in {"xml", "html", "empty"} /\ body.valid \in BOOLEAN
        /\ body.host \in Hosts \cup {Fallback, "-"} /\ body.host \notin BadHosts /\ body.host # "HOST"
        /\ body.protocol \in {"http", "https"} /\ body.apikey = (req.apikey = "good")
        /\ status \in {200, 400} /\ type \in {"xml", "html"}
    <3>1. req \in HttpRequests
      BY <1>3, <2>1 DEF Asked
    <3>2. out.form \in {"xml", "html", "empty"} /\ out.valid \in BOOLEAN /\ out.status \in {0, 400}
      BY DEF Execution
    <3> QED  BY <3>1, <3>2, BodySubstituted
  <2> HIDE DEF body, status, type
  <2>4. /\ DOMAIN resp' = DOMAIN NoResponse
        /\ resp'.form = body.form /\ resp'.valid = body.valid /\ resp'.host = body.host
        /\ resp'.protocol = body.protocol /\ resp'.apikey = body.apikey
        /\ resp'.status = status /\ resp'.type = type
        /\ resp'.error = "none" /\ resp'.cached = FALSE
    BY <2>1, <2>2 DEF NoResponse
  <2>5. ImplTypeOK'
    BY <2>1, <2>3, <2>4 DEF ImplTypeOK, Stages
  <2>6. HostsClean'
    BY <2>1, <2>3, <2>4 DEF HostsClean
  <2> QED  BY <2>1, <2>4, <2>5, <2>6 DEF Asked, Untouched, Outcomes,
              Headers, ThrowsUnlessReported
<1>4. ASSUME NEW exc \in Exceptions, ExecuteThrows(exc) PROVE ImplInv'
  <2>1. /\ stage = "execute" /\ stage' = "error" /\ UNCHANGED <<config, req, resp>> /\ ~result'.ok
    BY <1>4 DEF ExecuteThrows, Exceptions, Traced, Fail, NoCode, Throw
  <2>2. resp.error = "none" /\ resp.cached = FALSE
    BY <2>1 DEF Untouched, NoResponse
  <2>3. ImplTypeOK'
    BY <2>1 DEF ImplTypeOK, Stages
  <2> QED  BY <2>1, <2>2, <2>3 DEF Asked, Untouched, Outcomes,
              Headers, HostsClean, ThrowsUnlessReported
<1>5. CASE Answer
  <2>1. stage = "answer" /\ UNCHANGED <<config, req>> /\ result.ok /\ resp.error = "none" /\ ~resp.cached
    BY <1>5 DEF Answer, Outcomes, Headers
  <2>2. CASE resp.form = "empty"
    <3>1. stage' = "error" /\ UNCHANGED resp /\ ~result'.ok
      BY <1>5, <2>2 DEF Answer, Fail, Throw
    <3>2. ImplTypeOK'
      BY <2>1, <3>1 DEF ImplTypeOK, Stages
    <3> QED  BY <2>1, <3>1, <3>2 DEF Asked, Untouched, Outcomes,
                Headers, HostsClean, ThrowsUnlessReported
  <2>3. CASE resp.form # "empty"
    <3> DEFINE c == resp.cached \/ resp.status = 200
    <3>1. stage' = "validate" /\ resp' = [resp EXCEPT !.cached = c] /\ UNCHANGED result
      BY <1>5, <2>3 DEF Answer
    <3>2. c \in BOOLEAN /\ (c => resp.status = 200)
      BY <2>1
    <3> HIDE DEF c
    <3>3. /\ DOMAIN resp' = DOMAIN NoResponse /\ resp'.cached = c /\ resp'.form = resp.form
          /\ resp'.valid = resp.valid /\ resp'.host = resp.host /\ resp'.protocol = resp.protocol
          /\ resp'.apikey = resp.apikey /\ resp'.status = resp.status /\ resp'.type = resp.type
          /\ resp'.error = resp.error
      BY <3>1 DEF ImplTypeOK, NoResponse
    <3>4. ImplTypeOK'
      BY <2>1, <3>1, <3>2, <3>3 DEF ImplTypeOK, Stages
    <3>5. HostsClean'
      BY <2>1, <3>1, <3>3 DEF HostsClean
    <3> QED  BY <2>1, <3>1, <3>2, <3>3, <3>4, <3>5 DEF Asked, Untouched, Outcomes,
                Headers, ThrowsUnlessReported
  <2> QED  BY <2>2, <2>3
<1>6. CASE Validate
  <2>1. stage = "validate" /\ UNCHANGED <<config, req, resp>> /\ result.ok /\ resp.error = "none"
    BY <1>6 DEF Validate, Outcomes
  <2>2. \/ stage' = "error" /\ ~result'.ok /\ config.validate /\ config.failOnErrors
        \/ stage' = "sent" /\ UNCHANGED result
    BY <1>6 DEF Validate, maybe_validate_output, Fail, Throw
  <2>3. ImplTypeOK'
    BY <2>1, <2>2 DEF ImplTypeOK, Stages
  <2> QED  BY <2>1, <2>2, <2>3 DEF Asked, Untouched, Outcomes,
              Headers, HostsClean, ThrowsUnlessReported
<1>7. ASSUME NEW form \in {"xml", "text"}, NEW valid \in BOOLEAN, ErrorResponse(form, valid)
      PROVE  ImplInv'
  <2> DEFINE err == create_error_response(result)
  <2>1. /\ stage = "error" /\ stage' = "validateError" /\ UNCHANGED <<config, req, result>>
        /\ ~result.ok /\ result.kind # "Interrupted"
        /\ resp' = [resp EXCEPT !.form = form, !.valid = valid, !.status = err.status,
                                !.error = err.code, !.type = "xml"]
    BY <1>7 DEF ErrorResponse, Outcomes
  <2>2. err.status \in {400, 500} /\ err.code # "none"
    BY ReportHasCode
  <2> HIDE DEF err
  <2>3. /\ DOMAIN resp' = DOMAIN NoResponse /\ resp'.form = form /\ resp'.valid = valid
        /\ resp'.status = err.status /\ resp'.error = err.code /\ resp'.type = "xml"
        /\ resp'.host = resp.host /\ resp'.protocol = resp.protocol
        /\ resp'.apikey = resp.apikey /\ resp'.cached = resp.cached
    BY <2>1 DEF ImplTypeOK, NoResponse
  <2>4. ImplTypeOK'
    BY <2>1, <2>2, <2>3 DEF ImplTypeOK, Stages
  <2> QED  BY <2>1, <2>2, <2>3, <2>4 DEF Asked, Untouched, Outcomes,
              Headers, HostsClean, ThrowsUnlessReported
<1>8. CASE ValidateError
  <2>1. /\ stage = "validateError" /\ UNCHANGED <<config, req, result, resp>> /\ ~result.ok
        /\ result.kind # "Interrupted" /\ resp.error # "none" /\ resp.status # 200
    BY <1>8 DEF ValidateError, Outcomes
  <2>2. \/ stage' = "thrown" /\ config.validate /\ resp.form = "xml" /\ ~resp.valid
        \/ stage' = "sent" /\ (config.validate => resp.form # "xml" \/ resp.valid)
    BY <1>8 DEF ValidateError, maybe_validate_output
  <2>3. ImplTypeOK'
    BY <2>1, <2>2 DEF ImplTypeOK, Stages
  <2> QED  BY <2>1, <2>2, <2>3 DEF Asked, Untouched, Outcomes,
              Headers, HostsClean, ThrowsUnlessReported
<1>9. CASE Interrupted
  <2>1. /\ stage = "error" /\ stage' = "thrown" /\ UNCHANGED <<config, req, result, resp>>
        /\ ~result.ok /\ result.kind = "Interrupted" /\ resp.error = "none"
    BY <1>9 DEF Interrupted, Outcomes
  <2>2. ImplTypeOK'
    BY <2>1 DEF ImplTypeOK, Stages
  <2> QED  BY <2>1, <2>2 DEF Asked, Untouched, Outcomes,
              Headers, HostsClean, ThrowsUnlessReported
<1>10. CASE Done \/ UNCHANGED impl_vars
  BY <1>10 DEF Done, impl_vars, ImplTypeOK, Asked, Untouched, Outcomes, Headers, HostsClean, ThrowsUnlessReported
<1> QED  BY <1>1, <1>2, <1>3, <1>4, <1>5, <1>6, <1>7, <1>8, <1>9, <1>10 DEF ImplNext

LEMMA ImplInvAlways == ImplSpec => []ImplInv
BY ImplInvInit, ImplInvNext, PTL DEF ImplSpec

-----------------------------------------------------------------------------
(* PluginImpl: the theorems.                                               *)

\* Type correctness of realRequestHandler.
THEOREM ImplTypeCorrect == ImplSpec => []ImplTypeOK
<1>1. ImplInv => ImplTypeOK
  BY DEF ImplInv
<1> QED  BY ImplInvAlways, <1>1, PTL

\* What is sent is the output of the request, or an error report with a code
\* and an error status (realRequestHandler, ErrorResponseGenerator).
THEOREM AlwaysAnswerOrError == ImplSpec => []AnswerOrError
<1>1. ImplInv => AnswerOrError
  BY DEF ImplInv, Outcomes, AnswerOrError
<1> QED  BY ImplInvAlways, <1>1, PTL

\* An error goes out with cache headers only when an output that was to be
\* cached was found invalid (realRequestHandler sets them before it validates).
THEOREM HeadersAlwaysDue == ImplSpec => []CacheHeaders
<1>1. ImplInv => CacheHeaders
  BY DEF ImplInv, Headers, CacheHeaders
<1> QED  BY ImplInvAlways, <1>1, PTL

\* No place holder, improper host or unknown protocol is in an output, whatever
\* the headers of the request (execute_request, substitute_all).
THEOREM HostsAlwaysClean == ImplSpec => []HostsClean
<1>1. ImplInv => HostsClean
  BY DEF ImplInv
<1> QED  BY ImplInvAlways, <1>1, PTL

\* What leaves realRequestHandler by an exception is an interruption nothing was
\* reported of, or an error report found invalid; nothing else is left unanswered.
THEOREM AlwaysThrowsUnlessReported == ImplSpec => []ThrowsUnlessReported
<1>1. ImplInv => ThrowsUnlessReported
  BY DEF ImplInv
<1> QED  BY ImplInvAlways, <1>1, PTL

-----------------------------------------------------------------------------
(* WfsRequests: the inductive invariant.                                   *)

\* The tables are finite: handlers come one at a time.
Tables == IsFiniteSet(DOMAIN handlers) /\ IsFiniteSet(caps.used)

\* What a visible handler returns was registered when it was constructed, and
\* no registration is taken back.
Known ==
    \A id \in DOMAIN handlers :
        ~handlers[id].hidden => Range(handlers[id].returns) \subseteq caps.used

\* Capabilities have the features of the visible handlers that are still there.
Announced ==
    job.kind = "Capabilities" =>
        \A id \in DOMAIN handlers \ changed : ~handlers[id].hidden =>
            \A f \in Range(handlers[id].returns) :
                ~FeatureDefs[f].hidden => f \in Range(job.out)

\* A visible handler that nobody changed is listed or still to be listed.
Pending ==
    job.kind = "List" /\ job.state \in {"run", "done"} =>
        /\ \A id \in DOMAIN handlers \ changed :
             handlers[id].hidden \/ id \in Range(job.todo) \/ id \in ListedIds
        /\ job.state = "done" => job.todo = <<>>

\* While nothing changes every name on the list has its handler.
Present ==
    job.kind = "List" /\ job.state = "run" /\ changed = {} =>
        Range(job.todo) \subseteq DOMAIN handlers

RequestsInv ==
    /\ RequestsTypeOK /\ Tables /\ Known /\ Announced /\ Pending /\ Present
    /\ ListingFailsOnlyOnChange

-----------------------------------------------------------------------------
(* Sorted and Checked.                                                     *)

\* Sorted(S) has the elements of S in their order.
LEMMA SortedElements ==
    ASSUME NEW S \in SUBSET Nat, IsFiniteSet(S)
    PROVE  /\ Sorted(S) \in Seq(S) /\ Range(Sorted(S)) = S
           /\ \A i, j \in DOMAIN Sorted(S) : i < j => Sorted(S)[i] < Sorted(S)[j]
<1>1. Sorted(S) = InOrder(S)
  BY DEF Sorted, InOrder
<1> QED  BY <1>1, InOrderElements

\* A block with one test.
LEMMA CheckedOne ==
    ASSUME NEW C \in BOOLEAN, NEW code, NEW r
    PROVE  Checked(<< <<C, code>> >>, r) = IF C THEN Fail(code) ELSE r
BY DEF Checked

-----------------------------------------------------------------------------
(* One turn of the listing.                                                *)

\* The return types of a handler are those of some handlers.
LEMMA ReturnTypes ==
    ASSUME RequestsTypeOK, Tables, NEW id \in DOMAIN handlers
    PROVE  LET returns == get_return_types(handlers[id]) IN
           /\ returns \in Seq(Nat)
           /\ \A i \in DOMAIN returns : \E k \in DOMAIN handlers :
                returns[i] \in Range(handlers[k].returns)
<1> DEFINE all == {Range(handlers[k].returns) : k \in DOMAIN handlers}
           of == [k \in DOMAIN handlers |-> Range(handlers[k].returns)]
<1>1. \A k \in DOMAIN handlers : handlers[k].returns \in Seq(Nat)
  BY ConfigsAssumption DEF RequestsTypeOK
<1>2. CASE handlers[id].any
  <2>1. IsFiniteSet(all)
    <3>1. of \in Surjection(DOMAIN handlers, all)
      BY DEF Surjection
    <3> QED  BY <3>1, FS_Surjection DEF Tables
  <2>2. ASSUME NEW k \in DOMAIN handlers
        PROVE  /\ IsFiniteSet(Range(handlers[k].returns))
               /\ Range(handlers[k].returns) \in SUBSET Nat
    <3> DEFINE r == handlers[k].returns
    <3>1. r \in Seq(Nat)
      BY <1>1
    <3> HIDE DEF r
    <3>2. r \in [1 .. Len(r) -> Nat] /\ Len(r) \in Nat
      BY <3>1
    <3>3. IsFiniteSet(1 .. Len(r))
      BY <3>2, FS_Interval
    <3>4. IsFiniteSet(Range(r))
      BY <3>2, <3>3, RangeFinite
    <3>5. Range(r) \in SUBSET Nat
      BY <3>2 DEF Range
    <3> QED  BY <3>4, <3>5 DEF r
  <2>3. \A T \in all : IsFiniteSet(T)
    BY <2>2
  <2>4. IsFiniteSet(UNION all) /\ UNION all \in SUBSET Nat
    <3>1. IsFiniteSet(UNION all)
      <4> HIDE DEF all
      <4> QED  BY <2>1, <2>3, FS_UNION
    <3> QED  BY <2>2, <3>1
  <2>5. get_return_types(handlers[id]) = Sorted(UNION all)
    BY <1>2 DEF get_return_types
  <2> DEFINE s == Sorted(UNION all)
  <2>6. s \in Seq(UNION all) /\ Range(s) = UNION all
    <3> HIDE DEF all
    <3> QED  BY <2>4, SortedElements
  <2> HIDE DEF s
  <2>7. s \in Seq(Nat)
    <3> DEFINE U == UNION all
    <3>1. s \in Seq(U) /\ \A x \in U : x \in Nat
      BY <2>4, <2>6
    <3> HIDE DEF U
    <3>2. Len(s) \in Nat /\ DOMAIN s = 1 .. Len(s) /\ \A i \in 1 .. Len(s) : s[i] \in U
      BY <3>1
    <3>3. s \in [1 .. Len(s) -> Nat]
      BY <3>1, <3>2
    <3> QED  BY <3>2, <3>3
  <2>8. \A i \in DOMAIN s : \E k \in DOMAIN handlers : s[i] \in Range(handlers[k].returns)
    <3>1. \A i \in DOMAIN s : s[i] \in UNION all
      BY <2>6 DEF Range
    <3> QED  BY <3>1
  <2> QED  BY <2>5, <2>7, <2>8 DEF s
<1>3. CASE ~handlers[id].any
  <2>1. get_return_types(handlers[id]) = handlers[id].returns
    BY <1>3 DEF get_return_types
  <2> QED  BY <1>1, <2>1 DEF Range
<1> QED  BY <1>2, <1>3

\* A turn of the listing: a handler that is gone, hidden, listed, or refused
\* for a return type of some handler that does not exist.
LEMMA ListEntry ==
    ASSUME RequestsTypeOK, Tables, NEW id \in HandlerIds
    PROVE  \/ id \notin DOMAIN handlers /\ ~list_entry(id).ok
           \/ /\ id \in DOMAIN handlers /\ handlers[id].hidden
              /\ list_entry(id).ok /\ list_entry(id).val = <<>>
           \/ /\ id \in DOMAIN handlers /\ ~handlers[id].hidden
              /\ list_entry(id).ok
              /\ \E e \in Entries : e.id = id /\ list_entry(id).val = <<e>>
           \/ /\ id \in DOMAIN handlers /\ ~handlers[id].hidden /\ ~list_entry(id).ok
              /\ \E f \in Range(get_return_types(handlers[id])) : f \notin Features
<1>1. CASE id \notin DOMAIN handlers
  BY <1>1 DEF list_entry, get_handler_by_name, Then, Fail, Throw
<1>2. CASE id \in DOMAIN handlers
  <2> DEFINE h == handlers[id]
             returns == get_return_types(h)
             e == [id |-> id, types |-> [i \in DOMAIN returns |->
                        <<FeatureDefs[returns[i]].ns, FeatureDefs[returns[i]].type>>]]
             C == \E i \in DOMAIN returns : ~find_feature(returns[i]).ok
  <2>1. list_entry(id) = IF h.hidden THEN Ok(<<>>)
                         ELSE Checked(<< <<C, "OperationProcessingFailed">> >>, Ok(<<e>>))
    BY <1>2 DEF list_entry, get_handler_by_name, Then, Ok
  <2>2. C \in BOOLEAN /\ (C <=> \E i \in DOMAIN returns : returns[i] \notin Features)
    BY DEF find_feature, Ok, NoCode, Fail, Throw
  <2>3. CASE h.hidden
    BY <1>2, <2>1, <2>3 DEF Ok
  <2>4. CASE ~h.hidden /\ C
    <3>1. \E f \in Range(returns) : f \notin Features
      BY <2>2, <2>4 DEF Range
    <3> HIDE DEF C, e, returns
    <3>2. list_entry(id) = Fail("OperationProcessingFailed")
      BY <2>1, <2>2, <2>4, CheckedOne
    <3> QED  BY <1>2, <2>4, <3>1, <3>2 DEF Fail, Throw, returns
  <2>5. CASE ~h.hidden /\ ~C
    <3>1. e \in Entries /\ e.id = id
      <4>1. returns \in Seq(Nat)
        BY <1>2, ReturnTypes
      <4>2. \A i \in DOMAIN returns : returns[i] \in Features
        BY <2>2, <2>5
      <4>3. Len(returns) \in Nat /\ DOMAIN returns = 1 .. Len(returns)
        BY <4>1
      <4> HIDE DEF returns, C
      <4> QED  BY <4>2, <4>3 DEF Entries
    <3> HIDE DEF C, e, returns
    <3>2. list_entry(id) = Ok(<<e>>)
      BY <2>1, <2>2, <2>5, CheckedOne
    <3>3. list_entry(id).ok /\ list_entry(id).val = <<e>>
      BY <3>2 DEF Ok
    <3> QED  BY <1>2, <2>5, <3>1, <3>3
  <2> QED  BY <2>2, <2>3, <2>4, <2>5
<1> QED  BY <1>1, <1>2

-----------------------------------------------------------------------------
(* The monitor.                                                            *)

\* The features that a constructor registers: all of the handler's if none is
\* refused.
LEMMA FeatureUse ==
    ASSUME NEW returns \in Seq(Nat)
    PROVE  LET use == register_feature_use(returns) IN
           /\ use.new \subseteq Features /\ IsFiniteSet(use.new)
           /\ use.ok => Range(returns) \subseteq use.new
<1> DEFINE accepted == {i \in DOMAIN returns : \A j \in 1 .. i : returns[j] \in Features}
           new == {returns[i] : i \in accepted}
           of == [i \in accepted |-> returns[i]]
<1>1. Len(returns) \in Nat /\ DOMAIN returns = 1 .. Len(returns)
  OBVIOUS
<1>2. register_feature_use(returns) = [ok |-> accepted = DOMAIN returns, new |-> new]
  BY DEF register_feature_use, Registered
<1>3. IsFiniteSet(accepted)
  <2>1. IsFiniteSet(1 .. Len(returns))
    BY <1>1, FS_Interval
  <2>2. accepted \in SUBSET (1 .. Len(returns))
    BY <1>1
  <2> QED  BY <2>1, <2>2, FS_Subset
<1>4. IsFiniteSet(new)
  <2>1. of \in Surjection(accepted, new)
    BY DEF Surjection
  <2> HIDE DEF new, accepted, of
  <2> QED  BY <1>3, <2>1, FS_Surjection
<1>5. new \subseteq Features
  BY <1>1
<1>6. accepted = DOMAIN returns => Range(returns) \subseteq new
  BY DEF Range
<1> DEFINE use == register_feature_use(returns)
<1> HIDE DEF new, accepted
<1>7. use.new = new
  BY <1>2
<1>8. use.ok => accepted = DOMAIN returns
  <2> DEFINE all == accepted = DOMAIN returns
  <2>1. use = [ok |-> all, new |-> new]
    BY <1>2
  <2> HIDE DEF use, all
  <2>2. use.ok = all
    BY <2>1
  <2> QED  BY <2>2 DEF all
<1> QED  BY <1>4, <1>5, <1>6, <1>7, <1>8

\* A change of handlers leaves the request under way as it is, and marks what
\* it changes.
LEMMA MonitorStep ==
    ASSUME RequestsInv, RequestsTypeOK', Tables', Known', job' = job, changed \subseteq changed',
           \A k \in DOMAIN handlers' \ changed' :
             k \in DOMAIN handlers \ changed /\ handlers'[k] = handlers[k],
           handlers' = handlers \/ changed' # {}
    PROVE  RequestsInv'
<1>1. Announced'
  BY DEF RequestsInv, Announced
<1>2. Pending'
  BY DEF RequestsInv, Pending, ListedIds
<1>3. Present'
  BY DEF RequestsInv, Present
<1>4. ListingFailsOnlyOnChange'
  BY DEF RequestsInv, ListingFailsOnlyOnChange, Unchecked
<1> QED  BY <1>1, <1>2, <1>3, <1>4 DEF RequestsInv

\* A constructor, that fails or not.
LEMMA AddNext ==
    ASSUME RequestsInv, NEW id \in HandlerIds, NEW cfg \in HandlerConfigs, add_handler(id, cfg)
    PROVE  RequestsInv'
<1> DEFINE returns == IF cfg.hidden THEN <<>> ELSE cfg.returns
           use == register_feature_use(returns)
           sets == register_data_set(IF use.ok THEN cfg.datasets ELSE <<>>)
           ok == use.ok /\ sets.ok
<1>1. /\ loads' = loads + 1 /\ UNCHANGED job
      /\ caps' = [used |-> caps.used \cup use.new, datasets |-> caps.datasets \cup sets.new]
      /\ handlers' = IF ok THEN [i \in DOMAIN handlers \cup {id} |->
                                   IF i = id THEN cfg ELSE handlers[i]]
                     ELSE handlers
      /\ changed' = IF ok THEN changed \cup {id} ELSE changed
  BY DEF add_handler
<1>2. returns \in Seq(Nat)
  BY ConfigsAssumption
<1>3. /\ use.new \subseteq Features /\ IsFiniteSet(use.new)
      /\ use.ok => Range(returns) \subseteq use.new
  BY <1>2, FeatureUse
<1>4. use.ok /\ ~cfg.hidden => Range(cfg.returns) \subseteq use.new
  BY <1>3
<1> HIDE DEF use, sets
<1>5. caps'.used = caps.used \cup use.new
  BY <1>1
<1>6. /\ DOMAIN handlers' \subseteq DOMAIN handlers \cup {id} /\ changed \subseteq changed'
      /\ \A k \in DOMAIN handlers' :
           \/ k \in DOMAIN handlers /\ handlers'[k] = handlers[k] /\ (k \in changed' => k \in changed \/ k = id)
           \/ k = id /\ handlers'[k] = cfg /\ ok /\ k \in changed'
      /\ handlers' = handlers \/ changed' # {}
      /\ changed' \subseteq changed \cup {id}
  <2>1. CASE ok
    <3> HIDE DEF ok
    <3>1. /\ handlers' = [i \in DOMAIN handlers \cup {id} |-> IF i = id THEN cfg ELSE handlers[i]]
          /\ changed' = changed \cup {id}
      BY <1>1, <2>1
    <3> QED  BY <2>1, <3>1
  <2>2. CASE ~ok
    <3> HIDE DEF ok
    <3> QED  BY <1>1, <2>2
  <2> QED  BY <2>1, <2>2
<1>7. RequestsTypeOK'
  BY <1>1, <1>3, <1>5, <1>6 DEF RequestsInv, RequestsTypeOK
<1>8. Tables'
  <2>1. IsFiniteSet(DOMAIN handlers \cup {id})
    BY FS_AddElement DEF RequestsInv, Tables
  <2>2. DOMAIN handlers' \in SUBSET (DOMAIN handlers \cup {id})
    BY <1>6
  <2>3. IsFiniteSet(DOMAIN handlers')
    BY <2>1, <2>2, FS_Subset
  <2>4. IsFiniteSet(caps.used \cup use.new)
    BY <1>3, FS_Union DEF RequestsInv, Tables
  <2> QED  BY <1>5, <2>3, <2>4 DEF Tables
<1>9. Known'
  <2> SUFFICES ASSUME NEW k \in DOMAIN handlers', ~handlers'[k].hidden
               PROVE  Range(handlers'[k].returns) \subseteq caps'.used
    BY DEF Known
  <2>1. CASE k \in DOMAIN handlers /\ handlers'[k] = handlers[k]
    BY <1>5, <2>1 DEF RequestsInv, Known
  <2>2. CASE k = id /\ handlers'[k] = cfg /\ ok
    BY <1>4, <1>5, <2>2
  <2> QED  BY <1>6, <2>1, <2>2
<1>10. \A k \in DOMAIN handlers' \ changed' : k \in DOMAIN handlers \ changed /\ handlers'[k] = handlers[k]
  BY <1>6
<1> QED  BY <1>1, <1>6, <1>7, <1>8, <1>9, <1>10, MonitorStep

LEMMA RemoveNext ==
    ASSUME RequestsInv, NEW id \in HandlerIds, remove_handler(id)
    PROVE  RequestsInv'
<1>1. /\ loads' = loads + 1 /\ UNCHANGED <<caps, job>> /\ id \in DOMAIN handlers
      /\ handlers' = [i \in DOMAIN handlers \ {id} |-> handlers[i]]
      /\ changed' = changed \cup {id}
  BY DEF remove_handler
<1>2. /\ DOMAIN handlers' = DOMAIN handlers \ {id}
      /\ \A k \in DOMAIN handlers' : k \in DOMAIN handlers /\ handlers'[k] = handlers[k]
  BY <1>1
<1>3. RequestsTypeOK'
  BY <1>1, <1>2 DEF RequestsInv, RequestsTypeOK
<1>4. Tables'
  <2>1. IsFiniteSet(DOMAIN handlers \ {id})
    BY FS_RemoveElement DEF RequestsInv, Tables
  <2> QED  BY <1>1, <1>2, <2>1 DEF RequestsInv, Tables
<1>5. Known'
  BY <1>1, <1>2 DEF RequestsInv, Known
<1> QED  BY <1>1, <1>2, <1>3, <1>4, <1>5, MonitorStep

-----------------------------------------------------------------------------
(* The requests.                                                           *)

\* A request step leaves the tables alone.
LEMMA TablesKept ==
    ASSUME RequestsInv, UNCHANGED <<handlers, caps>>
    PROVE  Tables' /\ Known'
BY DEF RequestsInv, Tables, Known

LEMMA ListBeginNext ==
    ASSUME RequestsInv, ListBegin
    PROVE  RequestsInv'
<1> DEFINE ids == Sorted(DOMAIN handlers)
<1>1. /\ UNCHANGED <<handlers, caps, loads>> /\ changed' = {}
      /\ job' = [NoJob EXCEPT !.kind = "List", !.todo = ids, !.state = "run"]
  BY DEF ListBegin
<1>2. ids \in Seq(HandlerIds) /\ Range(ids) = DOMAIN handlers
  <2> DEFINE S == DOMAIN handlers
  <2>1. S \in SUBSET Nat /\ S \subseteq HandlerIds /\ IsFiniteSet(S)
    BY IdsAssumption DEF RequestsInv, RequestsTypeOK, Tables
  <2> HIDE DEF S
  <2> DEFINE s == Sorted(S)
  <2>2. s \in Seq(S) /\ Range(s) = S
    BY <2>1, SortedElements
  <2> HIDE DEF s
  <2>3. Len(s) \in Nat /\ DOMAIN s = 1 .. Len(s) /\ \A i \in 1 .. Len(s) : s[i] \in HandlerIds
    <3>1. Len(s) \in Nat /\ DOMAIN s = 1 .. Len(s) /\ \A i \in 1 .. Len(s) : s[i] \in S
      BY <2>2
    <3> QED  BY <2>1, <3>1
  <2>4. s \in [1 .. Len(s) -> HandlerIds]
    BY <2>2, <2>3
  <2>5. s \in Seq(HandlerIds)
    BY <2>3, <2>4
  <2> QED  BY <2>2, <2>5 DEF S, s
<1> HIDE DEF ids
<1>3. /\ DOMAIN job' = DOMAIN NoJob /\ job'.kind = "List" /\ job'.todo = ids
      /\ job'.out = <<>> /\ job'.state = "run"
  BY <1>1 DEF NoJob
<1>4. RequestsTypeOK'
  <2>1. job'.out \in Seq(Entries') /\ Entries' = Entries
    BY <1>3
  <2> QED  BY <1>1, <1>2, <1>3, <2>1 DEF RequestsInv, RequestsTypeOK
<1>5. Pending' /\ Present' /\ Announced' /\ ListingFailsOnlyOnChange'
  BY <1>1, <1>2, <1>3 DEF Pending, Present, Announced, ListingFailsOnlyOnChange
<1> QED  BY <1>1, <1>4, <1>5, TablesKept DEF RequestsInv

\* The state of a request that is not a listing matters to the capabilities only.
LEMMA OtherNext ==
    ASSUME RequestsInv, UNCHANGED <<handlers, caps, loads>>, RequestsTypeOK', changed' = {} \/ changed' = changed,
           job'.kind # "List", job'.kind # "Capabilities"
    PROVE  RequestsInv'
BY TablesKept DEF RequestsInv, Announced, Pending, Present, ListingFailsOnlyOnChange

LEMMA CapabilitiesNext ==
    ASSUME RequestsInv, GetCapabilities
    PROVE  RequestsInv'
<1> DEFINE visible == {f \in caps.used : ~FeatureDefs[f].hidden}
<1>1. /\ UNCHANGED <<handlers, caps, loads>> /\ changed' = {}
      /\ job' = [NoJob EXCEPT !.kind = "Capabilities", !.state = "done", !.out = Sorted(visible)]
  BY DEF GetCapabilities
<1>2. Range(Sorted(visible)) = visible
  <2>1. visible \in SUBSET caps.used /\ visible \in SUBSET Nat
    BY IdsAssumption DEF RequestsInv, RequestsTypeOK
  <2>2. IsFiniteSet(visible)
    BY <2>1, FS_Subset DEF RequestsInv, Tables
  <2> HIDE DEF visible
  <2> QED  BY <2>1, <2>2, SortedElements
<1>3. /\ DOMAIN job' = DOMAIN NoJob /\ job'.kind = "Capabilities" /\ job'.state = "done"
      /\ job'.out = Sorted(visible)
  <2> DEFINE out == Sorted(visible)
  <2> HIDE DEF out
  <2> QED  BY <1>1 DEF NoJob, out
<1>4. RequestsTypeOK'
  BY <1>1, <1>3 DEF RequestsInv, RequestsTypeOK
<1>5. Announced'
  <2> SUFFICES ASSUME NEW id \in DOMAIN handlers, ~handlers[id].hidden,
                      NEW f \in Range(handlers[id].returns), ~FeatureDefs[f].hidden
               PROVE  f \in visible
    <3> HIDE DEF visible
    <3> QED  BY <1>1, <1>2, <1>3 DEF Announced
  <2> QED  BY DEF RequestsInv, Known
<1>6. Pending' /\ Present' /\ ListingFailsOnlyOnChange'
  BY <1>3 DEF Pending, Present, ListingFailsOnlyOnChange
<1> QED  BY <1>1, <1>4, <1>5, <1>6, TablesKept DEF RequestsInv

\* A turn of a listing.
LEMMA ListStep ==
    ASSUME RequestsInv, Step, job.kind = "List"
    PROVE  RequestsInv'
<1> DEFINE id == Head(job.todo)
           r == list_entry(id)
<1>1. /\ UNCHANGED <<handlers, caps, changed, loads>> /\ job.state = "run" /\ job.todo # <<>>
      /\ job' = IF r.ok THEN [job EXCEPT !.todo = Tail(@), !.out = @ \o r.val]
                ELSE [job EXCEPT !.state = "failed"]
  BY DEF Step
<1>2. /\ job.todo \in Seq(HandlerIds) /\ job.out \in Seq(Entries) /\ DOMAIN job = DOMAIN NoJob
  BY DEF RequestsInv, RequestsTypeOK
<1>3. /\ id \in HandlerIds /\ Tail(job.todo) \in Seq(HandlerIds)
      /\ Range(job.todo) = {id} \cup Range(Tail(job.todo))
  <2> DEFINE s == job.todo
             t == Tail(s)
  <2>1. s \in Seq(HandlerIds) /\ s # <<>>
    BY <1>1, <1>2
  <2> HIDE DEF s
  <2>2. /\ Len(s) \in Nat /\ Len(s) # 0 /\ DOMAIN s = 1 .. Len(s) /\ Head(s) = s[1]
        /\ t \in Seq(HandlerIds) /\ Len(t) = Len(s) - 1 /\ DOMAIN t = 1 .. Len(t)
        /\ \A i \in 1 .. Len(t) : t[i] = s[i + 1]
    BY <2>1
  <2>3. Head(s) \in HandlerIds
    BY <2>1, <2>2
  <2> HIDE DEF t
  <2>4. ASSUME NEW x \in Range(s) PROVE x = Head(s) \/ x \in Range(t)
    <3>1. PICK i \in 1 .. Len(s) : x = s[i]
      BY <2>2 DEF Range
    <3>2. CASE i = 1
      BY <2>2, <3>1, <3>2
    <3>3. CASE i # 1
      <4>1. i - 1 \in 1 .. Len(t) /\ (i - 1) + 1 = i
        BY <2>2, <3>3
      <4>2. t[i - 1] = x
        BY <2>2, <3>1, <4>1
      <4> QED  BY <2>2, <4>1, <4>2 DEF Range
    <3> QED  BY <3>2, <3>3
  <2>5. ASSUME NEW x \in Range(t) PROVE x \in Range(s)
    <3>1. PICK i \in 1 .. Len(t) : x = t[i]
      BY <2>2 DEF Range
    <3>2. i + 1 \in 1 .. Len(s)
      BY <2>2
    <3> QED  BY <2>2, <3>1, <3>2 DEF Range
  <2>6. Head(s) \in Range(s)
    <3>1. 1 \in 1 .. Len(s)
      BY <2>2
    <3> QED  BY <2>2, <3>1 DEF Range
  <2>7. Range(s) = {Head(s)} \cup Range(t)
    BY <2>4, <2>5, <2>6
  <2> QED  BY <2>2, <2>3, <2>7 DEF s, t
<1> HIDE DEF id, r
<1>4. \/ id \notin DOMAIN handlers /\ ~r.ok
      \/ /\ id \in DOMAIN handlers /\ handlers[id].hidden /\ r.ok /\ r.val = <<>>
      \/ /\ id \in DOMAIN handlers /\ ~handlers[id].hidden /\ r.ok
         /\ \E e \in Entries : e.id = id /\ r.val = <<e>>
      \/ /\ id \in DOMAIN handlers /\ ~handlers[id].hidden /\ ~r.ok
         /\ \E f \in Range(get_return_types(handlers[id])) : f \notin Features
  BY <1>3, ListEntry DEF RequestsInv, r
<1>5. CASE r.ok
  <2>1. job' = [job EXCEPT !.todo = Tail(@), !.out = @ \o r.val]
    BY <1>1, <1>5
  <2>2. r.val = <<>> \/ \E e \in Entries : r.val = <<e>>
    BY <1>4, <1>5
  <2>3. /\ DOMAIN job' = DOMAIN NoJob /\ job'.kind = "List" /\ job'.state = "run"
        /\ job'.todo = Tail(job.todo) /\ job'.out = job.out \o r.val
    <3> DEFINE t == Tail(job.todo)
               o == job.out \o r.val
    <3>1. job' = [job EXCEPT !.todo = t, !.out = o]
      BY <2>1
    <3> HIDE DEF t, o
    <3>2. job.kind = "List" /\ job.state = "run" /\ DOMAIN job = DOMAIN NoJob
      BY <1>1, <1>2
    <3>3. DOMAIN NoJob = {"kind", "show_all", "todo", "out", "state"}
      BY DEF NoJob
    <3>4. /\ DOMAIN job' = DOMAIN NoJob /\ job'.kind = "List" /\ job'.state = "run"
          /\ job'.todo = t /\ job'.out = o
      BY <3>1, <3>2, <3>3
    <3> QED  BY <3>4 DEF t, o
  <2>4. /\ job'.out \in Seq(Entries) /\ ListedIds \subseteq ListedIds'
        /\ \A e \in Entries : r.val = <<e>> => e.id \in ListedIds'
    <3> DEFINE s == job.out
               v == r.val
               o == job'.out
    <3>1. s \in Seq(Entries) /\ v \in Seq(Entries) /\ o = s \o v
      <4>1. <<>> \in Seq(Entries) /\ \A e \in Entries : <<e>> \in Seq(Entries)
        OBVIOUS
      <4>2. r.val \in Seq(Entries)
        BY <2>2, <4>1
      <4> QED  BY <1>2, <2>3, <4>2
    <3>2. \A e \in Entries : v = <<e>> => Len(v) = 1 /\ v[1] = e
      OBVIOUS
    <3> HIDE DEF s, v, o
    <3>3. /\ o \in Seq(Entries) /\ Len(o) = Len(s) + Len(v) /\ Len(s) \in Nat /\ Len(v) \in Nat
          /\ DOMAIN s = 1 .. Len(s) /\ DOMAIN o = 1 .. Len(o)
          /\ \A i \in 1 .. Len(s) : o[i] = s[i]
          /\ \A i \in 1 .. Len(v) : o[Len(s) + i] = v[i]
      BY <3>1
    <3>4. \A i \in DOMAIN s : i \in DOMAIN o /\ o[i].id = s[i].id
      BY <3>3
    <3>5. ASSUME NEW e \in Entries, v = <<e>> PROVE \E i \in DOMAIN o : o[i].id = e.id
      <4>1. Len(v) = 1 /\ v[1] = e
        BY <3>2, <3>5
      <4>2. Len(s) + 1 \in DOMAIN o /\ o[Len(s) + 1] = e
        BY <3>3, <4>1
      <4> QED  BY <4>2
    <3> QED  BY <3>3, <3>4, <3>5 DEF ListedIds, s, v, o
  <2>5. RequestsTypeOK'
    BY <1>1, <1>3, <2>3, <2>4 DEF RequestsInv, RequestsTypeOK
  <2>6. Pending'
    <3> SUFFICES ASSUME NEW k \in DOMAIN handlers \ changed, ~handlers[k].hidden
                 PROVE  k \in Range(Tail(job.todo)) \/ k \in ListedIds'
      BY <1>1, <2>3 DEF Pending
    <3>1. k \in Range(job.todo) \/ k \in ListedIds
      BY <1>1 DEF RequestsInv, Pending
    <3>2. CASE k = id
      BY <1>4, <1>5, <2>4, <3>2
    <3>3. CASE k # id
      BY <1>3, <2>4, <3>1, <3>3
    <3> QED  BY <3>2, <3>3
  <2>7. Present'
    BY <1>1, <1>3, <2>3 DEF RequestsInv, Present
  <2>8. Announced' /\ ListingFailsOnlyOnChange'
    BY <2>3 DEF Announced, ListingFailsOnlyOnChange
  <2> QED  BY <1>1, <2>5, <2>6, <2>7, <2>8, TablesKept DEF RequestsInv
<1>6. CASE ~r.ok
  <2>1. /\ DOMAIN job' = DOMAIN NoJob /\ job'.kind = "List" /\ job'.state = "failed"
        /\ job'.todo = job.todo /\ job'.out = job.out
    <3>1. job' = [job EXCEPT !.state = "failed"] /\ job.kind = "List" /\ DOMAIN job = DOMAIN NoJob
      BY <1>1, <1>2, <1>6
    <3> QED  BY <3>1 DEF NoJob
  <2>2. RequestsTypeOK'
    BY <1>1, <2>1 DEF RequestsInv, RequestsTypeOK
  <2>3. ListingFailsOnlyOnChange'
    <3> SUFFICES ASSUME changed = {} PROVE Unchecked # {}
      BY <1>1 DEF ListingFailsOnlyOnChange, Unchecked
    <3>1. id \in DOMAIN handlers
      BY <1>1, <1>3 DEF RequestsInv, Present
    <3>2. PICK f \in Range(get_return_types(handlers[id])) : f \notin Features
      BY <1>4, <1>6, <3>1
    <3>3. PICK k \in DOMAIN handlers : f \in Range(handlers[k].returns)
      <4>1. PICK i \in DOMAIN get_return_types(handlers[id]) : f = get_return_types(handlers[id])[i]
        BY DEF Range
      <4> QED  BY <3>1, <4>1, ReturnTypes DEF RequestsInv
    <3>4. handlers[k].hidden
      BY <3>2, <3>3 DEF RequestsInv, Known, RequestsTypeOK
    <3>5. k \in Unchecked
      BY <3>2, <3>3, <3>4 DEF Unchecked
    <3> QED  BY <3>5
  <2>4. Announced' /\ Pending' /\ Present'
    BY <2>1 DEF Announced, Pending, Present
  <2> QED  BY <1>1, <2>2, <2>3, <2>4, TablesKept DEF RequestsInv
<1> QED  BY <1>5, <1>6

LEMMA RequestsInvInit == RequestsInit => RequestsInv
<1> SUFFICES ASSUME RequestsInit PROVE RequestsInv
  OBVIOUS
<1>1. /\ DOMAIN handlers = {} /\ caps.used = {} /\ job = NoJob /\ changed = {} /\ loads = 0
  BY DEF RequestsInit
<1>2. job.kind = "none" /\ job.state = "idle"
  BY <1>1 DEF NoJob
<1>3. Tables
  BY <1>1, FS_EmptySet DEF Tables
<1>4. RequestsTypeOK
  BY <1>1, <1>2 DEF RequestsTypeOK
<1> QED
  BY <1>1, <1>2, <1>3, <1>4 DEF RequestsInv, Known, Announced, Pending, Present, ListingFailsOnlyOnChange

\* Every step keeps the invariant.
LEMMA RequestsInvNext == RequestsInv /\ [RequestsNext]_requests_vars => RequestsInv'
<1> SUFFICES ASSUME RequestsInv, [RequestsNext]_requests_vars PROVE RequestsInv'
  OBVIOUS
<1>1. ASSUME NEW ids \in {<<>>} \cup {<<id>> : id \in HandlerIds}, DescribeBegin(ids)
      PROVE  RequestsInv'
  <2> DEFINE todo == IF ids = <<>> THEN Sorted(DOMAIN handlers) ELSE ids
             all == ids = <<>>
  <2>1. /\ UNCHANGED <<handlers, caps, loads>> /\ changed' = {}
        /\ job' = [NoJob EXCEPT !.kind = "Describe", !.show_all = all, !.state = "run",
                                !.todo = todo]
    BY <1>1 DEF DescribeBegin
  <2> HIDE DEF todo, all
  <2>2. DOMAIN job' = DOMAIN NoJob /\ job'.kind = "Describe" /\ job'.state = "run"
    BY <2>1 DEF NoJob
  <2>3. RequestsTypeOK'
    BY <2>1, <2>2 DEF RequestsInv, RequestsTypeOK
  <2> QED  BY <2>1, <2>2, <2>3, OtherNext
<1>2. ASSUME Step, job.kind # "List" PROVE RequestsInv'
  <2> DEFINE r == IF job.kind = "List" THEN list_entry(Head(job.todo))
                  ELSE describe_entry(Head(job.todo))
             t == Tail(job.todo)
             o == job.out \o r.val
  <2>1. /\ UNCHANGED <<handlers, caps, changed, loads>> /\ job.state = "run"
        /\ job' = [job EXCEPT !.todo = t, !.out = o] \/ job' = [job EXCEPT !.state = "failed"]
    <3> HIDE DEF r
    <3> QED  BY <1>2 DEF Step, r
  <2> HIDE DEF t, o
  <2>2. /\ DOMAIN job = DOMAIN NoJob /\ DOMAIN NoJob = {"kind", "show_all", "todo", "out", "state"}
        /\ job.kind \in {"none", "Describe", "Capabilities", "Types"}
    BY <1>2 DEF RequestsInv, RequestsTypeOK, NoJob
  <2>3. DOMAIN job' = DOMAIN NoJob /\ job'.kind = job.kind /\ job'.state \in {"run", "failed"}
    BY <2>1, <2>2
  <2>4. RequestsTypeOK'
    BY <2>1, <2>2, <2>3 DEF RequestsInv, RequestsTypeOK
  <2>5. job.kind = "Describe"
    BY <1>2, <2>1 DEF RequestsInv, RequestsTypeOK
  <2> QED  BY <2>1, <2>3, <2>4, <2>5, OtherNext
<1>3. CASE Finish
  <2>1. /\ UNCHANGED <<handlers, caps, changed, loads>> /\ job.state = "run" /\ job.todo = <<>>
        /\ job' = [job EXCEPT !.state = "done"] /\ DOMAIN job = DOMAIN NoJob
        /\ DOMAIN NoJob = {"kind", "show_all", "todo", "out", "state"}
    BY <1>3 DEF Finish, RequestsInv, RequestsTypeOK, NoJob
  <2>2. /\ DOMAIN job' = DOMAIN NoJob /\ job'.kind = job.kind /\ job'.state = "done"
        /\ job'.todo = <<>> /\ job'.out = job.out
    BY <2>1
  <2>3. RequestsTypeOK'
    BY <2>1, <2>2 DEF RequestsInv, RequestsTypeOK
  <2>4. Announced' /\ Present' /\ ListingFailsOnlyOnChange'
    BY <2>1, <2>2 DEF RequestsInv, Announced, Present, ListingFailsOnlyOnChange
  <2>5. Pending'
    BY <2>1, <2>2 DEF RequestsInv, Pending, ListedIds
  <2> QED  BY <2>1, <2>3, <2>4, <2>5, TablesKept DEF RequestsInv
<1>4. ASSUME NEW names \in TypeNames, DescribeFeatureType(names) PROVE RequestsInv'
  <2>1. /\ UNCHANGED <<handlers, caps, loads>> /\ changed' = {}
        /\ \E st \in {"done", "failed"} : \E o :
             job' = [NoJob EXCEPT !.kind = "Types", !.state = st, !.todo = names, !.out = o]
    BY <1>4 DEF DescribeFeatureType
  <2>2. DOMAIN job' = DOMAIN NoJob /\ job'.kind = "Types" /\ job'.state \in {"done", "failed"}
    BY <2>1 DEF NoJob
  <2>3. RequestsTypeOK'
    BY <2>1, <2>2 DEF RequestsInv, RequestsTypeOK
  <2> QED  BY <2>1, <2>2, <2>3, OtherNext
<1>5. CASE Send
  <2>1. UNCHANGED <<handlers, caps, loads>> /\ changed' = {} /\ job' = NoJob
    BY <1>5 DEF Send
  <2>2. DOMAIN job' = DOMAIN NoJob /\ job'.kind = "none" /\ job'.state = "idle"
    BY <2>1 DEF NoJob
  <2>3. RequestsTypeOK'
    BY <2>1, <2>2 DEF RequestsInv, RequestsTypeOK
  <2> QED  BY <2>1, <2>2, <2>3, OtherNext
<1>6. CASE UNCHANGED requests_vars
  <2>1. UNCHANGED <<handlers, caps, job, changed, loads>>
    BY <1>6 DEF requests_vars
  <2> QED  BY <2>1 DEF RequestsInv, RequestsTypeOK, Tables, Known, Announced, Pending, Present, ListedIds,
              ListingFailsOnlyOnChange, Unchecked, Entries, NoJob
<1> QED
  BY <1>1, <1>2, <1>3, <1>4, <1>5, <1>6, AddNext, RemoveNext, ListBeginNext, CapabilitiesNext,
     ListStep DEF RequestsNext

LEMMA RequestsInvAlways == RequestsSpec => []RequestsInv
BY RequestsInvInit, RequestsInvNext, PTL DEF RequestsSpec

-----------------------------------------------------------------------------
(* WfsRequests: the theorems.                                              *)

\* Type correctness of the tables and of a listing.
THEOREM RequestsTypeCorrect == RequestsSpec => []RequestsTypeOK
<1>1. RequestsInv => RequestsTypeOK
  BY DEF RequestsInv
<1> QED  BY RequestsInvAlways, <1>1, PTL

\* A listing has every visible stored query that stayed in the map while it was
\* made, however many handlers the monitor changed meanwhile
\* (ListStoredQueries::execute).
THEOREM ListingAlwaysComplete == RequestsSpec => []ListingComplete
<1>1. RequestsInv => ListingComplete
  <2> SUFFICES ASSUME RequestsInv, job.kind = "List", job.state = "done", NEW id \in DOMAIN handlers \ changed
               PROVE  id \in ListedIds \/ handlers[id].hidden
    BY DEF ListingComplete
  <2>1. job.todo = <<>> /\ (handlers[id].hidden \/ id \in Range(job.todo) \/ id \in ListedIds)
    BY DEF RequestsInv, Pending
  <2>2. Range(job.todo) = {}
    BY <2>1 DEF Range
  <2> QED  BY <2>1, <2>2
<1> QED  BY RequestsInvAlways, <1>1, PTL

\* A listing fails only when a handler was changed under it, or when a hidden
\* handler returns a feature that does not exist (ListStoredQueries::execute).
THEOREM ListingFailsOnlyThen == RequestsSpec => []ListingFailsOnlyOnChange
<1>1. RequestsInv => ListingFailsOnlyOnChange
  BY DEF RequestsInv
<1> QED  BY RequestsInvAlways, <1>1, PTL

\* DescribeFeatureType and GetCapabilities know what the visible stored queries
\* return, through failed constructions of handlers too (register_feature_use).
THEOREM ReturnTypesAlwaysKnown == RequestsSpec => []ReturnTypesKnown
<1>1. RequestsInv => ReturnTypesKnown
  <2> SUFFICES ASSUME RequestsInv, NEW id \in DOMAIN handlers, ~handlers[id].hidden,
                      NEW i \in DOMAIN handlers[id].returns
               PROVE  LET f == handlers[id].returns[i]
                      IN  /\ f \in Features
                          /\ add_type_namespace(FeatureDefs[f].ns, FeatureDefs[f].type).ok
                          /\ job.kind = "Capabilities" /\ id \notin changed /\ ~FeatureDefs[f].hidden
                                => f \in Range(job.out)
    BY DEF ReturnTypesKnown
  <2> DEFINE f == handlers[id].returns[i]
             match == {g \in caps.used : /\ FeatureDefs[g].type = FeatureDefs[f].type
                                         /\ FeatureDefs[f].ns \in {"*", FeatureDefs[g].ns}}
  <2>1. f \in Range(handlers[id].returns)
    BY DEF Range
  <2>2. f \in caps.used /\ f \in Features
    BY <2>1 DEF RequestsInv, Known, RequestsTypeOK
  <2>3. match # {}
    BY <2>2
  <2>4. add_type_namespace(FeatureDefs[f].ns, FeatureDefs[f].type).ok
    <3>1. add_type_namespace(FeatureDefs[f].ns, FeatureDefs[f].type)
            = Ok(FeatureDefs[Sorted(match)[1]].ns)
      BY <2>3 DEF add_type_namespace
    <3> DEFINE ns == FeatureDefs[Sorted(match)[1]].ns
    <3> HIDE DEF ns
    <3>2. Ok(ns).ok
      BY DEF Ok
    <3> QED  BY <3>1, <3>2 DEF ns
  <2>5. job.kind = "Capabilities" /\ id \notin changed /\ ~FeatureDefs[f].hidden
            => f \in Range(job.out)
    BY <2>1 DEF RequestsInv, Announced
  <2> QED  BY <2>2, <2>4, <2>5
<1> QED  BY RequestsInvAlways, <1>1, PTL

=============================================================================
