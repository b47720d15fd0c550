---------------------------- MODULE AppRegistration ----------------------------
(***************************************************************************)
(* LangGraphApp (app.py) and StreamingLangGraphApp (streaming.py): graphs  *)
(* and Service Bus triggers are registered, the thread store is replaced   *)
(* and the FunctionApp is asked for, in any order. A call that raises      *)
(* changes nothing. The name of a function is a sequence of words, joined  *)
(* by underscores in the code.                                             *)
(***************************************************************************)
EXTENDS Integers, Sequences, FiniteSets

CONSTANTS GraphNames,   \* names graphs are registered under
          TriggerNames, \* names triggers are registered under
          Methods       \* of a graph: "invoke", "ainvoke", "both", "none"

VARIABLES
  settings,      \* how the app was constructed, and its environment
  registrations, \* the graphs
  sb,            \* the Service Bus triggers
  store,         \* "none", "memory" or "table"
  app            \* the cached FunctionApp

vars == <<settings, registrations, sb, store, app>>

HasInvoke(g) == g.methods \in {"invoke", "both"}
HasAinvoke(g) == g.methods \in {"ainvoke", "both"}

NoApp == [built |-> FALSE, functions |-> {}, store |-> "none"]

Settings == [streaming : BOOLEAN, platform : BOOLEAN, durable : BOOLEAN, lock : {"inprocess", "lease"},
             envLock : BOOLEAN, envStore : BOOLEAN]

Graphs == [name : GraphNames, methods : Methods, async : BOOLEAN, stream : BOOLEAN,
           stateful : BOOLEAN]

Triggers == [name : TriggerNames, methods : Methods, async : BOOLEAN, session : BOOLEAN,
             exclusive : BOOLEAN]

TypeOK ==
  /\ settings \in Settings /\ store \in {"none", "memory", "table"}
  /\ registrations \subseteq Graphs /\ sb \subseteq Triggers

\* __post_init__: the environment that demands a distributed lock gets one.
Init ==
  /\ settings \in {s \in Settings : (s.envLock => s.lock # "inprocess")
                                     /\ (s.streaming => ~s.platform /\ ~s.durable)}
  /\ registrations = {} /\ sb = {}
  /\ store = IF settings.platform THEN "memory" ELSE "none"
  /\ app = NoApp

--------------------------------------------------------------------------------
\* What both registrations ask of a graph.
Runnable(g) == (g.async => HasAinvoke(g)) /\ (HasInvoke(g) \/ HasAinvoke(g))

\* Mutant of MayRegister: no look at the triggers.
MayRegisterBeside(g) ==
  /\ Runnable(g)
  /\ settings.platform => HasInvoke(g)
  /\ \A r \in registrations : r.name # g.name

MayRegister(g) ==
  /\ Runnable(g)
  /\ settings.platform => HasInvoke(g)
  /\ \A r \in registrations : r.name # g.name
  /\ ~\E t \in sb : t.exclusive

Register(g) ==
  /\ ~settings.streaming
  /\ MayRegister(g)
  /\ registrations' = registrations \cup {g}
  /\ app' = NoApp
  /\ UNCHANGED <<settings, sb, store>>

\* The streaming app's own; its graphs have no state route.
RegisterStreaming(g) ==
  /\ settings.streaming /\ ~g.stateful
  /\ Runnable(g) /\ \A r \in registrations : r.name # g.name
  /\ registrations' = registrations \cup {g}
  /\ app' = NoApp
  /\ UNCHANGED <<settings, sb, store>>

\* require_session_exclusive_topology.
Isolated(t) ==
  /\ t.session
  /\ registrations = {} /\ sb = {} /\ ~settings.platform /\ ~settings.durable

RegisterServiceBus(t) ==
  /\ ~settings.streaming /\ Runnable(t)
  /\ \A u \in sb : u.name # t.name /\ ~u.exclusive
  /\ t.exclusive => Isolated(t)
  /\ sb' = sb \cup {[t EXCEPT !.async = @ \/ ~HasInvoke(t)]}
  /\ app' = NoApp
  /\ UNCHANGED <<settings, registrations, store>>

\* The setter of thread_store.
SetThreadStore(s) ==
  /\ ~settings.streaming
  /\ store' = s /\ app' = NoApp
  /\ UNCHANGED <<settings, registrations, sb>>

--------------------------------------------------------------------------------
Function(surface, name, of, endpoint, async) ==
  [surface |-> surface, name |-> name, of |-> of, endpoint |-> endpoint, async |-> async]

\* _has_stream_route, _has_state_route.
Endpoints(r) ==
  {"invoke"} \cup (IF r.stream THEN {"stream"} ELSE {})
             \cup (IF r.stateful THEN {"state"} ELSE {})

IsAsync(r) == r.async \/ ~HasInvoke(r)

\* _register_route.
GraphFunctions ==
  UNION {{Function("graph", Append(r.name, e), r.name, e, e # "state" /\ IsAsync(r)) :
            e \in Endpoints(r)} : r \in registrations}

\* _register_service_bus_trigger.
TriggerFunctions ==
  {Function("sb", <<"sb">> \o t.name, t.name, "message", t.async) : t \in sb}

HealthFunctions ==
  {Function("health", n, <<>>, "health", FALSE) : n \in {<<"health">>, <<"health", "details">>}}

\* register_platform_routes, of which these names end like an endpoint's.
PlatformFunctions ==
  {Function("platform", n, <<>>, "platform", FALSE) :
     n \in {<<"platform", "runs", "stream">>, <<"platform", "runs", "wait">>,
            <<"platform", "threads", "state", "get">>}}

\* register_durable_runtime.
DurableFunctions ==
  {Function("durable", <<"durable", v, "run">>, <<>>, "durable", FALSE) :
     v \in {"create", "get", "cancel"}}

BuildFunctionApp ==
  [built |-> TRUE, store |-> store,
   functions |-> GraphFunctions \cup TriggerFunctions \cup HealthFunctions
     \cup (IF settings.platform THEN PlatformFunctions ELSE {})
     \cup (IF settings.durable THEN DurableFunctions ELSE {})]

\* The scale-out guard of _build_function_app.
StoreAllowed ==
  ~(settings.platform /\ store = "memory" /\ (settings.envStore \/ settings.envLock))

\* The property function_app: a build that raises is tried again.
FunctionApp ==
  /\ ~settings.streaming /\ ~app.built /\ StoreAllowed
  /\ app' = BuildFunctionApp
  /\ UNCHANGED <<settings, registrations, sb, store>>

\* Of the streaming app.
StreamingFunctionApp ==
  /\ settings.streaming /\ ~app.built
  /\ app' = [built |-> TRUE, store |-> store, functions |-> GraphFunctions \cup HealthFunctions]
  /\ UNCHANGED <<settings, registrations, sb, store>>

\* get_app_metadata.
AppMetadata == UNION {{<<r.name, e>> : e \in Endpoints(r)} : r \in registrations}

Next ==
  \/ \E g \in Graphs : Register(g) \/ RegisterStreaming(g)
  \/ \E t \in Triggers : RegisterServiceBus(t)
  \/ \E s \in {"memory", "table"} : SetThreadStore(s)
  \/ FunctionApp \/ StreamingFunctionApp

Spec == Init /\ [][Next]_vars

--------------------------------------------------------------------------------
\* function_app, get_app_metadata: the FunctionApp handed out serves the graphs
\* that the metadata describes, every trigger, and the store that is set, in
\* whatever order they were registered, set and asked for.
ServedAsDescribed ==
  app.built =>
    /\ {<<f.of, f.endpoint>> : f \in {g \in app.functions : g.surface = "graph"}} = AppMetadata
    /\ {f.of : f \in {g \in app.functions : g.surface = "sb"}} = {t.name : t \in sb}
    /\ app.store = store

\* register_service_bus: a session-exclusive trigger, which takes no thread lock,
\* has no graph, Platform or Durable route and no other trigger beside it,
\* whichever was registered first.
ExclusiveAlone ==
  app.built /\ (\E t \in sb : t.exclusive) =>
    \A f \in app.functions : f.surface \in {"sb", "health"} /\ (f.surface = "sb" => Cardinality(sb) = 1)

\* _is_async, register: a function calls only a method that its graph has, and a
\* graph that the Platform surface may run has invoke.
HandlersFit ==
  app.built =>
    /\ \A f \in app.functions, g \in registrations \cup sb :
         f.of = g.name /\ f.surface = (IF g \in sb THEN "sb" ELSE "graph") /\ f.endpoint # "state" =>
           IF f.async THEN HasAinvoke(g) ELSE HasInvoke(g)
    /\ settings.platform => \A g \in registrations : HasInvoke(g)

\* AZFUNC_LANGGRAPH_LOCK_BACKEND, AZFUNC_LANGGRAPH_THREAD_STORE: an app that is
\* declared to scale out never runs on a lock or a store of one process, though the
\* store is replaced at any time.
ScaleOutSafe ==
  app.built =>
    /\ settings.envLock => settings.lock # "inprocess"
    /\ settings.platform /\ (settings.envLock \/ settings.envStore) => app.store # "memory"

--------------------------------------------------------------------------------
(***************************************************************************)
(* The inductive invariant: what was admitted stays admissible, whatever   *)
(* is registered after it, and an app that was handed out is the one that  *)
(* would be built now.                                                     *)
(***************************************************************************)
NamesUnique ==
  /\ \A r, q \in registrations : r.name = q.name => r = q
  /\ \A t, u \in sb : t.name = u.name => t = u

RegisteredRun ==
  /\ \A r \in registrations : Runnable(r) /\ (settings.platform => HasInvoke(r))
  /\ \A t \in sb : Runnable(t) /\ (~t.async => HasInvoke(t))

ExclusiveIsolated ==
  \A t \in sb : t.exclusive =>
    registrations = {} /\ sb = {t} /\ ~settings.platform /\ ~settings.durable

SettingsFit ==
  /\ settings.envLock => settings.lock # "inprocess"
  /\ settings.streaming => ~settings.platform /\ ~settings.durable /\ sb = {}

AppCurrent == IF app.built THEN app = BuildFunctionApp /\ StoreAllowed ELSE app = NoApp

Inv ==
  TypeOK /\ NamesUnique /\ RegisteredRun /\ ExclusiveIsolated /\ SettingsFit /\ AppCurrent
================================================================================
