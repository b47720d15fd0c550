------------------------------ MODULE MCPlatform ------------------------------
(***************************************************************************)
(* Model checking of the Platform API and of the registration that sets it *)
(* up. PlatformRuns: two requests about a thread, each in a host of its    *)
(* own, or of one host that share its thread lock, and others that are     *)
(* never sent; each acquires at most once, so two tokens are enough.       *)
(* Beside it, with variables of their own: the listing of threads, the     *)
(* history of a thread, the runs without a thread, and the registration.   *)
(* The first state of a behaviour decides which of them it is about.       *)
(***************************************************************************)
EXTENDS PlatformRuns, TLC

CONSTANTS h1, h2, h3, h4, i1, i2,
          MaxLimit, CheckpointIds, \* of ThreadHistory
          ThreadIds, Keys, Filters, MaxTime, MaxPage, \* of ThreadListing
          Alone, GraphKinds, MaxBytes, MetaBytes, Sizes, MaxEvents, \* of ThreadlessRuns
          GraphNames, TriggerNames, Methods \* of AppRegistration

\* The requests that meet on two hosts, and on one.
Apart == {h1, h2}
Together == {h3, h4}

Placed == h1 :> i1 @@ h2 :> i2 @@ h3 :> i1 @@ h4 :> i1

MayBe == h1 :> {"wait"} @@ h2 :> {"wait", "state", "patch", "delete"}
           @@ h3 :> {"state"} @@ h4 :> {"stream", "state", "delete"}

MCGraphNames == {<<"agent">>}
MCTriggerNames == {<<"queue">>, <<"topic">>}

\* By metadata and status at once.
MCFilters == {[key |-> k, status |-> "idle"] : k \in Keys}

Symmetry == Permutations(Tokens) \cup Permutations(Assistants)

VARIABLES scene,
          lThreads, lPatch, lClient,
          hSaved, hRuns, hUsed, hClient,
          tPc, tGraph, tRan, tChunks, tBuffered, tAnswer, tObserved,
          aSettings, aRegistrations, aSb, aStore, aApp

lVars == <<lThreads, lPatch, lClient>>
hVars == <<hSaved, hRuns, hUsed, hClient>>
tVars == <<tPc, tGraph, tRan, tChunks, tBuffered, tAnswer, tObserved>>
aVars == <<aSettings, aRegistrations, aSb, aStore, aApp>>

L == INSTANCE ThreadListing
       WITH Ids <- ThreadIds, MaxLimit <- MaxPage,
            threads <- lThreads, patch <- lPatch, client <- lClient

H == INSTANCE ThreadHistory
       WITH Ids <- CheckpointIds, saved <- hSaved, runs <- hRuns,
            used <- hUsed, client <- hClient

T == INSTANCE ThreadlessRuns
       WITH Requests <- Alone, pc <- tPc, graph <- tGraph,
            ran <- tRan, chunks <- tChunks, buffered <- tBuffered,
            answer <- tAnswer, observed <- tObserved

A == INSTANCE AppRegistration
       WITH settings <- aSettings, registrations <- aRegistrations,
            sb <- aSb, store <- aStore, app <- aApp

ASSUME ListingLimits == L!Bounds
ASSUME HistoryLimits == H!Bounds
ASSUME ThreadlessLimits == T!Bounds

--------------------------------------------------------------------------------
\* A component that is not the scene has one initial state.
PlatformInit ==
  /\ Init /\ L!Init /\ H!Init /\ T!Init /\ A!Init
  /\ scene \in {"two hosts", "one host", "listing", "history", "threadless", "app"}
  /\ scene = "threadless" \/ tGraph = [r \in Alone |-> "plain"]
  /\ scene = "app" \/ aSettings = [streaming |-> FALSE, platform |-> TRUE, durable |-> FALSE,
                                   lock |-> "lease", envLock |-> TRUE, envStore |-> TRUE]

\* Nobody else sends a request.
Only(S) == \A h \in Handlers \ S : pc'[h] = pc[h]

PlatformNext ==
  /\ UNCHANGED scene
  /\ \/ scene = "two hosts" /\ Next /\ Only(Apart) /\ UNCHANGED <<lVars, hVars, tVars, aVars>>
     \/ scene = "one host" /\ Next /\ Only(Together) /\ UNCHANGED <<lVars, hVars, tVars, aVars>>
     \/ scene = "listing" /\ L!Next /\ UNCHANGED <<vars, hVars, tVars, aVars>>
     \/ scene = "history" /\ H!Next /\ UNCHANGED <<vars, lVars, tVars, aVars>>
     \/ scene = "threadless" /\ T!Next /\ UNCHANGED <<vars, lVars, hVars, aVars>>
     \/ scene = "app" /\ A!Next /\ UNCHANGED <<vars, lVars, hVars, tVars>>

PlatformSpec ==
  PlatformInit /\ [][PlatformNext]_<<scene, vars, lVars, hVars, tVars, aVars>>

--------------------------------------------------------------------------------
(***************************************************************************)
(* See ThreadListing and ThreadHistory: a client that pages through the    *)
(* threads, or through the past of one, finds whatever was there all along *)
(* and is not shown anything twice, whatever is written meanwhile. A       *)
(* history may end too soon, by a pruned cursor or by an error that is     *)
(* answered as an empty page, but what was shown of it then has no gap.    *)
(***************************************************************************)
PagesFaithful ==
  L!PagesCover /\ L!PagesExact /\ H!HistoryCovers /\ H!HistoryDescends

\* See ThreadListing: a PATCH does not bring back a thread that was deleted.
NoResurrection == L!NoResurrection

(***************************************************************************)
(* See ThreadlessRuns: a run without a thread executes no graph with a     *)
(* checkpointer; its stream begins with its metadata, keeps to the bound   *)
(* of the buffer but for the last words, has one end, and tells of an      *)
(* error if the observer was told of one.                                  *)
(***************************************************************************)
ThreadlessFaithful == T!NothingPersisted /\ T!StreamWellFormed /\ T!BufferBounded

(***************************************************************************)
(* See AppRegistration: what is served is what was registered and set, in  *)
(* whatever order: each handler calls a method of its graph, nothing       *)
(* shares a graph with a session-exclusive trigger, and no store that one  *)
(* host keeps to itself is served where hosts scale out.                   *)
(***************************************************************************)
ServedAsRegistered ==
  A!ServedAsDescribed /\ A!ExclusiveAlone /\ A!HandlersFit /\ A!ScaleOutSafe
===============================================================================
