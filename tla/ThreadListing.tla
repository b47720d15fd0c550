----------------------------- MODULE ThreadListing -----------------------------
(***************************************************************************)
(* The thread resource of the Platform API: create, PATCH, delete, count   *)
(* and search (platform/_threads.py, and both stores), with a client that  *)
(* counts and then pages by offset while others change the threads. PATCH  *)
(* merges into metadata it read before, and so does a run that brings      *)
(* metadata: of two that overlap, one is lost.                             *)
(* An id stands for its place in the order in which a store lists threads  *)
(* of one creation time.                                                   *)
(***************************************************************************)
EXTENDS Integers, Sequences, FiniteSets, SequencesExt

CONSTANTS Ids,      \* of threads
          Keys,     \* of metadata
          MaxTime,  \* bound on the clocks, which differ from host to host
          MaxLimit, \* max_platform_result_limit
          Filters   \* of the searches

Bounds ==
  /\ Ids \subseteq Nat /\ MaxTime \in Nat \ {0} /\ MaxLimit \in Nat \ {0}
  /\ Filters \subseteq [key : Keys \cup {"any"}, status : {"idle", "any"}]

VARIABLES
  threads, \* threads[t]: state, times, metadata keys and status of thread t
  patch,   \* the PATCH, or the run with metadata, at work
  client   \* the client that pages

vars == <<threads, patch, client>>

Time == 1..MaxTime

Everything == [key |-> "any", status |-> "any"]

TypeOK ==
  /\ threads \in [Ids -> [state : {"new", "there", "gone"}, created : Time, keys : SUBSET Keys,
                         status : {"idle", "busy"}]]
  /\ patch \in [pc : {"idle", "writing"}, id : Ids \cup {0}, keys : SUBSET Keys]
  /\ client \in [pc : {"idle", "paging", "done"}, filter : Filters \cup {Everything},
                 limit : 1..MaxLimit, got : Seq(Ids), offset : Nat, total : Nat,
                 steady : SUBSET Ids, disturbed : BOOLEAN, grown : BOOLEAN]

NoThread == [state |-> "new", created |-> 1, keys |-> {}, status |-> "idle"]

NoPatch == [pc |-> "idle", id |-> 0, keys |-> {}]

NoClient == [pc |-> "idle", filter |-> Everything, limit |-> 1, got |-> <<>>, offset |-> 0, total |-> 0,
             steady |-> {}, disturbed |-> FALSE, grown |-> FALSE]

Init == threads = [t \in Ids |-> NoThread] /\ patch = NoPatch /\ client = NoClient

--------------------------------------------------------------------------------
\* _metadata_matches and the status filter.
Matches(thread, f) ==
  /\ thread.state = "there"
  /\ f.key = "any" \/ f.key \in thread.keys
  /\ f.status = "any" \/ f.status = thread.status

Filtered(f) == {t \in Ids : Matches(threads[t], f)}

\* Newest first, by a stable sort.
Ahead(t, u) ==
  \/ threads[t].created > threads[u].created
  \/ threads[t].created = threads[u].created /\ t < u

Sorted(S) ==
  CHOOSE s \in [1..Cardinality(S) -> S] : \A i, j \in DOMAIN s : i < j => Ahead(s[i], s[j])

\* For the properties: while the client pages, a thread stopped matching, or one
\* came to match.
Watch ==
  LET now == {t \in Ids : Matches(threads'[t], client.filter)}
      before == Filtered(client.filter)
  IN client' = IF client.pc # "paging" THEN client
               ELSE [client EXCEPT !.disturbed = @ \/ ~(before \subseteq now),
                                   !.grown = @ \/ ~(now \subseteq before)]

Create(t, keys, now) ==
  /\ threads[t].state = "new"
  /\ threads' = [threads EXCEPT ![t] = [NoThread EXCEPT !.state = "there", !.created = now, !.keys = keys]]
  /\ Watch /\ UNCHANGED patch

\* A run locks or releases the thread.
SetStatus(t, s) ==
  /\ threads[t].state = "there" /\ threads[t].status # s
  /\ threads' = [threads EXCEPT ![t].status = s]
  /\ Watch /\ UNCHANGED patch

\* PATCH gets the thread; without metadata it has nothing to do.
PatchReads(t, keys) ==
  /\ patch.pc = "idle" /\ threads[t].state = "there" /\ keys # {}
  /\ patch' = [pc |-> "writing", id |-> t, keys |-> threads[t].keys \cup keys]
  /\ UNCHANGED <<threads, client>>

\* Mutant of PatchWrites: what is not there is inserted.
PatchUpserts ==
  /\ patch.pc = "writing"
  /\ threads' = [threads EXCEPT ![patch.id].state = "there", ![patch.id].keys = patch.keys]
  /\ patch' = NoPatch
  /\ Watch

\* It updates the thread, or answers 404 if the thread was deleted meanwhile.
PatchWrites ==
  /\ patch.pc = "writing"
  /\ threads' = IF threads[patch.id].state = "there"
                THEN [threads EXCEPT ![patch.id].keys = patch.keys]
                ELSE threads
  /\ patch' = NoPatch
  /\ Watch

Delete(t) ==
  /\ threads[t].state = "there"
  /\ threads' = [threads EXCEPT ![t] = [NoThread EXCEPT !.state = "gone"]]
  /\ Watch /\ UNCHANGED patch

Total(f) == Cardinality(Filtered(f))

Count(f, limit) ==
  /\ client.pc # "paging" /\ limit \in 1..MaxLimit
  /\ client' = [NoClient EXCEPT !.pc = "paging", !.filter = f, !.limit = limit,
                                !.total = Total(f), !.steady = Filtered(f)]
  /\ UNCHANGED <<threads, patch>>

\* filtered[offset : offset + limit]
Page(found, offset, limit) ==
  SubSeq(found, offset + 1, IF offset + limit < Len(found) THEN offset + limit ELSE Len(found))

Search ==
  /\ client.pc = "paging"
  /\ LET page == Page(Sorted(Filtered(client.filter)), client.offset, client.limit) IN
       client' = [client EXCEPT !.got = @ \o page, !.offset = @ + client.limit,
                                !.pc = IF Len(page) < client.limit THEN "done" ELSE "paging"]
  /\ UNCHANGED <<threads, patch>>

Next ==
  \/ \E t \in Ids, keys \in SUBSET Keys, now \in Time : Create(t, keys, now)
  \/ \E t \in Ids, s \in {"idle", "busy"} : SetStatus(t, s)
  \/ \E t \in Ids, keys \in SUBSET Keys : PatchReads(t, keys)
  \/ PatchWrites
  \/ \E t \in Ids : Delete(t)
  \/ \E f \in Filters, limit \in 1..MaxLimit : Count(f, limit)
  \/ Search

Spec == Init /\ [][Next]_vars

--------------------------------------------------------------------------------
\* search, both stores: a client that pages to the end finds every thread that
\* matched when it began, if none stops matching meanwhile, though others come to
\* match, on hosts whose clocks differ, and threads are patched and run.
PagesCover == client.pc = "done" /\ ~client.disturbed => client.steady \subseteq ToSet(client.got)

\* search and count agree: if the matching threads stay the same, the pages hold
\* as many as were counted, none twice, newest first.
PagesExact ==
  client.pc = "done" /\ ~client.disturbed /\ ~client.grown =>
    /\ Len(client.got) = client.total
    /\ ToSet(client.got) = client.steady
    /\ \A i, j \in 1..Len(client.got) :
         i < j => \/ threads[client.got[i]].created >= threads[client.got[j]].created
                  \/ threads[client.got[i]].state = "gone"

\* update, both stores: a PATCH that read a thread before it was deleted does not
\* bring it back.
NoResurrection ==
  [][\A t \in Ids : threads[t].state = "gone" => threads'[t].state = "gone"]_vars

--------------------------------------------------------------------------------
(***************************************************************************)
(* The inductive invariant. A thread moves towards the end of the pages    *)
(* only, when others come to match, so what the offset has passed was      *)
(* shown; and while nothing comes, what was shown is the list up to there, *)
(* each thread at its place.                                               *)
(***************************************************************************)
CreatedFinite == IsFiniteSet({t \in Ids : threads[t].state # "new"})

PatchKnown == patch.pc = "writing" => patch.id \in Ids /\ threads[patch.id].state # "new"

Place(t) == Cardinality({u \in Filtered(client.filter) : Ahead(u, t)})

PassedIsShown ==
  client.pc = "paging" /\ ~client.disturbed =>
    /\ client.steady \subseteq Filtered(client.filter)
    /\ \A t \in client.steady : Place(t) < client.offset => t \in ToSet(client.got)

ShownIsPrefix ==
  client.pc = "paging" /\ ~client.disturbed /\ ~client.grown =>
    /\ client.steady = Filtered(client.filter)
    /\ client.total = Total(client.filter)
    /\ Len(client.got) = client.offset /\ client.offset <= client.total
    /\ \A i \in 1..client.offset :
         client.got[i] \in client.steady /\ Place(client.got[i]) = i - 1

ShownWasThere == \A t \in ToSet(client.got) : threads[t].state # "new"

Inv ==
  /\ TypeOK /\ CreatedFinite /\ PatchKnown /\ PassedIsShown /\ ShownIsPrefix /\ ShownWasThere
  /\ PagesCover /\ PagesExact
================================================================================
