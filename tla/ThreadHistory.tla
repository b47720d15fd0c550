----------------------------- MODULE ThreadHistory -----------------------------
(***************************************************************************)
(* POST /threads/{id}/history (platform/_threads.py): a client pages       *)
(* through the checkpoints of a thread, newest first, by the id of the     *)
(* last one it got, while runs and state updates write others, also from   *)
(* an earlier one, and old ones are pruned. A checkpoint that is pruned    *)
(* while it is the cursor ends the pages, and so does an error in a page:  *)
(* some errors are answered as the empty page that ends a history.         *)
(***************************************************************************)
EXTENDS Integers, Sequences, FiniteSets, SequencesExt

CONSTANTS Ids,      \* of checkpoints, ordered by time; 0 is none
          MaxLimit  \* max_platform_result_limit

Bounds == Ids \subseteq Nat \ {0} /\ MaxLimit \in Nat \ {0}

VARIABLES
  saved,  \* the checkpoints there are
  runs,   \* those that the metadata filter admits
  used,   \* ids given out
  client  \* the client that pages

vars == <<saved, runs, used, client>>

NoClient == [pc |-> "idle", filtered |-> FALSE, limit |-> 1, before |-> 0, got |-> <<>>,
             steady |-> {}, pruned |-> FALSE, misled |-> FALSE]

TypeOK ==
  /\ saved \subseteq used /\ used \subseteq Ids /\ runs \subseteq used
  /\ client \in [pc : {"idle", "paging", "done", "failed"}, filtered : BOOLEAN,
                 limit : 1..MaxLimit, before : used \cup {0}, got : Seq(used),
                 steady : SUBSET used, pruned : BOOLEAN, misled : BOOLEAN]

Init == saved = {} /\ runs = {} /\ used = {} /\ client = NoClient

\* put, by a run or a state update. Clocks may step back.
Save(c) ==
  /\ c \notin used /\ used' = used \cup {c} /\ saved' = saved \cup {c}
  /\ runs' \in {runs, runs \cup {c}}
  /\ UNCHANGED client

Prune(c) ==
  /\ c \in saved /\ saved' = saved \ {c}
  /\ client' = [client EXCEPT !.pruned = @ \/ client.pc = "paging"]
  /\ UNCHANGED <<runs, used>>

\* The metadata filter.
Admits(c) == client.filtered => c \in runs

Begins(filtered, limit) ==
  /\ client.pc # "paging"
  /\ client' = [NoClient EXCEPT !.pc = "paging", !.filtered = filtered, !.limit = limit,
                                !.steady = IF filtered THEN saved \cap runs ELSE saved]
  /\ UNCHANGED <<saved, runs, used>>

\* get_state_history: the newest first.
Sorted(S) ==
  CHOOSE s \in [1..Cardinality(S) -> S] : \A i, j \in DOMAIN s : i < j => s[i] > s[j]

\* What follows the cursor; nothing, if it is not there.
After(before) ==
  IF before = 0 THEN saved
  ELSE IF before \notin saved THEN {}
  ELSE {c \in saved : c < before}

Cut(s) == SubSeq(s, 1, IF client.limit < Len(s) THEN client.limit ELSE Len(s))

\* Mutant of Page: the limit cuts before the filter.
PageCutFirst == SelectSeq(Cut(Sorted(After(client.before))), Admits)

Page == Cut(Sorted({c \in After(client.before) : Admits(c)}))

\* 200 with the page; one that is not full is the last.
ShowsPage ==
  /\ client' = [client EXCEPT !.got = @ \o Page,
                              !.before = IF Page = <<>> THEN @ ELSE Page[Len(Page)],
                              !.pc = IF Len(Page) < client.limit THEN "done" ELSE "paging"]

(***************************************************************************)
(* A KeyError or ValueError of get_state_history, from its first step or   *)
(* between two snapshots: 200 with an empty list, whatever was collected.  *)
(* The client takes it for the end.                                        *)
(***************************************************************************)
ShowsNothing == client' = [client EXCEPT !.pc = "done", !.misled = TRUE]

\* Another error: 500, or a status before the graph is asked. The client still
\* has its cursor, so it may ask again, or give up.
Fails == client' \in {client, [client EXCEPT !.pc = "failed"]}

History ==
  /\ client.pc = "paging"
  /\ ShowsPage \/ ShowsNothing \/ Fails
  /\ UNCHANGED <<saved, runs, used>>

Next ==
  \/ \E c \in Ids : Save(c) \/ Prune(c)
  \/ \E filtered \in BOOLEAN, limit \in 1..MaxLimit : Begins(filtered, limit)
  \/ History

Spec == Init /\ [][Next]_vars

--------------------------------------------------------------------------------
(***************************************************************************)
(* threads_history: if nothing is pruned while a client pages, whatever is *)
(* written, the pages skip nothing that was there when it began: what it   *)
(* lacks, at any moment and after any error, is older than the last it     *)
(* got. At the end it lacks nothing, unless an error passed for the end.   *)
(***************************************************************************)
NothingSkipped ==
  ~client.pruned => \A c \in client.steady :
    c \in ToSet(client.got) \/ client.got = <<>> \/ c < client.got[Len(client.got)]

AllShown ==
  client.pc = "done" /\ ~client.pruned /\ ~client.misled =>
    client.steady \subseteq ToSet(client.got)

HistoryCovers == NothingSkipped /\ AllShown

\* threads_history: no page goes back, pruned cursor or not: newest first, nothing
\* twice.
HistoryDescends ==
  \A i, j \in 1..Len(client.got) : i < j => client.got[i] > client.got[j]

--------------------------------------------------------------------------------
(***************************************************************************)
(* The inductive invariant. The cursor is the last that was shown; while   *)
(* nothing is pruned it is still there, and what the client began with was *)
(* shown or comes after it.                                                *)
(***************************************************************************)
UsedFinite == IsFiniteSet(used)

CursorIsLast ==
  client.before = IF client.got = <<>> THEN 0 ELSE client.got[Len(client.got)]

ShownOrBehind ==
  client.pc = "paging" /\ ~client.pruned =>
    /\ client.before # 0 => client.before \in saved
    /\ \A c \in client.steady :
         \/ c \in ToSet(client.got)
         \/ c \in After(client.before) /\ Admits(c)

Inv ==
  TypeOK /\ UsedFinite /\ CursorIsLast /\ ShownOrBehind /\ HistoryCovers /\ HistoryDescends
================================================================================
