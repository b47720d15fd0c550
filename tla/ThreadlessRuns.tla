----------------------------- MODULE ThreadlessRuns -----------------------------
(***************************************************************************)
(* POST /runs/wait and /runs/stream without a thread (platform/_runs.py,   *)
(* platform/_common.py): a request runs a clone of the graph that has no   *)
(* checkpointer. The events of a stream are buffered up to a number of     *)
(* bytes, here units, and answered at the end.                             *)
(***************************************************************************)
EXTENDS Integers, Sequences, FiniteSets, SequencesExt

CONSTANTS Requests,
          GraphKinds,    \* "plain", "cloneable", "uncloneable", "raising"
          MaxBytes,  \* max_stream_response_bytes
          MetaBytes, \* of the first chunk
          Sizes,     \* of an event
          MaxEvents  \* bound on the events of a run

Bounds == MaxBytes \in Nat /\ MetaBytes \in Nat /\ Sizes \subseteq Nat /\ MaxEvents \in Nat

VARIABLES
  pc,       \* pc[r]: of request r
  graph,    \* the graph it asked for
  ran,      \* what it executed: "none", "clone", "plain" or "stored"
  chunks,   \* the chunks of its stream
  buffered, \* their bytes, without the last words
  answer,   \* "none", "ok", "stream", a status, or "raised" for no response
  observed  \* what the observer was told of it

vars == <<pc, graph, ran, chunks, buffered, answer, observed>>

TypeOK ==
  /\ pc \in [Requests -> {"new", "wait", "stream", "done"}]
  /\ graph \in [Requests -> GraphKinds]
  /\ ran \in [Requests -> {"none", "clone", "plain", "stored"}]
  /\ chunks \in [Requests -> Seq({"meta", "data", "error", "end"})]
  /\ buffered \in [Requests -> Nat]
  /\ answer \in [Requests -> {"none", "ok", "stream", "4xx", "500", "501", "raised"}]
  /\ observed \in [Requests -> Seq({"started", "completed", "failed"})]

Init ==
  /\ pc = [r \in Requests |-> "new"] /\ graph \in [Requests -> GraphKinds]
  /\ ran = [r \in Requests |-> "none"] /\ chunks = [r \in Requests |-> <<>>]
  /\ buffered = [r \in Requests |-> 0] /\ answer = [r \in Requests |-> "none"]
  /\ observed = [r \in Requests |-> <<>>]

Tells(r, e) == observed' = [observed EXCEPT ![r] = Append(@, e)]

Answers(r, a) == pc' = [pc EXCEPT ![r] = "done"] /\ answer' = [answer EXCEPT ![r] = a]

\* _get_threadless_graph.
Threadless(g) ==
  CASE g = "plain" -> "plain" [] g = "cloneable" -> "clone" [] OTHER -> "none"

\* _parse_run_create and _resolve_run_graph may refuse any request, before the
\* graph is looked at; a graph whose checkpointer cannot be disabled is a 501.
Refuses(r) ==
  /\ pc[r] = "new"
  /\ \/ Answers(r, "4xx")
     \/ Threadless(graph[r]) = "none" /\ Answers(r, "501")
  /\ UNCHANGED <<graph, ran, chunks, buffered, observed>>

WaitStarts(r) ==
  /\ pc[r] = "new" /\ Threadless(graph[r]) # "none"
  /\ pc' = [pc EXCEPT ![r] = "wait"]
  /\ ran' = [ran EXCEPT ![r] = Threadless(graph[r])]
  /\ Tells(r, "started")
  /\ UNCHANGED <<graph, chunks, buffered, answer>>

\* The output is encoded after the observer was told, and dumps may raise.
WaitEnds(r) ==
  /\ pc[r] = "wait"
  /\ \/ Answers(r, "ok") /\ Tells(r, "completed")
     \/ Answers(r, "raised") /\ Tells(r, "completed")
     \/ Answers(r, "500") /\ Tells(r, "failed")
  /\ UNCHANGED <<graph, ran, chunks, buffered>>

\* Mutant of Overflows: one unit too late.
OverflowsLate(bytes, chunk) == bytes + chunk > MaxBytes + 1

\* _check_stream_overflow, which then has the last words appended.
Overflows(bytes, chunk) == bytes + chunk > MaxBytes

LastWords == <<"error", "end">>

StreamStarts(r) ==
  /\ pc[r] = "new" /\ Threadless(graph[r]) # "none"
  /\ buffered' = [buffered EXCEPT ![r] = MetaBytes]
  /\ IF Overflows(MetaBytes, 0)
     THEN /\ Answers(r, "stream")
          /\ chunks' = [chunks EXCEPT ![r] = <<"meta">> \o LastWords]
          /\ observed' = [observed EXCEPT ![r] = <<"started", "failed">>]
          /\ UNCHANGED ran
     ELSE /\ pc' = [pc EXCEPT ![r] = "stream"] /\ UNCHANGED answer
          /\ chunks' = [chunks EXCEPT ![r] = <<"meta">>]
          /\ ran' = [ran EXCEPT ![r] = Threadless(graph[r])]
          /\ Tells(r, "started")
  /\ UNCHANGED graph

\* An event fits, or ends the stream.
StreamEvent(r, size) ==
  /\ pc[r] = "stream" /\ Len(chunks[r]) <= MaxEvents
  /\ IF Overflows(buffered[r], size)
     THEN /\ chunks' = [chunks EXCEPT ![r] = @ \o LastWords]
          /\ Answers(r, "stream") /\ Tells(r, "failed")
          /\ UNCHANGED buffered
     ELSE /\ chunks' = [chunks EXCEPT ![r] = Append(@, "data")]
          /\ buffered' = [buffered EXCEPT ![r] = @ + size]
          /\ UNCHANGED <<pc, answer, observed>>
  /\ UNCHANGED <<graph, ran>>

StreamEnds(r) ==
  /\ pc[r] = "stream" /\ Answers(r, "stream")
  /\ \/ /\ chunks' = [chunks EXCEPT ![r] = Append(@, "end")]
        /\ Tells(r, "completed")
     \/ /\ chunks' = [chunks EXCEPT ![r] = @ \o LastWords]
        /\ Tells(r, "failed")
  /\ UNCHANGED <<graph, ran, buffered>>

RunsWaitThreadless(r) == WaitStarts(r) \/ WaitEnds(r)

RunsStreamThreadless(r) ==
  StreamStarts(r) \/ StreamEnds(r) \/ \E size \in Sizes : StreamEvent(r, size)

Next == \E r \in Requests : Refuses(r) \/ RunsWaitThreadless(r) \/ RunsStreamThreadless(r)

Spec == Init /\ [][Next]_vars

--------------------------------------------------------------------------------
\* _get_threadless_graph: no run without a thread executes a graph that has its
\* checkpointer, and none that could not be cloned is answered as if it had run.
NothingPersisted ==
  \A r \in Requests :
    /\ ran[r] # "stored"
    /\ graph[r] \in {"uncloneable", "raising"} => answer[r] \in {"none", "4xx", "501"}

\* runs_stream_threadless: what is answered is one metadata event, data within the
\* limit, and one end; it tells of an error exactly if the observer was told of one.
StreamWellFormed ==
  \A r \in Requests : answer[r] = "stream" =>
    LET c == chunks[r] IN
      /\ c[1] = "meta" /\ c[Len(c)] = "end"
      /\ Cardinality({i \in 1..Len(c) : c[i] \in {"meta", "end"}}) = 2
      /\ "error" \in ToSet(c) <=> observed[r] = <<"started", "failed">>
      /\ "error" \notin ToSet(c) <=> observed[r] = <<"started", "completed">>

\* _check_stream_overflow: the events buffered never exceed the limit; it is the
\* metadata event alone that may.
BufferBounded ==
  \A r \in Requests : "data" \in ToSet(chunks[r]) => buffered[r] <= MaxBytes

--------------------------------------------------------------------------------
(***************************************************************************)
(* The inductive invariant: while a stream goes on it is its metadata and  *)
(* data within the limit; once answered it has its end, after an error if  *)
(* that is what the observer was told.                                     *)
(***************************************************************************)
DataBetween(c, last) == \A i \in 2..last : c[i] = "data"

Streams(r) ==
  pc[r] = "stream" =>
    /\ Len(chunks[r]) >= 1 /\ chunks[r][1] = "meta" /\ DataBetween(chunks[r], Len(chunks[r]))
    /\ buffered[r] <= MaxBytes /\ observed[r] = <<"started">>

Streamed(r) ==
  answer[r] = "stream" =>
    LET c == chunks[r] IN
      /\ Len(c) >= 2 /\ c[1] = "meta" /\ c[Len(c)] = "end"
      /\ \/ observed[r] = <<"started", "completed">> /\ DataBetween(c, Len(c) - 1)
         \/ /\ observed[r] = <<"started", "failed">> /\ Len(c) >= 3
            /\ c[Len(c) - 1] = "error" /\ DataBetween(c, Len(c) - 2)

Fits(r) ==
  /\ pc[r] = "done" <=> answer[r] # "none"
  /\ pc[r] = "new" => observed[r] = <<>>
  /\ pc[r] \in {"new", "wait"} => chunks[r] = <<>>
  /\ ran[r] \in {"none", Threadless(graph[r])}
  /\ pc[r] \in {"wait", "stream"} \/ answer[r] \in {"ok", "stream", "500", "raised"} =>
       Threadless(graph[r]) # "none"

Inv == TypeOK /\ BufferBounded /\ \A r \in Requests : Streams(r) /\ Streamed(r) /\ Fits(r)
================================================================================
