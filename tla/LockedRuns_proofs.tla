-------------------------- MODULE LockedRuns_proofs --------------------------
(***************************************************************************)
(* Proofs about the code that runs graphs under a thread lock: the         *)
(* streaming endpoints, the native ones, the messages of a Service Bus     *)
(* queue, and the activities of durable runs. They hold for any requests,  *)
(* messages, runs and hosts, any limits, and any lock that is a RunLock.   *)
(*                                                                         *)
(* The four parts go alike: what a step does to the lock, what it leaves   *)
(* of the executions it is not about, that each step of a handler keeps    *)
(* its own part of the invariant, and what the invariant implies. The last *)
(* part is about their composition, which the runs check.                  *)
(***************************************************************************)
EXTENDS MCLockedRuns, FiniteSetTheorems, SequenceTheorems, TLAPS

\* The variables of RunLock keep their types.
LockOK == holders \subseteq Requests /\ lapsed \subseteq holders /\ reported \subseteq holders

\* Everything of q but the lock is as it was.
SameRequest(q) ==
  /\ endpoint'[q] = endpoint[q] /\ isSync'[q] = isSync[q] /\ locks'[q] = locks[q]
  /\ pc'[q] = pc[q] /\ next'[q] = next[q] /\ worker'[q] = worker[q] /\ gone'[q] = gone[q]
  /\ count'[q] = count[q] /\ frames'[q] = frames[q] /\ primary'[q] = primary[q]
  /\ late'[q] = late[q] /\ raising'[q] = raising[q] /\ events'[q] = events[q]

\* What a step of one request does to another: nothing, if the lock of that one
\* stays as it is.
LEMMA OthersFit ==
  ASSUME NEW q \in Requests, Fits(q), SameRequest(q), q \in holders' <=> q \in holders
  PROVE  Fits(q)'
BY DEF Fits, SameRequest, HoldsInScope, WorkersFit, PcFits, EventsFit, FramesFit, InScope, Over,
       Clean, Untouched, Failing, Leaving, Told, Yielded

\* Lock!Acquire grants beside holders of other processes alone, and beside those
\* only to or against a lapsed lock; Free, Lapse and Report keep that.
LEMMA AcquireApart ==
  ASSUME NEW r \in Requests, LockOK, HoldersApart, Lock!Acquire(r)
  PROVE  LockOK' /\ HoldersApart' /\ \A q \in Requests \ {r} : q \in holders' <=> q \in holders
BY DEF LockOK, HoldersApart, Lock!Acquire

\* The release of a holder, and the no-op of a run without a lock.
LEMMA FreeApart ==
  ASSUME NEW r \in Requests, LockOK, HoldersApart, Free(r)
  PROVE  /\ LockOK' /\ HoldersApart' /\ r \notin holders'
         /\ \A q \in Requests \ {r} : q \in holders' <=> q \in holders
BY DEF LockOK, HoldersApart, Free, Lock!Release, Unheld, lockVars

\* A lapse or a report takes no token away.
LEMMA LossApart ==
  ASSUME NEW r \in Requests, LockOK, HoldersApart, Lock!Lapse(r) \/ Lock!Report(r)
  PROVE  LockOK' /\ HoldersApart' /\ holders' = holders
BY DEF LockOK, HoldersApart, Lock!Lapse, Lock!Report

\* Most steps of a handler leave the lock alone.
LEMMA UnheldApart ==
  ASSUME LockOK, HoldersApart, UNCHANGED lockVars
  PROVE  LockOK' /\ HoldersApart' /\ holders' = holders
BY DEF LockOK, HoldersApart, lockVars

\* Init: nothing has been asked.
LEMMA InitInv == Init => Inv
<1> SUFFICES ASSUME Init PROVE Inv
  OBVIOUS
<1> USE DEF Init, Lock!Init
<1>1. TypeOK
  BY MaxEventsNat DEF TypeOK, Errors
<1>2. HoldersApart
  BY DEF HoldersApart
<1>3. ASSUME NEW r \in Requests PROVE Fits(r)
  BY <1>3 DEF Fits, HoldsInScope, WorkersFit, PcFits, EventsFit, FramesFit, InScope, Over,
       Clean, Untouched, Failing, Leaving, Told, Yielded
<1> QED
  BY <1>1, <1>2, <1>3 DEF Inv

\* A step of r keeps the invariant if it keeps the types, the lock, and r's own
\* part; OthersFit does the rest.
LEMMA StepInv ==
  ASSUME Inv, NEW r \in Requests, TypeOK', HoldersApart', Fits(r)',
         \A q \in Requests \ {r} : SameRequest(q) /\ (q \in holders' <=> q \in holders)
  PROVE  Inv'
BY OthersFit DEF Inv

\* What the proofs need to know of Append.
LEMMA Appended ==
  ASSUME NEW S, NEW s \in Seq(S), NEW e \in S
  PROVE  /\ Append(s, e) \in Seq(S) /\ Len(Append(s, e)) = Len(s) + 1
         /\ \A i \in 1..Len(s) : Append(s, e)[i] = s[i]
         /\ Append(s, e)[Len(s) + 1] = e
         /\ Len(s) \in Nat
OBVIOUS

\* An event is data, and counted.
LEMMA YieldsData ==
  ASSUME TypeOK, NEW r \in Requests, Yielded(r, FALSE, FALSE),
         frames' = [frames EXCEPT ![r] = Append(@, "data")],
         count' = [count EXCEPT ![r] = @ + 1]
  PROVE  frames' \in [Requests -> Seq({"data", "error", "end"})] /\ Yielded(r, FALSE, FALSE)'
<1> DEFINE s == frames[r]
           n == count[r]
<1>1. s \in Seq({"data", "error", "end"}) /\ n \in Nat
  BY MaxEventsNat DEF TypeOK
<1>2. frames'[r] = Append(s, "data") /\ count'[r] = n + 1
  BY DEF TypeOK
<1>3. Len(s) = n /\ \A i \in 1..n : s[i] = "data"
  BY <1>1 DEF Yielded
<1> HIDE DEF s, n
<1>4. /\ Append(s, "data") \in Seq({"data", "error", "end"}) /\ Len(Append(s, "data")) = n + 1
      /\ \A i \in 1..n : Append(s, "data")[i] = s[i]
      /\ Append(s, "data")[n + 1] = "data"
  BY <1>1, <1>3, Appended
<1>5. \A i \in 1..(n + 1) : Append(s, "data")[i] = "data"
  BY <1>1, <1>3, <1>4
<1>6. Yielded(r, FALSE, FALSE)'
  BY <1>1, <1>2, <1>4, <1>5 DEF Yielded
<1>7. frames' \in [Requests -> Seq({"data", "error", "end"})]
  BY <1>2, <1>4 DEF TypeOK
<1> QED
  BY <1>6, <1>7

\* The first error is the first frame after the data.
LEMMA YieldsError ==
  ASSUME TypeOK, NEW r \in Requests, Yielded(r, FALSE, FALSE),
         frames' = [frames EXCEPT ![r] = Append(@, "error")], count' = count
  PROVE  frames' \in [Requests -> Seq({"data", "error", "end"})] /\ Yielded(r, TRUE, FALSE)'
<1> DEFINE s == frames[r]
           n == count[r]
<1>1. s \in Seq({"data", "error", "end"}) /\ n \in Nat
  BY MaxEventsNat DEF TypeOK
<1>2. frames'[r] = Append(s, "error") /\ count'[r] = n
  BY DEF TypeOK
<1>3. Len(s) = n /\ \A i \in 1..n : s[i] = "data"
  BY <1>1 DEF Yielded
<1> HIDE DEF s, n
<1>4. /\ Append(s, "error") \in Seq({"data", "error", "end"}) /\ Len(Append(s, "error")) = n + 1
      /\ \A i \in 1..n : Append(s, "error")[i] = s[i]
      /\ Append(s, "error")[n + 1] = "error"
  BY <1>1, <1>3, Appended
<1>6. Yielded(r, TRUE, FALSE)'
  BY <1>1, <1>2, <1>3, <1>4 DEF Yielded
<1>7. frames' \in [Requests -> Seq({"data", "error", "end"})]
  BY <1>2, <1>4 DEF TypeOK
<1> QED
  BY <1>6, <1>7

\* The end comes last, after an error or without one.
LEMMA YieldsEnd ==
  ASSUME TypeOK, NEW r \in Requests, NEW failed \in BOOLEAN, Yielded(r, failed, FALSE),
         frames' = [frames EXCEPT ![r] = Append(@, "end")], count' = count
  PROVE  frames' \in [Requests -> Seq({"data", "error", "end"})] /\ Yielded(r, failed, TRUE)'
<1> DEFINE s == frames[r]
           n == count[r]
           m == IF failed THEN n + 1 ELSE n
<1>1. s \in Seq({"data", "error", "end"}) /\ n \in Nat /\ m \in Nat /\ n <= m
  BY MaxEventsNat DEF TypeOK
<1>2. frames'[r] = Append(s, "end") /\ count'[r] = n
  BY DEF TypeOK
<1>3. Len(s) = m /\ (\A i \in 1..n : s[i] = "data") /\ (failed => m = n + 1 /\ s[n + 1] = "error")
      /\ (~failed => m = n)
  BY <1>1 DEF Yielded
<1> HIDE DEF s, n, m
<1>4. /\ Append(s, "end") \in Seq({"data", "error", "end"}) /\ Len(Append(s, "end")) = m + 1
      /\ \A i \in 1..m : Append(s, "end")[i] = s[i]
      /\ Append(s, "end")[m + 1] = "end"
  BY <1>1, <1>3, Appended
<1>5. (\A i \in 1..n : Append(s, "end")[i] = "data")
      /\ (failed => Append(s, "end")[n + 1] = "error")
  BY <1>1, <1>3, <1>4
<1>6. Yielded(r, failed, TRUE)'
  BY <1>1, <1>2, <1>3, <1>4, <1>5 DEF Yielded
<1>7. frames' \in [Requests -> Seq({"data", "error", "end"})]
  BY <1>2, <1>4 DEF TypeOK
<1> QED
  BY <1>6, <1>7

Words == {"started", "rejected", "failed", "completed"}

\* The observer's first word of a run, and its last.
LEMMA ToldOnce ==
  ASSUME NEW e \in Words
  PROVE  Append(<<>>, e) = <<e>> /\ <<e>> \in Seq(Words)
OBVIOUS

\* How a started run ended is the observer's second word of it.
LEMMA ToldTwice ==
  ASSUME NEW e \in Words
  PROVE  Append(<<"started">>, e) = <<"started", e>> /\ <<"started", e>> \in Seq(Words)
<1> DEFINE s == <<"started">>
           t == <<"started", e>>
           u == Append(s, e)
<1>1. s \in Seq(Words) /\ t \in Seq(Words) /\ Len(s) = 1 /\ Len(t) = 2
  BY DEF Words
<1>2. s[1] = "started" /\ t[1] = "started" /\ t[2] = e
  OBVIOUS
<1>3. /\ Append(s, e) \in Seq(Words) /\ Len(Append(s, e)) = Len(s) + 1
      /\ (\A i \in 1..Len(s) : Append(s, e)[i] = s[i]) /\ Append(s, e)[Len(s) + 1] = e
  BY <1>1, Appended
<1> HIDE DEF s, t, u
<1>4. u \in Seq(Words) /\ Len(u) = 2 /\ u[1] = t[1] /\ u[2] = t[2]
  BY <1>1, <1>2, <1>3 DEF u
<1>5. \A i \in 1..2 : u[i] = t[i]
  BY <1>4
<1>6. u = t
  BY <1>1, <1>4, <1>5, SeqEqual
<1> QED
  BY <1>1, <1>6 DEF s, t, u

\* The observer is told of the first event of a request.
LEMMA TellsFirst ==
  ASSUME TypeOK, NEW r \in Requests, NEW e \in Words, events[r] = <<>>, Tell(r, e)
  PROVE  events' \in [Requests -> Seq(Words)] /\ events'[r] = <<e>>
BY ToldOnce DEF TypeOK, Tell, Words

\* The observer is told how a started run ended.
LEMMA TellsLast ==
  ASSUME TypeOK, NEW r \in Requests, NEW e \in Words, events[r] = <<"started">>, Tell(r, e)
  PROVE  events' \in [Requests -> Seq(Words)] /\ events'[r] = <<"started", e>>
BY ToldTwice DEF TypeOK, Tell, Words

\* The frames of r, its events and what it leaves with, when a step changes
\* neither.
LEMMA SameYielded ==
  ASSUME NEW r \in Requests, frames'[r] = frames[r], count'[r] = count[r],
         NEW failed \in BOOLEAN, NEW ended \in BOOLEAN
  PROVE  Yielded(r, failed, ended)' <=> Yielded(r, failed, ended)
BY DEF Yielded

\* Told, under a step that only moves on.
LEMMA SameTold ==
  ASSUME NEW r \in Requests, frames'[r] = frames[r], count'[r] = count[r],
         raising'[r] = raising[r], events'[r] = events[r], Told(r)
  PROVE  Told(r)'
<1>1. PICK failed, ended \in BOOLEAN :
        /\ Yielded(r, failed, ended)
        /\ ended => ~raising[r] /\ (failed <=> events[r] = <<"started", "failed">>)
                             /\ Len(events[r]) = 2
  BY DEF Told
<1>2. Yielded(r, failed, ended)'
  BY <1>1, SameYielded
<1>3. ended => ~raising'[r] /\ (failed <=> events'[r] = <<"started", "failed">>)
                           /\ Len(events'[r]) = 2
  BY <1>1
<1>4. raising'[r] => events'[r] = <<"started", "failed">>
  BY DEF Told
<1> QED
  BY <1>2, <1>3, <1>4, Zenon DEF Told

\* Leaving, under a step that only moves on.
LEMMA SameLeaving ==
  ASSUME NEW r \in Requests, frames'[r] = frames[r], count'[r] = count[r],
         raising'[r] = raising[r], primary'[r] = primary[r], late'[r] = late[r],
         endpoint'[r] = endpoint[r], Leaving(r)
  PROVE  Leaving(r)'
<1>1. PICK failed \in BOOLEAN :
        /\ Yielded(r, failed, FALSE)
        /\ failed => primary[r] # "none"
        /\ endpoint[r] = "stream" /\ ~raising[r] =>
             late[r] = "none" /\ (failed <=> primary[r] # "none")
  BY DEF Leaving
<1>2. Yielded(r, failed, FALSE)'
  BY <1>1, SameYielded
<1>3. /\ failed => primary'[r] # "none"
      /\ endpoint'[r] = "stream" /\ ~raising'[r] =>
           late'[r] = "none" /\ (failed <=> primary'[r] # "none")
  BY <1>1
<1>4. raising'[r] => primary'[r] # "none" \/ late'[r] # "none"
  BY DEF Leaving
<1> QED
  BY <1>2, <1>3, <1>4, Zenon DEF Leaving

\* An error that was reported in a frame, and one that cuts the stream off.
LEMMA Leaves ==
  ASSUME NEW r \in Requests, frames'[r] = frames[r], count'[r] = count[r],
         NEW failed \in BOOLEAN, Yielded(r, failed, FALSE),
         failed => primary'[r] # "none",
         endpoint'[r] = "stream" /\ ~raising'[r] =>
           late'[r] = "none" /\ (failed <=> primary'[r] # "none"),
         raising'[r] => primary'[r] # "none" \/ late'[r] # "none"
  PROVE  Leaving(r)'
<1>1. Yielded(r, failed, FALSE)'
  BY SameYielded
<1> QED
  BY <1>1, Zenon DEF Leaving

\* A request that is over without an end frame.
LEMMA IsTold ==
  ASSUME NEW r \in Requests, frames'[r] = frames[r], count'[r] = count[r],
         NEW failed \in BOOLEAN, Yielded(r, failed, FALSE),
         raising'[r] => events'[r] = <<"started", "failed">>
  PROVE  Told(r)'
<1>1. Yielded(r, failed, FALSE)'
  BY SameYielded
<1>2. \E f, e \in BOOLEAN :
        /\ Yielded(r, f, e)'
        /\ e => ~raising'[r] /\ (f <=> events'[r] = <<"started", "failed">>)
                         /\ Len(events'[r]) = 2
  <2>1. FALSE => ~raising'[r] /\ (failed <=> events'[r] = <<"started", "failed">>)
                              /\ Len(events'[r]) = 2
    OBVIOUS
  <2> QED
    BY <1>1, <2>1, Zenon
<1> QED
  BY <1>2, Zenon DEF Told

\* Submit adds at most one call to the worker threads of r.
LEMMA Submits ==
  ASSUME TypeOK, NEW r \in Requests, NEW call \in {"call", "close"}, Submit(r, call)
  PROVE  /\ worker' \in [Requests -> SUBSET {"call", "close"}]
         /\ worker'[r] \subseteq worker[r] \cup {call}
         /\ \A q \in Requests \ {r} : worker'[q] = worker[q]
<1> DEFINE w == IF isSync[r] THEN worker[r] \cup {call} ELSE worker[r]
<1>1. worker' = [worker EXCEPT ![r] = w]
  BY DEF Submit
<1>2. w \in SUBSET {"call", "close"} /\ w \subseteq worker[r] \cup {call}
  BY DEF TypeOK
<1> HIDE DEF w
<1> QED
  BY <1>1, <1>2 DEF TypeOK

--------------------------------------------------------------------------------
\* The client leaves: the generator learns of it at its next await or yield.
LEMMA LeaveInv == ASSUME Inv, NEW r \in Requests, Leave(r) PROVE Inv'
<1> USE DEF Leave, lockVars, requestVars, errorVars
<1>1. TypeOK'
  BY DEF Inv, TypeOK
<1>2. HoldersApart'
  BY DEF Inv, HoldersApart
<1>3. \A q \in Requests \ {r} : SameRequest(q) /\ (q \in holders' <=> q \in holders)
  BY DEF Inv, TypeOK, SameRequest
<1>4. Fits(r)'
  BY DEF Inv, Fits, HoldsInScope, WorkersFit, PcFits, EventsFit, FramesFit, InScope, Over,
       Clean, Untouched, Failing, Leaving, Told, Yielded
<1> QED
  BY <1>1, <1>2, <1>3, <1>4, StepInv

\* The backend loses the lock, or reports the loss; no handler moves.
LEMMA LossInv == ASSUME Inv, NEW r \in Requests, LockFails(r) PROVE Inv'
<1> USE DEF LockFails, requestVars, errorVars
<1>1. LockOK' /\ HoldersApart' /\ holders' = holders
  BY LossApart DEF Inv, TypeOK, LockOK
<1>2. TypeOK'
  BY <1>1 DEF Inv, TypeOK, LockOK
<1>3. \A q \in Requests \ {r} : SameRequest(q) /\ (q \in holders' <=> q \in holders)
  BY <1>1 DEF SameRequest
<1>4. Fits(r)'
  BY <1>1, OthersFit DEF SameRequest, Inv
<1> QED
  BY <1>1, <1>2, <1>3, <1>4, StepInv

\* A worker thread ends its call.
LEMMA WorkerInv == ASSUME Inv, NEW r \in Requests, WorkerEnds(r) PROVE Inv'
<1> USE DEF WorkerEnds, lockVars, requestVars, errorVars
<1>1. TypeOK'
  BY DEF Inv, TypeOK
<1>2. HoldersApart'
  BY DEF Inv, HoldersApart
<1>3. \A q \in Requests \ {r} : SameRequest(q) /\ (q \in holders' <=> q \in holders)
  BY DEF Inv, TypeOK, SameRequest
<1>4. Fits(r)'
  <2>1. worker'[r] \subseteq worker[r]
    BY DEF Inv, TypeOK
  <2> QED
    BY <2>1 DEF Inv, Fits, HoldsInScope, WorkersFit, PcFits, EventsFit, FramesFit, InScope, Over,
         Clean, Untouched, Failing, Leaving, Told, Yielded
<1> QED
  BY <1>1, <1>2, <1>3, <1>4, StepInv

\* Resume: to the next event, to the clean-up after an error, or to the end.
LEMMA ResumeInv == ASSUME Inv, NEW r \in Requests, Resume(r) PROVE Inv'
<1>0. /\ pc[r] = "yielding" /\ ~gone[r]
      /\ \/ next[r] = "pull" /\ Goto(r, "pulling") /\ Submit(r, "call")
         \/ next[r] \in {"cap", "fail"} /\ Goto(r, "closing") /\ UNCHANGED worker
         \/ next[r] = "stop" /\ Goto(r, "done") /\ UNCHANGED worker
      /\ UNCHANGED <<lockVars, requestVars, next, gone, count, frames, errorVars, events>>
  BY DEF Inv, TypeOK, Resume
<1> USE DEF Goto, requestVars, errorVars, Inv
<1>1. LockOK' /\ HoldersApart' /\ holders' = holders
  BY <1>0, UnheldApart DEF TypeOK, LockOK
<1>2. TypeOK'
  <2>1. pc'[r] \in {"pulling", "closing", "done"} /\ pc' = [pc EXCEPT ![r] = pc'[r]]
    BY <1>0 DEF TypeOK
  <2>2. worker' \in [Requests -> SUBSET {"call", "close"}]
    BY <1>0, Submits DEF TypeOK
  <2>3. UNCHANGED <<requestVars, next, gone, count, frames, errorVars, events>>
    BY <1>0
  <2>4. pc' \in [Requests -> {"arriving", "deferred", "preparing", "yielding", "pulling",
                              "running", "closing", "releasing", "settling", "done"}]
    BY <2>1 DEF TypeOK
  <2> QED
    BY <1>1, <2>2, <2>3, <2>4 DEF TypeOK, LockOK
<1>3. \A q \in Requests \ {r} : SameRequest(q) /\ (q \in holders' <=> q \in holders)
  BY <1>0, <1>1, Submits DEF TypeOK, SameRequest
<1>4. Fits(r)'
  <2>0. /\ \/ next[r] = "pull" /\ pc'[r] = "pulling"
           \/ next[r] \in {"cap", "fail"} /\ pc'[r] = "closing"
           \/ next[r] = "stop" /\ pc'[r] = "done"
        /\ pc[r] = "yielding" /\ next'[r] = next[r] /\ locks'[r] = locks[r]
    BY <1>0 DEF TypeOK
  <2>1. HoldsInScope(r)'
    <3>1. InScope(r)' <=> InScope(r)
      BY <2>0 DEF InScope
    <3>2. HoldsInScope(r)
      BY DEF Fits
    <3> QED
      BY <3>1, <3>2, <2>0, <1>1 DEF HoldsInScope
  <2> USE DEF TypeOK, InScope
  <2>2. WorkersFit(r)'
    <3>1. "call" \notin worker[r] /\ "close" \notin worker[r]
      BY <1>0 DEF Fits, WorkersFit
    <3>2. "close" \notin worker'[r] /\ ("call" \in worker'[r] => pc'[r] = "pulling")
      BY <1>0, <2>0, <3>1, Submits
    <3> QED
      BY <3>2 DEF WorkersFit
  <2>3. PcFits(r)'
    BY <1>0 DEF Fits, PcFits
  <2>4. EventsFit(r)'
    BY <1>0 DEF Fits, PcFits, EventsFit, Over
  <2>5. FramesFit(r)'
    <3>1. CASE next[r] = "pull"
      <4>1. pc'[r] = "pulling" /\ Untouched(r)
        BY <1>0, <3>1 DEF Fits, FramesFit, Clean
      <4>2. Untouched(r)'
        BY <1>0, <4>1 DEF Untouched, Yielded
      <4> QED
        BY <4>1, <4>2 DEF FramesFit, Clean, Over
    <3>2. CASE next[r] \in {"cap", "fail"}
      <4>1. pc'[r] = "closing" /\ Failing(r)
        BY <1>0, <3>2 DEF Fits, FramesFit
      <4>2. Leaving(r)'
        BY <1>0, <4>1, Leaves DEF Failing
      <4> QED
        BY <4>1, <4>2 DEF FramesFit, Clean, Over
    <3>3. CASE next[r] = "stop"
      <4>1. pc'[r] = "done" /\ Told(r)
        BY <1>0, <3>3 DEF Fits, FramesFit, Over
      <4>2. Told(r)'
        BY <1>0, <4>1, SameTold
      <4> QED
        BY <4>1, <4>2 DEF FramesFit, Clean, Over
    <3> QED
      BY <1>0, <3>1, <3>2, <3>3
  <2> QED
    BY <2>1, <2>2, <2>3, <2>4, <2>5 DEF Fits
<1> QED
  BY <1>1, <1>2, <1>3, <1>4, StepInv

\* The client is gone at a yield: in front of an error frame or behind it, or
\* after the end, where nothing is left to clean up.
LEMMA ExitInv == ASSUME Inv, NEW r \in Requests, ExitAtYield(r) PROVE Inv'
<1> USE DEF ExitAtYield, Goto, requestVars, errorVars, Inv
<1>1. LockOK' /\ HoldersApart' /\ holders' = holders
  BY UnheldApart DEF TypeOK, LockOK
<1>2. TypeOK'
  BY <1>1 DEF TypeOK, LockOK, Errors
<1>3. \A q \in Requests \ {r} : SameRequest(q) /\ (q \in holders' <=> q \in holders)
  BY <1>1 DEF TypeOK, SameRequest
<1>4. Fits(r)'
  <2> USE DEF TypeOK, InScope
  <2>1. HoldsInScope(r)'
    BY <1>1 DEF Fits, HoldsInScope, PcFits, WorkersFit
  <2>2. WorkersFit(r)'
    BY DEF Fits, WorkersFit, Working
  <2>3. PcFits(r)'
    BY DEF Fits, PcFits
  <2>4. EventsFit(r)'
    BY DEF Fits, PcFits, EventsFit, Over
  <2>5. FramesFit(r)'
    <3>1. CASE next[r] = "stop"
      <4>1. pc'[r] = "done" /\ Told(r)
        BY <3>1 DEF Fits, FramesFit, Over
      <4>2. Told(r)'
        BY <3>1, <4>1, SameTold
      <4> QED
        BY <4>1, <4>2 DEF FramesFit, Clean, Over
    <3>2. CASE next[r] # "stop"
      <4>1. CASE next[r] = "pull"
        <5>1. Yielded(r, FALSE, FALSE)' /\ primary'[r] = "gone" /\ pc'[r] = "closing"
          BY <4>1 DEF Fits, FramesFit, Clean, Untouched, Yielded
        <5> QED
          BY <5>1 DEF FramesFit, Over, Clean, Leaving
      <4>2. CASE next[r] \in {"cap", "fail"}
        <5>1. /\ Yielded(r, TRUE, FALSE)' /\ primary'[r] \in {"gone", "error"}
              /\ raising'[r] /\ pc'[r] = "closing"
          BY <4>2 DEF Fits, FramesFit, Failing, Yielded
        <5> QED
          BY <5>1 DEF FramesFit, Over, Clean, Leaving
      <4> QED
        BY <3>2, <4>1, <4>2
    <3> QED
      BY <3>1, <3>2
  <2> QED
    BY <2>1, <2>2, <2>3, <2>4, <2>5 DEF Fits
<1> QED
  BY <1>1, <1>2, <1>3, <1>4, StepInv

\* The graph is exhausted and the guard agreed: clean-up without an error.
LEMMA ExhaustedInv == ASSUME Inv, NEW r \in Requests, Exhausted(r) PROVE Inv'
<1> USE DEF Exhausted, Goto, requestVars, errorVars, Inv
<1>1. LockOK' /\ HoldersApart' /\ holders' = holders
  BY UnheldApart DEF TypeOK, LockOK
<1>2. TypeOK'
  BY <1>1 DEF TypeOK, LockOK, Errors
<1>3. \A q \in Requests \ {r} : SameRequest(q) /\ (q \in holders' <=> q \in holders)
  BY <1>1 DEF TypeOK, SameRequest
<1>4. Fits(r)'
  <2> USE DEF TypeOK, InScope
  <2>1. HoldsInScope(r)'
    BY <1>1 DEF Fits, HoldsInScope, PcFits, WorkersFit
  <2>2. WorkersFit(r)'
    BY DEF Fits, WorkersFit, Working
  <2>3. PcFits(r)'
    BY DEF Fits, PcFits
  <2>4. EventsFit(r)'
    BY DEF Fits, PcFits, EventsFit, Over
  <2>5. FramesFit(r)'
    BY DEF Fits, PcFits, EventsFit, FramesFit, Over, Clean, Untouched, Failing, Leaving, Told,
         Yielded
  <2> QED
    BY <2>1, <2>2, <2>3, <2>4, <2>5 DEF Fits
<1> QED
  BY <1>1, <1>2, <1>3, <1>4, StepInv

\* Cancelled while it awaited an event: the call in flight has ended first.
LEMMA CancelPullInv == ASSUME Inv, NEW r \in Requests, CancelPull(r) PROVE Inv'
<1> USE DEF CancelPull, Goto, Submit, requestVars, errorVars, Inv
<1>1. LockOK' /\ HoldersApart' /\ holders' = holders
  BY UnheldApart DEF TypeOK, LockOK
<1>2. TypeOK'
  BY <1>1 DEF TypeOK, LockOK, Errors
<1>3. \A q \in Requests \ {r} : SameRequest(q) /\ (q \in holders' <=> q \in holders)
  BY <1>1 DEF TypeOK, SameRequest
<1>4. Fits(r)'
  <2> USE DEF TypeOK, InScope
  <2>1. HoldsInScope(r)'
    BY <1>1 DEF Fits, HoldsInScope, PcFits, WorkersFit
  <2>2. WorkersFit(r)'
    BY DEF Fits, WorkersFit, Working
  <2>3. PcFits(r)'
    BY DEF Fits, PcFits
  <2>4. EventsFit(r)'
    BY DEF Fits, PcFits, EventsFit, Over
  <2>5. FramesFit(r)'
    BY DEF Fits, PcFits, EventsFit, FramesFit, Over, Clean, Untouched, Failing, Leaving, Told,
         Yielded
  <2> QED
    BY <2>1, <2>2, <2>3, <2>4, <2>5 DEF Fits
<1> QED
  BY <1>1, <1>2, <1>3, <1>4, StepInv

\* The iterator is closed; a cancellation that comes now is kept for later.
LEMMA ClosedInv == ASSUME Inv, NEW r \in Requests, Closed(r) PROVE Inv'
<1> USE DEF Closed, Goto, requestVars, errorVars, Inv
<1>1. LockOK' /\ HoldersApart' /\ holders' = holders
  BY UnheldApart DEF TypeOK, LockOK
<1>2. TypeOK'
  <2>1. late' \in [Requests -> Errors] /\ raising' \in [Requests -> BOOLEAN]
    BY DEF TypeOK, Errors
  <2>2. pc'[r] \in {"releasing", "settling"} /\ pc' = [pc EXCEPT ![r] = pc'[r]]
    BY DEF TypeOK
  <2> QED
    BY <1>1, <2>1, <2>2 DEF TypeOK, LockOK
<1>3. \A q \in Requests \ {r} : SameRequest(q) /\ (q \in holders' <=> q \in holders)
  BY <1>1 DEF TypeOK, SameRequest
<1>4. Fits(r)'
  <2> USE DEF TypeOK, InScope
  <2>1. HoldsInScope(r)'
    BY <1>1 DEF Fits, HoldsInScope, PcFits, WorkersFit
  <2>2. WorkersFit(r)'
    BY DEF Fits, WorkersFit, Working
  <2>3. PcFits(r)'
    BY DEF Fits, PcFits
  <2>4. EventsFit(r)'
    BY DEF Fits, PcFits, EventsFit, Over
  <2>5. FramesFit(r)'
    BY DEF Fits, PcFits, EventsFit, FramesFit, Over, Clean, Untouched, Failing, Leaving, Told,
         Yielded
  <2> QED
    BY <2>1, <2>2, <2>3, <2>4, <2>5 DEF Fits
<1> QED
  BY <1>1, <1>2, <1>3, <1>4, StepInv

\* The graph call of an invoke ends, with a result, an error or a cancellation.
LEMMA InvokeEndsInv == ASSUME Inv, NEW r \in Requests, InvokeEnds(r) PROVE Inv'
<1> USE DEF InvokeEnds, Goto, requestVars, errorVars, Inv
<1>1. LockOK' /\ HoldersApart' /\ holders' = holders
  BY UnheldApart DEF TypeOK, LockOK
<1>2. TypeOK'
  BY <1>1 DEF TypeOK, LockOK, Errors
<1>3. \A q \in Requests \ {r} : SameRequest(q) /\ (q \in holders' <=> q \in holders)
  BY <1>1 DEF TypeOK, SameRequest
<1>4. Fits(r)'
  <2> USE DEF TypeOK, InScope
  <2>1. HoldsInScope(r)'
    BY <1>1 DEF Fits, HoldsInScope, PcFits, WorkersFit
  <2>2. WorkersFit(r)'
    BY DEF Fits, WorkersFit, Working
  <2>3. PcFits(r)'
    BY DEF Fits, PcFits
  <2>4. EventsFit(r)'
    BY DEF Fits, PcFits, EventsFit, Over
  <2>5. FramesFit(r)'
    <3>1. /\ Yielded(r, FALSE, FALSE)' /\ ~raising'[r] /\ pc'[r] = "releasing"
          /\ endpoint'[r] = "invoke"
      BY DEF Fits, PcFits, FramesFit, Clean, Untouched, Yielded
    <3> QED
      BY <3>1 DEF FramesFit, Over, Clean, Leaving
  <2> QED
    BY <2>1, <2>2, <2>3, <2>4, <2>5 DEF Fits
<1> QED
  BY <1>1, <1>2, <1>3, <1>4, StepInv

\* Reject: the observer is told, and nothing else happened.
LEMMA RejectInv ==
  ASSUME Inv, NEW r \in Requests, pc[r] \in {"arriving", "deferred"}, Reject(r)
  PROVE  Inv'
<1> USE DEF Reject, Goto, requestVars, errorVars, Inv
<1>1. LockOK' /\ HoldersApart' /\ holders' = holders
  BY UnheldApart DEF TypeOK, LockOK
<1>2. events' \in [Requests -> Seq(Words)] /\ events'[r] = <<"rejected">> /\ Tell(r, "rejected")
  BY TellsFirst DEF Fits, EventsFit, Words
<1>3. TypeOK'
  BY <1>1, <1>2 DEF TypeOK, LockOK, Words
<1>4. \A q \in Requests \ {r} : SameRequest(q) /\ (q \in holders' <=> q \in holders)
  BY <1>1, <1>2 DEF TypeOK, SameRequest, Tell
<1>5. pc'[r] = "done" /\ Untouched(r)
  BY DEF TypeOK, Fits, FramesFit, Clean
<1>6. Told(r)'
  BY <1>5, IsTold DEF Untouched
<1>7. Fits(r)'
  <2>1. HoldsInScope(r)'
    BY <1>1, <1>5 DEF Fits, HoldsInScope, InScope
  <2>2. WorkersFit(r)' /\ PcFits(r)'
    BY <1>5 DEF Fits, WorkersFit, PcFits
  <2>3. EventsFit(r)'
    BY <1>2, <1>5 DEF EventsFit, InScope, Over
  <2>4. FramesFit(r)'
    BY <1>5, <1>6 DEF FramesFit, Clean
  <2> QED
    BY <2>1, <2>2, <2>3, <2>4 DEF Fits
<1> QED
  BY <1>1, <1>3, <1>4, <1>7, StepInv

\* A response that is deferred, or dropped before it owned anything.
LEMMA EarlyInv ==
  ASSUME Inv, NEW r \in Requests, pc[r] \in {"arriving", "deferred"},
         NEW p \in {"deferred", "done"}, Goto(r, p),
         UNCHANGED <<lockVars, requestVars, next, worker, gone, count, frames, errorVars, events>>
  PROVE  Inv'
<1> USE DEF Goto, requestVars, errorVars, Inv
<1>1. LockOK' /\ HoldersApart' /\ holders' = holders
  BY UnheldApart DEF TypeOK, LockOK
<1>2. TypeOK'
  BY <1>1 DEF TypeOK, LockOK
<1>3. \A q \in Requests \ {r} : SameRequest(q) /\ (q \in holders' <=> q \in holders)
  BY <1>1 DEF TypeOK, SameRequest
<1>4. pc'[r] = p /\ Untouched(r) /\ events[r] = <<>>
  BY DEF TypeOK, Fits, FramesFit, EventsFit, Clean
<1>5. Untouched(r)'
  BY <1>4 DEF Untouched, Yielded
<1>6. Told(r)'
  BY <1>4, IsTold DEF Untouched
<1>7. Fits(r)'
  <2>1. HoldsInScope(r)'
    BY <1>1, <1>4 DEF Fits, HoldsInScope, InScope
  <2>2. WorkersFit(r)' /\ PcFits(r)'
    BY <1>4 DEF Fits, WorkersFit, PcFits
  <2>3. EventsFit(r)'
    BY <1>4 DEF EventsFit, InScope, Over
  <2>4. FramesFit(r)'
    BY <1>4, <1>5, <1>6 DEF FramesFit, Clean
  <2> QED
    BY <2>1, <2>2, <2>3, <2>4 DEF Fits
<1> QED
  BY <1>1, <1>2, <1>3, <1>7, StepInv

\* Before the lock: rejected, or deferred.
LEMMA ValidateInv == ASSUME Inv, NEW r \in Requests, Validate(r) PROVE Inv'
BY RejectInv, EarlyInv DEF Validate

\* The run starts, under its lock or without one.
LEMMA StartInv ==
  ASSUME Inv, NEW r \in Requests, pc[r] = "deferred", Started(r),
         \/ locks[r] /\ Lock!Acquire(r)
         \/ ~locks[r] /\ Unheld
  PROVE  Inv'
<1>0. /\ \/ /\ endpoint[r] = "stream" /\ worker' = worker
            /\ pc' = [pc EXCEPT ![r] = "preparing"]
         \/ /\ endpoint[r] = "invoke" /\ Submit(r, "call")
            /\ pc' = [pc EXCEPT ![r] = "running"]
      /\ Tell(r, "started")
      /\ UNCHANGED <<endpoint, isSync, locks, next, gone, count, frames, primary, late, raising>>
  BY EndpointsKnown DEF Inv, TypeOK, Started, Goto, requestVars, errorVars
<1> USE DEF Inv
<1>1. /\ LockOK' /\ HoldersApart' /\ (locks[r] <=> r \in holders')
      /\ \A q \in Requests \ {r} : q \in holders' <=> q \in holders
  <2>1. CASE locks[r] /\ Lock!Acquire(r)
    BY <2>1, AcquireApart DEF TypeOK, LockOK, Lock!Acquire
  <2>2. CASE ~locks[r] /\ Unheld
    BY <2>2, UnheldApart DEF TypeOK, LockOK, Unheld, Fits, HoldsInScope
  <2> QED
    BY <2>1, <2>2
<1>2. events' \in [Requests -> Seq(Words)] /\ events'[r] = <<"started">>
  BY <1>0, TellsFirst DEF Fits, EventsFit, Words
<1>3. /\ worker' \in [Requests -> SUBSET {"call", "close"}] /\ worker'[r] \subseteq {"call"}
      /\ \A q \in Requests \ {r} : worker'[q] = worker[q]
  BY <1>0, Submits DEF TypeOK, Fits, WorkersFit
<1>4. /\ pc' = [pc EXCEPT ![r] = pc'[r]]
      /\ \/ pc'[r] = "preparing" /\ endpoint[r] = "stream" /\ worker'[r] = {}
         \/ pc'[r] = "running" /\ endpoint[r] = "invoke"
  <2>1. worker[r] = {}
    BY DEF TypeOK, Fits, WorkersFit
  <2> QED
    BY <1>0, <2>1 DEF TypeOK
<1>5. TypeOK'
  <2>1. UNCHANGED <<endpoint, isSync, locks, next, gone, count, frames, primary, late, raising>>
    BY <1>0
  <2>2. pc'[r] \in {"preparing", "running"}
    BY <1>4
  <2>3. pc' \in [Requests -> {"arriving", "deferred", "preparing", "yielding", "pulling",
                              "running", "closing", "releasing", "settling", "done"}]
    BY <1>4, <2>2 DEF TypeOK
  <2> QED
    BY <1>1, <1>2, <1>3, <2>1, <2>3 DEF TypeOK, LockOK, Words
<1>6. \A q \in Requests \ {r} : SameRequest(q) /\ (q \in holders' <=> q \in holders)
  BY <1>0, <1>1, <1>3, <1>4 DEF TypeOK, SameRequest, Tell
<1>7. Untouched(r)
  BY DEF TypeOK, Fits, FramesFit, Clean
<1>8. Untouched(r)'
  BY <1>0, <1>7 DEF Untouched, Yielded
<1>9. Fits(r)'
  <2>1. HoldsInScope(r)'
    BY <1>0, <1>1, <1>4 DEF TypeOK, HoldsInScope, InScope
  <2>2. WorkersFit(r)'
    BY <1>0, <1>3, <1>4 DEF TypeOK, WorkersFit
  <2>3. PcFits(r)'
    BY <1>0, <1>4 DEF Fits, TypeOK, PcFits
  <2>4. EventsFit(r)'
    BY <1>0, <1>2, <1>4 DEF TypeOK, EventsFit, InScope, Over
  <2>5. FramesFit(r)'
    BY <1>0, <1>4, <1>8 DEF TypeOK, FramesFit, Over
  <2> QED
    BY <2>1, <2>2, <2>3, <2>4, <2>5 DEF Fits
<1> QED
  BY <1>1, <1>5, <1>6, <1>9, StepInv

\* acquire_thread_lock: granted, refused, not asked for, or cancelled.
LEMMA TakeLockInv == ASSUME Inv, NEW r \in Requests, TakeLock(r) PROVE Inv'
BY StartInv, RejectInv, EarlyInv DEF TakeLock

\* The generator is primed and now owns the lock.
LEMMA PrimedInv ==
  ASSUME Inv, NEW r \in Requests, pc[r] = "preparing",
         next' = [next EXCEPT ![r] = "pull"], Goto(r, "yielding"),
         UNCHANGED <<lockVars, events, requestVars, worker, gone, count, frames, errorVars>>
  PROVE  Inv'
<1> USE DEF Goto, requestVars, errorVars, Inv
<1>1. LockOK' /\ HoldersApart' /\ holders' = holders
  BY UnheldApart DEF TypeOK, LockOK
<1>2. TypeOK'
  BY <1>1 DEF TypeOK, LockOK
<1>3. \A q \in Requests \ {r} : SameRequest(q) /\ (q \in holders' <=> q \in holders)
  BY <1>1 DEF TypeOK, SameRequest
<1>4. pc'[r] = "yielding" /\ next'[r] = "pull" /\ Untouched(r)
  BY DEF TypeOK, Fits, FramesFit, Clean
<1>5. Untouched(r)'
  BY <1>4 DEF Untouched, Yielded
<1>6. Fits(r)'
  <2>1. HoldsInScope(r)'
    BY <1>1, <1>4 DEF Fits, HoldsInScope, InScope
  <2>2. WorkersFit(r)' /\ PcFits(r)'
    BY <1>4 DEF Fits, WorkersFit, PcFits
  <2>3. EventsFit(r)'
    BY <1>4 DEF Fits, EventsFit, InScope, Over
  <2>4. FramesFit(r)'
    BY <1>4, <1>5 DEF FramesFit, Clean, Over
  <2> QED
    BY <2>1, <2>2, <2>3, <2>4 DEF Fits
<1> QED
  BY <1>1, <1>2, <1>3, <1>6, StepInv

\* It could not be prepared: the token is given back here.
LEMMA UnpreparedInv ==
  ASSUME Inv, NEW r \in Requests, pc[r] = "preparing",
         Free(r), Tell(r, "failed"), Goto(r, "done"),
         UNCHANGED <<next, requestVars, worker, gone, count, frames, errorVars>>
  PROVE  Inv'
<1> USE DEF Goto, requestVars, errorVars, Inv
<1>1. /\ LockOK' /\ HoldersApart' /\ r \notin holders'
      /\ \A q \in Requests \ {r} : q \in holders' <=> q \in holders
  BY FreeApart DEF TypeOK, LockOK
<1>2. events' \in [Requests -> Seq(Words)] /\ events'[r] = <<"started", "failed">>
  BY TellsLast DEF Fits, EventsFit, InScope, Words
<1>3. TypeOK'
  BY <1>1, <1>2 DEF TypeOK, LockOK, Words
<1>4. \A q \in Requests \ {r} : SameRequest(q) /\ (q \in holders' <=> q \in holders)
  BY <1>1 DEF TypeOK, SameRequest, Tell
<1>5. pc'[r] = "done" /\ Untouched(r)
  BY DEF TypeOK, Fits, FramesFit, Clean
<1>6. Told(r)'
  BY <1>5, IsTold DEF Untouched
<1>7. Fits(r)'
  <2>1. HoldsInScope(r)'
    BY <1>1, <1>5 DEF HoldsInScope, InScope
  <2>2. WorkersFit(r)' /\ PcFits(r)'
    BY <1>5 DEF Fits, WorkersFit, PcFits
  <2>3. EventsFit(r)'
    BY <1>2, <1>5 DEF EventsFit, InScope, Over
  <2>4. FramesFit(r)'
    BY <1>5, <1>6 DEF FramesFit, Clean
  <2> QED
    BY <2>1, <2>2, <2>3, <2>4 DEF Fits
<1> QED
  BY <1>1, <1>3, <1>4, <1>7, StepInv

\* _prepare_stream_response, with its two outcomes.
LEMMA PrimeInv == ASSUME Inv, NEW r \in Requests, Prime(r) PROVE Inv'
BY PrimedInv, UnpreparedInv DEF Prime

\* Release frees the lock, however the run ended.
LEMMA ReleaseInv == ASSUME Inv, NEW r \in Requests, Release(r) PROVE Inv'
<1> USE DEF Release, Goto, requestVars, errorVars, Inv
<1>1. /\ LockOK' /\ HoldersApart' /\ r \notin holders'
      /\ \A q \in Requests \ {r} : q \in holders' <=> q \in holders
  BY FreeApart DEF TypeOK, LockOK
<1>2. TypeOK'
  <2>1. late' \in [Requests -> Errors] /\ raising' \in [Requests -> BOOLEAN]
    BY DEF TypeOK, Errors
  <2>2. pc'[r] \in {"releasing", "settling"} /\ pc' = [pc EXCEPT ![r] = pc'[r]]
    BY DEF TypeOK
  <2> QED
    BY <1>1, <2>1, <2>2 DEF TypeOK, LockOK
<1>3. \A q \in Requests \ {r} : SameRequest(q) /\ (q \in holders' <=> q \in holders)
  BY <1>1 DEF TypeOK, SameRequest
<1>4. pc'[r] = "settling" /\ Leaving(r)
  BY DEF TypeOK, Fits, FramesFit
<1>5. Leaving(r)'
  <2>1. CASE UNCHANGED <<late, raising>>
    BY <2>1, <1>4, SameLeaving
  <2>2. CASE raising' = [raising EXCEPT ![r] = TRUE]
    <3>1. PICK failed \in BOOLEAN : Yielded(r, failed, FALSE) /\ (failed => primary[r] # "none")
      BY <1>4 DEF Leaving
    <3>2. raising'[r] /\ (primary[r] # "none" \/ late'[r] # "none")
      BY <2>2, <1>4 DEF TypeOK, Leaving
    <3> QED
      BY <3>1, <3>2, Leaves
  <2> QED
    BY <2>1, <2>2
<1>6. Fits(r)'
  <2>1. HoldsInScope(r)'
    BY <1>1, <1>4 DEF HoldsInScope, InScope
  <2>2. WorkersFit(r)' /\ PcFits(r)'
    BY <1>4 DEF Fits, WorkersFit, PcFits
  <2>3. EventsFit(r)'
    BY <1>4 DEF Fits, EventsFit, InScope, Over
  <2>4. FramesFit(r)'
    BY <1>4, <1>5 DEF FramesFit, Clean, Over
  <2> QED
    BY <2>1, <2>2, <2>3, <2>4 DEF Fits
<1> QED
  BY <1>1, <1>2, <1>3, <1>6, StepInv

\* An event is sent as data, within the cap.
LEMMA DataInv ==
  ASSUME Inv, NEW r \in Requests, pc[r] = "pulling", worker[r] = {}, count[r] < MaxEvents,
         Yield(r, "data", "pull"), count' = [count EXCEPT ![r] = @ + 1],
         UNCHANGED <<lockVars, requestVars, worker, gone, errorVars, events>>
  PROVE  Inv'
<1> USE DEF Yield, Goto, requestVars, errorVars, Inv
<1>1. LockOK' /\ HoldersApart' /\ holders' = holders
  BY UnheldApart DEF TypeOK, LockOK
<1>2. pc'[r] = "yielding" /\ next'[r] = "pull" /\ Untouched(r)
  BY DEF TypeOK, Fits, FramesFit, Clean
<1>3. frames' \in [Requests -> Seq({"data", "error", "end"})] /\ Yielded(r, FALSE, FALSE)'
  BY <1>2, YieldsData DEF Untouched
<1>4. count' \in [Requests -> 0..MaxEvents]
  BY MaxEventsNat DEF TypeOK
<1>5. TypeOK'
  BY <1>1, <1>3, <1>4 DEF TypeOK, LockOK
<1>6. \A q \in Requests \ {r} : SameRequest(q) /\ (q \in holders' <=> q \in holders)
  BY <1>1 DEF TypeOK, SameRequest
<1>7. Untouched(r)'
  BY <1>2, <1>3 DEF Untouched
<1>8. Fits(r)'
  <2>1. HoldsInScope(r)'
    BY <1>1, <1>2 DEF Fits, HoldsInScope, InScope
  <2>2. WorkersFit(r)' /\ PcFits(r)'
    BY <1>2 DEF Fits, WorkersFit, PcFits
  <2>3. EventsFit(r)'
    BY <1>2 DEF Fits, EventsFit, InScope, Over
  <2>4. FramesFit(r)'
    BY <1>2, <1>7 DEF FramesFit, Clean, Over
  <2> QED
    BY <2>1, <2>2, <2>3, <2>4 DEF Fits
<1> QED
  BY <1>1, <1>5, <1>6, <1>8, StepInv

\* The cap is exceeded, or the graph, an encoding or the guard raises.
LEMMA ErrorInv ==
  ASSUME Inv, NEW r \in Requests, pc[r] = "pulling", worker[r] = {}, NEW n \in {"cap", "fail"},
         Yield(r, "error", n), primary' = [primary EXCEPT ![r] = "error"],
         UNCHANGED <<lockVars, requestVars, worker, gone, count, late, raising, events>>
  PROVE  Inv'
<1> USE DEF Yield, Goto, requestVars, Inv
<1>1. LockOK' /\ HoldersApart' /\ holders' = holders
  BY UnheldApart DEF TypeOK, LockOK
<1>2. pc'[r] = "yielding" /\ next'[r] = n /\ Untouched(r) /\ primary'[r] = "error"
  BY DEF TypeOK, Fits, FramesFit, Clean
<1>3. frames' \in [Requests -> Seq({"data", "error", "end"})] /\ Yielded(r, TRUE, FALSE)'
  BY <1>2, YieldsError DEF Untouched
<1>5. TypeOK'
  BY <1>1, <1>3 DEF TypeOK, LockOK, Errors
<1>6. \A q \in Requests \ {r} : SameRequest(q) /\ (q \in holders' <=> q \in holders)
  BY <1>1 DEF TypeOK, SameRequest
<1>7. Failing(r)'
  BY <1>2, <1>3 DEF Untouched, Failing
<1>8. Fits(r)'
  <2>1. HoldsInScope(r)'
    BY <1>1, <1>2 DEF Fits, HoldsInScope, InScope
  <2>2. WorkersFit(r)' /\ PcFits(r)'
    BY <1>2 DEF Fits, WorkersFit, PcFits
  <2>3. EventsFit(r)'
    BY <1>2 DEF Fits, EventsFit, InScope, Over
  <2>4. FramesFit(r)'
    BY <1>2, <1>7 DEF FramesFit, Clean, Over
  <2> QED
    BY <2>1, <2>2, <2>3, <2>4 DEF Fits
<1> QED
  BY <1>1, <1>5, <1>6, <1>8, StepInv

\* What the graph answers to a pull.
LEMMA PullInv == ASSUME Inv, NEW r \in Requests, Event(r) \/ Fail(r) PROVE Inv'
<1>1. pc[r] = "pulling" => (~Working(r) <=> worker[r] = {})
  BY DEF Inv, TypeOK, Fits, WorkersFit, Working
<1>2. count[r] \in Nat /\ (count[r] >= MaxEvents \/ count[r] < MaxEvents)
  BY MaxEventsNat DEF Inv, TypeOK
<1> QED
  BY <1>1, <1>2, DataInv, ErrorInv DEF Event, Fail, errorVars

\* A stream ends with its end frame.
LEMMA EndFrameInv ==
  ASSUME Inv, NEW r \in Requests, pc[r] = "settling", endpoint[r] = "stream", ~raising[r],
         Tell(r, IF primary[r] # "none" \/ late[r] # "none" THEN "failed" ELSE "completed"),
         Yield(r, "end", "stop"),
         UNCHANGED <<lockVars, requestVars, worker, gone, count, errorVars>>
  PROVE  Inv'
<1> USE DEF requestVars, errorVars, Inv
<1> DEFINE e == IF primary[r] # "none" \/ late[r] # "none" THEN "failed" ELSE "completed"
<1>1. LockOK' /\ HoldersApart' /\ holders' = holders
  BY UnheldApart DEF TypeOK, LockOK
<1>2. /\ pc' = [pc EXCEPT ![r] = "yielding"] /\ next' = [next EXCEPT ![r] = "stop"]
      /\ frames' = [frames EXCEPT ![r] = Append(@, "end")]
  BY DEF Yield, Goto
<1>3. pc'[r] = "yielding" /\ next'[r] = "stop" /\ Leaving(r)
  BY <1>2 DEF TypeOK, Fits, FramesFit
<1>4. PICK failed \in BOOLEAN :
        Yielded(r, failed, FALSE) /\ late[r] = "none" /\ (failed <=> primary[r] # "none")
  BY <1>3 DEF Leaving
<1>5. e \in Words /\ (failed <=> e = "failed")
  BY <1>4 DEF Words
<1>6. events' \in [Requests -> Seq(Words)] /\ events'[r] = <<"started", e>>
  BY <1>5, TellsLast DEF Fits, EventsFit
<1>7. frames' \in [Requests -> Seq({"data", "error", "end"})] /\ Yielded(r, failed, TRUE)'
  BY <1>2, <1>4, YieldsEnd
<1>8. TypeOK'
  BY <1>1, <1>2, <1>6, <1>7 DEF TypeOK, LockOK, Words
<1>9. \A q \in Requests \ {r} : SameRequest(q) /\ (q \in holders' <=> q \in holders)
  BY <1>1, <1>2 DEF TypeOK, SameRequest, Tell
<1>10. Told(r)'
  <2>1. (failed <=> events'[r] = <<"started", "failed">>) /\ Len(events'[r]) = 2 /\ ~raising'[r]
    BY <1>5, <1>6
  <2> QED
    BY <1>7, <2>1, Zenon DEF Told
<1>11. Fits(r)'
  <2>1. HoldsInScope(r)'
    BY <1>1, <1>3 DEF Fits, HoldsInScope, InScope
  <2>2. WorkersFit(r)' /\ PcFits(r)'
    BY <1>3 DEF Fits, WorkersFit, PcFits
  <2>3. EventsFit(r)'
    BY <1>3, <1>6 DEF EventsFit, InScope, Over
  <2>4. FramesFit(r)'
    BY <1>3, <1>10 DEF FramesFit, Clean, Over
  <2> QED
    BY <2>1, <2>2, <2>3, <2>4 DEF Fits
<1> QED
  BY <1>1, <1>8, <1>9, <1>11, StepInv

\* An invoke ends, or a stream that was cut off, without a frame.
LEMMA SettledInv ==
  ASSUME Inv, NEW r \in Requests, pc[r] = "settling", NEW e \in {"failed", "completed"},
         primary[r] # "none" \/ late[r] # "none" => e = "failed",
         Tell(r, e), Goto(r, "done"),
         UNCHANGED <<lockVars, requestVars, frames, next, worker, gone, count, errorVars>>
  PROVE  Inv'
<1> USE DEF Goto, requestVars, errorVars, Inv
<1>1. LockOK' /\ HoldersApart' /\ holders' = holders
  BY UnheldApart DEF TypeOK, LockOK
<1>2. events' \in [Requests -> Seq(Words)] /\ events'[r] = <<"started", e>>
  BY TellsLast DEF Fits, EventsFit, Words
<1>3. TypeOK'
  BY <1>1, <1>2 DEF TypeOK, LockOK, Words
<1>4. \A q \in Requests \ {r} : SameRequest(q) /\ (q \in holders' <=> q \in holders)
  BY <1>1 DEF TypeOK, SameRequest, Tell
<1>5. pc'[r] = "done" /\ Leaving(r)
  BY DEF TypeOK, Fits, FramesFit
<1>6. Told(r)'
  <2>1. PICK failed \in BOOLEAN : Yielded(r, failed, FALSE)
    BY <1>5 DEF Leaving
  <2>2. raising'[r] => events'[r] = <<"started", "failed">>
    BY <1>2, <1>5 DEF Leaving
  <2> QED
    BY <2>1, <2>2, IsTold
<1>7. Fits(r)'
  <2>1. HoldsInScope(r)'
    BY <1>1, <1>5 DEF Fits, HoldsInScope, InScope
  <2>2. WorkersFit(r)' /\ PcFits(r)'
    BY <1>5 DEF Fits, WorkersFit, PcFits
  <2>3. EventsFit(r)'
    BY <1>2, <1>5 DEF EventsFit, InScope, Over
  <2>4. FramesFit(r)'
    BY <1>5, <1>6 DEF FramesFit, Clean
  <2> QED
    BY <2>1, <2>2, <2>3, <2>4 DEF Fits
<1> QED
  BY <1>1, <1>3, <1>4, <1>7, StepInv

\* The terminal event, with an end frame or without.
LEMMA SettleInv == ASSUME Inv, NEW r \in Requests, Settle(r) PROVE Inv'
<1>1. CASE endpoint[r] = "stream" /\ ~raising[r]
  <2>1. Tell(r, IF primary[r] # "none" \/ late[r] # "none" THEN "failed" ELSE "completed")
    BY <1>1 DEF Settle
  <2> QED
    BY <1>1, <2>1, EndFrameInv DEF Settle
<1>2. CASE ~(endpoint[r] = "stream" /\ ~raising[r])
  <2>1. PICK e \in {"failed", "completed"} :
          Tell(r, e) /\ (primary[r] # "none" \/ late[r] # "none" => e = "failed")
    BY DEF Settle
  <2> QED
    BY <1>2, <2>1, SettledInv DEF Settle
<1> QED
  BY <1>1, <1>2

--------------------------------------------------------------------------------
\* Every step of a handler, a worker, a client or the lock keeps the invariant.
LEMMA NextInv == Inv /\ [Next]_vars => Inv'
<1> SUFFICES ASSUME Inv, [Next]_vars PROVE Inv'
  OBVIOUS
<1>1. ASSUME NEW r \in Requests, HandleInvoke(r) PROVE Inv'
  BY <1>1, ValidateInv, TakeLockInv, InvokeEndsInv, ReleaseInv, SettleInv DEF HandleInvoke
<1>2. ASSUME NEW r \in Requests, HandleStream(r) PROVE Inv'
  BY <1>2, ValidateInv, TakeLockInv, PrimeInv DEF HandleStream
<1>3. ASSUME NEW r \in Requests, Generate(r) PROVE Inv'
  BY <1>3, ResumeInv, ExitInv, PullInv, ExhaustedInv, CancelPullInv, ClosedInv, ReleaseInv,
     SettleInv DEF Generate
<1>4. CASE UNCHANGED vars
  BY <1>4, OthersFit DEF vars, lockVars, requestVars, errorVars, Inv, TypeOK, HoldersApart,
     SameRequest
<1> QED
  BY <1>1, <1>2, <1>3, <1>4, WorkerInv, LeaveInv, LossInv DEF Next

\* Lock, worker threads, observer and frames of every request fit its program
\* point, whatever clients leave and whatever locks lapse (streaming.py).
THEOREM Invariance == Spec => []Inv
BY InitInv, NextInv, PTL DEF Spec

\* The variables keep their types; the count of events stays within the cap.
THEOREM TypeCorrect == Spec => []TypeOK
<1>1. Inv => TypeOK
  BY DEF Inv
<1> QED
  BY <1>1, Invariance, PTL

\* At most one thread calls the graph, in the scope of the lock.
LEMMA WorkersAre ==
  ASSUME Inv, NEW r \in Requests
  PROVE  /\ worker[r] \in {{}, {"call"}, {"close"}}
         /\ worker[r] # {} => InScope(r)
         /\ InScope(r) /\ locks[r] => r \in holders
<1>1. /\ "call" \in worker[r] => pc[r] \in {"running", "pulling"}
      /\ "close" \in worker[r] => pc[r] = "closing"
  BY DEF Inv, Fits, WorkersFit
<1>2. worker[r] \subseteq {"call", "close"}
  BY DEF Inv, TypeOK
<1>3. ~("call" \in worker[r] /\ "close" \in worker[r])
  BY <1>1
<1>4. worker[r] \in {{}, {"call"}, {"close"}}
  BY <1>2, <1>3, Zenon
<1>5. worker[r] # {} => InScope(r)
  BY <1>1, <1>4 DEF InScope
<1> QED
  BY <1>4, <1>5 DEF Inv, Fits, HoldsInScope

\* The invariant implies WorkerAlone.
LEMMA AloneInv == Inv => WorkerAlone
<1> SUFFICES ASSUME Inv PROVE WorkerAlone
  OBVIOUS
<1>1. WorkerOwnsThread
  BY WorkersAre DEF WorkerOwnsThread
<1>2. ASSUME NEW r \in Requests PROVE Cardinality(worker[r]) <= 1
  <2>1. Cardinality({}) = 0 /\ Cardinality({"call"}) = 1 /\ Cardinality({"close"}) = 1
    BY FS_EmptySet, FS_Singleton
  <2>2. worker[r] = {} \/ worker[r] = {"call"} \/ worker[r] = {"close"}
    BY WorkersAre
  <2>3. Cardinality(worker[r]) = 0 \/ Cardinality(worker[r]) = 1
    BY <2>1, <2>2, Zenon
  <2> QED
    BY <2>3
<1> QED
  BY <1>1, <1>2 DEF WorkerAlone, IteratorNotRaced

\* WorkerAlone: a worker thread in the graph of a locked run works under the
\* lock of that run, and alone on its iterator, however the client left.
THEOREM WorkerIsAlone == Spec => []WorkerAlone
BY AloneInv, Invariance, PTL

\* Executions are holders, and holders are apart.
LEMMA ApartInv == Inv => OneExecution
<1> SUFFICES ASSUME Inv PROVE OneExecution
  OBVIOUS
<1>1. ASSUME NEW r \in Requests, Executing(r) PROVE r \in holders
  BY <1>1, WorkersAre DEF Executing, InScope
<1> QED
  BY <1>1 DEF Inv, HoldersApart, OneExecution

\* OneExecution: two locked executions overlap only across hosts and after a
\* lapse.
THEOREM ExecutionsApart == Spec => []OneExecution
BY ApartInv, Invariance, PTL

\* The scope of the lock ends before the handler does.
LEMMA GivenBackInv == Inv => NoLockKept
BY DEF Inv, Fits, HoldsInScope, InScope, NoLockKept

\* NoLockKept: every way out of an invoke or a stream gives the lock back.
THEOREM LockGivenBack == Spec => []NoLockKept
BY GivenBackInv, Invariance, PTL

\* EventsFit says what was told of a run that is over.
LEMMA TerminalInv == Inv => ExactlyOneTerminal
BY DEF Inv, Fits, EventsFit, Over, ExactlyOneTerminal

\* ExactlyOneTerminal: the observer is told once how a started run ended.
THEOREM OneTerminal == Spec => []ExactlyOneTerminal
BY TerminalInv, Invariance, PTL

\* Yielded says how many frames of each kind there are.
LEMMA FrameSets ==
  ASSUME TypeOK, NEW r \in Requests, NEW failed \in BOOLEAN, NEW ended \in BOOLEAN,
         Yielded(r, failed, ended)
  PROVE  /\ Frames(r, "error") = IF failed THEN 1 ELSE 0
         /\ Frames(r, "end") = IF ended THEN 1 ELSE 0
         /\ failed => frames[r][count[r] + 1] = "error"
         /\ ended => Last(frames[r]) = "end"
<1> DEFINE s == frames[r]
           n == count[r]
<1>1. s \in Seq({"data", "error", "end"}) /\ n \in Nat /\ DOMAIN s = 1..Len(s)
  BY MaxEventsNat DEF TypeOK
<1>2. /\ Len(s) = n + (IF failed THEN 1 ELSE 0) + (IF ended THEN 1 ELSE 0)
      /\ \A i \in 1..n : s[i] = "data"
      /\ failed => s[n + 1] = "error"
      /\ ended => s[Len(s)] = "end"
  BY DEF Yielded
<1>3. Frames(r, "error") = Cardinality({i \in DOMAIN s : s[i] = "error"})
      /\ Frames(r, "end") = Cardinality({i \in DOMAIN s : s[i] = "end"})
  BY DEF Frames
<1>4. ended => Last(s) = "end"
  BY <1>2 DEF Last
<1> HIDE DEF s, n
<1>5. {i \in DOMAIN s : s[i] = "error"} = IF failed THEN {n + 1} ELSE {}
  BY <1>1, <1>2
<1>6. {i \in DOMAIN s : s[i] = "end"} = IF ended THEN {Len(s)} ELSE {}
  BY <1>1, <1>2
<1>7. Cardinality({}) = 0 /\ Cardinality({n + 1}) = 1 /\ Cardinality({Len(s)}) = 1
  BY FS_EmptySet, FS_Singleton
<1>8. /\ Frames(r, "error") = IF failed THEN 1 ELSE 0
      /\ Frames(r, "end") = IF ended THEN 1 ELSE 0
  BY <1>3, <1>5, <1>6, <1>7
<1> QED
  BY <1>2, <1>4, <1>8 DEF s, n

\* The invariant implies StreamAgrees: where the run is over by Told, before
\* that because no end frame was sent and the observer was told at most of the
\* start.
LEMMA AgreesInv == Inv => StreamAgrees
<1> SUFFICES ASSUME Inv, NEW r \in Requests
             PROVE  /\ Frames(r, "end") <= 1 /\ Frames(r, "error") <= 1
                    /\ Frames(r, "error") = 1 => frames[r][count[r] + 1] = "error"
                    /\ Frames(r, "end") = 1 =>
                         /\ Last(frames[r]) = "end"
                         /\ Last(events[r]) = "failed" <=> Frames(r, "error") = 1
                    /\ raising[r] /\ Len(events[r]) = 2 => Last(events[r]) = "failed"
  BY DEF StreamAgrees
<1> USE DEF Inv
<1>1. CASE Over(r)
  <2>1. PICK failed, ended \in BOOLEAN :
          /\ Yielded(r, failed, ended)
          /\ ended => ~raising[r] /\ (failed <=> events[r] = <<"started", "failed">>)
                               /\ Len(events[r]) = 2
    BY <1>1 DEF Fits, FramesFit, Told
  <2>2. raising[r] => events[r] = <<"started", "failed">>
    BY <1>1 DEF Fits, FramesFit, Told
  <2>3. events[r] \in {<<>>, <<"rejected">>, <<"started", "completed">>, <<"started", "failed">>}
    BY <1>1 DEF Fits, EventsFit
  <2>4. Len(events[r]) = 2 => (Last(events[r]) = "failed" <=> events[r] = <<"started", "failed">>)
    BY <2>3 DEF Last
  <2> QED
    BY <2>1, <2>2, <2>4, FrameSets
<1>2. CASE ~Over(r)
  <2>1. events[r] \in {<<>>, <<"started">>}
    BY <1>2 DEF TypeOK, Fits, EventsFit, InScope, Over
  <2>2. Len(events[r]) # 2
    BY <2>1
  <2>3. Clean(r) \/ (pc[r] = "yielding" /\ next[r] \in {"cap", "fail"})
        \/ pc[r] \in {"closing", "releasing", "settling"}
    BY <1>2 DEF TypeOK, Clean, Over
  <2>4. PICK failed \in BOOLEAN : Yielded(r, failed, FALSE)
    BY <2>3 DEF Fits, FramesFit, Untouched, Failing, Leaving
  <2>5. /\ Frames(r, "error") = IF failed THEN 1 ELSE 0
        /\ Frames(r, "end") = 0
        /\ failed => frames[r][count[r] + 1] = "error"
    BY <2>4, FrameSets
  <2> QED
    BY <2>2, <2>5
<1> QED
  BY <1>1, <1>2

\* StreamAgrees: the frames of a stream, its error and its end, agree with what
\* the observer was told, and a stream that is cut off is no success.
THEOREM ToldInFrames == Spec => []StreamAgrees
BY AgreesInv, Invariance, PTL

\* Saying nothing, and saying another word, is not to say "completed".
LEMMA NotCompleted ==
  ASSUME NEW s \in Seq(Words), NEW e \in Words \ {"completed"}
  PROVE  Append(s, "completed") # s /\ Append(s, "completed") # Append(s, e)
<1>1. "completed" \in Words
  BY DEF Words
<1> QED
  BY <1>1, Appended

\* What r is told in a step in which it does not complete.
Quiet(r) ==
  \/ events'[r] = events[r]
  \/ \E e \in Words \ {"completed"} : events'[r] = Append(events[r], e)

LEMMA QuietIsNotTold ==
  ASSUME TypeOK, NEW r \in Requests, Quiet(r)
  PROVE  ~Tell(r, "completed")
BY NotCompleted DEF TypeOK, Tell, Quiet, Words

\* A step that r has no part in leaves it as doomed as it was.
Bystander(r) ==
  /\ pc'[r] = pc[r] /\ next'[r] = next[r]
  /\ primary'[r] = primary[r] /\ events'[r] = events[r]
  /\ r \in reported => r \in reported'

LEMMA OthersDoomed ==
  ASSUME Inv, NEW q \in Requests, NEW r \in Requests, q # r,
         HandleInvoke(q) \/ HandleStream(q) \/ Generate(q)
  PROVE  Bystander(r)
<1> USE DEF Bystander, Inv, TypeOK, requestVars, errorVars, lockVars, Goto, Tell, Yield, Unheld,
            Free, Lock!Acquire, Lock!Refuse, Lock!Release, Lock!runLockVars
<1>1. CASE Validate(q) \/ TakeLock(q) \/ Prime(q)
  BY <1>1 DEF Validate, Reject, TakeLock, Started, Prime
<1>2. CASE InvokeEnds(q) \/ Release(q) \/ Settle(q)
  BY <1>2 DEF InvokeEnds, Release, Settle
<1>3. CASE Resume(q) \/ ExitAtYield(q) \/ Exhausted(q) \/ Closed(q)
  BY <1>3 DEF Resume, ExitAtYield, Exhausted, Closed
<1>4. CASE Event(q)
  BY <1>4 DEF Event
<1>5. CASE Fail(q) \/ CancelPull(q)
  BY <1>5 DEF Fail, CancelPull
<1> QED
  BY <1>1, <1>2, <1>3, <1>4, <1>5 DEF HandleInvoke, HandleStream, Generate

\* A loss that is known stops the run at its guard, if nothing else does before,
\* and an error, once there, is told.
LEMMA LossStep ==
  ASSUME Inv, [Next]_vars, NEW r \in Requests, Doomed(r)
  PROVE  Doomed(r)' /\ ~Tell(r, "completed")
<1> USE DEF Inv
<1>1. CASE Bystander(r)
  BY <1>1, QuietIsNotTold DEF Doomed, InGraph, Bystander, Quiet
<1>2. CASE UNCHANGED vars
  BY <1>1, <1>2 DEF Bystander, vars, lockVars, errorVars
<1>3. ASSUME NEW q \in Requests, WorkerEnds(q) \/ Leave(q) \/ LockFails(q)
      PROVE  Bystander(r)
  BY <1>3 DEF Bystander, WorkerEnds, Leave, LockFails, Lock!Lapse, Lock!Report, lockVars,
       requestVars, errorVars
<1>4. r \in reported /\ InGraph(r) => locks[r] /\ ~GuardAgrees(r)
  BY DEF TypeOK, Fits, HoldsInScope, InScope, InGraph, GuardAgrees, Lock!Passes
<1>5. ASSUME Quiet(r), \/ primary'[r] # "none" \/ events'[r] = <<"started", "failed">>
                       \/ r \in reported' /\ InGraph(r)'
      PROVE  Doomed(r)' /\ ~Tell(r, "completed")
  BY <1>5, QuietIsNotTold DEF Doomed
<1>6. CASE HandleInvoke(r) \/ HandleStream(r) \/ Generate(r)
  <2> USE DEF TypeOK, Goto, requestVars, errorVars, lockVars, Unheld
  <2>0. /\ pc[r] \notin {"arriving", "deferred"}
        /\ Clean(r) => r \in reported /\ InGraph(r) /\ events[r] = <<"started">>
    <3>1. Fits(r)
      OBVIOUS
    <3>2. pc[r] \in {"arriving", "deferred"} => events[r] = <<>> /\ primary[r] = "none"
      BY <3>1 DEF Fits, EventsFit, FramesFit, Clean, Untouched
    <3>3. <<>> # <<"started", "failed">> /\ <<"started">> # <<"started", "failed">>
      OBVIOUS
    <3>4. Clean(r) => primary[r] = "none"
      BY <3>1 DEF Fits, FramesFit, Untouched
    <3>5. InGraph(r) => events[r] = <<"started">>
      BY <3>1 DEF Fits, EventsFit, InScope, InGraph
    <3>6. pc[r] \notin {"arriving", "deferred"}
      BY <3>2, <3>3 DEF Doomed, InGraph
    <3>7. Clean(r) => InGraph(r)
      BY <3>6 DEF Clean, InGraph
    <3> QED
      BY <3>3, <3>4, <3>5, <3>6, <3>7 DEF Doomed
  <2>1. CASE Validate(r) \/ TakeLock(r)
    BY <2>0, <2>1 DEF Validate, TakeLock
  <2>2. CASE Prime(r)
    <3>1. pc[r] = "preparing" /\ Clean(r)
      BY <2>2 DEF Prime, Clean
    <3>2. CASE pc' = [pc EXCEPT ![r] = "yielding"] /\ next' = [next EXCEPT ![r] = "pull"]
               /\ UNCHANGED <<lockVars, events>>
      BY <1>5, <2>0, <3>1, <3>2 DEF InGraph, Quiet
    <3>3. CASE Tell(r, "failed")
      <4>1. events'[r] = <<"started", "failed">> /\ Quiet(r)
        BY <2>0, <3>1, <3>3, TellsLast DEF Quiet, Tell, Words
      <4> QED
        BY <1>5, <4>1
    <3> QED
      BY <2>2, <3>2, <3>3 DEF Prime
  <2>3. CASE Resume(r) \/ ExitAtYield(r)
    <3>1. events' = events /\ reported' = reported /\ pc[r] = "yielding"
      BY <2>3 DEF Resume, ExitAtYield
    <3>2. CASE next[r] = "pull"
      <4>1. primary'[r] # "none" \/ (r \in reported' /\ InGraph(r)')
        BY <2>0, <2>3, <3>1, <3>2 DEF Resume, ExitAtYield, InGraph, Clean
      <4> QED
        BY <1>5, <3>1, <4>1 DEF Quiet
    <3>3. CASE next[r] # "pull"
      <4>1. primary[r] # "none" \/ events[r] = <<"started", "failed">>
        BY <3>1, <3>3 DEF Doomed, InGraph
      <4>2. primary'[r] = primary[r] \/ primary'[r] = "gone"
        BY <2>3 DEF Resume, ExitAtYield
      <4> QED
        BY <1>5, <3>1, <4>1, <4>2 DEF Quiet
    <3> QED
      BY <3>2, <3>3
  <2>4. CASE Event(r) \/ Exhausted(r) \/ Fail(r) \/ CancelPull(r) \/ InvokeEnds(r)
    <3>1. Clean(r) /\ events' = events /\ reported' = reported
      BY <2>4 DEF Clean, Event, Exhausted, Fail, CancelPull, InvokeEnds
    <3>2. primary'[r] # "none" \/ InGraph(r)'
      BY <1>4, <2>0, <2>4, <3>1 DEF Event, Exhausted, Fail, CancelPull, InvokeEnds, Yield, InGraph
    <3> QED
      BY <1>5, <2>0, <3>1, <3>2 DEF Quiet
  <2>5. CASE Closed(r) \/ Release(r)
    <3>1. events' = events /\ primary' = primary /\ pc[r] \in {"closing", "releasing"}
      BY <2>5 DEF Closed, Release
    <3>2. primary[r] # "none" \/ events[r] = <<"started", "failed">>
      BY <3>1 DEF Doomed, InGraph
    <3> QED
      BY <1>5, <3>1, <3>2 DEF Quiet
  <2>6. CASE Settle(r)
    <3>1. pc[r] = "settling" /\ primary' = primary /\ events[r] = <<"started">>
      BY <2>6 DEF Settle, Fits, EventsFit
    <3>2. primary[r] # "none"
      <4>1. <<"started">> # <<"started", "failed">>
        OBVIOUS
      <4> QED
        BY <3>1, <4>1 DEF Doomed, InGraph
    <3>3. Tell(r, "failed")
      BY <2>6, <3>2 DEF Settle
    <3>4. Quiet(r)
      BY <3>3 DEF Tell, Quiet, Words
    <3> QED
      BY <1>5, <3>1, <3>2, <3>4
  <2> QED
    BY <1>6, <2>1, <2>2, <2>3, <2>4, <2>5, <2>6 DEF HandleInvoke, HandleStream, Generate
<1>7. ASSUME NEW q \in Requests, HandleInvoke(q) \/ HandleStream(q) \/ Generate(q)
      PROVE  q = r \/ Bystander(r)
  BY <1>7, OthersDoomed
<1> QED
  BY <1>1, <1>2, <1>3, <1>6, <1>7 DEF Next

\* LostIsNotCompleted: a run whose loss is known never completes, of either endpoint.
THEOREM LossIsTold == Spec => LostIsNotCompleted
<1>1. Inv /\ [Next]_vars =>
        [\A r \in Requests : Doomed(r) => Doomed(r)' /\ ~Tell(r, "completed")]_vars
  BY LossStep
<1> QED
  BY <1>1, Invariance, PTL DEF Spec, LostIsNotCompleted

\* Every step takes, frees, loses or leaves alone the lock as RunLock allows.
LEMMA NextUsesLock ==
  ASSUME Inv, [Next]_vars
  PROVE  [Lock!Next \/ Lock!AtOnce]_(Lock!runLockVars)
<1> USE DEF Lock!Next, Lock!AtOnce, Lock!runLockVars, lockVars
<1>1. ASSUME NEW r \in Requests, HandleInvoke(r) \/ HandleStream(r) \/ Generate(r)
      PROVE  UNCHANGED lockVars \/ Lock!Acquire(r) \/ Lock!Release(r)
  BY <1>1 DEF HandleInvoke, HandleStream, Generate, Validate, Reject, TakeLock, Unheld, Free,
       Lock!Refuse, Prime, Resume, ExitAtYield, Event, Exhausted, Fail, CancelPull, Closed,
       Release, Settle, InvokeEnds
<1>2. ASSUME NEW r \in Requests, WorkerEnds(r) \/ Leave(r)
      PROVE  UNCHANGED lockVars
  BY <1>2 DEF WorkerEnds, Leave
<1>3. ASSUME NEW r \in Requests, LockFails(r)
      PROVE  Lock!Lapse(r) \/ Lock!Report(r)
  BY <1>3 DEF LockFails
<1> QED
  BY <1>1, <1>2, <1>3 DEF Next, vars

\* The streaming endpoints are users of a RunLock: with Refinement of the Blob
\* lease lock, what is proved here holds over that lock (locks/azure_blob.py).
THEOREM LockUsed == Spec => Lock!Spec
<1>1. Init => Lock!Init
  BY DEF Init
<1> QED
  BY <1>1, NextUsesLock, Invariance, PTL DEF Spec, Lock!Spec

--------------------------------------------------------------------------------
(***************************************************************************)
(* The native endpoints (_handlers.py): four kinds of requests, and hosts  *)
(* that may die with those they are at.                                    *)
(***************************************************************************)
\* The variables of RunLock keep their types.
NativeLockOK == nHolders \subseteq Requests /\ nLapsed \subseteq nHolders /\ nReported \subseteq nHolders

\* Everything of q but the lock is as it was.
NativeSameRequest(q) ==
  /\ nKind'[q] = nKind[q] /\ nLocks'[q] = nLocks[q] /\ nPc'[q] = nPc[q] /\ nFrames'[q] = nFrames[q]
  /\ nExit'[q] = nExit[q] /\ nEvents'[q] = nEvents[q] /\ nResponse'[q] = nResponse[q]

\* What a step of one request does to another: nothing, if the lock of that one
\* stays as it is.
LEMMA NativeOthersFit ==
  ASSUME NEW q \in Requests, N!Fits(q), NativeSameRequest(q), q \in nHolders' <=> q \in nHolders
  PROVE  N!Fits(q)'
<1>1. \A f, e \in BOOLEAN : N!Buffered(q, f, e)' <=> N!Buffered(q, f, e)
  BY DEF N!Buffered, NativeSameRequest
<1>2. (N!IsStream(q)' <=> N!IsStream(q)) /\ (N!IsAsync(q)' <=> N!IsAsync(q)) /\ N!IsStream(q) \in BOOLEAN
  BY DEF N!IsStream, N!IsAsync, NativeSameRequest
<1>3. N!HoldsInScope(q)' /\ N!EarlyFits(q)' /\ N!RunFits(q)'
  BY <1>1 DEF N!Fits, N!HoldsInScope, N!InScope, N!EarlyFits, N!RunFits, NativeSameRequest
<1>4. N!ExitFits(q)'
  BY <1>1, <1>2 DEF N!Fits, N!ExitFits, NativeSameRequest
<1>5. \A f \in BOOLEAN : N!Buffered(q, f, N!IsStream(q))' <=> N!Buffered(q, f, N!IsStream(q))
  BY <1>2 DEF N!Buffered, NativeSameRequest
<1>6. N!AnswerFits(q)'
  BY <1>2, <1>5 DEF N!Fits, N!AnswerFits, N!EndsUntold, NativeSameRequest
<1> QED
  BY <1>3, <1>4, <1>6 DEF N!Fits

\* Lock!Acquire grants beside holders of other processes alone, and beside those
\* only to or against a lapsed lock; Release, Lapse and Report keep that.
LEMMA NativeAcquireApart ==
  ASSUME NEW r \in Requests, NativeLockOK, N!HoldersApart, N!Lock!Acquire(r)
  PROVE  /\ NativeLockOK' /\ N!HoldersApart' /\ r \in nHolders'
         /\ \A q \in Requests \ {r} : q \in nHolders' <=> q \in nHolders
BY DEF NativeLockOK, N!HoldersApart, N!Lock!Acquire

\* A release takes the token of r alone.
LEMMA NativeReleaseApart ==
  ASSUME NEW r \in Requests, NativeLockOK, N!HoldersApart, N!Lock!Release(r)
  PROVE  /\ NativeLockOK' /\ N!HoldersApart' /\ r \notin nHolders'
         /\ \A q \in Requests \ {r} : q \in nHolders' <=> q \in nHolders
BY DEF NativeLockOK, N!HoldersApart, N!Lock!Release

\* A lapse or a report takes no token away.
LEMMA NativeLossApart ==
  ASSUME NEW r \in Requests, NativeLockOK, N!HoldersApart, N!Lock!Lapse(r) \/ N!Lock!Report(r)
  PROVE  NativeLockOK' /\ N!HoldersApart' /\ nHolders' = nHolders
BY DEF NativeLockOK, N!HoldersApart, N!Lock!Lapse, N!Lock!Report

\* Most steps of a handler leave the lock alone.
LEMMA NativeUnheldApart ==
  ASSUME NativeLockOK, N!HoldersApart, UNCHANGED N!lockVars
  PROVE  NativeLockOK' /\ N!HoldersApart' /\ nHolders' = nHolders
BY DEF NativeLockOK, N!HoldersApart, N!lockVars

\* Init: nothing has been asked.
LEMMA NativeInitInv == ASSUME N!SizesPositive, N!LimitNat PROVE N!Init => N!Inv
<1> SUFFICES ASSUME N!Init PROVE N!Inv
  OBVIOUS
<1> USE DEF N!Init, N!Lock!Init
<1>1. N!TypeOK
  BY DEF N!TypeOK, N!LimitNat, N!Exits
<1>2. N!HoldersApart
  BY DEF N!HoldersApart
<1>3. ASSUME NEW r \in Requests PROVE N!Fits(r)
  BY <1>3
  DEF N!Fits, N!HoldsInScope, N!InScope, N!EarlyFits, N!RunFits, N!ExitFits, N!AnswerFits, N!EndsUntold
<1> QED
  BY <1>1, <1>2, <1>3 DEF N!Inv

\* A step of r keeps the invariant if it keeps the types, the lock, and r's own
\* part; OthersFit does the rest.
LEMMA NativeStepInv ==
  ASSUME N!Inv, NEW r \in Requests, N!TypeOK', N!HoldersApart', N!Fits(r)',
         \A q \in Requests \ {r} : NativeSameRequest(q) /\ (q \in nHolders' <=> q \in nHolders)
  PROVE  N!Inv'
BY NativeOthersFit DEF N!Inv

\* A frame of data after data; an error after data; an end after either.
LEMMA NativeFramed ==
  ASSUME N!TypeOK, NEW r \in Requests, NEW f \in {"data", "error", "end"},
         nFrames' = [nFrames EXCEPT ![r] = Append(@, f)],
         NEW failed \in BOOLEAN, N!Buffered(r, failed, FALSE)
  PROVE  /\ nFrames' \in [Requests -> Seq({"data", "error", "end"})]
         /\ f = "data" /\ ~failed => N!Buffered(r, FALSE, FALSE)'
         /\ f = "error" /\ ~failed => N!Buffered(r, TRUE, FALSE)'
         /\ f = "end" => N!Buffered(r, failed, TRUE)'
<1> DEFINE s == nFrames[r]
           t == Append(s, f)
<1>1. s \in Seq({"data", "error", "end"}) /\ Len(s) \in Nat
  BY DEF N!TypeOK
<1>2. nFrames'[r] = t
  BY DEF N!TypeOK
<1>3. PICK n \in 0..Len(s) :
        /\ Len(s) = n + (IF failed THEN 1 ELSE 0)
        /\ \A i \in 1..n : s[i] = "data"
        /\ failed => s[n + 1] = "error"
  BY DEF N!Buffered
<1> HIDE DEF s
<1>4. /\ t \in Seq({"data", "error", "end"}) /\ Len(t) = Len(s) + 1
      /\ \A i \in 1..Len(s) : t[i] = s[i]
      /\ t[Len(s) + 1] = f
  BY <1>1, Appended DEF t
<1> HIDE DEF t
<1>5. (\A i \in 1..n : t[i] = "data") /\ (failed => t[n + 1] = "error")
  BY <1>1, <1>3, <1>4
<1>6. ASSUME f = "data", ~failed PROVE N!Buffered(r, FALSE, FALSE)'
  <2>1. \A i \in 1..(n + 1) : t[i] = "data"
    BY <1>1, <1>3, <1>4, <1>5, <1>6
  <2>2. n + 1 \in 0..Len(t) /\ Len(t) = n + 1
    BY <1>1, <1>3, <1>4, <1>6
  <2> QED
    BY <1>2, <2>1, <2>2 DEF N!Buffered
<1>7. ASSUME f = "error", ~failed PROVE N!Buffered(r, TRUE, FALSE)'
  <2>1. n \in 0..Len(t) /\ Len(t) = n + 1 /\ t[n + 1] = "error"
    BY <1>1, <1>3, <1>4, <1>7
  <2> QED
    BY <1>2, <1>5, <2>1 DEF N!Buffered
<1>8. ASSUME f = "end" PROVE N!Buffered(r, failed, TRUE)'
  <2>1. n \in 0..Len(t) /\ Len(t) = n + (IF failed THEN 1 ELSE 0) + 1 /\ t[Len(t)] = "end"
    BY <1>1, <1>3, <1>4, <1>8
  <2> QED
    BY <1>2, <1>5, <2>1 DEF N!Buffered
<1>9. nFrames' \in [Requests -> Seq({"data", "error", "end"})]
  BY <1>2, <1>4 DEF N!TypeOK
<1> QED
  BY <1>6, <1>7, <1>8, <1>9

\* The buffer of a step that leaves it alone.
LEMMA NativeSameBuffer ==
  ASSUME NEW r \in Requests, nFrames'[r] = nFrames[r]
  PROVE  \A f, e \in BOOLEAN : N!Buffered(r, f, e)' <=> N!Buffered(r, f, e)
BY DEF N!Buffered

--------------------------------------------------------------------------------
\* A rejection: the observer and the client are told so, and nothing else.
LEMMA NativeRejectInv ==
  ASSUME N!Inv, NEW r \in Requests, nPc[r] \in {"arriving", "locking"},
         N!Reject(r)
  PROVE  N!Inv'
<1> USE DEF N!Reject, N!Answer, N!Goto
<1>1. nEvents[r] = <<>> /\ nFrames[r] = <<>> /\ r \notin nHolders
  BY DEF N!Inv, N!Fits, N!EarlyFits, N!HoldsInScope, N!InScope
<1>2. nEvents' \in [Requests -> Seq(Words)] /\ nEvents'[r] = <<"rejected">>
  BY <1>1, ToldOnce DEF N!Inv, N!TypeOK, N!Tell, Words
<1>3. N!TypeOK'
  BY <1>2 DEF N!Inv, N!TypeOK, N!lockVars, N!bodyVars, Words
<1>4. N!HoldersApart'
  BY DEF N!Inv, N!HoldersApart, N!lockVars
<1>5. \A q \in Requests \ {r} : NativeSameRequest(q) /\ (q \in nHolders' <=> q \in nHolders)
  BY DEF N!Inv, N!TypeOK, NativeSameRequest, N!lockVars, N!bodyVars, N!Tell
<1>6. nPc'[r] = "done" /\ nResponse'[r] = "rejected" /\ nFrames'[r] = <<>> /\ r \notin nHolders'
  BY <1>1 DEF N!Inv, N!TypeOK, N!bodyVars, N!lockVars
<1>7. N!Fits(r)'
  BY <1>2, <1>6
  DEF N!Fits, N!HoldsInScope, N!InScope, N!EarlyFits, N!RunFits, N!ExitFits, N!AnswerFits, N!EndsUntold
<1> QED
  BY <1>3, <1>4, <1>5, <1>7, NativeStepInv

\* An exception before the run was started.
LEMMA NativeRaiseInv ==
  ASSUME N!Inv, NEW r \in Requests, nPc[r] \in {"arriving", "locking"}, N!Raise(r)
  PROVE  N!Inv'
<1> USE DEF N!Raise, N!Answer, N!Goto
<1>1. nEvents[r] = <<>> /\ r \notin nHolders
  BY DEF N!Inv, N!Fits, N!EarlyFits, N!HoldsInScope, N!InScope
<1>2. N!TypeOK'
  BY DEF N!Inv, N!TypeOK, N!lockVars, N!bodyVars
<1>3. N!HoldersApart'
  BY DEF N!Inv, N!HoldersApart, N!lockVars
<1>4. \A q \in Requests \ {r} : NativeSameRequest(q) /\ (q \in nHolders' <=> q \in nHolders)
  BY DEF N!Inv, N!TypeOK, NativeSameRequest, N!lockVars, N!bodyVars
<1>5. nPc'[r] = "done" /\ nResponse'[r] = "raised" /\ nEvents'[r] = <<>> /\ r \notin nHolders'
  BY <1>1 DEF N!Inv, N!TypeOK, N!lockVars
<1>6. N!Fits(r)'
  BY <1>5
  DEF N!Fits, N!HoldsInScope, N!InScope, N!EarlyFits, N!RunFits, N!ExitFits, N!AnswerFits, N!EndsUntold
<1> QED
  BY <1>2, <1>3, <1>4, <1>6, NativeStepInv

\* Validate: to the lock, to a 4xx before any event, or to the run.
LEMMA NativeValidateInv == ASSUME N!Inv, NEW r \in Requests, N!Validate(r) PROVE N!Inv'
<1>1. CASE N!Reject(r) \/ N!Raise(r)
  BY <1>1, NativeRejectInv, NativeRaiseInv DEF N!Validate
<1>2. CASE N!Goto(r, "locking") /\ UNCHANGED <<N!lockVars, nKind, nLocks, N!bodyVars, nEvents, nResponse>>
  <2> USE DEF N!Goto, N!lockVars, N!bodyVars
  <2>1. N!TypeOK'
    BY <1>2 DEF N!Inv, N!TypeOK
  <2>2. N!HoldersApart'
    BY <1>2 DEF N!Inv, N!HoldersApart
  <2>3. \A q \in Requests \ {r} : NativeSameRequest(q) /\ (q \in nHolders' <=> q \in nHolders)
    BY <1>2 DEF N!Inv, N!TypeOK, NativeSameRequest
  <2>4. nPc[r] = "arriving" /\ nPc'[r] = "locking"
    BY <1>2 DEF N!Inv, N!TypeOK, N!Validate
  <2>5. N!Fits(r)'
    BY <1>2, <2>4
    DEF N!Inv, N!Fits, N!HoldsInScope, N!InScope, N!EarlyFits, N!RunFits, N!ExitFits,
       N!AnswerFits, N!EndsUntold
  <2> QED
    BY <2>1, <2>2, <2>3, <2>5, NativeStepInv
<1> QED
  BY <1>1, <1>2 DEF N!Validate

\* The run is started, under the lock if it is locked.
LEMMA NativeStartInv ==
  ASSUME N!Inv, NEW r \in Requests, nPc[r] = "locking", N!Start(r),
         \/ nLocks[r] /\ N!Lock!Acquire(r)
         \/ ~nLocks[r] /\ UNCHANGED N!lockVars
  PROVE  N!Inv'
<1> USE DEF N!Start, N!Goto
<1>1. /\ nEvents[r] = <<>> /\ nFrames[r] = <<>> /\ nExit[r] = "none" /\ nResponse[r] = "none"
      /\ r \notin nHolders
  BY DEF N!Inv, N!Fits, N!EarlyFits, N!AnswerFits, N!EndsUntold, N!HoldsInScope, N!InScope
<1>2. nEvents' \in [Requests -> Seq(Words)] /\ nEvents'[r] = <<"started">>
  BY <1>1, ToldOnce DEF N!Inv, N!TypeOK, N!Tell, Words
<1>3. /\ NativeLockOK' /\ N!HoldersApart' /\ (r \in nHolders' <=> nLocks[r])
      /\ \A q \in Requests \ {r} : q \in nHolders' <=> q \in nHolders
  BY <1>1, NativeAcquireApart, NativeUnheldApart DEF N!Inv, N!TypeOK, NativeLockOK
<1>4. N!TypeOK'
  BY <1>2, <1>3 DEF N!Inv, N!TypeOK, NativeLockOK, N!bodyVars, Words
<1>5. \A q \in Requests \ {r} : NativeSameRequest(q)
  BY DEF N!Inv, N!TypeOK, NativeSameRequest, N!bodyVars, N!Tell
<1>6. /\ nPc'[r] = "running" /\ nExit'[r] = "none" /\ nResponse'[r] = "none"
      /\ nFrames'[r] = <<>> /\ nLocks'[r] = nLocks[r]
  BY <1>1 DEF N!Inv, N!TypeOK, N!bodyVars
<1>7. N!Buffered(r, FALSE, FALSE)'
  BY <1>6 DEF N!Buffered
<1>8. N!Fits(r)'
  BY <1>2, <1>3, <1>6, <1>7
  DEF N!Fits, N!HoldsInScope, N!InScope, N!EarlyFits, N!RunFits, N!ExitFits, N!AnswerFits, N!EndsUntold
<1> QED
  BY <1>3, <1>4, <1>5, <1>8, NativeStepInv

\* TakeLock: the run starts under the lock, or is refused.
LEMMA NativeTakeLockInv == ASSUME N!Inv, NEW r \in Requests, N!TakeLock(r) PROVE N!Inv'
BY NativeRejectInv, NativeRaiseInv, NativeStartInv DEF N!TakeLock

\* The buffer holds at most MaxBytes.
LEMMA NativeBufferBounded ==
  ASSUME N!SizesPositive, N!LimitNat, N!TypeOK, NEW r \in Requests, NEW f, NEW size \in Nat,
         N!AppendChunk(r, f, size)
  PROVE  /\ nBuffered' \in [Requests -> 0..MaxBytes]
         /\ nFrames' = [nFrames EXCEPT ![r] = Append(@, IF nBuffered[r] + size > MaxBytes
                                                      THEN "error" ELSE f)]
<1>1. nBuffered[r] \in Nat /\ MaxBytes \in Nat
  BY DEF N!TypeOK, N!LimitNat
<1>2. CASE nBuffered[r] + size > MaxBytes
  BY <1>1, <1>2 DEF N!AppendChunk, N!TypeOK
<1>3. CASE ~(nBuffered[r] + size > MaxBytes)
  <2>1. /\ nFrames' = [nFrames EXCEPT ![r] = Append(@, f)]
        /\ nBuffered' = [nBuffered EXCEPT ![r] = @ + size]
    BY <1>3 DEF N!AppendChunk
  <2>2. nBuffered[r] + size \in 0..MaxBytes
    BY <1>1, <1>3
  <2> QED
    BY <1>3, <2>1, <2>2 DEF N!TypeOK
<1> QED
  BY <1>2, <1>3

\* An event of the graph is one frame within the limit, or its error is.
LEMMA NativeStreamEventInv ==
  ASSUME N!SizesPositive, N!LimitNat, N!Inv, NEW r \in Requests, N!StreamEvent(r)
  PROVE  N!Inv'
<1> USE DEF N!StreamEvent, N!Goto
<1>1. PICK size \in Sizes :
        /\ N!AppendChunk(r, "data", size)
        /\ IF nBuffered[r] + size > MaxBytes
           THEN nExit' = [nExit EXCEPT ![r] = "failed"] /\ nPc' = [nPc EXCEPT ![r] = "closing"]
           ELSE UNCHANGED <<nExit, nPc>>
  OBVIOUS
<1> DEFINE long == nBuffered[r] + size > MaxBytes
           f == IF long THEN "error" ELSE "data"
<1>2. nBuffered' \in [Requests -> 0..MaxBytes] /\ nFrames' = [nFrames EXCEPT ![r] = Append(@, f)]
  BY <1>1, NativeBufferBounded DEF N!Inv, N!SizesPositive
<1>3. N!Buffered(r, FALSE, FALSE) /\ nEvents[r] = <<"started">> /\ nExit[r] = "none"
  BY DEF N!Inv, N!Fits, N!RunFits
<1>4. /\ nFrames' \in [Requests -> Seq({"data", "error", "end"})]
      /\ IF long THEN N!Buffered(r, TRUE, FALSE)' ELSE N!Buffered(r, FALSE, FALSE)'
  BY <1>2, <1>3, NativeFramed DEF N!Inv
<1>5. N!TypeOK'
  BY <1>1, <1>2, <1>4 DEF N!Inv, N!TypeOK, N!lockVars, N!Exits
<1>6. N!HoldersApart'
  BY DEF N!Inv, N!HoldersApart, N!lockVars
<1>7. \A q \in Requests \ {r} : NativeSameRequest(q) /\ (q \in nHolders' <=> q \in nHolders)
  BY <1>1, <1>2 DEF N!Inv, N!TypeOK, NativeSameRequest, N!lockVars
<1>8. /\ N!IsStream(r)' /\ nEvents'[r] = <<"started">> /\ nResponse'[r] = nResponse[r]
      /\ nLocks'[r] = nLocks[r] /\ (r \in nHolders' <=> r \in nHolders)
      /\ IF long THEN nPc'[r] = "closing" /\ nExit'[r] = "failed"
         ELSE nPc'[r] = "running" /\ nExit'[r] = "none"
  BY <1>1, <1>3 DEF N!Inv, N!TypeOK, N!IsStream, N!lockVars
<1>9. N!Fits(r)'
  BY <1>4, <1>8
  DEF N!Inv, N!Fits, N!HoldsInScope, N!InScope, N!EarlyFits, N!RunFits, N!ExitFits, N!AnswerFits, N!EndsUntold
<1> QED
  BY <1>5, <1>6, <1>7, <1>9, NativeStepInv

\* The graph has ended, or was cut off; the lock is still held.
LEMMA NativeEndsInv ==
  ASSUME N!Inv, NEW r \in Requests, nPc[r] = "running", N!Goto(r, "closing"),
         \/ nExit' = [nExit EXCEPT ![r] = "ok"]
         \/ N!IsAsync(r) /\ nExit' = [nExit EXCEPT ![r] = "aborted"],
         UNCHANGED <<N!lockVars, nKind, nLocks, nFrames, nBuffered, nEvents, nResponse>>
  PROVE  N!Inv'
<1> USE DEF N!Goto, N!lockVars
<1>1. N!TypeOK'
  BY DEF N!Inv, N!TypeOK, N!Exits
<1>2. N!HoldersApart'
  BY DEF N!Inv, N!HoldersApart
<1>3. \A q \in Requests \ {r} : NativeSameRequest(q) /\ (q \in nHolders' <=> q \in nHolders)
  BY DEF N!Inv, N!TypeOK, NativeSameRequest
<1>4. /\ nPc'[r] = "closing" /\ (nExit'[r] = "ok" \/ (nExit'[r] = "aborted" /\ N!IsAsync(r)'))
      /\ nEvents'[r] = <<"started">> /\ nResponse'[r] = nResponse[r]
  BY DEF N!Inv, N!TypeOK, N!Fits, N!RunFits, N!IsAsync
<1>5. N!Buffered(r, FALSE, FALSE)'
  BY NativeSameBuffer DEF N!Inv, N!Fits, N!RunFits
<1>6. N!Fits(r)'
  BY <1>4, <1>5
  DEF N!Inv, N!Fits, N!HoldsInScope, N!InScope, N!EarlyFits, N!RunFits, N!ExitFits, N!AnswerFits, N!EndsUntold
<1> QED
  BY <1>1, <1>2, <1>3, <1>6, NativeStepInv

\* The graph, its output or its guard fails.
LEMMA NativeFailsInv ==
  ASSUME N!SizesPositive, N!LimitNat, N!Inv, NEW r \in Requests, N!GraphFails(r)
  PROVE  N!Inv'
<1> USE DEF N!GraphFails, N!Goto
<1>1. /\ N!Buffered(r, FALSE, FALSE) /\ nEvents[r] = <<"started">> /\ nExit[r] = "none"
      /\ nResponse[r] = "none" /\ (r \in nHolders <=> nLocks[r])
  BY DEF N!Inv, N!Fits, N!RunFits, N!AnswerFits, N!EndsUntold, N!HoldsInScope, N!InScope
<1>2. N!HoldersApart'
  BY DEF N!Inv, N!HoldersApart, N!lockVars
<1>3. /\ nPc'[r] = "closing" /\ nExit'[r] = "failed" /\ nResponse'[r] = "none"
      /\ (r \in nHolders' <=> nLocks'[r]) /\ (N!IsStream(r)' <=> N!IsStream(r))
  BY <1>1 DEF N!Inv, N!TypeOK, N!IsStream, N!lockVars
<1>4. CASE N!IsStream(r)
  <2>1. N!AppendChunk(r, "error", ErrorSize) /\ nEvents' = nEvents
    BY <1>4
  <2>2. /\ nBuffered' \in [Requests -> 0..MaxBytes]
        /\ nFrames' = [nFrames EXCEPT ![r] = Append(@, "error")]
    BY <2>1, NativeBufferBounded DEF N!Inv, N!SizesPositive
  <2>3. /\ nFrames' \in [Requests -> Seq({"data", "error", "end"})]
        /\ N!Buffered(r, TRUE, FALSE)'
    BY <1>1, <2>2, NativeFramed DEF N!Inv
  <2>4. N!TypeOK'
    BY <2>1, <2>2, <2>3 DEF N!Inv, N!TypeOK, N!lockVars, N!Exits
  <2>5. \A q \in Requests \ {r} : NativeSameRequest(q) /\ (q \in nHolders' <=> q \in nHolders)
    BY <2>1, <2>2 DEF N!Inv, N!TypeOK, NativeSameRequest, N!lockVars
  <2>6. N!Fits(r)'
    BY <1>1, <1>3, <1>4, <2>1, <2>3
    DEF N!Fits, N!HoldsInScope, N!InScope, N!EarlyFits, N!RunFits, N!ExitFits, N!AnswerFits, N!EndsUntold
  <2> QED
    BY <1>2, <2>4, <2>5, <2>6, NativeStepInv
<1>5. CASE ~N!IsStream(r)
  <2>1. N!Tell(r, "failed") /\ nFrames' = nFrames /\ nBuffered' = nBuffered
    BY <1>5
  <2>2. nEvents' \in [Requests -> Seq(Words)] /\ nEvents'[r] = <<"started", "failed">>
    BY <1>1, <2>1, ToldTwice DEF N!Inv, N!TypeOK, N!Tell, Words
  <2>3. N!TypeOK'
    BY <2>1, <2>2 DEF N!Inv, N!TypeOK, N!lockVars, N!Exits, Words
  <2>4. \A q \in Requests \ {r} : NativeSameRequest(q) /\ (q \in nHolders' <=> q \in nHolders)
    BY <2>1 DEF N!Inv, N!TypeOK, NativeSameRequest, N!lockVars, N!Tell
  <2>5. N!Buffered(r, FALSE, FALSE)'
    BY <1>1, <2>1, NativeSameBuffer
  <2>6. N!Fits(r)'
    BY <1>1, <1>3, <1>5, <2>2, <2>5
    DEF N!Fits, N!HoldsInScope, N!InScope, N!EarlyFits, N!RunFits, N!ExitFits, N!AnswerFits, N!EndsUntold
  <2> QED
    BY <1>2, <2>3, <2>4, <2>6, NativeStepInv
<1> QED
  BY <1>4, <1>5

\* A way out of the handler that keeps its exit, or cuts an async one off.
LEMMA NativeMovesInv ==
  ASSUME N!Inv, NEW r \in Requests, NEW p \in {"leaving", "answering"},
         nPc[r] \in {"closing", "leaving"}, N!Goto(r, p),
         nExit' = nExit \/ (N!IsAsync(r) /\ nExit' = [nExit EXCEPT ![r] = "aborted"]),
         UNCHANGED <<nKind, nLocks, nFrames, nBuffered, nEvents, nResponse>>,
         NativeLockOK', N!HoldersApart', r \in nHolders' <=> nLocks[r] /\ p = "leaving",
         \A q \in Requests \ {r} : q \in nHolders' <=> q \in nHolders
  PROVE  N!Inv'
<1> USE DEF N!Goto
<1>1. N!TypeOK'
  BY DEF N!Inv, N!TypeOK, NativeLockOK, N!Exits
<1>2. \A q \in Requests \ {r} : NativeSameRequest(q)
  BY DEF N!Inv, N!TypeOK, NativeSameRequest
<1>3. /\ nPc'[r] = p /\ (nExit'[r] = nExit[r] \/ (nExit'[r] = "aborted" /\ N!IsAsync(r)))
      /\ (N!IsAsync(r)' <=> N!IsAsync(r)) /\ (N!IsStream(r)' <=> N!IsStream(r))
  BY DEF N!Inv, N!TypeOK, N!IsAsync, N!IsStream
<1>4. \A f, e \in BOOLEAN : N!Buffered(r, f, e)' <=> N!Buffered(r, f, e)
  BY NativeSameBuffer
<1>5. N!ExitFits(r)'
  <2>1. N!ExitFits(r) /\ nExit[r] \in N!Exits
    BY DEF N!Inv, N!TypeOK, N!Fits
  <2>2. CASE nExit'[r] = nExit[r]
    BY <1>3, <1>4, <2>1, <2>2 DEF N!ExitFits
  <2>3. CASE nExit'[r] = "aborted" /\ N!IsAsync(r)
    <3>1. nEvents[r] \in {<<"started">>, <<"started", "failed">>}
      BY <2>1 DEF N!ExitFits, N!Exits
    <3> QED
      BY <1>3, <2>3, <3>1 DEF N!ExitFits
  <2> QED
    BY <1>3, <2>2, <2>3
<1>6. N!HoldsInScope(r)' /\ N!EarlyFits(r)' /\ N!RunFits(r)'
  BY <1>3 DEF N!HoldsInScope, N!InScope, N!EarlyFits, N!RunFits
<1>7. N!AnswerFits(r)'
  BY <1>3 DEF N!Inv, N!Fits, N!AnswerFits, N!EndsUntold
<1> QED
  BY <1>1, <1>2, <1>5, <1>6, <1>7, NativeStepInv DEF N!Fits

\* Close: the iterator of the graph is closed, or there is none.
LEMMA NativeCloseInv == ASSUME N!Inv, NEW r \in Requests, N!Close(r) PROVE N!Inv'
<1>1. nExit' = nExit \/ (N!IsAsync(r) /\ nExit' = [nExit EXCEPT ![r] = "aborted"])
  BY DEF N!Close, N!IsAsync
<1>2. NativeLockOK' /\ N!HoldersApart' /\ nHolders' = nHolders
  BY NativeUnheldApart DEF N!Inv, N!TypeOK, NativeLockOK, N!Close
<1>3. r \in nHolders' <=> nLocks[r]
  BY <1>2 DEF N!Inv, N!Fits, N!HoldsInScope, N!InScope, N!Close
<1> QED
  BY <1>1, <1>2, <1>3, NativeMovesInv DEF N!Close

\* LeaveLock: every way out of the run passes the release.
LEMMA NativeLeaveLockInv ==
  ASSUME N!Inv, NEW r \in Requests, N!LeaveLock(r)
  PROVE  N!Inv'
<1>1. r \in nHolders <=> nLocks[r]
  BY DEF N!Inv, N!Fits, N!HoldsInScope, N!InScope, N!LeaveLock
<1>2. /\ NativeLockOK' /\ N!HoldersApart' /\ r \notin nHolders'
      /\ \A q \in Requests \ {r} : q \in nHolders' <=> q \in nHolders
  BY <1>1, NativeReleaseApart, NativeUnheldApart DEF N!Inv, N!TypeOK, NativeLockOK, N!LeaveLock
<1> QED
  BY <1>2, NativeMovesInv DEF N!LeaveLock

\* The answer of a run that ended, and what is still due.
LEMMA NativeRespondInv == ASSUME N!Inv, NEW r \in Requests, N!Respond(r) PROVE N!Inv'
<1> USE DEF N!Respond, N!Answer, N!Goto
<1>1. N!ExitFits(r) /\ r \notin nHolders /\ nExit[r] \in {"ok", "failed", "aborted"}
  BY DEF N!Inv, N!TypeOK, N!Fits, N!ExitFits, N!HoldsInScope, N!InScope, N!Exits
<1>2. N!HoldersApart'
  BY DEF N!Inv, N!HoldersApart, N!lockVars
<1>3. /\ nPc'[r] = "done" /\ r \notin nHolders' /\ (N!IsStream(r)' <=> N!IsStream(r))
      /\ (N!IsAsync(r)' <=> N!IsAsync(r))
  BY <1>1 DEF N!Inv, N!TypeOK, N!IsStream, N!IsAsync, N!lockVars
<1>4. CASE nExit[r] = "aborted"
  <2>1. N!TypeOK'
    BY <1>4 DEF N!Inv, N!TypeOK, N!lockVars
  <2>2. \A q \in Requests \ {r} : NativeSameRequest(q) /\ (q \in nHolders' <=> q \in nHolders)
    BY <1>4 DEF N!Inv, N!TypeOK, NativeSameRequest, N!lockVars
  <2>3. nResponse'[r] = "raised" /\ N!IsAsync(r)' /\ nExit'[r] = "aborted"
    BY <1>1, <1>3, <1>4 DEF N!Inv, N!TypeOK, N!ExitFits
  <2>4. nEvents'[r] \in {<<"started">>, <<"started", "failed">>}
    BY <1>1, <1>4 DEF N!ExitFits
  <2>5. N!AnswerFits(r)'
    BY <1>3, <2>3, <2>4 DEF N!AnswerFits, N!EndsUntold
  <2>6. N!Fits(r)'
    BY <1>3, <2>5
    DEF N!Fits, N!HoldsInScope, N!InScope, N!EarlyFits, N!RunFits, N!ExitFits
  <2> QED
    BY <1>2, <2>1, <2>2, <2>6, NativeStepInv
<1>5. CASE nExit[r] # "aborted"
  <2> DEFINE failed == nExit[r] = "failed"
             told == <<"started", IF failed THEN "failed" ELSE "completed">>
             answer == IF nExit[r] = "ok" \/ N!IsStream(r) THEN "200" ELSE "500"
  <2>1. /\ nResponse' = [nResponse EXCEPT ![r] = answer]
        /\ nFrames' = IF N!IsStream(r) THEN [nFrames EXCEPT ![r] = Append(@, "end")] ELSE nFrames
        /\ UNCHANGED <<nKind, nLocks, nBuffered, nExit>>
    BY <1>5
  <2>2. PICK framed \in BOOLEAN : N!Buffered(r, framed, FALSE) /\ (framed <=> failed /\ N!IsStream(r))
    <3>1. N!Buffered(r, TRUE, FALSE) \/ ~(failed /\ N!IsStream(r))
      BY <1>1, <1>5 DEF N!ExitFits, N!Respond
    <3>2. N!Buffered(r, FALSE, FALSE) \/ (failed /\ N!IsStream(r))
      BY <1>1, <1>5 DEF N!ExitFits, N!Respond
    <3> QED
      BY <3>1, <3>2, Zenon
  <2>4. /\ nFrames' \in [Requests -> Seq({"data", "error", "end"})]
        /\ N!Buffered(r, framed, N!IsStream(r))'
    <3>1. CASE N!IsStream(r)
      <4>1. /\ nFrames' \in [Requests -> Seq({"data", "error", "end"})]
            /\ N!Buffered(r, framed, TRUE)'
        BY <2>1, <2>2, <3>1, NativeFramed DEF N!Inv
      <4>2. N!IsStream(r)' = TRUE
        BY <1>3, <3>1 DEF N!IsStream
      <4> QED
        BY <4>1, <4>2
    <3>2. CASE ~N!IsStream(r)
      <4>1. nFrames' \in [Requests -> Seq({"data", "error", "end"})] /\ nFrames'[r] = nFrames[r]
        BY <2>1, <3>2 DEF N!Inv, N!TypeOK
      <4>2. N!Buffered(r, framed, FALSE)'
        BY <2>2, <4>1, NativeSameBuffer
      <4>3. N!IsStream(r)' = FALSE
        BY <1>3, <3>2 DEF N!IsStream
      <4> QED
        BY <4>1, <4>2, <4>3
    <3> QED
      BY <3>1, <3>2
  <2>5. nEvents' \in [Requests -> Seq(Words)] /\ nEvents'[r] = told
    <3>1. CASE failed /\ ~N!IsStream(r)
      <4>1. nEvents' = nEvents /\ nEvents[r] = <<"started", "failed">>
        BY <1>1, <3>1 DEF N!ExitFits, N!Respond
      <4> QED
        BY <3>1, <4>1 DEF N!Inv, N!TypeOK, Words
    <3>2. CASE ~(failed /\ ~N!IsStream(r))
      <4>1. N!Tell(r, IF failed THEN "failed" ELSE "completed") /\ nEvents[r] = <<"started">>
        BY <1>1, <1>5, <3>2 DEF N!ExitFits, N!Respond
      <4> QED
        BY <4>1, ToldTwice DEF N!Inv, N!TypeOK, N!Tell, Words
    <3> QED
      BY <3>1, <3>2
  <2>6. N!TypeOK'
    BY <2>1, <2>4, <2>5 DEF N!Inv, N!TypeOK, N!lockVars, Words
  <2>7. \A q \in Requests \ {r} : NativeSameRequest(q) /\ (q \in nHolders' <=> q \in nHolders)
    <3>1. \A q \in Requests \ {r} : nEvents'[q] = nEvents[q]
      BY DEF N!Inv, N!TypeOK, N!Tell
    <3> QED
      BY <2>1, <3>1 DEF N!Inv, N!TypeOK, NativeSameRequest, N!lockVars
  <2>8. nResponse'[r] = answer
    BY <2>1 DEF N!Inv, N!TypeOK
  <2>9. answer = "500" => told = <<"started", "failed">>
    BY <1>1, <1>5
  <2>10. answer = "200" => \E f \in BOOLEAN :
           /\ nEvents'[r] = <<"started", IF f THEN "failed" ELSE "completed">>
           /\ N!Buffered(r, f, N!IsStream(r))'
    <3> SUFFICES ASSUME answer = "200" PROVE framed <=> failed
      BY <2>4, <2>5
    <3> QED
      BY <1>1, <1>5, <2>2
  <2>11. N!AnswerFits(r)'
    <3>1. answer \in {"200", "500"}
      OBVIOUS
    <3> QED
      BY <1>3, <2>5, <2>8, <2>9, <2>10, <3>1 DEF N!AnswerFits, N!EndsUntold
  <2>12. N!Fits(r)'
    BY <1>3, <2>11 DEF N!Fits, N!HoldsInScope, N!InScope, N!EarlyFits, N!RunFits, N!ExitFits
  <2> QED
    BY <1>2, <2>6, <2>7, <2>12, NativeStepInv
<1> QED
  BY <1>4, <1>5

\* The backend loses the lock, or reports the loss; no handler moves.
LEMMA NativeLossInv == ASSUME N!Inv, NEW r \in Requests, N!LockFails(r) PROVE N!Inv'
<1> USE DEF N!LockFails, N!bodyVars
<1>1. NativeLockOK' /\ N!HoldersApart' /\ nHolders' = nHolders
  BY NativeLossApart DEF N!Inv, N!TypeOK, NativeLockOK
<1>2. N!TypeOK'
  BY <1>1 DEF N!Inv, N!TypeOK, NativeLockOK
<1>3. \A q \in Requests : N!Fits(q)'
  BY <1>1, NativeOthersFit DEF N!Inv, NativeSameRequest
<1> QED
  BY <1>1, <1>2, <1>3 DEF N!Inv

\* A host dies: its requests are over, and hold nothing.
LEMMA NativeCrashInv == ASSUME N!Inv, NEW h \in Dying, N!Crash(h) PROVE N!Inv'
<1> DEFINE dead == {r \in Requests : HostOf[r] = h}
<1>1. /\ nPc' = [r \in Requests |-> IF r \in dead THEN "done" ELSE nPc[r]]
      /\ nResponse' = [r \in Requests |->
           IF r \in dead /\ nResponse[r] = "none" THEN "raised" ELSE nResponse[r]]
      /\ nHolders' = nHolders \ dead /\ nLapsed' = nLapsed \ dead /\ nReported' = nReported \ dead
      /\ UNCHANGED <<nKind, nLocks, nFrames, nBuffered, nExit, nEvents>>
  BY DEF N!Crash, N!bodyVars
<1> HIDE DEF dead
<1>2. N!TypeOK' /\ N!HoldersApart'
  BY <1>1 DEF N!Inv, N!TypeOK, N!HoldersApart
<1>3. ASSUME NEW q \in Requests, q \notin dead PROVE N!Fits(q)'
  <2>1. NativeSameRequest(q) /\ (q \in nHolders' <=> q \in nHolders)
    BY <1>1, <1>3 DEF NativeSameRequest
  <2> QED
    BY <2>1, NativeOthersFit DEF N!Inv
<1>4. ASSUME NEW q \in Requests, q \in dead PROVE N!Fits(q)'
  <2>1. nPc'[q] = "done" /\ q \notin nHolders' /\ HostOf[q] \in Dying
    BY <1>1, <1>4 DEF dead
  <2>2. nResponse'[q] = (IF nResponse[q] = "none" THEN "raised" ELSE nResponse[q])
    BY <1>1, <1>4
  <2>3. (N!IsStream(q)' <=> N!IsStream(q)) /\ (N!IsAsync(q)' <=> N!IsAsync(q)) /\ N!IsStream(q) \in BOOLEAN
    BY <1>1 DEF N!IsStream, N!IsAsync
  <2>4. \A f \in BOOLEAN : N!Buffered(q, f, N!IsStream(q))' <=> N!Buffered(q, f, N!IsStream(q))
    BY <1>1, <2>3 DEF N!Buffered
  <2>5. N!Fits(q) /\ nEvents'[q] = nEvents[q] /\ nFrames'[q] = nFrames[q] /\ nExit'[q] = nExit[q]
    BY <1>1 DEF N!Inv
  <2>6. nResponse[q] = "none" => nEvents[q] \in {<<>>, <<"started">>, <<"started", "failed">>}
    <3>1. nResponse[q] = "none" => nPc[q] \in {"arriving", "locking", "running", "closing",
                                              "leaving", "answering"}
      BY <2>5 DEF N!Inv, N!TypeOK, N!Fits, N!AnswerFits
    <3>2. nExit[q] \in N!Exits
      BY DEF N!Inv, N!TypeOK
    <3> QED
      BY <2>5, <3>1, <3>2 DEF N!Fits, N!EarlyFits, N!RunFits, N!ExitFits, N!Exits
  <2>7. N!AnswerFits(q)'
    <3>1. N!AnswerFits(q)
      BY <2>5 DEF N!Fits
    <3>2. N!EndsUntold(q)'
      BY <2>1 DEF N!EndsUntold
    <3>3. CASE nResponse[q] = "none"
      BY <2>1, <2>2, <2>5, <2>6, <3>2, <3>3 DEF N!AnswerFits
    <3>4. CASE nResponse[q] # "none"
      BY <2>1, <2>2, <2>3, <2>4, <2>5, <3>1, <3>2, <3>4 DEF N!AnswerFits
    <3> QED
      BY <3>3, <3>4
  <2> QED
    BY <2>1, <2>7 DEF N!Fits, N!HoldsInScope, N!InScope, N!EarlyFits, N!RunFits, N!ExitFits
<1> QED
  BY <1>2, <1>3, <1>4 DEF N!Inv

\* Every step keeps the invariant.
LEMMA NativeNextInv ==
  ASSUME N!SizesPositive, N!LimitNat
  PROVE  N!Inv /\ [N!Next]_(N!vars) => N!Inv'
<1> SUFFICES ASSUME N!Inv, [N!Next]_(N!vars) PROVE N!Inv'
  OBVIOUS
<1>1. ASSUME NEW r \in Requests, N!Handle(r) PROVE N!Inv'
  <2>1. CASE N!GraphEnds(r) \/ N!GraphCancelled(r)
    BY <2>1, NativeEndsInv DEF N!GraphEnds, N!GraphCancelled
  <2> QED
    BY <1>1, <2>1, NativeValidateInv, NativeTakeLockInv, NativeStreamEventInv,
       NativeFailsInv, NativeCloseInv, NativeLeaveLockInv,
       NativeRespondInv
    DEF N!Handle, N!HandleInvoke, N!HandleStream, N!HandleInvokeAsync, N!HandleStreamAsync
<1>2. CASE UNCHANGED N!vars
  <2>1. N!TypeOK' /\ N!HoldersApart'
    BY <1>2 DEF N!Inv, N!TypeOK, N!HoldersApart, N!vars, N!lockVars, N!bodyVars
  <2>2. \A q \in Requests : N!Fits(q)'
    BY <1>2, NativeOthersFit DEF N!Inv, NativeSameRequest, N!vars, N!lockVars, N!bodyVars
  <2> QED
    BY <2>1, <2>2 DEF N!Inv
<1> QED
  BY <1>1, <1>2, NativeLossInv, NativeCrashInv DEF N!Next

\* The inductive invariant of the native endpoints.
THEOREM NativeInvariance == ASSUME N!SizesPositive, N!LimitNat PROVE N!Spec => []N!Inv
BY NativeInitInv, NativeNextInv, PTL DEF N!Spec

\* Two locked runs overlap only across hosts and after a lapse.
LEMMA NativeApart == N!Inv => N!OneExecution
<1>1. ASSUME N!Inv, NEW r \in Requests, N!Executing(r) PROVE r \in nHolders
  BY <1>1 DEF N!Inv, N!Fits, N!HoldsInScope, N!InScope, N!Executing
<1> QED
  BY <1>1 DEF N!Inv, N!HoldersApart, N!OneExecution

\* A request that is over holds no lock.
LEMMA NativeGivenBack == N!Inv => N!NoLockKept
BY DEF N!Inv, N!Fits, N!HoldsInScope, N!InScope, N!NoLockKept

\* A started run that is over had one terminal event.
LEMMA NativeOneTerminal == N!Inv => N!ExactlyOneTerminal
<1> SUFFICES ASSUME N!Inv, NEW r \in Requests, nPc[r] = "done"
             PROVE  \/ nEvents[r] \in {<<>>, <<"rejected">>, <<"started", "completed">>,
                                       <<"started", "failed">>}
                    \/ nEvents[r] = <<"started">> /\ N!EndsUntold(r)
  BY DEF N!ExactlyOneTerminal
<1>1. N!AnswerFits(r) /\ nResponse[r] \in {"rejected", "200", "500", "raised"}
  BY DEF N!Inv, N!TypeOK, N!Fits, N!AnswerFits
<1> QED
  BY <1>1 DEF N!AnswerFits

\* NativeRuns counts as FiniteSets does.
LEMMA NativeCounts == \A S : N!Cardinality(S) = Cardinality(S)
BY DEF N!Cardinality, Cardinality

\* Buffered says how many frames of each kind there are.
LEMMA NativeFrameCounts ==
  ASSUME N!TypeOK, NEW r \in Requests, NEW failed \in BOOLEAN, NEW ended \in BOOLEAN,
         N!Buffered(r, failed, ended)
  PROVE  /\ N!Frames(r, "error") = IF failed THEN 1 ELSE 0
         /\ N!Frames(r, "end") = IF ended THEN 1 ELSE 0
         /\ ended => N!Last(nFrames[r]) = "end"
<1> DEFINE s == nFrames[r]
<1>1. s \in Seq({"data", "error", "end"}) /\ Len(s) \in Nat /\ DOMAIN s = 1..Len(s)
  BY DEF N!TypeOK
<1>2. PICK n \in 0..Len(s) :
        /\ Len(s) = n + (IF failed THEN 1 ELSE 0) + (IF ended THEN 1 ELSE 0)
        /\ \A i \in 1..n : s[i] = "data"
        /\ failed => s[n + 1] = "error"
        /\ ended => s[Len(s)] = "end"
  BY DEF N!Buffered
<1>3. N!Frames(r, "error") = Cardinality({i \in DOMAIN s : s[i] = "error"})
      /\ N!Frames(r, "end") = Cardinality({i \in DOMAIN s : s[i] = "end"})
  BY NativeCounts DEF N!Frames
<1>4. ended => N!Last(s) = "end"
  BY <1>2 DEF N!Last
<1> HIDE DEF s
<1>5. {i \in DOMAIN s : s[i] = "error"} = IF failed THEN {n + 1} ELSE {}
  BY <1>1, <1>2
<1>6. {i \in DOMAIN s : s[i] = "end"} = IF ended THEN {Len(s)} ELSE {}
  BY <1>1, <1>2
<1>7. Cardinality({}) = 0 /\ Cardinality({n + 1}) = 1 /\ Cardinality({Len(s)}) = 1
  BY FS_EmptySet, FS_Singleton
<1>8. /\ N!Frames(r, "error") = IF failed THEN 1 ELSE 0
      /\ N!Frames(r, "end") = IF ended THEN 1 ELSE 0
  BY <1>3, <1>5, <1>6, <1>7
<1> QED
  BY <1>4, <1>8 DEF s

\* A buffered answer agrees with what the observer was told.
LEMMA NativeAgree == N!Inv => N!AnswersAgree
<1> SUFFICES ASSUME N!Inv, NEW r \in Requests, nResponse[r] = "200"
             PROVE  /\ nEvents[r] \in {<<"started", "completed">>, <<"started", "failed">>}
                    /\ N!Frames(r, "error") = IF N!Last(nEvents[r]) = "failed" THEN 1 ELSE 0
                    /\ N!IsStream(r) => N!Frames(r, "end") = 1 /\ N!Last(nFrames[r]) = "end"
  BY DEF N!AnswersAgree, N!Inv, N!Fits, N!AnswerFits, N!EndsUntold
<1>1. PICK failed \in BOOLEAN :
        /\ nEvents[r] = <<"started", IF failed THEN "failed" ELSE "completed">>
        /\ N!Buffered(r, failed, N!IsStream(r))
  BY DEF N!Inv, N!Fits, N!AnswerFits, N!EndsUntold
<1>2. N!IsStream(r) \in BOOLEAN
  BY DEF N!IsStream
<1>3. N!Last(nEvents[r]) = IF failed THEN "failed" ELSE "completed"
  BY <1>1 DEF N!Last
<1>4. nEvents[r] \in {<<"started", "completed">>, <<"started", "failed">>}
  BY <1>1
<1> QED
  BY <1>1, <1>2, <1>3, <1>4, NativeFrameCounts DEF N!Inv

\* What r is told in a step in which it does not complete.
NativeQuiet(r) ==
  \/ nEvents'[r] = nEvents[r]
  \/ \E e \in Words \ {"completed"} : nEvents'[r] = Append(nEvents[r], e)

LEMMA NativeQuietIsNotTold ==
  ASSUME N!TypeOK, NEW r \in Requests, NativeQuiet(r)
  PROVE  ~N!Tell(r, "completed")
BY NotCompleted DEF N!TypeOK, N!Tell, NativeQuiet, Words

\* A step that r has no part in leaves it as doomed as it was.
NativeBystander(r) ==
  /\ nPc'[r] = nPc[r] /\ nExit'[r] = nExit[r] /\ nEvents'[r] = nEvents[r]
  /\ r \in nReported => r \in nReported'

LEMMA NativeOthersDoomed ==
  ASSUME N!Inv, NEW q \in Requests, NEW r \in Requests, q # r, N!Handle(q)
  PROVE  NativeBystander(r)
<1> USE DEF NativeBystander, N!Inv, N!TypeOK, N!bodyVars, N!lockVars, N!Goto, N!Tell, N!Answer,
            N!Lock!Acquire, N!Lock!Refuse, N!Lock!Release, N!Lock!runLockVars
<1>1. CASE N!Validate(q) \/ N!TakeLock(q)
  BY <1>1 DEF N!Validate, N!Reject, N!Raise, N!TakeLock, N!Start
<1>2. CASE N!StreamEvent(q) \/ N!GraphEnds(q) \/ N!GraphFails(q) \/ N!GraphCancelled(q)
  BY <1>2 DEF N!StreamEvent, N!AppendChunk, N!GraphEnds, N!GraphFails, N!GraphCancelled
<1>3. CASE N!Close(q) \/ N!LeaveLock(q) \/ N!Respond(q)
  BY <1>3 DEF N!Close, N!LeaveLock, N!Respond
<1> QED
  BY <1>1, <1>2, <1>3
  DEF N!Handle, N!HandleInvoke, N!HandleStream, N!HandleInvokeAsync, N!HandleStreamAsync

\* A loss that is known is found by GraphEnds, if nothing else ends the run before,
\* and a run that ended otherwise does not complete.
LEMMA NativeLossStep ==
  ASSUME N!Inv, [N!Next]_(N!vars), NEW r \in Requests, N!Doomed(r)
  PROVE  N!Doomed(r)' /\ ~N!Tell(r, "completed")
<1> USE DEF N!Inv
<1>1. CASE NativeBystander(r)
  BY <1>1, NativeQuietIsNotTold DEF N!Doomed, NativeBystander, NativeQuiet
<1>2. CASE UNCHANGED N!vars
  BY <1>1, <1>2 DEF NativeBystander, N!vars, N!lockVars, N!bodyVars
<1>3. ASSUME NEW q \in Requests, N!LockFails(q)
      PROVE  NativeBystander(r)
  BY <1>3 DEF NativeBystander, N!LockFails, N!Lock!Lapse, N!Lock!Report, N!bodyVars
<1>4. r \in nReported /\ nPc[r] = "running" => nLocks[r] /\ ~N!GuardAgrees(r)
  BY DEF N!TypeOK, N!Fits, N!HoldsInScope, N!InScope, N!GuardAgrees, N!Lock!Passes
<1>5. ASSUME NativeQuiet(r), \/ nExit'[r] \in {"failed", "aborted"}
                             \/ nPc'[r] = "done" /\ nExit'[r] = "none"
                             \/ r \in nReported' /\ nPc'[r] = "running"
      PROVE  N!Doomed(r)' /\ ~N!Tell(r, "completed")
  BY <1>5, NativeQuietIsNotTold DEF N!Doomed
<1>6. CASE N!Handle(r)
  <2> USE DEF N!TypeOK, N!Goto, N!bodyVars, N!lockVars
  <2>0. /\ nPc[r] \notin {"arriving", "locking"}
        /\ nPc[r] \in {"closing", "leaving", "answering"} => nExit[r] \in {"failed", "aborted"}
        /\ nPc[r] = "running" => r \in nReported
    BY DEF N!Doomed, N!Fits, N!EarlyFits, N!RunFits, N!ExitFits
  <2>1. CASE N!Validate(r) \/ N!TakeLock(r)
    BY <2>0, <2>1 DEF N!Validate, N!TakeLock
  <2>2. CASE N!StreamEvent(r) \/ N!GraphEnds(r) \/ N!GraphCancelled(r)
    <3>1. nEvents' = nEvents /\ nPc[r] = "running" /\ nReported' = nReported
      BY <2>2 DEF N!StreamEvent, N!GraphEnds, N!GraphCancelled
    <3>2. nExit'[r] \in {"failed", "aborted"} \/ nPc'[r] = "running"
      BY <1>4, <2>0, <2>2, <3>1 DEF N!StreamEvent, N!GraphEnds, N!GraphCancelled
    <3> QED
      BY <1>5, <2>0, <3>1, <3>2 DEF NativeQuiet
  <2>3. CASE N!GraphFails(r)
    <3>1. nExit'[r] = "failed"
      BY <2>3 DEF N!GraphFails
    <3>2. NativeQuiet(r)
      BY <2>3 DEF N!GraphFails, N!Tell, NativeQuiet, Words
    <3> QED
      BY <1>5, <3>1, <3>2
  <2>4. CASE N!Close(r) \/ N!LeaveLock(r)
    <3>1. nEvents' = nEvents /\ nPc[r] \in {"closing", "leaving"}
      BY <2>4 DEF N!Close, N!LeaveLock
    <3>2. nExit'[r] \in {"failed", "aborted"}
      BY <2>0, <2>4, <3>1 DEF N!Close, N!LeaveLock
    <3> QED
      BY <1>5, <3>1, <3>2 DEF NativeQuiet
  <2>5. CASE N!Respond(r)
    <3>1. nExit' = nExit /\ nExit[r] \in {"failed", "aborted"}
      BY <2>0, <2>5 DEF N!Respond
    <3>2. nEvents' = nEvents \/ N!Tell(r, "failed")
      BY <2>5, <3>1 DEF N!Respond
    <3>3. NativeQuiet(r)
      BY <3>2 DEF N!Tell, NativeQuiet, Words
    <3> QED
      BY <1>5, <3>1, <3>3
  <2> QED
    BY <1>6, <2>1, <2>2, <2>3, <2>4, <2>5
    DEF N!Handle, N!HandleInvoke, N!HandleStream, N!HandleInvokeAsync, N!HandleStreamAsync
<1>7. ASSUME NEW q \in Requests, N!Handle(q)
      PROVE  q = r \/ NativeBystander(r)
  BY <1>7, NativeOthersDoomed
<1>8. ASSUME NEW h \in Dying, N!Crash(h)
      PROVE  NativeBystander(r) \/ (N!Doomed(r)' /\ ~N!Tell(r, "completed"))
  <2>1. nEvents' = nEvents /\ nExit' = nExit
    BY <1>8 DEF N!Crash, N!bodyVars
  <2>2. CASE HostOf[r] = h
    <3>1. nPc'[r] = "done"
      BY <1>8, <2>2 DEF N!Crash
    <3>2. nExit[r] = "none" \/ nExit[r] \in {"failed", "aborted"}
      BY DEF N!Doomed, N!Fits, N!RunFits
    <3> QED
      BY <1>5, <2>1, <3>1, <3>2 DEF NativeQuiet
  <2>3. CASE HostOf[r] # h
    BY <1>8, <2>1, <2>3 DEF N!Crash, NativeBystander, N!TypeOK
  <2> QED
    BY <2>2, <2>3
<1> QED
  BY <1>1, <1>2, <1>3, <1>6, <1>7, <1>8 DEF N!Next

\* LostIsNotCompleted: a native run whose loss is known never completes.
THEOREM NativeLossTold ==
  ASSUME N!SizesPositive, N!LimitNat
  PROVE  N!Spec => N!LostIsNotCompleted
<1>1. N!Inv /\ [N!Next]_(N!vars) =>
        [\A r \in Requests : N!Doomed(r) => N!Doomed(r)' /\ ~N!Tell(r, "completed")]_(N!vars)
  BY NativeLossStep
<1> QED
  BY <1>1, NativeInvariance, PTL DEF N!Spec, N!LostIsNotCompleted

\* Every step takes, frees, loses or leaves alone the lock as RunLock allows; a
\* host that dies takes its tokens with it.
LEMMA NativeNextUsesLock ==
  ASSUME N!Inv, [N!Next]_(N!vars)
  PROVE  [N!Lock!Next \/ N!Lock!AtOnce]_(N!Lock!runLockVars)
<1> USE DEF N!Lock!Next, N!Lock!AtOnce, N!Lock!runLockVars, N!lockVars
<1>1. ASSUME NEW r \in Requests, N!Handle(r)
      PROVE  UNCHANGED N!lockVars \/ N!Lock!Acquire(r) \/ N!Lock!Release(r)
  BY <1>1
  DEF N!Handle, N!HandleInvoke, N!HandleStream, N!HandleInvokeAsync, N!HandleStreamAsync,
     N!Validate, N!Reject, N!Raise, N!TakeLock, N!Start, N!StreamEvent, N!GraphEnds,
     N!GraphFails, N!GraphCancelled, N!Close, N!LeaveLock, N!Respond, N!Lock!Refuse
<1>2. ASSUME NEW r \in Requests, N!LockFails(r) PROVE N!Lock!Lapse(r) \/ N!Lock!Report(r)
  BY <1>2 DEF N!LockFails
<1>3. ASSUME NEW h \in Dying, N!Crash(h) PROVE UNCHANGED N!lockVars \/ N!Lock!Vanish
  BY <1>3 DEF N!Crash, N!Inv, N!TypeOK, N!Lock!Vanish
<1> QED
  BY <1>1, <1>2, <1>3 DEF N!Next, N!vars

\* The native endpoints are users of a RunLock.
THEOREM NativeLockUsed == ASSUME N!SizesPositive, N!LimitNat PROVE N!Spec => N!Lock!Spec
<1>1. N!Init => N!Lock!Init
  BY DEF N!Init
<1> QED
  BY <1>1, NativeNextUsesLock, NativeInvariance, PTL DEF N!Spec, N!Lock!Spec

--------------------------------------------------------------------------------
(***************************************************************************)
(* The Service Bus trigger (triggers/service_bus.py): every delivery of a  *)
(* message is one execution; the broker's side, the queue and the counts   *)
(* of deliveries, has a part of its own in the invariant.                  *)
(***************************************************************************)
\* The variables of RunLock keep their types.
BusLockOK == bHolders \subseteq B!Deliveries /\ bLapsed \subseteq bHolders /\ bReported \subseteq bHolders

\* The observer's words of a delivery.
BusWords == {"started", "completed", "failed"}

\* The observer's first word of a delivery.
LEMMA BusToldOnce ==
  Append(<<>>, "started") = <<"started">> /\ <<"started">> \in Seq(BusWords)
BY DEF BusWords

\* The observer's second word of a delivery.
LEMMA BusToldTwice ==
  ASSUME NEW e \in {"completed", "failed"}
  PROVE  Append(<<"started">>, e) = <<"started", e>> /\ <<"started", e>> \in Seq(BusWords)
<1>1. Append(<<"started">>, e) = <<"started", e>>
  BY ToldTwice DEF Words
<1>2. <<"started", e>> \in Seq(BusWords)
  BY DEF BusWords
<1> QED
  BY <1>1, <1>2

\* Everything of d but the lock is as it was.
BusSameDelivery(d) == bPc'[d] = bPc[d] /\ bOutcome'[d] = bOutcome[d] /\ bEvents'[d] = bEvents[d]

\* A delivery that a step leaves alone, with its lock, fits as before.
LEMMA BusOthersFit ==
  ASSUME NEW d \in B!Deliveries, B!Fits(d), BusSameDelivery(d), bReg' = bReg, d \in bHolders' <=> d \in bHolders
  PROVE  B!Fits(d)'
BY
DEF B!Fits, B!HoldsInScope, B!InScope, B!UseLock, B!OutcomeFits, B!Completed, B!Failed,
   BusSameDelivery

\* The lock, as RunLock has it: an acquire beside holders of other processes,
\* and beside those only to or against a lapsed lock.
LEMMA BusAcquireApart ==
  ASSUME NEW d \in B!Deliveries, BusLockOK, B!HoldersApart, B!Lock!Acquire(d)
  PROVE  /\ BusLockOK' /\ B!HoldersApart' /\ d \in bHolders'
         /\ \A c \in B!Deliveries \ {d} : c \in bHolders' <=> c \in bHolders
BY DEF BusLockOK, B!HoldersApart, B!Lock!Acquire

\* The release of a holder, and the no-op of a delivery without a lock.
LEMMA BusFreeApart ==
  ASSUME NEW d \in B!Deliveries, BusLockOK, B!HoldersApart, B!Free(d)
  PROVE  /\ BusLockOK' /\ B!HoldersApart' /\ d \notin bHolders'
         /\ \A c \in B!Deliveries \ {d} : c \in bHolders' <=> c \in bHolders
BY DEF BusLockOK, B!HoldersApart, B!Free, B!Lock!Release, B!lockVars

\* A lapse or a report takes no token away.
LEMMA BusLossApart ==
  ASSUME NEW d \in B!Deliveries, BusLockOK, B!HoldersApart, B!Lock!Lapse(d) \/ B!Lock!Report(d)
  PROVE  BusLockOK' /\ B!HoldersApart' /\ bHolders' = bHolders
BY DEF BusLockOK, B!HoldersApart, B!Lock!Lapse, B!Lock!Report

\* Most steps of a delivery leave the lock alone.
LEMMA BusUnheldApart ==
  ASSUME BusLockOK, B!HoldersApart, UNCHANGED B!lockVars
  PROVE  BusLockOK' /\ B!HoldersApart' /\ bHolders' = bHolders
BY DEF BusLockOK, B!HoldersApart, B!lockVars

\* Init: every message waits, none was delivered.
LEMMA BusInitInv == ASSUME B!MessagesAndDeliveries PROVE B!Init => B!Inv
<1> SUFFICES ASSUME B!Init PROVE B!Inv
  OBVIOUS
<1> USE DEF B!Init, B!Lock!Init
<1>1. B!TypeOK
  BY DEF B!TypeOK, B!MessagesAndDeliveries, B!Registrations
<1>2. B!HoldersApart /\ B!OneOfSession /\ B!Settled
  BY DEF B!HoldersApart, B!OneOfSession, B!Settled, B!Registrations
<1>3. B!Counted
  BY DEF B!Counted, B!MessagesAndDeliveries, B!Deliveries
<1>4. ASSUME NEW d \in B!Deliveries PROVE B!Fits(d)
  BY <1>4 DEF B!Fits, B!HoldsInScope, B!InScope, B!OutcomeFits
<1> QED
  BY <1>1, <1>2, <1>3, <1>4 DEF B!Inv

\* A step of the handler of d, which is neither "none" nor "done", and of no
\* message: what the broker knows stays, and so do the other deliveries.
LEMMA BusHandlerInv ==
  ASSUME B!Inv, NEW d \in B!Deliveries, bPc[d] \notin {"none", "done"},
         NEW p \in {"locking", "running", "leaving", "handling", "settling"}, B!Goto(d, p),
         UNCHANGED <<B!inputVars, B!brokerVars>>,
         bOutcome' \in [B!Deliveries -> {"none", "ok", "failed", "contended"}],
         bEvents' \in [B!Deliveries -> Seq(BusWords)],
         \A c \in B!Deliveries \ {d} : bOutcome'[c] = bOutcome[c] /\ bEvents'[c] = bEvents[c],
         B!OutcomeFits(d)', B!HoldsInScope(d)', BusLockOK', B!HoldersApart',
         \A c \in B!Deliveries \ {d} : c \in bHolders' <=> c \in bHolders
  PROVE  B!Inv'
<1> USE DEF B!Goto, B!inputVars, B!brokerVars
<1>1. B!TypeOK'
  BY DEF B!Inv, B!TypeOK, BusLockOK, BusWords
<1>2. \A c \in B!Deliveries \ {d} : BusSameDelivery(c)
  BY DEF B!Inv, B!TypeOK, BusSameDelivery
<1>3. \A c \in B!Deliveries : B!Fits(c)'
  BY <1>2, BusOthersFit DEF B!Inv, B!Fits
<1>4. B!Counted'
  BY DEF B!Inv, B!TypeOK, B!Counted
<1>5. B!OneOfSession'
  BY DEF B!Inv, B!OneOfSession
<1>6. B!Settled'
  <2>1. ASSUME NEW m \in Messages, NEW n \in 1..MaxDeliveries, bPc[<<m, n>>] = "done",
               bOutcome[<<m, n>>] = "ok"
        PROVE  bPc'[<<m, n>>] = "done" /\ bOutcome'[<<m, n>>] = "ok"
    BY <1>2, <2>1 DEF BusSameDelivery, B!Deliveries
  <2> QED
    BY <2>1 DEF B!Inv, B!Settled
<1> QED
  BY <1>1, <1>3, <1>4, <1>5, <1>6 DEF B!Inv

\* MapMessage: a mapper that raises sends the delivery back before any event.
LEMMA BusMapMessageInv ==
  ASSUME B!Inv, NEW d \in B!Deliveries, B!MapMessage(d)
  PROVE  B!Inv'
<1> USE DEF B!MapMessage, B!Goto, B!End, B!lockVars
<1>1. bEvents[d] = <<>> /\ bOutcome[d] = "none" /\ d \notin bHolders
  BY DEF B!Inv, B!Fits, B!OutcomeFits, B!HoldsInScope, B!InScope
<1>2. BusLockOK' /\ B!HoldersApart' /\ bHolders' = bHolders
  BY BusUnheldApart DEF B!Inv, B!TypeOK, BusLockOK
<1>3. CASE d[1] \in bBad
  <2>1. B!OutcomeFits(d)' /\ B!HoldsInScope(d)'
    BY <1>1, <1>2, <1>3 DEF B!Inv, B!TypeOK, B!OutcomeFits, B!HoldsInScope, B!InScope
  <2> QED
    BY <1>2, <1>3, <2>1, BusHandlerInv DEF B!Inv, B!TypeOK, BusWords
<1>4. CASE d[1] \notin bBad
  <2>1. B!OutcomeFits(d)' /\ B!HoldsInScope(d)'
    BY <1>1, <1>2, <1>4 DEF B!Inv, B!TypeOK, B!OutcomeFits, B!HoldsInScope, B!InScope
  <2> QED
    BY <1>2, <1>4, <2>1, BusHandlerInv DEF B!Inv, B!TypeOK, BusWords
<1> QED
  BY <1>3, <1>4

\* TakeLock: the run starts under the lock, or the delivery is contended.
LEMMA BusTakeLockInv == ASSUME B!Inv, NEW d \in B!Deliveries, B!TakeLock(d) PROVE B!Inv'
<1> USE DEF B!TakeLock, B!Goto, B!End, B!inputVars, B!brokerVars
<1>1. bEvents[d] = <<>> /\ bOutcome[d] = "none" /\ d \notin bHolders
  BY DEF B!Inv, B!Fits, B!OutcomeFits, B!HoldsInScope, B!InScope
<1>2. CASE B!Start(d)
  <2>1. bEvents' \in [B!Deliveries -> Seq(BusWords)] /\ bEvents'[d] = <<"started">>
    BY <1>1, <1>2, BusToldOnce DEF B!Inv, B!TypeOK, B!Start, B!Tell, BusWords
  <2>2. (B!UseLock /\ B!Lock!Acquire(d)) \/ (~B!UseLock /\ UNCHANGED B!lockVars)
    <3>1. ~B!Raise(d, "contended") /\ ~B!Raise(d, "failed")
      BY <1>2 DEF B!Start, B!Raise, B!Inv, B!TypeOK
    <3> QED
      BY <3>1
  <2>3. /\ BusLockOK' /\ B!HoldersApart' /\ (d \in bHolders' <=> B!UseLock)
        /\ \A c \in B!Deliveries \ {d} : c \in bHolders' <=> c \in bHolders
    BY <1>1, <2>2, BusAcquireApart, BusUnheldApart DEF B!Inv, B!TypeOK, BusLockOK
  <2>4. B!OutcomeFits(d)' /\ B!HoldsInScope(d)'
    BY <1>1, <1>2, <2>1, <2>3
    DEF B!Inv, B!TypeOK, B!Start, B!OutcomeFits, B!HoldsInScope, B!InScope, B!UseLock
  <2> QED
    BY <1>2, <2>1, <2>3, <2>4, BusHandlerInv DEF B!Inv, B!TypeOK, B!Start, B!Tell
<1>3. ASSUME NEW o \in {"contended", "failed"}, B!Raise(d, o), UNCHANGED B!lockVars PROVE B!Inv'
  <2>1. BusLockOK' /\ B!HoldersApart' /\ bHolders' = bHolders
    BY <1>3, BusUnheldApart DEF B!Inv, B!TypeOK, BusLockOK
  <2>2. B!OutcomeFits(d)' /\ B!HoldsInScope(d)'
    BY <1>1, <1>3, <2>1 DEF B!Inv, B!TypeOK, B!Raise, B!OutcomeFits, B!HoldsInScope, B!InScope
  <2> QED
    BY <1>3, <2>1, <2>2, BusHandlerInv DEF B!Inv, B!TypeOK, B!Raise, BusWords
<1>4. B!Lock!Refuse(d) => UNCHANGED B!lockVars
  BY DEF B!Lock!Refuse, B!Lock!runLockVars, B!lockVars
<1> QED
  BY <1>2, <1>3, <1>4

\* The graph ends or fails, and the observer is told which.
LEMMA BusGraphInv ==
  ASSUME B!Inv, NEW d \in B!Deliveries, B!GraphEnds(d) \/ B!GraphFails(d)
  PROVE  B!Inv'
<1> USE DEF B!Goto, B!End
<1>1. bEvents[d] = <<"started">> /\ bOutcome[d] = "none" /\ (d \in bHolders <=> B!UseLock)
  BY DEF B!Inv, B!Fits, B!OutcomeFits, B!HoldsInScope, B!InScope, B!GraphEnds, B!GraphFails
<1>2. PICK o \in {"ok", "failed"} :
        /\ bPc[d] = "running" /\ bOutcome' = [bOutcome EXCEPT ![d] = o]
        /\ B!Tell(d, IF o = "ok" THEN "completed" ELSE "failed") /\ B!Goto(d, "leaving")
        /\ UNCHANGED <<B!lockVars, B!inputVars, B!brokerVars>>
  BY DEF B!GraphEnds, B!GraphFails
<1>3. bEvents' \in [B!Deliveries -> Seq(BusWords)]
      /\ bEvents'[d] = <<"started", IF o = "ok" THEN "completed" ELSE "failed">>
  BY <1>1, <1>2, BusToldTwice DEF B!Inv, B!TypeOK, B!Tell, BusWords
<1>4. BusLockOK' /\ B!HoldersApart' /\ bHolders' = bHolders
  BY <1>2, BusUnheldApart DEF B!Inv, B!TypeOK, BusLockOK
<1>5. bOutcome'[d] = o /\ bPc'[d] = "leaving" /\ (B!UseLock' <=> B!UseLock)
  BY <1>2 DEF B!Inv, B!TypeOK, B!UseLock, B!inputVars
<1>6. B!OutcomeFits(d)' /\ B!HoldsInScope(d)'
  BY <1>1, <1>3, <1>4, <1>5 DEF B!OutcomeFits, B!Completed, B!Failed, B!HoldsInScope, B!InScope
<1> QED
  BY <1>2, <1>3, <1>4, <1>6, BusHandlerInv DEF B!Inv, B!TypeOK, B!Tell

\* LeaveLock: every way out of the run passes the release.
LEMMA BusLeaveLockInv ==
  ASSUME B!Inv, NEW d \in B!Deliveries, B!LeaveLock(d)
  PROVE  B!Inv'
<1> USE DEF B!Goto, B!End, B!LeaveLock
<1>1. /\ BusLockOK' /\ B!HoldersApart' /\ d \notin bHolders'
      /\ \A c \in B!Deliveries \ {d} : c \in bHolders' <=> c \in bHolders
  BY BusFreeApart DEF B!Inv, B!TypeOK, BusLockOK
<1>2. (bOutcome[d] = "ok" /\ B!Completed(d)) \/ (bOutcome[d] = "failed" /\ B!Failed(d))
  BY DEF B!Inv, B!Fits, B!OutcomeFits
<1>3. PICK p \in {"handling", "settling"} :
        /\ B!Goto(d, p)
        /\ \/ bOutcome' = bOutcome /\ (p = "handling" <=> bOutcome[d] = "ok")
           \/ bOutcome' = [bOutcome EXCEPT ![d] = "failed"] /\ p = "settling"
  OBVIOUS
<1>4. B!OutcomeFits(d)' /\ B!HoldsInScope(d)'
  BY <1>1, <1>2, <1>3
  DEF B!Inv, B!TypeOK, B!OutcomeFits, B!Completed, B!Failed, B!HoldsInScope, B!InScope
<1> QED
  BY <1>1, <1>3, <1>4, BusHandlerInv DEF B!Inv, B!TypeOK, BusWords

\* HandleResult: the result is handled, or its handler raises.
LEMMA BusHandleResultInv ==
  ASSUME B!Inv, NEW d \in B!Deliveries, B!HandleResult(d)
  PROVE  B!Inv'
<1> USE DEF B!Goto, B!End, B!HandleResult
<1>1. BusLockOK' /\ B!HoldersApart' /\ bHolders' = bHolders
  BY BusUnheldApart DEF B!Inv, B!TypeOK, BusLockOK
<1>2. B!OutcomeFits(d)' /\ B!HoldsInScope(d)'
  BY <1>1
  DEF B!Inv, B!TypeOK, B!Fits, B!OutcomeFits, B!Completed, B!Failed, B!HoldsInScope, B!InScope
<1> QED
  BY <1>1, <1>2, BusHandlerInv DEF B!Inv, B!TypeOK, BusWords

--------------------------------------------------------------------------------
\* The broker hands out a message that nobody has: its next delivery begins.
LEMMA BusDeliverInv ==
  ASSUME B!MessagesAndDeliveries, B!Inv, NEW m \in Messages, B!Deliver(m)
  PROVE  B!Inv'
<1> USE DEF B!Deliver, B!Goto, B!inputVars
<1>1. bCount[m] \in 0..MaxDeliveries /\ bCount[m] < MaxDeliveries /\ MaxDeliveries \in Nat
  BY DEF B!Inv, B!TypeOK, B!Counted, B!MessagesAndDeliveries
<1>2. PICK d \in B!Deliveries : d = <<m, bCount[m] + 1>> /\ bPc[d] = "none"
  BY <1>1 DEF B!Inv, B!Counted, B!Deliveries
<1>3. BusLockOK' /\ B!HoldersApart' /\ bHolders' = bHolders
  BY BusUnheldApart DEF B!Inv, B!TypeOK, BusLockOK
<1>4. B!TypeOK'
  BY <1>1, <1>2, <1>3 DEF B!Inv, B!TypeOK, BusLockOK
<1>5. \A c \in B!Deliveries \ {d} : BusSameDelivery(c)
  BY <1>2 DEF B!Inv, B!TypeOK, BusSameDelivery
<1>6. B!Fits(d)'
  <2>1. bPc'[d] = "mapping" /\ bEvents'[d] = bEvents[d] /\ bOutcome'[d] = bOutcome[d]
    BY <1>2 DEF B!Inv, B!TypeOK
  <2>2. B!Fits(d) /\ bPc[d] = "none"
    BY <1>2 DEF B!Inv
  <2> QED
    BY <1>3, <2>1, <2>2 DEF B!Fits, B!OutcomeFits, B!HoldsInScope, B!InScope, B!UseLock
<1>7. \A c \in B!Deliveries : B!Fits(c)'
  <2>1. ASSUME NEW c \in B!Deliveries, c # d PROVE B!Fits(c)'
    <3>1. BusSameDelivery(c) /\ B!Fits(c) /\ bReg' = bReg /\ (c \in bHolders' <=> c \in bHolders)
      BY <1>3, <1>5, <2>1 DEF B!Inv
    <3> QED
      BY <3>1, BusOthersFit
  <2> QED
    BY <1>6, <2>1
<1>8. B!Counted'
  <2>1. ASSUME NEW c \in B!Deliveries PROVE bPc'[c] = "none" <=> c[2] > bCount'[c[1]]
    <3>1. PICK k \in Messages, n \in 1..MaxDeliveries : c = <<k, n>>
      BY DEF B!Deliveries
    <3>2. bCount[k] \in Nat /\ bCount'[k] = IF k = m THEN bCount[k] + 1 ELSE bCount[k]
      BY DEF B!Inv, B!TypeOK
    <3>3. bPc[c] = "none" <=> n > bCount[k]
      BY <3>1 DEF B!Inv, B!Counted
    <3>4. bPc'[c] = IF c = d THEN "mapping" ELSE bPc[c]
      BY <1>2 DEF B!Inv, B!TypeOK
    <3>5. c = d <=> k = m /\ n = bCount[m] + 1
      BY <1>2, <3>1
    <3>6. c[1] = k /\ c[2] = n
      BY <3>1
    <3> QED
      BY <3>2, <3>3, <3>4, <3>5, <3>6
  <2>2. ASSUME NEW k \in Messages, bQueue'[k] = "waiting" PROVE bCount'[k] < MaxDeliveries
    BY <2>2 DEF B!Inv, B!TypeOK, B!Counted
  <2> QED
    BY <2>1, <2>2 DEF B!Counted
<1>9. B!OneOfSession'
  BY DEF B!Inv, B!TypeOK, B!OneOfSession
<1>10. B!Settled'
  <2>1. ASSUME NEW k \in Messages, NEW n \in 1..MaxDeliveries, bPc[<<k, n>>] = "done",
               bOutcome[<<k, n>>] = "ok"
        PROVE  bPc'[<<k, n>>] = "done" /\ bOutcome'[<<k, n>>] = "ok"
    BY <1>2, <1>5, <2>1 DEF BusSameDelivery, B!Deliveries
  <2>2. \A k \in Messages : bQueue'[k] = "settled" => bQueue[k] = "settled"
    BY DEF B!Inv, B!TypeOK
  <2> QED
    BY <2>1, <2>2 DEF B!Inv, B!Settled
<1> QED
  BY <1>3, <1>4, <1>7, <1>8, <1>9, <1>10 DEF B!Inv

\* The broker takes back or settles a message whose delivery is current; the
\* deliveries may end by it.
LEMMA BusQueueInv ==
  ASSUME B!MessagesAndDeliveries, B!Inv, NEW m \in Messages, bQueue[m] = "locked",
         \/ B!Returned(m)
         \/ /\ bQueue' = [bQueue EXCEPT ![m] = "settled"]
            /\ \E n \in 1..MaxDeliveries : bPc'[<<m, n>>] = "done" /\ bOutcome'[<<m, n>>] = "ok",
         \A k \in Messages, n \in 1..MaxDeliveries :
            bPc[<<k, n>>] = "done" => bPc'[<<k, n>>] = "done" /\ bOutcome'[<<k, n>>] = bOutcome[<<k, n>>],
         \A d \in B!Deliveries : bPc'[d] = "none" <=> bPc[d] = "none",
         UNCHANGED <<B!inputVars, bCount>>
  PROVE  bQueue' \in [Messages -> {"waiting", "locked", "settled", "dead"}]
         /\ B!Counted' /\ B!OneOfSession' /\ B!Settled'
<1> USE DEF B!inputVars, B!Returned
<1>1. bQueue' \in [Messages -> {"waiting", "locked", "settled", "dead"}]
  BY DEF B!Inv, B!TypeOK
<1>2. \A k \in Messages : k # m => bQueue'[k] = bQueue[k]
  BY DEF B!Inv, B!TypeOK
<1>3. bQueue'[m] \in {"waiting", "dead", "settled"} /\ (bQueue'[m] = "waiting" => bCount[m] # MaxDeliveries)
  BY DEF B!Inv, B!TypeOK
<1>4. B!Counted'
  <2>1. \A k \in Messages : bCount[k] \in 0..MaxDeliveries /\ MaxDeliveries \in Nat
    BY DEF B!Inv, B!TypeOK, B!MessagesAndDeliveries
  <2> QED
    BY <1>2, <1>3, <2>1 DEF B!Inv, B!Counted
<1>5. B!OneOfSession'
  BY <1>2, <1>3 DEF B!Inv, B!OneOfSession
<1>6. B!Settled'
  <2>1. ASSUME NEW k \in Messages, bQueue'[k] = "settled"
        PROVE  \E n \in 1..MaxDeliveries : bPc'[<<k, n>>] = "done" /\ bOutcome'[<<k, n>>] = "ok"
    <3>1. CASE k = m
      BY <2>1, <3>1 DEF B!Inv, B!TypeOK
    <3>2. CASE k # m
      BY <1>2, <2>1, <3>2 DEF B!Inv, B!Settled
    <3> QED
      BY <3>1, <3>2
  <2> QED
    BY <2>1 DEF B!Settled
<1> QED
  BY <1>1, <1>4, <1>5, <1>6

\* The broker gives up on a delivery that is still at work.
LEMMA BusMessageLockLostInv ==
  ASSUME B!MessagesAndDeliveries, B!Inv, NEW m \in Messages, B!MessageLockLost(m) PROVE B!Inv'
<1> USE DEF B!MessageLockLost
<1>1. BusLockOK' /\ B!HoldersApart' /\ bHolders' = bHolders
  BY BusUnheldApart DEF B!Inv, B!TypeOK, BusLockOK
<1>2. bQueue' \in [Messages -> {"waiting", "locked", "settled", "dead"}]
      /\ B!Counted' /\ B!OneOfSession' /\ B!Settled'
  BY BusQueueInv
<1>3. B!TypeOK'
  BY <1>1, <1>2 DEF B!Inv, B!TypeOK, BusLockOK, B!inputVars
<1>4. \A d \in B!Deliveries : B!Fits(d)'
  BY <1>1, BusOthersFit DEF B!Inv, BusSameDelivery, B!inputVars
<1> QED
  BY <1>1, <1>2, <1>3, <1>4 DEF B!Inv

\* Settle: a delivery that returns settles its message, if the message is still its own.
LEMMA BusSettleInv ==
  ASSUME B!MessagesAndDeliveries, B!Inv, NEW d \in B!Deliveries, B!Settle(d) PROVE B!Inv'
<1> USE DEF B!Settle, B!Goto, B!inputVars
<1>1. BusLockOK' /\ B!HoldersApart' /\ bHolders' = bHolders
  BY BusUnheldApart DEF B!Inv, B!TypeOK, BusLockOK
<1>2. PICK m \in Messages, n \in 1..MaxDeliveries : d = <<m, n>>
  BY DEF B!Deliveries
<1>3. \A c \in B!Deliveries : bPc'[c] = IF c = d THEN "done" ELSE bPc[c]
  BY DEF B!Inv, B!TypeOK
<1>4. \A k \in Messages, j \in 1..MaxDeliveries : <<k, j>> \in B!Deliveries
  BY DEF B!Deliveries
<1>5. bQueue' \in [Messages -> {"waiting", "locked", "settled", "dead"}]
      /\ B!Counted' /\ B!OneOfSession' /\ B!Settled'
  <2>1. CASE ~B!Current(d)
    <3>1. bQueue' = bQueue
      BY <2>1
    <3>2. B!Settled'
      BY <1>3, <1>4, <3>1 DEF B!Inv, B!Settled
    <3>3. B!Counted'
      BY <1>3, <3>1 DEF B!Inv, B!Counted
    <3> QED
      BY <3>1, <3>2, <3>3 DEF B!Inv, B!TypeOK, B!OneOfSession
  <2>2. CASE B!Current(d)
    <3>1. bQueue[m] = "locked"
      BY <1>2, <2>2 DEF B!Current
    <3>2. \/ B!Returned(m)
          \/ bQueue' = [bQueue EXCEPT ![m] = "settled"] /\ bOutcome'[<<m, n>>] = "ok"
      BY <1>2, <2>2
    <3>3. bPc'[<<m, n>>] = "done"
      BY <1>2, <1>3
    <3> QED
      BY <1>3, <1>4, <3>1, <3>2, <3>3, BusQueueInv
  <2> QED
    BY <2>1, <2>2
<1>6. B!TypeOK'
  BY <1>1, <1>5 DEF B!Inv, B!TypeOK, BusLockOK
<1>7. \A c \in B!Deliveries \ {d} : BusSameDelivery(c)
  BY <1>3 DEF BusSameDelivery
<1>8. B!Fits(d)'
  BY <1>1, <1>3
  DEF B!Inv, B!Fits, B!OutcomeFits, B!Completed, B!Failed, B!HoldsInScope, B!InScope
<1> QED
  BY <1>1, <1>5, <1>6, <1>7, <1>8, BusOthersFit DEF B!Inv

\* The backend loses the lock, or reports the loss; no delivery moves.
LEMMA BusLossInv == ASSUME B!Inv, NEW d \in B!Deliveries, B!LockFails(d) PROVE B!Inv'
<1> USE DEF B!LockFails, B!inputVars, B!brokerVars
<1>1. BusLockOK' /\ B!HoldersApart' /\ bHolders' = bHolders
  BY BusLossApart DEF B!Inv, B!TypeOK, BusLockOK
<1>2. B!TypeOK' /\ B!Counted' /\ B!OneOfSession' /\ B!Settled'
  BY <1>1 DEF B!Inv, B!TypeOK, BusLockOK, B!Counted, B!OneOfSession, B!Settled
<1>3. \A c \in B!Deliveries : B!Fits(c)'
  BY <1>1, BusOthersFit DEF B!Inv, BusSameDelivery
<1> QED
  BY <1>1, <1>2, <1>3 DEF B!Inv

\* A host dies with the deliveries it is at.
LEMMA BusCrashInv == ASSUME B!Inv, NEW h \in Dying, B!Crash(h) PROVE B!Inv'
<1> DEFINE dead == {d \in B!Deliveries : HostOfDelivery[d] = h /\ bPc[d] \notin {"none", "done"}}
<1>1. /\ bPc' = [d \in B!Deliveries |-> IF d \in dead THEN "done" ELSE bPc[d]]
      /\ bOutcome' = [d \in B!Deliveries |-> IF d \in dead THEN "failed" ELSE bOutcome[d]]
      /\ bHolders' = bHolders \ dead /\ bLapsed' = bLapsed \ dead /\ bReported' = bReported \ dead
      /\ UNCHANGED <<B!inputVars, B!brokerVars, bEvents>>
  BY DEF B!Crash
<1>2. \A d \in dead : /\ d \in B!Deliveries /\ bPc[d] \notin {"none", "done"}
                      /\ HostOfDelivery[d] \in Dying
  OBVIOUS
<1> HIDE DEF dead
<1> USE DEF B!inputVars, B!brokerVars
<1>3. B!TypeOK' /\ B!HoldersApart'
  BY <1>1 DEF B!Inv, B!TypeOK, B!HoldersApart
<1>4. \A d \in B!Deliveries : B!Fits(d)'
  <2>1. ASSUME NEW d \in B!Deliveries, d \notin dead PROVE B!Fits(d)'
    <3>1. BusSameDelivery(d) /\ (d \in bHolders' <=> d \in bHolders) /\ bReg' = bReg
      BY <1>1, <2>1 DEF BusSameDelivery
    <3> QED
      BY <3>1, BusOthersFit DEF B!Inv
  <2>2. ASSUME NEW d \in B!Deliveries, d \in dead PROVE B!Fits(d)'
    <3>1. bPc'[d] = "done" /\ bOutcome'[d] = "failed" /\ d \notin bHolders' /\ bEvents'[d] = bEvents[d]
      BY <1>1, <2>2
    <3>2. bEvents[d] \in {<<>>, <<"started">>} \/ B!Completed(d) \/ B!Failed(d)
      BY <1>2, <2>2 DEF B!Inv, B!TypeOK, B!Fits, B!OutcomeFits
    <3> QED
      BY <1>2, <2>2, <3>1, <3>2
      DEF B!Fits, B!OutcomeFits, B!Completed, B!Failed, B!HoldsInScope, B!InScope
  <2> QED
    BY <2>1, <2>2
<1>5. B!Counted'
  BY <1>1, <1>2 DEF B!Inv, B!Counted
<1>6. B!OneOfSession'
  BY <1>1 DEF B!Inv, B!OneOfSession
<1>7. B!Settled'
  BY <1>1, <1>2 DEF B!Inv, B!Settled, B!Deliveries
<1> QED
  BY <1>3, <1>4, <1>5, <1>6, <1>7 DEF B!Inv

\* Every step keeps the invariant.
LEMMA BusNextInv ==
  ASSUME B!MessagesAndDeliveries
  PROVE  B!Inv /\ [B!Next]_(B!vars) => B!Inv'
<1> SUFFICES ASSUME B!Inv, [B!Next]_(B!vars) PROVE B!Inv'
  OBVIOUS
<1>1. ASSUME NEW d \in B!Deliveries, B!ProcessMessage(d) \/ B!ProcessMessageAsync(d) PROVE B!Inv'
  BY <1>1, BusMapMessageInv, BusTakeLockInv, BusGraphInv, BusLeaveLockInv, BusHandleResultInv
  DEF B!ProcessMessage, B!ProcessMessageAsync
<1>2. CASE UNCHANGED B!vars
  <2> USE <1>2 DEF B!vars, B!lockVars, B!inputVars, B!brokerVars
  <2>1. B!TypeOK' /\ B!HoldersApart' /\ B!Counted' /\ B!OneOfSession' /\ B!Settled'
    BY DEF B!Inv, B!TypeOK, B!HoldersApart, B!Counted, B!OneOfSession, B!Settled
  <2>2. \A d \in B!Deliveries : B!Fits(d)'
    BY BusOthersFit DEF B!Inv, BusSameDelivery
  <2> QED
    BY <2>1, <2>2 DEF B!Inv
<1> QED
  BY <1>1, <1>2, BusDeliverInv, BusMessageLockLostInv, BusSettleInv, BusLossInv, BusCrashInv
  DEF B!Next

\* The inductive invariant of the Service Bus trigger.
THEOREM BusInvariance == ASSUME B!MessagesAndDeliveries PROVE B!Spec => []B!Inv
BY BusInitInv, BusNextInv, PTL DEF B!Spec

\* Two executions of one thread overlap only after a lapse, and under sessions only
\* if the broker gave up on one.
LEMMA BusApart == ASSUME B!MessagesAndDeliveries PROVE B!Inv => B!OneExecution
<1> SUFFICES ASSUME B!Inv, NEW c \in B!Deliveries, NEW d \in B!Deliveries, c # d, B!Executing(c), B!Executing(d)
             PROVE  IF B!UseLock THEN HostOfDelivery[c] # HostOfDelivery[d] /\ (c \in bLapsed \/ d \in bLapsed)
                    ELSE ~B!Current(c) \/ ~B!Current(d)
  BY DEF B!OneExecution
<1>1. CASE B!UseLock
  BY <1>1 DEF B!Inv, B!Fits, B!HoldsInScope, B!InScope, B!HoldersApart, B!Executing
<1>2. CASE ~B!UseLock /\ B!Current(c) /\ B!Current(d)
  <2>1. c[1] \in Messages /\ d[1] \in Messages /\ c = <<c[1], c[2]>> /\ d = <<d[1], d[2]>>
    BY DEF B!Deliveries
  <2>2. c[1] = d[1]
    BY <1>2, <2>1 DEF B!Inv, B!OneOfSession, B!UseLock, B!Current
  <2>3. c[2] = d[2]
    BY <1>2, <2>2 DEF B!Current
  <2> QED
    BY <2>1, <2>2, <2>3
<1> QED
  BY <1>1, <1>2

\* A delivery that is over holds no lock.
LEMMA BusGivenBack == B!Inv => B!NoLockKept
BY DEF B!Inv, B!TypeOK, B!Fits, B!HoldsInScope, B!InScope, B!NoLockKept

\* A started delivery that returns had one terminal event.
LEMMA BusOneTerminal == B!Inv => B!ExactlyOneTerminal
<1> SUFFICES ASSUME B!Inv, NEW d \in B!Deliveries
             PROVE  /\ bPc[d] = "settling" =>
                         bEvents[d] \in {<<>>, <<"started", "completed">>, <<"started", "failed">>}
                    /\ bOutcome[d] = "contended" => bEvents[d] = <<>>
                    /\ bPc[d] = "done" =>
                         \/ bEvents[d] \in {<<>>, <<"started", "completed">>,
                                            <<"started", "failed">>}
                         \/ bEvents[d] = <<"started">> /\ HostOfDelivery[d] \in Dying
  BY DEF B!ExactlyOneTerminal
<1> QED
  BY DEF B!Inv, B!TypeOK, B!Fits, B!OutcomeFits, B!Completed, B!Failed

\* A settled message had a delivery whose run completed.
LEMMA BusSettledAfterRun == B!Inv => B!SettledRan
<1> SUFFICES ASSUME B!Inv, NEW m \in Messages, bQueue[m] = "settled"
             PROVE  \E n \in 1..MaxDeliveries :
                      bOutcome[<<m, n>>] = "ok" /\ bEvents[<<m, n>>] = <<"started", "completed">>
  BY DEF B!SettledRan
<1>1. PICK n \in 1..MaxDeliveries : bPc[<<m, n>>] = "done" /\ bOutcome[<<m, n>>] = "ok"
  BY DEF B!Inv, B!Settled
<1>2. <<m, n>> \in B!Deliveries
  BY DEF B!Deliveries
<1>3. bEvents[<<m, n>>] = <<"started", "completed">>
  BY <1>1, <1>2 DEF B!Inv, B!Fits, B!OutcomeFits, B!Completed
<1> QED
  BY <1>1, <1>3

\* What the observer is told of d in a step in which d does not complete.
BusQuiet(d) ==
  \/ bEvents'[d] = bEvents[d]
  \/ \E e \in Words \ {"completed"} : bEvents'[d] = Append(bEvents[d], e)

LEMMA BusQuietIsNotTold ==
  ASSUME B!TypeOK, NEW d \in B!Deliveries, BusQuiet(d)
  PROVE  ~B!Tell(d, "completed")
<1>1. bEvents[d] \in Seq(Words)
  BY DEF B!TypeOK, Words
<1> QED
  BY <1>1, NotCompleted DEF B!TypeOK, B!Tell, BusQuiet

\* A step that d has no part in leaves it as doomed as it was.
BusBystander(d) ==
  /\ bPc'[d] = bPc[d] /\ bOutcome'[d] = bOutcome[d] /\ bEvents'[d] = bEvents[d]
  /\ d \in bReported => d \in bReported'

LEMMA BusOthersDoomed ==
  ASSUME B!Inv, NEW c \in B!Deliveries, NEW d \in B!Deliveries, c # d,
         B!ProcessMessage(c) \/ B!ProcessMessageAsync(c) \/ B!Settle(c)
  PROVE  BusBystander(d)
<1> USE DEF BusBystander, B!Inv, B!TypeOK, B!lockVars, B!Goto, B!Tell, B!End, B!Free,
            B!Lock!Acquire, B!Lock!Refuse, B!Lock!Release, B!Lock!runLockVars
<1>1. CASE B!MapMessage(c) \/ B!HandleResult(c) \/ B!Settle(c)
  BY <1>1 DEF B!MapMessage, B!HandleResult, B!Settle
<1>2. CASE B!TakeLock(c)
  BY <1>2 DEF B!TakeLock, B!Start, B!Raise
<1>3. CASE B!GraphEnds(c) \/ B!GraphFails(c) \/ B!LeaveLock(c)
  BY <1>3 DEF B!GraphEnds, B!GraphFails, B!LeaveLock
<1> QED
  BY <1>1, <1>2, <1>3 DEF B!ProcessMessage, B!ProcessMessageAsync

\* A loss that is known is found by GraphEnds, if nothing else ends the run before;
\* a delivery that did not end well is not handed on, and returns its message.
LEMMA BusLossStep ==
  ASSUME B!Inv, [B!Next]_(B!vars), NEW d \in B!Deliveries, B!Doomed(d)
  PROVE  B!Doomed(d)' /\ ~B!Tell(d, "completed") /\ bPc'[d] # "handling" /\ ~B!Settles(d)
<1> USE DEF B!Inv
<1>0. \/ bPc[d] = "running" /\ d \in bReported /\ ~B!GuardAgrees(d)
      \/ /\ bPc[d] \in {"leaving", "settling", "done"}
         /\ bOutcome[d] \in {"failed", "contended"}
  <2>1. B!HoldsInScope(d) /\ B!OutcomeFits(d) /\ bPc[d] \in {"none", "mapping", "locking",
           "running", "leaving", "handling", "settling", "done"}
    BY DEF B!Fits, B!TypeOK
  <2>2. CASE d \in bReported /\ bPc[d] = "running"
    BY <2>1, <2>2 DEF B!TypeOK, B!HoldsInScope, B!GuardAgrees, B!Lock!Passes
  <2>3. CASE bOutcome[d] \in {"failed", "contended"}
    <3>1. bPc[d] \notin {"none", "mapping", "locking", "running"}
      BY <2>1, <2>3 DEF B!OutcomeFits
    <3>2. bPc[d] # "handling"
      BY <2>1, <2>3 DEF B!OutcomeFits
    <3> QED
      BY <2>1, <2>3, <3>1, <3>2
  <2> QED
    BY <2>2, <2>3 DEF B!Doomed
<1>1. CASE BusBystander(d)
  BY <1>0, <1>1, BusQuietIsNotTold DEF B!Doomed, B!Settles, BusBystander, BusQuiet
<1>2. CASE UNCHANGED B!vars
  BY <1>1, <1>2 DEF BusBystander, B!vars, B!lockVars
<1>3. ASSUME NEW c \in B!Deliveries, B!LockFails(c)
      PROVE  BusBystander(d)
  BY <1>3 DEF BusBystander, B!LockFails, B!Lock!Lapse, B!Lock!Report
<1>4. ASSUME NEW m \in Messages, B!Deliver(m) \/ B!MessageLockLost(m)
      PROVE  BusBystander(d)
  <2>1. CASE B!Deliver(m)
    <3>1. d # <<m, bCount[m] + 1>>
      <4>1. ~(d[2] > bCount[d[1]])
        BY <1>0 DEF B!Counted
      <4>2. bCount[m] \in Nat
        BY DEF B!TypeOK
      <4> QED
        BY <4>1, <4>2
    <3> QED
      BY <2>1, <3>1 DEF B!Deliver, B!Goto, B!TypeOK, B!lockVars, BusBystander
  <2>2. CASE B!MessageLockLost(m)
    BY <2>2 DEF B!MessageLockLost, B!lockVars, BusBystander
  <2> QED
    BY <1>4, <2>1, <2>2
<1>5. ASSUME BusQuiet(d), bOutcome'[d] \in {"failed", "contended"}, bPc'[d] # "handling",
             bPc[d] # "settling" \/ bQueue'[d[1]] # "settled" \/ bQueue' = bQueue
      PROVE  B!Doomed(d)' /\ ~B!Tell(d, "completed") /\ bPc'[d] # "handling" /\ ~B!Settles(d)
  BY <1>5, BusQuietIsNotTold DEF B!Doomed, B!Settles
<1>6. CASE B!ProcessMessage(d) \/ B!ProcessMessageAsync(d) \/ B!Settle(d)
  <2> USE DEF B!TypeOK, B!Goto, B!End
  <2>1. CASE B!MapMessage(d) \/ B!TakeLock(d) \/ B!HandleResult(d) \/ B!GraphEnds(d)
    BY <1>0, <2>1 DEF B!MapMessage, B!TakeLock, B!HandleResult, B!GraphEnds
  <2>2. CASE B!GraphFails(d)
    <3>1. BusQuiet(d)
      BY <2>2 DEF B!GraphFails, B!Tell, BusQuiet, Words
    <3> QED
      BY <1>5, <2>2, <3>1 DEF B!GraphFails
  <2>3. CASE B!LeaveLock(d)
    <3>1. bOutcome[d] \in {"failed", "contended"} /\ bPc[d] = "leaving"
      BY <1>0, <2>3 DEF B!LeaveLock
    <3> QED
      BY <1>5, <2>3, <3>1 DEF B!LeaveLock, BusQuiet
  <2>4. CASE B!Settle(d)
    <3>1. bOutcome[d] \in {"failed", "contended"} /\ bOutcome' = bOutcome
      BY <1>0, <2>4 DEF B!Settle
    <3>2. d[1] \in Messages
      BY DEF B!Deliveries
    <3>3. bQueue'[d[1]] # "settled" \/ bQueue' = bQueue
      BY <2>4, <3>1, <3>2 DEF B!Settle, B!Returned
    <3> QED
      BY <1>5, <2>4, <3>1, <3>3 DEF B!Settle, BusQuiet
  <2> QED
    BY <1>6, <2>1, <2>2, <2>3, <2>4 DEF B!ProcessMessage, B!ProcessMessageAsync
<1>7. ASSUME NEW c \in B!Deliveries,
             B!ProcessMessage(c) \/ B!ProcessMessageAsync(c) \/ B!Settle(c)
      PROVE  c = d \/ BusBystander(d)
  BY <1>7, BusOthersDoomed
<1>8. ASSUME NEW h \in Dying, B!Crash(h)
      PROVE  BusBystander(d) \/ (/\ BusQuiet(d) /\ bQueue' = bQueue /\ bPc'[d] # "handling"
                                 /\ bOutcome'[d] \in {"failed", "contended"})
  <2>1. bEvents' = bEvents /\ bQueue' = bQueue
    BY <1>8 DEF B!Crash, B!brokerVars
  <2>2. CASE HostOfDelivery[d] = h /\ bPc[d] # "done"
    BY <1>0, <1>8, <2>1, <2>2 DEF B!Crash, BusQuiet
  <2>3. CASE HostOfDelivery[d] # h \/ bPc[d] = "done"
    BY <1>8, <2>1, <2>3 DEF B!Crash, BusBystander
  <2> QED
    BY <2>2, <2>3
<1> QED
  BY <1>1, <1>2, <1>3, <1>4, <1>5, <1>6, <1>7, <1>8 DEF B!Next

\* LostIsNotHandled: a delivery whose loss is known hands no result on and settles
\* nothing.
THEOREM BusLossTold == ASSUME B!MessagesAndDeliveries PROVE B!Spec => B!LostIsNotHandled
<1>1. B!Inv /\ [B!Next]_(B!vars) =>
        [\A d \in B!Deliveries : B!Doomed(d) =>
            B!Doomed(d)' /\ ~B!Tell(d, "completed") /\ bPc'[d] # "handling"
            /\ ~B!Settles(d)]_(B!vars)
  BY BusLossStep
<1> QED
  BY <1>1, BusInvariance, PTL DEF B!Spec, B!LostIsNotHandled

\* Every step takes, frees, loses or leaves alone the lock as RunLock allows.
LEMMA BusNextUsesLock ==
  ASSUME B!Inv, [B!Next]_(B!vars)
  PROVE  [B!Lock!Next \/ B!Lock!AtOnce]_(B!Lock!runLockVars)
<1> USE DEF B!Lock!Next, B!Lock!AtOnce, B!Lock!runLockVars, B!lockVars
<1>1. ASSUME NEW d \in B!Deliveries, B!ProcessMessage(d) \/ B!ProcessMessageAsync(d) \/ B!Settle(d)
      PROVE  UNCHANGED B!lockVars \/ B!Lock!Acquire(d) \/ B!Lock!Release(d)
  BY <1>1
  DEF B!ProcessMessage, B!ProcessMessageAsync, B!MapMessage, B!TakeLock, B!GraphEnds,
     B!GraphFails, B!LeaveLock, B!Free, B!HandleResult, B!Settle, B!Lock!Refuse
<1>2. ASSUME NEW m \in Messages, B!Deliver(m) \/ B!MessageLockLost(m) PROVE UNCHANGED B!lockVars
  BY <1>2 DEF B!Deliver, B!MessageLockLost
<1>3. ASSUME NEW d \in B!Deliveries, B!LockFails(d) PROVE B!Lock!Lapse(d) \/ B!Lock!Report(d)
  BY <1>3 DEF B!LockFails
<1>4. ASSUME NEW h \in Dying, B!Crash(h) PROVE UNCHANGED B!lockVars \/ B!Lock!Vanish
  BY <1>4 DEF B!Crash, B!Inv, B!TypeOK, B!Lock!Vanish
<1> QED
  BY <1>1, <1>2, <1>3, <1>4 DEF B!Next, B!vars

\* The deliveries of the queue are users of a RunLock.
THEOREM BusLockUsed == ASSUME B!MessagesAndDeliveries PROVE B!Spec => B!Lock!Spec
<1>1. B!Init => B!Lock!Init
  BY DEF B!Init
<1> QED
  BY <1>1, BusNextUsesLock, BusInvariance, PTL DEF B!Spec, B!Lock!Spec

--------------------------------------------------------------------------------
(***************************************************************************)
(* Durable runs (durable/): every delivery of an activity is one           *)
(* execution; the status of a run is what one of them answered.            *)
(***************************************************************************)
\* The variables of RunLock keep their types.
DurableLockOK == dHolders \subseteq Execs /\ dLapsed \subseteq dHolders /\ dReported \subseteq dHolders

\* Everything of e but the lock is as it was.
DurableSameExec(e) ==
  /\ dTask'[e] = dTask[e] /\ dPc'[e] = dPc[e] /\ dResult'[e] = dResult[e] /\ dEvents'[e] = dEvents[e]

\* A delivery that a step leaves alone, with its lock, fits as before.
LEMMA DurableOthersFit ==
  ASSUME NEW e \in Execs, D!Fits(e), DurableSameExec(e), dLocks' = dLocks, e \in dHolders' <=> e \in dHolders
  PROVE  D!Fits(e)'
BY
DEF D!Fits, D!HoldsInScope, D!InScope, D!UseLock, D!ResultFits, D!Answered, D!TaskFits,
   D!Tasks, DurableSameExec

\* The lock, as RunLock has it: an acquire beside holders of other processes,
\* and beside those only to or against a lapsed lock.
LEMMA DurableAcquireApart ==
  ASSUME NEW e \in Execs, DurableLockOK, D!HoldersApart, D!Lock!Acquire(e)
  PROVE  /\ DurableLockOK' /\ D!HoldersApart' /\ e \in dHolders'
         /\ \A d \in Execs \ {e} : d \in dHolders' <=> d \in dHolders
BY DEF DurableLockOK, D!HoldersApart, D!Lock!Acquire

\* The release of a holder, and the no-op of a delivery without a lock.
LEMMA DurableFreeApart ==
  ASSUME NEW e \in Execs, DurableLockOK, D!HoldersApart, D!Free(e)
  PROVE  /\ DurableLockOK' /\ D!HoldersApart' /\ e \notin dHolders'
         /\ \A d \in Execs \ {e} : d \in dHolders' <=> d \in dHolders
BY DEF DurableLockOK, D!HoldersApart, D!Free, D!Lock!Release, D!lockVars

\* A lapse or a report takes no token away.
LEMMA DurableLossApart ==
  ASSUME NEW e \in Execs, DurableLockOK, D!HoldersApart, D!Lock!Lapse(e) \/ D!Lock!Report(e)
  PROVE  DurableLockOK' /\ D!HoldersApart' /\ dHolders' = dHolders
BY DEF DurableLockOK, D!HoldersApart, D!Lock!Lapse, D!Lock!Report

\* Most steps of a delivery leave the lock alone.
LEMMA DurableUnheldApart ==
  ASSUME DurableLockOK, D!HoldersApart, UNCHANGED D!lockVars
  PROVE  DurableLockOK' /\ D!HoldersApart' /\ dHolders' = dHolders
BY DEF DurableLockOK, D!HoldersApart, D!lockVars

\* Init: no run was created.
LEMMA DurableInitInv == ASSUME D!StartsPositive PROVE D!Init => D!Inv
<1> SUFFICES ASSUME D!Init PROVE D!Inv
  OBVIOUS
<1> USE DEF D!Init, D!Lock!Init
<1>1. D!TypeOK
  BY DEF D!TypeOK, D!StartsPositive
<1>2. D!HoldersApart
  BY DEF D!HoldersApart
<1>3. ASSUME NEW e \in Execs PROVE D!Fits(e)
  BY <1>3 DEF D!Fits, D!HoldsInScope, D!InScope, D!ResultFits, D!TaskFits
<1>4. ASSUME NEW i \in Ids PROVE D!WasStarted(i) /\ D!AnsweredBy(i)
  BY <1>4 DEF D!WasStarted, D!AnsweredBy
<1> QED
  BY <1>1, <1>2, <1>3, <1>4 DEF D!Inv

\* What a delivery that is over answered stays, if it is left alone.
LEMMA DurableAnswersStay ==
  ASSUME NEW i \in Ids, D!AnsweredBy(i), D!WasStarted(i),
         dStarts'[i] = dStarts[i], dOutput'[i] = dOutput[i],
         dRuntime'[i] = dRuntime[i] \/ dRuntime'[i] \in {"Pending", "Running", "Terminated"},
         dRuntime[i] = "none" => dRuntime'[i] = "none",
         \A e \in Execs : dPc[e] = "done" =>
           dPc'[e] = "done" /\ dTask'[e] = dTask[e] /\ dResult'[e] = dResult[e]
  PROVE  D!AnsweredBy(i)' /\ D!WasStarted(i)'
<1>1. \A r : \A e \in Execs : D!DeliveryOf(e, i) /\ dResult[e] = r => D!DeliveryOf(e, i)' /\ dResult'[e] = r
  BY DEF D!DeliveryOf
<1>2. D!AnsweredBy(i)'
  BY <1>1 DEF D!AnsweredBy, D!OverBy
<1>3. D!WasStarted(i)'
  BY DEF D!WasStarted
<1> QED
  BY <1>2, <1>3

--------------------------------------------------------------------------------
\* The client and the framework: no delivery moves.
LEMMA DurableClientInv ==
  ASSUME D!Inv, UNCHANGED <<D!lockVars, dLocks, D!activityVars>>,
         dRuntime' \in [Ids -> {"none", "Pending", "Running", "Completed", "Failed", "Terminated"}],
         dOutput' \in [Ids -> {"none", "success", "error", "rejected"}],
         dStarts' \in [Ids -> 0..MaxStarts], dCancelling' \subseteq Ids, dTasks' \subseteq D!Tasks,
         \A i \in Ids : D!WasStarted(i)' /\ D!AnsweredBy(i)'
  PROVE  D!Inv'
<1> USE DEF D!lockVars, D!activityVars
<1>1. D!TypeOK' /\ D!HoldersApart'
  BY DEF D!Inv, D!TypeOK, D!HoldersApart, D!Tasks
<1>2. \A e \in Execs : D!Fits(e)'
  BY DurableOthersFit DEF D!Inv, DurableSameExec
<1> QED
  BY <1>1, <1>2 DEF D!Inv

\* CreateRun starts a run, again if an earlier one of that id is over.
LEMMA DurableCreateRunInv ==
  ASSUME D!StartsPositive, D!Inv, NEW i \in Ids, D!CreateRun(i)
  PROVE  D!Inv'
<1> USE DEF D!CreateRun, D!activityVars
<1>1. dStarts[i] \in 0..MaxStarts /\ MaxStarts \in Nat
  BY DEF D!Inv, D!TypeOK, D!StartsPositive
<1>2. dStarts' \in [Ids -> 0..MaxStarts] /\ dStarts'[i] > 0
  BY <1>1 DEF D!Inv, D!TypeOK
<1>3. ASSUME NEW k \in Ids PROVE D!WasStarted(k)' /\ D!AnsweredBy(k)'
  <2>1. CASE k = i
    BY <1>2, <2>1 DEF D!Inv, D!TypeOK, D!WasStarted, D!AnsweredBy
  <2>2. CASE k # i
    <3>1. dStarts'[k] = dStarts[k] /\ dOutput'[k] = dOutput[k] /\ dRuntime'[k] = dRuntime[k]
      BY <2>2 DEF D!Inv, D!TypeOK
    <3> QED
      BY <3>1, DurableAnswersStay DEF D!Inv
  <2> QED
    BY <2>1, <2>2
<1> QED
  BY <1>2, <1>3, DurableClientInv DEF D!Inv, D!TypeOK

\* CancelRun asks for a termination.
LEMMA DurableCancelRunInv == ASSUME D!Inv, NEW i \in Ids, D!CancelRun(i) PROVE D!Inv'
<1> USE DEF D!CancelRun, D!activityVars
<1>1. \A k \in Ids : D!WasStarted(k)' /\ D!AnsweredBy(k)'
  BY DurableAnswersStay DEF D!Inv
<1> QED
  BY <1>1, DurableClientInv DEF D!Inv, D!TypeOK

\* The framework terminates a run; an activity at work goes on.
LEMMA DurableTerminateInv == ASSUME D!Inv, NEW i \in Ids, D!Terminate(i) PROVE D!Inv'
<1> USE DEF D!Terminate, D!activityVars
<1>1. ASSUME NEW k \in Ids PROVE D!WasStarted(k)' /\ D!AnsweredBy(k)'
  <2>1. /\ dRuntime'[k] = dRuntime[k] \/ dRuntime'[k] = "Terminated"
        /\ dRuntime[k] = "none" => dRuntime'[k] = "none"
    BY DEF D!Inv, D!TypeOK, D!InFlight
  <2> QED
    BY <2>1, DurableAnswersStay DEF D!Inv
<1> QED
  BY <1>1, DurableClientInv DEF D!Inv, D!TypeOK

\* The orchestrator calls the activity.
LEMMA DurableOrchestrateInv ==
  ASSUME D!StartsPositive, D!Inv, NEW i \in Ids, D!Orchestrate(i)
  PROVE  D!Inv'
<1> USE DEF D!Orchestrate, D!activityVars
<1>1. dStarts[i] \in 1..MaxStarts
  BY DEF D!Inv, D!TypeOK, D!WasStarted, D!StartsPositive
<1>2. dTasks' \subseteq D!Tasks
  BY <1>1 DEF D!Inv, D!TypeOK, D!Tasks
<1>3. ASSUME NEW k \in Ids PROVE D!WasStarted(k)' /\ D!AnsweredBy(k)'
  <2>1. /\ dRuntime'[k] = dRuntime[k] \/ dRuntime'[k] = "Running"
        /\ dRuntime[k] = "none" => dRuntime'[k] = "none"
    BY DEF D!Inv, D!TypeOK
  <2> QED
    BY <2>1, DurableAnswersStay DEF D!Inv
<1> QED
  BY <1>2, <1>3, DurableClientInv DEF D!Inv, D!TypeOK

--------------------------------------------------------------------------------
\* A step of the activity of e, which is not over: no run, and no other delivery.
LEMMA DurableActivityInv ==
  ASSUME D!Inv, NEW e \in Execs, dPc[e] # "done",
         UNCHANGED <<dLocks, D!clientVars>>,
         dTask' \in [Execs -> D!Tasks \cup {NoTask}],
         dPc' \in [Execs -> {"idle", "locking", "running", "leaving", "reporting", "done"}],
         dResult' \in [Execs -> {"none", "success", "error", "rejected", "raised"}],
         dEvents' \in [Execs -> Seq(Words)],
         \A d \in Execs \ {e} : DurableSameExec(d) /\ (d \in dHolders' <=> d \in dHolders),
         D!Fits(e)', DurableLockOK', D!HoldersApart'
  PROVE  D!Inv'
<1> USE DEF D!clientVars
<1>1. D!TypeOK'
  BY DEF D!Inv, D!TypeOK, DurableLockOK, Words, D!Tasks
<1>2. \A d \in Execs : D!Fits(d)'
  BY DurableOthersFit DEF D!Inv
<1>3. ASSUME NEW i \in Ids PROVE D!WasStarted(i)' /\ D!AnsweredBy(i)'
  BY DurableAnswersStay DEF D!Inv, DurableSameExec
<1> QED
  BY <1>1, <1>2, <1>3 DEF D!Inv

\* A host takes a task, perhaps one that another took before.
LEMMA DurableDispatchInv == ASSUME D!Inv, NEW e \in Execs, D!Dispatch(e) PROVE D!Inv'
<1> USE DEF D!Dispatch
<1>1. PICK t \in dTasks : dTask' = [dTask EXCEPT ![e] = t]
  OBVIOUS
<1>2. t \in D!Tasks
  BY DEF D!Inv, D!TypeOK
<1>3. DurableLockOK' /\ D!HoldersApart' /\ dHolders' = dHolders
  BY DurableUnheldApart DEF D!Inv, D!TypeOK, DurableLockOK
<1>4. e \notin dHolders /\ dEvents[e] = <<>> /\ dResult[e] = "none"
  BY DEF D!Inv, D!Fits, D!HoldsInScope, D!InScope, D!ResultFits
<1>5. dTask'[e] = t /\ dPc'[e] = "locking" /\ dEvents'[e] = <<>> /\ dResult'[e] = "none"
  BY <1>1, <1>4 DEF D!Inv, D!TypeOK
<1>6. D!Fits(e)'
  BY <1>2, <1>3, <1>4, <1>5
  DEF D!Fits, D!HoldsInScope, D!InScope, D!ResultFits, D!TaskFits, D!Tasks
<1>7. \A d \in Execs \ {e} : DurableSameExec(d)
  BY <1>1 DEF D!Inv, D!TypeOK, DurableSameExec
<1> QED
  BY <1>1, <1>2, <1>3, <1>6, <1>7, DurableActivityInv DEF D!Inv, D!TypeOK, Words

\* TakeLock: the run starts under the lock, or the activity answers without it.
LEMMA DurableTakeLockInv == ASSUME D!Inv, NEW e \in Execs, D!TakeLock(e) PROVE D!Inv'
<1> USE DEF D!TakeLock, D!Goto, D!Answer
<1>1. /\ e \notin dHolders /\ dEvents[e] = <<>> /\ dResult[e] = "none" /\ dTask[e] \in D!Tasks
      /\ dTask' = dTask /\ dLocks' = dLocks
  BY DEF D!Inv, D!Fits, D!HoldsInScope, D!InScope, D!ResultFits, D!TaskFits
<1>2. ASSUME D!Start(e),
             \/ D!UseLock(e) /\ D!Lock!Acquire(e)
             \/ ~D!UseLock(e) /\ UNCHANGED D!lockVars
      PROVE  D!Inv'
  <2> USE DEF D!Start
  <2>1. dEvents' \in [Execs -> Seq(Words)] /\ dEvents'[e] = <<"started">>
    BY <1>1, <1>2, ToldOnce DEF D!Inv, D!TypeOK, D!Tell, Words
  <2>2. /\ DurableLockOK' /\ D!HoldersApart' /\ (e \in dHolders' <=> D!UseLock(e))
        /\ \A d \in Execs \ {e} : d \in dHolders' <=> d \in dHolders
    BY <1>1, <1>2, DurableAcquireApart, DurableUnheldApart DEF D!Inv, D!TypeOK, DurableLockOK
  <2>3. dPc'[e] = "running" /\ dResult'[e] = "none" /\ (D!UseLock(e)' <=> D!UseLock(e))
    BY <1>1, <1>2 DEF D!Inv, D!TypeOK, D!UseLock
  <2>4. D!Fits(e)'
    BY <1>1, <2>1, <2>2, <2>3
    DEF D!Fits, D!HoldsInScope, D!InScope, D!ResultFits, D!TaskFits, D!Tasks
  <2>5. \A d \in Execs \ {e} : DurableSameExec(d)
    BY <1>1, <1>2 DEF D!Inv, D!TypeOK, DurableSameExec, D!Tell
  <2> QED
    BY <1>1, <1>2, <2>1, <2>2, <2>4, <2>5, DurableActivityInv DEF D!Inv, D!TypeOK
<1>3. ASSUME NEW a \in {"rejected", "error", "raised"}, D!Answer(e, a), D!Goto(e, "reporting"),
             UNCHANGED D!lockVars,
             IF a = "rejected" THEN D!Tell(e, "rejected") ELSE UNCHANGED dEvents
      PROVE  D!Inv'
  <2>1. /\ dEvents' \in [Execs -> Seq(Words)]
        /\ dEvents'[e] = IF a = "rejected" THEN <<"rejected">> ELSE <<>>
    <3>1. CASE a = "rejected"
      <4>1. D!Tell(e, "rejected")
        BY <1>3, <3>1
      <4>2. dEvents' \in [Execs -> Seq(Words)] /\ dEvents'[e] = <<"rejected">>
        BY <1>1, <4>1, ToldOnce DEF D!Inv, D!TypeOK, D!Tell, Words
      <4> QED
        BY <3>1, <4>2
    <3>2. CASE a # "rejected"
      BY <1>1, <1>3, <3>2 DEF D!Inv, D!TypeOK, Words
    <3> QED
      BY <3>1, <3>2
  <2>2. DurableLockOK' /\ D!HoldersApart' /\ dHolders' = dHolders
    BY <1>3, DurableUnheldApart DEF D!Inv, D!TypeOK, DurableLockOK
  <2>3. dPc'[e] = "reporting" /\ dResult'[e] = a
    BY <1>3 DEF D!Inv, D!TypeOK
  <2>4. D!Fits(e)'
    BY <1>1, <2>1, <2>2, <2>3
    DEF D!Fits, D!HoldsInScope, D!InScope, D!ResultFits, D!Answered, D!TaskFits, D!Tasks
  <2>5. \A d \in Execs \ {e} : DurableSameExec(d)
    BY <1>1, <1>3 DEF D!Inv, D!TypeOK, DurableSameExec, D!Tell
  <2> QED
    BY <1>1, <1>3, <2>1, <2>2, <2>4, <2>5, DurableActivityInv DEF D!Inv, D!TypeOK
<1>4. D!Lock!Refuse(e) => UNCHANGED D!lockVars
  BY DEF D!Lock!Refuse, D!Lock!runLockVars, D!lockVars
<1>5. CASE D!UseLock(e) /\ D!Lock!Refuse(e) /\ D!Reject(e)
  BY <1>3, <1>4, <1>5 DEF D!Reject
<1>6. CASE /\ \E a \in {"error", "raised"} : D!Answer(e, a)
           /\ D!Goto(e, "reporting")
           /\ UNCHANGED <<D!lockVars, dEvents>>
  <2>1. PICK a \in {"error", "raised"} : D!Answer(e, a)
    BY <1>6
  <2> QED
    BY <1>3, <1>6, <2>1
<1> QED
  BY <1>2, <1>5, <1>6

\* The graph ends or fails, and the observer is told which.
LEMMA DurableGraphInv ==
  ASSUME D!Inv, NEW e \in Execs, D!GraphEnds(e) \/ D!GraphFails(e)
  PROVE  D!Inv'
<1>1. PICK a \in {"success", "error", "raised"} :
        /\ dPc[e] = "running" /\ dResult' = [dResult EXCEPT ![e] = a]
        /\ D!Tell(e, IF a = "success" THEN "completed" ELSE "failed")
        /\ dPc' = [dPc EXCEPT ![e] = "leaving"]
        /\ UNCHANGED <<D!lockVars, dLocks, D!clientVars, dTask>>
  BY DEF D!GraphEnds, D!GraphFails, D!Goto, D!Answer
<1>2. dEvents[e] = <<"started">> /\ (e \in dHolders <=> D!UseLock(e)) /\ dTask[e] \in D!Tasks
  BY <1>1 DEF D!Inv, D!Fits, D!HoldsInScope, D!InScope, D!ResultFits, D!TaskFits
<1>3. /\ dEvents' \in [Execs -> Seq(Words)]
      /\ dEvents'[e] = <<"started", IF a = "success" THEN "completed" ELSE "failed">>
  BY <1>1, <1>2, ToldTwice DEF D!Inv, D!TypeOK, D!Tell, Words
<1>4. DurableLockOK' /\ D!HoldersApart' /\ dHolders' = dHolders
  BY <1>1, DurableUnheldApart DEF D!Inv, D!TypeOK, DurableLockOK
<1>5. dPc'[e] = "leaving" /\ dResult'[e] = a /\ (D!UseLock(e)' <=> D!UseLock(e)) /\ dTask'[e] = dTask[e]
  BY <1>1 DEF D!Inv, D!TypeOK, D!UseLock
<1>6. D!Fits(e)'
  BY <1>2, <1>3, <1>4, <1>5
  DEF D!Fits, D!HoldsInScope, D!InScope, D!ResultFits, D!TaskFits, D!Tasks
<1>7. \A d \in Execs \ {e} : DurableSameExec(d)
  BY <1>1 DEF D!Inv, D!TypeOK, DurableSameExec, D!Tell
<1> QED
  BY <1>1, <1>3, <1>4, <1>6, <1>7, DurableActivityInv DEF D!Inv, D!TypeOK

\* LeaveLock: every way out of the run passes the release, which may itself raise.
LEMMA DurableLeaveLockInv == ASSUME D!Inv, NEW e \in Execs, D!LeaveLock(e) PROVE D!Inv'
<1> USE DEF D!LeaveLock, D!Goto, D!Answer
<1>1. /\ DurableLockOK' /\ D!HoldersApart' /\ e \notin dHolders'
      /\ \A d \in Execs \ {e} : d \in dHolders' <=> d \in dHolders
  BY DurableFreeApart DEF D!Inv, D!TypeOK, DurableLockOK
<1>2. /\ \/ dResult[e] = "success" /\ dEvents[e] = <<"started", "completed">>
         \/ dResult[e] \in {"error", "raised"} /\ dEvents[e] = <<"started", "failed">>
      /\ dTask[e] \in D!Tasks
  BY DEF D!Inv, D!Fits, D!ResultFits, D!TaskFits
<1>3. /\ dPc'[e] = "reporting" /\ dTask'[e] = dTask[e] /\ dEvents'[e] = dEvents[e]
      /\ dResult'[e] = dResult[e] \/ dResult'[e] = "raised"
  BY DEF D!Inv, D!TypeOK
<1>4. D!Fits(e)'
  BY <1>1, <1>2, <1>3
  DEF D!Fits, D!HoldsInScope, D!InScope, D!ResultFits, D!Answered, D!TaskFits, D!Tasks
<1>5. \A d \in Execs \ {e} : DurableSameExec(d)
  BY DEF D!Inv, D!TypeOK, DurableSameExec
<1> QED
  BY <1>1, <1>4, <1>5, DurableActivityInv DEF D!Inv, D!TypeOK, Words

--------------------------------------------------------------------------------
\* The framework takes the answer, which is then that of a delivery that is over.
LEMMA DurableReportInv == ASSUME D!Inv, NEW e \in Execs, D!Report(e) PROVE D!Inv'
<1> USE DEF D!Report, D!Goto
<1>1. DurableLockOK' /\ D!HoldersApart' /\ dHolders' = dHolders
  BY DurableUnheldApart DEF D!Inv, D!TypeOK, DurableLockOK
<1>2. /\ dTask[e] \in D!Tasks /\ dResult[e] \in {"success", "error", "rejected", "raised"}
      /\ e \notin dHolders
  BY DEF D!Inv, D!TypeOK, D!Fits, D!HoldsInScope, D!InScope, D!ResultFits, D!TaskFits
<1>3. PICK i \in Ids, s \in 1..MaxStarts : dTask[e] = <<i, s>>
  BY <1>2 DEF D!Tasks
<1>4. /\ dTasks' \subseteq dTasks
      /\ \/ UNCHANGED <<dRuntime, dOutput>>
         \/ /\ dRuntime[i] = "Running" /\ dStarts[i] = s
            /\ IF dResult[e] = "raised"
               THEN dRuntime' = [dRuntime EXCEPT ![i] = "Failed"] /\ UNCHANGED dOutput
               ELSE /\ dRuntime' = [dRuntime EXCEPT ![i] = "Completed"]
                    /\ dOutput' = [dOutput EXCEPT ![i] = dResult[e]]
  BY <1>3
<1>5. D!TypeOK'
  <2>1. /\ dRuntime' \in [Ids -> {"none", "Pending", "Running", "Completed", "Failed",
                                 "Terminated"}]
        /\ dOutput' \in [Ids -> {"none", "success", "error", "rejected"}]
    <3>1. CASE UNCHANGED <<dRuntime, dOutput>>
      BY <3>1 DEF D!Inv, D!TypeOK
    <3>2. CASE dRuntime' = [dRuntime EXCEPT ![i] = "Failed"] /\ UNCHANGED dOutput
      BY <3>2 DEF D!Inv, D!TypeOK
    <3>3. CASE /\ dRuntime' = [dRuntime EXCEPT ![i] = "Completed"]
               /\ dOutput' = [dOutput EXCEPT ![i] = dResult[e]] /\ dResult[e] # "raised"
      BY <1>2, <3>3 DEF D!Inv, D!TypeOK
    <3> QED
      BY <1>4, <3>1, <3>2, <3>3
  <2>2. dTasks' \subseteq D!Tasks
    BY <1>4 DEF D!Inv, D!TypeOK
  <2> QED
    BY <1>1, <2>1, <2>2 DEF D!Inv, D!TypeOK, DurableLockOK, D!Tasks
<1>6. dPc'[e] = "done" /\ \A d \in Execs \ {e} : DurableSameExec(d)
  BY DEF D!Inv, D!TypeOK, DurableSameExec
<1>7. D!Fits(e)'
  BY <1>1, <1>2, <1>6
  DEF D!Inv, D!Fits, D!HoldsInScope, D!InScope, D!ResultFits, D!Answered, D!TaskFits, D!Tasks
<1>8. \A d \in Execs : dPc[d] = "done" =>
        dPc'[d] = "done" /\ dTask'[d] = dTask[d] /\ dResult'[d] = dResult[d]
  BY <1>6 DEF DurableSameExec
<1>9. ASSUME NEW k \in Ids PROVE D!WasStarted(k)' /\ D!AnsweredBy(k)'
  <2>1. CASE dRuntime'[k] = dRuntime[k] /\ dOutput'[k] = dOutput[k]
    BY <1>8, <2>1, DurableAnswersStay DEF D!Inv
  <2>2. CASE ~(dRuntime'[k] = dRuntime[k] /\ dOutput'[k] = dOutput[k])
    <3>1. k = i /\ dRuntime[i] = "Running" /\ dStarts[i] = s
      BY <1>4, <2>2 DEF D!Inv, D!TypeOK
    <3>2. \/ dResult[e] = "raised" /\ dRuntime'[i] = "Failed"
          \/ dResult[e] # "raised" /\ dRuntime'[i] = "Completed" /\ dOutput'[i] = dResult[e]
      BY <1>4, <2>2, <3>1 DEF D!Inv, D!TypeOK
    <3>3. D!DeliveryOf(e, i)' /\ dResult'[e] = dResult[e]
      BY <1>3, <1>6, <3>1 DEF D!DeliveryOf
    <3>4. D!WasStarted(i)'
      BY <3>1 DEF D!Inv, D!WasStarted
    <3>5. D!AnsweredBy(i)'
      BY <1>2, <3>2, <3>3 DEF D!AnsweredBy, D!OverBy
    <3> QED
      BY <3>1, <3>4, <3>5
  <2> QED
    BY <2>1, <2>2
<1>10. \A d \in Execs : D!Fits(d)'
  BY <1>1, <1>6, <1>7, DurableOthersFit DEF D!Inv
<1> QED
  BY <1>1, <1>5, <1>9, <1>10 DEF D!Inv

\* The backend loses the lock, or reports the loss; no delivery moves.
LEMMA DurableLossInv == ASSUME D!Inv, NEW e \in Execs, D!LockFails(e) PROVE D!Inv'
<1> USE DEF D!LockFails, D!clientVars, D!activityVars
<1>1. DurableLockOK' /\ D!HoldersApart' /\ dHolders' = dHolders
  BY DurableLossApart DEF D!Inv, D!TypeOK, DurableLockOK
<1>2. D!TypeOK'
  BY <1>1 DEF D!Inv, D!TypeOK, DurableLockOK
<1>3. \A d \in Execs : D!Fits(d)'
  BY <1>1, DurableOthersFit DEF D!Inv, DurableSameExec
<1>4. \A i \in Ids : D!WasStarted(i)' /\ D!AnsweredBy(i)'
  BY DurableAnswersStay DEF D!Inv
<1> QED
  BY <1>1, <1>2, <1>3, <1>4 DEF D!Inv

\* A host dies with the deliveries it is at.
LEMMA DurableCrashInv == ASSUME D!Inv, NEW h \in Dying, D!Crash(h) PROVE D!Inv'
<1> DEFINE dead == {e \in Execs : HostOfExec[e] = h /\ dPc[e] \notin {"idle", "done"}}
<1>1. /\ dPc' = [e \in Execs |-> IF e \in dead THEN "done" ELSE dPc[e]]
      /\ dResult' = [e \in Execs |-> IF e \in dead THEN "raised" ELSE dResult[e]]
      /\ dHolders' = dHolders \ dead /\ dLapsed' = dLapsed \ dead /\ dReported' = dReported \ dead
      /\ UNCHANGED <<dLocks, D!clientVars, dTask, dEvents>>
  BY DEF D!Crash
<1>2. \A e \in dead : e \in Execs /\ dPc[e] \notin {"idle", "done"}
  OBVIOUS
<1> HIDE DEF dead
<1> USE DEF D!clientVars
<1>3. D!TypeOK' /\ D!HoldersApart'
  BY <1>1 DEF D!Inv, D!TypeOK, D!HoldersApart, D!Tasks
<1>4. \A e \in Execs : D!Fits(e)'
  <2>1. ASSUME NEW e \in Execs, e \notin dead PROVE D!Fits(e)'
    <3>1. DurableSameExec(e) /\ (e \in dHolders' <=> e \in dHolders) /\ dLocks' = dLocks
      BY <1>1, <2>1 DEF DurableSameExec
    <3> QED
      BY <3>1, DurableOthersFit DEF D!Inv
  <2>2. ASSUME NEW e \in Execs, e \in dead PROVE D!Fits(e)'
    <3>1. dPc'[e] = "done" /\ dResult'[e] = "raised" /\ e \notin dHolders' /\ dTask'[e] = dTask[e]
      BY <1>1, <2>2
    <3>2. dTask[e] \in D!Tasks
      BY <1>2, <2>2 DEF D!Inv, D!Fits, D!TaskFits
    <3> QED
      BY <3>1, <3>2
      DEF D!Fits, D!HoldsInScope, D!InScope, D!ResultFits, D!Answered, D!TaskFits, D!Tasks
  <2> QED
    BY <2>1, <2>2
<1>5. \A e \in Execs : dPc[e] = "done" =>
        dPc'[e] = "done" /\ dTask'[e] = dTask[e] /\ dResult'[e] = dResult[e]
  BY <1>1, <1>2
<1>6. \A i \in Ids : D!WasStarted(i)' /\ D!AnsweredBy(i)'
  BY <1>1, <1>5, DurableAnswersStay DEF D!Inv
<1> QED
  BY <1>3, <1>4, <1>6 DEF D!Inv

\* Every step keeps the invariant.
LEMMA DurableNextInv ==
  ASSUME D!StartsPositive
  PROVE  D!Inv /\ [D!Next]_(D!vars) => D!Inv'
<1> SUFFICES ASSUME D!Inv, [D!Next]_(D!vars) PROVE D!Inv'
  OBVIOUS
<1>1. ASSUME NEW e \in Execs, D!ExecuteRun(e) PROVE D!Inv'
  BY <1>1, DurableTakeLockInv, DurableGraphInv, DurableLeaveLockInv DEF D!ExecuteRun
<1>2. CASE UNCHANGED D!vars
  <2> USE <1>2 DEF D!vars, D!clientVars
  <2>1. \A i \in Ids : D!WasStarted(i)' /\ D!AnsweredBy(i)'
    BY DurableAnswersStay DEF D!Inv, D!activityVars
  <2> QED
    BY <2>1, DurableClientInv DEF D!Inv, D!TypeOK
<1> QED
  BY <1>1, <1>2, DurableCreateRunInv, DurableCancelRunInv, DurableTerminateInv,
     DurableOrchestrateInv, DurableDispatchInv,
     DurableReportInv, DurableLossInv, DurableCrashInv DEF D!Next

\* The inductive invariant of durable runs.
THEOREM DurableInvariance == ASSUME D!StartsPositive PROVE D!Spec => []D!Inv
BY DurableInitInv, DurableNextInv, PTL DEF D!Spec

\* Two locked activities overlap only across hosts and after a lapse.
LEMMA DurableApart == D!Inv => D!OneExecution
BY DEF D!Inv, D!Fits, D!HoldsInScope, D!InScope, D!HoldersApart, D!Executing, D!OneExecution

\* A delivery that is over holds no lock.
LEMMA DurableGivenBack == D!Inv => D!NoLockKept
BY DEF D!Inv, D!Fits, D!HoldsInScope, D!InScope, D!NoLockKept

\* An answer that is reported agrees with what the observer was told.
LEMMA DurableAgree == D!Inv => D!ActivityTruthful
<1> SUFFICES ASSUME D!Inv, NEW e \in Execs, dPc[e] = "reporting"
             PROVE  CASE dResult[e] = "success" -> dEvents[e] = <<"started", "completed">>
                      [] dResult[e] = "error" -> dEvents[e] \in {<<"started", "failed">>, <<>>}
                      [] dResult[e] = "rejected" -> dEvents[e] = <<"rejected">>
                      [] OTHER -> dEvents[e] \in {<<"started", "failed">>,
                                                 <<"started", "completed">>, <<>>}
  BY DEF D!ActivityTruthful
<1>1. D!Answered(e) /\ dResult[e] \in {"success", "error", "rejected", "raised"}
      /\ (dResult[e] = "raised" =>
            dEvents[e] \in {<<"started", "failed">>, <<"started", "completed">>, <<>>})
  BY DEF D!Inv, D!TypeOK, D!Fits, D!ResultFits
<1> QED
  BY <1>1 DEF D!Answered

\* A status of "success" or "error" is the answer of one delivery.
LEMMA DurableStatusAgrees == D!Inv => D!StatusTruthful
<1> SUFFICES ASSUME D!Inv, NEW i \in Ids
             PROVE  /\ D!GetRun(i) = "success" =>
                         \E e \in Execs : D!DeliveryOf(e, i) /\ dEvents[e] = <<"started", "completed">>
                    /\ D!GetRun(i) = "error" =>
                         \E e \in Execs : /\ D!DeliveryOf(e, i)
                                          /\ dResult[e] \in {"error", "rejected", "raised"}
  BY DEF D!StatusTruthful
<1>1. ASSUME NEW e \in Execs, D!DeliveryOf(e, i), dResult[e] = "success"
      PROVE  dEvents[e] = <<"started", "completed">>
  BY <1>1 DEF D!Inv, D!Fits, D!ResultFits, D!Answered, D!DeliveryOf
<1>2. CASE dRuntime[i] = "Completed" /\ dOutput[i] = "success"
  <2>1. D!OverBy(i, "success")
    BY <1>2 DEF D!Inv, D!AnsweredBy
  <2>2. D!GetRun(i) = "success"
    BY <1>2 DEF D!GetRun, D!NormalizeStatus
  <2> QED
    BY <1>1, <2>1, <2>2 DEF D!OverBy
<1>3. CASE dRuntime[i] = "Completed" /\ dOutput[i] \in {"error", "rejected"}
  <2>1. D!OverBy(i, dOutput[i])
    BY <1>3 DEF D!Inv, D!AnsweredBy
  <2>2. D!GetRun(i) = "error"
    BY <1>3 DEF D!GetRun, D!NormalizeStatus
  <2> QED
    BY <1>3, <2>1, <2>2 DEF D!OverBy
<1>4. CASE dRuntime[i] = "Failed"
  <2>1. D!OverBy(i, "raised")
    BY <1>4 DEF D!Inv, D!AnsweredBy
  <2>2. D!GetRun(i) = "error"
    BY <1>4 DEF D!GetRun, D!NormalizeStatus
  <2> QED
    BY <2>1, <2>2 DEF D!OverBy
<1>5. CASE dRuntime[i] \in {"none", "Pending", "Running", "Terminated"}
  <2>1. D!GetRun(i) \in {"404", "pending", "running", "cancelled"}
    BY <1>5 DEF D!GetRun, D!NormalizeStatus
  <2> QED
    BY <2>1
<1> QED
  BY <1>2, <1>3, <1>4, <1>5 DEF D!Inv, D!TypeOK, D!AnsweredBy

\* What the observer is told of e in a step in which e does not complete.
DurableQuiet(e) ==
  \/ dEvents'[e] = dEvents[e]
  \/ \E w \in Words \ {"completed"} : dEvents'[e] = Append(dEvents[e], w)

LEMMA DurableQuietIsNotTold ==
  ASSUME D!TypeOK, NEW e \in Execs, DurableQuiet(e)
  PROVE  ~D!Tell(e, "completed")
BY NotCompleted DEF D!TypeOK, D!Tell, DurableQuiet, Words

\* A step that e has no part in leaves it as doomed as it was.
DurableBystander(e) ==
  /\ dPc'[e] = dPc[e] /\ dResult'[e] = dResult[e] /\ dEvents'[e] = dEvents[e]
  /\ e \in dReported => e \in dReported'

LEMMA DurableOthersDoomed ==
  ASSUME D!Inv, NEW d \in Execs, NEW e \in Execs, d # e,
         D!ExecuteRun(d) \/ D!Dispatch(d) \/ D!Report(d)
  PROVE  DurableBystander(e)
<1> USE DEF DurableBystander, D!Inv, D!TypeOK, D!lockVars, D!Goto, D!Tell, D!Answer, D!Free,
            D!Lock!Acquire, D!Lock!Refuse, D!Lock!Release, D!Lock!runLockVars
<1>1. CASE D!Dispatch(d) \/ D!Report(d)
  BY <1>1 DEF D!Dispatch, D!Report
<1>2. CASE D!TakeLock(d)
  BY <1>2 DEF D!TakeLock, D!Start, D!Reject
<1>3. CASE D!GraphEnds(d) \/ D!GraphFails(d) \/ D!LeaveLock(d)
  BY <1>3 DEF D!GraphEnds, D!GraphFails, D!LeaveLock
<1> QED
  BY <1>1, <1>2, <1>3 DEF D!ExecuteRun

\* A loss that is known is found by GraphEnds, if nothing else ends the run before;
\* what was answered instead may only become an exception.
LEMMA DurableLossStep ==
  ASSUME D!Inv, [D!Next]_(D!vars), NEW e \in Execs, D!Doomed(e)
  PROVE  D!Doomed(e)' /\ ~D!Tell(e, "completed") /\ ~D!Reports(e, "success")
<1> USE DEF D!Inv
<1>0. \/ dPc[e] = "running" /\ e \in dReported /\ ~D!GuardAgrees(e)
      \/ /\ dPc[e] \in {"leaving", "reporting", "done"}
         /\ dResult[e] \in {"error", "raised", "rejected"}
  <2>1. D!HoldsInScope(e) /\ D!ResultFits(e) /\ dPc[e] \in {"idle", "locking", "running",
           "leaving", "reporting", "done"}
    BY DEF D!Fits, D!TypeOK
  <2>2. CASE e \in dReported /\ dPc[e] = "running"
    BY <2>1, <2>2 DEF D!TypeOK, D!HoldsInScope, D!GuardAgrees, D!Lock!Passes
  <2>3. CASE dResult[e] \in {"error", "raised", "rejected"}
    <3>1. dPc[e] \notin {"idle", "locking", "running"}
      BY <2>1, <2>3 DEF D!ResultFits
    <3> QED
      BY <2>1, <2>3, <3>1
  <2> QED
    BY <2>2, <2>3 DEF D!Doomed
<1>1. CASE DurableBystander(e)
  BY <1>0, <1>1, DurableQuietIsNotTold DEF D!Doomed, D!Reports, DurableBystander, DurableQuiet
<1>2. CASE UNCHANGED D!vars
  BY <1>1, <1>2 DEF DurableBystander, D!vars, D!lockVars, D!activityVars
<1>3. ASSUME NEW d \in Execs, D!LockFails(d)
      PROVE  DurableBystander(e)
  BY <1>3 DEF DurableBystander, D!LockFails, D!Lock!Lapse, D!Lock!Report, D!activityVars
<1>4. ASSUME NEW i \in Ids, D!CreateRun(i) \/ D!CancelRun(i) \/ D!Terminate(i) \/ D!Orchestrate(i)
      PROVE  DurableBystander(e)
  BY <1>4 DEF DurableBystander, D!CreateRun, D!CancelRun, D!Terminate, D!Orchestrate,
       D!activityVars, D!lockVars
<1>5. ASSUME DurableQuiet(e), dResult'[e] \in {"error", "raised", "rejected"},
             dPc[e] # "reporting" \/ dOutput' = dOutput
             \/ dOutput' # [dOutput EXCEPT ![dTask[e][1]] = "success"]
      PROVE  D!Doomed(e)' /\ ~D!Tell(e, "completed") /\ ~D!Reports(e, "success")
  BY <1>5, DurableQuietIsNotTold DEF D!Doomed, D!Reports
<1>6. CASE D!ExecuteRun(e) \/ D!Dispatch(e) \/ D!Report(e)
  <2> USE DEF D!TypeOK, D!Goto, D!Answer
  <2>1. CASE D!Dispatch(e) \/ D!TakeLock(e) \/ D!GraphEnds(e)
    BY <1>0, <2>1 DEF D!Dispatch, D!TakeLock, D!GraphEnds
  <2>2. CASE D!GraphFails(e)
    <3>1. DurableQuiet(e)
      BY <2>2 DEF D!GraphFails, D!Tell, DurableQuiet, Words
    <3> QED
      BY <1>5, <2>2, <3>1 DEF D!GraphFails
  <2>3. CASE D!LeaveLock(e)
    <3>1. dResult[e] \in {"error", "raised", "rejected"}
      BY <1>0, <2>3 DEF D!LeaveLock
    <3> QED
      BY <1>5, <2>3, <3>1 DEF D!LeaveLock, DurableQuiet
  <2>4. CASE D!Report(e)
    <3>1. /\ dResult[e] \in {"error", "raised", "rejected"} /\ dResult' = dResult
          /\ dEvents' = dEvents
      BY <1>0, <2>4 DEF D!Report
    <3>2. dTask[e][1] \in Ids
      BY <2>4 DEF D!Report, D!Fits, D!TaskFits, D!Tasks
    <3>3. dOutput' = dOutput \/ dOutput'[dTask[e][1]] = dResult[e]
      BY <2>4, <3>2 DEF D!Report
    <3> QED
      BY <1>5, <3>1, <3>2, <3>3 DEF DurableQuiet
  <2> QED
    BY <1>6, <2>1, <2>2, <2>3, <2>4 DEF D!ExecuteRun
<1>7. ASSUME NEW d \in Execs, D!ExecuteRun(d) \/ D!Dispatch(d) \/ D!Report(d)
      PROVE  d = e \/ DurableBystander(e)
  BY <1>7, DurableOthersDoomed
<1>8. ASSUME NEW h \in Dying, D!Crash(h)
      PROVE  DurableBystander(e) \/ (/\ DurableQuiet(e) /\ dOutput' = dOutput
                                     /\ dResult'[e] \in {"error", "raised", "rejected"})
  <2>1. dEvents' = dEvents /\ dOutput' = dOutput
    BY <1>8 DEF D!Crash, D!clientVars
  <2>2. CASE HostOfExec[e] = h /\ dPc[e] # "done"
    BY <1>0, <1>8, <2>1, <2>2 DEF D!Crash, DurableQuiet
  <2>3. CASE HostOfExec[e] # h \/ dPc[e] = "done"
    BY <1>8, <2>1, <2>3 DEF D!Crash, DurableBystander
  <2> QED
    BY <2>2, <2>3
<1> QED
  BY <1>1, <1>2, <1>3, <1>4, <1>5, <1>6, <1>7, <1>8 DEF D!Next

\* LostIsNotSuccess: an activity whose loss is known does not answer "success", and
\* what it reports makes no run one.
THEOREM DurableLossTold == ASSUME D!StartsPositive PROVE D!Spec => D!LostIsNotSuccess
<1>1. D!Inv /\ [D!Next]_(D!vars) =>
        [\A e \in Execs : D!Doomed(e) =>
            D!Doomed(e)' /\ ~D!Tell(e, "completed") /\ ~D!Reports(e, "success")]_(D!vars)
  BY DurableLossStep
<1> QED
  BY <1>1, DurableInvariance, PTL DEF D!Spec, D!LostIsNotSuccess

\* Every step takes, frees, loses or leaves alone the lock as RunLock allows.
LEMMA DurableNextUsesLock ==
  ASSUME D!Inv, [D!Next]_(D!vars)
  PROVE  [D!Lock!Next \/ D!Lock!AtOnce]_(D!Lock!runLockVars)
<1> USE DEF D!Lock!Next, D!Lock!AtOnce, D!Lock!runLockVars, D!lockVars
<1>1. ASSUME NEW e \in Execs, D!ExecuteRun(e) \/ D!Dispatch(e) \/ D!Report(e)
      PROVE  UNCHANGED D!lockVars \/ D!Lock!Acquire(e) \/ D!Lock!Release(e)
  BY <1>1
  DEF D!ExecuteRun, D!TakeLock, D!GraphEnds, D!GraphFails, D!LeaveLock, D!Free, D!Dispatch,
     D!Report, D!Lock!Refuse
<1>2. ASSUME NEW i \in Ids, D!CreateRun(i) \/ D!CancelRun(i) \/ D!Terminate(i) \/ D!Orchestrate(i)
      PROVE  UNCHANGED D!lockVars
  BY <1>2 DEF D!CreateRun, D!CancelRun, D!Terminate, D!Orchestrate
<1>3. ASSUME NEW e \in Execs, D!LockFails(e) PROVE D!Lock!Lapse(e) \/ D!Lock!Report(e)
  BY <1>3 DEF D!LockFails
<1>4. ASSUME NEW h \in Dying, D!Crash(h) PROVE UNCHANGED D!lockVars \/ D!Lock!Vanish
  BY <1>4 DEF D!Crash, D!Inv, D!TypeOK, D!Lock!Vanish
<1> QED
  BY <1>1, <1>2, <1>3, <1>4 DEF D!Next, D!vars

\* The activities of durable runs are users of a RunLock.
THEOREM DurableLockUsed == ASSUME D!StartsPositive PROVE D!Spec => D!Lock!Spec
<1>1. D!Init => D!Lock!Init
  BY DEF D!Init
<1> QED
  BY <1>1, DurableNextUsesLock, DurableInvariance, PTL DEF D!Spec, D!Lock!Spec

--------------------------------------------------------------------------------
(***************************************************************************)
(* The composition. A step of it is a step of one component and leaves the *)
(* others alone, so a behaviour of it is one of each of them.              *)
(***************************************************************************)
\* Init of the composition is that of every component.
LEMMA LockedInitIsEach == LockedInit => Init /\ N!Init /\ B!Init /\ D!Init
BY DEF LockedInit

\* A component's variables are among those that the others leave alone.
LEMMA LockedNextIsEach ==
  [LockedNext]_<<component, vars, nVars, bVars, dVars>> =>
    [Next]_vars /\ [N!Next]_(N!vars) /\ [B!Next]_(B!vars) /\ [D!Next]_(D!vars)
<1>1. UNCHANGED nVars => UNCHANGED N!vars
  BY DEF nVars, N!vars, N!lockVars, N!bodyVars
<1>2. UNCHANGED bVars => UNCHANGED B!vars
  BY DEF bVars, B!vars, B!lockVars, B!inputVars, B!brokerVars
<1>3. UNCHANGED dVars => UNCHANGED D!vars
  BY DEF dVars, D!vars, D!lockVars, D!clientVars, D!activityVars
<1> QED
  BY <1>1, <1>2, <1>3 DEF LockedNext

\* The composition implements each of its components.
THEOREM LockedIsEach == LockedSpec => Spec /\ N!Spec /\ B!Spec /\ D!Spec
BY LockedInitIsEach, LockedNextIsEach, PTL DEF LockedSpec, Spec, N!Spec, B!Spec, D!Spec

\* The inductive invariants of the four, together.
THEOREM LockedInvariance == LockedSpec => [](Inv /\ N!Inv /\ B!Inv /\ D!Inv)
<1>1. N!Spec => []N!Inv
  BY NativeInvariance, NativeLimits
<1>2. B!Spec => []B!Inv
  BY BusInvariance, BusLimits
<1>3. D!Spec => []D!Inv
  BY DurableInvariance, DurableLimits
<1> QED
  BY <1>1, <1>2, <1>3, LockedIsEach, Invariance, PTL

\* Whichever component runs, it uses the lock as RunLock allows, and so may have
\* the Blob lease lock for it, which implements RunLock (locks/base.py).
THEOREM LocksAreUsed == LockedSpec => Lock!Spec /\ N!Lock!Spec /\ B!Lock!Spec /\ D!Lock!Spec
<1>1. N!Spec => N!Lock!Spec
  BY NativeLockUsed, NativeLimits
<1>2. B!Spec => B!Lock!Spec
  BY BusLockUsed, BusLimits
<1>3. D!Spec => D!Lock!Spec
  BY DurableLockUsed, DurableLimits
<1> QED
  BY <1>1, <1>2, <1>3, LockedIsEach, LockUsed

\* ExecutionsExclude: executions of one thread exclude each other, in one host
\* always and across hosts until a lock lapses, in every component.
THEOREM ExecutionsAreExclusive == LockedSpec => []ExecutionsExclude
<1>1. Inv => OneExecution
  BY ApartInv
<1>2. B!Inv => B!OneExecution
  BY BusApart, BusLimits
<1>3. Inv /\ N!Inv /\ B!Inv /\ D!Inv => ExecutionsExclude
  BY <1>1, <1>2, NativeApart, DurableApart DEF ExecutionsExclude
<1> QED
  BY <1>3, LockedInvariance, PTL

\* LocksGivenBack: no way out of a handler, a delivery or an activity keeps the
\* thread's lock.
THEOREM LocksAreGivenBack == LockedSpec => []LocksGivenBack
<1>1. Inv /\ N!Inv /\ B!Inv /\ D!Inv => LocksGivenBack
  BY GivenBackInv, NativeGivenBack, BusGivenBack, DurableGivenBack DEF LocksGivenBack
<1> QED
  BY <1>1, LockedInvariance, PTL

\* OneTerminalEvent: the observer hears exactly once how a run that started and is
\* over has ended; not at all only of a run whose host died, and of an async native
\* run that was cancelled or whose generator cleanup raised.
THEOREM TerminalEventIsOne == LockedSpec => []OneTerminalEvent
<1>1. Inv /\ N!Inv /\ B!Inv /\ D!Inv => OneTerminalEvent
  BY TerminalInv, NativeOneTerminal, BusOneTerminal DEF OneTerminalEvent
<1> QED
  BY <1>1, LockedInvariance, PTL

\* ToldAlike: frames, statuses and outputs say what the observer was told.
THEOREM AllAreToldAlike == LockedSpec => []ToldAlike
<1>1. Inv /\ N!Inv /\ B!Inv /\ D!Inv => ToldAlike
  BY AgreesInv, NativeAgree, DurableAgree, DurableStatusAgrees DEF ToldAlike
<1> QED
  BY <1>1, LockedInvariance, PTL

\* SettledRan: a message leaves the queue as settled only after a completed run.
THEOREM SettledWereRun == LockedSpec => []SettledRan
<1>1. B!Inv => SettledRan
  BY BusSettledAfterRun DEF SettledRan
<1> QED
  BY <1>1, LockedInvariance, PTL

\* LossIsNoSuccess: in no component, and in none of the endpoints of one, is a run
\* whose lock was known to be lost while its graph was at work ever told to have
\* completed, handed on, settled or reported as a success.
THEOREM LossIsNeverSuccess == LockedSpec => LossIsNoSuccess
<1>1. N!Spec => N!LostIsNotCompleted
  BY NativeLossTold, NativeLimits
<1>2. B!Spec => B!LostIsNotHandled
  BY BusLossTold, BusLimits
<1>3. D!Spec => D!LostIsNotSuccess
  BY DurableLossTold, DurableLimits
<1> QED
  BY <1>1, <1>2, <1>3, LockedIsEach, LossIsTold DEF LossIsNoSuccess
================================================================================
