------------------------- MODULE AsyncThreadLock_proofs -------------------------
(***************************************************************************)
(* Proofs about the async callers of a thread lock, for any tasks, any     *)
(* size of the executor, and any number of cancellations and graph calls.  *)
(* A step of one task changes another one's nothing but, with the lock,    *)
(* whether it is free: the invariant is about one task at a time.          *)
(***************************************************************************)
EXTENDS AsyncThreadLock, TLAPS

Made(t, k) == job[t][k] # "no"

Over(t, k) == job[t][k] \in {"no", "done"}

\* Where a task is tells which of its calls have been made.
CallsFollowPc(t) ==
  /\ pc[t] = "start" => ~Made(t, "acquire") /\ ~Made(t, "work") /\ ~Made(t, "release")
  /\ pc[t] = "acquiring" => Made(t, "acquire") /\ ~Made(t, "work") /\ ~Made(t, "release")
  /\ pc[t] \in {"body", "working"} => ~Made(t, "release")
  /\ pc[t] \notin {"start", "acquiring"} => Over(t, "acquire")
  /\ pc[t] # "working" => Over(t, "work")
  /\ pc[t] = "done" => Over(t, "release")

\* Who owns the lock has been answered a token and not given it back.
OwnerIsKnown(t) ==
  owner = t =>
    /\ job[t]["acquire"] = "done" /\ answer[t]["acquire"] = "token"
    /\ pc[t] \in {"acquiring", "body", "working", "releasing", "undoing"}
    /\ pc[t] \in {"releasing", "undoing"} => job[t]["release"] \in {"queued", "running"}

\* Who was answered a token and has not begun to give it back owns the lock.
HolderOwns(t) ==
  \/ pc[t] \in {"body", "working"}
  \/ pc[t] = "acquiring" /\ job[t]["acquire"] = "done" /\ answer[t]["acquire"] = "token"
  => owner = t

\* A cancellation is on its way, remembered, or has decided how the task ends.
CancelsCounted(t) ==
  /\ cancels[t] > 0 /\ pc[t] # "done" =>
       \/ thrown[t] \/ heard[t] \/ pc[t] = "undoing"
       \/ pc[t] = "releasing" /\ exit[t] = "cancelled"
  /\ heard[t] => pc[t] \notin {"start", "body"}
  /\ pc[t] = "done" /\ cancels[t] > 0 => exit[t] = "cancelled"

Good(t) == CallsFollowPc(t) /\ OwnerIsKnown(t) /\ HolderOwns(t) /\ CancelsCounted(t)

Inv == TypeOK /\ \A t \in Tasks : Good(t)

--------------------------------------------------------------------------------
\* The executor, the task and the lock leave the others' part of the state alone.
LEMMA OthersGood ==
  ASSUME NEW u \in Tasks, Good(u),
         pc'[u] = pc[u], job'[u] = job[u], answer'[u] = answer[u], thrown'[u] = thrown[u],
         heard'[u] = heard[u], exit'[u] = exit[u], cancels'[u] = cancels[u],
         owner' = owner \/ (owner # u /\ owner' # u)
  PROVE  Good(u)'
BY DEF Good, CallsFollowPc, OwnerIsKnown, HolderOwns, CancelsCounted, Made, Over

\* Init: no task has begun.
LEMMA InvInit == ASSUME NoneIsNoTask, BoundsNat, Init PROVE Inv
BY DEF NoneIsNoTask, BoundsNat, Init, Inv, TypeOK, Good, CallsFollowPc, OwnerIsKnown, HolderOwns,
       CancelsCounted, Made, Over, Kinds, Points

\* Await: the task's next call is queued, and nothing is remembered.
LEMMA AwaitIs ==
  ASSUME TypeOK, NEW t \in Tasks, NEW p \in Points, NEW k \in Kinds, Await(t, p, k)
  PROVE  /\ pc' \in [Tasks -> Points] /\ heard' \in [Tasks -> BOOLEAN]
         /\ job' \in [Tasks -> [Kinds -> {"no", "queued", "running", "done"}]]
         /\ pc'[t] = p /\ heard'[t] = FALSE /\ job'[t][k] = "queued"
         /\ \A l \in Kinds \ {k} : job'[t][l] = job[t][l]
         /\ \A u \in Tasks \ {t} : pc'[u] = pc[u] /\ job'[u] = job[u] /\ heard'[u] = heard[u]
BY DEF TypeOK, Await

\* Await of one call: the other two are as they were.
LEMMA AwaitAcquireIs ==
  ASSUME TypeOK, NEW t \in Tasks, NEW p \in Points, Await(t, p, "acquire")
  PROVE  /\ pc' \in [Tasks -> Points] /\ heard' \in [Tasks -> BOOLEAN]
         /\ job' \in [Tasks -> [Kinds -> {"no", "queued", "running", "done"}]]
         /\ pc'[t] = p /\ heard'[t] = FALSE /\ job'[t]["acquire"] = "queued"
         /\ job'[t]["work"] = job[t]["work"] /\ job'[t]["release"] = job[t]["release"]
         /\ \A u \in Tasks \ {t} : pc'[u] = pc[u] /\ job'[u] = job[u] /\ heard'[u] = heard[u]
<1>1. "acquire" \in Kinds /\ "work" \in Kinds \ {"acquire"} /\ "release" \in Kinds \ {"acquire"}
  BY DEF Kinds
<1>2. \A l \in Kinds \ {"acquire"} : job'[t][l] = job[t][l]
  BY <1>1, AwaitIs
<1>3. job'[t]["work"] = job[t]["work"] /\ job'[t]["release"] = job[t]["release"]
  BY <1>1, <1>2
<1> QED BY <1>1, <1>3, AwaitIs

\* The same of the graph call.
LEMMA AwaitWorkIs ==
  ASSUME TypeOK, NEW t \in Tasks, NEW p \in Points, Await(t, p, "work")
  PROVE  /\ pc' \in [Tasks -> Points] /\ heard' \in [Tasks -> BOOLEAN]
         /\ job' \in [Tasks -> [Kinds -> {"no", "queued", "running", "done"}]]
         /\ pc'[t] = p /\ heard'[t] = FALSE /\ job'[t]["work"] = "queued"
         /\ job'[t]["acquire"] = job[t]["acquire"] /\ job'[t]["release"] = job[t]["release"]
         /\ \A u \in Tasks \ {t} : pc'[u] = pc[u] /\ job'[u] = job[u] /\ heard'[u] = heard[u]
<1>1. "work" \in Kinds /\ "acquire" \in Kinds \ {"work"} /\ "release" \in Kinds \ {"work"}
  BY DEF Kinds
<1>2. \A l \in Kinds \ {"work"} : job'[t][l] = job[t][l]
  BY <1>1, AwaitIs
<1>3. job'[t]["acquire"] = job[t]["acquire"] /\ job'[t]["release"] = job[t]["release"]
  BY <1>1, <1>2
<1> QED BY <1>1, <1>3, AwaitIs

\* The same of the release.
LEMMA AwaitReleaseIs ==
  ASSUME TypeOK, NEW t \in Tasks, NEW p \in Points, Await(t, p, "release")
  PROVE  /\ pc' \in [Tasks -> Points] /\ heard' \in [Tasks -> BOOLEAN]
         /\ job' \in [Tasks -> [Kinds -> {"no", "queued", "running", "done"}]]
         /\ pc'[t] = p /\ heard'[t] = FALSE /\ job'[t]["release"] = "queued"
         /\ job'[t]["acquire"] = job[t]["acquire"] /\ job'[t]["work"] = job[t]["work"]
         /\ \A u \in Tasks \ {t} : pc'[u] = pc[u] /\ job'[u] = job[u] /\ heard'[u] = heard[u]
<1>1. "release" \in Kinds /\ "acquire" \in Kinds \ {"release"} /\ "work" \in Kinds \ {"release"}
  BY DEF Kinds
<1>2. \A l \in Kinds \ {"release"} : job'[t][l] = job[t][l]
  BY <1>1, AwaitIs
<1>3. job'[t]["acquire"] = job[t]["acquire"] /\ job'[t]["work"] = job[t]["work"]
  BY <1>1, <1>2
<1> QED BY <1>1, <1>3, AwaitIs

\* End: the task is done, as it says.
LEMMA EndIs ==
  ASSUME TypeOK, NEW t \in Tasks, NEW how, End(t, how),
         how \in {"returned", "raised", "refused", "cancelled", "no"}
  PROVE  /\ pc' \in [Tasks -> Points] /\ job' = job /\ heard' = heard
         /\ exit' \in [Tasks -> {"no", "returned", "raised", "refused", "cancelled"}]
         /\ pc'[t] = "done" /\ exit'[t] = how
         /\ \A u \in Tasks \ {t} : pc'[u] = pc[u] /\ exit'[u] = exit[u]
BY DEF TypeOK, End, Points

\* Ends: a call of the executor returns its answer.
LEMMA EndsIs ==
  ASSUME TypeOK, NEW t \in Tasks, NEW k \in Kinds, NEW a \in {"none", "token", "ok", "raised"},
         Ends(t, k, a)
  PROVE  /\ job' \in [Tasks -> [Kinds -> {"no", "queued", "running", "done"}]]
         /\ answer' \in [Tasks -> [Kinds -> {"none", "token", "ok", "raised"}]]
         /\ job[t][k] = "running" /\ job'[t][k] = "done" /\ answer'[t][k] = a
         /\ \A l \in Kinds \ {k} : job'[t][l] = job[t][l] /\ answer'[t][l] = answer[t][l]
         /\ \A u \in Tasks \ {t} : job'[u] = job[u] /\ answer'[u] = answer[u]
         /\ UNCHANGED <<pc, thrown, heard, exit, cancels, calls>>
BY DEF TypeOK, Ends

\* StartJob: a worker thread takes the call.
LEMMA StartJobKeepsInv ==
  ASSUME NoneIsNoTask, BoundsNat, Inv, NEW t \in Tasks, NEW k \in Kinds, StartJob(t, k)
  PROVE  Inv'
<1>1. TypeOK'
  BY DEF Inv, TypeOK, NoneIsNoTask, BoundsNat, StartJob, Kinds, Points
<1>2. Good(t)'
  BY DEF Inv, TypeOK, Good, CallsFollowPc, OwnerIsKnown, HolderOwns, CancelsCounted, Made, Over,
         NoneIsNoTask, BoundsNat, StartJob, Kinds, Points
<1>3. ASSUME NEW u \in Tasks, u # t PROVE Good(u)'
  <2>1. Good(u) BY DEF Inv
  <2>2. /\ pc'[u] = pc[u] /\ job'[u] = job[u] /\ answer'[u] = answer[u]
        /\ thrown'[u] = thrown[u] /\ heard'[u] = heard[u] /\ exit'[u] = exit[u]
        /\ cancels'[u] = cancels[u] /\ (owner' = owner \/ (owner # u /\ owner' # u))
    BY <1>3 DEF Inv, TypeOK, NoneIsNoTask, StartJob
  <2> QED BY <2>1, <2>2, OthersGood
<1> QED BY <1>1, <1>2, <1>3 DEF Inv

\* AcquireEnds: the task that is answered a token is the owner.
LEMMA AcquireEndsKeepsInv ==
  ASSUME NoneIsNoTask, BoundsNat, Inv, NEW t \in Tasks, AcquireEnds(t)
  PROVE  Inv'
<1>1. PICK a \in {"token", "none", "raised"} :
        /\ Ends(t, "acquire", a)
        /\ IF a = "token" THEN owner = None /\ owner' = t ELSE owner' = owner
  BY DEF AcquireEnds
<1>2. /\ TypeOK /\ Good(t) /\ "acquire" \in Kinds /\ "work" \in Kinds /\ "release" \in Kinds
      /\ a \in {"none", "token", "ok", "raised"}
  BY DEF Inv, Kinds
<1>3. /\ job' \in [Tasks -> [Kinds -> {"no", "queued", "running", "done"}]]
      /\ answer' \in [Tasks -> [Kinds -> {"none", "token", "ok", "raised"}]]
      /\ job[t]["acquire"] = "running" /\ job'[t]["acquire"] = "done" /\ answer'[t]["acquire"] = a
      /\ job'[t]["work"] = job[t]["work"] /\ job'[t]["release"] = job[t]["release"]
      /\ \A u \in Tasks \ {t} : job'[u] = job[u] /\ answer'[u] = answer[u]
      /\ UNCHANGED <<pc, thrown, heard, exit, cancels, calls>>
  BY <1>1, <1>2, EndsIs DEF Kinds
<1>4. TypeOK' BY <1>1, <1>2, <1>3 DEF TypeOK
<1>5. pc[t] = "acquiring"
  BY <1>2, <1>3 DEF TypeOK, Points, Good, CallsFollowPc, Made, Over
<1>6. Good(t)'
  BY <1>1, <1>2, <1>3, <1>5 DEF NoneIsNoTask, Good, CallsFollowPc, OwnerIsKnown, HolderOwns, CancelsCounted, Made, Over
<1>7. ASSUME NEW u \in Tasks, u # t PROVE Good(u)'
  BY <1>1, <1>3, <1>7, OthersGood DEF NoneIsNoTask, Inv
<1> QED BY <1>4, <1>6, <1>7 DEF Inv

\* ReleaseEnds: the owner's release frees the lock.
LEMMA ReleaseEndsKeepsInv ==
  ASSUME NoneIsNoTask, BoundsNat, Inv, NEW t \in Tasks, ReleaseEnds(t)
  PROVE  Inv'
<1>1. TypeOK'
  BY DEF Inv, TypeOK, NoneIsNoTask, BoundsNat, ReleaseEnds, Ends, Kinds, Points
<1>2. Good(t)'
  BY DEF Inv, TypeOK, Good, CallsFollowPc, OwnerIsKnown, HolderOwns, CancelsCounted, Made, Over,
         NoneIsNoTask, BoundsNat, ReleaseEnds, Ends, Kinds, Points
<1>3. ASSUME NEW u \in Tasks, u # t PROVE Good(u)'
  <2>1. Good(u) BY DEF Inv
  <2>2. /\ pc'[u] = pc[u] /\ job'[u] = job[u] /\ answer'[u] = answer[u]
        /\ thrown'[u] = thrown[u] /\ heard'[u] = heard[u] /\ exit'[u] = exit[u]
        /\ cancels'[u] = cancels[u] /\ (owner' = owner \/ (owner # u /\ owner' # u))
    BY <1>3 DEF Inv, TypeOK, NoneIsNoTask, ReleaseEnds, Ends
  <2> QED BY <2>1, <2>2, OthersGood
<1> QED BY <1>1, <1>2, <1>3 DEF Inv

\* WorkEnds: the graph call returns.
LEMMA WorkEndsKeepsInv ==
  ASSUME NoneIsNoTask, BoundsNat, Inv, NEW t \in Tasks, WorkEnds(t)
  PROVE  Inv'
<1>1. TypeOK'
  BY DEF Inv, TypeOK, NoneIsNoTask, BoundsNat, WorkEnds, Ends, Kinds, Points
<1>2. Good(t)'
  BY DEF Inv, TypeOK, Good, CallsFollowPc, OwnerIsKnown, HolderOwns, CancelsCounted, Made, Over,
         NoneIsNoTask, BoundsNat, WorkEnds, Ends, Kinds, Points
<1>3. ASSUME NEW u \in Tasks, u # t PROVE Good(u)'
  <2>1. Good(u) BY DEF Inv
  <2>2. /\ pc'[u] = pc[u] /\ job'[u] = job[u] /\ answer'[u] = answer[u]
        /\ thrown'[u] = thrown[u] /\ heard'[u] = heard[u] /\ exit'[u] = exit[u]
        /\ cancels'[u] = cancels[u] /\ (owner' = owner \/ (owner # u /\ owner' # u))
    BY <1>3 DEF Inv, TypeOK, NoneIsNoTask, WorkEnds, Ends
  <2> QED BY <2>1, <2>2, OthersGood
<1> QED BY <1>1, <1>2, <1>3 DEF Inv

\* Cancel: the cancellation is on its way.
LEMMA CancelKeepsInv ==
  ASSUME NoneIsNoTask, BoundsNat, Inv, NEW t \in Tasks, Cancel(t)
  PROVE  Inv'
<1>1. TypeOK'
  BY DEF Inv, TypeOK, NoneIsNoTask, BoundsNat, Cancel, Kinds, Points
<1>2. Good(t)'
  BY DEF Inv, TypeOK, Good, CallsFollowPc, OwnerIsKnown, HolderOwns, CancelsCounted, Made, Over,
         NoneIsNoTask, BoundsNat, Cancel, Kinds, Points
<1>3. ASSUME NEW u \in Tasks, u # t PROVE Good(u)'
  <2>1. Good(u) BY DEF Inv
  <2>2. /\ pc'[u] = pc[u] /\ job'[u] = job[u] /\ answer'[u] = answer[u]
        /\ thrown'[u] = thrown[u] /\ heard'[u] = heard[u] /\ exit'[u] = exit[u]
        /\ cancels'[u] = cancels[u] /\ (owner' = owner \/ (owner # u /\ owner' # u))
    BY <1>3 DEF Inv, TypeOK, NoneIsNoTask, Cancel
  <2> QED BY <2>1, <2>2, OthersGood
<1> QED BY <1>1, <1>2, <1>3 DEF Inv

\* Hear: the cancellation is remembered.
LEMMA HearKeepsInv ==
  ASSUME NoneIsNoTask, BoundsNat, Inv, NEW t \in Tasks, Hear(t)
  PROVE  Inv'
<1>1. TypeOK'
  BY DEF Inv, TypeOK, NoneIsNoTask, BoundsNat, Hear, InCall, Kinds, Points
<1>2. Good(t)'
  BY DEF Inv, TypeOK, Good, CallsFollowPc, OwnerIsKnown, HolderOwns, CancelsCounted, Made, Over,
         NoneIsNoTask, BoundsNat, Hear, InCall, Kinds, Points
<1>3. ASSUME NEW u \in Tasks, u # t PROVE Good(u)'
  <2>1. Good(u) BY DEF Inv
  <2>2. /\ pc'[u] = pc[u] /\ job'[u] = job[u] /\ answer'[u] = answer[u]
        /\ thrown'[u] = thrown[u] /\ heard'[u] = heard[u] /\ exit'[u] = exit[u]
        /\ cancels'[u] = cancels[u] /\ (owner' = owner \/ (owner # u /\ owner' # u))
    BY <1>3 DEF Inv, TypeOK, NoneIsNoTask, Hear, InCall
  <2> QED BY <2>1, <2>2, OthersGood
<1> QED BY <1>1, <1>2, <1>3 DEF Inv

(***************************************************************************)
(* A step of a task from one await to the next: no more than the task's    *)
(* own part, and neither the lock nor an answer, changes.                  *)
(***************************************************************************)
OwnStep(t) ==
  /\ thrown' = [thrown EXCEPT ![t] = FALSE]
  /\ UNCHANGED <<owner, answer, cancels>>
  /\ \A u \in Tasks \ {t} : /\ pc'[u] = pc[u] /\ job'[u] = job[u]
                            /\ heard'[u] = heard[u] /\ exit'[u] = exit[u]

\* A task's own step concerns its own part of the invariant only.
LEMMA OwnStepKeepsInv ==
  ASSUME NoneIsNoTask, Inv, NEW t \in Tasks, TypeOK', OwnStep(t), Good(t)'
  PROVE  Inv'
<1>1. ASSUME NEW u \in Tasks, u # t PROVE Good(u)'
  <2>1. Good(u) BY DEF Inv
  <2>2. /\ pc'[u] = pc[u] /\ job'[u] = job[u] /\ answer'[u] = answer[u]
        /\ thrown'[u] = thrown[u] /\ heard'[u] = heard[u] /\ exit'[u] = exit[u]
        /\ cancels'[u] = cancels[u] /\ owner' = owner
    BY <1>1 DEF OwnStep, Inv, TypeOK
  <2> QED BY <2>1, <2>2, OthersGood
<1> QED BY <1>1 DEF Inv

\* Begin: the task submits its acquire, or was cancelled before.
LEMMA BeginKeepsInv ==
  ASSUME NoneIsNoTask, BoundsNat, Inv, NEW t \in Tasks, Begin(t)
  PROVE  Inv'
<1>1. TypeOK /\ Good(t) BY DEF Inv
<1>2. CASE ~thrown[t] /\ Await(t, "acquiring", "acquire") /\ UNCHANGED exit
  <2>1. "acquiring" \in Points BY DEF Points
  <2>2. /\ pc' \in [Tasks -> Points] /\ heard' \in [Tasks -> BOOLEAN]
        /\ job' \in [Tasks -> [Kinds -> {"no", "queued", "running", "done"}]]
        /\ pc'[t] = "acquiring" /\ heard'[t] = FALSE /\ job'[t]["acquire"] = "queued"
        /\ job'[t]["work"] = job[t]["work"] /\ job'[t]["release"] = job[t]["release"]
        /\ \A u \in Tasks \ {t} : pc'[u] = pc[u] /\ job'[u] = job[u] /\ heard'[u] = heard[u]
    BY <1>1, <1>2, <2>1, AwaitAcquireIs
  <2>3. TypeOK' BY <1>1, <1>2, <2>2 DEF TypeOK, Begin
  <2>4. OwnStep(t) BY <1>1, <1>2, <2>2 DEF OwnStep, Begin
  <2>5. Good(t)'
    BY <1>1, <1>2, <2>2 DEF Begin, TypeOK, Good, CallsFollowPc, OwnerIsKnown, HolderOwns, CancelsCounted, Made, Over
  <2> QED BY <2>3, <2>4, <2>5, OwnStepKeepsInv
<1>3. CASE thrown[t] /\ End(t, "cancelled")
  <2>1. /\ pc' \in [Tasks -> Points] /\ job' = job /\ heard' = heard
        /\ exit' \in [Tasks -> {"no", "returned", "raised", "refused", "cancelled"}]
        /\ pc'[t] = "done" /\ exit'[t] = "cancelled"
        /\ \A u \in Tasks \ {t} : pc'[u] = pc[u] /\ exit'[u] = exit[u]
    BY <1>1, <1>3, EndIs
  <2>2. TypeOK' BY <1>1, <2>1 DEF TypeOK, Begin
  <2>3. OwnStep(t) BY <2>1 DEF OwnStep, Begin
  <2>4. Good(t)'
    BY <1>1, <2>1 DEF Begin, TypeOK, Good, CallsFollowPc, OwnerIsKnown, HolderOwns, CancelsCounted, Made, Over
  <2> QED BY <2>2, <2>3, <2>4, OwnStepKeepsInv
<1> QED BY <1>2, <1>3 DEF Begin

\* Body: the graph is called, or the scope is left.
LEMMA BodyKeepsInv ==
  ASSUME NoneIsNoTask, BoundsNat, Inv, NEW t \in Tasks, Body(t)
  PROVE  Inv'
<1>1. TypeOK /\ Good(t) /\ pc[t] = "body" BY DEF Inv, Body
<1>2. CASE /\ ~thrown[t] /\ calls[t] < MaxCalls /\ calls' = [calls EXCEPT ![t] = @ + 1]
           /\ Await(t, "working", "work") /\ UNCHANGED exit
  <2>1. "working" \in Points BY DEF Points
  <2>2. /\ pc' \in [Tasks -> Points] /\ heard' \in [Tasks -> BOOLEAN]
        /\ job' \in [Tasks -> [Kinds -> {"no", "queued", "running", "done"}]]
        /\ pc'[t] = "working" /\ heard'[t] = FALSE /\ job'[t]["work"] = "queued"
        /\ job'[t]["acquire"] = job[t]["acquire"] /\ job'[t]["release"] = job[t]["release"]
        /\ \A u \in Tasks \ {t} : pc'[u] = pc[u] /\ job'[u] = job[u] /\ heard'[u] = heard[u]
    BY <1>1, <1>2, <2>1, AwaitWorkIs
  <2>3. calls' \in [Tasks -> 0..MaxCalls] BY <1>1, <1>2, BoundsNat DEF TypeOK, BoundsNat
  <2>4. TypeOK' BY <1>1, <1>2, <2>2, <2>3 DEF TypeOK, Body
  <2>5. OwnStep(t) BY <1>2, <2>2 DEF OwnStep, Body
  <2>6. Good(t)'
    BY <1>1, <1>2, <2>2 DEF Body, TypeOK, Good, CallsFollowPc, OwnerIsKnown, HolderOwns, CancelsCounted, Made, Over
  <2> QED BY <2>4, <2>5, <2>6, OwnStepKeepsInv
<1>3. CASE /\ UNCHANGED calls /\ Await(t, "releasing", "release")
           /\ \E how \in IF thrown[t] THEN {"cancelled"} ELSE {"returned", "raised"} :
                exit' = [exit EXCEPT ![t] = how]
  <2>1. "releasing" \in Points BY DEF Points
  <2>2. /\ pc' \in [Tasks -> Points] /\ heard' \in [Tasks -> BOOLEAN]
        /\ job' \in [Tasks -> [Kinds -> {"no", "queued", "running", "done"}]]
        /\ pc'[t] = "releasing" /\ heard'[t] = FALSE /\ job'[t]["release"] = "queued"
        /\ job'[t]["acquire"] = job[t]["acquire"] /\ job'[t]["work"] = job[t]["work"]
        /\ \A u \in Tasks \ {t} : pc'[u] = pc[u] /\ job'[u] = job[u] /\ heard'[u] = heard[u]
    BY <1>1, <1>3, <2>1, AwaitReleaseIs
  <2>3. PICK how \in {"cancelled", "returned", "raised"} :
          exit' = [exit EXCEPT ![t] = how] /\ (thrown[t] => how = "cancelled")
    BY <1>3
  <2>4. TypeOK' BY <1>1, <1>3, <2>2, <2>3 DEF TypeOK, Body
  <2>5. OwnStep(t) BY <1>1, <2>2, <2>3 DEF OwnStep, Body, TypeOK
  <2>6. exit'[t] = how BY <1>1, <2>3 DEF TypeOK
  <2>7. Good(t)'
    BY <1>1, <2>2, <2>3, <2>6 DEF Body, TypeOK, Good, CallsFollowPc, OwnerIsKnown, HolderOwns, CancelsCounted, Made, Over
  <2> QED BY <2>4, <2>5, <2>7, OwnStepKeepsInv
<1> QED BY <1>2, <1>3 DEF Body

\* A call made by the task has ended, and with it the task.
LEMMA EndingKeepsInv ==
  ASSUME NoneIsNoTask, Inv, NEW t \in Tasks, NEW how,
         how \in {"returned", "raised", "refused", "cancelled", "no"},
         End(t, how), thrown' = [thrown EXCEPT ![t] = FALSE],
         UNCHANGED <<owner, answer, cancels, calls>>,
         owner # t, \A k \in Kinds : Over(t, k), cancels[t] > 0 => how = "cancelled"
  PROVE  Inv'
<1>1. TypeOK /\ Good(t) BY DEF Inv
<1>2. /\ pc' \in [Tasks -> Points] /\ job' = job /\ heard' = heard
      /\ exit' \in [Tasks -> {"no", "returned", "raised", "refused", "cancelled"}]
      /\ pc'[t] = "done" /\ exit'[t] = how
      /\ \A u \in Tasks \ {t} : pc'[u] = pc[u] /\ exit'[u] = exit[u]
  BY <1>1, EndIs
<1>3. TypeOK' BY <1>1, <1>2 DEF TypeOK
<1>4. OwnStep(t) BY <1>2 DEF OwnStep
<1>5. Good(t)'
  BY <1>1, <1>2 DEF TypeOK, Kinds, Good, CallsFollowPc, OwnerIsKnown, HolderOwns, CancelsCounted, Made, Over
<1> QED BY <1>3, <1>4, <1>5, OwnStepKeepsInv

\* A call made by the task has ended, and the task gives its token back.
LEMMA ReleasingKeepsInv ==
  ASSUME NoneIsNoTask, Inv, NEW t \in Tasks, NEW p \in {"undoing", "releasing"},
         NEW how \in {"no", "returned", "raised", "refused", "cancelled"},
         Await(t, p, "release"), exit' = [exit EXCEPT ![t] = how],
         thrown' = [thrown EXCEPT ![t] = FALSE],
         UNCHANGED <<owner, answer, cancels, calls>>,
         Over(t, "acquire"), Over(t, "work"),
         cancels[t] > 0 => p = "undoing" \/ how = "cancelled"
  PROVE  Inv'
<1>1. TypeOK /\ Good(t) /\ p \in Points BY DEF Inv, Points
<1>2. /\ pc' \in [Tasks -> Points] /\ heard' \in [Tasks -> BOOLEAN]
      /\ job' \in [Tasks -> [Kinds -> {"no", "queued", "running", "done"}]]
      /\ pc'[t] = p /\ heard'[t] = FALSE /\ job'[t]["release"] = "queued"
      /\ job'[t]["acquire"] = job[t]["acquire"] /\ job'[t]["work"] = job[t]["work"]
      /\ \A u \in Tasks \ {t} : pc'[u] = pc[u] /\ job'[u] = job[u] /\ heard'[u] = heard[u]
  BY <1>1, AwaitReleaseIs
<1>3. TypeOK' BY <1>1, <1>2 DEF TypeOK
<1>4. OwnStep(t) BY <1>1, <1>2 DEF OwnStep, TypeOK
<1>5. exit'[t] = how BY <1>1 DEF TypeOK
<1>6. Good(t)'
  BY <1>1, <1>2, <1>5 DEF TypeOK, Good, CallsFollowPc, OwnerIsKnown, HolderOwns, CancelsCounted, Made, Over
<1> QED BY <1>3, <1>4, <1>6, OwnStepKeepsInv

\* The call of the task has ended well, and the body of the scope goes on.
LEMMA GoingOnKeepsInv ==
  ASSUME NoneIsNoTask, Inv, NEW t \in Tasks, pc[t] \in {"acquiring", "working"},
         pc' = [pc EXCEPT ![t] = "body"], UNCHANGED <<job, heard, exit>>,
         thrown' = [thrown EXCEPT ![t] = FALSE],
         UNCHANGED <<owner, answer, cancels, calls>>,
         Over(t, "acquire"), Over(t, "work"), owner = t, ~Cancelled(t)
  PROVE  Inv'
<1>1. TypeOK /\ Good(t) BY DEF Inv
<1>2. TypeOK' BY <1>1 DEF TypeOK, Points
<1>3. OwnStep(t) BY <1>1 DEF OwnStep, TypeOK
<1>4. Good(t)'
  BY <1>1 DEF TypeOK, Cancelled, Good, CallsFollowPc, OwnerIsKnown, HolderOwns, CancelsCounted, Made, Over
<1> QED BY <1>2, <1>3, <1>4, OwnStepKeepsInv

\* Resume: the awaited call is done, and the task acts on its answer.
LEMMA ResumeKeepsInv ==
  ASSUME NoneIsNoTask, Inv, NEW t \in Tasks, Resume(t)
  PROVE  Inv'
<1> DEFINE rest == /\ thrown' = [thrown EXCEPT ![t] = FALSE]
                   /\ UNCHANGED <<owner, answer, cancels, calls>>
<1>1. TypeOK /\ Good(t) /\ rest BY DEF Inv, Resume
<1>2. pc[t] \in {"acquiring", "working", "releasing", "undoing"} BY DEF Resume, InCall
<1>3. CASE pc[t] = "acquiring"
  <2>1. AfterAcquire(t) /\ job[t]["acquire"] = "done" BY <1>3 DEF Resume, CallOf
  <2>2. /\ \A k \in Kinds : Over(t, k)
        /\ cancels[t] > 0 => Cancelled(t)
        /\ answer[t]["acquire"] = "token" <=> owner = t
    BY <1>1, <1>3, <2>1 DEF Kinds, Cancelled, Good, CallsFollowPc, OwnerIsKnown, HolderOwns, CancelsCounted, Made, Over
  <2>3. Over(t, "acquire") /\ Over(t, "work") BY <2>2 DEF Kinds
  <2>4. CASE answer[t]["acquire"] = "token" /\ Cancelled(t)
    <3>1. Await(t, "undoing", "release") /\ UNCHANGED exit
      BY <2>1, <2>4 DEF AfterAcquire
    <3>2. /\ exit' = [exit EXCEPT ![t] = exit[t]]
          /\ exit[t] \in {"no", "returned", "raised", "refused", "cancelled"}
      BY <1>1, <3>1 DEF TypeOK
    <3> QED BY <1>1, <2>3, <3>1, <3>2, ReleasingKeepsInv
  <2>5. CASE answer[t]["acquire"] = "token" /\ ~Cancelled(t)
    <3>1. pc' = [pc EXCEPT ![t] = "body"] /\ UNCHANGED <<job, heard, exit>>
      BY <2>1, <2>5 DEF AfterAcquire
    <3> QED BY <1>1, <1>3, <2>2, <2>3, <2>5, <3>1, GoingOnKeepsInv
  <2>6. CASE answer[t]["acquire"] # "token"
    <3>1. PICK how \in {"cancelled", "refused", "raised"} :
            End(t, how) /\ (Cancelled(t) => how = "cancelled")
      BY <2>1, <2>6 DEF AfterAcquire
    <3> QED BY <1>1, <2>2, <2>6, <3>1, EndingKeepsInv
  <2> QED BY <2>4, <2>5, <2>6
<1>4. CASE pc[t] = "working"
  <2>1. AfterWork(t) /\ job[t]["work"] = "done" BY <1>4 DEF Resume, CallOf
  <2>2. /\ Over(t, "acquire") /\ Over(t, "work") /\ owner = t
        /\ cancels[t] > 0 => Cancelled(t)
    BY <1>1, <1>4, <2>1 DEF Cancelled, Good, CallsFollowPc, OwnerIsKnown, HolderOwns, CancelsCounted, Made, Over
  <2>3. CASE Cancelled(t) \/ answer[t]["work"] = "raised"
    <3>1. PICK how \in {"cancelled", "raised"} :
            /\ Await(t, "releasing", "release") /\ exit' = [exit EXCEPT ![t] = how]
            /\ Cancelled(t) => how = "cancelled"
      BY <2>1, <2>3 DEF AfterWork
    <3> QED BY <1>1, <2>2, <3>1, ReleasingKeepsInv
  <2>4. CASE ~(Cancelled(t) \/ answer[t]["work"] = "raised")
    <3>1. pc' = [pc EXCEPT ![t] = "body"] /\ UNCHANGED <<job, heard, exit>>
      BY <2>1, <2>4 DEF AfterWork
    <3> QED BY <1>1, <1>4, <2>2, <2>4, <3>1, GoingOnKeepsInv
  <2> QED BY <2>3, <2>4
<1>5. CASE pc[t] = "releasing"
  <2>1. AfterRelease(t) /\ job[t]["release"] = "done" BY <1>5 DEF Resume, CallOf
  <2>2. /\ \A k \in Kinds : Over(t, k)
        /\ owner # t
        /\ cancels[t] > 0 => Cancelled(t) \/ exit[t] = "cancelled"
    BY <1>1, <1>5, <2>1 DEF Kinds, Cancelled, Good, CallsFollowPc, OwnerIsKnown, HolderOwns, CancelsCounted, Made, Over
  <2>3. PICK how \in {"no", "returned", "raised", "refused", "cancelled"} :
          End(t, how) /\ (Cancelled(t) \/ exit[t] = "cancelled" => how = "cancelled")
    BY <1>1, <2>1 DEF AfterRelease, TypeOK
  <2> QED BY <1>1, <2>2, <2>3, EndingKeepsInv
<1>6. CASE pc[t] = "undoing"
  <2>1. End(t, "cancelled") /\ job[t]["release"] = "done" BY <1>6 DEF Resume, CallOf
  <2>2. (\A k \in Kinds : Over(t, k)) /\ owner # t
    BY <1>1, <1>6, <2>1 DEF Kinds, Good, CallsFollowPc, OwnerIsKnown, HolderOwns, CancelsCounted, Made, Over
  <2> QED BY <1>1, <2>1, <2>2, EndingKeepsInv
<1> QED BY <1>2, <1>3, <1>4, <1>5, <1>6

--------------------------------------------------------------------------------
\* Every state of an execution satisfies the invariant.
LEMMA InvHolds == ASSUME NoneIsNoTask, BoundsNat PROVE Spec => []Inv
<1>1. Init => Inv BY InvInit
<1>2. Inv /\ [Next]_vars => Inv'
  <2> SUFFICES ASSUME Inv, [Next]_vars PROVE Inv' OBVIOUS
  <2>1. CASE UNCHANGED vars
    BY <2>1 DEF vars, Inv, TypeOK, Good, CallsFollowPc, OwnerIsKnown, HolderOwns, CancelsCounted, Made, Over
  <2>2. CASE Next
    <3>1. PICK t \in Tasks : Cancel(t) \/ TaskStep(t) \/ JobStep(t) BY <2>2 DEF Next
    <3>2. CASE Cancel(t) BY <3>2, CancelKeepsInv
    <3>3. CASE TaskStep(t)
      BY <3>3, BeginKeepsInv, HearKeepsInv, ResumeKeepsInv, BodyKeepsInv DEF TaskStep
    <3>4. CASE JobStep(t)
      BY <3>4, StartJobKeepsInv, AcquireEndsKeepsInv, ReleaseEndsKeepsInv, WorkEndsKeepsInv
      DEF JobStep
    <3> QED BY <3>1, <3>2, <3>3, <3>4
  <2> QED BY <2>1, <2>2
<1> QED BY <1>1, <1>2, PTL DEF Spec

\* The type invariant of the tasks, their calls and the lock.
THEOREM TypeCorrect == ASSUME NoneIsNoTask, BoundsNat PROVE Spec => []TypeOK
<1>1. Inv => TypeOK BY DEF Inv
<1> QED BY <1>1, InvHolds, PTL

(***************************************************************************)
(* While the graph call of run_sync_retaining_ownership is in the executor *)
(* its task owns the lock: it holds a token until the call has returned,   *)
(* however often it is cancelled meanwhile (locks/_async.py).              *)
(***************************************************************************)
THEOREM WorkIsOwned == ASSUME NoneIsNoTask, BoundsNat PROVE Spec => []OwnedWhileWorking
<1>1. Inv => OwnedWhileWorking
  <2> SUFFICES ASSUME Inv, NEW t \in Tasks, job[t]["work"] \in {"queued", "running"}
               PROVE  owner = t
    BY DEF OwnedWhileWorking
  <2>1. Good(t) BY DEF Inv
  <2> QED BY <2>1 DEF Good, CallsFollowPc, HolderOwns, Over
<1> QED BY <1>1, InvHolds, PTL

(***************************************************************************)
(* A task that has left `async with async_thread_lock`, or was cancelled   *)
(* on its way in, owns no token and has no call in the executor that could *)
(* still take one.                                                         *)
(***************************************************************************)
THEOREM EndsClean == ASSUME NoneIsNoTask, BoundsNat PROVE Spec => []NothingLeftBehind
<1>1. Inv => NothingLeftBehind
  <2> SUFFICES ASSUME Inv, NEW t \in Tasks, pc[t] = "done"
               PROVE  owner # t /\ ~InFlight(t)
    BY DEF NothingLeftBehind
  <2>1. Good(t) BY DEF Inv
  <2>2. owner # t BY <2>1 DEF Good, OwnerIsKnown
  <2>3. Over(t, "acquire") /\ Over(t, "work") /\ Over(t, "release")
    BY <2>1 DEF Good, CallsFollowPc
  <2> QED BY <2>2, <2>3 DEF InFlight, Kinds, Over
<1> QED BY <1>1, InvHolds, PTL

(***************************************************************************)
(* The shield of run_sync_retaining_ownership remembers a cancellation and *)
(* raises it at the end: a task cancelled before its end, ends cancelled.  *)
(***************************************************************************)
THEOREM CancellationIsHeard == ASSUME NoneIsNoTask, BoundsNat PROVE Spec => []CancellationHeard
<1>1. Inv => CancellationHeard
  BY DEF Inv, Good, CancelsCounted, CancellationHeard
<1> QED BY <1>1, InvHolds, PTL

=================================================================================
