------------------------------ MODULE ThreadStore ------------------------------
(***************************************************************************)
(* The contract of a thread store for one thread (platform/stores.py, the  *)
(* ThreadStore protocol): a client calls an operation, and the operation   *)
(* takes effect and answers in one atomic step, at some moment between the *)
(* call and the answer. InMemoryThreadStore is exactly that, each method   *)
(* under one RLock. Remote stores may also give up (answer as if the row   *)
(* were taken, or raise a conflict), but only when somebody else's write   *)
(* overtook the call; and the service may fail, with the effect or not.    *)
(***************************************************************************)
EXTENDS ThreadRecord

CONSTANTS Clients  \* request handlers and renewal workers that call the store

VARIABLES
  thread,     \* the stored thread, None once it is deleted
  aged,       \* its updated_at is older than the sweep's cutoff
  call,       \* call[c]: the operation client c has called, None between calls
  ans,        \* ans[c]: how the client's last call ended, see Answers
  mine,       \* mine[c]: the lock token the client's last acquire answered
  overtaken   \* clients whose pending call somebody else's write overtook

storeVars == <<thread, aged, call, ans, mine, overtaken>>

Init ==
  /\ thread \in {NewThread(m) : m \in Payloads \cup {None}}
  /\ aged = FALSE
  /\ call = [c \in Clients |-> None]
  /\ ans = [c \in Clients |-> "none"]
  /\ mine = [c \in Clients |-> None]
  /\ overtaken = {}

\* A token neither the thread nor any client knows.
FreshToken(k) ==
  /\ thread # None => thread.token # k
  /\ \A c \in Clients : mine[c] # k /\ TokenOf(call[c]) # k

--------------------------------------------------------------------------------
\* A client passes a token that some acquire answered, however old it is: a
\* renewal worker is given its handler's.
KnownToken(r) == TokenOf(r) \in {None} \cup {mine[c] : c \in Clients}

Call(c, r) ==
  /\ call[c] = None
  /\ KnownToken(r)
  /\ call' = [call EXCEPT ![c] = r]
  /\ ans' = [ans EXCEPT ![c] = "none"]
  /\ overtaken' = overtaken \ {c}
  /\ UNCHANGED <<thread, aged, mine>>

\* Answer without an effect on the thread.
Answer(c, a) ==
  /\ call' = [call EXCEPT ![c] = None]
  /\ ans' = [ans EXCEPT ![c] = a]
  /\ overtaken' = overtaken \ {c}
  /\ UNCHANGED <<thread, aged, mine>>

\* Answer with an effect: every other pending call is overtaken by it.
Write(c, t, a) ==
  /\ thread' = t
  /\ aged' = FALSE
  /\ call' = [call EXCEPT ![c] = None]
  /\ ans' = [ans EXCEPT ![c] = a]
  /\ overtaken' = {d \in Clients : call[d] # None} \ {c}

Acquire(c) == LET r == call[c] IN
  /\ r.op = "acquire"
  /\ \/ thread = None /\ Answer(c, "missing")
     \/ thread # None /\ Mismatch(thread, r.assistant) /\ Answer(c, "mismatch")
     \/ /\ thread # None /\ ~Mismatch(thread, r.assistant)
        /\ thread.status = "busy"
        /\ Answer(c, "refused")
     \/ c \in overtaken /\ Answer(c, "refused")
     \/ /\ thread # None /\ ~Mismatch(thread, r.assistant)
        /\ thread.status # "busy"
        /\ \E k \in Tokens :
             /\ FreshToken(k)
             /\ \/ /\ Write(c, Acquired(thread, r.assistant, k), "done")
                   /\ mine' = [mine EXCEPT ![c] = k]
                \/ /\ Write(c, Acquired(thread, r.assistant, k), "raised")
                   /\ UNCHANGED mine

Release(c) == LET r == call[c] IN
  /\ r.op = "release"
  /\ \/ thread = None /\ Answer(c, "missing")
     \/ thread # None /\ thread.token # r.token /\ Answer(c, "refused")
     \/ c \in overtaken /\ Answer(c, "conflict")
     \/ /\ thread # None /\ thread.token = r.token
        /\ \E a \in {"done", "raised"} :
             Write(c, Released(thread, r.status, r.values), a)
        /\ UNCHANGED mine

Renew(c) == LET r == call[c] IN
  /\ r.op = "renew"
  /\ \/ thread = None /\ Answer(c, "refused")
     \/ thread # None /\ thread.token # r.token /\ Answer(c, "refused")
     \/ c \in overtaken /\ Answer(c, "refused")
     \/ /\ thread # None /\ thread.token = r.token
        /\ \E a \in {"done", "raised"} : Write(c, thread, a)
        /\ UNCHANGED mine

Update(c) == LET r == call[c] IN
  /\ r.op = "update"
  /\ \/ thread = None /\ Answer(c, "missing")
     \/ c \in overtaken /\ Answer(c, "conflict")
     \/ /\ thread # None
        /\ \E a \in {"done", "raised"} :
             Write(c, Updated(thread, r.metadata), a)
        /\ UNCHANGED mine

Delete(c) ==
  /\ call[c].op = "delete"
  /\ \/ thread = None /\ Answer(c, "missing")
     \/ /\ thread # None
        /\ \E a \in {"done", "raised"} : Write(c, None, a)
        /\ UNCHANGED mine

Get(c) ==
  /\ call[c].op = "get"
  /\ Answer(c, IF thread = None THEN "missing" ELSE "done")

Perform(c) ==
  /\ call[c] # None
  /\ \/ Acquire(c) \/ Release(c) \/ Renew(c) \/ Update(c) \/ Delete(c) \/ Get(c)
     \/ Answer(c, "raised")

\* Mutant of Sweep: only rows without an owner token are reset.
SweepUnowned ==
  /\ thread # None
  /\ thread.status = "busy" /\ thread.token = None
  /\ aged
  /\ \E s \in {"idle", "error"} : thread' = SweptTo(thread, s)
  /\ aged' = FALSE
  /\ overtaken' = {d \in Clients : call[d] # None}
  /\ UNCHANGED <<call, ans, mine>>

(***************************************************************************)
(* The stale-lock sweep of the timer trigger, and the passing of time.     *)
(***************************************************************************)
Sweep ==
  /\ thread # None
  /\ thread.status = "busy"
  /\ aged
  /\ \E s \in {"idle", "error"} : thread' = SweptTo(thread, s)
  /\ aged' = FALSE
  /\ overtaken' = {d \in Clients : call[d] # None}
  /\ UNCHANGED <<call, ans, mine>>

Age ==
  /\ thread # None
  /\ aged' = TRUE
  /\ UNCHANGED <<thread, call, ans, mine, overtaken>>

Next ==
  \/ \E c \in Clients : Perform(c) \/ \E r \in Requests : Call(c, r)
  \/ Sweep
  \/ Age

Spec == Init /\ [][Next]_storeVars
===============================================================================
