----------------------------- MODULE ThreadRecord -----------------------------
(***************************************************************************)
(* A stored thread and what each store operation does to it, as pure       *)
(* operators (platform/stores.py, InMemoryThreadStore). Both the contract  *)
(* of the stores and the Azure Table backend are written with them.        *)
(*                                                                         *)
(* lock_expires_at is written with the token and never read, so it is left *)
(* out; interrupts are never written by a handler. Every write sets        *)
(* updated_at, which the modules that need it keep as one bit of their own. *)
(***************************************************************************)
CONSTANTS Tokens,      \* lock tokens (uuid4 hex)
          Payloads,    \* what values and metadata may hold
          Assistants,  \* registered graph names
          None         \* Python's None

\* "interrupted" is a legal status too, which no handler ever writes.
Terminal == {"idle", "error"}

Statuses == Terminal \cup {"busy"}

Threads == [status    : Statuses,
            token     : Tokens \cup {None},
            values    : Payloads \cup {None},
            metadata  : Payloads \cup {None},
            assistant : Assistants \cup {None}]

\* An optional argument: None leaves the field alone.
OrElse(new, old) == IF new = None THEN old ELSE new

NewThread(m) ==
  [status |-> "idle", token |-> None, values |-> None, metadata |-> m,
   assistant |-> None]

\* A thread bound to one assistant refuses to run with another.
Mismatch(t, a) == t.assistant # None /\ t.assistant # a

Acquired(t, a, k) ==
  [t EXCEPT !.status = "busy", !.token = k, !.assistant = OrElse(@, a)]

Released(t, s, v) ==
  [t EXCEPT !.status = s, !.token = None, !.values = OrElse(v, @)]

Updated(t, m) == [t EXCEPT !.metadata = m]

\* AzureTableThreadStore.reset_stale_locks patches the status and the time, and
\* leaves the lock token in the row.
SweptTo(t, s) == [t EXCEPT !.status = s]

\* The calls the handlers and their renewal workers make. A run or a state
\* update always names its assistant and its token, and stores values only
\* with status "idle".
Requests ==
  [op : {"get", "delete"}]
    \cup [op : {"acquire"}, assistant : Assistants]
    \cup [op : {"release"}, token : Tokens, status : {"idle"},
          values : Payloads \cup {None}]
    \cup [op : {"release"}, token : Tokens, status : {"error"}, values : {None}]
    \cup [op : {"renew"}, token : Tokens]
    \cup [op : {"update"}, metadata : Payloads]

\* The token a request carries, None if it carries none.
TokenOf(r) == IF r # None /\ r.op \in {"release", "renew"} THEN r.token ELSE None

\* How a call ends. "done" is its normal result; "refused" is None from an
\* acquire, False from a renewal and the untouched thread from a release;
\* "missing" is KeyError, or None from get; "mismatch" the ValueError of another
\* assistant; "conflict" running out of attempts; "raised" any other exception.
Answers == {"none", "done", "refused", "missing", "mismatch", "conflict", "raised"}
===============================================================================
