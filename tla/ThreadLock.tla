------------------------------ MODULE ThreadLock ------------------------------
(***************************************************************************)
(* The contract of a per-thread lock backend (locks/base.py): what a       *)
(* caller of acquire and release may rely on, whatever backend answers.    *)
(* A key is a (graph_name, thread_id) pair, a caller is one execution of a *)
(* request handler. Acquire and refusal are each one atomic step here; the *)
(* backends take several and are shown to implement this module.           *)
(***************************************************************************)
CONSTANTS Keys, Callers, NoCaller, NoKey

VARIABLES owner,   \* owner[k]: the caller that owns key k, or NoCaller
          view,    \* view[c]: what caller c believes about its own request
          wants    \* wants[c]: the key of caller c's last request

lockVars == <<owner, view, wants>>

Init ==
  /\ owner = [k \in Keys |-> NoCaller]
  /\ view = [c \in Callers |-> "idle"]
  /\ wants = [c \in Callers |-> NoKey]

(***************************************************************************)
(* acquire(k) is called; its answer comes in a later step.                 *)
(***************************************************************************)
Request(c, k) ==
  /\ view[c] = "idle"
  /\ view' = [view EXCEPT ![c] = "waiting"]
  /\ wants' = [wants EXCEPT ![c] = k]
  /\ UNCHANGED owner

(***************************************************************************)
(* acquire takes the lock: nobody owned the key.                           *)
(***************************************************************************)
Grant(c) ==
  /\ view[c] = "waiting"
  /\ owner[wants[c]] = NoCaller
  /\ owner' = [owner EXCEPT ![wants[c]] = c]
  /\ view' = [view EXCEPT ![c] = "owner"]
  /\ UNCHANGED wants

(***************************************************************************)
(* acquire gives up and will answer None: only while the key is owned.     *)
(***************************************************************************)
Refuse(c) ==
  /\ view[c] = "waiting"
  /\ owner[wants[c]] # NoCaller
  /\ view' = [view EXCEPT ![c] = "refused"]
  /\ UNCHANGED <<owner, wants>>

Return(c) ==
  /\ view[c] = "refused"
  /\ view' = [view EXCEPT ![c] = "idle"]
  /\ UNCHANGED <<owner, wants>>

(***************************************************************************)
(* release by the owner. A release whose token names no current owner is a *)
(* no-op, hence a stuttering step of this module.                          *)
(***************************************************************************)
Release(c) ==
  /\ view[c] = "owner"
  /\ owner[wants[c]] = c
  /\ owner' = [owner EXCEPT ![wants[c]] = NoCaller]
  /\ view' = [view EXCEPT ![c] = "idle"]
  /\ UNCHANGED wants

Next == \E c \in Callers :
  \/ \E k \in Keys : Request(c, k)
  \/ Grant(c)
  \/ Refuse(c)
  \/ Return(c)
  \/ Release(c)

Spec == Init /\ [][Next]_lockVars
===============================================================================
