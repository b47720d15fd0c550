-------------------------- MODULE InProcessThreadLock --------------------------
(***************************************************************************)
(* InProcessThreadLock (locks/inprocess.py): the default lock backend. One *)
(* registry maps each key to a _KeyState object (a threading.Lock, the     *)
(* owner token, a reference count); a private guard makes each `with       *)
(* self._guard` block one atomic step, and the caller's thread may be      *)
(* preempted between the blocks and the primitive's own acquire.           *)
(*                                                                         *)
(* _KeyState objects and tokens have identities. An object nobody can      *)
(* reach may be allocated again, and a token nobody remembers may be drawn *)
(* again: 128 random bits are modelled as never colliding with a token     *)
(* that somebody still knows. Both sets therefore need no bound on the     *)
(* number of acquisitions.                                                 *)
(***************************************************************************)
EXTENDS Integers, FiniteSets

CONSTANTS Keys,      \* (graph_name, thread_id) pairs
          Callers,   \* threads of the worker process that run handlers
          Objects,   \* _KeyState objects of the heap
          Tokens,    \* owner tokens (secrets.token_hex(16))
          NoObject, NoToken, NoCaller, NoKey

ASSUME CallersFinite == IsFiniteSet(Callers)
ASSUME NoObjectIsNone == NoObject \notin Objects
ASSUME NoTokenIsNone == NoToken \notin Tokens
ASSUME NoCallerIsNone == NoCaller \notin Callers
ASSUME NoKeyIsNone == NoKey \notin Keys

VARIABLES
  states,   \* self._states: Keys -> _KeyState, NoObject for an absent key
  lock,     \* lock[o]: is the threading.Lock of object o held
  token,    \* token[o]: the owner token recorded in object o
  refs,     \* refs[o]: in-flight acquires plus the holder
  pc,       \* where each caller is
  key,      \* the key of the caller's last acquire
  obj,      \* the caller's local variable `state`
  mine      \* the token the caller got from its last acquire

vars == <<states, lock, token, refs, pc, key, obj, mine>>

Control == {"idle", "reserved", "locked", "failed", "holding"}

\* Callers that were counted in refs and have not been uncounted.
Counted == {"reserved", "locked", "failed", "holding"}

TypeOK ==
  /\ states \in [Keys -> Objects \cup {NoObject}]
  /\ lock \in [Objects -> BOOLEAN]
  /\ token \in [Objects -> Tokens \cup {NoToken}]
  /\ refs \in [Objects -> Nat]
  /\ pc \in [Callers -> Control]
  /\ key \in [Callers -> Keys \cup {NoKey}]
  /\ obj \in [Callers -> Objects \cup {NoObject}]
  /\ mine \in [Callers -> Tokens \cup {NoToken}]

Init ==
  /\ states = [k \in Keys |-> NoObject]
  /\ lock = [o \in Objects |-> FALSE]
  /\ token = [o \in Objects |-> NoToken]
  /\ refs = [o \in Objects |-> 0]
  /\ pc = [c \in Callers |-> "idle"]
  /\ key = [c \in Callers |-> NoKey]
  /\ obj = [c \in Callers |-> NoObject]
  /\ mine = [c \in Callers |-> NoToken]

--------------------------------------------------------------------------------
\* Objects no registry entry and no local variable refers to: garbage.
Unreachable(o) ==
  /\ \A k \in Keys : states[k] # o
  /\ \A c \in Callers : obj[c] # o

\* A token that no caller remembers and no object records.
FreshToken(t) ==
  /\ \A c \in Callers : mine[c] # t
  /\ \A o \in Objects : token[o] # t

\* Mutants of AfterGC: collect while others still count on o; never collect.
CollectAlways(k, o, r) ==
  IF states[k] = o THEN [states EXCEPT ![k] = NoObject] ELSE states

CollectNever(k, o, r) == states

\* _maybe_gc: drop o from the registry once its reference count r is zero and
\* the registry still maps the key to this very object.
AfterGC(k, o, r) ==
  IF r = 0 /\ states[k] = o THEN [states EXCEPT ![k] = NoObject] ELSE states

(***************************************************************************)
(* acquire, first guarded block: look the key up, create its state if      *)
(* needed, and count this caller before the guard is dropped.              *)
(***************************************************************************)
Reserve(c, k) ==
  /\ pc[c] = "idle"
  /\ \/ /\ states[k] # NoObject
        /\ obj' = [obj EXCEPT ![c] = states[k]]
        /\ refs' = [refs EXCEPT ![states[k]] = @ + 1]
        /\ UNCHANGED <<states, lock, token>>
     \/ /\ states[k] = NoObject
        /\ \E o \in Objects :
             /\ Unreachable(o)
             /\ states' = [states EXCEPT ![k] = o]
             /\ obj' = [obj EXCEPT ![c] = o]
             /\ lock' = [lock EXCEPT ![o] = FALSE]
             /\ token' = [token EXCEPT ![o] = NoToken]
             /\ refs' = [refs EXCEPT ![o] = 1]
  /\ pc' = [pc EXCEPT ![c] = "reserved"]
  /\ key' = [key EXCEPT ![c] = k]
  /\ mine' = [mine EXCEPT ![c] = NoToken]

(***************************************************************************)
(* state.lock.acquire outside the guard. A non-blocking call and a call    *)
(* whose timeout runs out both fail with the lock held; a waiting call     *)
(* succeeds at any moment the lock is free.                                *)
(***************************************************************************)
TakePrimitive(c) ==
  /\ pc[c] = "reserved"
  /\ ~lock[obj[c]]
  /\ lock' = [lock EXCEPT ![obj[c]] = TRUE]
  /\ pc' = [pc EXCEPT ![c] = "locked"]
  /\ UNCHANGED <<states, token, refs, key, obj, mine>>

\* Mutant of GiveUp: the wait has no timeout.
WaitForever(c) == FALSE

GiveUp(c) ==
  /\ pc[c] = "reserved"
  /\ lock[obj[c]]
  /\ pc' = [pc EXCEPT ![c] = "failed"]
  /\ UNCHANGED <<states, lock, token, refs, key, obj, mine>>

(***************************************************************************)
(* acquire failed, second guarded block: uncount the caller, collect the   *)
(* state if it was the last one, answer None.                              *)
(***************************************************************************)
Unreserve(c) ==
  /\ pc[c] = "failed"
  /\ refs' = [refs EXCEPT ![obj[c]] = @ - 1]
  /\ states' = AfterGC(key[c], obj[c], refs[obj[c]] - 1)
  /\ pc' = [pc EXCEPT ![c] = "idle"]
  /\ obj' = [obj EXCEPT ![c] = NoObject]
  /\ UNCHANGED <<lock, token, key, mine>>

(***************************************************************************)
(* acquire succeeded, second guarded block: record a fresh owner token in  *)
(* the state and answer it.                                                *)
(***************************************************************************)
Publish(c) ==
  /\ pc[c] = "locked"
  /\ \E t \in Tokens :
       /\ FreshToken(t)
       /\ token' = [token EXCEPT ![obj[c]] = t]
       /\ mine' = [mine EXCEPT ![c] = t]
  /\ pc' = [pc EXCEPT ![c] = "holding"]
  /\ obj' = [obj EXCEPT ![c] = NoObject]
  /\ UNCHANGED <<states, lock, refs, key>>

\* Mutant of ReleaseMatches: any token frees the key.
MatchesAnyToken(k, t) == states[k] # NoObject

(***************************************************************************)
(* release(key, token): one guarded block. It looks the state up again     *)
(* through the registry, and is a no-op for an unknown key or a token that *)
(* is not the recorded one. A caller keeps its token after a release, so   *)
(* it may release twice, at any later time.                                *)
(***************************************************************************)
ReleaseMatches(k, t) ==
  /\ states[k] # NoObject
  /\ token[states[k]] = t

Release(c) ==
  /\ pc[c] \in {"idle", "holding"}
  /\ mine[c] # NoToken
  /\ \/ /\ ReleaseMatches(key[c], mine[c])
        /\ LET o == states[key[c]] IN
             /\ lock' = [lock EXCEPT ![o] = FALSE]
             /\ token' = [token EXCEPT ![o] = NoToken]
             /\ refs' = [refs EXCEPT ![o] = @ - 1]
             /\ states' = AfterGC(key[c], o, refs[o] - 1)
     \/ /\ ~ReleaseMatches(key[c], mine[c])
        /\ UNCHANGED <<states, lock, token, refs>>
  /\ pc' = [pc EXCEPT ![c] = "idle"]
  /\ UNCHANGED <<key, obj, mine>>

--------------------------------------------------------------------------------
CallerStep(c) ==
  \/ \E k \in Keys : Reserve(c, k)
  \/ TakePrimitive(c)
  \/ GiveUp(c)
  \/ Unreserve(c)
  \/ Publish(c)
  \/ Release(c)

Next == \E c \in Callers : CallerStep(c)

Spec == Init /\ [][Next]_vars

(***************************************************************************)
(* A thread that was given the CPU finishes the acquire it started, and a  *)
(* handler releases in its `finally` block. The primitive is not fair: a   *)
(* waiter may lose every race, so a waiter is only promised an answer.     *)
(***************************************************************************)
Fairness ==
  \A c \in Callers :
    /\ WF_vars(TakePrimitive(c) \/ GiveUp(c) \/ Unreserve(c) \/ Publish(c))
    /\ WF_vars(pc[c] = "holding" /\ Release(c))

FairSpec == Spec /\ Fairness

--------------------------------------------------------------------------------
\* Callers past the primitive's acquire: inside the critical section.
Inside(c) == pc[c] \in {"locked", "holding"}

(***************************************************************************)
(* At most one execution per (graph_name, thread_id): the guarantee every  *)
(* handler that mutates a thread's checkpoints relies on. It breaks if an  *)
(* object is collected while somebody still waits on its primitive, or if  *)
(* a stale token frees a newer holder.                                     *)
(***************************************************************************)
MutualExclusion ==
  \A c, d \in Callers : Inside(c) /\ Inside(d) /\ key[c] = key[d] => c = d

(***************************************************************************)
(* The token a holder was given is the one recorded for its key, on a held *)
(* primitive: no release by anyone else, early, late or repeated, ends its *)
(* ownership.                                                              *)
(***************************************************************************)
HolderKeepsKey ==
  \A c \in Callers : pc[c] = "holding" =>
    /\ ReleaseMatches(key[c], mine[c])
    /\ lock[states[key[c]]]

(***************************************************************************)
(* A registry entry exists only while a caller is counted in it: releasing *)
(* the last reference removes the entry, so a long-lived worker does not   *)
(* grow the dictionary.                                                    *)
(***************************************************************************)
UsersOf(k) == {c \in Callers : key[c] = k /\ pc[c] \in Counted}

RegistryBounded ==
  \A k \in Keys : states[k] # NoObject <=> UsersOf(k) # {}

(***************************************************************************)
(* acquire always answers, with a token or with None.                      *)
(***************************************************************************)
AcquireAnswers ==
  \A c \in Callers : pc[c] = "reserved" ~> pc[c] \in {"holding", "idle"}

--------------------------------------------------------------------------------
(***************************************************************************)
(* Why the backend is right: the inductive invariant. A counted caller     *)
(* works on the object the registry holds for its key; a registered object *)
(* counts exactly its users, its primitive is held exactly while a user is *)
(* inside, and its token is that of a caller that holds the key.           *)
(***************************************************************************)
UsersRegistered ==
  \A c \in Callers :
    /\ pc[c] \in Counted => key[c] \in Keys /\ states[key[c]] # NoObject
    /\ pc[c] \in Counted \ {"holding"} => obj[c] = states[key[c]]
    /\ pc[c] \in {"idle", "holding"} => obj[c] = NoObject

ObjectsDistinct ==
  \A k, l \in Keys : states[k] = states[l] /\ states[k] # NoObject => k = l

RefsCountUsers ==
  \A k \in Keys : states[k] # NoObject =>
    /\ UsersOf(k) # {}
    /\ refs[states[k]] = Cardinality(UsersOf(k))

LockHeldInside ==
  \A k \in Keys : states[k] # NoObject =>
    (lock[states[k]] <=> \E c \in Callers : Inside(c) /\ key[c] = k)

HolderHasToken ==
  \A c \in Callers : pc[c] = "holding" =>
    mine[c] # NoToken /\ token[states[key[c]]] = mine[c]

TokenHasHolder ==
  \A k \in Keys : states[k] # NoObject /\ token[states[k]] # NoToken =>
    \E c \in Callers : pc[c] = "holding" /\ key[c] = k

TokensDistinct ==
  \A c \in Callers : mine[c] # NoToken =>
    /\ key[c] \in Keys
    /\ \A d \in Callers : mine[c] = mine[d] => c = d

Inv ==
  /\ TypeOK
  /\ UsersRegistered
  /\ ObjectsDistinct
  /\ RefsCountUsers
  /\ LockHeldInside
  /\ MutualExclusion
  /\ HolderHasToken
  /\ TokenHasHolder
  /\ TokensDistinct

--------------------------------------------------------------------------------
(***************************************************************************)
(* The contract this backend implements: a caller owns its key from the    *)
(* moment it has the primitive.                                            *)
(***************************************************************************)
Holders(k) == {c \in Callers : Inside(c) /\ key[c] = k}

OwnerOf(S) == IF S = {} THEN NoCaller ELSE CHOOSE c \in S : TRUE

ownerBar == [k \in Keys |-> OwnerOf(Holders(k))]

ViewOf(p) == CASE p = "idle" -> "idle"
               [] p = "reserved" -> "waiting"
               [] p = "failed" -> "refused"
               [] p \in {"locked", "holding"} -> "owner"

viewBar == [c \in Callers |-> ViewOf(pc[c])]

Contract == INSTANCE ThreadLock
              WITH owner <- ownerBar, view <- viewBar, wants <- key

ImplementsContract == Contract!Spec
===============================================================================
