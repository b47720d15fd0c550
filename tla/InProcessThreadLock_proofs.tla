---------------------- MODULE InProcessThreadLock_proofs ----------------------
(***************************************************************************)
(* InProcessThreadLock gives mutual exclusion per key and keeps its        *)
(* registry bounded, for any sets of callers, keys, objects and tokens.    *)
(* The argument is the inductive invariant Inv of InProcessThreadLock; the *)
(* lemmas about UsersOf carry its counting part.                           *)
(***************************************************************************)
EXTENDS InProcessThreadLock, FiniteSetTheorems, TLAPS

\* The users of a key are finitely many, so a reference count can count them.
LEMMA UsersFinite ==
  ASSUME NEW k
  PROVE  IsFiniteSet(UsersOf(k)) /\ Cardinality(UsersOf(k)) \in Nat
<1>1. UsersOf(k) \in SUBSET Callers
  BY DEF UsersOf
<1>2. IsFiniteSet(UsersOf(k))
  BY <1>1, CallersFinite, FS_Subset
<1>3. QED
  BY <1>2, FS_CardinalityType

\* A caller that reserves joins the users of its key, once.
LEMMA UsersGain ==
  ASSUME TypeOK, NEW c \in Callers, NEW k \in Keys, Reserve(c, k)
  PROVE  /\ UsersOf(k)' = UsersOf(k) \cup {c}
         /\ Cardinality(UsersOf(k)') = Cardinality(UsersOf(k)) + 1
         /\ \A l \in Keys : l # k => UsersOf(l)' = UsersOf(l)
<1>1. /\ UsersOf(k)' = UsersOf(k) \cup {c}
      /\ \A l \in Keys : l # k => UsersOf(l)' = UsersOf(l)
      /\ c \notin UsersOf(k)
  BY DEF UsersOf, TypeOK, Reserve, Control, Counted
<1>2. QED
  BY <1>1, UsersFinite, FS_AddElement

\* A caller that becomes idle leaves the users of its key, once.
LEMMA UsersLose ==
  ASSUME TypeOK, NEW c \in Callers, pc[c] \in Counted,
         pc' = [pc EXCEPT ![c] = "idle"], key' = key
  PROVE  /\ UsersOf(key[c])' = UsersOf(key[c]) \ {c}
         /\ Cardinality(UsersOf(key[c])') = Cardinality(UsersOf(key[c])) - 1
         /\ \A l \in Keys : l # key[c] => UsersOf(l)' = UsersOf(l)
<1>1. /\ UsersOf(key[c])' = UsersOf(key[c]) \ {c}
      /\ \A l \in Keys : l # key[c] => UsersOf(l)' = UsersOf(l)
      /\ c \in UsersOf(key[c])
  BY DEF UsersOf, TypeOK, Control, Counted
<1>2. QED
  BY <1>1, UsersFinite, FS_RemoveElement

\* A step between two counted states of a caller changes no users.
LEMMA UsersSame ==
  ASSUME TypeOK, NEW c \in Callers, NEW s \in Counted, pc[c] \in Counted,
         pc' = [pc EXCEPT ![c] = s], key' = key
  PROVE  \A l \in Keys : UsersOf(l)' = UsersOf(l)
BY DEF UsersOf, TypeOK, Control, Counted

--------------------------------------------------------------------------------
\* No caller uses a key, so no key is registered.
LEMMA InitInv == Init => Inv
<1> SUFFICES ASSUME Init PROVE Inv
  OBVIOUS
<1>1. \A k \in Keys : UsersOf(k) = {}
  BY DEF Init, UsersOf, Counted
<1> QED
  BY <1>1 DEF Init, Inv, TypeOK, Control, Counted, UsersRegistered,
       ObjectsDistinct, RefsCountUsers, LockHeldInside, MutualExclusion, Inside,
       HolderHasToken, TokenHasHolder, TokensDistinct

\* Reserve keeps the registry, the counts and the ownership right, whether it
\* finds the key's object or allocates one.
LEMMA ReserveInv ==
  ASSUME Inv, NEW c \in Callers, NEW k \in Keys, Reserve(c, k)
  PROVE  Inv'
<1> USE DEF Inv
<1>0. /\ pc[c] = "idle"
      /\ pc' = [pc EXCEPT ![c] = "reserved"]
      /\ key' = [key EXCEPT ![c] = k]
      /\ mine' = [mine EXCEPT ![c] = NoToken]
  BY DEF Reserve
<1>u. /\ UsersOf(k)' = UsersOf(k) \cup {c}
      /\ Cardinality(UsersOf(k)') = Cardinality(UsersOf(k)) + 1
      /\ \A l \in Keys : l # k => UsersOf(l)' = UsersOf(l)
  BY UsersGain
<1>i. \A d \in Callers : Inside(d)' <=> Inside(d)
  BY <1>0 DEF Inside, TypeOK
<1>1. MutualExclusion'
  BY <1>0, <1>i DEF MutualExclusion, TypeOK, Inside
<1>2. TokensDistinct'
  BY <1>0 DEF TokensDistinct, TypeOK
<1>3. CASE states[k] # NoObject
  <2>1. /\ obj' = [obj EXCEPT ![c] = states[k]]
        /\ refs' = [refs EXCEPT ![states[k]] = @ + 1]
        /\ UNCHANGED <<states, lock, token>>
        /\ states[k] \in Objects
    BY <1>3 DEF Reserve, TypeOK
  <2>2. TypeOK'
    BY <1>0, <2>1 DEF TypeOK, Control
  <2>3. UsersRegistered'
    BY <1>0, <1>3, <2>1 DEF UsersRegistered, Counted, TypeOK
  <2>4. ObjectsDistinct'
    BY <2>1 DEF ObjectsDistinct
  <2>5. RefsCountUsers'
    BY <1>u, <1>3, <2>1, UsersFinite DEF RefsCountUsers, ObjectsDistinct, TypeOK
  <2>6. LockHeldInside'
    BY <1>0, <1>i, <2>1 DEF LockHeldInside, TypeOK, Inside
  <2>7. HolderHasToken' /\ TokenHasHolder'
    BY <1>0, <2>1 DEF HolderHasToken, TokenHasHolder, TypeOK
  <2> QED
    BY <1>1, <1>2, <2>2, <2>3, <2>4, <2>5, <2>6, <2>7
<1>4. CASE states[k] = NoObject
  <2>1. PICK o \in Objects :
          /\ Unreachable(o)
          /\ states' = [states EXCEPT ![k] = o]
          /\ obj' = [obj EXCEPT ![c] = o]
          /\ lock' = [lock EXCEPT ![o] = FALSE]
          /\ token' = [token EXCEPT ![o] = NoToken]
          /\ refs' = [refs EXCEPT ![o] = 1]
    BY <1>4 DEF Reserve
  <2>n. /\ \A l \in Keys : states[l] # o
        /\ o # NoObject
        /\ UsersOf(k) = {}
        /\ \A d \in Callers : pc[d] \in Counted => key[d] # k
    BY <1>4, <2>1, NoObjectIsNone DEF Unreachable, UsersOf, UsersRegistered
  <2>2. TypeOK'
    BY <1>0, <2>1 DEF TypeOK, Control
  <2>3. UsersRegistered'
    BY <1>0, <2>1, <2>n DEF UsersRegistered, Counted, TypeOK
  <2>4. ObjectsDistinct'
    BY <2>1, <2>n DEF ObjectsDistinct, TypeOK
  <2>5. RefsCountUsers'
    <3>1. UsersOf(k)' # {} /\ Cardinality(UsersOf(k)') = 1
      BY <1>u, <2>n, FS_EmptySet
    <3>2. /\ states'[k] = o
          /\ refs'[o] = 1
          /\ \A l \in Keys : l # k /\ states'[l] # NoObject =>
               states'[l] = states[l] /\ refs'[states[l]] = refs[states[l]]
      BY <2>1, <2>n DEF TypeOK
    <3> QED
      BY <1>u, <3>1, <3>2 DEF RefsCountUsers
  <2>6. LockHeldInside'
    BY <1>0, <1>i, <2>1, <2>n DEF LockHeldInside, TypeOK, Inside, Counted
  <2>7. HolderHasToken'
    BY <1>0, <2>1, <2>n DEF HolderHasToken, TypeOK, Counted, UsersRegistered
  <2>8. TokenHasHolder'
    BY <1>0, <2>1, <2>n DEF TokenHasHolder, TypeOK
  <2> QED
    BY <1>1, <1>2, <2>2, <2>3, <2>4, <2>5, <2>6, <2>7, <2>8
<1> QED
  BY <1>3, <1>4

\* Taking the primitive: nobody was inside, now this caller is.
LEMMA TakePrimitiveInv ==
  ASSUME Inv, NEW c \in Callers, TakePrimitive(c)
  PROVE  Inv'
<1> USE DEF Inv
<1>1. /\ pc[c] = "reserved"
      /\ ~lock[obj[c]]
      /\ lock' = [lock EXCEPT ![obj[c]] = TRUE]
      /\ pc' = [pc EXCEPT ![c] = "locked"]
      /\ UNCHANGED <<states, token, refs, key, obj, mine>>
  BY DEF TakePrimitive
<1>2. /\ key[c] \in Keys
      /\ states[key[c]] = obj[c]
      /\ obj[c] \in Objects
      /\ obj[c] # NoObject
  BY <1>1 DEF UsersRegistered, TypeOK, Counted
<1>3. \A d \in Callers : Inside(d) => key[d] # key[c]
  BY <1>1, <1>2 DEF LockHeldInside
<1>4. \A l \in Keys : UsersOf(l)' = UsersOf(l)
  BY <1>1, UsersSame DEF Counted
<1>5. TypeOK'
  BY <1>1 DEF TypeOK, Control
<1>6. UsersRegistered'
  BY <1>1, <1>2 DEF UsersRegistered, Counted, TypeOK
<1>7. ObjectsDistinct'
  BY <1>1 DEF ObjectsDistinct
<1>8. RefsCountUsers'
  BY <1>1, <1>4 DEF RefsCountUsers
<1>9. LockHeldInside'
  BY <1>1, <1>2 DEF LockHeldInside, Inside, TypeOK, ObjectsDistinct
<1>10. MutualExclusion'
  BY <1>1, <1>3 DEF MutualExclusion, Inside, TypeOK
<1>11. HolderHasToken' /\ TokenHasHolder'
  BY <1>1 DEF HolderHasToken, TokenHasHolder, TypeOK
<1>12. TokensDistinct'
  BY <1>1 DEF TokensDistinct
<1> QED
  BY <1>5, <1>6, <1>7, <1>8, <1>9, <1>10, <1>11, <1>12

\* Giving up changes nothing but the caller's own control.
LEMMA GiveUpInv ==
  ASSUME Inv, NEW c \in Callers, GiveUp(c)
  PROVE  Inv'
<1> USE DEF Inv
<1>1. /\ pc[c] = "reserved"
      /\ pc' = [pc EXCEPT ![c] = "failed"]
      /\ UNCHANGED <<states, lock, token, refs, key, obj, mine>>
  BY DEF GiveUp
<1>2. \A d \in Callers : Inside(d)' <=> Inside(d)
  BY <1>1 DEF Inside, TypeOK
<1>3. \A l \in Keys : UsersOf(l)' = UsersOf(l)
  BY <1>1, UsersSame DEF Counted
<1>4. TypeOK'
  BY <1>1 DEF TypeOK, Control
<1>5. UsersRegistered'
  BY <1>1 DEF UsersRegistered, Counted, TypeOK
<1>6. ObjectsDistinct'
  BY <1>1 DEF ObjectsDistinct
<1>7. RefsCountUsers'
  BY <1>1, <1>3 DEF RefsCountUsers
<1>8. LockHeldInside' /\ MutualExclusion'
  BY <1>1, <1>2 DEF LockHeldInside, MutualExclusion
<1>9. HolderHasToken' /\ TokenHasHolder'
  BY <1>1 DEF HolderHasToken, TokenHasHolder, TypeOK
<1>10. TokensDistinct'
  BY <1>1 DEF TokensDistinct
<1> QED
  BY <1>4, <1>5, <1>6, <1>7, <1>8, <1>9, <1>10

\* Publishing records a fresh token for a caller that is inside alone.
LEMMA PublishInv ==
  ASSUME Inv, NEW c \in Callers, Publish(c)
  PROVE  Inv'
<1> USE DEF Inv
<1>1. PICK t \in Tokens :
        /\ FreshToken(t)
        /\ token' = [token EXCEPT ![obj[c]] = t]
        /\ mine' = [mine EXCEPT ![c] = t]
  BY DEF Publish
<1>2. /\ pc[c] = "locked"
      /\ pc' = [pc EXCEPT ![c] = "holding"]
      /\ obj' = [obj EXCEPT ![c] = NoObject]
      /\ UNCHANGED <<states, lock, refs, key>>
  BY DEF Publish
<1>3. /\ key[c] \in Keys
      /\ states[key[c]] = obj[c]
      /\ obj[c] \in Objects
      /\ t # NoToken
  BY <1>2, NoObjectIsNone, NoTokenIsNone DEF UsersRegistered, TypeOK, Counted
<1>4. \A d \in Callers : Inside(d)' <=> Inside(d)
  BY <1>2 DEF Inside, TypeOK
<1>5. \A d \in Callers : pc[d] = "holding" =>
        /\ key[d] \in Keys
        /\ states[key[d]] # NoObject
        /\ key[d] # key[c]
  BY <1>2 DEF MutualExclusion, Inside, UsersRegistered, Counted
<1>6. \A l \in Keys : UsersOf(l)' = UsersOf(l)
  BY <1>2, UsersSame DEF Counted
<1>7. TypeOK'
  BY <1>1, <1>2 DEF TypeOK, Control
<1>8. UsersRegistered'
  BY <1>2 DEF UsersRegistered, Counted, TypeOK
<1>9. ObjectsDistinct'
  BY <1>2 DEF ObjectsDistinct
<1>10. RefsCountUsers'
  BY <1>2, <1>6 DEF RefsCountUsers
<1>11. LockHeldInside' /\ MutualExclusion'
  BY <1>2, <1>4 DEF LockHeldInside, MutualExclusion
<1>12. HolderHasToken'
  BY <1>1, <1>2, <1>3, <1>5 DEF HolderHasToken, TypeOK, ObjectsDistinct
<1>13. TokenHasHolder'
  BY <1>1, <1>2, <1>3 DEF TokenHasHolder, TypeOK, ObjectsDistinct
<1>14. TokensDistinct'
  BY <1>1, <1>2, <1>3 DEF TokensDistinct, FreshToken, TypeOK
<1> QED
  BY <1>7, <1>8, <1>9, <1>10, <1>11, <1>12, <1>13, <1>14

--------------------------------------------------------------------------------
\* A caller that leaves a key, given how its object o changes: the common part
\* of a failed acquire and of a release that matches. The registry entry goes
\* exactly when the caller was the key's last user.
LEMMA LeaveRegistry ==
  ASSUME Inv, NEW c \in Callers, pc[c] \in Counted,
         pc' = [pc EXCEPT ![c] = "idle"],
         refs' = [refs EXCEPT ![states[key[c]]] = @ - 1],
         states' = AfterGC(key[c], states[key[c]], refs[states[key[c]]] - 1),
         obj' = [obj EXCEPT ![c] = NoObject],
         UNCHANGED key
  PROVE  /\ UsersRegistered'
         /\ ObjectsDistinct'
         /\ RefsCountUsers'
         /\ states' \in [Keys -> Objects \cup {NoObject}]
         /\ refs' \in [Objects -> Nat]
         /\ \A l \in Keys : states'[l] # NoObject => states'[l] = states[l]
<1> DEFINE k == key[c]
           o == states[k]
<1> USE DEF Inv
<1>1. k \in Keys /\ o \in Objects /\ o # NoObject
  BY DEF UsersRegistered, TypeOK
<1>2. /\ UsersOf(k)' = UsersOf(k) \ {c}
      /\ Cardinality(UsersOf(k)') = Cardinality(UsersOf(k)) - 1
      /\ \A l \in Keys : l # k => UsersOf(l)' = UsersOf(l)
  BY UsersLose
<1>3. refs[o] = Cardinality(UsersOf(k))
  BY <1>1 DEF RefsCountUsers
<1>4. /\ IsFiniteSet(UsersOf(k)')
      /\ refs[o] - 1 \in Nat
      /\ refs[o] - 1 = 0 <=> UsersOf(k)' = {}
  <2>1. IsFiniteSet(UsersOf(k)')
    BY <1>2, UsersFinite, FS_RemoveElement
  <2>2. /\ Cardinality(UsersOf(k)') \in Nat
        /\ Cardinality(UsersOf(k)') = 0 <=> UsersOf(k)' = {}
    BY <2>1, FS_EmptySet, FS_CardinalityType
  <2> QED
    BY <1>2, <1>3, <2>1, <2>2
<1>5. states' = IF UsersOf(k)' = {} THEN [states EXCEPT ![k] = NoObject] ELSE states
  BY <1>4 DEF AfterGC
<1>6. states' \in [Keys -> Objects \cup {NoObject}] /\ refs' \in [Objects -> Nat]
  BY <1>1, <1>4, <1>5 DEF TypeOK
<1>7. \A l \in Keys : states'[l] # NoObject => states'[l] = states[l]
  BY <1>1, <1>5 DEF TypeOK
<1>8. \A d \in Callers : pc'[d] \in Counted =>
        /\ d # c
        /\ pc'[d] = pc[d]
        /\ key[d] = k => UsersOf(k)' # {}
  BY <1>2 DEF UsersOf, Counted, TypeOK
<1>9. UsersRegistered'
  <2>1. \A d \in Callers : pc'[d] \in Counted =>
          key'[d] \in Keys /\ states'[key'[d]] # NoObject /\ states'[key'[d]] = states[key[d]]
    BY <1>1, <1>5, <1>8 DEF UsersRegistered, TypeOK
  <2>2. \A d \in Callers : pc'[d] \in Counted \ {"holding"} => obj'[d] = states'[key'[d]]
    BY <1>8, <2>1 DEF UsersRegistered, TypeOK
  <2>3. \A d \in Callers : pc'[d] \in {"idle", "holding"} => obj'[d] = NoObject
    BY DEF UsersRegistered, TypeOK
  <2> QED
    BY <2>1, <2>2, <2>3 DEF UsersRegistered
<1>10. ObjectsDistinct'
  BY <1>7 DEF ObjectsDistinct
<1>11. RefsCountUsers'
  <2> SUFFICES ASSUME NEW l \in Keys, states'[l] # NoObject
               PROVE  /\ UsersOf(l)' # {}
                      /\ refs'[states'[l]] = Cardinality(UsersOf(l)')
    BY DEF RefsCountUsers
  <2>1. CASE l = k
    BY <1>1, <1>2, <1>3, <1>5, <2>1 DEF TypeOK
  <2>2. CASE l # k
    <3>1. states'[l] = states[l] /\ states[l] # o
      BY <1>1, <1>7, <2>2 DEF ObjectsDistinct
    <3>2. refs'[states'[l]] = refs[states[l]]
      BY <1>1, <3>1 DEF TypeOK
    <3> QED
      BY <1>2, <2>2, <3>1, <3>2 DEF RefsCountUsers
  <2> QED
    BY <2>1, <2>2
<1> QED
  BY <1>6, <1>7, <1>9, <1>10, <1>11

\* A failed acquire uncounts a caller that was never inside.
LEMMA UnreserveInv ==
  ASSUME Inv, NEW c \in Callers, Unreserve(c)
  PROVE  Inv'
<1> USE DEF Inv
<1>1. /\ pc[c] = "failed"
      /\ pc' = [pc EXCEPT ![c] = "idle"]
      /\ obj' = [obj EXCEPT ![c] = NoObject]
      /\ UNCHANGED <<lock, token, key, mine>>
      /\ obj[c] = states[key[c]]
  BY DEF Unreserve, UsersRegistered, Counted
<1>2. /\ UsersRegistered'
      /\ ObjectsDistinct'
      /\ RefsCountUsers'
      /\ states' \in [Keys -> Objects \cup {NoObject}]
      /\ refs' \in [Objects -> Nat]
      /\ \A l \in Keys : states'[l] # NoObject => states'[l] = states[l]
  BY <1>1, LeaveRegistry DEF Unreserve, Counted
<1>3. \A d \in Callers : Inside(d)' <=> Inside(d)
  BY <1>1 DEF Inside, TypeOK
<1>4. TypeOK'
  BY <1>1, <1>2 DEF TypeOK, Control
<1>5. LockHeldInside' /\ MutualExclusion'
  BY <1>1, <1>2, <1>3 DEF LockHeldInside, MutualExclusion
<1>6. \A d \in Callers : pc'[d] = "holding" <=> pc[d] = "holding"
  BY <1>1 DEF TypeOK
<1>7. HolderHasToken'
  <2> SUFFICES ASSUME NEW d \in Callers, pc'[d] = "holding"
               PROVE  mine'[d] # NoToken /\ token'[states'[key'[d]]] = mine'[d]
    BY DEF HolderHasToken
  <2>1. key'[d] \in Keys /\ states'[key'[d]] # NoObject
    BY <1>2 DEF UsersRegistered, Counted
  <2> QED
    BY <1>1, <1>2, <1>6, <2>1 DEF HolderHasToken
<1>8. TokenHasHolder'
  BY <1>1, <1>2, <1>6 DEF TokenHasHolder
<1>9. TokensDistinct'
  BY <1>1 DEF TokensDistinct
<1> QED
  BY <1>2, <1>4, <1>5, <1>7, <1>8, <1>9

\* The invariant only reads the variables: a step that changes none keeps it.
LEMMA StutterInv ==
  ASSUME Inv, UNCHANGED vars
  PROVE  Inv'
<1> USE DEF Inv, vars
<1>1. TypeOK' /\ UsersRegistered' /\ ObjectsDistinct'
  BY DEF TypeOK, UsersRegistered, ObjectsDistinct
<1>2. RefsCountUsers'
  BY DEF RefsCountUsers, UsersOf
<1>3. LockHeldInside' /\ MutualExclusion'
  BY DEF LockHeldInside, MutualExclusion, Inside
<1>4. HolderHasToken' /\ TokenHasHolder' /\ TokensDistinct'
  BY DEF HolderHasToken, TokenHasHolder, TokensDistinct
<1> QED
  BY <1>1, <1>2, <1>3, <1>4

\* Only the holder's own release can match a recorded token.
LEMMA MatchingReleaseIsHolders ==
  ASSUME Inv, NEW c \in Callers, mine[c] # NoToken, key[c] \in Keys,
         ReleaseMatches(key[c], mine[c])
  PROVE  pc[c] = "holding"
<1>1. PICK d \in Callers : pc[d] = "holding" /\ key[d] = key[c]
  BY DEF Inv, TokenHasHolder, ReleaseMatches
<1>2. mine[d] = mine[c]
  BY <1>1 DEF Inv, HolderHasToken, ReleaseMatches
<1> QED
  BY <1>1, <1>2 DEF Inv, TokensDistinct

\* A release either ends the releasing holder's ownership or does nothing to
\* the lock: a caller that holds always matches.
LEMMA ReleaseInv ==
  ASSUME Inv, NEW c \in Callers, Release(c)
  PROVE  Inv'
<1> USE DEF Inv
<1>1. /\ pc[c] \in {"idle", "holding"}
      /\ mine[c] # NoToken
      /\ pc' = [pc EXCEPT ![c] = "idle"]
      /\ UNCHANGED <<key, obj, mine>>
      /\ obj = [obj EXCEPT ![c] = NoObject]
  BY DEF Release, UsersRegistered, TypeOK
<1>2. TokensDistinct'
  BY <1>1 DEF TokensDistinct
<1>3. CASE pc[c] = "holding"
  <2> DEFINE o == states[key[c]]
  <2>1. /\ key[c] \in Keys
        /\ o \in Objects
        /\ o # NoObject
        /\ ReleaseMatches(key[c], mine[c])
    BY <1>3 DEF UsersRegistered, HolderHasToken, ReleaseMatches, TypeOK, Counted
  <2>2. /\ lock' = [lock EXCEPT ![o] = FALSE]
        /\ token' = [token EXCEPT ![o] = NoToken]
        /\ refs' = [refs EXCEPT ![o] = @ - 1]
        /\ states' = AfterGC(key[c], o, refs[o] - 1)
    BY <2>1 DEF Release
  <2>3. /\ UsersRegistered'
        /\ ObjectsDistinct'
        /\ RefsCountUsers'
        /\ states' \in [Keys -> Objects \cup {NoObject}]
        /\ refs' \in [Objects -> Nat]
        /\ \A l \in Keys : states'[l] # NoObject => states'[l] = states[l]
    BY <1>1, <1>3, <2>2, LeaveRegistry DEF Counted
  <2>4. TypeOK'
    BY <1>1, <2>1, <2>2, <2>3 DEF TypeOK, Control
  <2>5. \A d \in Callers : Inside(d)' <=> (Inside(d) /\ d # c)
    BY <1>1 DEF Inside, TypeOK
  <2>6. MutualExclusion'
    BY <1>1, <2>5 DEF MutualExclusion
  <2>7. \A d \in Callers : Inside(d)' => key[d] # key[c]
    BY <1>3, <2>5 DEF MutualExclusion, Inside
  <2>8. LockHeldInside'
    <3> SUFFICES ASSUME NEW l \in Keys, states'[l] # NoObject
                 PROVE  lock'[states'[l]] <=> \E d \in Callers : Inside(d)' /\ key'[d] = l
      BY DEF LockHeldInside
    <3>1. CASE l = key[c]
      BY <1>1, <2>1, <2>2, <2>3, <2>7, <3>1 DEF TypeOK
    <3>2. CASE l # key[c]
      <4>0. states'[l] = states[l] /\ states[l] # o
        BY <2>1, <2>3, <3>2 DEF ObjectsDistinct
      <4>1. lock'[states'[l]] = lock[states[l]]
        BY <2>1, <2>2, <2>3, <4>0 DEF TypeOK
      <4> QED
        BY <1>1, <2>5, <3>2, <4>0, <4>1 DEF LockHeldInside
    <3> QED
      BY <3>1, <3>2
  <2>9. \A d \in Callers : pc'[d] = "holding" =>
          /\ pc[d] = "holding" /\ d # c
          /\ key[d] \in Keys
          /\ states'[key[d]] = states[key[d]]
          /\ states[key[d]] # o
          /\ token'[states[key[d]]] = token[states[key[d]]]
    <3> SUFFICES ASSUME NEW d \in Callers, pc'[d] = "holding"
                 PROVE  /\ pc[d] = "holding" /\ d # c
                        /\ key[d] \in Keys
                        /\ states'[key[d]] = states[key[d]]
                        /\ states[key[d]] # o
                        /\ token'[states[key[d]]] = token[states[key[d]]]
      OBVIOUS
    <3>1. pc[d] = "holding" /\ d # c /\ Inside(d)'
      BY <1>1 DEF TypeOK, Inside
    <3>2. key[d] \in Keys /\ states'[key[d]] # NoObject
      BY <1>1, <2>3 DEF UsersRegistered, Counted
    <3>3. states'[key[d]] = states[key[d]] /\ states[key[d]] # o
      BY <2>1, <2>3, <2>7, <3>1, <3>2 DEF ObjectsDistinct
    <3>4. token'[states[key[d]]] = token[states[key[d]]]
      BY <2>1, <2>2, <2>3, <3>2, <3>3 DEF TypeOK
    <3> QED
      BY <3>1, <3>2, <3>3, <3>4
  <2>10. HolderHasToken'
    BY <1>1, <2>9 DEF HolderHasToken
  <2>11. TokenHasHolder'
    <3> SUFFICES ASSUME NEW l \in Keys, states'[l] # NoObject, token'[states'[l]] # NoToken
                 PROVE  \E d \in Callers : pc'[d] = "holding" /\ key'[d] = l
      BY DEF TokenHasHolder
    <3>1. states[l] # o /\ token[states[l]] # NoToken
      BY <2>1, <2>2, <2>3 DEF TypeOK
    <3>2. PICK d \in Callers : pc[d] = "holding" /\ key[d] = l
      BY <2>3, <3>1 DEF TokenHasHolder
    <3>3. d # c
      BY <3>1, <3>2
    <3> QED
      BY <1>1, <3>2, <3>3 DEF TypeOK
  <2> QED
    BY <1>2, <2>3, <2>4, <2>6, <2>8, <2>10, <2>11
<1>4. CASE pc[c] = "idle"
  <2>1. ~ReleaseMatches(key[c], mine[c])
    BY <1>1, <1>4, MatchingReleaseIsHolders DEF TokensDistinct
  <2>2. /\ UNCHANGED <<states, lock, token, refs, key, obj, mine>>
        /\ pc' = pc
    BY <1>1, <1>4, <2>1 DEF Release, TypeOK
  <2> QED
    BY <2>2, StutterInv DEF vars
<1> QED
  BY <1>1, <1>3, <1>4

--------------------------------------------------------------------------------
\* Every step of the callers keeps the invariant.
LEMMA NextInv == Inv /\ [Next]_vars => Inv'
<1> SUFFICES ASSUME Inv, [Next]_vars PROVE Inv'
  OBVIOUS
<1>1. ASSUME NEW c \in Callers, CallerStep(c) PROVE Inv'
  BY <1>1, ReserveInv, TakePrimitiveInv, GiveUpInv, UnreserveInv, PublishInv,
     ReleaseInv DEF CallerStep
<1>2. CASE UNCHANGED vars
  BY <1>2, StutterInv
<1> QED
  BY <1>1, <1>2 DEF Next

(***************************************************************************)
(* The inductive invariant holds in every reachable state: the registry,   *)
(* the reference counts, the primitives and the tokens of inprocess.py     *)
(* agree with where the callers are.                                       *)
(***************************************************************************)
THEOREM Invariance == Spec => []Inv
BY InitInv, NextInv, PTL DEF Spec

(***************************************************************************)
(* Every variable keeps its type; in particular a caller inside acquire    *)
(* never meets a key without a registered object.                          *)
(***************************************************************************)
THEOREM TypeCorrect == Spec => []TypeOK
<1>1. Inv => TypeOK
  BY DEF Inv
<1> QED
  BY <1>1, Invariance, PTL

(***************************************************************************)
(* Two executions never own one (graph_name, thread_id), whatever the      *)
(* interleaving of acquires, timeouts, garbage collection and stale or     *)
(* repeated releases, for any number of threads and keys.                  *)
(***************************************************************************)
THEOREM Exclusion == Spec => []MutualExclusion
<1>1. Inv => MutualExclusion
  BY DEF Inv
<1> QED
  BY <1>1, Invariance, PTL

(***************************************************************************)
(* A holder's ownership is ended by nobody else: its token stays recorded  *)
(* for its key, on a held primitive, until it releases.                    *)
(***************************************************************************)
THEOREM HolderKeeps == Spec => []HolderKeepsKey
<1>1. Inv => HolderKeepsKey
  <2> SUFFICES ASSUME Inv, NEW c \in Callers, pc[c] = "holding"
               PROVE  ReleaseMatches(key[c], mine[c]) /\ lock[states[key[c]]]
    BY DEF HolderKeepsKey
  <2>1. key[c] \in Keys /\ states[key[c]] # NoObject
    BY DEF Inv, UsersRegistered, Counted
  <2>2. token[states[key[c]]] = mine[c]
    BY DEF Inv, HolderHasToken
  <2>3. lock[states[key[c]]]
    BY <2>1 DEF Inv, LockHeldInside, Inside
  <2> QED
    BY <2>1, <2>2, <2>3 DEF ReleaseMatches
<1> QED
  BY <1>1, Invariance, PTL

(***************************************************************************)
(* The registry has an entry for a key exactly while some caller is        *)
(* counted in it: no entry leaks and none is collected too early.          *)
(***************************************************************************)
THEOREM RegistryExact == Spec => []RegistryBounded
<1>1. ASSUME Inv PROVE RegistryBounded
  <2> SUFFICES ASSUME NEW k \in Keys
               PROVE  states[k] # NoObject <=> UsersOf(k) # {}
    BY DEF RegistryBounded
  <2>1. states[k] # NoObject => UsersOf(k) # {}
    BY <1>1 DEF Inv, RefsCountUsers
  <2>2. UsersOf(k) # {} => states[k] # NoObject
    BY <1>1 DEF Inv, UsersRegistered, UsersOf
  <2> QED
    BY <2>1, <2>2
<1> QED
  BY <1>1, Invariance, PTL

--------------------------------------------------------------------------------
\* Under mutual exclusion the owner seen by the contract is the caller inside.
LEMMA OwnerIsInside ==
  ASSUME MutualExclusion, NEW k \in Keys
  PROVE  /\ \A c \in Callers : Inside(c) /\ key[c] = k => ownerBar[k] = c
         /\ (\A c \in Callers : Inside(c) => key[c] # k) => ownerBar[k] = NoCaller
<1>1. ASSUME NEW c \in Callers, Inside(c), key[c] = k PROVE ownerBar[k] = c
  <2>1. Holders(k) = {c}
    BY <1>1 DEF Holders, MutualExclusion
  <2> QED
    BY <2>1 DEF ownerBar, OwnerOf
<1>2. ASSUME \A c \in Callers : Inside(c) => key[c] # k PROVE ownerBar[k] = NoCaller
  <2>1. Holders(k) = {}
    BY <1>2 DEF Holders
  <2> QED
    BY <2>1 DEF ownerBar, OwnerOf
<1> QED
  BY <1>1, <1>2

\* A caller's step changes its own view and nobody else's.
LEMMA ViewStep ==
  ASSUME TypeOK, NEW c \in Callers, NEW s \in Control, pc' = [pc EXCEPT ![c] = s]
  PROVE  viewBar' = [viewBar EXCEPT ![c] = ViewOf(s)] /\ viewBar[c] = ViewOf(pc[c])
BY DEF viewBar, TypeOK

\* A step that moves nobody in or out leaves the owners as they are.
LEMMA OwnersSame ==
  ASSUME \A c \in Callers : (Inside(c)' <=> Inside(c)) /\ (Inside(c) => key'[c] = key[c])
  PROVE  ownerBar' = ownerBar
<1>1. \A k \in Keys : Holders(k)' = Holders(k)
  BY DEF Holders
<1> QED
  BY <1>1 DEF ownerBar

\* Nobody owns a key at the start.
LEMMA InitRefines == Init => Contract!Init
<1> SUFFICES ASSUME Init PROVE Contract!Init
  OBVIOUS
<1>1. \A k \in Keys : Holders(k) = {}
  BY DEF Init, Holders, Inside
<1>2. ownerBar = [k \in Keys |-> NoCaller]
  BY <1>1 DEF ownerBar, OwnerOf
<1>3. viewBar = [c \in Callers |-> "idle"]
  BY DEF viewBar, ViewOf, Init
<1> QED
  BY <1>2, <1>3 DEF Init, Contract!Init

\* Entering: the primitive's acquire is the grant.
LEMMA TakeRefines ==
  ASSUME Inv, NEW c \in Callers, TakePrimitive(c)
  PROVE  Contract!Grant(c)
<1>1. /\ pc[c] = "reserved"
      /\ ~lock[obj[c]]
      /\ pc' = [pc EXCEPT ![c] = "locked"]
      /\ key' = key
      /\ Inv'
  BY TakePrimitiveInv DEF TakePrimitive
<1>2. key[c] \in Keys /\ states[key[c]] = obj[c] /\ obj[c] # NoObject
  BY <1>1 DEF Inv, UsersRegistered, Counted
<1>3. \A d \in Callers : Inside(d) => key[d] # key[c]
  BY <1>1, <1>2 DEF Inv, LockHeldInside
<1>4. ownerBar[key[c]] = NoCaller
  BY <1>2, <1>3, OwnerIsInside DEF Inv
<1>5. \A d \in Callers : Inside(d)' <=> Inside(d) \/ d = c
  BY <1>1 DEF Inside, Inv, TypeOK
<1>6. \A l \in Keys : Holders(l)' = IF l = key[c] THEN {c} ELSE Holders(l)
  BY <1>1, <1>3, <1>5 DEF Holders
<1>7. ownerBar' = [ownerBar EXCEPT ![key[c]] = c]
  <2>1. OwnerOf({c}) = c
    BY DEF OwnerOf
  <2> QED
    BY <1>2, <1>6, <2>1 DEF ownerBar
<1>8. /\ viewBar[c] = "waiting"
      /\ viewBar' = [viewBar EXCEPT ![c] = "owner"]
  BY <1>1, ViewStep DEF Inv, Control, ViewOf
<1> QED
  BY <1>1, <1>4, <1>7, <1>8 DEF Contract!Grant

\* Leaving: the holder's release ends its ownership.
LEMMA ReleaseRefines ==
  ASSUME Inv, NEW c \in Callers, Release(c)
  PROVE  Contract!Release(c) \/ UNCHANGED Contract!lockVars
<1>1. /\ pc[c] \in {"idle", "holding"}
      /\ pc' = [pc EXCEPT ![c] = "idle"]
      /\ key' = key
  BY DEF Release
<1>2. CASE pc[c] = "idle"
  <2>1. pc' = pc
    BY <1>1, <1>2 DEF Inv, TypeOK
  <2>2. viewBar' = viewBar
    BY <2>1 DEF viewBar
  <2>3. ownerBar' = ownerBar
    BY <1>1, <2>1, OwnersSame DEF Inside
  <2> QED
    BY <1>1, <2>2, <2>3 DEF Contract!lockVars
<1>3. CASE pc[c] = "holding"
  <2>1. key[c] \in Keys /\ Inside(c)
    BY <1>3 DEF Inv, UsersRegistered, Counted, Inside
  <2>2. ownerBar[key[c]] = c
    BY <2>1, OwnerIsInside DEF Inv
  <2>3. \A d \in Callers : Inside(d)' <=> Inside(d) /\ d # c
    BY <1>1 DEF Inside, Inv, TypeOK
  <2>4. \A l \in Keys : Holders(l)' = IF l = key[c] THEN {} ELSE Holders(l)
    BY <1>1, <2>1, <2>3 DEF Holders, Inv, MutualExclusion
  <2>5. ownerBar' = [ownerBar EXCEPT ![key[c]] = NoCaller]
    <3>1. OwnerOf({}) = NoCaller
      BY DEF OwnerOf
    <3> QED
      BY <2>1, <2>4, <3>1 DEF ownerBar
  <2>6. /\ viewBar[c] = "owner"
        /\ viewBar' = [viewBar EXCEPT ![c] = "idle"]
    BY <1>1, <1>3, ViewStep DEF Inv, Control, ViewOf
  <2> QED
    BY <1>1, <2>2, <2>5, <2>6 DEF Contract!Release
<1> QED
  BY <1>1, <1>2, <1>3

\* Every step of a caller is a step of the contract or changes nothing it sees.
LEMMA StepRefines ==
  ASSUME Inv, NEW c \in Callers, CallerStep(c)
  PROVE  Contract!Next \/ UNCHANGED Contract!lockVars
<1>1. ASSUME NEW k \in Keys, Reserve(c, k) PROVE Contract!Request(c, k)
  <2>1. /\ pc[c] = "idle"
        /\ pc' = [pc EXCEPT ![c] = "reserved"]
        /\ key' = [key EXCEPT ![c] = k]
    BY <1>1 DEF Reserve
  <2>2. ownerBar' = ownerBar
    BY <2>1, OwnersSame DEF Inside, Inv, TypeOK
  <2>3. viewBar[c] = "idle" /\ viewBar' = [viewBar EXCEPT ![c] = "waiting"]
    BY <2>1, ViewStep DEF Inv, Control, ViewOf
  <2> QED
    BY <2>1, <2>2, <2>3 DEF Contract!Request
<1>2. ASSUME GiveUp(c) PROVE Contract!Refuse(c)
  <2>1. /\ pc[c] = "reserved"
        /\ lock[obj[c]]
        /\ pc' = [pc EXCEPT ![c] = "failed"]
        /\ key' = key
    BY <1>2 DEF GiveUp
  <2>2. key[c] \in Keys /\ states[key[c]] = obj[c] /\ obj[c] # NoObject
    BY <2>1 DEF Inv, UsersRegistered, Counted
  <2>3. PICK d \in Callers : Inside(d) /\ key[d] = key[c]
    BY <2>1, <2>2 DEF Inv, LockHeldInside
  <2>4. ownerBar[key[c]] # NoCaller
    BY <2>2, <2>3, OwnerIsInside, NoCallerIsNone DEF Inv
  <2>5. ownerBar' = ownerBar
    BY <2>1, OwnersSame DEF Inside, Inv, TypeOK
  <2>6. viewBar[c] = "waiting" /\ viewBar' = [viewBar EXCEPT ![c] = "refused"]
    BY <2>1, ViewStep DEF Inv, Control, ViewOf
  <2> QED
    BY <2>1, <2>4, <2>5, <2>6 DEF Contract!Refuse
<1>3. ASSUME Unreserve(c) PROVE Contract!Return(c)
  <2>1. /\ pc[c] = "failed"
        /\ pc' = [pc EXCEPT ![c] = "idle"]
        /\ key' = key
    BY <1>3 DEF Unreserve
  <2>2. ownerBar' = ownerBar
    BY <2>1, OwnersSame DEF Inside, Inv, TypeOK
  <2>3. viewBar[c] = "refused" /\ viewBar' = [viewBar EXCEPT ![c] = "idle"]
    BY <2>1, ViewStep DEF Inv, Control, ViewOf
  <2> QED
    BY <2>1, <2>2, <2>3 DEF Contract!Return
<1>4. ASSUME Publish(c) PROVE UNCHANGED Contract!lockVars
  <2>1. /\ pc[c] = "locked"
        /\ pc' = [pc EXCEPT ![c] = "holding"]
        /\ key' = key
    BY <1>4 DEF Publish
  <2>2. ownerBar' = ownerBar
    BY <2>1, OwnersSame DEF Inside, Inv, TypeOK
  <2>3. viewBar' = viewBar
    <3>1. /\ viewBar' = [viewBar EXCEPT ![c] = ViewOf("holding")]
          /\ viewBar[c] = ViewOf("locked")
      BY <2>1, ViewStep DEF Inv, Control
    <3>2. ViewOf("holding") = ViewOf("locked")
      BY DEF ViewOf
    <3> QED
      BY <3>1, <3>2 DEF viewBar
  <2> QED
    BY <2>1, <2>2, <2>3 DEF Contract!lockVars
<1> QED
  BY <1>1, <1>2, <1>3, <1>4, TakeRefines, ReleaseRefines DEF CallerStep, Contract!Next

(***************************************************************************)
(* The in-process lock implements the contract of locks/base.py: a grant   *)
(* only for a free key, a refusal only for an owned one, a release only by *)
(* the owner, every stale release a no-op.                                 *)
(***************************************************************************)
THEOREM Refinement == Spec => ImplementsContract
<1>1. Inv /\ [Next]_vars => [Contract!Next]_Contract!lockVars
  <2> SUFFICES ASSUME Inv, [Next]_vars
               PROVE  Contract!Next \/ UNCHANGED Contract!lockVars
    BY DEF Contract!lockVars
  <2>1. CASE Next
    BY <2>1, StepRefines DEF Next
  <2>2. CASE UNCHANGED vars
    BY <2>2, OwnersSame DEF vars, Contract!lockVars, viewBar, Inside
  <2> QED
    BY <2>1, <2>2
<1> QED
  BY <1>1, InitRefines, Invariance, PTL DEF Spec, ImplementsContract, Contract!Spec
===============================================================================
