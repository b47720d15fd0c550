--------------------------- MODULE CheckpointHistory ---------------------------
(***************************************************************************)
(* What a checkpoint saver promises to the readers of a thread: the        *)
(* checkpoints committed so far, and a read of the newest one. A read is   *)
(* not atomic; it answers as of some moment after it began, unless         *)
(* checkpoints are deleted meanwhile.                                      *)
(***************************************************************************)
EXTENDS Integers, FiniteSets, FiniteSetsExt

CONSTANT Ids \* checkpoint ids, positive numbers ordered by time; 0 is none

VARIABLES
  committed, \* ids of the checkpoints there are
  reading,   \* a read of the newest is under way
  floor,     \* the newest when it began, 0 when none is under way
  shaken,    \* a checkpoint was deleted since
  answer     \* what the last read answered

historyVars == <<committed, reading, floor, shaken, answer>>

Newest(S) == Max(S \cup {0})

Init ==
  /\ committed = {} /\ reading = FALSE
  /\ floor = 0 /\ shaken = FALSE /\ answer = 0

Commit(c) ==
  /\ committed' = committed \cup {c}
  /\ UNCHANGED <<reading, floor, shaken, answer>>

Forget(c) ==
  /\ committed' = committed \ {c}
  /\ shaken' = reading
  /\ UNCHANGED <<reading, floor, answer>>

Begin ==
  /\ ~reading /\ reading' = TRUE
  /\ floor' = Newest(committed) /\ shaken' = FALSE /\ answer' = 0
  /\ UNCHANGED committed

\* A checkpoint that exists, and none older than the newest at the start.
Fresh(a) == a >= floor /\ (a \in committed \/ a = 0)

End(a) ==
  /\ reading /\ reading' = FALSE
  /\ shaken \/ Fresh(a)
  /\ answer' = a /\ floor' = 0 /\ shaken' = FALSE
  /\ UNCHANGED committed

\* The caller has the answer.
Taken ==
  /\ answer' = 0
  /\ UNCHANGED <<committed, reading, floor, shaken>>

Next ==
  \/ \E c \in Ids : Commit(c) \/ Forget(c)
  \/ Begin \/ Taken
  \/ \E a \in Ids \cup {0} : End(a)

Spec == Init /\ [][Next]_historyVars
================================================================================
