------------------------------ MODULE JobQueue ------------------------------
(***************************************************************************)
(* What a DMA ring promises its host: the requests of a session are         *)
(* executed one at a time, in the order they were posted, each at most      *)
(* once.  A session may end at any time; the requests it leaves behind are  *)
(* abandoned and never executed later.                                      *)
(***************************************************************************)
EXTENDS Naturals, Sequences

CONSTANT Jobs   \* the names of requests

VARIABLES
  fresh,   \* names not used yet
  todo,    \* posted and not executed, oldest first
  done     \* executed, in the order of execution

vars == <<fresh, todo, done>>

Init ==
  /\ fresh = Jobs
  /\ todo = <<>>
  /\ done = <<>>

Post(j) ==
  /\ j \in fresh
  /\ fresh' = fresh \ {j}
  /\ todo' = Append(todo, j)
  /\ UNCHANGED done

Execute ==
  /\ todo # <<>>
  /\ done' = Append(done, Head(todo))
  /\ todo' = Tail(todo)
  /\ UNCHANGED fresh

Abandon ==
  /\ todo' = <<>>
  /\ UNCHANGED <<fresh, done>>

Next ==
  \/ \E j \in Jobs : Post(j)
  \/ Execute
  \/ Abandon

Spec == Init /\ [][Next]_vars

-----------------------------------------------------------------------------

TypeOK ==
  /\ fresh \subseteq Jobs
  /\ todo \in Seq(Jobs)
  /\ done \in Seq(Jobs)

\* No request is executed twice, and none that was executed is still waiting.
AtMostOnce ==
  /\ \A i, k \in 1 .. Len(done) : done[i] = done[k] => i = k
  /\ \A i \in 1 .. Len(done), k \in 1 .. Len(todo) : done[i] # todo[k]
==============================================================================
