---------------------------- MODULE JobQueueProofs ----------------------------
(***************************************************************************)
(* The abstract queue executes no request twice, whatever the requests are. *)
(* What EduRingHost is shown to implement therefore says so too.            *)
(***************************************************************************)
EXTENDS JobQueue, TLAPS

-----------------------------------------------------------------------------
(* The inductive invariant: a name is in at most one place.                 *)

\* No request waits twice.
TodoDistinct == \A i, k \in 1 .. Len(todo) : todo[i] = todo[k] => i = k

\* A name that may still be posted was never posted.
FreshUnused ==
  /\ \A i \in 1 .. Len(todo) : todo[i] \notin fresh
  /\ \A i \in 1 .. Len(done) : done[i] \notin fresh

QueueInv == TypeOK /\ AtMostOnce /\ TodoDistinct /\ FreshUnused

-----------------------------------------------------------------------------

\* The empty queue satisfies the invariant.
LEMMA InitQueueInv == Init => QueueInv
BY DEF Init, QueueInv, TypeOK, AtMostOnce, TodoDistinct, FreshUnused

\* Posting takes an unused name.
LEMMA PostInv ==
  ASSUME QueueInv, NEW j \in Jobs, Post(j)
  PROVE  QueueInv'
<1> USE DEF QueueInv, Post
<1>1. todo' \in Seq(Jobs) /\ Len(todo') = Len(todo) + 1
  BY DEF TypeOK
<1>2. \A i \in 1 .. Len(todo') :
        todo'[i] = IF i = Len(todo) + 1 THEN j ELSE todo[i]
  BY <1>1 DEF TypeOK
<1>3. TypeOK'
  BY <1>1 DEF TypeOK
<1>4. AtMostOnce'
  BY <1>1, <1>2 DEF TypeOK, AtMostOnce, FreshUnused
<1>5. TodoDistinct'
  BY <1>1, <1>2 DEF TypeOK, TodoDistinct, FreshUnused
<1>6. FreshUnused'
  BY <1>1, <1>2 DEF TypeOK, FreshUnused
<1> QED
  BY <1>3, <1>4, <1>5, <1>6

\* Executing moves the oldest name from todo to done.
LEMMA ExecuteInv ==
  ASSUME QueueInv, Execute
  PROVE  QueueInv'
<1> USE DEF QueueInv, Execute
<1>1. /\ Len(todo) \in Nat \ {0}
      /\ todo' \in Seq(Jobs) /\ Len(todo') = Len(todo) - 1
      /\ \A i \in 1 .. Len(todo') : todo'[i] = todo[i + 1]
  BY DEF TypeOK
<1>2. /\ todo[1] \in Jobs /\ Head(todo) = todo[1]
      /\ done' \in Seq(Jobs) /\ Len(done') = Len(done) + 1
      /\ \A i \in 1 .. Len(done') :
           done'[i] = IF i = Len(done) + 1 THEN todo[1] ELSE done[i]
  BY <1>1 DEF TypeOK
<1>3. TypeOK'
  BY <1>1, <1>2 DEF TypeOK
<1>4. AtMostOnce'
  <2>1. \A i, k \in 1 .. Len(done') : done'[i] = done'[k] => i = k
    BY <1>1, <1>2 DEF TypeOK, AtMostOnce
  <2>2. \A i \in 1 .. Len(done'), k \in 1 .. Len(todo') : done'[i] # todo'[k]
    BY <1>1, <1>2 DEF TypeOK, AtMostOnce, TodoDistinct
  <2> QED
    BY <2>1, <2>2 DEF AtMostOnce
<1>5. TodoDistinct'
  BY <1>1 DEF TypeOK, TodoDistinct
<1>6. FreshUnused'
  BY <1>1, <1>2 DEF TypeOK, FreshUnused
<1> QED
  BY <1>3, <1>4, <1>5, <1>6

\* Abandoning only forgets.
LEMMA AbandonInv ==
  ASSUME QueueInv, Abandon
  PROVE  QueueInv'
BY DEF QueueInv, Abandon, TypeOK, AtMostOnce, TodoDistinct, FreshUnused

\* No request is executed twice, and none that was executed still waits.
THEOREM ExecutedOnce == Spec => []AtMostOnce
<1>1. QueueInv /\ [Next]_vars => QueueInv'
  <2> SUFFICES ASSUME QueueInv, [Next]_vars PROVE QueueInv'
    OBVIOUS
  <2>1. ASSUME NEW j \in Jobs, Post(j) PROVE QueueInv'
    BY <2>1, PostInv
  <2>2. CASE Execute
    BY <2>2, ExecuteInv
  <2>3. CASE Abandon
    BY <2>3, AbandonInv
  <2>4. CASE UNCHANGED vars
    BY <2>4 DEF vars, QueueInv, TypeOK, AtMostOnce, TodoDistinct, FreshUnused
  <2> QED
    BY <2>1, <2>2, <2>3, <2>4 DEF Next
<1>2. QueueInv => AtMostOnce
  BY DEF QueueInv
<1> QED
  BY InitQueueInv, <1>1, <1>2, PTL DEF Spec
==============================================================================
