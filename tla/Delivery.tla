------------------------------- MODULE Delivery -------------------------------
(***************************************************************************)
(* What evoagent/task_queue.py promises the service, without saying how: a *)
(* submission is accepted, stays open until its handler has returned or it *)
(* is in the dead-letter queue, and is then closed.  A submission may be   *)
(* reopened by a late duplicate, but it is never dropped.  TaskQueue (the  *)
(* Redis Streams backend) and MemoryQueue (the in-process backend) are     *)
(* shown to implement this module.                                         *)
(***************************************************************************)

CONSTANT Submissions    \* calls of TaskQueue.submit

VARIABLES
  open,     \* submissions the queue still has to deliver
  done,     \* submissions whose handler returned normally
  dead      \* submissions written to the dead-letter queue

vars == <<open, done, dead>>

Settled == done \cup dead

Init == open = {} /\ done = {} /\ dead = {}

(* submit(), or a duplicate of an earlier delivery that is requeued late *)
Accept(s) ==
  /\ s \notin open
  /\ open' = open \cup {s}
  /\ UNCHANGED <<done, dead>>

Complete(s) ==
  /\ s \in open \cup Settled
  /\ done' = done \cup {s}
  /\ UNCHANGED <<open, dead>>

Bury(s) ==
  /\ s \in open \cup Settled
  /\ dead' = dead \cup {s}
  /\ UNCHANGED <<open, done>>

Close(s) ==
  /\ s \in open \cap Settled
  /\ open' = open \ {s}
  /\ UNCHANGED <<done, dead>>

Next == \E s \in Submissions : Accept(s) \/ Complete(s) \/ Bury(s) \/ Close(s)

(* The promise.  That open submissions are settled in the end is stated by   *)
(* the modules that know the fairness it takes.                              *)
Safe == Init /\ [][Next]_vars
===============================================================================
