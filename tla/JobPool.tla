------------------------------ MODULE JobPool ------------------------------
(***************************************************************************)
(* What SENCThreadManager (src/src/SencManager.cpp) promises its callers,  *)
(* without threads, tickets or events: jobs are admitted to a bounded set  *)
(* of slots in the order in which they were submitted, and no slot is left *)
(* free while a job waits.  SencBuild is shown to implement this module.   *)
(***************************************************************************)
EXTENDS Naturals, Sequences, FiniteSets

CONSTANTS Job,      \* the jobs that may be submitted
          MaxJobs   \* m_max_jobs, the number of slots

VARIABLES waiting,  \* jobs admitted and not started, oldest first
          running   \* jobs that hold a slot

poolVars == <<waiting, running>>

Init ==
    /\ waiting = <<>>
    /\ running = {}

(* A new job takes a slot at once, or goes to the end of the queue.        *)
Submit(j) ==
    /\ j \notin running
    /\ \A k \in 1..Len(waiting) : waiting[k] # j
    /\ IF Cardinality(running) < MaxJobs
       THEN running' = running \union {j} /\ waiting' = waiting
       ELSE waiting' = Append(waiting, j) /\ running' = running

(* A job that ends hands its slot to the oldest waiting job.               *)
Complete(j) ==
    /\ j \in running
    /\ IF waiting = <<>>
       THEN running' = running \ {j} /\ waiting' = waiting
       ELSE /\ running' = (running \ {j}) \union {Head(waiting)}
            /\ waiting' = Tail(waiting)

Next == \E j \in Job : Submit(j) \/ Complete(j)

Spec == Init /\ [][Next]_poolVars
=============================================================================
