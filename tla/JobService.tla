----------------------------- MODULE JobService -----------------------------
(***************************************************************************)
(* What src/utility/job_queue.h promises of a job, without threads, locks  *)
(* or the result hand-over: a job is submitted, may be started once, and   *)
(* ends in exactly one of two ways - delivered (its callback is called) or *)
(* dropped - before it is reclaimed (its cleanup is called).  A canceled   *)
(* job is never delivered; a finished job is delivered unless the service  *)
(* is closing.  JobQueue implements this; callers reason with it.          *)
(***************************************************************************)
CONSTANT Jobs

VARIABLES
  phase,   \* of each job
  doomed,  \* jobs whose delivery was called off
  closing  \* the service is being destroyed

svars == <<phase, doomed, closing>>

Phases == {"new", "queued", "running", "finished", "dropped", "delivered",
           "reclaimed"}

STypeOK == /\ phase \in [Jobs -> Phases]
           /\ doomed \subseteq Jobs
           /\ closing \in BOOLEAN

SInit == /\ phase = [j \in Jobs |-> "new"]
         /\ doomed = {}
         /\ closing = FALSE

Move(j, from, to) == phase[j] = from /\ phase' = [phase EXCEPT ![j] = to]

Submit(j) == ~closing /\ Move(j, "new", "queued") /\ UNCHANGED <<doomed, closing>>

Start(j)  == ~closing /\ Move(j, "queued", "running") /\ UNCHANGED <<doomed, closing>>

(* Call a job off: one that waits is dropped, one that runs will be.        *)
CallOff(j) == /\ phase[j] \in {"queued", "running", "dropped"}
              /\ phase' = [phase EXCEPT ![j] = IF @ = "queued" THEN "dropped" ELSE @]
              /\ doomed' = doomed \cup {j}
              /\ UNCHANGED closing

FinishJob(j) == /\ j \notin doomed
                /\ Move(j, "running", "finished")
                /\ UNCHANGED <<doomed, closing>>

(* A running job that was called off, or that calls itself off.             *)
Drop(j) == /\ Move(j, "running", "dropped")
           /\ doomed' = doomed \cup {j}
           /\ UNCHANGED closing

Deliver(j) == ~closing /\ Move(j, "finished", "delivered") /\ UNCHANGED <<doomed, closing>>

Reclaim(j) == /\ \/ Move(j, "delivered", "reclaimed")
                 \/ Move(j, "dropped", "reclaimed")
                 \/ closing /\ Move(j, "finished", "reclaimed")
              /\ UNCHANGED <<doomed, closing>>

Close == /\ ~closing /\ closing' = TRUE
         /\ phase' = [j \in Jobs |-> IF phase[j] = "queued" THEN "dropped" ELSE phase[j]]
         /\ doomed' = doomed \cup {j \in Jobs : phase[j] \in {"queued", "running"}}

SNext == \/ \E j \in Jobs : \/ Submit(j) \/ Start(j) \/ CallOff(j) \/ FinishJob(j)
                            \/ Drop(j) \/ Deliver(j) \/ Reclaim(j)
         \/ Close

SSpec == SInit /\ [][SNext]_svars
=============================================================================
