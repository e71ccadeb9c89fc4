------------------------------ MODULE JobQueue ------------------------------
(***************************************************************************)
(* The job queue of src/utility/job_queue.c: worker threads execute jobs,  *)
(* the main thread collects finished ones in ese_job_queue_process, calls  *)
(* their callback and cleanup and frees them, and any thread may push a    *)
(* job, cancel it or wait for it.                                          *)
(*                                                                         *)
(* Grain.  One action is one critical section of global_mutex, or of       *)
(* jobs_mutex alone where the code takes only that one, or one stretch of  *)
(* code that runs outside both.  Loops over the queue that take jobs_mutex *)
(* once per job are one action: the only step another thread can take in   *)
(* between is a worker moving ITS job RUNNING -> RESULTS_READY/CANCELED    *)
(* (everybody else needs global_mutex first), and that step commutes with  *)
(* what the loop does to the other jobs.                                   *)
(*                                                                         *)
(* Jobs are their ids.  An id is taken from next_job_id and the job is     *)
(* appended to global_queue in the same critical section, so the list is   *)
(* always in id order: it is a set here, "first" is the smallest id.       *)
(*                                                                         *)
(* A timed wait that wakes and finds nothing new is a stuttering step, so  *)
(* only a thread inside wait_for_completion is ever really asleep.         *)
(***************************************************************************)
EXTENDS Integers, FiniteSets

CONSTANTS
  Workers,  (* worker threads, num_workers of them                          *)
  Clients,  (* threads other than main that call the public functions       *)
  Main,     (* the main thread: process, destroy and the callbacks          *)
  AnyWorker,(* ESE_WORKER_ANY                                               *)
  MaxJobs   (* bound on next_job_id: how many jobs are ever pushed          *)

ASSUME ThreadsAssumption ==
  /\ Workers # {}                        \* log_assert num_workers > 0
  /\ Main \notin Workers \cup Clients
  /\ Workers \cap Clients = {}
  /\ AnyWorker \notin Workers
ASSUME MaxJobsAssumption == MaxJobs \in Nat

Threads == Clients \cup {Main}
JobIds  == 1..MaxJobs
NoJob   == 0

States == {"none", "PENDING", "RUNNING", "RESULTS_READY", "RESULTS_PROCESSED",
           "EXECUTED", "CANCELED"}

VARIABLES
  queue,        \* global_queue: ids of the jobs in the list
  byId,         \* jobs_by_id: ids the map resolves
  nextId,       \* next_job_id
  state, target, executor, canceled,  \* the EseJob fields of the same names
  workerResult, \* worker_result.result # NULL
  mainResult,   \* main_result # NULL
  freed,        \* jobs whose EseJob went through _free_job_value
  shuttingDown, \* shutting_down
  wpc, wjob,    \* each worker: where it is, and its local "picked"
  wlocal,       \* each worker's local is_canceled_local
  mpc,          \* where the main thread is in process / destroy
  local, mjob,  \* process: the rest of its list "local", and the popped job
  tpc, tjob, ttimed, \* each thread inside push or wait: where, which job, timed?
  \* History, read by the properties only:
  reported,     \* jobs of which some wait returned COMPLETED or CANCELED
  called, cleaned, \* jobs whose callback / cleanup was called
  ackCanceled   \* jobs of which cancel_callback returned CANCELED

jobVars    == <<state, target, executor, canceled, workerResult, mainResult>>
listVars   == <<queue, byId, nextId, freed>>
workerVars == <<wpc, wjob, wlocal>>
mainVars   == <<mpc, local, mjob>>
callVars   == <<tpc, tjob, ttimed>>
histVars   == <<reported, called, cleaned, ackCanceled>>
vars == <<jobVars, listVars, workerVars, mainVars, callVars, histVars, shuttingDown>>

-----------------------------------------------------------------------------
Init ==
  /\ queue = {} /\ byId = {} /\ nextId = 1 /\ freed = {}
  /\ state = [j \in JobIds |-> "none"]
  /\ target = [j \in JobIds |-> AnyWorker]
  /\ executor = [j \in JobIds |-> AnyWorker]
  /\ canceled = [j \in JobIds |-> FALSE]
  /\ workerResult = [j \in JobIds |-> FALSE]
  /\ mainResult = [j \in JobIds |-> FALSE]
  /\ shuttingDown = FALSE
  /\ wpc = [w \in Workers |-> "scan"]
  /\ wjob = [w \in Workers |-> NoJob]
  /\ wlocal = [w \in Workers |-> FALSE]
  /\ mpc = "idle" /\ local = {} /\ mjob = NoJob
  /\ tpc = [t \in Threads |-> "idle"]
  /\ tjob = [t \in Threads |-> NoJob]
  /\ ttimed = [t \in Threads |-> FALSE]
  /\ reported = {}
  /\ called = {} /\ cleaned = {} /\ ackCanceled = {}

(* Definitions named Wrong... are mutants: a plausible mistake in the        *)
(* definition that follows.  Nothing uses them; they show that a property   *)
(* notices the mistake.                                                     *)

(* A signal instead of a broadcast, consumed by a worker.                   *)
WrongWoken(f) == f

(* ese_cond_broadcast(global_cond): every sleeping caller will look again. *)
Woken(f) == [t \in Threads |-> IF f[t] = "asleep" THEN "awake" ELSE f[t]]
Broadcast == tpc' = Woken(tpc)

-----------------------------------------------------------------------------
(* Worker threads: _worker_thread_main                                      *)

Mine(w, s) == {j \in queue : executor[j] = w /\ state[j] = s}
Eligible(w) == {j \in queue : state[j] = "PENDING" /\ target[j] \in {AnyWorker, w}}

(* Last in, first out.                                                      *)
WrongNextFor(w) == {p \in Eligible(w) : \A j \in Eligible(w) : p >= j}

NextFor(w) == {p \in Eligible(w) : \A j \in Eligible(w) : p <= j}

(* PROCESSED -> EXECUTED for the jobs S: the worker frees its own result.   *)
Advance(S) ==
  /\ workerResult' = [j \in JobIds |-> IF j \in S THEN FALSE ELSE workerResult[j]]
  /\ tpc' = IF S = {} THEN tpc ELSE Woken(tpc)

(* The scan stops at the first eligible job, having advanced the jobs of    *)
(* this worker that stand before it.                                        *)
ScanPick(w) ==
  /\ wpc[w] = "scan" /\ ~shuttingDown
  /\ \E p \in NextFor(w) :
       /\ LET S == {j \in Mine(w, "RESULTS_PROCESSED") : j < p}
          IN /\ Advance(S)
             /\ state' = [j \in JobIds |-> IF j = p THEN "RUNNING"
                                           ELSE IF j \in S THEN "EXECUTED" ELSE state[j]]
       /\ executor' = [executor EXCEPT ![p] = w]
       /\ wjob' = [wjob EXCEPT ![w] = p]
  /\ wpc' = [wpc EXCEPT ![w] = "picked"]
  /\ UNCHANGED <<target, canceled, mainResult, listVars, wlocal, mainVars, tjob,
                 ttimed, histVars, shuttingDown>>

(* A scan that picks nothing but finds results to release.                  *)
ScanAdvance(w) ==
  /\ wpc[w] = "scan"
  /\ shuttingDown \/ Eligible(w) = {}
  /\ LET S == Mine(w, "RESULTS_PROCESSED")
     IN /\ S # {}
        /\ Advance(S)
        /\ state' = [j \in JobIds |-> IF j \in S THEN "EXECUTED" ELSE state[j]]
  /\ UNCHANGED <<target, executor, canceled, mainResult, listVars, workerVars,
                 mainVars, tjob, ttimed, histVars, shuttingDown>>

(* Leave as soon as there is nothing to release right now.                  *)
WrongMayExit(w) == Mine(w, "RESULTS_PROCESSED") = {}

MayExit(w) == /\ Mine(w, "RESULTS_PROCESSED") = {} /\ Mine(w, "RESULTS_READY") = {}
              /\ \A j \in queue : state[j] \in {"EXECUTED", "CANCELED"}

(* In shutdown a worker leaves once none of its jobs waits for it and every *)
(* job in the list is final; otherwise it sleeps 50 ms and scans again.     *)
ScanExit(w) ==
  /\ wpc[w] = "scan" /\ shuttingDown
  /\ MayExit(w)
  /\ wpc' = [wpc EXCEPT ![w] = "exited"]
  /\ UNCHANGED <<jobVars, listVars, wjob, wlocal, mainVars, callVars, histVars,
                 shuttingDown>>

(* The canceled flag is copied once, before fn; fn sees only the copy.      *)
ReadCanceled(w) ==
  /\ wpc[w] = "picked"
  /\ wlocal' = [wlocal EXCEPT ![w] = canceled[wjob[w]]]
  /\ wpc' = [wpc EXCEPT ![w] = IF canceled[wjob[w]] THEN "finish" ELSE "run"]
  /\ UNCHANGED <<jobVars, listVars, wjob, mainVars, callVars, histVars, shuttingDown>>

(* fn returns: with a result or without, having set *canceled or not.       *)
FnReturn(w) ==
  /\ wpc[w] = "run"
  /\ \E r, c \in BOOLEAN :
       /\ workerResult' = [workerResult EXCEPT ![wjob[w]] = r]
       /\ wlocal' = [wlocal EXCEPT ![w] = c]
  /\ wpc' = [wpc EXCEPT ![w] = "finish"]
  /\ UNCHANGED <<state, target, executor, canceled, mainResult, listVars, wjob,
                 mainVars, callVars, histVars, shuttingDown>>

(* Only the copy made before fn is looked at again.                         *)
WrongDropped(w) == wlocal[w]

Dropped(w) == canceled[wjob[w]] \/ wlocal[w]

(* The result of a canceled job is not freed here.                          *)
WrongKept(w) == workerResult[wjob[w]]

Kept(w) == workerResult[wjob[w]] /\ ~Dropped(w)

(* The state JOB_COMPLETED exists in the enum.                              *)
WrongOutcome(w) == IF Dropped(w) THEN "CANCELED" ELSE "COMPLETED"

Outcome(w) == IF Dropped(w) THEN "CANCELED" ELSE "RESULTS_READY"

(* Under jobs_mutex only: publish the result, or drop it when canceled.     *)
Finish(w) ==
  LET j == wjob[w]
  IN /\ wpc[w] = "finish"
     /\ canceled' = [canceled EXCEPT ![j] = Dropped(w)]
     /\ workerResult' = [workerResult EXCEPT ![j] = Kept(w)]
     /\ state' = [state EXCEPT ![j] = Outcome(w)]
     /\ wpc' = [wpc EXCEPT ![w] = "notify"]
     /\ wjob' = [wjob EXCEPT ![w] = NoJob]
     /\ wlocal' = [wlocal EXCEPT ![w] = FALSE]
     /\ UNCHANGED <<target, executor, mainResult, listVars, mainVars, callVars,
                    histVars, shuttingDown>>

(* The broadcast comes in a critical section of its own, after the state    *)
(* became visible.                                                          *)
Notify(w) ==
  /\ wpc[w] = "notify"
  /\ Broadcast
  /\ wpc' = [wpc EXCEPT ![w] = "scan"]
  /\ UNCHANGED <<jobVars, listVars, wjob, wlocal, mainVars, tjob, ttimed, histVars,
                 shuttingDown>>

Worker(w) == \/ ScanPick(w) \/ ScanAdvance(w) \/ ScanExit(w)
             \/ ReadCanceled(w) \/ FnReturn(w) \/ Finish(w) \/ Notify(w)

-----------------------------------------------------------------------------
(* Main thread: ese_job_queue_process, once per frame or from destroy       *)

MainIdleCall == tpc[Main] = "idle"   \* not inside push or wait

(* First pass: copy every ready result for the main thread.  The 1 ms wait  *)
(* that follows gives the executors a chance; it may as well find nothing.  *)
ProcessMark ==
  /\ mpc \in {"idle", "mark"} /\ MainIdleCall
  /\ LET S == {j \in queue : state[j] = "RESULTS_READY"}
     IN /\ state' = [j \in JobIds |-> IF j \in S THEN "RESULTS_PROCESSED" ELSE state[j]]
        /\ mainResult' = [j \in JobIds |-> IF j \in S THEN workerResult[j]
                                           ELSE mainResult[j]]
        /\ tpc' = IF S = {} THEN tpc ELSE Woken(tpc)
  /\ mpc' = "collect"
  /\ UNCHANGED <<target, executor, canceled, workerResult, listVars, workerVars,
                 local, mjob, tjob, ttimed, histVars, shuttingDown>>

(* A canceled job is over, whatever its state.                              *)
WrongTakeable(j) == state[j] = "EXECUTED" \/ canceled[j]
(* Canceled jobs are forgotten.                                             *)
WrongTakeableExecuted(j) == state[j] = "EXECUTED"

Takeable(j) == state[j] \in {"EXECUTED", "CANCELED"}

(* Second pass: note the jobs that are final.                               *)
ProcessCollect ==
  /\ mpc = "collect"
  /\ local' = {j \in queue : Takeable(j)}
  /\ mpc' = "take"
  /\ UNCHANGED <<jobVars, listVars, workerVars, mjob, callVars, histVars, shuttingDown>>

(* The flag is not looked at again.                                         *)
WrongSilent(j) == shuttingDown

Silent(j) == shuttingDown \/ canceled[j] \/ state[j] = "CANCELED"

(* Pop the next of them and decide, under jobs_mutex, about its callback.   *)
ProcessTake ==
  /\ mpc = "take"
  /\ \E j \in local :
       /\ \A k \in local : j <= k
       /\ local' = local \ {j}
       /\ mjob' = j
       /\ mpc' = IF Silent(j) THEN "cleanup" ELSE "callback"
  /\ UNCHANGED <<jobVars, listVars, workerVars, callVars, histVars, shuttingDown>>

(* The callback returns; while mpc = "callback" it may itself push, cancel  *)
(* and wait.                                                                *)
ProcessCallback ==
  /\ mpc = "callback" /\ MainIdleCall
  /\ called' = called \cup {mjob}
  /\ mpc' = "cleanup"
  /\ UNCHANGED <<jobVars, listVars, workerVars, local, mjob, callVars, reported,
                 cleaned, ackCanceled, shuttingDown>>

(* The node stays in the list.                                              *)
WrongUnlinked == queue

Unlinked == queue \ {mjob}

(* The cleanup returns and the job leaves the list...                       *)
ProcessUnlink ==
  /\ mpc = "cleanup" /\ MainIdleCall
  /\ cleaned' = cleaned \cup {mjob}
  /\ queue' = Unlinked
  /\ mpc' = "free"
  /\ UNCHANGED <<jobVars, byId, nextId, freed, workerVars, local, mjob, callVars,
                 reported, called, ackCanceled, shuttingDown>>

(* The map keeps the pointer.                                               *)
WrongUnmapped == byId

Unmapped == byId \ {mjob}

(* ... then the map, and is freed.                                          *)
ProcessFree ==
  /\ mpc = "free"
  /\ byId' = Unmapped
  /\ freed' = freed \cup {mjob}
  /\ mjob' = NoJob
  /\ mpc' = "take"
  /\ UNCHANGED <<jobVars, queue, nextId, workerVars, local, callVars, histVars,
                 shuttingDown>>

ProcessEnd ==
  /\ mpc = "take" /\ local = {}
  /\ mpc' = IF shuttingDown THEN "check" ELSE "idle"
  /\ UNCHANGED <<jobVars, listVars, workerVars, local, mjob, callVars, histVars,
                 shuttingDown>>

(* ese_job_queue_destroy                                                    *)

DestroyBegin ==
  /\ mpc = "idle" /\ MainIdleCall
  /\ canceled' = [j \in JobIds |->
                    canceled[j] \/ (j \in queue /\ state[j] \in {"PENDING", "RUNNING"})]
  /\ state' = [j \in JobIds |-> IF j \in queue /\ state[j] = "PENDING" THEN "CANCELED"
                                ELSE state[j]]
  /\ shuttingDown' = TRUE
  /\ Broadcast
  /\ mpc' = "mark"
  /\ UNCHANGED <<target, executor, workerResult, mainResult, listVars, workerVars,
                 local, mjob, tjob, ttimed, histVars>>

(* After each process: again while there are jobs or a worker is needed.    *)
DestroyCheck ==
  /\ mpc = "check"
  /\ LET more == queue # {}
         needWorkers == \E j \in queue :
                          state[j] \in {"RESULTS_READY", "RESULTS_PROCESSED", "RUNNING"}
     IN IF ~more /\ ~needWorkers
        THEN mpc' = "join" /\ UNCHANGED tpc
        ELSE mpc' = "mark" /\ Broadcast
  /\ UNCHANGED <<jobVars, listVars, workerVars, local, mjob, tjob, ttimed, histVars,
                 shuttingDown>>

(* Join the workers, drain what is left, free the queue.  The caller has to *)
(* keep other threads out by then.                                          *)
DestroyFree ==
  /\ mpc = "join"
  /\ \A w \in Workers : wpc[w] = "exited"
  /\ \A c \in Clients : tpc[c] = "idle"
  /\ cleaned' = cleaned \cup queue
  /\ freed' = freed \cup queue
  /\ byId' = byId \ queue
  /\ queue' = {}
  /\ mpc' = "gone"
  /\ UNCHANGED <<jobVars, nextId, workerVars, local, mjob, callVars, reported,
                 called, ackCanceled, shuttingDown>>

MainThread == \/ ProcessMark \/ ProcessCollect \/ ProcessTake \/ ProcessCallback
              \/ ProcessUnlink \/ ProcessFree \/ ProcessEnd
              \/ DestroyBegin \/ DestroyCheck \/ DestroyFree

-----------------------------------------------------------------------------
(* The functions any thread calls.  Main calls them between frames and from *)
(* callbacks and cleanups.                                                  *)

MayCall(t) == /\ tpc[t] = "idle"
              /\ mpc \in IF t = Main THEN {"idle", "callback", "cleanup"}
                         ELSE {"idle", "mark", "collect", "take", "callback", "cleanup",
                               "free", "check"}

(* push / push_on_worker, up to the unlock.  Refused once shutting down.    *)
Push(t) ==
  /\ MayCall(t) /\ ~shuttingDown /\ nextId <= MaxJobs
  /\ \E tgt \in Workers \cup {AnyWorker} : target' = [target EXCEPT ![nextId] = tgt]
  /\ state' = [state EXCEPT ![nextId] = "PENDING"]
  /\ nextId' = nextId + 1
  /\ queue' = queue \cup {nextId}
  /\ byId' = byId \cup {nextId}
  /\ tpc' = [Woken(tpc) EXCEPT ![t] = "pushed"]
  /\ tjob' = [tjob EXCEPT ![t] = nextId]
  /\ UNCHANGED <<executor, canceled, workerResult, mainResult, freed, workerVars,
                 mainVars, ttimed, histVars, shuttingDown>>

(* "return job->id" reads the job after both locks are released.            *)
PushReturn(t) ==
  /\ tpc[t] = "pushed"
  /\ tpc' = [tpc EXCEPT ![t] = "idle"]
  /\ tjob' = [tjob EXCEPT ![t] = NoJob]
  /\ UNCHANGED <<jobVars, listVars, workerVars, mainVars, ttimed, histVars,
                 shuttingDown>>

(* An off-by-one in the comparison of states.                               *)
WrongUnfinished(j) == state[j] = "PENDING"

(* What status, wait and cancel report of a job.                            *)
Unfinished(j) == state[j] \in {"PENDING", "RUNNING"}
StatusOf(j) == IF j \notin byId THEN "NOT_FOUND"
               ELSE IF Unfinished(j) THEN "NOT_COMPLETED"
               ELSE IF state[j] = "CANCELED" THEN "CANCELED" ELSE "COMPLETED"
CancelCode(j) == IF Unfinished(j) THEN "CANCELED" ELSE StatusOf(j)

(* A wait on j has its answer: it returns it, else sleeps (again).          *)
WaitLook(t, j, timed) ==
  LET over == j \notin byId \/ ~Unfinished(j)
  IN /\ tpc' = [tpc EXCEPT ![t] = IF over THEN "idle" ELSE "asleep"]
     /\ tjob' = [tjob EXCEPT ![t] = IF over THEN NoJob ELSE j]
     /\ ttimed' = [ttimed EXCEPT ![t] = timed /\ ~over]
     /\ reported' = IF over THEN reported \cup {j} ELSE reported
     /\ UNCHANGED <<jobVars, listVars, workerVars, mainVars, called, cleaned,
                    ackCanceled, shuttingDown>>

(* wait_for_completion up to its first sleep or its return.  For an unknown *)
(* id it returns NOT_FOUND and changes nothing.                             *)
WaitBegin(t) ==
  /\ MayCall(t)
  /\ \E j \in byId, timed \in BOOLEAN : WaitLook(t, j, timed)

(* Woken by a broadcast: look the job up again; a job that is gone by now   *)
(* counts as completed.                                                     *)
WaitWake(t) ==
  /\ tpc[t] = "awake"
  /\ WaitLook(t, tjob[t], ttimed[t])

(* The timeout wins: reported without looking at the job again.             *)
WaitTimeout(t) ==
  /\ tpc[t] = "asleep" /\ ttimed[t]
  /\ tpc' = [tpc EXCEPT ![t] = "idle"]
  /\ tjob' = [tjob EXCEPT ![t] = NoJob]
  /\ ttimed' = [ttimed EXCEPT ![t] = FALSE]
  /\ UNCHANGED <<jobVars, listVars, workerVars, mainVars, histVars, shuttingDown>>

(* cancel_callback, one critical section of both locks.  A job that is past *)
(* running is left alone and reported COMPLETED.                            *)
Cancel(t) ==
  /\ MayCall(t)
  /\ \E j \in byId :
       /\ CancelCode(j) = "CANCELED"
       /\ canceled' = [canceled EXCEPT ![j] = TRUE]
       /\ state' = [state EXCEPT ![j] = IF @ = "PENDING" THEN "CANCELED" ELSE @]
       /\ ackCanceled' = ackCanceled \cup {j}
  /\ Broadcast
  /\ UNCHANGED <<target, executor, workerResult, mainResult, listVars, workerVars,
                 mainVars, tjob, ttimed, reported, called, cleaned, shuttingDown>>

Call(t) == \/ Push(t) \/ PushReturn(t) \/ WaitBegin(t) \/ WaitWake(t)
           \/ WaitTimeout(t) \/ Cancel(t)

-----------------------------------------------------------------------------
Next == \/ \E w \in Workers : Worker(w)
        \/ MainThread
        \/ \E t \in Threads : Call(t)

Spec == Init /\ [][Next]_vars

(* Scheduling.  A mutex is eventually granted and a job's fn returns, so    *)
(* each worker keeps going; the frame loop calls process again and again,   *)
(* whatever else main calls in between (strong fairness); a woken or timed  *)
(* wait and a push run to their return.  Nothing makes anyone destroy.      *)
Fairness ==
  /\ \A w \in Workers : WF_vars(Worker(w))
  /\ SF_vars(MainThread /\ ~DestroyBegin)
  /\ \A t \in Threads : WF_vars(PushReturn(t) \/ WaitWake(t) \/ WaitTimeout(t))

FairSpec == Spec /\ Fairness

-----------------------------------------------------------------------------
(* Properties                                                               *)

Bools == [JobIds -> BOOLEAN]

(* Every variable has its type.                                             *)
TypeOK ==
  /\ queue \subseteq JobIds /\ byId \subseteq JobIds /\ freed \subseteq JobIds
  /\ nextId \in 1..(MaxJobs + 1)
  /\ state \in [JobIds -> States]
  /\ target \in [JobIds -> Workers \cup {AnyWorker}]
  /\ executor \in [JobIds -> Workers \cup {AnyWorker}]
  /\ canceled \in Bools /\ workerResult \in Bools /\ mainResult \in Bools
  /\ shuttingDown \in BOOLEAN
  /\ wpc \in [Workers -> {"scan", "picked", "run", "finish", "notify", "exited"}]
  /\ wjob \in [Workers -> JobIds \cup {NoJob}]
  /\ wlocal \in [Workers -> BOOLEAN]
  /\ mpc \in {"idle", "mark", "collect", "take", "callback", "cleanup", "free",
              "check", "join", "gone"}
  /\ local \subseteq JobIds /\ mjob \in JobIds \cup {NoJob}
  /\ tpc \in [Threads -> {"idle", "pushed", "asleep", "awake"}]
  /\ tjob \in [Threads -> JobIds \cup {NoJob}]
  /\ ttimed \in [Threads -> BOOLEAN]
  /\ reported \subseteq JobIds /\ called \subseteq JobIds
  /\ cleaned \subseteq JobIds /\ ackCanceled \subseteq JobIds

(* The job a worker holds through its raw pointer "picked", which it uses   *)
(* outside the locks, is still in the list and in the map, not freed, and   *)
(* marked as running on that worker (so no two workers hold one job).       *)
HeldJobAlive ==
  \A w \in Workers : wjob[w] # NoJob =>
    /\ wjob[w] \in (queue \cap byId) \ freed
    /\ state[wjob[w]] = "RUNNING"
    /\ executor[wjob[w]] = w

(* The main thread never collects, cleans or frees a job a second time, and *)
(* never calls the callback of one twice: the job it works on is intact.    *)
MainJobIntact ==
  /\ \A j \in local : j \in (queue \cap byId) \ (freed \cup cleaned \cup called)
  /\ mpc = "callback" => mjob \notin called \cup cleaned \cup freed
  /\ mpc = "cleanup"  => mjob \in queue /\ mjob \notin cleaned \cup freed
  /\ mpc = "free"     => mjob \in byId /\ mjob \notin freed

(* Once cancel_callback has answered CANCELED the callback is never called, *)
(* wherever the job was: waiting, running, or canceled earlier.             *)
CanceledNeverCalled == ackCanceled \cap called = {}

(* A freed job was cleaned up, and its worker-side result was released      *)
(* before (by its executor: the main thread has no code that does it).      *)
ResultReleased == \A j \in freed : j \in cleaned /\ ~workerResult[j]

(* A worker never overtakes: if one of its own jobs was pushed later than a *)
(* job it may run, that earlier job is no longer pending.  This is why the  *)
(* scan, which stops at the first eligible job, has always seen every       *)
(* processed job of the worker by then.                                     *)
NoOvertaking ==
  \A i, j \in queue : (i < j /\ executor[j] # AnyWorker /\ target[i] \in {AnyWorker, executor[j]})
                        => state[i] # "PENDING"

(* No lost wakeup: whoever sleeps on a job that is over (or gone) has a     *)
(* worker that is about to broadcast.                                       *)
NoLostWakeup ==
  \A t \in Threads :
    (tpc[t] = "asleep" /\ (tjob[t] \notin byId \/ ~Unfinished(tjob[t])))
      => \E w \in Workers : wpc[w] = "notify"

(* The shutdown handshake: a worker that has left owns no job that main     *)
(* still needs it for (destroy would spin forever), and no job is pending.  *)
ExitedOwnsNothing ==
  \A w \in Workers : wpc[w] = "exited" =>
    /\ shuttingDown
    /\ \A j \in queue : state[j] \in {"EXECUTED", "CANCELED"}

(* wait never returns COMPLETED or CANCELED while the job's fn can still    *)
(* run: that is what engine_run_phase relies on as its barrier.             *)
WaitNeverEarly ==
  \A j \in reported : ~Unfinished(j) /\ \A w \in Workers : wjob[w] # j

(* After destroy every job ever pushed was cleaned up and freed.            *)
DestroyDrains == mpc = "gone" =>
  /\ freed = {j \in JobIds : j < nextId}
  /\ queue = {} /\ byId = {}

(* A job whose cancellation was acknowledged is never reported completed,   *)
(* and a completed one never goes back to unfinished.                       *)
StatusConsistent ==
  [][\A j \in JobIds :
       /\ StatusOf(j) = "COMPLETED" => StatusOf(j)' \in {"COMPLETED", "NOT_FOUND"}
       /\ j \in ackCanceled => StatusOf(j)' # "COMPLETED"]_vars

(* Why they hold: the inductive invariant, in named parts.                  *)

Pushed == 1..(nextId - 1)

(* A job exists from its push on, and starts out clean.                     *)
IdsOK ==
  \A j \in JobIds : /\ state[j] = "none" <=> j \notin Pushed
                    /\ j \notin Pushed => executor[j] = AnyWorker

(* The lists agree: a job leaves queue, then byId, and only when final.     *)
ListsOK ==
  /\ queue \subseteq Pushed
  /\ byId = queue \cup (IF mpc = "free" THEN {mjob} ELSE {})
  /\ freed = Pushed \ byId
  /\ cleaned = Pushed \ queue
  /\ \A j \in Pushed \ queue : Takeable(j)

(* What the main thread has in hand.                                        *)
MainOK ==
  /\ mjob # NoJob <=> mpc \in {"callback", "cleanup", "free"}
  /\ local # {} => mpc \in {"take", "callback", "cleanup", "free"}
  /\ \A j \in local : j \in queue /\ Takeable(j) /\ j # mjob
  /\ mpc \in {"callback", "cleanup"} => mjob \in queue /\ Takeable(mjob)
  /\ mpc = "callback" => state[mjob] = "EXECUTED" /\ ~shuttingDown
  /\ mpc = "cleanup" => mjob \in called \/ state[mjob] = "CANCELED" \/ shuttingDown
  /\ mpc = "idle" => ~shuttingDown
  /\ mpc = "free" => mjob \in Pushed \ queue
  /\ mpc \in {"join", "gone"} => queue = {}

(* A callback is called of an executed job, right before its cleanup.       *)
CalledOK ==
  \A j \in called : /\ j \in Pushed /\ state[j] = "EXECUTED"
                    /\ j \in queue => j = mjob /\ mpc = "cleanup"

(* What a worker has in hand.                                               *)
HeldOK ==
  \A w \in Workers :
    /\ wjob[w] # NoJob <=> wpc[w] \in {"picked", "run", "finish"}
    /\ wjob[w] # NoJob => /\ wjob[w] \in queue
                         /\ state[wjob[w]] = "RUNNING" /\ executor[wjob[w]] = w

(* The flag, the acknowledgement and the result agree with the state.       *)
FlagsOK ==
  /\ \A j \in JobIds :
       /\ canceled[j] => state[j] \in {"RUNNING", "CANCELED"}
       /\ state[j] = "CANCELED" => canceled[j]
       /\ workerResult[j] => state[j] \in {"RUNNING", "RESULTS_READY",
                                           "RESULTS_PROCESSED"}
  /\ \A j \in ackCanceled : canceled[j]

(* What a thread inside push or wait waits for, and what waits reported.    *)
CallsOK ==
  /\ \A t \in Threads : tpc[t] # "idle" => tjob[t] \in Pushed
  /\ \A j \in reported : j \in Pushed /\ ~Unfinished(j)

(* Nothing is pending any more in shutdown.                                 *)
ShutdownOK == shuttingDown => \A j \in queue : state[j] # "PENDING"

IInv == /\ TypeOK /\ IdsOK /\ ListsOK /\ MainOK /\ CalledOK /\ HeldOK /\ FlagsOK
        /\ CallsOK /\ ShutdownOK /\ NoOvertaking /\ NoLostWakeup /\ ExitedOwnsNothing

(* What job_queue.h says and the code does not do:                          *)

(* "Public API functions are designed to be thread-safe for concurrent      *)
(* pushes": outside shutdown, the job that push reads its return value from *)
(* is not freed yet, even if a worker has executed it and main has called   *)
(* its callback in the meantime.                                            *)
PushReadsLiveJob ==
  \A t \in Threads :
    (tpc[t] = "pushed" /\ tjob[t] \in called /\ ~shuttingDown) => tjob[t] \notin freed

(* Every pushed job is eventually cleaned up and freed.                     *)
JobReclaimed == \A j \in JobIds : (state[j] = "PENDING") ~> (j \in freed)

(* Every wait returns, also the ones without a timeout.                     *)
WaitReturns == \A t \in Threads : (tpc[t] = "asleep") ~> (tpc[t] = "idle")

(* destroy returns: the drain loop ends and every worker leaves.            *)
DestroyEnds == shuttingDown ~> (mpc = "gone")

-----------------------------------------------------------------------------
(* JobQueue implements JobService: finished covers the three states of the  *)
(* result hand-over between worker and main.                                *)
PhaseOf(j) ==
  IF j \in cleaned THEN "reclaimed"
  ELSE IF j \in called THEN "delivered"
  ELSE CASE state[j] = "none"     -> "new"
         [] state[j] = "PENDING"  -> "queued"
         [] state[j] = "RUNNING"  -> "running"
         [] state[j] = "CANCELED" -> "dropped"
         [] OTHER                 -> "finished"

Service == INSTANCE JobService
             WITH Jobs <- JobIds, phase <- [j \in JobIds |-> PhaseOf(j)],
                  doomed <- {j \in JobIds : canceled[j]}, closing <- shuttingDown

(* Every step of the queue is a step of the promised service or none.       *)
ImplementsService == Service!SSpec
=============================================================================
