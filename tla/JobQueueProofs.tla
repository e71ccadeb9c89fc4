--------------------------- MODULE JobQueueProofs ---------------------------
(* Proofs about JobQueue, for any number of workers, clients and jobs.      *)
EXTENDS JobQueue, TLAPS

(* Job ids are numbers and 0 is none of them; main is a caller too.         *)
LEMMA JobIdsFacts ==
  /\ JobIds \subseteq Int /\ NoJob \notin JobIds
  /\ Main \in Threads
BY MaxJobsAssumption DEF JobIds, NoJob, Threads

(* next_job_id stays within its bound, so what was pushed is a job.         *)
LEMMA PushedFacts == TypeOK => Pushed \subseteq JobIds
BY MaxJobsAssumption DEF JobIds, TypeOK, Pushed

(* The queue starts with every variable in its type.                        *)
LEMMA TypeInit == Init => TypeOK
<1> SUFFICES ASSUME Init PROVE TypeOK
  OBVIOUS
<1>1. nextId \in 1..(MaxJobs + 1)
  BY MaxJobsAssumption DEF Init
<1> QED BY <1>1 DEF Init, TypeOK, States, Bools

(* No step takes a variable out of its type. It needs the other conjuncts:  *)
(* a worker dereferences the job it holds, main the job it popped.          *)
LEMMA TypeStep == IInv /\ [Next]_vars => TypeOK'
<1> SUFFICES ASSUME IInv, [Next]_vars
             PROVE  TypeOK'
  OBVIOUS
<1>0. TypeOK /\ HeldOK /\ Pushed \subseteq JobIds
  BY PushedFacts DEF IInv
<1> USE <1>0, JobIdsFacts DEF TypeOK, States, Bools, jobVars, listVars,
            workerVars, mainVars, callVars, histVars, Woken, Broadcast
<1>1. ASSUME NEW w \in Workers, Worker(w)
      PROVE  TypeOK'
  <2>1. CASE ScanPick(w)
    <3>1. PICK p \in JobIds :
            LET S == {j \in Mine(w, "RESULTS_PROCESSED") : j < p}
            IN  /\ Advance(S)
                /\ state' = [j \in JobIds |-> IF j = p THEN "RUNNING"
                                 ELSE IF j \in S THEN "EXECUTED" ELSE state[j]]
                /\ executor' = [executor EXCEPT ![p] = w]
                /\ wjob' = [wjob EXCEPT ![w] = p]
      BY <2>1 DEF ScanPick, NextFor, Eligible
    <3>2. state' \in [JobIds -> States] /\ workerResult' \in Bools /\ tpc' \in [Threads -> {"idle", "pushed", "asleep", "awake"}]
      BY <3>1 DEF Advance
    <3>3. wjob' \in [Workers -> JobIds \cup {NoJob}]
      BY <3>1
    <3>4. executor' \in [JobIds -> Workers \cup {AnyWorker}]
      BY <3>1
    <3>5. wpc' \in [Workers -> {"scan", "picked", "run", "finish", "notify", "exited"}]
      BY <2>1 DEF ScanPick
    <3> QED BY <2>1, <3>2, <3>3, <3>4, <3>5 DEF ScanPick
  <2>2. CASE ScanAdvance(w)
    BY <2>2 DEF ScanAdvance, Mine, Advance
  <2>3. CASE ScanExit(w)
    BY <2>3 DEF ScanExit
  <2>4. CASE ReadCanceled(w)
    <3>0. wjob[w] \in JobIds
      BY <2>4 DEF ReadCanceled, HeldOK
    <3>1. canceled[wjob[w]] \in BOOLEAN
      BY <3>0
    <3>2. wlocal' \in [Workers -> BOOLEAN]
      BY <2>4, <3>1 DEF ReadCanceled
    <3>3. wpc' \in [Workers -> {"scan", "picked", "run", "finish", "notify", "exited"}]
      BY <2>4 DEF ReadCanceled
    <3> QED BY <2>4, <3>2, <3>3 DEF ReadCanceled
  <2>5. CASE FnReturn(w)
    <3>1. PICK r \in BOOLEAN, c \in BOOLEAN :
            /\ workerResult' = [workerResult EXCEPT ![wjob[w]] = r]
            /\ wlocal' = [wlocal EXCEPT ![w] = c]
      BY <2>5 DEF FnReturn
    <3>2. workerResult' \in Bools /\ wlocal' \in [Workers -> BOOLEAN]
      BY <3>1
    <3> QED BY <2>5, <3>2 DEF FnReturn
  <2>6. CASE Finish(w)
    BY <2>6 DEF Finish, Dropped, Kept, Outcome
  <2>7. CASE Notify(w)
    BY <2>7 DEF Notify
  <2> QED BY <1>1, <2>1, <2>2, <2>3, <2>4, <2>5, <2>6, <2>7 DEF Worker
<1>2. CASE MainThread
  <2>1. CASE ProcessMark
    BY <2>1 DEF ProcessMark
  <2>2. CASE ProcessCollect
    BY <2>2 DEF ProcessCollect
  <2>3. CASE ProcessTake
    BY <2>3 DEF ProcessTake
  <2>4. CASE ProcessCallback
    BY <2>4 DEF ProcessCallback, IInv, MainOK
  <2>5. CASE ProcessUnlink
    BY <2>5 DEF ProcessUnlink, Unlinked, IInv, MainOK
  <2>6. CASE ProcessFree
    BY <2>6 DEF ProcessFree, Unmapped, IInv, MainOK
  <2>7. CASE ProcessEnd
    BY <2>7 DEF ProcessEnd
  <2>8. CASE DestroyBegin
    BY <2>8 DEF DestroyBegin
  <2>9. CASE DestroyCheck
    BY <2>9 DEF DestroyCheck
  <2>10. CASE DestroyFree
    BY <2>10 DEF DestroyFree
  <2> QED BY <1>2, <2>1, <2>2, <2>3, <2>4, <2>5, <2>6, <2>7, <2>8, <2>9, <2>10
          DEF MainThread
<1>3. ASSUME NEW t \in Threads, Call(t)
      PROVE  TypeOK'
  <2>1. CASE Push(t)
    BY <2>1, MaxJobsAssumption DEF Push, JobIds
  <2>2. CASE PushReturn(t)
    BY <2>2 DEF PushReturn
  <2>3. CASE WaitBegin(t)
    BY <2>3 DEF WaitBegin, WaitLook
  <2>4. CASE WaitWake(t)
    BY <2>4 DEF WaitWake, WaitLook, IInv, CallsOK
  <2>5. CASE WaitTimeout(t)
    BY <2>5 DEF WaitTimeout
  <2>6. CASE Cancel(t)
    BY <2>6 DEF Cancel
  <2> QED BY <1>3, <2>1, <2>2, <2>3, <2>4, <2>5, <2>6 DEF Call
<1>4. CASE UNCHANGED vars
  BY <1>4 DEF vars
<1> QED BY <1>1, <1>2, <1>3, <1>4 DEF Next

-----------------------------------------------------------------------------
(* How the state of a job may change, whatever step is taken.               *)
Moves(j) ==
  \/ state'[j] = state[j]
  \/ j = nextId /\ nextId' = nextId + 1 /\ state'[j] = "PENDING"
  \/ state[j] = "PENDING" /\ state'[j] \in {"RUNNING", "CANCELED"}
  \/ state[j] = "RUNNING" /\ state'[j] \in {"RESULTS_READY", "CANCELED"}
  \/ state[j] = "RESULTS_READY" /\ state'[j] = "RESULTS_PROCESSED"
  \/ state[j] = "RESULTS_PROCESSED" /\ state'[j] = "EXECUTED"

(* Every step moves the state of a job as Moves says or not at all.         *)
LEMMA StateStep ==
  ASSUME IInv, [Next]_vars, NEW j \in JobIds
  PROVE  Moves(j)
<1>0. TypeOK /\ HeldOK
  BY DEF IInv
<1> USE <1>0, JobIdsFacts DEF Moves, TypeOK, jobVars, listVars, workerVars, mainVars
<1>1. ASSUME NEW w \in Workers, Worker(w)
      PROVE  Moves(j)
  <2>1. CASE ScanPick(w)
    BY <2>1 DEF ScanPick, NextFor, Eligible, Mine
  <2>2. CASE ScanAdvance(w)
    BY <2>2 DEF ScanAdvance, Mine
  <2>3. CASE Finish(w)
    BY <2>3 DEF Finish, Outcome, HeldOK
  <2>4. CASE ScanExit(w) \/ ReadCanceled(w) \/ FnReturn(w) \/ Notify(w)
    BY <2>4 DEF ScanExit, ReadCanceled, FnReturn, Notify
  <2> QED BY <1>1, <2>1, <2>2, <2>3, <2>4 DEF Worker
<1>2. CASE MainThread
  <2>1. CASE ProcessMark
    BY <2>1 DEF ProcessMark
  <2>2. CASE DestroyBegin
    BY <2>2 DEF DestroyBegin
  <2>3. CASE \/ ProcessCollect \/ ProcessTake \/ ProcessCallback \/ ProcessUnlink
             \/ ProcessFree \/ ProcessEnd \/ DestroyCheck \/ DestroyFree
    BY <2>3 DEF ProcessCollect, ProcessTake, ProcessCallback, ProcessUnlink,
                ProcessFree, ProcessEnd, DestroyCheck, DestroyFree
  <2> QED BY <1>2, <2>1, <2>2, <2>3 DEF MainThread
<1>3. ASSUME NEW t \in Threads, Call(t)
      PROVE  Moves(j)
  <2>1. CASE Push(t)
    BY <2>1 DEF Push
  <2>2. CASE Cancel(t)
    BY <2>2 DEF Cancel
  <2>3. CASE PushReturn(t) \/ WaitBegin(t) \/ WaitWake(t) \/ WaitTimeout(t)
    BY <2>3 DEF PushReturn, WaitBegin, WaitWake, WaitTimeout, WaitLook
  <2> QED BY <1>3, <2>1, <2>2, <2>3 DEF Call
<1>4. CASE UNCHANGED vars
  BY <1>4 DEF vars
<1> QED BY <1>1, <1>2, <1>3, <1>4 DEF Next

(* A final state is final.                                                  *)
LEMMA FinalStays ==
  ASSUME IInv, [Next]_vars, NEW j \in Pushed, Takeable(j)
  PROVE  state'[j] = state[j] /\ Takeable(j)'
<1>1. j \in JobIds /\ j # nextId
  BY PushedFacts DEF IInv, Pushed
<1> QED BY <1>1, StateStep DEF Takeable, Moves

(* The ids handed out only grow, by one at a time.                          *)
LEMMA PushedStep ==
  ASSUME IInv, [Next]_vars
  PROVE  \/ nextId' = nextId /\ Pushed' = Pushed
         \/ /\ nextId' = nextId + 1 /\ Pushed' = Pushed \cup {nextId}
            /\ nextId \in JobIds \ Pushed
            /\ \E t \in Threads : Push(t)
<1>0. TypeOK
  BY DEF IInv
<1>1. ASSUME NEW t \in Threads, Push(t)
      PROVE  /\ nextId' = nextId + 1 /\ Pushed' = Pushed \cup {nextId}
             /\ nextId \in JobIds \ Pushed
  BY <1>0, <1>1, MaxJobsAssumption DEF Push, TypeOK, Pushed, JobIds
<1>2. CASE ~\E t \in Threads : Push(t)
  <2>1. nextId' = nextId
    BY <1>2 DEF Next, vars, Worker, MainThread, Call, ScanPick, ScanAdvance, ScanExit,
       ReadCanceled, FnReturn, Finish, Notify, ProcessMark, ProcessCollect, ProcessTake,
       ProcessCallback, ProcessUnlink, ProcessFree, ProcessEnd, DestroyBegin,
       DestroyCheck, DestroyFree, PushReturn, WaitBegin, WaitWake, WaitTimeout,
       WaitLook, Cancel, listVars
  <2> QED BY <2>1 DEF Pushed
<1> QED BY <1>1, <1>2

-----------------------------------------------------------------------------
(* A slot becomes a job by its push and by nothing else.                    *)
LEMMA IdsStep == IInv /\ [Next]_vars => IdsOK'
<1> SUFFICES ASSUME IInv, [Next]_vars, NEW j \in JobIds
             PROVE  /\ (state[j] = "none")' <=> (j \notin Pushed)'
                    /\ (j \notin Pushed)' => executor'[j] = AnyWorker
  BY DEF IdsOK
<1>0. TypeOK /\ IdsOK /\ queue \subseteq Pushed
  BY DEF IInv, ListsOK
<1>1. (state[j] = "none")' <=> (j \notin Pushed)'
  <2>1. CASE Pushed' = Pushed /\ nextId' = nextId
    BY <1>0, <2>1, StateStep DEF Moves, IdsOK, TypeOK
  <2>2. ASSUME NEW t \in Threads, Push(t), Pushed' = Pushed \cup {nextId},
               nextId \in JobIds \ Pushed
        PROVE  (state[j] = "none")' <=> (j \notin Pushed)'
    BY <1>0, <2>2 DEF Push, IdsOK, TypeOK
  <2> QED BY <2>1, <2>2, PushedStep
<1>2. ASSUME j \notin Pushed' PROVE executor'[j] = AnyWorker
  <2>1. j \notin Pushed /\ executor[j] = AnyWorker
    BY <1>0, <1>2, PushedStep DEF IdsOK
  <2>2. ASSUME NEW w \in Workers, ScanPick(w)
        PROVE  executor'[j] = AnyWorker
    BY <1>0, <2>1, <2>2 DEF ScanPick, NextFor, Eligible, TypeOK
  <2>3. CASE ~\E w \in Workers : ScanPick(w)
    <3>1. executor' = executor
      BY <2>3 DEF Next, vars, Worker, MainThread, Call, ScanAdvance, ScanExit,
         ReadCanceled, FnReturn, Finish, Notify, ProcessMark, ProcessCollect,
         ProcessTake, ProcessCallback, ProcessUnlink, ProcessFree, ProcessEnd,
         DestroyBegin, DestroyCheck, DestroyFree, Push, PushReturn, WaitBegin,
         WaitWake, WaitTimeout, WaitLook, Cancel, jobVars
    <3> QED BY <2>1, <3>1
  <2> QED BY <2>2, <2>3
<1> QED BY <1>1, <1>2

(* How the list of jobs may change.                                         *)
LEMMA QueueStep ==
  ASSUME IInv, [Next]_vars
  PROVE  \/ queue' = queue /\ byId' = byId /\ freed' = freed /\ cleaned' = cleaned
            /\ nextId' = nextId /\ UNCHANGED (mpc = "free")
            /\ (mpc = "free" => mjob' = mjob)
         \/ \E t \in Threads : Push(t)
         \/ ProcessUnlink \/ ProcessFree \/ DestroyFree
<1>1. ASSUME NEW w \in Workers, Worker(w)
      PROVE  UNCHANGED <<listVars, cleaned, mpc, mjob>>
  BY <1>1 DEF Worker, ScanPick, ScanAdvance, ScanExit, ReadCanceled, FnReturn, Finish,
     Notify, listVars, mainVars, histVars
<1>2. ASSUME NEW t \in Threads, Call(t), ~Push(t)
      PROVE  UNCHANGED <<listVars, cleaned, mpc, mjob>>
  BY <1>2 DEF Call, PushReturn, WaitBegin, WaitWake, WaitTimeout, WaitLook, Cancel,
     listVars, mainVars, histVars
<1>3. ASSUME MainThread, ~ProcessUnlink, ~ProcessFree, ~DestroyFree
      PROVE  UNCHANGED <<listVars, cleaned>> /\ mpc # "free" /\ mpc' # "free"
  BY <1>3 DEF MainThread, ProcessMark, ProcessCollect, ProcessTake, ProcessCallback,
     ProcessEnd, DestroyBegin, DestroyCheck, listVars, histVars
<1> QED BY <1>1, <1>2, <1>3 DEF Next, vars, listVars, mainVars, histVars

(* queue, jobs_by_id, what was cleaned and what was freed keep agreeing.    *)
LEMMA ListsStep == IInv /\ [Next]_vars => ListsOK'
<1> SUFFICES ASSUME IInv, [Next]_vars
             PROVE  ListsOK'
  OBVIOUS
<1>0. TypeOK /\ ListsOK /\ MainOK
  BY DEF IInv
<1> USE <1>0
<1>1. ASSUME NEW j \in Pushed \ queue
      PROVE  Takeable(j)'
  BY FinalStays DEF ListsOK
<1>2. CASE /\ queue' = queue /\ byId' = byId /\ freed' = freed /\ cleaned' = cleaned
           /\ nextId' = nextId /\ UNCHANGED (mpc = "free")
           /\ (mpc = "free" => mjob' = mjob)
  BY <1>1, <1>2 DEF ListsOK, Pushed
<1>3. ASSUME NEW t \in Threads, Push(t)
      PROVE  ListsOK'
  <2>1. /\ Pushed' = Pushed \cup {nextId} /\ nextId \in JobIds \ Pushed
    BY <1>3, PushedStep DEF Push, TypeOK
  <2>2. UNCHANGED <<freed, cleaned, mpc, mjob>> /\ queue' = queue \cup {nextId}
        /\ byId' = byId \cup {nextId}
    BY <1>3 DEF Push, mainVars, histVars
  <2> QED BY <1>1, <2>1, <2>2 DEF ListsOK
<1>4. CASE ProcessUnlink
  <2>1. /\ mpc = "cleanup" /\ mpc' = "free" /\ mjob' = mjob /\ Pushed' = Pushed
        /\ queue' = queue \ {mjob} /\ cleaned' = cleaned \cup {mjob}
        /\ UNCHANGED <<byId, freed, state>>
    BY <1>4 DEF ProcessUnlink, Unlinked, Pushed, jobVars
  <2> QED BY <1>1, <2>1 DEF ListsOK, MainOK, Takeable
<1>5. CASE ProcessFree
  <2>1. /\ mpc = "free" /\ mpc' = "take" /\ Pushed' = Pushed
        /\ byId' = byId \ {mjob} /\ freed' = freed \cup {mjob}
        /\ UNCHANGED <<queue, cleaned, state>>
    BY <1>5 DEF ProcessFree, Unmapped, Pushed, jobVars, histVars
  <2> QED BY <1>1, <2>1 DEF ListsOK, MainOK
<1>6. CASE DestroyFree
  <2>1. /\ mpc = "join" /\ mpc' = "gone" /\ Pushed' = Pushed /\ queue' = {}
        /\ cleaned' = cleaned \cup queue /\ freed' = freed \cup queue
        /\ byId' = byId \ queue /\ state' = state
    BY <1>6 DEF DestroyFree, Pushed, jobVars
  <2> QED BY <1>1, <2>1 DEF ListsOK, MainOK
<1> QED BY <1>2, <1>3, <1>4, <1>5, <1>6, QueueStep

(* What the main thread has in hand stays a final job of the list.          *)
LEMMA MainStep == IInv /\ [Next]_vars => MainOK'
<1> SUFFICES ASSUME IInv, [Next]_vars
             PROVE  MainOK'
  OBVIOUS
<1>0. TypeOK /\ ListsOK /\ MainOK /\ Pushed \subseteq JobIds
  BY PushedFacts DEF IInv
<1>1. \A j \in JobIds : j \in queue /\ Takeable(j) => state'[j] = state[j] /\ Takeable(j)'
  BY <1>0, FinalStays DEF ListsOK
<1> USE <1>0, <1>1, JobIdsFacts
<1>2. CASE ProcessMark \/ ProcessCollect \/ ProcessTake
  <2>1. CASE ProcessMark
    <3>1. mjob = NoJob /\ local = {}
      BY <2>1 DEF ProcessMark, MainOK
    <3> QED BY <2>1, <3>1 DEF ProcessMark, MainOK
  <2>2. CASE ProcessCollect
    <3>1. mjob = NoJob /\ UNCHANGED <<queue, mjob, state>>
      BY <2>2 DEF ProcessCollect, MainOK, jobVars, listVars
    <3> QED BY <2>2, <3>1 DEF ProcessCollect, MainOK, Takeable, ListsOK
  <2>3. CASE ProcessTake
    <3>1. PICK j \in local : /\ local' = local \ {j} /\ mjob' = j
                             /\ mpc' = IF Silent(j) THEN "cleanup" ELSE "callback"
      BY <2>3 DEF ProcessTake
    <3>2. /\ mjob = NoJob /\ j \in queue /\ Takeable(j) /\ local' \subseteq local
          /\ UNCHANGED <<queue, state, shuttingDown, called>>
      BY <2>3, <3>1 DEF ProcessTake, MainOK, jobVars, listVars, histVars
    <3>3. /\ ~Silent(j) => state[j] = "EXECUTED" /\ ~shuttingDown
          /\ Silent(j) => state[j] = "CANCELED" \/ shuttingDown
      BY <3>2 DEF Silent, Takeable, IInv, FlagsOK, TypeOK
    <3>4. \A k \in local' : k \in queue' /\ Takeable(k)' /\ k # mjob'
      BY <3>1, <3>2 DEF MainOK, Takeable
    <3>5. j # NoJob
      BY <3>2 DEF TypeOK
    <3> QED BY <3>1, <3>2, <3>3, <3>4, <3>5 DEF MainOK, Takeable
  <2> QED BY <1>2, <2>1, <2>2, <2>3
<1>3. CASE ProcessCallback \/ ProcessUnlink \/ ProcessFree \/ ProcessEnd
  <2>1. CASE ProcessCallback
    BY <2>1 DEF ProcessCallback, MainOK, jobVars, listVars, Takeable
  <2>2. CASE ProcessUnlink
    <3>1. /\ mpc = "cleanup" /\ mpc' = "free" /\ queue' = queue \ {mjob}
          /\ UNCHANGED <<local, mjob, state, nextId>>
      BY <2>2 DEF ProcessUnlink, Unlinked, jobVars
    <3>2. Pushed' = Pushed /\ mjob \in queue /\ mjob \in Pushed
      BY <3>1 DEF Pushed, MainOK, ListsOK
    <3>3. \A j \in local' : j \in queue' /\ Takeable(j)' /\ j # mjob'
      BY <3>1 DEF MainOK, Takeable
    <3> QED BY <3>1, <3>2, <3>3 DEF MainOK
  <2>3. CASE ProcessFree
    <3>1. /\ mpc = "free" /\ mpc' = "take" /\ mjob' = NoJob
          /\ UNCHANGED <<local, queue, state>>
      BY <2>3 DEF ProcessFree, jobVars
    <3>2. \A j \in local' : j \in queue' /\ Takeable(j)' /\ j # mjob'
      BY <3>1 DEF MainOK, Takeable, TypeOK
    <3> QED BY <3>1, <3>2 DEF MainOK
  <2>4. CASE ProcessEnd
    BY <2>4 DEF ProcessEnd, MainOK, jobVars, listVars, Takeable
  <2> QED BY <1>3, <2>1, <2>2, <2>3, <2>4
<1>4. CASE DestroyBegin \/ DestroyCheck \/ DestroyFree
  BY <1>4 DEF DestroyBegin, DestroyCheck, DestroyFree, MainOK, jobVars, listVars
<1>5. ASSUME NEW t \in Threads, Push(t)
      PROVE  MainOK'
  <2>1. /\ queue' = queue \cup {nextId} /\ UNCHANGED <<mainVars, called, shuttingDown>>
        /\ mpc \in {"idle", "mark", "collect", "take", "callback", "cleanup", "free",
                    "check"}
    BY <1>5 DEF Push, MayCall, histVars
  <2>2. Pushed' = Pushed \cup {nextId} /\ nextId \in JobIds \ Pushed
    BY <1>5, PushedStep DEF Push, TypeOK
  <2> QED BY <2>1, <2>2 DEF MainOK, mainVars, ListsOK
<1>6. CASE UNCHANGED <<mainVars, listVars, called, shuttingDown>>
  BY <1>6 DEF MainOK, mainVars, listVars, Pushed, ListsOK
<1>7. ASSUME NEW w \in Workers, Worker(w)
      PROVE  UNCHANGED <<mainVars, listVars, called, shuttingDown>>
  BY <1>7 DEF Worker, ScanPick, ScanAdvance, ScanExit, ReadCanceled, FnReturn, Finish,
     Notify, histVars
<1>8. ASSUME NEW t \in Threads, Call(t), ~Push(t)
      PROVE  UNCHANGED <<mainVars, listVars, called, shuttingDown>>
  BY <1>8 DEF Call, PushReturn, WaitBegin, WaitWake, WaitTimeout, WaitLook, Cancel,
     histVars
<1> QED BY <1>2, <1>3, <1>4, <1>5, <1>6, <1>7, <1>8 DEF Next, MainThread, vars, histVars

(* A called job is executed, and cleaned up next.                           *)
LEMMA CalledStep == IInv /\ [Next]_vars => CalledOK'
<1> SUFFICES ASSUME IInv, [Next]_vars
             PROVE  CalledOK'
  OBVIOUS
<1>0. TypeOK /\ ListsOK /\ MainOK /\ CalledOK /\ Pushed \subseteq JobIds
  BY PushedFacts DEF IInv
<1>1. \A j \in called : j \in Pushed /\ j \in Pushed' /\ state'[j] = "EXECUTED"
  BY <1>0, FinalStays, PushedStep DEF CalledOK, Takeable
<1> USE <1>0, <1>1
<1>2. CASE ProcessCallback
  <2>1. /\ called' = called \cup {mjob} /\ mpc' = "cleanup" /\ mpc = "callback"
        /\ UNCHANGED <<mjob, queue, state, nextId>>
    BY <1>2 DEF ProcessCallback, jobVars, listVars
  <2> QED BY <2>1 DEF CalledOK, MainOK, ListsOK, Pushed
<1>3. CASE ProcessUnlink
  BY <1>3 DEF ProcessUnlink, Unlinked, CalledOK
<1>4. ASSUME NEW t \in Threads, Push(t)
      PROVE  CalledOK'
  <2>1. nextId \notin Pushed
    BY DEF Pushed, TypeOK
  <2> QED BY <1>4, <2>1 DEF Push, CalledOK, mainVars, histVars
<1>5. ASSUME NEW w \in Workers, Worker(w)
      PROVE  UNCHANGED <<called, queue, mpc, mjob>>
  BY <1>5 DEF Worker, ScanPick, ScanAdvance, ScanExit, ReadCanceled, FnReturn, Finish,
     Notify, mainVars, listVars, histVars
<1>6. ASSUME NEW t \in Threads, Call(t), ~Push(t)
      PROVE  UNCHANGED <<called, queue, mpc, mjob>>
  BY <1>6 DEF Call, PushReturn, WaitBegin, WaitWake, WaitTimeout, WaitLook, Cancel,
     mainVars, listVars, histVars
<1>7. CASE UNCHANGED <<called, queue, mpc, mjob>>
  BY <1>7 DEF CalledOK
<1>8. ASSUME MainThread, ~ProcessCallback, ~ProcessUnlink
      PROVE  called' = called /\ queue' \subseteq queue /\ mpc # "cleanup"
  BY <1>8 DEF MainThread, ProcessMark, ProcessCollect, ProcessTake, ProcessFree,
     ProcessEnd, DestroyBegin, DestroyCheck, DestroyFree, listVars, histVars
<1>9. ASSUME called' = called, queue' \subseteq queue, mpc # "cleanup"
      PROVE  CalledOK'
  BY <1>9 DEF CalledOK
<1> QED BY <1>2, <1>3, <1>4, <1>5, <1>6, <1>7, <1>8, <1>9
        DEF Next, vars, mainVars, listVars, histVars

(* What a worker has in hand stays its own running job.                     *)
LEMMA HeldStep == IInv /\ [Next]_vars => HeldOK'
<1> SUFFICES ASSUME IInv, [Next]_vars
             PROVE  HeldOK'
  OBVIOUS
<1>0. TypeOK /\ ListsOK /\ MainOK /\ HeldOK
  BY DEF IInv
<1> USE <1>0, JobIdsFacts DEF TypeOK
<1>1. ASSUME NEW w \in Workers, Worker(w)
      PROVE  HeldOK'
  <2>1. CASE ScanPick(w)
    <3>1. PICK p \in queue : /\ state[p] = "PENDING" /\ executor' = [executor EXCEPT ![p] = w]
                             /\ wjob' = [wjob EXCEPT ![w] = p] /\ state'[p] = "RUNNING"
      BY <2>1 DEF ScanPick, NextFor, Eligible
    <3>2. /\ wpc' = [wpc EXCEPT ![w] = "picked"] /\ queue' = queue
          /\ \A j \in JobIds : state[j] = "RUNNING" => state'[j] = "RUNNING"
      BY <2>1 DEF ScanPick, listVars, Mine
    <3>3. p \in JobIds /\ p # NoJob
      OBVIOUS
    <3>4. ASSUME NEW v \in Workers, v # w
          PROVE  /\ wjob'[v] = wjob[v] /\ wpc'[v] = wpc[v]
                 /\ wjob[v] # NoJob => /\ wjob[v] \in JobIds /\ wjob[v] # p
                                      /\ executor'[wjob[v]] = executor[wjob[v]]
      BY <3>1, <3>2, <3>4 DEF HeldOK
    <3>5. wjob'[w] = p /\ wpc'[w] = "picked" /\ executor'[p] = w
      BY <3>1, <3>2
    <3>6. ASSUME NEW v \in Workers
          PROVE  /\ wjob'[v] # NoJob <=> wpc'[v] \in {"picked", "run", "finish"}
                 /\ wjob'[v] # NoJob => /\ wjob'[v] \in queue'
                                       /\ state'[wjob'[v]] = "RUNNING"
                                       /\ executor'[wjob'[v]] = v
      <4>1. CASE v = w
        <5>1. /\ wjob'[v] = p /\ wpc'[v] = "picked" /\ executor'[p] = v
              /\ p # NoJob /\ p \in queue' /\ state'[p] = "RUNNING"
          BY <3>1, <3>2, <3>3, <3>5, <4>1
        <5> QED BY <5>1
      <4>2. CASE v # w
        <5>1. wjob'[v] = wjob[v] /\ wpc'[v] = wpc[v]
          BY <3>4, <4>2
        <5>2. ASSUME wjob[v] # NoJob
              PROVE  /\ wjob[v] \in queue' /\ state'[wjob[v]] = "RUNNING"
                     /\ executor'[wjob[v]] = v
          <6>1. /\ wjob[v] \in queue /\ wjob[v] \in JobIds
                /\ state[wjob[v]] = "RUNNING" /\ executor[wjob[v]] = v
            BY <5>2 DEF HeldOK
          <6>2. executor'[wjob[v]] = executor[wjob[v]]
            BY <3>4, <4>2, <5>2
          <6> QED BY ONLY <3>2, <6>1, <6>2
        <5>3. wjob[v] # NoJob <=> wpc[v] \in {"picked", "run", "finish"}
          BY DEF HeldOK
        <5>4. CASE wjob[v] = NoJob
          BY ONLY <5>1, <5>3, <5>4
        <5>5. CASE wjob[v] # NoJob
          BY ONLY <5>1, <5>2, <5>3, <5>5
        <5> QED BY <5>4, <5>5
      <4> QED BY <4>1, <4>2
    <3> QED BY <3>6 DEF HeldOK
  <2>2. CASE ScanAdvance(w)
    BY <2>2 DEF ScanAdvance, Mine, HeldOK, listVars, workerVars
  <2>3. CASE ScanExit(w) \/ ReadCanceled(w) \/ Notify(w)
    BY <2>3 DEF ScanExit, ReadCanceled, Notify, HeldOK, listVars, jobVars
  <2>4. CASE FnReturn(w)
    BY <2>4 DEF FnReturn, HeldOK, listVars
  <2>5. CASE Finish(w)
    <3>1. /\ wjob[w] \in JobIds /\ executor[wjob[w]] = w /\ wpc[w] = "finish"
          /\ \A v \in Workers : v # w /\ wjob[v] # NoJob => wjob[v] # wjob[w]
      BY <2>5 DEF Finish, HeldOK
    <3>2. /\ queue' = queue /\ executor' = executor
          /\ \A j \in JobIds : j # wjob[w] => state'[j] = state[j]
          /\ wpc' = [wpc EXCEPT ![w] = "notify"] /\ wjob' = [wjob EXCEPT ![w] = NoJob]
      BY <2>5 DEF Finish, listVars
    <3>3. ASSUME NEW v \in Workers, v # w
          PROVE  /\ wjob'[v] = wjob[v] /\ wpc'[v] = wpc[v]
                 /\ wjob[v] # NoJob => state'[wjob[v]] = state[wjob[v]]
      BY <3>1, <3>2, <3>3
    <3>4. wjob'[w] = NoJob /\ wpc'[w] = "notify"
      BY <3>2
    <3> QED BY <3>2, <3>3, <3>4 DEF HeldOK
  <2> QED BY <1>1, <2>1, <2>2, <2>3, <2>4, <2>5 DEF Worker
<1>2. CASE MainThread
  <2>1. UNCHANGED workerVars /\ executor' = executor
    BY <1>2 DEF MainThread, ProcessMark, ProcessCollect, ProcessTake, ProcessCallback,
       ProcessUnlink, ProcessFree, ProcessEnd, DestroyBegin, DestroyCheck, DestroyFree,
       jobVars
  <2>2. \A j \in JobIds : state[j] = "RUNNING" => state'[j] = "RUNNING"
    BY <1>2 DEF MainThread, ProcessMark, ProcessCollect, ProcessTake, ProcessCallback,
       ProcessUnlink, ProcessFree, ProcessEnd, DestroyBegin, DestroyCheck, DestroyFree,
       jobVars
  <2>3. \A j \in queue : state[j] = "RUNNING" => j \in queue'
    BY <1>2 DEF MainThread, ProcessMark, ProcessCollect, ProcessTake, ProcessCallback,
       ProcessUnlink, Unlinked, ProcessFree, ProcessEnd, DestroyBegin, DestroyCheck,
       DestroyFree, listVars, MainOK, Takeable
  <2> QED BY <2>1, <2>2, <2>3 DEF HeldOK, workerVars
<1>3. ASSUME NEW t \in Threads, Call(t)
      PROVE  HeldOK'
  <2>1. UNCHANGED workerVars /\ executor' = executor /\ queue \subseteq queue'
    BY <1>3 DEF Call, Push, PushReturn, WaitBegin, WaitWake, WaitTimeout, WaitLook,
       Cancel, jobVars, listVars
  <2>2. \A j \in queue : state[j] = "RUNNING" => state'[j] = "RUNNING"
    <3>1. CASE Push(t)
      BY <3>1 DEF Push, ListsOK, Pushed
    <3>2. CASE Cancel(t)
      BY <3>2 DEF Cancel
    <3>3. CASE PushReturn(t) \/ WaitBegin(t) \/ WaitWake(t) \/ WaitTimeout(t)
      BY <3>3 DEF PushReturn, WaitBegin, WaitWake, WaitTimeout, WaitLook, jobVars
    <3> QED BY <1>3, <3>1, <3>2, <3>3 DEF Call
  <2> QED BY <2>1, <2>2 DEF HeldOK, workerVars
<1>4. CASE UNCHANGED vars
  BY <1>4 DEF vars, HeldOK, jobVars, listVars, workerVars
<1> QED BY <1>1, <1>2, <1>3, <1>4 DEF Next

(* The canceled flag, the state and the worker's result keep agreeing.      *)
LEMMA FlagsStep == IInv /\ [Next]_vars => FlagsOK'
<1> SUFFICES ASSUME IInv, [Next]_vars
             PROVE  FlagsOK'
  OBVIOUS
<1>0. TypeOK /\ IdsOK /\ HeldOK /\ FlagsOK
  BY DEF IInv
<1> USE <1>0, JobIdsFacts DEF TypeOK, FlagsOK
<1>1. ASSUME NEW w \in Workers, Worker(w)
      PROVE  FlagsOK'
  <2>1. CASE ScanPick(w)
    <3>1. PICK p \in queue :
            /\ state[p] = "PENDING"
            /\ LET S == {j \in Mine(w, "RESULTS_PROCESSED") : j < p}
               IN /\ workerResult' = [j \in JobIds |-> IF j \in S THEN FALSE
                                                       ELSE workerResult[j]]
                  /\ state' = [j \in JobIds |-> IF j = p THEN "RUNNING"
                                   ELSE IF j \in S THEN "EXECUTED" ELSE state[j]]
      BY <2>1 DEF ScanPick, NextFor, Eligible, Advance
    <3>2. canceled' = canceled /\ ackCanceled' = ackCanceled
      BY <2>1 DEF ScanPick, histVars
    <3> QED BY <3>1, <3>2 DEF Mine
  <2>2. CASE ScanAdvance(w)
    BY <2>2 DEF ScanAdvance, Mine, Advance, histVars
  <2>3. CASE ScanExit(w) \/ ReadCanceled(w) \/ Notify(w)
    <3>1. UNCHANGED <<jobVars, ackCanceled>>
      BY <2>3 DEF ScanExit, ReadCanceled, Notify, histVars
    <3> QED BY <3>1 DEF jobVars
  <2>4. CASE FnReturn(w)
    BY <2>4 DEF FnReturn, HeldOK, histVars
  <2>5. CASE Finish(w)
    <3>1. wjob[w] \in JobIds /\ state[wjob[w]] = "RUNNING"
      BY <2>5 DEF Finish, HeldOK
    <3>2. /\ ackCanceled' = ackCanceled
          /\ \A j \in JobIds : j # wjob[w] => /\ canceled'[j] = canceled[j]
                                              /\ workerResult'[j] = workerResult[j]
                                              /\ state'[j] = state[j]
      BY <2>5 DEF Finish, histVars
    <3>3. /\ canceled'[wjob[w]] = Dropped(w)
          /\ workerResult'[wjob[w]] = (workerResult[wjob[w]] /\ ~Dropped(w))
          /\ state'[wjob[w]] = IF Dropped(w) THEN "CANCELED" ELSE "RESULTS_READY"
      BY <2>5, <3>1 DEF Finish, Kept, Outcome, Bools
    <3>4. canceled[wjob[w]] => Dropped(w)
      BY DEF Dropped
    <3>5. CASE Dropped(w)
      <4>1. canceled'[wjob[w]] /\ ~workerResult'[wjob[w]] /\ state'[wjob[w]] = "CANCELED"
        BY <3>3, <3>5
      <4> QED BY <3>1, <3>2, <4>1
    <3>6. CASE ~Dropped(w)
      BY <3>1, <3>2, <3>3, <3>4, <3>6
    <3> QED BY <3>5, <3>6
  <2> QED BY <1>1, <2>1, <2>2, <2>3, <2>4, <2>5 DEF Worker
<1>2. CASE MainThread
  <2>1. CASE ProcessMark
    BY <2>1 DEF ProcessMark, histVars
  <2>2. CASE DestroyBegin
    BY <2>2 DEF DestroyBegin, histVars
  <2>3. CASE ~ProcessMark /\ ~DestroyBegin
    <3>1. UNCHANGED <<jobVars, ackCanceled>>
      BY <1>2, <2>3 DEF MainThread, ProcessCollect, ProcessTake, ProcessCallback,
         ProcessUnlink, ProcessFree, ProcessEnd, DestroyCheck, DestroyFree, histVars
    <3> QED BY <3>1 DEF jobVars
  <2> QED BY <2>1, <2>2, <2>3
<1>3. ASSUME NEW t \in Threads, Call(t)
      PROVE  FlagsOK'
  <2>1. CASE Push(t)
    <3>1. state[nextId] = "none" /\ nextId \in JobIds
      BY <2>1, MaxJobsAssumption DEF Push, IdsOK, Pushed, JobIds
    <3> QED BY <2>1, <3>1 DEF Push, histVars
  <2>2. CASE Cancel(t)
    <3>1. PICK j \in byId :
            /\ state[j] \in {"PENDING", "RUNNING", "CANCELED"}
            /\ canceled' = [canceled EXCEPT ![j] = TRUE]
            /\ state' = [state EXCEPT ![j] = IF state[j] = "PENDING" THEN "CANCELED"
                                            ELSE state[j]]
            /\ ackCanceled' = ackCanceled \cup {j}
      BY <2>2 DEF Cancel, CancelCode, StatusOf, Unfinished
    <3>2. j \in JobIds /\ workerResult' = workerResult
      BY <2>2 DEF Cancel
    <3>3. canceled'[j] = TRUE /\ state'[j] \in {"RUNNING", "CANCELED"}
          /\ (workerResult[j] => state'[j] = "RUNNING")
      BY <3>1, <3>2 DEF Bools
    <3>4. \A k \in JobIds : k # j => canceled'[k] = canceled[k] /\ state'[k] = state[k]
      BY <3>1, <3>2
    <3> QED BY <3>1, <3>2, <3>3, <3>4
  <2>3. CASE PushReturn(t) \/ WaitBegin(t) \/ WaitWake(t) \/ WaitTimeout(t)
    <3>1. UNCHANGED <<jobVars, ackCanceled>>
      BY <2>3 DEF PushReturn, WaitBegin, WaitWake, WaitTimeout, WaitLook, histVars
    <3> QED BY <3>1 DEF jobVars
  <2> QED BY <1>3, <2>1, <2>2, <2>3 DEF Call
<1>4. CASE UNCHANGED vars
  BY <1>4 DEF vars, jobVars, histVars
<1> QED BY <1>1, <1>2, <1>3, <1>4 DEF Next

(* Waits are for pushed jobs and report only what is over.                  *)
LEMMA CallsStep == IInv /\ [Next]_vars => CallsOK'
<1> SUFFICES ASSUME IInv, [Next]_vars
             PROVE  CallsOK'
  OBVIOUS
<1>0. TypeOK /\ IdsOK /\ ListsOK /\ CallsOK /\ Pushed \subseteq JobIds
  BY PushedFacts DEF IInv
<1>1. Pushed \subseteq Pushed'
  BY PushedStep
<1>2. ASSUME NEW j \in Pushed, ~Unfinished(j)
      PROVE  ~Unfinished(j)'
  <2>1. j \in JobIds /\ j # nextId /\ state[j] # "none"
    BY <1>0 DEF Pushed, IdsOK
  <2> QED BY <1>2, <2>1, StateStep DEF Moves, Unfinished
<1> USE <1>0, <1>1, <1>2 DEF TypeOK
<1>3. ASSUME \A t \in Threads : tpc'[t] # "idle" => tpc[t] # "idle" /\ tjob'[t] = tjob[t],
             reported' = reported
      PROVE  CallsOK'
  BY <1>3 DEF CallsOK
<1>4. ASSUME NEW t \in Threads, Push(t)
      PROVE  CallsOK'
  <2>1. Pushed' = Pushed \cup {nextId}
    BY <1>4, PushedStep DEF Push
  <2>2. /\ tpc' = [Woken(tpc) EXCEPT ![t] = "pushed"]
        /\ tjob' = [tjob EXCEPT ![t] = nextId] /\ reported' = reported
    BY <1>4 DEF Push, histVars
  <2>3. \A u \in Threads : tpc'[u] # "idle" => tjob'[u] \in Pushed'
    BY <2>1, <2>2 DEF Woken, CallsOK
  <2> QED BY <2>2, <2>3 DEF CallsOK
<1>5. ASSUME NEW t \in Threads, NEW j \in Pushed, NEW timed \in BOOLEAN,
             WaitLook(t, j, timed)
      PROVE  CallsOK'
  <2>1. j \notin byId => ~Unfinished(j)
    BY DEF ListsOK, Takeable, Unfinished
  <2>2. \A k \in reported' : k \in Pushed /\ ~Unfinished(k)
    BY <1>5, <2>1 DEF WaitLook, CallsOK
  <2>3. \A u \in Threads : tpc'[u] # "idle" => tjob'[u] \in Pushed
    BY <1>5 DEF WaitLook, CallsOK
  <2> QED BY <2>2, <2>3 DEF CallsOK
<1>6. ASSUME NEW t \in Threads, Call(t)
      PROVE  CallsOK'
  <2>1. CASE WaitBegin(t)
    BY <1>5, <2>1 DEF WaitBegin, ListsOK, MainOK, IInv
  <2>2. CASE WaitWake(t)
    <3>1. tjob[t] \in Pushed /\ ttimed[t] \in BOOLEAN
      BY <2>2 DEF WaitWake, CallsOK
    <3> QED BY <1>5, <2>2, <3>1 DEF WaitWake
  <2>3. CASE PushReturn(t) \/ WaitTimeout(t)
    BY <1>3, <2>3 DEF PushReturn, WaitTimeout, histVars
  <2>4. CASE Cancel(t)
    BY <1>3, <2>4 DEF Cancel, Broadcast, Woken
  <2> QED BY <1>4, <1>6, <2>1, <2>2, <2>3, <2>4 DEF Call
<1>7. ASSUME MainThread \/ UNCHANGED vars \/ \E w \in Workers : Worker(w)
      PROVE  CallsOK'
  <2>1. tjob' = tjob /\ reported' = reported /\ (tpc' = tpc \/ tpc' = Woken(tpc))
    BY <1>7 DEF MainThread, Worker, vars, ScanPick, ScanAdvance, Advance, ScanExit,
       ReadCanceled, FnReturn, Finish, Notify, ProcessMark, ProcessCollect, ProcessTake,
       ProcessCallback, ProcessUnlink, ProcessFree, ProcessEnd, DestroyBegin,
       DestroyCheck, DestroyFree, Broadcast, callVars, histVars
  <2> QED BY <1>3, <2>1 DEF Woken
<1> QED BY <1>6, <1>7 DEF Next

(* Destroy leaves nothing pending and push is refused from then on.         *)
LEMMA ShutdownStep == IInv /\ [Next]_vars => ShutdownOK'
<1> SUFFICES ASSUME IInv, [Next]_vars, shuttingDown', NEW j \in queue'
             PROVE  state'[j] # "PENDING"
  BY DEF ShutdownOK
<1>0. TypeOK /\ IdsOK /\ ListsOK /\ ShutdownOK /\ Pushed \subseteq JobIds
  BY PushedFacts DEF IInv
<1>1. CASE DestroyBegin
  BY <1>0, <1>1 DEF DestroyBegin, listVars, TypeOK
<1>2. CASE ~DestroyBegin
  <2>1. shuttingDown
    BY <1>2 DEF Next, vars, Worker, MainThread, Call, ScanPick, ScanAdvance, ScanExit,
       ReadCanceled, FnReturn, Finish, Notify, ProcessMark, ProcessCollect, ProcessTake,
       ProcessCallback, ProcessUnlink, ProcessFree, ProcessEnd, DestroyCheck,
       DestroyFree, Push, PushReturn, WaitBegin, WaitWake, WaitTimeout, WaitLook, Cancel
  <2>2. queue' \subseteq queue
    <3>1. \A t \in Threads : ~Push(t)
      BY <2>1 DEF Push
    <3> QED BY <3>1, QueueStep DEF ProcessUnlink, Unlinked, ProcessFree, DestroyFree
  <2>3. j \in JobIds /\ j # nextId /\ state[j] # "PENDING"
    BY <1>0, <2>1, <2>2 DEF ShutdownOK, ListsOK, Pushed
  <2> QED BY <2>3, StateStep DEF Moves
<1> QED BY <1>1, <1>2

(* A worker takes its jobs in push order.                                   *)
LEMMA NoOvertakingStep == IInv /\ [Next]_vars => NoOvertaking'
<1> SUFFICES ASSUME IInv, [Next]_vars, NEW i \in queue', NEW j \in queue', i < j,
                    executor'[j] # AnyWorker, target'[i] \in {AnyWorker, executor'[j]}
             PROVE  state'[i] # "PENDING"
  BY DEF NoOvertaking
<1>0. TypeOK /\ IdsOK /\ ListsOK /\ NoOvertaking /\ Pushed \subseteq JobIds
  BY PushedFacts DEF IInv
<1> USE <1>0, JobIdsFacts DEF TypeOK
<1>1. ASSUME NEW w \in Workers, ScanPick(w)
      PROVE  state'[i] # "PENDING"
  <2>1. PICK p \in NextFor(w) : /\ executor' = [executor EXCEPT ![p] = w]
                                /\ state'[p] = "RUNNING"
    BY <1>1 DEF ScanPick, NextFor, Eligible
  <2>2. /\ queue' = queue /\ target' = target
        /\ \A k \in JobIds : state'[k] = "PENDING" => state[k] = "PENDING"
    BY <1>1 DEF ScanPick, listVars
  <2>3. CASE j = p
    <3>0. p \in JobIds
      BY <2>1 DEF NextFor, Eligible
    <3>1. executor'[j] = w
      BY <2>1, <2>3, <3>0
    <3>2. state[i] = "PENDING" => i \in Eligible(w)
      BY <2>2, <3>1 DEF Eligible
    <3>3. i \notin Eligible(w)
      <4>1. i \in Int /\ j \in Int /\ ~(j <= i)
        BY <2>2
      <4> QED BY <2>1, <2>3, <4>1 DEF NextFor
    <3> QED BY <2>2, <3>2, <3>3
  <2>4. CASE j # p
    <3>1. executor'[j] = executor[j]
      BY <2>1, <2>4 DEF NextFor, Eligible
    <3> QED BY <2>2, <3>1 DEF NoOvertaking
  <2> QED BY <2>3, <2>4
<1>2. ASSUME NEW t \in Threads, Push(t)
      PROVE  state'[i] # "PENDING"
  <2>1. /\ queue' = queue \cup {nextId} /\ executor' = executor
        /\ nextId \in JobIds \ Pushed
        /\ \A k \in JobIds : k # nextId => state'[k] = state[k] /\ target'[k] = target[k]
    BY <1>2, PushedStep DEF Push
  <2>2. j # nextId
    BY <2>1 DEF IdsOK
  <2>3. j \in queue /\ i # nextId
    BY <2>1, <2>2 DEF ListsOK, Pushed
  <2> QED BY <2>1, <2>3 DEF NoOvertaking
<1>3. CASE (\A w \in Workers : ~ScanPick(w)) /\ (\A t \in Threads : ~Push(t))
  <2>1. executor' = executor /\ target' = target
    BY <1>3 DEF Next, vars, Worker, MainThread, Call, ScanAdvance, ScanExit,
       ReadCanceled, FnReturn, Finish, Notify, ProcessMark, ProcessCollect, ProcessTake,
       ProcessCallback, ProcessUnlink, ProcessFree, ProcessEnd, DestroyBegin,
       DestroyCheck, DestroyFree, PushReturn, WaitBegin, WaitWake, WaitTimeout,
       WaitLook, Cancel, jobVars
  <2>2. queue' \subseteq queue
    BY <1>3, QueueStep DEF ProcessUnlink, Unlinked, ProcessFree, DestroyFree
  <2>3. i \in JobIds /\ i # nextId /\ state[i] # "PENDING"
    BY <2>1, <2>2 DEF NoOvertaking, ListsOK, Pushed
  <2> QED BY <2>3, StateStep DEF Moves
<1> QED BY <1>1, <1>2, <1>3

(* A worker that left has left nothing that needs it.                       *)
LEMMA ExitedStep == IInv /\ [Next]_vars => ExitedOwnsNothing'
<1> SUFFICES ASSUME IInv, [Next]_vars, NEW w \in Workers, wpc'[w] = "exited"
             PROVE  /\ shuttingDown'
                    /\ \A j \in queue' : state'[j] \in {"EXECUTED", "CANCELED"}
  BY DEF ExitedOwnsNothing
<1>0. TypeOK /\ ListsOK /\ ExitedOwnsNothing /\ Pushed \subseteq JobIds
  BY PushedFacts DEF IInv
<1>1. CASE wpc[w] = "exited"
  <2>1. shuttingDown'
    BY <1>0, <1>1 DEF ExitedOwnsNothing, Next, vars, Worker, MainThread, Call, ScanPick,
       ScanAdvance, ScanExit, ReadCanceled, FnReturn, Finish, Notify, ProcessMark,
       ProcessCollect, ProcessTake, ProcessCallback, ProcessUnlink, ProcessFree,
       ProcessEnd, DestroyBegin, DestroyCheck, DestroyFree, Push, PushReturn, WaitBegin,
       WaitWake, WaitTimeout, WaitLook, Cancel
  <2>2. queue' \subseteq queue
    <3>1. \A t \in Threads : ~Push(t)
      BY <1>0, <1>1 DEF Push, ExitedOwnsNothing
    <3> QED BY <3>1, QueueStep DEF ProcessUnlink, Unlinked, ProcessFree, DestroyFree
  <2>3. \A j \in queue : Takeable(j) /\ j \in Pushed
    BY <1>0, <1>1 DEF ExitedOwnsNothing, Takeable, ListsOK
  <2>4. \A j \in queue' : Takeable(j)'
    BY <2>2, <2>3, FinalStays
  <2> QED BY <2>1, <2>4 DEF Takeable
<1>2. CASE wpc[w] # "exited"
  <2>1. ScanExit(w)
    BY <1>0, <1>2 DEF Next, vars, Worker, MainThread, Call, ScanPick, ScanAdvance,
       ScanExit, ReadCanceled, FnReturn, Finish, Notify, ProcessMark, ProcessCollect,
       ProcessTake, ProcessCallback, ProcessUnlink, ProcessFree, ProcessEnd,
       DestroyBegin, DestroyCheck, DestroyFree, Push, PushReturn, WaitBegin, WaitWake,
       WaitTimeout, WaitLook, Cancel, workerVars, TypeOK
  <2> QED BY <2>1 DEF ScanExit, MayExit, jobVars, listVars
<1> QED BY <1>1, <1>2

(* A job is never over while somebody sleeps on it and nobody is about to   *)
(* broadcast.                                                               *)
LEMMA NoLostWakeupStep == IInv /\ [Next]_vars => NoLostWakeup'
<1> DEFINE Over(j) == j \notin byId \/ ~Unfinished(j)
<1> SUFFICES ASSUME IInv, [Next]_vars, NEW t \in Threads, tpc'[t] = "asleep",
                    Over(tjob[t])'
             PROVE  \E w \in Workers : wpc'[w] = "notify"
  BY DEF NoLostWakeup
<1>0. TypeOK /\ ListsOK /\ MainOK /\ HeldOK /\ CallsOK /\ NoLostWakeup
      /\ Pushed \subseteq JobIds
  BY PushedFacts DEF IInv
<1> USE <1>0, JobIdsFacts DEF TypeOK
<1> HIDE DEF Over
(* Somebody who was asleep before, on the same job, as if the step had not  *)
(* made it over: then a worker is about to broadcast, unless it just did.   *)
<1>1. ASSUME tpc[t] = "asleep", tjob'[t] = tjob[t], Over(tjob[t])' => Over(tjob[t]),
             \A w \in Workers : wpc[w] = "notify" => wpc'[w] = "notify"
      PROVE  \E w \in Workers : wpc'[w] = "notify"
  BY <1>1 DEF NoLostWakeup, Over
<1>2. ASSUME NEW w \in Workers, Worker(w)
      PROVE  \E v \in Workers : wpc'[v] = "notify"
  <2>1. CASE Finish(w)
    BY <2>1 DEF Finish
  <2>2. CASE Notify(w)
    BY <2>2 DEF Notify, Broadcast, Woken
  <2>3. CASE ~Finish(w) /\ ~Notify(w)
    <3>1. /\ tjob' = tjob /\ byId' = byId /\ (tpc' = tpc \/ tpc' = Woken(tpc))
          /\ \A v \in Workers : wpc[v] = "notify" => wpc'[v] = "notify"
      BY <1>2, <2>3 DEF Worker, ScanPick, ScanAdvance, Advance, ScanExit, ReadCanceled,
         FnReturn, listVars, workerVars, callVars
    <3>2. \A j \in JobIds : state[j] \in {"PENDING", "RUNNING"}
                           => state'[j] \in {"PENDING", "RUNNING"}
      <4>1. CASE ScanPick(w)
        BY <4>1 DEF ScanPick, Mine
      <4>2. CASE ScanAdvance(w)
        BY <4>2 DEF ScanAdvance, Mine
      <4>3. CASE ScanExit(w) \/ ReadCanceled(w) \/ FnReturn(w)
        BY <4>3 DEF ScanExit, ReadCanceled, FnReturn, jobVars
      <4> QED BY <1>2, <2>3, <4>1, <4>2, <4>3 DEF Worker
    <3>3. tpc[t] = "asleep" /\ tjob[t] \in JobIds
      <4>1. tpc[t] = "asleep"
        BY <3>1 DEF Woken
      <4> QED BY <4>1 DEF CallsOK
    <3>4. Over(tjob[t])' => Over(tjob[t])
      BY <3>1, <3>2, <3>3 DEF Over, Unfinished
    <3> QED BY <1>1, <3>1, <3>3, <3>4
  <2> QED BY <2>1, <2>2, <2>3
<1>3. CASE MainThread
  <2>1. CASE DestroyBegin
    BY <2>1 DEF DestroyBegin, Broadcast, Woken
  <2>2. CASE ~DestroyBegin
    <3>1. tjob' = tjob /\ wpc' = wpc /\ (tpc' = tpc \/ tpc' = Woken(tpc))
      BY <1>3, <2>2 DEF MainThread, ProcessMark, ProcessCollect, ProcessTake,
         ProcessCallback, ProcessUnlink, ProcessFree, ProcessEnd, DestroyCheck,
         DestroyFree, Broadcast, workerVars, callVars
    <3>2. \A j \in JobIds : state[j] \in {"PENDING", "RUNNING"}
                           => state'[j] = state[j]
      BY <1>3, <2>2 DEF MainThread, ProcessMark, ProcessCollect, ProcessTake,
         ProcessCallback, ProcessUnlink, ProcessFree, ProcessEnd, DestroyCheck,
         DestroyFree, jobVars
    <3>3. \A j \in byId : state[j] \in {"PENDING", "RUNNING"} => j \in byId'
      BY <1>3, <2>2 DEF MainThread, ProcessMark, ProcessCollect, ProcessTake,
         ProcessCallback, ProcessUnlink, ProcessFree, Unmapped, ProcessEnd, DestroyCheck,
         DestroyFree, listVars, MainOK, ListsOK, Takeable
    <3>4. tpc[t] = "asleep" /\ tjob[t] \in JobIds
      <4>1. tpc[t] = "asleep"
        BY <3>1 DEF Woken
      <4> QED BY <4>1 DEF CallsOK
    <3>5. Over(tjob[t])' => Over(tjob[t])
      BY <3>1, <3>2, <3>3, <3>4 DEF Over, Unfinished
    <3> QED BY <1>1, <3>1, <3>4, <3>5
  <2> QED BY <2>1, <2>2
<1>4. ASSUME NEW u \in Threads, Call(u)
      PROVE  \E w \in Workers : wpc'[w] = "notify"
  <2>1. CASE Push(u)
    BY <2>1 DEF Push, Woken
  <2>2. CASE Cancel(u)
    BY <2>2 DEF Cancel, Broadcast, Woken
  <2>3. ASSUME NEW j \in JobIds, NEW timed \in BOOLEAN, WaitLook(u, j, timed)
        PROVE  \E w \in Workers : wpc'[w] = "notify"
    <3>1. wpc' = wpc /\ UNCHANGED <<byId, state>>
      BY <2>3 DEF WaitLook, workerVars, listVars, jobVars
    <3>2. CASE t = u
      BY <2>3, <3>1, <3>2 DEF WaitLook, Over, Unfinished
    <3>3. CASE t # u
      <4>1. tpc[t] = "asleep" /\ tjob'[t] = tjob[t]
        BY <2>3, <3>3 DEF WaitLook
      <4> QED BY <1>1, <3>1, <4>1 DEF Over, Unfinished
    <3> QED BY <3>2, <3>3
  <2>4. CASE WaitBegin(u)
    BY <2>3, <2>4 DEF WaitBegin
  <2>5. CASE WaitWake(u)
    <3>1. tpc[u] = "awake" /\ WaitLook(u, tjob[u], ttimed[u])
      BY <2>5 DEF WaitWake
    <3>2. tjob[u] \in JobIds /\ ttimed[u] \in BOOLEAN
      BY <3>1 DEF CallsOK
    <3> QED BY ONLY <2>3, <3>1, <3>2
  <2>6. CASE PushReturn(u) \/ WaitTimeout(u)
    <3>1. wpc' = wpc /\ UNCHANGED <<byId, state>>
      BY <2>6 DEF PushReturn, WaitTimeout, workerVars, listVars, jobVars
    <3>2. tpc[t] = "asleep" /\ tjob'[t] = tjob[t]
      BY <2>6 DEF PushReturn, WaitTimeout
    <3> QED BY <1>1, <3>1, <3>2 DEF Over, Unfinished
  <2> QED BY <1>4, <2>1, <2>2, <2>4, <2>5, <2>6 DEF Call
<1>5. CASE UNCHANGED vars
  BY <1>1, <1>5 DEF vars, Over, Unfinished, jobVars, listVars, workerVars, callVars
<1> QED BY <1>2, <1>3, <1>4, <1>5 DEF Next

-----------------------------------------------------------------------------
(* The invariant holds initially.                                           *)
LEMMA IInvInit == Init => IInv
<1> SUFFICES ASSUME Init
             PROVE  IInv
  OBVIOUS
<1>1. Pushed = {}
  BY DEF Init, Pushed
<1>2. TypeOK /\ IdsOK /\ ListsOK
  BY <1>1, TypeInit DEF Init, IdsOK, ListsOK
<1>3. MainOK /\ CalledOK /\ ShutdownOK
  BY DEF Init, MainOK, CalledOK, ShutdownOK
<1>4. HeldOK /\ FlagsOK /\ CallsOK
  BY DEF Init, HeldOK, FlagsOK, CallsOK
<1>5. NoOvertaking /\ NoLostWakeup /\ ExitedOwnsNothing
  BY DEF Init, NoOvertaking, NoLostWakeup, ExitedOwnsNothing
<1> QED BY <1>2, <1>3, <1>4, <1>5 DEF IInv

(* The invariant is inductive.                                              *)
LEMMA IInvStep == IInv /\ [Next]_vars => IInv'
BY TypeStep, IdsStep, ListsStep, MainStep, CalledStep, HeldStep, FlagsStep, CallsStep,
   ShutdownStep, NoOvertakingStep, NoLostWakeupStep, ExitedStep DEF IInv

(* The inductive invariant holds in every state of the queue: ids, lists,   *)
(* flags, results and what every thread has in hand agree.                  *)
THEOREM Invariance == Spec => []IInv
BY IInvInit, IInvStep, PTL DEF Spec

(* Every variable keeps its type; in particular no job is ever in the state *)
(* JOB_COMPLETED, which the enum has and the code does not use.             *)
THEOREM TypeCorrect == Spec => []TypeOK
BY Invariance, PTL DEF IInv

(* The raw pointer a worker uses outside the locks (_worker_thread_main)    *)
(* never dangles, and no two workers run one job.                           *)
THEOREM HeldJobsStayAlive == Spec => []HeldJobAlive
<1>1. IInv => HeldJobAlive
  BY DEF IInv, HeldOK, ListsOK, HeldJobAlive
<1> QED BY <1>1, Invariance, PTL

(* ese_job_queue_process works on each job once: it never collects, calls,  *)
(* cleans or frees one a second time.                                       *)
THEOREM MainJobsStayIntact == Spec => []MainJobIntact
<1>1. IInv => MainJobIntact
  <2> SUFFICES ASSUME IInv
               PROVE  MainJobIntact
    OBVIOUS
  <2>1. ListsOK /\ MainOK /\ CalledOK
    BY DEF IInv
  <2>2. \A j \in local : j \notin called
    BY <2>1 DEF MainOK, CalledOK
  <2>3. mpc = "callback" => mjob \notin called
    BY <2>1 DEF MainOK, CalledOK
  <2> QED BY <2>1, <2>2, <2>3 DEF MainJobIntact, ListsOK, MainOK
<1> QED BY <1>1, Invariance, PTL

(* After ese_job_queue_cancel_callback answered CANCELED, the callback of   *)
(* that job is never called.                                                *)
THEOREM CanceledJobsStaySilent == Spec => []CanceledNeverCalled
<1>1. IInv => CanceledNeverCalled
  BY PushedFacts DEF IInv, FlagsOK, CalledOK, CanceledNeverCalled
<1> QED BY <1>1, Invariance, PTL

(* No job is freed with its worker-side result still in it, or without its  *)
(* cleanup.                                                                 *)
THEOREM ResultsAreReleased == Spec => []ResultReleased
<1>1. IInv => ResultReleased
  BY PushedFacts DEF IInv, FlagsOK, ListsOK, Takeable, ResultReleased
<1> QED BY <1>1, Invariance, PTL

(* The early end of the worker's scan misses nothing: jobs are picked in    *)
(* push order.                                                              *)
THEOREM NobodyOvertakes == Spec => []NoOvertaking
BY Invariance, PTL DEF IInv

(* The broadcast after the unlock is enough: whoever sleeps on a job that   *)
(* is over has a broadcast coming.                                          *)
THEOREM NoWakeupIsLost == Spec => []NoLostWakeup
BY Invariance, PTL DEF IInv

(* A worker that has left the loop in shutdown owns nothing that the drain  *)
(* loop of destroy still needs it for.                                      *)
THEOREM WorkersLeaveNothing == Spec => []ExitedOwnsNothing
BY Invariance, PTL DEF IInv

(* wait_for_completion is a barrier: once it returned COMPLETED or CANCELED *)
(* the fn of the job is not running and never will be.                      *)
THEOREM WaitsAreBarriers == Spec => []WaitNeverEarly
<1>1. IInv => WaitNeverEarly
  <2> SUFFICES ASSUME IInv, NEW j \in reported
               PROVE  ~Unfinished(j) /\ \A w \in Workers : wjob[w] # j
    BY DEF WaitNeverEarly
  <2>1. ~Unfinished(j) /\ j # NoJob
    BY PushedFacts, JobIdsFacts DEF IInv, CallsOK
  <2> QED BY <2>1 DEF IInv, HeldOK, Unfinished
<1> QED BY <1>1, Invariance, PTL

(* When destroy returns, every job ever pushed was cleaned up and freed.    *)
THEOREM DestroyLeavesNothing == Spec => []DestroyDrains
<1>1. IInv => DestroyDrains
  <2> SUFFICES ASSUME IInv, mpc = "gone"
               PROVE  freed = {j \in JobIds : j < nextId} /\ queue = {} /\ byId = {}
    BY DEF DestroyDrains
  <2>1. queue = {} /\ byId = {} /\ freed = Pushed
    BY DEF IInv, MainOK, ListsOK
  <2>2. Pushed = {j \in JobIds : j < nextId}
    BY MaxJobsAssumption DEF IInv, TypeOK, Pushed, JobIds
  <2> QED BY <2>1, <2>2
<1> QED BY <1>1, Invariance, PTL

-----------------------------------------------------------------------------
(* An answer of ese_job_queue_status is never taken back: completed stays   *)
(* completed until it is unknown, canceled never becomes completed.         *)
THEOREM StatusStaysConsistent == Spec => StatusConsistent
<1>1. ASSUME IInv, IInv', [Next]_vars, NEW j \in JobIds
      PROVE  /\ StatusOf(j) = "COMPLETED" => StatusOf(j)' \in {"COMPLETED", "NOT_FOUND"}
             /\ j \in ackCanceled => StatusOf(j)' # "COMPLETED"
  <2>1. ASSUME StatusOf(j) = "COMPLETED"
        PROVE  StatusOf(j)' \in {"COMPLETED", "NOT_FOUND"}
    <3>1. /\ state[j] \in {"RESULTS_READY", "RESULTS_PROCESSED", "EXECUTED"}
          /\ j # nextId
      <4>1. j \in Pushed
        BY <1>1, <2>1 DEF IInv, ListsOK, MainOK, StatusOf
      <4>2. state[j] \notin {"none", "PENDING", "RUNNING", "CANCELED"}
        BY <1>1, <2>1, <4>1 DEF IInv, IdsOK, StatusOf, Unfinished
      <4> QED BY <1>1, <4>1, <4>2 DEF IInv, TypeOK, States, Pushed
    <3>2. state'[j] \in {"RESULTS_READY", "RESULTS_PROCESSED", "EXECUTED"}
      BY <1>1, <3>1, StateStep DEF Moves
    <3> QED BY <3>2 DEF StatusOf, Unfinished
  <2>2. ASSUME j \in ackCanceled
        PROVE  StatusOf(j)' # "COMPLETED"
    <3>1. ackCanceled \subseteq ackCanceled'
      BY <1>1 DEF Next, vars, Worker, MainThread, Call, ScanPick, ScanAdvance, ScanExit,
         ReadCanceled, FnReturn, Finish, Notify, ProcessMark, ProcessCollect,
         ProcessTake, ProcessCallback, ProcessUnlink, ProcessFree, ProcessEnd,
         DestroyBegin, DestroyCheck, DestroyFree, Push, PushReturn, WaitBegin, WaitWake,
         WaitTimeout, WaitLook, Cancel, histVars
    <3>2. state'[j] \in {"RUNNING", "CANCELED"}
      BY <1>1, <2>2, <3>1 DEF IInv, FlagsOK
    <3> QED BY <3>2 DEF StatusOf, Unfinished
  <2> QED BY <2>1, <2>2
<1>2. IInv /\ IInv' /\ [Next]_vars =>
        [\A j \in JobIds :
           /\ StatusOf(j) = "COMPLETED" => StatusOf(j)' \in {"COMPLETED", "NOT_FOUND"}
           /\ j \in ackCanceled => StatusOf(j)' # "COMPLETED"]_vars
  BY <1>1
<1> QED BY <1>2, Invariance, PTL DEF StatusConsistent, Spec

(* The refinement: the phases of the service are a function of the queue's  *)
(* state, and each step moves at most one job - or closes the service.      *)
Phase  == [j \in JobIds |-> PhaseOf(j)]
Doomed == {j \in JobIds : canceled[j]}

(* A job moves in the service when it alone changes its phase.              *)
LEMMA PhaseMoves ==
  ASSUME NEW k \in JobIds, \A j \in JobIds \ {k} : PhaseOf(j)' = PhaseOf(j),
         NEW from, NEW to, PhaseOf(k) = from, PhaseOf(k)' = to
  PROVE  Service!Move(k, from, to)
BY DEF Service!Move

(* The service does not move when no job changes its phase.                 *)
LEMMA PhaseStays ==
  ASSUME \A j \in JobIds : PhaseOf(j)' = PhaseOf(j)
  PROVE  Phase' = Phase
BY DEF Phase

(* The phase depends on the state only up to the result hand-over.          *)
LEMMA SamePhase ==
  ASSUME NEW j \in JobIds, UNCHANGED <<cleaned, called>>,
         \/ state'[j] = state[j]
         \/ /\ state[j] \in {"RESULTS_READY", "RESULTS_PROCESSED", "EXECUTED"}
            /\ state'[j] \in {"RESULTS_READY", "RESULTS_PROCESSED", "EXECUTED"}
  PROVE  PhaseOf(j)' = PhaseOf(j)
BY DEF PhaseOf

(* A job that is not final yet is in no history.                            *)
LEMMA OpenPhase ==
  ASSUME IInv, NEW j \in JobIds, state[j] \notin {"EXECUTED", "CANCELED"}
  PROVE  j \notin cleaned /\ j \notin called
BY DEF IInv, ListsOK, CalledOK, Takeable

(* The queue implements the service that job_queue.h promises.              *)
THEOREM Refinement == Spec => ImplementsService
<1>1. Init => Service!SInit
  BY DEF Init, Service!SInit, PhaseOf
<1>2. ASSUME IInv, IInv', [Next]_vars
      PROVE  [Service!SNext]_(Service!svars)
  <2>0. TypeOK /\ Pushed \subseteq JobIds
    BY <1>2, PushedFacts DEF IInv
  <2> DEFINE SameBut(k) == \A j \in JobIds \ {k} : PhaseOf(j)' = PhaseOf(j)
             Stutter == /\ \A j \in JobIds : PhaseOf(j)' = PhaseOf(j)
                        /\ Doomed' = Doomed /\ shuttingDown' = shuttingDown
             Step(j) == \/ Service!Submit(j) \/ Service!Start(j) \/ Service!CallOff(j)
                        \/ Service!FinishJob(j) \/ Service!Drop(j)
                        \/ Service!Deliver(j) \/ Service!Reclaim(j)
  <2> SUFFICES (\E j \in JobIds : Step(j)) \/ Service!Close \/ Stutter
    BY PhaseStays DEF Service!SNext, Service!svars, Phase, Doomed
  <2> USE <1>2, <2>0, JobIdsFacts DEF TypeOK
  <2>1. ASSUME UNCHANGED <<state, canceled, cleaned, called, shuttingDown>>
        PROVE  Stutter
    BY <2>1, SamePhase DEF Doomed
  <2> HIDE DEF Step, Stutter
  <2>2. ASSUME NEW w \in Workers, Worker(w)
        PROVE  (\E j \in JobIds : Step(j)) \/ Stutter
    <3>1. CASE ScanPick(w)
      <4>1. PICK p \in JobIds :
              /\ state[p] = "PENDING" /\ state'[p] = "RUNNING"
              /\ \A j \in JobIds \ {p} : \/ state'[j] = state[j]
                                          \/ /\ state[j] = "RESULTS_PROCESSED"
                                             /\ state'[j] = "EXECUTED"
        BY <3>1 DEF ScanPick, NextFor, Eligible, Mine
      <4>2. /\ UNCHANGED <<cleaned, called, canceled, shuttingDown>> /\ ~shuttingDown
        BY <3>1 DEF ScanPick, histVars
      <4>3. SameBut(p)
        BY <4>1, <4>2, SamePhase
      <4>4. PhaseOf(p) = "queued" /\ PhaseOf(p)' = "running"
        BY <4>1, <4>2, OpenPhase DEF PhaseOf
      <4>5. Service!Start(p)
        BY <4>2, <4>3, <4>4, PhaseMoves DEF Service!Start
      <4> QED BY <4>5 DEF Step
    <3>2. CASE ScanAdvance(w)
      <4>1. UNCHANGED <<cleaned, called, canceled, shuttingDown>>
        BY <3>2 DEF ScanAdvance, histVars
      <4>2. \A j \in JobIds : \/ state'[j] = state[j]
                              \/ /\ state[j] = "RESULTS_PROCESSED"
                                 /\ state'[j] = "EXECUTED"
        BY <3>2 DEF ScanAdvance, Mine
      <4> QED BY <4>1, <4>2, SamePhase DEF Stutter, Doomed
    <3>3. CASE ScanExit(w) \/ ReadCanceled(w) \/ FnReturn(w) \/ Notify(w)
      BY <2>1, <3>3 DEF ScanExit, ReadCanceled, FnReturn, Notify, jobVars, histVars
    <3>4. CASE Finish(w)
      <4>0. wjob[w] \in JobIds /\ state[wjob[w]] = "RUNNING"
        BY <3>4 DEF Finish, HeldOK, IInv
      <4>1. PICK k \in JobIds : k = wjob[w] /\ state[k] = "RUNNING"
        BY <4>0
      <4>2. /\ UNCHANGED <<cleaned, called, shuttingDown>>
            /\ state' = [state EXCEPT ![k] = Outcome(w)]
            /\ canceled' = [canceled EXCEPT ![k] = Dropped(w)]
        BY <3>4, <4>1 DEF Finish, histVars
      <4>3. SameBut(k)
        BY <4>2, SamePhase
      <4>4. PhaseOf(k) = "running" /\ k \notin cleaned /\ k \notin called
        BY <4>1, OpenPhase DEF PhaseOf
      <4>5. CASE Dropped(w)
        <5>1. PhaseOf(k)' = "dropped"
          BY <4>1, <4>2, <4>4, <4>5 DEF PhaseOf, Outcome
        <5>2. Doomed' = Doomed \cup {k}
          BY <4>1, <4>2, <4>5 DEF Doomed, Bools
        <5>3. Service!Drop(k)
          BY <4>1, <4>2, <4>3, <4>4, <5>1, <5>2, PhaseMoves DEF Service!Drop, Doomed
        <5> QED BY <4>1, <5>3 DEF Step
      <4>6. CASE ~Dropped(w)
        <5>1. PhaseOf(k)' = "finished"
          BY <4>1, <4>2, <4>4, <4>6 DEF PhaseOf, Outcome
        <5>2. Doomed' = Doomed /\ k \notin Doomed
          BY <4>1, <4>2, <4>6 DEF Doomed, Bools, Dropped
        <5>3. Service!FinishJob(k)
          BY <4>1, <4>2, <4>3, <4>4, <5>1, <5>2, PhaseMoves DEF Service!FinishJob, Doomed
        <5> QED BY <4>1, <5>3 DEF Step
      <4> QED BY <4>5, <4>6
    <3> QED BY <2>2, <3>1, <3>2, <3>3, <3>4 DEF Worker
  <2>3. CASE MainThread
    <3>1. CASE ProcessMark
      <4>1. UNCHANGED <<cleaned, called, canceled, shuttingDown>>
        BY <3>1 DEF ProcessMark, histVars
      <4>2. \A j \in JobIds : \/ state'[j] = state[j]
                              \/ /\ state[j] = "RESULTS_READY"
                                 /\ state'[j] = "RESULTS_PROCESSED"
        BY <3>1 DEF ProcessMark
      <4> QED BY <4>1, <4>2, SamePhase DEF Stutter, Doomed
    <3>2. CASE ProcessCollect \/ ProcessTake \/ ProcessFree \/ ProcessEnd \/ DestroyCheck
      BY <2>1, <3>2 DEF ProcessCollect, ProcessTake, ProcessFree, ProcessEnd,
         DestroyCheck, jobVars, histVars
    <3>3. CASE ProcessCallback
      <4>1. PICK k \in JobIds : /\ k = mjob /\ k \in queue /\ state[k] = "EXECUTED"
                                /\ k \notin called /\ ~shuttingDown
        BY <3>3 DEF ProcessCallback, IInv, MainOK, CalledOK
      <4>2. /\ called' = called \cup {k}
            /\ UNCHANGED <<state, cleaned, canceled, shuttingDown>>
        BY <3>3, <4>1 DEF ProcessCallback, jobVars
      <4>3. SameBut(k)
        BY <4>2 DEF PhaseOf
      <4>4. PhaseOf(k) = "finished" /\ PhaseOf(k)' = "delivered"
        BY <4>1, <4>2 DEF PhaseOf, IInv, ListsOK
      <4>5. Service!Deliver(k)
        BY <4>1, <4>2, <4>3, <4>4, PhaseMoves DEF Service!Deliver
      <4> QED BY <4>5 DEF Step
    <3>4. CASE ProcessUnlink
      <4>1. PICK k \in JobIds : /\ k = mjob /\ k \in queue /\ Takeable(k)
                                /\ k \in called \/ state[k] = "CANCELED" \/ shuttingDown
        BY <3>4 DEF ProcessUnlink, IInv, MainOK
      <4>2. /\ cleaned' = cleaned \cup {k}
            /\ UNCHANGED <<state, called, canceled, shuttingDown>>
        BY <3>4, <4>1 DEF ProcessUnlink, jobVars
      <4>3. SameBut(k)
        BY <4>2 DEF PhaseOf
      <4>4. /\ PhaseOf(k)' = "reclaimed"
            /\ \/ PhaseOf(k) \in {"delivered", "dropped"}
               \/ PhaseOf(k) = "finished" /\ shuttingDown
        BY <4>1, <4>2 DEF PhaseOf, IInv, ListsOK, Takeable
      <4>5. Service!Reclaim(k)
        BY <4>2, <4>3, <4>4, PhaseMoves DEF Service!Reclaim
      <4> QED BY <4>5 DEF Step
    <3>5. CASE DestroyBegin
      <4>1. ~shuttingDown /\ shuttingDown' = TRUE /\ UNCHANGED <<called, cleaned>>
        BY <3>5 DEF DestroyBegin, IInv, MainOK, histVars
      <4>2. \A j \in JobIds : state[j] \in {"PENDING", "RUNNING"} => j \in queue
        BY DEF IInv, IdsOK, ListsOK, Takeable
      <4>3. \A j \in JobIds :
              /\ PhaseOf(j) = "queued" <=> state[j] = "PENDING"
              /\ PhaseOf(j) = "running" <=> state[j] = "RUNNING"
        BY OpenPhase DEF PhaseOf, States
      <4>4. \A j \in JobIds :
              PhaseOf(j)' = IF PhaseOf(j) = "queued" THEN "dropped" ELSE PhaseOf(j)
        BY <3>5, <4>1, <4>2, <4>3, OpenPhase DEF DestroyBegin, PhaseOf
      <4>5. Doomed' = Doomed \cup {j \in JobIds : PhaseOf(j) \in {"queued", "running"}}
        BY <3>5, <4>2, <4>3 DEF DestroyBegin, Doomed
      <4> QED BY <4>1, <4>4, <4>5 DEF Service!Close, Doomed
    <3>6. CASE DestroyFree
      <4>1. queue = {}
        BY <3>6 DEF DestroyFree, IInv, MainOK
      <4>2. UNCHANGED <<state, canceled, cleaned, called, shuttingDown>>
        BY <3>6, <4>1 DEF DestroyFree, jobVars
      <4> QED BY <2>1, <4>2
    <3> QED BY <2>3, <3>1, <3>2, <3>3, <3>4, <3>5, <3>6 DEF MainThread
  <2>4. ASSUME NEW t \in Threads, Call(t)
        PROVE  (\E j \in JobIds : Step(j)) \/ Stutter
    <3>1. CASE Push(t)
      <4>1. PICK k \in JobIds : k = nextId /\ state[k] = "none"
        BY <3>1, MaxJobsAssumption DEF Push, IInv, IdsOK, Pushed, JobIds
      <4>2. /\ ~shuttingDown /\ state' = [state EXCEPT ![k] = "PENDING"]
            /\ UNCHANGED <<cleaned, called, canceled, shuttingDown>>
        BY <3>1, <4>1 DEF Push, histVars
      <4>3. SameBut(k)
        BY <4>2, SamePhase
      <4>4. PhaseOf(k) = "new" /\ PhaseOf(k)' = "queued"
        BY <4>1, <4>2, OpenPhase DEF PhaseOf
      <4>5. Service!Submit(k)
        BY <4>2, <4>3, <4>4, PhaseMoves DEF Service!Submit
      <4> QED BY <4>5 DEF Step
    <3>2. CASE Cancel(t)
      <4>1. PICK j \in byId :
              /\ state[j] \in {"PENDING", "RUNNING", "CANCELED"}
              /\ canceled' = [canceled EXCEPT ![j] = TRUE]
              /\ state' = [state EXCEPT ![j] = IF state[j] = "PENDING" THEN "CANCELED"
                                              ELSE state[j]]
        BY <3>2 DEF Cancel, CancelCode, StatusOf, Unfinished
      <4>2. j \in JobIds /\ UNCHANGED <<cleaned, called, shuttingDown>>
        BY <3>2 DEF Cancel
      <4>3. SameBut(j) /\ Doomed' = Doomed \cup {j}
        BY <4>1, <4>2, SamePhase DEF Doomed, Bools
      <4>4. CASE j \in cleaned
        <5>1. state[j] = "CANCELED" /\ canceled[j]
          BY <4>1, <4>2, <4>4 DEF IInv, ListsOK, Takeable, FlagsOK
        <5>2. PhaseOf(j)' = PhaseOf(j)
          BY <4>2, <4>4 DEF PhaseOf
        <5>3. Doomed' = Doomed
          BY <4>2, <4>3, <5>1 DEF Doomed
        <5> QED BY <4>2, <4>3, <5>2, <5>3 DEF Stutter
      <4>5. CASE j \notin cleaned
        <5>1. j \notin called
          BY <4>1 DEF IInv, CalledOK
        <5>2. /\ PhaseOf(j) \in {"queued", "running", "dropped"}
              /\ PhaseOf(j)' = IF PhaseOf(j) = "queued" THEN "dropped" ELSE PhaseOf(j)
          BY <4>1, <4>2, <4>5, <5>1 DEF PhaseOf
        <5>3. Phase' = [Phase EXCEPT ![j] = IF Phase[j] = "queued" THEN "dropped"
                                           ELSE Phase[j]]
          BY <4>2, <4>3, <5>2 DEF Phase
        <5>4. Phase[j] \in {"queued", "running", "dropped"}
          BY <4>2, <5>2 DEF Phase
        <5>5. Service!CallOff(j)
          BY <4>2, <4>3, <5>3, <5>4 DEF Service!CallOff, Phase, Doomed
        <5> QED BY <4>2, <5>5 DEF Step
      <4> QED BY <4>4, <4>5
    <3>3. CASE PushReturn(t) \/ WaitBegin(t) \/ WaitWake(t) \/ WaitTimeout(t)
      BY <2>1, <3>3 DEF PushReturn, WaitBegin, WaitWake, WaitTimeout, WaitLook, jobVars,
         histVars
    <3> QED BY <2>4, <3>1, <3>2, <3>3 DEF Call
  <2>5. CASE UNCHANGED vars
    BY <2>1, <2>5 DEF vars, jobVars, histVars
  <2> QED BY <2>2, <2>3, <2>4, <2>5 DEF Next
<1> QED BY <1>1, <1>2, Invariance, PTL DEF ImplementsService, Service!SSpec, Spec
=============================================================================
