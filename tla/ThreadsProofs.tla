---------------------------- MODULE ThreadsProofs ----------------------------
(***************************************************************************)
(* Proofs about the components beside the job queue in which threads meet: *)
(* HTTP requests, the sound system and the memory manager, for any         *)
(* requests, jobs, components, tracks, blocks, threads and bounds.         *)
(***************************************************************************)
EXTENDS MCThreads, Facts, FiniteSetTheorems, SequenceTheorems, WellFoundedInduction, TLAPS

------------------------------------------------------------------------------
(* HTTP requests: the inductive invariant.                                  *)

(* What a worker holds in a step, but for the body of the last one.         *)
Needs(w) ==
  LET connection == IF w.tls THEN {"tls"} ELSE {"socket"} IN
  CASE w.step = "handshake"           -> {"tls"}
    [] w.step = "connect"             -> {"addrs"}
    [] w.step = "await"               -> {"addrs", "socket"}
    [] w.step = "send"                -> connection
    [] w.step \in {"receive", "parse"} -> connection \cup {"raw"}
    [] w.step = "finish"              -> connection \cup {"raw", "headers"}
    [] OTHER                          -> {}

Tidy(w) == /\ ~w.spilled
           /\ w.held \ {"body"} = Needs(w)
           /\ "body" \in w.held => w.step = "finish"

(* The locals of a worker: the scheme fits the step, the contexts of TLS    *)
(* exist past the set-up, and nothing is held that the step does not need.  *)
WorkerOK(w) == /\ w.step = "await" => w.addrs > 0
               /\ w.step = "handshake" => w.tls
               /\ w.step \in {"lookup", "connect", "await"} => ~w.tls
               /\ w.step \notin {"setup", "out"} /\ w.tls => "tls" \in w.held
               /\ ~w.left => Tidy(w)

(* A job belongs to a request from its push on; its locals are new until it *)
(* runs and out of use afterwards.                                          *)
JobOK(j) == /\ owner[j] = NoRequest <=> httpPhase[j] = "new"
            /\ httpPhase[j] \in {"new", "queued"} => work[j] = NoLocals
            /\ httpPhase[j] # "running" => work[j].step = "out"
            /\ httpPhase[j] = "reclaimed" => ~work[j].result

(* The anchor of a request stays until a job of it has been cleaned up, and *)
(* keeps the object alive.                                                  *)
RequestOK(r) == /\ proxy[r] = "none" <=> object[r] = "unused"
                /\ object[r] = "unused" => Started(r) = {} /\ ~anchored[r]
                /\ anchored[r] => object[r] = "live"
                /\ anchored[r] => \A j \in Started(r) : httpPhase[j] # "reclaimed"
                /\ object[r] # "unused" /\ ~anchored[r] =>
                     \E j \in Started(r) : httpPhase[j] = "reclaimed"
                /\ proxy[r] = "collected" =>
                     IF anchored[r] THEN Started(r) = {} ELSE object[r] = "freed"

HttpInv == /\ HttpTypeOK
           /\ \A j \in HttpJobs : JobOK(j)
           /\ \A j \in HttpJobs : WorkerOK(work[j])
           /\ \A r \in Requests : RequestOK(r)
           /\ HttpSafe
------------------------------------------------------------------------------
(* Locals.                                                                  *)

LEMMA LocalsFields ==
  ASSUME NEW w \in Locals
  PROVE  /\ w.step \in Steps /\ w.tls \in BOOLEAN /\ w.hops \in 0..MaxHops
         /\ w.addrs \in 0..MaxAddrs /\ w.held \in SUBSET Resources
         /\ w.spilled \in BOOLEAN /\ w.result \in BOOLEAN /\ w.left \in BOOLEAN
         /\ w.raised \in BOOLEAN
BY DEF Locals

LEMMA NoLocalsOK == NoLocals \in Locals /\ WorkerOK(NoLocals)
<1>1. 0 \in 0..MaxHops /\ 0 \in 0..MaxAddrs
  BY HttpAssumption
<1>2. NoLocals \in Locals
  BY <1>1 DEF NoLocals, Locals, Steps, Resources
<1>3. Needs(NoLocals) = {}
  BY DEF Needs, NoLocals
<1>4. Tidy(NoLocals)
  BY <1>3 DEF Tidy, NoLocals
<1> QED BY <1>2, <1>4 DEF WorkerOK, NoLocals

(* A worker has what it closes.                                             *)
LEMMA TlsThere ==
  ASSUME NEW w, w.tls => "tls" \in w.held
  PROVE  TlsTouched(w) = {}
BY DEF TlsTouched, TouchTls

------------------------------------------------------------------------------
(* Requests and the jobs that were started for them.                        *)

(* Two jobs are more than one.                                              *)
LEMMA TwoJobs ==
  ASSUME NEW S \in SUBSET HttpJobs, NEW i \in S, NEW j \in S, i # j
  PROVE  Cardinality(S) > 1
<1>1. IsFiniteSet(S)
  BY HttpAssumption, FS_Subset
<1>2. Cardinality(S) \in Nat
  BY <1>1, FS_CardinalityType
<1>3. Cardinality(S) # 0
  BY <1>1, FS_EmptySet
<1>4. Cardinality(S) # 1
  BY <1>1, FS_Singleton
<1> QED BY <1>2, <1>3, <1>4

(* More jobs of a request are not fewer.                                    *)
LEMMA MoreJobs ==
  ASSUME NEW S \in SUBSET HttpJobs, NEW T \in SUBSET HttpJobs, S \subseteq T,
         Cardinality(S) > 1
  PROVE  Cardinality(T) > 1
<1>1. IsFiniteSet(S) /\ IsFiniteSet(T)
  BY HttpAssumption, FS_Subset
<1>2. Cardinality(S) <= Cardinality(T)
  BY <1>1, FS_Subset
<1>3. Cardinality(S) \in Nat /\ Cardinality(T) \in Nat
  BY <1>1, FS_CardinalityType
<1> QED BY <1>2, <1>3

(* A job that was pushed and not cleaned up finds its request, or the       *)
(* request has another job.                                                 *)
LEMMA TouchesLive ==
  ASSUME HttpInv, NEW j \in HttpJobs, httpPhase[j] \notin {"new", "reclaimed"}
  PROVE  /\ owner[j] \in Requests
         /\ Touch(owner[j]) # {} => Cardinality(Started(owner[j])) > 1
         /\ Touch(owner[j]) \subseteq {"request"}
<1>1. owner[j] \in Requests /\ j \in Started(owner[j])
  BY DEF HttpInv, HttpTypeOK, JobOK, Started
<1>2. ASSUME Touch(owner[j]) # {}
      PROVE  Cardinality(Started(owner[j])) > 1
  <2>1. object[owner[j]] # "live" /\ object[owner[j]] # "unused"
    BY <1>1, <1>2 DEF HttpInv, RequestOK, Touch
  <2>2. PICK i \in Started(owner[j]) : httpPhase[i] = "reclaimed"
    BY <1>1, <2>1 DEF HttpInv, RequestOK
  <2>3. i # j
    BY <2>2
  <2>4. Started(owner[j]) \in SUBSET HttpJobs
    BY DEF Started
  <2> QED BY <1>1, <2>2, <2>3, <2>4, TwoJobs
<1>3. Touch(owner[j]) \subseteq {"request"}
  BY DEF Touch
<1> QED BY <1>1, <1>2, <1>3
------------------------------------------------------------------------------
(* A step of a worker.                                                      *)

(* Only the locals of one worker change, to ones that are in order; it      *)
(* touched what is there, or a request with two jobs, or it was redirected  *)
(* to TLS.                                                                  *)
LEMMA LocalsStep ==
  ASSUME HttpInv, NEW j \in HttpJobs, httpPhase[j] \notin {"new", "reclaimed"},
         NEW v \in Locals, WorkerOK(v), work[j].raised => v.raised,
         NEW touched, touched \subseteq Touch(owner[j]) \cup {"session"},
         "session" \in touched => v.raised,
         Go(j, v, touched), owner' = owner
  PROVE  /\ misuse' \subseteq Accesses
         /\ work' \in [HttpJobs -> Locals]
         /\ \A i \in HttpJobs : work'[i] = IF i = j THEN v ELSE work[i]
         /\ \A i \in HttpJobs : WorkerOK(work'[i])
         /\ HttpSafe'
<1>1. work \in [HttpJobs -> Locals] /\ misuse \subseteq Accesses
  BY DEF HttpInv, HttpTypeOK
<1>2. /\ owner[j] \in Requests
      /\ Touch(owner[j]) # {} => Cardinality(Started(owner[j])) > 1
      /\ Touch(owner[j]) \subseteq {"request"}
  BY TouchesLive
<1>3. misuse' \subseteq Accesses
  BY <1>1, <1>2 DEF Go, Accesses
<1>4. work' \in [HttpJobs -> Locals]
  BY <1>1 DEF Go
<1>5. \A i \in HttpJobs : work'[i] = IF i = j THEN v ELSE work[i]
  BY <1>1 DEF Go
<1>6. \A i \in HttpJobs : WorkerOK(work'[i])
  BY <1>5 DEF HttpInv
<1>7. ASSUME misuse' \cap {"request", "proxy"} # {}
      PROVE  \E r \in Requests : Cardinality(Started(r)') > 1
  <2>1. CASE misuse \cap {"request", "proxy"} # {}
    BY <2>1 DEF HttpInv, HttpSafe, Started
  <2>2. CASE misuse \cap {"request", "proxy"} = {}
    <3>1. touched \cap {"request", "proxy"} # {}
      BY <1>7, <2>2 DEF Go
    <3>2. Touch(owner[j]) # {}
      BY <3>1
    <3> QED BY <1>2, <3>2 DEF Started
  <2> QED BY <2>1, <2>2
<1>8. ASSUME "session" \in misuse'
      PROVE  \E i \in HttpJobs : work'[i].raised
  <2>1. CASE "session" \in misuse
    <3>1. PICK i \in HttpJobs : work[i].raised
      BY <2>1 DEF HttpInv, HttpSafe
    <3> QED BY <1>5, <3>1
  <2>2. CASE "session" \in touched
    BY <1>5, <2>2
  <2> QED BY <1>8, <2>1, <2>2 DEF Go
<1> QED BY <1>3, <1>4, <1>5, <1>6, <1>7, <1>8 DEF HttpSafe, Started

(* The worker goes on.                                                      *)
LEMMA ContinueKeeps ==
  ASSUME HttpInv, NEW j \in HttpJobs, httpPhase[j] = "running",
         NEW v \in Locals, WorkerOK(v), work[j].raised => v.raised,
         NEW touched, touched \subseteq Touch(owner[j]) \cup {"session"},
         "session" \in touched => v.raised,
         Continue(j, v, touched)
  PROVE  HttpInv'
<1>1. Go(j, v, touched) /\ UNCHANGED <<jobSide, luaSide>>
  BY DEF Continue
<1>2. UNCHANGED <<httpPhase, httpDoomed, httpClosing, owner, object, secure,
                  anchored, proxy, done>>
  BY <1>1 DEF jobSide, luaSide
<1>3. /\ misuse' \subseteq Accesses
      /\ work' \in [HttpJobs -> Locals]
      /\ \A i \in HttpJobs : work'[i] = IF i = j THEN v ELSE work[i]
      /\ \A i \in HttpJobs : WorkerOK(work'[i])
      /\ HttpSafe'
  BY <1>1, <1>2, LocalsStep
<1>4. HttpTypeOK'
  BY <1>2, <1>3 DEF HttpInv, HttpTypeOK, Jobs!STypeOK
<1>5. ASSUME NEW i \in HttpJobs
      PROVE  JobOK(i)'
  BY <1>2, <1>3 DEF HttpInv, JobOK
<1>6. ASSUME NEW r \in Requests
      PROVE  RequestOK(r)'
  BY <1>2 DEF HttpInv, RequestOK, Started
<1> QED BY <1>3, <1>4, <1>5, <1>6 DEF HttpInv

(* The worker's function returns, with everything closed.                   *)
LEMMA ReturnKeeps ==
  ASSUME HttpInv, NEW j \in HttpJobs, httpPhase[j] = "running",
         NEW v \in Locals, work[j].raised => v.raised,
         ~v.left => v.held = {} /\ ~v.spilled,
         NEW touched, touched \subseteq Touch(owner[j]),
         Return(j, v, touched)
  PROVE  HttpInv'
<1> DEFINE u == [v EXCEPT !.step = "out", !.result = @ /\ j \notin httpDoomed]
<1>1. /\ u \in Locals
      /\ u.step = "out" /\ u.held = v.held /\ u.spilled = v.spilled
      /\ u.left = v.left /\ u.raised = v.raised
  BY DEF Locals, Steps
<1>2. WorkerOK(u)
  BY <1>1 DEF WorkerOK, Tidy, Needs
<1>3. /\ Go(j, u, touched) /\ UNCHANGED <<owner, luaSide>>
      /\ IF j \in httpDoomed THEN Jobs!Drop(j) ELSE Jobs!FinishJob(j)
  BY DEF Return
<1>4. UNCHANGED <<owner, object, secure, anchored, proxy, done>>
  BY <1>3 DEF luaSide
<1>5. "session" \notin touched
  BY TouchesLive
<1> HIDE DEF u
<1>6. /\ misuse' \subseteq Accesses
      /\ work' \in [HttpJobs -> Locals]
      /\ \A i \in HttpJobs : work'[i] = IF i = j THEN u ELSE work[i]
      /\ \A i \in HttpJobs : WorkerOK(work'[i])
      /\ HttpSafe'
  BY <1>1, <1>2, <1>3, <1>4, <1>5, LocalsStep
<1>7. PICK p \in {"finished", "dropped"} : httpPhase' = [httpPhase EXCEPT ![j] = p]
  BY <1>3 DEF Jobs!Drop, Jobs!FinishJob, Jobs!Move
<1>8. Jobs!STypeOK'
  BY <1>3, <1>7 DEF HttpInv, HttpTypeOK, Jobs!STypeOK, Jobs!Drop, Jobs!FinishJob,
                    Jobs!Phases
<1>9. HttpTypeOK'
  BY <1>4, <1>6, <1>8 DEF HttpInv, HttpTypeOK
<1>10. \A i \in HttpJobs : httpPhase'[i] = IF i = j THEN p ELSE httpPhase[i]
  BY <1>7 DEF HttpInv, HttpTypeOK, Jobs!STypeOK
<1>11. ASSUME NEW i \in HttpJobs
       PROVE  JobOK(i)'
  BY <1>1, <1>4, <1>6, <1>10 DEF HttpInv, JobOK
<1>12. ASSUME NEW r \in Requests
       PROVE  RequestOK(r)'
  <2>1. Started(r)' = Started(r) /\ Started(r) \subseteq HttpJobs
    BY <1>4 DEF Started
  <2>2. \A i \in Started(r) : httpPhase'[i] = "reclaimed" <=> httpPhase[i] = "reclaimed"
    BY <1>10, <2>1
  <2> QED BY <1>4, <2>1, <2>2 DEF HttpInv, RequestOK
<1> QED BY <1>6, <1>9, <1>11, <1>12 DEF HttpInv
(* The worker gives up: it closes what it may hold.                         *)
LEMMA GiveUpKeeps ==
  ASSUME HttpInv, NEW j \in HttpJobs, httpPhase[j] = "running",
         NEW w \in Locals, work[j].raised => w.raised,
         w.tls => "tls" \in w.held,
         ~w.left => ~w.spilled /\ (w.tls \/ "tls" \notin w.held),
         NEW touched, touched \subseteq Touch(owner[j]),
         GiveUp(j, w, touched)
  PROVE  HttpInv'
<1> DEFINE v == Release(CloseTls(w), {"addrs", "socket", "raw", "headers", "body"})
<1>1. v \in Locals
  BY DEF Release, CloseTls, Locals
<1>2. /\ v.raised = w.raised /\ v.left = w.left /\ v.spilled = w.spilled
      /\ v.held = w.held \ ({"addrs", "socket", "raw", "headers", "body"}
                              \cup (IF w.tls THEN {"tls"} ELSE {}))
  BY DEF Release, CloseTls, Locals
<1>3. w.held \subseteq {"addrs", "socket", "tls", "headers", "raw", "body"}
  BY LocalsFields DEF Resources
<1>4. ~v.left => v.held = {} /\ ~v.spilled
  BY <1>2, <1>3
<1>5. touched \cup TlsTouched(w) \subseteq Touch(owner[j])
  BY TlsThere
<1>6. Return(j, v, touched \cup TlsTouched(w))
  BY DEF GiveUp
<1> HIDE DEF v
<1> QED BY <1>1, <1>2, <1>4, <1>5, <1>6, ReturnKeeps

(* What is true of a running worker.                                        *)
LEMMA RunningWorker ==
  ASSUME HttpInv, NEW j \in HttpJobs, NEW step, At(j, step)
  PROVE  /\ httpPhase[j] = "running" /\ work[j].step = step
         /\ work[j] \in Locals /\ WorkerOK(work[j])
         /\ step \notin {"setup", "out"} =>
              (work[j].tls => "tls" \in work[j].held)
         /\ step \notin {"setup", "out"} /\ ~work[j].left =>
              ~work[j].spilled /\ (work[j].tls \/ "tls" \notin work[j].held)
<1>1. /\ httpPhase[j] = "running" /\ work[j].step = step
      /\ work[j] \in Locals /\ WorkerOK(work[j])
  BY DEF At, HttpInv, HttpTypeOK
<1>2. "tls" \notin {"body"} /\ "tls" \notin {"socket"}
  OBVIOUS
<1>3. ASSUME step \notin {"setup", "out"}, ~work[j].left, ~work[j].tls
      PROVE  "tls" \notin Needs(work[j])
  BY <1>1, <1>3 DEF Needs, WorkerOK
<1> QED BY <1>1, <1>3 DEF WorkerOK, Tidy

LEMMA SetupKeeps ==
  ASSUME HttpInv, NEW j \in HttpJobs, Setup(j)
  PROVE  HttpInv'
<1> DEFINE w == work[j]
           up == Acquire(w, {"tls"})
<1>1. At(j, "setup")
  BY DEF Setup
<1>2. httpPhase[j] = "running" /\ w.step = "setup" /\ w \in Locals /\ WorkerOK(w)
  BY <1>1, RunningWorker
<1>3. ~w.left => w.held = {} /\ ~w.spilled
  BY <1>2 DEF WorkerOK, Tidy, Needs
<1>4. CASE w.tls
  <2>1. /\ up \in Locals
        /\ up.tls /\ up.held = w.held \cup {"tls"} /\ up.left = w.left
        /\ up.raised = w.raised /\ (~up.left => ~up.spilled)
    BY <1>2, <1>3, <1>4 DEF Acquire, Locals, Resources
  <2>2. CASE Continue(j, To(up, "handshake"), {})
    <3> DEFINE v == To(up, "handshake")
    <3>1. /\ v \in Locals /\ v.step = "handshake" /\ v.tls /\ v.held = up.held
          /\ v.left = up.left /\ v.raised = up.raised /\ v.spilled = up.spilled
      BY <2>1 DEF To, Locals, Steps
    <3>2. ~v.left => Tidy(v)
      BY <1>3, <2>1, <3>1 DEF Tidy, Needs
    <3>3. WorkerOK(v)
      BY <2>1, <3>1, <3>2 DEF WorkerOK
    <3> HIDE DEF v
    <3> QED BY <1>2, <2>1, <2>2, <3>1, <3>3, ContinueKeeps DEF v
  <2>3. CASE GiveUp(j, up, {})
    <3> HIDE DEF up
    <3> QED BY <1>2, <2>1, <2>3, GiveUpKeeps
  <2> QED BY <1>4, <2>2, <2>3 DEF Setup
<1>5. CASE ~w.tls
  <2> DEFINE v == To(w, "lookup")
  <2>1. /\ v \in Locals /\ v.step = "lookup" /\ ~v.tls /\ v.held = w.held
        /\ v.left = w.left /\ v.raised = w.raised /\ v.spilled = w.spilled
    BY <1>2, <1>5 DEF To, Locals, Steps
  <2>2. WorkerOK(v)
    BY <1>3, <2>1 DEF WorkerOK, Tidy, Needs
  <2>3. Continue(j, v, {})
    BY <1>5 DEF Setup
  <2> HIDE DEF v
  <2> QED BY <1>2, <2>1, <2>2, <2>3, ContinueKeeps
<1> QED BY <1>4, <1>5

LEMMA HandshakeKeeps ==
  ASSUME HttpInv, NEW j \in HttpJobs, Handshake(j)
  PROVE  HttpInv'
<1> DEFINE w == work[j]
           v == To(w, "send")
<1>1. At(j, "handshake")
  BY DEF Handshake
<1>2. /\ httpPhase[j] = "running" /\ w.step = "handshake" /\ w \in Locals
      /\ WorkerOK(w) /\ w.tls /\ "tls" \in w.held
      /\ (~w.left => ~w.spilled)
  BY <1>1, RunningWorker DEF WorkerOK
<1>3. CASE Continue(j, v, Touch(owner[j]))
  <2>1. /\ v \in Locals /\ v.step = "send" /\ v.tls /\ v.held = w.held
        /\ v.left = w.left /\ v.raised = w.raised /\ v.spilled = w.spilled
    BY <1>2 DEF To, Locals, Steps
  <2>2. WorkerOK(v)
    BY <1>2, <2>1 DEF WorkerOK, Tidy, Needs
  <2>3. Touch(owner[j]) \subseteq {"request"}
    BY <1>2, TouchesLive
  <2> HIDE DEF v
  <2> QED BY <1>2, <1>3, <2>1, <2>2, <2>3, ContinueKeeps
<1>4. CASE GiveUp(j, w, Touch(owner[j]))
  BY <1>2, <1>4, GiveUpKeeps
<1> QED BY <1>3, <1>4 DEF Handshake

LEMMA LookupKeeps ==
  ASSUME HttpInv, NEW j \in HttpJobs, Lookup(j)
  PROVE  HttpInv'
<1> DEFINE w == work[j]
<1>1. At(j, "lookup")
  BY DEF Lookup
<1>2. /\ httpPhase[j] = "running" /\ w.step = "lookup" /\ w \in Locals
      /\ WorkerOK(w) /\ ~w.tls
      /\ (~w.left => ~w.spilled /\ "tls" \notin w.held)
  BY <1>1, RunningWorker DEF WorkerOK
<1>3. ~w.left => w.held = {}
  BY <1>2 DEF WorkerOK, Tidy, Needs
<1>4. ASSUME NEW n \in 1..MaxAddrs,
             Continue(j, To([Acquire(w, {"addrs"}) EXCEPT !.addrs = n], "connect"), {})
      PROVE  HttpInv'
  <2> DEFINE v == To([Acquire(w, {"addrs"}) EXCEPT !.addrs = n], "connect")
  <2>0. n \in 0..MaxAddrs
    BY HttpAssumption
  <2>1. /\ v \in Locals /\ v.step = "connect" /\ ~v.tls
        /\ v.held = w.held \cup {"addrs"}
        /\ v.left = w.left /\ v.raised = w.raised
        /\ (~v.left => ~v.spilled)
    BY <1>2, <1>3, <2>0 DEF To, Acquire, Locals, Steps, Resources
  <2>2. WorkerOK(v)
    BY <1>3, <2>1 DEF WorkerOK, Tidy, Needs
  <2> HIDE DEF v
  <2>3. Continue(j, v, {})
    BY <1>4 DEF v
  <2> QED BY <1>2, <2>1, <2>2, <2>3, ContinueKeeps
<1>5. CASE GiveUp(j, w, {})
  BY <1>2, <1>5, GiveUpKeeps
<1> QED BY <1>4, <1>5 DEF Lookup
LEMMA ConnectKeeps ==
  ASSUME HttpInv, NEW j \in HttpJobs, Connect(j)
  PROVE  HttpInv'
<1> DEFINE w == work[j]
           open == Acquire(w, {"socket"})
<1>1. At(j, "connect")
  BY DEF Connect
<1>2. /\ httpPhase[j] = "running" /\ w.step = "connect" /\ w \in Locals
      /\ WorkerOK(w) /\ ~w.tls
  BY <1>1, RunningWorker DEF WorkerOK
<1>3. ~w.left => w.held = {"addrs"} /\ ~w.spilled
  BY <1>2 DEF WorkerOK, Tidy, Needs
<1>4. CASE GiveUp(j, Release(w, {"addrs"}), {})
  <2> DEFINE v == Release(w, {"addrs"})
  <2>1. /\ v \in Locals /\ ~v.tls /\ v.held \subseteq w.held /\ v.left = w.left
        /\ v.raised = w.raised /\ v.spilled = w.spilled
    BY <1>2 DEF Release, Locals
  <2>2. ~v.left => ~v.spilled /\ "tls" \notin v.held
    BY <1>3, <2>1
  <2> HIDE DEF v
  <2>3. GiveUp(j, v, {})
    BY <1>4 DEF v
  <2> QED BY <1>2, <2>1, <2>2, <2>3, GiveUpKeeps
<1>5. CASE Continue(j, To(Release(open, {"addrs"}), "send"), {})
  <2> DEFINE v == To(Release(open, {"addrs"}), "send")
  <2>1. /\ v \in Locals /\ v.step = "send" /\ ~v.tls
        /\ v.held = (w.held \cup {"socket"}) \ {"addrs"} /\ v.left = w.left
        /\ v.raised = w.raised /\ (~v.left => ~v.spilled)
    BY <1>2, <1>3 DEF To, Release, Acquire, Locals, Steps, Resources
  <2>2. WorkerOK(v)
    BY <1>3, <2>1 DEF WorkerOK, Tidy, Needs
  <2> HIDE DEF v
  <2>3. Continue(j, v, {})
    BY <1>5 DEF v
  <2> QED BY <1>2, <2>1, <2>2, <2>3, ContinueKeeps
<1>6. CASE w.addrs > 0 /\ Continue(j, To(open, "await"), {})
  <2> DEFINE v == To(open, "await")
  <2>1. /\ v \in Locals /\ v.step = "await" /\ ~v.tls /\ v.addrs = w.addrs
        /\ v.held = w.held \cup {"socket"} /\ v.left = w.left
        /\ v.raised = w.raised /\ (~v.left => ~v.spilled)
    BY <1>2, <1>3 DEF To, Acquire, Locals, Steps, Resources
  <2>2. WorkerOK(v)
    BY <1>3, <1>6, <2>1 DEF WorkerOK, Tidy, Needs
  <2> HIDE DEF v
  <2>3. Continue(j, v, {})
    BY <1>6 DEF v
  <2> QED BY <1>2, <2>1, <2>2, <2>3, ContinueKeeps
<1>7. CASE w.addrs > 0 /\ Continue(j, NextAddress(w), {})
  <2> DEFINE v == NextAddress(w)
  <2>0. w.addrs - 1 \in 0..MaxAddrs
    BY <1>2, <1>7, LocalsFields, HttpAssumption
  <2>1. /\ v \in Locals /\ v.step = "connect" /\ ~v.tls /\ v.held = w.held
        /\ v.left = w.left /\ v.raised = w.raised /\ v.spilled = w.spilled
    BY <1>2, <2>0 DEF NextAddress, To, Locals, Steps
  <2>2. WorkerOK(v)
    BY <1>3, <2>1 DEF WorkerOK, Tidy, Needs
  <2> HIDE DEF v
  <2>3. Continue(j, v, {})
    BY <1>7 DEF v
  <2> QED BY <1>2, <2>1, <2>2, <2>3, ContinueKeeps
<1> QED BY <1>4, <1>5, <1>6, <1>7 DEF Connect

LEMMA AwaitKeeps ==
  ASSUME HttpInv, NEW j \in HttpJobs, Await(j)
  PROVE  HttpInv'
<1> DEFINE w == work[j]
<1>1. At(j, "await")
  BY DEF Await
<1>2. /\ httpPhase[j] = "running" /\ w.step = "await" /\ w \in Locals
      /\ WorkerOK(w) /\ ~w.tls /\ w.addrs > 0
  BY <1>1, RunningWorker DEF WorkerOK
<1>3. ~w.left => w.held = {"addrs", "socket"} /\ ~w.spilled
  BY <1>2 DEF WorkerOK, Tidy, Needs
<1>4. CASE Continue(j, To(Release(w, {"addrs"}), "send"), {})
  <2> DEFINE v == To(Release(w, {"addrs"}), "send")
  <2>1. /\ v \in Locals /\ v.step = "send" /\ ~v.tls /\ v.held = w.held \ {"addrs"}
        /\ v.left = w.left /\ v.raised = w.raised /\ v.spilled = w.spilled
    BY <1>2 DEF To, Release, Locals, Steps
  <2>2. WorkerOK(v)
    BY <1>3, <2>1 DEF WorkerOK, Tidy, Needs
  <2> HIDE DEF v
  <2>3. Continue(j, v, {})
    BY <1>4 DEF v
  <2> QED BY <1>2, <2>1, <2>2, <2>3, ContinueKeeps
<1>5. CASE Continue(j, NextAddress(Release(w, {"socket"})), {})
  <2> DEFINE v == NextAddress(Release(w, {"socket"}))
  <2>0. w.addrs - 1 \in 0..MaxAddrs
    BY <1>2, LocalsFields, HttpAssumption
  <2>1. /\ v \in Locals /\ v.step = "connect" /\ ~v.tls
        /\ v.held = w.held \ {"socket"}
        /\ v.left = w.left /\ v.raised = w.raised /\ v.spilled = w.spilled
    BY <1>2, <2>0 DEF NextAddress, To, Release, Locals, Steps
  <2>2. WorkerOK(v)
    BY <1>3, <2>1 DEF WorkerOK, Tidy, Needs
  <2> HIDE DEF v
  <2>3. Continue(j, v, {})
    BY <1>5 DEF v
  <2> QED BY <1>2, <2>1, <2>2, <2>3, ContinueKeeps
<1>6. CASE GiveUp(j, Release(w, {"socket", "addrs"}), Touch(owner[j]))
  <2> DEFINE v == Release(w, {"socket", "addrs"})
  <2>1. /\ v \in Locals /\ ~v.tls /\ v.held \subseteq w.held /\ v.left = w.left
        /\ v.raised = w.raised /\ v.spilled = w.spilled
    BY <1>2 DEF Release, Locals
  <2>2. ~v.left => ~v.spilled /\ "tls" \notin v.held
    BY <1>3, <2>1
  <2> HIDE DEF v
  <2>3. GiveUp(j, v, Touch(owner[j]))
    BY <1>6 DEF v
  <2> QED BY <1>2, <2>1, <2>2, <2>3, GiveUpKeeps
<1> QED BY <1>4, <1>5, <1>6 DEF Await

LEMMA SendKeeps ==
  ASSUME HttpInv, NEW j \in HttpJobs, Send(j)
  PROVE  HttpInv'
<1> DEFINE w == work[j]
           v == To(Acquire(w, {"raw"}), "receive")
<1>1. At(j, "send")
  BY DEF Send
<1>2. /\ httpPhase[j] = "running" /\ w.step = "send" /\ w \in Locals
      /\ WorkerOK(w) /\ (w.tls => "tls" \in w.held)
      /\ (~w.left => ~w.spilled /\ (w.tls \/ "tls" \notin w.held))
  BY <1>1, RunningWorker
<1>3. ~w.left => w.held = IF w.tls THEN {"tls"} ELSE {"socket"}
  BY <1>2 DEF WorkerOK, Tidy, Needs
<1>4. CASE Continue(j, v, {})
  <2>1. /\ v \in Locals /\ v.step = "receive" /\ v.tls = w.tls
        /\ v.held = w.held \cup {"raw"}
        /\ v.left = w.left /\ v.raised = w.raised /\ (~v.left => ~v.spilled)
    BY <1>2, <1>3 DEF To, Acquire, Locals, Steps, Resources
  <2>2. WorkerOK(v)
    BY <1>2, <1>3, <2>1 DEF WorkerOK, Tidy, Needs
  <2> HIDE DEF v
  <2> QED BY <1>2, <1>4, <2>1, <2>2, ContinueKeeps
<1>5. CASE GiveUp(j, w, {})
  BY <1>2, <1>5, GiveUpKeeps
<1> QED BY <1>4, <1>5 DEF Send

LEMMA ReceiveKeeps ==
  ASSUME HttpInv, NEW j \in HttpJobs, Receive(j)
  PROVE  HttpInv'
<1> DEFINE w == work[j]
           v == To(w, "parse")
<1>1. At(j, "receive")
  BY DEF Receive
<1>2. /\ httpPhase[j] = "running" /\ w.step = "receive" /\ w \in Locals
      /\ WorkerOK(w) /\ (w.tls => "tls" \in w.held)
      /\ (~w.left => ~w.spilled /\ (w.tls \/ "tls" \notin w.held))
  BY <1>1, RunningWorker
<1>3. CASE Continue(j, v, {})
  <2>1. /\ v \in Locals /\ v.step = "parse" /\ v.tls = w.tls /\ v.held = w.held
        /\ v.left = w.left /\ v.raised = w.raised /\ v.spilled = w.spilled
    BY <1>2 DEF To, Locals, Steps
  <2>2. WorkerOK(v)
    BY <1>2, <2>1 DEF WorkerOK, Tidy, Needs
  <2> HIDE DEF v
  <2> QED BY <1>2, <1>3, <2>1, <2>2, ContinueKeeps
<1>4. CASE GiveUp(j, w, Touch(owner[j]))
  BY <1>2, <1>4, GiveUpKeeps
<1> QED BY <1>3, <1>4 DEF Receive
(* What a redirect does to the locals.                                      *)
LEMMA RedirectLocals ==
  ASSUME NEW p \in Locals, p.hops + 1 \in 0..MaxHops, NEW tls \in BOOLEAN
  PROVE  LET v == RedirectTo(p, tls) IN
         /\ v \in Locals
         /\ v.step = IF tls THEN "setup" ELSE "lookup"
         /\ v.tls <=> tls
         /\ v.held = p.held \ {"headers", "raw", "socket", "addrs"}
         /\ v.left <=> p.left \/ p.tls
         /\ v.raised <=> p.raised \/ (~p.tls /\ tls)
         /\ v.spilled <=> p.spilled
<1> DEFINE q == Release(p, {"headers", "raw", "socket", "addrs"})
           m == [q EXCEPT !.step = IF tls THEN "setup" ELSE "lookup",
                          !.tls = tls,
                          !.left = @ \/ p.tls,
                          !.raised = @ \/ (~p.tls /\ tls)]
<1>1. /\ q \in Locals /\ q.hops = p.hops /\ q.left = p.left
      /\ q.raised = p.raised /\ q.spilled = p.spilled
      /\ q.held = p.held \ {"headers", "raw", "socket", "addrs"}
  BY DEF Release, Locals
<1>2. RedirectTo(p, tls) = [m EXCEPT !.hops = @ + 1]
  BY DEF RedirectTo, AddRedirectUrl
<1> HIDE DEF q
<1>3. (IF tls THEN "setup" ELSE "lookup") \in Steps
  BY DEF Steps
<1>4. p.tls \in BOOLEAN /\ q.left \in BOOLEAN /\ q.raised \in BOOLEAN
  BY <1>1, LocalsFields
<1>5. (q.left \/ p.tls) \in BOOLEAN /\ (q.raised \/ (~p.tls /\ tls)) \in BOOLEAN
  OBVIOUS
<1>6. m \in Locals
  <2> DEFINE s == IF tls THEN "setup" ELSE "lookup"
             l == q.left \/ p.tls
             u == q.raised \/ (~p.tls /\ tls)
  <2>1. s \in Steps /\ l \in BOOLEAN /\ u \in BOOLEAN /\ q \in Locals
    BY <1>1, <1>3, <1>5
  <2>2. m = [q EXCEPT !.step = s, !.tls = tls, !.left = l, !.raised = u]
    OBVIOUS
  <2> HIDE DEF s, l, u, m
  <2> QED BY <2>1, <2>2 DEF Locals
<1>7. /\ m.step = IF tls THEN "setup" ELSE "lookup"
      /\ m.tls <=> tls
      /\ m.held = q.held /\ m.hops = q.hops
      /\ m.left <=> q.left \/ p.tls
      /\ m.raised <=> q.raised \/ (~p.tls /\ tls)
      /\ m.spilled = q.spilled
  BY <1>1 DEF Locals
<1> HIDE DEF m
<1>8. m.hops + 1 \in 0..MaxHops
  BY <1>1, <1>7
<1>9. LET v == [m EXCEPT !.hops = @ + 1] IN
      /\ v \in Locals /\ v.step = m.step /\ v.tls = m.tls /\ v.held = m.held
      /\ v.left = m.left /\ v.raised = m.raised /\ v.spilled = m.spilled
  BY <1>6, <1>8 DEF Locals
<1> QED BY <1>1, <1>2, <1>7, <1>9

LEMMA ParseKeeps ==
  ASSUME HttpInv, NEW j \in HttpJobs, Parse(j)
  PROVE  HttpInv'
<1> DEFINE w == work[j]
           parsed == Parsed(w)
<1>1. At(j, "parse")
  BY DEF Parse
<1>2. /\ httpPhase[j] = "running" /\ w.step = "parse" /\ w \in Locals
      /\ WorkerOK(w) /\ (w.tls => "tls" \in w.held)
      /\ (~w.left => ~w.spilled /\ (w.tls \/ "tls" \notin w.held))
  BY <1>1, RunningWorker
<1>3. ~w.left => w.held = IF w.tls THEN {"tls", "raw"} ELSE {"socket", "raw"}
  BY <1>2 DEF WorkerOK, Tidy, Needs
<1>4. /\ parsed \in Locals /\ parsed.held = w.held \cup {"headers"}
      /\ parsed.tls = w.tls /\ parsed.hops = w.hops /\ parsed.left = w.left
      /\ parsed.raised = w.raised /\ (~w.left => ~parsed.spilled)
  BY <1>2, <1>3 DEF Parsed, Acquire, Locals, Resources
<1> HIDE DEF parsed
<1>5. CASE GiveUp(j, w, {})
  BY <1>2, <1>5, GiveUpKeeps
<1>6. ASSUME ShouldFollowRedirect(w), NEW tls \in BOOLEAN,
             Continue(j, RedirectTo(parsed, tls), IF tls THEN TouchTls(w) ELSE {})
      PROVE  HttpInv'
  <2> DEFINE v == RedirectTo(parsed, tls)
             touched == IF tls THEN TouchTls(w) ELSE {}
  <2>1. parsed.hops + 1 \in 0..MaxHops
    BY <1>2, <1>4, <1>6, LocalsFields, HttpAssumption DEF ShouldFollowRedirect
  <2>2. /\ v \in Locals
        /\ v.step = IF tls THEN "setup" ELSE "lookup"
        /\ v.tls <=> tls
        /\ v.held = (w.held \cup {"headers"}) \ {"headers", "raw", "socket", "addrs"}
        /\ v.left <=> w.left \/ w.tls
        /\ v.raised <=> w.raised \/ (~w.tls /\ tls)
        /\ v.spilled <=> parsed.spilled
    BY <1>4, <1>6, <2>1, RedirectLocals
  <2>3. ~v.left => v.held = {} /\ ~v.spilled
    BY <1>3, <1>4, <2>2
  <2>4. WorkerOK(v)
    BY <2>2, <2>3 DEF WorkerOK, Tidy, Needs
  <2>5. touched \subseteq {"session"} /\ ("session" \in touched => v.raised)
    BY <1>2, <2>2 DEF TouchTls
  <2> HIDE DEF v, touched
  <2>6. Continue(j, v, touched)
    BY <1>6 DEF v, touched
  <2> QED BY <1>2, <2>2, <2>4, <2>5, <2>6, ContinueKeeps
<1>7. CASE Continue(j, To(Acquire(parsed, {"body"}), "finish"), {})
  <2> DEFINE v == To(Acquire(parsed, {"body"}), "finish")
  <2>1. /\ v \in Locals /\ v.step = "finish" /\ v.tls = w.tls
        /\ v.held = w.held \cup {"headers", "body"}
        /\ v.left = w.left /\ v.raised = w.raised /\ (~v.left => ~v.spilled)
    BY <1>3, <1>4 DEF To, Acquire, Locals, Steps, Resources
  <2>2. WorkerOK(v)
    BY <1>2, <1>3, <2>1 DEF WorkerOK, Tidy, Needs
  <2> HIDE DEF v
  <2>3. Continue(j, v, {})
    BY <1>7 DEF v
  <2> QED BY <1>2, <2>1, <2>2, <2>3, ContinueKeeps
<1>8. CASE Continue(j, To(parsed, "finish"), {})
  <2> DEFINE v == To(parsed, "finish")
  <2>1. /\ v \in Locals /\ v.step = "finish" /\ v.tls = w.tls
        /\ v.held = w.held \cup {"headers"}
        /\ v.left = w.left /\ v.raised = w.raised /\ (~v.left => ~v.spilled)
    BY <1>3, <1>4 DEF To, Locals, Steps
  <2>2. WorkerOK(v)
    BY <1>2, <1>3, <2>1 DEF WorkerOK, Tidy, Needs
  <2> HIDE DEF v
  <2>3. Continue(j, v, {})
    BY <1>8 DEF v
  <2> QED BY <1>2, <2>1, <2>2, <2>3, ContinueKeeps
<1>9. w.tls \in BOOLEAN
  BY <1>2, LocalsFields
<1>10. \A location \in Locations : SchemeAt(location, w.tls) \in BOOLEAN
  BY <1>9 DEF Locations, SchemeAt
<1>11. CASE ShouldFollowRedirect(w) /\ \E location \in Locations :
              LET tls == SchemeAt(location, w.tls) IN
                Continue(j, RedirectTo(parsed, tls), IF tls THEN TouchTls(w) ELSE {})
  <2>1. PICK location \in Locations :
          Continue(j, RedirectTo(parsed, SchemeAt(location, w.tls)),
                   IF SchemeAt(location, w.tls) THEN TouchTls(w) ELSE {})
    BY <1>11
  <2> QED BY <1>6, <1>10, <1>11, <2>1
<1> QED BY <1>5, <1>7, <1>8, <1>11 DEF Parse, parsed

LEMMA FinishKeeps ==
  ASSUME HttpInv, NEW j \in HttpJobs, Finish(j)
  PROVE  HttpInv'
<1> DEFINE w == work[j]
           v == [Release(CloseTls(w), {"headers", "raw", "body", "addrs", "socket"})
                   EXCEPT !.result = TRUE]
<1>1. At(j, "finish")
  BY DEF Finish
<1>2. /\ httpPhase[j] = "running" /\ w \in Locals
      /\ (w.tls => "tls" \in w.held)
      /\ (~w.left => ~w.spilled /\ (w.tls \/ "tls" \notin w.held))
  BY <1>1, RunningWorker
<1>3. v \in Locals
  BY <1>2 DEF Release, CloseTls, Locals
<1>4. /\ v.raised = w.raised /\ v.left = w.left /\ v.spilled = w.spilled
      /\ v.held = w.held \ ({"addrs", "socket", "raw", "headers", "body"}
                              \cup (IF w.tls THEN {"tls"} ELSE {}))
  BY <1>2 DEF Release, CloseTls, Locals
<1>5. w.held \subseteq {"addrs", "socket", "tls", "headers", "raw", "body"}
  BY <1>2, LocalsFields DEF Resources
<1>6. ~v.left => v.held = {} /\ ~v.spilled
  BY <1>2, <1>4, <1>5
<1>7. TlsTouched(w) = {}
  BY <1>2, TlsThere
<1>8. Return(j, v, {})
  BY <1>7 DEF Finish
<1> HIDE DEF v
<1> QED BY <1>2, <1>3, <1>4, <1>6, <1>8, ReturnKeeps

(* A worker takes the job.                                                  *)
LEMMA BeginKeeps ==
  ASSUME HttpInv, NEW j \in HttpJobs, Begin(j)
  PROVE  HttpInv'
<1> DEFINE v == AddRedirectUrl([NoLocals EXCEPT !.step = "setup",
                                                !.tls = secure[owner[j]]])
<1>1. /\ httpPhase[j] = "queued" /\ httpPhase' = [httpPhase EXCEPT ![j] = "running"]
      /\ UNCHANGED <<httpDoomed, httpClosing, owner, object, secure, anchored,
                     proxy, done>>
      /\ Go(j, v, Touch(owner[j]))
  BY DEF Begin, Jobs!Start, Jobs!Move, luaSide
<1>2. owner[j] \in Requests /\ Touch(owner[j]) \subseteq {"request"}
  BY <1>1, TouchesLive
<1>3. secure[owner[j]] \in BOOLEAN
  BY <1>2 DEF HttpInv, HttpTypeOK
<1>4. 1 \in 0..MaxHops
  BY HttpAssumption
<1>5. /\ v \in Locals /\ v.step = "setup" /\ v.held = {} /\ ~v.spilled
  <2> DEFINE m == [NoLocals EXCEPT !.step = "setup", !.tls = secure[owner[j]]]
  <2>1. /\ m \in Locals /\ m.step = "setup" /\ m.held = {} /\ ~m.spilled
        /\ m.hops = 0
    BY <1>3, NoLocalsOK DEF NoLocals, Locals, Steps
  <2>2. v = [m EXCEPT !.hops = @ + 1]
    BY DEF AddRedirectUrl
  <2> HIDE DEF v, m
  <2>3. m.hops + 1 = 1
    BY <2>1
  <2> QED BY <1>4, <2>1, <2>2, <2>3 DEF Locals
<1>6. WorkerOK(v)
  BY <1>5 DEF WorkerOK, Tidy, Needs
<1>7. work[j] = NoLocals
  BY <1>1 DEF HttpInv, JobOK
<1>8. ~work[j].raised
  BY <1>7 DEF NoLocals
<1> HIDE DEF v
<1>9. /\ misuse' \subseteq Accesses
      /\ work' \in [HttpJobs -> Locals]
      /\ \A i \in HttpJobs : work'[i] = IF i = j THEN v ELSE work[i]
      /\ \A i \in HttpJobs : WorkerOK(work'[i])
      /\ HttpSafe'
  BY <1>1, <1>2, <1>5, <1>6, <1>8, LocalsStep
<1>10. Jobs!STypeOK'
  BY <1>1 DEF HttpInv, HttpTypeOK, Jobs!STypeOK, Jobs!Phases
<1>11. HttpTypeOK'
  BY <1>1, <1>9, <1>10 DEF HttpInv, HttpTypeOK
<1>12. \A i \in HttpJobs : httpPhase'[i] = IF i = j THEN "running" ELSE httpPhase[i]
  BY <1>1 DEF HttpInv, HttpTypeOK, Jobs!STypeOK
<1>13. ASSUME NEW i \in HttpJobs
       PROVE  JobOK(i)'
  BY <1>1, <1>9, <1>12 DEF HttpInv, JobOK
<1>14. ASSUME NEW r \in Requests
       PROVE  RequestOK(r)'
  <2>1. Started(r)' = Started(r) /\ Started(r) \subseteq HttpJobs
    BY <1>1 DEF Started
  <2>2. \A i \in Started(r) : httpPhase'[i] = "reclaimed" <=> httpPhase[i] = "reclaimed"
    BY <1>1, <1>12, <2>1
  <2> QED BY <1>1, <2>1, <2>2 DEF HttpInv, RequestOK
<1> QED BY <1>9, <1>11, <1>13, <1>14 DEF HttpInv
LEMMA WorkerStepKeeps ==
  ASSUME HttpInv, NEW j \in HttpJobs, WorkerStep(j)
  PROVE  HttpInv'
BY SetupKeeps, HandshakeKeeps, LookupKeeps, ConnectKeeps, AwaitKeeps, SendKeeps,
   ReceiveKeeps, ParseKeeps, FinishKeeps DEF WorkerStep

------------------------------------------------------------------------------
(* The main thread.                                                         *)

LEMMA NewRequestKeeps ==
  ASSUME HttpInv, NEW r \in Requests, NewRequest(r)
  PROVE  HttpInv'
<1>1. /\ object[r] = "unused"
      /\ object' = [object EXCEPT ![r] = "live"]
      /\ anchored' = [anchored EXCEPT ![r] = TRUE]
      /\ proxy' = [proxy EXCEPT ![r] = "held"]
      /\ UNCHANGED <<httpPhase, httpDoomed, httpClosing, owner, done, work, misuse>>
  BY DEF NewRequest, jobSide
<1>2. PICK s \in SchemeOf : secure' = [secure EXCEPT ![r] = s]
  BY DEF NewRequest
<1>3. HttpTypeOK'
  BY <1>1, <1>2 DEF HttpInv, HttpTypeOK, Jobs!STypeOK, SchemeOf
<1>4. \A j \in HttpJobs : JobOK(j)' /\ WorkerOK(work'[j])
  BY <1>1 DEF HttpInv, JobOK
<1>5. ASSUME NEW q \in Requests
      PROVE  RequestOK(q)'
  <2>1. Started(q)' = Started(q)
    BY <1>1 DEF Started
  <2>2. CASE q = r
    <3>1. Started(r) = {}
      BY <1>1 DEF HttpInv, RequestOK
    <3>2. object'[r] = "live" /\ anchored'[r] /\ proxy'[r] = "held"
      BY <1>1 DEF HttpInv, HttpTypeOK
    <3> QED BY <2>1, <2>2, <3>1, <3>2 DEF RequestOK
  <2>3. CASE q # r
    <3>1. object'[q] = object[q] /\ anchored'[q] = anchored[q] /\ proxy'[q] = proxy[q]
      BY <1>1, <2>3 DEF HttpInv, HttpTypeOK
    <3> QED BY <1>1, <2>1, <3>1 DEF HttpInv, RequestOK
  <2> QED BY <2>2, <2>3
<1>6. HttpSafe'
  BY <1>1 DEF HttpInv, HttpSafe, Started
<1> QED BY <1>3, <1>4, <1>5, <1>6 DEF HttpInv

LEMMA StartRequestKeeps ==
  ASSUME HttpInv, NEW r \in Requests, NEW j \in HttpJobs, StartRequest(r, j)
  PROVE  HttpInv'
<1>1. /\ proxy[r] = "held" /\ httpPhase[j] = "new"
      /\ httpPhase' = [httpPhase EXCEPT ![j] = "queued"]
      /\ owner' = [owner EXCEPT ![j] = r]
      /\ misuse' = IF anchored[r] THEN misuse ELSE misuse \cup {"proxy"}
      /\ UNCHANGED <<httpDoomed, httpClosing, object, secure, anchored, proxy, done, work>>
  BY DEF StartRequest, Jobs!Submit, Jobs!Move, luaSide
<1>2. HttpTypeOK'
  <2>1. Jobs!STypeOK'
    BY <1>1 DEF HttpInv, HttpTypeOK, Jobs!STypeOK, Jobs!Phases
  <2>2. owner' \in [HttpJobs -> Requests \cup {NoRequest}]
    BY <1>1 DEF HttpInv, HttpTypeOK
  <2>3. misuse' \subseteq Accesses
    BY <1>1 DEF HttpInv, HttpTypeOK, Accesses
  <2> QED BY <1>1, <2>1, <2>2, <2>3 DEF HttpInv, HttpTypeOK
<1>3. \A i \in HttpJobs : /\ httpPhase'[i] = IF i = j THEN "queued" ELSE httpPhase[i]
                          /\ owner'[i] = IF i = j THEN r ELSE owner[i]
  BY <1>1 DEF HttpInv, HttpTypeOK, Jobs!STypeOK
<1>4. \A i \in HttpJobs : WorkerOK(work'[i])
  BY <1>1 DEF HttpInv
<1>5. ASSUME NEW i \in HttpJobs
      PROVE  JobOK(i)'
  BY <1>1, <1>3, HttpAssumption DEF HttpInv, JobOK
<1>6. owner[j] = NoRequest
  BY <1>1 DEF HttpInv, JobOK
<1>7. Started(r)' = Started(r) \cup {j} /\ j \notin Started(r)
  BY <1>3, <1>6, HttpAssumption DEF Started
<1>8. \A q \in Requests : q # r => Started(q)' = Started(q)
  BY <1>3, <1>6, HttpAssumption DEF Started
<1>9. \A i \in HttpJobs : httpPhase'[i] = "reclaimed" <=> httpPhase[i] = "reclaimed"
  BY <1>1, <1>3
<1>10. \A q \in Requests : Started(q) \in SUBSET HttpJobs /\ Started(q)' \in SUBSET HttpJobs
  BY DEF Started
<1>11. object[r] # "unused"
  BY <1>1 DEF HttpInv, RequestOK
<1>12. ASSUME NEW q \in Requests
       PROVE  RequestOK(q)'
  <2>1. CASE q = r
    <3>1. anchored[r] => \A i \in Started(r)' : httpPhase'[i] # "reclaimed"
      BY <1>3, <1>7, <1>9, <1>10 DEF HttpInv, RequestOK
    <3>2. ~anchored[r] => \E i \in Started(r)' : httpPhase'[i] = "reclaimed"
      BY <1>7, <1>9, <1>10, <1>11 DEF HttpInv, RequestOK
    <3> QED BY <1>1, <1>11, <2>1, <3>1, <3>2 DEF HttpInv, RequestOK
  <2>2. CASE q # r
    BY <1>1, <1>8, <1>9, <1>10, <2>2 DEF HttpInv, RequestOK
  <2> QED BY <2>1, <2>2
<1>13. HttpSafe'
  <2>1. \A q \in Requests : Started(q) \subseteq Started(q)'
    BY <1>7, <1>8
  <2>2. \A q \in Requests : Cardinality(Started(q)) > 1 => Cardinality(Started(q)') > 1
    BY <1>10, <2>1, MoreJobs
  <2>3. ASSUME ~anchored[r]
        PROVE  Cardinality(Started(r)') > 1
    <3>1. PICK i \in Started(r) : httpPhase[i] = "reclaimed"
      BY <1>11, <2>3 DEF HttpInv, RequestOK
    <3>2. i \in Started(r)' /\ j \in Started(r)' /\ i # j
      BY <1>7, <3>1
    <3> QED BY <1>10, <3>2, TwoJobs
  <2>4. misuse' \cap {"request", "proxy"} # {}
           => \E q \in Requests : Cardinality(Started(q)') > 1
    BY <1>1, <2>2, <2>3 DEF HttpInv, HttpSafe
  <2>5. "session" \in misuse' => \E i \in HttpJobs : work'[i].raised
    BY <1>1 DEF HttpInv, HttpSafe
  <2> QED BY <2>4, <2>5 DEF HttpSafe, Started
<1> QED BY <1>2, <1>4, <1>5, <1>12, <1>13 DEF HttpInv

LEMMA DropProxyKeeps ==
  ASSUME HttpInv, NEW r \in Requests, DropProxy(r)
  PROVE  HttpInv'
<1>1. /\ proxy[r] = "held" /\ proxy' = [proxy EXCEPT ![r] = "dropped"]
      /\ UNCHANGED <<httpPhase, httpDoomed, httpClosing, owner, object, secure,
                     anchored, done, work, misuse>>
  BY DEF DropProxy, jobSide
<1>2. HttpTypeOK'
  BY <1>1 DEF HttpInv, HttpTypeOK, Jobs!STypeOK
<1>3. \A j \in HttpJobs : JobOK(j)' /\ WorkerOK(work'[j])
  BY <1>1 DEF HttpInv, JobOK
<1>4. ASSUME NEW q \in Requests
      PROVE  RequestOK(q)'
  <2>1. Started(q)' = Started(q)
    BY <1>1 DEF Started
  <2>2. proxy'[q] = IF q = r THEN "dropped" ELSE proxy[q]
    BY <1>1 DEF HttpInv, HttpTypeOK
  <2> QED BY <1>1, <2>1, <2>2 DEF HttpInv, RequestOK
<1>5. HttpSafe'
  BY <1>1 DEF HttpInv, HttpSafe, Started
<1> QED BY <1>2, <1>3, <1>4, <1>5 DEF HttpInv

LEMMA CollectKeeps ==
  ASSUME HttpInv, NEW r \in Requests, Collect(r)
  PROVE  HttpInv'
<1>1. /\ proxy[r] \in {"held", "dropped"}
      /\ ~anchored[r] \/ \A j \in HttpJobs : httpPhase[j] \in {"new", "reclaimed"}
      /\ proxy' = [proxy EXCEPT ![r] = "collected"]
      /\ object' = [object EXCEPT ![r] = IF ~anchored[r] THEN "freed" ELSE @]
      /\ UNCHANGED <<httpPhase, httpDoomed, httpClosing, owner, secure, anchored,
                     done, work, misuse>>
  BY DEF Collect, Freed, jobSide
<1>2. HttpTypeOK'
  BY <1>1 DEF HttpInv, HttpTypeOK, Jobs!STypeOK
<1>3. \A j \in HttpJobs : JobOK(j)' /\ WorkerOK(work'[j])
  BY <1>1 DEF HttpInv, JobOK
<1>4. ASSUME anchored[r]
      PROVE  Started(r) = {}
  <2>1. \A j \in Started(r) : j \in HttpJobs /\ owner[j] # NoRequest
    BY HttpAssumption DEF Started
  <2>2. \A j \in Started(r) : httpPhase[j] = "reclaimed"
    BY <1>1, <1>4, <2>1 DEF HttpInv, JobOK
  <2> QED BY <1>4, <2>2 DEF HttpInv, RequestOK
<1>5. object[r] # "unused"
  BY <1>1 DEF HttpInv, RequestOK
<1>6. ASSUME NEW q \in Requests
      PROVE  RequestOK(q)'
  <2>1. Started(q)' = Started(q)
    BY <1>1 DEF Started
  <2>2. CASE q = r
    <3>1. /\ proxy'[r] = "collected"
          /\ object'[r] = IF ~anchored[r] THEN "freed" ELSE object[r]
      BY <1>1 DEF HttpInv, HttpTypeOK
    <3> QED BY <1>1, <1>4, <1>5, <2>1, <2>2, <3>1 DEF HttpInv, RequestOK
  <2>3. CASE q # r
    <3>1. object'[q] = object[q] /\ proxy'[q] = proxy[q]
      BY <1>1, <2>3 DEF HttpInv, HttpTypeOK
    <3> QED BY <1>1, <2>1, <3>1 DEF HttpInv, RequestOK
  <2> QED BY <2>2, <2>3
<1>7. HttpSafe'
  BY <1>1 DEF HttpInv, HttpSafe, Started
<1> QED BY <1>2, <1>3, <1>6, <1>7 DEF HttpInv
(* A job that has ended moves on, with a callback or a cleanup that touches *)
(* its request.                                                             *)
LEMMA EndedTouches ==
  ASSUME HttpInv, NEW j \in HttpJobs, httpPhase[j] \notin {"new", "reclaimed"},
         owner' = owner, misuse' = misuse \/ misuse' = misuse \cup Touch(owner[j]),
         \A i \in HttpJobs : work'[i].raised = work[i].raised
  PROVE  misuse' \subseteq Accesses /\ HttpSafe'
<1>1. /\ owner[j] \in Requests
      /\ Touch(owner[j]) # {} => Cardinality(Started(owner[j])) > 1
      /\ Touch(owner[j]) \subseteq {"request"}
  BY TouchesLive
<1>2. misuse' \subseteq Accesses
  BY <1>1 DEF HttpInv, HttpTypeOK, Accesses
<1>3. \A r \in Requests : Started(r)' = Started(r)
  BY DEF Started
<1>4. misuse' \cap {"request", "proxy"} # {}
         => \E r \in Requests : Cardinality(Started(r)') > 1
  BY <1>1, <1>3 DEF HttpInv, HttpSafe
<1>5. "session" \in misuse' => "session" \in misuse
  BY <1>1
<1>6. "session" \in misuse' => \E i \in HttpJobs : work'[i].raised
  BY <1>5 DEF HttpInv, HttpSafe
<1> QED BY <1>2, <1>4, <1>6 DEF HttpSafe, Started

LEMMA HttpCallbackKeeps ==
  ASSUME HttpInv, NEW j \in HttpJobs, HttpCallback(j)
  PROVE  HttpInv'
<1>1. /\ httpPhase[j] = "finished"
      /\ httpPhase' = [httpPhase EXCEPT ![j] = "delivered"]
      /\ done' = [done EXCEPT ![owner[j]] = TRUE] \/ done' = done
      /\ misuse' = misuse \/ misuse' = misuse \cup Touch(owner[j])
      /\ UNCHANGED <<httpDoomed, httpClosing, owner, object, secure, anchored,
                     proxy, work>>
  BY DEF HttpCallback, Jobs!Deliver, Jobs!Move
<1>2. misuse' \subseteq Accesses /\ HttpSafe'
  BY <1>1, EndedTouches
<1>3. owner[j] \in Requests
  BY <1>1, TouchesLive
<1>4. HttpTypeOK'
  <2>1. Jobs!STypeOK'
    BY <1>1 DEF HttpInv, HttpTypeOK, Jobs!STypeOK, Jobs!Phases
  <2>2. done' \in [Requests -> BOOLEAN]
    BY <1>1, <1>3 DEF HttpInv, HttpTypeOK
  <2> QED BY <1>1, <1>2, <2>1, <2>2 DEF HttpInv, HttpTypeOK
<1>5. \A i \in HttpJobs : httpPhase'[i] = IF i = j THEN "delivered" ELSE httpPhase[i]
  BY <1>1 DEF HttpInv, HttpTypeOK, Jobs!STypeOK
<1>6. \A i \in HttpJobs : JobOK(i)' /\ WorkerOK(work'[i])
  BY <1>1, <1>5 DEF HttpInv, JobOK
<1>7. ASSUME NEW r \in Requests
      PROVE  RequestOK(r)'
  <2>1. Started(r)' = Started(r) /\ Started(r) \subseteq HttpJobs
    BY <1>1 DEF Started
  <2>2. \A i \in Started(r) : httpPhase'[i] = "reclaimed" <=> httpPhase[i] = "reclaimed"
    BY <1>1, <1>5, <2>1
  <2> QED BY <1>1, <2>1, <2>2 DEF HttpInv, RequestOK
<1> QED BY <1>2, <1>4, <1>6, <1>7 DEF HttpInv

LEMMA HttpCleanupKeeps ==
  ASSUME HttpInv, NEW j \in HttpJobs, HttpCleanup(j)
  PROVE  HttpInv'
<1> DEFINE u == [work[j] EXCEPT !.result = FALSE]
<1>1. /\ httpPhase[j] \in {"delivered", "dropped", "finished"}
      /\ httpPhase' = [httpPhase EXCEPT ![j] = "reclaimed"]
      /\ anchored' = [anchored EXCEPT ![owner[j]] = FALSE]
      /\ work' = [work EXCEPT ![j] = u]
      /\ misuse' = misuse \cup Touch(owner[j])
      /\ UNCHANGED <<httpDoomed, httpClosing, owner, object, secure, proxy, done>>
  BY DEF HttpCleanup, Jobs!Reclaim, Jobs!Move
<1>2. work[j] \in Locals /\ WorkerOK(work[j]) /\ work[j].step = "out"
  BY <1>1 DEF HttpInv, HttpTypeOK, JobOK
<1>3. /\ u \in Locals /\ ~u.result /\ u.step = "out" /\ u.held = work[j].held
      /\ u.left = work[j].left /\ u.spilled = work[j].spilled
      /\ u.raised = work[j].raised
  BY <1>2 DEF Locals
<1>4. WorkerOK(u)
  BY <1>2, <1>3 DEF WorkerOK, Tidy, Needs
<1> HIDE DEF u
<1>5. \A i \in HttpJobs : work'[i] = IF i = j THEN u ELSE work[i]
  BY <1>1 DEF HttpInv, HttpTypeOK
<1>6. misuse' \subseteq Accesses /\ HttpSafe'
  BY <1>1, <1>3, <1>5, EndedTouches
<1>7. owner[j] \in Requests
  BY <1>1, TouchesLive
<1>8. HttpTypeOK'
  <2>1. Jobs!STypeOK'
    BY <1>1 DEF HttpInv, HttpTypeOK, Jobs!STypeOK, Jobs!Phases
  <2>2. work' \in [HttpJobs -> Locals] /\ anchored' \in [Requests -> BOOLEAN]
    BY <1>1, <1>3, <1>7 DEF HttpInv, HttpTypeOK
  <2> QED BY <1>1, <1>6, <2>1, <2>2 DEF HttpInv, HttpTypeOK
<1>9. \A i \in HttpJobs : httpPhase'[i] = IF i = j THEN "reclaimed" ELSE httpPhase[i]
  BY <1>1 DEF HttpInv, HttpTypeOK, Jobs!STypeOK
<1>10. \A i \in HttpJobs : WorkerOK(work'[i])
  BY <1>4, <1>5 DEF HttpInv
<1>11. ASSUME NEW i \in HttpJobs
       PROVE  JobOK(i)'
  BY <1>1, <1>3, <1>5, <1>9 DEF HttpInv, JobOK
<1>12. ASSUME NEW r \in Requests
       PROVE  RequestOK(r)'
  <2>1. Started(r)' = Started(r) /\ Started(r) \subseteq HttpJobs
    BY <1>1 DEF Started
  <2>2. CASE r = owner[j]
    <3>1. j \in Started(r) /\ httpPhase'[j] = "reclaimed" /\ ~anchored'[r]
      BY <1>1, <1>7, <1>9, <2>2 DEF HttpInv, HttpTypeOK, Started
    <3>2. object[r] # "unused"
      BY <3>1 DEF HttpInv, RequestOK
    <3>3. proxy[r] = "collected" => object[r] = "freed"
      BY <3>1 DEF HttpInv, RequestOK
    <3> QED BY <1>1, <2>1, <3>1, <3>2, <3>3 DEF HttpInv, RequestOK
  <2>3. CASE r # owner[j]
    <3>1. anchored'[r] = anchored[r]
      BY <1>1, <2>3 DEF HttpInv, HttpTypeOK
    <3>2. \A i \in Started(r) : httpPhase'[i] = httpPhase[i]
      BY <1>9, <2>1, <2>3 DEF Started
    <3> QED BY <1>1, <2>1, <3>1, <3>2 DEF HttpInv, RequestOK
  <2> QED BY <2>2, <2>3
<1> QED BY <1>6, <1>8, <1>10, <1>11, <1>12 DEF HttpInv

LEMMA HttpCloseKeeps ==
  ASSUME HttpInv, HttpClose
  PROVE  HttpInv'
<1>1. /\ httpClosing' = TRUE
      /\ httpPhase' = [j \in HttpJobs |-> IF httpPhase[j] = "queued" THEN "dropped"
                                                                    ELSE httpPhase[j]]
      /\ httpDoomed' = httpDoomed
                         \cup {j \in HttpJobs : httpPhase[j] \in {"queued", "running"}}
      /\ UNCHANGED <<owner, object, secure, anchored, proxy, done, work, misuse>>
  BY DEF HttpClose, Jobs!Close, luaSide
<1>2. HttpTypeOK'
  <2>1. Jobs!STypeOK'
    BY <1>1 DEF HttpInv, HttpTypeOK, Jobs!STypeOK, Jobs!Phases
  <2> QED BY <1>1, <2>1 DEF HttpInv, HttpTypeOK
<1>3. \A j \in HttpJobs : JobOK(j)' /\ WorkerOK(work'[j])
  BY <1>1, NoLocalsOK DEF HttpInv, JobOK, NoLocals
<1>4. ASSUME NEW r \in Requests
      PROVE  RequestOK(r)'
  <2>1. Started(r)' = Started(r) /\ Started(r) \subseteq HttpJobs
    BY <1>1 DEF Started
  <2>2. \A i \in Started(r) : httpPhase'[i] = "reclaimed" <=> httpPhase[i] = "reclaimed"
    BY <1>1, <2>1
  <2> QED BY <1>1, <2>1, <2>2 DEF HttpInv, RequestOK
<1>5. HttpSafe'
  BY <1>1 DEF HttpInv, HttpSafe, Started
<1> QED BY <1>2, <1>3, <1>4, <1>5 DEF HttpInv

------------------------------------------------------------------------------
(* The invariant and what follows from it.                                  *)

LEMMA HttpInvInit == HttpInit => HttpInv
<1> SUFFICES ASSUME HttpInit PROVE HttpInv
  OBVIOUS
<1>1. HttpTypeOK
  BY NoLocalsOK DEF HttpInit, HttpTypeOK, Jobs!SInit, Jobs!STypeOK, Jobs!Phases, Accesses
<1>2. \A j \in HttpJobs : JobOK(j)
  BY DEF HttpInit, Jobs!SInit, JobOK, NoLocals
<1>3. \A j \in HttpJobs : WorkerOK(work[j])
  BY NoLocalsOK DEF HttpInit
<1>4. \A r \in Requests : RequestOK(r)
  BY HttpAssumption DEF HttpInit, RequestOK, Started
<1>5. HttpSafe
  BY DEF HttpInit, HttpSafe
<1> QED BY <1>1, <1>2, <1>3, <1>4, <1>5 DEF HttpInv

LEMMA HttpInvNext == HttpInv /\ [HttpNext]_httpVars => HttpInv'
<1> SUFFICES ASSUME HttpInv, [HttpNext]_httpVars PROVE HttpInv'
  OBVIOUS
<1>1. CASE UNCHANGED httpVars
  <2>1. HttpTypeOK' /\ HttpSafe'
    <3>1. HttpTypeOK'
      BY <1>1 DEF httpVars, HttpInv, HttpTypeOK, Jobs!STypeOK
    <3>2. HttpSafe'
      BY <1>1 DEF httpVars, HttpInv, HttpSafe, Started
    <3> QED BY <3>1, <3>2
  <2>2. \A j \in HttpJobs : JobOK(j)' /\ WorkerOK(work[j])'
    BY <1>1 DEF httpVars, HttpInv, JobOK
  <2>3. \A r \in Requests : RequestOK(r)'
    BY <1>1 DEF httpVars, HttpInv, RequestOK, Started
  <2> QED BY <2>1, <2>2, <2>3 DEF HttpInv
<1>2. CASE MainStep
  BY <1>2, NewRequestKeeps, DropProxyKeeps, CollectKeeps, StartRequestKeeps,
     HttpCallbackKeeps, HttpCleanupKeeps, HttpCloseKeeps DEF MainStep
<1>3. CASE \E j \in HttpJobs : Begin(j) \/ WorkerStep(j)
  BY <1>3, BeginKeeps, WorkerStepKeeps
<1> QED BY <1>1, <1>2, <1>3 DEF HttpNext

(* The invariant holds for any number of requests, jobs, redirects and      *)
(* addresses.                                                               *)
THEOREM HttpInvariance == HttpSpec => []HttpInv
<1>1. HttpInit => HttpInv
  BY HttpInvInit
<1>2. HttpInv /\ [HttpNext]_httpVars => HttpInv'
  BY HttpInvNext
<1> QED BY <1>1, <1>2, PTL DEF HttpSpec

(* The state of requests, jobs and workers (http.c) is well-typed.          *)
THEOREM HttpTypeCorrect == HttpSpec => []HttpTypeOK
<1>1. HttpInv => HttpTypeOK
  BY DEF HttpInv
<1> QED BY <1>1, HttpInvariance, PTL

(* A request that was started at most once is alive whenever its worker,    *)
(* its callback or its cleanup reads it, and TLS contexts are initialized   *)
(* before they are used, except by a redirect from a plain server.          *)
THEOREM RequestsAreSafe == HttpSpec => []HttpSafe
<1>1. HttpInv => HttpSafe
  BY DEF HttpInv
<1> QED BY <1>1, HttpInvariance, PTL

(* A worker that ends has closed and freed what it acquired, unless it was  *)
(* redirected away from a TLS server; no result outlives its cleanup; of    *)
(* the collected requests those that were never started stay behind.        *)
THEOREM WorkersCloseAll == HttpSpec => []HttpNothingLost
<1>1. HttpInv => HttpNothingLost
  <2> SUFFICES ASSUME HttpInv PROVE HttpNothingLost
    OBVIOUS
  <2>1. ASSUME NEW j \in HttpJobs, Ended(j), ~work[j].left
        PROVE  work[j].held = {} /\ ~work[j].spilled
    <3>1. work[j].step = "out" /\ Tidy(work[j])
      BY <2>1 DEF HttpInv, JobOK, WorkerOK, Ended
    <3> QED BY <3>1 DEF Tidy, Needs
  <2>2. \A j \in HttpJobs : httpPhase[j] = "reclaimed" => ~work[j].result
    BY DEF HttpInv, JobOK
  <2>3. ASSUME NEW r \in Requests, proxy[r] = "collected"
        PROVE  object[r] = "live" <=> Started(r) = {}
    BY <2>3 DEF HttpInv, RequestOK
  <2> QED BY <2>1, <2>2, <2>3 DEF HttpNothingLost
<1> QED BY <1>1, HttpInvariance, PTL
-----------------------------------------------------------------------------
(* The sound system: the inductive invariant.                               *)

(* A playlist's current track is in it, an empty one plays nothing, and     *)
(* what plays is the current track unless that was removed meanwhile.       *)
MusicOK(c) ==
  IF c.tracks = <<>> THEN c.current = 0 /\ c.pcm = NoTrack
  ELSE /\ c.current < Len(c.tracks)
       /\ c.pcm # NoTrack /\ ~c.cut => c.tracks[c.current + 1] = c.pcm

(* The callback mixes under the mutex only.  What the arrays list is there, *)
(* or went astray.                                                          *)
MixingOK ==
  /\ soundLock = "audio" <=> audio.at \in {"mixing", "lookup"}
  /\ soundLock = "audio" => audio.todo \subseteq mixable
  /\ \A p \in mixable : stage[p] \in {"added", "astray", "lost"}
  /\ \A m \in audio.seeks : /\ audio.at = "lookup" /\ m \in audio.todo
                            /\ stage[m] = "lost" \/ music[m].tracks # <<>>

(* A system that is shut down has no device and no callback.                *)
ShutDownOK == soundMain = "over" => ~device /\ audio.at = "idle"

SoundInv == /\ SoundTypeOK /\ MixingOK /\ ShutDownOK
            /\ \A m \in Musics : MusicOK(music[m])
            /\ soundFault \subseteq {"stray"}
------------------------------------------------------------------------------
(* Playlists.                                                               *)

(* A bounded sequence is a sequence with a bounded length.                  *)
LEMMA Playlists ==
  ASSUME NEW s
  PROVE  s \in BoundedSeq(Tracks, MaxTracks)
           <=> s \in Seq(Tracks) /\ Len(s) \in 0..MaxTracks
<1>1. MaxTracks \in Nat
  BY SoundAssumption
<1>2. ASSUME s \in BoundedSeq(Tracks, MaxTracks)
      PROVE  s \in Seq(Tracks) /\ Len(s) \in 0..MaxTracks
  <2>1. PICK n \in 0..MaxTracks : s \in [1..n -> Tracks]
    BY <1>2 DEF BoundedSeq, SeqOf
  <2>2. n \in Nat
    BY <1>1, <2>1
  <2> QED BY <2>1, <2>2
<1>3. ASSUME s \in Seq(Tracks), Len(s) \in 0..MaxTracks
      PROVE  s \in BoundedSeq(Tracks, MaxTracks)
  <2>1. s \in [1..Len(s) -> Tracks]
    BY <1>3
  <2> QED BY <1>3, <2>1 DEF BoundedSeq, SeqOf
<1> QED BY <1>2, <1>3

LEMMA MusicFields ==
  ASSUME NEW c \in MusicState
  PROVE  /\ c.tracks \in Seq(Tracks) /\ Len(c.tracks) \in 0..MaxTracks
         /\ Len(c.tracks) \in Nat
         /\ c.current \in 0..MaxTracks /\ c.current \in Nat
         /\ c.pcm \in Tracks \cup {NoTrack} /\ c.playing \in BOOLEAN
         /\ c.pos \in 0..Frames /\ c.cut \in BOOLEAN
<1>1. c.tracks \in BoundedSeq(Tracks, MaxTracks) /\ c.current \in 0..MaxTracks
  BY DEF MusicState
<1>2. c.current \in Nat
  BY <1>1
<1> QED BY <1>1, <1>2, Playlists DEF MusicState

LEMMA SmallNumbers ==
  /\ 0 \in 0..Frames /\ 1 \in 0..Frames /\ 0 \in 0..MaxTracks /\ 0 < Frames
  /\ Frames \in Nat /\ MaxTracks \in Nat
BY SoundAssumption

(* A rewound playlist is in order, the empty one as any other.              *)
LEMMA RewoundOK ==
  ASSUME NEW c \in MusicState
  PROVE  Rewound(c) \in MusicState /\ MusicOK(Rewound(c))
<1> DEFINE d == Rewound(c)
<1>1. /\ d \in MusicState /\ d.tracks = c.tracks /\ d.current = 0 /\ d.pcm = NoTrack
  BY SmallNumbers DEF Rewound, MusicState
<1>2. d.tracks # <<>> => 0 < Len(d.tracks)
  BY <1>1, MusicFields
<1> HIDE DEF d
<1> QED BY <1>1, <1>2 DEF MusicOK, d

(* The first place of a track in a playlist is one of its places.           *)
LEMMA FirstThere ==
  ASSUME NEW s \in Seq(Tracks), NEW t \in Range(s)
  PROVE  FirstOf(t, s) \in 1..Len(s) /\ s[FirstOf(t, s)] = t
<1> DEFINE K == {k \in 1..Len(s) : s[k] = t}
<1>1. K # {} /\ K \subseteq Nat
  BY DEF Range
<1>2. PICK k \in K : \A l \in K : ~(<<l, k>> \in OpToRel(<, Nat))
  BY <1>1, NatLessThanWellFounded, WFMin
<1>3. \A l \in K : ~(l < k)
  BY <1>1, <1>2 DEF OpToRel
<1>4. k \in 1..Len(s) /\ s[k] = t
  BY <1>2
<1>5. ASSUME NEW l \in 1..(k - 1)
      PROVE  s[l] # t
  <2>1. l \in 1..Len(s) /\ l < k
    BY <1>4, LenProperties
  <2> QED BY <1>3, <2>1
<1> QED BY <1>4, <1>5 DEF FirstOf

(* Removing a track keeps the playlist in order: the index follows.         *)
LEMMA TrackRemovedOK ==
  ASSUME NEW c \in MusicState, MusicOK(c), NEW t \in Range(c.tracks)
  PROVE  TrackRemoved(c, t) \in MusicState /\ MusicOK(TrackRemoved(c, t))
<1> DEFINE i == FirstOf(t, c.tracks)
           s == RemoveAt(c.tracks, i)
           kept == [c EXCEPT !.tracks = RemoveAt(@, i)]
           moved == IF i <= c.current + 1 /\ c.current > 0 THEN c.current - 1
                                                           ELSE c.current
           d == [kept EXCEPT !.current = IF i <= c.current + 1 /\ @ > 0 THEN @ - 1 ELSE @,
                             !.cut = @ \/ (i = c.current + 1 /\ c.pcm # NoTrack)]
<1>1. c.tracks \in Seq(Tracks) /\ i \in 1..Len(c.tracks)
  BY MusicFields, FirstThere
<1>2. /\ s \in Seq(Tracks) /\ Len(s) = Len(c.tracks) - 1
      /\ \A k \in 1..(Len(c.tracks) - 1) :
           s[k] = IF k < i THEN c.tracks[k] ELSE c.tracks[k + 1]
  BY <1>1, RemovedIs
<1>3. TrackRemoved(c, t) = IF kept.tracks = <<>> THEN Rewound(kept) ELSE d
  BY DEF TrackRemoved
<1> HIDE DEF i
<1>4. /\ Len(c.tracks) \in Nat /\ Len(c.tracks) \in 0..MaxTracks
      /\ c.current \in Nat /\ c.current \in 0..MaxTracks /\ i \in Nat
      /\ c.cut \in BOOLEAN /\ MaxTracks \in Nat
  BY <1>1, MusicFields, SmallNumbers
<1>5. Len(s) \in 0..MaxTracks /\ c.tracks # <<>>
  BY <1>1, <1>2, <1>4, EmptySeq
<1>6. s \in BoundedSeq(Tracks, MaxTracks)
  BY <1>2, <1>5, Playlists
<1>7. c.current < Len(c.tracks)
  BY <1>5 DEF MusicOK
<1>8. moved \in 0..MaxTracks
  BY <1>4
<1> HIDE DEF s
<1>9. kept = [c EXCEPT !.tracks = s]
  BY DEF s
<1>10. /\ kept \in MusicState /\ kept.tracks = s /\ kept.current = c.current
       /\ kept.pcm = c.pcm /\ kept.cut = c.cut
  BY <1>6, <1>9 DEF MusicState
<1> HIDE DEF kept
<1>11. CASE s = <<>>
  BY <1>3, <1>10, <1>11, RewoundOK
<1>12. CASE s # <<>>
  <2>1. d = [kept EXCEPT !.current = moved,
                         !.cut = c.cut \/ (i = c.current + 1 /\ c.pcm # NoTrack)]
    BY <1>10
  <2> HIDE DEF d
  <2>2. /\ d \in MusicState /\ d.tracks = s /\ d.current = moved /\ d.pcm = c.pcm
        /\ d.cut <=> c.cut \/ (i = c.current + 1 /\ c.pcm # NoTrack)
    <3>1. (c.cut \/ (i = c.current + 1 /\ c.pcm # NoTrack)) \in BOOLEAN
      OBVIOUS
    <3> HIDE DEF moved
    <3> QED BY <1>8, <1>10, <2>1, <3>1 DEF MusicState
  <2>3. Len(s) # 0
    BY <1>2, <1>12, EmptySeq
  <2>4. moved < Len(s)
    <3>1. CASE i <= c.current + 1 /\ c.current > 0
      BY <1>2, <1>4, <1>7, <3>1
    <3>2. CASE i <= c.current + 1 /\ c.current = 0
      <4>1. moved = 0
        BY <3>2
      <4>2. Len(s) \in Nat
        BY <1>2
      <4> QED BY <2>3, <4>1, <4>2
    <3>3. CASE c.current + 1 < i
      <4>1. i <= Len(c.tracks) /\ moved = c.current
        BY <1>1, <1>4, <3>3
      <4> QED BY <1>2, <1>4, <3>3, <4>1
    <3> QED BY <1>4, <3>1, <3>2, <3>3
  <2>5. ASSUME d.pcm # NoTrack, ~d.cut
        PROVE  s[moved + 1] = c.pcm
    <3>1. i # c.current + 1 /\ c.pcm # NoTrack /\ ~c.cut
      BY <2>2, <2>5
    <3>2. c.tracks[c.current + 1] = c.pcm
      BY <1>5, <3>1 DEF MusicOK
    <3>3. CASE i <= c.current
      <4>1. /\ moved = c.current - 1 /\ moved + 1 \in 1..(Len(c.tracks) - 1)
            /\ ~(moved + 1 < i) /\ (moved + 1) + 1 = c.current + 1
        BY <1>1, <1>4, <1>7, <3>3
      <4> HIDE DEF moved
      <4> QED BY <1>2, <3>2, <4>1
    <3>4. CASE c.current + 1 < i
      <4>1. moved = c.current /\ moved + 1 \in 1..(Len(c.tracks) - 1) /\ moved + 1 < i
        BY <1>1, <1>4, <1>7, <3>4
      <4> HIDE DEF moved
      <4> QED BY <1>2, <3>2, <4>1
    <3> QED BY <1>4, <3>1, <3>3, <3>4
  <2>6. MusicOK(d)
    <3> HIDE DEF moved
    <3> QED BY <1>12, <2>2, <2>4, <2>5 DEF MusicOK
  <2> QED BY <1>3, <1>10, <1>12, <2>2, <2>6
<1> QED BY <1>11, <1>12

(* So does adding one at the end.                                           *)
LEMMA AddedOK ==
  ASSUME NEW c \in MusicState, MusicOK(c), NEW t \in Tracks, Len(c.tracks) < MaxTracks
  PROVE  LET d == [c EXCEPT !.tracks = Append(@, t)] IN d \in MusicState /\ MusicOK(d)
<1> DEFINE s == Append(c.tracks, t)
           d == [c EXCEPT !.tracks = s]
<1>1. /\ c.tracks \in Seq(Tracks) /\ Len(c.tracks) \in Nat /\ c.current \in Nat
      /\ MaxTracks \in Nat
  BY MusicFields, SmallNumbers
<1>2. /\ s \in Seq(Tracks) /\ s # <<>> /\ Len(s) = Len(c.tracks) + 1
      /\ \A k \in 1..Len(c.tracks) : s[k] = c.tracks[k]
  BY <1>1, AppendProperties
<1>3. Len(s) \in 0..MaxTracks
  BY <1>1, <1>2
<1>4. s \in BoundedSeq(Tracks, MaxTracks)
  BY <1>2, <1>3, Playlists
<1> HIDE DEF s
<1>5. /\ d \in MusicState /\ d.tracks = s /\ d.current = c.current /\ d.pcm = c.pcm
      /\ d.cut = c.cut
  BY <1>4 DEF MusicState
<1>6. CASE c.tracks = <<>>
  <2>1. c.current = 0 /\ c.pcm = NoTrack
    BY <1>6 DEF MusicOK
  <2>2. d.current < Len(s)
    BY <1>1, <1>2, <1>5, <2>1
  <2> QED BY <1>2, <1>5, <2>1, <2>2 DEF MusicOK, s
<1>7. CASE c.tracks # <<>>
  <2>1. c.current < Len(c.tracks)
    BY <1>7 DEF MusicOK
  <2>2. c.current < Len(s) /\ c.current + 1 \in 1..Len(c.tracks)
    BY <1>1, <1>2, <2>1
  <2>3. s[c.current + 1] = c.tracks[c.current + 1]
    BY <1>2, <2>2
  <2>4. MusicOK(d)
    BY <1>2, <1>5, <1>7, <2>2, <2>3 DEF MusicOK
  <2> QED BY <1>5, <2>4 DEF s
<1> QED BY <1>6, <1>7
(* What plays goes on, or nothing plays.                                    *)
LEMMA SameTrackOK ==
  ASSUME NEW c \in MusicState, MusicOK(c), NEW d \in MusicState,
         d.tracks = c.tracks, d.current = c.current,
         (d.pcm = c.pcm /\ d.cut = c.cut) \/ d.pcm = NoTrack
  PROVE  MusicOK(d)
BY DEF MusicOK

LEMMA ClampedSame ==
  ASSUME NEW c, MusicOK(c), c.tracks # <<>>
  PROVE  Clamped(c) = c
BY DEF Clamped, MusicOK

LEMMA AdvancedOK ==
  ASSUME NEW c \in MusicState, MusicOK(c), c.tracks # <<>>
  PROVE  /\ Advanced(c) \in MusicState /\ MusicOK(Advanced(c))
         /\ Advanced(c).tracks = c.tracks
<1> DEFINE next == IF c.current + 1 < Len(c.tracks) THEN c.current + 1 ELSE 0
           d == [c EXCEPT !.current = next, !.pos = 0, !.pcm = NoTrack, !.cut = FALSE]
<1>1. Advanced(c) = d
  BY DEF Advanced
<1>2. /\ c.current \in Nat /\ Len(c.tracks) \in Nat /\ Len(c.tracks) \in 0..MaxTracks
      /\ MaxTracks \in Nat
  BY MusicFields, SmallNumbers
<1>3. next \in 0..MaxTracks
  BY <1>2
<1>4. c.current < Len(c.tracks)
  BY DEF MusicOK
<1>5. next < Len(c.tracks)
  BY <1>2, <1>4
<1> HIDE DEF next
<1>6. /\ d \in MusicState /\ d.tracks = c.tracks /\ d.current = next /\ d.pcm = NoTrack
  BY <1>3, SmallNumbers DEF MusicState
<1> HIDE DEF d
<1>7. MusicOK(d)
  BY <1>5, <1>6 DEF MusicOK
<1> QED BY <1>1, <1>6, <1>7

------------------------------------------------------------------------------
(* Scripts.                                                                 *)

(* While main has the mutex, or could have it, the callback mixes nothing.  *)
LEMMA NotMixing ==
  ASSUME SoundInv, MainMayLock
  PROVE  soundLock # "audio" /\ audio.at \notin {"mixing", "lookup"} /\ audio.seeks = {}
<1>1. soundLock # "audio"
  BY DEF MainMayLock
<1>2. audio.at \notin {"mixing", "lookup"}
  BY <1>1 DEF SoundInv, MixingOK
<1> QED BY <1>1, <1>2 DEF SoundInv, MixingOK

LEMMA SetSoundKeeps ==
  ASSUME SoundInv, NEW s \in Sounds, NEW v \in SoundState, SetSound(s, v)
  PROVE  SoundInv'
<1>1. /\ sound' = [sound EXCEPT ![s] = v]
      /\ UNCHANGED <<soundLock, soundMain, audio, device, stage, mixable, music, soundFault>>
  BY DEF SetSound, Locked, NothingRead
<1>2. SoundTypeOK'
  BY <1>1 DEF SoundInv, SoundTypeOK
<1> QED BY <1>1, <1>2 DEF SoundInv, MixingOK, ShutDownOK

LEMMA SetMusicKeeps ==
  ASSUME SoundInv, NEW m \in Musics, NEW v \in MusicState, MusicOK(v), SetMusic(m, v)
  PROVE  SoundInv'
<1>1. /\ music' = [music EXCEPT ![m] = v] /\ MainMayLock
      /\ UNCHANGED <<soundLock, soundMain, audio, device, stage, mixable, sound, soundFault>>
  BY DEF SetMusic, Locked, NothingRead
<1>2. SoundTypeOK'
  BY <1>1 DEF SoundInv, SoundTypeOK
<1>3. audio.seeks = {}
  BY <1>1, NotMixing
<1>4. \A n \in Musics : music'[n] = IF n = m THEN v ELSE music[n]
  BY <1>1 DEF SoundInv, SoundTypeOK
<1>5. \A n \in Musics : MusicOK(music'[n])
  BY <1>4 DEF SoundInv
<1> QED BY <1>1, <1>2, <1>3, <1>5 DEF SoundInv, MixingOK, ShutDownOK

LEMMA ControlSoundKeeps ==
  ASSUME SoundInv, NEW s \in Sounds, ControlSound(s)
  PROVE  SoundInv'
<1> DEFINE c == sound[s]
<1>1. c \in SoundState
  BY DEF SoundInv, SoundTypeOK
<1>2. \A f \in 0..Cached(c) : f \in 0..Frames
  BY SmallNumbers DEF Cached
<1>3. ASSUME NEW b \in BOOLEAN PROVE [c EXCEPT !.playing = b] \in SoundState
  BY <1>1 DEF SoundState
<1>4. [c EXCEPT !.playing = FALSE, !.pos = 0] \in SoundState
  BY <1>1, SmallNumbers DEF SoundState
<1>5. ASSUME NEW f \in 0..Cached(c) PROVE [c EXCEPT !.pos = f] \in SoundState
  BY <1>1, <1>2 DEF SoundState
<1>6. ASSUME NEW a \in {"none", "named"} PROVE [c EXCEPT !.asset = a, !.pos = 0] \in SoundState
  BY <1>1, SmallNumbers DEF SoundState, Asset
<1> QED BY <1>3, <1>4, <1>5, <1>6, SetSoundKeeps DEF ControlSound

LEMMA EditTracksKeeps ==
  ASSUME SoundInv, NEW m \in Musics, EditTracks(m)
  PROVE  SoundInv'
<1> DEFINE c == music[m]
<1>1. c \in MusicState /\ MusicOK(c)
  BY DEF SoundInv, SoundTypeOK
<1>2. ASSUME NEW t \in Tracks, Len(c.tracks) < MaxTracks,
             SetMusic(m, [c EXCEPT !.tracks = Append(@, t)])
      PROVE  SoundInv'
  BY <1>1, <1>2, AddedOK, SetMusicKeeps
<1>3. ASSUME NEW t \in Range(c.tracks), SetMusic(m, TrackRemoved(c, t))
      PROVE  SoundInv'
  BY <1>1, <1>3, TrackRemovedOK, SetMusicKeeps
<1>4. CASE SetMusic(m, Rewound([c EXCEPT !.tracks = <<>>]))
  <2>1. <<>> \in BoundedSeq(Tracks, MaxTracks)
    <3>1. <<>> \in Seq(Tracks) /\ Len(<<>>) = 0
      OBVIOUS
    <3> QED BY <3>1, SmallNumbers, Playlists
  <2>2. [c EXCEPT !.tracks = <<>>] \in MusicState
    BY <1>1, <2>1 DEF MusicState
  <2> QED BY <1>4, <2>2, RewoundOK, SetMusicKeeps
<1> QED BY <1>2, <1>3, <1>4 DEF EditTracks

LEMMA ControlMusicKeeps ==
  ASSUME SoundInv, NEW m \in Musics, ControlMusic(m)
  PROVE  SoundInv'
<1> DEFINE c == music[m]
<1>1. c \in MusicState /\ MusicOK(c)
  BY DEF SoundInv, SoundTypeOK
<1>2. ASSUME NEW b \in BOOLEAN, SetMusic(m, [c EXCEPT !.playing = b])
      PROVE  SoundInv'
  <2> DEFINE d == [c EXCEPT !.playing = b]
  <2>1. /\ d \in MusicState /\ d.tracks = c.tracks /\ d.current = c.current
        /\ d.pcm = c.pcm /\ d.cut = c.cut
    BY <1>1 DEF MusicState
  <2> HIDE DEF d
  <2>2. MusicOK(d)
    BY <1>1, <2>1, SameTrackOK
  <2>3. SetMusic(m, d)
    BY <1>2 DEF d
  <2> QED BY <2>1, <2>2, <2>3, SetMusicKeeps
<1>3. CASE SetMusic(m, Rewound(c))
  BY <1>1, <1>3, RewoundOK, SetMusicKeeps
<1>4. ASSUME NEW f \in 0..Frames, SetMusic(m, [c EXCEPT !.pos = f])
      PROVE  SoundInv'
  <2> DEFINE d == [c EXCEPT !.pos = f]
  <2>1. /\ d \in MusicState /\ d.tracks = c.tracks /\ d.current = c.current
        /\ d.pcm = c.pcm /\ d.cut = c.cut
    BY <1>1 DEF MusicState
  <2> HIDE DEF d
  <2>2. MusicOK(d)
    BY <1>1, <2>1, SameTrackOK
  <2>3. SetMusic(m, d)
    BY <1>4 DEF d
  <2> QED BY <2>1, <2>2, <2>3, SetMusicKeeps
<1> QED BY <1>2, <1>3, <1>4 DEF ControlMusic
LEMMA RelistKeeps ==
  ASSUME SoundInv, NEW p \in Players, AddPlayer(p) \/ TakeFromEntity(p) \/ Unlist(p)
  PROVE  SoundInv'
<1>1. PICK to \in {"added", "astray", "removed"} :
        /\ stage' = [stage EXCEPT ![p] = to]
        /\ mixable' = CASE to = "added"  -> mixable \cup {p}
                        [] to = "astray" -> mixable
                        [] OTHER         -> mixable \ {p}
        /\ MainMayLock
        /\ UNCHANGED <<soundLock, soundMain, audio, device, sound, music, soundFault>>
  BY DEF AddPlayer, TakeFromEntity, Unlist, Relist, Locked, NothingRead
<1>2. stage' \in [Players -> Stage] /\ mixable' \subseteq Players
  BY <1>1 DEF SoundInv, SoundTypeOK, Stage
<1>3. \A q \in mixable' : stage'[q] \in {"added", "astray", "lost"}
  BY <1>1 DEF SoundInv, SoundTypeOK, MixingOK
<1>4. soundLock # "audio" /\ audio.seeks = {}
  BY <1>1, NotMixing
<1> QED BY <1>1, <1>2, <1>3, <1>4 DEF SoundInv, SoundTypeOK, MixingOK, ShutDownOK

LEMMA NewPlayers == /\ NewSound \in SoundState
                    /\ NewMusic \in MusicState /\ MusicOK(NewMusic)
<1>1. NewSound \in SoundState
  BY SmallNumbers DEF NewSound, SoundState, Asset
<1>2. NewMusic \in MusicState /\ MusicOK(NewMusic)
  <2>1. <<>> \in Seq(Tracks) /\ Len(<<>>) = 0
    OBVIOUS
  <2>2. <<>> \in BoundedSeq(Tracks, MaxTracks)
    BY <2>1, SmallNumbers, Playlists
  <2> QED BY <2>2, SmallNumbers DEF NewMusic, MusicState, MusicOK
<1> QED BY <1>1, <1>2

(* A component is freed when it is in no array, so that the callback, which *)
(* holds the mutex and thus the arrays as they are, does not mix it; or it  *)
(* is lost.                                                                 *)
LEMMA FreePlayerKeeps ==
  ASSUME SoundInv, NEW p \in Players, FreePlayer(p)
  PROVE  SoundInv'
<1>1. PICK to \in {"freed", "lost"} :
        /\ stage' = [stage EXCEPT ![p] = to]
        /\ to = "freed" => stage[p] \in {"new", "removed"}
        /\ UNCHANGED <<soundLock, soundMain, audio, device, mixable, soundFault>>
  BY DEF FreePlayer, NothingRead
<1>2. /\ sound' = [s \in Sounds |-> IF s = p THEN NewSound ELSE sound[s]]
      /\ music' = [m \in Musics |-> IF m = p THEN NewMusic ELSE music[m]]
  BY DEF FreePlayer
<1>3. stage' \in [Players -> Stage]
  BY <1>1 DEF SoundInv, SoundTypeOK, Stage
<1>4. sound' \in [Sounds -> SoundState]
  BY <1>2, NewPlayers DEF SoundInv, SoundTypeOK
<1>5. music' \in [Musics -> MusicState] /\ \A m \in Musics : MusicOK(music'[m])
  BY <1>2, NewPlayers DEF SoundInv, SoundTypeOK
<1>6. SoundTypeOK'
  BY <1>1, <1>3, <1>4, <1>5 DEF SoundInv, SoundTypeOK
<1>7. \A q \in mixable : stage'[q] \in {"added", "astray", "lost"}
  BY <1>1 DEF SoundInv, SoundTypeOK, MixingOK
<1>8. ASSUME NEW m \in audio.seeks
      PROVE  stage'[m] = "lost" \/ music'[m].tracks # <<>>
  <2>1. m \in Musics
    BY DEF SoundInv, SoundTypeOK, Callback
  <2>2. m \in mixable /\ (stage[m] = "lost" \/ music[m].tracks # <<>>)
    BY DEF SoundInv, MixingOK
  <2>3. CASE m = p
    <3>1. stage[p] \notin {"new", "removed"}
      BY <2>3, <2>2 DEF SoundInv, MixingOK
    <3> QED BY <1>1, <2>3, <3>1 DEF SoundInv, SoundTypeOK
  <2>4. CASE m # p
    BY <1>1, <1>2, <2>1, <2>4, <2>2 DEF SoundInv, SoundTypeOK
  <2> QED BY <2>3, <2>4
<1>9. MixingOK'
  BY <1>1, <1>7, <1>8 DEF SoundInv, MixingOK
<1> QED BY <1>1, <1>5, <1>6, <1>9 DEF SoundInv, ShutDownOK

LEMMA SeekNowhereKeeps ==
  ASSUME SoundInv, NEW s \in Sounds, SeekNowhere(s)
  PROVE  SoundInv'
<1>1. /\ soundLock' = "main" /\ MainMayLock
      /\ UNCHANGED <<soundMain, audio, device, stage, mixable, sound, music, soundFault>>
  BY DEF SeekNowhere, NothingRead, playback
<1>2. audio.at \notin {"mixing", "lookup"} /\ audio.seeks = {}
  BY <1>1, NotMixing
<1> QED BY <1>1, <1>2 DEF SoundInv, SoundTypeOK, MixingOK, ShutDownOK

------------------------------------------------------------------------------
(* Main goes on, and the EARLY job.                                         *)

LEMMA MainGoesKeeps ==
  ASSUME SoundInv,
         \/ LoadBegins \/ LoadEnds \/ EarlyBegins \/ EarlyEnds
         \/ SelectEnds \/ ShutdownEnds
         \/ \E goal \in {"stopping", "closing"} : StopBegins(goal)
  PROVE  SoundInv'
<1>1. UNCHANGED <<soundLock, audio, stage, mixable, sound, music, soundFault>>
  BY DEF LoadBegins, LoadEnds, EarlyBegins, EarlyEnds, SelectEnds, ShutdownEnds,
         StopBegins, MainGoes, NothingRead, playback
<1>2. soundMain' \in {"script", "loading", "early", "stopping", "closing", "over"}
  BY DEF LoadBegins, LoadEnds, EarlyBegins, EarlyEnds, SelectEnds, ShutdownEnds,
         StopBegins, MainGoes
<1>3. device' \in BOOLEAN
  BY DEF LoadBegins, LoadEnds, EarlyBegins, EarlyEnds, SelectEnds, ShutdownEnds,
         StopBegins, SoundInv, SoundTypeOK
<1>4. soundMain' = "over" => ~device' /\ audio.at = "idle"
  BY DEF LoadBegins, LoadEnds, EarlyBegins, EarlyEnds, SelectEnds, ShutdownEnds,
         StopBegins, MainGoes, Stopped
<1>5. SoundTypeOK'
  BY <1>1, <1>2, <1>3 DEF SoundInv, SoundTypeOK
<1>6. MixingOK'
  BY <1>1 DEF SoundInv, MixingOK
<1>7. ShutDownOK'
  BY <1>1, <1>4 DEF ShutDownOK
<1> QED BY <1>1, <1>5, <1>6, <1>7 DEF SoundInv

LEMMA UpdateSoundsKeeps ==
  ASSUME SoundInv, UpdateSounds
  PROVE  SoundInv'
<1>1. /\ soundMain' = "updated"
      /\ UNCHANGED <<soundLock, audio, device, stage, mixable, music>>
  BY DEF UpdateSounds
<1>2. PICK found \in SUBSET Sounds :
        sound' = [s \in Sounds |-> IF s \in mixable THEN Resolved(sound[s], s \in found)
                                                    ELSE sound[s]]
  BY DEF UpdateSounds
<1>3. ASSUME NEW s \in Sounds
      PROVE  Resolved(sound[s], s \in found) \in SoundState /\ sound[s] \in SoundState
  <2>1. sound[s] \in SoundState
    BY DEF SoundInv, SoundTypeOK
  <2>2. [sound[s] EXCEPT !.asset = "cached"] \in SoundState
    BY <2>1 DEF SoundState, Asset
  <2> QED BY <2>1, <2>2 DEF Resolved
<1>4. sound' \in [Sounds -> SoundState]
  BY <1>2, <1>3
<1>5. soundFault' \subseteq {"stray"}
  BY DEF UpdateSounds, SoundInv, MixingOK, Touched
<1> QED BY <1>1, <1>4, <1>5 DEF SoundInv, SoundTypeOK, MixingOK, ShutDownOK

------------------------------------------------------------------------------
(* The callback.                                                            *)

LEMMA AudioBeginsKeeps ==
  ASSUME SoundInv, AudioBegins
  PROVE  SoundInv'
<1>1. /\ device /\ audio.at = "idle" /\ audio' = [Idle EXCEPT !.at = "entered"]
      /\ UNCHANGED <<soundMain, device, stage, mixable, soundLock, sound, music, soundFault>>
  BY DEF AudioBegins, AudioStep
<1>2. audio' \in Callback /\ audio'.at = "entered" /\ audio'.seeks = {}
  BY <1>1 DEF Callback, Idle
<1>3. soundMain # "over"
  BY <1>1 DEF SoundInv, ShutDownOK
<1> QED BY <1>1, <1>2, <1>3 DEF SoundInv, SoundTypeOK, MixingOK, ShutDownOK

LEMMA AudioLocksKeeps ==
  ASSUME SoundInv, AudioLocks
  PROVE  SoundInv'
<1>1. /\ audio.at = "entered" /\ soundLock = "nobody"
      /\ UNCHANGED <<soundMain, device, stage, mixable, sound, music>>
  BY DEF AudioLocks, AudioStep
<1>2. soundMain # "over"
  BY <1>1 DEF SoundInv, ShutDownOK
<1>3. soundFault' = {}
  BY <1>2 DEF AudioLocks, SoundInv
<1>4. audio.seeks = {}
  BY <1>1 DEF SoundInv, MixingOK
<1>5. CASE mixable \cap Sounds = {}
  <2>1. audio' = Idle /\ soundLock' = "nobody"
    BY <1>5 DEF AudioLocks, AudioStep, AudioReturns
  <2>2. audio' \in Callback /\ audio'.at = "idle" /\ audio'.seeks = {}
    BY <2>1 DEF Callback, Idle
  <2> QED BY <1>1, <1>2, <1>3, <2>1, <2>2 DEF SoundInv, SoundTypeOK, MixingOK, ShutDownOK
<1>6. CASE mixable \cap Sounds # {}
  <2>1. /\ audio' = [audio EXCEPT !.at = "mixing", !.todo = mixable]
        /\ soundLock' = "audio"
    BY <1>6 DEF AudioLocks, AudioStep
  <2>2. /\ audio' \in Callback /\ audio'.at = "mixing" /\ audio'.todo = mixable
        /\ audio'.seeks = {}
    BY <1>4, <2>1 DEF SoundInv, SoundTypeOK, Callback
  <2> QED BY <1>1, <1>2, <1>3, <2>1, <2>2 DEF SoundInv, SoundTypeOK, MixingOK, ShutDownOK
<1> QED BY <1>5, <1>6

(* A component that is mixed is there, and the mutex is held.               *)
LEMMA MixedLive ==
  ASSUME SoundInv, audio.at \in {"mixing", "lookup"}, NEW p \in audio.todo
  PROVE  /\ soundLock = "audio" /\ p \in mixable /\ p \in Players
         /\ soundMain # "over"
         /\ Touched(p) \subseteq {"stray"}
         /\ \A pos : pos \in 0..Frames /\ pos < Frames => Reading(p, pos) \subseteq {"stray"}
<1>1. /\ soundLock = "audio" /\ p \in mixable /\ p \in Players
      /\ stage[p] \in {"added", "astray", "lost"}
  BY DEF SoundInv, MixingOK, SoundTypeOK
<1>2. soundMain # "over"
  BY DEF SoundInv, ShutDownOK
<1>3. Touched(p) \subseteq {"stray"}
  BY <1>1 DEF Touched
<1>4. ASSUME NEW pos, pos \in 0..Frames, pos < Frames
      PROVE  Reading(p, pos) \subseteq {"stray"}
  <2>1. ~(pos >= Frames)
    BY <1>4, SmallNumbers
  <2> QED BY <1>3, <2>1 DEF Reading
<1> QED BY <1>1, <1>2, <1>4, <1>3

(* The callback is done with a component, or looks its track up, or has     *)
(* found it.                                                                *)
LEMMA CallbackGoes ==
  ASSUME SoundInv, audio.at \in {"mixing", "lookup"},
         audio' \in Callback, audio'.at \in {"mixing", "lookup"},
         audio'.todo \subseteq audio.todo,
         \A m \in audio'.seeks : /\ audio'.at = "lookup" /\ m \in audio'.todo
                                 /\ stage[m] = "lost" \/ music'[m].tracks # <<>>,
         sound' \in [Sounds -> SoundState], music' \in [Musics -> MusicState],
         \A m \in Musics : MusicOK(music'[m]),
         soundFault' \subseteq {"stray"},
         UNCHANGED <<soundMain, device, stage, mixable, soundLock>>
  PROVE  SoundInv'
<1>1. soundLock = "audio" /\ soundMain # "over"
  BY DEF SoundInv, MixingOK, ShutDownOK
<1>2. SoundTypeOK'
  BY DEF SoundInv, SoundTypeOK
<1>3. MixingOK'
  BY <1>1 DEF SoundInv, MixingOK
<1> QED BY <1>1, <1>2, <1>3 DEF SoundInv, ShutDownOK

LEMMA MixedCallback ==
  ASSUME SoundInv, NEW p
  PROVE  /\ Mixed(p) \in Callback /\ Mixed(p).at = "mixing" /\ Mixed(p).seeks = {}
         /\ Mixed(p).todo = audio.todo \ {p}
BY DEF SoundInv, SoundTypeOK, Mixed, Callback

LEMMA MixSoundKeeps ==
  ASSUME SoundInv, NEW s \in Sounds, MixSound(s)
  PROVE  SoundInv'
<1> DEFINE c == sound[s]
<1>1. /\ audio.at = "mixing" /\ s \in audio.todo /\ audio' = Mixed(s)
      /\ UNCHANGED <<soundMain, device, stage, mixable, soundLock, music>>
  BY DEF MixSound, AudioStep
<1>2. c \in SoundState /\ c.pos \in 0..Frames
  BY DEF SoundInv, SoundTypeOK, SoundState
<1>3. ASSUME NEW d \in SoundState, NEW pos \in 0..Frames, pos < Frames,
             sound' = [sound EXCEPT ![s] = d], soundFault' = Reading(s, pos)
      PROVE  SoundInv'
  <2>1. soundFault' \subseteq {"stray"}
    BY <1>1, <1>3, MixedLive
  <2>2. sound' \in [Sounds -> SoundState]
    BY <1>3 DEF SoundInv, SoundTypeOK
  <2>3. music' \in [Musics -> MusicState] /\ \A m \in Musics : MusicOK(music'[m])
    BY <1>1 DEF SoundInv, SoundTypeOK
  <2> QED BY <1>1, <2>1, <2>2, <2>3, MixedCallback, CallbackGoes
<1>4. CASE c.playing /\ c.asset = "cached" /\ ~AtEnd(c)
           /\ sound' = [sound EXCEPT ![s] = [c EXCEPT !.pos = Forward(@)]]
           /\ soundFault' = Reading(s, c.pos)
  <2>1. c.pos < Frames /\ Forward(c.pos) \in 0..Frames
    BY <1>2, <1>4, SmallNumbers DEF AtEnd, Forward
  <2>2. [c EXCEPT !.pos = Forward(@)] \in SoundState
    BY <1>2, <2>1 DEF SoundState
  <2> QED BY <1>2, <1>3, <1>4, <2>1, <2>2
<1>5. [c EXCEPT !.playing = FALSE, !.pos = 0] \in SoundState
      /\ [c EXCEPT !.pos = 1] \in SoundState
  BY <1>2, SmallNumbers DEF SoundState
<1> QED BY <1>2, <1>3, <1>4, <1>5, SmallNumbers DEF MixSound
LEMMA MixMusicKeeps ==
  ASSUME SoundInv, NEW m \in Musics, MixMusic(m)
  PROVE  SoundInv'
<1> DEFINE b == music[m]
           c == Clamped(b)
<1>1. /\ audio.at = "mixing" /\ m \in audio.todo
      /\ UNCHANGED <<soundMain, device, stage, mixable, soundLock, sound>>
  BY DEF MixMusic, AudioStep
<1>2. b \in MusicState /\ MusicOK(b) /\ music \in [Musics -> MusicState]
      /\ sound \in [Sounds -> SoundState]
  BY DEF SoundInv, SoundTypeOK
<1>3. ASSUME NEW d \in MusicState, MusicOK(d), music' = [music EXCEPT ![m] = d]
      PROVE  /\ music' \in [Musics -> MusicState] /\ music'[m] = d
             /\ \A n \in Musics : MusicOK(music'[n])
  <2>1. \A n \in Musics : music'[n] = IF n = m THEN d ELSE music[n]
    BY <1>2, <1>3
  <2>2. music' \in [Musics -> MusicState]
    BY <1>2, <1>3
  <2> QED BY <1>3, <2>1, <2>2 DEF SoundInv
(* The component is done with. *)
<1>4. ASSUME NEW d \in MusicState, MusicOK(d), NEW pos \in 0..Frames, pos < Frames,
             music' = [music EXCEPT ![m] = d], audio' = Mixed(m),
             soundFault' = Reading(m, pos)
      PROVE  SoundInv'
  <2>1. soundFault' \subseteq {"stray"}
    BY <1>1, <1>4, MixedLive
  <2>2. music' \in [Musics -> MusicState] /\ \A n \in Musics : MusicOK(music'[n])
    BY <1>3, <1>4
  <2>3. sound' \in [Sounds -> SoundState]
    BY <1>1, <1>2
  <2> QED BY <1>1, <1>4, <2>1, <2>2, <2>3, MixedCallback, CallbackGoes
(* Its track is looked up. *)
<1>5. ASSUME NEW d \in MusicState, MusicOK(d), d.tracks # <<>>, NEW next \in BOOLEAN,
             music' = [music EXCEPT ![m] = d],
             audio' = [audio EXCEPT !.at = "lookup", !.seeks = {m}, !.advancing = next],
             soundFault' = Reading(m, 0)
      PROVE  SoundInv'
  <2>1. soundFault' \subseteq {"stray"}
    BY <1>1, <1>5, MixedLive, SmallNumbers
  <2>2. /\ music' \in [Musics -> MusicState] /\ music'[m] = d
        /\ \A n \in Musics : MusicOK(music'[n])
    BY <1>3, <1>5
  <2>3. sound' \in [Sounds -> SoundState]
    BY <1>1, <1>2
  <2>4. /\ audio' \in Callback /\ audio'.at = "lookup" /\ audio'.seeks = {m}
        /\ audio'.todo = audio.todo
    BY <1>5 DEF SoundInv, SoundTypeOK, Callback
  <2> QED BY <1>1, <1>5, <2>1, <2>2, <2>3, <2>4, CallbackGoes
<1>6. ASSUME music' = [music EXCEPT ![m] = b], audio' = Mixed(m), soundFault' = Reading(m, 0)
      PROVE  SoundInv'
  BY <1>2, <1>4, <1>6, SmallNumbers
<1>7. ASSUME b.tracks # <<>>
      PROVE  c = b
  BY <1>2, <1>7, ClampedSame
<1>8. ASSUME b.tracks # <<>>, music' = [music EXCEPT ![m] = c],
             audio' = [audio EXCEPT !.at = "lookup", !.seeks = {m}, !.advancing = FALSE],
             soundFault' = Reading(m, 0)
      PROVE  SoundInv'
  BY <1>2, <1>5, <1>7, <1>8
<1>9. ASSUME b.tracks # <<>>, ~AtEnd(c),
             music' = [music EXCEPT ![m] = [c EXCEPT !.pos = Forward(@)]],
             audio' = Mixed(m), soundFault' = Reading(m, c.pos)
      PROVE  SoundInv'
  <2> DEFINE d == [b EXCEPT !.pos = Forward(@)]
  <2>1. c = b
    BY <1>7, <1>9
  <2>2. b.pos \in 0..Frames
    BY <1>2, MusicFields
  <2>3. b.pos < Frames /\ Forward(b.pos) \in 0..Frames
    BY <1>9, <2>1, <2>2, SmallNumbers DEF AtEnd, Forward
  <2>4. /\ d \in MusicState /\ d.tracks = b.tracks /\ d.current = b.current
        /\ d.pcm = b.pcm /\ d.cut = b.cut
    BY <1>2, <2>3 DEF MusicState
  <2>5. music' = [music EXCEPT ![m] = d] /\ soundFault' = Reading(m, b.pos)
    BY <1>9, <2>1
  <2> HIDE DEF d
  <2>6. MusicOK(d)
    BY <1>2, <2>4, SameTrackOK
  <2> QED BY <1>4, <1>9, <2>2, <2>3, <2>4, <2>5, <2>6
<1>10. ASSUME b.tracks # <<>>, music' = [music EXCEPT ![m] = Advanced(c)],
              audio' = [audio EXCEPT !.at = "lookup", !.seeks = {m}, !.advancing = TRUE],
              soundFault' = Reading(m, 0)
       PROVE  SoundInv'
  <2>1. /\ Advanced(b) \in MusicState /\ MusicOK(Advanced(b))
        /\ Advanced(b).tracks = b.tracks
    BY <1>2, <1>10, AdvancedOK
  <2> QED BY <1>5, <1>7, <1>10, <2>1
<1>11. ASSUME b.tracks # <<>>,
              music' = [music EXCEPT ![m] = [c EXCEPT !.playing = FALSE, !.pos = 0,
                                                      !.pcm = NoTrack, !.cut = FALSE]],
              audio' = Mixed(m), soundFault' = Reading(m, 0)
       PROVE  SoundInv'
  <2> DEFINE d == [b EXCEPT !.playing = FALSE, !.pos = 0, !.pcm = NoTrack, !.cut = FALSE]
  <2>1. /\ d \in MusicState /\ d.tracks = b.tracks /\ d.current = b.current
        /\ d.pcm = NoTrack
    BY <1>2, SmallNumbers DEF MusicState
  <2>2. music' = [music EXCEPT ![m] = d]
    BY <1>7, <1>11
  <2> HIDE DEF d
  <2>3. MusicOK(d)
    BY <1>2, <2>1, SameTrackOK
  <2> QED BY <1>4, <1>11, <2>1, <2>2, <2>3, SmallNumbers
<1> HIDE DEF c, b
<1> QED BY <1>6, <1>8, <1>9, <1>10, <1>11 DEF MixMusic, AudioStep, c, b

(* A track that is found is the current one.                                *)
LEMMA LookupEndsKeeps ==
  ASSUME SoundInv, NEW m \in Musics, LookupEnds(m)
  PROVE  SoundInv'
<1> DEFINE c == music[m]
<1>1. /\ audio.at = "lookup" /\ m \in audio.seeks /\ m \in audio.todo
      /\ stage[m] = "lost" \/ c.tracks # <<>>
      /\ UNCHANGED <<soundMain, device, stage, mixable, soundLock, sound>>
  BY DEF LookupEnds, AudioStep, SoundInv, MixingOK
<1>2. c \in MusicState /\ MusicOK(c) /\ music \in [Musics -> MusicState]
      /\ sound \in [Sounds -> SoundState]
  BY DEF SoundInv, SoundTypeOK
<1>3. ASSUME NEW d \in MusicState, MusicOK(d), music' = [music EXCEPT ![m] = d],
             audio' \in Callback, audio'.at = "mixing", audio'.seeks = {},
             audio'.todo \subseteq audio.todo
      PROVE  SoundInv'
  <2>1. \A n \in Musics : music'[n] = IF n = m THEN d ELSE music[n]
    BY <1>2, <1>3
  <2>2. music' \in [Musics -> MusicState]
    BY <1>2, <1>3
  <2>3. \A n \in Musics : MusicOK(music'[n])
    BY <1>3, <2>1 DEF SoundInv
  <2>4. sound' \in [Sounds -> SoundState]
    BY <1>1 DEF SoundInv, SoundTypeOK
  <2>5. soundFault' \subseteq {"stray"}
    BY <1>1, MixedLive DEF LookupEnds
  <2> QED BY <1>1, <1>3, <2>2, <2>3, <2>4, <2>5, CallbackGoes
<1>4. CASE /\ stage[m] # "lost"
           /\ music' = [music EXCEPT ![m].pcm = c.tracks[c.current + 1]]
           /\ audio' = [audio EXCEPT !.at = "mixing", !.seeks = {}, !.advancing = FALSE]
  <2> DEFINE t == c.tracks[c.current + 1]
             d == [c EXCEPT !.pcm = t]
  <2>1. /\ c.tracks \in Seq(Tracks) /\ c.current \in Nat /\ Len(c.tracks) \in Nat
        /\ c.current < Len(c.tracks)
    BY <1>1, <1>2, <1>4, MusicFields DEF MusicOK
  <2>2. t \in Tracks
    BY <2>1
  <2> HIDE DEF t
  <2>3. /\ d \in MusicState /\ d.tracks = c.tracks /\ d.current = c.current /\ d.pcm = t
    BY <1>2, <2>2 DEF MusicState
  <2>4. music' = [music EXCEPT ![m] = d]
    BY <1>4 DEF t
  <2> HIDE DEF d
  <2>5. MusicOK(d)
    BY <1>1, <1>4, <2>1, <2>3 DEF MusicOK, t
  <2>6. /\ audio' \in Callback /\ audio'.at = "mixing" /\ audio'.seeks = {}
        /\ audio'.todo = audio.todo
    BY <1>4 DEF SoundInv, SoundTypeOK, Callback
  <2> QED BY <1>3, <2>3, <2>4, <2>5, <2>6
<1>5. CASE /\ music' = [music EXCEPT ![m].playing = @ /\ ~audio.advancing]
           /\ audio' = Mixed(m)
  <2> DEFINE goes == c.playing /\ ~audio.advancing
             d == [c EXCEPT !.playing = goes]
  <2>1. goes \in BOOLEAN
    OBVIOUS
  <2>2. music' = [music EXCEPT ![m] = d]
    BY <1>5
  <2> HIDE DEF goes
  <2>3. /\ d \in MusicState /\ d.tracks = c.tracks /\ d.current = c.current
        /\ d.pcm = c.pcm /\ d.cut = c.cut
    BY <1>2, <2>1 DEF MusicState
  <2> HIDE DEF d
  <2>4. MusicOK(d)
    BY <1>2, <2>3, SameTrackOK
  <2> QED BY <1>3, <1>5, <2>2, <2>3, <2>4, MixedCallback
<1> QED BY <1>4, <1>5 DEF LookupEnds, AudioStep

LEMMA AudioEndsKeeps ==
  ASSUME SoundInv, AudioEnds
  PROVE  SoundInv'
<1>1. /\ audio' = Idle /\ soundLock' = "nobody"
      /\ UNCHANGED <<soundMain, device, stage, mixable, sound, music, soundFault>>
  BY DEF AudioEnds, AudioStep
<1>2. audio' \in Callback /\ audio'.at = "idle" /\ audio'.seeks = {}
  BY <1>1 DEF Callback, Idle
<1> QED BY <1>1, <1>2 DEF SoundInv, SoundTypeOK, MixingOK, ShutDownOK

------------------------------------------------------------------------------
(* The theorems.                                                            *)

LEMMA SoundStarts == SoundInit => SoundInv
<1> SUFFICES ASSUME SoundInit PROVE SoundInv
  OBVIOUS
<1>3. Idle \in Callback /\ Idle.at = "idle" /\ Idle.seeks = {}
  BY DEF Idle, Callback
<1>4. SoundTypeOK
  BY <1>3, NewPlayers DEF SoundInit, SoundTypeOK, Stage
<1>5. \A m \in Musics : MusicOK(music[m])
  BY NewPlayers DEF SoundInit
<1> QED BY <1>3, <1>4, <1>5 DEF SoundInit, SoundInv, MixingOK, ShutDownOK

LEMMA SoundKeeps == SoundInv /\ [SoundNext]_soundVars => SoundInv'
<1> SUFFICES ASSUME SoundInv, [SoundNext]_soundVars PROVE SoundInv'
  OBVIOUS
<1>1. CASE SoundScript
  BY <1>1, RelistKeeps, FreePlayerKeeps, ControlSoundKeeps, SeekNowhereKeeps,
     EditTracksKeeps, ControlMusicKeeps, MainGoesKeeps DEF SoundScript
<1>2. CASE SoundMainWaits
  BY <1>2, MainGoesKeeps DEF SoundMainWaits
<1>3. CASE UpdateSounds
  BY <1>3, UpdateSoundsKeeps
<1>4. CASE AudioBegins \/ AudioLocks
  BY <1>4, AudioBeginsKeeps, AudioLocksKeeps
<1>5. CASE AudioWorks
  BY <1>5, MixSoundKeeps, MixMusicKeeps, LookupEndsKeeps, AudioEndsKeeps DEF AudioWorks
<1>6. CASE UNCHANGED soundVars
  BY <1>6 DEF soundVars, SoundInv, SoundTypeOK, MixingOK, ShutDownOK
<1> QED BY <1>1, <1>2, <1>3, <1>4, <1>5, <1>6 DEF SoundNext

(* The mutex, the arrays, the callback and the playlists stay consistent,   *)
(* and what is listed is attached, or astray: attached again while listed,  *)
(* or taken from its entity without a word to the system.                   *)
THEOREM SoundInvariance == SoundSpec => []SoundInv
<1> QED BY SoundStarts, SoundKeeps, PTL DEF SoundSpec

(* Every variable of the sound system stays in its domain.                  *)
THEOREM SoundTypeCorrect == SoundSpec => []SoundTypeOK
<1>1. SoundInv => SoundTypeOK
  BY DEF SoundInv
<1> QED BY <1>1, SoundInvariance, PTL

(* The callback and the update read no freed component but one that went    *)
(* astray, no sample behind the end of an asset and no system that is shut  *)
(* down (sound_sys_data_callback, sound_sys_update).                        *)
THEOREM ReadsStayLive == SoundSpec => []SoundReadsLive
<1>1. SoundInv => SoundReadsLive
  BY DEF SoundInv, SoundReadsLive
<1> QED BY <1>1, SoundInvariance, PTL

(* What plays is the current track of the playlist, over removals, ends of  *)
(* tracks and restarts, unless it was removed while it plays.               *)
THEOREM CurrentTrackPlays == SoundSpec => []PlaysCurrentTrack
<1>1. SoundInv => PlaysCurrentTrack
  BY DEF SoundInv, MusicOK, PlaysCurrentTrack
<1> QED BY <1>1, SoundInvariance, PTL
-----------------------------------------------------------------------------
(* The memory manager: tables and their sums.                               *)

LEMMA WithIs ==
  ASSUME NEW f, NEW b, NEW v
  PROVE  /\ With(f, b, v) = [x \in DOMAIN f \cup {b} |-> With(f, b, v)[x]]
         /\ DOMAIN With(f, b, v) = DOMAIN f \cup {b} /\ With(f, b, v)[b] = v
         /\ \A x \in DOMAIN f : x # b => With(f, b, v)[x] = f[x]
BY DEF With

LEMMA WithoutIs ==
  ASSUME NEW f, NEW b
  PROVE  /\ Without(f, b) = [x \in DOMAIN f \ {b} |-> Without(f, b)[x]]
         /\ DOMAIN Without(f, b) = DOMAIN f \ {b}
         /\ \A x \in DOMAIN f \ {b} : Without(f, b)[x] = f[x]
BY DEF Without, Restrict

LEMMA TotalSums ==
  ASSUME NEW f
  PROVE  Total(f) = Sum(f, DOMAIN f)
BY DEF Total, Sum

LEMMA TotalEmpty == Total(<<>>) = 0
<1> DEFINE e == <<>>
<1>1. DOMAIN e = {}
  OBVIOUS
<1> HIDE DEF e
<1>2. Total(e) = 0
  BY <1>1, TotalSums, SumEmpty
<1> QED BY <1>2 DEF e

LEMMA TotalWith ==
  ASSUME NEW f, IsFiniteSet(DOMAIN f), \A x \in DOMAIN f : f[x] \in Nat, NEW b, b \notin DOMAIN f, NEW v \in Nat
  PROVE  Total(f) \in Nat /\ Total(With(f, b, v)) = Total(f) + v
<1> DEFINE g == With(f, b, v)
           D == DOMAIN f
           C == D \cup {b}
<1>1. DOMAIN g = C /\ g[b] = v /\ \A x \in D : g[x] = f[x]
  <2>1. /\ DOMAIN With(f, b, v) = DOMAIN f \cup {b} /\ With(f, b, v)[b] = v
        /\ \A x \in DOMAIN f : x # b => With(f, b, v)[x] = f[x]
    BY DEF With
  <2> QED BY <2>1
<1>2. IsFiniteSet(C) /\ b \in C /\ C \ {b} = D
  BY FS_AddElement
<1> HIDE DEF g
<1>3. Counting(g, C)
  BY <1>1 DEF Counting
<1> HIDE DEF C
<1>4. Sum(g, C) = g[b] + Sum(g, C \ {b})
  BY <1>2, <1>3, SumWithout
<1> HIDE DEF D
<1>5. Sum(g, D) = Sum(f, D) /\ Sum(f, D) \in Nat
  <2>1. IsFiniteSet(D) /\ \A x \in D : f[x] \in Nat
    BY DEF D
  <2>2. Sum(g, D) = Sum(f, D)
    BY <1>1, <2>1, SumSame
  <2> QED BY <2>1, <2>2, SumCounts
<1>6. Total(g) = Sum(g, C) /\ Total(f) = Sum(f, D)
  BY <1>1, TotalSums DEF D
<1>7. Sum(g, C) = v + Sum(f, D)
  BY <1>1, <1>2, <1>4, <1>5
<1>8. Total(f) \in Nat /\ Total(g) = Total(f) + v
  BY <1>5, <1>6, <1>7
<1> QED BY <1>8 DEF g

LEMMA TotalWithout ==
  ASSUME NEW f, IsFiniteSet(DOMAIN f), \A x \in DOMAIN f : f[x] \in Nat, NEW b \in DOMAIN f
  PROVE  /\ Total(f) \in Nat /\ f[b] \in Nat /\ f[b] <= Total(f)
         /\ Total(Without(f, b)) = Total(f) - f[b]
<1> DEFINE g == Without(f, b)
           D == DOMAIN f
           C == D \ {b}
<1>1. DOMAIN g = C /\ \A x \in C : g[x] = f[x]
  BY WithoutIs
<1> HIDE DEF g
<1>2. IsFiniteSet(D) /\ b \in D /\ Counting(f, D)
  BY DEF Counting
<1>3. Total(g) = Sum(g, C) /\ Total(f) = Sum(f, D)
  BY <1>1, TotalSums
<1> HIDE DEF D
<1>4. Sum(f, D) \in Nat /\ Sum(f, C) \in Nat /\ Sum(f, D) = f[b] + Sum(f, C)
  BY <1>2, SumWithout
<1>5. IsFiniteSet(C)
  BY <1>2, FS_RemoveElement
<1> HIDE DEF C
<1>6. Sum(g, C) = Sum(f, C)
  BY <1>1, <1>5, SumSame
<1> QED BY <1>2, <1>3, <1>4, <1>6 DEF g

LEMMA TotalSame ==
  ASSUME NEW f, NEW g, DOMAIN f = DOMAIN g, IsFiniteSet(DOMAIN f), \A x \in DOMAIN f : f[x] = g[x]
  PROVE  Total(f) = Total(g)
BY TotalSums, SumSame

(* The array grows until the number is in it. *)
LEMMA GrownIs ==
  ASSUME NEW number \in Nat, NEW size \in Nat, 2 <= size
  PROVE  Grown(number, size) \in Nat /\ number < Grown(number, size) /\ size <= Grown(number, size)
<1> DEFINE half == [r \in Nat |-> (r * 3) \div 2]
           need == number + 1
           h == CHOOSE g : g = [c \in Nat |-> IF number < c THEN c ELSE g[(c * 3) \div 2]]
<1>1. half \in [Nat -> Nat] /\ \A r \in Nat : half[r] = (r * 3) \div 2
  OBVIOUS
<1>2. \A r \in Nat : IF 2 <= r THEN r < half[r] ELSE half[r] = r
  BY <1>1
<1>3. \A r \in Nat : 2 <= r => r < half[r]
  BY <1>2
<1>4. Grown(number, size) = h[size]
  BY DEF Grown
<1>5. need \in Nat /\ \A c \in Nat : number < c <=> need <= c
  OBVIOUS
<1> HIDE DEF need
<1>6. \A g : Climbing(g, half, need, Nat) <=> g = [c \in Nat |-> IF number < c THEN c ELSE g[(c * 3) \div 2]]
  BY <1>5 DEF Climbing
<1> HIDE DEF half
<1>7. \E g : Climbing(g, half, need, Nat)
  <2>1. 2 \in Nat
    OBVIOUS
  <2> QED BY <1>1, <1>2, <1>5, <2>1, ClimbExists
<1>8. Climbing(h, half, need, Nat)
  BY <1>6, <1>7
<1> HIDE DEF h
<1>9. h[size] \in Nat /\ need <= h[size] /\ size <= h[size]
  <2>1. 2 \in Nat
    OBVIOUS
  <2> QED BY <1>1, <1>3, <1>5, <1>8, <2>1, ClimbReaches
<1> QED BY <1>4, <1>5, <1>9
-----------------------------------------------------------------------------
(* The memory manager: the inductive invariant.                             *)

Theirs(o, t) == {b \in DOMAIN o : o[b] = t}
Sizes(l) == [b \in DOMAIN l |-> l[b].size]

Open(m) == /\ IsFiniteSet(DOMAIN m.table) /\ DOMAIN m.table \subseteq Addresses
           /\ \A b \in DOMAIN m.table : m.table[b] \in Nat
           /\ m.used = Total(m.table)

ManagersOK ==
  /\ capacity \in Nat /\ capacity # 1 /\ managers = [t \in Managers |-> managers[t]]
  /\ DOMAIN ownerOf \subseteq Addresses /\ \A b \in DOMAIN ownerOf : ownerOf[b] \in Managers \cup {Nobody}
  /\ worker \in [Threads -> {"runs", "reads", "reads moved", "ended"}]
  /\ trouble \in {"none", "not the owner", "read freed array"}
  /\ \A t \in Managers : /\ DOMAIN managers[t].table = Theirs(ownerOf, t)
                         /\ managers[t] # NoManager => Open(managers[t]) /\ (t < capacity \/ t = Shared)

LuaOK ==
  /\ lua = [b \in DOMAIN lua |-> lua[b]]
  /\ \A b \in DOMAIN lua : /\ lua[b].size \in Nat /\ lua[b].canary = lua[b].size
                           /\ b \in DOMAIN managers[0].table
                           /\ lua[b].size + Overhead <= managers[0].table[b]
  /\ luaUsed = Total(Sizes(lua)) /\ luaUsed <= LuaLimit

MemoryInv == ManagersOK /\ LuaOK

LEMMA Numbers ==
  /\ LastThread \in Nat /\ Overhead \in Nat /\ LuaLimit \in Nat /\ \A s \in Asked : s \in Nat \ {0}
  /\ InitialTables \in Nat /\ 2 <= InitialTables
  /\ 0 \in Managers /\ Managers \subseteq Int /\ \A t \in Managers : t # Shared => t \in Nat
  /\ Managers = Threads \cup {Shared} /\ Nobody \notin Managers
BY MemoryAssumption DEF Managers, Threads, Shared, Nobody

LEMMA TheirsWith ==
  ASSUME NEW o, NEW b, b \notin DOMAIN o, NEW t, NEW u
  PROVE  Theirs(With(o, b, t), u) = IF u = t THEN Theirs(o, u) \cup {b} ELSE Theirs(o, u)
BY DEF Theirs, With

LEMMA TheirsWithout ==
  ASSUME NEW o, NEW b, NEW u
  PROVE  Theirs(Without(o, b), u) = Theirs(o, u) \ {b}
BY DEF Theirs, Without, Restrict

LEMMA SizesWith ==
  ASSUME NEW l, NEW b, NEW n
  PROVE  Sizes(With(l, b, Header(n))) = With(Sizes(l), b, n)
<1> DEFINE a == Sizes(With(l, b, Header(n)))
           c == With(Sizes(l), b, n)
<1>1. Header(n).size = n
  BY DEF Header
<1>2. a = [x \in DOMAIN l \cup {b} |-> IF x = b THEN n ELSE l[x].size]
  BY <1>1 DEF Sizes, With
<1>3. c = [x \in DOMAIN l \cup {b} |-> IF x = b THEN n ELSE l[x].size]
  BY DEF Sizes, With
<1> QED BY <1>2, <1>3

LEMMA SizesWithout ==
  ASSUME NEW l, NEW b
  PROVE  Sizes(Without(l, b)) = Without(Sizes(l), b)
<1>1. Sizes(Without(l, b)) = [x \in DOMAIN l \ {b} |-> l[x].size]
  BY DEF Sizes, Without, Restrict
<1>2. Without(Sizes(l), b) = [x \in DOMAIN l \ {b} |-> l[x].size]
  BY DEF Sizes, Without, Restrict
<1> QED BY <1>1, <1>2

LEMMA FoundIs ==
  ASSUME ManagersOK, NEW t \in Managers
  PROVE  Open(Found(t)) /\ Found(t).table = managers[t].table /\ DOMAIN Found(t).table = Theirs(ownerOf, t)
<1>1. CASE managers[t] = NoManager
  <2>1. /\ Found(t).table = <<>> /\ Found(t).used = 0 /\ managers[t].table = <<>>
    BY <1>1 DEF Found, NewManager, NoManager
  <2>2. DOMAIN <<>> = {} /\ IsFiniteSet({})
    BY FS_EmptySet
  <2>3. Open(Found(t))
    BY <2>1, <2>2, TotalEmpty DEF Open
  <2> QED BY <2>1, <2>3 DEF ManagersOK
<1>2. CASE managers[t] # NoManager
  BY <1>2 DEF Found, ManagersOK
<1> QED BY <1>1, <1>2

LEMMA TrackedIs ==
  ASSUME NEW m, Open(m), NEW b \in Addresses, b \notin DOMAIN m.table, NEW s \in Nat
  PROVE  /\ Open(Tracked(m, b, s)) /\ DOMAIN Tracked(m, b, s).table = DOMAIN m.table \cup {b}
         /\ Tracked(m, b, s).table[b] = s
         /\ \A x \in DOMAIN m.table : Tracked(m, b, s).table[x] = m.table[x]
<1> DEFINE f == m.table
           g == With(f, b, s)
<1>1. Tracked(m, b, s).table = g /\ Tracked(m, b, s).used = m.used + s
  BY DEF Tracked
<1>2. DOMAIN g = DOMAIN f \cup {b} /\ g[b] = s /\ \A x \in DOMAIN f : g[x] = f[x]
  BY DEF With
<1>3. /\ IsFiniteSet(DOMAIN f) /\ DOMAIN f \subseteq Addresses /\ b \notin DOMAIN f
      /\ \A x \in DOMAIN f : f[x] \in Nat
  BY DEF Open
<1>4. m.used = Total(f)
  BY DEF Open
<1> HIDE DEF f
<1>5. Total(g) = Total(f) + s
  BY <1>3, TotalWith
<1>6. IsFiniteSet(DOMAIN f \cup {b})
  BY <1>3, FS_AddElement
<1> HIDE DEF g
<1>7. Open(Tracked(m, b, s))
  BY <1>1, <1>2, <1>3, <1>4, <1>5, <1>6 DEF Open
<1> QED BY <1>1, <1>2, <1>7 DEF f

LEMMA UntrackedIs ==
  ASSUME NEW m, Open(m), NEW b \in DOMAIN m.table
  PROVE  /\ Open(Untracked(m, b)) /\ DOMAIN Untracked(m, b).table = DOMAIN m.table \ {b}
         /\ \A x \in DOMAIN m.table \ {b} : Untracked(m, b).table[x] = m.table[x]
<1> DEFINE f == m.table
           g == Without(f, b)
<1>1. Untracked(m, b).table = g /\ Untracked(m, b).used = m.used - f[b]
  BY DEF Untracked
<1>2. DOMAIN g = DOMAIN f \ {b} /\ \A x \in DOMAIN f \ {b} : g[x] = f[x]
  BY DEF Without, Restrict
<1>3. /\ IsFiniteSet(DOMAIN f) /\ DOMAIN f \subseteq Addresses /\ b \in DOMAIN f
      /\ \A x \in DOMAIN f : f[x] \in Nat
  BY DEF Open
<1>4. m.used = Total(f)
  BY DEF Open
<1> HIDE DEF f
<1>5. Total(g) = Total(f) - f[b]
  BY <1>3, TotalWithout
<1>6. IsFiniteSet(DOMAIN f \ {b})
  BY <1>3, FS_RemoveElement
<1> HIDE DEF g
<1>7. Open(Untracked(m, b))
  BY <1>1, <1>2, <1>3, <1>4, <1>5, <1>6 DEF Open
<1> QED BY <1>1, <1>2, <1>7 DEF f

(* The array has room for every thread that has a table. *)
LEMMA ManagesRoom ==
  ASSUME ManagersOK, NEW t \in Managers, NEW m, Manages(t, m)
  PROVE  /\ capacity' \in Nat /\ capacity' # 1 /\ capacity <= capacity' /\ (t < capacity' \/ t = Shared)
         /\ worker' \in [Threads -> {"runs", "reads", "reads moved", "ended"}]
<1>1. capacity \in Nat /\ capacity # 1
  BY DEF ManagersOK
<1>2. worker' \in [Threads -> {"runs", "reads", "reads moved", "ended"}]
  BY DEF ManagersOK, Manages
<1>3. CASE t = Shared
  <2>1. capacity' = capacity
    BY <1>3 DEF Manages
  <2>2. capacity' \in Nat /\ capacity' # 1 /\ capacity <= capacity'
    BY <1>1, <2>1
  <2> QED BY <1>2, <1>3, <2>2
<1>4. CASE t # Shared
  <2> DEFINE size == IF capacity = 0 THEN InitialTables ELSE capacity
  <2>1. capacity' = Grown(t, size)
    BY <1>4 DEF Manages
  <2>2. t \in Nat /\ size \in Nat /\ 2 <= size /\ capacity <= size
    <3>1. t \in Nat /\ InitialTables \in Nat /\ 2 <= InitialTables
      BY <1>4, Numbers
    <3> QED BY <1>1, <3>1
  <2> HIDE DEF size
  <2>3. capacity' \in Nat /\ t < capacity' /\ size <= capacity'
    BY <2>1, <2>2, GrownIs
  <2>4. capacity' # 1 /\ capacity <= capacity'
    BY <1>1, <2>2, <2>3
  <2> QED BY <1>2, <2>3, <2>4
<1> QED BY <1>3, <1>4

LEMMA ManagesKeeps ==
  ASSUME ManagersOK, NEW t \in Managers, NEW m, Manages(t, m), Open(m), UNCHANGED trouble,
         DOMAIN ownerOf' \subseteq Addresses, \A b \in DOMAIN ownerOf' : ownerOf'[b] \in Managers \cup {Nobody},
         DOMAIN m.table = Theirs(ownerOf', t),
         \A u \in Managers : u # t => Theirs(ownerOf', u) = Theirs(ownerOf, u)
  PROVE  /\ ManagersOK' /\ managers'[t] = m
         /\ \A u \in Managers : u # t => managers'[u] = managers[u]
<1>1. managers' = [managers EXCEPT ![t] = m] /\ managers = [u \in Managers |-> managers[u]]
  BY DEF Manages, ManagersOK
<1>2. /\ managers' = [u \in Managers |-> managers'[u]] /\ managers'[t] = m
      /\ \A u \in Managers : u # t => managers'[u] = managers[u]
  BY <1>1
<1>3. /\ capacity' \in Nat /\ capacity' # 1 /\ capacity <= capacity' /\ (t < capacity' \/ t = Shared)
      /\ worker' \in [Threads -> {"runs", "reads", "reads moved", "ended"}]
  BY ManagesRoom
<1>4. trouble' \in {"none", "not the owner", "read freed array"}
  BY DEF ManagersOK
<1>5. ASSUME NEW u \in Managers
      PROVE  /\ DOMAIN managers'[u].table = Theirs(ownerOf', u)
             /\ managers'[u] # NoManager => Open(managers'[u]) /\ (u < capacity' \/ u = Shared)
  <2>1. CASE u = t
    BY <1>2, <1>3, <2>1
  <2>2. CASE u # t
    <3>1. /\ DOMAIN managers[u].table = Theirs(ownerOf, u)
          /\ managers[u] # NoManager => Open(managers[u]) /\ (u < capacity \/ u = Shared)
      BY DEF ManagersOK
    <3>2. u < capacity => u < capacity'
      <4>1. u \in Int /\ capacity \in Nat
        BY Numbers DEF ManagersOK
      <4>2. capacity' \in Nat /\ capacity <= capacity'
        BY <1>3
      <4> QED BY <4>1, <4>2
    <3> QED BY <1>2, <2>2, <3>1, <3>2
  <2> QED BY <2>1, <2>2
<1> QED BY <1>2, <1>3, <1>4, <1>5 DEF ManagersOK

(* A new block, a block that goes, and one that takes the place of another. *)
LEMMA AllocatingKeeps ==
  ASSUME ManagersOK, NEW t \in Managers, NEW b \in Unused, NEW s \in Nat, UNCHANGED trouble,
         Manages(t, Tracked(Found(t), b, s)), ownerOf' = With(ownerOf, b, t)
  PROVE  /\ ManagersOK' /\ managers'[t].table[b] = s /\ b \in DOMAIN managers'[t].table
         /\ \A x \in DOMAIN managers[t].table :
              x \in DOMAIN managers'[t].table /\ managers'[t].table[x] = managers[t].table[x]
         /\ \A u \in Managers : u # t => managers'[u] = managers[u]
<1> DEFINE m == Tracked(Found(t), b, s)
<1>1. b \in Addresses /\ b \notin DOMAIN ownerOf
  BY DEF Unused
<1>2. /\ Open(Found(t)) /\ Found(t).table = managers[t].table
      /\ DOMAIN Found(t).table = Theirs(ownerOf, t) /\ b \notin DOMAIN Found(t).table
  BY <1>1, FoundIs DEF Theirs
<1>3. /\ Open(m) /\ DOMAIN m.table = Theirs(ownerOf, t) \cup {b} /\ m.table[b] = s
      /\ \A x \in DOMAIN managers[t].table : m.table[x] = managers[t].table[x]
  BY <1>1, <1>2, TrackedIs
<1>4. /\ DOMAIN ownerOf' \subseteq Addresses
      /\ \A x \in DOMAIN ownerOf' : ownerOf'[x] \in Managers \cup {Nobody}
  BY <1>1 DEF ManagersOK, With
<1>5. \A u \in Managers : Theirs(ownerOf', u) = IF u = t THEN Theirs(ownerOf, u) \cup {b} ELSE Theirs(ownerOf, u)
  BY <1>1, TheirsWith
<1>6. Manages(t, m)
  OBVIOUS
<1> HIDE DEF m
<1>7. DOMAIN m.table = Theirs(ownerOf', t) /\ \A u \in Managers : u # t => Theirs(ownerOf', u) = Theirs(ownerOf, u)
  BY <1>3, <1>5
<1>8. ManagersOK' /\ managers'[t] = m /\ \A u \in Managers : u # t => managers'[u] = managers[u]
  BY <1>3, <1>4, <1>6, <1>7, ManagesKeeps
<1> QED BY <1>2, <1>3, <1>8

LEMMA FreeingKeeps ==
  ASSUME ManagersOK, NEW t \in Managers, NEW b \in DOMAIN Found(t).table, UNCHANGED trouble,
         Manages(t, Untracked(Found(t), b)), ownerOf' = Without(ownerOf, b)
  PROVE  /\ ManagersOK'
         /\ \A x \in DOMAIN managers[t].table : x # b =>
              x \in DOMAIN managers'[t].table /\ managers'[t].table[x] = managers[t].table[x]
         /\ \A u \in Managers : u # t => managers'[u] = managers[u]
<1> DEFINE m == Untracked(Found(t), b)
<1>1. /\ Open(Found(t)) /\ Found(t).table = managers[t].table
      /\ DOMAIN Found(t).table = Theirs(ownerOf, t)
  BY FoundIs
<1>2. b \in DOMAIN ownerOf /\ ownerOf[b] = t
  BY <1>1 DEF Theirs
<1>3. /\ Open(m) /\ DOMAIN m.table = Theirs(ownerOf, t) \ {b}
      /\ \A x \in DOMAIN managers[t].table : x # b => x \in DOMAIN m.table /\ m.table[x] = managers[t].table[x]
  BY <1>1, UntrackedIs
<1>4. /\ DOMAIN ownerOf' \subseteq Addresses
      /\ \A x \in DOMAIN ownerOf' : ownerOf'[x] \in Managers \cup {Nobody}
  BY DEF ManagersOK, Without, Restrict
<1>5. \A u \in Managers : Theirs(ownerOf', u) = Theirs(ownerOf, u) \ {b}
  BY TheirsWithout
<1>6. \A u \in Managers : u # t => b \notin Theirs(ownerOf, u)
  BY <1>2 DEF Theirs
<1>7. Manages(t, m)
  OBVIOUS
<1> HIDE DEF m
<1>8. DOMAIN m.table = Theirs(ownerOf', t) /\ \A u \in Managers : u # t => Theirs(ownerOf', u) = Theirs(ownerOf, u)
  <2>1. DOMAIN m.table = Theirs(ownerOf', t)
    BY <1>3, <1>5
  <2>2. \A u \in Managers : u # t => Theirs(ownerOf', u) = Theirs(ownerOf, u)
    BY <1>5, <1>6
  <2> QED BY <2>1, <2>2
<1>9. ManagersOK' /\ managers'[t] = m /\ \A u \in Managers : u # t => managers'[u] = managers[u]
  BY <1>3, <1>4, <1>7, <1>8, ManagesKeeps
<1> QED BY <1>3, <1>9

LEMMA ReplacingKeeps ==
  ASSUME ManagersOK, NEW t \in Managers, NEW b \in DOMAIN Found(t).table, NEW c \in Unused, NEW s \in Nat,
         UNCHANGED trouble, Manages(t, Untracked(Tracked(Found(t), c, s), b)),
         ownerOf' = With(Without(ownerOf, b), c, t)
  PROVE  /\ ManagersOK' /\ c \in DOMAIN managers'[t].table /\ managers'[t].table[c] = s /\ c # b
         /\ \A x \in DOMAIN managers[t].table : x # b =>
              x \in DOMAIN managers'[t].table /\ managers'[t].table[x] = managers[t].table[x]
         /\ \A u \in Managers : u # t => managers'[u] = managers[u]
<1> DEFINE n == Tracked(Found(t), c, s)
           m == Untracked(n, b)
           o == Without(ownerOf, b)
<1>1. /\ Open(Found(t)) /\ Found(t).table = managers[t].table
      /\ DOMAIN Found(t).table = Theirs(ownerOf, t)
  BY FoundIs
<1>2. /\ b \in DOMAIN ownerOf /\ ownerOf[b] = t /\ b \in Theirs(ownerOf, t)
      /\ c \in Addresses /\ c \notin DOMAIN ownerOf /\ c # b /\ c \notin Theirs(ownerOf, t)
  BY <1>1 DEF Theirs, Unused
<1>3. /\ Open(n) /\ DOMAIN n.table = Theirs(ownerOf, t) \cup {c} /\ n.table[c] = s
      /\ \A x \in DOMAIN managers[t].table : n.table[x] = managers[t].table[x]
  BY <1>1, <1>2, TrackedIs
<1> HIDE DEF n
<1>4. b \in DOMAIN n.table
  BY <1>2, <1>3
<1>5. /\ Open(m) /\ DOMAIN m.table = DOMAIN n.table \ {b}
      /\ \A x \in DOMAIN n.table \ {b} : m.table[x] = n.table[x]
  BY <1>3, <1>4, UntrackedIs
<1>6. DOMAIN o = DOMAIN ownerOf \ {b} /\ \A x \in DOMAIN o : o[x] = ownerOf[x]
  BY DEF Without, Restrict
<1>7. \A u \in Managers : Theirs(o, u) = Theirs(ownerOf, u) \ {b}
  BY TheirsWithout
<1>8. ownerOf' = With(o, c, t) /\ Manages(t, m)
  BY DEF n
<1> HIDE DEF m, o
<1>9. c \notin DOMAIN o
  BY <1>2, <1>6
<1>10. /\ DOMAIN ownerOf' \subseteq Addresses
       /\ \A x \in DOMAIN ownerOf' : ownerOf'[x] \in Managers \cup {Nobody}
  BY <1>2, <1>6, <1>8 DEF ManagersOK, With
<1>11. \A u \in Managers : Theirs(ownerOf', u) = IF u = t THEN Theirs(o, u) \cup {c} ELSE Theirs(o, u)
  BY <1>8, <1>9, TheirsWith
<1>12. \A u \in Managers : u # t => b \notin Theirs(ownerOf, u)
  BY <1>2 DEF Theirs
<1>13. DOMAIN m.table = Theirs(ownerOf', t)
  BY <1>2, <1>3, <1>5, <1>7, <1>11
<1>14. \A u \in Managers : u # t => Theirs(ownerOf', u) = Theirs(ownerOf, u)
  BY <1>7, <1>11, <1>12
<1>15. ManagersOK' /\ managers'[t] = m /\ \A u \in Managers : u # t => managers'[u] = managers[u]
  BY <1>5, <1>8, <1>10, <1>13, <1>14, ManagesKeeps
<1>16. c \in DOMAIN m.table /\ m.table[c] = s
  BY <1>2, <1>3, <1>5
<1>17. \A x \in DOMAIN managers[t].table : x # b => x \in DOMAIN m.table /\ m.table[x] = managers[t].table[x]
  BY <1>1, <1>3, <1>5
<1> QED BY <1>2, <1>15, <1>16, <1>17

(* What Lua has is left alone. *)
LEMMA LuaUntouched ==
  ASSUME LuaOK, UNCHANGED <<lua, luaUsed>>,
         \A b \in DOMAIN lua : /\ b \in DOMAIN managers'[0].table
                               /\ managers'[0].table[b] = managers[0].table[b]
  PROVE  LuaOK'
BY DEF LuaOK

LEMMA LuaIs ==
  ASSUME MemoryInv
  PROVE  /\ IsFiniteSet(DOMAIN Sizes(lua)) /\ DOMAIN Sizes(lua) = DOMAIN lua
         /\ \A b \in DOMAIN lua : Sizes(lua)[b] = lua[b].size /\ Sizes(lua)[b] \in Nat
         /\ DOMAIN lua \subseteq DOMAIN managers[0].table /\ managers[0].table = Found(0).table
         /\ luaUsed = Total(Sizes(lua)) /\ luaUsed \in Nat
<1>1. Open(Found(0)) /\ Found(0).table = managers[0].table
  BY FoundIs, Numbers DEF MemoryInv
<1>2. DOMAIN lua \subseteq DOMAIN managers[0].table
  BY DEF MemoryInv, LuaOK
<1>3. IsFiniteSet(DOMAIN lua)
  BY <1>1, <1>2, FS_Subset DEF Open
<1>4. DOMAIN Sizes(lua) = DOMAIN lua /\ \A b \in DOMAIN lua : Sizes(lua)[b] = lua[b].size
  BY DEF Sizes
<1>5. \A b \in DOMAIN lua : Sizes(lua)[b] \in Nat
  BY <1>4 DEF MemoryInv, LuaOK
<1> DEFINE f == Sizes(lua)
<1>6. IsFiniteSet(DOMAIN f) /\ \A x \in DOMAIN f : f[x] \in Nat
  BY <1>3, <1>4, <1>5
<1> HIDE DEF f
<1>7. Total(f) \in Nat
  BY <1>6, TotalSums, SumCounts
<1>8. luaUsed = Total(f)
  BY DEF MemoryInv, LuaOK, f
<1> QED BY <1>1, <1>2, <1>3, <1>4, <1>5, <1>7, <1>8 DEF f

LEMMA LuaAllocKeeps ==
  ASSUME MemoryInv, LuaAlloc
  PROVE  MemoryInv'
<1>1. PICK b \in Unused, n \in Asked :
         /\ luaUsed + n <= LuaLimit /\ Manages(0, Tracked(Found(0), b, n + Overhead))
         /\ ownerOf' = With(ownerOf, b, 0) /\ lua' = With(lua, b, Header(n))
         /\ luaUsed' = luaUsed + n /\ UNCHANGED trouble
  BY DEF LuaAlloc
<1> DEFINE s == n + Overhead
<1>2. n \in Nat /\ Overhead \in Nat /\ s \in Nat /\ 0 \in Managers /\ ManagersOK
  BY Numbers DEF MemoryInv
<1>3. Manages(0, Tracked(Found(0), b, s))
  BY <1>1
<1> HIDE DEF s
<1>4. /\ ManagersOK' /\ managers'[0].table[b] = s /\ b \in DOMAIN managers'[0].table
      /\ \A x \in DOMAIN managers[0].table :
           x \in DOMAIN managers'[0].table /\ managers'[0].table[x] = managers[0].table[x]
  BY <1>1, <1>2, <1>3, AllocatingKeeps
<1>5. b \notin DOMAIN lua
  <2>1. DOMAIN managers[0].table = Theirs(ownerOf, 0)
    BY <1>2 DEF ManagersOK
  <2> QED BY <2>1, LuaIs DEF Unused, Theirs
<1>6. Sizes(lua') = With(Sizes(lua), b, n)
  BY <1>1, SizesWith
<1>7. Total(Sizes(lua')) = luaUsed + n
  BY <1>2, <1>5, <1>6, LuaIs, TotalWith
<1>8. /\ lua' = [x \in DOMAIN lua' |-> lua'[x]] /\ DOMAIN lua' = DOMAIN lua \cup {b}
      /\ lua'[b] = Header(n) /\ \A x \in DOMAIN lua : lua'[x] = lua[x]
  BY <1>1, <1>5 DEF With
<1>9. ASSUME NEW x \in DOMAIN lua'
      PROVE  /\ lua'[x].size \in Nat /\ lua'[x].canary = lua'[x].size /\ x \in DOMAIN managers'[0].table
             /\ lua'[x].size + Overhead <= managers'[0].table[x]
  <2>1. CASE x = b
    <3>1. lua'[x].size = n /\ lua'[x].canary = n
      BY <1>8, <2>1 DEF Header
    <3>2. n + Overhead <= managers'[0].table[b]
      BY <1>2, <1>4 DEF s
    <3> QED BY <1>2, <1>4, <2>1, <3>1, <3>2
  <2>2. CASE x # b
    <3>1. x \in DOMAIN lua /\ lua'[x] = lua[x]
      BY <1>8, <2>2
    <3> QED BY <1>4, <3>1 DEF MemoryInv, LuaOK
  <2> QED BY <2>1, <2>2
<1>10. luaUsed' = Total(Sizes(lua')) /\ luaUsed' <= LuaLimit
  BY <1>1, <1>7
<1> QED BY <1>4, <1>8, <1>9, <1>10 DEF MemoryInv, LuaOK

LEMMA LuaFreeKeeps ==
  ASSUME MemoryInv, LuaFree
  PROVE  MemoryInv'
<1>1. PICK b \in DOMAIN lua :
         /\ Manages(0, Untracked(Found(0), b))
         /\ ownerOf' = Without(ownerOf, b) /\ lua' = Without(lua, b)
         /\ luaUsed' = IF lua[b].size <= luaUsed THEN luaUsed - lua[b].size ELSE 0
         /\ UNCHANGED trouble
  BY DEF LuaFree
<1>2. 0 \in Managers /\ ManagersOK /\ b \in DOMAIN Found(0).table
  BY Numbers, LuaIs DEF MemoryInv
<1>3. /\ ManagersOK'
      /\ \A x \in DOMAIN managers[0].table : x # b =>
           x \in DOMAIN managers'[0].table /\ managers'[0].table[x] = managers[0].table[x]
  BY <1>1, <1>2, FreeingKeeps
<1>4. Sizes(lua') = Without(Sizes(lua), b)
  BY <1>1, SizesWithout
<1>5. /\ Total(Sizes(lua')) = luaUsed - lua[b].size
      /\ lua[b].size <= luaUsed /\ lua[b].size \in Nat
  <2> DEFINE f == Sizes(lua)
  <2>1. IsFiniteSet(DOMAIN f) /\ b \in DOMAIN f /\ f[b] = lua[b].size /\ luaUsed = Total(f)
        /\ \A x \in DOMAIN f : f[x] \in Nat
    BY LuaIs
  <2> HIDE DEF f
  <2>2. f[b] \in Nat /\ f[b] <= Total(f) /\ Total(Without(f, b)) = Total(f) - f[b]
    BY <2>1, TotalWithout
  <2> QED BY <1>4, <2>1, <2>2 DEF f
<1>6. /\ lua' = [x \in DOMAIN lua' |-> lua'[x]] /\ DOMAIN lua' = DOMAIN lua \ {b}
      /\ \A x \in DOMAIN lua' : lua'[x] = lua[x]
  BY <1>1 DEF Without, Restrict
<1>7. ASSUME NEW x \in DOMAIN lua'
      PROVE  /\ lua'[x].size \in Nat /\ lua'[x].canary = lua'[x].size /\ x \in DOMAIN managers'[0].table
             /\ lua'[x].size + Overhead <= managers'[0].table[x]
  <2>1. x \in DOMAIN lua /\ x # b /\ lua'[x] = lua[x]
    BY <1>6
  <2> QED BY <1>3, <2>1 DEF MemoryInv, LuaOK
<1>8. luaUsed' = Total(Sizes(lua'))
  BY <1>1, <1>5
<1>9. luaUsed' <= LuaLimit
  <2>1. luaUsed <= LuaLimit /\ luaUsed \in Nat /\ LuaLimit \in Nat /\ luaUsed' = luaUsed - lua[b].size
    BY <1>1, <1>5, LuaIs, Numbers DEF MemoryInv, LuaOK
  <2> QED BY <1>5, <2>1
<1> QED BY <1>3, <1>6, <1>7, <1>8, <1>9 DEF MemoryInv, LuaOK

LEMMA LuaShrinkKeeps ==
  ASSUME MemoryInv, LuaShrink
  PROVE  MemoryInv'
<1>1. PICK b \in DOMAIN lua, n \in Asked :
         /\ n <= lua[b].size /\ lua' = [lua EXCEPT ![b] = Header(n)]
         /\ luaUsed' = luaUsed - (lua[b].size - n)
         /\ UNCHANGED <<capacity, managers, ownerOf, worker, trouble>>
  BY DEF LuaShrink
<1> DEFINE f == Sizes(lua)
           g == Without(f, b)
<1>2. ManagersOK'
  BY <1>1 DEF MemoryInv, ManagersOK
<1>3. /\ DOMAIN lua' = DOMAIN lua /\ lua' = [x \in DOMAIN lua' |-> lua'[x]]
      /\ lua'[b] = Header(n) /\ \A x \in DOMAIN lua : x # b => lua'[x] = lua[x]
  BY <1>1 DEF MemoryInv, LuaOK
<1>4. /\ IsFiniteSet(DOMAIN f) /\ DOMAIN f = DOMAIN lua /\ f[b] = lua[b].size /\ luaUsed = Total(f) /\ luaUsed \in Nat
      /\ \A x \in DOMAIN f : f[x] \in Nat /\ f[x] = lua[x].size
  BY LuaIs
<1>5. lua'[b].size = n /\ lua'[b].canary = n
  BY <1>3 DEF Header
<1>6. Sizes(lua') = [x \in DOMAIN f |-> IF x = b THEN n ELSE f[x]]
  BY <1>3, <1>5 DEF Sizes
<1>7. With(g, b, n) = [x \in DOMAIN f |-> IF x = b THEN n ELSE f[x]]
  <2>1. DOMAIN g = DOMAIN f \ {b} /\ \A x \in DOMAIN g : g[x] = f[x]
    BY DEF Without, Restrict
  <2>2. DOMAIN g \cup {b} = DOMAIN f
    BY <1>4, <2>1
  <2> HIDE DEF f, g
  <2> QED BY <2>1, <2>2 DEF With
<1>8. DOMAIN g = DOMAIN f \ {b} /\ \A x \in DOMAIN g : g[x] = f[x]
  BY DEF Without, Restrict
<1> HIDE DEF f
<1>9. Total(f) \in Nat /\ f[b] \in Nat /\ f[b] <= Total(f) /\ Total(g) = Total(f) - f[b]
  BY <1>4, TotalWithout
<1>10. n \in Nat /\ LuaLimit \in Nat
  BY Numbers
<1> HIDE DEF g
<1>11. Total(With(g, b, n)) = Total(g) + n
  <2>1. IsFiniteSet(DOMAIN g)
    BY <1>4, <1>8, FS_RemoveElement
  <2>2. b \notin DOMAIN g /\ \A x \in DOMAIN g : g[x] \in Nat
    BY <1>4, <1>8
  <2> QED BY <1>10, <2>1, <2>2, TotalWith
<1>12. luaUsed' = Total(Sizes(lua'))
  <2>1. Total(Sizes(lua')) = (luaUsed - f[b]) + n
    BY <1>4, <1>6, <1>7, <1>9, <1>11
  <2>2. luaUsed' = luaUsed - (f[b] - n)
    BY <1>1, <1>4
  <2> QED BY <1>4, <1>9, <1>10, <2>1, <2>2
<1>13. luaUsed' <= LuaLimit
  <2>1. luaUsed <= LuaLimit /\ luaUsed' = luaUsed - (f[b] - n) /\ n <= f[b]
    BY <1>1, <1>4 DEF MemoryInv, LuaOK
  <2> QED BY <1>4, <1>9, <1>10, <2>1
<1>14. ASSUME NEW x \in DOMAIN lua'
       PROVE  /\ lua'[x].size \in Nat /\ lua'[x].canary = lua'[x].size /\ x \in DOMAIN managers'[0].table
              /\ lua'[x].size + Overhead <= managers'[0].table[x]
  <2>1. /\ x \in DOMAIN lua /\ lua[x].size \in Nat /\ lua[x].canary = lua[x].size
        /\ x \in DOMAIN managers[0].table /\ lua[x].size + Overhead <= managers[0].table[x]
    BY <1>3 DEF MemoryInv, LuaOK
  <2>2. CASE x = b
    <3>1. managers[0].table[x] \in Nat /\ Overhead \in Nat
      <4>1. Open(Found(0))
        BY FoundIs, Numbers DEF MemoryInv
      <4> QED BY <2>1, <4>1, LuaIs, Numbers DEF Open
    <3>2. n <= lua[x].size
      BY <1>1, <2>2
    <3>3. n + Overhead <= managers[0].table[x]
      BY <1>10, <2>1, <3>1, <3>2
    <3> QED BY <1>1, <1>5, <1>10, <2>1, <2>2, <3>3
  <2>3. CASE x # b
    BY <1>1, <1>3, <2>1, <2>3
  <2> QED BY <2>2, <2>3
<1> QED BY <1>2, <1>3, <1>12, <1>13, <1>14 DEF MemoryInv, LuaOK

LEMMA LuaGrowKeeps ==
  ASSUME MemoryInv, LuaGrow
  PROVE  MemoryInv'
<1>1. PICK b \in DOMAIN lua, c \in Unused, n \in Asked :
         /\ n > lua[b].size /\ luaUsed + (n - lua[b].size) <= LuaLimit
         /\ Manages(0, Untracked(Tracked(Found(0), c, n + Overhead), b))
         /\ ownerOf' = With(Without(ownerOf, b), c, 0) /\ lua' = With(Without(lua, b), c, Header(n))
         /\ luaUsed' = luaUsed + (n - lua[b].size) /\ UNCHANGED trouble
  BY DEF LuaGrow
<1> DEFINE s == n + Overhead
           f == Sizes(lua)
           g == Without(f, b)
           l == Without(lua, b)
<1>2. n \in Nat /\ Overhead \in Nat /\ s \in Nat /\ 0 \in Managers /\ ManagersOK /\ b \in DOMAIN Found(0).table
  BY Numbers, LuaIs DEF MemoryInv
<1>3. Manages(0, Untracked(Tracked(Found(0), c, s), b))
  BY <1>1
<1> HIDE DEF s
<1>4. /\ ManagersOK' /\ c \in DOMAIN managers'[0].table /\ managers'[0].table[c] = s /\ c # b
      /\ \A x \in DOMAIN managers[0].table : x # b =>
           x \in DOMAIN managers'[0].table /\ managers'[0].table[x] = managers[0].table[x]
  BY <1>1, <1>2, <1>3, ReplacingKeeps
<1>5. c \notin DOMAIN lua
  <2>1. DOMAIN managers[0].table = Theirs(ownerOf, 0)
    BY <1>2 DEF ManagersOK
  <2> QED BY <2>1, LuaIs DEF Unused, Theirs
<1>6. Sizes(lua') = With(g, c, n)
  BY <1>1, SizesWith, SizesWithout
<1>7. /\ IsFiniteSet(DOMAIN f) /\ DOMAIN f = DOMAIN lua /\ f[b] = lua[b].size /\ luaUsed = Total(f) /\ luaUsed \in Nat
      /\ \A x \in DOMAIN f : f[x] \in Nat
  BY LuaIs
<1>8. DOMAIN g = DOMAIN f \ {b} /\ \A x \in DOMAIN g : g[x] = f[x]
  BY DEF Without, Restrict
<1>9. /\ DOMAIN lua' = DOMAIN l \cup {c} /\ lua' = [x \in DOMAIN lua' |-> lua'[x]] /\ lua'[c] = Header(n)
      /\ \A x \in DOMAIN lua' : x # c => x \in DOMAIN l /\ lua'[x] = l[x]
  BY <1>1 DEF With
<1>10. \A x \in DOMAIN l : x \in DOMAIN lua /\ x # b /\ l[x] = lua[x]
  BY DEF Without, Restrict
<1> HIDE DEF f, l
<1>11. Total(f) \in Nat /\ f[b] \in Nat /\ f[b] <= Total(f) /\ Total(g) = Total(f) - f[b]
  BY <1>7, TotalWithout
<1> HIDE DEF g
<1>12. Total(With(g, c, n)) = Total(g) + n
  <2>1. IsFiniteSet(DOMAIN g)
    BY <1>7, <1>8, FS_RemoveElement
  <2>2. c \notin DOMAIN g /\ \A x \in DOMAIN g : g[x] \in Nat
    BY <1>5, <1>7, <1>8
  <2> QED BY <1>2, <2>1, <2>2, TotalWith
<1>13. luaUsed' = Total(Sizes(lua')) /\ luaUsed' <= LuaLimit
  <2>1. Total(Sizes(lua')) = (luaUsed - f[b]) + n
    BY <1>6, <1>7, <1>11, <1>12
  <2>2. luaUsed' = luaUsed + (n - f[b]) /\ luaUsed' <= LuaLimit
    BY <1>1, <1>7
  <2> QED BY <1>2, <1>7, <1>11, <2>1, <2>2
<1>14. ASSUME NEW x \in DOMAIN lua'
       PROVE  /\ lua'[x].size \in Nat /\ lua'[x].canary = lua'[x].size /\ x \in DOMAIN managers'[0].table
              /\ lua'[x].size + Overhead <= managers'[0].table[x]
  <2>1. CASE x = c
    <3>1. lua'[x].size = n /\ lua'[x].canary = n
      BY <1>9, <2>1 DEF Header
    <3>2. n + Overhead <= managers'[0].table[c]
      BY <1>2, <1>4 DEF s
    <3> QED BY <1>2, <1>4, <2>1, <3>1, <3>2
  <2>2. CASE x # c
    <3>1. x \in DOMAIN lua /\ x # b /\ lua'[x] = lua[x]
      BY <1>9, <1>10, <2>2
    <3> QED BY <1>4, <3>1 DEF MemoryInv, LuaOK
  <2> QED BY <2>1, <2>2
<1> QED BY <1>4, <1>9, <1>13, <1>14 DEF MemoryInv, LuaOK

LEMMA MallocKeeps ==
  ASSUME MemoryInv, NEW t \in Managers, Malloc(t)
  PROVE  MemoryInv'
<1>1. PICK b \in Unused, s \in Asked :
         /\ Manages(t, Tracked(Found(t), b, s)) /\ ownerOf' = With(ownerOf, b, t)
         /\ UNCHANGED <<lua, luaUsed, trouble>>
  BY DEF Malloc
<1>2. s \in Nat /\ ManagersOK /\ 0 \in Managers
  BY Numbers DEF MemoryInv
<1>3. /\ ManagersOK'
      /\ \A x \in DOMAIN managers[t].table :
           x \in DOMAIN managers'[t].table /\ managers'[t].table[x] = managers[t].table[x]
      /\ \A u \in Managers : u # t => managers'[u] = managers[u]
  BY <1>1, <1>2, AllocatingKeeps
<1>4. \A b2 \in DOMAIN lua : b2 \in DOMAIN managers'[0].table /\ managers'[0].table[b2] = managers[0].table[b2]
  BY <1>2, <1>3, LuaIs
<1> QED BY <1>1, <1>3, <1>4, LuaUntouched DEF MemoryInv

LEMMA ReallocKeeps ==
  ASSUME MemoryInv, NEW t \in Managers, Realloc(t)
  PROVE  MemoryInv'
<1>1. PICK b \in DOMAIN Found(t).table \ DOMAIN lua, c \in Unused, s \in Asked :
         /\ Manages(t, Realloced(Found(t), b, c, s)) /\ ownerOf' = With(Without(ownerOf, b), c, t)
         /\ UNCHANGED <<lua, luaUsed, trouble>>
  BY DEF Realloc
<1>2. /\ s \in Nat /\ ManagersOK /\ 0 \in Managers /\ b \in DOMAIN Found(t).table /\ b \notin DOMAIN lua
      /\ Manages(t, Untracked(Tracked(Found(t), c, s), b))
  BY <1>1, Numbers DEF MemoryInv, Realloced
<1>3. /\ ManagersOK'
      /\ \A x \in DOMAIN managers[t].table : x # b =>
           x \in DOMAIN managers'[t].table /\ managers'[t].table[x] = managers[t].table[x]
      /\ \A u \in Managers : u # t => managers'[u] = managers[u]
  BY <1>1, <1>2, ReplacingKeeps
<1>4. \A b2 \in DOMAIN lua : b2 \in DOMAIN managers'[0].table /\ managers'[0].table[b2] = managers[0].table[b2]
  BY <1>2, <1>3, LuaIs
<1> QED BY <1>1, <1>3, <1>4, LuaUntouched DEF MemoryInv

LEMMA FreeKeeps ==
  ASSUME MemoryInv, NEW t \in Managers, Free(t)
  PROVE  MemoryInv'
<1>1. PICK b \in DOMAIN Found(t).table \ DOMAIN lua :
         /\ Manages(t, Untracked(Found(t), b)) /\ ownerOf' = Without(ownerOf, b)
         /\ UNCHANGED <<lua, luaUsed, trouble>>
  BY DEF Free
<1>2. ManagersOK /\ 0 \in Managers /\ b \in DOMAIN Found(t).table /\ b \notin DOMAIN lua
  BY <1>1, Numbers DEF MemoryInv
<1>3. /\ ManagersOK'
      /\ \A x \in DOMAIN managers[t].table : x # b =>
           x \in DOMAIN managers'[t].table /\ managers'[t].table[x] = managers[t].table[x]
      /\ \A u \in Managers : u # t => managers'[u] = managers[u]
  BY <1>1, <1>2, FreeingKeeps
<1>4. \A b2 \in DOMAIN lua : b2 \in DOMAIN managers'[0].table /\ managers'[0].table[b2] = managers[0].table[b2]
  BY <1>2, <1>3, LuaIs
<1> QED BY <1>1, <1>3, <1>4, LuaUntouched DEF MemoryInv

(* A thread's blocks lose their owner with its table. *)
LEMMA OrphanedIs ==
  ASSUME ManagersOK, NEW G, ownerOf' = Orphaned(G)
  PROVE  /\ DOMAIN ownerOf' \subseteq Addresses
         /\ \A x \in DOMAIN ownerOf' : ownerOf'[x] \in Managers \cup {Nobody}
         /\ \A u \in Managers : Theirs(ownerOf', u) = IF u \in G THEN {} ELSE Theirs(ownerOf, u)
<1>1. Nobody \notin Managers
  BY Numbers
<1>2. DOMAIN ownerOf \subseteq Addresses /\ \A x \in DOMAIN ownerOf : ownerOf[x] \in Managers \cup {Nobody}
  BY DEF ManagersOK
<1>3. /\ DOMAIN ownerOf' = DOMAIN ownerOf
      /\ \A x \in DOMAIN ownerOf : ownerOf'[x] = IF ownerOf[x] \in G THEN Nobody ELSE ownerOf[x]
  BY DEF Orphaned
<1>4. ASSUME NEW u \in Managers
      PROVE  Theirs(ownerOf', u) = IF u \in G THEN {} ELSE Theirs(ownerOf, u)
  BY <1>1, <1>3 DEF Theirs
<1> QED BY <1>2, <1>3, <1>4

LEMMA WorkerEndsKeeps ==
  ASSUME MemoryInv, NEW t \in Threads \ {0}, WorkerEnds(t)
  PROVE  MemoryInv'
<1>1. /\ managers' = [managers EXCEPT ![t] = NoManager] /\ ownerOf' = Orphaned({t})
      /\ UNCHANGED <<capacity, lua, luaUsed, trouble>>
  BY DEF WorkerEnds
<1>2. /\ ManagersOK /\ LuaOK /\ managers = [u \in Managers |-> managers[u]] /\ t \in Managers /\ t # 0 /\ 0 \in Managers
  BY Numbers DEF MemoryInv, ManagersOK
<1>3. /\ managers' = [u \in Managers |-> managers'[u]] /\ managers'[t] = NoManager
      /\ \A u \in Managers : u # t => managers'[u] = managers[u]
  BY <1>1, <1>2
<1>4. /\ DOMAIN ownerOf' \subseteq Addresses
      /\ \A x \in DOMAIN ownerOf' : ownerOf'[x] \in Managers \cup {Nobody}
      /\ \A u \in Managers : Theirs(ownerOf', u) = IF u \in {t} THEN {} ELSE Theirs(ownerOf, u)
  BY <1>1, <1>2, OrphanedIs
<1>5. worker' \in [Threads -> {"runs", "reads", "reads moved", "ended"}]
  BY <1>2 DEF ManagersOK, WorkerEnds
<1>6. trouble' \in {"none", "not the owner", "read freed array"}
  BY <1>1, <1>2 DEF ManagersOK
<1>7. ASSUME NEW u \in Managers
      PROVE  /\ DOMAIN managers'[u].table = Theirs(ownerOf', u)
             /\ managers'[u] # NoManager => Open(managers'[u]) /\ (u < capacity' \/ u = Shared)
  <2>1. CASE u = t
    <3>1. DOMAIN NoManager.table = {}
      BY DEF NoManager
    <3> QED BY <1>3, <1>4, <2>1, <3>1
  <2>2. CASE u # t
    BY <1>1, <1>2, <1>3, <1>4, <2>2 DEF ManagersOK
  <2> QED BY <2>1, <2>2
<1>8. capacity' \in Nat /\ capacity' # 1
  BY <1>1, <1>2 DEF ManagersOK
<1>9. ManagersOK'
  BY <1>3, <1>4, <1>5, <1>6, <1>7, <1>8 DEF ManagersOK
<1>10. LuaOK'
  BY <1>1, <1>2, <1>3 DEF LuaOK
<1> QED BY <1>9, <1>10 DEF MemoryInv

LEMMA DestroyAllKeeps ==
  ASSUME MemoryInv, DestroyAll
  PROVE  MemoryInv'
<1>1. /\ capacity' = 0 /\ managers' = [t \in Managers |-> NoManager] /\ ownerOf' = Orphaned(Managers)
      /\ lua = <<>> /\ UNCHANGED <<lua, luaUsed, worker, trouble>>
  BY DEF DestroyAll
<1>2. ManagersOK /\ LuaOK
  BY DEF MemoryInv
<1>3. /\ DOMAIN ownerOf' \subseteq Addresses
      /\ \A x \in DOMAIN ownerOf' : ownerOf'[x] \in Managers \cup {Nobody}
      /\ \A u \in Managers : Theirs(ownerOf', u) = IF u \in Managers THEN {} ELSE Theirs(ownerOf, u)
  BY <1>1, <1>2, OrphanedIs
<1>4. DOMAIN NoManager.table = {}
  BY DEF NoManager
<1>5. /\ managers' = [t \in Managers |-> managers'[t]] /\ \A t \in Managers : managers'[t] = NoManager
  BY <1>1
<1>6. /\ worker' \in [Threads -> {"runs", "reads", "reads moved", "ended"}]
      /\ trouble' \in {"none", "not the owner", "read freed array"}
  BY <1>1, <1>2 DEF ManagersOK
<1>7. capacity' \in Nat /\ capacity' # 1
  BY <1>1
<1>8. ManagersOK'
  BY <1>3, <1>4, <1>5, <1>6, <1>7 DEF ManagersOK
<1>9. LuaOK'
  <2>1. DOMAIN lua' = {} /\ lua' = lua /\ luaUsed' = luaUsed
    BY <1>1
  <2>2. /\ lua' = [b \in DOMAIN lua' |-> lua'[b]] /\ luaUsed' = Total(Sizes(lua')) /\ luaUsed' <= LuaLimit
    BY <1>2, <2>1 DEF LuaOK
  <2> QED BY <2>1, <2>2 DEF LuaOK
<1> QED BY <1>8, <1>9 DEF MemoryInv

(* What touches no table. *)
LEMMA QuietKeeps ==
  ASSUME MemoryInv, UNCHANGED <<capacity, managers, ownerOf, lua, luaUsed>>,
         worker' \in [Threads -> {"runs", "reads", "reads moved", "ended"}],
         trouble' \in {"none", "not the owner", "read freed array"}
  PROVE  MemoryInv'
BY DEF MemoryInv, ManagersOK, LuaOK

(* A block of a thread's own is in its table. *)
LEMMA FreeForeignKeeps ==
  ASSUME MemoryInv, NEW t \in Managers, FreeForeign(t)
  PROVE  MemoryInv'
<1>1. PICK b \in DOMAIN ownerOf \ DOMAIN Found(t).table :
         /\ trouble' = IF ownerOf[b] = t THEN "own block" ELSE "not the owner"
         /\ UNCHANGED <<capacity, managers, ownerOf, lua, luaUsed, worker>>
  BY DEF FreeForeign
<1>2. DOMAIN Found(t).table = Theirs(ownerOf, t)
  BY FoundIs DEF MemoryInv
<1>3. ownerOf[b] # t
  BY <1>1, <1>2 DEF Theirs
<1>4. trouble' \in {"none", "not the owner", "read freed array"}
  BY <1>1, <1>3
<1>5. worker' \in [Threads -> {"runs", "reads", "reads moved", "ended"}]
  BY <1>1 DEF MemoryInv, ManagersOK
<1> QED BY <1>1, <1>4, <1>5, QuietKeeps

LEMMA WorkerReadsKeeps ==
  ASSUME MemoryInv, NEW t \in Threads \ {0}, WorkerReads(t) \/ WorkerReadsFreed(t)
  PROVE  MemoryInv'
<1>1. /\ UNCHANGED <<capacity, managers, ownerOf, lua, luaUsed>>
      /\ worker' = worker \/ worker' = [worker EXCEPT ![t] = "reads"]
      /\ trouble' = trouble \/ trouble' = "read freed array"
  BY DEF WorkerReads, WorkerReadsFreed
<1>2. /\ worker \in [Threads -> {"runs", "reads", "reads moved", "ended"}]
      /\ trouble \in {"none", "not the owner", "read freed array"}
  BY DEF MemoryInv, ManagersOK
<1>3. worker' \in [Threads -> {"runs", "reads", "reads moved", "ended"}]
  BY <1>1, <1>2
<1>4. trouble' \in {"none", "not the owner", "read freed array"}
  BY <1>1, <1>2
<1> QED BY <1>1, <1>3, <1>4, QuietKeeps

LEMMA MemoryStart ==
  ASSUME MemoryInit
  PROVE  MemoryInv
<1> DEFINE e == <<>>
<1>1. DOMAIN e = {} /\ Total(e) = 0 /\ e = [b \in DOMAIN e |-> e[b]]
  BY TotalEmpty
<1>2. Sizes(e) = e
  BY DEF Sizes
<1>3. ownerOf = e /\ lua = e /\ luaUsed = 0 /\ capacity = 0 /\ managers = [t \in Managers |-> NoManager]
  BY DEF MemoryInit
<1>4. DOMAIN NoManager.table = {}
  BY DEF NoManager
<1> HIDE DEF e
<1>5. LuaOK
  <2>1. luaUsed <= LuaLimit
    BY <1>3, Numbers
  <2> QED BY <1>1, <1>2, <1>3, <2>1 DEF LuaOK
<1>6. \A t \in Managers : managers[t] = NoManager /\ DOMAIN managers[t].table = Theirs(ownerOf, t)
  BY <1>1, <1>3, <1>4 DEF Theirs
<1>7. worker \in [Threads -> {"runs", "reads", "reads moved", "ended"}]
  BY DEF MemoryInit
<1>8. trouble \in {"none", "not the owner", "read freed array"}
  BY DEF MemoryInit
<1>9. capacity \in Nat /\ capacity # 1
  BY <1>3
<1>10. managers = [t \in Managers |-> managers[t]] /\ DOMAIN ownerOf = {}
  BY <1>1, <1>3
<1>11. ManagersOK
  BY <1>6, <1>7, <1>8, <1>9, <1>10 DEF ManagersOK
<1> QED BY <1>5, <1>11 DEF MemoryInv

LEMMA MemoryStep ==
  ASSUME MemoryInv, [MemoryNext]_memoryVars
  PROVE  MemoryInv'
<1>1. ASSUME NEW t \in Managers, Malloc(t) \/ Realloc(t) \/ Free(t) \/ FreeForeign(t)
      PROVE  MemoryInv'
  BY <1>1, MallocKeeps, ReallocKeeps, FreeKeeps, FreeForeignKeeps
<1>2. ASSUME LuaAlloc \/ LuaFree \/ LuaShrink \/ LuaGrow
      PROVE  MemoryInv'
  BY <1>2, LuaAllocKeeps, LuaFreeKeeps, LuaShrinkKeeps, LuaGrowKeeps
<1>3. ASSUME NEW t \in Threads \ {0}, WorkerReads(t) \/ WorkerEnds(t) \/ WorkerReadsFreed(t)
      PROVE  MemoryInv'
  BY <1>3, WorkerReadsKeeps, WorkerEndsKeeps
<1>4. CASE DestroyAll
  BY <1>4, DestroyAllKeeps
<1>5. CASE UNCHANGED memoryVars
  BY <1>5 DEF memoryVars, MemoryInv, ManagersOK, LuaOK
<1> QED BY <1>1, <1>2, <1>3, <1>4, <1>5 DEF MemoryNext

(* What an owner frees it may free, and every block passes Lua's check. *)
LEMMA MemoryInvSound ==
  ASSUME MemoryInv
  PROVE  MemorySound /\ MemoryTypeOK
<1>1. /\ ManagersOK /\ LuaOK /\ managers = [t \in Managers |-> managers[t]]
  BY DEF MemoryInv, ManagersOK
<1>2. ASSUME NEW t \in Managers
      PROVE  /\ managers[t].used \in Nat \cup {-1} /\ DOMAIN managers[t].table \subseteq Addresses
             /\ Range(managers[t].table) \subseteq Nat
             /\ managers[t] # NoManager => managers[t].used = Total(managers[t].table)
  <2>1. CASE managers[t] = NoManager
    <3>1. managers[t].used = -1 /\ DOMAIN managers[t].table = {}
      BY <2>1 DEF NoManager
    <3> QED BY <2>1, <3>1 DEF Range
  <2>2. CASE managers[t] # NoManager
    <3>1. /\ IsFiniteSet(DOMAIN managers[t].table) /\ DOMAIN managers[t].table \subseteq Addresses
          /\ \A b \in DOMAIN managers[t].table : managers[t].table[b] \in Nat
          /\ managers[t].used = Total(managers[t].table)
      BY <1>1, <2>2 DEF ManagersOK, Open
    <3>2. Total(managers[t].table) \in Nat
      BY <3>1, TotalSums, SumCounts
    <3> QED BY <3>1, <3>2 DEF Range
  <2> QED BY <2>1, <2>2
<1>3. TablesExact
  BY <1>1, <1>2 DEF TablesExact, ManagersOK, Theirs
<1>4. ASSUME NEW b \in DOMAIN lua
      PROVE  /\ Valid(b) /\ b \in DOMAIN managers[0].table /\ lua[b].canary + Overhead <= managers[0].table[b]
  <2> DEFINE f == Sizes(lua)
  <2>1. /\ IsFiniteSet(DOMAIN f) /\ DOMAIN f = DOMAIN lua /\ f[b] = lua[b].size /\ luaUsed = Total(f) /\ luaUsed \in Nat
        /\ \A x \in DOMAIN f : f[x] \in Nat
    BY LuaIs
  <2> HIDE DEF f
  <2>2. f[b] \in Nat /\ f[b] <= Total(f)
    BY <2>1, TotalWithout
  <2>3. lua[b].size <= LuaLimit
    <3>1. luaUsed <= LuaLimit /\ LuaLimit \in Nat
      BY <1>1, Numbers DEF LuaOK
    <3> QED BY <2>1, <2>2, <3>1
  <2> QED BY <1>1, <2>3 DEF LuaOK, Valid
<1>5. luaUsed = Total([b \in DOMAIN lua |-> lua[b].size]) /\ luaUsed <= LuaLimit /\ luaUsed \in Nat
  BY <1>1, LuaIs DEF LuaOK, Sizes
<1>6. LuaWithinLimit
  BY <1>4, <1>5 DEF LuaWithinLimit
<1>7. trouble \in {"none", "not the owner", "read freed array"}
  BY <1>1 DEF ManagersOK
<1>8. trouble # "own block" /\ trouble \in {"none", "own block", "not the owner", "read freed array"}
  BY <1>7
<1>9. MemorySound
  BY <1>3, <1>6, <1>8 DEF MemorySound
<1>10. DOMAIN managers = Managers /\ DOMAIN ownerOf \subseteq Addresses /\ Range(ownerOf) \subseteq Managers \cup {Nobody}
  BY <1>1 DEF ManagersOK, Range
<1>11. \A b \in DOMAIN lua : {lua[b].size, lua[b].canary} \subseteq Nat
  BY <1>1 DEF LuaOK
<1>12. capacity \in Nat /\ worker \in [Threads -> {"runs", "reads", "reads moved", "ended"}]
  BY <1>1 DEF ManagersOK
<1>13. MemoryTypeOK
  BY <1>2, <1>5, <1>8, <1>10, <1>11, <1>12 DEF MemoryTypeOK
<1> QED BY <1>9, <1>13

(* The inductive invariant of the memory manager: a thread's table has the  *)
(* blocks it owns and their sum, and each of Lua's blocks, with its header  *)
(* and its canary, fits the block that the main thread's table has for it.  *)
THEOREM MemoryInvariance == MemorySpec => []MemoryInv
<1>1. MemoryInit => MemoryInv
  BY MemoryStart
<1>2. MemoryInv /\ [MemoryNext]_memoryVars => MemoryInv'
  BY MemoryStep
<1> QED BY <1>1, <1>2, PTL DEF MemorySpec

(* The memory manager's state is always of its types. *)
THEOREM MemoryTypeCorrect == MemorySpec => []MemoryTypeOK
<1>1. MemoryInv => MemoryTypeOK
  BY MemoryInvSound
<1> QED BY <1>1, MemoryInvariance, PTL

(* Whatever order threads start, end and share blocks in, and Lua's blocks  *)
(* change in, tables and sizes stay true, and freeing a block of one's own  *)
(* never ends the program: any number of threads, blocks and sizes.         *)
THEOREM MemoryStaysSound == MemorySpec => []MemorySound
<1>1. MemoryInv => MemorySound
  BY MemoryInvSound
<1> QED BY <1>1, MemoryInvariance, PTL
-----------------------------------------------------------------------------
(* The three together.                                                      *)

ThreadsInv == HttpInv /\ SoundInv /\ MemoryInv /\ threadsOf \in {"http", "sound", "memory"}

LEMMA ThreadsStep == ThreadsInv /\ [ThreadsNext]_threadsVars => ThreadsInv'
<1> SUFFICES ASSUME ThreadsInv, [ThreadsNext]_threadsVars
             PROVE  ThreadsInv'
  OBVIOUS
<1>1. /\ [HttpNext]_httpVars /\ [SoundNext]_soundVars /\ [MemoryNext]_memoryVars
      /\ threadsOf' = threadsOf
  BY DEF ThreadsNext, threadsVars
<1>2. HttpInv'
  BY <1>1, HttpInvNext DEF ThreadsInv
<1>3. SoundInv'
  BY <1>1, SoundKeeps DEF ThreadsInv
<1>4. MemoryInv'
  BY <1>1, MemoryStep DEF ThreadsInv
<1> QED BY <1>1, <1>2, <1>3, <1>4 DEF ThreadsInv

(* In a behaviour of any of the three components, all that threads share is *)
(* of its types, whatever the threads of that component do.                 *)
THEOREM ThreadsTypeCorrect == ThreadsSpec => []ThreadsTypeOK
<1>1. ThreadsInit => ThreadsInv
  <2> SUFFICES ASSUME ThreadsInit
               PROVE  ThreadsInv
    OBVIOUS
  <2>1. HttpInit /\ SoundInit /\ MemoryInit /\ threadsOf \in {"http", "sound", "memory"}
    BY DEF ThreadsInit
  <2> QED BY <2>1, HttpInvInit, SoundStarts, MemoryStart DEF ThreadsInv
<1>2. ThreadsInv => ThreadsTypeOK
  BY MemoryInvSound DEF ThreadsInv, ThreadsTypeOK, HttpInv, SoundInv
<1> QED BY <1>1, <1>2, ThreadsStep, PTL DEF ThreadsSpec
=============================================================================
