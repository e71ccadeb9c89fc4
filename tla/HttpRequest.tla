---------------------------- MODULE HttpRequest ----------------------------
(***************************************************************************)
(* HTTP requests of scripts (types/http.c, types/http_lua.c) as clients of *)
(* the job queue, which is taken at its abstract word: the actions on a    *)
(* job are those of JobService, which JobQueue implements.                 *)
(*                                                                         *)
(* A request object is shared by the Lua proxy that owns it, by the worker *)
(* that fetches its URL, and by the callback and the cleanup of its job on *)
(* the main thread.  A job's worker is a state machine over steps 0 to 9   *)
(* of the code; `step` names them.  What a worker holds is a set of        *)
(* resources, so that a forgotten one stays visible when the worker ends.  *)
(***************************************************************************)
EXTENDS Naturals, FiniteSets

CONSTANTS
  Requests,    \* request objects
  NoRequest,   \* of a job that was not pushed
  HttpJobs,    \* job ids handed out for them
  MaxHops,     \* state->max_redirects (10 in the code)
  MaxAddrs     \* bound: addresses that getaddrinfo finds for a host

ASSUME HttpAssumption == /\ NoRequest \notin Requests
                         /\ IsFiniteSet(HttpJobs)
                         /\ MaxHops \in Nat \ {0}
                         /\ MaxAddrs \in Nat \ {0}

VARIABLES
  httpPhase, httpDoomed, httpClosing,  \* the jobs, as JobService has them
  owner,      \* the request a job was pushed for
  object,     \* the EseHttpRequest: unused, live, freed
  secure,     \* request->is_https
  anchored,   \* request->lua_ref # LUA_NOREF: the registry keeps the proxy
  proxy,      \* the script's side: none, held, dropped, collected
  done,       \* request->done
  work,       \* of each job: the locals of its worker
  misuse      \* memory touched that is not there: the kinds of access

httpVars == <<httpPhase, httpDoomed, httpClosing, owner, object, secure,
              anchored, proxy, done, work, misuse>>
luaSide  == <<object, secure, anchored, proxy, done>>
jobSide  == <<httpPhase, httpDoomed, httpClosing, owner>>

Jobs == INSTANCE JobService
          WITH Jobs <- HttpJobs, phase <- httpPhase, doomed <- httpDoomed,
               closing <- httpClosing

Steps == {"setup", "handshake", "lookup", "connect", "await", "send",
          "receive", "parse", "finish", "out"}
Resources == {"addrs", "socket", "tls", "headers", "raw", "body"}
Accesses  == {"request", "session", "proxy"}

(* tls is state->current_is_https, hops is redirect_count, addrs counts the *)
(* addresses from addrinfo_current on, result tells whether a JobResult     *)
(* exists.  left and raised are history: a redirect led away from a TLS     *)
(* server, or from a plain one to a TLS server.                             *)
Locals == [step : Steps, tls : BOOLEAN, hops : 0..MaxHops, addrs : 0..MaxAddrs,
           held : SUBSET Resources, spilled : BOOLEAN, result : BOOLEAN,
           left : BOOLEAN, raised : BOOLEAN]

NoLocals == [step |-> "out", tls |-> FALSE, hops |-> 0, addrs |-> 0, held |-> {},
             spilled |-> FALSE, result |-> FALSE, left |-> FALSE, raised |-> FALSE]

HttpTypeOK == /\ Jobs!STypeOK
              /\ owner \in [HttpJobs -> Requests \cup {NoRequest}]
              /\ object \in [Requests -> {"unused", "live", "freed"}]
              /\ secure \in [Requests -> BOOLEAN]
              /\ anchored \in [Requests -> BOOLEAN]
              /\ proxy \in [Requests -> {"none", "held", "dropped", "collected"}]
              /\ done \in [Requests -> BOOLEAN]
              /\ work \in [HttpJobs -> Locals]
              /\ misuse \subseteq Accesses

HttpInit == /\ Jobs!SInit
            /\ owner = [j \in HttpJobs |-> NoRequest]
            /\ object = [r \in Requests |-> "unused"]
            /\ secure = [r \in Requests |-> FALSE]
            /\ anchored = [r \in Requests |-> FALSE]
            /\ proxy = [r \in Requests |-> "none"]
            /\ done = [r \in Requests |-> FALSE]
            /\ work = [j \in HttpJobs |-> NoLocals]
            /\ misuse = {}
-----------------------------------------------------------------------------
(* The script's side, on the main thread.                                   *)

(* _http_parse_url: the scheme decides is_https; a URL that does not parse  *)
(* makes no request, and the script gets an error.                          *)
SchemeOf == BOOLEAN

(* Mutant: the script's own reference is thought to be enough.              *)
WrongNewRequest(r) == /\ object[r] = "unused" /\ ~httpClosing
                      /\ \E s \in SchemeOf : secure' = [secure EXCEPT ![r] = s]
                      /\ object' = [object EXCEPT ![r] = "live"]
                      /\ proxy' = [proxy EXCEPT ![r] = "held"]
                      /\ UNCHANGED <<jobSide, anchored, done, work, misuse>>

(* HTTP.new anchors the proxy in the registry at once, so that a request    *)
(* that is never started is never collected.                                *)
NewRequest(r) == /\ object[r] = "unused" /\ ~httpClosing
                 /\ \E s \in SchemeOf : secure' = [secure EXCEPT ![r] = s]
                 /\ object' = [object EXCEPT ![r] = "live"]
                 /\ anchored' = [anchored EXCEPT ![r] = TRUE]
                 /\ proxy' = [proxy EXCEPT ![r] = "held"]
                 /\ UNCHANGED <<jobSide, done, work, misuse>>

(* request:start(): nothing keeps a script from starting a request twice.   *)
(* The push comes first; ese_http_request_ref then finds the anchor or, when *)
(* a cleanup has dropped it, makes a second proxy that does not work.       *)
StartRequest(r, j) == /\ proxy[r] = "held"
                      /\ Jobs!Submit(j)
                      /\ owner' = [owner EXCEPT ![j] = r]
                      /\ misuse' = IF anchored[r] THEN misuse
                                                  ELSE misuse \cup {"proxy"}
                      /\ UNCHANGED <<luaSide, work>>

(* The script lets go of the proxy.                                         *)
DropProxy(r) == /\ proxy[r] = "held"
                /\ proxy' = [proxy EXCEPT ![r] = "dropped"]
                /\ UNCHANGED <<jobSide, object, secure, anchored, done, work, misuse>>

(* What __gc frees: a request that C refers to is left alone.               *)
Freed(r) == ~anchored[r]

(* __gc of the proxy.  The registry keeps anchored ones alive; when the Lua *)
(* state closes (after the job queue) all are collected.                    *)
Collect(r) == /\ \/ proxy[r] = "dropped" /\ ~anchored[r]
                 \/ /\ proxy[r] \in {"held", "dropped"}
                    /\ httpClosing
                    /\ \A j \in HttpJobs : httpPhase[j] \in {"new", "reclaimed"}
              /\ proxy' = [proxy EXCEPT ![r] = "collected"]
              /\ object' = [object EXCEPT ![r] = IF Freed(r) THEN "freed" ELSE @]
              /\ UNCHANGED <<jobSide, secure, anchored, done, work, misuse>>
-----------------------------------------------------------------------------
(* The worker, `_http_worker_thread`.                                       *)

(* The step that job j's worker executes; the flag that the loop polls is a *)
(* local of the worker loop, so that cancelling does not end it.            *)
At(j, step) == httpPhase[j] = "running" /\ work[j].step = step

(* The request is read through the pointer the job was pushed with.         *)
Touch(r) == IF object[r] = "live" THEN {} ELSE {"request"}

(* Read or free the TLS contexts: they must have been initialized.          *)
TouchTls(w) == IF "tls" \in w.held THEN {} ELSE {"session"}

(* The locals move on; what this touches is recorded.                       *)
Go(j, w, touched) == /\ work' = [work EXCEPT ![j] = w]
                     /\ misuse' = misuse \cup touched

To(w, step)          == [w EXCEPT !.step = step]
Acquire(w, what)     == [w EXCEPT !.held = @ \cup what,
                                  !.spilled = @ \/ what \cap w.held # {}]
Release(w, what)     == [w EXCEPT !.held = @ \ what]

(* The contexts are freed when the *current* URL is a TLS one.              *)
CloseTls(w) == IF w.tls THEN Release(w, {"tls"}) ELSE w
TlsTouched(w) == IF w.tls THEN TouchTls(w) ELSE {}

(* The job's function returns, with a result or without: the queue drops a  *)
(* job that was called off meanwhile, and frees its result (_http_result_free). *)
Return(j, w, touched) ==
  /\ Go(j, [w EXCEPT !.step = "out", !.result = @ /\ j \notin httpDoomed], touched)
  /\ IF j \in httpDoomed THEN Jobs!Drop(j) ELSE Jobs!FinishJob(j)
  /\ UNCHANGED <<owner, luaSide>>

Continue(j, w, touched) == Go(j, w, touched) /\ UNCHANGED <<jobSide, luaSide>>

(* Mutant: the socket is left open.                                         *)
WrongGiveUp(j, w, touched) ==
  Return(j, Release(CloseTls(w), {"addrs", "raw", "headers", "body"}),
         touched \cup TlsTouched(w))

(* After the loop, on an error or a timeout: everything the locals own.     *)
GiveUp(j, w, touched) ==
  Return(j, Release(CloseTls(w), {"addrs", "socket", "raw", "headers", "body"}),
         touched \cup TlsTouched(w))

(* _http_add_redirect_url: the history also holds the first URL.            *)
AddRedirectUrl(w) == [w EXCEPT !.hops = @ + 1]

(* The function starts: it copies the request's URL parts.                  *)
Begin(j) == /\ Jobs!Start(j)
            /\ Go(j, AddRedirectUrl([NoLocals EXCEPT !.step = "setup",
                                                     !.tls = secure[owner[j]]]),
                  Touch(owner[j]))
            /\ UNCHANGED <<owner, luaSide>>

(* Step 0: set TLS up and connect, or go on to a plain connection.          *)
Setup(j) == /\ At(j, "setup")
            /\ LET w == work[j]
                   up == Acquire(w, {"tls"}) IN
               IF w.tls THEN Continue(j, To(up, "handshake"), {}) \/ GiveUp(j, up, {})
                        ELSE Continue(j, To(w, "lookup"), {})

(* Step 1.  A poll that finds neither an end nor a timeout changes nothing. *)
Handshake(j) == /\ At(j, "handshake")
                /\ \/ Continue(j, To(work[j], "send"), Touch(owner[j]))
                   \/ GiveUp(j, work[j], Touch(owner[j]))

(* Step 2: getaddrinfo.                                                     *)
Lookup(j) == /\ At(j, "lookup")
             /\ \/ \E n \in 1..MaxAddrs :
                     Continue(j, To([Acquire(work[j], {"addrs"}) EXCEPT !.addrs = n],
                                    "connect"), {})
                \/ GiveUp(j, work[j], {})

(* addrinfo_current moves on.                                               *)
NextAddress(w) == To([w EXCEPT !.addrs = @ - 1], "connect")

(* Step 3: try an address: connected, in progress, or failed at once.       *)
Connect(j) == /\ At(j, "connect")
              /\ LET w == work[j]
                     open == Acquire(w, {"socket"}) IN
                 \/ w.addrs = 0 /\ GiveUp(j, Release(w, {"addrs"}), {})
                 \/ /\ w.addrs > 0
                    /\ \/ Continue(j, To(Release(open, {"addrs"}), "send"), {})
                       \/ Continue(j, To(open, "await"), {})
                       \/ Continue(j, NextAddress(w), {})

(* Mutant: the address that failed is tried again.                          *)
WrongAwait(j) ==
  /\ At(j, "await")
  /\ \/ Continue(j, To(Release(work[j], {"addrs"}), "send"), {})
     \/ Continue(j, To(Release(work[j], {"socket"}), "connect"), {})
     \/ GiveUp(j, Release(work[j], {"socket", "addrs"}), Touch(owner[j]))

(* Step 4: connected, failed (on to the next address) or timed out.         *)
Await(j) ==
  /\ At(j, "await")
  /\ \/ Continue(j, To(Release(work[j], {"addrs"}), "send"), {})
     \/ Continue(j, NextAddress(Release(work[j], {"socket"})), {})
     \/ GiveUp(j, Release(work[j], {"socket", "addrs"}), Touch(owner[j]))

(* Step 5: write the request line, make a buffer for the answer.            *)
Send(j) == /\ At(j, "send")
           /\ \/ Continue(j, To(Acquire(work[j], {"raw"}), "receive"), {})
              \/ GiveUp(j, work[j], {})

(* Step 6: the server closes the connection, an error, or the timeout.      *)
Receive(j) == /\ At(j, "receive")
              /\ \/ Continue(j, To(work[j], "parse"), {})
                 \/ GiveUp(j, work[j], Touch(owner[j]))

(* _http_should_follow_redirect, for a redirect status.                     *)
ShouldFollowRedirect(w) == w.hops < MaxHops

(* Mutant: the buffer of the answer is not freed.                           *)
WrongRedirectTo(w, tls) ==
  AddRedirectUrl([Release(w, {"headers", "socket"}) EXCEPT
                    !.step = IF tls THEN "setup" ELSE "lookup",
                    !.tls = tls,
                    !.left = @ \/ w.tls,
                    !.raised = @ \/ (~w.tls /\ tls)])

(* Follow a redirect: the URL parts become the target's, the answer and the *)
(* connection go, and all starts over.  The contexts of TLS stay as they    *)
(* are.                                                                     *)
RedirectTo(w, tls) ==
  AddRedirectUrl([Release(w, {"headers", "raw", "socket", "addrs"}) EXCEPT
                    !.step = IF tls THEN "setup" ELSE "lookup",
                    !.tls = tls,
                    !.left = @ \/ w.tls,
                    !.raised = @ \/ (~w.tls /\ tls)])

(* What the Location header of an answer may hold: an absolute URL has a    *)
(* scheme of its own, anything else is taken for a path of the same host    *)
(* and scheme.                                                              *)
Locations == {"http", "https", "path"}
SchemeAt(location, tls) == IF location = "path" THEN tls ELSE location = "https"

(* The status line and the headers are there.                               *)
Parsed(w) == Acquire(w, {"headers"})

(* Step 7: no status line; a redirect to follow, whose new scheme decides   *)
(* whether the TLS session is told to close; or the final answer (also of a *)
(* redirect that loops, which has no body).                                 *)
Parse(j) ==
  /\ At(j, "parse")
  /\ LET w == work[j]
         parsed == Parsed(w) IN
     \/ GiveUp(j, w, {})
     \/ /\ ShouldFollowRedirect(w)
        /\ \E location \in Locations :
             LET tls == SchemeAt(location, w.tls) IN
               Continue(j, RedirectTo(parsed, tls), IF tls THEN TouchTls(w) ELSE {})
     \/ Continue(j, To(Acquire(parsed, {"body"}), "finish"), {})
     \/ ShouldFollowRedirect(w) /\ Continue(j, To(parsed, "finish"), {})

(* Steps 8 and 9: the result takes the answer, the rest is closed.          *)
Finish(j) == /\ At(j, "finish")
             /\ LET w == work[j] IN
                Return(j, [Release(CloseTls(w), {"headers", "raw", "body", "addrs", "socket"})
                             EXCEPT !.result = TRUE],
                       TlsTouched(w))
-----------------------------------------------------------------------------
(* The main thread, in ese_job_queue_process.                               *)

(* _http_worker_callback: without a result it does nothing.                 *)
HttpCallback(j) == /\ Jobs!Deliver(j)
                   /\ IF work[j].result
                        THEN /\ done' = [done EXCEPT ![owner[j]] = TRUE]
                             /\ misuse' = misuse \cup Touch(owner[j])
                        ELSE UNCHANGED <<done, misuse>>
                   /\ UNCHANGED <<owner, object, secure, anchored, proxy, work>>

(* Mutant: the anchor is not dropped.                                       *)
WrongHttpCleanup(j) == /\ Jobs!Reclaim(j)
                       /\ work' = [work EXCEPT ![j].result = FALSE]
                       /\ misuse' = misuse \cup Touch(owner[j])
                       /\ UNCHANGED <<owner, luaSide>>

(* _http_job_cleanup: the anchor goes, Lua owns the request from here on.   *)
HttpCleanup(j) == /\ Jobs!Reclaim(j)
                  /\ anchored' = [anchored EXCEPT ![owner[j]] = FALSE]
                  /\ work' = [work EXCEPT ![j].result = FALSE]
                  /\ misuse' = misuse \cup Touch(owner[j])
                  /\ UNCHANGED <<owner, object, secure, proxy, done>>

(* ese_job_queue_destroy.                                                   *)
HttpClose == Jobs!Close /\ UNCHANGED <<owner, luaSide, work, misuse>>
-----------------------------------------------------------------------------
WorkerStep(j) == \/ Setup(j) \/ Handshake(j) \/ Lookup(j) \/ Connect(j) \/ Await(j)
                 \/ Send(j) \/ Receive(j) \/ Parse(j) \/ Finish(j)

MainStep == \/ \E r \in Requests : NewRequest(r) \/ DropProxy(r) \/ Collect(r)
            \/ \E r \in Requests, j \in HttpJobs : StartRequest(r, j)
            \/ \E j \in HttpJobs : HttpCallback(j) \/ HttpCleanup(j)
            \/ HttpClose

HttpNext == MainStep \/ \E j \in HttpJobs : Begin(j) \/ WorkerStep(j)

(* The request loop of a worker comes round again until it ends, and every  *)
(* poll of a plain connection returns; a read of a TLS session blocks until *)
(* the server sends something, in the handshake as for the answer.          *)
Blocks(j) == (At(j, "handshake") \/ At(j, "receive")) /\ work[j].tls

HttpFairness == \A j \in HttpJobs : WF_httpVars(~Blocks(j) /\ WorkerStep(j))

HttpSpec == HttpInit /\ [][HttpNext]_httpVars
-----------------------------------------------------------------------------
Started(r) == {j \in HttpJobs : owner[j] = r}

Ended(j) == httpPhase[j] \notin {"new", "queued", "running"}

(* The pointer a job was pushed with is good for all its reads on the worker *)
(* and for its callback and cleanup, whatever the script does with the proxy *)
(* and whenever Lua collects, unless a request was started more than once:   *)
(* the first cleanup then takes the anchor that the other job needs.  And    *)
(* TLS contexts are initialized before they are used or freed, except by a   *)
(* redirect from a plain server to a TLS one: the new scheme is in place     *)
(* before the old connection is closed.                                      *)
HttpSafe ==
  /\ misuse \cap {"request", "proxy"} # {} => \E r \in Requests : Cardinality(Started(r)) > 1
  /\ "session" \in misuse => \E j \in HttpJobs : work[j].raised

(* Whatever a worker opened or allocated is gone when it ends, on every path *)
(* through errors, timeouts and redirects, except after a redirect that left *)
(* a TLS server; no result outlives its cleanup; and of the requests that    *)
(* Lua collects exactly those that were never started stay behind.           *)
HttpNothingLost ==
  /\ \A j \in HttpJobs : Ended(j) /\ ~work[j].left => work[j].held = {} /\ ~work[j].spilled
  /\ \A j \in HttpJobs : httpPhase[j] = "reclaimed" => ~work[j].result
  /\ \A r \in Requests : proxy[r] = "collected" =>
                           (object[r] = "live" <=> Started(r) = {})

(* A worker ends - the queue's destruction waits for it - unless a TLS       *)
(* server keeps it waiting.                                                  *)
HttpWorkersEnd ==
  \A j \in HttpJobs : (httpPhase[j] = "running") ~> (Ended(j) \/ Blocks(j))
=============================================================================
