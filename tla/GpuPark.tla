------------------------------ MODULE GpuPark ------------------------------
(***************************************************************************)
(* One HTTP worker thread and the GPU request it may have in flight        *)
(* (internal/runtime/c/http.go and the GPU half of rt.go).                 *)
(*                                                                         *)
(* A handler that calls gpu.finish does not answer: its request is PARKED, *)
(* the worker returns to its io_uring loop, and three things may tell it   *)
(* that the kernel finished - the query at the top of the loop, the        *)
(* eventfd a CUDA host callback writes, and a one second timeout.  They    *)
(* race; the request must be released exactly once, by the kernel it       *)
(* belongs to.  Requests for a GPU route that arrive meanwhile wait in the *)
(* ready queue.                                                            *)
(*                                                                         *)
(* Abstracted: parsing, sockets and responses, arenas, workspaces, an      *)
(* exhausted submission queue.  Each request arrives complete, on a        *)
(* connection of its own.  The completion queue is a bag: nothing consumed *)
(* from it before one completion disables the posting of another, so every *)
(* order the bag allows is an order the kernel can post in.                *)
(***************************************************************************)
EXTENDS Integers, Sequences, FiniteSets

CONSTANTS
  Reqs,      \* requests whose handler may call gpu.finish (bounds the run)
  Hidden,    \* those on a route the compiler did not flag uses_gpu
  Faults,    \* what may go wrong on the device: subset of {"job", "context"}
  NoReq      \* g_rt_http_parked == NULL

ASSUME ReqsAssumption ==
  /\ NoReq \notin Reqs
  /\ Hidden \subseteq Reqs
  /\ Faults \subseteq {"job", "context"}

Statuses == {"unsent", "cq", "ready", "parked", "answered", "failed", "direct", "dropped"}

VARIABLES
  pc,          \* where the loop of rt_http_worker_thread stands
  ret,         \* where rt_http_drain_ready returns to
  needSubmit,  \* need_submit of the batch, need_sub of the loop top
  parked,      \* g_rt_http_parked
  timerArmed,  \* g_rt_http_gpu_timer_armed
  own,         \* timeouts outstanding whose generation is g_rt_http_gpu_gen
  stale,       \* timeouts outstanding of earlier generations
  polls,       \* polls of the eventfd outstanding
  busy,        \* g_rt_gpu_job_busy
  stream,      \* what cudaEventQuery will say of the event recorded last
  hostPending, \* the host callback is queued and has not run
  eventfd,     \* the eventfd is readable
  dead,        \* the CUDA context is lost, for every worker of the process
  ready,       \* the ready queue, as the requests it leads to
  status,      \* history: what became of each request
  computed,    \* history: the requests whose kernel completed
  closed       \* requests whose client closed its connection

loopVars == <<pc, ret, needSubmit>>
parkVars == <<parked, timerArmed, own, stale>>
cudaVars == <<busy, stream, hostPending, eventfd, dead>>
reqVars  == <<ready, status, computed, closed>>
vars == <<loopVars, parkVars, polls, cudaVars, reqVars>>

----------------------------------------------------------------------------
(* Operations on the ring.  One kind of operation is counted by stage:     *)
(* prepared in the submission queue, owned by the kernel, or completed and *)
(* not yet read.                                                           *)

Counts == [sq : Nat, ring : Nat, cq : Nat]
None == [sq |-> 0, ring |-> 0, cq |-> 0]
Total(q) == q.sq + q.ring + q.cq

Prepared(q)  == [q EXCEPT !.sq = @ + 1]
Submitted(q) == [sq |-> 0, ring |-> q.ring + q.sq, cq |-> q.cq]
Fired(q)     == [sq |-> q.sq, ring |-> q.ring - 1, cq |-> q.cq + 1]
Read(q)      == [q EXCEPT !.cq = @ - 1]
Merged(p, q) == [sq |-> p.sq + q.sq, ring |-> p.ring + q.ring, cq |-> p.cq + q.cq]

(* io_uring_submit *)
SubmitAll ==
  /\ polls' = Submitted(polls)
  /\ own' = Submitted(own)
  /\ stale' = Submitted(stale)

----------------------------------------------------------------------------
(* CUDA as the worker sees it *)

(* rt_gpu_query_job: 0, 1, 2 *)
Query == CASE dead \/ stream = "failed" -> "failed"
           [] ~dead /\ stream = "running" -> "running"
           [] OTHER -> "done"

(* exit(1), from rt_runtime_fail or rt_cuda_check: the process is gone *)
ProcessExits ==
  /\ pc' = "exited"
  /\ UNCHANGED <<ret, needSubmit, parkVars, polls, cudaVars, status, computed, closed>>

----------------------------------------------------------------------------
(* Parking and releasing *)

(* Mutant: no timeout is armed for the request. *)
ParkWithoutTimeout(r) ==
  IF busy \/ dead
  THEN ProcessExits
  ELSE /\ parked' = r
       /\ busy' = TRUE
       /\ stream' = "running"
       /\ status' = [status EXCEPT ![r] = "parked"]
       /\ UNCHANGED <<loopVars, timerArmed, own, stale, polls, hostPending, eventfd, dead,
                      computed, closed>>

(* A handler reaches gpu.finish: rt_http_gpu_finish, rt_gpu_submit_signal  *)
(* (which may fail), rt_http_retain_parked, rt_http_arm_gpu_timeout.       *)
Park(r) ==
  IF busy \/ dead
  THEN ProcessExits
  ELSE /\ parked' = r
       /\ busy' = TRUE
       /\ stream' = "running"
       /\ status' = [status EXCEPT ![r] = "parked"]
       /\ IF timerArmed
          THEN UNCHANGED <<timerArmed, own, needSubmit>>
          ELSE /\ timerArmed' = TRUE
               /\ own' = Prepared(own)
               /\ needSubmit' = TRUE
       /\ UNCHANGED <<pc, ret, stale, polls, hostPending, eventfd, dead, computed, closed>>

(* The handler responds without gpu.finish, or a middleware does. *)
RespondDirectly(r) ==
  /\ status' = [status EXCEPT ![r] = "direct"]
  /\ UNCHANGED <<loopVars, parkVars, polls, cudaVars, computed, closed>>

(* rt_http_dispatch; rest is what the caller leaves in the ready queue, *)
(* unless the process is gone.                                          *)
Dispatch(r, rest) ==
  /\ Park(r) \/ RespondDirectly(r)
  /\ ready' = IF pc' = "exited" THEN ready ELSE rest

(* The answer a released request gets; none if its connection is gone. *)
Outcome(r, failed) ==
  IF r \in closed THEN "dropped" ELSE IF failed THEN "failed" ELSE "answered"

(* Mutant: g_rt_http_gpu_timer_armed is not cleared. *)
ReleaseKeepsTimerFlag(failed, returnTo) ==
  /\ parked' = NoReq
  /\ timerArmed' = timerArmed
  /\ own' = None
  /\ stale' = Merged(stale, own)
  /\ busy' = FALSE
  /\ stream' = IF failed THEN "idle" ELSE stream
  /\ status' = [status EXCEPT ![parked] = Outcome(parked, failed)]
  /\ polls' = Prepared(polls)
  /\ needSubmit' = TRUE
  /\ pc' = "ready"
  /\ ret' = returnTo
  /\ UNCHANGED <<hostPending, eventfd, dead, ready, computed, closed>>

(* Mutant: rt_http_arm_gpu_poll is not called. *)
ReleaseWithoutPoll(failed, returnTo) ==
  /\ parked' = NoReq
  /\ timerArmed' = FALSE
  /\ own' = None
  /\ stale' = Merged(stale, own)
  /\ busy' = FALSE
  /\ stream' = IF failed THEN "idle" ELSE stream
  /\ status' = [status EXCEPT ![parked] = Outcome(parked, failed)]
  /\ polls' = polls
  /\ needSubmit' = TRUE
  /\ pc' = "ready"
  /\ ret' = returnTo
  /\ UNCHANGED <<hostPending, eventfd, dead, ready, computed, closed>>

(* Mutant: rt_http_drain_ready is not called. *)
ReleaseWithoutDrain(failed, returnTo) ==
  /\ parked' = NoReq
  /\ timerArmed' = FALSE
  /\ own' = None
  /\ stale' = Merged(stale, own)
  /\ busy' = FALSE
  /\ stream' = IF failed THEN "idle" ELSE stream
  /\ status' = [status EXCEPT ![parked] = Outcome(parked, failed)]
  /\ polls' = Prepared(polls)
  /\ needSubmit' = TRUE
  /\ pc' = returnTo
  /\ ret' = returnTo
  /\ UNCHANGED <<hostPending, eventfd, dead, ready, computed, closed>>

(* Mutant: g_rt_http_parked is not cleared. *)
ReleaseKeepsParked(failed, returnTo) ==
  /\ parked' = parked
  /\ timerArmed' = FALSE
  /\ own' = None
  /\ stale' = Merged(stale, own)
  /\ busy' = FALSE
  /\ stream' = IF failed THEN "idle" ELSE stream
  /\ status' = [status EXCEPT ![parked] = Outcome(parked, failed)]
  /\ polls' = Prepared(polls)
  /\ needSubmit' = TRUE
  /\ pc' = "ready"
  /\ ret' = returnTo
  /\ UNCHANGED <<hostPending, eventfd, dead, ready, computed, closed>>

(* rt_http_gpu_release up to its rt_http_drain_ready, which goes on at     *)
(* pc = "ready".  The generation moves on: all timeouts become stale.      *)
Release(failed, returnTo) ==
  /\ parked' = NoReq
  /\ timerArmed' = FALSE
  /\ own' = None
  /\ stale' = Merged(stale, own)
  /\ busy' = FALSE
  /\ stream' = IF failed THEN "idle" ELSE stream
  /\ status' = [status EXCEPT ![parked] = Outcome(parked, failed)]
  /\ polls' = Prepared(polls)
  /\ needSubmit' = TRUE
  /\ pc' = "ready"
  /\ ret' = returnTo
  /\ UNCHANGED <<hostPending, eventfd, dead, ready, computed, closed>>

(* A query that found a failure resets the stream (rt_gpu_reset_stream).   *)
(* A lost context refuses the new stream, which ends the process.          *)
ResetAndRelease(returnTo) ==
  IF dead THEN ProcessExits /\ UNCHANGED ready ELSE Release(TRUE, returnTo)

(* What follows a query while a request is parked *)
ReleaseOnQuery(returnTo) ==
  \/ Query = "done" /\ Release(FALSE, returnTo)
  \/ Query = "failed" /\ ResetAndRelease(returnTo)

----------------------------------------------------------------------------
(* The event loop *)

(* The top of the loop *)
LoopTopRelease ==
  /\ pc = "top"
  /\ parked # NoReq
  /\ ReleaseOnQuery("wait")

LoopTopPass ==
  /\ pc = "top"
  /\ parked = NoReq \/ Query = "running"
  /\ pc' = "wait"
  /\ UNCHANGED <<ret, needSubmit, parkVars, polls, cudaVars, reqVars>>

CompletionPosted ==
  \/ polls.cq > 0 \/ own.cq > 0 \/ stale.cq > 0
  \/ \E r \in Reqs : status[r] = "cq"

(* io_uring_wait_cqe returns, with one of these completions or with one of *)
(* another connection; or it is interrupted.                               *)
Wake ==
  /\ pc = "wait"
  /\ pc' = "batch"
  /\ needSubmit' = FALSE
  /\ UNCHANGED <<ret, parkVars, polls, cudaVars, reqVars>>

Interrupted ==
  /\ pc = "wait"
  /\ pc' = "top"
  /\ UNCHANGED <<ret, needSubmit, parkVars, polls, cudaVars, reqVars>>

(* A poll completed: the eventfd is drained before the job is queried. *)
ReadPoll ==
  /\ pc = "batch"
  /\ polls.cq > 0
  /\ polls' = Read(polls)
  /\ eventfd' = FALSE
  /\ pc' = "polled"
  /\ UNCHANGED <<ret, needSubmit, parkVars, busy, stream, hostPending, dead, reqVars>>

RearmPoll ==
  /\ polls' = Prepared(polls)
  /\ needSubmit' = TRUE
  /\ pc' = "batch"
  /\ UNCHANGED <<ret, parkVars, hostPending, eventfd, dead, reqVars>>

PollWithoutJob ==
  /\ pc = "polled"
  /\ parked = NoReq
  /\ IF Query # "failed"
     THEN RearmPoll /\ UNCHANGED <<busy, stream>>
     ELSE IF dead THEN ProcessExits /\ UNCHANGED ready
          ELSE RearmPoll /\ busy' = FALSE /\ stream' = "idle"

(* Mutant: the eventfd is believed without a query. *)
PollBelieved ==
  /\ pc = "polled"
  /\ parked # NoReq
  /\ Release(FALSE, "batch")

PollWithJob ==
  /\ pc = "polled"
  /\ parked # NoReq
  /\ \/ Query = "running" /\ RearmPoll /\ UNCHANGED <<busy, stream>>
     \/ ReleaseOnQuery("batch")

(* A timeout completed.  Any of them clears the flag; only one of the      *)
(* generation of the request in flight leads to a query.                   *)
ReadTimeout ==
  /\ pc = "batch"
  /\ \/ /\ own.cq > 0
        /\ own' = Read(own)
        /\ pc' = IF parked # NoReq THEN "timedOut" ELSE "batch"
        /\ UNCHANGED stale
     \/ /\ stale.cq > 0
        /\ stale' = Read(stale)
        /\ UNCHANGED <<pc, own>>
  /\ timerArmed' = FALSE
  /\ UNCHANGED <<ret, needSubmit, parked, polls, cudaVars, reqVars>>

TimeoutQuery ==
  /\ pc = "timedOut"
  /\ \/ /\ Query = "running"
        /\ own' = Prepared(own)
        /\ timerArmed' = TRUE
        /\ needSubmit' = TRUE
        /\ pc' = "batch"
        /\ UNCHANGED <<ret, parked, stale, polls, cudaVars, reqVars>>
     \/ ReleaseOnQuery("batch")

(* Mutant: the request in flight is not looked at. *)
ReceiveAlwaysDispatches(r) ==
  /\ pc = "batch"
  /\ status[r] = "cq"
  /\ Dispatch(r, ready)

(* Mutant: the newest waiting request is served first. *)
ReceiveQueuesAtHead(r) ==
  /\ pc = "batch"
  /\ status[r] = "cq"
  /\ IF parked # NoReq /\ r \notin Hidden
     THEN /\ ready' = <<r>> \o ready
          /\ status' = [status EXCEPT ![r] = "ready"]
          /\ UNCHANGED <<loopVars, parkVars, polls, cudaVars, computed, closed>>
     ELSE Dispatch(r, ready)

(* A complete request is received: rt_http_drain_conn.  While a request is *)
(* parked those on a flagged route wait, the others are dispatched.        *)
Receive(r) ==
  /\ pc = "batch"
  /\ status[r] = "cq"
  /\ IF parked # NoReq /\ r \notin Hidden
     THEN /\ ready' = Append(ready, r)
          /\ status' = [status EXCEPT ![r] = "ready"]
          /\ UNCHANGED <<loopVars, parkVars, polls, cudaVars, computed, closed>>
     ELSE Dispatch(r, ready)

(* The connection of a request that waits or is parked reports its end. *)
ClientGone(r) ==
  /\ pc = "batch"
  /\ status[r] \in {"ready", "parked"}
  /\ r \notin closed
  /\ closed' = closed \cup {r}
  /\ UNCHANGED <<loopVars, parkVars, polls, cudaVars, ready, status, computed>>

EndBatch ==
  /\ pc = "batch"
  /\ ~CompletionPosted
  /\ pc' = "top"
  /\ IF needSubmit THEN SubmitAll ELSE UNCHANGED <<polls, own, stale>>
  /\ UNCHANGED <<ret, needSubmit, parked, timerArmed, cudaVars, reqVars>>

(* rt_http_drain_ready: one waiting request, or the return to the caller,  *)
(* which at the loop top submits at once.                                  *)
DrainReady ==
  /\ pc = "ready"
  /\ ready # <<>>
  /\ parked = NoReq
  /\ LET r == Head(ready) IN
       IF r \in closed
       THEN /\ ready' = Tail(ready)
            /\ status' = [status EXCEPT ![r] = "dropped"]
            /\ UNCHANGED <<loopVars, parkVars, polls, cudaVars, computed, closed>>
       ELSE Dispatch(r, Tail(ready))

(* Mutant: the loop top forgets its io_uring_submit. *)
DrainReadyReturnsUnsubmitted ==
  /\ pc = "ready"
  /\ ready = <<>> \/ parked # NoReq
  /\ pc' = ret
  /\ UNCHANGED <<ret, needSubmit, parkVars, polls, cudaVars, reqVars>>

DrainReadyReturns ==
  /\ pc = "ready"
  /\ ready = <<>> \/ parked # NoReq
  /\ pc' = ret
  /\ IF ret = "wait" /\ needSubmit
     THEN SubmitAll
     ELSE UNCHANGED <<polls, own, stale>>
  /\ UNCHANGED <<ret, needSubmit, parked, timerArmed, cudaVars, reqVars>>

----------------------------------------------------------------------------
(* The device, the kernel and the clients *)

NotExited == pc # "exited"

(* The kernel of the job and the event behind it complete; the host        *)
(* callback queued next may run.  The callback of the job before ran       *)
(* first: both are on one stream.                                          *)
JobCompletes ==
  /\ NotExited
  /\ stream = "running"
  /\ ~hostPending
  /\ ~dead
  /\ stream' = "done"
  /\ hostPending' = TRUE
  /\ computed' = computed \cup {parked}
  /\ UNCHANGED <<loopVars, parkVars, polls, busy, eventfd, dead, ready, status, closed>>

(* A kernel that failed never reaches its host callback. *)
JobFails ==
  /\ NotExited
  /\ "job" \in Faults
  /\ stream = "running"
  /\ ~hostPending
  /\ stream' = "failed"
  /\ UNCHANGED <<loopVars, parkVars, polls, busy, hostPending, eventfd, dead, reqVars>>

(* A fault that CUDA reports from every later call of the process; the     *)
(* kernel at fault may be one of another worker.                           *)
ContextLost ==
  /\ NotExited
  /\ "context" \in Faults
  /\ ~dead
  /\ dead' = TRUE
  /\ UNCHANGED <<loopVars, parkVars, polls, busy, stream, hostPending, eventfd, reqVars>>

(* trux_rt_gpu_host_signal, on a thread of the driver *)
HostSignal ==
  /\ NotExited
  /\ hostPending
  /\ hostPending' = FALSE
  /\ eventfd' = TRUE
  /\ UNCHANGED <<loopVars, parkVars, polls, busy, stream, dead, reqVars>>

PollFires ==
  /\ NotExited
  /\ eventfd
  /\ polls.ring > 0
  /\ polls' = Fired(polls)
  /\ UNCHANGED <<loopVars, parkVars, cudaVars, reqVars>>

TimerFires ==
  /\ NotExited
  /\ \/ own.ring > 0 /\ own' = Fired(own) /\ UNCHANGED stale
     \/ stale.ring > 0 /\ stale' = Fired(stale) /\ UNCHANGED own
  /\ UNCHANGED <<loopVars, parked, timerArmed, polls, cudaVars, reqVars>>

ClientSends(r) ==
  /\ NotExited
  /\ status[r] = "unsent"
  /\ status' = [status EXCEPT ![r] = "cq"]
  /\ UNCHANGED <<loopVars, parkVars, polls, cudaVars, ready, computed, closed>>

(* The process ended: nothing moves. *)
Exited == pc = "exited" /\ UNCHANGED vars

----------------------------------------------------------------------------
(* rt_http_worker_thread up to its loop: the first poll is submitted. *)
Init ==
  /\ pc = "top"
  /\ ret = "batch"
  /\ needSubmit = FALSE
  /\ parked = NoReq
  /\ timerArmed = FALSE
  /\ own = None
  /\ stale = None
  /\ polls = Submitted(Prepared(None))
  /\ busy = FALSE
  /\ stream = "idle"
  /\ hostPending = FALSE
  /\ eventfd = FALSE
  /\ dead = FALSE
  /\ ready = <<>>
  /\ status = [r \in Reqs |-> "unsent"]
  /\ computed = {}
  /\ closed = {}

Worker ==
  \/ LoopTopRelease \/ LoopTopPass \/ Wake \/ Interrupted
  \/ ReadPoll \/ PollWithoutJob \/ PollWithJob
  \/ ReadTimeout \/ TimeoutQuery
  \/ \E r \in Reqs : Receive(r)
  \/ EndBatch \/ DrainReady \/ DrainReadyReturns

Environment ==
  \/ JobCompletes \/ JobFails \/ ContextLost
  \/ HostSignal \/ PollFires \/ TimerFires
  \/ \E r \in Reqs : ClientSends(r) \/ ClientGone(r)

Next == Worker \/ Environment \/ Exited

Spec == Init /\ [][Next]_vars

(* The thread runs, and reads a completion that is posted; kernels end;    *)
(* the driver, the ring and the clock do their part.  Clients owe nothing. *)
Fairness ==
  /\ WF_vars(Worker /\ ~(pc = "wait"))
  /\ WF_vars(Wake /\ CompletionPosted)
  /\ WF_vars(JobCompletes \/ JobFails)
  /\ WF_vars(HostSignal)
  /\ WF_vars(PollFires)
  /\ WF_vars(TimerFires)

FairSpec == Spec /\ Fairness

----------------------------------------------------------------------------
(* The worker's state is well formed at every step of the loop. *)
TypeOK ==
  /\ pc \in {"top", "wait", "batch", "polled", "timedOut", "ready", "exited"}
  /\ ret \in {"wait", "batch"}
  /\ needSubmit \in BOOLEAN
  /\ parked \in Reqs \cup {NoReq}
  /\ timerArmed \in BOOLEAN
  /\ own \in Counts
  /\ stale \in Counts
  /\ polls \in Counts
  /\ busy \in BOOLEAN
  /\ stream \in {"idle", "running", "done", "failed"}
  /\ hostPending \in BOOLEAN
  /\ eventfd \in BOOLEAN
  /\ dead \in BOOLEAN
  /\ ready \in Seq(Reqs)
  /\ status \in [Reqs -> Statuses]
  /\ computed \subseteq Reqs
  /\ closed \subseteq Reqs

(* While a request is in flight exactly one timeout of its generation is   *)
(* outstanding, whatever timeouts of released requests expire meanwhile    *)
(* and clear g_rt_http_gpu_timer_armed: a kernel that never signals is     *)
(* still noticed, and timeouts do not multiply.                            *)
TimerCovers ==
  NotExited => Total(own) = IF parked = NoReq \/ pc = "timedOut" THEN 0 ELSE 1

(* Something is always armed on the eventfd (but for the instant between   *)
(* a poll's completion and its re-arming), and each release adds at most   *)
(* one poll beyond it.                                                     *)
PollBudget ==
  LET released == Cardinality({r \in Reqs : status[r] \in {"answered", "failed", "dropped"}})
      n == Total(polls) + IF pc = "polled" THEN 1 ELSE 0
  IN  pc = "exited" \/ n \in 1 .. (1 + released)

(* The worker never sleeps in io_uring_wait_cqe on an operation it         *)
(* prepared and did not submit: a forgotten need_submit would be a hang.   *)
NothingStranded ==
  pc = "wait" => polls.sq = 0 /\ own.sq = 0 /\ stale.sq = 0

(* A request waits in the ready queue only while another is in flight,     *)
(* whose release will drain the queue: no wakeup is lost.                  *)
ReadyHasWaker ==
  ready # <<>> /\ pc \notin {"ready", "exited"} => parked # NoReq

(* A continuation runs for a request only after that request's own kernel, *)
(* and the 500 for a failed kernel goes only to a request whose kernel did *)
(* not complete - late signals and timeouts of the job before included.    *)
AnswerMatchesKernel ==
  \A r \in Reqs : /\ status[r] = "answered" => r \in computed
                  /\ status[r] = "failed" => r \notin computed

(* website/content/docs/benchmarks/http-gpu.md:141 - while a request is in  *)
(* flight the next ones wait for the worker: a gpu.finish never finds its  *)
(* stream busy, and only a fault that CUDA keeps reporting ends the        *)
(* process.                                                                *)
OthersWait == pc = "exited" => dead

(* A request leaves flight for good: whichever of the query, the eventfd   *)
(* and the timeout wins, the others do not answer it a second time, and    *)
(* none of them takes another request with it.                             *)
ReleasedOnce ==
  [][\A r \in Reqs : /\ status[r] \in {"answered", "failed", "dropped", "direct"}
                          => status'[r] = status[r]
                     /\ status[r] = "parked" /\ status'[r] # "parked"
                          => parked = r /\ parked' # r]_vars

(* Every request that is parked, or waits behind one that is, is           *)
(* eventually released.                                                    *)
EveryRequestReleased ==
  \A r \in Reqs : status[r] \in {"ready", "parked"}
                    ~> status[r] \notin {"ready", "parked"}

----------------------------------------------------------------------------
(* Why the safety properties hold: the parts of an inductive invariant.    *)

AtLoopTop == pc \in {"top", "wait"}

(* Whatever is prepared is submitted before the loop goes round. *)
SubmitInv ==
  \/ polls.sq = 0 /\ own.sq = 0 /\ stale.sq = 0
  \/ ~AtLoopTop /\ needSubmit
  \/ pc = "exited"

(* The flags agree with the timeouts and with the request in flight. *)
TimerInv ==
  /\ TimerCovers
  /\ timerArmed => parked # NoReq
  /\ pc = "timedOut" => parked # NoReq /\ ~timerArmed

(* The event queried is the one recorded for the request in flight. *)
JobInv ==
  /\ NotExited => (busy <=> parked # NoReq)
  /\ parked # NoReq => stream # "idle"
  /\ stream \in {"running", "failed"} => parked # NoReq /\ parked \notin computed
  /\ parked # NoReq /\ stream = "done" => parked \in computed

(* The history agrees with the queue and with the request in flight. *)
HistoryInv ==
  /\ \A r \in Reqs : status[r] = "parked" <=> r = parked
  /\ \A r \in Reqs : status[r] \in {"unsent", "cq", "ready"} => r \notin computed
  /\ pc # "exited" => \A i \in 1 .. Len(ready) : status[ready[i]] = "ready"
  /\ \A i, j \in 1 .. Len(ready) : ready[i] = ready[j] => i = j

IInv == TypeOK /\ SubmitInv /\ TimerInv /\ JobInv /\ HistoryInv
          /\ ReadyHasWaker /\ AnswerMatchesKernel

(* The worker implements the service its clients are promised: the ring,   *)
(* the eventfd, the timeouts and the flags are detail.                     *)
Service == INSTANCE GpuService WITH
  inflight <- parked,
  queue <- ready,
  result <- [r \in Reqs |-> IF status[r] \in {"answered", "failed", "direct", "dropped"}
                            THEN status[r] ELSE "none"]

ImplementsService == Service!Spec

ImplementsFairService == Service!FairSpec
=============================================================================
