-------------------------- MODULE GpuPark_proofs --------------------------
(***************************************************************************)
(* Theorems about GpuPark, for every set of requests.                      *)
(*                                                                         *)
(* One lemma per part of the inductive invariant IInv, each with a step    *)
(* per action; then the safety properties, and that every step is a step   *)
(* of GpuService or a stutter.                                             *)
(***************************************************************************)
EXTENDS GpuPark, FiniteSetTheorems, TLAPS

(* The stages of an operation keep natural-number counts: what the ring    *)
(* (io_uring_get_sqe, io_uring_submit, io_uring_cq_advance) does to them.  *)
LEMMA CountsLaws ==
  /\ None \in Counts
  /\ \A q \in Counts : /\ Prepared(q) \in Counts
                       /\ Submitted(q) \in Counts
                       /\ q.ring > 0 => Fired(q) \in Counts
                       /\ q.cq > 0 => Read(q) \in Counts
  /\ \A p, q \in Counts : Merged(p, q) \in Counts
<1>1. None \in Counts
  BY DEF Counts, None
<1>2. ASSUME NEW q \in Counts
      PROVE  Prepared(q) \in Counts /\ Submitted(q) \in Counts
  BY DEF Counts, Prepared, Submitted
<1>3. ASSUME NEW q \in Counts, q.ring > 0
      PROVE  Fired(q) \in Counts
  BY <1>3 DEF Counts, Fired
<1>4. ASSUME NEW q \in Counts, q.cq > 0
      PROVE  Read(q) \in Counts
  BY <1>4 DEF Counts, Read
<1>5. ASSUME NEW p \in Counts, NEW q \in Counts
      PROVE  Merged(p, q) \in Counts
  BY DEF Counts, Merged
<1> QED
  BY <1>1, <1>2, <1>3, <1>4, <1>5

(* What each operation on the ring does to the number outstanding.         *)
LEMMA TotalLaws ==
  /\ Total(None) = 0
  /\ \A q \in Counts : /\ Total(q) \in Nat
                       /\ q.cq > 0 => Total(q) > 0
                       /\ Total(Prepared(q)) = Total(q) + 1
                       /\ Total(Submitted(q)) = Total(q)
                       /\ Total(Fired(q)) = Total(q)
                       /\ Total(Read(q)) = Total(q) - 1
  BY DEF Counts, None, Total, Prepared, Submitted, Fired, Read

(* Only preparing an operation leaves something to submit.                 *)
LEMMA SqLaws ==
  /\ None.sq = 0
  /\ \A q \in Counts : /\ Submitted(q).sq = 0
                       /\ Fired(q).sq = q.sq
                       /\ Read(q).sq = q.sq
  BY DEF Counts, None, Submitted, Fired, Read

(* Every step of worker, device and clients keeps the state well formed.   *)
LEMMA TypeStep ==
  ASSUME IInv, [Next]_vars
  PROVE  TypeOK'
<1> USE ReqsAssumption, CountsLaws DEF IInv, TypeOK, loopVars, parkVars, cudaVars, reqVars, vars, Statuses, JobInv, NotExited, Outcome, Query
<1>0. ASSUME parked # NoReq, NotExited, NEW to \in {"wait", "batch"}, ReleaseOnQuery(to)
      PROVE  TypeOK'
  <2>1. CASE Release(FALSE, to) /\ Query = "done"
    BY <1>0, <2>1 DEF Release
  <2>2. CASE Release(TRUE, to) /\ ~dead /\ Query = "failed"
    BY <1>0, <2>2 DEF Release
  <2>3. CASE ProcessExits /\ UNCHANGED ready
    BY <1>0, <2>3 DEF ProcessExits
  <2> QED
    BY <1>0, <2>1, <2>2, <2>3 DEF ReleaseOnQuery, ResetAndRelease
<1>1. CASE LoopTopRelease
  BY <1>0, <1>1 DEF LoopTopRelease, NotExited, TimerInv
<1>2. CASE LoopTopPass
  BY <1>2 DEF LoopTopPass
<1>3. CASE Wake
  BY <1>3 DEF Wake
<1>4. CASE Interrupted
  BY <1>4 DEF Interrupted
<1>5. CASE ReadPoll
  BY <1>5 DEF ReadPoll
<1>6. CASE PollWithoutJob
  BY <1>6 DEF PollWithoutJob, RearmPoll, ProcessExits
<1>7. CASE PollWithJob
  BY <1>0, <1>7 DEF PollWithJob, RearmPoll, NotExited, TimerInv
<1>8. CASE ReadTimeout
  BY <1>8 DEF ReadTimeout
<1>9. CASE TimeoutQuery
  BY <1>0, <1>9 DEF TimeoutQuery, NotExited, TimerInv
<1>10. ASSUME NEW r \in Reqs, Receive(r) PROVE TypeOK'
  <2>1. CASE Park(r)
    <3>1. CASE busy \/ dead
      BY <1>10, <2>1, <3>1 DEF Receive, Dispatch, Park, ProcessExits
    <3>2. CASE ~(busy \/ dead)
      BY <1>10, <2>1, <3>2 DEF Receive, Dispatch, Park
    <3> QED
      BY <3>1, <3>2
  <2>2. CASE RespondDirectly(r)
    BY <1>10, <2>2 DEF Receive, Dispatch, RespondDirectly
  <2>3. CASE parked # NoReq /\ r \notin Hidden
    BY <1>10, <2>3 DEF Receive
  <2> QED
    BY <1>10, <2>1, <2>2, <2>3 DEF Receive, Dispatch
<1>11. CASE EndBatch
  BY <1>11 DEF EndBatch, SubmitAll
<1>12. CASE DrainReady
  <2> DEFINE r == Head(ready)
  <2>1. r \in Reqs /\ Tail(ready) \in Seq(Reqs) /\ ready' \in {ready, Tail(ready)}
    BY <1>12 DEF DrainReady, Dispatch
  <2>2. CASE Park(r)
    BY <1>12, <2>1, <2>2 DEF DrainReady, Park, ProcessExits
  <2>3. CASE RespondDirectly(r)
    BY <1>12, <2>1, <2>3 DEF DrainReady, RespondDirectly
  <2>4. CASE r \in closed
    BY <1>12, <2>1, <2>4 DEF DrainReady
  <2> QED
    BY <1>12, <2>2, <2>3, <2>4 DEF DrainReady, Dispatch
<1>13. CASE DrainReadyReturns
  BY <1>13 DEF DrainReadyReturns, SubmitAll
<1>14. CASE JobCompletes
  BY <1>14 DEF JobCompletes
<1>15. CASE JobFails
  BY <1>15 DEF JobFails
<1>16. CASE ContextLost
  BY <1>16 DEF ContextLost
<1>17. CASE HostSignal
  BY <1>17 DEF HostSignal
<1>18. CASE PollFires
  BY <1>18 DEF PollFires
<1>19. CASE TimerFires
  BY <1>19 DEF TimerFires
<1>20. ASSUME NEW r \in Reqs, ClientSends(r) PROVE TypeOK'
  BY <1>20 DEF ClientSends
<1>21. ASSUME NEW r \in Reqs, ClientGone(r) PROVE TypeOK'
  BY <1>21 DEF ClientGone
<1>22. CASE UNCHANGED vars
  BY <1>22
<1> QED
  BY <1>1, <1>2, <1>3, <1>4, <1>5, <1>6, <1>7, <1>8, <1>9, <1>10, <1>11, <1>12, <1>13, <1>14, <1>15, <1>16, <1>17, <1>18, <1>19, <1>20, <1>21, <1>22 DEF Next, Worker, Environment, Exited

(* No step reaches the loop top with something prepared and not submitted: *)
(* each rt_http_arm_* sets the flag that its caller submits on.            *)
LEMMA SubmitStep ==
  ASSUME IInv, [Next]_vars
  PROVE  SubmitInv'
<1> USE ReqsAssumption, CountsLaws, SqLaws DEF IInv, TypeOK, loopVars, parkVars, cudaVars, reqVars, vars, SubmitInv, AtLoopTop
<1>0. ASSUME parked # NoReq, NotExited, NEW to \in {"wait", "batch"}, ReleaseOnQuery(to)
      PROVE  SubmitInv'
  <2>1. CASE Release(FALSE, to) /\ Query = "done"
    BY <1>0, <2>1 DEF Release
  <2>2. CASE Release(TRUE, to) /\ ~dead /\ Query = "failed"
    BY <1>0, <2>2 DEF Release
  <2>3. CASE ProcessExits /\ UNCHANGED ready
    BY <1>0, <2>3 DEF ProcessExits
  <2> QED
    BY <1>0, <2>1, <2>2, <2>3 DEF ReleaseOnQuery, ResetAndRelease
<1>1. CASE LoopTopRelease
  BY <1>0, <1>1 DEF LoopTopRelease, NotExited, TimerInv
<1>2. CASE LoopTopPass
  BY <1>2 DEF LoopTopPass
<1>3. CASE Wake
  BY <1>3 DEF Wake
<1>4. CASE Interrupted
  BY <1>4 DEF Interrupted
<1>5. CASE ReadPoll
  BY <1>5 DEF ReadPoll
<1>6. CASE PollWithoutJob
  BY <1>6 DEF PollWithoutJob, RearmPoll, ProcessExits
<1>7. CASE PollWithJob
  BY <1>0, <1>7 DEF PollWithJob, RearmPoll, NotExited, TimerInv
<1>8. CASE ReadTimeout
  BY <1>8 DEF ReadTimeout
<1>9. CASE TimeoutQuery
  BY <1>0, <1>9 DEF TimeoutQuery, NotExited, TimerInv
<1>10. ASSUME NEW r \in Reqs, Receive(r) PROVE SubmitInv'
  BY <1>10 DEF Receive, Dispatch, Park, RespondDirectly, ProcessExits
<1>11. CASE EndBatch
  <2>1. CASE needSubmit
    <3>1. polls'.sq = 0 /\ own'.sq = 0 /\ stale'.sq = 0
      BY <1>11, <2>1 DEF EndBatch, SubmitAll
    <3> QED
      BY <3>1
  <2>2. CASE ~needSubmit
    BY <1>11, <2>2 DEF EndBatch
  <2> QED
    BY <2>1, <2>2
<1>12. CASE DrainReady
  BY <1>12 DEF DrainReady, Dispatch, Park, RespondDirectly, ProcessExits
<1>13. CASE DrainReadyReturns
  <2>1. CASE ret = "wait" /\ needSubmit
    <3>1. polls'.sq = 0 /\ own'.sq = 0 /\ stale'.sq = 0
      BY <1>13, <2>1 DEF DrainReadyReturns, SubmitAll
    <3> QED
      BY <3>1
  <2>2. CASE ~(ret = "wait" /\ needSubmit)
    BY <1>13, <2>2 DEF DrainReadyReturns
  <2> QED
    BY <2>1, <2>2
<1>14. CASE JobCompletes
  BY <1>14 DEF JobCompletes
<1>15. CASE JobFails
  BY <1>15 DEF JobFails
<1>16. CASE ContextLost
  BY <1>16 DEF ContextLost
<1>17. CASE HostSignal
  BY <1>17 DEF HostSignal
<1>18. CASE PollFires
  BY <1>18 DEF PollFires
<1>19. CASE TimerFires
  <2>1. own'.sq = own.sq /\ stale'.sq = stale.sq /\ UNCHANGED <<pc, needSubmit, polls>>
    BY <1>19 DEF TimerFires
  <2> QED
    BY <2>1
<1>20. ASSUME NEW r \in Reqs, ClientSends(r) PROVE SubmitInv'
  BY <1>20 DEF ClientSends
<1>21. ASSUME NEW r \in Reqs, ClientGone(r) PROVE SubmitInv'
  BY <1>21 DEF ClientGone
<1>22. CASE UNCHANGED vars
  BY <1>22
<1> QED
  BY <1>1, <1>2, <1>3, <1>4, <1>5, <1>6, <1>7, <1>8, <1>9, <1>10, <1>11, <1>12, <1>13, <1>14, <1>15, <1>16, <1>17, <1>18, <1>19, <1>20, <1>21, <1>22 DEF Next, Worker, Environment, Exited

(* Every step keeps the timeouts, g_rt_http_gpu_timer_armed and the request *)
(* in flight in agreement; the hard cases are a stale timeout's completion *)
(* and a park right after a release.                                       *)
LEMMA TimerStep ==
  ASSUME IInv, [Next]_vars
  PROVE  TimerInv'
<1> USE ReqsAssumption, CountsLaws, TotalLaws DEF IInv, TypeOK, loopVars, parkVars, cudaVars, reqVars, vars, TimerInv, TimerCovers, NotExited, JobInv, Query
<1>0. ASSUME parked # NoReq, NotExited, NEW to \in {"wait", "batch"}, ReleaseOnQuery(to)
      PROVE  TimerInv'
  <2>1. CASE Release(FALSE, to) /\ Query = "done"
    BY <1>0, <2>1 DEF Release
  <2>2. CASE Release(TRUE, to) /\ ~dead /\ Query = "failed"
    BY <1>0, <2>2 DEF Release
  <2>3. CASE ProcessExits /\ UNCHANGED ready
    BY <1>0, <2>3 DEF ProcessExits
  <2> QED
    BY <1>0, <2>1, <2>2, <2>3 DEF ReleaseOnQuery, ResetAndRelease
<1>0a. ASSUME NEW r \in Reqs, pc \in {"batch", "ready"}, Park(r)
       PROVE  TimerInv'
  <2>1. CASE busy \/ dead
    BY <1>0a, <2>1 DEF Park, ProcessExits
  <2>2. CASE ~(busy \/ dead)
    <3>1. parked = NoReq /\ ~timerArmed /\ Total(own) = 0
      BY <1>0a, <2>2
    <3>2. parked' = r /\ timerArmed' /\ own' = Prepared(own) /\ pc' = pc
      BY <1>0a, <2>2, <3>1 DEF Park
    <3>3. Total(own') = 1
      BY <3>1, <3>2
    <3> QED
      BY <1>0a, <3>2, <3>3
  <2> QED
    BY <2>1, <2>2
<1>1. CASE LoopTopRelease
  BY <1>0, <1>1 DEF LoopTopRelease, NotExited, TimerInv
<1>2. CASE LoopTopPass
  BY <1>2 DEF LoopTopPass
<1>3. CASE Wake
  BY <1>3 DEF Wake
<1>4. CASE Interrupted
  BY <1>4 DEF Interrupted
<1>5. CASE ReadPoll
  BY <1>5 DEF ReadPoll
<1>6. CASE PollWithoutJob
  BY <1>6 DEF PollWithoutJob, RearmPoll, ProcessExits
<1>7. CASE PollWithJob
  BY <1>0, <1>7 DEF PollWithJob, RearmPoll, NotExited, TimerInv
<1>8. CASE ReadTimeout
  <2>1. CASE own.cq > 0 /\ own' = Read(own)
    <3>0. Total(own) > 0 /\ pc = "batch"
      BY <1>8, <2>1, TotalLaws DEF ReadTimeout
    <3>1. parked # NoReq /\ pc = "batch" /\ Total(own) = 1
      <4> HIDE CountsLaws, TotalLaws
      <4> QED
        BY <3>0
    <3>2. Total(own') = 0 /\ pc' = "timedOut" /\ parked' = parked /\ ~timerArmed'
      BY <1>8, <2>1, <3>1 DEF ReadTimeout
    <3> QED
      BY <3>1, <3>2
  <2>2. CASE UNCHANGED <<pc, own>>
    BY <1>8, <2>2 DEF ReadTimeout
  <2> QED
    BY <1>8, <2>1, <2>2 DEF ReadTimeout
<1>9. CASE TimeoutQuery
  BY <1>0, <1>9 DEF TimeoutQuery, NotExited, TimerInv
<1>10. ASSUME NEW r \in Reqs, Receive(r) PROVE TimerInv'
  <2>1. CASE Park(r)
    BY <1>0a, <1>10, <2>1 DEF Receive, Dispatch
  <2>2. CASE RespondDirectly(r)
    BY <1>10, <2>2 DEF Receive, Dispatch, RespondDirectly
  <2>3. CASE parked # NoReq /\ r \notin Hidden
    BY <1>10, <2>3 DEF Receive
  <2> QED
    BY <1>10, <2>1, <2>2, <2>3 DEF Receive, Dispatch
<1>11. CASE EndBatch
  BY <1>11 DEF EndBatch, SubmitAll
<1>12. CASE DrainReady
  <2> DEFINE r == Head(ready)
  <2>1. r \in Reqs
    BY <1>12 DEF DrainReady
  <2>2. CASE Park(r)
    BY <1>0a, <1>12, <2>1, <2>2 DEF DrainReady
  <2>3. CASE RespondDirectly(r)
    BY <1>12, <2>3 DEF DrainReady, RespondDirectly
  <2>4. CASE r \in closed
    BY <1>12, <2>4 DEF DrainReady
  <2> QED
    BY <1>12, <2>2, <2>3, <2>4 DEF DrainReady, Dispatch
<1>13. CASE DrainReadyReturns
  BY <1>13 DEF DrainReadyReturns, SubmitAll
<1>14. CASE JobCompletes
  BY <1>14 DEF JobCompletes
<1>15. CASE JobFails
  BY <1>15 DEF JobFails
<1>16. CASE ContextLost
  BY <1>16 DEF ContextLost
<1>17. CASE HostSignal
  BY <1>17 DEF HostSignal
<1>18. CASE PollFires
  BY <1>18 DEF PollFires
<1>19. CASE TimerFires
  BY <1>19 DEF TimerFires
<1>20. ASSUME NEW r \in Reqs, ClientSends(r) PROVE TimerInv'
  BY <1>20 DEF ClientSends
<1>21. ASSUME NEW r \in Reqs, ClientGone(r) PROVE TimerInv'
  BY <1>21 DEF ClientGone
<1>22. CASE UNCHANGED vars
  BY <1>22
<1> QED
  BY <1>1, <1>2, <1>3, <1>4, <1>5, <1>6, <1>7, <1>8, <1>9, <1>10, <1>11, <1>12, <1>13, <1>14, <1>15, <1>16, <1>17, <1>18, <1>19, <1>20, <1>21, <1>22 DEF Next, Worker, Environment, Exited

(* Every step keeps the CUDA flags and the event in agreement with the     *)
(* request in flight.                                                      *)
LEMMA JobStep ==
  ASSUME IInv, [Next]_vars
  PROVE  JobInv'
<1> USE ReqsAssumption DEF IInv, TypeOK, loopVars, parkVars, cudaVars, reqVars, vars, JobInv, NotExited, Query, HistoryInv, TimerInv
<1>0. ASSUME parked # NoReq, NotExited, NEW to \in {"wait", "batch"}, ReleaseOnQuery(to)
      PROVE  JobInv'
  <2>1. CASE Release(FALSE, to) /\ Query = "done"
    BY <1>0, <2>1 DEF Release
  <2>2. CASE Release(TRUE, to) /\ ~dead /\ Query = "failed"
    BY <1>0, <2>2 DEF Release
  <2>3. CASE ProcessExits /\ UNCHANGED ready
    BY <1>0, <2>3 DEF ProcessExits
  <2> QED
    BY <1>0, <2>1, <2>2, <2>3 DEF ReleaseOnQuery, ResetAndRelease
<1>1. CASE LoopTopRelease
  BY <1>0, <1>1 DEF LoopTopRelease, NotExited, TimerInv
<1>2. CASE LoopTopPass
  BY <1>2 DEF LoopTopPass
<1>3. CASE Wake
  BY <1>3 DEF Wake
<1>4. CASE Interrupted
  BY <1>4 DEF Interrupted
<1>5. CASE ReadPoll
  BY <1>5 DEF ReadPoll
<1>6. CASE PollWithoutJob
  BY <1>6 DEF PollWithoutJob, RearmPoll, ProcessExits
<1>7. CASE PollWithJob
  BY <1>0, <1>7 DEF PollWithJob, RearmPoll, NotExited, TimerInv
<1>8. CASE ReadTimeout
  BY <1>8 DEF ReadTimeout
<1>9. CASE TimeoutQuery
  BY <1>0, <1>9 DEF TimeoutQuery, NotExited, TimerInv
<1>10. ASSUME NEW r \in Reqs, Receive(r) PROVE JobInv'
  BY <1>10 DEF Receive, Dispatch, Park, RespondDirectly, ProcessExits
<1>11. CASE EndBatch
  BY <1>11 DEF EndBatch, SubmitAll
<1>12. CASE DrainReady
  BY <1>12 DEF DrainReady, Dispatch, Park, RespondDirectly, ProcessExits
<1>13. CASE DrainReadyReturns
  BY <1>13 DEF DrainReadyReturns, SubmitAll
<1>14. CASE JobCompletes
  BY <1>14 DEF JobCompletes
<1>15. CASE JobFails
  BY <1>15 DEF JobFails
<1>16. CASE ContextLost
  BY <1>16 DEF ContextLost
<1>17. CASE HostSignal
  BY <1>17 DEF HostSignal
<1>18. CASE PollFires
  BY <1>18 DEF PollFires
<1>19. CASE TimerFires
  BY <1>19 DEF TimerFires
<1>20. ASSUME NEW r \in Reqs, ClientSends(r) PROVE JobInv'
  BY <1>20 DEF ClientSends
<1>21. ASSUME NEW r \in Reqs, ClientGone(r) PROVE JobInv'
  BY <1>21 DEF ClientGone
<1>22. CASE UNCHANGED vars
  BY <1>22
<1> QED
  BY <1>1, <1>2, <1>3, <1>4, <1>5, <1>6, <1>7, <1>8, <1>9, <1>10, <1>11, <1>12, <1>13, <1>14, <1>15, <1>16, <1>17, <1>18, <1>19, <1>20, <1>21, <1>22 DEF Next, Worker, Environment, Exited

(* No step leaves a request queued with nothing in flight once             *)
(* rt_http_drain_ready has returned.                                       *)
LEMMA WakerStep ==
  ASSUME IInv, [Next]_vars
  PROVE  ReadyHasWaker'
<1> USE ReqsAssumption DEF IInv, TypeOK, loopVars, parkVars, cudaVars, reqVars, vars, ReadyHasWaker, TimerInv
<1>0. ASSUME parked # NoReq, NotExited, NEW to \in {"wait", "batch"}, ReleaseOnQuery(to)
      PROVE  ReadyHasWaker'
  <2>1. CASE Release(FALSE, to) /\ Query = "done"
    BY <1>0, <2>1 DEF Release
  <2>2. CASE Release(TRUE, to) /\ ~dead /\ Query = "failed"
    BY <1>0, <2>2 DEF Release
  <2>3. CASE ProcessExits /\ UNCHANGED ready
    BY <1>0, <2>3 DEF ProcessExits
  <2> QED
    BY <1>0, <2>1, <2>2, <2>3 DEF ReleaseOnQuery, ResetAndRelease
<1>1. CASE LoopTopRelease
  BY <1>0, <1>1 DEF LoopTopRelease, NotExited, TimerInv
<1>2. CASE LoopTopPass
  BY <1>2 DEF LoopTopPass
<1>3. CASE Wake
  BY <1>3 DEF Wake
<1>4. CASE Interrupted
  BY <1>4 DEF Interrupted
<1>5. CASE ReadPoll
  BY <1>5 DEF ReadPoll
<1>6. CASE PollWithoutJob
  BY <1>6 DEF PollWithoutJob, RearmPoll, ProcessExits
<1>7. CASE PollWithJob
  BY <1>0, <1>7 DEF PollWithJob, RearmPoll, NotExited, TimerInv
<1>8. CASE ReadTimeout
  BY <1>8 DEF ReadTimeout
<1>9. CASE TimeoutQuery
  BY <1>0, <1>9 DEF TimeoutQuery, NotExited, TimerInv
<1>10. ASSUME NEW r \in Reqs, Receive(r) PROVE ReadyHasWaker'
  BY <1>10 DEF Receive, Dispatch, Park, RespondDirectly, ProcessExits
<1>11. CASE EndBatch
  BY <1>11 DEF EndBatch, SubmitAll
<1>12. CASE DrainReady
  BY <1>12 DEF DrainReady, Dispatch, Park, RespondDirectly, ProcessExits
<1>13. CASE DrainReadyReturns
  BY <1>13 DEF DrainReadyReturns, SubmitAll
<1>14. CASE JobCompletes
  BY <1>14 DEF JobCompletes
<1>15. CASE JobFails
  BY <1>15 DEF JobFails
<1>16. CASE ContextLost
  BY <1>16 DEF ContextLost
<1>17. CASE HostSignal
  BY <1>17 DEF HostSignal
<1>18. CASE PollFires
  BY <1>18 DEF PollFires
<1>19. CASE TimerFires
  BY <1>19 DEF TimerFires
<1>20. ASSUME NEW r \in Reqs, ClientSends(r) PROVE ReadyHasWaker'
  BY <1>20 DEF ClientSends
<1>21. ASSUME NEW r \in Reqs, ClientGone(r) PROVE ReadyHasWaker'
  BY <1>21 DEF ClientGone
<1>22. CASE UNCHANGED vars
  BY <1>22
<1> QED
  BY <1>1, <1>2, <1>3, <1>4, <1>5, <1>6, <1>7, <1>8, <1>9, <1>10, <1>11, <1>12, <1>13, <1>14, <1>15, <1>16, <1>17, <1>18, <1>19, <1>20, <1>21, <1>22 DEF Next, Worker, Environment, Exited

(* Every step answers a request as its own kernel ended.                   *)
LEMMA AnswerStep ==
  ASSUME IInv, [Next]_vars
  PROVE  AnswerMatchesKernel'
<1> USE ReqsAssumption DEF IInv, TypeOK, loopVars, parkVars, cudaVars, reqVars, vars, Statuses, AnswerMatchesKernel, JobInv, HistoryInv, Outcome, Query
<1>0. ASSUME parked # NoReq, NotExited, NEW to \in {"wait", "batch"}, ReleaseOnQuery(to)
      PROVE  AnswerMatchesKernel'
  <2>1. CASE Release(FALSE, to) /\ Query = "done"
    BY <1>0, <2>1 DEF Release
  <2>2. CASE Release(TRUE, to) /\ ~dead /\ Query = "failed"
    BY <1>0, <2>2 DEF Release
  <2>3. CASE ProcessExits /\ UNCHANGED ready
    BY <1>0, <2>3 DEF ProcessExits
  <2> QED
    BY <1>0, <2>1, <2>2, <2>3 DEF ReleaseOnQuery, ResetAndRelease
<1>1. CASE LoopTopRelease
  BY <1>0, <1>1 DEF LoopTopRelease, NotExited, TimerInv
<1>2. CASE LoopTopPass
  BY <1>2 DEF LoopTopPass
<1>3. CASE Wake
  BY <1>3 DEF Wake
<1>4. CASE Interrupted
  BY <1>4 DEF Interrupted
<1>5. CASE ReadPoll
  BY <1>5 DEF ReadPoll
<1>6. CASE PollWithoutJob
  BY <1>6 DEF PollWithoutJob, RearmPoll, ProcessExits
<1>7. CASE PollWithJob
  BY <1>0, <1>7 DEF PollWithJob, RearmPoll, NotExited, TimerInv
<1>8. CASE ReadTimeout
  BY <1>8 DEF ReadTimeout
<1>9. CASE TimeoutQuery
  BY <1>0, <1>9 DEF TimeoutQuery, NotExited, TimerInv
<1>10. ASSUME NEW r \in Reqs, Receive(r) PROVE AnswerMatchesKernel'
  BY <1>10 DEF Receive, Dispatch, Park, RespondDirectly, ProcessExits
<1>11. CASE EndBatch
  BY <1>11 DEF EndBatch, SubmitAll
<1>12. CASE DrainReady
  BY <1>12 DEF DrainReady, Dispatch, Park, RespondDirectly, ProcessExits
<1>13. CASE DrainReadyReturns
  BY <1>13 DEF DrainReadyReturns, SubmitAll
<1>14. CASE JobCompletes
  BY <1>14 DEF JobCompletes
<1>15. CASE JobFails
  BY <1>15 DEF JobFails
<1>16. CASE ContextLost
  BY <1>16 DEF ContextLost
<1>17. CASE HostSignal
  BY <1>17 DEF HostSignal
<1>18. CASE PollFires
  BY <1>18 DEF PollFires
<1>19. CASE TimerFires
  BY <1>19 DEF TimerFires
<1>20. ASSUME NEW r \in Reqs, ClientSends(r) PROVE AnswerMatchesKernel'
  BY <1>20 DEF ClientSends
<1>21. ASSUME NEW r \in Reqs, ClientGone(r) PROVE AnswerMatchesKernel'
  BY <1>21 DEF ClientGone
<1>22. CASE UNCHANGED vars
  BY <1>22
<1> QED
  BY <1>1, <1>2, <1>3, <1>4, <1>5, <1>6, <1>7, <1>8, <1>9, <1>10, <1>11, <1>12, <1>13, <1>14, <1>15, <1>16, <1>17, <1>18, <1>19, <1>20, <1>21, <1>22 DEF Next, Worker, Environment, Exited

(* Every step keeps the ready queue free of duplicates and in agreement    *)
(* with what became of each request.                                       *)
LEMMA HistoryStep ==
  ASSUME IInv, [Next]_vars
  PROVE  HistoryInv'
<1> USE ReqsAssumption DEF IInv, TypeOK, loopVars, parkVars, cudaVars, reqVars, vars, Statuses, HistoryInv, JobInv, ReadyHasWaker, TimerInv, NotExited, Outcome, Query
<1>0. ASSUME parked # NoReq, NotExited, NEW to \in {"wait", "batch"}, ReleaseOnQuery(to)
      PROVE  HistoryInv'
  <2>1. CASE Release(FALSE, to) /\ Query = "done"
    BY <1>0, <2>1 DEF Release
  <2>2. CASE Release(TRUE, to) /\ ~dead /\ Query = "failed"
    BY <1>0, <2>2 DEF Release
  <2>3. CASE ProcessExits /\ UNCHANGED ready
    BY <1>0, <2>3 DEF ProcessExits
  <2> QED
    BY <1>0, <2>1, <2>2, <2>3 DEF ReleaseOnQuery, ResetAndRelease
<1>1. CASE LoopTopRelease
  BY <1>0, <1>1 DEF LoopTopRelease, NotExited, TimerInv
<1>2. CASE LoopTopPass
  BY <1>2 DEF LoopTopPass
<1>3. CASE Wake
  BY <1>3 DEF Wake
<1>4. CASE Interrupted
  BY <1>4 DEF Interrupted
<1>5. CASE ReadPoll
  BY <1>5 DEF ReadPoll
<1>6. CASE PollWithoutJob
  BY <1>6 DEF PollWithoutJob, RearmPoll, ProcessExits
<1>7. CASE PollWithJob
  BY <1>0, <1>7 DEF PollWithJob, RearmPoll, NotExited, TimerInv
<1>8. CASE ReadTimeout
  BY <1>8 DEF ReadTimeout
<1>9. CASE TimeoutQuery
  BY <1>0, <1>9 DEF TimeoutQuery, NotExited, TimerInv
<1>10. ASSUME NEW r \in Reqs, Receive(r) PROVE HistoryInv'
  <2>1. CASE Park(r)
    BY <1>10, <2>1 DEF Receive, Dispatch, Park, ProcessExits
  <2>2. CASE RespondDirectly(r)
    BY <1>10, <2>2 DEF Receive, Dispatch, RespondDirectly
  <2>3. CASE parked # NoReq /\ r \notin Hidden
    <3>1. ready' = Append(ready, r) /\ status' = [status EXCEPT ![r] = "ready"]
            /\ pc = "batch" /\ status[r] = "cq" /\ UNCHANGED <<pc, parked, computed>>
      BY <1>10, <2>3 DEF Receive
    <3>2. \A i \in 1 .. Len(ready) : ready[i] # r /\ ready'[i] = ready[i]
      BY <3>1
    <3>3. Len(ready') = Len(ready) + 1 /\ ready'[Len(ready) + 1] = r
      BY <3>1
    <3>4. \A i \in 1 .. Len(ready') : status'[ready'[i]] = "ready"
      BY <3>1, <3>2, <3>3
    <3>5. \A i, j \in 1 .. Len(ready') : ready'[i] = ready'[j] => i = j
      BY <3>1, <3>2, <3>3
    <3> QED
      BY <3>1, <3>4, <3>5
  <2> QED
    BY <1>10, <2>1, <2>2, <2>3 DEF Receive, Dispatch
<1>11. CASE EndBatch
  BY <1>11 DEF EndBatch, SubmitAll
<1>12. CASE DrainReady
  <2> DEFINE r == Head(ready)
  <2>1. /\ r \in Reqs /\ status[r] = "ready" /\ Len(Tail(ready)) = Len(ready) - 1
        /\ \A i \in 1 .. Len(Tail(ready)) : Tail(ready)[i] = ready[i + 1] /\ ready[i + 1] # r
    BY <1>12 DEF DrainReady
  <2>2. pc = "ready" /\ parked = NoReq /\ ready # <<>> /\ ready \in Seq(Reqs)
    BY <1>12 DEF DrainReady
  <2>3. ASSUME NEW outcome \in {"parked", "direct", "dropped"},
               status' = [status EXCEPT ![r] = outcome], ready' = Tail(ready),
               pc' = pc, computed' = computed,
               parked' = IF outcome = "parked" THEN r ELSE parked
        PROVE  HistoryInv'
    <3>1. \A q \in Reqs : status'[q] = "parked" <=> q = parked'
      BY <2>1, <2>2, <2>3
    <3>2. \A q \in Reqs : status'[q] \in {"unsent", "cq", "ready"} => q \notin computed'
      BY <2>1, <2>3
    <3>3. \A i \in 1 .. Len(ready') : i + 1 \in 1 .. Len(ready) /\ ready'[i] = ready[i + 1]
      BY <2>1, <2>2, <2>3
    <3>4. \A i \in 1 .. Len(ready') : status'[ready'[i]] = "ready"
      BY <2>1, <2>2, <2>3, <3>3
    <3>5. \A i, j \in 1 .. Len(ready') : ready'[i] = ready'[j] => i = j
      BY <2>2, <3>3
    <3> QED
      BY <3>1, <3>2, <3>4, <3>5
  <2>4. CASE pc' = "exited"
    BY <1>12, <2>2, <2>4 DEF DrainReady, Dispatch, Park, RespondDirectly, ProcessExits
  <2>5. CASE Park(r) /\ r \notin closed /\ pc' # "exited"
    BY <1>12, <2>3, <2>5 DEF DrainReady, Dispatch, Park, ProcessExits
  <2>6. CASE RespondDirectly(r) /\ r \notin closed
    BY <1>12, <2>2, <2>3, <2>6 DEF DrainReady, Dispatch, RespondDirectly
  <2>7. CASE r \in closed
    BY <1>12, <2>3, <2>7 DEF DrainReady
  <2> QED
    BY <1>12, <2>4, <2>5, <2>6, <2>7 DEF DrainReady, Dispatch
<1>13. CASE DrainReadyReturns
  BY <1>13 DEF DrainReadyReturns, SubmitAll
<1>14. CASE JobCompletes
  BY <1>14 DEF JobCompletes
<1>15. CASE JobFails
  BY <1>15 DEF JobFails
<1>16. CASE ContextLost
  BY <1>16 DEF ContextLost
<1>17. CASE HostSignal
  BY <1>17 DEF HostSignal
<1>18. CASE PollFires
  BY <1>18 DEF PollFires
<1>19. CASE TimerFires
  BY <1>19 DEF TimerFires
<1>20. ASSUME NEW r \in Reqs, ClientSends(r) PROVE HistoryInv'
  BY <1>20 DEF ClientSends
<1>21. ASSUME NEW r \in Reqs, ClientGone(r) PROVE HistoryInv'
  BY <1>21 DEF ClientGone
<1>22. CASE UNCHANGED vars
  BY <1>22
<1> QED
  BY <1>1, <1>2, <1>3, <1>4, <1>5, <1>6, <1>7, <1>8, <1>9, <1>10, <1>11, <1>12, <1>13, <1>14, <1>15, <1>16, <1>17, <1>18, <1>19, <1>20, <1>21, <1>22 DEF Next, Worker, Environment, Exited

(* IInv is an inductive invariant of the worker.                           *)
LEMMA Inductive == Spec => []IInv
<1>1. ASSUME Init PROVE IInv
  <2> USE ReqsAssumption, <1>1 DEF Init
  <2>1. TypeOK
    <3>1. own \in Counts /\ stale \in Counts /\ polls \in Counts
      BY CountsLaws
    <3>2. ready \in Seq(Reqs)
      OBVIOUS
    <3> QED
      BY <3>1, <3>2 DEF TypeOK, Statuses
  <2>2. SubmitInv
    BY DEF SubmitInv, None, Submitted
  <2>3. TimerInv
    BY TotalLaws DEF TimerInv, TimerCovers, NotExited
  <2>4. JobInv /\ HistoryInv /\ ReadyHasWaker /\ AnswerMatchesKernel
    BY DEF JobInv, HistoryInv, ReadyHasWaker, AnswerMatchesKernel, NotExited
  <2> QED
    BY <2>1, <2>2, <2>3, <2>4 DEF IInv
<1>2. IInv /\ [Next]_vars => IInv'
  BY TypeStep, SubmitStep, TimerStep, JobStep, HistoryStep, WakerStep, AnswerStep DEF IInv
<1> QED
  BY <1>1, <1>2, PTL DEF Spec

(* The worker's state is well formed, for every set of requests.           *)
THEOREM Typing == Spec => []TypeOK
<1>1. IInv => TypeOK
  BY DEF IInv
<1> QED
  BY <1>1, Inductive, PTL

(* A request in flight always has exactly one timeout of its own generation, *)
(* whatever stale timeouts do to g_rt_http_gpu_timer_armed.                *)
THEOREM TimerAlwaysCovers == Spec => []TimerCovers
<1>1. IInv => TimerCovers
  BY DEF IInv, TimerInv
<1> QED
  BY <1>1, Inductive, PTL

(* The worker never sleeps in io_uring_wait_cqe on an operation it prepared *)
(* and did not submit.                                                     *)
THEOREM NothingIsStranded == Spec => []NothingStranded
<1>1. IInv => NothingStranded
  BY DEF IInv, SubmitInv, AtLoopTop, NothingStranded
<1> QED
  BY <1>1, Inductive, PTL

(* Requests wait in the ready queue only behind a request in flight.       *)
THEOREM NoWakeupIsLost == Spec => []ReadyHasWaker
<1>1. IInv => ReadyHasWaker
  BY DEF IInv
<1> QED
  BY <1>1, Inductive, PTL

(* A continuation runs only after the request's own kernel completed, and  *)
(* a failed one's 500 is never sent to a request whose kernel completed.   *)
THEOREM AnswersMatchKernels == Spec => []AnswerMatchesKernel
<1>1. IInv => AnswerMatchesKernel
  BY DEF IInv
<1> QED
  BY <1>1, Inductive, PTL

(* The polls outstanding, the one being handled included, and the requests *)
(* that left flight, whose number bounds them.                             *)
Polls == Total(polls) + IF pc = "polled" THEN 1 ELSE 0
Released == {r \in Reqs : status[r] \in {"answered", "failed", "dropped"}}

PollInv ==
  /\ IsFiniteSet(Released)
  /\ pc = "exited" \/ (Polls >= 1 /\ Polls <= 1 + Cardinality(Released))

(* A step gives a new status to one request at most, and to none that left *)
(* flight.                                                                 *)
LEMMA StatusStep ==
  ASSUME IInv, [Next]_vars
  PROVE  \/ UNCHANGED status
         \/ \E r \in Reqs \ Released : \E s : status' = [status EXCEPT ![r] = s]
<1> USE ReqsAssumption DEF vars, loopVars, parkVars, cudaVars, reqVars, Released
<1> DEFINE Moves == \/ UNCHANGED status
                    \/ \E r \in Reqs \ Released : \E s : status' = [status EXCEPT ![r] = s]
<1>0. /\ \A r \in Reqs : status[r] = "parked" <=> r = parked
      /\ ready \in Seq(Reqs) /\ parked \in Reqs \cup {NoReq}
      /\ pc # "exited" => \A i \in 1 .. Len(ready) : status[ready[i]] = "ready"
      /\ pc = "timedOut" => parked # NoReq
  BY DEF IInv, TypeOK, HistoryInv, TimerInv
<1>1. ASSUME NEW to, parked # NoReq, ReleaseOnQuery(to) PROVE Moves
  BY <1>0, <1>1 DEF ReleaseOnQuery, ResetAndRelease, Release, ProcessExits
<1>2. ASSUME NEW r \in Reqs, NEW rest, status[r] \in {"cq", "ready"}, Dispatch(r, rest)
      PROVE  Moves
  BY <1>2 DEF Dispatch, Park, RespondDirectly, ProcessExits
<1>3. ASSUME NEW r \in Reqs, Receive(r) PROVE Moves
  BY <1>2, <1>3 DEF Receive
<1>4. CASE DrainReady
  <2>1. Head(ready) \in Reqs /\ status[Head(ready)] = "ready"
    BY <1>0, <1>4 DEF DrainReady
  <2>2. CASE Dispatch(Head(ready), Tail(ready))
    BY <1>2, <2>1, <2>2
  <2>3. CASE status' = [status EXCEPT ![Head(ready)] = "dropped"]
    BY <2>1, <2>3
  <2> QED
    BY <1>4, <2>2, <2>3 DEF DrainReady
<1>5. CASE LoopTopRelease \/ PollWithJob \/ TimeoutQuery
  BY <1>0, <1>1, <1>5 DEF LoopTopRelease, PollWithJob, TimeoutQuery, RearmPoll
<1>6. ASSUME NEW r \in Reqs, ClientSends(r) PROVE Moves
  BY <1>6 DEF ClientSends
<1>7. \/ LoopTopPass \/ Wake \/ Interrupted \/ ReadPoll \/ PollWithoutJob \/ ReadTimeout
      \/ EndBatch \/ DrainReadyReturns \/ JobCompletes \/ JobFails \/ ContextLost
      \/ HostSignal \/ PollFires \/ TimerFires \/ (\E r \in Reqs : ClientGone(r))
      => Moves
  BY DEF LoopTopPass, Wake, Interrupted, ReadPoll, PollWithoutJob, RearmPoll, ProcessExits,
         ReadTimeout, EndBatch, DrainReadyReturns, JobCompletes, JobFails, ContextLost,
         HostSignal, PollFires, TimerFires, ClientGone
<1>8. CASE UNCHANGED vars
  BY <1>8
<1> QED
  <2> HIDE DEF vars
  <2>1. Moves
    <3>1. Worker => Moves
      BY <1>3, <1>4, <1>5, <1>7 DEF Worker
    <3>2. Environment => Moves
      BY <1>6, <1>7 DEF Environment
    <3> QED
      BY <1>8, <3>1, <3>2 DEF Next, Exited
  <2> QED
    BY <2>1 DEF Moves

(* A step takes a poll only to handle it, and adds one only when it was     *)
(* handled or a request is released.                                       *)
LEMMA PollsStep ==
  ASSUME IInv, [Next]_vars
  PROVE  \/ pc' = "exited"
         \/ pc # "exited" /\ Polls' = Polls
         \/ /\ pc # "exited" /\ Polls' \in {Polls, Polls + 1}
            /\ \E r \in Reqs \ Released : Released' = Released \cup {r}
<1> USE ReqsAssumption, CountsLaws, TotalLaws DEF IInv, TypeOK, loopVars, parkVars, cudaVars, reqVars, vars, Polls
<1> DEFINE Goal == \/ pc' = "exited"
                   \/ pc # "exited" /\ Polls' = Polls
                   \/ /\ pc # "exited" /\ Polls' \in {Polls, Polls + 1}
                      /\ \E r \in Reqs \ Released : Released' = Released \cup {r}
<1>p. Total(polls) \in Nat /\ (polls' = Prepared(polls) => Total(polls') = Total(polls) + 1)
  OBVIOUS
<1>0. ASSUME parked # NoReq, pc # "exited", NEW to \in {"wait", "batch"}, ReleaseOnQuery(to)
      PROVE  Goal
  <2>1. ASSUME NEW failed \in BOOLEAN, Release(failed, to) PROVE Goal
    <3>1. Polls' \in {Polls, Polls + 1}
      <4>1. polls' = Prepared(polls) /\ pc' = "ready"
        BY <2>1 DEF Release
      <4> QED
        BY ONLY <1>p, <4>1 DEF Polls
    <3>2. parked \in Reqs \ Released
      BY <1>0 DEF HistoryInv, Released
    <3>3. Released' = Released \cup {parked}
      BY <2>1, <3>2 DEF Release, Released, Outcome
    <3> QED
      BY <1>0, <3>1, <3>2, <3>3
  <2>2. CASE ProcessExits
    BY <2>2 DEF ProcessExits
  <2> QED
    BY <1>0, <2>1, <2>2 DEF ReleaseOnQuery, ResetAndRelease
<1>1. ASSUME NEW r, NEW rest, Dispatch(r, rest), pc \in {"batch", "ready"} PROVE Goal
  BY <1>1 DEF Dispatch, Park, RespondDirectly, ProcessExits
<1>2. CASE LoopTopRelease
  BY <1>0, <1>2 DEF LoopTopRelease
<1>3. CASE ReadPoll
  BY <1>3 DEF ReadPoll
<1>a. ASSUME pc = "polled", RearmPoll PROVE pc # "exited" /\ Polls' = Polls
  <2>1. pc = "polled" /\ polls' = Prepared(polls) /\ pc' = "batch"
    BY <1>a DEF RearmPoll
  <2> QED
    BY ONLY <1>p, <2>1 DEF Polls
<1>4. CASE PollWithoutJob
  BY <1>4, <1>a DEF PollWithoutJob, ProcessExits
<1>5. CASE PollWithJob
  BY <1>0, <1>5, <1>a DEF PollWithJob
<1>6. CASE TimeoutQuery
  BY <1>0, <1>6 DEF TimeoutQuery, TimerInv
<1>7. ASSUME NEW r \in Reqs, Receive(r) PROVE Goal
  BY <1>1, <1>7 DEF Receive
<1>8. CASE EndBatch \/ DrainReadyReturns
  BY <1>8 DEF EndBatch, DrainReadyReturns, SubmitAll
<1>9. CASE DrainReady
  BY <1>1, <1>9 DEF DrainReady
<1>10. CASE PollFires
  BY <1>10 DEF PollFires, NotExited
<1>11. CASE LoopTopPass \/ Wake \/ Interrupted \/ ReadTimeout
  BY <1>11 DEF LoopTopPass, Wake, Interrupted, ReadTimeout
<1>12. CASE JobCompletes \/ JobFails \/ ContextLost \/ HostSignal \/ TimerFires
  BY <1>12 DEF JobCompletes, JobFails, ContextLost, HostSignal, TimerFires, NotExited
<1>13. ASSUME NEW r \in Reqs, ClientSends(r) \/ ClientGone(r) PROVE Goal
  BY <1>13 DEF ClientSends, ClientGone, NotExited
<1>14. CASE UNCHANGED vars
  BY <1>14
<1> QED
  BY <1>2, <1>3, <1>4, <1>5, <1>6, <1>7, <1>8, <1>9, <1>10, <1>11, <1>12, <1>13, <1>14
  DEF Next, Worker, Environment, Exited

LEMMA PollInvStep ==
  ASSUME IInv, PollInv, [Next]_vars
  PROVE  PollInv'
<1> DEFINE n == Cardinality(Released)
<1>1. \/ Released' = Released
      \/ \E r \in Reqs \ Released : Released' \in {Released, Released \cup {r}}
  BY StatusStep DEF IInv, TypeOK, Released
<1>2. IsFiniteSet(Released') /\ n \in Nat /\ n' \in {n, n + 1}
  BY <1>1, FS_CardinalityType, FS_AddElement DEF PollInv
<1>3. ASSUME NEW r \in Reqs \ Released, Released' = Released \cup {r}
      PROVE  n' = n + 1
  BY <1>3, FS_AddElement DEF PollInv
<1>4. pc # "exited" => Polls \in Nat /\ Polls >= 1 /\ Polls <= 1 + n
  BY TotalLaws DEF IInv, TypeOK, PollInv, Polls
<1>5. pc' = "exited" \/ (Polls' >= 1 /\ Polls' <= 1 + n')
  <2> HIDE DEF n
  <2>1. CASE pc # "exited" /\ Polls' = Polls
    BY <1>2, <1>4, <2>1
  <2>2. CASE /\ pc # "exited" /\ Polls' \in {Polls, Polls + 1}
             /\ \E r \in Reqs \ Released : Released' = Released \cup {r}
    <3>1. n' = n + 1
      BY <1>3, <2>2
    <3> QED
      BY <1>2, <1>4, <2>2, <3>1
  <2> QED
    BY <2>1, <2>2, PollsStep
<1> QED
  BY <1>2, <1>5 DEF PollInv

(* The eventfd is always polled, but for the instant between a poll's      *)
(* completion and its re-arming; and the polls that releases add never     *)
(* exceed the requests released, however many there are.                   *)
THEOREM PollsWithinBudget == Spec => []PollBudget
<1>1. Init => PollInv
  <2>1. Init => Released = {}
    BY DEF Init, Released
  <2>2. Init => Total(polls) = 1 /\ pc = "top"
    BY DEF Init, Total, Submitted, Prepared, None
  <2> QED
    BY <2>1, <2>2, FS_EmptySet DEF PollInv, Polls
<1>2. IInv /\ PollInv /\ [Next]_vars => PollInv'
  BY PollInvStep
<1>3. IInv /\ PollInv => PollBudget
  <2> SUFFICES ASSUME IInv, PollInv PROVE PollBudget
    OBVIOUS
  <2> DEFINE n == Cardinality(Released)
  <2>1. n \in Nat /\ Total(polls) \in Nat
    BY FS_CardinalityType, TotalLaws DEF IInv, TypeOK, PollInv
  <2>2. pc = "exited" \/ (Polls >= 1 /\ Polls <= 1 + n)
    BY DEF PollInv
  <2>3. pc = "exited" \/ Polls \in 1 .. (1 + n)
    <3> HIDE DEF n
    <3> QED
      BY <2>1, <2>2 DEF Polls
  <2> QED
    BY <2>3 DEF PollBudget, Polls, Released
<1> QED
  BY <1>1, <1>2, <1>3, Inductive, PTL DEF Spec

(* rt_http_gpu_release takes the request in flight, and takes it once.     *)
THEOREM RequestsReleasedOnce == Spec => ReleasedOnce
<1> DEFINE Once(r) ==
       /\ status[r] \in {"answered", "failed", "dropped", "direct"} => status'[r] = status[r]
       /\ status[r] = "parked" /\ status'[r] # "parked" => parked = r /\ parked' # r
<1>1. ASSUME IInv, [Next]_vars, NEW q \in Reqs PROVE Once(q)
  <2> USE ReqsAssumption DEF vars, loopVars, parkVars, cudaVars, reqVars
  <2>0. /\ status \in [Reqs -> Statuses]
        /\ \A r \in Reqs : status[r] = "parked" <=> r = parked
        /\ ready \in Seq(Reqs)
        /\ pc # "exited" => \A i \in 1 .. Len(ready) : status[ready[i]] = "ready"
        /\ pc = "timedOut" => parked # NoReq
    BY <1>1 DEF IInv, TypeOK, HistoryInv, TimerInv
  <2>1. ASSUME NEW to \in {"wait", "batch"}, parked # NoReq, ReleaseOnQuery(to) PROVE Once(q)
    <3>1. CASE status' = status
      BY <3>1
    <3>2. CASE \E failed \in BOOLEAN : Release(failed, to)
      BY <2>0, <2>1, <3>2 DEF Release
    <3> QED
      BY <2>1, <3>1, <3>2 DEF ReleaseOnQuery, ResetAndRelease, ProcessExits
  <2>2. ASSUME NEW r \in Reqs, NEW rest, status[r] \in {"cq", "ready"}, Dispatch(r, rest)
        PROVE  Once(q)
    BY <2>0, <2>2 DEF Dispatch, Park, RespondDirectly, ProcessExits
  <2>3. ASSUME NEW r \in Reqs, Receive(r) PROVE Once(q)
    BY <2>0, <2>2, <2>3 DEF Receive
  <2>4. CASE DrainReady
    <3>1. Head(ready) \in Reqs /\ status[Head(ready)] = "ready"
      BY <2>0, <2>4 DEF DrainReady
    <3> QED
      BY <2>0, <2>2, <2>4, <3>1 DEF DrainReady
  <2>5. CASE LoopTopRelease \/ PollWithJob
    BY <2>1, <2>5 DEF LoopTopRelease, PollWithJob, RearmPoll
  <2>6. CASE TimeoutQuery
    BY <2>0, <2>1, <2>6 DEF TimeoutQuery
  <2>7. ASSUME NEW r \in Reqs, ClientSends(r) PROVE Once(q)
    BY <2>0, <2>7 DEF ClientSends
  <2>8. CASE status' = status
    BY <2>8
  <2>9. \/ LoopTopPass \/ Wake \/ Interrupted \/ ReadPoll \/ PollWithoutJob \/ ReadTimeout
        \/ EndBatch \/ DrainReadyReturns \/ JobCompletes \/ JobFails \/ ContextLost
        \/ HostSignal \/ PollFires \/ TimerFires \/ (\E r \in Reqs : ClientGone(r))
        \/ UNCHANGED vars
        => status' = status
    BY DEF LoopTopPass, Wake, Interrupted, ReadPoll, PollWithoutJob, RearmPoll, ProcessExits,
           ReadTimeout, EndBatch, DrainReadyReturns, JobCompletes, JobFails, ContextLost,
           HostSignal, PollFires, TimerFires, ClientGone
  <2> QED
    <3> HIDE DEF vars, Once
    <3> QED
      BY <1>1, <2>3, <2>4, <2>5, <2>6, <2>7, <2>8, <2>9 DEF Next, Worker, Environment, Exited
<1>2. ASSUME IInv, [Next]_vars
      PROVE  [\A r \in Reqs : Once(r)]_vars
  BY <1>1, <1>2
<1> QED
  BY <1>2, Inductive, PTL DEF Spec, ReleasedOnce

(* When every GPU route is flagged no gpu.finish finds the stream busy:    *)
(* only a fault that CUDA keeps reporting ends the process.                *)
THEOREM OnlyLostContextsExit ==
  ASSUME Hidden = {}
  PROVE  Spec => []OthersWait
<1>1. Init => OthersWait
  BY DEF Init, OthersWait
<1>2. IInv /\ OthersWait /\ [Next]_vars => OthersWait'
  <2> SUFFICES ASSUME IInv, pc = "exited" => dead, [Next]_vars
               PROVE  pc' = "exited" => dead'
    BY DEF OthersWait
  <2> DEFINE Good == pc' = "exited" => dead'
  <2> SUFFICES Good
    OBVIOUS
  <2> USE DEF vars, loopVars, parkVars, cudaVars, reqVars
  <2>0. (pc # "exited" => (busy <=> parked # NoReq)) /\ ret \in {"wait", "batch"} /\ dead \in BOOLEAN
    BY DEF IInv, TypeOK, JobInv, NotExited
  <2>1. ASSUME NEW to \in {"wait", "batch"}, ReleaseOnQuery(to) PROVE Good
    BY <2>1 DEF ReleaseOnQuery, ResetAndRelease, Release, ProcessExits
  <2>2. ASSUME NEW r, NEW rest, parked = NoReq, pc # "exited", Dispatch(r, rest) PROVE Good
    BY <2>0, <2>2 DEF Dispatch, Park, RespondDirectly, ProcessExits
  <2>3. Environment => Good
    BY DEF Environment, JobCompletes, JobFails, ContextLost, HostSignal, PollFires, TimerFires,
           ClientSends, ClientGone
  <2>4. LoopTopRelease \/ PollWithJob \/ TimeoutQuery => Good
    BY <2>1 DEF LoopTopRelease, PollWithJob, RearmPoll, TimeoutQuery
  <2>5. DrainReady \/ (\E r \in Reqs : Receive(r)) => Good
    BY <2>2 DEF DrainReady, Receive
  <2>6. \/ LoopTopPass \/ Wake \/ Interrupted \/ ReadPoll \/ PollWithoutJob \/ ReadTimeout
        \/ EndBatch \/ DrainReadyReturns \/ Exited \/ UNCHANGED vars
        => Good
    BY <2>0 DEF LoopTopPass, Wake, Interrupted, ReadPoll, PollWithoutJob, RearmPoll, ProcessExits,
           ReadTimeout, EndBatch, DrainReadyReturns, Exited
  <2> HIDE DEF vars, Good
  <2> QED
    BY <2>3, <2>4, <2>5, <2>6 DEF Next, Worker
<1> QED
  BY <1>1, <1>2, Inductive, PTL DEF Spec

(* Each step of the worker is a step of the service, or none.              *)
LEMMA ServiceStep ==
  ASSUME Hidden = {}, IInv, [Next]_vars
  PROVE  [Service!Next]_Service!vars
<1> DEFINE Final == {"answered", "failed", "direct", "dropped"}
           Result == [r \in Reqs |-> IF status[r] \in Final THEN status[r] ELSE "none"]
<1> USE ReqsAssumption DEF loopVars, parkVars, cudaVars, reqVars
<1>0. /\ parked \in Reqs \cup {NoReq} /\ ready \in Seq(Reqs) /\ status \in [Reqs -> Statuses]
      /\ computed \subseteq Reqs /\ closed \subseteq Reqs
      /\ \A r \in Reqs : status[r] = "parked" <=> r = parked
      /\ NotExited => \A i \in 1 .. Len(ready) : status[ready[i]] = "ready"
      /\ NotExited => (busy <=> parked # NoReq)
      /\ ready # <<>> /\ pc \notin {"ready", "exited"} => parked # NoReq
      /\ pc = "timedOut" => parked # NoReq
  BY DEF IInv, TypeOK, HistoryInv, JobInv, ReadyHasWaker, NotExited, TimerInv
<1>1. ASSUME status' = status, UNCHANGED <<parked, ready, computed>>
      PROVE  UNCHANGED Service!vars
  BY <1>1 DEF Service!vars
<1>2. ASSUME NEW to \in {"wait", "batch"}, parked # NoReq, NotExited, ReleaseOnQuery(to)
      PROVE  Service!Finish \/ UNCHANGED Service!vars
  <2>0. CASE dead
    <3>1. UNCHANGED <<status, parked, ready, computed>>
      BY <1>2, <2>0 DEF ReleaseOnQuery, ResetAndRelease, ProcessExits, Query
    <3> QED
      BY <1>1, <3>1
  <2> SUFFICES ASSUME ~dead PROVE Service!Finish
    BY <2>0
  <2>1. PICK failed \in BOOLEAN : Release(failed, to) /\ Query = (IF failed THEN "failed" ELSE "done")
    BY <1>2 DEF ReleaseOnQuery, ResetAndRelease
  <2>2. parked \in computed <=> ~failed
    BY <1>0, <1>2, <2>1 DEF Query, IInv, JobInv, TypeOK
  <2>3. parked' = NoReq /\ UNCHANGED <<ready, computed>>
          /\ status' = [status EXCEPT ![parked] = Outcome(parked, failed)]
    BY <2>1 DEF Release
  <2>4. Outcome(parked, failed) \in {IF parked \in computed THEN "answered" ELSE "failed", "dropped"}
    BY <2>2 DEF Outcome
  <2>5. Result' = [Result EXCEPT ![parked] = Outcome(parked, failed)]
    BY <1>0, <1>2, <2>3, <2>4
  <2> QED
    BY <1>2, <2>3, <2>4, <2>5 DEF Service!Finish
<1>3. ASSUME NEW r \in Reqs, NEW rest, NotExited, parked = NoReq, Dispatch(r, rest),
             status[r] \in {"cq", "ready"},
             \/ ready # <<>> /\ r = Head(ready) /\ rest = Tail(ready)
             \/ ready = <<>> /\ rest = ready
      PROVE  Service!Start(r) \/ Service!Settle(r) \/ UNCHANGED Service!vars
  <2>0. CASE Park(r) /\ dead
    <3>1. UNCHANGED <<status, parked, ready, computed>>
      BY <1>3, <2>0 DEF Park, ProcessExits, Dispatch
    <3> QED
      BY <1>1, <3>1
  <2> SUFFICES ASSUME ~(Park(r) /\ dead) PROVE Service!Start(r) \/ Service!Settle(r)
    BY <2>0
  <2>1. Service!NextUp(r)
    <3>1. pc' = pc
      BY <1>0, <1>3 DEF Dispatch, Park, RespondDirectly
    <3>2. ready' = rest
      BY <1>3, <3>1 DEF Dispatch, NotExited
    <3> QED
      BY <1>0, <1>3, <3>2 DEF Service!NextUp, Service!New
  <2>2. CASE Park(r)
    <3>1. parked' = r /\ UNCHANGED computed /\ status' = [status EXCEPT ![r] = "parked"]
      BY <1>0, <1>3, <2>2 DEF Park
    <3>2. Result' = Result
      BY <1>0, <1>3, <3>1
    <3> QED
      BY <2>1, <3>1, <3>2 DEF Service!Start
  <2>3. CASE RespondDirectly(r)
    <3>1. UNCHANGED <<parked, computed>> /\ status' = [status EXCEPT ![r] = "direct"]
      BY <2>3 DEF RespondDirectly
    <3>2. Result' = [Result EXCEPT ![r] = "direct"]
      BY <1>0, <1>3, <3>1
    <3> QED
      BY <2>1, <3>1, <3>2 DEF Service!Settle
  <2> QED
    BY <1>3, <2>2, <2>3 DEF Dispatch
<1>4. ASSUME NEW r \in Reqs, Receive(r)
      PROVE  Service!Next \/ UNCHANGED Service!vars
  <2>1. CASE parked # NoReq /\ r \notin Hidden
    <3>1. ready' = Append(ready, r) /\ UNCHANGED <<parked, computed>>
            /\ status' = [status EXCEPT ![r] = "ready"] /\ status[r] = "cq" /\ NotExited
      BY <1>4, <2>1 DEF Receive, NotExited
    <3>2. Result' = Result
      BY <1>0, <3>1
    <3>3. Service!New(r)
      BY <1>0, <3>1 DEF Service!New
    <3> QED
      BY <2>1, <3>1, <3>2, <3>3 DEF Service!Next, Service!Enqueue
  <2>2. CASE ~(parked # NoReq /\ r \notin Hidden) /\ parked = NoReq
    <3>1. ready = <<>> /\ NotExited /\ status[r] = "cq" /\ Dispatch(r, ready)
      BY <1>0, <1>4, <2>2 DEF Receive, NotExited
    <3> QED
      BY <1>3, <2>2, <3>1 DEF Service!Next
  <2> QED
    BY <2>1, <2>2
<1>5. CASE DrainReady
  <2>0. PICK r \in Reqs : ready # <<>> /\ r = Head(ready)
    BY <1>0, <1>5 DEF DrainReady
  <2>1. r \in Reqs /\ status[r] = "ready" /\ ready # <<>> /\ parked = NoReq /\ NotExited
    BY <1>0, <1>5, <2>0 DEF DrainReady, NotExited
  <2>2. CASE r \in closed
    <3>1. ready' = Tail(ready) /\ UNCHANGED <<parked, computed>>
            /\ status' = [status EXCEPT ![r] = "dropped"]
      BY <1>5, <2>0, <2>2 DEF DrainReady
    <3>2. Result' = [Result EXCEPT ![r] = "dropped"]
      BY <1>0, <2>1, <3>1
    <3>3. Service!Settle(r)
      BY <2>0, <2>1, <3>1, <3>2 DEF Service!Settle, Service!NextUp
    <3> QED
      BY <3>3 DEF Service!Next
  <2>3. CASE r \notin closed
    <3>1. Dispatch(r, Tail(ready))
      BY <1>5, <2>0, <2>3 DEF DrainReady
    <3> QED
      BY <1>3, <2>0, <2>1, <3>1 DEF Service!Next
  <2> QED
    BY <2>2, <2>3
<1>6. CASE LoopTopRelease
  BY <1>2, <1>6 DEF LoopTopRelease, NotExited, Service!Next
<1>7. CASE PollWithJob
  <2>1. CASE Query = "running" /\ RearmPoll
    BY <1>1, <2>1 DEF RearmPoll
  <2> QED
    BY <1>2, <1>7, <2>1 DEF PollWithJob, NotExited, Service!Next
<1>8. CASE TimeoutQuery
  <2>1. CASE UNCHANGED <<ret, parked, stale, polls, cudaVars, reqVars>>
    BY <1>1, <2>1
  <2> QED
    BY <1>0, <1>2, <1>8, <2>1 DEF TimeoutQuery, NotExited, Service!Next
<1>9. CASE JobCompletes
  <2>1. parked # NoReq /\ parked \notin computed /\ computed' = computed \cup {parked}
          /\ UNCHANGED <<parked, ready, status>>
    BY <1>9 DEF JobCompletes, IInv, JobInv
  <2>2. Result' = Result
    BY <2>1
  <2> QED
    BY <2>1, <2>2 DEF Service!Next, Service!Compute
<1>10. ASSUME NEW r \in Reqs, ClientSends(r)
       PROVE  UNCHANGED Service!vars
  <2>1. UNCHANGED <<parked, ready, computed>> /\ status[r] = "unsent"
          /\ status' = [status EXCEPT ![r] = "cq"]
    BY <1>10 DEF ClientSends
  <2>2. Result' = Result
    BY <1>0, <2>1
  <2> QED
    BY <2>1, <2>2 DEF Service!vars
<1>11. \/ LoopTopPass \/ Wake \/ Interrupted \/ ReadPoll \/ PollWithoutJob \/ ReadTimeout
       \/ EndBatch \/ DrainReadyReturns \/ JobFails \/ ContextLost
       \/ HostSignal \/ PollFires \/ TimerFires \/ (\E r \in Reqs : ClientGone(r))
       \/ UNCHANGED vars
       => UNCHANGED <<parked, ready, status, computed>>
  BY DEF vars, LoopTopPass, Wake, Interrupted, ReadPoll, PollWithoutJob, RearmPoll, ProcessExits,
         ReadTimeout, EndBatch, DrainReadyReturns, JobFails, ContextLost,
         HostSignal, PollFires, TimerFires, ClientGone
<1> HIDE DEF vars, Result
<1> QED
  BY <1>1, <1>4, <1>5, <1>6, <1>7, <1>8, <1>9, <1>10, <1>11 DEF Next, Worker, Environment, Exited

(* The worker implements the service of GpuService: one request in flight, *)
(* the others served in order, each answered as its own kernel ended.      *)
THEOREM WorkerImplementsService ==
  ASSUME Hidden = {}
  PROVE  Spec => ImplementsService
<1>1. Init => Service!Init
  BY DEF Init, Service!Init
<1>2. IInv /\ [Next]_vars => [Service!Next]_Service!vars
  BY ServiceStep
<1> QED
  BY <1>1, <1>2, Inductive, PTL DEF Spec, ImplementsService, Service!Spec
=============================================================================
