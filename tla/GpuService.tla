----------------------------- MODULE GpuService -----------------------------
(***************************************************************************)
(* What a worker promises the clients of its GPU routes (docs/GPU.md,      *)
(* "Models"): one request in flight at a time, the others served in the    *)
(* order they came, a continuation only after the request's own kernel,    *)
(* and a 500 only for a kernel that failed.                                *)
(***************************************************************************)
EXTENDS Naturals, Sequences

CONSTANTS Reqs, NoReq

VARIABLES
  inflight,  \* the request whose kernel runs, or NoReq
  queue,     \* requests waiting for it, in order
  result,    \* what each request got: "none" so far
  computed   \* requests whose kernel completed

vars == <<inflight, queue, result, computed>>

Init ==
  /\ inflight = NoReq
  /\ queue = <<>>
  /\ result = [r \in Reqs |-> "none"]
  /\ computed = {}

New(r) ==
  /\ result[r] = "none"
  /\ r # inflight
  /\ \A i \in 1 .. Len(queue) : queue[i] # r

Enqueue(r) ==
  /\ New(r)
  /\ inflight # NoReq
  /\ queue' = Append(queue, r)
  /\ UNCHANGED <<inflight, result, computed>>

(* The next request to serve: a new one only when none waits. *)
NextUp(r) ==
  /\ inflight = NoReq
  /\ \/ queue # <<>> /\ r = Head(queue) /\ queue' = Tail(queue)
     \/ queue = <<>> /\ New(r) /\ UNCHANGED queue

Start(r) ==
  /\ NextUp(r)
  /\ inflight' = r
  /\ UNCHANGED <<result, computed>>

(* Its handler answered without the device, or its client is gone. *)
Settle(r) ==
  /\ NextUp(r)
  /\ \E answer \in {"direct", "dropped"} : result' = [result EXCEPT ![r] = answer]
  /\ UNCHANGED <<inflight, computed>>

Compute ==
  /\ inflight # NoReq
  /\ inflight \notin computed
  /\ computed' = computed \cup {inflight}
  /\ UNCHANGED <<inflight, queue, result>>

Finish ==
  /\ inflight # NoReq
  /\ inflight' = NoReq
  /\ \E answer \in {IF inflight \in computed THEN "answered" ELSE "failed", "dropped"} :
       result' = [result EXCEPT ![inflight] = answer]
  /\ UNCHANGED <<queue, computed>>

Next ==
  \/ \E r \in Reqs : Enqueue(r) \/ Start(r) \/ Settle(r)
  \/ Compute \/ Finish

Fairness == WF_vars(Finish) /\ \A r \in Reqs : WF_vars(queue # <<>> /\ (Start(r) \/ Settle(r)))

Spec == Init /\ [][Next]_vars

FairSpec == Spec /\ Fairness
=============================================================================
