---------------------------- MODULE GpuWorkspace ----------------------------
(***************************************************************************)
(* The workspaces of an HTTP worker: float buffers on the device, each     *)
(* with a pinned mirror on the host (internal/runtime/c/rt.go).  Copies to *)
(* the device go through the mirror and are queued, like kernels, on the   *)
(* worker's stream; gpu.finish queues the copies back, and leaves out      *)
(* those it takes for inputs by what was borrowed and copied since the     *)
(* flags were last cleared.                                                *)
(*                                                                         *)
(* A value is the request it was computed for and the number of kernels it *)
(* went through.  Abstracted: lengths and types, integer workspaces (they  *)
(* are never copied back), mounted tensors (read only), a failure of a     *)
(* call to CUDA outside of a parked job (the process ends).  When the end  *)
(* of a job is seen, and what waits for it, is GpuPark.                    *)
(***************************************************************************)
EXTENDS Integers, Sequences, FiniteSets

CONSTANTS
  Slots,     \* the workspaces
  Families,  \* sets of handlers, each a sequence of steps: one is picked
  MaxJobs    \* requests dispatched (bound)

Borrow(s) == [op |-> "borrow", src |-> s, dst |-> s]  \* gpu.borrowFloat(s)
Copy(s) == [op |-> "copy", src |-> s, dst |-> s]      \* gpu.copyToDevice(x, s)
Launch(i, o) == [op |-> "launch", src |-> i, dst |-> o] \* a kernel from i to o
Read(s) == [op |-> "read", src |-> s, dst |-> s]      \* gpu.copyToHost(s, x)
Finish == [op |-> "finish"]                           \* gpu.finish

Steps ==
  {e \in [op : {"borrow", "copy", "read", "launch"}, src : Slots, dst : Slots] :
     e.op # "launch" => e.src = e.dst}
  \cup {Finish}

ASSUME WorkspaceAssumption ==
  /\ IsFiniteSet(Slots)
  /\ \A family \in Families : family \subseteq Seq(Steps)
  /\ MaxJobs \in Nat

VARIABLES
  family,
  handler,   \* what is left of the handler that runs
  gpc,       \* "idle", "runs", "reads" (copyToHost waits), "parked"
  jobs,      \* requests dispatched so far
  device, pinned,
  borrowed, copied,  \* slots whose flag is set (copied: copied_h2d)
  gpuStream, \* what is queued on the worker's stream
  meant,     \* what the handler means the buffers to hold (history)
  hostRead   \* what the host read last, with what it should be (history)

gpuVars == <<family, handler, gpc, jobs, device, pinned, borrowed, copied, gpuStream, meant, hostRead>>

Zero == [of |-> 0, stage |-> 0]
Result(v) == [v EXCEPT !.stage = @ + 1]

Step(op) == gpc = "runs" /\ handler # <<>> /\ Head(handler).op = op
Slot == Head(handler).dst
Go == handler' = Tail(handler) /\ UNCHANGED <<family, gpc, jobs>>

----------------------------------------------------------------------------
(* Requests for flagged routes are dispatched one at a time. *)
DispatchJob ==
  /\ gpc = "idle"
  /\ jobs < MaxJobs
  /\ handler' \in family
  /\ gpc' = "runs"
  /\ jobs' = jobs + 1
  /\ meant' = [s \in Slots |-> Zero]
  /\ hostRead' = {}
  /\ UNCHANGED <<family, device, pinned, borrowed, copied, gpuStream>>

BorrowSlot ==
  /\ Step("borrow")
  /\ borrowed' = borrowed \cup {Slot}
  /\ Go
  /\ UNCHANGED <<device, pinned, copied, gpuStream, meant, hostRead>>

(* rt_gpu_copy_to_device: the mirror is written now, the buffer later. *)
CopyToDevice ==
  /\ Step("copy")
  /\ copied' = copied \cup {Slot}
  /\ pinned' = [pinned EXCEPT ![Slot] = [of |-> jobs, stage |-> 0]]
  /\ gpuStream' = Append(gpuStream, Head(handler))
  /\ meant' = [meant EXCEPT ![Slot] = [of |-> jobs, stage |-> 0]]
  /\ Go
  /\ UNCHANGED <<device, borrowed, hostRead>>

LaunchKernel ==
  /\ Step("launch")
  /\ gpuStream' = Append(gpuStream, Head(handler))
  /\ meant' = [meant EXCEPT ![Slot] = Result(meant[Head(handler).src])]
  /\ Go
  /\ UNCHANGED <<device, pinned, borrowed, copied, hostRead>>

(* rt_gpu_copy_to_host goes through the mirror and waits for the stream. *)
CopyToHost ==
  /\ Step("read")
  /\ gpuStream' = Append(gpuStream, [op |-> "back", src |-> Slot, dst |-> Slot])
  /\ gpc' = "reads"
  /\ UNCHANGED <<family, handler, jobs, device, pinned, borrowed, copied, meant, hostRead>>

CopiedToHost ==
  /\ gpc = "reads"
  /\ gpuStream = <<>>
  /\ hostRead' = {[got |-> pinned[Slot], want |-> meant[Slot]]}
  /\ handler' = Tail(handler)
  /\ gpc' = "runs"
  /\ UNCHANGED <<family, jobs, device, pinned, borrowed, copied, gpuStream, meant>>

(* Mutant: a slot that was copied to is never copied back. *)
CopiedBackOutputsOnly == borrowed \ copied

(* rt_gpu_submit_signal: a slot that was copied to is taken for an input   *)
(* if there is a slot that was not.                                        *)
CopiedBack == IF borrowed \ copied # {} THEN borrowed \ copied ELSE borrowed

FinishJob ==
  /\ Step("finish")
  /\ \E order \in [1 .. Cardinality(CopiedBack) -> CopiedBack] :
       /\ {order[i] : i \in DOMAIN order} = CopiedBack
       /\ gpuStream' =
            gpuStream \o [i \in DOMAIN order |-> [op |-> "back", src |-> order[i], dst |-> order[i]]]
  /\ gpc' = "parked"
  /\ handler' = Tail(handler)
  /\ UNCHANGED <<family, jobs, device, pinned, borrowed, copied, meant, hostRead>>

(* A handler that does not call gpu.finish answers and returns. *)
Answer ==
  /\ gpc = "runs"
  /\ handler = <<>>
  /\ gpc' = "idle"
  /\ UNCHANGED <<family, handler, jobs, device, pinned, borrowed, copied, gpuStream, meant, hostRead>>

(* The job is done: rt_gpu_clear_busy, and the continuation reads the      *)
(* mirrors (gpu.ready) of what kernels of its request wrote.               *)
ReleaseJob ==
  /\ gpc = "parked"
  /\ gpuStream = <<>>
  /\ hostRead' = {[got |-> pinned[s], want |-> meant[s]] : s \in {t \in Slots : meant[t].stage > 0}}
  /\ borrowed' = {} /\ copied' = {}
  /\ gpc' = "idle"
  /\ UNCHANGED <<family, handler, jobs, device, pinned, gpuStream, meant>>

(* A kernel failed: rt_gpu_reset_stream; the request gets a 500. *)
FailJob ==
  /\ gpc = "parked"
  /\ \E i \in DOMAIN gpuStream : gpuStream[i].op = "launch"
  /\ gpuStream' = <<>>
  /\ borrowed' = {} /\ copied' = {}
  /\ gpc' = "idle"
  /\ hostRead' = {}
  /\ UNCHANGED <<family, handler, jobs, device, pinned, meant>>

(* The device does what is queued, in order and in its own time. *)
DeviceStep ==
  /\ gpuStream # <<>>
  /\ gpuStream' = Tail(gpuStream)
  /\ LET e == Head(gpuStream) IN
       CASE e.op = "copy" ->
              device' = [device EXCEPT ![e.dst] = pinned[e.dst]] /\ UNCHANGED pinned
         [] e.op = "launch" ->
              device' = [device EXCEPT ![e.dst] = Result(device[e.src])] /\ UNCHANGED pinned
         [] e.op = "back" ->
              pinned' = [pinned EXCEPT ![e.src] = device[e.src]] /\ UNCHANGED device
  /\ UNCHANGED <<family, handler, gpc, jobs, borrowed, copied, meant, hostRead>>

GpuInit ==
  /\ family \in Families
  /\ handler = <<>> /\ gpc = "idle" /\ jobs = 0
  /\ device = [s \in Slots |-> Zero] /\ pinned = [s \in Slots |-> Zero]
  /\ borrowed = {} /\ copied = {} /\ gpuStream = <<>>
  /\ meant = [s \in Slots |-> Zero] /\ hostRead = {}

GpuNext ==
  \/ DispatchJob \/ BorrowSlot \/ CopyToDevice \/ LaunchKernel \/ CopyToHost \/ CopiedToHost
  \/ FinishJob \/ Answer \/ ReleaseJob \/ FailJob \/ DeviceStep

GpuSpec == GpuInit /\ [][GpuNext]_gpuVars

----------------------------------------------------------------------------
(* Handlers that use their workspaces in order: a kernel's input, and what *)
(* is read, was copied or computed before; what a kernel writes to was     *)
(* borrowed; gpu.finish comes last.                                        *)
DoneTo(h, op, k) == {h[i].dst : i \in {j \in DOMAIN h : j <= k /\ h[j].op = op}}
Written(h, k) == DoneTo(h, "copy", k) \cup DoneTo(h, "launch", k)
InOrderOf(h) ==
  \A i \in DOMAIN h :
    /\ h[i].op = "launch" => h[i].src \in Written(h, i - 1) /\ h[i].dst \in DoneTo(h, "borrow", i - 1)
    /\ h[i].op = "read" => h[i].dst \in Written(h, i - 1)
    /\ h[i].op = "finish" => i = Len(h)

(* Some of the workspaces are for what handlers copy, others for what      *)
(* kernels write...                                                        *)
Inputs(f, inputs) ==
  \A h \in f : DoneTo(h, "copy", Len(h)) \subseteq inputs /\ DoneTo(h, "launch", Len(h)) \cap inputs = {}
(* ... or every handler calls gpu.finish, and writes to no workspace that  *)
(* it copied to, or borrows only such.                                     *)
AllFinish(f) ==
  \A h \in f :
    /\ h # <<>> /\ h[Len(h)].op = "finish"
    /\ \/ DoneTo(h, "launch", Len(h)) \cap DoneTo(h, "copy", Len(h)) = {}
       \/ DoneTo(h, "borrow", Len(h)) \subseteq DoneTo(h, "copy", Len(h))

Orderly(f) ==
  (\A h \in f : InOrderOf(h)) /\ ((\E inputs \in SUBSET Slots : Inputs(f, inputs)) \/ AllFinish(f))

(* What the host reads, in a continuation or after copyToHost, is what the *)
(* kernels of the request computed from the data the request sent: no copy *)
(* to or from a mirror is missing, stale or another request's.             *)
HostReadsResult == \A r \in hostRead : r.got = r.want
=============================================================================
