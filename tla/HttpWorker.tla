----------------------------- MODULE HttpWorker -----------------------------
(***************************************************************************)
(* One HTTP worker thread: its io_uring loop, its table of connections and *)
(* the way a response reaches the wire (internal/runtime/c/http.go).       *)
(*                                                                         *)
(* Connections are known to the worker by their file descriptor only.  The *)
(* kernel gives the number of a closed descriptor to the next client, and  *)
(* completions carry the number: what the worker believes of a descriptor  *)
(* and what the kernel means by it are kept apart here.                    *)
(*                                                                         *)
(* A small response is copied to the connection's tx_buf and queued as a   *)
(* SEND, whose bytes the kernel reads when it executes; other responses    *)
(* are written with writev at once.                                        *)
(*                                                                         *)
(* Abstracted: parsing and routing (a request is one of Kinds and arrives  *)
(* whole), the GPU job (GpuPark: here it may end at any time), an          *)
(* exhausted submission queue.  The ring is created with DEFER_TASKRUN, so *)
(* the kernel posts completions while the worker waits, or inline when it  *)
(* submits; clients act only there too, for only there are they observed.  *)
(***************************************************************************)
EXTENDS Integers, Sequences, FiniteSets, SequencesExt

CONSTANTS
  Socks,        \* the connections clients make, one socket each
  Fds,          \* descriptor numbers, a set of naturals below RT_MAX_CONNS
  Traffics,     \* what clients may do: one member is picked for a behaviour
  MaxReqs,      \* requests each client sends on its connection, at most (bound)
  QuietReuse,   \* a number is reused only when nothing refers to it any more
  None

AllKinds == {
  "text",        \* a handler answers with a small response (http.text, ...)
  "large",       \* a handler answers with more than 65536 bytes
  "simple",      \* no route matches, or the handler does not respond
  "close",       \* "text" with Connection: close, or HTTP/1.0
  "uploadClose", \* "close" with a body beyond 65536 bytes
  "malformed",   \* 400, 413 or 431
  "gpu" }        \* a flagged route whose handler calls gpu.finish

(* kinds: what clients ask for; parts: the units a response is sent in (2:  *)
(* a send may be short); pipelined: clients send before the answer to the   *)
(* last request came; backpressure: a SEND may not fit in the socket's      *)
(* buffer at once.                                                          *)
Traffic == [kinds : SUBSET AllKinds, parts : 1 .. 2, pipelined : BOOLEAN, backpressure : BOOLEAN]

(* A request is known by its place among those of its connection. *)
Requests == [sock : Socks, n : Nat \ {0}]

ASSUME WorkerAssumption ==
  /\ Fds \subseteq Nat
  /\ Traffics \subseteq Traffic
  /\ MaxReqs \in [Socks -> Nat] /\ QuietReuse \in BOOLEAN
  /\ None \notin Socks \cup Fds \cup Requests \cup [fd : Fds, req : Requests]

VARIABLES
  \* the clients
  traffic,  \* what they do in this behaviour, a member of Traffics
  client,   \* "new", "backlog", "open", "gone"
  asked,    \* the kinds of the requests sent on each socket
  taken,    \* how many of them the kernel handed to the worker
  wire,     \* the units of responses that arrived, as [sock, n, part]
  \* the kernel
  owner,    \* the descriptor table: fd -> socket, or None
  shut,     \* sockets the worker shut down, or closed for good
  armed,    \* multishot recvs in the kernel, as [sock, fd]
  pending,  \* SENDs that wait for room, as [sock, fd, from]
  sq, cq,   \* submission and completion queue
  job,      \* the GPU job of the parked request: "running", "done", "failed"
  \* the worker
  pc, back, ret, after, \* where it stands, and where its calls return to
  frame,    \* the request being served: [fd, req, closing]
  rearm,    \* the recv completion being handled has no IORING_CQE_F_MORE
  needSubmit,
  conns,    \* the connection table
  ready,    \* the ready queue, as descriptors
  parked    \* g_rt_http_parked: [fd, req], or None

clientVars == <<traffic, client, asked>>
tableVars  == <<owner, shut>>
kernelVars == <<taken, armed, pending, cq>>
callVars   == <<back, ret, after, rearm>>
vars == <<clientVars, wire, tableVars, kernelVars, sq, job, pc, callVars, frame,
          needSubmit, conns, ready, parked>>

Kinds == traffic.kinds
Parts == traffic.parts
Kind(req) == asked[req.sock][req.n]
Closing(kind) == kind \in {"close", "uploadClose"}

NoConn == [inUse |-> FALSE, buf |-> <<>>, cap |-> "none", closeAfterTx |-> FALSE,
           tx |-> None, txFlight |-> FALSE, txSent |-> 0, txTotal |-> 0]

Cqe(op, fd, reqs, n, more) == [op |-> op, fd |-> fd, reqs |-> reqs, n |-> n, more |-> more]

----------------------------------------------------------------------------
(* System calls *)

Units(req, from, to) ==
  [i \in 1 .. (to - from + 1) |-> [sock |-> req.sock, n |-> req.n, part |-> from + i - 1]]

(* Bytes put on a socket; a client that left does not see them. *)
Delivered(s, units) ==
  [wire EXCEPT ![s] = IF client[s] = "open" THEN @ \o units ELSE @]

(* Whether a write to a socket may fail, and may succeed *)
MaySucceed(s) == s # None /\ s \notin shut
MayFail(s) == MaySucceed(s) => client[s] = "gone"

(* writev: the whole response, at once, to whoever holds the number *)
Written(fd, req, ok) ==
  IF ok THEN wire' = Delivered(owner[fd], Units(req, 1, Parts)) ELSE UNCHANGED wire

WriteOutcomes(fd) ==
  {ok \in BOOLEAN : IF ok THEN MaySucceed(owner[fd]) ELSE MayFail(owner[fd])}

(* shutdown, if asked for, and close.  A recv in the kernel keeps a socket *)
(* alive that was closed only.                                             *)
Close(fd, shutdown) ==
  /\ owner' = [owner EXCEPT ![fd] = None]
  /\ shut' = IF owner[fd] # None /\ (shutdown \/ \A e \in armed : e.sock # owner[fd])
             THEN shut \cup {owner[fd]} ELSE shut

Dropped(c) == [c EXCEPT !.inUse = FALSE, !.buf = <<>>]

(* The receive buffer of a large request is freed where its completion     *)
(* closes the connection.                                                  *)
Trimmed(c) == [c EXCEPT !.cap = IF @ = "big" THEN "none" ELSE @]

Prepare(op, fd, from) == sq' = Append(sq, [op |-> op, fd |-> fd, from |-> from])

----------------------------------------------------------------------------
(* rt_http_respond, rt_http_send_simple and rt_http_dispatch, for frame *)

(* Mutant: tx_in_flight is not looked at. *)
RespondAsyncUnguarded ==
  /\ pc = "respond"
  /\ Kind(frame.req) # "large"
  /\ conns' = [conns EXCEPT ![frame.fd] =
       [@ EXCEPT !.tx = frame.req, !.txFlight = TRUE, !.txSent = 0, !.txTotal = Parts,
                 !.closeAfterTx = frame.closing]]
  /\ Prepare("send", frame.fd, 1)
  /\ needSubmit' = TRUE
  /\ pc' = "responded"
  /\ UNCHANGED <<clientVars, wire, tableVars, kernelVars, job, callVars, frame, ready, parked>>

(* The response is copied to tx_buf and queued. *)
RespondAsync ==
  /\ pc = "respond"
  /\ ~conns[frame.fd].txFlight
  /\ Kind(frame.req) # "large"
  /\ conns' = [conns EXCEPT ![frame.fd] =
       [@ EXCEPT !.tx = frame.req, !.txFlight = TRUE, !.txSent = 0, !.txTotal = Parts,
                 !.closeAfterTx = frame.closing]]
  /\ Prepare("send", frame.fd, 1)
  /\ needSubmit' = TRUE
  /\ pc' = "responded"
  /\ UNCHANGED <<clientVars, wire, tableVars, kernelVars, job, callVars, frame, ready, parked>>

(* Mutant: the queued response is not submitted first. *)
RespondUnsubmitted ==
  /\ pc = "respond"
  /\ conns[frame.fd].txFlight
  /\ pc' = "write"
  /\ after' = "write"
  /\ needSubmit' = FALSE
  /\ UNCHANGED <<clientVars, wire, tableVars, kernelVars, sq, job, back, ret, rearm, frame,
                 conns, ready, parked>>

(* A response that is queued already is submitted before the writev. *)
RespondInOrder ==
  /\ pc = "respond"
  /\ conns[frame.fd].txFlight
  /\ pc' = "submit"
  /\ after' = "write"
  /\ needSubmit' = FALSE
  /\ UNCHANGED <<clientVars, wire, tableVars, kernelVars, sq, job, back, ret, rearm, frame,
                 conns, ready, parked>>

RespondWrite ==
  /\ \/ pc = "write"
     \/ pc = "respond" /\ ~conns[frame.fd].txFlight /\ Kind(frame.req) = "large"
  /\ \E ok \in WriteOutcomes(frame.fd) :
       /\ Written(frame.fd, frame.req, ok)
       /\ frame' = [frame EXCEPT !.closing = @ \/ ~ok]
  /\ pc' = "responded"
  /\ UNCHANGED <<clientVars, tableVars, kernelVars, sq, job, callVars, needSubmit, conns, ready, parked>>

(* rt_http_send_simple: 404, "handler did not respond", a failed GPU job *)
SendSimple ==
  /\ pc = "simple"
  /\ \E ok \in WriteOutcomes(frame.fd) : Written(frame.fd, frame.req, ok)
  /\ pc' = "responded"
  /\ UNCHANGED <<clientVars, tableVars, kernelVars, sq, job, callVars, frame, needSubmit, conns,
                 ready, parked>>

----------------------------------------------------------------------------
(* rt_http_drain_conn, for conns[frame.fd] *)

DrainReturn == IF back = "recv" THEN "recvTail" ELSE "ready"

Enqueued(fd) == IF fd \in ToSet(ready) THEN ready ELSE Append(ready, fd)

DrainNothing ==
  /\ pc = "drain"
  /\ LET c == conns[frame.fd] IN ~c.inUse \/ c.buf = <<>>
  /\ pc' = DrainReturn
  /\ UNCHANGED <<clientVars, wire, tableVars, kernelVars, sq, job, callVars, frame, needSubmit,
                 conns, ready, parked>>

DrainHead(kinds) ==
  LET c == conns[frame.fd] IN
    pc = "drain" /\ c.inUse /\ c.buf # <<>> /\ Kind(Head(c.buf)) \in kinds

(* 400, 413 and 431 are written at once and the connection is closed. *)
DrainMalformed ==
  /\ DrainHead({"malformed"})
  /\ \E ok \in WriteOutcomes(frame.fd) :
       Written(frame.fd, Head(conns[frame.fd].buf), ok)
  /\ Close(frame.fd, TRUE)
  /\ conns' = [conns EXCEPT ![frame.fd] = Dropped(@)]
  /\ pc' = DrainReturn
  /\ UNCHANGED <<clientVars, kernelVars, sq, job, callVars, frame, needSubmit, ready, parked>>

(* Mutant: the connection is not queued. *)
DrainWaitForgotten ==
  /\ DrainHead({"gpu"})
  /\ parked # None
  /\ pc' = DrainReturn
  /\ UNCHANGED <<clientVars, wire, tableVars, kernelVars, sq, job, callVars, frame, needSubmit,
                 conns, ready, parked>>

(* A request for a flagged route waits while another is parked... *)
DrainWait ==
  /\ DrainHead({"gpu"})
  /\ parked # None
  /\ ready' = Enqueued(frame.fd)
  /\ pc' = DrainReturn
  /\ UNCHANGED <<clientVars, wire, tableVars, kernelVars, sq, job, callVars, frame, needSubmit,
                 conns, parked>>

(* Mutant: the rest of the buffer is not queued. *)
DrainParkForgetsRest ==
  /\ DrainHead({"gpu"})
  /\ parked = None
  /\ LET c == conns[frame.fd] IN
       /\ parked' = [fd |-> frame.fd, req |-> Head(c.buf)]
       /\ conns' = [conns EXCEPT ![frame.fd].buf = Tail(@)]
       /\ ready' = ready
  /\ job' = "running"
  /\ pc' = DrainReturn
  /\ UNCHANGED <<clientVars, wire, tableVars, kernelVars, sq, callVars, frame, needSubmit>>

(* ... or is dispatched and parks. *)
DrainPark ==
  /\ DrainHead({"gpu"})
  /\ parked = None
  /\ LET c == conns[frame.fd] IN
       /\ parked' = [fd |-> frame.fd, req |-> Head(c.buf)]
       /\ conns' = [conns EXCEPT ![frame.fd].buf = Tail(@)]
       /\ ready' = IF Len(c.buf) > 1 THEN Enqueued(frame.fd) ELSE ready
  /\ job' = "running"
  /\ pc' = DrainReturn
  /\ UNCHANGED <<clientVars, wire, tableVars, kernelVars, sq, callVars, frame, needSubmit>>

DrainDispatch ==
  /\ DrainHead(AllKinds \ {"malformed", "gpu"})
  /\ LET req == Head(conns[frame.fd].buf) IN
       /\ frame' = [frame EXCEPT !.req = req, !.closing = Closing(Kind(req))]
       /\ pc' = IF Kind(req) = "simple" THEN "simple" ELSE "respond"
  /\ UNCHANGED <<clientVars, wire, tableVars, kernelVars, sq, job, callVars, needSubmit, conns,
                 ready, parked>>

(* After the dispatch: the request leaves the buffer; the connection is    *)
(* closed, or will be when its SEND completes, or the loop goes on.  The   *)
(* same closing ends rt_http_gpu_release, whose request left before.       *)
Responded ==
  /\ pc = "responded"
  /\ LET fd == frame.fd
         c == conns[fd]
         rest == IF back = "release" THEN c.buf ELSE Tail(c.buf)
         goOn == IF back = "release" THEN "ready" ELSE DrainReturn
     IN  IF ~frame.closing
         THEN /\ conns' = [conns EXCEPT ![fd].buf = rest]
              /\ pc' = IF back = "release" \/ rest = <<>> THEN goOn ELSE "drain"
              /\ UNCHANGED tableVars
         ELSE IF c.txFlight
         THEN /\ conns' = [conns EXCEPT ![fd].buf = rest, ![fd].closeAfterTx = TRUE]
              /\ pc' = goOn
              /\ UNCHANGED tableVars
         ELSE /\ conns' = [conns EXCEPT ![fd] = Dropped(@)]
              /\ Close(fd, TRUE)
              /\ pc' = goOn
  /\ UNCHANGED <<clientVars, wire, kernelVars, sq, job, callVars, frame, needSubmit, ready, parked>>

----------------------------------------------------------------------------
(* The ready queue and the release of the parked request *)

ReadyNext ==
  /\ pc = "ready"
  /\ ready # <<>>
  /\ parked = None
  /\ ready' = Tail(ready)
  /\ LET c == conns[Head(ready)] IN
       IF ~c.inUse \/ c.buf = <<>>
       THEN UNCHANGED <<pc, back, frame>>
       ELSE /\ pc' = "drain"
            /\ back' = "ready"
            /\ frame' = [frame EXCEPT !.fd = Head(ready)]
  /\ UNCHANGED <<clientVars, wire, tableVars, kernelVars, sq, job, ret, after, rearm, needSubmit,
                 conns, parked>>

(* The loop top submits before it waits; a batch does when it ends. *)
ReadyDone ==
  /\ pc = "ready"
  /\ ready = <<>> \/ parked # None
  /\ IF ret = "top" /\ needSubmit
     THEN pc' = "submit" /\ after' = "wait"
     ELSE pc' = (IF ret = "top" THEN "wait" ELSE "batch") /\ UNCHANGED after
  /\ UNCHANGED <<clientVars, wire, tableVars, kernelVars, sq, job, back, ret, rearm, frame,
                 needSubmit, conns, ready, parked>>

(* Mutant: g_rt_http_parked is not cleared. *)
GpuReleaseKeepsParked(from) ==
  /\ pc = from
  /\ parked # None
  /\ job # "running"
  /\ ret' = from
  /\ IF conns[parked.fd].inUse
     THEN /\ frame' = [fd |-> parked.fd, req |-> parked.req, closing |-> FALSE]
          /\ back' = "release"
          /\ pc' = IF job = "failed" THEN "simple" ELSE "respond"
     ELSE pc' = "ready" /\ UNCHANGED <<frame, back>>
  /\ needSubmit' = TRUE
  /\ UNCHANGED <<clientVars, wire, tableVars, kernelVars, sq, job, after, rearm, conns, ready, parked>>

(* rt_http_gpu_release: whoever has the number now is taken for the client *)
GpuRelease(from) ==
  /\ pc = from
  /\ parked # None
  /\ job # "running"
  /\ parked' = None
  /\ ret' = from
  /\ IF conns[parked.fd].inUse
     THEN /\ frame' = [fd |-> parked.fd, req |-> parked.req, closing |-> FALSE]
          /\ back' = "release"
          /\ pc' = IF job = "failed" THEN "simple" ELSE "respond"
     ELSE pc' = "ready" /\ UNCHANGED <<frame, back>>
  /\ needSubmit' = TRUE
  /\ UNCHANGED <<clientVars, wire, tableVars, kernelVars, sq, job, after, rearm, conns, ready>>

----------------------------------------------------------------------------
(* The loop of rt_http_worker_thread *)

Top ==
  /\ pc = "top"
  /\ parked = None \/ job = "running"
  /\ pc' = "wait"
  /\ UNCHANGED <<clientVars, wire, tableVars, kernelVars, sq, job, callVars, frame, needSubmit,
                 conns, ready, parked>>

(* A completion is there: one in cq, or a poll or timeout of the GPU job. *)
Wake ==
  /\ pc = "wait"
  /\ cq # <<>> \/ (parked # None /\ job # "running")
  /\ pc' = "batch"
  /\ needSubmit' = FALSE
  /\ UNCHANGED <<clientVars, wire, tableVars, kernelVars, sq, job, callVars, frame, conns, ready, parked>>

CqeIs(op) == pc = "batch" /\ cq # <<>> /\ Head(cq).op = op

Consume == cq' = Tail(cq) /\ UNCHANGED <<taken, armed, pending>>

(* Mutant: len is not reset. *)
AcceptKeepsBytes ==
  /\ CqeIs("accept")
  /\ Consume
  /\ LET fd == Head(cq).fd IN
       /\ conns' = [conns EXCEPT ![fd] =
            [@ EXCEPT !.inUse = TRUE, !.txFlight = FALSE, !.closeAfterTx = FALSE,
                      !.cap = IF @ = "none" THEN "small" ELSE @]]
       /\ Prepare("recv", fd, 0)
  /\ needSubmit' = TRUE
  /\ UNCHANGED <<clientVars, wire, tableVars, job, pc, callVars, frame, ready, parked>>

(* Mutant: a freed buffer is not allocated again. *)
AcceptKeepsFreedBuffer ==
  /\ CqeIs("accept")
  /\ Consume
  /\ LET fd == Head(cq).fd IN
       /\ conns' = [conns EXCEPT ![fd] =
            [@ EXCEPT !.inUse = TRUE, !.buf = <<>>, !.txFlight = FALSE, !.closeAfterTx = FALSE]]
       /\ Prepare("recv", fd, 0)
  /\ needSubmit' = TRUE
  /\ UNCHANGED <<clientVars, wire, tableVars, job, pc, callVars, frame, ready, parked>>

AcceptCqe ==
  /\ CqeIs("accept")
  /\ Consume
  /\ LET fd == Head(cq).fd
         c == conns[fd]
     IN  /\ conns' = [conns EXCEPT ![fd] =
              [c EXCEPT !.inUse = TRUE, !.buf = <<>>, !.txFlight = FALSE, !.closeAfterTx = FALSE,
                        !.cap = IF c.cap = "none" THEN "small" ELSE c.cap]]
         /\ Prepare("recv", fd, 0)
  /\ needSubmit' = TRUE
  /\ UNCHANGED <<clientVars, wire, tableVars, job, pc, callVars, frame, ready, parked>>

(* Mutant: a short send closes the connection. *)
SendCqeShortFails ==
  /\ CqeIs("send")
  /\ Consume
  /\ LET fd == Head(cq).fd
         n == Head(cq).n
         c == conns[fd]
         idle == [c EXCEPT !.txFlight = FALSE, !.txSent = 0, !.txTotal = 0]
     IN  IF c.inUse /\ (n < c.txTotal - c.txSent \/ c.closeAfterTx)
         THEN /\ conns' = [conns EXCEPT ![fd] =
                   [Trimmed(Dropped(idle)) EXCEPT !.closeAfterTx = FALSE]]
              /\ Close(fd, c.closeAfterTx)
         ELSE /\ conns' = [conns EXCEPT ![fd] = idle]
              /\ UNCHANGED tableVars
  /\ UNCHANGED <<clientVars, wire, sq, job, pc, callVars, frame, needSubmit, ready, parked>>

(* Mutant: the rest of a short send is forgotten. *)
SendCqeDropsRest ==
  /\ CqeIs("send")
  /\ Consume
  /\ LET fd == Head(cq).fd
         n == Head(cq).n
         c == conns[fd]
         idle == [c EXCEPT !.txFlight = FALSE, !.txSent = 0, !.txTotal = 0]
     IN  IF c.inUse /\ (n = 0 \/ c.closeAfterTx)
         THEN /\ conns' = [conns EXCEPT ![fd] =
                   [Trimmed(Dropped(idle)) EXCEPT !.closeAfterTx = FALSE]]
              /\ Close(fd, c.closeAfterTx)
         ELSE /\ conns' = [conns EXCEPT ![fd] = idle]
              /\ UNCHANGED tableVars
  /\ UNCHANGED <<clientVars, wire, sq, job, pc, callVars, frame, needSubmit, ready, parked>>

(* A SEND completed: its rest is sent, or the connection is free for the   *)
(* next response, or it is closed.                                         *)
SendCqe ==
  /\ CqeIs("send")
  /\ Consume
  /\ LET fd == Head(cq).fd
         n == Head(cq).n
         c == conns[fd]
         idle == [c EXCEPT !.txFlight = FALSE, !.txSent = 0, !.txTotal = 0]
     IN  IF n > 0 /\ c.txTotal > 0 /\ n < c.txTotal - c.txSent
         THEN /\ conns' = [conns EXCEPT ![fd].txSent = @ + n]
              /\ Prepare("send", fd, c.txSent + n + 1)
              /\ needSubmit' = TRUE
              /\ UNCHANGED tableVars
         ELSE /\ UNCHANGED <<sq, needSubmit>>
              /\ IF c.inUse /\ (n = 0 \/ c.closeAfterTx)
                 THEN /\ conns' = [conns EXCEPT ![fd] =
                           [Trimmed(Dropped(idle)) EXCEPT !.closeAfterTx = FALSE]]
                      /\ Close(fd, c.closeAfterTx)
                 ELSE /\ conns' = [conns EXCEPT ![fd] = idle]
                      /\ UNCHANGED tableVars
  /\ UNCHANGED <<clientVars, wire, job, pc, callVars, frame, ready, parked>>

(* Mutant: in_use is not cleared. *)
RecvEndKeepsConn ==
  /\ CqeIs("recv")
  /\ Head(cq).reqs = <<>>
  /\ Consume
  /\ LET fd == Head(cq).fd IN
       IF conns[fd].inUse
       THEN /\ conns' = [conns EXCEPT ![fd] = Trimmed(@)]
            /\ Close(fd, FALSE)
       ELSE UNCHANGED <<conns, tableVars>>
  /\ UNCHANGED <<clientVars, wire, sq, job, pc, callVars, frame, needSubmit, ready, parked>>

(* The end of the stream, or an error, of what had this number *)
RecvEndCqe ==
  /\ CqeIs("recv")
  /\ Head(cq).reqs = <<>>
  /\ Consume
  /\ LET fd == Head(cq).fd IN
       IF conns[fd].inUse
       THEN /\ conns' = [conns EXCEPT ![fd] = Trimmed(Dropped(@))]
            /\ Close(fd, FALSE)
       ELSE UNCHANGED <<conns, tableVars>>
  /\ UNCHANGED <<clientVars, wire, sq, job, pc, callVars, frame, needSubmit, ready, parked>>

(* The provided buffers ran out: the recv is armed again. *)
RecvNoBufsCqe ==
  /\ CqeIs("nobufs")
  /\ Consume
  /\ IF conns[Head(cq).fd].inUse
     THEN Prepare("recv", Head(cq).fd, 0) /\ needSubmit' = TRUE
     ELSE UNCHANGED <<sq, needSubmit>>
  /\ UNCHANGED <<clientVars, wire, tableVars, job, pc, callVars, frame, conns, ready, parked>>

(* Data: appended to the buffer of the number, grown as needed.  Doubling  *)
(* the capacity of a buffer that was freed never ends.                     *)
RecvDataCqe ==
  /\ CqeIs("recv")
  /\ Head(cq).reqs # <<>>
  /\ LET e == Head(cq) IN
       IF conns[e.fd].cap = "none"
       THEN /\ pc' = "hung"
            /\ UNCHANGED <<kernelVars, conns, back, frame, rearm>>
       ELSE /\ Consume
            /\ conns' = [conns EXCEPT
                 ![e.fd].buf = @ \o e.reqs,
                 ![e.fd].cap = IF \E i \in DOMAIN e.reqs : Kind(e.reqs[i]) = "uploadClose"
                               THEN "big" ELSE @]
            /\ pc' = "drain"
            /\ back' = "recv"
            /\ frame' = [frame EXCEPT !.fd = e.fd]
            /\ rearm' = ~e.more
  /\ UNCHANGED <<clientVars, wire, tableVars, sq, job, ret, after, needSubmit, ready, parked>>

(* Mutant: IORING_CQE_F_MORE is not looked at. *)
RecvTailAlwaysArms ==
  /\ pc = "recvTail"
  /\ IF conns[frame.fd].inUse
     THEN Prepare("recv", frame.fd, 0) /\ needSubmit' = TRUE
     ELSE UNCHANGED <<sq, needSubmit>>
  /\ rearm' = FALSE
  /\ pc' = "batch"
  /\ UNCHANGED <<clientVars, wire, tableVars, kernelVars, job, back, ret, after, frame, conns,
                 ready, parked>>

RecvTail ==
  /\ pc = "recvTail"
  /\ IF conns[frame.fd].inUse /\ rearm
     THEN Prepare("recv", frame.fd, 0) /\ needSubmit' = TRUE
     ELSE UNCHANGED <<sq, needSubmit>>
  /\ rearm' = FALSE
  /\ pc' = "batch"
  /\ UNCHANGED <<clientVars, wire, tableVars, kernelVars, job, back, ret, after, frame, conns,
                 ready, parked>>

EndBatch ==
  /\ pc = "batch"
  /\ cq = <<>>
  /\ IF needSubmit THEN pc' = "submit" /\ after' = "top" ELSE pc' = "top" /\ UNCHANGED after
  /\ UNCHANGED <<clientVars, wire, tableVars, kernelVars, sq, job, back, ret, rearm, frame,
                 needSubmit, conns, ready, parked>>

----------------------------------------------------------------------------
(* The kernel *)

(* A SEND puts units on the socket it found when it was submitted, and     *)
(* reads them from tx_buf now.                                             *)
SendExecutes(s, fd, from, n) ==
  /\ n \in 0 .. (Parts - from + 1)
  /\ IF n = 0 THEN MayFail(s) ELSE MaySucceed(s)
  /\ n = 0 \/ n = Parts - from + 1 \/ traffic.backpressure
  /\ IF n = 0 THEN UNCHANGED wire
     ELSE wire' = Delivered(s, Units(conns[fd].tx, from, from + n - 1))
  /\ cq' = Append(cq, Cqe("send", fd, <<>>, n, FALSE))

(* io_uring_submit, one entry at a time: the number is looked up now. *)
SubmitRecv ==
  /\ pc = "submit"
  /\ sq # <<>>
  /\ Head(sq).op = "recv"
  /\ sq' = Tail(sq)
  /\ LET fd == Head(sq).fd IN
       IF owner[fd] = None
       THEN cq' = Append(cq, Cqe("recv", fd, <<>>, 0, FALSE)) /\ UNCHANGED armed
       ELSE armed' = armed \cup {[sock |-> owner[fd], fd |-> fd]} /\ UNCHANGED cq
  /\ UNCHANGED <<clientVars, wire, tableVars, taken, pending, job, pc, callVars, frame,
                 needSubmit, conns, ready, parked>>

SubmitSend ==
  /\ pc = "submit"
  /\ sq # <<>>
  /\ Head(sq).op = "send"
  /\ sq' = Tail(sq)
  /\ LET e == Head(sq)
         s == owner[e.fd]
     IN  \/ /\ \E n \in 0 .. Parts : SendExecutes(s, e.fd, e.from, n)
            /\ UNCHANGED pending
         \/ /\ traffic.backpressure /\ s # None
            /\ pending' = pending \cup {[sock |-> s, fd |-> e.fd, from |-> e.from]}
            /\ UNCHANGED <<wire, cq>>
  /\ UNCHANGED <<clientVars, tableVars, taken, armed, job, pc, callVars, frame,
                 needSubmit, conns, ready, parked>>

Submitted ==
  /\ pc = "submit"
  /\ sq = <<>>
  /\ pc' = after
  /\ UNCHANGED <<clientVars, wire, tableVars, kernelVars, sq, job, callVars, frame, needSubmit,
                 conns, ready, parked>>

workerVars == <<sq, pc, callVars, frame, needSubmit, conns, ready, parked>>

PendingSend ==
  /\ pc = "wait"
  /\ \E e \in pending, n \in 0 .. Parts :
       /\ SendExecutes(e.sock, e.fd, e.from, n)
       /\ pending' = pending \ {e}
  /\ UNCHANGED <<clientVars, tableVars, taken, armed, job, workerVars>>

(* Nothing in the kernel, in a queue or in the worker refers to a number. *)
Quiet(fd) ==
  /\ \A e \in armed \cup pending \cup ToSet(sq) \cup ToSet(cq) : e.fd # fd
  /\ parked # None => parked.fd # fd
  /\ fd \notin ToSet(ready)

(* The multishot accept gives a client the lowest free number. *)
Accept(s) ==
  /\ pc = "wait"
  /\ client[s] = "backlog"
  /\ \E fd \in Fds :
       /\ owner[fd] = None
       /\ \A g \in Fds : owner[g] = None => fd <= g
       /\ QuietReuse => Quiet(fd)
       /\ owner' = [owner EXCEPT ![fd] = s]
       /\ cq' = Append(cq, Cqe("accept", fd, <<>>, 0, TRUE))
  /\ client' = [client EXCEPT ![s] = "open"]
  /\ UNCHANGED <<traffic, asked, wire, shut, taken, armed, pending, job, workerVars>>

(* Requests that arrived together are received together, or not; the       *)
(* kernel may end the multishot with any of its completions.               *)
Recv ==
  /\ pc = "wait"
  /\ \E e \in armed, more \in BOOLEAN :
       \E k \in (taken[e.sock] + 1) .. Len(asked[e.sock]) :
         /\ taken' = [taken EXCEPT ![e.sock] = k]
         /\ cq' = Append(cq, Cqe("recv", e.fd,
              [i \in 1 .. (k - taken[e.sock]) |-> [sock |-> e.sock, n |-> taken[e.sock] + i]],
              0, more))
         /\ armed' = IF more THEN armed ELSE armed \ {e}
  /\ UNCHANGED <<clientVars, wire, tableVars, pending, job, workerVars>>

RecvEnd ==
  /\ pc = "wait"
  /\ \E e \in armed :
       /\ \/ e.sock \in shut
          \/ client[e.sock] = "gone" /\ taken[e.sock] = Len(asked[e.sock])
       /\ cq' = Append(cq, Cqe("recv", e.fd, <<>>, 0, FALSE))
       /\ armed' = armed \ {e}
  /\ UNCHANGED <<clientVars, wire, tableVars, taken, pending, job, workerVars>>

(* Data is there, but the provided buffers are all in completions that the *)
(* worker has not handled yet.                                             *)
RecvNoBufs ==
  /\ pc = "wait"
  /\ \E i \in DOMAIN cq : cq[i].op = "recv" /\ cq[i].reqs # <<>>
  /\ \E e \in armed :
       /\ taken[e.sock] < Len(asked[e.sock])
       /\ cq' = Append(cq, Cqe("nobufs", e.fd, <<>>, 0, FALSE))
       /\ armed' = armed \ {e}
  /\ UNCHANGED <<clientVars, wire, tableVars, taken, pending, job, workerVars>>

JobEnds ==
  /\ pc = "wait"
  /\ parked # None
  /\ job = "running"
  /\ job' \in {"done", "failed"}
  /\ UNCHANGED <<clientVars, wire, tableVars, kernelVars, workerVars>>

----------------------------------------------------------------------------
(* The clients *)

Connect(s) ==
  /\ pc = "wait"
  /\ client[s] = "new"
  /\ client' = [client EXCEPT ![s] = "backlog"]
  /\ UNCHANGED <<traffic, asked, wire, tableVars, kernelVars, job, workerVars>>

Answered(s) == Len(wire[s]) = Parts * Len(asked[s])

LastCloses(s) ==
  asked[s] # <<>> /\ asked[s][Len(asked[s])] \in {"close", "uploadClose", "malformed"}

Ask(s, kind) ==
  /\ pc = "wait"
  /\ client[s] = "open" /\ s \notin shut
  /\ Len(asked[s]) < MaxReqs[s]
  /\ traffic.pipelined \/ (Answered(s) /\ ~LastCloses(s))
  /\ asked' = [asked EXCEPT ![s] = Append(@, kind)]
  /\ UNCHANGED <<traffic, client, wire, tableVars, kernelVars, job, workerVars>>

Leave(s) ==
  /\ pc = "wait"
  /\ client[s] = "open"
  /\ client' = [client EXCEPT ![s] = "gone"]
  /\ UNCHANGED <<traffic, asked, wire, tableVars, kernelVars, job, workerVars>>

----------------------------------------------------------------------------
Init ==
  /\ traffic \in Traffics
  /\ client = [s \in Socks |-> "new"]
  /\ asked = [s \in Socks |-> <<>>]
  /\ taken = [s \in Socks |-> 0]
  /\ wire = [s \in Socks |-> <<>>]
  /\ owner = [fd \in Fds |-> None]
  /\ shut = {}
  /\ armed = {} /\ pending = {}
  /\ sq = <<>> /\ cq = <<>>
  /\ job = "running"
  /\ pc = "top" /\ back = "recv" /\ ret = "top" /\ after = "top"
  /\ frame = [fd |-> None, req |-> None, closing |-> FALSE]
  /\ rearm = FALSE
  /\ needSubmit = FALSE
  /\ conns = [fd \in Fds |-> NoConn]
  /\ ready = <<>>
  /\ parked = None

Serve ==
  \/ RespondAsync \/ RespondInOrder \/ RespondWrite \/ SendSimple
  \/ DrainNothing \/ DrainMalformed \/ DrainWait \/ DrainPark \/ DrainDispatch \/ Responded
  \/ ReadyNext \/ ReadyDone

Loop ==
  \/ Top \/ GpuRelease("top") \/ GpuRelease("batch")
  \/ AcceptCqe \/ SendCqe \/ RecvEndCqe \/ RecvNoBufsCqe \/ RecvDataCqe \/ RecvTail \/ EndBatch
  \/ SubmitRecv \/ SubmitSend \/ Submitted

Kernel == PendingSend \/ Recv \/ RecvNoBufs \/ RecvEnd \/ JobEnds \/ \E s \in Socks : Accept(s)

Clients ==
  \E s \in Socks : Connect(s) \/ Leave(s) \/ \E kind \in Kinds : Ask(s, kind)

(* The worker waits for completions that may never come, or hangs. *)
Idle == pc \in {"wait", "hung"} /\ UNCHANGED vars

Next == Serve \/ Loop \/ Wake \/ Kernel \/ Clients \/ Idle

Spec == Init /\ [][Next]_vars

(* The thread runs; the kernel posts what it has; GPU jobs end. *)
Fairness ==
  /\ WF_vars(Serve \/ Loop)
  /\ WF_vars(Wake)
  /\ WF_vars(PendingSend) /\ WF_vars(Recv) /\ WF_vars(RecvEnd) /\ WF_vars(JobEnds)
  /\ \A s \in Socks : WF_vars(Accept(s))

FairSpec == Spec /\ Fairness

----------------------------------------------------------------------------
(* Every unit a client receives belongs to its own connection. *)
Isolation == \A s \in Socks : \A i \in DOMAIN wire[s] : wire[s][i].sock = s

(* What a client receives is the beginning of its responses, whole, once   *)
(* each, in the order of its requests.                                     *)
InOrder ==
  \A s \in Socks : \A i \in DOMAIN wire[s] :
    /\ wire[s][i].n = ((i - 1) \div Parts) + 1
    /\ wire[s][i].part = ((i - 1) % Parts) + 1

(* The table and the kernel agree: a connection in use has its descriptor, *)
(* and a descriptor that is open has its connection, or is about to.       *)
TableAgrees ==
  \A fd \in Fds :
    conns[fd].inUse \/ (\E i \in DOMAIN cq : cq[i].op = "accept" /\ cq[i].fd = fd)
      <=> owner[fd] # None

Sends(fd) ==
  Cardinality({e \in pending : e.fd = fd})
  + Cardinality({i \in DOMAIN sq : sq[i].op = "send" /\ sq[i].fd = fd})
  + Cardinality({i \in DOMAIN cq : cq[i].op = "send" /\ cq[i].fd = fd})

(* tx_in_flight is set exactly while one SEND reads tx_buf or waits to be  *)
(* noticed: a response never overwrites one the kernel still reads.        *)
TxExclusive ==
  \A fd \in Fds : conns[fd].inUse => Sends(fd) = IF conns[fd].txFlight THEN 1 ELSE 0

Recvs(fd) ==
  Cardinality({e \in armed : e.fd = fd})
  + Cardinality({i \in DOMAIN sq : sq[i].op = "recv" /\ sq[i].fd = fd})
  + Cardinality({i \in DOMAIN cq :
                   cq[i].op \in {"recv", "nobufs"} /\ cq[i].fd = fd /\ ~cq[i].more})
  + (IF rearm /\ frame.fd = fd THEN 1 ELSE 0)

(* A connection in use is listened to exactly once: its recv is armed, or  *)
(* on its way to be, or its last completion is being handled.              *)
Listened == \A fd \in Fds : conns[fd].inUse => Recvs(fd) = 1

(* The worker lets go of a connection only when it is asked to: by a       *)
(* request, a malformed one, or the client that left.                      *)
ClosedOnlyWhenAsked ==
  \A s \in Socks :
    client[s] = "open" /\ (\A fd \in Fds : owner[fd] # s)
      => \E i \in DOMAIN asked[s] : asked[s][i] \in {"close", "uploadClose", "malformed"}

(* While the worker waits, a request it received and did not answer is the *)
(* parked one, or its connection is queued behind the parked one.          *)
HeldInReady ==
  pc = "wait" =>
    \A fd \in Fds :
      conns[fd].inUse /\ conns[fd].buf # <<>> /\ ~conns[fd].closeAfterTx
        => parked # None /\ fd \in ToSet(ready)

(* When the worker waits and nothing is on its way, it owes nothing: each  *)
(* client that is still connected has the whole answer to every request    *)
(* the worker received.  A response cut short, or a request forgotten in   *)
(* a buffer, would show here.                                              *)
IdleOwesNothing ==
  pc = "wait" /\ cq = <<>> /\ pending = {} /\ parked = None =>
    \A s \in Socks :
      client[s] = "open" /\ s \notin shut => Len(wire[s]) = Parts * taken[s]

(* No unit of a response reaches a client twice. *)
NoDuplicates == \A s \in Socks : IsInjective(wire[s])

(* The loop that grows a receive buffer ends. *)
NeverHangs == pc # "hung"

(* A client that asks and stays gets its answer, or the end of its         *)
(* connection.                                                             *)
EveryRequestAnswered ==
  \A s \in Socks : \A n \in 1 .. MaxReqs[s] :
    (client[s] = "open" /\ Len(asked[s]) >= n)
      ~> (client[s] = "gone" \/ s \in shut \/ Len(wire[s]) >= n * Parts)
=============================================================================
