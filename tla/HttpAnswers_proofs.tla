------------------------ MODULE HttpAnswers_proofs ------------------------
(***************************************************************************)
(* What an HTTP worker owes its clients, and in which order they get it.   *)
(* OwnInv: a connection is known by its number as long as its client is    *)
(* there.  AnswerInv: every request received is on its way to an answer,   *)
(* which gives IdleOwesNothing.  OrderInv: requests stay in the order of   *)
(* the client wherever they wait, and the next unit written is the next    *)
(* one the client expects, which gives InOrder.                            *)
(***************************************************************************)
EXTENDS HttpWorker_proofs

----------------------------------------------------------------------------
(* A connection is known by its number as long as its client is there. *)

(* The worker knows s as fd, unless it is over with s. *)
Owns(s, fd) == Ended(s) \/ owner[fd] = s

CqOps == \A e \in ToSet(cq) : e.op # "recv" => e.reqs = <<>>
CqEnded ==
  \A e \in ToSet(cq) : (e.op = "recv" /\ e.reqs = <<>>) \/ (e.op = "send" /\ e.n = 0) =>
    Ended(owner[e.fd])
ArmedOwns == \A e \in armed : Owns(e.sock, e.fd)
CqOwns == \A e \in ToSet(cq) : \A i \in DOMAIN e.reqs : Owns(e.reqs[i].sock, e.fd)
CqInUse == \A e \in ToSet(cq) : e.reqs # <<>> /\ owner[e.fd] # None => conns[e.fd].inUse
ParkedOwns ==
  parked # None =>
    /\ Owns(parked.req.sock, parked.fd)
    /\ owner[parked.fd] # None => conns[parked.fd].inUse

OwnInv == RefsInv /\ Owners /\ CqOps /\ CqEnded /\ ArmedOwns /\ CqOwns /\ CqInUse /\ ParkedOwns

LEMMA ShutGrows ==
  ASSUME Types, [Next]_vars
  PROVE  shut \subseteq shut'
<1>1. ASSUME NEW g \in Fds, NEW b \in BOOLEAN, Close(g, b) PROVE shut \subseteq shut'
  BY <1>1, CloseStep
<1>2. CASE DrainMalformed
  BY <1>1, <1>2, DrainMalformedStep DEF Touches
<1>3. CASE Responded
  BY <1>1, <1>3, RespondedStep DEF Touches, tableVars
<1>4. CASE SendCqe
  <2>1. Head(cq).fd \in Fds /\ conns[Head(cq).fd].closeAfterTx \in BOOLEAN
    BY <1>4, SendCqeStep DEF Touches, Types, WorkerTypes, Conn
  <2> QED
    BY <1>1, <1>4, <2>1, SendCqeStep DEF tableVars
<1>5. CASE RecvEndCqe
  BY <1>1, <1>5, RecvEndCqeStep DEF Touches, tableVars
<1>6. CASE Serve /\ ~DrainMalformed /\ ~Responded
  BY <1>6 DEF Serve, RespondAsync, RespondInOrder, RespondWrite, SendSimple, DrainNothing,
       DrainWait, DrainPark, DrainDispatch, ReadyNext, ReadyDone, tableVars
<1>7. CASE Loop /\ ~SendCqe /\ ~RecvEndCqe
  BY Zenon, <1>7 DEF Loop, Top, GpuRelease, AcceptCqe, RecvNoBufsCqe, RecvDataCqe,
       RecvTail, EndBatch, SubmitRecv, SubmitSend, Submitted, tableVars
<1>8. CASE Wake \/ Clients \/ UNCHANGED vars
  BY <1>8 DEF Wake, Clients, Connect, Ask, Leave, tableVars, vars
<1>9. CASE Kernel
  BY <1>9, KernelStep
<1> QED
  BY <1>2, <1>3, <1>4, <1>5, <1>6, <1>7, <1>8, <1>9 DEF Next, Idle

(* Who left, or was shut down, stays so. *)
LEMMA EndedKept ==
  ASSUME Types, [Next]_vars, NEW s \in Socks \cup {None}, Ended(s)
  PROVE  Ended(s)'
<1>1. CASE s = None
  BY <1>1 DEF Ended
<1>2. CASE s \in Socks /\ s \in shut
  BY <1>2, ShutGrows DEF Ended
<1>3. CASE s \in Socks /\ client[s] = "gone"
  BY <1>3, ClientKept DEF Ended
<1> QED
  BY <1>1, <1>2, <1>3 DEF Ended

(* A number that something refers to is not given to another client. *)
LEMMA OwnersQuiet ==
  ASSUME Types, [Next]_vars, QuietReuse, NEW fd \in Fds, ~Quiet(fd)
  PROVE  owner'[fd] = owner[fd] \/ owner'[fd] = None
<1>1. CASE Accepting
  <2>1. PICK s \in Socks, g \in Fds : owner' = [owner EXCEPT ![g] = s] /\ Quiet(g)
    BY <1>1 DEF Accepting, Accept
  <2>2. g # fd
    BY <2>1
  <2> QED
    BY <2>1, <2>2 DEF Types, KernelTypes
<1> QED
  BY <1>1, OwnersShrink

(* The worker closes a connection that is over, or shuts it down. *)
LEMMA LetGoEnds ==
  ASSUME Types, CqEnded, [Next]_vars, NEW fd \in Fds, NEW s \in Socks, owner[fd] = s, owner'[fd] = None
  PROVE  Ended(s)'
<1>0. None \notin Socks
  BY WorkerAssumption
<1>1. ASSUME NEW g \in Fds, NEW b \in BOOLEAN, Close(g, b) PROVE fd = g /\ (b => s \in shut')
  <2>1. fd = g
    BY <1>0, <1>1, CloseStep
  <2>2. b => s \in shut'
    BY <1>0, <1>1, <2>1 DEF Close
  <2> QED
    BY <2>1, <2>2
<1>2. CASE DrainMalformed
  BY <1>1, <1>2, DrainMalformedStep DEF Touches, Ended
<1>3. CASE Responded
  BY <1>0, <1>1, <1>3, RespondedStep DEF Touches, tableVars, Ended
<1>4. CASE SendCqe
  <2> DEFINE e == Head(cq)
  <2>1. e.fd \in Fds /\ conns[e.fd].closeAfterTx \in BOOLEAN
    BY <1>4, SendCqeStep DEF Touches, Types, WorkerTypes, Conn
  <2>2. Close(e.fd, conns[e.fd].closeAfterTx) /\ (e.n = 0 \/ conns[e.fd].closeAfterTx)
    BY <1>0, <1>4, SendCqeStep DEF tableVars
  <2>3. e \in ToSet(cq) /\ e.op = "send"
    BY <1>4, HeadIn DEF SendCqe, CqeIs, Types, KernelTypes
  <2> HIDE DEF e
  <2>4. fd = e.fd /\ (conns[e.fd].closeAfterTx => s \in shut')
    BY <1>1, <2>1, <2>2
  <2>5. e.n = 0 => Ended(s)
    BY <2>3, <2>4 DEF CqEnded
  <2> QED
    BY <2>2, <2>4, <2>5, EndedKept DEF Ended
<1>5. CASE RecvEndCqe
  <2> DEFINE e == Head(cq)
  <2>1. e \in ToSet(cq) /\ e.op = "recv" /\ e.reqs = <<>>
    BY <1>5, HeadIn DEF RecvEndCqe, CqeIs, Types, KernelTypes
  <2>2. fd = e.fd
    BY <1>0, <1>1, <1>5, RecvEndCqeStep DEF Touches, tableVars
  <2> HIDE DEF e
  <2>3. Ended(s)
    BY <2>1, <2>2 DEF CqEnded
  <2> QED
    BY <2>3, EndedKept
<1>6. CASE Serve /\ ~DrainMalformed /\ ~Responded
  BY <1>0, <1>6 DEF Serve, RespondAsync, RespondInOrder, RespondWrite, SendSimple, DrainNothing,
       DrainWait, DrainPark, DrainDispatch, ReadyNext, ReadyDone, tableVars
<1>7. CASE Loop /\ ~SendCqe /\ ~RecvEndCqe
  <2>1. UNCHANGED owner
    BY Zenon, <1>7 DEF Loop, Top, GpuRelease, AcceptCqe, RecvNoBufsCqe, RecvDataCqe,
         RecvTail, EndBatch, SubmitRecv, SubmitSend, Submitted, tableVars
  <2> QED
    BY <1>0, <2>1
<1>8. CASE (Wake \/ Kernel \/ Clients \/ UNCHANGED vars) /\ ~Accepting
  BY <1>0, <1>8 DEF Wake, Kernel, PendingSend, Recv, RecvNoBufs, RecvEnd, JobEnds, Accepting, Clients, Connect,
       Ask, Leave, tableVars, vars
<1>9. CASE Accepting
  <2>1. PICK t \in Socks, g \in Fds : owner' = [owner EXCEPT ![g] = t]
    BY <1>9 DEF Accepting, Accept
  <2> QED
    BY <1>0, <2>1 DEF Types, KernelTypes
<1> QED
  BY <1>2, <1>3, <1>4, <1>5, <1>6, <1>7, <1>8, <1>9 DEF Next, Idle

LEMMA OwnsKept ==
  ASSUME Types, CqEnded, [Next]_vars, QuietReuse, NEW fd \in Fds, ~Quiet(fd), NEW s \in Socks \cup {None}, Owns(s, fd)
  PROVE  Owns(s, fd)'
<1>1. CASE Ended(s)
  BY <1>1, EndedKept DEF Owns
<1>2. CASE s \in Socks /\ owner[fd] = s
  BY <1>2, LetGoEnds, OwnersQuiet DEF Owns
<1> QED
  BY <1>1, <1>2 DEF Owns, Ended

(* A connection that is not closed stays in use. *)
LEMMA StaysInUse ==
  ASSUME Types, [Next]_vars, NEW fd \in Fds, conns[fd].inUse
  PROVE  conns'[fd].inUse \/ owner'[fd] = None
<1>1. ASSUME NEW g \in Fds, NEW b \in BOOLEAN, Close(g, b) PROVE owner'[g] = None
  BY <1>1, CloseStep
<1>2. CASE DrainMalformed
  BY <1>1, <1>2, DrainMalformedStep DEF Touches
<1>3. CASE Responded
  BY <1>1, <1>3, RespondedStep DEF Touches, tableVars
<1>4. CASE SendCqe
  <2>1. Head(cq).fd \in Fds /\ conns[Head(cq).fd].closeAfterTx \in BOOLEAN
    BY <1>4, SendCqeStep DEF Touches, Types, WorkerTypes, Conn
  <2> QED
    BY <1>1, <1>4, <2>1, SendCqeStep DEF tableVars, Touches
<1>5. CASE RecvEndCqe
  BY <1>1, <1>5, RecvEndCqeStep DEF Touches, tableVars
<1>6. CASE RespondAsync
  BY <1>6, RespondAsyncStep
<1>7. CASE DrainPark
  BY <1>7, DrainParkStep DEF Touches
<1>8. CASE AcceptCqe
  BY <1>8, AcceptCqeStep DEF Touches
<1>9. CASE RecvDataCqe
  BY Zenon, <1>9, RecvDataCqeStep DEF Touches
<1> QED
  BY <1>2, <1>3, <1>4, <1>5, <1>6, <1>7, <1>8, <1>9, ConnsKept

LEMMA CqFds == Types => \A e \in ToSet(cq) : e \in Cqes /\ e.fd \in Fds /\ e.reqs \in Seq(Requests)
<1> SUFFICES ASSUME Types, NEW i \in DOMAIN cq
             PROVE  cq[i] \in Cqes /\ cq[i].fd \in Fds /\ cq[i].reqs \in Seq(Requests)
  BY DEF ToSet
<1>1. cq[i] \in Cqes
  BY DEF Types, KernelTypes
<1> QED
  BY <1>1 DEF Cqes

LEMMA CqFdsNext == (Types => \A e \in ToSet(cq) : e \in Cqes /\ e.fd \in Fds /\ e.reqs \in Seq(Requests))'
  BY CqFds, PTL

LEMMA CqOwnsStep ==
  ASSUME OwnInv, [Next]_vars, QuietReuse, RefsInv'
  PROVE  CqOps' /\ CqEnded' /\ CqOwns' /\ CqInUse'
<1>1. Types /\ Types' /\ CountInv /\ Refs /\ Finite
  BY DEF OwnInv, RefsInv, CountInv, TableInv
<1>2. owner \in [Fds -> Socks \cup {None}] /\ armed \subseteq [sock : Socks, fd : Fds]
  BY <1>1 DEF Types, KernelTypes
<1> SUFFICES ASSUME NEW e \in ToSet(cq')
             PROVE  /\ e.op # "recv" => e.reqs = <<>>
                    /\ (e.op = "recv" /\ e.reqs = <<>>) \/ (e.op = "send" /\ e.n = 0) => Ended(owner[e.fd])'
                    /\ \A i \in DOMAIN e.reqs : Owns(e.reqs[i].sock, e.fd)'
                    /\ e.reqs # <<>> /\ owner'[e.fd] # None => conns'[e.fd].inUse
  BY DEF CqOps, CqEnded, CqOwns, CqInUse
<1>3. e.fd \in Fds /\ e.reqs \in Seq(Requests)
  BY <1>1, CqFdsNext
<1>4. CASE e \in ToSet(cq)
  <2>1. ~Quiet(e.fd)
    BY <1>4 DEF Quiet
  <2>2. owner'[e.fd] = owner[e.fd] \/ owner'[e.fd] = None
    BY <1>1, <1>3, <2>1, OwnersQuiet
  <2>3. PICK s \in Socks \cup {None} : s = owner[e.fd]
    BY <1>2, <1>3
  <2>4. Ended(s) => Ended(owner[e.fd])'
    BY <1>1, <2>2, <2>3, EndedKept DEF Ended
  <2>5. ASSUME NEW i \in DOMAIN e.reqs PROVE Owns(e.reqs[i].sock, e.fd)'
    <3>1. PICK r \in Requests : r = e.reqs[i]
      BY <1>3
    <3>2. r.sock \in Socks /\ Owns(r.sock, e.fd)
      BY <1>4, <3>1 DEF OwnInv, CqOwns, Requests
    <3>3. PICK t \in Socks : t = r.sock
      BY <3>2
    <3>4. Owns(t, e.fd)'
      BY <1>1, <1>3, <2>1, <3>2, <3>3, OwnsKept DEF OwnInv
    <3> QED
      BY <3>1, <3>3, <3>4
  <2>6. e.reqs # <<>> /\ owner'[e.fd] # None => conns'[e.fd].inUse
    BY <1>1, <1>3, <1>4, <2>2, StaysInUse DEF OwnInv, CqInUse
  <2>7. e.op # "recv" => e.reqs = <<>>
    BY <1>4 DEF OwnInv, CqOps
  <2>8. (e.op = "recv" /\ e.reqs = <<>>) \/ (e.op = "send" /\ e.n = 0) => Ended(s)
    BY <1>4, <2>3 DEF OwnInv, CqEnded
  <2> QED
    BY <2>4, <2>5, <2>6, <2>7, <2>8
<1>5. CASE e.op = "accept" /\ e.reqs = <<>>
  BY <1>5
<1>6. CASE Posted(e)
  <2>1. UNCHANGED <<owner, shut, client>>
    BY <1>6 DEF Posted
  <2>2. Ended(owner[e.fd]) => Ended(owner[e.fd])'
    BY <2>1 DEF Ended
  <2>3. \A a \in armed : a.fd = e.fd /\ Ended(a.sock) => Ended(owner[e.fd])
    BY <1>1 DEF Refs, ArmedRefs, Ended
  <2>4. \A p \in pending : p.fd = e.fd /\ Ended(p.sock) => Ended(owner[e.fd])
    BY <1>1 DEF Refs, PendingRefs, Ended
  <2>5. (e.op = "recv" /\ e.reqs = <<>>) \/ (e.op = "send" /\ e.n = 0) => Ended(owner[e.fd])
    <3>1. owner[e.fd] = None => Ended(owner[e.fd])
      BY DEF Ended
    <3> QED
      BY <1>6, <2>3, <2>4, <3>1 DEF Posted
  <2>6. e.op # "recv" => e.reqs = <<>>
    BY <1>6 DEF Posted
  <2>7. ASSUME e.reqs # <<>>
        PROVE  /\ \A i \in DOMAIN e.reqs : Owns(e.reqs[i].sock, e.fd)'
               /\ owner'[e.fd] # None => conns'[e.fd].inUse
    <3>1. PICK a \in armed : a.fd = e.fd /\ \A i \in DOMAIN e.reqs : e.reqs[i].sock = a.sock
      BY <1>6, <2>7 DEF Posted
    <3>2. Owns(a.sock, e.fd) => Owns(a.sock, e.fd)'
      BY <2>1 DEF Owns, Ended
    <3>3. Owns(a.sock, e.fd)
      BY <3>1 DEF OwnInv, ArmedOwns
    <3>4. ASSUME owner'[e.fd] # None PROVE conns'[e.fd].inUse
      <4>1. owner[e.fd] # None
        BY <2>1, <3>4
      <4>2. Sums(e.fd)
        BY <1>1, <1>3, SumsHold
      <4>3. ArmedAt(e.fd) # 0
        <5>1. {x \in armed : x.fd = e.fd} \in SUBSET armed
          OBVIOUS
        <5>2. IsFiniteSet({x \in armed : x.fd = e.fd})
          BY <1>1, <5>1, FS_Subset DEF Finite
        <5>3. ArmedAt(e.fd) = 0 => {x \in armed : x.fd = e.fd} = {}
          BY <5>2, FS_EmptySet DEF ArmedAt
        <5> QED
          BY <3>1, <5>3
      <4>4. conns[e.fd].inUse
        <5>1. Recvs(e.fd) = IF conns[e.fd].inUse THEN 1 ELSE 0
          BY <1>1, <1>3, <4>1 DEF CountInv, CountAt
        <5> QED
          BY <4>2, <4>3, <5>1 DEF Sums
      <4> QED
        BY <1>1, <1>3, <3>4, <4>4, StaysInUse
    <3> QED
      BY <3>1, <3>2, <3>3, <3>4
  <2>8. e.reqs = <<>> => \A i \in DOMAIN e.reqs : Owns(e.reqs[i].sock, e.fd)'
    OBVIOUS
  <2> QED
    BY <2>2, <2>5, <2>6, <2>7, <2>8
<1> QED
  BY <1>1, <1>4, <1>5, <1>6, CqKept

LEMMA ArmedOwnsStep ==
  ASSUME OwnInv, [Next]_vars, QuietReuse
  PROVE  ArmedOwns'
<1>1. Types /\ CqEnded
  BY DEF OwnInv, RefsInv, CountInv, TableInv
<1> SUFFICES ASSUME NEW e \in armed' PROVE Owns(e.sock, e.fd)'
  BY DEF ArmedOwns
<1>2. CASE e \in armed
  <2>1. e.fd \in Fds /\ e.sock \in Socks
    BY <1>1, <1>2 DEF Types, KernelTypes
  <2>2. ~Quiet(e.fd) /\ Owns(e.sock, e.fd)
    BY <1>2 DEF Quiet, OwnInv, ArmedOwns
  <2> QED
    BY <1>1, <2>1, <2>2, OwnsKept
<1>3. CASE owner[e.fd] = e.sock /\ UNCHANGED owner
  BY <1>3 DEF Owns
<1> QED
  BY <1>1, <1>2, <1>3, ArmedKept

LEMMA ParkedOwnsStep ==
  ASSUME OwnInv, [Next]_vars, QuietReuse
  PROVE  ParkedOwns'
<1>1. Types /\ CqEnded /\ TableInv /\ Refs
  BY DEF OwnInv, RefsInv, CountInv, TableInv
<1> SUFFICES ASSUME parked' # None
             PROVE  /\ Owns(parked.req.sock, parked.fd)'
                    /\ owner'[parked'.fd] # None => conns'[parked'.fd].inUse
  BY DEF ParkedOwns
<1>2. CASE parked' = parked
  <2>1. parked.fd \in Fds /\ parked.req.sock \in Socks
    BY <1>1, <1>2 DEF Types, WorkerTypes, Requests
  <2>2. PICK s \in Socks, fd \in Fds : s = parked.req.sock /\ fd = parked.fd
    BY <2>1
  <2>3. ~Quiet(fd) /\ Owns(s, fd) /\ (owner[fd] # None => conns[fd].inUse)
    BY <1>2, <2>2 DEF Quiet, OwnInv, ParkedOwns
  <2>4. Owns(s, fd)'
    BY <1>1, <2>3, OwnsKept
  <2>5. owner'[fd] # None => conns'[fd].inUse
    BY <1>1, <2>3, OwnersQuiet, StaysInUse
  <2> QED
    BY <1>2, <2>2, <2>4, <2>5
<1>3. CASE /\ frame.fd \in Fds /\ conns[frame.fd].inUse /\ conns[frame.fd].buf # <<>>
           /\ parked' = [fd |-> frame.fd, req |-> Head(conns[frame.fd].buf)]
           /\ UNCHANGED owner
  <2>0. PICK fd \in Fds : fd = frame.fd
    BY <1>3
  <2>1. PICK r : r = Head(conns[fd].buf)
    OBVIOUS
  <2>2. conns[fd].buf \in Seq(Requests)
    BY <1>1 DEF Types, WorkerTypes, Conn
  <2>3. For(r, fd) /\ owner[fd] # None
    BY <1>1, <1>3, <2>0, <2>1, <2>2, SeqParts DEF Refs, BufRefs, TableInv, TableAt
  <2>4. owner[fd] = r.sock
    BY <2>3 DEF For
  <2>5. conns'[fd].inUse
    BY <1>1, <1>3, <2>0, <2>1, <2>3, StaysInUse
  <2>6. owner'[fd] = r.sock /\ parked' = [fd |-> fd, req |-> r]
    BY <1>3, <2>0, <2>1, <2>4
  <2> QED
    BY <2>0, <2>5, <2>6 DEF Owns
<1> QED
  BY <1>1, <1>2, <1>3, ParkedKept

LEMMA OwnInvStep == OwnInv /\ [Next]_vars /\ QuietReuse => OwnInv'
<1> SUFFICES ASSUME OwnInv, [Next]_vars, QuietReuse PROVE OwnInv'
  OBVIOUS
<1>1. RefsInv'
  BY RefsStep DEF OwnInv
<1>2. Owners'
  BY OwnersStep DEF OwnInv, RefsInv, CountInv, TableInv
<1> QED
  BY <1>1, <1>2, CqOwnsStep, ArmedOwnsStep, ParkedOwnsStep DEF OwnInv

----------------------------------------------------------------------------
(* What is queued is submitted before the worker waits. *)

Flushed ==
  /\ sq # <<>> => pc = "submit" \/ (needSubmit /\ pc \notin {"top", "wait"})
  /\ pc = "write" => sq = <<>>

LEMMA FlushedStep ==
  ASSUME Types, Flushed, [Next]_vars
  PROVE  Flushed'
<1>1. CASE RespondAsync \/ RespondInOrder \/ RespondWrite \/ SendSimple
  BY <1>1 DEF RespondAsync, RespondInOrder, RespondWrite, SendSimple, Flushed
<1>2. CASE DrainNothing \/ DrainMalformed \/ DrainWait \/ DrainPark
  BY Zenon, <1>2 DEF DrainNothing, DrainMalformed, DrainWait, DrainPark, Flushed, DrainReturn, DrainHead
<1>3. CASE DrainDispatch
  <2>1. pc = "drain" /\ pc' \in {"simple", "respond"} /\ UNCHANGED <<sq, needSubmit>>
    BY <1>3 DEF DrainDispatch, DrainHead
  <2> QED
    BY <2>1 DEF Flushed
<1>4. CASE Responded
  <2>1. pc = "responded" /\ pc' \in {"drain", "ready", "recvTail"} /\ UNCHANGED <<sq, needSubmit>>
    BY <1>4, RespondedStep DEF DrainReturn
  <2> QED
    BY <2>1 DEF Flushed
<1>5. CASE ReadyNext \/ ReadyDone
  BY <1>5 DEF ReadyNext, ReadyDone, Flushed
<1>6. CASE Top \/ Wake \/ EndBatch \/ Submitted
  BY <1>6 DEF Top, Wake, EndBatch, Submitted, Flushed, Types, WorkerTypes
<1>7. CASE GpuRelease("top") \/ GpuRelease("batch")
  BY <1>7 DEF GpuRelease, Flushed
<1>8. CASE AcceptCqe
  BY <1>8 DEF AcceptCqe, CqeIs, Flushed
<1>9. CASE SendCqe
  <2>1. pc = "batch" /\ pc' = pc /\ (UNCHANGED <<sq, needSubmit>> \/ needSubmit')
    BY <1>9 DEF SendCqe, CqeIs
  <2> QED
    BY <2>1 DEF Flushed
<1>10. CASE RecvEndCqe
  BY <1>10 DEF RecvEndCqe, Flushed
<1>11. CASE RecvNoBufsCqe
  BY <1>11 DEF RecvNoBufsCqe, CqeIs, Flushed
<1>12. CASE RecvDataCqe
  <2>1. pc = "batch" /\ pc' \in {"hung", "drain"} /\ UNCHANGED <<sq, needSubmit>>
    BY <1>12 DEF RecvDataCqe, CqeIs
  <2> QED
    BY <2>1 DEF Flushed
<1>13. CASE RecvTail
  BY <1>13 DEF RecvTail, Flushed
<1>14. CASE SubmitRecv \/ SubmitSend
  BY <1>14 DEF SubmitRecv, SubmitSend, Flushed
<1>15. CASE Kernel
  BY <1>15, KernelStep DEF workerVars, Flushed
<1>16. CASE Clients \/ UNCHANGED vars
  BY <1>16 DEF Clients, Connect, Ask, Leave, workerVars, vars, Flushed
<1> QED
  BY <1>1, <1>2, <1>3, <1>4, <1>5, <1>6, <1>7, <1>8, <1>9, <1>10, <1>11, <1>12, <1>13, <1>14, <1>15, <1>16
     DEF Next, Serve, Loop, Idle

(* tx_total is the length of the response in tx_buf. *)
TxWhole == \A fd \in Fds : conns[fd].inUse /\ conns[fd].txFlight => conns[fd].txTotal = Parts

LEMMA TxWholeStep ==
  ASSUME Types, TxWhole, [Next]_vars
  PROVE  TxWhole'
<1>1. Parts' = Parts
  BY TrafficKept DEF Parts
<1> SUFFICES ASSUME NEW fd \in Fds, conns'[fd].inUse, conns'[fd].txFlight
             PROVE  conns'[fd].txTotal = Parts
  BY <1>1 DEF TxWhole
<1>2. conns[fd].inUse /\ conns[fd].txFlight => conns[fd].txTotal = Parts
  BY DEF TxWhole
<1>3. CASE RespondAsync
  BY <1>2, <1>3, RespondAsyncStep
<1>4. CASE DrainMalformed
  BY <1>2, <1>4, DrainMalformedStep DEF Touches
<1>5. CASE DrainPark
  BY <1>2, <1>5, DrainParkStep DEF Touches, KeepsTx
<1>6. CASE Responded
  BY <1>2, <1>6, RespondedStep DEF Touches, KeepsTx
<1>7. CASE AcceptCqe
  BY <1>2, <1>7, AcceptCqeStep DEF Touches
<1>8. CASE SendCqe
  BY <1>2, <1>8, SendCqeStep DEF Touches
<1>9. CASE RecvEndCqe
  BY <1>2, <1>9, RecvEndCqeStep DEF Touches
<1>10. CASE RecvDataCqe
  BY Zenon, <1>2, <1>10, RecvDataCqeStep DEF Touches, KeepsTx
<1> QED
  BY <1>2, <1>3, <1>4, <1>5, <1>6, <1>7, <1>8, <1>9, <1>10, ConnsKept

----------------------------------------------------------------------------
(* What a step puts on the wire *)

(* The unit part of the answer to request n of s arrived. *)
Wired(s, n, part) == \E i \in DOMAIN wire[s] : wire[s][i].n = n /\ wire[s][i].part = part

WireParts == \A s \in Socks : \A i \in DOMAIN wire[s] : wire[s][i].n >= 1 /\ wire[s][i].part \in 1 .. Parts

(* The units from .. to of the answer to r are written to s. *)
Wrote(s, r, from, to) ==
  /\ s \in Socks /\ s \notin shut /\ r \in Requests /\ r.sock = s
  /\ from \in Nat /\ from >= 1 /\ to \in Nat /\ to <= Parts /\ to - from + 1 \in Nat
  /\ wire' = Delivered(s, Units(r, from, to))

(* What is in q after units were appended *)
Extends(q, w, r, from, to) ==
  /\ \A i \in DOMAIN q : i \in DOMAIN w /\ w[i] = q[i]
  /\ \A i \in DOMAIN w :
       \/ i \in DOMAIN q /\ w[i] = q[i]
       \/ \E k \in 1 .. (to - from + 1) : i = Len(q) + k /\ w[i] = [sock |-> r.sock, n |-> r.n, part |-> from + k - 1]
  /\ \A k \in 1 .. (to - from + 1) :
       Len(q) + k \in DOMAIN w /\ w[Len(q) + k] = [sock |-> r.sock, n |-> r.n, part |-> from + k - 1]

LEMMA Appended ==
  ASSUME NEW q \in Seq(Parcels), NEW r \in Requests, NEW from \in Nat, NEW to \in Nat, to - from + 1 \in Nat
  PROVE  Extends(q, q \o Units(r, from, to), r, from, to)
<1> DEFINE m == to - from + 1
           u == Units(r, from, to)
<1>1. u \in Seq(Parcels) /\ DOMAIN u = 1 .. m /\ m \in Nat
      /\ \A k \in 1 .. m : u[k] = [sock |-> r.sock, n |-> r.n, part |-> from + k - 1]
  <2>1. u \in Seq(Parcels)
    BY UnitsAre
  <2>2. DOMAIN u = 1 .. m /\ m \in Nat
        /\ \A k \in 1 .. m : u[k] = [sock |-> r.sock, n |-> r.n, part |-> from + k - 1]
    BY DEF Units
  <2> QED
    BY <2>1, <2>2
<1> HIDE DEF u
<1>2. Len(u) = m /\ Len(q) \in Nat /\ DOMAIN q = 1 .. Len(q)
  BY <1>1
<1>3. q \o u \in Seq(Parcels) /\ Len(q \o u) = Len(q) + m /\ DOMAIN (q \o u) = 1 .. (Len(q) + m)
  BY <1>1, <1>2
<1>4. /\ \A i \in 1 .. Len(q) : (q \o u)[i] = q[i]
      /\ \A k \in 1 .. m : (q \o u)[Len(q) + k] = u[k]
  BY <1>1, <1>2, <1>3
<1> DEFINE w == q \o u
<1> HIDE DEF w, m
<1>5. \A i \in DOMAIN q : i \in DOMAIN w /\ w[i] = q[i]
  BY <1>1, <1>2, <1>3, <1>4 DEF w
<1>6. \A k \in 1 .. m : Len(q) + k \in DOMAIN w /\ w[Len(q) + k] = [sock |-> r.sock, n |-> r.n, part |-> from + k - 1]
  BY <1>1, <1>2, <1>3, <1>4 DEF w
<1>7. ASSUME NEW i \in DOMAIN w
      PROVE  \/ i \in DOMAIN q /\ w[i] = q[i]
             \/ \E k \in 1 .. m : i = Len(q) + k
  <2>1. i \in 1 .. (Len(q) + m)
    BY <1>3 DEF w
  <2>2. CASE i <= Len(q)
    BY <1>2, <1>5, <2>1, <2>2
  <2>3. CASE i > Len(q)
    <3>1. i - Len(q) \in 1 .. m /\ i = Len(q) + (i - Len(q))
      BY <1>1, <1>2, <2>1, <2>3
    <3> QED
      BY <3>1
  <2> QED
    BY <1>2, <2>1, <2>2, <2>3
<1> QED
  BY <1>5, <1>6, <1>7 DEF Extends, w, m, u

(* A client that is there gets what is written to it; no other does. *)
LEMMA WroteStep ==
  ASSUME WireInv, NEW s, NEW r, NEW from, NEW to, Wrote(s, r, from, to)
  PROVE  /\ \A t \in Socks : t # s => wire'[t] = wire[t]
         /\ client[s] = "open" => Extends(wire[s], wire'[s], r, from, to)
         /\ client[s] # "open" => wire'[s] = wire[s]
<1>1. wire \in [Socks -> Seq(Parcels)] /\ s \in Socks /\ wire[s] \in Seq(Parcels)
  BY DEF WireInv, Wrote
<1>2. wire' = [wire EXCEPT ![s] = IF client[s] = "open" THEN @ \o Units(r, from, to) ELSE @]
  BY DEF Wrote, Delivered
<1>3. /\ \A t \in Socks : t # s => wire'[t] = wire[t]
      /\ client[s] = "open" => wire'[s] = wire[s] \o Units(r, from, to)
      /\ client[s] # "open" => wire'[s] = wire[s]
  BY <1>1, <1>2
<1>4. Extends(wire[s], wire[s] \o Units(r, from, to), r, from, to)
  BY <1>1, Appended DEF Wrote
<1> QED
  BY <1>3, <1>4

----------------------------------------------------------------------------
(* A request that nobody began to answer stays where it is, or moves on. *)

LEMMA TailAt ==
  ASSUME NEW S, NEW q \in Seq(S), NEW i \in DOMAIN q
  PROVE  /\ q # <<>> /\ i \in Nat /\ i >= 1
         /\ i = 1 => q[i] = Head(q)
         /\ i # 1 => i - 1 \in DOMAIN Tail(q) /\ Tail(q)[i - 1] = q[i] /\ i - 1 >= 1
<1>1. q # <<>> /\ i \in 1 .. Len(q) /\ Len(q) \in Nat
  OBVIOUS
<1>2. Tail(q) \in Seq(S) /\ Len(Tail(q)) = Len(q) - 1
      /\ \A j \in 1 .. (Len(q) - 1) : Tail(q)[j] = q[j + 1]
  BY <1>1
<1>3. DOMAIN Tail(q) = 1 .. (Len(q) - 1)
  BY <1>2
<1>4. CASE i # 1
  <2>1. i - 1 \in 1 .. (Len(q) - 1) /\ (i - 1) + 1 = i
    BY <1>1, <1>4
  <2>2. Tail(q)[i - 1] = q[(i - 1) + 1]
    BY <1>2, <2>1
  <2> QED
    BY <1>1, <1>3, <1>4, <2>1, <2>2
<1>5. CASE i = 1
  BY <1>1, <1>5
<1> QED
  BY <1>4, <1>5

LEMMA JoinAt ==
  ASSUME NEW S, NEW p \in Seq(S), NEW q \in Seq(S)
  PROVE  /\ p \o q \in Seq(S)
         /\ \A i \in DOMAIN p : i \in DOMAIN (p \o q) /\ (p \o q)[i] = p[i]
         /\ \A j \in DOMAIN q : Len(p) + j \in DOMAIN (p \o q) /\ (p \o q)[Len(p) + j] = q[j] /\ Len(p) + j >= 1
<1>1. Len(p) \in Nat /\ Len(q) \in Nat /\ DOMAIN p = 1 .. Len(p) /\ DOMAIN q = 1 .. Len(q)
      /\ p \o q \in Seq(S) /\ Len(p \o q) = Len(p) + Len(q)
  OBVIOUS
<1>2. DOMAIN (p \o q) = 1 .. (Len(p) + Len(q))
  BY <1>1
<1> QED
  BY <1>1, <1>2

LEMMA AppendAt ==
  ASSUME NEW S, NEW q \in Seq(S), NEW e
  PROVE  /\ \A i \in DOMAIN q : i \in DOMAIN Append(q, e) /\ Append(q, e)[i] = q[i] /\ i < Len(q) + 1
         /\ Len(q) + 1 \in DOMAIN Append(q, e) /\ Append(q, e)[Len(q) + 1] = e
         /\ Len(q) + 1 \in Nat
         /\ DOMAIN Append(q, e) = DOMAIN q \cup {Len(q) + 1}
  OBVIOUS

Handles == AcceptCqe \/ SendCqe \/ RecvEndCqe \/ RecvNoBufsCqe \/ RecvDataCqe

(* The completion queue loses its head, or gets one entry. *)
LEMMA CqForms ==
  ASSUME Types, [Next]_vars
  PROVE  \/ cq' = cq
         \/ \E x : cq' = Append(cq, x)
         \/ cq # <<>> /\ cq' = Tail(cq) /\ Handles
<1>1. CASE Serve
  <2>1. UNCHANGED cq
    BY Zenon, <1>1 DEF Serve, RespondAsync, RespondInOrder, RespondWrite, SendSimple, DrainNothing,
         DrainMalformed, DrainWait, DrainPark, DrainDispatch, Responded, ReadyNext, ReadyDone, kernelVars
  <2> QED
    BY <2>1
<1>2. CASE Handles
  <2>1. cq # <<>> /\ (UNCHANGED cq \/ cq' = Tail(cq))
    BY Zenon, <1>2 DEF Handles, AcceptCqe, SendCqe, RecvEndCqe, RecvNoBufsCqe, RecvDataCqe, CqeIs, Consume, kernelVars
  <2> QED
    BY <1>2, <2>1
<1>3. CASE Top \/ GpuRelease("top") \/ GpuRelease("batch") \/ RecvTail \/ EndBatch \/ Submitted \/ Wake
  BY <1>3 DEF Top, GpuRelease, RecvTail, EndBatch, Submitted, Wake, kernelVars
<1>4. CASE SubmitRecv \/ SubmitSend
  BY <1>4 DEF SubmitRecv, SubmitSend, SendExecutes
<1>5. CASE Kernel
  BY <1>5 DEF Kernel, PendingSend, SendExecutes, Recv, RecvNoBufs, RecvEnd, JobEnds, Accept, kernelVars
<1>6. CASE Clients \/ UNCHANGED vars
  BY <1>6 DEF Clients, Connect, Ask, Leave, kernelVars, vars
<1> QED
  BY <1>1, <1>2, <1>3, <1>4, <1>5, <1>6 DEF Next, Loop, Idle, Handles

LEMMA UntakenMoves ==
  ASSUME Types, Types', [Next]_vars, NEW r \in Requests, r.n > taken[r.sock]
  PROVE  r.n > taken'[r.sock] \/ \E i, j : At(r, "cq", i, j)'
<1>1. CASE Recv
  <2>0. PICK e \in armed, more \in BOOLEAN :
          \E k \in (taken[e.sock] + 1) .. Len(asked[e.sock]) :
            /\ taken' = [taken EXCEPT ![e.sock] = k]
            /\ cq' = Append(cq, Cqe("recv", e.fd,
                [i \in 1 .. (k - taken[e.sock]) |-> [sock |-> e.sock, n |-> taken[e.sock] + i]],
                0, more))
    BY <1>1 DEF Recv
  <2>1. PICK k \in (taken[e.sock] + 1) .. Len(asked[e.sock]) :
          /\ taken' = [taken EXCEPT ![e.sock] = k]
          /\ cq' = Append(cq, Cqe("recv", e.fd,
              [i \in 1 .. (k - taken[e.sock]) |-> [sock |-> e.sock, n |-> taken[e.sock] + i]],
              0, more))
    BY <2>0
  <2>2. e.sock \in Socks /\ taken \in [Socks -> Nat] /\ cq \in Seq(Cqes) /\ taken[e.sock] \in Nat
    BY DEF Types, KernelTypes, ClientTypes
  <2>3. asked[e.sock] \in Seq(AllKinds)
    BY <2>2 DEF Types, ClientTypes
  <2>4. k \in Nat /\ r.n \in Nat /\ r.sock \in Socks /\ r = [sock |-> r.sock, n |-> r.n]
    BY <2>2, <2>3 DEF Requests
  <2>5. CASE r.sock = e.sock /\ r.n <= k
    <3> DEFINE t == taken[e.sock]
               reqs == [i \in 1 .. (k - t) |-> [sock |-> e.sock, n |-> t + i]]
               x == Cqe("recv", e.fd, reqs, 0, more)
    <3>1. r.n - t \in 1 .. (k - t) /\ t + (r.n - t) = r.n
      BY <2>2, <2>4, <2>5
    <3>2. r.n - t \in DOMAIN reqs /\ reqs[r.n - t] = r
      <4> HIDE DEF t
      <4> QED
        BY <2>4, <2>5, <3>1
    <3>3. x.reqs = reqs /\ cq' = Append(cq, x)
      BY <2>1 DEF Cqe
    <3>4. PICK i, j : i = Len(cq) + 1 /\ j = r.n - t
      OBVIOUS
    <3>5. j \in DOMAIN reqs /\ reqs[j] = r
      BY <3>2, <3>4
    <3> HIDE DEF x, reqs
    <3>6. i \in DOMAIN cq' /\ cq'[i] = x
      BY <2>2, <3>3, <3>4, AppendAt
    <3>7. At(r, "cq", i, j)'
      BY <3>3, <3>5, <3>6 DEF At
    <3> QED
      BY <3>7
  <2>6. CASE r.sock = e.sock /\ r.n > k
    BY <2>1, <2>2, <2>4, <2>6
  <2>7. CASE r.sock # e.sock
    BY <2>1, <2>2, <2>4, <2>7
  <2> QED
    BY <2>4, <2>5, <2>6, <2>7
<1> QED
  BY <1>1, TakenMoves

(* What was received for a client that is there goes to its buffer. *)
LEMMA CqHeadMoves ==
  ASSUME OwnInv, Types', [Next]_vars, cq # <<>>, cq' = Tail(cq), Handles, NEW j \in DOMAIN Head(cq).reqs,
         NEW r \in Requests, r = Head(cq).reqs[j], ~Ended(r.sock)
  PROVE  \E fd, k : At(r, "buf", fd, k)'
<1>1. Types
  BY DEF OwnInv, RefsInv, CountInv, TableInv
<1>2. PICK e \in ToSet(cq) : e = Head(cq)
  BY <1>1, HeadIn DEF Types, KernelTypes
<1>3. e.fd \in Fds /\ e.reqs \in Seq(Requests) /\ e.reqs # <<>>
  BY <1>1, <1>2, CqFds
<1>4. e.op = "recv"
  BY <1>2, <1>3 DEF OwnInv, CqOps
<1>5. RecvDataCqe
  <2>1. ~AcceptCqe /\ ~SendCqe /\ ~RecvNoBufsCqe
    BY <1>2, <1>4 DEF AcceptCqe, SendCqe, RecvNoBufsCqe, CqeIs
  <2>2. ~RecvEndCqe
    BY <1>2, <1>3 DEF RecvEndCqe
  <2> QED
    BY <2>1, <2>2 DEF Handles
<1>6. cq' # cq
  <2>1. cq \in Seq(Cqes)
    BY <1>1 DEF Types, KernelTypes
  <2> QED
    BY <2>1
<1>7. /\ conns'[e.fd].inUse = conns[e.fd].inUse /\ conns'[e.fd].buf = conns[e.fd].buf \o e.reqs
      /\ pc' = "drain"
  BY Zenon, <1>1, <1>2, <1>5, <1>6, RecvDataCqeStep DEF kernelVars
<1>8. conns[e.fd].inUse
  <2>1. Owns(r.sock, e.fd)
    BY <1>2 DEF OwnInv, CqOwns
  <2>2. owner[e.fd] # None
    BY <2>1 DEF Owns, Ended
  <2> QED
    BY <1>2, <1>3, <2>2 DEF OwnInv, CqInUse
<1>9. conns[e.fd].buf \in Seq(Requests)
  BY <1>1, <1>3 DEF Types, WorkerTypes, Conn
<1>15. PICK p \in Seq(Requests), q \in Seq(Requests) : p = conns[e.fd].buf /\ q = e.reqs
  BY <1>3, <1>9
<1>14. PICK k : k = Len(p) + j
  OBVIOUS
<1>10. k \in DOMAIN (conns[e.fd].buf \o e.reqs) /\ (conns[e.fd].buf \o e.reqs)[k] = r /\ k >= 1
  <2>1. \A l \in DOMAIN q : Len(p) + l \in DOMAIN (p \o q) /\ (p \o q)[Len(p) + l] = q[l] /\ Len(p) + l >= 1
    BY JoinAt
  <2>2. j \in DOMAIN q /\ q[j] = r
    BY <1>2, <1>15
  <2> QED
    BY <1>14, <1>15, <2>1, <2>2
<1>11. Skips(e.fd)' = 0
  BY <1>7 DEF Skips
<1>12. k > 0
  <2>1. k \in Nat
    BY <1>2, <1>3, <1>14, <1>15
  <2> QED
    BY <1>10, <2>1
<1>13. At(r, "buf", e.fd, k)'
  BY <1>2, <1>3, <1>7, <1>8, <1>10, <1>11, <1>12 DEF At, BufSlot
<1> QED
  BY <1>13

LEMMA CqRequestMoves ==
  ASSUME OwnInv, Types', [Next]_vars, NEW r \in Requests, NEW i, NEW j, At(r, "cq", i, j), ~Ended(r.sock)
  PROVE  Fresh(r)'
<1>0. Types
  BY DEF OwnInv, RefsInv, CountInv, TableInv
<1>1. Types /\ cq \in Seq(Cqes)
  BY <1>0 DEF Types, KernelTypes
<1>2. i \in DOMAIN cq /\ j \in DOMAIN cq[i].reqs /\ cq[i].reqs[j] = r
  BY DEF At
<1>3. CASE cq' = cq
  <2>1. At(r, "cq", i, j)'
    BY <1>2, <1>3 DEF At
  <2> QED
    BY <2>1 DEF Fresh
<1>4. CASE \E x : cq' = Append(cq, x)
  <2>1. i \in DOMAIN cq' /\ cq'[i] = cq[i]
    BY <1>1, <1>2, <1>4, AppendAt
  <2>2. At(r, "cq", i, j)'
    BY <1>2, <2>1 DEF At
  <2> QED
    BY <2>2 DEF Fresh
<1>5. CASE cq # <<>> /\ cq' = Tail(cq) /\ Handles
  <2>1. CASE i = 1
    <3>1. cq[i] = Head(cq)
      BY <1>1, <1>2, <2>1, TailAt
    <3>2. PICK fd, k : At(r, "buf", fd, k)'
      BY <1>2, <1>5, <3>1, CqHeadMoves
    <3> QED
      BY <3>2 DEF Fresh
  <2>2. CASE i # 1
    <3>1. i - 1 \in DOMAIN cq' /\ cq'[i - 1] = cq[i]
      BY <1>1, <1>2, <1>5, <2>2, TailAt
    <3>2. At(r, "cq", i - 1, j)'
      BY <1>2, <3>1 DEF At
    <3> QED
      BY <3>2 DEF Fresh
  <2> QED
    BY <2>1, <2>2
<1> QED
  BY <1>1, <1>3, <1>4, <1>5, CqForms

LEMMA BufRequestMoves ==
  ASSUME OwnInv, Types', [Next]_vars, NEW r \in Requests, NEW fd, NEW k, At(r, "buf", fd, k), ~Ended(r.sock)',
         ~(Answers /\ r = frame.req)
  PROVE  Fresh(r)'
<1>1. Types /\ Refs /\ TableInv /\ CqEnded
  BY DEF OwnInv, RefsInv, CountInv, TableInv
<1>2. fd \in Fds /\ BufSlot(fd, k) /\ conns[fd].buf[k] = r
  BY DEF At
<1>3. PICK p \in Seq(Requests) : p = conns[fd].buf
  BY <1>1, <1>2 DEF Types, WorkerTypes, Conn
<1>4. conns[fd].inUse /\ k \in DOMAIN p /\ k > Skips(fd) /\ p[k] = r
  BY <1>2, <1>3 DEF BufSlot
<1>5. k \in Nat /\ k >= 1 /\ p # <<>>
  BY <1>4, TailAt
<1>6. owner[fd] = r.sock /\ r.sock \in Socks
  <2>1. For(r, fd)
    BY <1>1, <1>2, <1>3, <1>4 DEF Refs, BufRefs
  <2>2. owner[fd] # None
    BY <1>1, <1>2, <1>4 DEF TableInv, TableAt
  <2> QED
    BY <2>1, <2>2 DEF For, Requests
<1>7. owner'[fd] # None
  <2>1. PICK s \in Socks : s = r.sock
    BY <1>6
  <2>2. owner'[fd] = None => Ended(s)'
    BY <1>1, <1>2, <1>6, <2>1, LetGoEnds
  <2> QED
    BY <2>1, <2>2
<1>8. conns'[fd].inUse
  BY <1>1, <1>2, <1>4, <1>7, StaysInUse
<1>9. ASSUME k \in DOMAIN conns'[fd].buf, conns'[fd].buf[k] = r, k > Skips(fd)' PROVE Fresh(r)'
  <2>1. At(r, "buf", fd, k)'
    BY <1>2, <1>8, <1>9 DEF At, BufSlot
  <2> QED
    BY <2>1 DEF Fresh
<1>10. ASSUME k # 1, conns'[fd].buf = Tail(conns[fd].buf), Skips(fd)' = 0 PROVE Fresh(r)'
  <2>1. PICK l : l = k - 1
    OBVIOUS
  <2>2. l \in DOMAIN Tail(p) /\ Tail(p)[l] = r /\ l >= 1
    BY <1>4, <1>10, <2>1, TailAt
  <2>3. l > 0
    BY <1>5, <2>1, <2>2
  <2>4. At(r, "buf", fd, l)'
    BY <1>2, <1>3, <1>8, <1>10, <2>2, <2>3 DEF At, BufSlot
  <2> QED
    BY <2>4 DEF Fresh
<1>11. k > 0
  BY <1>5
<1>12. CASE UNCHANGED vars
  <2>1. conns' = conns /\ Skips(fd)' = Skips(fd)
    BY <1>12 DEF vars, callVars, Skips
  <2> QED
    BY <1>3, <1>4, <1>9, <2>1
<1>13. CASE Answers
  <2>1. conns'[fd].buf = conns[fd].buf
    BY <1>1, <1>2, <1>13, RespondAsyncStep DEF Answers, RespondWrite, SendSimple
  <2>2. back' = back /\ frame'.fd = frame.fd
    BY <1>1, <1>13 DEF Answers, RespondAsync, RespondWrite, SendSimple, callVars, Types, WorkerTypes
  <2>3. Serving
    BY <1>13 DEF Answers, RespondAsync, RespondWrite, SendSimple, Serving
  <2>4. CASE fd = frame.fd /\ back # "release"
    <3>1. frame.req = Head(p)
      BY <1>1, <1>3, <2>3, <2>4 DEF Types, Framed
    <3>2. k # 1
      BY <1>4, <1>13, <3>1, TailAt
    <3>3. k > 1
      BY <1>5, <3>2
    <3>4. k > Skips(fd)'
      BY <1>11, <3>3 DEF Skips
    <3> QED
      BY <1>3, <1>4, <1>9, <2>1, <3>4
  <2>5. CASE ~(fd = frame.fd /\ back # "release")
    <3>1. Skips(fd)' = 0
      BY <2>2, <2>5 DEF Skips
    <3> QED
      BY <1>3, <1>4, <1>9, <1>11, <2>1, <3>1
  <2> QED
    BY <2>4, <2>5
<1>14. CASE ~Answers /\ ~(UNCHANGED vars)
  <2>1. Skips(fd)' = 0
    <3>1. pc' # "responded"
      BY <1>1, <1>14, RespondedBy
    <3> QED
      BY <3>1 DEF Skips
  <2>2. CASE conns'[fd].buf = conns[fd].buf
    BY <1>3, <1>4, <1>9, <1>11, <2>1, <2>2
  <2>3. CASE DrainMalformed
    BY <1>1, <1>2, <1>8, <2>2, <2>3, DrainMalformedStep DEF Touches
  <2>4. CASE DrainPark
    <3>1. CASE fd # frame.fd
      BY <1>1, <1>2, <2>2, <2>4, <3>1, DrainParkStep DEF Touches
    <3>2. CASE fd = frame.fd /\ k = 1
      <4>1. parked' = [fd |-> fd, req |-> r] /\ parked' \in [fd : Fds, req : Requests]
        <5>1. Head(p) = r
          BY <1>4, <3>2, TailAt
        <5> QED
          BY <1>1, <1>3, <2>4, <3>2, <5>1, DrainParkStep
      <4>2. parked' # None
        BY <4>1, WorkerAssumption
      <4>3. At(r, "parked", 0, 0)'
        BY <4>1, <4>2 DEF At, Parked
      <4> QED
        BY <4>3 DEF Fresh
    <3>3. CASE fd = frame.fd /\ k # 1
      <4>1. conns'[fd].buf = Tail(conns[fd].buf)
        BY <1>1, <2>4, <3>3, DrainParkStep
      <4> QED
        BY <1>10, <2>1, <3>3, <4>1
    <3> QED
      BY <3>1, <3>2, <3>3
  <2>5. CASE Responded
    <3>1. CASE fd # frame.fd
      BY <1>1, <1>2, <2>2, <2>5, <3>1, RespondedStep DEF Touches
    <3>2. CASE fd = frame.fd /\ back = "release"
      BY <1>1, <1>8, <2>2, <2>5, <3>2, RespondedStep
    <3>3. CASE fd = frame.fd /\ back # "release"
      <4>1. conns'[fd].buf = Tail(conns[fd].buf)
        BY <1>1, <1>8, <2>5, <3>3, RespondedStep
      <4>2. Skips(fd) = 1
        BY <2>5, <3>3 DEF Responded, Skips
      <4>3. k # 1
        BY <1>4, <4>2
      <4> QED
        BY <1>10, <2>1, <4>1, <4>3
    <3> QED
      BY <3>1, <3>2, <3>3
  <2>6. CASE AcceptCqe
    <3>1. fd # Head(cq).fd
      <4> SUFFICES ASSUME fd = Head(cq).fd PROVE FALSE
        OBVIOUS
      <4>1. cq # <<>> /\ Head(cq).op = "accept" /\ cq' = Tail(cq)
        BY <2>6 DEF AcceptCqe, CqeIs, Consume
      <4>2. Accepts(fd)' = Accepts(fd) - 1 /\ Accepts(fd) \in Nat /\ Accepts(fd)' \in Nat
        BY <1>1, <1>2, <4>1, AcceptsTail
      <4>3. Accepts(fd) = 0
        BY <1>1, <1>2, <1>4 DEF TableInv, TableAt
      <4> QED
        BY <4>2, <4>3
    <3> QED
      BY <1>1, <1>2, <2>2, <2>6, <3>1, AcceptCqeStep DEF Touches
  <2>7. CASE SendCqe
    BY <1>1, <1>2, <1>8, <2>2, <2>7, SendCqeStep DEF Touches
  <2>8. CASE RecvEndCqe
    BY <1>1, <1>2, <1>8, <2>2, <2>8, RecvEndCqeStep DEF Touches
  <2>9. CASE RecvDataCqe
    <3>1. PICK e \in ToSet(cq) : e = Head(cq) /\ e.reqs \in Seq(Requests)
      <4>1. cq # <<>>
        BY <2>9 DEF RecvDataCqe, CqeIs
      <4> QED
        BY <1>1, <4>1, HeadIn, CqFds DEF Types, KernelTypes
    <3>2. CASE conns'[fd].buf = conns[fd].buf \o e.reqs
      <4>1. PICK q \in Seq(Requests) : q = e.reqs
        BY <3>1
      <4>2. k \in DOMAIN (p \o q) /\ (p \o q)[k] = r
        BY <1>4, JoinAt
      <4> QED
        BY <1>3, <1>9, <1>11, <2>1, <3>2, <4>1, <4>2
    <3>3. conns'[fd].buf = conns[fd].buf \/ conns'[fd].buf = conns[fd].buf \o e.reqs
      BY Zenon, <1>1, <1>2, <2>9, <3>1, RecvDataCqeStep DEF Touches
    <3> QED
      BY <2>2, <3>2, <3>3
  <2> QED
    BY <1>1, <1>14, <2>2, <2>3, <2>4, <2>5, <2>6, <2>7, <2>8, <2>9, ConnsKept DEF Answers
<1> QED
  BY <1>12, <1>13, <1>14

LEMMA ParkedLeaves ==
  ASSUME Types, [Next]_vars, parked # None
  PROVE  parked' = parked \/ GpuRelease("top") \/ GpuRelease("batch")
<1>1. CASE Serve
  <2>1. ~DrainPark
    BY DEF DrainPark
  <2> QED
    BY Zenon, <1>1, <2>1 DEF Serve, RespondAsync, RespondInOrder, RespondWrite, SendSimple, DrainNothing,
       DrainMalformed, DrainWait, DrainDispatch, Responded, ReadyNext, ReadyDone
<1>2. CASE Loop
  BY Zenon, <1>2 DEF Loop, Top, AcceptCqe, SendCqe, RecvEndCqe, RecvNoBufsCqe, RecvDataCqe,
       RecvTail, EndBatch, SubmitRecv, SubmitSend, Submitted
<1>3. CASE Kernel
  BY <1>3, KernelStep DEF workerVars
<1>4. CASE Wake \/ Clients \/ UNCHANGED vars
  BY <1>4 DEF Wake, Clients, Connect, Ask, Leave, workerVars, vars
<1> QED
  BY <1>1, <1>2, <1>3, <1>4 DEF Next, Idle

LEMMA ParkedRequestMoves ==
  ASSUME OwnInv, [Next]_vars, NEW r \in Requests, Parked(r), ~Ended(r.sock)
  PROVE  Fresh(r)'
<1>1. Types
  BY DEF OwnInv, RefsInv, CountInv, TableInv
<1>2. parked # None /\ parked.req = r /\ r.sock \in Socks
  BY DEF Parked, Requests
<1>3. CASE parked' = parked
  <2>1. At(r, "parked", 0, 0)'
    BY <1>2, <1>3 DEF At, Parked
  <2> QED
    BY <2>1 DEF Fresh
<1>4. CASE GpuRelease("top") \/ GpuRelease("batch")
  <2>1. conns[parked.fd].inUse
    <3>1. owner[parked.fd] # None
      BY <1>2 DEF OwnInv, ParkedOwns, Owns, Ended
    <3> QED
      BY <1>2, <3>1 DEF OwnInv, ParkedOwns
  <2>2. /\ frame' = [fd |-> parked.fd, req |-> parked.req, closing |-> FALSE]
        /\ back' = "release" /\ pc' \in {"simple", "respond"}
    BY <1>4, <2>1 DEF GpuRelease
  <2>3. At(r, "released", 0, 0)'
    BY <1>2, <2>2 DEF At, Released, Serves
  <2> QED
    BY <2>3 DEF Fresh
<1> QED
  BY <1>1, <1>2, <1>3, <1>4, ParkedLeaves

LEMMA ReleasedMoves ==
  ASSUME Types, [Next]_vars, NEW r \in Requests, Released(r), ~(Answers /\ r = frame.req)
  PROVE  Fresh(r)'
<1>1. back = "release" /\ frame.req = r /\ Serves /\ ~Answers
  BY DEF Released
<1>2. Released(r)'
  <2>1. CASE Serve
    <3>1. RespondInOrder
      BY <1>1, <2>1 DEF Serve, Serves, Answers, DrainNothing, DrainMalformed, DrainWait, DrainPark,
         DrainHead, DrainDispatch, Responded, ReadyNext, ReadyDone
    <3> QED
      BY <1>1, <3>1 DEF RespondInOrder, Released, Serves
  <2>2. CASE Loop
    <3>1. SubmitRecv \/ SubmitSend \/ Submitted
      <4>1. pc \notin {"top", "batch", "recvTail"}
        BY <1>1 DEF Serves
      <4> QED
        BY <2>2, <4>1 DEF Loop, Top, GpuRelease, AcceptCqe, SendCqe, RecvEndCqe, RecvNoBufsCqe, RecvDataCqe,
           RecvTail, EndBatch, CqeIs
    <3> QED
      BY <1>1, <3>1 DEF SubmitRecv, SubmitSend, Submitted, Released, Serves, callVars
  <2>3. CASE Kernel \/ Clients \/ Wake
    <3>1. pc # "wait"
      BY <1>1 DEF Serves
    <3> QED
      BY <2>3, <3>1, KernelStep DEF Clients, Connect, Leave, Ask, Wake
  <2>4. CASE UNCHANGED vars
    BY <1>1, <2>4 DEF vars, callVars, Released, Serves
  <2> QED
    BY <2>1, <2>2, <2>3, <2>4 DEF Next, Idle
<1>3. At(r, "released", 0, 0)'
  BY <1>2 DEF At
<1> QED
  BY <1>3 DEF Fresh

(* A request stays unanswered until the worker answers it, as long as its *)
(* client is there.                                                       *)
LEMMA FreshKept ==
  ASSUME OwnInv, Types', [Next]_vars, NEW r \in Requests, Fresh(r), ~Ended(r.sock)', ~(Answers /\ r = frame.req)
  PROVE  Fresh(r)'
<1>1. Types
  BY DEF OwnInv, RefsInv, CountInv, TableInv
<1>2. PICK s \in Socks : s = r.sock
  BY DEF Requests
<1>3. ~Ended(r.sock)
  <2>1. Ended(s) => Ended(s)'
    BY <1>1, EndedKept
  <2> QED
    BY <1>2, <2>1
<1>4. PICK p, i, j : At(r, p, i, j)
  BY DEF Fresh
<1>5. p \in {"client", "cq", "buf", "parked", "released"}
  BY <1>1, <1>4, AtIs
<1>6. CASE p = "client"
  <2>1. r.n > taken[r.sock]
    BY <1>4, <1>6 DEF At, Untaken
  <2>2. CASE r.n > taken'[r.sock]
    <3>1. At(r, "client", 0, 0)'
      BY <2>2 DEF At, Untaken
    <3> QED
      BY <3>1 DEF Fresh
  <2>3. CASE \E k, l : At(r, "cq", k, l)'
    BY <2>3 DEF Fresh
  <2> QED
    BY <1>1, <2>1, <2>2, <2>3, UntakenMoves
<1>7. CASE p = "cq"
  BY <1>3, <1>4, <1>7, CqRequestMoves
<1>8. CASE p = "buf"
  BY <1>4, <1>8, BufRequestMoves
<1>9. CASE p = "parked"
  <2>1. Parked(r)
    BY <1>4, <1>9 DEF At
  <2> QED
    BY <1>3, <2>1, ParkedRequestMoves
<1>10. CASE p = "released"
  <2>1. Released(r)
    BY <1>4, <1>10 DEF At
  <2> QED
    BY <1>1, <2>1, ReleasedMoves
<1> QED
  BY <1>5, <1>6, <1>7, <1>8, <1>9, <1>10

(* writev gives a client that is there the whole response. *)
LEMMA WrittenWrote ==
  ASSUME Types, NEW fd \in Fds, NEW r \in Requests, NEW s \in Socks, s = r.sock, owner[fd] = s,
         NEW ok \in WriteOutcomes(fd), Written(fd, r, ok)
  PROVE  Wrote(s, r, 1, Parts) \/ (wire' = wire /\ Ended(s))
<1>0. s # None /\ Parts \in 1 .. 2
  BY WorkerAssumption, UnitCounts
<1>1. CASE ok
  <2>1. s \notin shut /\ wire' = Delivered(s, Units(r, 1, Parts))
    BY <1>1 DEF WriteOutcomes, MaySucceed, Written
  <2>2. 1 \in Nat /\ 1 >= 1 /\ Parts \in Nat /\ Parts <= Parts /\ Parts - 1 + 1 \in Nat
    BY <1>0
  <2> QED
    BY <2>1, <2>2 DEF Wrote
<1>2. CASE ~ok
  <2>1. wire' = wire
    BY <1>2 DEF Written
  <2>2. s \in shut \/ client[s] = "gone"
    BY <1>0, <1>2 DEF WriteOutcomes, MayFail, MaySucceed
  <2> QED
    BY <2>1, <2>2 DEF Ended
<1> QED
  BY <1>1, <1>2

(* The answer to the request that is served is written whole. *)
LEMMA AnswerWrote ==
  ASSUME RefsInv, RespondWrite \/ SendSimple, NEW r, r = frame.req
  PROVE  /\ r \in Requests /\ r.sock \in Socks /\ owner[frame.fd] = r.sock
         /\ Wrote(r.sock, r, 1, Parts) \/ (wire' = wire /\ Ended(r.sock))
<1>1. Types /\ FrameRef /\ TableInv
  BY DEF RefsInv, Refs, CountInv, TableInv
<1>2. Serving
  BY DEF RespondWrite, SendSimple, Serving
<1>3. frame.fd \in Fds /\ conns[frame.fd].inUse /\ r \in Requests
  BY <1>1, <1>2 DEF Types, Framed
<1>4. owner[frame.fd] = r.sock /\ r.sock \in Socks
  <2>1. owner[frame.fd] # None
    BY <1>1, <1>3 DEF TableInv, TableAt
  <2>2. For(r, frame.fd)
    BY <1>1, <1>2 DEF FrameRef
  <2> QED
    BY <1>3, <2>1, <2>2 DEF For, Requests
<1>5. PICK ok \in WriteOutcomes(frame.fd) : Written(frame.fd, r, ok)
  BY DEF RespondWrite, SendSimple
<1> QED
  BY <1>1, <1>3, <1>4, <1>5, WrittenWrote

(* So is the answer to a malformed request. *)
LEMMA MalformedWrote ==
  ASSUME RefsInv, DrainMalformed, NEW r, r = Head(conns[frame.fd].buf)
  PROVE  /\ r \in Requests /\ r.sock \in Socks /\ owner[frame.fd] = r.sock
         /\ Wrote(r.sock, r, 1, Parts) \/ (wire' = wire /\ Ended(r.sock))
<1>1. Types /\ BufRefs /\ TableInv
  BY DEF RefsInv, Refs, CountInv, TableInv
<1>2. /\ frame.fd \in Fds /\ conns[frame.fd].inUse /\ conns[frame.fd].buf # <<>>
      /\ \E ok \in WriteOutcomes(frame.fd) : Written(frame.fd, r, ok)
  BY <1>1, DrainMalformedStep DEF Touches
<1>3. conns[frame.fd].buf \in Seq(Requests)
  BY <1>1, <1>2 DEF Types, WorkerTypes, Conn
<1>4. 1 \in DOMAIN conns[frame.fd].buf /\ r = conns[frame.fd].buf[1]
  BY <1>2, <1>3, SeqParts
<1>5. For(r, frame.fd)
  BY <1>1, <1>2, <1>4 DEF BufRefs
<1>6. owner[frame.fd] # None
  BY <1>1, <1>2 DEF TableInv, TableAt
<1>7. owner[frame.fd] = r.sock /\ r.sock \in Socks /\ r \in Requests
  BY <1>5, <1>6 DEF For, Requests
<1>8. PICK ok \in WriteOutcomes(frame.fd) : Written(frame.fd, r, ok)
  BY <1>2
<1> QED
  BY <1>1, <1>2, <1>7, <1>8, WrittenWrote

(* What a SEND of fd, run for s, does *)
Runs(fd, s, n) ==
  LET c == conns[fd] IN
    /\ fd \in Fds /\ n \in 0 .. Parts /\ UNCHANGED conns
    /\ IF n = 0 THEN wire' = wire /\ Ended(s) ELSE Wrote(s, c.tx, c.txSent + 1, c.txSent + n)
    /\ n = 0 \/ n = Parts - c.txSent \/ traffic.backpressure
    /\ cq' = Append(cq, Cqe("send", fd, <<>>, n, FALSE))

LEMMA ExecutedRuns ==
  ASSUME Types, NEW s \in Socks \cup {None}, NEW fd \in Fds, NEW n \in 0 .. Parts, UNCHANGED conns,
         SendExecutes(s, fd, conns[fd].txSent + 1, n),
         s # None => conns[fd].tx \in Requests /\ conns[fd].tx.sock = s
  PROVE  Runs(fd, s, n)
<1> DEFINE t == conns[fd].txSent
<1>1. t \in Nat /\ n \in Nat /\ Parts \in Nat
  BY UnitCounts DEF Types, WorkerTypes, Conn
<1>2. /\ n \in 0 .. (Parts - (t + 1) + 1)
      /\ IF n = 0 THEN MayFail(s) /\ wire' = wire
         ELSE MaySucceed(s) /\ wire' = Delivered(s, Units(conns[fd].tx, t + 1, t + 1 + n - 1))
      /\ n = 0 \/ n = Parts - (t + 1) + 1 \/ traffic.backpressure
      /\ cq' = Append(cq, Cqe("send", fd, <<>>, n, FALSE))
  BY DEF SendExecutes
<1> HIDE DEF t
<1>3. t + 1 + n - 1 = t + n /\ n <= Parts - t /\ Parts - (t + 1) + 1 = Parts - t
  BY <1>1, <1>2
<1>4. CASE n = 0
  <2>1. Ended(s)
    BY <1>2, <1>4 DEF MayFail, MaySucceed, Ended
  <2> QED
    BY <1>2, <1>3, <1>4, <2>1 DEF Runs, t
<1>5. CASE n # 0
  <2>1. s \in Socks /\ s \notin shut /\ wire' = Delivered(s, Units(conns[fd].tx, t + 1, t + n))
    BY <1>2, <1>3, <1>5 DEF MaySucceed
  <2>2. t + 1 \in Nat /\ t + 1 >= 1 /\ t + n \in Nat /\ t + n <= Parts /\ (t + n) - (t + 1) + 1 \in Nat
    BY <1>1, <1>3, <1>5
  <2>3. conns[fd].tx \in Requests /\ conns[fd].tx.sock = s
    BY <2>1, WorkerAssumption
  <2>4. Wrote(s, conns[fd].tx, t + 1, t + n)
    BY <2>1, <2>2, <2>3 DEF Wrote
  <2> QED
    BY <1>2, <1>3, <1>5, <2>4 DEF Runs, t
<1> QED
  BY <1>4, <1>5

(* A SEND of a descriptor that is open carries a response of its owner. *)
LEMMA CarriedTx ==
  ASSUME RefsInv, NEW fd \in Fds, owner[fd] # None,
         \/ \E e \in pending : e.fd = fd
         \/ \E e \in ToSet(sq) \cup ToSet(cq) : e.op = "send" /\ e.fd = fd
  PROVE  /\ conns[fd].inUse /\ conns[fd].txFlight /\ Sends(fd) = 1
         /\ conns[fd].tx \in Requests /\ conns[fd].tx.sock = owner[fd]
<1>1. Types /\ Finite /\ CountAt(fd) /\ TxRefs
  BY DEF RefsInv, Refs, CountInv, TableInv
<1>2. Nothing(fd) /\ Sums(fd)
  BY <1>1, NothingHolds, SumsHold
<1>3. PendingAt(fd) # 0 \/ SqSends(fd) # 0 \/ CqSends(fd) # 0
  BY <1>2 DEF Nothing
<1>4. Sends(fd) # 0
  <2>1. /\ Sends(fd) = PendingAt(fd) + SqSends(fd) + CqSends(fd)
        /\ PendingAt(fd) \in Nat /\ SqSends(fd) \in Nat /\ CqSends(fd) \in Nat
    BY <1>2 DEF Sums
  <2> QED
    BY <1>3, <2>1
<1>5. conns[fd].inUse /\ conns[fd].txFlight /\ Sends(fd) = 1
  BY <1>1, <1>4 DEF CountAt
<1> QED
  BY <1>1, <1>5 DEF TxRefs

Queued(fd) == sq # <<>> /\ Head(sq).op = "send" /\ Head(sq).fd = fd /\ sq' = Tail(sq)

(* The SENDs that the kernel runs, or keeps *)
LEMMA SubmitForms ==
  ASSUME OnceInv, SubmitSend
  PROVE  \E fd \in Fds :
           /\ Queued(fd) /\ Head(sq).from = conns[fd].txSent + 1
           /\ UNCHANGED <<owner, shut, client, taken, conns, pc>>
           /\ \/ pending' = pending /\ \E n \in 0 .. Parts : Runs(fd, owner[fd], n)
              \/ /\ traffic.backpressure /\ owner[fd] # None /\ UNCHANGED <<wire, cq>>
                 /\ pending' = pending \cup {[sock |-> owner[fd], fd |-> fd, from |-> conns[fd].txSent + 1]}
<1>1. Types /\ RefsInv
  BY DEF OnceInv, RefsInv, CountInv, TableInv
<1>2. PICK x \in Sqes : x = Head(sq)
  BY <1>1, HeadSqe DEF SubmitSend
<1>3. PICK fd \in Fds, s \in Socks \cup {None} : fd = x.fd /\ s = owner[fd]
  BY <1>1, <1>2, HeadSqe DEF SubmitSend
<1>4. /\ sq # <<>> /\ sq' = Tail(sq) /\ x.op = "send"
      /\ UNCHANGED <<owner, shut, client, taken, conns, pc>>
      /\ \/ (\E n \in 0 .. Parts : SendExecutes(s, fd, x.from, n)) /\ UNCHANGED pending
         \/ /\ traffic.backpressure /\ s # None
            /\ pending' = pending \cup {[sock |-> s, fd |-> fd, from |-> x.from]} /\ UNCHANGED <<wire, cq>>
  <2>1. /\ sq # <<>> /\ sq' = Tail(sq) /\ Head(sq).op = "send"
        /\ UNCHANGED <<owner, shut, client, taken, conns, pc>>
    BY DEF SubmitSend, clientVars, tableVars
  <2>2. \/ (\E n \in 0 .. Parts : SendExecutes(owner[Head(sq).fd], Head(sq).fd, Head(sq).from, n)) /\ UNCHANGED pending
        \/ /\ traffic.backpressure /\ owner[Head(sq).fd] # None
           /\ pending' = pending \cup {[sock |-> owner[Head(sq).fd], fd |-> Head(sq).fd, from |-> Head(sq).from]}
           /\ UNCHANGED <<wire, cq>>
    BY DEF SubmitSend
  <2> QED
    BY <1>2, <1>3, <2>1, <2>2
<1>5. x \in ToSet(sq)
  BY <1>1, <1>2, <1>4, HeadIn DEF Types, KernelTypes
<1>6. x.from = conns[fd].txSent + 1
  <2>1. Left(fd)
    BY DEF OnceInv
  <2> QED
    BY <1>3, <1>4, <1>5, <2>1 DEF Left
<1>7. s # None => conns[fd].tx \in Requests /\ conns[fd].tx.sock = s
  BY <1>1, <1>3, <1>4, <1>5, CarriedTx
<1>8. ASSUME NEW n \in 0 .. Parts, SendExecutes(s, fd, x.from, n)
      PROVE  Runs(fd, s, n)
  BY <1>1, <1>4, <1>6, <1>7, <1>8, ExecutedRuns
<1>9. Queued(fd)
  BY <1>2, <1>3, <1>4 DEF Queued
<1> QED
  BY <1>2, <1>3, <1>4, <1>6, <1>8, <1>9

LEMMA PendingForms ==
  ASSUME OnceInv, PendingSend
  PROVE  \E x \in pending, n \in 0 .. Parts :
           /\ pending' = pending \ {x} /\ x.from = conns[x.fd].txSent + 1
           /\ conns[x.fd].tx \in Requests /\ conns[x.fd].tx.sock = x.sock
           /\ owner[x.fd] \in {None, x.sock}
           /\ Runs(x.fd, x.sock, n)
           /\ UNCHANGED <<owner, shut, client, taken, conns, pc, sq>>
<1>1. Types /\ RefsInv /\ PendingRefs
  BY DEF OnceInv, RefsInv, CountInv, TableInv, Refs
<1>2. PICK x \in pending, n \in 0 .. Parts :
        SendExecutes(x.sock, x.fd, x.from, n) /\ pending' = pending \ {x}
  BY DEF PendingSend
<1>3. x.fd \in Fds /\ x.sock \in Socks
  BY <1>1 DEF Types, KernelTypes
<1>4. UNCHANGED <<owner, shut, client, taken, conns, pc, sq>>
  BY DEF PendingSend, clientVars, tableVars, workerVars
<1>5. x.from = conns[x.fd].txSent + 1
  <2>1. Left(x.fd)
    BY <1>3 DEF OnceInv
  <2> QED
    BY <2>1 DEF Left
<1>6. conns[x.fd].tx \in Requests /\ conns[x.fd].tx.sock = x.sock /\ owner[x.fd] \in {None, x.sock}
  BY <1>1 DEF PendingRefs
<1>7. Runs(x.fd, x.sock, n)
  BY <1>1, <1>2, <1>3, <1>4, <1>5, <1>6, ExecutedRuns
<1> QED
  BY <1>2, <1>4, <1>5, <1>6, <1>7

(* Every write to the wire is one of these. *)
LEMMA WireMoves ==
  ASSUME OnceInv, [Next]_vars
  PROVE  wire' = wire \/ \E s, r, from, to : Wrote(s, r, from, to)
<1>1. RefsInv /\ Types
  BY DEF OnceInv, RefsInv, CountInv, TableInv
<1>2. CASE RespondWrite \/ SendSimple
  BY <1>1, <1>2, AnswerWrote
<1>3. CASE DrainMalformed
  BY <1>1, <1>3, MalformedWrote
<1>4. CASE SubmitSend
  BY <1>4, SubmitForms DEF Runs
<1>5. CASE PendingSend
  BY <1>5, PendingForms DEF Runs
<1> QED
  BY <1>1, <1>2, <1>3, <1>4, <1>5, WireKept

(* What reached a client stays. *)
LEMMA WiredKept ==
  ASSUME OnceInv, [Next]_vars, NEW s \in Socks, NEW n, NEW p, Wired(s, n, p)
  PROVE  Wired(s, n, p)'
<1>1. PICK i \in DOMAIN wire[s] : wire[s][i].n = n /\ wire[s][i].part = p
  BY DEF Wired
<1>2. CASE wire' = wire
  BY <1>1, <1>2 DEF Wired
<1>3. ASSUME NEW t, NEW r, NEW from, NEW to, Wrote(t, r, from, to)
      PROVE  i \in DOMAIN wire'[s] /\ wire'[s][i] = wire[s][i]
  <2>1. WireInv
    BY DEF OnceInv
  <2>2. CASE t # s
    BY <1>3, <2>1, <2>2, WroteStep
  <2>3. CASE t = s
    BY <1>3, <2>1, <2>3, WroteStep DEF Extends
  <2> QED
    BY <2>2, <2>3
<1>4. CASE \E t, r, from, to : Wrote(t, r, from, to)
  <2>1. i \in DOMAIN wire'[s] /\ wire'[s][i] = wire[s][i]
    BY <1>3, <1>4
  <2> QED
    BY <1>1, <2>1 DEF Wired
<1> QED
  BY <1>2, <1>4, WireMoves

(* What is written to a client that is there reaches it. *)
LEMMA WroteWired ==
  ASSUME WireInv, NEW s, NEW r, NEW from, NEW to, Wrote(s, r, from, to), client[s] = "open",
         NEW p \in Nat, from <= p, p <= to
  PROVE  Wired(s, r.n, p)'
<1>1. Extends(wire[s], wire'[s], r, from, to)
  BY WroteStep
<1>2. from \in Nat /\ to \in Nat
  BY DEF Wrote
<1>3. p - from + 1 \in 1 .. (to - from + 1) /\ from + (p - from + 1) - 1 = p
  BY <1>2
<1>4. PICK k \in 1 .. (to - from + 1) : k = p - from + 1
  BY <1>3
<1>5. PICK i : i = Len(wire[s]) + k
  OBVIOUS
<1>6. i \in DOMAIN wire'[s] /\ wire'[s][i] = [sock |-> r.sock, n |-> r.n, part |-> from + k - 1]
  BY <1>1, <1>5 DEF Extends
<1>7. wire'[s][i].n = r.n /\ wire'[s][i].part = p
  BY <1>3, <1>4, <1>6
<1> QED
  BY <1>6, <1>7 DEF Wired

LEMMA WirePartsStep ==
  ASSUME OnceInv, WireParts, [Next]_vars
  PROVE  WireParts'
<1>1. Types /\ WireInv
  BY DEF OnceInv, RefsInv, CountInv, TableInv
<1>2. Parts' = Parts /\ Parts \in Nat
  BY <1>1, TrafficKept, UnitCounts DEF Parts
<1>3. CASE wire' = wire
  BY <1>2, <1>3 DEF WireParts
<1>4. ASSUME NEW t, NEW r, NEW from, NEW to, Wrote(t, r, from, to), NEW s \in Socks, NEW i \in DOMAIN wire'[s]
      PROVE  wire'[s][i].n >= 1 /\ wire'[s][i].part \in 1 .. Parts
  <2>1. CASE i \in DOMAIN wire[s] /\ wire'[s][i] = wire[s][i]
    BY <2>1 DEF WireParts
  <2>2. CASE \E k \in 1 .. (to - from + 1) : wire'[s][i] = [sock |-> r.sock, n |-> r.n, part |-> from + k - 1]
    <3>1. PICK k \in 1 .. (to - from + 1) : wire'[s][i] = [sock |-> r.sock, n |-> r.n, part |-> from + k - 1]
      BY <2>2
    <3>2. r \in Requests /\ from \in Nat /\ from >= 1 /\ to \in Nat /\ to <= Parts
      BY <1>4 DEF Wrote
    <3>3. from + k - 1 \in 1 .. Parts
      BY <1>2, <3>2
    <3>4. r.n \in Nat /\ r.n >= 1
      BY <3>2 DEF Requests
    <3> QED
      BY <3>1, <3>3, <3>4
  <2>3. CASE t # s \/ client[t] # "open"
    BY <1>1, <1>4, <2>1, <2>3, WroteStep
  <2>4. CASE t = s /\ client[t] = "open"
    <3>1. Extends(wire[s], wire'[s], r, from, to)
      BY <1>1, <1>4, <2>4, WroteStep
    <3> QED
      BY <2>1, <2>2, <3>1 DEF Extends
  <2> QED
    BY <2>3, <2>4
<1> QED
  BY <1>2, <1>3, <1>4, WireMoves DEF WireParts

----------------------------------------------------------------------------
(* Every request that was received is fresh, or on the wire, or the rest   *)
(* of its answer is with a SEND.                                           *)

(* A SEND of fd is to put the unit p on the wire. *)
Rest(fd, p) ==
  \/ \E e \in pending : e.fd = fd /\ e.from <= p
  \/ \E e \in ToSet(sq) : e.op = "send" /\ e.fd = fd /\ e.from <= p
  \/ \E e \in ToSet(cq) : e.op = "send" /\ e.fd = fd /\ conns[fd].txSent + e.n < p

Carries(fd, r, p) ==
  /\ fd \in Fds /\ conns[fd].inUse /\ conns[fd].txFlight /\ conns[fd].tx = r /\ owner[fd] = r.sock
  /\ Rest(fd, p)

Owed ==
  \A s \in Socks : \A n \in Nat \ {0} : \A p \in 1 .. Parts :
    \/ Ended(s)
    \/ Fresh([sock |-> s, n |-> n])
    \/ Wired(s, n, p)
    \/ \E fd \in Fds : Carries(fd, [sock |-> s, n |-> n], p)

(* A response in flight stays in flight until its SEND completes. *)
LEMMA FlightKept ==
  ASSUME TableInv, [Next]_vars, NEW fd \in Fds, conns[fd].inUse, conns[fd].txFlight, conns'[fd].inUse,
         ~(SendCqe /\ fd = Head(cq).fd)
  PROVE  /\ conns'[fd].txFlight /\ conns'[fd].tx = conns[fd].tx /\ conns'[fd].txSent = conns[fd].txSent
         /\ ~(RespondAsync /\ fd = frame.fd)
<1>1. Types /\ TableAt(fd)
  BY DEF TableInv
<1>2. ~(RespondAsync /\ fd = frame.fd)
  BY DEF RespondAsync
<1>3. conns'[fd].tx = conns[fd].tx /\ conns'[fd].txSent = conns[fd].txSent
  BY <1>1, <1>2, TxKept, TxSentKept
<1>12. conns'[fd].txFlight
  <2>1. CASE RespondAsync
    <3>1. fd # frame.fd /\ \A g \in Fds : g # frame.fd => conns'[g] = conns[g]
      BY <1>1, <1>2, <2>1, RespondAsyncStep
    <3> QED
      BY <3>1
  <2>2. CASE DrainMalformed
    BY <1>1, <2>2, DrainMalformedStep DEF Touches, KeepsTx
  <2>3. CASE DrainPark
    BY <1>1, <2>3, DrainParkStep DEF Touches, KeepsTx
  <2>4. CASE Responded
    BY <1>1, <2>4, RespondedStep DEF Touches, KeepsTx
  <2>5. CASE AcceptCqe
    <3>1. cq # <<>> /\ cq' = Tail(cq) /\ Head(cq).op = "accept"
      BY <2>5 DEF AcceptCqe, CqeIs, Consume
    <3>2. Accepts(fd) = 0
      BY <1>1 DEF TableAt
    <3>3. /\ Accepts(fd)' = Accepts(fd) - (IF Head(cq).op = "accept" /\ Head(cq).fd = fd THEN 1 ELSE 0)
          /\ Accepts(fd)' \in Nat
      BY <1>1, <3>1, AcceptsTail
    <3>4. Head(cq).fd # fd
      BY <3>1, <3>2, <3>3
    <3>5. \A g \in Fds : g # Head(cq).fd => conns'[g] = conns[g]
      BY <1>1, <2>5, AcceptCqeStep DEF Touches
    <3> QED
      BY <3>4, <3>5
  <2>6. CASE SendCqe
    <3>1. fd # Head(cq).fd /\ \A g \in Fds : g # Head(cq).fd => conns'[g] = conns[g]
      BY <1>1, <2>6, SendCqeStep DEF Touches
    <3> QED
      BY <3>1
  <2>7. CASE RecvEndCqe
    BY <1>1, <2>7, RecvEndCqeStep DEF Touches, KeepsTx
  <2>8. CASE RecvDataCqe
    BY Zenon, <1>1, <2>8, RecvDataCqeStep DEF Touches, KeepsTx
  <2> QED
    BY <1>1, <2>1, <2>2, <2>3, <2>4, <2>5, <2>6, <2>7, <2>8, ConnsKept
<1> QED
  BY <1>2, <1>3, <1>12

(* The rest of a response stays with its SEND until the SEND runs. *)
LEMMA RestStays ==
  ASSUME Types, [Next]_vars, ~SubmitSend, ~PendingSend, NEW fd \in Fds, NEW p \in Nat, Rest(fd, p),
         conns'[fd].txSent = conns[fd].txSent, ~(SendCqe /\ fd = Head(cq).fd)
  PROVE  Rest(fd, p)'
<1>0. sq \in Seq(Sqes) /\ cq \in Seq(Cqes)
  BY DEF Types, KernelTypes
<1>1. pending' = pending
  BY QueuesMove DEF Sending, RespondAsync, SendCqe, Consume, kernelVars
<1>2. ASSUME NEW e \in ToSet(sq), e.op = "send" PROVE e \in ToSet(sq')
  <2>1. CASE sq' = sq
    BY <2>1
  <2>2. CASE \E x : sq' = Append(sq, x)
    BY <1>0, <2>2, ToSetAppend
  <2>3. CASE sq # <<>> /\ sq' = Tail(sq) /\ Head(sq).op = "recv"
    BY <1>0, <1>2, <2>3, ToSetTail
  <2>4. CASE RespondAsync \/ SendCqe
    BY <2>1, <2>2, <2>4, RespondAsyncStep, SendCqeStep
  <2>5. CASE ~Sending
    BY <2>1, <2>2, <2>3, <2>5, QueuesMove
  <2> QED
    BY <2>4, <2>5 DEF Sending
<1>3. ASSUME NEW e \in ToSet(cq), e.op = "send", e.fd = fd PROVE e \in ToSet(cq')
  <2>1. CASE cq' = cq
    BY <2>1
  <2>2. CASE \E x : cq' = Append(cq, x)
    BY <1>0, <2>2, ToSetAppend
  <2>3. CASE cq # <<>> /\ cq' = Tail(cq) /\ Handles
    <3>1. ~(Head(cq).op = "send" /\ Head(cq).fd = fd)
      BY Zenon, <2>3 DEF Handles, AcceptCqe, SendCqe, RecvEndCqe, RecvNoBufsCqe, RecvDataCqe, CqeIs
    <3> QED
      BY <1>0, <1>3, <2>3, <3>1, ToSetTail
  <2> QED
    BY <2>1, <2>2, <2>3, CqForms
<1>4. CASE \E e \in pending : e.fd = fd /\ e.from <= p
  BY <1>1, <1>4 DEF Rest
<1>5. CASE \E e \in ToSet(sq) : e.op = "send" /\ e.fd = fd /\ e.from <= p
  BY <1>2, <1>5 DEF Rest
<1>6. CASE \E e \in ToSet(cq) : e.op = "send" /\ e.fd = fd /\ conns[fd].txSent + e.n < p
  BY <1>3, <1>6 DEF Rest
<1> QED
  BY <1>4, <1>5, <1>6 DEF Rest

(* What a SEND of fd did not put on the wire of s is in its completion. *)
LEMMA RunsRest ==
  ASSUME Types, WireInv, NEW fd, NEW s, NEW n, Runs(fd, s, n), ~Ended(s), client[s] = "open",
         NEW p \in Nat, conns[fd].txSent + 1 <= p, NEW m, m = conns[fd].tx.n
  PROVE  Wired(s, m, p)' \/ Rest(fd, p)'
<1>1. n # 0 /\ Wrote(s, conns[fd].tx, conns[fd].txSent + 1, conns[fd].txSent + n)
  BY DEF Runs
<1>2. CASE p <= conns[fd].txSent + n
  <2>1. PICK r, from, to : r = conns[fd].tx /\ from = conns[fd].txSent + 1 /\ to = conns[fd].txSent + n
    OBVIOUS
  <2>2. Wired(s, r.n, p)'
    BY <1>1, <1>2, <2>1, WroteWired
  <2> QED
    BY <2>1, <2>2
<1>3. CASE conns[fd].txSent + n < p
  <2>1. cq \in Seq(Cqes)
    BY DEF Types, KernelTypes
  <2>2. PICK y : y = Cqe("send", fd, <<>>, n, FALSE)
    OBVIOUS
  <2>3. y \in ToSet(cq') /\ y.op = "send" /\ y.fd = fd /\ y.n = n /\ conns' = conns
    BY <2>1, <2>2, ToSetAppend DEF Runs, Cqe
  <2> QED
    BY <1>3, <2>3 DEF Rest
<1>4. conns[fd].txSent + n \in Nat /\ p \in Nat
  BY <1>1 DEF Wrote
<1> QED
  BY <1>2, <1>3, <1>4

LEMMA SubmitRest ==
  ASSUME OnceInv, SubmitSend, NEW fd \in Fds, NEW p \in Nat, Rest(fd, p), NEW s \in Socks, s = owner[fd],
         ~Ended(s), client[s] = "open", NEW m, m = conns[fd].tx.n
  PROVE  Wired(s, m, p)' \/ Rest(fd, p)'
<1>1. Types /\ WireInv
  BY DEF OnceInv, RefsInv, CountInv, TableInv
<1>2. PICK g \in Fds :
           /\ Queued(g) /\ Head(sq).from = conns[g].txSent + 1
           /\ UNCHANGED <<owner, shut, client, taken, conns, pc>>
           /\ \/ pending' = pending /\ \E n \in 0 .. Parts : Runs(g, owner[g], n)
              \/ /\ owner[g] # None /\ UNCHANGED <<wire, cq>>
                 /\ pending' = pending \cup {[sock |-> owner[g], fd |-> g, from |-> conns[g].txSent + 1]}
  BY SubmitForms
<1>3. sq \in Seq(Sqes) /\ cq \in Seq(Cqes)
  BY <1>1 DEF Types, KernelTypes
<1>4. \A e \in ToSet(sq) : e \in ToSet(sq') \/ e = Head(sq)
  BY <1>2, <1>3, ToSetTail DEF Queued
<1>5. \A e \in pending : e \in pending'
  BY <1>2
<1>6. \A e \in ToSet(cq) : e \in ToSet(cq')
  BY <1>2, <1>3, ToSetAppend DEF Runs
<1>7. CASE Head(sq).fd = fd /\ Head(sq).from <= p
  <2>1. g = fd /\ conns[fd].txSent + 1 <= p
    BY <1>2, <1>7 DEF Queued
  <2>2. CASE \E n \in 0 .. Parts : Runs(g, owner[g], n)
    BY <1>1, <2>1, <2>2, RunsRest
  <2>3. CASE pending' = pending \cup {[sock |-> owner[g], fd |-> g, from |-> conns[g].txSent + 1]}
    <3>1. PICK e : e = [sock |-> owner[g], fd |-> g, from |-> conns[g].txSent + 1]
      OBVIOUS
    <3>2. e \in pending' /\ e.fd = fd /\ e.from <= p
      BY <2>1, <2>3, <3>1
    <3> QED
      BY <3>2 DEF Rest
  <2> QED
    BY <1>2, <2>2, <2>3
<1>8. CASE ~(Head(sq).fd = fd /\ Head(sq).from <= p)
  <2>1. Rest(fd, p)'
    BY <1>2, <1>4, <1>5, <1>6, <1>8 DEF Rest
  <2> QED
    BY <2>1
<1> QED
  BY <1>7, <1>8

LEMMA PendingRest ==
  ASSUME OnceInv, PendingSend, NEW fd \in Fds, NEW p \in Nat, Rest(fd, p), NEW s \in Socks, s = owner[fd],
         ~Ended(s), client[s] = "open", NEW m, m = conns[fd].tx.n
  PROVE  Wired(s, m, p)' \/ Rest(fd, p)'
<1>1. Types /\ WireInv
  BY DEF OnceInv, RefsInv, CountInv, TableInv
<1>2. PICK x \in pending, n \in 0 .. Parts :
           /\ pending' = pending \ {x} /\ x.from = conns[x.fd].txSent + 1
           /\ owner[x.fd] \in {None, x.sock}
           /\ Runs(x.fd, x.sock, n)
           /\ UNCHANGED <<conns, sq>>
  BY PendingForms
<1>3. cq \in Seq(Cqes) /\ s # None
  BY <1>1, WorkerAssumption DEF Types, KernelTypes
<1>4. \A e \in ToSet(cq) : e \in ToSet(cq')
  <2>1. PICK y : cq' = Append(cq, y)
    BY <1>2 DEF Runs
  <2> QED
    BY <1>3, <2>1, ToSetAppend
<1>5. CASE x.fd = fd /\ x.from <= p
  <2>1. x.sock = s /\ conns[fd].txSent + 1 <= p /\ Runs(fd, s, n)
    BY <1>2, <1>3, <1>5
  <2> QED
    BY <1>1, <2>1, RunsRest
<1>6. CASE ~(x.fd = fd /\ x.from <= p)
  <2>1. Rest(fd, p)'
    BY <1>2, <1>4, <1>6 DEF Rest
  <2> QED
    BY <2>1
<1> QED
  BY <1>5, <1>6

(* The completion of a SEND that left something queues the rest. *)
LEMMA CompletedRest ==
  ASSUME OwnInv, OneSend, TxWhole, SendCqe, NEW fd \in Fds, fd = Head(cq).fd, conns[fd].inUse, conns[fd].txFlight,
         NEW p \in 1 .. Parts, Rest(fd, p), ~Ended(owner[fd])
  PROVE  conns'[fd].txFlight /\ Rest(fd, p)'
<1>1. Types /\ Finite
  BY DEF OwnInv, RefsInv, CountInv, TableInv
<1>2. PICK x \in Cqes : x = Head(cq)
  BY <1>1, HeadCqe DEF SendCqe, CqeIs
<1>3. cq # <<>> /\ cq' = Tail(cq) /\ x.op = "send" /\ x.fd = fd /\ pending' = pending
  BY <1>2 DEF SendCqe, CqeIs, Consume
<1>4. cq \in Seq(Cqes) /\ sq \in Seq(Sqes) /\ ToSet(cq) = ToSet(Tail(cq)) \cup {x}
  BY <1>1, <1>2, <1>3, ToSetTail DEF Types, KernelTypes
<1>5. CqSends(fd)' = 0 /\ PendingAt(fd) = 0 /\ SqSends(fd) = 0
  <2>1. Sums(fd)
    BY <1>1, SumsHold
  <2>2. CqSends(fd)' = CqSends(fd) - (IF x.op = "send" /\ x.fd = fd THEN 1 ELSE 0) /\ CqSends(fd)' \in Nat
    BY <1>1, <1>2, <1>3, CqTaken
  <2>3. CqSends(fd)' = CqSends(fd) - 1 /\ CqSends(fd)' \in Nat
    BY <1>3, <2>2
  <2>4. Sends(fd) <= 1
    BY DEF OneSend
  <2>5. /\ Sends(fd) = PendingAt(fd) + SqSends(fd) + CqSends(fd)
        /\ PendingAt(fd) \in Nat /\ SqSends(fd) \in Nat /\ CqSends(fd) \in Nat
    BY <2>1 DEF Sums
  <2> QED
    BY <2>3, <2>4, <2>5
<1>6. \A e \in ToSet(cq') : e.op = "send" => e.fd # fd
  <2>1. cq' \in Seq(Cqes)
    BY <1>3, <1>4
  <2>2. Count(cq', {e \in Cqes : e.op = "send" /\ e.fd = fd}) = 0
    BY <1>5 DEF CqSends, Count
  <2>3. \A i \in DOMAIN cq' : cq'[i] \notin {e \in Cqes : e.op = "send" /\ e.fd = fd}
    BY <2>1, <2>2, CountFinite
  <2> QED
    BY <2>1, <2>3 DEF ToSet
<1>7. /\ \A e \in pending : e.fd # fd
      /\ \A e \in ToSet(sq) : e.op = "send" => e.fd # fd
  BY <1>1, <1>5, NothingHolds DEF Nothing
<1>8. conns[fd].txSent + x.n < p
  <2>1. PICK e \in ToSet(cq) : e.op = "send" /\ e.fd = fd /\ conns[fd].txSent + e.n < p
    BY <1>7 DEF Rest
  <2>2. e = x
    BY <1>3, <1>4, <1>6, <2>1
  <2> QED
    BY <2>1, <2>2
<1>9. x.n # 0
  <2>1. x \in ToSet(cq)
    BY <1>4
  <2> QED
    BY <1>3, <2>1 DEF OwnInv, CqEnded
<1>10. conns[fd].txTotal = Parts /\ conns[fd].txSent \in Nat /\ x.n \in Nat /\ Parts \in Nat
  <2>1. conns[fd].txSent \in Nat /\ x.n \in Nat
    BY <1>1 DEF Types, WorkerTypes, Conn, Cqes
  <2> QED
    BY <1>1, <2>1, UnitCounts DEF TxWhole
<1>11. x.n > 0 /\ conns[fd].txTotal > 0 /\ x.n < conns[fd].txTotal - conns[fd].txSent
  BY <1>8, <1>9, <1>10
<1>12. /\ conns'[fd].txFlight = conns[fd].txFlight
       /\ sq' = Append(sq, [op |-> "send", fd |-> fd, from |-> conns[fd].txSent + x.n + 1])
  BY <1>1, <1>2, <1>11, SendCqeStep
<1>13. PICK y : y = [op |-> "send", fd |-> fd, from |-> conns[fd].txSent + x.n + 1]
  OBVIOUS
<1>14. y \in ToSet(sq') /\ y.op = "send" /\ y.fd = fd /\ y.from <= p
  BY <1>4, <1>8, <1>10, <1>12, <1>13, ToSetAppend
<1> QED
  BY <1>12, <1>14 DEF Rest

(* The rest of a response stays on its way. *)
LEMMA CarriesKept ==
  ASSUME OnceInv, OwnInv, TxWhole, [Next]_vars, QuietReuse, NEW fd \in Fds, NEW r \in Requests,
         NEW p \in 1 .. Parts, Carries(fd, r, p), ~Ended(r.sock)'
  PROVE  Wired(r.sock, r.n, p)' \/ Carries(fd, r, p)'
<1>1. /\ Types /\ TableInv /\ CqEnded /\ OneSend /\ WireInv /\ Owners
      /\ None \notin Socks
  BY WorkerAssumption DEF OwnInv, OnceInv, RefsInv, CountInv, TableInv
<1>2. PICK s \in Socks, m \in Nat : s = r.sock /\ m = r.n
  BY DEF Requests
<1>3. conns[fd].inUse /\ conns[fd].txFlight /\ conns[fd].tx = r /\ owner[fd] = s /\ Rest(fd, p)
  BY <1>2 DEF Carries
<1>4. ~Ended(s)' /\ ~Ended(s) /\ client[s] = "open"
  <2>1. ~Ended(s)'
    BY <1>2
  <2>2. Ended(s) => Ended(s)'
    BY <1>1, EndedKept
  <2>3. client[s] \in {"open", "gone"}
    BY <1>1, <1>3 DEF Owners
  <2> QED
    BY <2>1, <2>2, <2>3 DEF Ended
<1>5. ~Quiet(fd)
  BY <1>3 DEF Quiet, Rest
<1>6. owner'[fd] = s
  <2>1. owner'[fd] # None
    BY <1>1, <1>3, <1>4, LetGoEnds
  <2> QED
    BY <1>1, <1>3, <1>5, <2>1, OwnersQuiet
<1>7. conns'[fd].inUse
  BY <1>1, <1>3, <1>6, StaysInUse
<1>8. p \in Nat /\ Parts \in Nat
  BY <1>1, UnitCounts
<1>9. CASE SendCqe /\ fd = Head(cq).fd
  <2>1. conns'[fd].txFlight /\ Rest(fd, p)'
    BY <1>1, <1>3, <1>4, <1>9, CompletedRest
  <2>2. conns'[fd].tx = r
    BY <1>1, <1>3, <1>9, SendCqeStep
  <2> QED
    BY <1>2, <1>6, <1>7, <2>1, <2>2 DEF Carries
<1>10. CASE ~(SendCqe /\ fd = Head(cq).fd)
  <2>1. conns'[fd].txFlight /\ conns'[fd].tx = r /\ conns'[fd].txSent = conns[fd].txSent
    BY <1>1, <1>3, <1>7, <1>10, FlightKept
  <2>2. m = conns[fd].tx.n
    BY <1>2, <1>3
  <2>3. Wired(s, m, p)' \/ Rest(fd, p)'
    <3>1. CASE SubmitSend
      BY <1>3, <1>4, <1>8, <2>2, <3>1, SubmitRest
    <3>2. CASE PendingSend
      BY <1>3, <1>4, <1>8, <2>2, <3>2, PendingRest
    <3>3. CASE ~SubmitSend /\ ~PendingSend
      BY <1>1, <1>3, <1>8, <1>10, <2>1, <3>3, RestStays
    <3> QED
      BY <3>1, <3>2, <3>3
  <2> QED
    BY <1>2, <1>6, <1>7, <2>1, <2>3 DEF Carries
<1> QED
  BY <1>9, <1>10

(* A request that is answered is written at once, or queued whole. *)
LEMMA AnsweredMoves ==
  ASSUME OnceInv, OwnInv, Types', Answers, NEW r, r = frame.req, NEW p \in 1 .. Parts, ~Ended(r.sock)
  PROVE  Wired(r.sock, r.n, p)' \/ \E fd \in Fds : Carries(fd, r, p)'
<1>1. Types /\ WireInv /\ Owners /\ RefsInv /\ FrameRef /\ TableInv
  BY DEF OwnInv, OnceInv, RefsInv, CountInv, TableInv, Refs
<1>2. p \in Nat /\ Parts \in Nat /\ 1 <= p /\ p <= Parts
  BY <1>1, UnitCounts
<1>3. CASE RespondWrite \/ SendSimple
  <2>1. PICK s \in Socks : s = r.sock /\ s = owner[frame.fd] /\ frame.fd \in Fds
    <3>1. Serving
      BY <1>3 DEF RespondWrite, SendSimple, Serving
    <3>2. frame.fd \in Fds
      BY <1>1, <3>1 DEF Types, Framed
    <3> QED
      BY <1>1, <1>3, <3>2, AnswerWrote
  <2>2. ~Ended(s)
    BY <2>1
  <2>3. client[s] = "open"
    <3>1. client[s] \in {"open", "gone"}
      BY <1>1, <2>1, WorkerAssumption DEF Owners
    <3> QED
      BY <2>2, <3>1 DEF Ended
  <2>4. Wrote(s, r, 1, Parts)
    BY <1>1, <1>3, <2>1, <2>2, AnswerWrote
  <2>5. Wired(s, r.n, p)'
    BY <1>1, <1>2, <2>3, <2>4, WroteWired
  <2> QED
    BY <2>1, <2>5
<1>4. CASE RespondAsync
  <2>1. PICK fd \in Fds : fd = frame.fd
    BY <1>1, <1>4, RespondAsyncStep
  <2>2. /\ conns[fd].inUse /\ r \in Requests
        /\ conns'[fd].inUse /\ conns'[fd].tx = r /\ conns'[fd].txFlight
        /\ sq' = Append(sq, [op |-> "send", fd |-> fd, from |-> 1])
    BY <1>1, <1>4, <2>1, RespondAsyncStep
  <2>3. owner[fd] = r.sock
    <3>1. owner[fd] # None
      BY <1>1, <2>2 DEF TableInv, TableAt
    <3>2. For(r, fd)
      BY <1>1, <1>4, <2>1 DEF FrameRef, Serving, RespondAsync
    <3> QED
      BY <3>1, <3>2 DEF For
  <2>4. owner' = owner
    BY <1>4 DEF RespondAsync, tableVars
  <2>5. PICK y : y = [op |-> "send", fd |-> fd, from |-> 1]
    OBVIOUS
  <2>6. sq \in Seq(Sqes)
    BY <1>1 DEF Types, KernelTypes
  <2>7. y \in ToSet(sq') /\ y.op = "send" /\ y.fd = fd /\ y.from <= p
    BY <1>2, <2>2, <2>5, <2>6, ToSetAppend
  <2>8. Carries(fd, r, p)'
    BY <2>2, <2>3, <2>4, <2>7 DEF Carries, Rest
  <2> QED
    BY <2>8
<1> QED
  BY <1>3, <1>4 DEF Answers

LEMMA OwedStep ==
  ASSUME OnceInv, OwnInv, TxWhole, Owed, RefsInv', [Next]_vars, QuietReuse
  PROVE  Owed'
<1>1. Types /\ Types'
  BY DEF OnceInv, RefsInv, CountInv, TableInv
<1>2. Parts' = Parts
  BY <1>1, TrafficKept DEF Parts
<1> SUFFICES ASSUME NEW s \in Socks, NEW n \in Nat \ {0}, NEW p \in 1 .. Parts, ~Ended(s)',
                    NEW r \in Requests, r = [sock |-> s, n |-> n]
             PROVE  \/ Fresh(r)' \/ Wired(s, n, p)'
                    \/ \E fd \in Fds : Carries(fd, r, p)'
  <2>1. \A s \in Socks, n \in Nat \ {0} : [sock |-> s, n |-> n] \in Requests
    BY DEF Requests
  <2>2. ASSUME NEW s \in Socks, NEW n \in Nat \ {0}, NEW p \in 1 .. Parts
        PROVE  (\/ Ended(s) \/ Fresh([sock |-> s, n |-> n]) \/ Wired(s, n, p)
               \/ \E fd \in Fds : Carries(fd, [sock |-> s, n |-> n], p))'
    <3>1. PICK r \in Requests : r = [sock |-> s, n |-> n]
      BY <2>1
    <3> QED
      BY <3>1
  <2> QED
    BY <1>2, <2>2 DEF Owed
<1>3. r.sock = s /\ r.n = n
  OBVIOUS
<1>4. ~Ended(s)
  <2>1. Ended(s) => Ended(s)'
    BY <1>1, EndedKept
  <2> QED
    BY <2>1
<1>5. ~Ended(r.sock)'
  BY <1>3
<1>6. CASE Fresh(r)
  <2>1. CASE Answers /\ r = frame.req
    BY <1>1, <1>3, <1>4, <2>1, AnsweredMoves
  <2>2. CASE ~(Answers /\ r = frame.req)
    BY <1>1, <1>5, <1>6, <2>2, FreshKept
  <2> QED
    BY <2>1, <2>2
<1>7. CASE Wired(s, n, p)
  BY <1>7, WiredKept
<1>8. CASE \E fd \in Fds : Carries(fd, r, p)
  <2>1. PICK fd \in Fds : Carries(fd, r, p)
    BY <1>8
  <2>2. Wired(r.sock, r.n, p)' \/ Carries(fd, r, p)'
    BY <1>5, <2>1, CarriesKept
  <2>3. Wired(s, n, p)' \/ Carries(fd, r, p)'
    BY <1>3, <2>2
  <2> QED
    BY <2>3
<1> QED
  BY <1>4, <1>6, <1>7, <1>8 DEF Owed

----------------------------------------------------------------------------
(* The length of a wire that has every unit of the first K, each once *)

Place(u, P) == (u.n - 1) * P + u.part

Fills(q, P, K) ==
  /\ \A i \in DOMAIN q : q[i].n >= 1 /\ q[i].part \in 1 .. P /\ Place(q[i], P) <= K
  /\ \A k \in 1 .. K : \E i \in DOMAIN q : Place(q[i], P) = k

LEMMA PlacedAt ==
  ASSUME NEW P \in 1 .. 2, NEW k \in Nat, k >= 1
  PROVE  \E n \in Nat, p \in 1 .. P : n >= 1 /\ (n - 1) * P + p = k
<1>1. CASE P = 1
  <2>1. 1 \in 1 .. P /\ (k - 1) * P + 1 = k
    BY <1>1
  <2> WITNESS k \in Nat, 1 \in 1 .. P
  <2> QED
    BY <2>1
<1>2. CASE P = 2
  <2>1. PICK j \in Nat : j = k - 1
    OBVIOUS
  <2>2. PICK d \in Nat, m \in 0 .. 1 : j = 2 * d + m
    <3>1. j \div 2 \in Nat /\ j % 2 \in 0 .. 1 /\ j = 2 * (j \div 2) + (j % 2)
      OBVIOUS
    <3> QED
      BY <3>1
  <2>3. PICK n \in Nat, p \in 1 .. P : n = d + 1 /\ p = m + 1
    BY <1>2
  <2>4. n >= 1 /\ (n - 1) * P + p = k
    BY <1>2, <2>1, <2>2, <2>3
  <2> QED
    BY <2>4
<1> QED
  BY <1>1, <1>2

LEMMA Counted ==
  ASSUME NEW q \in Seq(Parcels), IsInjective(q), NEW s, \A i \in DOMAIN q : q[i].sock = s,
         NEW P \in 1 .. 2, NEW K \in Nat, Fills(q, P, K)
  PROVE  Len(q) = K
<1> DEFINE f == [i \in 1 .. Len(q) |-> Place(q[i], P)]
<1>1. Len(q) \in Nat /\ DOMAIN q = 1 .. Len(q) /\ \A i \in 1 .. Len(q) : q[i] \in Parcels
  OBVIOUS
<1>2. ASSUME NEW i \in 1 .. Len(q)
      PROVE  q[i].n \in Nat /\ q[i].n >= 1 /\ q[i].part \in 1 .. P /\ f[i] = Place(q[i], P) /\ Place(q[i], P) <= K
             /\ q[i] = [sock |-> s, n |-> q[i].n, part |-> q[i].part]
  BY <1>1 DEF Fills, Parcels
<1>3. f \in [1 .. Len(q) -> 1 .. K]
  <2>1. ASSUME NEW i \in 1 .. Len(q) PROVE Place(q[i], P) \in 1 .. K
    <3>1. PICK n \in Nat, p \in 1 .. P : n = q[i].n /\ p = q[i].part /\ n >= 1
      BY <1>2
    <3>2. (n - 1) * P + p \in Nat /\ (n - 1) * P + p >= 1
      <4>1. CASE P = 1
        BY <3>1, <4>1
      <4>2. CASE P = 2
        BY <3>1, <4>2
      <4> QED
        BY <4>1, <4>2
    <3>3. Place(q[i], P) = (n - 1) * P + p
      BY <3>1 DEF Place
    <3>4. PICK v \in Nat : v = Place(q[i], P) /\ v >= 1
      BY <3>2, <3>3
    <3>5. v <= K
      BY <1>2, <3>4
    <3> QED
      BY <3>4, <3>5
  <2> QED
    BY <2>1
<1>4. ASSUME NEW a \in 1 .. Len(q), NEW b \in 1 .. Len(q), f[a] = f[b] PROVE a = b
  <2>1. PICK n \in Nat, m \in Nat : n = q[a].n /\ m = q[b].n /\ n >= 1 /\ m >= 1
    BY <1>2
  <2>2. PICK v \in 1 .. P, w \in 1 .. P : v = q[a].part /\ w = q[b].part
    BY <1>2
  <2>3. (n - 1) * P + v = (m - 1) * P + w
    BY <1>2, <1>4, <2>1, <2>2 DEF Place
  <2>6. n = m /\ v = w
    <3>1. CASE P = 1
      BY <2>3, <3>1
    <3>2. CASE P = 2
      BY <2>3, <3>2
    <3> QED
      BY <3>1, <3>2
  <2>7. q[a] = q[b]
    BY <1>2, <2>1, <2>2, <2>6
  <2> QED
    BY <1>1, <2>7 DEF IsInjective
<1>5. ASSUME NEW k \in 1 .. K PROVE \E a \in 1 .. Len(q) : f[a] = k
  BY <1>1, <1>2 DEF Fills
<1> HIDE DEF f
<1>6. f \in Bijection(1 .. Len(q), 1 .. K)
  <2>1. f \in Injection(1 .. Len(q), 1 .. K)
    BY <1>3, <1>4 DEF Injection, IsInjective
  <2>2. f \in Surjection(1 .. Len(q), 1 .. K)
    BY <1>3, <1>5 DEF Surjection
  <2> QED
    BY <2>1, <2>2 DEF Bijection
<1>7. Cardinality(1 .. K) = Len(q)
  BY <1>1, <1>6, FS_CountingElements DEF ExistsBijection
<1>8. Cardinality(1 .. K) = K
  BY FS_Interval
<1> QED
  BY <1>7, <1>8

----------------------------------------------------------------------------
(* The worker that waits with nothing on its way owes nothing. *)

AnswerInv == OnceInv /\ OwnInv /\ HeldInv /\ Flushed /\ TxWhole /\ WireParts /\ Owed

(* With empty queues no request is fresh and no SEND has a rest. *)
LEMMA IdleKnows ==
  ASSUME AnswerInv, pc = "wait", cq = <<>>, pending = {}, parked = None
  PROVE  /\ \A r : Fresh(r) => r \in Requests /\ r.n > taken[r.sock]
         /\ \A fd, r, p : ~Carries(fd, r, p)
<1>1. Types /\ Finite /\ ReadyWaits /\ sq = <<>>
  BY DEF AnswerInv, OnceInv, RefsInv, CountInv, TableInv, HeldInv, Flushed
<1>2. ToSet(sq) = {} /\ ToSet(cq) = {}
  BY <1>1 DEF ToSet
<1>3. ready = <<>>
  BY <1>1 DEF ReadyWaits, Draining, Serving
<1>4. ASSUME NEW fd \in Fds, conns[fd].inUse PROVE conns[fd].buf = <<>>
  <2>1. HeldAt(fd) /\ CountAt(fd) /\ TableAt(fd)
    BY DEF AnswerInv, OnceInv, RefsInv, CountInv, TableInv, HeldInv
  <2>2. Sends(fd) = 0
    <3>1. /\ {e \in pending : e.fd = fd} = {}
          /\ {i \in DOMAIN sq : sq[i].op = "send" /\ sq[i].fd = fd} = {}
          /\ {i \in DOMAIN cq : cq[i].op = "send" /\ cq[i].fd = fd} = {}
      BY <1>1
    <3>2. /\ Cardinality({e \in pending : e.fd = fd}) = 0
          /\ Cardinality({i \in DOMAIN sq : sq[i].op = "send" /\ sq[i].fd = fd}) = 0
          /\ Cardinality({i \in DOMAIN cq : cq[i].op = "send" /\ cq[i].fd = fd}) = 0
      BY <3>1, FS_EmptySet
    <3> QED
      BY <3>2 DEF Sends
  <2>3. ~conns[fd].txFlight
    <3>1. owner[fd] # None
      BY <1>4, <2>1 DEF TableAt
    <3>2. Sends(fd) = IF conns[fd].inUse /\ conns[fd].txFlight THEN 1 ELSE 0
      BY <2>1, <3>1 DEF CountAt
    <3> QED
      BY <1>4, <2>2, <3>2
  <2>4. ~AtBuffer(fd) /\ fd \notin ToSet(ready)
    BY <1>3 DEF AtBuffer, Serving, ToSet
  <2> QED
    BY <1>4, <2>1, <2>3, <2>4 DEF HeldAt
<1>5. ASSUME NEW r, Fresh(r) PROVE r \in Requests /\ r.n > taken[r.sock]
  <2>1. PICK p, i, j : At(r, p, i, j)
    BY <1>5 DEF Fresh
  <2>2. ~(i \in Fds /\ BufSlot(i, j))
    BY <1>4 DEF BufSlot
  <2>3. DOMAIN cq = {} /\ ~Parked(r) /\ ~Released(r)
    BY DEF Parked, Released, Serves
  <2> QED
    BY <2>1, <2>2, <2>3 DEF At, Untaken
<1>6. \A fd, r, p : ~Carries(fd, r, p)
  BY <1>2 DEF Carries, Rest
<1> QED
  BY <1>5, <1>6

LEMMA AnswerSays == AnswerInv => IdleOwesNothing
<1> SUFFICES ASSUME AnswerInv, pc = "wait", cq = <<>>, pending = {}, parked = None,
                    NEW s \in Socks, client[s] = "open", s \notin shut
             PROVE  Len(wire[s]) = Parts * taken[s]
  BY DEF IdleOwesNothing
<1>1. Types /\ WireInv /\ NoDuplicates /\ WireOld /\ WireParts /\ Owed
  BY DEF AnswerInv, OnceInv, RefsInv, CountInv, TableInv
<1>2. /\ wire[s] \in Seq(Parcels) /\ IsInjective(wire[s]) /\ \A i \in DOMAIN wire[s] : wire[s][i].sock = s
      /\ s # None
  BY <1>1, WorkerAssumption DEF WireInv, Isolation, NoDuplicates
<1>3. PICK P \in 1 .. 2, t \in Nat : P = Parts /\ t = taken[s]
  <2>1. taken[s] \in Nat
    BY <1>1 DEF Types, ClientTypes
  <2> QED
    BY <1>1, <2>1, UnitCounts
<1>4. PICK K \in Nat : K = P * t
  BY <1>3
<1>5. ASSUME NEW i \in DOMAIN wire[s]
      PROVE  wire[s][i].n >= 1 /\ wire[s][i].part \in 1 .. P /\ Place(wire[s][i], P) <= K
  <2>0. wire[s][i] \in Parcels
    BY <1>2
  <2>1. wire[s][i].n \in Nat /\ wire[s][i].sock = s
    BY <1>2, <2>0 DEF Parcels
  <2>2. wire[s][i].n >= 1 /\ wire[s][i].part \in 1 .. P
    BY <1>1, <1>3 DEF WireParts
  <2>3. PICK n \in Nat, p \in 1 .. P : n = wire[s][i].n /\ p = wire[s][i].part /\ n >= 1
    BY <2>1, <2>2
  <2>4. n <= t
    <3>0. n \in Nat \ {0}
      BY <2>3
    <3>1. PICK r \in Requests : r = [sock |-> s, n |-> n]
      BY <3>0 DEF Requests
    <3>2. ~Fresh(r)
      BY <1>1, <2>1, <2>3, <3>1 DEF WireOld, ReqOf
    <3>3. ~Untaken(r)
      BY <3>2 DEF Fresh, At
    <3> QED
      BY <1>3, <3>1, <3>3 DEF Untaken
  <2>5. (n - 1) * P + p <= K
    <3>1. CASE P = 1
      BY <1>4, <2>3, <2>4, <3>1
    <3>2. CASE P = 2
      BY <1>4, <2>3, <2>4, <3>2
    <3> QED
      BY <3>1, <3>2
  <2> QED
    BY <2>2, <2>3, <2>5 DEF Place
<1>6. ASSUME NEW k \in 1 .. K PROVE \E i \in DOMAIN wire[s] : Place(wire[s][i], P) = k
  <2>1. PICK n \in Nat, p \in 1 .. P : n >= 1 /\ (n - 1) * P + p = k
    <3>1. k \in Nat /\ k >= 1
      BY <1>4
    <3> QED
      BY <3>1, PlacedAt
  <2>2. n <= t
    <3>1. k <= K /\ K = P * t
      BY <1>4
    <3>2. CASE P = 1
      BY <2>1, <3>1, <3>2
    <3>3. CASE P = 2
      BY <2>1, <3>1, <3>3
    <3> QED
      BY <3>2, <3>3
  <2>3. PICK r : r = [sock |-> s, n |-> n]
    OBVIOUS
  <2>4. ~Fresh(r)
    BY <1>3, <2>2, <2>3, IdleKnows
  <2>5. Wired(s, n, p)
    <3>1. n \in Nat \ {0} /\ p \in 1 .. Parts /\ ~Ended(s)
      BY <1>2, <1>3, <2>1 DEF Ended
    <3> QED
      BY <1>1, <2>3, <2>4, <3>1, IdleKnows DEF Owed
  <2> QED
    BY <2>1, <2>5 DEF Wired, Place
<1>7. Fills(wire[s], P, K)
  BY <1>5, <1>6 DEF Fills
<1>8. Len(wire[s]) = K
  BY <1>2, <1>7, Counted
<1> QED
  BY <1>3, <1>4, <1>8

LEMMA AnswerStep == AnswerInv /\ [Next]_vars /\ QuietReuse => AnswerInv'
<1> SUFFICES ASSUME AnswerInv, [Next]_vars, QuietReuse PROVE AnswerInv'
  OBVIOUS
<1>1. OnceInv' /\ OwnInv' /\ HeldInv'
  BY OnceInvStep, OwnInvStep, HeldStep DEF AnswerInv
<1>2. Types /\ RefsInv'
  BY <1>1 DEF AnswerInv, HeldInv, OnceInv
<1>3. Flushed' /\ TxWhole' /\ WireParts' /\ Owed'
  BY <1>2, FlushedStep, TxWholeStep, WirePartsStep, OwedStep DEF AnswerInv
<1> QED
  BY <1>1, <1>3 DEF AnswerInv

LEMMA AnswerInit == Init => AnswerInv
<1> SUFFICES ASSUME Init PROVE AnswerInv
  OBVIOUS
<1>1. OnceInv /\ HeldInv /\ RefsInv /\ Types
  BY OnceInit, HeldInit DEF OnceInv, HeldInv
<1>2. /\ wire = [s \in Socks |-> <<>>] /\ pending = {} /\ sq = <<>> /\ cq = <<>> /\ parked = None
      /\ pc = "top" /\ armed = {} /\ shut = {} /\ owner = [fd \in Fds |-> None]
      /\ taken = [s \in Socks |-> 0] /\ \A fd \in Fds : ~conns[fd].inUse
  BY DEF Init, NoConn
<1>3. ToSet(cq) = {}
  BY <1>2 DEF ToSet
<1>4. OwnInv
  <2>1. Owners
    BY <1>2, WorkerAssumption DEF Owners
  <2> QED
    BY <1>1, <1>2, <1>3, <2>1 DEF OwnInv, CqOps, CqEnded, ArmedOwns, CqOwns, CqInUse, ParkedOwns
<1>5. Flushed /\ TxWhole /\ WireParts
  BY <1>2 DEF Flushed, TxWhole, WireParts
<1>6. Owed
  <2> SUFFICES ASSUME NEW s \in Socks, NEW n \in Nat \ {0} PROVE Fresh([sock |-> s, n |-> n])
    BY DEF Owed
  <2>1. PICK r \in Requests : r = [sock |-> s, n |-> n]
    BY DEF Requests
  <2>2. Untaken(r)
    BY <1>2, <2>1 DEF Untaken
  <2>3. At(r, "client", 0, 0)
    BY <2>2 DEF At
  <2> QED
    BY <2>1, <2>3 DEF Fresh
<1> QED
  BY <1>1, <1>4, <1>5, <1>6 DEF AnswerInv

(* A worker that waits with nothing on its way, no SEND in the kernel and  *)
(* no parked request has given each client that is still there the whole   *)
(* answer to every request it received from it: a response that was cut    *)
(* short was sent to its end, and no request was left in a buffer.         *)
THEOREM NothingOwedWhenIdle == ASSUME QuietReuse PROVE Spec => []IdleOwesNothing
<1>1. Init => AnswerInv
  BY AnswerInit
<1>2. AnswerInv /\ [Next]_vars => AnswerInv'
  BY AnswerStep
<1>3. AnswerInv => IdleOwesNothing
  BY AnswerSays
<1> QED
  BY <1>1, <1>2, <1>3, PTL DEF Spec

----------------------------------------------------------------------------
(* Requests reach the worker and its buffers in the order of the client. *)

CqOrder ==
  \A i, k \in DOMAIN cq : \A j \in DOMAIN cq[i].reqs, l \in DOMAIN cq[k].reqs :
    cq[i].reqs[j].sock = cq[k].reqs[l].sock /\ (i < k \/ (i = k /\ j < l)) =>
      cq[i].reqs[j].n < cq[k].reqs[l].n
BufOrder ==
  \A fd \in Fds : conns[fd].inUse =>
    \A j, l \in DOMAIN conns[fd].buf : j < l => conns[fd].buf[j].n < conns[fd].buf[l].n
BufCqOrder ==
  \A fd \in Fds : conns[fd].inUse =>
    \A j \in DOMAIN conns[fd].buf : \A i \in DOMAIN cq : \A k \in DOMAIN cq[i].reqs :
      conns[fd].buf[j].sock = cq[i].reqs[k].sock => conns[fd].buf[j].n < cq[i].reqs[k].n
BufKnown ==
  \A fd \in Fds : conns[fd].inUse =>
    \A j \in DOMAIN conns[fd].buf : conns[fd].buf[j].n <= taken[conns[fd].buf[j].sock]

InQueues == CqOrder /\ BufOrder /\ BufCqOrder /\ BufKnown

LEMMA CqKnown ==
  ASSUME Types, Once, NEW i \in DOMAIN cq, NEW j \in DOMAIN cq[i].reqs
  PROVE  cq[i].reqs[j] \in Requests /\ cq[i].reqs[j].n <= taken[cq[i].reqs[j].sock]
<1>1. cq \in Seq(Cqes) /\ taken \in [Socks -> Nat]
  BY DEF Types, ClientTypes, KernelTypes
<1>2. cq[i].reqs \in Seq(Requests)
  BY <1>1, CqFds DEF ToSet
<1>3. PICK r \in Requests : r = cq[i].reqs[j]
  BY <1>2
<1>4. At(r, "cq", i, j)
  BY <1>3 DEF At
<1>5. ~At(r, "client", 0, 0)
  BY <1>4 DEF Once
<1>6. ~(r.n > taken[r.sock])
  BY <1>5 DEF At, Untaken
<1>7. r.n \in Nat /\ taken[r.sock] \in Nat
  BY <1>1, <1>3 DEF Requests
<1> QED
  BY <1>3, <1>6, <1>7

(* What a receive adds, by its numbers *)
LEMMA RecvNumbers ==
  ASSUME Types, Recv
  PROVE  \E e \in armed, x \in Cqes :
           /\ e.sock \in Socks /\ cq' = Append(cq, x)
           /\ \A j \in DOMAIN x.reqs : j \in Nat /\ j >= 1 /\ x.reqs[j].sock = e.sock
                                       /\ x.reqs[j].n = taken[e.sock] + j
           /\ \A s \in Socks : taken'[s] >= taken[s] /\ (taken'[s] = taken[s] \/ taken'[s] <= Len(asked[s]))
           /\ UNCHANGED <<workerVars, asked>>
<1>0. PICK e \in armed, more \in BOOLEAN :
        \E k \in (taken[e.sock] + 1) .. Len(asked[e.sock]) :
          /\ taken' = [taken EXCEPT ![e.sock] = k]
          /\ cq' = Append(cq, Cqe("recv", e.fd,
               [i \in 1 .. (k - taken[e.sock]) |-> [sock |-> e.sock, n |-> taken[e.sock] + i]],
               0, more))
  BY DEF Recv
<1>1. PICK k \in (taken[e.sock] + 1) .. Len(asked[e.sock]) :
        /\ taken' = [taken EXCEPT ![e.sock] = k]
        /\ cq' = Append(cq, Cqe("recv", e.fd,
             [i \in 1 .. (k - taken[e.sock]) |-> [sock |-> e.sock, n |-> taken[e.sock] + i]],
             0, more))
  BY <1>0
<1>15. PICK t : t = taken[e.sock]
  OBVIOUS
<1> DEFINE reqs == [i \in 1 .. (k - t) |-> [sock |-> e.sock, n |-> t + i]]
           x == Cqe("recv", e.fd, reqs, 0, more)
<1>2. /\ e.sock \in Socks /\ e.fd \in Fds /\ t \in Nat /\ asked[e.sock] \in Seq(AllKinds)
      /\ Len(asked[e.sock]) \in Nat /\ taken \in [Socks -> Nat]
  BY <1>15 DEF Types, ClientTypes, KernelTypes
<1>3. k \in Nat /\ k - t \in Nat /\ k - t >= 1 /\ k <= Len(asked[e.sock])
  BY <1>1, <1>2, <1>15
<1>4. \A s \in Socks : taken'[s] >= taken[s] /\ (taken'[s] = taken[s] \/ taken'[s] <= Len(asked[s]))
  BY <1>1, <1>2, <1>3, <1>15
<1>5. \A j \in 1 .. (k - t) : [sock |-> e.sock, n |-> t + j] \in Requests
  BY <1>2, <1>3 DEF Requests
<1>6. reqs \in Seq(Requests) /\ DOMAIN reqs = 1 .. (k - t)
  BY <1>3, <1>5
<1>7. \A j \in DOMAIN reqs : j \in Nat /\ j >= 1 /\ reqs[j].sock = e.sock /\ reqs[j].n = taken[e.sock] + j
  BY <1>2, <1>3, <1>6, <1>15
<1>8. cq' = Append(cq, x)
  BY <1>1, <1>15
<1>9. x \in Cqes /\ x.reqs = reqs
  <2> HIDE DEF reqs
  <2> QED
    BY <1>2, <1>6 DEF Cqe, Cqes
<1>10. UNCHANGED <<workerVars, asked>>
  BY DEF Recv, clientVars
<1> HIDE DEF reqs, x
<1> QED
  BY <1>2, <1>4, <1>7, <1>8, <1>9, <1>10

Within(p, q, d) == \A k \in DOMAIN p : k + d \in DOMAIN q /\ p[k] = q[k + d]

(* Otherwise a buffer in use loses its head, or nothing. *)
LEMMA BufferShifts ==
  ASSUME Types, [Next]_vars, ~RecvDataCqe, NEW fd \in Fds, conns'[fd].inUse
  PROVE  \/ conns'[fd].buf = <<>>
         \/ conns[fd].inUse /\ \E d \in {0, 1} : Within(conns'[fd].buf, conns[fd].buf, d)
<1>0. conns[fd].buf \in Seq(Requests)
  BY DEF Types, WorkerTypes, Conn
<1>1. CASE conns[fd].inUse /\ conns'[fd].buf = conns[fd].buf
  <2>1. \A k \in DOMAIN conns[fd].buf : k + 0 = k
    BY <1>0
  <2> QED
    BY <1>1, <2>1 DEF Within
<1>2. CASE conns[fd].inUse /\ conns[fd].buf # <<>> /\ conns'[fd].buf = Tail(conns[fd].buf)
  BY <1>0, <1>2, SeqParts DEF Within
<1>3. CASE RespondAsync
  BY <1>1, <1>3, RespondAsyncStep
<1>4. CASE DrainMalformed
  BY <1>1, <1>4, DrainMalformedStep DEF Touches, KeepsTx
<1>5. CASE DrainPark
  BY <1>1, <1>2, <1>5, DrainParkStep DEF Touches, KeepsTx
<1>6. CASE Responded
  <2>1. CASE fd = frame.fd
    BY <1>1, <1>2, <1>6, <2>1, RespondedStep DEF Touches
  <2>2. CASE fd # frame.fd
    BY <1>1, <1>6, <2>2, RespondedStep DEF Touches
  <2> QED
    BY <2>1, <2>2
<1>7. CASE AcceptCqe
  BY Zenon, <1>1, <1>7, AcceptCqeStep DEF Touches
<1>8. CASE SendCqe
  BY Zenon, <1>1, <1>8, SendCqeStep DEF Touches
<1>9. CASE RecvEndCqe
  BY Zenon, <1>1, <1>9, RecvEndCqeStep DEF Touches, KeepsTx
<1> QED
  BY <1>1, <1>3, <1>4, <1>5, <1>6, <1>7, <1>8, <1>9, ConnsKept

LEMMA RecvOrders ==
  ASSUME Types, Types', Once, InQueues, Recv
  PROVE  InQueues'
<1>1. PICK e \in armed, x \in Cqes :
           /\ e.sock \in Socks /\ cq' = Append(cq, x)
           /\ \A j \in DOMAIN x.reqs : j \in Nat /\ j >= 1 /\ x.reqs[j].sock = e.sock
                                       /\ x.reqs[j].n = taken[e.sock] + j
           /\ \A s \in Socks : taken'[s] >= taken[s]
           /\ UNCHANGED <<workerVars, asked>>
  BY RecvNumbers
<1>2. cq \in Seq(Cqes) /\ taken \in [Socks -> Nat] /\ taken' \in [Socks -> Nat] /\ conns' = conns
  BY <1>1 DEF Types, ClientTypes, KernelTypes, workerVars
<1>3. PICK m : m = Len(cq) + 1
  OBVIOUS
<1>4. /\ DOMAIN cq' = DOMAIN cq \cup {m} /\ cq'[m] = x /\ m \in Nat
      /\ \A i \in DOMAIN cq : cq'[i] = cq[i] /\ i < m /\ i \in Nat
  BY <1>1, <1>2, <1>3, AppendAt
<1>5. \A fd \in Fds : conns[fd].buf \in Seq(Requests)
  BY DEF Types, WorkerTypes, Conn
<1>6. ASSUME NEW i \in DOMAIN cq', NEW k \in DOMAIN cq', NEW j \in DOMAIN cq'[i].reqs, NEW l \in DOMAIN cq'[k].reqs,
             cq'[i].reqs[j].sock = cq'[k].reqs[l].sock, i < k \/ (i = k /\ j < l)
      PROVE  cq'[i].reqs[j].n < cq'[k].reqs[l].n
  <2>1. CASE k \in DOMAIN cq
    <3>1. i \in DOMAIN cq
      BY <1>4, <1>6, <2>1
    <3> QED
      BY <1>4, <1>6, <2>1, <3>1 DEF InQueues, CqOrder
  <2>2. CASE k = m /\ i \in DOMAIN cq
    <3>1. cq[i].reqs[j] \in Requests /\ cq[i].reqs[j].n <= taken[cq[i].reqs[j].sock]
      BY <1>4, <1>6, <2>2, CqKnown
    <3>2. cq[i].reqs[j].n \in Nat /\ cq[i].reqs[j].sock = e.sock /\ taken[e.sock] \in Nat
      BY <1>1, <1>2, <1>4, <1>6, <2>2, <3>1 DEF Requests
    <3> QED
      BY <1>1, <1>4, <1>6, <2>2, <3>1, <3>2
  <2>3. CASE k = m /\ i = m
    <3>1. taken[e.sock] \in Nat /\ j < l /\ j \in DOMAIN x.reqs /\ l \in DOMAIN x.reqs
      BY <1>1, <1>2, <1>4, <1>6, <2>3
    <3> QED
      BY <1>1, <1>4, <2>3, <3>1
  <2> QED
    BY <1>4, <2>1, <2>2, <2>3
<1>7. ASSUME NEW fd \in Fds, conns[fd].inUse, NEW j \in DOMAIN conns[fd].buf
      PROVE  conns[fd].buf[j] \in Requests /\ conns[fd].buf[j].n <= taken[conns[fd].buf[j].sock]
             /\ conns[fd].buf[j].n <= taken'[conns[fd].buf[j].sock]
  <2>1. conns[fd].buf[j] \in Requests
    BY <1>5
  <2>2. conns[fd].buf[j].n <= taken[conns[fd].buf[j].sock]
    BY <1>7 DEF InQueues, BufKnown
  <2>3. PICK n \in Nat, s \in Socks : n = conns[fd].buf[j].n /\ s = conns[fd].buf[j].sock
    BY <2>1 DEF Requests
  <2>4. taken[s] \in Nat /\ taken'[s] \in Nat /\ taken'[s] >= taken[s]
    BY <1>1, <1>2
  <2> QED
    BY <2>1, <2>2, <2>3, <2>4
<1>8. ASSUME NEW fd \in Fds, conns[fd].inUse, NEW j \in DOMAIN conns[fd].buf, NEW i \in DOMAIN cq', NEW k \in DOMAIN cq'[i].reqs,
             conns[fd].buf[j].sock = cq'[i].reqs[k].sock
      PROVE  conns[fd].buf[j].n < cq'[i].reqs[k].n
  <2>1. CASE i \in DOMAIN cq
    BY <1>4, <1>8, <2>1 DEF InQueues, BufCqOrder
  <2>2. CASE i = m
    <3>1. conns[fd].buf[j] \in Requests /\ conns[fd].buf[j].n <= taken[conns[fd].buf[j].sock]
      BY <1>7, <1>8
    <3>2. PICK n \in Nat : n = conns[fd].buf[j].n
      BY <3>1 DEF Requests
    <3>3. n <= taken[e.sock] /\ cq'[i].reqs[k].n = taken[e.sock] + k /\ k \in Nat /\ k >= 1
      BY <1>1, <1>4, <1>8, <2>2, <3>1, <3>2
    <3>4. taken[e.sock] \in Nat
      BY <1>1, <1>2
    <3> QED
      BY <3>2, <3>3, <3>4
  <2> QED
    BY <1>4, <2>1, <2>2
<1>9. CqOrder'
  BY <1>6 DEF CqOrder
<1>10. BufCqOrder'
  BY <1>2, <1>8 DEF BufCqOrder
<1>11. BufKnown'
  BY <1>2, <1>7 DEF BufKnown
<1>12. BufOrder'
  BY <1>2 DEF InQueues, BufOrder
<1> QED
  BY <1>9, <1>10, <1>11, <1>12 DEF InQueues

LEMMA CqOrderKept ==
  ASSUME Types, Types', InQueues, [Next]_vars, ~Recv
  PROVE  CqOrder'
<1>1. PICK d \in {0, 1} : CqShift(d)
  BY CqMoves
<1>2. cq' \in Seq(Cqes)
  BY DEF Types, KernelTypes
<1> SUFFICES ASSUME NEW i \in DOMAIN cq', NEW k \in DOMAIN cq',
                    NEW j \in DOMAIN cq'[i].reqs, NEW l \in DOMAIN cq'[k].reqs,
                    cq'[i].reqs[j].sock = cq'[k].reqs[l].sock, i < k \/ (i = k /\ j < l)
             PROVE  cq'[i].reqs[j].n < cq'[k].reqs[l].n
  BY DEF CqOrder
<1>3. i \in Nat /\ k \in Nat
  BY <1>2
<1>4. /\ i + d \in DOMAIN cq /\ j \in DOMAIN cq[i + d].reqs /\ cq'[i].reqs[j] = cq[i + d].reqs[j]
      /\ k + d \in DOMAIN cq /\ l \in DOMAIN cq[k + d].reqs /\ cq'[k].reqs[l] = cq[k + d].reqs[l]
  BY <1>1 DEF CqShift
<1>5. i + d < k + d \/ (i + d = k + d /\ j < l)
  BY <1>3
<1> QED
  BY <1>4, <1>5 DEF InQueues, CqOrder

(* Without data, a buffer and the queue lose their heads, or nothing. *)
LEMMA BuffersOrder ==
  ASSUME Types, Types', InQueues, [Next]_vars, ~Recv, ~RecvDataCqe
  PROVE  BufOrder' /\ BufCqOrder' /\ BufKnown'
<1>1. PICK c \in {0, 1} : CqShift(c)
  BY CqMoves
<1>2. taken' = taken
  BY TakenMoves
<1>3. ASSUME NEW fd \in Fds, conns'[fd].inUse
      PROVE  /\ \A j, l \in DOMAIN conns'[fd].buf : j < l => conns'[fd].buf[j].n < conns'[fd].buf[l].n
             /\ \A j \in DOMAIN conns'[fd].buf : \A i \in DOMAIN cq' : \A k \in DOMAIN cq'[i].reqs :
                  conns'[fd].buf[j].sock = cq'[i].reqs[k].sock => conns'[fd].buf[j].n < cq'[i].reqs[k].n
             /\ \A j \in DOMAIN conns'[fd].buf : conns'[fd].buf[j].n <= taken'[conns'[fd].buf[j].sock]
  <2>1. CASE conns'[fd].buf = <<>>
    <3>1. DOMAIN conns'[fd].buf = {}
      BY <2>1
    <3> QED
      BY <3>1
  <2>2. CASE conns[fd].inUse /\ \E d \in {0, 1} : Within(conns'[fd].buf, conns[fd].buf, d)
    <3>1. PICK d \in {0, 1} : Within(conns'[fd].buf, conns[fd].buf, d)
      BY <2>2
    <3>2. conns'[fd].buf \in Seq(Requests)
      BY DEF Types, WorkerTypes, Conn
    <3>3. \A j \in DOMAIN conns'[fd].buf : j \in Nat /\ j + d \in DOMAIN conns[fd].buf
                                             /\ conns'[fd].buf[j] = conns[fd].buf[j + d]
      BY <3>1, <3>2 DEF Within
    <3>4. \A j, l \in DOMAIN conns'[fd].buf : j < l => conns'[fd].buf[j].n < conns'[fd].buf[l].n
      <4> SUFFICES ASSUME NEW j \in DOMAIN conns'[fd].buf, NEW l \in DOMAIN conns'[fd].buf, j < l
                   PROVE  conns'[fd].buf[j].n < conns'[fd].buf[l].n
        OBVIOUS
      <4>1. j + d < l + d
        BY <3>3
      <4> QED
        BY <2>2, <3>3, <4>1 DEF InQueues, BufOrder
    <3>5. \A j \in DOMAIN conns'[fd].buf : \A i \in DOMAIN cq' : \A k \in DOMAIN cq'[i].reqs :
                  conns'[fd].buf[j].sock = cq'[i].reqs[k].sock => conns'[fd].buf[j].n < cq'[i].reqs[k].n
      BY <1>1, <2>2, <3>3 DEF InQueues, BufCqOrder, CqShift
    <3>6. \A j \in DOMAIN conns'[fd].buf : conns'[fd].buf[j].n <= taken'[conns'[fd].buf[j].sock]
      BY <1>2, <2>2, <3>3 DEF InQueues, BufKnown
    <3> QED
      BY <3>4, <3>5, <3>6
  <2> QED
    BY <1>3, <2>1, <2>2, BufferShifts
<1> QED
  BY <1>3 DEF BufOrder, BufCqOrder, BufKnown

(* Data joins the buffer of the client that sent it. *)
LEMMA DataOrder ==
  ASSUME RefsInv, Types', Once, InQueues, RecvDataCqe
  PROVE  BufOrder' /\ BufCqOrder' /\ BufKnown'
<1>1. Types /\ [Next]_vars /\ ~Recv /\ TableInv
  <2>1. pc = "batch"
    BY DEF RecvDataCqe, CqeIs
  <2> QED
    BY <2>1 DEF RefsInv, CountInv, TableInv, Recv, Next, Loop
<1>2. PICK g \in Fds : g = Head(cq).fd
  BY <1>1, RecvDataCqeStep DEF Touches
<1>3. CASE cq' = cq /\ taken' = taken /\ conns' = conns
  BY <1>3 DEF InQueues, BufOrder, BufCqOrder, BufKnown
<1>4. CASE ~(cq' = cq /\ taken' = taken /\ conns' = conns)
  <2>1. /\ cq # <<>> /\ cq' = Tail(cq) /\ taken' = taken
        /\ \A h \in Fds : h # g => conns'[h] = conns[h]
        /\ conns'[g].inUse = conns[g].inUse /\ conns'[g].buf = conns[g].buf \o Head(cq).reqs
    BY Zenon, <1>1, <1>2, <1>4, RecvDataCqeStep DEF Touches, Consume, CqeIs, kernelVars
  <2>2. PICK reqs : reqs = Head(cq).reqs
    OBVIOUS
  <2>3. /\ cq \in Seq(Cqes) /\ 1 \in DOMAIN cq /\ cq[1] = Head(cq) /\ reqs = cq[1].reqs
        /\ reqs \in Seq(Requests)
        /\ \A i \in DOMAIN cq' : i \in Nat /\ i >= 1 /\ i + 1 \in DOMAIN cq /\ cq'[i] = cq[i + 1]
    <3>1. cq \in Seq(Cqes)
      BY <1>1 DEF Types, KernelTypes
    <3>2. 1 \in DOMAIN cq /\ cq[1] = Head(cq) /\ \A i \in DOMAIN cq' : i + 1 \in DOMAIN cq /\ cq'[i] = cq[i + 1]
      BY <2>1, <3>1, SeqParts
    <3>3. reqs \in Seq(Requests)
      BY <1>1, <2>2, <3>2, CqFds DEF ToSet
    <3>4. \A i \in DOMAIN cq' : i \in Nat /\ i >= 1
      BY <2>1, <3>1
    <3> QED
      BY <2>2, <3>1, <3>2, <3>3, <3>4
  <2>4. ASSUME NEW fd \in Fds, conns'[fd].inUse
        PROVE  /\ \A j, l \in DOMAIN conns'[fd].buf : j < l => conns'[fd].buf[j].n < conns'[fd].buf[l].n
               /\ \A j \in DOMAIN conns'[fd].buf : \A i \in DOMAIN cq' : \A k \in DOMAIN cq'[i].reqs :
                    conns'[fd].buf[j].sock = cq'[i].reqs[k].sock => conns'[fd].buf[j].n < cq'[i].reqs[k].n
               /\ \A j \in DOMAIN conns'[fd].buf : conns'[fd].buf[j].n <= taken'[conns'[fd].buf[j].sock]
    <3>1. CASE fd # g
      <4>1. conns'[fd] = conns[fd] /\ taken' = taken /\ conns[fd].inUse
        BY <2>1, <2>4, <3>1
      <4>2. \A j, l \in DOMAIN conns[fd].buf : j < l => conns[fd].buf[j].n < conns[fd].buf[l].n
        BY <4>1 DEF InQueues, BufOrder
      <4>3. \A j \in DOMAIN conns[fd].buf : \A i \in DOMAIN cq' : \A k \in DOMAIN cq'[i].reqs :
              conns[fd].buf[j].sock = cq'[i].reqs[k].sock => conns[fd].buf[j].n < cq'[i].reqs[k].n
        BY <2>3, <4>1 DEF InQueues, BufCqOrder
      <4>4. \A j \in DOMAIN conns[fd].buf : conns[fd].buf[j].n <= taken[conns[fd].buf[j].sock]
        BY <4>1 DEF InQueues, BufKnown
      <4> QED
        BY <4>1, <4>2, <4>3, <4>4
    <3>2. CASE fd = g
      <4>1. PICK b \in Seq(Requests) : b = conns[g].buf
        BY <1>1 DEF Types, WorkerTypes, Conn
      <4>2. conns[g].inUse /\ owner[g] # None
        BY <1>1, <2>1, <2>4, <3>2 DEF TableInv, TableAt
      <4>3. (\A j \in DOMAIN b : b[j].sock = owner[g]) /\ (\A j \in DOMAIN reqs : reqs[j].sock = owner[g])
        <5>1. cq[1] \in ToSet(cq)
          BY <2>3 DEF ToSet
        <5>2. (\A j \in DOMAIN b : For(b[j], g)) /\ \A j \in DOMAIN reqs : For(reqs[j], g)
          BY <1>2, <2>2, <2>3, <4>1, <4>2, <5>1 DEF RefsInv, Refs, BufRefs, CqRefs
        <5> QED
          BY <4>2, <5>2 DEF For
      <4>4. PICK q : q = b \o reqs
        OBVIOUS
      <4>5. \A i \in DOMAIN q :
              \/ i \in DOMAIN b /\ i <= Len(b) /\ q[i] = b[i]
              \/ i > Len(b) /\ i - Len(b) \in DOMAIN reqs /\ q[i] = reqs[i - Len(b)]
        <5>1. reqs \in Seq(Requests)
          BY <2>3
        <5> QED
          BY <4>4, <5>1, JoinedAt
      <4>6. \A i \in DOMAIN q : i \in Nat
        BY <2>3, <4>1, <4>4
      <4>7. PICK m \in Nat : m = Len(b)
        BY <4>1
      <4>8. /\ \A j, l \in DOMAIN b : j < l => b[j].n < b[l].n
            /\ \A j, l \in DOMAIN reqs : j < l => reqs[j].n < reqs[l].n
            /\ \A j \in DOMAIN b, l \in DOMAIN reqs : b[j].n < reqs[l].n
            /\ \A i \in DOMAIN cq' : \A k \in DOMAIN cq'[i].reqs : cq'[i].reqs[k].sock = owner[g] =>
                 /\ \A j \in DOMAIN b : b[j].n < cq'[i].reqs[k].n
                 /\ \A j \in DOMAIN reqs : reqs[j].n < cq'[i].reqs[k].n
            /\ \A j \in DOMAIN b : b[j].n <= taken[b[j].sock]
            /\ \A j \in DOMAIN reqs : reqs[j].n <= taken[reqs[j].sock]
        <5>1. \A j, l \in DOMAIN b : j < l => b[j].n < b[l].n
          BY <4>1, <4>2 DEF InQueues, BufOrder
        <5>2. \A j, l \in DOMAIN reqs : j < l => reqs[j].n < reqs[l].n
          BY <2>3, <4>3 DEF InQueues, CqOrder
        <5>3. \A j \in DOMAIN b, l \in DOMAIN reqs : b[j].n < reqs[l].n
          BY <2>3, <4>1, <4>2, <4>3 DEF InQueues, BufCqOrder
        <5>4. ASSUME NEW i \in DOMAIN cq', NEW k \in DOMAIN cq'[i].reqs, cq'[i].reqs[k].sock = owner[g]
              PROVE  /\ \A j \in DOMAIN b : b[j].n < cq'[i].reqs[k].n
                     /\ \A j \in DOMAIN reqs : reqs[j].n < cq'[i].reqs[k].n
          <6>1. i + 1 \in DOMAIN cq /\ cq'[i] = cq[i + 1] /\ 1 < i + 1
            BY <2>3
          <6> QED
            <7>1. \A j \in DOMAIN b : b[j].n < cq[i + 1].reqs[k].n
              BY <4>1, <4>2, <4>3, <5>4, <6>1 DEF InQueues, BufCqOrder
            <7>2. \A j \in DOMAIN cq[1].reqs : cq[1].reqs[j].n < cq[i + 1].reqs[k].n
              BY <2>3, <4>3, <5>4, <6>1 DEF InQueues, CqOrder
            <7> QED
              BY <2>3, <6>1, <7>1, <7>2
        <5>5. \A j \in DOMAIN b : b[j].n <= taken[b[j].sock]
          BY <4>1, <4>2 DEF InQueues, BufKnown
        <5>6. \A j \in DOMAIN reqs : reqs[j].n <= taken[reqs[j].sock]
          BY <1>1, <2>3, CqKnown
        <5> QED
          BY <5>1, <5>2, <5>3, <5>4, <5>5, <5>6
      <4>9. q = conns'[fd].buf
        BY <2>1, <2>2, <3>2, <4>1, <4>4
      <4>10. ASSUME NEW j \in DOMAIN q, NEW l \in DOMAIN q, j < l
             PROVE  q[j].n < q[l].n
        <5>1. CASE j \in DOMAIN b /\ j <= m /\ q[j] = b[j]
          <6>1. CASE l \in DOMAIN b /\ q[l] = b[l]
            BY <4>8, <4>10, <5>1, <6>1
          <6>2. CASE l - m \in DOMAIN reqs /\ q[l] = reqs[l - m]
            BY <4>8, <5>1, <6>2
          <6> QED
            BY <4>5, <4>7, <6>1, <6>2
        <5>2. CASE j > m /\ j - m \in DOMAIN reqs /\ q[j] = reqs[j - m]
          <6>1. l > m /\ j - m < l - m
            BY <4>6, <4>10, <5>2
          <6>2. l - m \in DOMAIN reqs /\ q[l] = reqs[l - m]
            BY <4>5, <4>6, <4>7, <6>1
          <6> QED
            BY <4>8, <5>2, <6>1, <6>2
        <5> QED
          BY <4>5, <4>7, <5>1, <5>2
      <4>11. \A j \in DOMAIN q : /\ q[j].sock = owner[g] /\ q[j].n <= taken[q[j].sock]
                                 /\ \A i \in DOMAIN cq' : \A k \in DOMAIN cq'[i].reqs :
                                      cq'[i].reqs[k].sock = owner[g] => q[j].n < cq'[i].reqs[k].n
        BY <4>3, <4>5, <4>8
      <4> QED
        <5>1. PICK p : p = conns'[fd].buf
          OBVIOUS
        <5>2. p = q /\ taken' = taken
          BY <2>1, <3>2, <4>9, <5>1
        <5>3. \A j, l \in DOMAIN p : j < l => p[j].n < p[l].n
          BY <4>10, <5>2
        <5>4. \A j \in DOMAIN p : \A i \in DOMAIN cq' : \A k \in DOMAIN cq'[i].reqs :
                p[j].sock = cq'[i].reqs[k].sock => p[j].n < cq'[i].reqs[k].n
          BY <4>11, <5>2
        <5>5. \A j \in DOMAIN p : p[j].n <= taken'[p[j].sock]
          BY <4>11, <5>2
        <5> QED
          BY <5>1, <5>3, <5>4, <5>5
    <3> QED
      BY <3>1, <3>2
  <2> QED
    BY <2>4 DEF BufOrder, BufCqOrder, BufKnown
<1> QED
  BY <1>3, <1>4

LEMMA InQueuesStep ==
  ASSUME RefsInv, Types', Once, InQueues, [Next]_vars
  PROVE  InQueues'
<1>1. Types
  BY DEF RefsInv, CountInv, TableInv
<1>2. CASE Recv
  BY <1>1, <1>2, RecvOrders
<1>3. CASE ~Recv /\ RecvDataCqe
  BY <1>1, <1>3, CqOrderKept, DataOrder DEF InQueues
<1>4. CASE ~Recv /\ ~RecvDataCqe
  BY <1>1, <1>4, CqOrderKept, BuffersOrder DEF InQueues
<1> QED
  BY <1>2, <1>3, <1>4

----------------------------------------------------------------------------
(* Pipelined requests are answered one after the other. *)

Ordered(t) == t.pipelined => ~t.backpressure /\ t.kinds \cap {"malformed", "simple", "gpu"} = {}

Asks ==
  /\ traffic \in Traffics
  /\ \A s \in Socks : /\ taken[s] <= Len(asked[s])
                      /\ \A i \in DOMAIN asked[s] : asked[s][i] \in traffic.kinds

LEMMA AsksStep ==
  ASSUME Types, Types', Asks, [Next]_vars
  PROVE  Asks'
<1>1. traffic' = traffic /\ \A s \in Socks : \A i \in DOMAIN asked'[s] : i \in DOMAIN asked[s] \/ asked'[s][i] \in Kinds
  BY TrafficKept
<1>2. ASSUME NEW s \in Socks
      PROVE  /\ taken'[s] <= Len(asked'[s])
             /\ \A i \in DOMAIN asked'[s] : asked'[s][i] \in traffic'.kinds
  <2>1. PICK a, b : a = asked[s] /\ b = asked'[s]
    OBVIOUS
  <2>2. a \in Seq(AllKinds) /\ b \in Seq(AllKinds)
    BY <2>1 DEF Types, ClientTypes
  <2>3. DOMAIN a \subseteq DOMAIN b /\ \A i \in DOMAIN a : b[i] = a[i]
    BY <2>1, AskedKept
  <2>4. Len(a) <= Len(b)
    <3>1. CASE Len(a) = 0
      BY <2>2, <3>1
    <3>2. CASE Len(a) # 0
      <4>1. Len(a) \in DOMAIN b
        BY <2>2, <2>3, <3>2
      <4> QED
        BY <2>2, <4>1
    <3> QED
      BY <3>1, <3>2
  <2>5. taken'[s] = taken[s] \/ taken'[s] <= Len(a)
    <3>1. CASE Recv
      BY <2>1, <3>1, RecvNumbers
    <3>2. CASE ~Recv
      BY <3>2, TakenMoves
    <3> QED
      BY <3>1, <3>2
  <2>6. taken[s] <= Len(a) /\ taken[s] \in Nat /\ taken'[s] \in Nat
    BY <2>1 DEF Asks, Types, ClientTypes
  <2>7. taken'[s] <= Len(b)
    BY <2>2, <2>4, <2>5, <2>6
  <2>8. \A i \in DOMAIN a : a[i] \in traffic.kinds
    BY <2>1 DEF Asks
  <2> QED
    BY <1>1, <2>1, <2>3, <2>7, <2>8 DEF Kinds
<1> QED
  BY <1>1, <1>2 DEF Asks

LEMMA TameKind ==
  ASSUME Asks, \A t \in Traffics : Ordered(t), traffic.pipelined, NEW r, NEW fd, For(r, fd)
  PROVE  Kind(r) \notin {"malformed", "simple", "gpu"}
<1>1. Kind(r) \in traffic.kinds
  BY DEF Asks, For, Requests, Kind
<1> QED
  BY <1>1 DEF Asks, Ordered

(* A SEND in the submission queue is new, or the rest of one. *)
Rests(e) ==
  LET fd == Head(cq).fd IN
    /\ SendCqe /\ e.fd = fd /\ Head(cq).n > 0 /\ UNCHANGED tableVars
    /\ Head(cq).n < conns[fd].txTotal - conns[fd].txSent

LEMMA SqFrom ==
  ASSUME OnceInv, [Next]_vars, NEW e \in ToSet(sq'), e.op = "send"
  PROVE  e \in ToSet(sq) \/ (RespondAsync /\ e.fd = frame.fd /\ e.from = 1) \/ Rests(e)
<1>1. Types /\ sq \in Seq(Sqes)
  BY DEF OnceInv, RefsInv, CountInv, TableInv, Types, KernelTypes
<1>2. CASE sq' = sq
  BY <1>2
<1>3. CASE sq # <<>> /\ sq' = Tail(sq)
  BY <1>1, <1>3, ToSetTail
<1>4. ASSUME NEW y, sq' = Append(sq, y)
      PROVE  e \in ToSet(sq) \/ e = y
  <2>1. ToSet(sq') = ToSet(sq) \cup {y}
    BY <1>1, <1>4, ToSetAppend
  <2> QED
    BY <2>1
<1>5. CASE ~Sending
  <2>1. ASSUME NEW f \in Fds, sq' = Append(sq, [op |-> "recv", fd |-> f, from |-> 0])
        PROVE  e \in ToSet(sq)
    BY <1>4, <2>1
  <2> QED
    BY <1>1, <1>2, <1>3, <1>5, <2>1, QueuesMove
<1>6. CASE RespondAsync
  <2>1. PICK y : y = [op |-> "send", fd |-> frame.fd, from |-> 1] /\ sq' = Append(sq, y)
    BY <1>1, <1>6, RespondAsyncStep
  <2> QED
    BY <1>4, <1>6, <2>1
<1>7. CASE SendCqe
  <2>1. CASE sq' # sq
    <3>1. /\ UNCHANGED tableVars /\ Head(cq).n > 0
          /\ Head(cq).n < conns[Head(cq).fd].txTotal - conns[Head(cq).fd].txSent
          /\ \E y : sq' = Append(sq, y) /\ y.fd = Head(cq).fd
      <4>1. PICK fd, n, k : fd = Head(cq).fd /\ n = Head(cq).n /\ k = conns[fd].txSent + n + 1
        OBVIOUS
      <4>2. /\ UNCHANGED tableVars /\ n > 0 /\ n < conns[fd].txTotal - conns[fd].txSent
            /\ sq' = Append(sq, [op |-> "send", fd |-> fd, from |-> k])
        BY Zenon, <1>1, <1>7, <2>1, <4>1, SendCqeStep
      <4>3. [op |-> "send", fd |-> fd, from |-> k].fd = fd
        OBVIOUS
      <4> QED
        BY <4>1, <4>2, <4>3
    <3>2. PICK y : sq' = Append(sq, y) /\ y.fd = Head(cq).fd
      BY <3>1
    <3>3. e \in ToSet(sq) \/ e = y
      BY <1>4, <3>2
    <3> QED
      BY <1>7, <3>1, <3>2, <3>3 DEF Rests
  <2> QED
    BY <1>2, <2>1
<1>8. CASE SubmitSend
  BY <1>3, <1>8, SubmitForms DEF Queued
<1>9. CASE PendingSend
  BY <1>2, <1>9, PendingForms
<1> QED
  BY <1>5, <1>6, <1>7, <1>8, <1>9 DEF Sending

LEMMA CqFrom ==
  ASSUME OnceInv, [Next]_vars, NEW e \in ToSet(cq'), e.op = "send"
  PROVE  \/ e \in ToSet(cq)
         \/ SubmitSend /\ \E fd \in Fds, n \in 0 .. Parts :
              /\ Queued(fd) /\ Head(sq).from = conns[fd].txSent + 1 /\ UNCHANGED <<owner, shut, client>>
              /\ Runs(fd, owner[fd], n) /\ e.fd = fd /\ e.n = n
         \/ PendingSend
<1>1. Types /\ cq \in Seq(Cqes)
  BY DEF OnceInv, RefsInv, CountInv, TableInv, Types, KernelTypes
<1>2. CASE cq' = cq
  BY <1>2
<1>3. CASE cq # <<>> /\ cq' = Tail(cq)
  BY <1>1, <1>3, ToSetTail
<1>4. ASSUME NEW y, cq' = Append(cq, y)
      PROVE  e \in ToSet(cq) \/ e = y
  <2>1. ToSet(cq') = ToSet(cq) \cup {y}
    BY <1>1, <1>4, ToSetAppend
  <2> QED
    BY <2>1
<1>5. CASE ~Sending
  BY <1>1, <1>2, <1>3, <1>4, <1>5, QueuesMove
<1>6. CASE RespondAsync
  BY <1>2, <1>6 DEF RespondAsync, kernelVars
<1>7. CASE SendCqe
  BY <1>3, <1>7 DEF SendCqe, CqeIs, Consume
<1>8. CASE SubmitSend
  <2>1. PICK fd \in Fds :
           /\ Queued(fd) /\ Head(sq).from = conns[fd].txSent + 1
           /\ UNCHANGED <<owner, shut, client>>
           /\ cq' = cq \/ \E n \in 0 .. Parts : Runs(fd, owner[fd], n)
    BY <1>8, SubmitForms
  <2>2. ASSUME NEW n \in 0 .. Parts, Runs(fd, owner[fd], n)
        PROVE  e \in ToSet(cq) \/ (e.fd = fd /\ e.n = n)
    <3>1. PICK y : y = Cqe("send", fd, <<>>, n, FALSE)
      OBVIOUS
    <3>2. cq' = Append(cq, y)
      BY <2>2, <3>1 DEF Runs
    <3>3. y.fd = fd /\ y.n = n
      BY <3>1 DEF Cqe
    <3> QED
      BY <1>4, <3>2, <3>3
  <2> QED
    BY <1>2, <1>8, <2>1, <2>2
<1> QED
  BY <1>5, <1>6, <1>7, <1>8 DEF Sending

(* While clients pipeline, no response waits for a GPU job, goes around    *)
(* the SENDs or is sent in parts.                                          *)
WholeSends ==
  /\ \A e \in ToSet(sq) : e.op = "send" => e.from = 1 \/ Ended(owner[e.fd])
  /\ \A e \in ToSet(cq) : e.op = "send" => e.n = Parts \/ Ended(owner[e.fd])

Straight == parked = None /\ back # "release" /\ pc # "simple" /\ pending = {} /\ WholeSends

StraightInv == traffic.pipelined => Straight

LEMMA PcMoves ==
  ASSUME Types, [Next]_vars, parked = None
  PROVE  /\ back' = back \/ back' \in {"recv", "ready"}
         /\ pc' = "simple" => pc = "simple" \/ (DrainDispatch /\ Kind(Head(conns[frame.fd].buf)) = "simple")
<1>1. CASE RespondAsync \/ RespondInOrder \/ RespondWrite \/ SendSimple
  BY Zenon, <1>1 DEF RespondAsync, RespondInOrder, RespondWrite, SendSimple, callVars
<1>2. CASE DrainNothing \/ DrainMalformed \/ DrainWait \/ DrainPark \/ Responded
  BY <1>2 DEF DrainNothing, DrainMalformed, DrainWait, DrainPark, Responded, callVars, DrainReturn
<1>3. CASE DrainDispatch
  BY <1>3 DEF DrainDispatch, callVars
<1>4. CASE ReadyNext
  BY <1>4 DEF ReadyNext
<1>5. CASE ReadyDone \/ Top \/ EndBatch \/ Wake
  BY <1>5 DEF ReadyDone, Top, EndBatch, Wake, callVars
<1>6. CASE AcceptCqe \/ SendCqe \/ RecvEndCqe \/ RecvNoBufsCqe \/ RecvDataCqe \/ RecvTail
  BY <1>6 DEF AcceptCqe, SendCqe, RecvEndCqe, RecvNoBufsCqe, RecvDataCqe, RecvTail, CqeIs, callVars
<1>7. CASE SubmitRecv \/ SubmitSend
  BY <1>7 DEF SubmitRecv, SubmitSend, callVars
<1>8. CASE Submitted
  BY <1>8 DEF Submitted, callVars, Types, WorkerTypes
<1>9. CASE GpuRelease("top") \/ GpuRelease("batch")
  BY <1>9 DEF GpuRelease
<1>10. CASE Kernel
  BY <1>10, KernelStep DEF workerVars, callVars
<1>11. CASE Clients \/ UNCHANGED vars
  BY <1>11 DEF Clients, Connect, Leave, Ask, workerVars, callVars, vars
<1> QED
  BY <1>1, <1>2, <1>3, <1>4, <1>5, <1>6, <1>7, <1>8, <1>9, <1>10, <1>11 DEF Next, Serve, Loop, Idle

LEMMA EndedOwner ==
  ASSUME Types, [Next]_vars, QuietReuse, NEW fd \in Fds, ~Quiet(fd), Ended(owner[fd])
  PROVE  Ended(owner[fd])'
<1>1. PICK s \in Socks \cup {None} : s = owner[fd]
  BY DEF Types, KernelTypes
<1>2. Ended(s)' /\ (owner'[fd] = s \/ owner'[fd] = None)
  BY <1>1, EndedKept, OwnersQuiet
<1>3. owner'[fd] = None => Ended(owner[fd])'
  BY DEF Ended
<1> QED
  BY <1>2, <1>3 DEF Ended

(* A SEND that was executed whole has no rest. *)
LEMMA NoRest ==
  ASSUME RefsInv, TxWhole, WholeSends, NEW e, Rests(e)
  PROVE  Ended(owner[e.fd])
<1>1. PICK fd, n : fd = Head(cq).fd /\ n = Head(cq).n
  OBVIOUS
<1>2. Types /\ cq # <<>> /\ Head(cq).op = "send"
  BY DEF RefsInv, CountInv, TableInv, Rests, SendCqe, CqeIs
<1>3. Head(cq) \in ToSet(cq) /\ fd \in Fds
  BY <1>1, <1>2, HeadIn, CqFds DEF Types, KernelTypes
<1>4. e.fd = fd /\ n > 0 /\ n < conns[fd].txTotal - conns[fd].txSent
  BY <1>1 DEF Rests
<1> SUFFICES ASSUME ~Ended(owner[fd]) PROVE FALSE
  BY <1>4
<1>5. owner[fd] # None /\ n = Parts
  BY <1>1, <1>2, <1>3 DEF WholeSends, Ended
<1>6. conns[fd].inUse /\ conns[fd].txFlight
  BY <1>1, <1>2, <1>3, <1>5, CarriedTx
<1>7. conns[fd].txTotal = Parts /\ conns[fd].txSent \in Nat /\ Parts \in Nat
  BY <1>2, <1>3, <1>6, UnitCounts DEF TxWhole, Types, WorkerTypes, Conn
<1> QED
  BY <1>4, <1>5, <1>7

LEMMA StraightStep ==
  ASSUME OnceInv, OwnInv, TxWhole, Asks, \A t \in Traffics : Ordered(t), StraightInv, [Next]_vars, QuietReuse
  PROVE  StraightInv'
<1>1. Types /\ RefsInv /\ Refs /\ TableInv
  BY DEF OnceInv, RefsInv, CountInv, TableInv
<1>2. traffic' = traffic
  BY <1>1, TrafficKept
<1> SUFFICES ASSUME traffic.pipelined PROVE Straight'
  BY <1>2 DEF StraightInv
<1>3. Straight /\ ~traffic.backpressure
  BY DEF StraightInv, Asks, Ordered
<1>4. ASSUME NEW fd \in Fds, conns[fd].inUse, conns[fd].buf # <<>>
      PROVE  Kind(Head(conns[fd].buf)) \notin {"malformed", "simple", "gpu"}
  <2>1. PICK q \in Seq(Requests) : q = conns[fd].buf
    BY <1>1 DEF Types, WorkerTypes, Conn
  <2>2. 1 \in DOMAIN q /\ Head(q) = q[1]
    BY <1>4, <2>1, SeqParts
  <2>3. For(Head(q), fd)
    BY <1>1, <1>4, <2>1, <2>2 DEF Refs, BufRefs
  <2> QED
    BY <2>1, <2>3, TameKind
<1>5. parked' = None
  <2>1. ~DrainPark
    BY <1>1, <1>4, DrainParkStep DEF DrainPark, DrainHead, Touches
  <2> QED
    BY <1>1, <1>3, <2>1, ParkMoves DEF Straight
<1>6. back' # "release"
  BY <1>1, <1>3, PcMoves DEF Straight
<1>7. pc' # "simple"
  <2>1. ASSUME DrainDispatch PROVE Kind(Head(conns[frame.fd].buf)) # "simple"
    <3>1. conns[frame.fd].inUse /\ conns[frame.fd].buf # <<>> /\ frame.fd \in Fds
      BY <1>1, <2>1 DEF DrainDispatch, DrainHead, Types, Framed
    <3> QED
      BY <1>4, <3>1
  <2> QED
    BY <1>1, <1>3, <2>1, PcMoves DEF Straight
<1>8. pending' = {}
  <2>1. ~PendingSend
    BY <1>3 DEF PendingSend, Straight
  <2>2. CASE SubmitSend
    BY <1>3, <2>2, SubmitForms DEF Straight
  <2>3. CASE ~SubmitSend
    <3>1. \A e \in pending' : e \in pending
      BY <1>1, <2>3, PendingKept
    <3> QED
      BY <1>3, <3>1 DEF Straight
  <2> QED
    BY <2>2, <2>3
<1>9. ASSUME NEW e \in ToSet(sq'), e.op = "send"
      PROVE  e.from = 1 \/ Ended(owner[e.fd])'
  <2>1. CASE e \in ToSet(sq)
    <3>1. e.fd \in Fds /\ ~Quiet(e.fd)
      <4>1. e \in Sqes
        BY <1>1, <2>1 DEF ToSet, Types, KernelTypes
      <4> QED
        BY <2>1, <4>1 DEF Quiet, Sqes
    <3> QED
      BY <1>1, <1>3, <1>9, <2>1, <3>1, EndedOwner DEF Straight, WholeSends
  <2>2. CASE Rests(e)
    <3>1. Ended(owner[e.fd])
      BY <1>1, <1>3, <2>2, NoRest DEF Straight
    <3>2. e.fd \in Fds /\ ~Quiet(e.fd)
      <4>1. cq # <<>>
        BY <2>2 DEF Rests, SendCqe, CqeIs
      <4>2. Head(cq) \in ToSet(cq) /\ Head(cq).fd \in Fds
        BY <1>1, <4>1, HeadIn, CqFds DEF Types, KernelTypes
      <4> QED
        BY <2>2, <4>2 DEF Rests, Quiet
    <3> QED
      BY <1>1, <3>1, <3>2, EndedOwner
  <2> QED
    BY <1>9, <2>1, <2>2, SqFrom
<1>10. ASSUME NEW e \in ToSet(cq'), e.op = "send"
       PROVE  e.n = Parts' \/ Ended(owner[e.fd])'
  <2>0. Parts' = Parts
    BY <1>2 DEF Parts
  <2>1. CASE e \in ToSet(cq)
    <3>1. e.fd \in Fds /\ ~Quiet(e.fd)
      BY <1>1, <2>1, CqFds DEF Quiet
    <3> QED
      BY <1>1, <1>3, <1>10, <2>0, <2>1, <3>1, EndedOwner DEF Straight, WholeSends
  <2>2. ASSUME NEW fd \in Fds, NEW n \in 0 .. Parts, Queued(fd), Head(sq).from = conns[fd].txSent + 1,
               UNCHANGED <<owner, shut, client>>, Runs(fd, owner[fd], n), e.fd = fd, e.n = n
        PROVE  e.n = Parts \/ Ended(owner[e.fd])'
    <3>1. Ended(owner[fd]) => Ended(owner[fd])'
      BY <2>2 DEF Ended
    <3>2. Head(sq) \in ToSet(sq)
      BY <1>1, <2>2, HeadIn DEF Queued, Types, KernelTypes
    <3>3. Head(sq).from = 1 \/ Ended(owner[fd])
      BY <1>3, <2>2, <3>2 DEF Queued, Straight, WholeSends
    <3>4. PICK k \in Nat : k = conns[fd].txSent
      BY <1>1 DEF Types, WorkerTypes, Conn
    <3>5. Ended(owner[fd]) \/ n = Parts - k
      BY <1>3, <2>2, <3>4 DEF Runs
    <3>6. Parts \in Nat
      BY <1>1, UnitCounts
    <3>7. Ended(owner[fd]) \/ n = Parts
      BY <2>2, <3>3, <3>4, <3>5, <3>6
    <3> QED
      BY <2>2, <3>1, <3>7
  <2> QED
    BY <1>3, <1>10, <2>0, <2>1, <2>2, CqFrom DEF PendingSend, Straight
<1>11. WholeSends'
  BY <1>9, <1>10 DEF WholeSends
<1> QED
  BY <1>5, <1>6, <1>7, <1>8, <1>11 DEF Straight

(* The request being answered is the first that was not, and those behind  *)
(* it are where they were.                                                 *)
LEMMA FirstFresh ==
  ASSUME RefsInv, Owners, InQueues, Straight, NEW fd \in Fds, NEW r \in Requests, At(r, "buf", fd, 1),
         NEW q \in Requests, q.sock = r.sock, q.n < r.n
  PROVE  ~Fresh(q)
<1>1. Types /\ Refs /\ TableInv
  BY DEF RefsInv, CountInv, TableInv
<1>2. conns[fd].inUse /\ 1 \in DOMAIN conns[fd].buf /\ conns[fd].buf[1] = r
  BY DEF At, BufSlot
<1>3. q.n \in Nat /\ r.n \in Nat /\ r.sock \in Socks /\ r.sock # None
  BY WorkerAssumption DEF Requests
<1>4. owner[fd] = r.sock
  <2>1. For(r, fd)
    BY <1>1, <1>2 DEF Refs, BufRefs
  <2>2. owner[fd] # None
    BY <1>1, <1>2 DEF TableInv, TableAt
  <2> QED
    BY <2>1, <2>2 DEF For
<1>5. ~Untaken(q)
  <2>1. r.n <= taken[r.sock] /\ taken[r.sock] \in Nat
    BY <1>1, <1>2, <1>3 DEF InQueues, BufKnown, Types, ClientTypes
  <2> QED
    BY <1>3, <2>1 DEF Untaken
<1>6. ASSUME NEW i \in DOMAIN cq, NEW j \in DOMAIN cq[i].reqs, cq[i].reqs[j] = q
      PROVE  FALSE
  <2>1. r.n < q.n
    BY <1>2, <1>6 DEF InQueues, BufCqOrder
  <2> QED
    BY <1>3, <2>1
<1>7. ASSUME NEW g \in Fds, NEW k, BufSlot(g, k), conns[g].buf[k] = q
      PROVE  FALSE
  <2>1. conns[g].inUse /\ k \in DOMAIN conns[g].buf
    BY <1>7 DEF BufSlot
  <2>2. For(q, g)
    BY <1>1, <1>7, <2>1 DEF Refs, BufRefs
  <2>3. owner[g] # None
    BY <1>1, <2>1 DEF TableInv, TableAt
  <2>4. g = fd
    BY <1>3, <1>4, <2>2, <2>3 DEF For, Owners
  <2>5. k \in Nat /\ k >= 1
    <3>1. conns[g].buf \in Seq(Requests)
      BY <1>1 DEF Types, WorkerTypes, Conn
    <3> QED
      BY <2>1, <3>1
  <2>6. CASE k = 1
    BY <1>2, <1>3, <1>7, <2>4, <2>6
  <2>7. CASE 1 < k
    <3>1. r.n < q.n
      BY <1>2, <1>7, <2>1, <2>4, <2>7 DEF InQueues, BufOrder
    <3> QED
      BY <1>3, <3>1
  <2> QED
    BY <2>5, <2>6, <2>7
<1>8. ~Parked(q) /\ ~Released(q)
  BY DEF Straight, Parked, Released
<1> QED
  BY <1>5, <1>6, <1>7, <1>8 DEF Fresh, At

LEMMA AnswersFirst ==
  ASSUME RefsInv, Straight, Serving, pc # "responded", NEW r, r = frame.req
  PROVE  r \in Requests /\ frame.fd \in Fds /\ At(r, "buf", frame.fd, 1) /\ owner[frame.fd] = r.sock
<1>1. Types /\ Refs /\ TableInv
  BY DEF RefsInv, CountInv, TableInv
<1>2. /\ frame.fd \in Fds /\ conns[frame.fd].inUse /\ r \in Requests
      /\ conns[frame.fd].buf # <<>> /\ r = Head(conns[frame.fd].buf)
  BY <1>1 DEF Types, Framed, Straight
<1>3. 1 \in DOMAIN conns[frame.fd].buf /\ conns[frame.fd].buf[1] = r
  <2>1. conns[frame.fd].buf \in Seq(Requests)
    BY <1>1, <1>2 DEF Types, WorkerTypes, Conn
  <2> QED
    BY <1>2, <2>1, SeqParts
<1>4. At(r, "buf", frame.fd, 1)
  BY <1>2, <1>3 DEF At, BufSlot, Skips
<1>5. For(r, frame.fd) /\ owner[frame.fd] # None
  BY <1>1, <1>2 DEF Refs, FrameRef, TableInv, TableAt
<1> QED
  BY <1>2, <1>4, <1>5 DEF For

Suffix ==
  traffic.pipelined =>
    \A s \in Socks : Ended(s) \/ \A q, r \in Requests :
      q.sock = s /\ r.sock = s /\ q.n < r.n /\ Fresh(q) => Fresh(r)

LEMMA SuffixStep ==
  ASSUME OnceInv, OwnInv, Types', InQueues, StraightInv, Suffix, [Next]_vars
  PROVE  Suffix'
<1>1. Types /\ RefsInv /\ Owners
  BY DEF OnceInv, OwnInv, RefsInv, CountInv, TableInv
<1>2. traffic' = traffic
  BY <1>1, TrafficKept
<1> SUFFICES ASSUME traffic.pipelined, NEW s \in Socks, ~Ended(s)', NEW q \in Requests, NEW r \in Requests,
                    q.sock = s, r.sock = s, q.n < r.n, Fresh(q)'
             PROVE  Fresh(r)'
  BY <1>2 DEF Suffix
<1>3. Fresh(q)
  BY <1>1, OnceStep DEF Settles, OnceInv
<1>4. ~Ended(s)
  BY <1>1, EndedKept
<1>5. Fresh(r)
  BY <1>3, <1>4 DEF Suffix
<1>6. ASSUME Answers, r = frame.req PROVE FALSE
  <2>1. Straight
    BY DEF StraightInv
  <2>2. Serving /\ pc # "responded"
    BY <1>6 DEF Answers, RespondAsync, RespondWrite, SendSimple, Serving
  <2>3. At(r, "buf", frame.fd, 1) /\ frame.fd \in Fds
    BY <1>1, <1>6, <2>1, <2>2, AnswersFirst
  <2> QED
    BY <1>1, <1>3, <2>1, <2>3, FirstFresh
<1> QED
  BY <1>5, <1>6, FreshKept

(* While the SEND of a response has not been executed, no later request of *)
(* its connection is answered.                                             *)
Unsent ==
  traffic.pipelined =>
    \A e \in ToSet(sq) : e.op = "send" =>
      Ended(owner[e.fd]) \/ \A r \in Requests : r.sock = owner[e.fd] /\ r.n > conns[e.fd].tx.n => Fresh(r)

LEMMA UnsentStep ==
  ASSUME OnceInv, OwnInv, Types', Flushed, TxWhole, InQueues, StraightInv, Suffix, Unsent, [Next]_vars, QuietReuse
  PROVE  Unsent'
<1>1. Types /\ RefsInv /\ Owners /\ TableInv
  BY DEF OnceInv, OwnInv, RefsInv, CountInv, TableInv
<1>2. traffic' = traffic
  BY <1>1, TrafficKept
<1> SUFFICES ASSUME traffic.pipelined, NEW e \in ToSet(sq'), e.op = "send", ~Ended(owner[e.fd])',
                    NEW r \in Requests, r.sock = owner'[e.fd], r.n > conns'[e.fd].tx.n
             PROVE  Fresh(r)'
  BY <1>2 DEF Unsent
<1>3. Straight
  BY DEF StraightInv
<1>4. e.fd \in Fds
  <2>1. e \in Sqes
    BY DEF Types, KernelTypes, ToSet
  <2> QED
    BY <2>1 DEF Sqes
<1>5. CASE e \in ToSet(sq)
  <2>1. ~Quiet(e.fd)
    BY <1>5 DEF Quiet
  <2>2. ~Ended(owner[e.fd])
    BY <1>1, <1>4, <2>1, EndedOwner
  <2>3. owner'[e.fd] # None
    BY DEF Ended
  <2>4. owner'[e.fd] = owner[e.fd] /\ owner[e.fd] # None
    BY <1>1, <1>4, <2>1, <2>3, OwnersQuiet
  <2>5. conns[e.fd].inUse /\ conns[e.fd].txFlight
    BY <1>1, <1>4, <1>5, <2>4, CarriedTx
  <2>6. ~(RespondAsync /\ e.fd = frame.fd)
    BY <2>5 DEF RespondAsync
  <2>7. conns'[e.fd].tx = conns[e.fd].tx
    BY <1>1, <1>4, <2>6, TxKept
  <2>8. Fresh(r)
    BY <1>5, <2>2, <2>4, <2>7 DEF Unsent
  <2>9. ASSUME Answers, r = frame.req PROVE FALSE
    <3>1. Serving /\ pc # "responded"
      BY <2>9 DEF Answers, RespondAsync, RespondWrite, SendSimple, Serving
    <3>2. owner[frame.fd] = r.sock /\ frame.fd \in Fds
      BY <1>1, <1>3, <2>9, <3>1, AnswersFirst
    <3>3. frame.fd = e.fd
      BY <1>1, <1>4, <2>4, <3>2 DEF Owners
    <3>4. sq # <<>>
      BY <1>5 DEF ToSet
    <3> QED
      BY <1>3, <2>5, <2>9, <3>3, <3>4 DEF Answers, RespondAsync, RespondWrite, SendSimple, Flushed, Straight
  <2>10. ~Ended(r.sock)'
    OBVIOUS
  <2> QED
    BY <2>8, <2>9, <2>10, FreshKept
<1>6. CASE RespondAsync /\ e.fd = frame.fd /\ e.from = 1
  <2>1. PICK q \in Requests : q = frame.req
    BY <1>1, <1>6, RespondAsyncStep
  <2>2. /\ conns'[e.fd].tx = q /\ owner' = owner /\ Serving /\ pc # "responded" /\ Answers
    BY Zenon, <1>1, <1>6, <2>1, RespondAsyncStep DEF RespondAsync, tableVars, Serving, Answers
  <2>3. At(q, "buf", frame.fd, 1) /\ owner[frame.fd] = q.sock
    BY <1>1, <1>3, <2>1, <2>2, AnswersFirst
  <2>4. Fresh(q) /\ q.sock \in Socks /\ q.n \in Nat /\ r.n \in Nat
    BY <2>3 DEF Fresh, Requests
  <2>5. r.sock = q.sock /\ q.n < r.n
    BY <1>6, <2>2, <2>3, <2>4
  <2>6. ~Ended(q.sock)' /\ ~Ended(q.sock)
    BY <1>1, <2>4, <2>5, EndedKept
  <2>7. Fresh(r)
    BY <2>4, <2>5, <2>6 DEF Suffix
  <2>8. r # frame.req
    BY <2>1, <2>4, <2>5
  <2> QED
    BY <2>5, <2>6, <2>7, <2>8, FreshKept
<1>7. CASE Rests(e)
  <2>1. Ended(owner[e.fd]) /\ owner' = owner
    BY <1>1, <1>3, <1>7, NoRest DEF Straight, Rests, tableVars
  <2>2. owner[e.fd] \in Socks \cup {None}
    BY <1>1, <1>4 DEF Types, KernelTypes
  <2> QED
    BY <1>1, <2>1, <2>2, EndedKept
<1> QED
  BY <1>5, <1>6, <1>7, SqFrom

(* Where the next unit of a response goes *)

(* Of s arrived what comes before part from of the answer to its request n, *)
(* and nothing else.                                                        *)
Reached(s, n, from) ==
  /\ \A i \in DOMAIN wire[s] : wire[s][i].n < n \/ (wire[s][i].n = n /\ wire[s][i].part < from)
  /\ \A m \in Nat \ {0} : \A p \in 1 .. Parts : m < n \/ (m = n /\ p < from) => Wired(s, m, p)

LEMMA PlaceBefore ==
  ASSUME NEW P \in 1 .. 2, NEW n \in Nat, NEW m \in Nat, n >= 1, m >= 1, NEW p \in 1 .. P, NEW from \in 1 .. P
  PROVE  (m < n \/ (m = n /\ p < from)) <=> (m - 1) * P + p <= ((n - 1) * P + from) - 1
<1>1. CASE P = 1
  <2>1. (m - 1) * 1 = m - 1 /\ (n - 1) * 1 = n - 1
    OBVIOUS
  <2>2. p = 1 /\ from = 1
    BY <1>1
  <2> QED
    BY <1>1, <2>1, <2>2
<1>2. CASE P = 2
  <2>1. p \in Int /\ from \in Int /\ p >= 1 /\ p <= 2 /\ from >= 1 /\ from <= 2
    BY <1>2
  <2>2. (m < n \/ (m = n /\ p < from)) <=> (m - 1) * 2 + p <= ((n - 1) * 2 + from) - 1
    BY <2>1
  <2> QED
    BY <1>2, <2>2
<1> QED
  BY <1>1, <1>2

LEMMA PlaceOf ==
  ASSUME NEW P \in 1 .. 2, NEW n \in Nat, n >= 1, NEW p \in 1 .. P, NEW i \in Int, i = (n - 1) * P + p
  PROVE  n = ((i - 1) \div P) + 1 /\ p = ((i - 1) % P) + 1
<1>1. CASE P = 1
  <2>1. p = 1 /\ i = (n - 1) * 1 + 1
    BY <1>1
  <2>2. n = ((i - 1) \div 1) + 1 /\ p = ((i - 1) % 1) + 1
    BY <2>1
  <2> QED
    BY <1>1, <2>2
<1>2. CASE P = 2
  <2>1. p \in 1 .. 2 /\ i = (n - 1) * 2 + p
    BY <1>2
  <2>2. i - 1 = 2 * (n - 1) + (p - 1)
    BY <2>1
  <2>3. (i - 1) \div 2 = n - 1 /\ (i - 1) % 2 = p - 1
    BY <2>1, <2>2
  <2>4. p = (p - 1) + 1 /\ n = (n - 1) + 1
    BY <2>1
  <2> QED
    BY <1>2, <2>3, <2>4
<1> QED
  BY <1>1, <1>2

LEMMA ReachedLen ==
  ASSUME Types, WireInv, WireParts, NoDuplicates, NEW s \in Socks, NEW n \in Nat, n >= 1,
         NEW from \in 1 .. Parts, Reached(s, n, from)
  PROVE  Len(wire[s]) = ((n - 1) * Parts + from) - 1
<1>1. PICK P \in 1 .. 2 : P = Parts
  BY UnitCounts
<1>2. PICK q \in Seq(Parcels) : q = wire[s]
  BY DEF WireInv
<1>3. PICK K : K = ((n - 1) * P + from) - 1
  OBVIOUS
<1>4. K \in Nat /\ from \in Nat /\ from >= 1 /\ from <= P
  BY <1>1, <1>3
<1>5. ASSUME NEW i \in DOMAIN q
      PROVE  q[i].n >= 1 /\ q[i].part \in 1 .. P /\ Place(q[i], P) <= K
  <2>1. q[i].n >= 1 /\ q[i].part \in 1 .. P
    BY <1>1, <1>2 DEF WireParts
  <2>2. q[i].n < n \/ (q[i].n = n /\ q[i].part < from)
    BY <1>2 DEF Reached
  <2>3. PICK m \in Nat, p \in Nat : m = q[i].n /\ p = q[i].part
    <3>1. q[i] \in Parcels
      OBVIOUS
    <3> QED
      BY <3>1 DEF Parcels
  <2>4. (m - 1) * P + p <= K
    <3>1. m >= 1 /\ p \in 1 .. P /\ from \in 1 .. P /\ (m < n \/ (m = n /\ p < from))
      BY <1>1, <2>1, <2>2, <2>3
    <3> QED
      BY <1>3, <3>1, PlaceBefore
  <2> QED
    BY <2>1, <2>3, <2>4 DEF Place
<1>6. ASSUME NEW k \in 1 .. K
      PROVE  \E i \in DOMAIN q : Place(q[i], P) = k
  <2>1. PICK m \in Nat, p \in 1 .. P : m >= 1 /\ (m - 1) * P + p = k
    <3>1. k \in Nat /\ k >= 1
      BY <1>4
    <3> QED
      BY <3>1, PlacedAt
  <2>2. m < n \/ (m = n /\ p < from)
    <3>1. from \in 1 .. P /\ (m - 1) * P + p <= ((n - 1) * P + from) - 1
      BY <1>1, <1>3, <2>1
    <3> QED
      BY <2>1, <3>1, PlaceBefore
  <2>3. Wired(s, m, p)
    BY <1>1, <2>1, <2>2 DEF Reached
  <2> QED
    BY <1>2, <2>1, <2>3 DEF Wired, Place
<1>7. IsInjective(q) /\ \A i \in DOMAIN q : q[i].sock = s
  BY <1>2 DEF NoDuplicates, WireInv, Isolation
<1>8. Fills(q, P, K)
  BY <1>5, <1>6 DEF Fills
<1>9. Len(q) = K
  BY <1>4, <1>7, <1>8, Counted
<1> QED
  BY <1>1, <1>2, <1>3, <1>9

LEMMA WroteInOrder ==
  ASSUME Types, WireInv, InOrder, traffic' = traffic, NEW s, NEW r, NEW from, NEW to, Wrote(s, r, from, to),
         client[s] = "open" => Len(wire[s]) = ((r.n - 1) * Parts + from) - 1
  PROVE  InOrder'
<1>1. PICK P \in 1 .. 2 : P = Parts
  BY UnitCounts
<1>2. Parts' = P
  BY <1>1 DEF Parts
<1>3. s \in Socks /\ r \in Requests /\ from \in Nat /\ to \in Nat /\ from >= 1 /\ to <= P
  BY <1>1 DEF Wrote
<1>4. PICK n \in Nat : n = r.n /\ n >= 1
  BY <1>3 DEF Requests
<1> SUFFICES ASSUME NEW t \in Socks, NEW i \in DOMAIN wire'[t]
             PROVE  wire'[t][i].n = ((i - 1) \div P) + 1 /\ wire'[t][i].part = ((i - 1) % P) + 1
  BY <1>2 DEF InOrder
<1>5. CASE i \in DOMAIN wire[t] /\ wire'[t][i] = wire[t][i]
  BY <1>1, <1>5 DEF InOrder
<1>6. CASE ~(i \in DOMAIN wire[t] /\ wire'[t][i] = wire[t][i])
  <2>1. t = s /\ client[s] = "open" /\ Extends(wire[s], wire'[s], r, from, to)
    BY <1>6, WroteStep
  <2>2. PICK k \in 1 .. (to - from + 1) :
          i = Len(wire[s]) + k /\ wire'[s][i] = [sock |-> r.sock, n |-> r.n, part |-> from + k - 1]
    BY <1>6, <2>1 DEF Extends
  <2>3. PICK p \in Int : p = from + k - 1
    BY <1>3, <2>2
  <2>4. wire'[t][i].n = n /\ wire'[t][i].part = p
    BY <1>4, <2>1, <2>2, <2>3
  <2>5. PICK L : L = Len(wire[s])
    OBVIOUS
  <2>6. L = ((n - 1) * P + from) - 1 /\ i = L + k
    BY <1>1, <1>4, <2>1, <2>2, <2>5
  <2>7. p >= 1 /\ p <= P
    BY <1>3, <2>2, <2>3
  <2>8. n = ((i - 1) \div P) + 1 /\ p = ((i - 1) % P) + 1
    <3>1. PICK y \in Int : y = (n - 1) * P
      BY <1>4
    <3>2. L = (y + from) - 1 /\ i = L + k /\ p = from + k - 1 /\ k \in Int
      BY <1>3, <2>2, <2>3, <2>6, <3>1
    <3>3. i \in Int /\ i = y + p
      BY <1>3, <3>1, <3>2
    <3>4. p \in 1 .. P /\ i = (n - 1) * P + p
      BY <2>7, <3>1, <3>3
    <3> QED
      BY <1>4, <3>3, <3>4, PlaceOf
  <2> QED
    BY <2>4, <2>8
<1> QED
  BY <1>5, <1>6

(* While clients wait for each answer, all but the last one arrived. *)
SerialDone ==
  ~traffic.pipelined =>
    \A s \in Socks : \A n \in Nat \ {0} : \A p \in 1 .. Parts : n < Len(asked[s]) => Wired(s, n, p)

LEMMA ReachedHere ==
  ASSUME Types, WireInv, WireParts, WireOld, Asks, SerialDone, NEW r \in Requests, NEW s \in Socks, s = r.sock,
         NEW from \in 1 .. Parts, Upto(r, from), r.n \in DOMAIN asked[s],
         traffic.pipelined => \A q \in Requests : q.sock = s /\ q.n > r.n => Fresh(q),
         traffic.pipelined => \A m \in Nat \ {0} : \A p \in 1 .. Parts : m < r.n => Wired(s, m, p),
         \A p \in 1 .. Parts : p < from => Wired(s, r.n, p)
  PROVE  Reached(s, r.n, from)
<1>1. PICK n \in Nat : n = r.n /\ n >= 1
  BY DEF Requests
<1>2. PICK a \in Seq(AllKinds) : a = asked[s]
  BY DEF Types, ClientTypes
<1>3. n <= Len(a) /\ Len(a) \in Nat
  BY <1>1, <1>2
<1>4. Parts \in 1 .. 2
  BY UnitCounts
<1>5. ASSUME NEW m \in Nat \ {0}, NEW p \in 1 .. Parts, m < n \/ (m = n /\ p < from)
      PROVE  Wired(s, m, p)
  <2>1. CASE m < n
    <3>1. m < Len(a)
      BY <1>3, <2>1
    <3> QED
      BY <1>1, <1>2, <2>1, <3>1 DEF SerialDone
  <2>2. CASE m = n /\ p < from
    BY <1>1, <2>2
  <2> QED
    BY <1>5, <2>1, <2>2
<1>6. ASSUME NEW i \in DOMAIN wire[s]
      PROVE  wire[s][i].n < n \/ (wire[s][i].n = n /\ wire[s][i].part < from)
  <2>1. wire[s][i] \in Parcels
    BY DEF WireInv
  <2>2. PICK m \in Nat : m = wire[s][i].n /\ m >= 1
    BY <2>1 DEF Parcels, WireParts
  <2>3. PICK q \in Requests : q = ReqOf(wire[s][i]) /\ q.n = m /\ q.sock = s
    <3>1. wire[s][i].sock = s
      BY DEF WireInv, Isolation
    <3>2. [sock |-> s, n |-> m] \in Requests
      BY <2>2 DEF Requests
    <3> QED
      BY <2>2, <3>1, <3>2 DEF ReqOf
  <2>4. ~Fresh(q)
    BY <2>3 DEF WireOld
  <2>5. CASE m = n
    <3>1. q = r
      BY <1>1, <2>3, <2>5 DEF Requests
    <3> QED
      BY <2>2, <2>3, <2>5, <3>1 DEF Upto
  <2>6. CASE m > n
    <3>1. ~traffic.pipelined
      BY <1>1, <2>3, <2>4, <2>6
    <3>2. m <= taken[s]
      <4>1. ~Untaken(q)
        <5>1. Untaken(q) => At(q, "client", 0, 0)
          BY DEF At
        <5> QED
          BY <2>4, <5>1 DEF Fresh
      <4>2. taken[s] \in Nat
        BY DEF Types, ClientTypes
      <4> QED
        BY <2>3, <4>1, <4>2 DEF Untaken
    <3>3. taken[s] <= Len(a) /\ taken[s] \in Nat
      BY <1>2 DEF Asks, Types, ClientTypes
    <3>4. n < Len(a)
      BY <1>3, <2>6, <3>2, <3>3
    <3>5. Wired(s, n, Parts)
      BY <1>1, <1>2, <1>4, <3>1, <3>4 DEF SerialDone
    <3>6. PICK j \in DOMAIN wire[s] : wire[s][j].n = n /\ wire[s][j].part = Parts
      BY <3>5 DEF Wired
    <3>7. ReqOf(wire[s][j]) = r
      BY <1>1, <3>6 DEF WireInv, Isolation, ReqOf, Requests
    <3>8. Parts < from
      BY <3>6, <3>7 DEF Upto
    <3> QED
      BY <1>4, <3>8
  <2> QED
    BY <2>2, <2>5, <2>6
<1> QED
  BY <1>1, <1>5, <1>6 DEF Reached

LEMMA AskedGrows ==
  ASSUME Types, [Next]_vars, NEW s \in Socks
  PROVE  \/ Len(asked'[s]) = Len(asked[s])
         \/ Len(asked'[s]) = Len(asked[s]) + 1 /\ (traffic.pipelined \/ Answered(s))
<1>1. CASE asked' = asked
  BY <1>1
<1>2. CASE ~Clients /\ ~Accepting
  BY <1>1, <1>2, ClientsKept DEF clientVars
<1>3. CASE Accepting
  BY <1>1, <1>3 DEF Accepting, Accept
<1>4. ASSUME NEW t \in Socks, NEW kind \in Kinds, Ask(t, kind)
      PROVE  \/ Len(asked'[s]) = Len(asked[s])
             \/ Len(asked'[s]) = Len(asked[s]) + 1 /\ (traffic.pipelined \/ Answered(s))
  <2>1. asked \in [Socks -> Seq(AllKinds)]
    BY DEF Types, ClientTypes
  <2>2. asked' = [asked EXCEPT ![t] = Append(@, kind)] /\ (traffic.pipelined \/ Answered(t))
    BY <1>4 DEF Ask
  <2>3. CASE s # t
    BY <2>1, <2>2, <2>3
  <2>4. CASE s = t
    <3>1. asked'[s] = Append(asked[s], kind) /\ asked[s] \in Seq(AllKinds)
      BY <2>1, <2>2, <2>4
    <3> QED
      BY <2>2, <2>4, <3>1
  <2> QED
    BY <2>3, <2>4
<1>5. CASE Clients
  BY <1>1, <1>4, <1>5 DEF Clients, Connect, Leave
<1> QED
  BY <1>2, <1>3, <1>5

LEMMA SerialDoneStep ==
  ASSUME OnceInv, InOrder, SerialDone, [Next]_vars
  PROVE  SerialDone'
<1>1. Types /\ WireInv
  BY DEF OnceInv, RefsInv, CountInv, TableInv
<1>2. traffic' = traffic /\ Parts' = Parts
  BY <1>1, TrafficKept DEF Parts
<1> SUFFICES ASSUME ~traffic.pipelined, NEW s \in Socks, NEW n \in Nat \ {0}, NEW p \in 1 .. Parts,
                    n < Len(asked'[s])
             PROVE  Wired(s, n, p)'
  BY <1>2 DEF SerialDone
<1>3. Len(asked[s]) \in Nat /\ asked[s] \in Seq(AllKinds)
  BY <1>1 DEF Types, ClientTypes
<1>4. CASE n < Len(asked[s])
  <2>1. Wired(s, n, p)
    BY <1>4 DEF SerialDone
  <2> QED
    BY <2>1, WiredKept
<1>5. CASE ~(n < Len(asked[s]))
  <2>1. Answered(s) /\ Len(asked'[s]) = Len(asked[s]) + 1
    BY <1>1, <1>3, <1>5, AskedGrows
  <2>2. n = Len(asked[s])
    BY <1>3, <1>5, <2>1
  <2>3. PICK q \in Seq(Parcels), P \in 1 .. 2 : q = wire[s] /\ P = Parts
    BY <1>1, UnitCounts DEF WireInv
  <2>4. Len(q) = P * n
    BY <2>1, <2>2, <2>3 DEF Answered
  <2>5. PICK i \in Int : i = (n - 1) * P + p
    BY <2>3
  <2>6. p \in 1 .. P
    BY <2>3
  <2>7. i >= 1 /\ i <= Len(q)
    <3>1. CASE P = 1
      <4>1. i = (n - 1) * 1 + p /\ Len(q) = 1 * n /\ p = 1
        BY <2>4, <2>5, <2>6, <3>1
      <4> QED
        BY <4>1
    <3>2. CASE P = 2
      <4>1. i = (n - 1) * 2 + p /\ Len(q) = 2 * n /\ p \in 1 .. 2
        BY <2>4, <2>5, <2>6, <3>2
      <4> QED
        BY <4>1
    <3> QED
      BY <3>1, <3>2
  <2>8. i \in DOMAIN q
    BY <2>7
  <2>9. n = ((i - 1) \div P) + 1 /\ p = ((i - 1) % P) + 1
    BY <2>5, <2>6, PlaceOf
  <2>10. q[i].n = n /\ q[i].part = p
    BY <2>3, <2>8, <2>9 DEF InOrder
  <2>11. Wired(s, n, p)
    BY <2>3, <2>8, <2>10 DEF Wired
  <2> QED
    BY <2>11, WiredKept
<1> QED
  BY <1>4, <1>5

LEMMA SendsOut ==
  ASSUME Types, Finite, NEW fd \in Fds,
         \/ \E e \in pending : e.fd = fd
         \/ \E e \in ToSet(sq) \cup ToSet(cq) : e.op = "send" /\ e.fd = fd
  PROVE  Sends(fd) # 0
<1>1. Sends(fd) = PendingAt(fd) + SqSends(fd) + CqSends(fd)
      /\ PendingAt(fd) \in Nat /\ SqSends(fd) \in Nat /\ CqSends(fd) \in Nat
  BY SumsHold DEF Sums
<1>2. Sends(fd) = 0 => PendingAt(fd) = 0 /\ SqSends(fd) = 0 /\ CqSends(fd) = 0
  BY <1>1
<1>3. ~(PendingAt(fd) = 0 /\ SqSends(fd) = 0 /\ CqSends(fd) = 0)
  BY NothingHolds DEF Nothing
<1> QED
  BY <1>2, <1>3

OrderInv ==
  AnswerInv /\ InQueues /\ Asks /\ StraightInv /\ Suffix /\ Unsent /\ SerialDone /\ InOrder

LEMMA AnswersReach ==
  ASSUME OrderInv, Types', RespondWrite \/ SendSimple, NEW r, r = frame.req, ~Ended(r.sock)
  PROVE  Reached(r.sock, r.n, 1)
<1>1. /\ Types /\ RefsInv /\ Refs /\ Once /\ WireOld /\ WireInv /\ WireParts /\ Owners /\ Owed /\ Flushed
      /\ InQueues /\ Asks /\ SerialDone /\ Suffix /\ Unsent
  BY DEF OrderInv, AnswerInv, OnceInv, OwnInv, RefsInv, CountInv, TableInv
<1>2. r \in Requests /\ r.sock \in Socks /\ owner[frame.fd] = r.sock
  BY <1>1, AnswerWrote
<1>3. PICK s \in Socks : s = r.sock
  BY <1>2
<1>4. Serving /\ pc # "responded" /\ Answers
  BY DEF RespondWrite, SendSimple, Serving, Answers
<1>5. Fresh(r)
  BY <1>1, <1>4, AnswerOnce
<1>6. r.n \in DOMAIN asked[s] /\ frame.fd \in Fds
  BY <1>1, <1>3, <1>4 DEF Refs, FrameRef, For, Types, Framed
<1>7. 1 \in 1 .. Parts
  BY <1>1, UnitCounts
<1>8. ASSUME traffic.pipelined, NEW m \in Nat \ {0}, NEW p \in 1 .. Parts, m < r.n
      PROVE  Wired(s, m, p)
  <2>1. Straight
    BY <1>8 DEF OrderInv, StraightInv
  <2>2. PICK q \in Requests : q = [sock |-> s, n |-> m]
    BY DEF Requests
  <2>3. ~Fresh(q)
    <3>1. At(r, "buf", frame.fd, 1) /\ frame.fd \in Fds
      BY <1>1, <1>4, <2>1, AnswersFirst
    <3>2. q.sock = r.sock /\ q.n < r.n
      BY <1>3, <1>8, <2>2
    <3> QED
      BY <1>1, <1>2, <2>1, <3>1, <3>2, FirstFresh
  <2>4. ASSUME NEW g \in Fds, Carries(g, q, p) PROVE FALSE
    <3>1. conns[g].txFlight /\ owner[g] = s /\ Rest(g, p)
      BY <2>2, <2>4 DEF Carries
    <3>2. s # None
      BY WorkerAssumption
    <3>3. g = frame.fd
      BY <1>1, <1>2, <1>3, <1>6, <3>1, <3>2 DEF Owners
    <3>4. pc = "write"
      BY <2>1, <3>1, <3>3 DEF RespondWrite, SendSimple, Straight
    <3>5. ToSet(sq) = {} /\ pending = {}
      BY <1>1, <2>1, <3>4 DEF Flushed, Straight, ToSet
    <3>6. PICK e \in ToSet(cq) : e.op = "send" /\ e.fd = g /\ conns[g].txSent + e.n < p
      BY <3>1, <3>5 DEF Rest
    <3>7. e.n = Parts
      BY <1>3, <2>1, <3>1, <3>6 DEF Straight, WholeSends
    <3>8. conns[g].txSent \in Nat /\ Parts \in Nat
      <4>1. conns[g] \in Conn
        BY <1>1 DEF Types, WorkerTypes
      <4>2. conns[g].txSent \in Nat
        BY <4>1 DEF Conn
      <4> QED
        BY <1>1, <4>2, UnitCounts
    <3> QED
      BY <3>6, <3>7, <3>8
  <2> QED
    BY <1>1, <1>3, <2>2, <2>3, <2>4 DEF Owed
<1>9. ASSUME traffic.pipelined, NEW q \in Requests, q.sock = s, q.n > r.n
      PROVE  Fresh(q)
  <2>1. r.n < q.n
    BY <1>2, <1>9 DEF Requests
  <2> QED
    BY <1>1, <1>2, <1>3, <1>5, <1>9, <2>1 DEF Suffix
<1>10. Upto(r, 1)
  BY <1>1, <1>5, FreshUpto
<1>11. \A p \in 1 .. Parts : p < 1 => Wired(s, r.n, p)
  OBVIOUS
<1> QED
  BY <1>1, <1>2, <1>3, <1>6, <1>7, <1>8, <1>9, <1>10, <1>11, ReachedHere

LEMMA MalformedReach ==
  ASSUME OrderInv, \A t \in Traffics : Ordered(t), Types', DrainMalformed, NEW r, r = Head(conns[frame.fd].buf)
  PROVE  Reached(r.sock, r.n, 1)
<1>1. /\ Types /\ RefsInv /\ Refs /\ Once /\ WireOld /\ WireInv /\ WireParts /\ Asks /\ SerialDone
  BY DEF OrderInv, AnswerInv, OnceInv, OwnInv, RefsInv, CountInv, TableInv
<1>2. r \in Requests /\ r.sock \in Socks
  BY <1>1, MalformedWrote
<1>3. PICK fd \in Fds, q \in Seq(Requests) : fd = frame.fd /\ q = conns[fd].buf /\ conns[fd].inUse /\ q # <<>>
  <2>1. frame.fd \in Fds /\ conns[frame.fd].inUse /\ conns[frame.fd].buf # <<>>
    BY <1>1, DrainMalformedStep DEF Touches
  <2> QED
    BY <1>1, <2>1 DEF Types, WorkerTypes, Conn
<1>4. For(r, fd)
  <2>1. 1 \in DOMAIN q /\ r = q[1]
    BY <1>3, SeqParts
  <2> QED
    BY <1>1, <1>3, <2>1 DEF Refs, BufRefs
<1>5. ~traffic.pipelined
  <2>1. Kind(r) = "malformed"
    BY <1>1, DrainMalformedStep
  <2> QED
    BY <1>1, <1>4, <2>1, TameKind
<1>6. Upto(r, 1)
  BY <1>1, FreshUpto, MalformedOnce
<1>7. 1 \in 1 .. Parts /\ r.n \in DOMAIN asked[r.sock] /\ \A p \in 1 .. Parts : p < 1 => Wired(r.sock, r.n, p)
  BY <1>1, <1>4, UnitCounts DEF For
<1> QED
  BY <1>1, <1>2, <1>5, <1>6, <1>7, ReachedHere

LEMMA SendReach ==
  ASSUME OrderInv, NEW fd \in Fds, NEW s \in Socks, ~Ended(s), NEW r, r = conns[fd].tx, s = r.sock,
         NEW from \in 1 .. Parts, from = conns[fd].txSent + 1,
         \/ \E e \in pending : e.fd = fd
         \/ owner[fd] = s /\ \E e \in ToSet(sq) : e.op = "send" /\ e.fd = fd
  PROVE  Reached(s, r.n, from)
<1>1. /\ Types /\ RefsInv /\ Finite /\ WireOld /\ WireInv /\ WireParts /\ Owners /\ Owed /\ TxOld /\ TxApart
      /\ Asks /\ SerialDone /\ Suffix /\ Unsent /\ Left(fd)
  BY DEF OrderInv, AnswerInv, OnceInv, OwnInv, RefsInv, CountInv, TableInv
<1>2. Sends(fd) # 0
  BY <1>1, SendsOut
<1>3. r \in Requests /\ ~Fresh(r)
  BY <1>1, <1>2 DEF TxOld
<1>4. Upto(r, from)
  BY <1>1 DEF Left
<1>5. r.n \in DOMAIN asked[s]
  <2>1. ~Untaken(r)
    <3>1. Untaken(r) => At(r, "client", 0, 0)
      BY DEF At
    <3> QED
      BY <1>3, <3>1 DEF Fresh
  <2>2. taken[s] \in Nat /\ taken[s] <= Len(asked[s]) /\ asked[s] \in Seq(AllKinds)
    BY <1>1 DEF Types, ClientTypes, Asks
  <2>3. r.n \in Nat /\ r.n >= 1 /\ r.n <= taken[s]
    BY <1>3, <2>1, <2>2 DEF Untaken, Requests
  <2> QED
    BY <2>2, <2>3
<1>6. traffic.pipelined => owner[fd] = s /\ \E e \in ToSet(sq) : e.op = "send" /\ e.fd = fd
  BY DEF OrderInv, StraightInv, Straight
<1>7. ASSUME traffic.pipelined, NEW q \in Requests, q.sock = s, q.n > r.n
      PROVE  Fresh(q)
  BY <1>1, <1>6, <1>7 DEF Unsent
<1>8. ASSUME traffic.pipelined, NEW m \in Nat \ {0}, NEW p \in 1 .. Parts, m < r.n
      PROVE  Wired(s, m, p)
  <2>1. PICK q \in Requests : q = [sock |-> s, n |-> m]
    BY DEF Requests
  <2>2. ~Fresh(q)
    BY <1>1, <1>3, <1>8, <2>1 DEF Suffix
  <2>3. ASSUME NEW g \in Fds, Carries(g, q, p) PROVE FALSE
    <3>1. owner[g] = s /\ conns[g].tx = q /\ s # None
      BY <2>1, <2>3, WorkerAssumption DEF Carries
    <3>2. g = fd
      BY <1>1, <1>6, <1>8, <3>1 DEF Owners
    <3>3. q.n = r.n /\ q.n = m /\ m \in Nat
      BY <2>1, <3>1, <3>2
    <3> QED
      BY <1>8, <3>3
  <2> QED
    BY <1>1, <2>1, <2>2, <2>3 DEF Owed
<1>9. ASSUME NEW p \in 1 .. Parts, p < from
      PROVE  Wired(s, r.n, p)
  <2>1. r = [sock |-> s, n |-> r.n] /\ r.n \in Nat \ {0}
    BY <1>3 DEF Requests
  <2>2. ASSUME NEW g \in Fds, Carries(g, r, p) PROVE FALSE
    <3>1. conns[g].tx = r /\ Rest(g, p)
      BY <2>2 DEF Carries
    <3>2. Sends(g) # 0
      BY <1>1, <3>1, SendsOut DEF Rest
    <3>3. g = fd
      BY <1>1, <1>2, <3>1, <3>2 DEF TxApart
    <3>4. conns[fd].txSent \in Nat /\ p \in Nat /\ from \in Nat
      BY <1>1 DEF Types, WorkerTypes, Conn
    <3>5. PICK x : x = conns[fd].txSent /\ x \in Nat /\ p < x + 1
      BY <1>9, <3>4
    <3>6. \E e \in ToSet(cq) : e.op = "send" /\ e.fd = fd /\ x + e.n < p
      BY <1>1, <3>1, <3>3, <3>4, <3>5 DEF Rest, Left
    <3>7. PICK e \in ToSet(cq) : x + e.n < p
      BY <3>6
    <3>8. e.n \in Nat
      BY <1>1, CqFds DEF Cqes
    <3> QED
      BY <3>4, <3>5, <3>7, <3>8
  <2> QED
    BY <1>1, <1>3, <2>1, <2>2 DEF Owed
<1> QED
  BY <1>1, <1>3, <1>4, <1>5, <1>7, <1>8, <1>9, ReachedHere

LEMMA InOrderStep ==
  ASSUME OrderInv, \A t \in Traffics : Ordered(t), Types', [Next]_vars
  PROVE  InOrder'
<1>1. Types /\ WireInv /\ WireParts /\ NoDuplicates /\ OnceInv /\ RefsInv /\ InOrder
  BY DEF OrderInv, AnswerInv, OnceInv, RefsInv, CountInv, TableInv
<1>2. traffic' = traffic /\ Parts' = Parts
  BY <1>1, TrafficKept DEF Parts
<1>3. CASE wire' = wire
  BY <1>1, <1>2, <1>3 DEF InOrder
<1>4. ASSUME NEW s \in Socks, NEW r \in Requests, NEW from \in 1 .. Parts, NEW to, Wrote(s, r, from, to),
             ~Ended(s) => Reached(s, r.n, from)
      PROVE  InOrder'
  <2>1. ASSUME client[s] = "open"
        PROVE  Len(wire[s]) = ((r.n - 1) * Parts + from) - 1
    <3>1. ~Ended(s)
      BY <1>4, <2>1, WorkerAssumption DEF Wrote, Ended
    <3>2. r.n \in Nat /\ r.n >= 1
      BY DEF Requests
    <3> QED
      BY <1>1, <1>4, <3>1, <3>2, ReachedLen
  <2> QED
    BY <1>1, <1>2, <1>4, <2>1, WroteInOrder
<1>5. 1 \in 1 .. Parts /\ Parts \in Nat
  BY <1>1, UnitCounts
<1>6. CASE RespondWrite \/ SendSimple
  <2>1. PICK r : r = frame.req
    OBVIOUS
  <2>2. r \in Requests /\ r.sock \in Socks /\ (Wrote(r.sock, r, 1, Parts) \/ wire' = wire)
    BY <1>1, <1>6, <2>1, AnswerWrote
  <2>3. ~Ended(r.sock) => Reached(r.sock, r.n, 1)
    BY <1>6, <2>1, AnswersReach
  <2> QED
    BY <1>3, <1>4, <1>5, <2>2, <2>3
<1>7. CASE DrainMalformed
  <2>1. PICK r : r = Head(conns[frame.fd].buf)
    OBVIOUS
  <2>2. r \in Requests /\ r.sock \in Socks /\ (Wrote(r.sock, r, 1, Parts) \/ wire' = wire)
    BY <1>1, <1>7, <2>1, MalformedWrote
  <2>3. Reached(r.sock, r.n, 1)
    BY <1>7, <2>1, MalformedReach
  <2> QED
    BY <1>3, <1>4, <1>5, <2>2, <2>3
<1>8. ASSUME NEW fd \in Fds, NEW s, NEW n \in 0 .. Parts, Runs(fd, s, n),
             \/ \E e \in pending : e.fd = fd
             \/ owner[fd] = s /\ \E e \in ToSet(sq) : e.op = "send" /\ e.fd = fd
      PROVE  InOrder'
  <2>1. CASE n = 0
    BY <1>3, <1>8, <2>1 DEF Runs
  <2>2. CASE n # 0
    <3>1. PICK r, k : r = conns[fd].tx /\ k = conns[fd].txSent
      OBVIOUS
    <3>2. Wrote(s, r, k + 1, k + n) /\ k \in Nat
      BY <1>1, <1>8, <2>2, <3>1 DEF Runs, Types, WorkerTypes, Conn
    <3>3. s \in Socks /\ r \in Requests /\ r.sock = s /\ k + n <= Parts
      BY <3>2 DEF Wrote
    <3>4. PICK from \in 1 .. Parts : from = k + 1
      BY <1>5, <2>2, <3>2, <3>3
    <3>5. ~Ended(s) => Reached(s, r.n, from)
      BY <1>8, <3>1, <3>3, <3>4, SendReach
    <3> QED
      BY <1>4, <3>2, <3>3, <3>4, <3>5
  <2> QED
    BY <2>1, <2>2
<1>9. CASE SubmitSend
  <2>1. PICK fd \in Fds : Queued(fd) /\ (wire' = wire \/ \E n \in 0 .. Parts : Runs(fd, owner[fd], n))
    BY <1>1, <1>9, SubmitForms
  <2>2. Head(sq) \in ToSet(sq) /\ Head(sq).op = "send" /\ Head(sq).fd = fd
    BY <1>1, <2>1, HeadIn DEF Queued, Types, KernelTypes
  <2> QED
    BY <1>3, <1>8, <2>1, <2>2
<1>10. CASE PendingSend
  <2>1. PICK x \in pending, n \in 0 .. Parts : Runs(x.fd, x.sock, n)
    BY <1>1, <1>10, PendingForms
  <2>2. x.fd \in Fds
    BY <2>1 DEF Runs
  <2> QED
    BY <1>8, <2>1, <2>2
<1> QED
  BY <1>1, <1>3, <1>6, <1>7, <1>9, <1>10, WireKept

LEMMA OrderStep ==
  ASSUME QuietReuse, \A t \in Traffics : Ordered(t), OrderInv, [Next]_vars
  PROVE  OrderInv'
<1>1. /\ AnswerInv /\ Types /\ RefsInv /\ Once /\ OnceInv /\ OwnInv /\ TxWhole /\ Flushed
      /\ InQueues /\ Asks /\ StraightInv /\ Suffix /\ Unsent /\ SerialDone /\ InOrder
  BY DEF OrderInv, AnswerInv, OnceInv, RefsInv, CountInv, TableInv
<1>2. AnswerInv' /\ Types'
  BY <1>1, AnswerStep DEF AnswerInv, HeldInv
<1>3. InQueues' /\ Asks' /\ StraightInv'
  BY <1>1, <1>2, InQueuesStep, AsksStep, StraightStep
<1>4. Suffix' /\ Unsent' /\ SerialDone'
  BY <1>1, <1>2, SuffixStep, UnsentStep, SerialDoneStep
<1>5. InOrder'
  BY <1>2, InOrderStep
<1> QED
  BY <1>2, <1>3, <1>4, <1>5 DEF OrderInv

LEMMA OrderInit == Init => OrderInv
<1> SUFFICES ASSUME Init PROVE OrderInv
  OBVIOUS
<1>1. AnswerInv /\ Types
  BY AnswerInit DEF AnswerInv, HeldInv
<1>2. /\ cq = <<>> /\ sq = <<>> /\ pending = {} /\ parked = None /\ back = "recv" /\ pc = "top"
      /\ traffic \in Traffics /\ DOMAIN cq = {} /\ ToSet(cq) = {} /\ ToSet(sq) = {}
      /\ \A fd \in Fds : ~conns[fd].inUse
      /\ \A s \in Socks : asked[s] = <<>> /\ taken[s] = 0 /\ wire[s] = <<>>
  BY DEF Init, NoConn, ToSet
<1>3. InQueues
  BY <1>2 DEF InQueues, CqOrder, BufOrder, BufCqOrder, BufKnown
<1>4. Asks /\ SerialDone
  BY <1>2 DEF Asks, SerialDone
<1>5. StraightInv /\ Unsent /\ InOrder
  BY <1>2 DEF StraightInv, Straight, WholeSends, Unsent, InOrder
<1>6. Suffix
  <2> SUFFICES ASSUME NEW r \in Requests PROVE Fresh(r)
    BY DEF Suffix
  <2>1. r.sock \in Socks /\ r.n \in Nat /\ r.n > 0
    BY DEF Requests
  <2>2. At(r, "client", 0, 0)
    BY <1>2, <2>1 DEF At, Untaken
  <2> QED
    BY <2>2 DEF Fresh
<1> QED
  BY <1>1, <1>3, <1>4, <1>5, <1>6 DEF OrderInv

(* What a client receives is always the beginning of its responses, whole, *)
(* once each, in the order of its requests: rt_http_respond submits the    *)
(* SENDs that are queued before it writes a large response itself, and a   *)
(* short SEND is gone on with before anything else of its connection.  It  *)
(* is so for clients that wait for each answer, whatever they ask for, and *)
(* for those that pipeline if nothing answers around the queue (malformed  *)
(* requests, no response of a handler, GPU jobs) and no SEND is delayed:   *)
(* with any of these it is not, as the run HttpOrderSimple shows of one.   *)
THEOREM AnswersInOrder ==
  ASSUME QuietReuse, \A t \in Traffics : Ordered(t) PROVE Spec => []InOrder
<1>1. Init => OrderInv
  BY OrderInit
<1>2. OrderInv /\ [Next]_vars => OrderInv'
  BY OrderStep
<1>3. OrderInv => InOrder
  BY DEF OrderInv
<1> QED
  BY <1>1, <1>2, <1>3, PTL DEF Spec
=============================================================================
