------------------------- MODULE HttpWorker_proofs -------------------------
(***************************************************************************)
(* What an HTTP worker promises whatever its clients send: for any         *)
(* sockets, descriptors, traffic and parts of a response, with short sends *)
(* and delayed ones or without.                                            *)
(*                                                                         *)
(* Six inductive invariants, each built on the one before:                 *)
(*   Types     what every variable is, and where the worker is in its code *)
(*   TableInv  an open descriptor is in use or its accept is queued        *)
(*   CountInv  how many recvs and SENDs each descriptor has anywhere       *)
(*   RefsInv   what refers to a descriptor is about the socket that has it *)
(*   AskInv    who is about to be closed asked for it                      *)
(*   OnceInv   (on RefsInv) where a request is until it is answered, and   *)
(*             how far each SEND got                                       *)
(* and beside them HeldInv, for the requests left in receive buffers, and  *)
(* BuffersInv, for the buffers themselves.                                 *)
(* CountInv and what is built on it need QuietReuse: that a number is      *)
(* given to the next client only when nothing refers to it any more.       *)
(***************************************************************************)
EXTENDS HttpWorker, FiniteSetTheorems, TLAPS

Sqes == [op : {"recv", "send"}, fd : Fds, from : Nat]
Cqes == [op : {"accept", "recv", "nobufs", "send"}, fd : Fds, reqs : Seq(Requests), n : Nat,
         more : BOOLEAN]
Conn == [inUse : BOOLEAN, buf : Seq(Requests), cap : {"none", "small", "big"}, closeAfterTx : BOOLEAN,
         tx : Requests \cup {None}, txFlight : BOOLEAN, txSent : Nat, txTotal : Nat]

(* The types of the clients, of the kernel and of the worker *)
ClientTypes ==
  /\ traffic \in Traffic
  /\ client \in [Socks -> {"new", "backlog", "open", "gone"}]
  /\ asked \in [Socks -> Seq(AllKinds)]
  /\ taken \in [Socks -> Nat]

KernelTypes ==
  /\ owner \in [Fds -> Socks \cup {None}]
  /\ shut \subseteq Socks
  /\ armed \subseteq [sock : Socks, fd : Fds]
  /\ pending \subseteq [sock : Socks, fd : Fds, from : Nat]
  /\ sq \in Seq(Sqes)
  /\ cq \in Seq(Cqes)

WorkerTypes ==
  /\ pc \in {"top", "wait", "batch", "ready", "drain", "respond", "write", "simple", "responded",
             "recvTail", "submit", "hung"}
  /\ back \in {"recv", "ready", "release"} /\ ret \in {"top", "batch"}
  /\ after \in {"top", "wait", "write"}
  /\ frame \in [fd : Fds \cup {None}, req : Requests \cup {None}, closing : BOOLEAN]
  /\ rearm \in BOOLEAN
  /\ conns \in [Fds -> Conn]
  /\ ready \in Seq(Fds)
  /\ parked \in [fd : Fds, req : Requests] \cup {None}

(* A request is being answered, over the connection frame.fd. *)
Serving ==
  pc \in {"respond", "write", "simple", "responded"} \/ (pc = "submit" /\ after = "write")

(* Where the worker is at a connection, it has one, and a request of it. *)
Framed ==
  /\ Serving \/ pc \in {"drain", "recvTail"} => frame.fd \in Fds
  /\ pc = "drain" => back # "release"
  /\ Serving =>
       /\ conns[frame.fd].inUse /\ frame.req \in Requests
       /\ back = "release"
          \/ (conns[frame.fd].buf # <<>> /\ frame.req = Head(conns[frame.fd].buf))
  /\ rearm => back = "recv" /\ (Serving \/ pc \in {"drain", "recvTail"})

Types == ClientTypes /\ KernelTypes /\ WorkerTypes /\ Framed

----------------------------------------------------------------------------
(* What the handlers that change the table of connections do to it *)

LEMMA ConnSet ==
  ASSUME conns \in [Fds -> Conn], NEW fd \in Fds, NEW c \in Conn, conns' = [conns EXCEPT ![fd] = c]
  PROVE  /\ conns' \in [Fds -> Conn] /\ conns'[fd] = c
         /\ \A g \in Fds : g # fd => conns'[g] = conns[g]
  OBVIOUS

Touches(fd) ==
  /\ fd \in Fds /\ conns' \in [Fds -> Conn]
  /\ \A g \in Fds : g # fd => conns'[g] = conns[g]

KeepsTx(fd) ==
  /\ conns'[fd].tx = conns[fd].tx /\ conns'[fd].txFlight = conns[fd].txFlight
  /\ conns'[fd].txSent = conns[fd].txSent /\ conns'[fd].txTotal = conns[fd].txTotal

LEMMA RespondAsyncStep ==
  ASSUME Types, RespondAsync
  PROVE  LET fd == frame.fd IN
         /\ fd \in Fds /\ conns' \in [Fds -> Conn]
         /\ \A g \in Fds : g # fd => conns'[g] = conns[g]
         /\ conns[fd].inUse /\ ~conns[fd].txFlight /\ frame.req \in Requests
         /\ conns'[fd].inUse /\ conns'[fd].buf = conns[fd].buf /\ conns'[fd].cap = conns[fd].cap
         /\ conns'[fd].tx = frame.req /\ conns'[fd].txFlight
         /\ conns'[fd].txSent = 0 /\ conns'[fd].txTotal = Parts /\ conns'[fd].closeAfterTx = frame.closing
         /\ sq' = Append(sq, [op |-> "send", fd |-> fd, from |-> 1])
         /\ sq' \in Seq(Sqes)
<1> DEFINE fd == frame.fd
           c == [conns[fd] EXCEPT !.tx = frame.req, !.txFlight = TRUE, !.txSent = 0,
                                  !.txTotal = Parts, !.closeAfterTx = frame.closing]
<1>1. fd \in Fds /\ conns[fd].inUse /\ frame.req \in Requests /\ frame.closing \in BOOLEAN
  BY DEF RespondAsync, Types, WorkerTypes, Framed, Serving
<1>2. conns \in [Fds -> Conn] /\ conns[fd] \in Conn /\ Parts \in Nat
  BY <1>1 DEF Types, WorkerTypes, ClientTypes, Traffic, Parts
<1>3. c \in Conn
  BY <1>1, <1>2 DEF Conn
<1>4. /\ c.inUse = conns[fd].inUse /\ c.buf = conns[fd].buf /\ c.cap = conns[fd].cap
      /\ c.tx = frame.req /\ c.txFlight /\ c.closeAfterTx = frame.closing
      /\ c.txSent = 0 /\ c.txTotal = Parts
  BY <1>2 DEF Conn
<1>5. conns' = [conns EXCEPT ![fd] = c]
  BY DEF RespondAsync
<1> HIDE DEF c
<1>6. /\ conns' \in [Fds -> Conn] /\ conns'[fd] = c
      /\ \A g \in Fds : g # fd => conns'[g] = conns[g]
  BY <1>1, <1>2, <1>3, <1>5, ConnSet
<1>7. /\ sq' = Append(sq, [op |-> "send", fd |-> fd, from |-> 1]) /\ ~conns[fd].txFlight
      /\ sq' \in Seq(Sqes)
  BY <1>1 DEF RespondAsync, Prepare, Types, KernelTypes, Sqes
<1> QED
  BY <1>1, <1>4, <1>6, <1>7

LEMMA DroppedConn ==
  ASSUME NEW c \in Conn
  PROVE  /\ Dropped(c) \in Conn /\ ~Dropped(c).inUse /\ Dropped(c).buf = <<>>
         /\ Dropped(c).cap = c.cap /\ Dropped(c).tx = c.tx /\ Dropped(c).txFlight = c.txFlight
         /\ Dropped(c).txSent = c.txSent /\ Dropped(c).txTotal = c.txTotal
         /\ Dropped(c).closeAfterTx = c.closeAfterTx
<1>1. <<>> \in Seq(Requests)
  OBVIOUS
<1>2. \A e \in Seq(Requests) : [c EXCEPT !.inUse = FALSE, !.buf = e] \in Conn
  BY DEF Conn
<1>3. Dropped(c) \in Conn
  BY Zenon, <1>1, <1>2 DEF Dropped
<1> QED
  BY <1>3 DEF Dropped, Conn

(* What close(2) does to the descriptor table *)
LEMMA CloseStep ==
  ASSUME Types, NEW fd \in Fds, NEW b \in BOOLEAN, Close(fd, b)
  PROVE  /\ owner' \in [Fds -> Socks \cup {None}] /\ owner'[fd] = None
         /\ \A g \in Fds : g # fd => owner'[g] = owner[g]
         /\ shut' \subseteq Socks /\ shut \subseteq shut'
         /\ \A s \in shut' : s \in shut \/ (s = owner[fd] /\ s # None)
  BY DEF Close, Types, KernelTypes

LEMMA DrainMalformedStep ==
  ASSUME Types, DrainMalformed
  PROVE  LET fd == frame.fd
             req == Head(conns[fd].buf) IN
         /\ Touches(fd) /\ conns[fd].inUse /\ conns[fd].buf # <<>>
         /\ ~conns'[fd].inUse /\ conns'[fd].cap = conns[fd].cap /\ KeepsTx(fd)
         /\ Kind(req) = "malformed" /\ Close(fd, TRUE)
         /\ \E ok \in WriteOutcomes(fd) : Written(fd, req, ok)
         /\ pc = "drain" /\ pc' = DrainReturn
         /\ UNCHANGED <<clientVars, kernelVars, sq, job, callVars, frame, needSubmit, ready, parked>>
<1> DEFINE fd == frame.fd
           c == Dropped(conns[fd])
<1>1. fd \in Fds /\ conns \in [Fds -> Conn] /\ conns[fd] \in Conn
  BY DEF DrainMalformed, DrainHead, Types, WorkerTypes, Framed
<1>2. /\ c \in Conn /\ ~c.inUse /\ c.cap = conns[fd].cap
      /\ c.tx = conns[fd].tx /\ c.txFlight = conns[fd].txFlight
      /\ c.txSent = conns[fd].txSent /\ c.txTotal = conns[fd].txTotal
  BY <1>1, DroppedConn
<1>3. conns' = [conns EXCEPT ![fd] = c]
  BY DEF DrainMalformed
<1> HIDE DEF c
<1>4. Touches(fd) /\ conns'[fd] = c
  BY <1>1, <1>2, <1>3, ConnSet DEF Touches
<1> QED
  BY <1>2, <1>4 DEF DrainMalformed, DrainHead, KeepsTx

LEMMA DrainParkStep ==
  ASSUME Types, DrainPark
  PROVE  LET fd == frame.fd IN
         /\ Touches(fd) /\ conns[fd].inUse /\ conns[fd].buf # <<>> /\ KeepsTx(fd)
         /\ conns'[fd].inUse /\ conns'[fd].buf = Tail(conns[fd].buf)
         /\ conns'[fd].cap = conns[fd].cap /\ conns'[fd].closeAfterTx = conns[fd].closeAfterTx
         /\ parked = None /\ parked' = [fd |-> fd, req |-> Head(conns[fd].buf)]
         /\ parked' \in [fd : Fds, req : Requests]
         /\ ready' = IF Len(conns[fd].buf) > 1 THEN Enqueued(fd) ELSE ready
         /\ job' \in {"running", "done", "failed"}
         /\ pc = "drain" /\ pc' = DrainReturn
         /\ UNCHANGED <<clientVars, wire, tableVars, kernelVars, sq, callVars, frame, needSubmit>>
<1> DEFINE fd == frame.fd
           c == [conns[fd] EXCEPT !.buf = Tail(conns[fd].buf)]
<1>1. /\ fd \in Fds /\ conns \in [Fds -> Conn] /\ conns[fd] \in Conn
      /\ conns[fd].inUse /\ conns[fd].buf # <<>>
  BY DEF DrainPark, DrainHead, Types, WorkerTypes, Framed
<1>2. conns[fd].buf \in Seq(Requests) /\ Tail(conns[fd].buf) \in Seq(Requests) /\ Head(conns[fd].buf) \in Requests
  BY <1>1 DEF Conn
<1>3. /\ c \in Conn /\ c.inUse /\ c.buf = Tail(conns[fd].buf) /\ c.cap = conns[fd].cap
      /\ c.closeAfterTx = conns[fd].closeAfterTx
      /\ c.tx = conns[fd].tx /\ c.txFlight = conns[fd].txFlight
      /\ c.txSent = conns[fd].txSent /\ c.txTotal = conns[fd].txTotal
  BY <1>1, <1>2 DEF Conn
<1>4. conns' = [conns EXCEPT ![fd] = c]
  BY DEF DrainPark
<1> HIDE DEF c
<1>5. Touches(fd) /\ conns'[fd] = c
  BY <1>1, <1>3, <1>4, ConnSet DEF Touches
<1>6. /\ parked = None /\ parked' = [fd |-> fd, req |-> Head(conns[fd].buf)]
      /\ ready' = IF Len(conns[fd].buf) > 1 THEN Enqueued(fd) ELSE ready
      /\ job' = "running" /\ pc = "drain" /\ pc' = DrainReturn
      /\ UNCHANGED <<clientVars, wire, tableVars, kernelVars, sq, callVars, frame, needSubmit>>
  BY DEF DrainPark, DrainHead
<1>7. parked' \in [fd : Fds, req : Requests]
  BY <1>1, <1>2, <1>6
<1> QED
  BY <1>1, <1>3, <1>5, <1>6, <1>7 DEF KeepsTx

(* The end of a dispatch goes on, waits for the SEND in flight, or closes. *)
LEMMA RespondedStep ==
  ASSUME Types, Responded
  PROVE  LET fd == frame.fd
             rest == IF back = "release" THEN conns[fd].buf ELSE Tail(conns[fd].buf)
             goOn == IF back = "release" THEN "ready" ELSE DrainReturn IN
         /\ Touches(fd) /\ conns[fd].inUse /\ KeepsTx(fd) /\ conns'[fd].cap = conns[fd].cap
         /\ back = "release" \/ conns[fd].buf # <<>>
         /\ \/ /\ ~frame.closing /\ conns'[fd].inUse /\ conns'[fd].buf = rest
               /\ conns'[fd].closeAfterTx = conns[fd].closeAfterTx
               /\ pc' = IF back = "release" \/ rest = <<>> THEN goOn ELSE "drain"
               /\ UNCHANGED tableVars
            \/ /\ frame.closing /\ conns[fd].txFlight /\ conns'[fd].inUse
               /\ conns'[fd].buf = rest /\ conns'[fd].closeAfterTx
               /\ pc' = goOn
               /\ UNCHANGED tableVars
            \/ /\ frame.closing /\ ~conns'[fd].inUse /\ Close(fd, TRUE)
               /\ pc' = goOn
         /\ pc = "responded"
         /\ UNCHANGED <<clientVars, wire, kernelVars, sq, job, callVars, frame, needSubmit, ready, parked>>
<1> DEFINE fd == frame.fd
           rest == IF back = "release" THEN conns[fd].buf ELSE Tail(conns[fd].buf)
           a == [conns[fd] EXCEPT !.buf = rest]
           b == [conns[fd] EXCEPT !.buf = rest, !.closeAfterTx = TRUE]
           c == Dropped(conns[fd])
<1>1. /\ fd \in Fds /\ conns \in [Fds -> Conn] /\ conns[fd] \in Conn /\ conns[fd].inUse
      /\ back = "release" \/ conns[fd].buf # <<>>
  BY DEF Responded, Types, WorkerTypes, Framed, Serving
<1>2. rest \in Seq(Requests)
  BY <1>1 DEF Conn
<1> HIDE DEF rest
<1>3. /\ a \in Conn /\ a.inUse /\ a.buf = rest /\ a.closeAfterTx = conns[fd].closeAfterTx
      /\ a.cap = conns[fd].cap /\ a.tx = conns[fd].tx /\ a.txFlight = conns[fd].txFlight
      /\ a.txSent = conns[fd].txSent /\ a.txTotal = conns[fd].txTotal
  BY <1>1, <1>2 DEF Conn
<1>4. /\ b \in Conn /\ b.inUse /\ b.buf = rest /\ b.closeAfterTx
      /\ b.cap = conns[fd].cap /\ b.tx = conns[fd].tx /\ b.txFlight = conns[fd].txFlight
      /\ b.txSent = conns[fd].txSent /\ b.txTotal = conns[fd].txTotal
  BY <1>1, <1>2 DEF Conn
<1>5. /\ c \in Conn /\ ~c.inUse
      /\ c.cap = conns[fd].cap /\ c.tx = conns[fd].tx /\ c.txFlight = conns[fd].txFlight
      /\ c.txSent = conns[fd].txSent /\ c.txTotal = conns[fd].txTotal
  BY <1>1, DroppedConn
<1>6. CASE ~frame.closing
  <2>1. conns' = [conns EXCEPT ![fd] = a]
    BY <1>6 DEF Responded, rest
  <2> HIDE DEF a
  <2>2. Touches(fd) /\ conns'[fd] = a
    BY <1>1, <1>3, <2>1, ConnSet DEF Touches
  <2> QED
    BY <1>1, <1>3, <1>6, <2>2 DEF Responded, KeepsTx, rest
<1>7. CASE frame.closing /\ conns[fd].txFlight
  <2>1. conns' = [conns EXCEPT ![fd] = b]
    <3>1. conns' = [conns EXCEPT ![fd].buf = rest, ![fd].closeAfterTx = TRUE]
      BY <1>7 DEF Responded, rest
    <3> QED
      BY <1>1, <3>1
  <2> HIDE DEF b
  <2>2. Touches(fd) /\ conns'[fd] = b
    BY <1>1, <1>4, <2>1, ConnSet DEF Touches
  <2> QED
    BY <1>1, <1>4, <1>7, <2>2 DEF Responded, KeepsTx, rest
<1>8. CASE frame.closing /\ ~conns[fd].txFlight
  <2>1. conns' = [conns EXCEPT ![fd] = c]
    BY <1>8 DEF Responded
  <2> HIDE DEF c
  <2>2. Touches(fd) /\ conns'[fd] = c
    BY <1>1, <1>5, <2>1, ConnSet DEF Touches
  <2> QED
    BY <1>1, <1>5, <1>8, <2>2 DEF Responded, KeepsTx
<1> QED
  BY <1>6, <1>7, <1>8

(* The completion at the head of the queue *)
LEMMA HeadCqe ==
  ASSUME Types, cq # <<>>
  PROVE  /\ Head(cq) \in Cqes /\ Tail(cq) \in Seq(Cqes) /\ Head(cq).fd \in Fds
         /\ conns \in [Fds -> Conn] /\ conns[Head(cq).fd] \in Conn
<1>1. cq \in Seq(Cqes) /\ conns \in [Fds -> Conn]
  BY DEF Types, KernelTypes, WorkerTypes
<1>2. Head(cq) \in Cqes /\ Tail(cq) \in Seq(Cqes)
  BY <1>1
<1>3. Head(cq).fd \in Fds
  BY <1>2 DEF Cqes
<1> QED
  BY <1>1, <1>2, <1>3

LEMMA AcceptCqeStep ==
  ASSUME Types, AcceptCqe
  PROVE  LET fd == Head(cq).fd IN
         /\ Touches(fd) /\ conns'[fd].inUse /\ conns'[fd].buf = <<>> /\ conns'[fd].cap # "none"
         /\ conns'[fd].tx = conns[fd].tx /\ conns'[fd].txSent = conns[fd].txSent
         /\ ~conns'[fd].txFlight /\ ~conns'[fd].closeAfterTx
         /\ sq' = Append(sq, [op |-> "recv", fd |-> fd, from |-> 0]) /\ sq' \in Seq(Sqes)
         /\ CqeIs("accept") /\ Consume
         /\ UNCHANGED <<clientVars, wire, tableVars, job, pc, callVars, frame, ready, parked>>
<1> DEFINE fd == Head(cq).fd
           c == [conns[fd] EXCEPT !.inUse = TRUE, !.buf = <<>>, !.txFlight = FALSE,
                   !.closeAfterTx = FALSE, !.cap = IF @ = "none" THEN "small" ELSE @]
<1>1. fd \in Fds /\ conns \in [Fds -> Conn] /\ conns[fd] \in Conn
  BY HeadCqe DEF AcceptCqe, CqeIs
<1>2. <<>> \in Seq(Requests)
  OBVIOUS
<1>3. /\ c \in Conn /\ c.inUse /\ c.buf = <<>> /\ c.cap # "none" /\ c.tx = conns[fd].tx
      /\ c.txSent = conns[fd].txSent /\ ~c.txFlight /\ ~c.closeAfterTx
  <2>1. \A e \in Seq(Requests) :
          [conns[fd] EXCEPT !.inUse = TRUE, !.buf = e, !.txFlight = FALSE,
                   !.closeAfterTx = FALSE, !.cap = IF @ = "none" THEN "small" ELSE @] \in Conn
    BY <1>1 DEF Conn
  <2>2. c \in Conn
    BY Zenon, <1>2, <2>1
  <2> QED
    BY <1>1, <2>2 DEF Conn
<1>4. conns' = [conns EXCEPT ![fd] = c]
  BY DEF AcceptCqe
<1> HIDE DEF c
<1>5. Touches(fd) /\ conns'[fd] = c
  BY <1>1, <1>3, <1>4, ConnSet DEF Touches
<1>6. sq' = Append(sq, [op |-> "recv", fd |-> fd, from |-> 0]) /\ sq' \in Seq(Sqes)
  BY <1>1 DEF AcceptCqe, Prepare, Types, KernelTypes, Sqes
<1> QED
  BY <1>3, <1>5, <1>6 DEF AcceptCqe

LEMMA SendCqeStep ==
  ASSUME Types, SendCqe
  PROVE  LET fd == Head(cq).fd
             n == Head(cq).n IN
         /\ Touches(fd) /\ conns'[fd].tx = conns[fd].tx
         /\ \/ /\ n > 0
               /\ conns'[fd].inUse = conns[fd].inUse /\ conns'[fd].buf = conns[fd].buf
               /\ conns'[fd].cap = conns[fd].cap /\ conns'[fd].txFlight = conns[fd].txFlight
               /\ conns'[fd].closeAfterTx = conns[fd].closeAfterTx
               /\ conns'[fd].txSent = conns[fd].txSent + n /\ conns'[fd].txTotal = conns[fd].txTotal
               /\ n < conns[fd].txTotal - conns[fd].txSent
               /\ sq' = Append(sq, [op |-> "send", fd |-> fd, from |-> conns[fd].txSent + n + 1])
               /\ UNCHANGED tableVars
            \/ /\ conns[fd].inUse /\ (n = 0 \/ conns[fd].closeAfterTx)
               /\ ~(n > 0 /\ conns[fd].txTotal > 0 /\ n < conns[fd].txTotal - conns[fd].txSent)
               /\ ~conns'[fd].inUse /\ ~conns'[fd].txFlight
               /\ Close(fd, conns[fd].closeAfterTx)
               /\ UNCHANGED sq
            \/ /\ ~(conns[fd].inUse /\ (n = 0 \/ conns[fd].closeAfterTx))
               /\ ~(n > 0 /\ conns[fd].txTotal > 0 /\ n < conns[fd].txTotal - conns[fd].txSent)
               /\ conns'[fd].inUse = conns[fd].inUse /\ conns'[fd].buf = conns[fd].buf
               /\ conns'[fd].cap = conns[fd].cap /\ ~conns'[fd].txFlight
               /\ conns'[fd].closeAfterTx = conns[fd].closeAfterTx
               /\ UNCHANGED <<sq, tableVars>>
         /\ sq' \in Seq(Sqes)
         /\ CqeIs("send") /\ Consume
         /\ UNCHANGED <<clientVars, wire, job, pc, callVars, frame, ready, parked>>
<1> DEFINE fd == Head(cq).fd
           n == Head(cq).n
           idle == [conns[fd] EXCEPT !.txFlight = FALSE, !.txSent = 0, !.txTotal = 0]
           a == [conns[fd] EXCEPT !.txSent = conns[fd].txSent + n]
           b == [Trimmed(Dropped(idle)) EXCEPT !.closeAfterTx = FALSE]
           e == [op |-> "send", fd |-> fd, from |-> conns[fd].txSent + n + 1]
<1>1. fd \in Fds /\ conns \in [Fds -> Conn] /\ conns[fd] \in Conn /\ n \in Nat
  BY HeadCqe DEF SendCqe, CqeIs, Cqes
<1>2. /\ idle \in Conn /\ idle.inUse = conns[fd].inUse /\ idle.buf = conns[fd].buf
      /\ idle.cap = conns[fd].cap /\ idle.tx = conns[fd].tx /\ ~idle.txFlight
      /\ idle.closeAfterTx = conns[fd].closeAfterTx
  BY <1>1 DEF Conn
<1>3. /\ a \in Conn /\ a.inUse = conns[fd].inUse /\ a.buf = conns[fd].buf
      /\ a.cap = conns[fd].cap /\ a.tx = conns[fd].tx /\ a.txFlight = conns[fd].txFlight
      /\ a.closeAfterTx = conns[fd].closeAfterTx
      /\ a.txSent = conns[fd].txSent + n /\ a.txTotal = conns[fd].txTotal
  <2>1. conns[fd].txSent + n \in Nat
    BY <1>1 DEF Conn
  <2>2. \A m \in Nat : [conns[fd] EXCEPT !.txSent = m] \in Conn
    BY <1>1 DEF Conn
  <2>3. a \in Conn
    BY <2>1, <2>2
  <2> QED
    BY <1>1, <2>3 DEF Conn
<1>4. b \in Conn /\ ~b.inUse /\ b.tx = conns[fd].tx /\ ~b.txFlight
  <2>1. /\ Dropped(idle) \in Conn /\ ~Dropped(idle).inUse /\ Dropped(idle).tx = conns[fd].tx
        /\ ~Dropped(idle).txFlight
    BY <1>2, DroppedConn
  <2> HIDE DEF idle
  <2>2. \A d \in Conn : LET t == [Trimmed(d) EXCEPT !.closeAfterTx = FALSE] IN
          t \in Conn /\ t.inUse = d.inUse /\ t.tx = d.tx /\ t.txFlight = d.txFlight
    BY DEF Trimmed, Conn
  <2> QED
    BY <2>1, <2>2
<1>5. sq \in Seq(Sqes) /\ e \in Sqes
  <2>1. conns[fd].txSent + n + 1 \in Nat
    BY <1>1 DEF Conn
  <2> QED
    BY <1>1, <2>1 DEF Types, KernelTypes, Sqes
<1>6. /\ CqeIs("send") /\ Consume
      /\ UNCHANGED <<clientVars, wire, job, pc, callVars, frame, ready, parked>>
  BY DEF SendCqe
<1>7. CASE n > 0 /\ conns[fd].txTotal > 0 /\ n < conns[fd].txTotal - conns[fd].txSent
  <2>1. conns' = [conns EXCEPT ![fd] = a] /\ sq' = Append(sq, e) /\ UNCHANGED tableVars
    <3>1. conns' = [conns EXCEPT ![fd].txSent = @ + n] /\ sq' = Append(sq, e) /\ UNCHANGED tableVars
      BY <1>7 DEF SendCqe, Prepare
    <3> QED
      BY <1>1, <3>1
  <2> HIDE DEF a, e
  <2>2. Touches(fd) /\ conns'[fd] = a
    BY <1>1, <1>3, <2>1, ConnSet DEF Touches
  <2>3. sq' \in Seq(Sqes)
    BY <1>5, <2>1
  <2> QED
    BY <1>3, <1>6, <1>7, <2>1, <2>2, <2>3 DEF e
<1> DEFINE ends == conns[fd].inUse /\ (n = 0 \/ conns[fd].closeAfterTx)
<1>8. CASE ~(n > 0 /\ conns[fd].txTotal > 0 /\ n < conns[fd].txTotal - conns[fd].txSent) /\ ends
  <2>1. conns' = [conns EXCEPT ![fd] = b] /\ UNCHANGED sq /\ Close(fd, conns[fd].closeAfterTx)
    BY <1>8 DEF SendCqe
  <2> HIDE DEF b
  <2>2. Touches(fd) /\ conns'[fd] = b
    BY <1>1, <1>4, <2>1, ConnSet DEF Touches
  <2> QED
    BY <1>4, <1>5, <1>6, <1>8, <2>1, <2>2
<1>9. CASE ~(n > 0 /\ conns[fd].txTotal > 0 /\ n < conns[fd].txTotal - conns[fd].txSent) /\ ~ends
  <2>1. conns' = [conns EXCEPT ![fd] = idle] /\ UNCHANGED <<sq, tableVars>>
    BY <1>9 DEF SendCqe
  <2> HIDE DEF idle
  <2>2. Touches(fd) /\ conns'[fd] = idle
    BY <1>1, <1>2, <2>1, ConnSet DEF Touches
  <2> QED
    BY <1>2, <1>5, <1>6, <1>9, <2>1, <2>2
<1> QED
  BY <1>7, <1>8, <1>9

LEMMA RecvEndCqeStep ==
  ASSUME Types, RecvEndCqe
  PROVE  LET fd == Head(cq).fd IN
         /\ Touches(fd) /\ KeepsTx(fd) /\ ~conns'[fd].inUse
         /\ \/ conns[fd].inUse /\ Close(fd, FALSE)
            \/ ~conns[fd].inUse /\ UNCHANGED <<conns, tableVars>>
         /\ CqeIs("recv") /\ Head(cq).reqs = <<>> /\ Consume
         /\ UNCHANGED <<clientVars, wire, sq, job, pc, callVars, frame, needSubmit, ready, parked>>
<1> DEFINE fd == Head(cq).fd
           c == Trimmed(Dropped(conns[fd]))
<1>1. fd \in Fds /\ conns \in [Fds -> Conn] /\ conns[fd] \in Conn
  BY HeadCqe DEF RecvEndCqe, CqeIs
<1>2. /\ c \in Conn /\ ~c.inUse /\ c.tx = conns[fd].tx /\ c.txFlight = conns[fd].txFlight
      /\ c.txSent = conns[fd].txSent /\ c.txTotal = conns[fd].txTotal
  <2>1. /\ Dropped(conns[fd]) \in Conn /\ ~Dropped(conns[fd]).inUse
        /\ Dropped(conns[fd]).tx = conns[fd].tx /\ Dropped(conns[fd]).txFlight = conns[fd].txFlight
        /\ Dropped(conns[fd]).txSent = conns[fd].txSent /\ Dropped(conns[fd]).txTotal = conns[fd].txTotal
    BY <1>1, DroppedConn
  <2>2. \A d \in Conn : /\ Trimmed(d) \in Conn /\ Trimmed(d).inUse = d.inUse
                        /\ Trimmed(d).tx = d.tx /\ Trimmed(d).txFlight = d.txFlight
                        /\ Trimmed(d).txSent = d.txSent /\ Trimmed(d).txTotal = d.txTotal
    BY DEF Trimmed, Conn
  <2> QED
    BY <2>1, <2>2
<1>3. CASE conns[fd].inUse
  <2>1. conns' = [conns EXCEPT ![fd] = c] /\ Close(fd, FALSE)
    BY <1>3 DEF RecvEndCqe
  <2> HIDE DEF c
  <2>2. Touches(fd) /\ conns'[fd] = c
    BY <1>1, <1>2, <2>1, ConnSet DEF Touches
  <2> QED
    BY <1>2, <1>3, <2>1, <2>2 DEF RecvEndCqe, KeepsTx
<1>4. CASE ~conns[fd].inUse
  BY <1>1, <1>4 DEF RecvEndCqe, KeepsTx, Touches
<1> QED
  BY <1>3, <1>4

LEMMA RecvDataCqeStep ==
  ASSUME Types, RecvDataCqe
  PROVE  LET fd == Head(cq).fd IN
         /\ Touches(fd) /\ KeepsTx(fd)
         /\ conns'[fd].inUse = conns[fd].inUse
         /\ conns'[fd].closeAfterTx = conns[fd].closeAfterTx
         /\ \/ pc' = "hung" /\ UNCHANGED <<kernelVars, conns, back, frame, rearm>>
            \/ /\ conns[fd].cap # "none" /\ conns'[fd].cap # "none"
               /\ conns'[fd].buf = conns[fd].buf \o Head(cq).reqs
               /\ pc' = "drain" /\ back' = "recv" /\ rearm' = ~Head(cq).more
               /\ frame' = [frame EXCEPT !.fd = fd]
               /\ Consume
         /\ CqeIs("recv") /\ Head(cq).reqs # <<>>
         /\ UNCHANGED <<clientVars, wire, tableVars, sq, job, ret, after, needSubmit, ready, parked>>
<1> DEFINE fd == Head(cq).fd
           big == \E i \in DOMAIN Head(cq).reqs : Kind(Head(cq).reqs[i]) = "uploadClose"
           c == [conns[fd] EXCEPT !.buf = @ \o Head(cq).reqs, !.cap = IF big THEN "big" ELSE @]
<1>1. /\ fd \in Fds /\ conns \in [Fds -> Conn] /\ conns[fd] \in Conn
      /\ Head(cq).reqs \in Seq(Requests)
  BY HeadCqe DEF RecvDataCqe, CqeIs, Cqes
<1>2. conns[fd].buf \o Head(cq).reqs \in Seq(Requests)
  BY <1>1 DEF Conn
<1> HIDE DEF big
<1>3. /\ c \in Conn /\ c.buf = conns[fd].buf \o Head(cq).reqs /\ c.inUse = conns[fd].inUse
      /\ c.closeAfterTx = conns[fd].closeAfterTx
      /\ c.tx = conns[fd].tx /\ c.txFlight = conns[fd].txFlight
      /\ c.txSent = conns[fd].txSent /\ c.txTotal = conns[fd].txTotal
      /\ conns[fd].cap # "none" => c.cap # "none"
  BY <1>1, <1>2 DEF Conn
<1>4. /\ CqeIs("recv") /\ Head(cq).reqs # <<>>
      /\ UNCHANGED <<clientVars, wire, tableVars, sq, job, ret, after, needSubmit, ready, parked>>
  BY DEF RecvDataCqe
<1>5. CASE conns[fd].cap = "none"
  BY <1>1, <1>4, <1>5 DEF RecvDataCqe, KeepsTx, Touches
<1>6. CASE conns[fd].cap # "none"
  <2>1. conns' = [conns EXCEPT ![fd] = c]
    <3>1. conns' = [conns EXCEPT ![fd].buf = @ \o Head(cq).reqs, ![fd].cap = IF big THEN "big" ELSE @]
      BY <1>6 DEF RecvDataCqe, big
    <3> QED
      BY <1>1, <3>1
  <2> HIDE DEF c
  <2>2. Touches(fd) /\ conns'[fd] = c
    BY <1>1, <1>3, <2>1, ConnSet DEF Touches
  <2>3. /\ pc' = "drain" /\ back' = "recv" /\ rearm' = ~Head(cq).more
        /\ frame' = [frame EXCEPT !.fd = fd] /\ Consume
    BY <1>6 DEF RecvDataCqe
  <2> QED
    BY <1>3, <1>4, <1>6, <2>2, <2>3 DEF KeepsTx
<1> QED
  BY <1>5, <1>6

----------------------------------------------------------------------------
LEMMA InitTypes == Init => Types
<1> SUFFICES ASSUME Init PROVE Types
  OBVIOUS
<1>1. ClientTypes /\ KernelTypes
  BY WorkerAssumption DEF Init, ClientTypes, KernelTypes
<1>2. NoConn \in Conn
  BY DEF NoConn, Conn
<1>3. WorkerTypes
  <2>1. frame \in [fd : Fds \cup {None}, req : Requests \cup {None}, closing : BOOLEAN]
    BY DEF Init
  <2>2. conns \in [Fds -> Conn]
    BY <1>2 DEF Init
  <2>3. ready \in Seq(Fds) /\ parked \in [fd : Fds, req : Requests] \cup {None}
    BY DEF Init
  <2> QED
    BY <2>1, <2>2, <2>3 DEF Init, WorkerTypes
<1>4. Framed
  BY DEF Init, Framed, Serving
<1> QED
  BY <1>1, <1>3, <1>4 DEF Types

LEMMA RespondTypes ==
  ASSUME Types, RespondAsync \/ RespondInOrder \/ RespondWrite \/ SendSimple
  PROVE  Types'
<1>1. CASE RespondAsync
  <2>1. ClientTypes' /\ KernelTypes'
    BY <1>1, RespondAsyncStep DEF RespondAsync, Types, ClientTypes, KernelTypes, clientVars, kernelVars, tableVars
  <2>2. WorkerTypes' /\ Framed'
    BY <1>1, RespondAsyncStep DEF RespondAsync, Types, WorkerTypes, Framed, Serving, callVars
  <2> QED
    BY <2>1, <2>2 DEF Types
<1>2. CASE RespondInOrder
  BY <1>2 DEF RespondInOrder, Types, ClientTypes, KernelTypes, WorkerTypes, Framed, Serving, clientVars, kernelVars, tableVars, callVars
<1>3. CASE RespondWrite
  BY <1>3 DEF RespondWrite, Types, ClientTypes, KernelTypes, WorkerTypes, Framed, Serving, clientVars, kernelVars, tableVars, callVars
<1>4. CASE SendSimple
  BY <1>4 DEF SendSimple, Types, ClientTypes, KernelTypes, WorkerTypes, Framed, Serving, clientVars, kernelVars, tableVars, callVars
<1> QED
  BY <1>1, <1>2, <1>3, <1>4

LEMMA DrainTypes ==
  ASSUME Types, \/ DrainNothing \/ DrainMalformed \/ DrainWait \/ DrainPark \/ DrainDispatch
                \/ Responded
  PROVE  Types'
<1>1. CASE DrainNothing
  BY <1>1 DEF DrainNothing, DrainReturn, Types, ClientTypes, KernelTypes, WorkerTypes, Framed, Serving, clientVars, kernelVars, tableVars, callVars
<1>2. CASE DrainMalformed
  <2>1. owner' \in [Fds -> Socks \cup {None}] /\ shut' \subseteq Socks
    BY <1>2, DrainMalformedStep, CloseStep DEF Touches
  <2>2. ClientTypes' /\ KernelTypes'
    BY <1>2, <2>1, DrainMalformedStep DEF Types, ClientTypes, KernelTypes, clientVars, kernelVars
  <2>3. /\ pc' = IF back = "recv" THEN "recvTail" ELSE "ready"
        /\ UNCHANGED <<back, ret, after, rearm, frame, ready, parked>>
        /\ conns' \in [Fds -> Conn] /\ pc = "drain"
    BY <1>2, DrainMalformedStep DEF Touches, DrainReturn, callVars
  <2>4. WorkerTypes' /\ Framed'
    BY <2>3 DEF Types, WorkerTypes, Framed, Serving
  <2> QED
    BY <2>2, <2>4 DEF Types
<1>3. CASE DrainWait
  <2>1. ready' \in Seq(Fds)
    BY <1>3 DEF DrainWait, DrainHead, Enqueued, Types, WorkerTypes, Framed
  <2> QED
    BY <1>3, <2>1 DEF DrainWait, DrainHead, DrainReturn, Types, ClientTypes, KernelTypes, WorkerTypes, Framed, Serving, clientVars, kernelVars, tableVars, callVars
<1>4. CASE DrainPark
  <2>1. ready' \in Seq(Fds)
    <3>1. ready' = IF Len(conns[frame.fd].buf) > 1 THEN Enqueued(frame.fd) ELSE ready
      BY <1>4, DrainParkStep
    <3>2. frame.fd \in Fds /\ ready \in Seq(Fds)
      BY <1>4, DrainParkStep DEF Touches, Types, WorkerTypes
    <3> QED
      BY <3>1, <3>2 DEF Enqueued
  <2> QED
    <3>1. ClientTypes' /\ KernelTypes'
      BY <1>4, DrainParkStep
         DEF Types, ClientTypes, KernelTypes, clientVars, kernelVars, tableVars
    <3>2. /\ pc = "drain" /\ pc' = DrainReturn /\ conns' \in [Fds -> Conn]
          /\ parked' \in [fd : Fds, req : Requests]
          /\ UNCHANGED <<back, ret, after, rearm, frame>>
      BY <1>4, DrainParkStep DEF Touches, callVars
    <3>3. WorkerTypes' /\ Framed'
      BY <2>1, <3>2 DEF DrainReturn, Types, WorkerTypes, Framed, Serving
    <3> QED
      BY <3>1, <3>3 DEF Types
<1>5. CASE DrainDispatch
  <2>1. /\ frame.fd \in Fds /\ conns[frame.fd].inUse /\ conns[frame.fd].buf # <<>>
        /\ Head(conns[frame.fd].buf) \in Requests
    BY <1>5 DEF DrainDispatch, DrainHead, Types, WorkerTypes, Framed, Conn
  <2>2. Closing(Kind(Head(conns[frame.fd].buf))) \in BOOLEAN
    BY DEF Closing
  <2>3. /\ frame' \in [fd : Fds \cup {None}, req : Requests \cup {None}, closing : BOOLEAN]
        /\ frame'.fd = frame.fd /\ frame'.req = Head(conns[frame.fd].buf)
    BY <1>5, <2>1, <2>2 DEF DrainDispatch, Types, WorkerTypes
  <2>4. pc = "drain" /\ pc' \in {"simple", "respond"}
        /\ UNCHANGED <<clientVars, wire, tableVars, kernelVars, sq, job, callVars, needSubmit, conns,
                       ready, parked>>
    BY <1>5 DEF DrainDispatch, DrainHead
  <2> QED
    BY <2>1, <2>3, <2>4 DEF Types, ClientTypes, KernelTypes, WorkerTypes, Framed, Serving, clientVars, kernelVars, tableVars, callVars
<1>6. CASE Responded
  <2>1. owner' \in [Fds -> Socks \cup {None}] /\ shut' \subseteq Socks
    BY <1>6, RespondedStep, CloseStep DEF Touches, tableVars, Types, KernelTypes
  <2>2. ClientTypes' /\ KernelTypes'
    BY <1>6, <2>1, RespondedStep DEF Types, ClientTypes, KernelTypes, clientVars, kernelVars
  <2>3. /\ pc = "responded" /\ conns' \in [Fds -> Conn]
        /\ pc' \in {"ready", "drain", "recvTail"}
        /\ pc' = "drain" => back # "release"
        /\ back = "recv" => pc' # "ready"
        /\ UNCHANGED <<back, ret, after, rearm, frame, ready, parked>>
    BY <1>6, RespondedStep DEF Touches, DrainReturn, callVars
  <2>4. WorkerTypes' /\ Framed'
    BY <2>3 DEF Types, WorkerTypes, Framed, Serving
  <2> QED
    BY <2>2, <2>4 DEF Types
<1> QED
  BY <1>1, <1>2, <1>3, <1>4, <1>5, <1>6

LEMMA LoopTypes ==
  ASSUME Types, \/ ReadyNext \/ ReadyDone \/ Top \/ GpuRelease("top") \/ GpuRelease("batch")
                \/ Wake \/ EndBatch \/ Submitted
  PROVE  Types'
<1>1. CASE ReadyNext
  <2>1. ready \in Seq(Fds) /\ Head(ready) \in Fds /\ Tail(ready) \in Seq(Fds)
    BY <1>1 DEF ReadyNext, Types, WorkerTypes
  <2> QED
    BY <1>1, <2>1 DEF ReadyNext, Types, ClientTypes, KernelTypes, WorkerTypes, Framed, Serving, clientVars, kernelVars, tableVars, callVars
<1>2. CASE ReadyDone
  BY <1>2 DEF ReadyDone, Types, ClientTypes, KernelTypes, WorkerTypes, Framed, Serving, clientVars, kernelVars, tableVars, callVars
<1>3. CASE Top
  BY <1>3 DEF Top, Types, ClientTypes, KernelTypes, WorkerTypes, Framed, Serving, clientVars, kernelVars, tableVars, callVars
<1>4. ASSUME NEW from \in {"top", "batch"}, GpuRelease(from) PROVE Types'
  <2>1. parked \in [fd : Fds, req : Requests] /\ parked.fd \in Fds /\ parked.req \in Requests
    BY <1>4 DEF GpuRelease, Types, WorkerTypes
  <2>2. ClientTypes' /\ KernelTypes'
    BY <1>4 DEF GpuRelease, Types, ClientTypes, KernelTypes, clientVars, kernelVars, tableVars
  <2>3. /\ pc \in {"top", "batch"} /\ parked' = None /\ ret' \in {"top", "batch"}
        /\ \/ /\ conns[parked.fd].inUse /\ frame' = [fd |-> parked.fd, req |-> parked.req, closing |-> FALSE]
              /\ back' = "release" /\ pc' \in {"simple", "respond"}
           \/ pc' = "ready" /\ UNCHANGED <<frame, back>>
        /\ UNCHANGED <<after, rearm, conns, ready>>
    BY <1>4 DEF GpuRelease
  <2>4. ~rearm
    BY <2>3 DEF Types, Framed, Serving
  <2>5. WorkerTypes' /\ Framed'
    <3>1. CASE pc' = "ready" /\ UNCHANGED <<frame, back>>
      BY <2>3, <2>4, <3>1 DEF Types, WorkerTypes, Framed, Serving
    <3>2. CASE /\ conns[parked.fd].inUse /\ frame' = [fd |-> parked.fd, req |-> parked.req, closing |-> FALSE]
               /\ back' = "release" /\ pc' \in {"simple", "respond"}
      <4>1. frame' \in [fd : Fds \cup {None}, req : Requests \cup {None}, closing : BOOLEAN]
        BY <2>1, <3>2
      <4>2. frame'.fd = parked.fd /\ frame'.req = parked.req
        BY <3>2
      <4>3. parked' \in [fd : Fds, req : Requests] \cup {None}
        BY <2>3
      <4> QED
        BY <2>1, <2>3, <2>4, <3>2, <4>1, <4>2, <4>3 DEF Types, WorkerTypes, Framed, Serving
    <3> QED
      BY <2>3, <3>1, <3>2
  <2> QED
    BY <2>2, <2>5 DEF Types
<1>5. CASE Wake
  BY <1>5 DEF Wake, Types, ClientTypes, KernelTypes, WorkerTypes, Framed, Serving, clientVars, kernelVars, tableVars, callVars
<1>6. CASE EndBatch
  BY <1>6 DEF EndBatch, Types, ClientTypes, KernelTypes, WorkerTypes, Framed, Serving, clientVars, kernelVars, tableVars, callVars
<1>7. CASE Submitted
  BY <1>7 DEF Submitted, Types, ClientTypes, KernelTypes, WorkerTypes, Framed, Serving, clientVars, kernelVars, tableVars, callVars
<1> QED
  BY <1>1, <1>2, <1>3, <1>4, <1>5, <1>6, <1>7

LEMMA CqeTypes ==
  ASSUME Types, \/ AcceptCqe \/ SendCqe \/ RecvEndCqe \/ RecvNoBufsCqe \/ RecvDataCqe \/ RecvTail
  PROVE  Types'
<1>1. CASE AcceptCqe
  <2>1. cq' \in Seq(Cqes)
    BY <1>1, HeadCqe DEF AcceptCqe, CqeIs, Consume
  <2> QED
    <3>1. ClientTypes' /\ KernelTypes'
      BY <1>1, <2>1, AcceptCqeStep
         DEF Consume, Types, ClientTypes, KernelTypes, clientVars, tableVars
    <3>2. /\ conns' \in [Fds -> Conn] /\ pc = "batch"
          /\ UNCHANGED <<pc, back, ret, after, rearm, frame, ready, parked>>
      BY <1>1, AcceptCqeStep DEF Touches, CqeIs, callVars
    <3>3. WorkerTypes' /\ Framed'
      BY <3>2 DEF Types, WorkerTypes, Framed, Serving
    <3> QED
      BY <3>1, <3>3 DEF Types
<1>2. CASE SendCqe
  <2>1. cq' \in Seq(Cqes) /\ conns[Head(cq).fd].closeAfterTx \in BOOLEAN
    BY <1>2, HeadCqe DEF SendCqe, CqeIs, Consume, Conn
  <2>2. owner' \in [Fds -> Socks \cup {None}] /\ shut' \subseteq Socks
    BY <1>2, <2>1, SendCqeStep, CloseStep DEF Touches, tableVars, Types, KernelTypes
  <2>3. ClientTypes' /\ KernelTypes'
    BY <1>2, <2>1, <2>2, SendCqeStep DEF Consume, Types, ClientTypes, KernelTypes, clientVars
  <2>4. WorkerTypes' /\ Framed'
    BY <1>2, SendCqeStep DEF Touches, CqeIs, Types, WorkerTypes, Framed, Serving, callVars
  <2> QED
    BY <2>3, <2>4 DEF Types
<1>3. CASE RecvEndCqe
  <2>1. cq' \in Seq(Cqes)
    BY <1>3, HeadCqe DEF RecvEndCqe, CqeIs, Consume
  <2>2. owner' \in [Fds -> Socks \cup {None}] /\ shut' \subseteq Socks
    BY <1>3, <2>1, RecvEndCqeStep, CloseStep DEF Touches, tableVars, Types, KernelTypes
  <2>3. ClientTypes' /\ KernelTypes'
    BY <1>3, <2>1, <2>2, RecvEndCqeStep DEF Consume, Types, ClientTypes, KernelTypes, clientVars
  <2>4. /\ conns' \in [Fds -> Conn] /\ pc = "batch"
        /\ UNCHANGED <<pc, back, ret, after, rearm, frame, ready, parked>>
    BY <1>3, RecvEndCqeStep DEF Touches, CqeIs, callVars
  <2>5. WorkerTypes' /\ Framed'
    BY <2>4 DEF Types, WorkerTypes, Framed, Serving
  <2> QED
    BY <2>3, <2>5 DEF Types
<1>4. CASE RecvNoBufsCqe
  <2>1. cq' \in Seq(Cqes) /\ Head(cq).fd \in Fds
    BY <1>4, HeadCqe DEF RecvNoBufsCqe, CqeIs, Consume
  <2>2. sq' \in Seq(Sqes)
    <3>1. [op |-> "recv", fd |-> Head(cq).fd, from |-> 0] \in Sqes /\ sq \in Seq(Sqes)
      BY <2>1 DEF Types, KernelTypes, Sqes
    <3> QED
      BY <1>4, <3>1 DEF RecvNoBufsCqe, Prepare
  <2> QED
    BY <1>4, <2>1, <2>2 DEF RecvNoBufsCqe, CqeIs, Consume, Types, ClientTypes, KernelTypes, WorkerTypes, Framed, Serving, clientVars, kernelVars, tableVars, callVars
<1>5. CASE RecvDataCqe
  <2>1. cq' \in Seq(Cqes) /\ Head(cq).fd \in Fds /\ Head(cq).more \in BOOLEAN
    BY Zenon, <1>5, HeadCqe, RecvDataCqeStep DEF RecvDataCqe, CqeIs, Consume, Cqes, kernelVars, Types, KernelTypes
  <2>2. ClientTypes' /\ KernelTypes'
    BY Zenon, <1>5, <2>1, RecvDataCqeStep DEF Consume, Types, ClientTypes, KernelTypes, clientVars, kernelVars, tableVars
  <2>3. /\ conns' \in [Fds -> Conn] /\ pc = "batch" /\ UNCHANGED <<ret, after, ready, parked>>
        /\ \/ pc' = "hung" /\ UNCHANGED <<back, frame, rearm>>
           \/ /\ pc' = "drain" /\ back' = "recv" /\ rearm' \in BOOLEAN
              /\ frame' = [frame EXCEPT !.fd = Head(cq).fd]
    BY Zenon, <1>5, <2>1, RecvDataCqeStep DEF CqeIs, Touches
  <2>4. WorkerTypes' /\ Framed'
    <3>1. CASE pc' = "hung" /\ UNCHANGED <<back, frame, rearm>>
      BY <2>3, <3>1 DEF Types, WorkerTypes, Framed, Serving
    <3>2. CASE /\ pc' = "drain" /\ back' = "recv" /\ rearm' \in BOOLEAN
               /\ frame' = [frame EXCEPT !.fd = Head(cq).fd]
      <4>1. /\ frame' \in [fd : Fds \cup {None}, req : Requests \cup {None}, closing : BOOLEAN]
            /\ frame'.fd \in Fds
        BY <2>1, <3>2 DEF Types, WorkerTypes
      <4> QED
        BY <2>3, <3>2, <4>1 DEF Types, WorkerTypes, Framed, Serving
    <3> QED
      BY <2>3, <3>1, <3>2
  <2> QED
    BY <2>2, <2>4 DEF Types
<1>6. CASE RecvTail
  <2>1. sq' \in Seq(Sqes)
    <3>1. [op |-> "recv", fd |-> frame.fd, from |-> 0] \in Sqes /\ sq \in Seq(Sqes)
      BY <1>6 DEF RecvTail, Types, KernelTypes, Framed, Sqes
    <3> QED
      BY <1>6, <3>1 DEF RecvTail, Prepare
  <2> QED
    BY <1>6, <2>1 DEF RecvTail, Types, ClientTypes, KernelTypes, WorkerTypes, Framed, Serving, clientVars, kernelVars, tableVars, callVars
<1> QED
  BY <1>1, <1>2, <1>3, <1>4, <1>5, <1>6

(* A completion that the kernel adds *)
LEMMA CqeAdded ==
  ASSUME Types, NEW e \in Cqes, cq' = Append(cq, e)
  PROVE  cq' \in Seq(Cqes)
  BY DEF Types, KernelTypes

LEMMA UnitCounts ==
  ASSUME Types
  PROVE  Parts \in 1 .. 2 /\ \A n \in 0 .. Parts : n \in Nat
  BY DEF Types, ClientTypes, Traffic, Parts

LEMMA SendExecutesStep ==
  ASSUME Types, NEW s \in Socks \cup {None}, NEW fd \in Fds, NEW from \in Nat, NEW n \in Nat,
         SendExecutes(s, fd, from, n)
  PROVE  /\ cq' = Append(cq, Cqe("send", fd, <<>>, n, FALSE))
         /\ Cqe("send", fd, <<>>, n, FALSE) \in Cqes /\ cq' \in Seq(Cqes)
<1>1. cq' = Append(cq, Cqe("send", fd, <<>>, n, FALSE))
  BY DEF SendExecutes
<1>2. Cqe("send", fd, <<>>, n, FALSE) \in Cqes
  <2>1. <<>> \in Seq(Requests)
    OBVIOUS
  <2> QED
    BY <2>1 DEF Cqe, Cqes
<1> QED
  BY <1>1, <1>2, CqeAdded

(* An entry of the submission queue *)
LEMMA HeadSqe ==
  ASSUME Types, sq # <<>>
  PROVE  /\ Head(sq) \in Sqes /\ Tail(sq) \in Seq(Sqes) /\ Head(sq).fd \in Fds
         /\ Head(sq).from \in Nat /\ owner[Head(sq).fd] \in Socks \cup {None}
<1>1. sq \in Seq(Sqes)
  BY DEF Types, KernelTypes
<1>2. Head(sq) \in Sqes /\ Tail(sq) \in Seq(Sqes)
  BY <1>1
<1> QED
  BY <1>2 DEF Types, KernelTypes, Sqes

LEMMA SubmitTypes ==
  ASSUME Types, SubmitRecv \/ SubmitSend
  PROVE  Types'
<1>1. CASE SubmitRecv
  <2> DEFINE fd == Head(sq).fd
  <2>1. fd \in Fds /\ owner[fd] \in Socks \cup {None} /\ sq' \in Seq(Sqes)
    BY <1>1, HeadSqe DEF SubmitRecv
  <2> HIDE DEF fd
  <2>2. Cqe("recv", fd, <<>>, 0, FALSE) \in Cqes
    <3>1. <<>> \in Seq(Requests)
      OBVIOUS
    <3> QED
      BY <2>1, <3>1 DEF Cqe, Cqes
  <2>3. cq' \in Seq(Cqes) /\ armed' \subseteq [sock : Socks, fd : Fds]
    <3>1. CASE owner[fd] = None
      BY <1>1, <2>2, <3>1, CqeAdded DEF SubmitRecv, fd, Types, KernelTypes
    <3>2. CASE owner[fd] # None
      BY <1>1, <2>1, <3>2 DEF SubmitRecv, fd, Types, KernelTypes
    <3> QED
      BY <3>1, <3>2
  <2>4. UNCHANGED <<clientVars, wire, tableVars, taken, pending, job, pc, callVars, frame,
                    needSubmit, conns, ready, parked>>
    BY <1>1 DEF SubmitRecv
  <2> QED
    BY <2>1, <2>3, <2>4 DEF Types, ClientTypes, KernelTypes, WorkerTypes, Framed, Serving, clientVars, kernelVars, tableVars, callVars
<1>2. CASE SubmitSend
  <2> DEFINE e == Head(sq)
  <2>1. e.fd \in Fds /\ e.from \in Nat /\ owner[e.fd] \in Socks \cup {None} /\ sq' \in Seq(Sqes)
    BY <1>2, HeadSqe DEF SubmitSend
  <2> HIDE DEF e
  <2>2. cq' \in Seq(Cqes) /\ pending' \subseteq [sock : Socks, fd : Fds, from : Nat]
    <3>1. CASE /\ \E n \in 0 .. Parts : SendExecutes(owner[e.fd], e.fd, e.from, n)
               /\ UNCHANGED pending
      <4>1. PICK n \in 0 .. Parts : SendExecutes(owner[e.fd], e.fd, e.from, n)
        BY <3>1
      <4>2. n \in Nat
        BY UnitCounts
      <4>3. cq' \in Seq(Cqes)
        BY <2>1, <4>1, <4>2, SendExecutesStep
      <4> QED
        BY <3>1, <4>3 DEF Types, KernelTypes
    <3>2. CASE /\ traffic.backpressure /\ owner[e.fd] # None
               /\ pending' = pending \cup {[sock |-> owner[e.fd], fd |-> e.fd, from |-> e.from]}
               /\ UNCHANGED <<wire, cq>>
      BY <2>1, <3>2 DEF Types, KernelTypes
    <3> QED
      BY <1>2, <3>1, <3>2 DEF SubmitSend, e
  <2>3. UNCHANGED <<clientVars, tableVars, taken, armed, job, pc, callVars, frame,
                    needSubmit, conns, ready, parked>>
    BY <1>2 DEF SubmitSend
  <2> QED
    BY <2>1, <2>2, <2>3 DEF Types, ClientTypes, KernelTypes, WorkerTypes, Framed, Serving, clientVars, kernelVars, tableVars, callVars
<1> QED
  BY <1>1, <1>2

LEMMA KernelStep ==
  ASSUME Types, Kernel
  PROVE  /\ pc = "wait" /\ UNCHANGED workerVars
         /\ UNCHANGED <<traffic, asked, shut>>
  BY DEF Kernel, PendingSend, Recv, RecvNoBufs, RecvEnd, JobEnds, Accept, clientVars, tableVars, kernelVars

LEMMA KernelTypesKept ==
  ASSUME Types, Kernel
  PROVE  Types'
<1>0. <<>> \in Seq(Requests)
  OBVIOUS
<1>1. WorkerTypes' /\ Framed'
  <2>1. UNCHANGED <<pc, back, ret, after, rearm, frame, conns, ready, parked>>
    BY KernelStep DEF workerVars, callVars
  <2> QED
    BY <2>1 DEF Types, WorkerTypes, Framed, Serving
<1>2. sq' = sq
  BY KernelStep DEF workerVars
<1>3. CASE PendingSend
  <2>1. PICK e \in pending, n \in 0 .. Parts :
          SendExecutes(e.sock, e.fd, e.from, n) /\ pending' = pending \ {e}
    BY <1>3 DEF PendingSend
  <2>2. e.sock \in Socks /\ e.fd \in Fds /\ e.from \in Nat
    BY DEF Types, KernelTypes
  <2>3. cq' \in Seq(Cqes)
    <3>1. n \in Nat
      BY UnitCounts
    <3> QED
      BY <2>1, <2>2, <3>1, SendExecutesStep
  <2>4. ClientTypes' /\ KernelTypes'
    BY <1>2, <1>3, <2>1, <2>3 DEF PendingSend, Types, ClientTypes, KernelTypes, clientVars, tableVars
  <2> QED
    BY <1>1, <2>4 DEF Types
<1>4. CASE Recv
  <2>1. PICK e \in armed, more \in BOOLEAN :
          \E k \in (taken[e.sock] + 1) .. Len(asked[e.sock]) :
            /\ taken' = [taken EXCEPT ![e.sock] = k]
            /\ cq' = Append(cq, Cqe("recv", e.fd,
                 [i \in 1 .. (k - taken[e.sock]) |-> [sock |-> e.sock, n |-> taken[e.sock] + i]],
                 0, more))
            /\ armed' = IF more THEN armed ELSE armed \ {e}
    BY <1>4 DEF Recv
  <2>2. PICK k \in (taken[e.sock] + 1) .. Len(asked[e.sock]) :
            /\ taken' = [taken EXCEPT ![e.sock] = k]
            /\ cq' = Append(cq, Cqe("recv", e.fd,
                 [i \in 1 .. (k - taken[e.sock]) |-> [sock |-> e.sock, n |-> taken[e.sock] + i]],
                 0, more))
            /\ armed' = IF more THEN armed ELSE armed \ {e}
    BY <2>1
  <2>3. e.sock \in Socks /\ e.fd \in Fds /\ taken[e.sock] \in Nat /\ Len(asked[e.sock]) \in Nat
    BY DEF Types, KernelTypes, ClientTypes
  <2> DEFINE reqs == [i \in 1 .. (k - taken[e.sock]) |-> [sock |-> e.sock, n |-> taken[e.sock] + i]]
  <2>4. reqs \in Seq(Requests) /\ k \in Nat
    <3>1. k \in Nat /\ k - taken[e.sock] \in Nat
      BY <2>3
    <3>2. \A i \in 1 .. (k - taken[e.sock]) : [sock |-> e.sock, n |-> taken[e.sock] + i] \in Requests
      BY <2>3 DEF Requests
    <3> QED
      BY <3>1, <3>2
  <2> HIDE DEF reqs
  <2>5. Cqe("recv", e.fd, reqs, 0, more) \in Cqes
    BY <2>3, <2>4 DEF Cqe, Cqes
  <2>6. cq' \in Seq(Cqes)
    BY <2>2, <2>5, CqeAdded DEF reqs
  <2>7. ClientTypes' /\ KernelTypes'
    BY <1>2, <1>4, <2>2, <2>3, <2>4, <2>6 DEF Recv, Types, ClientTypes, KernelTypes, clientVars, tableVars
  <2> QED
    BY <1>1, <2>7 DEF Types
<1>5. CASE RecvEnd \/ RecvNoBufs
  <2>1. PICK e \in armed, op \in {"recv", "nobufs"} :
          cq' = Append(cq, Cqe(op, e.fd, <<>>, 0, FALSE)) /\ armed' = armed \ {e}
    BY <1>5 DEF RecvEnd, RecvNoBufs
  <2>2. Cqe(op, e.fd, <<>>, 0, FALSE) \in Cqes
    BY <1>0 DEF Cqe, Cqes, Types, KernelTypes
  <2>3. cq' \in Seq(Cqes)
    BY <2>1, <2>2, CqeAdded
  <2>4. ClientTypes' /\ KernelTypes'
    BY <1>2, <1>5, <2>1, <2>3 DEF RecvEnd, RecvNoBufs, Types, ClientTypes, KernelTypes, clientVars, tableVars
  <2> QED
    BY <1>1, <2>4 DEF Types
<1>6. CASE JobEnds
  <2>1. ClientTypes' /\ KernelTypes'
    BY <1>2, <1>6 DEF JobEnds, Types, ClientTypes, KernelTypes, clientVars, tableVars, kernelVars
  <2> QED
    BY <1>1, <2>1 DEF Types
<1>7. ASSUME NEW s \in Socks, Accept(s) PROVE Types'
  <2>1. PICK fd \in Fds : /\ owner' = [owner EXCEPT ![fd] = s]
                          /\ cq' = Append(cq, Cqe("accept", fd, <<>>, 0, TRUE))
    BY <1>7 DEF Accept
  <2>2. Cqe("accept", fd, <<>>, 0, TRUE) \in Cqes
    BY <1>0 DEF Cqe, Cqes
  <2>3. cq' \in Seq(Cqes)
    BY <2>1, <2>2, CqeAdded
  <2>4. ClientTypes' /\ KernelTypes'
    BY <1>2, <1>7, <2>1, <2>3 DEF Accept, Types, ClientTypes, KernelTypes
  <2> QED
    BY <1>1, <2>4 DEF Types
<1> QED
  BY <1>3, <1>4, <1>5, <1>6, <1>7 DEF Kernel

LEMMA ClientsTypes ==
  ASSUME Types, Clients
  PROVE  Types'
<1>1. PICK s \in Socks : Connect(s) \/ Leave(s) \/ \E kind \in Kinds : Ask(s, kind)
  BY DEF Clients
<1>2. /\ UNCHANGED <<traffic, wire, tableVars, kernelVars, job, workerVars>>
      /\ client' \in [Socks -> {"new", "backlog", "open", "gone"}]
  BY <1>1 DEF Connect, Leave, Ask, Types, ClientTypes
<1>3. asked' \in [Socks -> Seq(AllKinds)]
  <2>1. Kinds \subseteq AllKinds
    BY DEF Kinds, Types, ClientTypes, Traffic
  <2>2. CASE Connect(s) \/ Leave(s)
    BY <2>2 DEF Connect, Leave, Types, ClientTypes
  <2>3. CASE \E kind \in Kinds : Ask(s, kind)
    <3>1. PICK kind \in Kinds : asked' = [asked EXCEPT ![s] = Append(@, kind)]
      BY <2>3 DEF Ask
    <3>2. Append(asked[s], kind) \in Seq(AllKinds)
      BY <2>1 DEF Types, ClientTypes
    <3> QED
      BY <3>1, <3>2 DEF Types, ClientTypes
  <2> QED
    BY <1>1, <2>2, <2>3
<1>4. ClientTypes' /\ KernelTypes'
  BY <1>2, <1>3 DEF Types, ClientTypes, KernelTypes, tableVars, kernelVars, workerVars
<1>5. UNCHANGED <<pc, back, ret, after, rearm, frame, conns, ready, parked>>
  BY <1>2 DEF workerVars, callVars
<1>6. WorkerTypes' /\ Framed'
  BY <1>5 DEF Types, WorkerTypes, Framed, Serving
<1> QED
  BY <1>4, <1>6 DEF Types

LEMMA TypesStep == Types /\ [Next]_vars => Types'
<1> SUFFICES ASSUME Types, [Next]_vars PROVE Types'
  OBVIOUS
<1>1. CASE Serve
  BY <1>1, RespondTypes, DrainTypes, LoopTypes DEF Serve
<1>2. CASE Loop
  BY <1>2, LoopTypes, CqeTypes, SubmitTypes DEF Loop
<1>3. CASE Wake
  BY <1>3, LoopTypes
<1>4. CASE Kernel
  BY <1>4, KernelTypesKept
<1>5. CASE Clients
  BY <1>5, ClientsTypes
<1>6. CASE UNCHANGED vars
  BY <1>6 DEF vars, Types, ClientTypes, KernelTypes, WorkerTypes, Framed, Serving, clientVars, kernelVars, tableVars, callVars
<1> QED
  BY <1>1, <1>2, <1>3, <1>4, <1>5, <1>6 DEF Next, Idle

----------------------------------------------------------------------------
(* How many entries of a queue are in T *)
Count(q, T) == Cardinality({i \in DOMAIN q : q[i] \in T})

LEMMA CountFinite ==
  ASSUME NEW S, NEW q \in Seq(S), NEW T
  PROVE  /\ IsFiniteSet({i \in DOMAIN q : q[i] \in T}) /\ Count(q, T) \in Nat
         /\ Count(q, T) = 0 <=> \A i \in DOMAIN q : q[i] \notin T
<1> DEFINE I == {i \in DOMAIN q : q[i] \in T}
<1>1. DOMAIN q = 1 .. Len(q) /\ Len(q) \in Nat
  OBVIOUS
<1>2. IsFiniteSet(1 .. Len(q)) /\ I \in SUBSET (1 .. Len(q))
  BY <1>1, FS_Interval
<1>3. IsFiniteSet(I)
  BY <1>2, FS_Subset
<1>4. Cardinality(I) \in Nat /\ (Cardinality(I) = 0 <=> I = {})
  BY <1>3, FS_CardinalityType, FS_EmptySet
<1>5. Count(q, T) = Cardinality(I)
  BY DEF Count
<1>6. I = {} <=> \A i \in DOMAIN q : q[i] \notin T
  OBVIOUS
<1> QED
  BY <1>3, <1>4, <1>5, <1>6

LEMMA CountAppend ==
  ASSUME NEW S, NEW q \in Seq(S), NEW e, NEW T
  PROVE  Count(Append(q, e), T) = Count(q, T) + (IF e \in T THEN 1 ELSE 0)
<1> DEFINE I == {i \in DOMAIN q : q[i] \in T}
           J == {i \in DOMAIN Append(q, e) : Append(q, e)[i] \in T}
           n == Len(q) + 1
<1>1. /\ DOMAIN q = 1 .. Len(q) /\ DOMAIN Append(q, e) = 1 .. n /\ Len(q) \in Nat
      /\ \A i \in 1 .. Len(q) : Append(q, e)[i] = q[i]
      /\ Append(q, e)[n] = e
  OBVIOUS
<1>2. IsFiniteSet(I) /\ n \notin I /\ Cardinality(I) \in Nat
  <2>1. IsFiniteSet(I) /\ Cardinality(I) \in Nat
    BY CountFinite DEF Count
  <2>2. n \notin 1 .. Len(q)
    BY <1>1
  <2> QED
    BY <1>1, <2>1, <2>2
<1>3. J = IF e \in T THEN I \cup {n} ELSE I
  <2>1. 1 .. n = (1 .. Len(q)) \cup {n} /\ n \notin 1 .. Len(q)
    BY <1>1
  <2> HIDE DEF n
  <2> QED
    BY <1>1, <2>1
<1> HIDE DEF I, J, n
<1>4. Cardinality(J) = Cardinality(I) + (IF e \in T THEN 1 ELSE 0)
  <2>1. CASE e \in T
    BY <1>2, <1>3, <2>1, FS_AddElement
  <2>2. CASE e \notin T
    BY <1>2, <1>3, <2>2
  <2> QED
    BY <2>1, <2>2
<1> QED
  BY <1>4 DEF Count, I, J

LEMMA CountTail ==
  ASSUME NEW S, NEW q \in Seq(S), q # <<>>, NEW T
  PROVE  Count(Tail(q), T) = Count(q, T) - (IF Head(q) \in T THEN 1 ELSE 0)
<1> DEFINE I == {i \in DOMAIN q : q[i] \in T}
           J == {i \in DOMAIN Tail(q) : Tail(q)[i] \in T}
           f == [i \in J |-> i + 1]
<1>1. /\ DOMAIN q = 1 .. Len(q) /\ Len(q) \in Nat /\ Len(q) >= 1
      /\ DOMAIN Tail(q) = 1 .. (Len(q) - 1)
      /\ \A i \in 1 .. (Len(q) - 1) : Tail(q)[i] = q[i + 1]
      /\ Head(q) = q[1]
  <2>1. Len(q) \in Nat /\ Len(q) # 0
    OBVIOUS
  <2>2. Tail(q) \in Seq(S) /\ Len(Tail(q)) = Len(q) - 1
    OBVIOUS
  <2>3. \A i \in 1 .. (Len(q) - 1) : Tail(q)[i] = q[i + 1]
    OBVIOUS
  <2> QED
    BY <2>1, <2>2, <2>3
<1>2. IsFiniteSet(I) /\ IsFiniteSet(J)
  <2>1. Tail(q) \in Seq(S)
    OBVIOUS
  <2> QED
    BY <2>1, CountFinite
<1>3. f \in Bijection(J, I \ {1})
  <2>1. f \in [J -> I \ {1}]
    BY <1>1
  <2>2. \A a, b \in J : f[a] = f[b] => a = b
    BY <1>1
  <2>3. \A t \in I \ {1} : \E a \in J : f[a] = t
    <3> TAKE t \in I \ {1}
    <3>1. t - 1 \in J /\ (t - 1) + 1 = t
      BY <1>1
    <3> WITNESS t - 1 \in J
    <3> QED
      BY <3>1
  <2> HIDE DEF f, I, J
  <2>4. f \in Injection(J, I \ {1})
    BY <2>1, <2>2 DEF Injection, IsInjective
  <2>5. f \in Surjection(J, I \ {1})
    BY <2>1, <2>3 DEF Surjection
  <2> QED
    BY <2>4, <2>5 DEF Bijection
<1>4. ExistsBijection(J, I \ {1})
  BY <1>3 DEF ExistsBijection
<1> HIDE DEF f
<1>5. Cardinality(I \ {1}) = Cardinality(J)
  BY <1>2, <1>4, FS_Bijection
<1>6. 1 \in I <=> Head(q) \in T
  BY <1>1
<1> HIDE DEF I, J
<1>7. Cardinality(I \ {1}) = IF 1 \in I THEN Cardinality(I) - 1 ELSE Cardinality(I)
  BY <1>2, FS_RemoveElement
<1>8. Cardinality(I) \in Nat
  BY <1>2, FS_CardinalityType
<1>9. Count(q, T) = Cardinality(I) /\ Count(Tail(q), T) = Cardinality(J)
  BY DEF Count, I, J
<1> QED
  BY <1>5, <1>6, <1>7, <1>8, <1>9

AcceptCqes(fd) == {e \in Cqes : e.op = "accept" /\ e.fd = fd}
Accepts(fd) == Count(cq, AcceptCqes(fd))

(* A descriptor that is open has its connection in use, or one completion  *)
(* of an accept that will put it in use; a closed one has neither.         *)
TableAt(fd) ==
  /\ Accepts(fd) = IF owner[fd] # None /\ ~conns[fd].inUse THEN 1 ELSE 0
  /\ conns[fd].inUse => owner[fd] # None

TableInv == Types /\ \A fd \in Fds : TableAt(fd)

(* Completions come and go. *)
LEMMA AcceptsAppend ==
  ASSUME Types, NEW e \in Cqes, cq' = Append(cq, e), NEW fd \in Fds
  PROVE  Accepts(fd)' = Accepts(fd) + (IF e.op = "accept" /\ e.fd = fd THEN 1 ELSE 0)
<1>1. cq \in Seq(Cqes) /\ (e \in AcceptCqes(fd) <=> e.op = "accept" /\ e.fd = fd)
  BY DEF Types, KernelTypes, AcceptCqes
<1>2. Count(Append(cq, e), AcceptCqes(fd)) = Count(cq, AcceptCqes(fd)) + (IF e \in AcceptCqes(fd) THEN 1 ELSE 0)
  BY <1>1, CountAppend
<1> QED
  BY <1>1, <1>2 DEF Accepts, AcceptCqes

LEMMA AcceptsTail ==
  ASSUME Types, cq # <<>>, cq' = Tail(cq), NEW fd \in Fds
  PROVE  /\ Accepts(fd)' = Accepts(fd) - (IF Head(cq).op = "accept" /\ Head(cq).fd = fd THEN 1 ELSE 0)
         /\ Accepts(fd) \in Nat /\ Accepts(fd)' \in Nat
<1>1. /\ cq \in Seq(Cqes) /\ Tail(cq) \in Seq(Cqes)
      /\ Head(cq) \in AcceptCqes(fd) <=> Head(cq).op = "accept" /\ Head(cq).fd = fd
  BY HeadCqe DEF Types, KernelTypes, AcceptCqes
<1>2. Count(Tail(cq), AcceptCqes(fd)) = Count(cq, AcceptCqes(fd)) - (IF Head(cq) \in AcceptCqes(fd) THEN 1 ELSE 0)
  BY <1>1, CountTail
<1>3. Count(cq, AcceptCqes(fd)) \in Nat /\ Count(Tail(cq), AcceptCqes(fd)) \in Nat
  BY <1>1, CountFinite
<1> QED
  BY <1>1, <1>2, <1>3 DEF Accepts, AcceptCqes

LEMMA TableStep == TableInv /\ [Next]_vars => TableInv'
<1> SUFFICES ASSUME TableInv, [Next]_vars PROVE TableInv'
  OBVIOUS
<1>1. Types /\ Types'
  BY TypesStep DEF TableInv
<1> SUFFICES ASSUME NEW fd \in Fds PROVE TableAt(fd)'
  BY <1>1 DEF TableInv
<1>2. TableAt(fd) /\ \A g \in Fds : TableAt(g)
  BY DEF TableInv
<1>3. Accepts(fd) \in Nat
  BY <1>1, CountFinite DEF Accepts, Types, KernelTypes
(* What a step leaves alone *)
<1>4. ASSUME UNCHANGED <<cq, owner>>, conns'[fd].inUse <=> conns[fd].inUse PROVE TableAt(fd)'
  BY <1>2, <1>4 DEF TableAt, Accepts, AcceptCqes
<1>5. ASSUME UNCHANGED cq, NEW g \in Fds, NEW b \in BOOLEAN, Touches(g), Close(g, b),
             conns[g].inUse, ~conns'[g].inUse
      PROVE  TableAt(fd)'
  <2>1. owner'[g] = None /\ (fd # g => owner'[fd] = owner[fd] /\ conns'[fd] = conns[fd])
    BY <1>1, <1>5, CloseStep DEF Touches
  <2>2. Accepts(fd)' = Accepts(fd)
    BY <1>5 DEF Accepts, AcceptCqes
  <2> QED
    BY <1>2, <1>5, <2>1, <2>2 DEF TableAt
(* The completion at the head of the queue is handled; it is no accept. *)
<1>6. ASSUME cq # <<>>, Head(cq).op # "accept", cq' = Tail(cq)
      PROVE  Accepts(fd)' = Accepts(fd)
  BY <1>1, <1>3, <1>6, AcceptsTail
(* The kernel adds a completion that is no accept. *)
<1>7. ASSUME NEW e \in Cqes, cq' = Append(cq, e), e.op # "accept", UNCHANGED <<owner, conns>>
      PROVE  TableAt(fd)'
  <2>1. Accepts(fd)' = Accepts(fd)
    BY <1>1, <1>3, <1>7, AcceptsAppend
  <2> QED
    BY <1>2, <1>7, <2>1 DEF TableAt
<1>8. CASE Serve
  <2>1. CASE \/ RespondInOrder \/ RespondWrite \/ SendSimple \/ DrainNothing \/ DrainWait
             \/ DrainDispatch \/ ReadyNext \/ ReadyDone
    <3>1. UNCHANGED <<cq, owner, conns>>
      BY <2>1 DEF RespondInOrder, RespondWrite, SendSimple, DrainNothing, DrainWait, DrainDispatch,
           ReadyNext, ReadyDone, kernelVars, tableVars
    <3> QED
      BY <1>4, <3>1
  <2>2. CASE RespondAsync
    <3>1. UNCHANGED <<cq, owner>>
      BY <2>2 DEF RespondAsync, kernelVars, tableVars
    <3>2. conns'[fd].inUse <=> conns[fd].inUse
      BY <1>1, <2>2, RespondAsyncStep
    <3> QED
      BY <1>4, <3>1, <3>2
  <2>3. CASE DrainMalformed
    BY <1>1, <1>5, <2>3, DrainMalformedStep DEF Touches, kernelVars
  <2>4. CASE DrainPark
    <3>1. UNCHANGED <<cq, owner>> /\ (conns'[fd].inUse <=> conns[fd].inUse)
      BY <1>1, <2>4, DrainParkStep DEF Touches, kernelVars, tableVars
    <3> QED
      BY <1>4, <3>1
  <2>5. CASE Responded
    <3>1. UNCHANGED cq /\ Touches(frame.fd) /\ conns[frame.fd].inUse /\ frame.fd \in Fds
      BY <1>1, <2>5, RespondedStep DEF Touches, kernelVars
    <3>2. CASE ~conns'[frame.fd].inUse /\ Close(frame.fd, TRUE)
      BY <1>5, <3>1, <3>2
    <3>3. CASE conns'[frame.fd].inUse /\ UNCHANGED owner
      <4>1. conns'[fd].inUse <=> conns[fd].inUse
        BY <3>1, <3>3 DEF Touches
      <4> QED
        BY <1>4, <3>1, <3>3, <4>1
    <3> QED
      BY <1>1, <2>5, <3>2, <3>3, RespondedStep DEF tableVars
  <2> QED
    BY <1>8, <2>1, <2>2, <2>3, <2>4, <2>5 DEF Serve
<1>9. CASE Loop
  <2>1. CASE \/ Top \/ GpuRelease("top") \/ GpuRelease("batch") \/ RecvTail \/ EndBatch \/ Submitted
    <3>1. UNCHANGED <<cq, owner, conns>>
      BY <2>1 DEF Top, GpuRelease, RecvTail, EndBatch, Submitted, kernelVars, tableVars
    <3> QED
      BY <1>4, <3>1
  <2>2. CASE AcceptCqe
    <3> DEFINE g == Head(cq).fd
    <3>1. /\ g \in Fds /\ Touches(g) /\ conns'[g].inUse /\ cq # <<>> /\ cq' = Tail(cq)
          /\ Head(cq).op = "accept" /\ UNCHANGED owner
      BY <1>1, <2>2, AcceptCqeStep DEF Touches, CqeIs, Consume, tableVars
    <3>2. /\ Accepts(fd)' = Accepts(fd) - (IF fd = g THEN 1 ELSE 0)
          /\ Accepts(fd)' \in Nat
      BY <1>1, <3>1, AcceptsTail
    <3>3. fd # g => conns'[fd] = conns[fd]
      BY <3>1 DEF Touches
    <3> HIDE DEF g
    <3>4. CASE fd = g
      <4>1. Accepts(fd) >= 1
        BY <1>3, <3>2, <3>4
      <4> QED
        BY <1>2, <1>3, <3>1, <3>2, <3>4, <4>1 DEF TableAt
    <3>5. CASE fd # g
      BY <1>2, <1>3, <3>1, <3>2, <3>3, <3>5 DEF TableAt
    <3> QED
      BY <3>4, <3>5
  <2>3. CASE SendCqe
    <3> DEFINE g == Head(cq).fd
    <3>1. /\ g \in Fds /\ Touches(g) /\ cq # <<>> /\ cq' = Tail(cq) /\ Head(cq).op # "accept"
          /\ conns[g].closeAfterTx \in BOOLEAN
      BY <1>1, <2>3, SendCqeStep, HeadCqe DEF Touches, CqeIs, Consume, Conn
    <3>2. Accepts(fd)' = Accepts(fd)
      BY <1>6, <3>1
    <3>3. CASE conns'[g].inUse = conns[g].inUse /\ UNCHANGED owner
      BY <1>2, <3>1, <3>2, <3>3 DEF Touches, TableAt
    <3>4. CASE conns[g].inUse /\ ~conns'[g].inUse /\ Close(g, conns[g].closeAfterTx)
      <4>1. owner'[g] = None /\ (fd # g => owner'[fd] = owner[fd] /\ conns'[fd] = conns[fd])
        BY <1>1, <3>1, <3>4, CloseStep DEF Touches
      <4> QED
        BY <1>2, <3>2, <3>4, <4>1 DEF TableAt
    <3> QED
      BY <1>1, <2>3, <3>3, <3>4, SendCqeStep DEF tableVars
  <2>4. CASE RecvEndCqe
    <3> DEFINE g == Head(cq).fd
    <3>1. /\ g \in Fds /\ Touches(g) /\ cq # <<>> /\ cq' = Tail(cq) /\ Head(cq).op # "accept"
          /\ ~conns'[g].inUse
      BY <1>1, <2>4, RecvEndCqeStep DEF Touches, CqeIs, Consume
    <3>2. Accepts(fd)' = Accepts(fd)
      BY <1>6, <3>1
    <3>3. CASE ~conns[g].inUse /\ UNCHANGED <<conns, owner>>
      BY <1>2, <3>2, <3>3 DEF TableAt
    <3>4. CASE conns[g].inUse /\ Close(g, FALSE)
      <4>1. owner'[g] = None /\ (fd # g => owner'[fd] = owner[fd] /\ conns'[fd] = conns[fd])
        BY <1>1, <3>1, <3>4, CloseStep DEF Touches
      <4> QED
        BY <1>2, <3>1, <3>2, <3>4, <4>1 DEF TableAt
    <3> QED
      BY <1>1, <2>4, <3>3, <3>4, RecvEndCqeStep DEF tableVars
  <2>5. CASE RecvNoBufsCqe
    <3>1. cq # <<>> /\ cq' = Tail(cq) /\ Head(cq).op # "accept" /\ UNCHANGED <<owner, conns>>
      BY <2>5 DEF RecvNoBufsCqe, CqeIs, Consume, tableVars
    <3>2. Accepts(fd)' = Accepts(fd)
      BY <1>6, <3>1
    <3> QED
      BY <1>2, <3>1, <3>2 DEF TableAt
  <2>6. CASE RecvDataCqe
    <3>1. /\ cq # <<>> /\ (cq' = Tail(cq) \/ cq' = cq) /\ Head(cq).op # "accept"
          /\ UNCHANGED owner /\ (conns'[fd].inUse <=> conns[fd].inUse)
      BY Zenon, <1>1, <2>6, RecvDataCqeStep DEF Touches, CqeIs, Consume, kernelVars, tableVars
    <3>2. cq' = cq => Accepts(fd)' = Accepts(fd)
      BY DEF Accepts, AcceptCqes
    <3>3. Accepts(fd)' = Accepts(fd)
      BY <1>6, <3>1, <3>2
    <3> QED
      BY <1>2, <3>1, <3>3 DEF TableAt
  <2>7. CASE SubmitRecv
    <3>1. UNCHANGED <<owner, conns>>
      BY <2>7 DEF SubmitRecv, tableVars
    <3>2. CASE UNCHANGED cq
      BY <1>4, <3>1, <3>2
    <3>3. CASE cq' = Append(cq, Cqe("recv", Head(sq).fd, <<>>, 0, FALSE))
      <4>1. Cqe("recv", Head(sq).fd, <<>>, 0, FALSE) \in Cqes
        <5>1. <<>> \in Seq(Requests) /\ Head(sq).fd \in Fds
          BY <1>1, <2>7, HeadSqe DEF SubmitRecv
        <5> QED
          BY <5>1 DEF Cqe, Cqes
      <4>2. Cqe("recv", Head(sq).fd, <<>>, 0, FALSE).op # "accept"
        BY DEF Cqe
      <4> QED
        BY <1>7, <3>1, <3>3, <4>1, <4>2
    <3> QED
      BY <2>7, <3>2, <3>3 DEF SubmitRecv
  <2>8. CASE SubmitSend
    <3>1. UNCHANGED <<owner, conns>>
      BY <2>8 DEF SubmitSend, tableVars
    <3>2. CASE UNCHANGED cq
      BY <1>4, <3>1, <3>2
    <3>3. ASSUME NEW n \in 0 .. Parts, SendExecutes(owner[Head(sq).fd], Head(sq).fd, Head(sq).from, n)
          PROVE  TableAt(fd)'
      <4>1. /\ n \in Nat /\ Head(sq).fd \in Fds /\ Head(sq).from \in Nat
            /\ owner[Head(sq).fd] \in Socks \cup {None}
        BY <1>1, <2>8, UnitCounts, HeadSqe DEF SubmitSend
      <4> QED
        BY <1>1, <1>7, <3>1, <3>3, <4>1, SendExecutesStep DEF Cqe
    <3> QED
      BY <2>8, <3>2, <3>3 DEF SubmitSend
  <2> QED
    BY <1>9, <2>1, <2>2, <2>3, <2>4, <2>5, <2>6, <2>7, <2>8 DEF Loop
<1>10. CASE Wake \/ Clients \/ UNCHANGED vars
  <2>1. UNCHANGED <<cq, owner, conns>>
    BY <1>10 DEF Wake, Clients, Connect, Ask, Leave, kernelVars, tableVars, workerVars, vars
  <2> QED
    BY <1>4, <2>1
<1>11. CASE Kernel
  <2>1. conns' = conns
    BY <1>1, <1>11, KernelStep DEF workerVars
  <2>2. CASE PendingSend
    <3>1. PICK e \in pending, n \in 0 .. Parts : SendExecutes(e.sock, e.fd, e.from, n)
      BY <2>2 DEF PendingSend
    <3>2. e.sock \in Socks /\ e.fd \in Fds /\ e.from \in Nat /\ n \in Nat
      BY <1>1, UnitCounts DEF Types, KernelTypes
    <3>3. UNCHANGED owner
      BY <2>2 DEF PendingSend, tableVars
    <3> QED
      BY <1>1, <1>7, <2>1, <3>1, <3>2, <3>3, SendExecutesStep DEF Cqe
  <2>3. CASE Recv \/ RecvEnd \/ RecvNoBufs
    <3>1. PICK e, op, reqs, more :
            e \in armed /\ op \in {"recv", "nobufs"} /\ cq' = Append(cq, Cqe(op, e.fd, reqs, 0, more))
      BY <2>3 DEF Recv, RecvEnd, RecvNoBufs
    <3>2. Cqe(op, e.fd, reqs, 0, more) \in Cqes
      BY <1>1, <3>1 DEF Types, KernelTypes
    <3>3. UNCHANGED owner
      BY <2>3 DEF Recv, RecvEnd, RecvNoBufs, tableVars
    <3> QED
      BY <1>7, <2>1, <3>1, <3>2, <3>3 DEF Cqe
  <2>4. CASE JobEnds
    BY <1>4, <2>1, <2>4 DEF JobEnds, kernelVars, tableVars
  <2>5. ASSUME NEW s \in Socks, Accept(s) PROVE TableAt(fd)'
    <3>1. PICK g \in Fds : /\ owner[g] = None /\ owner' = [owner EXCEPT ![g] = s]
                           /\ cq' = Append(cq, Cqe("accept", g, <<>>, 0, TRUE))
      BY <2>5 DEF Accept
    <3>2. Cqe("accept", g, <<>>, 0, TRUE) \in Cqes
      <4>1. <<>> \in Seq(Requests)
        OBVIOUS
      <4> QED
        BY <4>1 DEF Cqe, Cqes
    <3>3. Accepts(fd)' = Accepts(fd) + (IF g = fd THEN 1 ELSE 0)
      BY <1>1, <3>1, <3>2, AcceptsAppend DEF Cqe
    <3>4. owner'[g] = s /\ s # None /\ (fd # g => owner'[fd] = owner[fd])
      BY <1>1, <3>1, WorkerAssumption DEF Types, KernelTypes
    <3> QED
      BY <1>2, <1>3, <2>1, <3>1, <3>3, <3>4 DEF TableAt
  <2> QED
    BY <1>11, <2>2, <2>3, <2>4, <2>5 DEF Kernel
<1> QED
  BY <1>8, <1>9, <1>10, <1>11 DEF Next, Idle

LEMMA TableInit == Init => TableInv
<1> SUFFICES ASSUME Init, NEW fd \in Fds PROVE TableAt(fd)
  BY InitTypes DEF TableInv
<1>1. owner[fd] = None /\ ~conns[fd].inUse /\ cq = <<>> /\ cq \in Seq(Cqes)
  BY InitTypes DEF Init, NoConn, Types, KernelTypes
<1>2. \A i \in DOMAIN cq : cq[i] \notin AcceptCqes(fd)
  BY <1>1
<1>3. Accepts(fd) = 0
  BY <1>1, <1>2, CountFinite DEF Accepts
<1> QED
  BY <1>1, <1>3 DEF TableAt

LEMMA TableSays == TableInv => TableAgrees
<1> SUFFICES ASSUME TableInv, NEW fd \in Fds
             PROVE  conns[fd].inUse \/ (\E i \in DOMAIN cq : cq[i].op = "accept" /\ cq[i].fd = fd)
                      <=> owner[fd] # None
  BY DEF TableAgrees
<1>1. TableAt(fd) /\ cq \in Seq(Cqes)
  BY DEF TableInv, Types, KernelTypes
<1>2. \A i \in DOMAIN cq : cq[i] \in Cqes
  BY <1>1
<1>3. Accepts(fd) = 0 <=> \A i \in DOMAIN cq : cq[i] \notin AcceptCqes(fd)
  BY <1>1, CountFinite DEF Accepts
<1>4. Accepts(fd) = 0 <=> ~\E i \in DOMAIN cq : cq[i].op = "accept" /\ cq[i].fd = fd
  BY <1>2, <1>3 DEF AcceptCqes
<1> QED
  BY <1>1, <1>4 DEF TableAt

(* At every moment the worker's table of connections and the kernel's      *)
(* table of descriptors agree: in_use is set for exactly the numbers that  *)
(* are open and whose accept completion was handled, even when a number is *)
(* given to the next client while completions of the last one are queued.  *)
THEOREM TableMatchesKernel == Spec => []TableAgrees
<1>1. Init => TableInv
  BY TableInit
<1>2. TableInv /\ [Next]_vars => TableInv'
  BY TableStep
<1>3. TableInv => TableAgrees
  BY TableSays
<1> QED
  BY <1>1, <1>2, <1>3, PTL DEF Spec

----------------------------------------------------------------------------
(* The ready queue *)

LEMMA ToSetAppend ==
  ASSUME NEW S, NEW q \in Seq(S), NEW e
  PROVE  ToSet(Append(q, e)) = ToSet(q) \cup {e}
<1>1. /\ DOMAIN q = 1 .. Len(q) /\ Len(q) \in Nat
      /\ DOMAIN Append(q, e) = 1 .. (Len(q) + 1)
      /\ \A i \in 1 .. Len(q) : Append(q, e)[i] = q[i]
      /\ Append(q, e)[Len(q) + 1] = e
  OBVIOUS
<1>2. 1 .. (Len(q) + 1) = (1 .. Len(q)) \cup {Len(q) + 1}
  BY <1>1
<1> QED
  BY <1>1, <1>2 DEF ToSet

LEMMA ToSetTail ==
  ASSUME NEW S, NEW q \in Seq(S), q # <<>>
  PROVE  ToSet(q) = ToSet(Tail(q)) \cup {Head(q)}
<1>1. /\ DOMAIN q = 1 .. Len(q) /\ Len(q) \in Nat /\ Len(q) >= 1 /\ Head(q) = q[1]
      /\ DOMAIN Tail(q) = 1 .. (Len(q) - 1)
      /\ \A i \in 1 .. (Len(q) - 1) : Tail(q)[i] = q[i + 1]
  <2>1. Len(q) \in Nat /\ Len(q) # 0
    OBVIOUS
  <2>2. Tail(q) \in Seq(S) /\ Len(Tail(q)) = Len(q) - 1
    OBVIOUS
  <2> QED
    BY <2>1, <2>2
<1>2. ASSUME NEW x \in ToSet(q) PROVE x \in ToSet(Tail(q)) \cup {Head(q)}
  <2>1. PICK i \in 1 .. Len(q) : q[i] = x
    BY <1>1 DEF ToSet
  <2>2. CASE i = 1
    BY <1>1, <2>1, <2>2
  <2>3. CASE i # 1
    <3>1. i - 1 \in 1 .. (Len(q) - 1) /\ (i - 1) + 1 = i
      BY <1>1, <2>3
    <3> QED
      BY <1>1, <2>1, <3>1 DEF ToSet
  <2> QED
    BY <2>2, <2>3
<1>3. ASSUME NEW x \in ToSet(Tail(q)) PROVE x \in ToSet(q)
  <2>1. PICK i \in 1 .. (Len(q) - 1) : Tail(q)[i] = x
    BY <1>1 DEF ToSet
  <2>2. i + 1 \in 1 .. Len(q) /\ q[i + 1] = x
    BY <1>1, <2>1
  <2> QED
    BY <1>1, <2>2 DEF ToSet
<1>4. Head(q) \in ToSet(q)
  BY <1>1 DEF ToSet
<1> QED
  BY <1>2, <1>3, <1>4

(* The worker is at a connection whose requests it takes from the buffer. *)
AtBuffer(fd) == fd = frame.fd /\ back # "release" /\ (Serving \/ pc = "drain")

(* A request in the buffer of a connection that is not about to be closed  *)
(* is looked at now, or the connection is in the ready queue.              *)
HeldAt(fd) ==
  /\ conns[fd].inUse /\ conns[fd].closeAfterTx => conns[fd].txFlight
  /\ conns[fd].inUse /\ conns[fd].buf # <<>> /\ ~conns[fd].closeAfterTx
       => fd \in ToSet(ready) \/ AtBuffer(fd)

(* The ready queue waits for a parked request, or the worker goes through  *)
(* it.                                                                     *)
Draining == pc = "ready" \/ (back # "recv" /\ (Serving \/ pc = "drain"))
ReadyWaits == ready # <<>> /\ parked = None => Draining

HeldInv == Types /\ ReadyWaits /\ \A fd \in Fds : HeldAt(fd)

LEMMA EnqueuedStep ==
  ASSUME Types, NEW fd \in Fds, ready' = Enqueued(fd)
  PROVE  fd \in ToSet(ready') /\ ToSet(ready) \subseteq ToSet(ready')
  BY ToSetAppend DEF Enqueued, Types, WorkerTypes

LEMMA HeldServe ==
  ASSUME HeldInv, Serve, NEW fd \in Fds
  PROVE  HeldAt(fd)' /\ ReadyWaits'
<1>1. Types /\ HeldAt(fd) /\ ReadyWaits
  BY DEF HeldInv
<1>2. CASE RespondAsync
  <2>1. /\ pc = "respond" /\ pc' = "responded" /\ UNCHANGED <<frame, back, ready, parked>>
    BY <1>2 DEF RespondAsync, callVars
  <2>2. HeldAt(fd)'
    <3>1. CASE fd # frame.fd
      BY <1>1, <1>2, <2>1, <3>1, RespondAsyncStep DEF HeldAt, AtBuffer, Serving
    <3>2. CASE fd = frame.fd
      BY <1>1, <1>2, <2>1, <3>2, RespondAsyncStep DEF HeldAt, AtBuffer, Serving
    <3> QED
      BY <3>1, <3>2
  <2> QED
    BY <1>1, <2>1, <2>2 DEF ReadyWaits, Draining, Serving
<1>3. CASE RespondInOrder \/ RespondWrite \/ SendSimple \/ DrainDispatch
  <2>1. /\ (Serving \/ pc = "drain") /\ Serving' /\ UNCHANGED <<back, ready, parked, conns>>
        /\ pc # "ready" /\ pc' # "ready"
    BY <1>3 DEF RespondInOrder, RespondWrite, SendSimple, DrainDispatch, DrainHead, Serving, callVars
  <2>2. frame'.fd = frame.fd
    BY <1>1, <1>3 DEF RespondInOrder, RespondWrite, SendSimple, DrainDispatch, Types, WorkerTypes
  <2> QED
    BY <1>1, <2>1, <2>2 DEF HeldAt, AtBuffer, ReadyWaits, Draining
<1>4. CASE DrainNothing
  <2>1. /\ pc = "drain" /\ pc' = DrainReturn /\ UNCHANGED <<frame, back, ready, parked, conns>>
        /\ ~conns[frame.fd].inUse \/ conns[frame.fd].buf = <<>>
    BY <1>4 DEF DrainNothing, callVars
  <2> QED
    BY <1>1, <2>1 DEF HeldAt, AtBuffer, ReadyWaits, Draining, Serving, DrainReturn
<1>5. CASE DrainMalformed
  <2>1. /\ pc = "drain" /\ pc' = DrainReturn /\ UNCHANGED <<frame, back, ready, parked>>
        /\ Touches(frame.fd) /\ ~conns'[frame.fd].inUse
    BY <1>1, <1>5, DrainMalformedStep DEF callVars
  <2> QED
    BY <1>1, <2>1 DEF Touches, HeldAt, AtBuffer, ReadyWaits, Draining, Serving, DrainReturn
<1>6. CASE DrainWait
  <2>1. /\ pc = "drain" /\ pc' = DrainReturn /\ UNCHANGED <<frame, back, parked, conns>>
        /\ parked # None /\ ready' = Enqueued(frame.fd) /\ frame.fd \in Fds
    BY <1>1, <1>6 DEF DrainWait, DrainHead, callVars, Types, Framed
  <2>2. frame.fd \in ToSet(ready') /\ ToSet(ready) \subseteq ToSet(ready')
    BY <1>1, <2>1, EnqueuedStep
  <2> QED
    BY <1>1, <2>1, <2>2 DEF HeldAt, AtBuffer, ReadyWaits
<1>7. CASE DrainPark
  <2>1. /\ pc = "drain" /\ pc' = DrainReturn /\ UNCHANGED <<frame, back>>
        /\ parked' \in [fd : Fds, req : Requests]
        /\ ready' = (IF Len(conns[frame.fd].buf) > 1 THEN Enqueued(frame.fd) ELSE ready)
        /\ Touches(frame.fd) /\ KeepsTx(frame.fd) /\ frame.fd \in Fds
        /\ conns[frame.fd].inUse /\ conns[frame.fd].buf # <<>>
        /\ conns'[frame.fd].buf = Tail(conns[frame.fd].buf)
        /\ conns'[frame.fd].closeAfterTx = conns[frame.fd].closeAfterTx
    BY <1>1, <1>7, DrainParkStep DEF callVars, Touches
  <2>2. /\ ToSet(ready) \subseteq ToSet(ready')
        /\ Len(conns[frame.fd].buf) > 1 => frame.fd \in ToSet(ready')
    BY <1>1, <2>1, EnqueuedStep
  <2>3. Tail(conns[frame.fd].buf) # <<>> => Len(conns[frame.fd].buf) > 1
    <3>1. conns[frame.fd].buf \in Seq(Requests)
      BY <1>1, <2>1 DEF Types, WorkerTypes, Conn
    <3> QED
      BY <2>1, <3>1
  <2>4. parked' # None
    BY <2>1, WorkerAssumption
  <2>5. HeldAt(fd)'
    <3>1. CASE fd # frame.fd
      BY <1>1, <2>1, <2>2, <3>1 DEF Touches, HeldAt, AtBuffer
    <3>2. CASE fd = frame.fd
      BY <1>1, <2>1, <2>2, <2>3, <3>2 DEF HeldAt, KeepsTx
    <3> QED
      BY <3>1, <3>2
  <2> QED
    BY <2>4, <2>5 DEF ReadyWaits
<1>8. CASE Responded
  <2> DEFINE rest == IF back = "release" THEN conns[frame.fd].buf ELSE Tail(conns[frame.fd].buf)
             goOn == IF back = "release" THEN "ready" ELSE DrainReturn
  <2>1. /\ pc = "responded" /\ UNCHANGED <<frame, back, ready, parked>>
        /\ Touches(frame.fd) /\ KeepsTx(frame.fd) /\ frame.fd \in Fds
        /\ \/ /\ conns'[frame.fd].inUse /\ conns'[frame.fd].buf = rest
              /\ conns'[frame.fd].closeAfterTx = conns[frame.fd].closeAfterTx
              /\ pc' = IF back = "release" \/ rest = <<>> THEN goOn ELSE "drain"
           \/ conns[frame.fd].txFlight /\ conns'[frame.fd].closeAfterTx /\ pc' = goOn
           \/ ~conns'[frame.fd].inUse /\ pc' = goOn
        /\ conns[frame.fd].inUse
    BY <1>1, <1>8, RespondedStep DEF callVars, Touches
  <2>2. ReadyWaits'
    BY <1>1, <2>1 DEF ReadyWaits, Draining, Serving, DrainReturn, Types, WorkerTypes
  <2>3. HeldAt(fd)'
    <3>1. CASE fd # frame.fd
      BY <1>1, <2>1, <3>1 DEF Touches, HeldAt, AtBuffer
    <3>2. CASE fd = frame.fd
      BY <1>1, <2>1, <3>2 DEF HeldAt, AtBuffer, KeepsTx, Serving
    <3> QED
      BY <3>1, <3>2
  <2> QED
    BY <2>2, <2>3
<1>9. CASE ReadyNext
  <2>1. /\ pc = "ready" /\ ready # <<>> /\ parked = None /\ ready' = Tail(ready)
        /\ UNCHANGED <<conns, parked>>
        /\ \/ /\ ~conns[Head(ready)].inUse \/ conns[Head(ready)].buf = <<>>
              /\ UNCHANGED <<pc, back, frame>>
           \/ pc' = "drain" /\ back' = "ready" /\ frame' = [frame EXCEPT !.fd = Head(ready)]
    BY <1>9 DEF ReadyNext
  <2>2. ToSet(ready) = ToSet(Tail(ready)) \cup {Head(ready)}
    BY <1>1, <2>1, ToSetTail DEF Types, WorkerTypes
  <2>3. ReadyWaits'
    BY <2>1 DEF ReadyWaits, Draining
  <2>4. fd \in ToSet(ready) \/ ~(conns[fd].inUse /\ conns[fd].buf # <<>> /\ ~conns[fd].closeAfterTx)
    BY <1>1, <2>1 DEF HeldAt, AtBuffer, Serving
  <2>5. CASE pc' = "drain" /\ back' = "ready" /\ frame' = [frame EXCEPT !.fd = Head(ready)]
    <3>1. frame'.fd = Head(ready)
      BY <1>1, <2>5 DEF Types, WorkerTypes
    <3> QED
      BY <1>1, <2>1, <2>2, <2>3, <2>4, <2>5, <3>1 DEF HeldAt, AtBuffer
  <2>6. CASE /\ ~conns[Head(ready)].inUse \/ conns[Head(ready)].buf = <<>>
             /\ UNCHANGED <<pc, back, frame>>
    BY <1>1, <2>1, <2>2, <2>3, <2>4, <2>6 DEF HeldAt
  <2> QED
    BY <2>1, <2>5, <2>6
<1>10. CASE ReadyDone
  <2>1. /\ pc = "ready" /\ (ready = <<>> \/ parked # None)
        /\ UNCHANGED <<conns, ready, parked>>
    BY <1>10 DEF ReadyDone
  <2> QED
    BY <1>1, <2>1 DEF HeldAt, AtBuffer, ReadyWaits, Serving
<1> QED
  BY <1>2, <1>3, <1>4, <1>5, <1>6, <1>7, <1>8, <1>9, <1>10 DEF Serve

LEMMA HeldLoop ==
  ASSUME HeldInv, Loop, NEW fd \in Fds
  PROVE  HeldAt(fd)' /\ ReadyWaits'
<1>1. Types /\ HeldAt(fd) /\ ReadyWaits
  BY DEF HeldInv
<1>2. CASE Top \/ EndBatch \/ RecvTail
  <2>1. /\ pc \in {"top", "batch", "recvTail"} /\ UNCHANGED <<conns, ready, parked>>
    BY <1>2 DEF Top, EndBatch, RecvTail
  <2> QED
    BY <1>1, <2>1 DEF HeldAt, AtBuffer, ReadyWaits, Draining, Serving
<1>3. CASE RecvNoBufsCqe \/ SubmitRecv \/ SubmitSend
  <2>1. UNCHANGED <<conns, ready, parked, pc, back, after, frame>>
    BY <1>3 DEF RecvNoBufsCqe, SubmitRecv, SubmitSend, callVars
  <2> QED
    BY <1>1, <2>1 DEF HeldAt, AtBuffer, ReadyWaits, Draining, Serving
<1>4. CASE Submitted
  <2>1. pc = "submit" /\ pc' = after /\ UNCHANGED <<conns, ready, parked, back, after, frame>>
    BY <1>4 DEF Submitted, callVars
  <2>2. after \in {"top", "wait", "write"}
    BY <1>1 DEF Types, WorkerTypes
  <2> QED
    BY <1>1, <2>1, <2>2 DEF HeldAt, AtBuffer, ReadyWaits, Draining, Serving
<1>5. ASSUME NEW from \in {"top", "batch"}, GpuRelease(from) PROVE HeldAt(fd)' /\ ReadyWaits'
  <2>1. /\ pc \in {"top", "batch"} /\ UNCHANGED <<conns, ready>>
        /\ pc' = "ready" \/ (back' = "release" /\ pc' \in {"simple", "respond"})
    BY <1>5 DEF GpuRelease
  <2> QED
    BY <1>1, <2>1 DEF HeldAt, AtBuffer, ReadyWaits, Draining, Serving
<1>6. CASE AcceptCqe \/ SendCqe \/ RecvEndCqe
  <2>1. /\ pc = "batch" /\ UNCHANGED <<pc, back, after, frame, ready, parked>>
    BY <1>6 DEF AcceptCqe, SendCqe, RecvEndCqe, CqeIs, callVars
  <2>2. ReadyWaits'
    BY <1>1, <2>1 DEF ReadyWaits, Draining, Serving
  <2>3. HeldAt(fd)'
    <3>1. CASE AcceptCqe
      BY <1>1, <2>1, <3>1, AcceptCqeStep DEF Touches, HeldAt, AtBuffer, Serving
    <3>2. CASE RecvEndCqe
      BY <1>1, <2>1, <3>2, RecvEndCqeStep DEF Touches, HeldAt, AtBuffer, Serving
    <3>3. CASE SendCqe
      <4> DEFINE g == Head(cq).fd
      <4>1. /\ Touches(g)
            /\ \/ /\ conns'[g].inUse = conns[g].inUse /\ conns'[g].buf = conns[g].buf
                  /\ conns'[g].txFlight = conns[g].txFlight
                  /\ conns'[g].closeAfterTx = conns[g].closeAfterTx
               \/ ~conns'[g].inUse
               \/ /\ ~(conns[g].inUse /\ conns[g].closeAfterTx)
                  /\ conns'[g].inUse = conns[g].inUse /\ conns'[g].buf = conns[g].buf
                  /\ conns'[g].closeAfterTx = conns[g].closeAfterTx
        BY <1>1, <3>3, SendCqeStep
      <4> HIDE DEF g
      <4>2. CASE fd # g
        BY <1>1, <2>1, <4>1, <4>2 DEF Touches, HeldAt, AtBuffer, Serving
      <4>3. CASE fd = g
        BY <1>1, <2>1, <4>1, <4>3 DEF HeldAt, AtBuffer, Serving
      <4> QED
        BY <4>2, <4>3
    <3> QED
      BY <1>6, <3>1, <3>2, <3>3
  <2> QED
    BY <2>2, <2>3
<1>7. CASE RecvDataCqe
  <2> DEFINE g == Head(cq).fd
  <2>1. /\ pc = "batch" /\ UNCHANGED <<after, ready, parked>>
        /\ Touches(g) /\ KeepsTx(g) /\ conns'[g].inUse = conns[g].inUse
        /\ conns'[g].closeAfterTx = conns[g].closeAfterTx
        /\ \/ pc' = "hung" /\ UNCHANGED conns
           \/ pc' = "drain" /\ back' = "recv" /\ frame' = [frame EXCEPT !.fd = g]
    BY Zenon, <1>1, <1>7, RecvDataCqeStep DEF CqeIs, callVars
  <2> HIDE DEF g
  <2>2. ReadyWaits'
    BY <1>1, <2>1 DEF ReadyWaits, Draining, Serving
  <2>3. HeldAt(fd)'
    <3>1. CASE UNCHANGED conns \/ fd # g
      BY <1>1, <2>1, <3>1 DEF Touches, HeldAt, AtBuffer, Serving
    <3>2. CASE ~UNCHANGED conns /\ fd = g
      <4>1. frame'.fd = g
        BY <1>1, <2>1, <3>2 DEF Types, WorkerTypes
      <4> QED
        BY <1>1, <2>1, <3>2, <4>1 DEF KeepsTx, HeldAt, AtBuffer
    <3> QED
      BY <3>1, <3>2
  <2> QED
    BY <2>2, <2>3
<1> QED
  BY <1>2, <1>3, <1>4, <1>5, <1>6, <1>7 DEF Loop

LEMMA HeldStep == HeldInv /\ [Next]_vars => HeldInv'
<1> SUFFICES ASSUME HeldInv, [Next]_vars PROVE HeldInv'
  OBVIOUS
<1>1. Types /\ Types' /\ ReadyWaits
  BY TypesStep DEF HeldInv
<1>2. ASSUME NEW fd \in Fds PROVE HeldAt(fd)' /\ ReadyWaits'
  <2>1. HeldAt(fd)
    BY DEF HeldInv
  <2>2. CASE Kernel \/ Clients \/ UNCHANGED vars
    <3>1. UNCHANGED <<conns, ready, parked, pc, back, after, frame>>
      BY <1>1, <2>2, KernelStep DEF Clients, Connect, Ask, Leave, workerVars, callVars, vars
    <3> QED
      BY <1>1, <2>1, <3>1 DEF HeldAt, AtBuffer, ReadyWaits, Draining, Serving
  <2>3. CASE Wake
    BY <1>1, <2>1, <2>3 DEF Wake, callVars, HeldAt, AtBuffer, ReadyWaits, Draining, Serving
  <2> QED
    BY <2>2, <2>3, HeldServe, HeldLoop DEF Next, Idle
<1>3. ReadyWaits'
  <2>1. CASE Fds = {}
    <3>1. ready \in Seq({}) /\ ready' \in Seq({})
      BY <1>1, <2>1 DEF Types, WorkerTypes
    <3>2. ready' = <<>>
      BY <3>1
    <3> QED
      BY <3>2 DEF ReadyWaits
  <2>2. CASE Fds # {}
    BY <1>2, <2>2
  <2> QED
    BY <2>1, <2>2
<1> QED
  BY <1>1, <1>2, <1>3 DEF HeldInv

LEMMA HeldInit == Init => HeldInv
  BY InitTypes DEF Init, HeldInv, HeldAt, ReadyWaits, NoConn

LEMMA HeldSays == HeldInv => HeldInReady
<1> SUFFICES ASSUME HeldInv, pc = "wait", NEW fd \in Fds,
                    conns[fd].inUse, conns[fd].buf # <<>>, ~conns[fd].closeAfterTx
             PROVE  parked # None /\ fd \in ToSet(ready)
  BY DEF HeldInReady
<1>1. HeldAt(fd) /\ ReadyWaits /\ Types
  BY DEF HeldInv
<1>2. ~Serving /\ pc # "drain" /\ pc # "ready"
  BY DEF Serving
<1>3. fd \in ToSet(ready)
  BY <1>1, <1>2 DEF HeldAt, AtBuffer
<1>4. ready # <<>>
  BY <1>3 DEF ToSet
<1> QED
  BY <1>1, <1>2, <1>3, <1>4 DEF ReadyWaits, Draining

(* When the worker goes to wait for completions, each request it received  *)
(* and has not answered sits behind a parked one, and its connection is in *)
(* the ready queue: the release of the parked request will serve it.       *)
THEOREM NothingForgottenInBuffers == Spec => []HeldInReady
<1>1. Init => HeldInv
  BY HeldInit
<1>2. HeldInv /\ [Next]_vars => HeldInv'
  BY HeldStep
<1>3. HeldInv => HeldInReady
  BY HeldSays
<1> QED
  BY <1>1, <1>2, <1>3, PTL DEF Spec

----------------------------------------------------------------------------
(* What listens to a descriptor, and what sends on it *)

SqRecvs(fd) == Count(sq, {e \in Sqes : e.op = "recv" /\ e.fd = fd})
SqSends(fd) == Count(sq, {e \in Sqes : e.op = "send" /\ e.fd = fd})
CqRecvs(fd) == Count(cq, {e \in Cqes : e.op \in {"recv", "nobufs"} /\ e.fd = fd /\ ~e.more})
CqSends(fd) == Count(cq, {e \in Cqes : e.op = "send" /\ e.fd = fd})
ArmedAt(fd) == Cardinality({e \in armed : e.fd = fd})
PendingAt(fd) == Cardinality({e \in pending : e.fd = fd})
Rearming(fd) == IF rearm /\ frame.fd = fd THEN 1 ELSE 0

(* A completion that ends a stream or that found no buffer ends the recv.  *)
Ends(e) == e.op = "nobufs" \/ (e.op = "recv" /\ e.reqs = <<>>) => ~e.more

Finite == IsFiniteSet(armed) /\ IsFiniteSet(pending) /\ \A e \in ToSet(cq) : Ends(e)

LEMMA CountsAre ==
  ASSUME Types, Finite, NEW fd \in Fds
  PROVE  /\ Recvs(fd) = ArmedAt(fd) + SqRecvs(fd) + CqRecvs(fd) + Rearming(fd)
         /\ Sends(fd) = PendingAt(fd) + SqSends(fd) + CqSends(fd)
         /\ ArmedAt(fd) \in Nat /\ SqRecvs(fd) \in Nat /\ CqRecvs(fd) \in Nat
         /\ Rearming(fd) \in Nat
         /\ PendingAt(fd) \in Nat /\ SqSends(fd) \in Nat /\ CqSends(fd) \in Nat
<1>1. sq \in Seq(Sqes) /\ cq \in Seq(Cqes)
  BY DEF Types, KernelTypes
<1>2. /\ SqRecvs(fd) \in Nat /\ CqRecvs(fd) \in Nat /\ SqSends(fd) \in Nat /\ CqSends(fd) \in Nat
  BY <1>1, CountFinite DEF SqRecvs, CqRecvs, SqSends, CqSends
<1>3. ArmedAt(fd) \in Nat /\ PendingAt(fd) \in Nat
  <2>1. {e \in armed : e.fd = fd} \in SUBSET armed /\ {e \in pending : e.fd = fd} \in SUBSET pending
    OBVIOUS
  <2>2. IsFiniteSet({e \in armed : e.fd = fd}) /\ IsFiniteSet({e \in pending : e.fd = fd})
    BY <2>1, FS_Subset DEF Finite
  <2> QED
    BY <2>2, FS_CardinalityType DEF ArmedAt, PendingAt
<1>4. \A i \in DOMAIN sq : sq[i] \in Sqes
  BY <1>1
<1>5. \A i \in DOMAIN cq : cq[i] \in Cqes
  BY <1>1
<1>6. SqRecvs(fd) = Cardinality({i \in DOMAIN sq : sq[i].op = "recv" /\ sq[i].fd = fd})
  <2>1. {i \in DOMAIN sq : sq[i] \in {e \in Sqes : e.op = "recv" /\ e.fd = fd}}
          = {i \in DOMAIN sq : sq[i].op = "recv" /\ sq[i].fd = fd}
    BY <1>4
  <2> QED
    BY <2>1 DEF SqRecvs, Count
<1>7. SqSends(fd) = Cardinality({i \in DOMAIN sq : sq[i].op = "send" /\ sq[i].fd = fd})
  <2>1. {i \in DOMAIN sq : sq[i] \in {e \in Sqes : e.op = "send" /\ e.fd = fd}}
          = {i \in DOMAIN sq : sq[i].op = "send" /\ sq[i].fd = fd}
    BY <1>4
  <2> QED
    BY <2>1 DEF SqSends, Count
<1>8. CqSends(fd) = Cardinality({i \in DOMAIN cq : cq[i].op = "send" /\ cq[i].fd = fd})
  <2>1. {i \in DOMAIN cq : cq[i] \in {e \in Cqes : e.op = "send" /\ e.fd = fd}}
          = {i \in DOMAIN cq : cq[i].op = "send" /\ cq[i].fd = fd}
    BY <1>5
  <2> QED
    BY <2>1 DEF CqSends, Count
<1>9. CqRecvs(fd) = Cardinality({i \in DOMAIN cq :
                       cq[i].op \in {"recv", "nobufs"} /\ cq[i].fd = fd /\ ~cq[i].more})
  <2>1. {i \in DOMAIN cq : cq[i] \in {e \in Cqes : e.op \in {"recv", "nobufs"} /\ e.fd = fd /\ ~e.more}}
          = {i \in DOMAIN cq : cq[i].op \in {"recv", "nobufs"} /\ cq[i].fd = fd /\ ~cq[i].more}
    BY <1>5
  <2> QED
    BY <2>1 DEF CqRecvs, Count
<1>10. Rearming(fd) \in Nat
  BY DEF Rearming
<1> QED
  BY <1>2, <1>3, <1>6, <1>7, <1>8, <1>9, <1>10 DEF Recvs, Sends, ArmedAt, PendingAt, Rearming

LEMMA SqAppended ==
  ASSUME Types, NEW e \in Sqes, sq' = Append(sq, e), NEW fd \in Fds
  PROVE  /\ SqRecvs(fd)' = SqRecvs(fd) + (IF e.op = "recv" /\ e.fd = fd THEN 1 ELSE 0)
         /\ SqSends(fd)' = SqSends(fd) + (IF e.op = "send" /\ e.fd = fd THEN 1 ELSE 0)
<1> DEFINE R == {x \in Sqes : x.op = "recv" /\ x.fd = fd}
           T == {x \in Sqes : x.op = "send" /\ x.fd = fd}
<1>1. sq \in Seq(Sqes) /\ (e \in R <=> e.op = "recv" /\ e.fd = fd)
      /\ (e \in T <=> e.op = "send" /\ e.fd = fd)
  BY DEF Types, KernelTypes
<1> HIDE DEF R, T
<1>2. /\ Count(Append(sq, e), R) = Count(sq, R) + (IF e \in R THEN 1 ELSE 0)
      /\ Count(Append(sq, e), T) = Count(sq, T) + (IF e \in T THEN 1 ELSE 0)
  BY <1>1, CountAppend
<1> QED
  BY <1>1, <1>2 DEF SqRecvs, SqSends, R, T

LEMMA SqTaken ==
  ASSUME Types, sq # <<>>, sq' = Tail(sq), NEW fd \in Fds
  PROVE  /\ SqRecvs(fd)' = SqRecvs(fd) - (IF Head(sq).op = "recv" /\ Head(sq).fd = fd THEN 1 ELSE 0)
         /\ SqSends(fd)' = SqSends(fd) - (IF Head(sq).op = "send" /\ Head(sq).fd = fd THEN 1 ELSE 0)
         /\ SqRecvs(fd)' \in Nat /\ SqSends(fd)' \in Nat
<1> DEFINE R == {x \in Sqes : x.op = "recv" /\ x.fd = fd}
           T == {x \in Sqes : x.op = "send" /\ x.fd = fd}
           e == Head(sq)
<1>1. sq \in Seq(Sqes) /\ Tail(sq) \in Seq(Sqes) /\ (e \in R <=> e.op = "recv" /\ e.fd = fd)
      /\ (e \in T <=> e.op = "send" /\ e.fd = fd)
  BY HeadSqe DEF Types, KernelTypes
<1> HIDE DEF R, T
<1>2. /\ Count(Tail(sq), R) = Count(sq, R) - (IF e \in R THEN 1 ELSE 0)
      /\ Count(Tail(sq), T) = Count(sq, T) - (IF e \in T THEN 1 ELSE 0)
      /\ Count(Tail(sq), R) \in Nat /\ Count(Tail(sq), T) \in Nat
  BY <1>1, CountTail, CountFinite
<1> QED
  BY <1>1, <1>2 DEF SqRecvs, SqSends, R, T

LEMMA CqAppended ==
  ASSUME Types, NEW e \in Cqes, cq' = Append(cq, e), NEW fd \in Fds
  PROVE  /\ CqRecvs(fd)' = CqRecvs(fd) + (IF e.op \in {"recv", "nobufs"} /\ e.fd = fd /\ ~e.more
                                          THEN 1 ELSE 0)
         /\ CqSends(fd)' = CqSends(fd) + (IF e.op = "send" /\ e.fd = fd THEN 1 ELSE 0)
<1> DEFINE R == {x \in Cqes : x.op \in {"recv", "nobufs"} /\ x.fd = fd /\ ~x.more}
           T == {x \in Cqes : x.op = "send" /\ x.fd = fd}
<1>1. cq \in Seq(Cqes) /\ (e \in R <=> e.op \in {"recv", "nobufs"} /\ e.fd = fd /\ ~e.more)
      /\ (e \in T <=> e.op = "send" /\ e.fd = fd)
  BY DEF Types, KernelTypes
<1> HIDE DEF R, T
<1>2. /\ Count(Append(cq, e), R) = Count(cq, R) + (IF e \in R THEN 1 ELSE 0)
      /\ Count(Append(cq, e), T) = Count(cq, T) + (IF e \in T THEN 1 ELSE 0)
  BY <1>1, CountAppend
<1> QED
  BY <1>1, <1>2 DEF CqRecvs, CqSends, R, T

LEMMA CqTaken ==
  ASSUME Types, cq # <<>>, cq' = Tail(cq), NEW fd \in Fds
  PROVE  /\ CqRecvs(fd)' = CqRecvs(fd) -
              (IF Head(cq).op \in {"recv", "nobufs"} /\ Head(cq).fd = fd /\ ~Head(cq).more
               THEN 1 ELSE 0)
         /\ CqSends(fd)' = CqSends(fd) - (IF Head(cq).op = "send" /\ Head(cq).fd = fd THEN 1 ELSE 0)
         /\ CqRecvs(fd)' \in Nat /\ CqSends(fd)' \in Nat
<1> DEFINE R == {x \in Cqes : x.op \in {"recv", "nobufs"} /\ x.fd = fd /\ ~x.more}
           T == {x \in Cqes : x.op = "send" /\ x.fd = fd}
           e == Head(cq)
<1>1. cq \in Seq(Cqes) /\ Tail(cq) \in Seq(Cqes)
      /\ (e \in R <=> e.op \in {"recv", "nobufs"} /\ e.fd = fd /\ ~e.more)
      /\ (e \in T <=> e.op = "send" /\ e.fd = fd)
  BY HeadCqe DEF Types, KernelTypes
<1> HIDE DEF R, T
<1>2. /\ Count(Tail(cq), R) = Count(cq, R) - (IF e \in R THEN 1 ELSE 0)
      /\ Count(Tail(cq), T) = Count(cq, T) - (IF e \in T THEN 1 ELSE 0)
      /\ Count(Tail(cq), R) \in Nat /\ Count(Tail(cq), T) \in Nat
  BY <1>1, CountTail, CountFinite
<1> QED
  BY <1>1, <1>2 DEF CqRecvs, CqSends, R, T

LEMMA ArmedAdded ==
  ASSUME Types, Finite, NEW e, armed' = armed \cup {e}, NEW fd \in Fds
  PROVE  /\ IsFiniteSet(armed')
         /\ ArmedAt(fd) = 0 => ArmedAt(fd)' = IF e.fd = fd THEN 1 ELSE 0
         /\ e.fd # fd => ArmedAt(fd)' = ArmedAt(fd)
<1> DEFINE A == {x \in armed : x.fd = fd}
           B == {x \in armed' : x.fd = fd}
<1>1. IsFiniteSet(armed') /\ IsFiniteSet(A)
  <2>1. A \in SUBSET armed
    OBVIOUS
  <2> QED
    BY <2>1, FS_AddElement, FS_Subset DEF Finite
<1>2. B = IF e.fd = fd THEN A \cup {e} ELSE A
  OBVIOUS
<1>3. Cardinality(A) = 0 => A = {}
  BY <1>1, FS_EmptySet
<1>4. Cardinality({e}) = 1 /\ Cardinality({}) = 0
  BY FS_Singleton, FS_EmptySet
<1>5. ArmedAt(fd) = Cardinality(A) /\ ArmedAt(fd)' = Cardinality(B)
  BY DEF ArmedAt
<1> HIDE DEF A, B
<1>6. A = {} /\ e.fd = fd => B = {e}
  BY <1>2
<1>7. A = {} /\ e.fd # fd => B = {}
  BY <1>2
<1> QED
  BY <1>1, <1>2, <1>3, <1>4, <1>5, <1>6, <1>7

LEMMA ArmedRemoved ==
  ASSUME Types, Finite, NEW e \in armed, armed' = armed \ {e}, NEW fd \in Fds
  PROVE  /\ IsFiniteSet(armed') /\ ArmedAt(fd)' \in Nat
         /\ ArmedAt(fd)' = ArmedAt(fd) - (IF e.fd = fd THEN 1 ELSE 0)
<1> DEFINE A == {x \in armed : x.fd = fd}
           B == {x \in armed' : x.fd = fd}
<1>1. IsFiniteSet(armed') /\ IsFiniteSet(A) /\ IsFiniteSet(B)
  <2>1. A \in SUBSET armed /\ B \in SUBSET armed
    OBVIOUS
  <2> QED
    BY <2>1, FS_RemoveElement, FS_Subset DEF Finite
<1>2. B = (IF e.fd = fd THEN A \ {e} ELSE A) /\ (e.fd = fd => e \in A)
  OBVIOUS
<1>3. ArmedAt(fd) = Cardinality(A) /\ ArmedAt(fd)' = Cardinality(B)
  BY DEF ArmedAt
<1> HIDE DEF A, B
<1>4. /\ Cardinality(B) \in Nat /\ Cardinality(A) \in Nat
      /\ Cardinality(A \ {e}) = IF e \in A THEN Cardinality(A) - 1 ELSE Cardinality(A)
  BY <1>1, FS_CardinalityType, FS_RemoveElement
<1>5. CASE e.fd = fd
  BY <1>1, <1>2, <1>3, <1>4, <1>5
<1>6. CASE e.fd # fd
  BY <1>1, <1>2, <1>3, <1>4, <1>6
<1> QED
  BY <1>5, <1>6

LEMMA PendingAdded ==
  ASSUME Types, Finite, NEW e, pending' = pending \cup {e}, NEW fd \in Fds
  PROVE  /\ IsFiniteSet(pending')
         /\ PendingAt(fd) = 0 => PendingAt(fd)' = IF e.fd = fd THEN 1 ELSE 0
         /\ e.fd # fd => PendingAt(fd)' = PendingAt(fd)
<1> DEFINE A == {x \in pending : x.fd = fd}
           B == {x \in pending' : x.fd = fd}
<1>1. IsFiniteSet(pending') /\ IsFiniteSet(A)
  <2>1. A \in SUBSET pending
    OBVIOUS
  <2> QED
    BY <2>1, FS_AddElement, FS_Subset DEF Finite
<1>2. B = IF e.fd = fd THEN A \cup {e} ELSE A
  OBVIOUS
<1>3. Cardinality(A) = 0 => A = {}
  BY <1>1, FS_EmptySet
<1>4. Cardinality({e}) = 1 /\ Cardinality({}) = 0
  BY FS_Singleton, FS_EmptySet
<1>5. PendingAt(fd) = Cardinality(A) /\ PendingAt(fd)' = Cardinality(B)
  BY DEF PendingAt
<1> HIDE DEF A, B
<1>6. A = {} /\ e.fd = fd => B = {e}
  BY <1>2
<1>7. A = {} /\ e.fd # fd => B = {}
  BY <1>2
<1> QED
  BY <1>1, <1>2, <1>3, <1>4, <1>5, <1>6, <1>7

LEMMA PendingRemoved ==
  ASSUME Types, Finite, NEW e \in pending, pending' = pending \ {e}, NEW fd \in Fds
  PROVE  /\ IsFiniteSet(pending') /\ PendingAt(fd)' \in Nat
         /\ PendingAt(fd)' = PendingAt(fd) - (IF e.fd = fd THEN 1 ELSE 0)
<1> DEFINE A == {x \in pending : x.fd = fd}
           B == {x \in pending' : x.fd = fd}
<1>1. IsFiniteSet(pending') /\ IsFiniteSet(A) /\ IsFiniteSet(B)
  <2>1. A \in SUBSET pending /\ B \in SUBSET pending
    OBVIOUS
  <2> QED
    BY <2>1, FS_RemoveElement, FS_Subset DEF Finite
<1>2. B = (IF e.fd = fd THEN A \ {e} ELSE A) /\ (e.fd = fd => e \in A)
  OBVIOUS
<1>3. PendingAt(fd) = Cardinality(A) /\ PendingAt(fd)' = Cardinality(B)
  BY DEF PendingAt
<1> HIDE DEF A, B
<1>4. /\ Cardinality(B) \in Nat /\ Cardinality(A) \in Nat
      /\ Cardinality(A \ {e}) = IF e \in A THEN Cardinality(A) - 1 ELSE Cardinality(A)
  BY <1>1, FS_CardinalityType, FS_RemoveElement
<1>5. CASE e.fd = fd
  BY <1>1, <1>2, <1>3, <1>4, <1>5
<1>6. CASE e.fd # fd
  BY <1>1, <1>2, <1>3, <1>4, <1>6
<1> QED
  BY <1>5, <1>6

(* What a recv delivers are requests of the socket it was armed on. *)
LEMMA RecvStep ==
  ASSUME Types, Recv
  PROVE  \E e \in armed, more \in BOOLEAN, reqs \in Seq(Requests) :
           /\ cq' = Append(cq, Cqe("recv", e.fd, reqs, 0, more)) /\ reqs # <<>>
           /\ Cqe("recv", e.fd, reqs, 0, more) \in Cqes
           /\ \A i \in DOMAIN reqs : reqs[i].sock = e.sock /\ reqs[i].n \in DOMAIN asked[e.sock]
           /\ armed' = (IF more THEN armed ELSE armed \ {e}) /\ pending' = pending
<1>1. PICK e \in armed, more \in BOOLEAN :
        \E k \in (taken[e.sock] + 1) .. Len(asked[e.sock]) :
          /\ cq' = Append(cq, Cqe("recv", e.fd,
               [i \in 1 .. (k - taken[e.sock]) |-> [sock |-> e.sock, n |-> taken[e.sock] + i]],
               0, more))
          /\ armed' = (IF more THEN armed ELSE armed \ {e})
  BY DEF Recv
<1>2. PICK k \in (taken[e.sock] + 1) .. Len(asked[e.sock]) :
          /\ cq' = Append(cq, Cqe("recv", e.fd,
               [i \in 1 .. (k - taken[e.sock]) |-> [sock |-> e.sock, n |-> taken[e.sock] + i]],
               0, more))
          /\ armed' = (IF more THEN armed ELSE armed \ {e})
  BY <1>1
<1> DEFINE t == taken[e.sock]
           reqs == [i \in 1 .. (k - t) |-> [sock |-> e.sock, n |-> t + i]]
<1>3. /\ e.sock \in Socks /\ e.fd \in Fds /\ t \in Nat /\ asked[e.sock] \in Seq(AllKinds)
      /\ Len(asked[e.sock]) \in Nat /\ DOMAIN asked[e.sock] = 1 .. Len(asked[e.sock])
  BY DEF Types, ClientTypes, KernelTypes
<1>4. k \in Nat /\ k - t \in Nat /\ k - t >= 1 /\ k <= Len(asked[e.sock])
  BY <1>2, <1>3
<1>5. \A i \in 1 .. (k - t) : [sock |-> e.sock, n |-> t + i] \in Requests /\ t + i \in DOMAIN asked[e.sock]
  BY <1>3, <1>4 DEF Requests
<1>6. reqs \in Seq(Requests) /\ DOMAIN reqs = 1 .. (k - t)
  BY <1>4, <1>5
<1>7. reqs # <<>>
  <2>1. 1 \in DOMAIN reqs /\ DOMAIN <<>> = {}
    BY <1>4, <1>6
  <2> QED
    BY <2>1
<1>8. \A i \in DOMAIN reqs : reqs[i].sock = e.sock /\ reqs[i].n \in DOMAIN asked[e.sock]
  BY <1>5, <1>6
<1>9. cq' = Append(cq, Cqe("recv", e.fd, reqs, 0, more)) /\ pending' = pending
  BY <1>2 DEF Recv
<1> HIDE DEF reqs
<1>10. Cqe("recv", e.fd, reqs, 0, more) \in Cqes
  BY <1>3, <1>6 DEF Cqe, Cqes
<1> QED
  BY <1>2, <1>6, <1>7, <1>8, <1>9, <1>10

LEMMA FiniteStep == Types /\ Finite /\ [Next]_vars => Finite'
<1> SUFFICES ASSUME Types, Finite, [Next]_vars PROVE Finite'
  OBVIOUS
<1>1. cq \in Seq(Cqes) /\ \A e \in ToSet(cq) : Ends(e)
  BY DEF Types, KernelTypes, Finite
<1>2. ASSUME NEW e, armed' = armed \cup {e} \/ armed' = armed \ {e} \/ armed' = armed
      PROVE  IsFiniteSet(armed')
  BY <1>2, FS_AddElement, FS_RemoveElement DEF Finite
<1>3. ASSUME NEW e, pending' = pending \cup {e} \/ pending' = pending \ {e} \/ pending' = pending
      PROVE  IsFiniteSet(pending')
  BY <1>3, FS_AddElement, FS_RemoveElement DEF Finite
<1>4. ASSUME NEW e, cq' = Append(cq, e), Ends(e) PROVE \A x \in ToSet(cq') : Ends(x)
  <2>1. ToSet(cq') = ToSet(cq) \cup {e}
    BY <1>1, <1>4, ToSetAppend
  <2> QED
    BY <1>1, <1>4, <2>1
<1>5. ASSUME cq # <<>>, cq' = Tail(cq) PROVE \A x \in ToSet(cq') : Ends(x)
  <2>1. ToSet(cq) = ToSet(cq') \cup {Head(cq)}
    BY <1>1, <1>5, ToSetTail
  <2> QED
    BY <1>1, <2>1
<1>6. ASSUME cq' = cq PROVE \A x \in ToSet(cq') : Ends(x)
  BY <1>1, <1>6
<1>7. CASE UNCHANGED <<armed, pending>> /\ (cq' = cq \/ (cq # <<>> /\ cq' = Tail(cq)))
  BY <1>2, <1>3, <1>5, <1>6, <1>7 DEF Finite
<1>8. CASE Serve \/ Wake \/ Clients \/ JobEnds \/ UNCHANGED vars
  BY Zenon, <1>7, <1>8 DEF Serve, RespondAsync, RespondInOrder, RespondWrite, SendSimple, DrainNothing,
       DrainMalformed, DrainWait, DrainPark, DrainDispatch, Responded, ReadyNext, ReadyDone,
       Wake, Clients, Connect, Ask, Leave, JobEnds, kernelVars, vars
<1>9. CASE \/ Top \/ GpuRelease("top") \/ GpuRelease("batch") \/ AcceptCqe \/ SendCqe \/ RecvEndCqe
           \/ RecvNoBufsCqe \/ RecvDataCqe \/ RecvTail \/ EndBatch \/ Submitted
  BY Zenon, <1>7, <1>9 DEF Top, GpuRelease, AcceptCqe, SendCqe, RecvEndCqe, RecvNoBufsCqe, RecvDataCqe,
       RecvTail, EndBatch, Submitted, CqeIs, Consume, kernelVars
<1>10. CASE SubmitRecv
  <2>1. pending' = pending /\ \E e : armed' = armed \cup {e} \/ armed' = armed
    BY <1>10 DEF SubmitRecv
  <2>2. CASE cq' = cq
    BY <1>2, <1>3, <1>6, <2>1, <2>2 DEF Finite
  <2>3. CASE cq' = Append(cq, Cqe("recv", Head(sq).fd, <<>>, 0, FALSE))
    <3>1. Ends(Cqe("recv", Head(sq).fd, <<>>, 0, FALSE))
      BY DEF Ends, Cqe
    <3> QED
      BY <1>2, <1>3, <1>4, <2>1, <2>3, <3>1 DEF Finite
  <2> QED
    BY <1>10, <2>2, <2>3 DEF SubmitRecv
<1>11. ASSUME NEW s, NEW fd, NEW from, NEW n, SendExecutes(s, fd, from, n)
       PROVE  \A x \in ToSet(cq') : Ends(x)
  <2>1. Ends(Cqe("send", fd, <<>>, n, FALSE))
    BY DEF Ends, Cqe
  <2> QED
    BY <1>4, <1>11, <2>1 DEF SendExecutes
<1>12. CASE SubmitSend
  <2>1. armed' = armed /\ \E e : pending' = pending \cup {e} \/ pending' = pending
    BY <1>12 DEF SubmitSend
  <2>2. \A x \in ToSet(cq') : Ends(x)
    BY <1>6, <1>11, <1>12 DEF SubmitSend
  <2> QED
    BY <1>2, <1>3, <2>1, <2>2 DEF Finite
<1>13. CASE PendingSend
  <2>1. armed' = armed /\ \E e : pending' = pending \ {e}
    BY <1>13 DEF PendingSend
  <2>2. \A x \in ToSet(cq') : Ends(x)
    BY <1>11, <1>13 DEF PendingSend
  <2> QED
    BY <1>2, <1>3, <2>1, <2>2 DEF Finite
<1>14. CASE Recv
  <2>1. PICK e \in armed, more \in BOOLEAN, reqs \in Seq(Requests) :
          /\ cq' = Append(cq, Cqe("recv", e.fd, reqs, 0, more)) /\ reqs # <<>>
          /\ armed' = (IF more THEN armed ELSE armed \ {e}) /\ pending' = pending
    BY <1>14, RecvStep
  <2>2. Ends(Cqe("recv", e.fd, reqs, 0, more))
    BY <2>1 DEF Ends, Cqe
  <2> QED
    BY <1>2, <1>3, <1>4, <2>1, <2>2 DEF Finite
<1>15. CASE RecvEnd \/ RecvNoBufs
  <2>1. PICK e \in armed, op \in {"recv", "nobufs"} :
          /\ cq' = Append(cq, Cqe(op, e.fd, <<>>, 0, FALSE))
          /\ armed' = armed \ {e} /\ pending' = pending
    BY <1>15 DEF RecvEnd, RecvNoBufs
  <2>2. Ends(Cqe(op, e.fd, <<>>, 0, FALSE))
    BY DEF Ends, Cqe
  <2> QED
    BY <1>2, <1>3, <1>4, <2>1, <2>2 DEF Finite
<1>16. ASSUME NEW s \in Socks, Accept(s) PROVE Finite'
  <2>1. PICK fd \in Fds : cq' = Append(cq, Cqe("accept", fd, <<>>, 0, TRUE))
    BY <1>16 DEF Accept
  <2>2. armed' = armed /\ pending' = pending
    BY <1>16 DEF Accept
  <2>3. Ends(Cqe("accept", fd, <<>>, 0, TRUE))
    BY DEF Ends, Cqe
  <2> QED
    BY <1>2, <1>3, <1>4, <2>1, <2>2, <2>3 DEF Finite
<1> QED
  BY <1>8, <1>9, <1>10, <1>12, <1>13, <1>14, <1>15, <1>16 DEF Next, Loop, Kernel, Idle

(* A descriptor that is open: its connection is listened to exactly once,  *)
(* and a SEND is out exactly while tx_in_flight is set; nothing is out for *)
(* a connection that is yet to be accepted.                                *)
CountAt(fd) ==
  owner[fd] # None =>
    /\ Recvs(fd) = IF conns[fd].inUse THEN 1 ELSE 0
    /\ Sends(fd) = IF conns[fd].inUse /\ conns[fd].txFlight THEN 1 ELSE 0

CountInv == TableInv /\ Finite /\ \A fd \in Fds : CountAt(fd)

Sums(fd) ==
  /\ Recvs(fd) = ArmedAt(fd) + SqRecvs(fd) + CqRecvs(fd) + Rearming(fd)
  /\ Sends(fd) = PendingAt(fd) + SqSends(fd) + CqSends(fd)
  /\ ArmedAt(fd) \in Nat /\ SqRecvs(fd) \in Nat /\ CqRecvs(fd) \in Nat /\ Rearming(fd) \in Nat
  /\ PendingAt(fd) \in Nat /\ SqSends(fd) \in Nat /\ CqSends(fd) \in Nat

LEMMA SumsHold == \A fd \in Fds : Types /\ Finite => Sums(fd)
  BY CountsAre DEF Sums

LEMMA SumsHoldNext == (\A fd \in Fds : Types /\ Finite => Sums(fd))'
  BY SumsHold, PTL

LEMMA CountStep ==
  ASSUME CountInv, [Next]_vars, QuietReuse, NEW fd \in Fds
  PROVE  CountAt(fd)'
<1>1. /\ Types /\ Types' /\ Finite /\ Finite' /\ TableAt(fd) /\ CountAt(fd)
      /\ \A g \in Fds : CountAt(g) /\ TableAt(g)
  BY TypesStep, FiniteStep DEF CountInv, TableInv
<1>2. Sums(fd) /\ Sums(fd)'
  BY <1>1, SumsHold, SumsHoldNext
<1>3. /\ armed' = armed => ArmedAt(fd)' = ArmedAt(fd)
      /\ pending' = pending => PendingAt(fd)' = PendingAt(fd)
      /\ sq' = sq => SqRecvs(fd)' = SqRecvs(fd) /\ SqSends(fd)' = SqSends(fd)
      /\ cq' = cq => CqRecvs(fd)' = CqRecvs(fd) /\ CqSends(fd)' = CqSends(fd)
  BY DEF ArmedAt, PendingAt, SqRecvs, SqSends, CqRecvs, CqSends, Sqes, Cqes
<1>4. rearm => pc \in {"respond", "write", "simple", "responded", "submit", "drain", "recvTail"}
  BY <1>1 DEF Types, Framed, Serving
<1>5. (~rearm => Rearming(fd) = 0) /\ (~rearm' => Rearming(fd)' = 0)
      /\ (rearm' = rearm /\ frame'.fd = frame.fd => Rearming(fd)' = Rearming(fd))
  BY DEF Rearming
(* What a step leaves alone *)
<1>6. ASSUME UNCHANGED <<armed, pending, sq, cq>>, Rearming(fd)' = Rearming(fd),
             owner'[fd] = owner[fd], conns'[fd].inUse <=> conns[fd].inUse,
             conns[fd].inUse => (conns'[fd].txFlight <=> conns[fd].txFlight)
      PROVE  CountAt(fd)'
  <2>1. Recvs(fd)' = Recvs(fd) /\ Sends(fd)' = Sends(fd)
    BY <1>2, <1>3, <1>6 DEF Sums
  <2> QED
    BY <1>1, <1>6, <2>1 DEF CountAt
<1>7. ASSUME NEW g \in Fds, NEW b \in BOOLEAN, Touches(g), Close(g, b), Rearming(fd)' = Rearming(fd),
             UNCHANGED <<armed, pending, sq, cq>>
      PROVE  CountAt(fd)'
  <2>1. owner'[g] = None /\ (fd # g => owner'[fd] = owner[fd] /\ conns'[fd] = conns[fd])
    BY <1>1, <1>7, CloseStep DEF Touches
  <2>2. CASE fd = g
    BY <2>1, <2>2 DEF CountAt
  <2> QED
    BY <1>6, <1>7, <2>1, <2>2
<1>8. CASE Serve
  <2>1. CASE RespondAsync
    <3> DEFINE g == frame.fd
               e == [op |-> "send", fd |-> g, from |-> 1]
    <3>1. /\ g \in Fds /\ conns[g].inUse /\ ~conns[g].txFlight /\ conns'[g].inUse /\ conns'[g].txFlight
          /\ (fd # g => conns'[fd] = conns[fd]) /\ sq' = Append(sq, e)
          /\ UNCHANGED <<armed, pending, cq, owner, rearm, frame>>
      BY <1>1, <2>1, RespondAsyncStep DEF RespondAsync, kernelVars, tableVars, callVars
    <3>2. e \in Sqes /\ e.op = "send" /\ e.fd = g
      BY <3>1 DEF Sqes
    <3> HIDE DEF g, e
    <3>3. SqRecvs(fd)' = SqRecvs(fd) /\ SqSends(fd)' = SqSends(fd) + (IF fd = g THEN 1 ELSE 0)
      <4>1. /\ SqRecvs(fd)' = SqRecvs(fd) + (IF e.op = "recv" /\ e.fd = fd THEN 1 ELSE 0)
            /\ SqSends(fd)' = SqSends(fd) + (IF e.op = "send" /\ e.fd = fd THEN 1 ELSE 0)
        BY <1>1, <3>1, <3>2, SqAppended
      <4>2. SqRecvs(fd) \in Nat /\ SqSends(fd) \in Nat
        BY <1>2 DEF Sums
      <4> QED
        BY <3>2, <4>1, <4>2
    <3>4. Recvs(fd)' = Recvs(fd) /\ Sends(fd)' = Sends(fd) + (IF fd = g THEN 1 ELSE 0)
      BY <1>2, <1>3, <1>5, <3>1, <3>3 DEF Sums
    <3>5. CASE fd = g
      <4>1. owner[fd] # None /\ Recvs(fd) = 1 /\ Sends(fd) = 0
        BY <1>1, <3>1, <3>5 DEF CountAt, TableAt
      <4> QED
        BY <3>1, <3>4, <3>5, <4>1 DEF CountAt
    <3>6. CASE fd # g
      <4>1. Sends(fd)' = Sends(fd)
        BY <1>2, <3>4, <3>6 DEF Sums
      <4> QED
        BY <1>1, <3>1, <3>4, <3>6, <4>1 DEF CountAt
    <3> QED
      BY <3>5, <3>6
  <2>2. CASE RespondInOrder \/ RespondWrite \/ SendSimple \/ DrainNothing \/ DrainWait \/ DrainDispatch
    <3>1. /\ UNCHANGED <<armed, pending, sq, cq, owner, rearm, conns>> /\ frame'.fd = frame.fd
      BY <1>1, <2>2 DEF RespondInOrder, RespondWrite, SendSimple, DrainNothing, DrainWait, DrainDispatch,
           kernelVars, tableVars, callVars, Types, WorkerTypes
    <3> QED
      BY <1>5, <1>6, <3>1
  <2>3. CASE ReadyNext \/ ReadyDone
    <3>1. UNCHANGED <<armed, pending, sq, cq, owner, rearm, conns>> /\ pc = "ready"
      BY <2>3 DEF ReadyNext, ReadyDone, kernelVars, tableVars
    <3> QED
      BY <1>4, <1>5, <1>6, <3>1
  <2>4. CASE DrainMalformed
    <3>1. /\ frame.fd \in Fds /\ Touches(frame.fd) /\ Close(frame.fd, TRUE)
          /\ UNCHANGED <<armed, pending, sq, cq, rearm, frame>>
      BY <1>1, <2>4, DrainMalformedStep DEF Touches, kernelVars, callVars
    <3> QED
      BY <1>5, <1>7, <3>1
  <2>5. CASE DrainPark
    <3>1. /\ (conns'[fd].inUse <=> conns[fd].inUse) /\ (conns'[fd].txFlight <=> conns[fd].txFlight)
          /\ UNCHANGED <<armed, pending, sq, cq, rearm, frame, owner>>
      BY <1>1, <2>5, DrainParkStep DEF Touches, KeepsTx, kernelVars, callVars, tableVars
    <3> QED
      BY <1>5, <1>6, <3>1
  <2>6. CASE Responded
    <3>1. /\ Touches(frame.fd) /\ frame.fd \in Fds /\ KeepsTx(frame.fd) /\ conns[frame.fd].inUse
          /\ UNCHANGED <<armed, pending, sq, cq, rearm, frame>>
      BY <1>1, <2>6, RespondedStep DEF Touches, kernelVars, callVars
    <3>2. CASE Close(frame.fd, TRUE)
      BY <1>5, <1>7, <3>1, <3>2
    <3>3. CASE conns'[frame.fd].inUse /\ UNCHANGED tableVars
      <4>1. (conns'[fd].inUse <=> conns[fd].inUse) /\ (conns'[fd].txFlight <=> conns[fd].txFlight)
        BY <3>1, <3>3 DEF Touches, KeepsTx
      <4> QED
        BY <1>5, <1>6, <3>1, <3>3, <4>1 DEF tableVars
    <3> QED
      BY <1>1, <2>6, <3>2, <3>3, RespondedStep
  <2> QED
    BY <1>8, <2>1, <2>2, <2>3, <2>4, <2>5, <2>6 DEF Serve
<1>9. CASE Wake \/ Clients \/ JobEnds \/ UNCHANGED vars
  <2>1. UNCHANGED <<armed, pending, sq, cq, owner, rearm, frame, conns>>
    BY <1>9 DEF Wake, Clients, Connect, Ask, Leave, JobEnds, kernelVars, tableVars, workerVars, callVars, vars
  <2> QED
    BY <1>5, <1>6, <2>1
<1>10. CASE \/ Top \/ GpuRelease("top") \/ GpuRelease("batch") \/ EndBatch \/ Submitted
  <2>1. UNCHANGED <<armed, pending, sq, cq, owner, rearm, conns>> /\ (frame' = frame \/ pc \in {"top", "batch"})
    BY <1>10 DEF Top, GpuRelease, EndBatch, Submitted, kernelVars, tableVars, callVars
  <2> QED
    BY <1>4, <1>5, <1>6, <2>1
(* The completion at the head of the queue is handled. *)
<1> DEFINE h == Head(cq)
           g == h.fd
<1>11. ASSUME pc = "batch", cq # <<>>, Consume
       PROVE  /\ CqRecvs(fd)' = CqRecvs(fd) -
                   (IF h.op \in {"recv", "nobufs"} /\ g = fd /\ ~h.more THEN 1 ELSE 0)
              /\ CqSends(fd)' = CqSends(fd) - (IF h.op = "send" /\ g = fd THEN 1 ELSE 0)
              /\ h \in Cqes /\ g \in Fds /\ Ends(h) /\ cq' = Tail(cq) /\ UNCHANGED <<armed, pending>>
              /\ ~rearm /\ Rearming(fd) = 0
  <2>1. ToSet(cq) = ToSet(Tail(cq)) \cup {h}
    BY <1>1, <1>11, ToSetTail DEF Types, KernelTypes
  <2>2. Ends(h)
    BY <1>1, <2>1 DEF Finite
  <2>3. h \in Cqes /\ g \in Fds
    BY <1>1, <1>11, HeadCqe
  <2>4. cq' = Tail(cq) /\ UNCHANGED <<armed, pending>>
    BY <1>11 DEF Consume
  <2> QED
    BY <1>1, <1>4, <1>5, <1>11, <2>2, <2>3, <2>4, CqTaken
<1> HIDE DEF h, g
<1>14. CqRecvs(fd) \in Nat /\ CqSends(fd) \in Nat /\ SqRecvs(fd) \in Nat /\ SqSends(fd) \in Nat
  BY <1>2 DEF Sums
<1>12. CASE AcceptCqe
  <2> DEFINE e == [op |-> "recv", fd |-> g, from |-> 0]
  <2>1. /\ pc = "batch" /\ cq # <<>> /\ Consume /\ h.op = "accept" /\ Touches(g)
        /\ conns'[g].inUse /\ ~conns'[g].txFlight /\ sq' = Append(sq, e)
        /\ UNCHANGED <<owner, rearm, frame>>
    BY <1>1, <1>12, AcceptCqeStep DEF CqeIs, tableVars, callVars, h, g
  <2>2. e \in Sqes /\ e.op = "recv" /\ e.fd = g
    BY <1>11, <2>1 DEF Sqes
  <2>3. /\ CqRecvs(fd)' = CqRecvs(fd) /\ CqSends(fd)' = CqSends(fd)
        /\ UNCHANGED <<armed, pending>> /\ g \in Fds
    <3>1. h.op \notin {"recv", "nobufs", "send"}
      BY <2>1
    <3> QED
      BY <1>11, <1>14, <2>1, <3>1
  <2>4. /\ SqRecvs(fd)' = SqRecvs(fd) + (IF e.op = "recv" /\ e.fd = fd THEN 1 ELSE 0)
        /\ SqSends(fd)' = SqSends(fd) + (IF e.op = "send" /\ e.fd = fd THEN 1 ELSE 0)
    BY <1>1, <2>1, <2>2, SqAppended
  <2>5. SqRecvs(fd)' = SqRecvs(fd) + (IF g = fd THEN 1 ELSE 0) /\ SqSends(fd)' = SqSends(fd)
    <3>1. SqRecvs(fd) \in Nat /\ SqSends(fd) \in Nat
      BY <1>2 DEF Sums
    <3> QED
      BY <2>2, <2>4, <3>1
  <2> HIDE DEF e
  <2>6. Recvs(fd)' = Recvs(fd) + (IF g = fd THEN 1 ELSE 0) /\ Sends(fd)' = Sends(fd)
    BY <1>2, <1>3, <1>5, <2>1, <2>3, <2>5 DEF Sums
  <2>7. CASE fd = g
    <3>1. Accepts(fd) >= 1
      <4>1. cq' = Tail(cq)
        BY <1>11, <2>1
      <4>2. /\ Accepts(fd)' = Accepts(fd) - (IF h.op = "accept" /\ g = fd THEN 1 ELSE 0)
            /\ Accepts(fd) \in Nat /\ Accepts(fd)' \in Nat
        BY <1>1, <2>1, <4>1, AcceptsTail DEF h, g
      <4> QED
        BY <2>1, <2>7, <4>2
    <3>2. owner[fd] # None /\ ~conns[fd].inUse
      BY <1>1, <3>1 DEF TableAt
    <3>3. Recvs(fd) = 0 /\ Sends(fd) = 0
      BY <1>1, <3>2 DEF CountAt
    <3> QED
      BY <2>1, <2>6, <2>7, <3>3 DEF CountAt
  <2>8. CASE fd # g
    <3>1. Recvs(fd)' = Recvs(fd)
      BY <1>2, <2>6, <2>8 DEF Sums
    <3>2. conns'[fd] = conns[fd]
      BY <2>1, <2>8 DEF Touches
    <3> QED
      BY <1>1, <2>1, <2>6, <3>1, <3>2 DEF CountAt
  <2> QED
    BY <2>7, <2>8
<1>13. CASE SendCqe
  <2>1. /\ pc = "batch" /\ cq # <<>> /\ Consume /\ h.op = "send" /\ Touches(g)
        /\ UNCHANGED <<rearm, frame>>
    BY <1>1, <1>13, SendCqeStep DEF CqeIs, callVars, h, g
  <2>2. /\ CqRecvs(fd)' = CqRecvs(fd) /\ CqSends(fd)' = CqSends(fd) - (IF g = fd THEN 1 ELSE 0)
        /\ UNCHANGED <<armed, pending>> /\ g \in Fds
    <3>1. h.op \notin {"recv", "nobufs"}
      BY <2>1
    <3> QED
      BY <1>11, <1>14, <2>1, <3>1
  <2>3. ArmedAt(fd)' = ArmedAt(fd) /\ PendingAt(fd)' = PendingAt(fd) /\ Rearming(fd)' = Rearming(fd)
    BY <1>3, <1>5, <2>1, <2>2
  <2>4. fd # g => conns'[fd] = conns[fd]
    BY <2>1 DEF Touches
  <2>5. ASSUME fd = g, owner[fd] # None
        PROVE  conns[fd].inUse /\ conns[fd].txFlight /\ Recvs(fd) = 1 /\ Sends(fd) = 1
    <3>1. Sends(fd) # 0
      BY <1>2, <2>2, <2>5 DEF Sums
    <3> QED
      BY <1>1, <2>5, <3>1 DEF CountAt
  <2>6. CASE /\ conns'[g].inUse = conns[g].inUse /\ conns'[g].txFlight = conns[g].txFlight
             /\ sq' = Append(sq, [op |-> "send", fd |-> g, from |-> conns[g].txSent + h.n + 1])
             /\ UNCHANGED tableVars
    <3> DEFINE e == [op |-> "send", fd |-> g, from |-> conns[g].txSent + h.n + 1]
    <3>1. e \in Sqes /\ e.op = "send" /\ e.fd = g
      <4>1. h.n \in Nat /\ conns[g].txSent \in Nat
        BY <1>1, <1>11, <2>1 DEF Cqes, Types, WorkerTypes, Conn
      <4> QED
        BY <2>2, <4>1 DEF Sqes
    <3> HIDE DEF e
    <3>2. /\ SqRecvs(fd)' = SqRecvs(fd) + (IF e.op = "recv" /\ e.fd = fd THEN 1 ELSE 0)
          /\ SqSends(fd)' = SqSends(fd) + (IF e.op = "send" /\ e.fd = fd THEN 1 ELSE 0)
      BY <1>1, <2>6, <3>1, SqAppended DEF e
    <3>3. SqRecvs(fd)' = SqRecvs(fd) /\ SqSends(fd)' = SqSends(fd) + (IF g = fd THEN 1 ELSE 0)
      <4>1. SqRecvs(fd) \in Nat /\ SqSends(fd) \in Nat
        BY <1>2 DEF Sums
      <4> QED
        BY <3>1, <3>2, <4>1
    <3>4. Recvs(fd)' = Recvs(fd) /\ Sends(fd)' = Sends(fd)
      BY <1>2, <2>2, <2>3, <3>3 DEF Sums
    <3> QED
      BY <1>1, <2>4, <2>6, <3>4 DEF CountAt, tableVars
  <2>7. CASE Close(g, conns[g].closeAfterTx) /\ UNCHANGED sq
    <3>1. conns[g].closeAfterTx \in BOOLEAN
      BY <1>1, <2>2 DEF Types, WorkerTypes, Conn
    <3>2. owner'[g] = None /\ (fd # g => owner'[fd] = owner[fd])
      BY <1>1, <2>2, <2>7, <3>1, CloseStep
    <3>3. CASE fd = g
      BY <3>2, <3>3 DEF CountAt
    <3>4. CASE fd # g
      <4>1. Recvs(fd)' = Recvs(fd) /\ Sends(fd)' = Sends(fd)
        BY <1>2, <1>3, <2>2, <2>3, <2>7, <3>4 DEF Sums
      <4> QED
        BY <1>1, <2>4, <3>2, <3>4, <4>1 DEF CountAt
    <3> QED
      BY <3>3, <3>4
  <2>8. CASE conns'[g].inUse = conns[g].inUse /\ ~conns'[g].txFlight /\ UNCHANGED <<sq, tableVars>>
    <3>1. Recvs(fd)' = Recvs(fd) /\ Sends(fd)' = Sends(fd) - (IF g = fd THEN 1 ELSE 0)
      BY <1>2, <1>3, <2>2, <2>3, <2>8 DEF Sums
    <3>2. CASE fd = g
      BY <2>5, <2>8, <3>1, <3>2 DEF CountAt, tableVars
    <3>3. CASE fd # g
      <4>1. Sends(fd)' = Sends(fd)
        BY <1>2, <3>1, <3>3 DEF Sums
      <4> QED
        BY <1>1, <2>4, <2>8, <3>1, <3>3, <4>1 DEF CountAt, tableVars
    <3> QED
      BY <3>2, <3>3
  <2> QED
    BY <1>1, <1>13, <2>6, <2>7, <2>8, SendCqeStep DEF h, g
<1>15. CASE RecvEndCqe
  <2>1. /\ pc = "batch" /\ cq # <<>> /\ Consume /\ h.op = "recv" /\ h.reqs = <<>> /\ Touches(g)
        /\ ~conns'[g].inUse
        /\ UNCHANGED <<rearm, frame, sq>>
    BY <1>1, <1>15, RecvEndCqeStep DEF CqeIs, callVars, h, g
  <2>2. /\ CqRecvs(fd)' = CqRecvs(fd) - (IF g = fd THEN 1 ELSE 0) /\ CqSends(fd)' = CqSends(fd)
        /\ UNCHANGED <<armed, pending>> /\ g \in Fds
    <3>1. ~h.more
      BY <1>11, <2>1 DEF Ends
    <3> QED
      BY <1>11, <1>14, <2>1, <3>1
  <2>3. ArmedAt(fd)' = ArmedAt(fd) /\ PendingAt(fd)' = PendingAt(fd) /\ Rearming(fd)' = Rearming(fd)
    BY <1>3, <1>5, <2>1, <2>2
  <2>4. CASE fd = g
    <3>1. CASE Close(g, FALSE)
      <4>1. owner'[g] = None
        BY <1>1, <2>2, <3>1, CloseStep
      <4> QED
        BY <2>4, <4>1 DEF CountAt
    <3>2. CASE ~conns[g].inUse /\ UNCHANGED tableVars
      <4>1. Recvs(fd) # 0
        BY <1>2, <2>2, <2>4 DEF Sums
      <4>2. owner[fd] = None
        BY <1>1, <2>4, <3>2, <4>1 DEF CountAt
      <4> QED
        BY <3>2, <4>2 DEF CountAt, tableVars
    <3> QED
      BY <1>1, <1>15, <3>1, <3>2, RecvEndCqeStep DEF h, g
  <2>5. CASE fd # g
    <3>1. Recvs(fd)' = Recvs(fd) /\ Sends(fd)' = Sends(fd)
      BY <1>2, <1>3, <2>1, <2>2, <2>3, <2>5 DEF Sums
    <3>2. owner'[fd] = owner[fd] /\ conns'[fd] = conns[fd]
      <4>1. CASE Close(g, FALSE)
        BY <1>1, <2>1, <2>2, <2>5, <4>1, CloseStep DEF Touches
      <4>2. CASE UNCHANGED tableVars
        BY <2>1, <2>5, <4>2 DEF Touches, tableVars
      <4> QED
        BY <1>1, <1>15, <4>1, <4>2, RecvEndCqeStep DEF h, g
    <3> QED
      BY <1>1, <3>1, <3>2 DEF CountAt
  <2> QED
    BY <2>4, <2>5
<1>16. CASE RecvNoBufsCqe
  <2>1. /\ pc = "batch" /\ cq # <<>> /\ Consume /\ h.op = "nobufs"
        /\ IF conns[g].inUse THEN sq' = Append(sq, [op |-> "recv", fd |-> g, from |-> 0])
           ELSE UNCHANGED sq
        /\ UNCHANGED <<rearm, frame, conns, owner>>
    BY <1>16 DEF RecvNoBufsCqe, Prepare, CqeIs, callVars, tableVars, h, g
  <2>2. /\ CqRecvs(fd)' = CqRecvs(fd) - (IF g = fd THEN 1 ELSE 0) /\ CqSends(fd)' = CqSends(fd)
        /\ UNCHANGED <<armed, pending>> /\ g \in Fds
    <3>1. ~h.more
      BY <1>11, <2>1 DEF Ends
    <3> QED
      BY <1>11, <1>14, <2>1, <3>1
  <2>3. ArmedAt(fd)' = ArmedAt(fd) /\ PendingAt(fd)' = PendingAt(fd) /\ Rearming(fd)' = Rearming(fd)
    BY <1>3, <1>5, <2>1, <2>2
  <2>4. CASE ~conns[g].inUse
    <3>1. fd = g => owner[fd] = None
      <4>1. fd = g => Recvs(fd) # 0
        BY <1>2, <2>2 DEF Sums
      <4> QED
        BY <1>1, <2>4, <4>1 DEF CountAt
    <3>2. fd # g => Recvs(fd)' = Recvs(fd) /\ Sends(fd)' = Sends(fd)
      BY <1>2, <1>3, <2>1, <2>2, <2>3, <2>4 DEF Sums
    <3> QED
      BY <1>1, <2>1, <3>1, <3>2 DEF CountAt
  <2>5. CASE conns[g].inUse
    <3> DEFINE e == [op |-> "recv", fd |-> g, from |-> 0]
    <3>1. e \in Sqes /\ e.op = "recv" /\ e.fd = g
      BY <2>2 DEF Sqes
    <3> HIDE DEF e
    <3>2. /\ SqRecvs(fd)' = SqRecvs(fd) + (IF e.op = "recv" /\ e.fd = fd THEN 1 ELSE 0)
          /\ SqSends(fd)' = SqSends(fd) + (IF e.op = "send" /\ e.fd = fd THEN 1 ELSE 0)
      BY <1>1, <2>1, <2>5, <3>1, SqAppended DEF e
    <3>3. SqRecvs(fd)' = SqRecvs(fd) + (IF g = fd THEN 1 ELSE 0) /\ SqSends(fd)' = SqSends(fd)
      BY <1>14, <3>1, <3>2
    <3>4. Recvs(fd)' = Recvs(fd) /\ Sends(fd)' = Sends(fd)
      BY <1>2, <2>2, <2>3, <3>3 DEF Sums
    <3> QED
      BY <1>1, <2>1, <3>4 DEF CountAt
  <2> QED
    BY <2>4, <2>5
<1>17. CASE RecvDataCqe
  <2>1. /\ pc = "batch" /\ cq # <<>> /\ h.op = "recv" /\ Touches(g) /\ KeepsTx(g)
        /\ conns'[g].inUse = conns[g].inUse
        /\ UNCHANGED <<sq, owner>>
    BY Zenon, <1>1, <1>17, RecvDataCqeStep DEF CqeIs, tableVars, h, g
  <2>2. (conns'[fd].inUse <=> conns[fd].inUse) /\ (conns'[fd].txFlight <=> conns[fd].txFlight)
    BY <2>1 DEF Touches, KeepsTx
  <2>3. CASE UNCHANGED <<kernelVars, frame, rearm>>
    BY <1>5, <1>6, <2>1, <2>2, <2>3 DEF kernelVars
  <2>4. CASE Consume /\ rearm' = ~h.more /\ frame' = [frame EXCEPT !.fd = g]
    <3>1. /\ CqRecvs(fd)' = CqRecvs(fd) - (IF g = fd /\ ~h.more THEN 1 ELSE 0)
          /\ CqSends(fd)' = CqSends(fd) /\ Rearming(fd) = 0
          /\ UNCHANGED <<armed, pending>>
      BY <1>11, <1>14, <2>1, <2>4
    <3>2. frame'.fd = g
      BY <1>1, <2>4 DEF Types, WorkerTypes
    <3>3. Rearming(fd)' = IF g = fd /\ ~h.more THEN 1 ELSE 0
      BY <2>4, <3>2 DEF Rearming
    <3>4. Recvs(fd)' = Recvs(fd) /\ Sends(fd)' = Sends(fd)
      BY <1>2, <1>3, <2>1, <3>1, <3>3 DEF Sums
    <3> QED
      BY <1>1, <2>1, <2>2, <3>4 DEF CountAt
  <2> QED
    BY ZenonT(60), <1>1, <1>17, <2>3, <2>4, RecvDataCqeStep DEF h, g
<1>18. CASE RecvTail
  <2> DEFINE f == frame.fd
             e == [op |-> "recv", fd |-> f, from |-> 0]
  <2>1. /\ f \in Fds /\ ~rearm' /\ UNCHANGED <<armed, pending, cq, owner, conns, frame>>
        /\ IF conns[f].inUse /\ rearm THEN sq' = Append(sq, e) ELSE UNCHANGED sq
    BY <1>1, <1>18 DEF RecvTail, Prepare, kernelVars, tableVars, Types, Framed
  <2>2. CASE ~rearm
    BY <1>5, <1>6, <2>1, <2>2
  <2>3. CASE rearm /\ ~conns[f].inUse
    <3>1. CASE fd = f
      <4>1. Rearming(fd) = 1
        BY <2>3, <3>1 DEF Rearming
      <4>2. Recvs(fd) # 0
        BY <1>2, <4>1 DEF Sums
      <4>3. owner[fd] = None
        BY <1>1, <2>3, <3>1, <4>2 DEF CountAt
      <4> QED
        BY <2>1, <4>3 DEF CountAt
    <3>2. CASE fd # f
      <4>1. Rearming(fd)' = Rearming(fd)
        BY <2>1, <3>2 DEF Rearming
      <4> QED
        BY <1>6, <2>1, <2>3, <4>1
    <3> QED
      BY <3>1, <3>2
  <2>4. CASE rearm /\ conns[f].inUse
    <3>1. e \in Sqes /\ e.op = "recv" /\ e.fd = f
      BY <2>1 DEF Sqes
    <3>2. sq' = Append(sq, e)
      BY <2>1, <2>4
    <3> HIDE DEF e
    <3>3. /\ SqRecvs(fd)' = SqRecvs(fd) + (IF e.op = "recv" /\ e.fd = fd THEN 1 ELSE 0)
          /\ SqSends(fd)' = SqSends(fd) + (IF e.op = "send" /\ e.fd = fd THEN 1 ELSE 0)
      BY <1>1, <3>1, <3>2, SqAppended
    <3>4. SqRecvs(fd)' = SqRecvs(fd) + (IF f = fd THEN 1 ELSE 0) /\ SqSends(fd)' = SqSends(fd)
      BY <1>14, <3>1, <3>3
    <3>5. Rearming(fd) = (IF f = fd THEN 1 ELSE 0) /\ Rearming(fd)' = 0
      BY <1>5, <2>1, <2>4 DEF Rearming
    <3>6. Recvs(fd)' = Recvs(fd) /\ Sends(fd)' = Sends(fd)
      BY <1>2, <1>3, <2>1, <3>4, <3>5 DEF Sums
    <3> QED
      BY <1>1, <2>1, <3>6 DEF CountAt
  <2> QED
    BY <2>2, <2>3, <2>4
(* Entries are submitted; the number is looked up. *)
<1> DEFINE x == Head(sq)
<1>19. ASSUME sq # <<>>, sq' = Tail(sq)
       PROVE  /\ SqRecvs(fd)' = SqRecvs(fd) - (IF x.op = "recv" /\ x.fd = fd THEN 1 ELSE 0)
              /\ SqSends(fd)' = SqSends(fd) - (IF x.op = "send" /\ x.fd = fd THEN 1 ELSE 0)
              /\ x.fd \in Fds /\ x.from \in Nat /\ owner[x.fd] \in Socks \cup {None}
  BY <1>1, <1>19, SqTaken, HeadSqe
<1> HIDE DEF x
<1>20. CASE SubmitRecv
  <2>1. /\ sq # <<>> /\ sq' = Tail(sq) /\ x.op = "recv"
        /\ UNCHANGED <<pending, owner, conns, rearm, frame>>
        /\ IF owner[x.fd] = None
           THEN cq' = Append(cq, Cqe("recv", x.fd, <<>>, 0, FALSE)) /\ UNCHANGED armed
           ELSE armed' = armed \cup {[sock |-> owner[x.fd], fd |-> x.fd]} /\ UNCHANGED cq
    BY <1>20 DEF SubmitRecv, tableVars, callVars, x
  <2>2. /\ SqRecvs(fd)' = SqRecvs(fd) - (IF x.fd = fd THEN 1 ELSE 0) /\ SqSends(fd)' = SqSends(fd)
        /\ x.fd \in Fds /\ PendingAt(fd)' = PendingAt(fd) /\ Rearming(fd)' = Rearming(fd)
    BY <1>3, <1>5, <1>14, <1>19, <2>1
  <2>3. CASE owner[x.fd] = None
    <3> DEFINE e == Cqe("recv", x.fd, <<>>, 0, FALSE)
    <3>1. e \in Cqes /\ e.op = "recv" /\ e.fd = x.fd
      <4>1. <<>> \in Seq(Requests)
        OBVIOUS
      <4> QED
        BY <2>2, <4>1 DEF Cqe, Cqes
    <3>2. cq' = Append(cq, e) /\ UNCHANGED armed
      BY <2>1, <2>3
    <3> HIDE DEF e
    <3>3. /\ CqRecvs(fd)' = CqRecvs(fd) + (IF e.op \in {"recv", "nobufs"} /\ e.fd = fd /\ ~e.more
                                           THEN 1 ELSE 0)
          /\ CqSends(fd)' = CqSends(fd) + (IF e.op = "send" /\ e.fd = fd THEN 1 ELSE 0)
      BY <1>1, <3>1, <3>2, CqAppended
    <3>4. fd # x.fd => Recvs(fd)' = Recvs(fd) /\ Sends(fd)' = Sends(fd)
      <4> SUFFICES ASSUME fd # x.fd PROVE Recvs(fd)' = Recvs(fd) /\ Sends(fd)' = Sends(fd)
        OBVIOUS
      <4>1. CqRecvs(fd)' = CqRecvs(fd) /\ CqSends(fd)' = CqSends(fd)
        BY <1>14, <3>1, <3>3
      <4>2. SqRecvs(fd)' = SqRecvs(fd) /\ SqSends(fd)' = SqSends(fd)
        BY <1>14, <2>2
      <4> QED
        BY <1>2, <1>3, <2>2, <3>2, <4>1, <4>2 DEF Sums
    <3> QED
      BY <1>1, <2>1, <2>3, <3>4 DEF CountAt
  <2>4. CASE owner[x.fd] # None
    <3> DEFINE e == [sock |-> owner[x.fd], fd |-> x.fd]
    <3>1. armed' = armed \cup {e} /\ UNCHANGED cq /\ e.fd = x.fd
      BY <2>1, <2>4
    <3> HIDE DEF e
    <3>2. /\ ArmedAt(fd) = 0 => ArmedAt(fd)' = IF e.fd = fd THEN 1 ELSE 0
          /\ e.fd # fd => ArmedAt(fd)' = ArmedAt(fd)
      BY <1>1, <3>1, ArmedAdded
    <3>3. x.fd = fd => ArmedAt(fd) = 0
      <4> SUFFICES ASSUME x.fd = fd PROVE ArmedAt(fd) = 0
        OBVIOUS
      <4>1. Recvs(fd) \in {0, 1}
        BY <1>1, <2>4 DEF CountAt
      <4>2. SqRecvs(fd) >= 1
        <5>1. SqRecvs(fd)' = SqRecvs(fd) - 1 /\ SqRecvs(fd)' \in Nat
          BY <1>2, <2>2 DEF Sums
        <5> QED
          BY <1>14, <5>1
      <4> QED
        BY <1>2, <4>1, <4>2 DEF Sums
    <3>4. Recvs(fd)' = Recvs(fd) /\ Sends(fd)' = Sends(fd)
      <4>1. CASE x.fd = fd
        BY <1>2, <1>3, <2>2, <3>1, <3>2, <3>3, <4>1 DEF Sums
      <4>2. CASE x.fd # fd
        BY <1>2, <1>3, <2>2, <3>1, <3>2, <4>2 DEF Sums
      <4> QED
        BY <4>1, <4>2
    <3> QED
      BY <1>1, <2>1, <3>4 DEF CountAt
  <2> QED
    BY <2>3, <2>4
(* A SEND completes, or waits for room. *)
<1>21. ASSUME NEW s \in Socks \cup {None}, NEW f \in Fds, NEW from \in Nat, NEW n \in Nat,
              SendExecutes(s, f, from, n)
       PROVE  CqRecvs(fd)' = CqRecvs(fd) /\ CqSends(fd)' = CqSends(fd) + (IF f = fd THEN 1 ELSE 0)
  <2> DEFINE e == Cqe("send", f, <<>>, n, FALSE)
  <2>1. cq' = Append(cq, e) /\ e \in Cqes
    BY <1>1, <1>21, SendExecutesStep
  <2>2. e.op = "send" /\ e.fd = f
    BY DEF Cqe
  <2> HIDE DEF e
  <2>3. /\ CqRecvs(fd)' = CqRecvs(fd) + (IF e.op \in {"recv", "nobufs"} /\ e.fd = fd /\ ~e.more
                                         THEN 1 ELSE 0)
        /\ CqSends(fd)' = CqSends(fd) + (IF e.op = "send" /\ e.fd = fd THEN 1 ELSE 0)
    BY <1>1, <2>1, CqAppended
  <2>4. e.op \notin {"recv", "nobufs"}
    BY <2>2
  <2> QED
    BY <1>14, <2>2, <2>3, <2>4
<1>22. CASE SubmitSend
  <2>1. /\ sq # <<>> /\ sq' = Tail(sq) /\ x.op = "send"
        /\ UNCHANGED <<armed, owner, conns, rearm, frame>>
    BY <1>22 DEF SubmitSend, tableVars, callVars, x
  <2>2. /\ SqSends(fd)' = SqSends(fd) - (IF x.fd = fd THEN 1 ELSE 0) /\ SqRecvs(fd)' = SqRecvs(fd)
        /\ x.fd \in Fds /\ x.from \in Nat /\ owner[x.fd] \in Socks \cup {None}
        /\ ArmedAt(fd)' = ArmedAt(fd) /\ Rearming(fd)' = Rearming(fd)
    BY <1>3, <1>5, <1>14, <1>19, <2>1
  <2>3. ASSUME NEW n \in 0 .. Parts, SendExecutes(owner[x.fd], x.fd, x.from, n), UNCHANGED pending
        PROVE  Recvs(fd)' = Recvs(fd) /\ Sends(fd)' = Sends(fd)
    <3>1. n \in Nat
      BY <1>1, UnitCounts
    <3>2. CqRecvs(fd)' = CqRecvs(fd) /\ CqSends(fd)' = CqSends(fd) + (IF x.fd = fd THEN 1 ELSE 0)
      BY <1>21, <2>2, <2>3, <3>1
    <3> QED
      BY <1>2, <1>3, <2>2, <2>3, <3>2 DEF Sums
  <2>4. CASE /\ owner[x.fd] # None /\ UNCHANGED cq
             /\ pending' = pending \cup {[sock |-> owner[x.fd], fd |-> x.fd, from |-> x.from]}
    <3> DEFINE e == [sock |-> owner[x.fd], fd |-> x.fd, from |-> x.from]
    <3>1. pending' = pending \cup {e} /\ e.fd = x.fd
      BY <2>4
    <3> HIDE DEF e
    <3>2. /\ PendingAt(fd) = 0 => PendingAt(fd)' = IF e.fd = fd THEN 1 ELSE 0
          /\ e.fd # fd => PendingAt(fd)' = PendingAt(fd)
      BY <1>1, <3>1, PendingAdded
    <3>3. x.fd = fd => PendingAt(fd) = 0
      <4>1. x.fd = fd => Sends(fd) \in {0, 1}
        BY <1>1, <2>4 DEF CountAt
      <4> QED
        BY <1>2, <2>2, <4>1 DEF Sums
    <3>4. Recvs(fd)' = Recvs(fd) /\ Sends(fd)' = Sends(fd)
      <4>1. CASE x.fd = fd
        BY <1>2, <1>3, <2>2, <2>4, <3>1, <3>2, <3>3, <4>1 DEF Sums
      <4>2. CASE x.fd # fd
        BY <1>2, <1>3, <2>2, <2>4, <3>1, <3>2, <4>2 DEF Sums
      <4> QED
        BY <4>1, <4>2
    <3> QED
      BY <1>1, <2>1, <3>4 DEF CountAt
  <2>5. CASE Recvs(fd)' = Recvs(fd) /\ Sends(fd)' = Sends(fd)
    BY <1>1, <2>1, <2>5 DEF CountAt
  <2> QED
    BY <1>22, <2>3, <2>4, <2>5 DEF SubmitSend, x
(* The kernel posts completions. *)
<1>23. CASE PendingSend
  <2>1. PICK e \in pending, n \in 0 .. Parts :
          SendExecutes(e.sock, e.fd, e.from, n) /\ pending' = pending \ {e}
    BY <1>23 DEF PendingSend
  <2>2. e.sock \in Socks /\ e.fd \in Fds /\ e.from \in Nat /\ n \in Nat
    BY <1>1, UnitCounts DEF Types, KernelTypes
  <2>3. UNCHANGED <<armed, sq, owner, conns, rearm, frame>>
    BY <1>23 DEF PendingSend, tableVars, workerVars, callVars
  <2>4. CqRecvs(fd)' = CqRecvs(fd) /\ CqSends(fd)' = CqSends(fd) + (IF e.fd = fd THEN 1 ELSE 0)
    BY <1>21, <2>1, <2>2
  <2>5. PendingAt(fd)' = PendingAt(fd) - (IF e.fd = fd THEN 1 ELSE 0)
    BY <1>1, <2>1, PendingRemoved
  <2>6. Recvs(fd)' = Recvs(fd) /\ Sends(fd)' = Sends(fd)
    BY <1>2, <1>3, <1>5, <2>3, <2>4, <2>5 DEF Sums
  <2> QED
    BY <1>1, <2>3, <2>6 DEF CountAt
<1>24. CASE Recv \/ RecvEnd \/ RecvNoBufs
  <2>1. PICK e \in armed, op \in {"recv", "nobufs"}, reqs \in Seq(Requests), more \in BOOLEAN :
          /\ cq' = Append(cq, Cqe(op, e.fd, reqs, 0, more))
          /\ armed' = IF more THEN armed ELSE armed \ {e}
    <3>1. CASE Recv
      BY <1>1, <3>1, RecvStep
    <3>2. CASE RecvEnd \/ RecvNoBufs
      <4>1. <<>> \in Seq(Requests)
        OBVIOUS
      <4>2. PICK e \in armed, op \in {"recv", "nobufs"} :
              cq' = Append(cq, Cqe(op, e.fd, <<>>, 0, FALSE)) /\ armed' = armed \ {e}
        BY <3>2 DEF RecvEnd, RecvNoBufs
      <4> QED
        BY <4>1, <4>2
    <3> QED
      BY <1>24, <3>1, <3>2
  <2> DEFINE y == Cqe(op, e.fd, reqs, 0, more)
  <2>2. UNCHANGED <<pending, sq, owner, conns, rearm, frame>>
    BY <1>24 DEF Recv, RecvEnd, RecvNoBufs, tableVars, workerVars, callVars
  <2>3. y \in Cqes /\ y.op \in {"recv", "nobufs"} /\ y.op # "send" /\ y.fd = e.fd /\ y.more = more
    BY <1>1, <2>1 DEF Cqe, Cqes, Types, KernelTypes
  <2>4. cq' = Append(cq, y)
    BY <2>1
  <2> HIDE DEF y
  <2>5. /\ CqRecvs(fd)' = CqRecvs(fd) + (IF y.op \in {"recv", "nobufs"} /\ y.fd = fd /\ ~y.more
                                         THEN 1 ELSE 0)
        /\ CqSends(fd)' = CqSends(fd) + (IF y.op = "send" /\ y.fd = fd THEN 1 ELSE 0)
    BY <1>1, <2>3, <2>4, CqAppended
  <2>6. /\ CqRecvs(fd)' = CqRecvs(fd) + (IF e.fd = fd /\ ~more THEN 1 ELSE 0)
        /\ CqSends(fd)' = CqSends(fd)
    BY <1>14, <2>3, <2>5
  <2>7. ArmedAt(fd)' = ArmedAt(fd) - (IF e.fd = fd /\ ~more THEN 1 ELSE 0)
    <3>1. ArmedAt(fd) \in Nat
      BY <1>2 DEF Sums
    <3>2. CASE more
      BY <1>3, <2>1, <3>1, <3>2
    <3>3. CASE ~more
      <4>1. armed' = armed \ {e}
        BY <2>1, <3>3
      <4>2. ArmedAt(fd)' = ArmedAt(fd) - (IF e.fd = fd THEN 1 ELSE 0)
        BY <1>1, <4>1, ArmedRemoved
      <4> QED
        BY <3>3, <4>2
    <3> QED
      BY <3>2, <3>3
  <2>8. Recvs(fd)' = Recvs(fd) /\ Sends(fd)' = Sends(fd)
    <3> DEFINE d == IF e.fd = fd /\ ~more THEN 1 ELSE 0
    <3>1. d \in Nat
      OBVIOUS
    <3>2. ArmedAt(fd)' = ArmedAt(fd) - d /\ CqRecvs(fd)' = CqRecvs(fd) + d
      BY <2>6, <2>7
    <3> HIDE DEF d
    <3> QED
      <4>1. /\ Recvs(fd)' = ArmedAt(fd)' + SqRecvs(fd)' + CqRecvs(fd)' + Rearming(fd)'
            /\ Sends(fd)' = PendingAt(fd)' + SqSends(fd)' + CqSends(fd)'
        BY <1>2 DEF Sums
      <4>2. /\ SqRecvs(fd)' = SqRecvs(fd) /\ Rearming(fd)' = Rearming(fd)
            /\ SqSends(fd)' = SqSends(fd) /\ PendingAt(fd)' = PendingAt(fd)
        BY <1>3, <1>5, <2>2
      <4> QED
        <5>1. /\ Recvs(fd) = ArmedAt(fd) + SqRecvs(fd) + CqRecvs(fd) + Rearming(fd)
              /\ Sends(fd) = PendingAt(fd) + SqSends(fd) + CqSends(fd)
              /\ ArmedAt(fd) \in Nat /\ SqRecvs(fd) \in Nat /\ CqRecvs(fd) \in Nat
              /\ Rearming(fd) \in Nat
          BY <1>2 DEF Sums
        <5> QED
          BY <2>6, <3>1, <3>2, <4>1, <4>2, <5>1
  <2> QED
    BY <1>1, <2>2, <2>8 DEF CountAt
<1>25. ASSUME NEW s \in Socks, Accept(s) PROVE CountAt(fd)'
  <2>1. PICK f \in Fds : /\ owner[f] = None /\ Quiet(f)
                         /\ owner' = [owner EXCEPT ![f] = s]
                         /\ cq' = Append(cq, Cqe("accept", f, <<>>, 0, TRUE))
    BY <1>25 DEF Accept
  <2> DEFINE y == Cqe("accept", f, <<>>, 0, TRUE)
  <2>2. /\ UNCHANGED <<armed, pending, sq, conns, rearm, frame>> /\ pc = "wait"
    BY <1>25 DEF Accept, workerVars, callVars
  <2>3. y \in Cqes /\ y.op = "accept"
    <3>1. <<>> \in Seq(Requests)
      OBVIOUS
    <3> QED
      BY <3>1 DEF Cqe, Cqes
  <2>4. cq' = Append(cq, y)
    BY <2>1
  <2> HIDE DEF y
  <2>5. /\ CqRecvs(fd)' = CqRecvs(fd) + (IF y.op \in {"recv", "nobufs"} /\ y.fd = fd /\ ~y.more
                                         THEN 1 ELSE 0)
        /\ CqSends(fd)' = CqSends(fd) + (IF y.op = "send" /\ y.fd = fd THEN 1 ELSE 0)
    BY <1>1, <2>3, <2>4, CqAppended
  <2>6. CqRecvs(fd)' = CqRecvs(fd) /\ CqSends(fd)' = CqSends(fd)
    <3>1. y.op \notin {"recv", "nobufs", "send"}
      BY <2>3
    <3> QED
      BY <1>14, <2>5, <3>1
  <2>7. Recvs(fd)' = Recvs(fd) /\ Sends(fd)' = Sends(fd)
    BY <1>2, <1>3, <1>5, <2>2, <2>6 DEF Sums
  <2>8. CASE fd = f
    <3>1. /\ \A e \in armed \cup pending \cup ToSet(sq) \cup ToSet(cq) : e.fd # fd
      BY <2>1, <2>8 DEF Quiet
    <3>2. ArmedAt(fd) = 0 /\ PendingAt(fd) = 0
      <4>1. {e \in armed : e.fd = fd} = {} /\ {e \in pending : e.fd = fd} = {}
        BY <3>1
      <4> QED
        BY <4>1, FS_EmptySet DEF ArmedAt, PendingAt
    <3>3. SqRecvs(fd) = 0 /\ SqSends(fd) = 0 /\ CqRecvs(fd) = 0 /\ CqSends(fd) = 0
      <4>1. sq \in Seq(Sqes) /\ cq \in Seq(Cqes)
        BY <1>1 DEF Types, KernelTypes
      <4>2. (\A i \in DOMAIN sq : sq[i].fd # fd) /\ (\A i \in DOMAIN cq : cq[i].fd # fd)
        BY <3>1 DEF ToSet
      <4> QED
        BY <4>1, <4>2, CountFinite DEF SqRecvs, SqSends, CqRecvs, CqSends
    <3>4. Rearming(fd) = 0
      BY <1>4, <1>5, <2>2
    <3>5. Recvs(fd) = 0 /\ Sends(fd) = 0
      BY <1>2, <3>2, <3>3, <3>4 DEF Sums
    <3>6. ~conns[fd].inUse
      BY <1>1, <2>1, <2>8 DEF TableAt
    <3> QED
      BY <2>2, <2>7, <3>5, <3>6 DEF CountAt
  <2>9. CASE fd # f
    <3>1. owner'[fd] = owner[fd]
      BY <2>1, <2>9
    <3> QED
      BY <1>1, <2>2, <2>7, <3>1 DEF CountAt
  <2> QED
    BY <2>8, <2>9
<1> QED
  BY <1>8, <1>9, <1>10, <1>12, <1>13, <1>15, <1>16, <1>17, <1>18, <1>20, <1>22, <1>23, <1>24, <1>25
     DEF Next, Loop, Kernel, Idle

LEMMA CountsInit == Init => CountInv
<1> SUFFICES ASSUME Init PROVE CountInv
  OBVIOUS
<1>1. TableInv /\ \A fd \in Fds : owner[fd] = None
  BY TableInit DEF Init
<1>2. Finite
  <2>1. armed = {} /\ pending = {} /\ cq = <<>>
    BY DEF Init
  <2>2. ToSet(cq) = {}
    BY <2>1 DEF ToSet
  <2> QED
    BY <2>1, <2>2, FS_EmptySet DEF Finite
<1> QED
  BY <1>1, <1>2 DEF CountInv, CountAt

(* While the worker has a connection, exactly one thing listens to it: its *)
(* multishot recv in the kernel, one that is being submitted, or the last  *)
(* completion of one, which will arm it again.  So no client is deaf to    *)
(* the worker, and none is received from twice.                            *)
THEOREM ListenedOnce == ASSUME QuietReuse PROVE Spec => []Listened
<1>1. Init => CountInv
  BY CountsInit
<1>2. CountInv /\ [Next]_vars => CountInv'
  BY TableStep, FiniteStep, CountStep DEF CountInv, TableInv
<1>3. CountInv => Listened
  BY DEF CountInv, TableInv, TableAt, CountAt, Listened
<1> QED
  BY <1>1, <1>2, <1>3, PTL DEF Spec

(* tx_in_flight is set for exactly as long as a SEND of the connection's   *)
(* tx_buf is in the kernel or its completion is on its way: the worker     *)
(* overwrites no response that the kernel has still to read.               *)
THEOREM TxBufferExclusive == ASSUME QuietReuse PROVE Spec => []TxExclusive
<1>1. Init => CountInv
  BY CountsInit
<1>2. CountInv /\ [Next]_vars => CountInv'
  BY TableStep, FiniteStep, CountStep DEF CountInv, TableInv
<1>3. CountInv => TxExclusive
  BY DEF CountInv, TableInv, TableAt, CountAt, TxExclusive
<1> QED
  BY <1>1, <1>2, <1>3, PTL DEF Spec

----------------------------------------------------------------------------
(* Which steps change what *)

Accepting == \E s \in Socks : Accept(s)

LEMMA ClientsKept ==
  ASSUME Types, [Next]_vars, ~Clients, ~Accepting PROVE UNCHANGED clientVars
<1>1. CASE Serve
  BY Zenon, <1>1 DEF Serve, RespondAsync, RespondInOrder, RespondWrite, SendSimple, DrainNothing,
       DrainMalformed, DrainWait, DrainPark, DrainDispatch, Responded, ReadyNext, ReadyDone
<1>2. CASE Loop \/ Wake
  BY Zenon, <1>2 DEF Loop, Wake, Top, GpuRelease, AcceptCqe, SendCqe, RecvEndCqe, RecvNoBufsCqe, RecvDataCqe,
       RecvTail, EndBatch, SubmitRecv, SubmitSend, Submitted
<1>3. CASE Kernel
  BY <1>3 DEF Kernel, PendingSend, Recv, RecvNoBufs, RecvEnd, JobEnds, Accepting
<1> QED
  BY <1>1, <1>2, <1>3 DEF Next, Idle, vars

(* Requests are not taken back. *)
LEMMA AskedKept ==
  ASSUME Types, [Next]_vars, NEW s \in Socks
  PROVE  /\ DOMAIN asked[s] \subseteq DOMAIN asked'[s]
         /\ \A i \in DOMAIN asked[s] : asked'[s][i] = asked[s][i]
<1>1. CASE Clients
  <2>1. CASE asked' = asked
    BY <2>1
  <2>2. CASE \E t \in Socks : \E kind : asked' = [asked EXCEPT ![t] = Append(@, kind)]
    <3>1. PICK t, kind : t \in Socks /\ asked' = [asked EXCEPT ![t] = Append(@, kind)]
      BY <2>2
    <3>2. asked \in [Socks -> Seq(AllKinds)] /\ asked[s] \in Seq(AllKinds)
      BY DEF Types, ClientTypes
    <3>3. asked'[s] = asked[s] \/ asked'[s] = Append(asked[s], kind)
      BY <3>1, <3>2
    <3> QED
      BY <3>2, <3>3
  <2> QED
    BY <1>1, <2>1, <2>2 DEF Clients, Connect, Ask, Leave
<1>2. CASE Accepting
  BY <1>2 DEF Accepting, Accept
<1> QED
  BY <1>1, <1>2, ClientsKept DEF clientVars

(* A number loses its socket, and gets another in an accept only. *)
LEMMA OwnersShrink ==
  ASSUME Types, [Next]_vars, ~Accepting, NEW fd \in Fds
  PROVE  owner'[fd] = owner[fd] \/ owner'[fd] = None
<1>1. ASSUME NEW g \in Fds, NEW b \in BOOLEAN, Close(g, b) PROVE owner'[fd] = owner[fd] \/ owner'[fd] = None
  BY <1>1, CloseStep
<1>2. CASE DrainMalformed
  BY <1>1, <1>2, DrainMalformedStep DEF Touches
<1>3. CASE Responded
  BY <1>1, <1>3, RespondedStep DEF Touches, tableVars
<1>4. CASE SendCqe
  <2>1. Head(cq).fd \in Fds /\ conns[Head(cq).fd].closeAfterTx \in BOOLEAN
    BY <1>4, SendCqeStep DEF Touches, Types, WorkerTypes, Conn
  <2> QED
    BY <1>1, <1>4, <2>1, SendCqeStep DEF tableVars
<1>5. CASE RecvEndCqe
  BY <1>1, <1>5, RecvEndCqeStep DEF Touches, tableVars
<1>6. CASE Serve /\ ~DrainMalformed /\ ~Responded
  BY <1>6 DEF Serve, RespondAsync, RespondInOrder, RespondWrite, SendSimple, DrainNothing,
       DrainWait, DrainPark, DrainDispatch, ReadyNext, ReadyDone, tableVars
<1>7. CASE Loop /\ ~SendCqe /\ ~RecvEndCqe
  BY Zenon, <1>7 DEF Loop, Top, GpuRelease, AcceptCqe, RecvNoBufsCqe, RecvDataCqe,
       RecvTail, EndBatch, SubmitRecv, SubmitSend, Submitted, tableVars
<1>8. CASE Wake \/ Kernel \/ Clients \/ UNCHANGED vars
  BY <1>8 DEF Wake, Kernel, PendingSend, Recv, RecvNoBufs, RecvEnd, JobEnds, Accepting, Clients, Connect,
       Ask, Leave, tableVars, vars
<1> QED
  BY <1>2, <1>3, <1>4, <1>5, <1>6, <1>7, <1>8 DEF Next, Idle

LEMMA ConnsKept ==
  ASSUME Types, [Next]_vars, ~RespondAsync, ~DrainMalformed, ~DrainPark, ~Responded, ~AcceptCqe, ~SendCqe,
         ~RecvEndCqe, ~RecvDataCqe
  PROVE  conns' = conns
<1>1. CASE Serve
  BY <1>1 DEF Serve, RespondInOrder, RespondWrite, SendSimple, DrainNothing, DrainWait, DrainDispatch,
       ReadyNext, ReadyDone
<1>2. CASE Loop
  BY <1>2 DEF Loop, Top, GpuRelease, RecvNoBufsCqe, RecvTail, EndBatch, SubmitRecv, SubmitSend, Submitted
<1>3. CASE Kernel
  BY <1>3, KernelStep DEF workerVars
<1>4. CASE Wake \/ Clients \/ UNCHANGED vars
  BY <1>4 DEF Wake, Clients, Connect, Ask, Leave, workerVars, vars
<1> QED
  BY <1>1, <1>2, <1>3, <1>4 DEF Next, Idle

(* tx_buf is filled by rt_http_respond only. *)
LEMMA TxKept ==
  ASSUME Types, [Next]_vars, NEW fd \in Fds, ~(RespondAsync /\ fd = frame.fd)
  PROVE  /\ conns'[fd].tx = conns[fd].tx
         /\ conns'[fd].inUse /\ conns'[fd].txFlight => conns[fd].inUse /\ conns[fd].txFlight
<1>1. CASE RespondAsync
  BY <1>1, RespondAsyncStep
<1>2. CASE DrainMalformed
  BY <1>2, DrainMalformedStep DEF Touches, KeepsTx
<1>3. CASE DrainPark
  BY <1>3, DrainParkStep DEF Touches, KeepsTx
<1>4. CASE Responded
  BY <1>4, RespondedStep DEF Touches, KeepsTx
<1>5. CASE AcceptCqe
  BY <1>5, AcceptCqeStep DEF Touches
<1>6. CASE SendCqe
  BY <1>6, SendCqeStep DEF Touches
<1>7. CASE RecvEndCqe
  BY <1>7, RecvEndCqeStep DEF Touches, KeepsTx
<1>8. CASE RecvDataCqe
  BY Zenon, <1>8, RecvDataCqeStep DEF Touches, KeepsTx
<1> QED
  BY <1>1, <1>2, <1>3, <1>4, <1>5, <1>6, <1>7, <1>8, ConnsKept

(* A receive buffer starts empty, loses its first request, or gets those   *)
(* of a completion.                                                        *)
LEMMA BufferKept ==
  ASSUME Types, [Next]_vars, NEW fd \in Fds, conns'[fd].inUse
  PROVE  \/ conns'[fd].buf = <<>>
         \/ conns[fd].inUse /\ conns'[fd].buf = conns[fd].buf
         \/ conns[fd].inUse /\ conns[fd].buf # <<>> /\ conns'[fd].buf = Tail(conns[fd].buf)
         \/ /\ conns[fd].inUse /\ cq # <<>> /\ fd = Head(cq).fd
            /\ conns'[fd].buf = conns[fd].buf \o Head(cq).reqs
<1>1. CASE RespondAsync
  BY <1>1, RespondAsyncStep
<1>2. CASE DrainMalformed
  BY <1>2, DrainMalformedStep DEF Touches, KeepsTx
<1>3. CASE DrainPark
  BY <1>3, DrainParkStep DEF Touches, KeepsTx
<1>4. CASE Responded
  <2>1. CASE fd = frame.fd
    BY <1>4, <2>1, RespondedStep DEF Touches
  <2>2. CASE fd # frame.fd
    BY <1>4, <2>2, RespondedStep DEF Touches
  <2> QED
    BY <2>1, <2>2
<1>5. CASE AcceptCqe
  BY Zenon, <1>5, AcceptCqeStep DEF Touches
<1>6. CASE SendCqe
  BY Zenon, <1>6, SendCqeStep DEF Touches
<1>7. CASE RecvEndCqe
  BY Zenon, <1>7, RecvEndCqeStep DEF Touches, KeepsTx
<1>8. CASE RecvDataCqe
  <2>1. CqeIs("recv")
    BY <1>8 DEF RecvDataCqe
  <2> QED
    BY Zenon, <1>8, <2>1, RecvDataCqeStep DEF Touches, CqeIs
<1> QED
  BY <1>1, <1>2, <1>3, <1>4, <1>5, <1>6, <1>7, <1>8, ConnsKept

LEMMA ArmedKept ==
  ASSUME Types, [Next]_vars, NEW e \in armed'
  PROVE  e \in armed \/ (e.fd \in Fds /\ owner[e.fd] = e.sock /\ UNCHANGED owner)
<1>1. CASE Serve
  BY Zenon, <1>1 DEF Serve, RespondAsync, RespondInOrder, RespondWrite, SendSimple, DrainNothing,
       DrainMalformed, DrainWait, DrainPark, DrainDispatch, Responded, ReadyNext, ReadyDone, kernelVars
<1>2. CASE Loop /\ ~SubmitRecv
  BY Zenon, <1>2 DEF Loop, Top, GpuRelease, AcceptCqe, SendCqe, RecvEndCqe, RecvNoBufsCqe, RecvDataCqe,
       RecvTail, EndBatch, SubmitSend, Submitted, Consume, kernelVars
<1>3. CASE SubmitRecv
  <2>1. CASE armed' = armed
    BY <2>1
  <2>2. CASE armed' = armed \cup {[sock |-> owner[Head(sq).fd], fd |-> Head(sq).fd]}
    <3>1. Head(sq).fd \in Fds /\ UNCHANGED owner
      BY <1>3, HeadSqe DEF SubmitRecv, tableVars
    <3> QED
      BY <2>2, <3>1
  <2> QED
    BY <1>3, <2>1, <2>2 DEF SubmitRecv
<1>4. CASE Kernel
  BY <1>4 DEF Kernel, PendingSend, Recv, RecvNoBufs, RecvEnd, JobEnds, Accept, kernelVars
<1>5. CASE Wake \/ Clients \/ UNCHANGED vars
  BY <1>5 DEF Wake, Clients, Connect, Ask, Leave, kernelVars, vars
<1> QED
  BY <1>1, <1>2, <1>3, <1>4, <1>5 DEF Next, Idle

LEMMA PendingKept ==
  ASSUME Types, [Next]_vars, NEW e \in pending'
  PROVE  \/ e \in pending
         \/ /\ SubmitSend /\ sq # <<>> /\ Head(sq).op = "send" /\ Head(sq).fd = e.fd
            /\ e.fd \in Fds /\ owner[e.fd] # None /\ owner[e.fd] = e.sock /\ UNCHANGED <<owner, conns>>
<1>1. CASE Serve
  BY Zenon, <1>1 DEF Serve, RespondAsync, RespondInOrder, RespondWrite, SendSimple, DrainNothing,
       DrainMalformed, DrainWait, DrainPark, DrainDispatch, Responded, ReadyNext, ReadyDone, kernelVars
<1>2. CASE Loop /\ ~SubmitSend
  BY Zenon, <1>2 DEF Loop, Top, GpuRelease, AcceptCqe, SendCqe, RecvEndCqe, RecvNoBufsCqe, RecvDataCqe,
       RecvTail, EndBatch, SubmitRecv, Submitted, Consume, kernelVars
<1>3. CASE SubmitSend
  <2>1. CASE pending' = pending
    BY <2>1
  <2>2. CASE /\ owner[Head(sq).fd] # None
             /\ pending' = pending \cup {[sock |-> owner[Head(sq).fd], fd |-> Head(sq).fd, from |-> Head(sq).from]}
    <3>1. Head(sq).fd \in Fds /\ sq # <<>> /\ Head(sq).op = "send" /\ UNCHANGED <<owner, conns>>
      BY <1>3, HeadSqe DEF SubmitSend, tableVars
    <3> QED
      BY <1>3, <2>2, <3>1
  <2> QED
    BY <1>3, <2>1, <2>2 DEF SubmitSend
<1>4. CASE Kernel
  BY <1>4 DEF Kernel, PendingSend, Recv, RecvNoBufs, RecvEnd, JobEnds, Accept, kernelVars
<1>5. CASE Wake \/ Clients \/ UNCHANGED vars
  BY <1>5 DEF Wake, Clients, Connect, Ask, Leave, kernelVars, vars
<1> QED
  BY <1>1, <1>2, <1>3, <1>4, <1>5 DEF Next, Idle

(* A new completion: of what, and why *)
Ended(s) == s = None \/ s \in shut \/ client[s] = "gone"

Posted(e) ==
  /\ UNCHANGED <<owner, shut, client, asked>>
  /\ \/ e.op = "nobufs" /\ e.reqs = <<>>
     \/ /\ e.op = "recv" /\ e.reqs = <<>>
        /\ owner[e.fd] = None \/ \E a \in armed : a.fd = e.fd /\ Ended(a.sock)
     \/ /\ e.op = "send" /\ e.reqs = <<>>
        /\ e.n = 0 => Ended(owner[e.fd]) \/ \E p \in pending : p.fd = e.fd /\ Ended(p.sock)
     \/ /\ e.op = "recv" /\ e.reqs # <<>>
        /\ \E a \in armed : a.fd = e.fd /\ \A i \in DOMAIN e.reqs :
             e.reqs[i].sock = a.sock /\ e.reqs[i].n \in DOMAIN asked[a.sock]

LEMMA CqKept ==
  ASSUME Types, [Next]_vars, NEW e \in ToSet(cq')
  PROVE  e \in ToSet(cq) \/ (e.op = "accept" /\ e.reqs = <<>>) \/ Posted(e)
<1>1. cq \in Seq(Cqes)
  BY DEF Types, KernelTypes
<1>2. CASE cq' = cq
  BY <1>2
<1>3. ASSUME cq # <<>>, cq' = Tail(cq) PROVE e \in ToSet(cq)
  BY <1>1, <1>3, ToSetTail
<1>4. ASSUME NEW x, cq' = Append(cq, x) PROVE e \in ToSet(cq) \/ e = x
  BY <1>1, <1>4, ToSetAppend
<1>5. CASE Serve
  BY Zenon, <1>2, <1>5 DEF Serve, RespondAsync, RespondInOrder, RespondWrite, SendSimple, DrainNothing,
       DrainMalformed, DrainWait, DrainPark, DrainDispatch, Responded, ReadyNext, ReadyDone, kernelVars
<1>6. CASE Loop /\ ~SubmitSend /\ ~SubmitRecv
  BY Zenon, <1>2, <1>3, <1>6 DEF Loop, Top, GpuRelease, AcceptCqe, SendCqe, RecvEndCqe, RecvNoBufsCqe, RecvDataCqe,
       RecvTail, EndBatch, Submitted, Consume, CqeIs, kernelVars
<1>7. CASE SubmitRecv
  <2>1. CASE /\ owner[Head(sq).fd] = None
             /\ cq' = Append(cq, Cqe("recv", Head(sq).fd, <<>>, 0, FALSE))
    <3>1. UNCHANGED <<owner, shut, client, asked>>
      BY <1>7 DEF SubmitRecv, tableVars, clientVars
    <3>2. e \in ToSet(cq) \/ e = Cqe("recv", Head(sq).fd, <<>>, 0, FALSE)
      BY <1>4, <2>1
    <3> QED
      BY <2>1, <3>1, <3>2 DEF Posted, Cqe
  <2> QED
    BY <1>2, <1>7, <2>1 DEF SubmitRecv
<1>8. ASSUME NEW s, NEW fd, NEW from, NEW n, SendExecutes(s, fd, from, n),
             UNCHANGED <<owner, shut, client, asked>>,
             s = owner[fd] \/ \E p \in pending : p.fd = fd /\ p.sock = s
      PROVE  e \in ToSet(cq) \/ Posted(e)
  <2>1. e \in ToSet(cq) \/ e = Cqe("send", fd, <<>>, n, FALSE)
    BY <1>4, <1>8 DEF SendExecutes
  <2>2. n = 0 => Ended(s)
    BY <1>8 DEF SendExecutes, MayFail, MaySucceed, Ended
  <2> QED
    BY <1>8, <2>1, <2>2 DEF Posted, Cqe
<1>9. CASE SubmitSend
  <2>1. UNCHANGED <<owner, shut, client, asked>>
    BY <1>9 DEF SubmitSend, tableVars, clientVars
  <2> QED
    BY <1>2, <1>8, <1>9, <2>1 DEF SubmitSend
<1>10. CASE PendingSend
  <2>1. UNCHANGED <<owner, shut, client, asked>>
    BY <1>10 DEF PendingSend, tableVars, clientVars
  <2>2. PICK p \in pending, n \in 0 .. Parts : SendExecutes(p.sock, p.fd, p.from, n)
    BY <1>10 DEF PendingSend
  <2> QED
    BY <1>8, <2>1, <2>2
<1>11. CASE Recv
  <2>1. UNCHANGED <<owner, shut, client, asked>>
    BY <1>11 DEF Recv, tableVars, clientVars
  <2>2. PICK a \in armed, more \in BOOLEAN, reqs \in Seq(Requests) :
          /\ cq' = Append(cq, Cqe("recv", a.fd, reqs, 0, more)) /\ reqs # <<>>
          /\ \A i \in DOMAIN reqs : reqs[i].sock = a.sock /\ reqs[i].n \in DOMAIN asked[a.sock]
    BY <1>11, RecvStep
  <2>3. e \in ToSet(cq) \/ e = Cqe("recv", a.fd, reqs, 0, more)
    BY <1>4, <2>2
  <2> QED
    BY <2>1, <2>2, <2>3 DEF Posted, Cqe
<1>12. CASE RecvEnd
  <2>1. UNCHANGED <<owner, shut, client, asked>>
    BY <1>12 DEF RecvEnd, tableVars, clientVars
  <2>2. PICK a \in armed : Ended(a.sock) /\ cq' = Append(cq, Cqe("recv", a.fd, <<>>, 0, FALSE))
    BY <1>12 DEF RecvEnd, Ended
  <2>3. e \in ToSet(cq) \/ e = Cqe("recv", a.fd, <<>>, 0, FALSE)
    BY <1>4, <2>2
  <2> QED
    BY <2>1, <2>2, <2>3 DEF Posted, Cqe
<1>13. CASE RecvNoBufs
  <2>1. UNCHANGED <<owner, shut, client, asked>>
    BY <1>13 DEF RecvNoBufs, tableVars, clientVars
  <2>2. PICK a \in armed : cq' = Append(cq, Cqe("nobufs", a.fd, <<>>, 0, FALSE))
    BY <1>13 DEF RecvNoBufs
  <2>3. e \in ToSet(cq) \/ e = Cqe("nobufs", a.fd, <<>>, 0, FALSE)
    BY <1>4, <2>2
  <2> QED
    BY <2>1, <2>2, <2>3 DEF Posted, Cqe
<1>14. ASSUME NEW s \in Socks, Accept(s) PROVE e \in ToSet(cq) \/ (e.op = "accept" /\ e.reqs = <<>>)
  <2>1. PICK fd \in Fds : cq' = Append(cq, Cqe("accept", fd, <<>>, 0, TRUE))
    BY <1>14 DEF Accept
  <2>2. e \in ToSet(cq) \/ e = Cqe("accept", fd, <<>>, 0, TRUE)
    BY <1>4, <2>1
  <2> QED
    BY <2>2 DEF Cqe
<1>15. CASE Wake \/ Clients \/ JobEnds \/ UNCHANGED vars
  BY <1>2, <1>15 DEF Wake, Clients, Connect, Ask, Leave, JobEnds, kernelVars, vars
<1> QED
  BY <1>5, <1>6, <1>7, <1>9, <1>10, <1>11, <1>12, <1>13, <1>14, <1>15 DEF Next, Loop, Kernel, Idle

(* The request that is served: the same, one from the buffer, or the one   *)
(* that was parked.                                                        *)
LEMMA FrameKept ==
  ASSUME Types, [Next]_vars, Serving'
  PROVE  \/ /\ Serving /\ frame'.fd = frame.fd /\ frame'.req = frame.req
            /\ frame'.closing => frame.closing \/ Ended(owner[frame.fd])
            /\ UNCHANGED <<owner, shut, client, asked>>
         \/ /\ frame'.fd = frame.fd /\ frame.fd \in Fds /\ conns[frame.fd].inUse
            /\ conns[frame.fd].buf # <<>> /\ frame'.req = Head(conns[frame.fd].buf)
            /\ frame'.closing <=> Closing(Kind(frame'.req))
            /\ UNCHANGED <<owner, shut, client, asked>>
         \/ /\ parked # None /\ frame'.fd = parked.fd /\ frame'.req = parked.req /\ ~frame'.closing
            /\ UNCHANGED <<owner, shut, client, asked>>
<1>1. frame \in [fd : Fds \cup {None}, req : Requests \cup {None}, closing : BOOLEAN]
  BY DEF Types, WorkerTypes
<1>2. pc' \in {"respond", "write", "simple", "responded", "submit"} /\ (pc' = "submit" => after' = "write")
  BY DEF Serving
<1>3. CASE RespondAsync \/ RespondInOrder \/ SendSimple
  BY <1>3 DEF RespondAsync, RespondInOrder, SendSimple, callVars, Serving, clientVars, tableVars
<1>4. CASE RespondWrite
  <2>1. PICK ok \in WriteOutcomes(frame.fd) : frame' = [frame EXCEPT !.closing = @ \/ ~ok]
    BY <1>4 DEF RespondWrite
  <2>2. ok \in BOOLEAN /\ (~ok => Ended(owner[frame.fd]))
    BY DEF WriteOutcomes, MayFail, MaySucceed, Ended
  <2>3. /\ frame'.fd = frame.fd /\ frame'.req = frame.req
        /\ frame'.closing <=> (frame.closing \/ ~ok)
    BY <1>1, <2>1, <2>2
  <2>4. Serving /\ UNCHANGED <<owner, shut, client, asked>>
    BY <1>4 DEF RespondWrite, Serving, clientVars, tableVars
  <2> QED
    BY <2>2, <2>3, <2>4
<1>5. CASE DrainDispatch
  <2>1. /\ frame' = [frame EXCEPT !.req = Head(conns[frame.fd].buf),
                                  !.closing = Closing(Kind(Head(conns[frame.fd].buf)))]
        /\ pc = "drain" /\ conns[frame.fd].inUse /\ conns[frame.fd].buf # <<>>
        /\ UNCHANGED <<owner, shut, client, asked>>
    BY <1>5 DEF DrainDispatch, DrainHead, clientVars, tableVars
  <2>2. frame.fd \in Fds
    BY <2>1 DEF Types, Framed
  <2> QED
    BY <1>1, <2>1, <2>2
<1>6. CASE DrainNothing \/ DrainMalformed \/ DrainWait \/ DrainPark \/ Responded \/ ReadyNext
  BY <1>2, <1>6 DEF DrainNothing, DrainMalformed, DrainWait, DrainPark, Responded, ReadyNext, DrainReturn
<1>7. CASE ReadyDone \/ Top \/ EndBatch \/ Wake
  BY <1>2, <1>7 DEF ReadyDone, Top, EndBatch, Wake
<1>8. CASE GpuRelease("top") \/ GpuRelease("batch")
  BY <1>2, <1>8 DEF GpuRelease, clientVars, tableVars
<1>9. CASE AcceptCqe \/ SendCqe \/ RecvEndCqe \/ RecvNoBufsCqe \/ RecvDataCqe \/ RecvTail
  BY Zenon, <1>2, <1>9 DEF AcceptCqe, SendCqe, RecvEndCqe, RecvNoBufsCqe, RecvDataCqe, RecvTail, CqeIs
<1>10. CASE SubmitRecv \/ SubmitSend
  BY <1>10 DEF SubmitRecv, SubmitSend, callVars, Serving, clientVars, tableVars
<1>11. CASE Submitted
  <2>1. after = "write"
    BY <1>2, <1>11 DEF Submitted, Types, WorkerTypes
  <2> QED
    BY <1>11, <2>1 DEF Submitted, Serving, clientVars, tableVars
<1>12. CASE Kernel
  <2>1. pc = "wait" /\ pc' = pc
    BY <1>12, KernelStep DEF workerVars
  <2> QED
    BY <1>2, <2>1
<1>13. CASE Clients
  BY <1>2, <1>13 DEF Clients, Connect, Ask, Leave, workerVars
<1>14. CASE UNCHANGED vars
  BY <1>14 DEF vars, callVars, Serving, clientVars, tableVars
<1> QED
  BY <1>3, <1>4, <1>5, <1>6, <1>7, <1>8, <1>9, <1>10, <1>11, <1>12, <1>13, <1>14
     DEF Next, Serve, Loop, Idle

LEMMA ParkedKept ==
  ASSUME Types, [Next]_vars, parked' # None
  PROVE  \/ parked' = parked
         \/ /\ frame.fd \in Fds /\ conns[frame.fd].inUse /\ conns[frame.fd].buf # <<>>
            /\ parked' = [fd |-> frame.fd, req |-> Head(conns[frame.fd].buf)]
            /\ UNCHANGED <<owner, asked>>
<1>1. CASE DrainPark
  BY <1>1, DrainParkStep DEF Touches, clientVars, tableVars
<1>2. CASE Serve /\ ~DrainPark
  BY Zenon, <1>2 DEF Serve, RespondAsync, RespondInOrder, RespondWrite, SendSimple, DrainNothing,
       DrainMalformed, DrainWait, DrainDispatch, Responded, ReadyNext, ReadyDone
<1>3. CASE Loop \/ Wake
  BY Zenon, <1>3 DEF Loop, Wake, Top, GpuRelease, AcceptCqe, SendCqe, RecvEndCqe, RecvNoBufsCqe, RecvDataCqe,
       RecvTail, EndBatch, SubmitRecv, SubmitSend, Submitted
<1>4. CASE Kernel
  BY <1>4, KernelStep DEF workerVars
<1>5. CASE Clients \/ UNCHANGED vars
  BY <1>5 DEF Clients, Connect, Ask, Leave, workerVars, vars
<1> QED
  BY <1>1, <1>2, <1>3, <1>4, <1>5 DEF Next, Idle

----------------------------------------------------------------------------
(* Whatever refers to a descriptor is about the socket that has it, if one *)
(* has it at all: the kernel's recvs and SENDs, the completions, the       *)
(* requests in a buffer, the response in tx_buf, the request being served  *)
(* and the parked one.                                                     *)

For(r, fd) == r \in Requests /\ r.n \in DOMAIN asked[r.sock] /\ owner[fd] \in {None, r.sock}

ArmedRefs == \A e \in armed : owner[e.fd] \in {None, e.sock}
PendingRefs ==
  \A e \in pending :
    /\ owner[e.fd] \in {None, e.sock}
    /\ conns[e.fd].tx \in Requests /\ conns[e.fd].tx.sock = e.sock
CqRefs == \A e \in ToSet(cq) : \A i \in DOMAIN e.reqs : For(e.reqs[i], e.fd)
BufRefs == \A fd \in Fds : conns[fd].inUse => \A i \in DOMAIN conns[fd].buf : For(conns[fd].buf[i], fd)
TxRefs ==
  \A fd \in Fds : conns[fd].inUse /\ conns[fd].txFlight =>
    conns[fd].tx \in Requests /\ conns[fd].tx.sock = owner[fd]
FrameRef == Serving => For(frame.req, frame.fd)
ParkedRef == parked # None => For(parked.req, parked.fd)

Refs == ArmedRefs /\ PendingRefs /\ CqRefs /\ BufRefs /\ TxRefs /\ FrameRef /\ ParkedRef
RefsInv == CountInv /\ Refs

LEMMA ForKept ==
  ASSUME Types, [Next]_vars, NEW r, NEW fd \in Fds, For(r, fd),
         owner'[fd] = owner[fd] \/ owner'[fd] = None
  PROVE  For(r, fd)'
<1>1. r \in Requests /\ r.sock \in Socks
  BY DEF For, Requests
<1>2. r.n \in DOMAIN asked'[r.sock]
  BY <1>1, AskedKept DEF For
<1> QED
  BY <1>1, <1>2 DEF For

LEMMA CountNext == CountInv /\ [Next]_vars /\ QuietReuse => CountInv'
  BY TableStep, FiniteStep, CountStep DEF CountInv, TableInv

(* Heads and tails of a buffer *)
LEMMA SeqParts ==
  ASSUME NEW S, NEW q \in Seq(S), q # <<>>
  PROVE  /\ 1 \in DOMAIN q /\ Head(q) = q[1]
         /\ \A i \in DOMAIN Tail(q) : i + 1 \in DOMAIN q /\ Tail(q)[i] = q[i + 1]
<1>1. Len(q) \in Nat /\ Len(q) # 0 /\ DOMAIN q = 1 .. Len(q)
  OBVIOUS
<1>2. Tail(q) \in Seq(S) /\ Len(Tail(q)) = Len(q) - 1 /\ DOMAIN Tail(q) = 1 .. (Len(q) - 1)
  BY <1>1
<1> QED
  BY <1>1, <1>2

LEMMA SeqJoined ==
  ASSUME NEW S, NEW p \in Seq(S), NEW q \in Seq(S), NEW i \in DOMAIN (p \o q)
  PROVE  \/ i \in DOMAIN p /\ (p \o q)[i] = p[i]
         \/ \E j \in DOMAIN q : (p \o q)[i] = q[j]
<1>1. Len(p) \in Nat /\ Len(q) \in Nat /\ DOMAIN p = 1 .. Len(p) /\ DOMAIN q = 1 .. Len(q)
      /\ DOMAIN (p \o q) = 1 .. (Len(p) + Len(q)) /\ i \in 1 .. (Len(p) + Len(q))
  OBVIOUS
<1>2. CASE i <= Len(p)
  BY <1>1, <1>2
<1>3. CASE i > Len(p)
  <2>1. i - Len(p) \in DOMAIN q /\ (p \o q)[i] = q[i - Len(p)]
    BY <1>1, <1>3
  <2> QED
    BY <2>1
<1> QED
  BY <1>1, <1>2, <1>3

(* A number with no socket to which nothing refers gets a socket. *)
LEMMA AcceptRefs ==
  ASSUME RefsInv, [Next]_vars, QuietReuse, NEW s \in Socks, Accept(s)
  PROVE  Refs'
<1>1. /\ Types /\ Refs /\ \A fd \in Fds : TableAt(fd)
  BY DEF RefsInv, CountInv, TableInv
<1>2. PICK g \in Fds : /\ owner[g] = None /\ Quiet(g) /\ owner' = [owner EXCEPT ![g] = s]
                       /\ cq' = Append(cq, Cqe("accept", g, <<>>, 0, TRUE))
  BY DEF Accept
<1>3. /\ UNCHANGED <<armed, pending, conns, frame, parked, pc, after, asked>>
      /\ pc = "wait"
  BY DEF Accept, workerVars, callVars
<1>4. /\ \A e \in armed \cup pending \cup ToSet(cq) : e.fd # g
      /\ parked # None => parked.fd # g
      /\ ~conns[g].inUse
  BY <1>1, <1>2 DEF Quiet, TableAt
<1>5. \A fd \in Fds : fd # g => owner'[fd] = owner[fd]
  BY <1>2
<1>6. ASSUME NEW r, NEW fd \in Fds, fd # g, For(r, fd) PROVE For(r, fd)'
  BY <1>1, <1>5, <1>6, ForKept
<1>7. ArmedRefs' /\ PendingRefs'
  <2>1. \A e \in armed \cup pending : e.fd \in Fds /\ e.fd # g
    BY <1>1, <1>4 DEF Types, KernelTypes
  <2> QED
    BY <1>1, <1>3, <1>5, <2>1 DEF Refs, ArmedRefs, PendingRefs
<1>8. CqRefs'
  <2> SUFFICES ASSUME NEW e \in ToSet(cq'), NEW i \in DOMAIN e.reqs PROVE For(e.reqs[i], e.fd)'
    BY DEF CqRefs
  <2>1. ToSet(cq') = ToSet(cq) \cup {Cqe("accept", g, <<>>, 0, TRUE)}
    BY <1>1, <1>2, ToSetAppend DEF Types, KernelTypes
  <2>2. e \in ToSet(cq)
    <3>1. DOMAIN Cqe("accept", g, <<>>, 0, TRUE).reqs = {}
      BY DEF Cqe
    <3> QED
      BY <2>1, <3>1
  <2>3. e \in Cqes
    BY <1>1, <2>2 DEF Types, KernelTypes, ToSet
  <2>4. e.fd \in Fds /\ e.fd # g
    BY <1>4, <2>2, <2>3 DEF Cqes
  <2> QED
    BY <1>1, <1>6, <2>2, <2>4 DEF Refs, CqRefs
<1>9. BufRefs'
  <2> SUFFICES ASSUME NEW fd \in Fds, conns'[fd].inUse, NEW i \in DOMAIN conns'[fd].buf,
                      NEW r, r = conns'[fd].buf[i]
               PROVE  For(r, fd)'
    BY DEF BufRefs, For
  <2>1. conns[fd].inUse /\ fd # g /\ i \in DOMAIN conns[fd].buf
    BY <1>3, <1>4
  <2>2. For(r, fd)
    BY <1>1, <1>3, <2>1 DEF Refs, BufRefs
  <2> QED
    BY <1>6, <2>1, <2>2
<1>10. TxRefs'
  BY <1>1, <1>3, <1>4, <1>5 DEF Refs, TxRefs
<1>11. FrameRef'
  BY <1>3 DEF FrameRef, Serving
<1>12. ParkedRef'
  <2>1. parked # None => parked.fd \in Fds
    BY <1>1 DEF Types, WorkerTypes
  <2>2. parked # None => For(parked.req, parked.fd)'
    BY <1>1, <1>3, <1>4, <1>6, <2>1 DEF Refs, ParkedRef
  <2> QED
    BY <1>3, <2>2 DEF ParkedRef
<1> QED
  BY <1>7, <1>8, <1>9, <1>10, <1>11, <1>12 DEF Refs

LEMMA RefsKept ==
  ASSUME RefsInv, [Next]_vars, QuietReuse, ~Accepting
  PROVE  Refs'
<1>1. /\ Types /\ Types' /\ Refs /\ Finite /\ \A fd \in Fds : TableAt(fd) /\ CountAt(fd) /\ TableAt(fd)'
  BY TypesStep, CountNext DEF RefsInv, CountInv, TableInv
<1>2. \A fd \in Fds : owner'[fd] = owner[fd] \/ owner'[fd] = None
  BY <1>1, OwnersShrink
<1>3. ASSUME NEW r, NEW fd \in Fds, For(r, fd) PROVE For(r, fd)'
  BY <1>1, <1>2, <1>3, ForKept
<1>4. ArmedRefs'
  <2> SUFFICES ASSUME NEW e \in armed' PROVE owner'[e.fd] \in {None, e.sock}
    BY DEF ArmedRefs
  <2>1. e.fd \in Fds
    BY <1>1 DEF Types, KernelTypes
  <2> QED
    BY <1>1, <1>2, <2>1, ArmedKept DEF Refs, ArmedRefs
<1>5. PendingRefs'
  <2> SUFFICES ASSUME NEW e \in pending'
               PROVE  /\ owner'[e.fd] \in {None, e.sock}
                      /\ conns'[e.fd].tx \in Requests /\ conns'[e.fd].tx.sock = e.sock
    BY DEF PendingRefs
  <2>1. e.fd \in Fds /\ e.sock \in Socks
    BY <1>1 DEF Types, KernelTypes
  <2>2. CASE e \in pending
    <3>1. owner[e.fd] \in {None, e.sock} /\ conns[e.fd].tx \in Requests /\ conns[e.fd].tx.sock = e.sock
      BY <1>1, <2>2 DEF Refs, PendingRefs
    (* While a SEND waits the response in tx_buf is not replaced. *)
    <3>2. ~(RespondAsync /\ e.fd = frame.fd)
      <4> SUFFICES ASSUME RespondAsync, e.fd = frame.fd PROVE FALSE
        OBVIOUS
      <4>1. conns[e.fd].inUse /\ ~conns[e.fd].txFlight
        BY <1>1, RespondAsyncStep
      <4>2. Sends(e.fd) = 0
        BY <1>1, <2>1, <4>1 DEF TableAt, CountAt
      <4>3. PendingAt(e.fd) = 0
        BY <1>1, <2>1, <4>2, SumsHold DEF Sums
      <4>4. {x \in pending : x.fd = e.fd} \in SUBSET pending /\ e \in {x \in pending : x.fd = e.fd}
        BY <2>2
      <4>5. IsFiniteSet({x \in pending : x.fd = e.fd})
        BY <1>1, <4>4, FS_Subset DEF Finite
      <4> QED
        BY <4>3, <4>4, <4>5, FS_EmptySet DEF PendingAt
    <3>3. conns'[e.fd].tx = conns[e.fd].tx
      BY <1>1, <2>1, <3>2, TxKept
    <3> QED
      BY <1>2, <2>1, <3>1, <3>3
  <2>3. CASE /\ SubmitSend /\ sq # <<>> /\ Head(sq).op = "send" /\ Head(sq).fd = e.fd
             /\ owner[e.fd] # None /\ owner[e.fd] = e.sock /\ UNCHANGED <<owner, conns>>
    <3>1. SqSends(e.fd) # 0
      <4>1. sq \in Seq(Sqes) /\ 1 \in DOMAIN sq /\ Head(sq) = sq[1] /\ Head(sq) \in Sqes
        BY <1>1, <2>3, SeqParts, HeadSqe DEF Types, KernelTypes
      <4>2. sq[1] \in {x \in Sqes : x.op = "send" /\ x.fd = e.fd}
        BY <2>3, <4>1
      <4> QED
        BY <4>1, <4>2, CountFinite DEF SqSends
    <3>2. Sends(e.fd) # 0
      <4>1. Sums(e.fd)
        BY <1>1, <2>1, SumsHold
      <4>2. /\ Sends(e.fd) = PendingAt(e.fd) + SqSends(e.fd) + CqSends(e.fd)
            /\ PendingAt(e.fd) \in Nat /\ SqSends(e.fd) \in Nat /\ CqSends(e.fd) \in Nat
        BY <4>1 DEF Sums
      <4> QED
        BY <3>1, <4>2
    <3>3. conns[e.fd].inUse /\ conns[e.fd].txFlight
      BY <1>1, <2>1, <2>3, <3>2 DEF CountAt
    <3>4. conns[e.fd].tx \in Requests /\ conns[e.fd].tx.sock = owner[e.fd]
      BY <1>1, <2>1, <3>3 DEF Refs, TxRefs
    <3> QED
      BY <2>3, <3>4
  <2> QED
    BY <1>1, <2>2, <2>3, PendingKept
<1>6. CqRefs'
  <2> SUFFICES ASSUME NEW e \in ToSet(cq'), NEW i \in DOMAIN e.reqs PROVE For(e.reqs[i], e.fd)'
    BY DEF CqRefs
  <2>1. e \in Cqes /\ e.fd \in Fds
    <3>1. cq' \in Seq(Cqes)
      BY <1>1 DEF Types, KernelTypes
    <3>2. e \in Cqes
      BY <3>1 DEF ToSet
    <3> QED
      BY <3>2 DEF Cqes
  <2>2. CASE e \in ToSet(cq)
    BY <1>1, <1>3, <2>1, <2>2 DEF Refs, CqRefs
  <2>3. CASE Posted(e)
    <3>1. e.reqs # <<>>
      OBVIOUS
    <3>2. PICK a \in armed : a.fd = e.fd /\ e.reqs[i].sock = a.sock /\ e.reqs[i].n \in DOMAIN asked[a.sock]
      BY <2>3, <3>1 DEF Posted
    <3>3. e.reqs[i] \in Requests
      BY <2>1 DEF Cqes
    <3>4. For(e.reqs[i], e.fd)
      BY <1>1, <3>2, <3>3 DEF For, Refs, ArmedRefs
    <3> QED
      BY <1>3, <2>1, <3>4
  <2>4. e.reqs # <<>>
    OBVIOUS
  <2> QED
    BY <1>1, <2>2, <2>3, <2>4, CqKept
<1>7. BufRefs'
  <2> SUFFICES ASSUME NEW fd \in Fds, conns'[fd].inUse, NEW i \in DOMAIN conns'[fd].buf,
                      NEW r, r = conns'[fd].buf[i]
               PROVE  For(r, fd)'
    BY DEF BufRefs, For
  <2>1. conns[fd].buf \in Seq(Requests)
    BY <1>1 DEF Types, WorkerTypes, Conn
  <2>2. CASE conns'[fd].buf = <<>>
    BY <2>2
  <2>3. CASE conns[fd].inUse /\ conns'[fd].buf = conns[fd].buf
    <3>1. For(r, fd)
      BY <1>1, <2>3 DEF Refs, BufRefs
    <3> QED
      BY <1>3, <3>1
  <2>4. CASE conns[fd].inUse /\ conns[fd].buf # <<>> /\ conns'[fd].buf = Tail(conns[fd].buf)
    <3>1. i + 1 \in DOMAIN conns[fd].buf /\ r = conns[fd].buf[i + 1]
      BY <2>1, <2>4, SeqParts
    <3>2. For(r, fd)
      BY <1>1, <2>4, <3>1 DEF Refs, BufRefs
    <3> QED
      BY <1>3, <3>2
  <2>5. CASE /\ conns[fd].inUse /\ cq # <<>> /\ fd = Head(cq).fd
             /\ conns'[fd].buf = conns[fd].buf \o Head(cq).reqs
    <3>1. Head(cq).reqs \in Seq(Requests) /\ Head(cq) \in ToSet(cq)
      <4>1. cq \in Seq(Cqes)
        BY <1>1 DEF Types, KernelTypes
      <4>2. 1 \in DOMAIN cq /\ Head(cq) = cq[1] /\ Head(cq) \in Cqes
        BY <1>1, <2>5, <4>1, SeqParts, HeadCqe
      <4> QED
        BY <4>2 DEF ToSet, Cqes
    <3>2. \/ i \in DOMAIN conns[fd].buf /\ r = conns[fd].buf[i]
          \/ \E j \in DOMAIN Head(cq).reqs : r = Head(cq).reqs[j]
      <4> DEFINE p == conns[fd].buf
                 q == Head(cq).reqs
      <4>1. p \in Seq(Requests) /\ q \in Seq(Requests) /\ i \in DOMAIN (p \o q) /\ r = (p \o q)[i]
        BY Zenon, <2>1, <2>5, <3>1
      <4> HIDE DEF p, q
      <4>2. (i \in DOMAIN p /\ r = p[i]) \/ \E j \in DOMAIN q : r = q[j]
        BY <4>1, SeqJoined
      <4> QED
        BY <4>2 DEF p, q
    <3>3. For(r, fd)
      BY Zenon, <1>1, <2>5, <3>1, <3>2 DEF Refs, BufRefs, CqRefs
    <3> QED
      BY <1>3, <3>3
  <2> QED
    BY <1>1, <2>2, <2>3, <2>4, <2>5, BufferKept
<1>8. TxRefs'
  <2> SUFFICES ASSUME NEW fd \in Fds, conns'[fd].inUse, conns'[fd].txFlight
               PROVE  conns'[fd].tx \in Requests /\ conns'[fd].tx.sock = owner'[fd]
    BY DEF TxRefs
  <2>1. owner'[fd] = owner[fd] /\ owner[fd] # None
    BY <1>1, <1>2 DEF TableAt
  <2>2. CASE RespondAsync /\ fd = frame.fd
    <3>1. conns'[fd].tx = frame.req /\ Serving
      BY <1>1, <2>2, RespondAsyncStep DEF RespondAsync, Serving
    <3>2. For(frame.req, fd)
      BY <1>1, <2>2, <3>1 DEF Refs, FrameRef
    <3> QED
      BY <2>1, <3>1, <3>2 DEF For
  <2>3. CASE ~(RespondAsync /\ fd = frame.fd)
    BY <1>1, <2>1, <2>3, TxKept DEF Refs, TxRefs
  <2> QED
    BY <2>2, <2>3
<1>9. FrameRef'
  <2> SUFFICES ASSUME Serving', NEW r, NEW fd, r = frame'.req, fd = frame'.fd PROVE For(r, fd)'
    BY DEF FrameRef, For
  <2>1. fd \in Fds
    BY <1>1 DEF Types, Framed
  <2>2. For(r, fd)
    <3>1. CASE Serving /\ frame'.fd = frame.fd /\ frame'.req = frame.req
      BY <1>1, <3>1 DEF Refs, FrameRef
    <3>2. CASE /\ frame'.fd = frame.fd /\ frame.fd \in Fds /\ conns[frame.fd].inUse
               /\ conns[frame.fd].buf # <<>> /\ frame'.req = Head(conns[frame.fd].buf)
      <4>1. conns[frame.fd].buf \in Seq(Requests)
        BY <1>1, <3>2 DEF Types, WorkerTypes, Conn
      <4>2. 1 \in DOMAIN conns[frame.fd].buf /\ frame'.req = conns[frame.fd].buf[1]
        BY <3>2, <4>1, SeqParts
      <4> QED
        BY <1>1, <3>2, <4>2 DEF Refs, BufRefs
    <3>3. CASE parked # None /\ frame'.fd = parked.fd /\ frame'.req = parked.req
      BY <1>1, <3>3 DEF Refs, ParkedRef
    <3> QED
      BY <1>1, <3>1, <3>2, <3>3, FrameKept
  <2> QED
    BY <1>3, <2>1, <2>2
<1>10. ParkedRef'
  <2> SUFFICES ASSUME parked' # None, NEW r, NEW fd, r = parked'.req, fd = parked'.fd PROVE For(r, fd)'
    BY DEF ParkedRef, For
  <2>1. fd \in Fds
    BY <1>1 DEF Types, WorkerTypes
  <2>2. For(r, fd)
    <3>1. CASE parked' = parked
      BY <1>1, <3>1 DEF Refs, ParkedRef
    <3>2. CASE /\ frame.fd \in Fds /\ conns[frame.fd].inUse /\ conns[frame.fd].buf # <<>>
               /\ parked' = [fd |-> frame.fd, req |-> Head(conns[frame.fd].buf)]
      <4>1. conns[frame.fd].buf \in Seq(Requests)
        BY <1>1, <3>2 DEF Types, WorkerTypes, Conn
      <4>2. 1 \in DOMAIN conns[frame.fd].buf /\ r = conns[frame.fd].buf[1] /\ fd = frame.fd
        BY <3>2, <4>1, SeqParts
      <4> QED
        BY <1>1, <3>2, <4>2 DEF Refs, BufRefs
    <3> QED
      BY <1>1, <3>1, <3>2, ParkedKept
  <2> QED
    BY <1>3, <2>1, <2>2
<1> QED
  BY <1>4, <1>5, <1>6, <1>7, <1>8, <1>9, <1>10 DEF Refs

LEMMA RefsStep == RefsInv /\ [Next]_vars /\ QuietReuse => RefsInv'
  BY CountNext, RefsKept, AcceptRefs DEF RefsInv, Accepting

LEMMA RefsInit == Init => RefsInv
<1> SUFFICES ASSUME Init PROVE Refs
  BY CountsInit DEF RefsInv
<1>1. armed = {} /\ pending = {} /\ cq = <<>> /\ parked = None /\ ~Serving /\ \A fd \in Fds : ~conns[fd].inUse
  BY DEF Init, NoConn, Serving
<1>2. ToSet(cq) = {}
  BY <1>1 DEF ToSet
<1> QED
  BY <1>1, <1>2 DEF Refs, ArmedRefs, PendingRefs, CqRefs, BufRefs, TxRefs, FrameRef, ParkedRef

----------------------------------------------------------------------------
(* What reaches a client *)

Parcels == [sock : Socks, n : Nat, part : Nat]
WireInv == wire \in [Socks -> Seq(Parcels)] /\ Isolation

LEMMA UnitsAre ==
  ASSUME NEW req \in Requests, NEW from \in Nat, NEW to \in Int, to - from + 1 \in Nat
  PROVE  /\ Units(req, from, to) \in Seq(Parcels)
         /\ \A i \in DOMAIN Units(req, from, to) : Units(req, from, to)[i].sock = req.sock
<1> DEFINE k == to - from + 1
           u == [i \in 1 .. k |-> [sock |-> req.sock, n |-> req.n, part |-> from + i - 1]]
<1>1. \A i \in 1 .. k : [sock |-> req.sock, n |-> req.n, part |-> from + i - 1] \in Parcels
  BY DEF Parcels, Requests
<1>2. u \in Seq(Parcels) /\ DOMAIN u = 1 .. k
  <2>1. k \in Nat
    OBVIOUS
  <2> HIDE DEF k
  <2> QED
    BY <1>1, <2>1
<1>3. \A i \in DOMAIN u : u[i].sock = req.sock
  OBVIOUS
<1>4. Units(req, from, to) = u
  BY DEF Units
<1> QED
  BY <1>2, <1>3, <1>4

LEMMA DeliveredStep ==
  ASSUME WireInv, NEW s \in Socks, NEW units \in Seq(Parcels), \A i \in DOMAIN units : units[i].sock = s,
         wire' = Delivered(s, units)
  PROVE  WireInv'
<1>1. wire \in [Socks -> Seq(Parcels)] /\ wire[s] \in Seq(Parcels) /\ wire[s] \o units \in Seq(Parcels)
  BY DEF WireInv
<1>2. /\ wire' \in [Socks -> Seq(Parcels)]
      /\ \A t \in Socks : t # s => wire'[t] = wire[t]
      /\ wire'[s] = wire[s] \/ wire'[s] = wire[s] \o units
  BY <1>1 DEF Delivered
<1>3. ASSUME NEW t \in Socks, NEW i \in DOMAIN wire'[t] PROVE wire'[t][i].sock = t
  <2>1. CASE wire'[t] = wire[t]
    BY <1>3, <2>1 DEF WireInv, Isolation
  <2>2. CASE t = s /\ wire'[s] = wire[s] \o units
    <3> DEFINE p == wire[s]
               x == wire'[s][i]
    <3>1. p \in Seq(Parcels) /\ i \in DOMAIN (p \o units) /\ x = (p \o units)[i]
          /\ \A j \in DOMAIN p : p[j].sock = s
      BY <1>1, <1>3, <2>2 DEF WireInv, Isolation
    <3> HIDE DEF p, x
    <3>2. (i \in DOMAIN p /\ x = p[i]) \/ \E j \in DOMAIN units : x = units[j]
      BY <3>1, SeqJoined
    <3>3. x.sock = s
      BY <3>1, <3>2
    <3> QED
      BY <2>2, <3>3 DEF x
  <2> QED
    BY <1>2, <2>1, <2>2
<1> QED
  BY <1>2, <1>3 DEF WireInv, Isolation

LEMMA WrittenStep ==
  ASSUME Types, WireInv, NEW fd \in Fds, NEW req, For(req, fd), NEW ok \in WriteOutcomes(fd),
         Written(fd, req, ok)
  PROVE  WireInv'
<1>1. CASE ~ok
  BY <1>1 DEF Written, WireInv, Isolation
<1>2. CASE ok
  <2>1. owner[fd] # None /\ owner[fd] = req.sock /\ req \in Requests /\ req.sock \in Socks
    BY <1>2 DEF WriteOutcomes, MaySucceed, For, Requests
  <2>2. Parts \in Int /\ Parts - 1 + 1 \in Nat
    BY UnitCounts
  <2>3. /\ Units(req, 1, Parts) \in Seq(Parcels)
        /\ \A i \in DOMAIN Units(req, 1, Parts) : Units(req, 1, Parts)[i].sock = req.sock
    BY <2>1, <2>2, UnitsAre
  <2>4. wire' = Delivered(req.sock, Units(req, 1, Parts))
    BY <1>2, <2>1 DEF Written
  <2> QED
    BY <2>1, <2>3, <2>4, DeliveredStep
<1> QED
  BY <1>1, <1>2

LEMMA ExecutedStep ==
  ASSUME Types, WireInv, NEW s \in Socks \cup {None}, NEW fd \in Fds, NEW from \in Nat, NEW n \in 0 .. Parts,
         SendExecutes(s, fd, from, n),
         s # None => conns[fd].tx \in Requests /\ conns[fd].tx.sock = s
  PROVE  WireInv'
<1>1. CASE n = 0
  BY <1>1 DEF SendExecutes, WireInv, Isolation
<1>2. CASE n # 0
  <2>1. s \in Socks /\ conns[fd].tx \in Requests /\ conns[fd].tx.sock = s
    BY <1>2 DEF SendExecutes, MaySucceed
  <2>2. n \in Nat /\ (from + n - 1) - from + 1 \in Nat /\ from + n - 1 \in Int
    BY UnitCounts
  <2> DEFINE u == Units(conns[fd].tx, from, from + n - 1)
  <2>3. wire' = Delivered(s, u)
    BY <1>2 DEF SendExecutes
  <2>4. u \in Seq(Parcels) /\ \A i \in DOMAIN u : u[i].sock = s
    BY <2>1, <2>2, UnitsAre
  <2> HIDE DEF u
  <2> QED
    BY <2>1, <2>3, <2>4, DeliveredStep
<1> QED
  BY <1>1, <1>2

(* Only these put units on a wire. *)
LEMMA WireKept ==
  ASSUME Types, [Next]_vars, ~RespondWrite, ~SendSimple, ~DrainMalformed, ~SubmitSend, ~PendingSend
  PROVE  wire' = wire
<1>1. CASE Serve
  BY Zenon, <1>1 DEF Serve, RespondAsync, RespondInOrder, DrainNothing, DrainWait, DrainPark,
       DrainDispatch, Responded, ReadyNext, ReadyDone
<1>2. CASE Loop
  BY Zenon, <1>2 DEF Loop, Top, GpuRelease, AcceptCqe, SendCqe, RecvEndCqe, RecvNoBufsCqe, RecvDataCqe,
       RecvTail, EndBatch, SubmitRecv, Submitted
<1>3. CASE Kernel
  BY <1>3 DEF Kernel, Recv, RecvNoBufs, RecvEnd, JobEnds, Accept
<1>4. CASE Wake \/ Clients \/ UNCHANGED vars
  BY <1>4 DEF Wake, Clients, Connect, Ask, Leave, vars
<1> QED
  BY <1>1, <1>2, <1>3, <1>4 DEF Next, Idle

LEMMA WireStep == RefsInv /\ WireInv /\ [Next]_vars => WireInv'
<1> SUFFICES ASSUME RefsInv, WireInv, [Next]_vars PROVE WireInv'
  OBVIOUS
<1>1. Types /\ Refs /\ \A fd \in Fds : TableAt(fd) /\ CountAt(fd)
  BY DEF RefsInv, CountInv, TableInv
<1>2. CASE UNCHANGED wire
  BY <1>2 DEF WireInv, Isolation
<1>3. CASE RespondWrite \/ SendSimple
  <2>1. Serving
    BY <1>3 DEF RespondWrite, SendSimple, Serving
  <2>2. For(frame.req, frame.fd) /\ frame.fd \in Fds
    BY <1>1, <2>1 DEF Refs, FrameRef, Types, Framed
  <2>3. PICK ok \in WriteOutcomes(frame.fd) : Written(frame.fd, frame.req, ok)
    BY <1>3 DEF RespondWrite, SendSimple
  <2> QED
    BY <1>1, <2>2, <2>3, WrittenStep
<1>4. CASE DrainMalformed
  <2> DEFINE f == frame.fd
             req == Head(conns[f].buf)
  <2>1. f \in Fds /\ conns[f].inUse /\ conns[f].buf # <<>>
    BY <1>1, <1>4, DrainMalformedStep DEF Touches
  <2>2. PICK ok \in WriteOutcomes(f) : Written(f, req, ok)
    BY <1>4 DEF DrainMalformed
  <2>3. conns[f].buf \in Seq(Requests)
    BY <1>1, <2>1 DEF Types, WorkerTypes, Conn
  <2>4. 1 \in DOMAIN conns[f].buf /\ req = conns[f].buf[1]
    BY <2>1, <2>3, SeqParts
  <2>5. For(req, f)
    BY <1>1, <2>1, <2>4 DEF Refs, BufRefs
  <2> HIDE DEF f, req
  <2> QED
    BY <1>1, <2>1, <2>2, <2>5, WrittenStep
<1>5. CASE SubmitSend
  <2> DEFINE x == Head(sq)
  <2>1. /\ x.fd \in Fds /\ x.from \in Nat /\ owner[x.fd] \in Socks \cup {None}
        /\ sq # <<>> /\ x.op = "send"
    BY <1>1, <1>5, HeadSqe DEF SubmitSend
  <2>2. owner[x.fd] # None => conns[x.fd].tx \in Requests /\ conns[x.fd].tx.sock = owner[x.fd]
    <3> SUFFICES ASSUME owner[x.fd] # None
                 PROVE  conns[x.fd].tx \in Requests /\ conns[x.fd].tx.sock = owner[x.fd]
      OBVIOUS
    <3>1. SqSends(x.fd) # 0
      <4>1. sq \in Seq(Sqes) /\ 1 \in DOMAIN sq /\ x = sq[1] /\ x \in Sqes
        BY <1>1, <2>1, SeqParts, HeadSqe DEF Types, KernelTypes
      <4>2. sq[1] \in {y \in Sqes : y.op = "send" /\ y.fd = x.fd}
        BY <2>1, <4>1
      <4> QED
        BY <4>1, <4>2, CountFinite DEF SqSends
    <3>2. Sends(x.fd) # 0
      <4>1. Sums(x.fd)
        BY <1>1, <2>1, SumsHold DEF RefsInv, CountInv
      <4>2. /\ Sends(x.fd) = PendingAt(x.fd) + SqSends(x.fd) + CqSends(x.fd)
            /\ PendingAt(x.fd) \in Nat /\ SqSends(x.fd) \in Nat /\ CqSends(x.fd) \in Nat
        BY <4>1 DEF Sums
      <4> QED
        BY <3>1, <4>2
    <3>3. conns[x.fd].inUse /\ conns[x.fd].txFlight
      BY <1>1, <2>1, <3>2 DEF CountAt
    <3> QED
      BY <1>1, <2>1, <3>3 DEF Refs, TxRefs
  <2>3. ASSUME NEW n \in 0 .. Parts, SendExecutes(owner[x.fd], x.fd, x.from, n) PROVE WireInv'
    BY <1>1, <2>1, <2>2, <2>3, ExecutedStep
  <2> QED
    BY <1>2, <1>5, <2>3 DEF SubmitSend
<1>6. CASE PendingSend
  <2>1. PICK e \in pending, n \in 0 .. Parts : SendExecutes(e.sock, e.fd, e.from, n)
    BY <1>6 DEF PendingSend
  <2>2. e.sock \in Socks /\ e.fd \in Fds /\ e.from \in Nat
    BY <1>1 DEF Types, KernelTypes
  <2>3. conns[e.fd].tx \in Requests /\ conns[e.fd].tx.sock = e.sock
    BY <1>1 DEF Refs, PendingRefs
  <2> QED
    BY <1>1, <2>1, <2>2, <2>3, ExecutedStep
<1> QED
  BY <1>1, <1>2, <1>3, <1>4, <1>5, <1>6, WireKept

LEMMA WireInit == Init => WireInv
<1> SUFFICES ASSUME Init PROVE WireInv
  OBVIOUS
<1>1. <<>> \in Seq(Parcels) /\ DOMAIN <<>> = {}
  OBVIOUS
<1>2. wire = [s \in Socks |-> <<>>]
  BY DEF Init
<1> QED
  BY <1>1, <1>2 DEF WireInv, Isolation

(* Every unit of a response a client receives answers a request of its own *)
(* connection, although worker and kernel know connections only by numbers *)
(* that are used again, and a SEND reads tx_buf when the kernel gets to it.*)
THEOREM ClientsIsolated == ASSUME QuietReuse PROVE Spec => []Isolation
<1>1. Init => RefsInv /\ WireInv
  BY RefsInit, WireInit
<1>2. RefsInv /\ WireInv /\ [Next]_vars => (RefsInv /\ WireInv)'
  BY RefsStep, WireStep
<1>3. WireInv => Isolation
  BY DEF WireInv
<1> QED
  BY <1>1, <1>2, <1>3, PTL DEF Spec

----------------------------------------------------------------------------
(* Why connections are closed *)

(* A client that left, or one that asked for the end of its connection *)
Asking(s) ==
  client[s] = "gone" \/ \E i \in DOMAIN asked[s] : asked[s][i] \in {"close", "uploadClose", "malformed"}

Owners ==
  /\ \A fd, g \in Fds : owner[fd] # None /\ owner[fd] = owner[g] => fd = g
  /\ \A fd \in Fds : owner[fd] # None =>
       owner[fd] \notin shut /\ client[owner[fd]] \in {"open", "gone"}
  /\ \A s \in Socks : client[s] \in {"new", "backlog"} => s \notin shut

TxCloses == \A fd \in Fds : conns[fd].inUse /\ conns[fd].closeAfterTx => Asking(owner[fd])
CqCloses ==
  \A e \in ToSet(cq) : (e.op = "recv" /\ e.reqs = <<>>) \/ (e.op = "send" /\ e.n = 0) =>
    owner[e.fd] = None \/ Asking(owner[e.fd])
FrameCloses == Serving /\ frame.closing => Asking(owner[frame.fd])
LetGo == \A s \in Socks : client[s] = "open" => Asking(s) \/ \E fd \in Fds : owner[fd] = s

AskInv == RefsInv /\ Owners /\ TxCloses /\ CqCloses /\ FrameCloses /\ LetGo

LEMMA ClientKept ==
  ASSUME Types, [Next]_vars, NEW s \in Socks
  PROVE  /\ client[s] = "gone" => client'[s] = "gone"
         /\ client[s] = "open" => client'[s] \in {"open", "gone"}
         /\ client'[s] = "open" => client[s] = "open" \/ Accept(s)
         /\ client'[s] \in {"new", "backlog"} => client[s] \in {"new", "backlog"}
<1>1. client \in [Socks -> {"new", "backlog", "open", "gone"}]
  BY DEF Types, ClientTypes
<1>2. ASSUME NEW t \in Socks, Connect(t) \/ Leave(t) \/ \E kind : Ask(t, kind)
      PROVE  \/ client' = client
             \/ client[t] = "new" /\ client' = [client EXCEPT ![t] = "backlog"]
             \/ client[t] = "open" /\ client' = [client EXCEPT ![t] = "gone"]
  BY <1>2 DEF Connect, Leave, Ask
<1>3. CASE Clients
  BY <1>1, <1>2, <1>3 DEF Clients
<1>4. CASE Accepting
  BY <1>1, <1>4 DEF Accepting, Accept
<1> QED
  BY <1>3, <1>4, ClientsKept DEF clientVars

LEMMA AskingKept ==
  ASSUME Types, [Next]_vars, NEW s \in Socks, Asking(s) PROVE Asking(s)'
  BY ClientKept, AskedKept DEF Asking

LEMMA ShutKept ==
  ASSUME Types, [Next]_vars, NEW s \in shut'
  PROVE  s \in shut \/ \E g \in Fds : owner[g] = s /\ s # None /\ owner'[g] = None
<1>1. ASSUME NEW g \in Fds, NEW b \in BOOLEAN, Close(g, b)
      PROVE  s \in shut \/ \E f \in Fds : owner[f] = s /\ s # None /\ owner'[f] = None
  BY <1>1, CloseStep
<1>2. CASE DrainMalformed
  BY <1>1, <1>2, DrainMalformedStep DEF Touches
<1>3. CASE Responded
  BY <1>1, <1>3, RespondedStep DEF Touches, tableVars
<1>4. CASE SendCqe
  <2>1. Head(cq).fd \in Fds /\ conns[Head(cq).fd].closeAfterTx \in BOOLEAN
    BY <1>4, SendCqeStep DEF Touches, Types, WorkerTypes, Conn
  <2> QED
    BY <1>1, <1>4, <2>1, SendCqeStep DEF tableVars
<1>5. CASE RecvEndCqe
  BY <1>1, <1>5, RecvEndCqeStep DEF Touches, tableVars
<1>6. CASE Serve /\ ~DrainMalformed /\ ~Responded
  BY <1>6 DEF Serve, RespondAsync, RespondInOrder, RespondWrite, SendSimple, DrainNothing,
       DrainWait, DrainPark, DrainDispatch, ReadyNext, ReadyDone, tableVars
<1>7. CASE Loop /\ ~SendCqe /\ ~RecvEndCqe
  BY Zenon, <1>7 DEF Loop, Top, GpuRelease, AcceptCqe, RecvNoBufsCqe, RecvDataCqe,
       RecvTail, EndBatch, SubmitRecv, SubmitSend, Submitted, tableVars
<1>8. CASE Wake \/ Clients \/ UNCHANGED vars
  BY <1>8 DEF Wake, Clients, Connect, Ask, Leave, tableVars, vars
<1>9. CASE Kernel
  BY <1>9, KernelStep
<1> QED
  BY <1>2, <1>3, <1>4, <1>5, <1>6, <1>7, <1>8, <1>9 DEF Next, Idle

LEMMA OwnersStep ==
  ASSUME Types, Owners, [Next]_vars PROVE Owners'
<1>1. owner \in [Fds -> Socks \cup {None}] /\ None \notin Socks
  BY WorkerAssumption DEF Types, KernelTypes
<1>2. ASSUME NEW s \in Socks, Accept(s) PROVE Owners'
  <2>1. PICK g \in Fds : owner[g] = None /\ owner' = [owner EXCEPT ![g] = s]
    BY <1>2 DEF Accept
  <2>2. client \in [Socks -> {"new", "backlog", "open", "gone"}]
    BY DEF Types, ClientTypes
  <2>3. client[s] = "backlog" /\ client' = [client EXCEPT ![s] = "open"] /\ shut' = shut
    BY <1>2 DEF Accept
  <2>4. \A fd \in Fds : owner[fd] # s
    BY <1>1, <2>3 DEF Owners
  <2>5. s \notin shut
    BY <2>3 DEF Owners
  <2>6. owner'[g] = s /\ \A fd \in Fds : fd # g => owner'[fd] = owner[fd]
    BY <1>1, <2>1
  <2>7. client'[s] = "open" /\ \A t \in Socks : t # s => client'[t] = client[t]
    BY <2>2, <2>3
  <2>8. \A fd \in Fds : owner'[fd] # None =>
          owner'[fd] \notin shut' /\ client'[owner'[fd]] \in {"open", "gone"}
    BY <1>1, <2>3, <2>4, <2>5, <2>6, <2>7 DEF Owners
  <2>9. \A t \in Socks : client'[t] \in {"new", "backlog"} => t \notin shut'
    BY <2>3, <2>7 DEF Owners
  <2> QED
    BY <2>4, <2>6, <2>8, <2>9 DEF Owners
<1>3. CASE ~Accepting
  <2>1. \A fd \in Fds : owner'[fd] = owner[fd] \/ owner'[fd] = None
    BY <1>3, OwnersShrink
  <2>2. \A fd, g \in Fds : owner'[fd] # None /\ owner'[fd] = owner'[g] => fd = g
    BY <2>1 DEF Owners
  <2>3. ASSUME NEW fd \in Fds, owner'[fd] # None
        PROVE  owner'[fd] \notin shut' /\ client'[owner'[fd]] \in {"open", "gone"}
    <3>1. owner'[fd] = owner[fd] /\ owner[fd] \in Socks /\ owner[fd] \notin shut
          /\ client[owner[fd]] \in {"open", "gone"}
      BY <1>1, <2>1, <2>3 DEF Owners
    <3>2. owner[fd] \notin shut'
      <4> SUFFICES ASSUME owner[fd] \in shut' PROVE FALSE
        OBVIOUS
      <4>1. PICK g \in Fds : owner[g] = owner[fd] /\ owner'[g] = None
        BY <3>1, ShutKept
      <4>2. g = fd
        BY <2>3, <3>1, <4>1 DEF Owners
      <4> QED
        BY <2>3, <4>1, <4>2
    <3>3. client'[owner[fd]] \in {"open", "gone"}
      BY <3>1, ClientKept
    <3> QED
      BY <3>1, <3>2, <3>3
  <2>4. ASSUME NEW s \in Socks, client'[s] \in {"new", "backlog"} PROVE s \notin shut'
    <3>1. client[s] \in {"new", "backlog"}
      BY <2>4, ClientKept
    <3>2. s \notin shut /\ \A g \in Fds : owner[g] # s
      <4>1. \A g \in Fds : owner[g] = s /\ s # None => FALSE
        BY <3>1 DEF Owners
      <4> QED
        BY <1>1, <3>1, <4>1 DEF Owners
    <3> QED
      BY <3>2, ShutKept
  <2> QED
    BY <2>2, <2>3, <2>4 DEF Owners
<1> QED
  BY <1>2, <1>3 DEF Accepting

LEMMA CloseAfterKept ==
  ASSUME Types, [Next]_vars, NEW fd \in Fds, conns'[fd].inUse, conns'[fd].closeAfterTx
  PROVE  \/ conns[fd].inUse /\ conns[fd].closeAfterTx
         \/ Serving /\ frame.closing /\ fd = frame.fd /\ conns[fd].inUse
<1>1. CASE RespondAsync
  <2>1. Serving
    BY <1>1 DEF RespondAsync, Serving
  <2> QED
    BY <1>1, <2>1, RespondAsyncStep
<1>2. CASE DrainMalformed
  BY <1>2, DrainMalformedStep DEF Touches
<1>3. CASE DrainPark
  BY <1>3, DrainParkStep DEF Touches
<1>4. CASE Responded
  <2>1. Serving
    BY <1>4 DEF Responded, Serving
  <2> QED
    BY <1>4, <2>1, RespondedStep DEF Touches
<1>5. CASE AcceptCqe
  BY <1>5, AcceptCqeStep DEF Touches
<1>6. CASE SendCqe
  BY <1>6, SendCqeStep DEF Touches
<1>7. CASE RecvEndCqe
  BY <1>7, RecvEndCqeStep DEF Touches
<1>8. CASE RecvDataCqe
  BY Zenon, <1>8, RecvDataCqeStep DEF Touches
<1> QED
  BY <1>1, <1>2, <1>3, <1>4, <1>5, <1>6, <1>7, <1>8, ConnsKept

(* The head of a queue is one of its entries. *)
LEMMA HeadIn ==
  ASSUME NEW S, NEW q \in Seq(S), q # <<>> PROVE Head(q) \in ToSet(q)
  BY SeqParts DEF ToSet

(* A request that came over a connection and asks for its end *)
LEMMA AskedFor ==
  ASSUME Types, NEW r, NEW fd \in Fds, For(r, fd), owner[fd] # None,
         Kind(r) \in {"close", "uploadClose", "malformed"}
  PROVE  Asking(owner[fd])
<1>1. owner[fd] = r.sock /\ r.n \in DOMAIN asked[r.sock]
      /\ asked[r.sock][r.n] \in {"close", "uploadClose", "malformed"}
  BY DEF For, Kind
<1> QED
  BY <1>1 DEF Asking

LEMMA EndedAsks ==
  ASSUME Types, Owners, NEW fd \in Fds, owner[fd] # None, Ended(owner[fd]) PROVE Asking(owner[fd])
  BY DEF Owners, Ended, Asking

LEMMA ClosedAsked ==
  ASSUME AskInv, [Next]_vars, ~Accepting, NEW fd \in Fds, owner[fd] # None, owner'[fd] = None
  PROVE  Asking(owner[fd])
<1>1. Types /\ Refs /\ \A f \in Fds : TableAt(f)
  BY DEF AskInv, RefsInv, CountInv, TableInv
<1>2. ASSUME NEW g \in Fds, NEW b \in BOOLEAN, Close(g, b) PROVE fd = g
  BY <1>1, <1>2, CloseStep
<1>3. CASE DrainMalformed
  <2>1. fd = frame.fd
    BY <1>1, <1>2, <1>3, DrainMalformedStep DEF Touches
  <2>2. conns[fd].inUse /\ conns[fd].buf # <<>> /\ Kind(Head(conns[fd].buf)) = "malformed"
    BY <1>1, <1>3, <2>1, DrainMalformedStep
  <2>3. conns[fd].buf \in Seq(Requests)
    BY <1>1 DEF Types, WorkerTypes, Conn
  <2>4. For(Head(conns[fd].buf), fd)
    BY <1>1, <2>2, <2>3, SeqParts DEF Refs, BufRefs
  <2> QED
    BY <1>1, <2>2, <2>4, AskedFor
<1>4. CASE Responded
  <2>1. Serving /\ frame.closing /\ fd = frame.fd
    BY <1>1, <1>2, <1>4, RespondedStep DEF Responded, Serving, Touches, tableVars
  <2> QED
    BY <2>1 DEF AskInv, FrameCloses
<1>5. CASE SendCqe
  <2> DEFINE e == Head(cq)
  <2>1. e.fd \in Fds /\ conns[e.fd].closeAfterTx \in BOOLEAN
    BY <1>1, <1>5, SendCqeStep DEF Touches, Types, WorkerTypes, Conn
  <2>2. fd = e.fd /\ conns[fd].inUse /\ (e.n = 0 \/ conns[fd].closeAfterTx)
    BY <1>1, <1>2, <1>5, <2>1, SendCqeStep DEF tableVars
  <2>3. e \in ToSet(cq) /\ e.op = "send"
    BY <1>1, <1>5, HeadIn DEF SendCqe, CqeIs, Types, KernelTypes
  <2> HIDE DEF e
  <2> QED
    BY <2>2, <2>3 DEF AskInv, CqCloses, TxCloses
<1>6. CASE RecvEndCqe
  <2> DEFINE e == Head(cq)
  <2>1. e \in ToSet(cq) /\ e.op = "recv" /\ e.reqs = <<>>
    BY <1>1, <1>6, HeadIn DEF RecvEndCqe, CqeIs, Types, KernelTypes
  <2>2. fd = e.fd
    BY <1>1, <1>2, <1>6, RecvEndCqeStep DEF Touches, tableVars
  <2> HIDE DEF e
  <2> QED
    BY <2>1, <2>2 DEF AskInv, CqCloses
<1>7. CASE Serve /\ ~DrainMalformed /\ ~Responded
  BY <1>7 DEF Serve, RespondAsync, RespondInOrder, RespondWrite, SendSimple, DrainNothing,
       DrainWait, DrainPark, DrainDispatch, ReadyNext, ReadyDone, tableVars
<1>8. CASE Loop /\ ~SendCqe /\ ~RecvEndCqe
  BY Zenon, <1>8 DEF Loop, Top, GpuRelease, AcceptCqe, RecvNoBufsCqe, RecvDataCqe,
       RecvTail, EndBatch, SubmitRecv, SubmitSend, Submitted, tableVars
<1>9. CASE Wake \/ Kernel \/ Clients \/ UNCHANGED vars
  BY <1>9 DEF Wake, Kernel, PendingSend, Recv, RecvNoBufs, RecvEnd, JobEnds, Accepting, Clients, Connect,
       Ask, Leave, tableVars, vars
<1> QED
  BY <1>3, <1>4, <1>5, <1>6, <1>7, <1>8, <1>9 DEF Next, Idle

(* Who lets go of a connection has been asked to. *)
LEMMA AskKept ==
  ASSUME AskInv, [Next]_vars, QuietReuse
  PROVE  TxCloses' /\ CqCloses' /\ FrameCloses' /\ LetGo'
<1>1. /\ Types /\ Types' /\ Refs /\ Owners
      /\ \A f \in Fds : TableAt(f) /\ TableAt(f)' /\ owner[f] \in Socks \cup {None}
      /\ None \notin Socks
  BY RefsStep, WorkerAssumption DEF AskInv, RefsInv, CountInv, TableInv, Types, KernelTypes
<1>2. ASSUME NEW s \in Socks, Asking(s) PROVE Asking(s)'
  BY <1>1, <1>2, AskingKept
<1>3. ASSUME NEW fd \in Fds, owner[fd] # None PROVE owner'[fd] = owner[fd] \/ owner'[fd] = None
  <2>1. ASSUME NEW t \in Socks, Accept(t) PROVE owner'[fd] = owner[fd]
    BY <1>3, <2>1 DEF Accept
  <2> QED
    BY <1>1, <2>1, OwnersShrink DEF Accepting
<1>4. TxCloses'
  <2> SUFFICES ASSUME NEW fd \in Fds, conns'[fd].inUse, conns'[fd].closeAfterTx, NEW s, s = owner'[fd]
               PROVE  Asking(s)'
    BY DEF TxCloses, Asking
  <2>1. conns[fd].inUse /\ owner[fd] # None /\ owner'[fd] # None
    BY <1>1, CloseAfterKept DEF TableAt
  <2>2. s = owner[fd] /\ s \in Socks
    BY <1>1, <1>3, <2>1
  <2>3. Asking(s)
    BY <1>1, <2>2, CloseAfterKept DEF AskInv, TxCloses, FrameCloses
  <2> QED
    BY <1>2, <2>2, <2>3
<1>5. CqCloses'
  <2> SUFFICES ASSUME NEW e \in ToSet(cq'), (e.op = "recv" /\ e.reqs = <<>>) \/ (e.op = "send" /\ e.n = 0),
                      NEW s, s = owner'[e.fd], s # None
               PROVE  Asking(s)'
    BY DEF CqCloses, Asking
  <2>1. e.fd \in Fds
    <3>1. cq' \in Seq(Cqes)
      BY <1>1 DEF Types, KernelTypes
    <3>2. e \in Cqes
      BY <3>1 DEF ToSet
    <3> QED
      BY <3>2 DEF Cqes
  <2>2. CASE e \in ToSet(cq)
    <3>1. owner[e.fd] # None
      <4>1. ASSUME NEW t \in Socks, Accept(t), owner[e.fd] = None PROVE FALSE
        <5>1. PICK g \in Fds : Quiet(g) /\ owner' = [owner EXCEPT ![g] = t]
          BY <4>1 DEF Accept
        <5>2. e.fd # g
          BY <2>2, <5>1 DEF Quiet
        <5> QED
          BY <2>1, <4>1, <5>1, <5>2
      <4> QED
        BY <1>1, <2>1, <4>1, OwnersShrink DEF Accepting
    <3>2. s = owner[e.fd] /\ s \in Socks
      BY <1>1, <1>3, <2>1, <3>1
    <3>3. Asking(s)
      BY <2>2, <3>1, <3>2 DEF AskInv, CqCloses
    <3> QED
      BY <1>2, <3>2, <3>3
  <2>3. CASE Posted(e)
    <3>1. s = owner[e.fd] /\ s \in Socks
      BY <1>1, <2>1, <2>3 DEF Posted
    <3>2. Ended(s)
      <4>1. \A a \in armed : a.fd = e.fd => a.sock = s
        BY <1>1, <3>1 DEF Refs, ArmedRefs
      <4>2. \A p \in pending : p.fd = e.fd => p.sock = s
        BY <1>1, <3>1 DEF Refs, PendingRefs
      <4> QED
        BY <2>3, <3>1, <4>1, <4>2 DEF Posted
    <3>3. Asking(s)
      BY <1>1, <2>1, <3>1, <3>2, EndedAsks
    <3> QED
      BY <1>2, <3>1, <3>3
  <2> QED
    BY <1>1, <2>2, <2>3, CqKept
<1>6. FrameCloses'
  <2> SUFFICES ASSUME Serving', frame'.closing, NEW fd, fd = frame'.fd, NEW s, s = owner'[fd]
               PROVE  Asking(s)'
    BY DEF FrameCloses, Asking
  <2>1. fd \in Fds /\ conns'[fd].inUse
    BY <1>1 DEF Types, Framed
  <2>2. owner'[fd] # None
    BY <1>1, <2>1 DEF TableAt
  <2>3. s = owner[fd] /\ s \in Socks
    BY <1>1, <2>1, <2>2, FrameKept
  <2>4. Asking(s)
    <3>1. CASE Serving /\ frame'.fd = frame.fd /\ (frame.closing \/ Ended(owner[frame.fd]))
      BY <1>1, <2>1, <2>2, <2>3, <3>1, EndedAsks DEF AskInv, FrameCloses
    <3>2. CASE /\ frame'.fd = frame.fd /\ conns[frame.fd].inUse
               /\ conns[frame.fd].buf # <<>> /\ frame'.req = Head(conns[frame.fd].buf)
               /\ Closing(Kind(frame'.req))
      <4>1. fd = frame.fd /\ conns[fd].buf \in Seq(Requests)
        BY <1>1, <2>1, <3>2 DEF Types, WorkerTypes, Conn
      <4>2. For(Head(conns[fd].buf), fd)
        BY <1>1, <2>1, <3>2, <4>1, SeqParts DEF Refs, BufRefs
      <4>3. Kind(Head(conns[fd].buf)) \in {"close", "uploadClose", "malformed"}
        BY <3>2, <4>1 DEF Closing
      <4> QED
        BY <1>1, <2>1, <2>2, <2>3, <4>2, <4>3, AskedFor
    <3> QED
      BY <1>1, <3>1, <3>2, FrameKept
  <2> QED
    BY <1>2, <2>3, <2>4
<1>7. LetGo'
  <2> SUFFICES ASSUME NEW s \in Socks, client'[s] = "open", \A fd \in Fds : owner'[fd] # s
               PROVE  Asking(s)'
    BY DEF LetGo
  <2>1. CASE Accept(s)
    <3>1. PICK g \in Fds : owner' = [owner EXCEPT ![g] = s]
      BY <2>1 DEF Accept
    <3>2. owner'[g] = s
      BY <1>1, <3>1 DEF Types, KernelTypes
    <3> QED
      BY <3>2
  <2>2. CASE client[s] = "open"
    <3>1. CASE Asking(s)
      BY <1>2, <3>1
    <3>2. ASSUME NEW fd \in Fds, owner[fd] = s PROVE Asking(s)
      <4>1. owner[fd] # None /\ owner'[fd] = None
        BY <1>1, <1>3, <3>2
      <4>2. ~Accepting
        <5>1. ASSUME NEW t \in Socks, Accept(t) PROVE owner'[fd] = owner[fd] \/ owner'[fd] = t
          BY <1>1, <5>1 DEF Accept, Types, KernelTypes
        <5> QED
          BY <1>1, <4>1, <5>1 DEF Accepting
      <4> QED
        BY <3>2, <4>1, <4>2, ClosedAsked
    <3> QED
      BY <1>2, <2>2, <3>1, <3>2 DEF AskInv, LetGo
  <2> QED
    BY <1>1, <2>1, <2>2, ClientKept
<1> QED
  BY <1>4, <1>5, <1>6, <1>7

LEMMA AskStep == AskInv /\ [Next]_vars /\ QuietReuse => AskInv'
<1> SUFFICES ASSUME AskInv, [Next]_vars, QuietReuse PROVE AskInv'
  OBVIOUS
<1>1. RefsInv' /\ Owners'
  BY RefsStep, OwnersStep DEF AskInv, RefsInv, CountInv, TableInv
<1> QED
  BY <1>1, AskKept DEF AskInv

LEMMA AskInit == Init => AskInv
<1> SUFFICES ASSUME Init PROVE Owners /\ TxCloses /\ CqCloses /\ FrameCloses /\ LetGo
  BY RefsInit DEF AskInv
<1>1. /\ shut = {} /\ cq = <<>> /\ ~Serving
      /\ \A fd \in Fds : owner[fd] = None /\ ~conns[fd].inUse
      /\ \A s \in Socks : client[s] = "new"
  BY DEF Init, NoConn, Serving
<1>2. ToSet(cq) = {}
  BY <1>1 DEF ToSet
<1> QED
  BY <1>1, <1>2 DEF Owners, TxCloses, CqCloses, FrameCloses, LetGo

(* A connection whose client is still there is closed only when a request  *)
(* of that client says so, or was malformed: never because of a completion *)
(* or a failed write that belongs to another.                              *)
THEOREM ClosedForAReason == ASSUME QuietReuse PROVE Spec => []ClosedOnlyWhenAsked
<1>1. Init => AskInv
  BY AskInit
<1>2. AskInv /\ [Next]_vars => AskInv'
  BY AskStep
<1>3. AskInv => ClosedOnlyWhenAsked
  BY DEF AskInv, LetGo, Asking, ClosedOnlyWhenAsked
<1> QED
  BY <1>1, <1>2, <1>3, PTL DEF Spec
----------------------------------------------------------------------------
(* Receive buffers that are never freed *)

(* Without large uploads, nobody makes a buffer that is freed again. *)
SmallRequests == \A t \in Traffics : "uploadClose" \notin t.kinds

(* A number that is received from has a buffer. *)
HasBuffer(fd) == conns[fd].cap = "small"

BuffersInv ==
  /\ Types
  /\ traffic \in Traffics /\ \A s \in Socks : \A i \in DOMAIN asked[s] : asked[s][i] \in traffic.kinds
  /\ \A e \in ToSet(cq) : \A i \in DOMAIN e.reqs :
       e.reqs[i] \in Requests /\ e.reqs[i].n \in DOMAIN asked[e.reqs[i].sock]
  /\ \A fd \in Fds : conns[fd].cap # "big" /\ (conns[fd].inUse => HasBuffer(fd))
  /\ \A e \in armed : HasBuffer(e.fd)
  /\ \A e \in ToSet(sq) : e.op = "recv" => HasBuffer(e.fd)
  /\ \A e \in ToSet(cq) : e.op \in {"recv", "nobufs"} => HasBuffer(e.fd)
  /\ pc # "hung"

(* Only a large upload changes a buffer that is small. *)
LEMMA CapKept ==
  ASSUME Types, [Next]_vars, NEW fd \in Fds, conns[fd].cap # "big"
  PROVE  \/ conns'[fd].cap = conns[fd].cap
         \/ AcceptCqe /\ conns[fd].cap = "none" /\ conns'[fd].cap = "small"
         \/ RecvDataCqe /\ \E i \in DOMAIN Head(cq).reqs : Kind(Head(cq).reqs[i]) = "uploadClose"
<1>1. conns \in [Fds -> Conn]
  BY DEF Types, WorkerTypes
<1>2. ASSUME NEW g \in Fds, NEW c \in Conn, conns' = [conns EXCEPT ![g] = c], c.cap = conns[g].cap
      PROVE  conns'[fd].cap = conns[fd].cap
  BY <1>1, <1>2
<1>3. CASE RespondAsync \/ DrainMalformed \/ DrainPark \/ Responded
  BY <1>3, RespondAsyncStep, DrainMalformedStep, DrainParkStep, RespondedStep DEF Touches
<1>4. CASE AcceptCqe
  <2>1. Head(cq).fd \in Fds
    BY <1>4, HeadCqe DEF AcceptCqe, CqeIs
  <2> DEFINE c == conns[Head(cq).fd]
             d == [c EXCEPT !.inUse = TRUE, !.buf = <<>>, !.txFlight = FALSE, !.closeAfterTx = FALSE,
                            !.cap = IF c.cap = "none" THEN "small" ELSE c.cap]
  <2>2. conns' = [conns EXCEPT ![Head(cq).fd] = d]
    BY <1>4 DEF AcceptCqe
  <2>3. c \in Conn
    BY <1>1, <2>1
  <2>4. d.cap = IF c.cap = "none" THEN "small" ELSE c.cap
    BY <2>3 DEF Conn
  <2> HIDE DEF d
  <2>5. conns'[Head(cq).fd] = d /\ \A g \in Fds : g # Head(cq).fd => conns'[g] = conns[g]
    BY <1>1, <2>1, <2>2
  <2> QED
    BY <1>4, <2>4, <2>5
<1>5. ASSUME NEW c \in Conn, c.cap # "big" PROVE Trimmed(Dropped(c)).cap = c.cap
  BY <1>5, DroppedConn DEF Trimmed, Conn
<1>6. CASE SendCqe
  <2>1. Head(cq).fd \in Fds
    BY <1>6, HeadCqe DEF SendCqe, CqeIs
  <2> DEFINE c == conns[Head(cq).fd]
             n == Head(cq).n
             idle == [c EXCEPT !.txFlight = FALSE, !.txSent = 0, !.txTotal = 0]
  <2>2. c \in Conn /\ idle \in Conn /\ idle.cap = c.cap
    <3>1. c \in Conn
      BY <1>1, <2>1
    <3>2. \A x \in Conn :
            LET y == [x EXCEPT !.txFlight = FALSE, !.txSent = 0, !.txTotal = 0]
            IN  y \in Conn /\ y.cap = x.cap
      BY DEF Conn
    <3> QED
      BY Zenon, <3>1, <3>2
  <2>3. \/ conns' = [conns EXCEPT ![Head(cq).fd].txSent = @ + n]
        \/ conns' = [conns EXCEPT ![Head(cq).fd] = [Trimmed(Dropped(idle)) EXCEPT !.closeAfterTx = FALSE]]
        \/ conns' = [conns EXCEPT ![Head(cq).fd] = idle]
    BY <1>6 DEF SendCqe
  <2>4. CASE conns' = [conns EXCEPT ![Head(cq).fd].txSent = @ + n]
    BY <1>1, <2>1, <2>4 DEF Conn
  <2>5. CASE conns' = [conns EXCEPT ![Head(cq).fd] = [Trimmed(Dropped(idle)) EXCEPT !.closeAfterTx = FALSE]]
    <3> DEFINE d == [Trimmed(Dropped(idle)) EXCEPT !.closeAfterTx = FALSE]
    <3>1. Dropped(idle) \in Conn
      BY <2>2, DroppedConn
    <3>2. \A x \in Conn : [Trimmed(x) EXCEPT !.closeAfterTx = FALSE].cap = Trimmed(x).cap
      BY DEF Trimmed, Conn
    <3>3. d.cap = Trimmed(Dropped(idle)).cap
      BY <3>1, <3>2
    <3>4. conns[Head(cq).fd].cap # "big" => d.cap = c.cap
      <4> HIDE DEF idle
      <4> QED
        BY <1>5, <2>2, <3>3
    <3> HIDE DEF d, idle
    <3>5. conns'[Head(cq).fd] = d /\ \A g \in Fds : g # Head(cq).fd => conns'[g] = conns[g]
      BY <1>1, <2>1, <2>5 DEF d
    <3> QED
      BY <3>4, <3>5
  <2>6. CASE conns' = [conns EXCEPT ![Head(cq).fd] = idle]
    BY <1>2, <2>1, <2>2, <2>6
  <2> QED
    BY <2>3, <2>4, <2>5, <2>6
<1>7. CASE RecvEndCqe
  <2>1. Head(cq).fd \in Fds
    BY <1>7, HeadCqe DEF RecvEndCqe, CqeIs
  <2> DEFINE d == Trimmed(Dropped(conns[Head(cq).fd]))
  <2>2. conns[Head(cq).fd].cap # "big" => d.cap = conns[Head(cq).fd].cap
    BY <1>1, <1>5, <2>1
  <2>3. conns' = conns \/ conns' = [conns EXCEPT ![Head(cq).fd] = d]
    BY <1>7 DEF RecvEndCqe
  <2> HIDE DEF d
  <2>4. CASE conns' = [conns EXCEPT ![Head(cq).fd] = d]
    <3>1. conns'[Head(cq).fd] = d /\ \A g \in Fds : g # Head(cq).fd => conns'[g] = conns[g]
      BY <1>1, <2>1, <2>4
    <3> QED
      BY <2>2, <3>1
  <2> QED
    BY <2>3, <2>4
<1>8. CASE RecvDataCqe
  <2>1. Head(cq).fd \in Fds /\ Head(cq).reqs \in Seq(Requests)
    BY <1>8, HeadCqe DEF RecvDataCqe, CqeIs, Cqes
  <2> DEFINE big == \E i \in DOMAIN Head(cq).reqs : Kind(Head(cq).reqs[i]) = "uploadClose"
             f == Head(cq).fd
             q == conns[f].buf \o Head(cq).reqs
  <2>2. conns' = conns \/ conns' = [conns EXCEPT ![f].buf = @ \o Head(cq).reqs,
                                                 ![f].cap = IF big THEN "big" ELSE @]
    BY <1>8 DEF RecvDataCqe
  <2> HIDE DEF big, f
  <2>3. CASE ~big
    <3>1. conns[f] \in Conn /\ f \in Fds /\ q \in Seq(Requests)
      BY <1>1, <2>1 DEF f, Conn
    <3> DEFINE d == [conns[f] EXCEPT !.buf = q, !.cap = conns[f].cap]
    <3>2. d.cap = conns[f].cap
      BY <3>1 DEF Conn
    <3>3. conns' = conns \/ conns' = [conns EXCEPT ![f] = d]
      BY <1>1, <2>2, <2>3, <3>1
    <3> HIDE DEF d
    <3> QED
      BY <1>1, <3>1, <3>2, <3>3
  <2> QED
    BY <1>8, <2>3 DEF big
<1> QED
  BY <1>3, <1>4, <1>6, <1>7, <1>8, ConnsKept

(* Who asks for a recv, and of which number *)
LEMMA RecvsFrom ==
  ASSUME Types, [Next]_vars
  PROVE  /\ \A e \in ToSet(sq') : e.op = "recv" => e \in ToSet(sq) \/ conns'[e.fd].inUse
         /\ \A e \in armed' : e \in armed \/ \E x \in ToSet(sq) : x.op = "recv" /\ x.fd = e.fd
         /\ \A e \in ToSet(cq') : e.op \in {"recv", "nobufs"} =>
              \/ e \in ToSet(cq)
              \/ \E a \in armed : a.fd = e.fd
              \/ \E x \in ToSet(sq) : x.op = "recv" /\ x.fd = e.fd
<1>1. sq \in Seq(Sqes) /\ cq \in Seq(Cqes) /\ armed \subseteq [sock : Socks, fd : Fds]
  BY DEF Types, KernelTypes
<1>2. ASSUME NEW x, sq' = Append(sq, x) PROVE ToSet(sq') = ToSet(sq) \cup {x}
  BY <1>1, <1>2, ToSetAppend
<1>3. sq # <<>> /\ sq' = Tail(sq) => \A e \in ToSet(sq') : e \in ToSet(sq)
  BY <1>1, ToSetTail
<1>4. ASSUME NEW x, cq' = Append(cq, x) PROVE ToSet(cq') = ToSet(cq) \cup {x}
  BY <1>1, <1>4, ToSetAppend
<1>5. cq # <<>> /\ cq' = Tail(cq) => \A e \in ToSet(cq') : e \in ToSet(cq)
  BY <1>1, ToSetTail
<1>6. CASE Serve
  <2>1. UNCHANGED <<armed, cq>> /\ (sq' = sq \/ RespondAsync)
    BY <1>6 DEF Serve, RespondAsync, RespondInOrder, RespondWrite, SendSimple, DrainNothing,
       DrainMalformed, DrainWait, DrainPark, DrainDispatch, Responded, ReadyNext, ReadyDone, kernelVars
  <2>2. RespondAsync => \E x : sq' = Append(sq, x) /\ x.op = "send"
    BY DEF RespondAsync, Prepare
  <2> QED
    BY <1>2, <2>1, <2>2
<1>7. CASE AcceptCqe \/ SendCqe \/ RecvEndCqe \/ RecvNoBufsCqe
  <2>1. armed' = armed /\ cq # <<>> /\ cq' = Tail(cq)
    BY <1>7 DEF AcceptCqe, SendCqe, RecvEndCqe, RecvNoBufsCqe, Consume, CqeIs
  <2>2. CASE AcceptCqe
    BY <1>2, <1>5, <2>1, <2>2, AcceptCqeStep
  <2>3. CASE SendCqe
    <3>1. sq' = sq \/ \E x : sq' = Append(sq, x) /\ x.op = "send"
      BY <2>3 DEF SendCqe, Prepare
    <3> QED
      BY <1>2, <1>5, <2>1, <3>1
  <2>4. CASE RecvEndCqe
    BY <1>5, <2>1, <2>4 DEF RecvEndCqe
  <2>5. CASE RecvNoBufsCqe
    <3>1. \/ sq' = sq
          \/ /\ sq' = Append(sq, [op |-> "recv", fd |-> Head(cq).fd, from |-> 0])
             /\ conns'[Head(cq).fd].inUse
      BY <2>5 DEF RecvNoBufsCqe, Prepare
    <3> QED
      BY <1>2, <1>5, <2>1, <3>1
  <2> QED
    BY <1>7, <2>2, <2>3, <2>4, <2>5
<1>8. CASE RecvDataCqe
  <2>1. UNCHANGED <<armed, sq>> /\ (cq' = cq \/ (cq # <<>> /\ cq' = Tail(cq)))
    BY <1>8 DEF RecvDataCqe, Consume, CqeIs, kernelVars
  <2> QED
    BY <1>5, <2>1
<1>9. CASE RecvTail
  <2>1. UNCHANGED <<armed, cq, conns, frame>>
    BY <1>9 DEF RecvTail, kernelVars
  <2>2. \/ sq' = sq
        \/ /\ sq' = Append(sq, [op |-> "recv", fd |-> frame.fd, from |-> 0])
           /\ conns'[frame.fd].inUse
    BY <1>9, <2>1 DEF RecvTail, Prepare
  <2> QED
    BY <1>2, <2>1, <2>2
<1>10. CASE Top \/ GpuRelease("top") \/ GpuRelease("batch") \/ EndBatch \/ Submitted \/ Wake \/ Clients
            \/ JobEnds \/ UNCHANGED vars
  <2>1. UNCHANGED <<armed, cq, sq>>
    BY <1>10 DEF Top, GpuRelease, EndBatch, Submitted, Wake, Clients, Connect, Ask, Leave, JobEnds,
       kernelVars, workerVars, vars
  <2> QED
    BY <2>1
<1>11. CASE SubmitRecv
  <2>1. sq # <<>> /\ sq' = Tail(sq) /\ Head(sq).op = "recv" /\ Head(sq) \in ToSet(sq)
    BY <1>1, <1>11, HeadIn DEF SubmitRecv
  <2>2. \/ armed' = armed /\ cq' = Append(cq, Cqe("recv", Head(sq).fd, <<>>, 0, FALSE))
        \/ cq' = cq /\ armed' = armed \cup {[sock |-> owner[Head(sq).fd], fd |-> Head(sq).fd]}
    BY <1>11 DEF SubmitRecv
  <2> QED
    BY <1>3, <1>4, <2>1, <2>2 DEF Cqe
<1>12. CASE SubmitSend
  <2>1. sq # <<>> /\ sq' = Tail(sq) /\ armed' = armed
    BY <1>12 DEF SubmitSend
  <2>2. ASSUME NEW t, NEW fd, NEW from, NEW n, SendExecutes(t, fd, from, n)
        PROVE  \E x : cq' = Append(cq, x) /\ x.op = "send"
    BY <2>2 DEF SendExecutes, Cqe
  <2>3. cq' = cq \/ \E x : cq' = Append(cq, x) /\ x.op = "send"
    BY <1>12, <2>2 DEF SubmitSend
  <2> QED
    BY <1>3, <1>4, <2>1, <2>3
<1>13. CASE PendingSend
  <2>1. UNCHANGED <<sq, armed>>
    BY <1>13 DEF PendingSend, workerVars
  <2>2. \E x : cq' = Append(cq, x) /\ x.op = "send"
    BY <1>13 DEF PendingSend, SendExecutes, Cqe
  <2> QED
    BY <1>4, <2>1, <2>2
<1>14. CASE Recv
  <2>1. PICK a \in armed, more \in BOOLEAN, reqs \in Seq(Requests) :
          cq' = Append(cq, Cqe("recv", a.fd, reqs, 0, more)) /\ armed' \subseteq armed
    BY <1>14, RecvStep
  <2>2. sq' = sq
    BY <1>14 DEF Recv, workerVars
  <2> QED
    BY <1>4, <2>1, <2>2 DEF Cqe
<1>15. CASE RecvEnd \/ RecvNoBufs
  <2>1. sq' = sq
    BY <1>15 DEF RecvEnd, RecvNoBufs, workerVars
  <2>2. PICK a \in armed : /\ armed' = armed \ {a}
                           /\ \/ cq' = Append(cq, Cqe("recv", a.fd, <<>>, 0, FALSE))
                              \/ cq' = Append(cq, Cqe("nobufs", a.fd, <<>>, 0, FALSE))
    BY <1>15 DEF RecvEnd, RecvNoBufs
  <2> QED
    BY <1>4, <2>1, <2>2 DEF Cqe
<1>16. ASSUME NEW s \in Socks, Accept(s) PROVE UNCHANGED <<sq, armed>> /\ \E x : cq' = Append(cq, x) /\ x.op = "accept"
  BY <1>16 DEF Accept, workerVars, Cqe
<1>17. CASE Accepting
  BY <1>4, <1>16, <1>17 DEF Accepting
<1> QED
  BY <1>6, <1>7, <1>8, <1>9, <1>10, <1>11, <1>12, <1>13, <1>14, <1>15, <1>17
     DEF Next, Loop, Kernel, Idle, Accepting

(* Only the completion of an accept takes a connection into use. *)
LEMMA OpenedBy ==
  ASSUME Types, [Next]_vars, NEW fd \in Fds, conns'[fd].inUse
  PROVE  conns[fd].inUse \/ (AcceptCqe /\ fd = Head(cq).fd)
<1>1. CASE RespondAsync \/ DrainMalformed \/ DrainPark \/ Responded
  BY <1>1, RespondAsyncStep, DrainMalformedStep, DrainParkStep, RespondedStep DEF Touches
<1>2. CASE AcceptCqe
  BY <1>2, AcceptCqeStep DEF Touches
<1>3. CASE SendCqe \/ RecvEndCqe \/ RecvDataCqe
  BY <1>3, SendCqeStep, RecvEndCqeStep, RecvDataCqeStep DEF Touches
<1> QED
  BY <1>1, <1>2, <1>3, ConnsKept

LEMMA TrafficKept ==
  ASSUME Types, [Next]_vars
  PROVE  /\ traffic' = traffic
         /\ \A s \in Socks : \A i \in DOMAIN asked'[s] : i \in DOMAIN asked[s] \/ asked'[s][i] \in Kinds
<1>1. asked \in [Socks -> Seq(AllKinds)]
  BY DEF Types, ClientTypes
<1>2. ASSUME NEW t \in Socks, NEW kind \in Kinds, Ask(t, kind)
      PROVE  \A s \in Socks : \A i \in DOMAIN asked'[s] : i \in DOMAIN asked[s] \/ asked'[s][i] \in Kinds
  <2> SUFFICES ASSUME NEW s \in Socks, NEW i \in DOMAIN asked'[s], i \notin DOMAIN asked[s]
               PROVE  asked'[s][i] = kind
    OBVIOUS
  <2>1. asked[s] \in Seq(AllKinds) /\ asked' = [asked EXCEPT ![t] = Append(@, kind)]
    BY <1>1, <1>2 DEF Ask
  <2>2. asked'[s] = asked[s] \/ asked'[s] = Append(asked[s], kind)
    BY <1>1, <2>1
  <2> QED
    BY <2>1, <2>2
<1>3. CASE Clients
  <2>1. traffic' = traffic
    BY <1>3 DEF Clients, Connect, Leave, Ask
  <2>2. asked' = asked \/ \E t \in Socks, kind \in Kinds : Ask(t, kind)
    BY <1>3 DEF Clients, Connect, Leave
  <2> QED
    BY <1>2, <2>1, <2>2
<1>4. CASE Accepting
  BY <1>4 DEF Accepting, Accept
<1> QED
  BY <1>3, <1>4, ClientsKept DEF clientVars

LEMMA BuffersStep ==
  ASSUME SmallRequests, BuffersInv, [Next]_vars
  PROVE  BuffersInv'
<1>1. Types /\ Types' /\ cq \in Seq(Cqes) /\ \A fd \in Fds : conns[fd].cap # "big"
  BY TypesStep DEF BuffersInv, Types, KernelTypes
<1>2. traffic' \in Traffics /\ \A s \in Socks : \A i \in DOMAIN asked'[s] : asked'[s][i] \in traffic'.kinds
  BY <1>1, TrafficKept, AskedKept DEF BuffersInv, Kinds
<1>3. ASSUME NEW e \in ToSet(cq'), NEW i \in DOMAIN e.reqs
      PROVE  e.reqs[i] \in Requests /\ e.reqs[i].n \in DOMAIN asked'[e.reqs[i].sock]
  <2>1. CASE e \in ToSet(cq)
    <3>1. e.reqs[i] \in Requests /\ e.reqs[i].n \in DOMAIN asked[e.reqs[i].sock]
      BY <1>3, <2>1 DEF BuffersInv
    <3>2. e.reqs[i].sock \in Socks
      BY <3>1 DEF Requests
    <3> QED
      BY <1>1, <3>1, <3>2, AskedKept
  <2>2. CASE e.reqs = <<>>
    <3>1. DOMAIN <<>> = {}
      OBVIOUS
    <3> QED
      BY <1>3, <2>2, <3>1
  <2>3. CASE Posted(e) /\ e.reqs # <<>>
    <3>1. UNCHANGED asked /\ \E a \in armed :
             e.reqs[i].sock = a.sock /\ e.reqs[i].n \in DOMAIN asked[a.sock]
      BY <1>3, <2>3 DEF Posted
    <3>2. e.reqs[i] \in Requests
      <4>1. cq' \in Seq(Cqes)
        BY <1>1 DEF Types, KernelTypes
      <4>2. e \in Cqes
        BY <4>1 DEF ToSet
      <4>3. e.reqs \in Seq(Requests)
        BY <4>2 DEF Cqes
      <4> QED
        BY <1>3, <4>3
    <3> QED
      BY <3>1, <3>2
  <2> QED
    BY <1>1, <2>1, <2>2, <2>3, CqKept
<1>4. ~(RecvDataCqe /\ \E i \in DOMAIN Head(cq).reqs : Kind(Head(cq).reqs[i]) = "uploadClose")
  <2> SUFFICES ASSUME cq # <<>>, NEW i \in DOMAIN Head(cq).reqs, Kind(Head(cq).reqs[i]) = "uploadClose"
               PROVE  FALSE
    BY DEF RecvDataCqe, CqeIs
  <2> DEFINE r == Head(cq).reqs[i]
  <2>1. r \in Requests /\ r.n \in DOMAIN asked[r.sock]
    BY <1>1, HeadIn DEF BuffersInv
  <2>2. r.sock \in Socks
    BY <2>1 DEF Requests
  <2>3. Kind(r) \in traffic.kinds
    BY <2>1, <2>2 DEF BuffersInv, Kind
  <2> QED
    BY <2>3 DEF BuffersInv, SmallRequests
<1>5. \A fd \in Fds : conns'[fd].cap = conns[fd].cap \/ conns'[fd].cap = "small"
  BY <1>1, <1>4, CapKept
<1>6. \A fd \in Fds : conns'[fd].cap # "big" /\ (HasBuffer(fd) => HasBuffer(fd)')
  BY <1>1, <1>5 DEF HasBuffer
<1>7. ASSUME NEW fd \in Fds, conns'[fd].inUse PROVE HasBuffer(fd)'
  <2>1. CASE conns[fd].inUse
    BY <1>6, <2>1 DEF BuffersInv
  <2>2. CASE AcceptCqe /\ fd = Head(cq).fd
    <3>1. conns'[fd].cap # "none"
      BY <1>1, <2>2, AcceptCqeStep
    <3>2. conns'[fd].cap \in {"none", "small", "big"}
      BY <1>1 DEF Types, WorkerTypes, Conn
    <3> QED
      BY <1>6, <3>1, <3>2 DEF HasBuffer
  <2>3. conns[fd].inUse \/ (AcceptCqe /\ fd = Head(cq).fd)
    BY <1>1, <1>7, OpenedBy
  <2> QED
    BY <2>1, <2>2, <2>3
<1>8. /\ \A e \in ToSet(sq) : e.fd \in Fds
      /\ \A e \in ToSet(cq) : e.fd \in Fds
      /\ \A e \in armed : e.fd \in Fds
      /\ \A e \in ToSet(sq') : e.fd \in Fds
  <2>1. /\ sq \in Seq(Sqes) /\ cq \in Seq(Cqes) /\ armed \subseteq [sock : Socks, fd : Fds]
        /\ sq' \in Seq(Sqes)
    BY <1>1 DEF Types, KernelTypes
  <2>2. ToSet(sq) \subseteq Sqes /\ ToSet(cq) \subseteq Cqes /\ ToSet(sq') \subseteq Sqes
    BY <2>1 DEF ToSet
  <2> QED
    BY <2>1, <2>2 DEF Sqes, Cqes
<1>9. \A e \in ToSet(sq') : e.op = "recv" => HasBuffer(e.fd)'
  BY <1>1, <1>6, <1>7, <1>8, RecvsFrom DEF BuffersInv
<1>10. \A e \in armed' : HasBuffer(e.fd)'
  BY <1>1, <1>6, <1>8, RecvsFrom DEF BuffersInv
<1>11. \A e \in ToSet(cq') : e.op \in {"recv", "nobufs"} => HasBuffer(e.fd)'
  BY <1>1, <1>6, <1>8, RecvsFrom DEF BuffersInv
<1>12. pc' # "hung"
  <2>1. CASE RecvDataCqe
    <3>1. cq # <<>> /\ Head(cq).op = "recv"
      BY <2>1 DEF RecvDataCqe, CqeIs
    <3>2. HasBuffer(Head(cq).fd)
      BY <1>1, <3>1, HeadIn DEF BuffersInv
    <3> QED
      BY <2>1, <3>2 DEF RecvDataCqe, HasBuffer
  <2>2. CASE Serve
    BY Zenon, <2>2 DEF Serve, RespondAsync, RespondInOrder, RespondWrite, SendSimple, DrainNothing, DrainReturn,
       DrainMalformed, DrainWait, DrainPark, DrainDispatch, Responded, ReadyNext, ReadyDone, BuffersInv
  <2>3. CASE Loop /\ ~RecvDataCqe
    BY Zenon, <1>1, <2>3 DEF Loop, Top, GpuRelease, AcceptCqe, SendCqe, RecvEndCqe, RecvNoBufsCqe, RecvDataCqe,
       RecvTail, EndBatch, SubmitRecv, SubmitSend, Submitted, BuffersInv, Types, WorkerTypes
  <2>4. CASE Kernel
    BY <1>1, <2>4, KernelStep DEF workerVars
  <2>5. CASE Wake \/ Clients \/ UNCHANGED vars
    BY <2>5 DEF Wake, Clients, Connect, Ask, Leave, workerVars, vars, BuffersInv
  <2> QED
    BY <2>1, <2>2, <2>3, <2>4, <2>5 DEF Next, Idle
<1> QED
  BY <1>1, <1>2, <1>3, <1>6, <1>7, <1>9, <1>10, <1>11, <1>12 DEF BuffersInv

(* A worker whose clients upload nothing large never hangs: whatever it    *)
(* receives from has a buffer that can grow.  The one way to a buffer that *)
(* cannot is the trim of a large upload's, for a completion that comes     *)
(* after it.                                                               *)
THEOREM SmallNeverHangs == ASSUME SmallRequests PROVE Spec => []NeverHangs
<1>1. Init => BuffersInv
  <2> SUFFICES ASSUME Init PROVE BuffersInv
    OBVIOUS
  <2>1. /\ armed = {} /\ cq = <<>> /\ sq = <<>> /\ pc = "top" /\ traffic \in Traffics
        /\ asked = [s \in Socks |-> <<>>]
        /\ \A fd \in Fds : ~conns[fd].inUse /\ conns[fd].cap = "none"
    BY DEF Init, NoConn
  <2>2. ToSet(cq) = {} /\ ToSet(sq) = {}
    BY <2>1 DEF ToSet
  <2> QED
    BY <2>1, <2>2, InitTypes DEF BuffersInv
<1>2. BuffersInv /\ [Next]_vars => BuffersInv'
  BY BuffersStep
<1>3. BuffersInv => NeverHangs
  BY DEF BuffersInv, NeverHangs
<1> QED
  BY <1>1, <1>2, <1>3, PTL DEF Spec

----------------------------------------------------------------------------
(* Every request is in one place: with its client, in a completion, in a   *)
(* receive buffer, parked, or released and about to be answered.           *)

Serves == pc \in {"respond", "write", "simple"} \/ (pc = "submit" /\ after = "write")

(* The head of the buffer is answered, but has not left it. *)
Skips(fd) == IF pc = "responded" /\ back # "release" /\ fd = frame.fd THEN 1 ELSE 0

BufSlot(fd, k) == conns[fd].inUse /\ k \in DOMAIN conns[fd].buf /\ k > Skips(fd)

Untaken(r) == r \in Requests /\ r.n > taken[r.sock]
Parked(r) == parked # None /\ parked.req = r
Released(r) == Serves /\ back = "release" /\ frame.req = r

(* A request whose answer has not begun is at a place. *)
At(r, place, i, j) ==
  \/ place = "client" /\ i = 0 /\ j = 0 /\ Untaken(r)
  \/ place = "cq" /\ i \in DOMAIN cq /\ j \in DOMAIN cq[i].reqs /\ cq[i].reqs[j] = r
  \/ place = "buf" /\ i \in Fds /\ BufSlot(i, j) /\ conns[i].buf[j] = r
  \/ place = "parked" /\ i = 0 /\ j = 0 /\ Parked(r)
  \/ place = "released" /\ i = 0 /\ j = 0 /\ Released(r)

Fresh(r) == \E place, i, j : At(r, place, i, j)

Once ==
  \A r, p, i, j, q, k, l : At(r, p, i, j) /\ At(r, q, k, l) => p = q /\ i = k /\ j = l

(* How the completions move in their queue *)
CqShift(d) ==
  \A i \in DOMAIN cq' : \A j \in DOMAIN cq'[i].reqs :
    /\ i + d \in DOMAIN cq /\ j \in DOMAIN cq[i + d].reqs
    /\ cq'[i].reqs[j] = cq[i + d].reqs[j]

LEMMA CqMoves ==
  ASSUME Types, [Next]_vars, ~Recv
  PROVE  CqShift(0) \/ (cq # <<>> /\ cq' = Tail(cq) /\ CqShift(1))
<1>1. cq \in Seq(Cqes)
  BY DEF Types, KernelTypes
<1>2. CASE cq' = cq
  <2>1. \A i \in DOMAIN cq : i + 0 = i
    BY <1>1
  <2> QED
    BY <1>2, <2>1 DEF CqShift
<1>3. CASE cq # <<>> /\ cq' = Tail(cq)
  <2>1. \A i \in DOMAIN Tail(cq) : i + 1 \in DOMAIN cq /\ Tail(cq)[i] = cq[i + 1]
    BY <1>1, <1>3, SeqParts
  <2> QED
    BY <1>3, <2>1 DEF CqShift
<1>4. ASSUME NEW x, cq' = Append(cq, x), x.reqs = <<>> PROVE CqShift(0)
  <2>1. ASSUME NEW i \in DOMAIN cq', NEW j \in DOMAIN cq'[i].reqs
        PROVE  i + 0 = i /\ i \in DOMAIN cq /\ cq'[i] = cq[i]
    <3>1. i \in 1 .. (Len(cq) + 1) /\ Len(cq) \in Nat /\ DOMAIN cq = 1 .. Len(cq)
      BY <1>1, <1>4
    <3>2. i # Len(cq) + 1
      <4>1. DOMAIN <<>> = {} /\ Append(cq, x)[Len(cq) + 1] = x
        BY <1>1
      <4> QED
        BY <1>4, <2>1, <4>1
    <3>3. i \in DOMAIN cq /\ Append(cq, x)[i] = cq[i]
      BY <1>1, <3>1, <3>2
    <3> QED
      BY <1>4, <3>1, <3>3
  <2> QED
    BY <2>1 DEF CqShift
<1>5. CASE Serve
  BY Zenon, <1>2, <1>5 DEF Serve, RespondAsync, RespondInOrder, RespondWrite, SendSimple, DrainNothing,
       DrainMalformed, DrainWait, DrainPark, DrainDispatch, Responded, ReadyNext, ReadyDone, kernelVars
<1>6. CASE Loop /\ ~SubmitSend /\ ~SubmitRecv
  BY Zenon, <1>2, <1>3, <1>6 DEF Loop, Top, GpuRelease, AcceptCqe, SendCqe, RecvEndCqe, RecvNoBufsCqe, RecvDataCqe,
       RecvTail, EndBatch, Submitted, Consume, CqeIs, kernelVars
<1>7. CASE SubmitRecv
  <2>1. cq' = cq \/ \E x : cq' = Append(cq, x) /\ x.reqs = <<>>
    BY <1>7 DEF SubmitRecv, Cqe
  <2> QED
    BY <1>2, <1>4, <2>1
<1>8. ASSUME NEW t, NEW fd, NEW from, NEW n, SendExecutes(t, fd, from, n)
      PROVE  \E x : cq' = Append(cq, x) /\ x.reqs = <<>>
  BY <1>8 DEF SendExecutes, Cqe
<1>9. CASE SubmitSend
  <2>1. cq' = cq \/ \E x : cq' = Append(cq, x) /\ x.reqs = <<>>
    BY <1>8, <1>9 DEF SubmitSend
  <2> QED
    BY <1>2, <1>4, <2>1
<1>10. CASE PendingSend
  <2>1. \E x : cq' = Append(cq, x) /\ x.reqs = <<>>
    BY <1>8, <1>10 DEF PendingSend
  <2> QED
    BY <1>4, <2>1
<1>11. CASE RecvEnd \/ RecvNoBufs
  <2>1. PICK e \in armed, op \in {"recv", "nobufs"} : cq' = Append(cq, Cqe(op, e.fd, <<>>, 0, FALSE))
    BY <1>11 DEF RecvEnd, RecvNoBufs
  <2>2. Cqe(op, e.fd, <<>>, 0, FALSE).reqs = <<>>
    BY DEF Cqe
  <2> QED
    BY <1>4, <2>1, <2>2
<1>13. CASE Accepting
  <2>1. PICK fd : cq' = Append(cq, Cqe("accept", fd, <<>>, 0, TRUE))
    BY <1>13 DEF Accepting, Accept
  <2>2. Cqe("accept", fd, <<>>, 0, TRUE).reqs = <<>>
    BY DEF Cqe
  <2> QED
    BY <1>4, <2>1, <2>2
<1>12. CASE Wake \/ Clients \/ JobEnds \/ UNCHANGED vars
  BY <1>2, <1>12 DEF Wake, Clients, Connect, Ask, Leave, JobEnds, kernelVars, vars
<1> QED
  BY <1>5, <1>6, <1>7, <1>9, <1>10, <1>11, <1>12, <1>13 DEF Next, Loop, Kernel, Idle, Accepting

(* Only a response leaves its request at the head of the buffer. *)
Answers == RespondAsync \/ RespondWrite \/ SendSimple

LEMMA RespondedBy ==
  ASSUME Types, [Next]_vars
  PROVE  /\ pc' = "responded" => Answers \/ UNCHANGED vars
         /\ pc = "responded" => Responded \/ UNCHANGED vars
<1>1. CASE Serve
  BY Zenon, <1>1 DEF Serve, RespondAsync, RespondInOrder, RespondWrite, SendSimple, DrainNothing, DrainReturn,
       DrainHead, DrainMalformed, DrainWait, DrainPark, DrainDispatch, Responded, ReadyNext, ReadyDone, Answers
<1>2. CASE Loop
  <2>1. CASE AcceptCqe \/ SendCqe \/ RecvEndCqe \/ RecvNoBufsCqe \/ RecvDataCqe
    BY Zenon, <2>1 DEF AcceptCqe, SendCqe, RecvEndCqe, RecvNoBufsCqe, RecvDataCqe, CqeIs
  <2>2. CASE Top \/ GpuRelease("top") \/ GpuRelease("batch") \/ RecvTail \/ EndBatch
    BY <2>2 DEF Top, GpuRelease, RecvTail, EndBatch
  <2>3. CASE SubmitRecv \/ SubmitSend \/ Submitted
    BY <2>3 DEF SubmitRecv, SubmitSend, Submitted, Types, WorkerTypes
  <2> QED
    BY <1>2, <2>1, <2>2, <2>3 DEF Loop
<1>3. CASE Kernel
  BY <1>3, KernelStep DEF workerVars
<1>4. CASE Wake \/ Clients
  BY <1>4 DEF Wake, Clients, Connect, Ask, Leave, workerVars
<1> QED
  BY <1>1, <1>2, <1>3, <1>4 DEF Next, Idle

(* How the requests move in their buffer *)
BufShift(fd, d) ==
  \A k \in DOMAIN conns'[fd].buf : BufSlot(fd, k)' =>
    BufSlot(fd, k + d) /\ conns'[fd].buf[k] = conns[fd].buf[k + d]

LEMMA BufMoves ==
  ASSUME Types, [Next]_vars, ~RecvDataCqe, NEW fd \in Fds
  PROVE  BufShift(fd, 0) \/ BufShift(fd, 1)
<1>1. conns[fd].buf \in Seq(Requests) /\ \A k \in DOMAIN conns[fd].buf : k + 0 = k
  BY DEF Types, WorkerTypes, Conn
<1>2. ASSUME conns'[fd].inUse => conns[fd].inUse /\ conns'[fd].buf = conns[fd].buf,
             Skips(fd) = 0 \/ Skips(fd)' = 1
      PROVE  BufShift(fd, 0)
  <2>1. \A k \in DOMAIN conns[fd].buf : k > Skips(fd)' => k > Skips(fd)
    BY <1>1, <1>2 DEF Skips
  <2> QED
    BY <1>1, <1>2, <2>1 DEF BufShift, BufSlot
<1>3. ASSUME conns[fd].inUse, conns[fd].buf # <<>>, conns'[fd].buf = Tail(conns[fd].buf) PROVE BufShift(fd, 1)
  <2>1. \A k \in DOMAIN Tail(conns[fd].buf) :
          /\ k + 1 \in DOMAIN conns[fd].buf /\ Tail(conns[fd].buf)[k] = conns[fd].buf[k + 1]
          /\ k + 1 > Skips(fd)
    <3>1. \A k \in DOMAIN Tail(conns[fd].buf) :
          k + 1 \in DOMAIN conns[fd].buf /\ Tail(conns[fd].buf)[k] = conns[fd].buf[k + 1]
      BY <1>1, <1>3, SeqParts
    <3>2. Tail(conns[fd].buf) \in Seq(Requests)
      BY <1>1, <1>3
    <3>3. \A k \in DOMAIN Tail(conns[fd].buf) : k \in Nat /\ k >= 1
      BY <3>2
    <3> QED
      BY <3>1, <3>3 DEF Skips
  <2> QED
    BY <1>3, <2>1 DEF BufShift, BufSlot
<1>4. CASE UNCHANGED vars
  <2>1. conns' = conns /\ Skips(fd)' = Skips(fd)
    BY <1>4 DEF vars, callVars, Skips
  <2> QED
    BY <1>2, <2>1 DEF Skips
<1>5. CASE Responded
  <2>1. fd # frame.fd => Skips(fd) = 0 /\ conns'[fd] = conns[fd]
    BY <1>5, RespondedStep DEF Touches, Skips
  <2>2. back = "release" => Skips(fd) = 0
    BY DEF Skips
  <2>3. CASE fd = frame.fd /\ conns'[fd].inUse /\ back # "release"
    BY <1>3, <1>5, <2>3, RespondedStep
  <2>4. CASE fd = frame.fd /\ conns'[fd].inUse /\ back = "release"
    BY <1>2, <1>5, <2>2, <2>4, RespondedStep
  <2>5. CASE ~conns'[fd].inUse
    BY <2>5 DEF BufShift, BufSlot
  <2> QED
    BY <1>2, <2>1, <2>3, <2>4, <2>5
<1>6. CASE ~Responded /\ ~(UNCHANGED vars)
  <2>1. Skips(fd) = 0
    BY <1>6, RespondedBy DEF Skips
  <2>2. CASE RespondAsync
    BY <1>2, <2>1, <2>2, RespondAsyncStep
  <2>3. CASE DrainMalformed
    BY <1>2, <2>1, <2>3, DrainMalformedStep DEF Touches
  <2>4. CASE DrainPark
    BY <1>2, <1>3, <2>1, <2>4, DrainParkStep DEF Touches
  <2>5. CASE AcceptCqe
    <3>1. CASE fd = Head(cq).fd
      <4>1. conns'[fd].buf = <<>> /\ DOMAIN <<>> = {}
        BY <2>5, <3>1, AcceptCqeStep
      <4> QED
        BY <4>1 DEF BufShift
    <3> QED
      BY <1>2, <2>1, <2>5, <3>1, AcceptCqeStep DEF Touches
  <2>6. CASE SendCqe
    BY <1>2, <2>1, <2>6, SendCqeStep DEF Touches
  <2>7. CASE RecvEndCqe
    BY <1>2, <2>1, <2>7, RecvEndCqeStep DEF Touches
  <2>8. conns' = conns => BufShift(fd, 0)
    BY <1>2, <2>1
  <2> QED
    BY <1>6, <2>2, <2>3, <2>4, <2>5, <2>6, <2>7, <2>8, ConnsKept
<1> QED
  BY <1>4, <1>5, <1>6

(* Who is parked, and who is released *)
LEMMA ParkMoves ==
  ASSUME Types, [Next]_vars, ~DrainPark
  PROVE  parked' = parked \/ parked' = None
<1>1. CASE Serve
  BY Zenon, <1>1 DEF Serve, RespondAsync, RespondInOrder, RespondWrite, SendSimple, DrainNothing,
       DrainMalformed, DrainWait, DrainDispatch, Responded, ReadyNext, ReadyDone
<1>2. CASE Loop \/ Wake
  BY Zenon, <1>2 DEF Loop, Wake, Top, GpuRelease, AcceptCqe, SendCqe, RecvEndCqe, RecvNoBufsCqe, RecvDataCqe,
       RecvTail, EndBatch, SubmitRecv, SubmitSend, Submitted
<1>3. CASE Kernel
  BY <1>3, KernelStep DEF workerVars
<1>4. CASE Clients \/ UNCHANGED vars
  BY <1>4 DEF Clients, Connect, Ask, Leave, workerVars, vars
<1> QED
  BY <1>1, <1>2, <1>3, <1>4 DEF Next, Idle

LEMMA ReleaseMoves ==
  ASSUME Types, [Next]_vars, NEW r, Released(r)'
  PROVE  Released(r) \/ (Parked(r) /\ parked' = None)
<1>1. /\ pc' \in {"respond", "write", "simple", "submit"} /\ (pc' = "submit" => after' = "write")
      /\ back' = "release" /\ frame'.req = r
  BY DEF Released, Serves
<1>2. frame \in [fd : Fds \cup {None}, req : Requests \cup {None}, closing : BOOLEAN]
  BY DEF Types, WorkerTypes
<1>3. CASE RespondAsync \/ RespondWrite \/ SendSimple
  BY <1>1, <1>3 DEF RespondAsync, RespondWrite, SendSimple
<1>4. CASE RespondInOrder
  BY <1>1, <1>4 DEF RespondInOrder, Released, Serves
<1>5. CASE DrainNothing \/ DrainMalformed \/ DrainWait \/ DrainPark \/ Responded \/ ReadyNext
  BY <1>1, <1>5 DEF DrainNothing, DrainMalformed, DrainWait, DrainPark, Responded, ReadyNext, DrainReturn
<1>6. CASE DrainDispatch
  <2>1. pc = "drain" /\ back' = back
    BY <1>6 DEF DrainDispatch, DrainHead, callVars
  <2> QED
    BY <1>1, <2>1 DEF Types, Framed
<1>7. CASE ReadyDone \/ Top \/ EndBatch \/ Wake
  BY <1>1, <1>7 DEF ReadyDone, Top, EndBatch, Wake
<1>8. CASE GpuRelease("top") \/ GpuRelease("batch")
  BY <1>1, <1>8 DEF GpuRelease, Parked
<1>9. CASE AcceptCqe \/ SendCqe \/ RecvEndCqe \/ RecvNoBufsCqe \/ RecvDataCqe \/ RecvTail
  BY <1>1, <1>9 DEF AcceptCqe, SendCqe, RecvEndCqe, RecvNoBufsCqe, RecvDataCqe, RecvTail, CqeIs
<1>10. CASE SubmitRecv \/ SubmitSend
  BY <1>1, <1>10 DEF SubmitRecv, SubmitSend, callVars, Released, Serves
<1>11. CASE Submitted
  <2>1. after = "write"
    BY <1>1, <1>11 DEF Submitted, Types, WorkerTypes
  <2> QED
    BY <1>1, <1>11, <2>1 DEF Submitted, callVars, Released, Serves
<1>12. CASE Kernel
  BY <1>1, <1>12, KernelStep DEF workerVars
<1>13. CASE Clients
  BY <1>1, <1>13 DEF Clients, Connect, Ask, Leave, workerVars
<1>14. CASE UNCHANGED vars
  BY <1>14 DEF vars, callVars, Released, Serves
<1> QED
  BY <1>3, <1>4, <1>5, <1>6, <1>7, <1>8, <1>9, <1>10, <1>11, <1>12, <1>13, <1>14
     DEF Next, Serve, Loop, Idle

LEMMA TakenMoves ==
  ASSUME Types, [Next]_vars, ~Recv
  PROVE  taken' = taken
<1>1. CASE Serve
  BY Zenon, <1>1 DEF Serve, RespondAsync, RespondInOrder, RespondWrite, SendSimple, DrainNothing,
       DrainMalformed, DrainWait, DrainPark, DrainDispatch, Responded, ReadyNext, ReadyDone, kernelVars
<1>2. CASE Loop \/ Wake
  BY Zenon, <1>2 DEF Loop, Wake, Top, GpuRelease, AcceptCqe, SendCqe, RecvEndCqe, RecvNoBufsCqe, RecvDataCqe,
       RecvTail, EndBatch, SubmitRecv, SubmitSend, Submitted, Consume, kernelVars
<1>3. CASE Kernel
  BY <1>3 DEF Kernel, PendingSend, RecvNoBufs, RecvEnd, JobEnds, Accept, kernelVars
<1>4. CASE Clients \/ UNCHANGED vars
  BY <1>4 DEF Clients, Connect, Ask, Leave, kernelVars, vars
<1> QED
  BY <1>1, <1>2, <1>3, <1>4 DEF Next, Idle

(* What a recv delivers has not been taken before. *)
LEMMA RecvMoves ==
  ASSUME Types, Recv
  PROVE  \E x \in Cqes :
           /\ cq' = Append(cq, x)
           /\ \A j \in DOMAIN x.reqs : Untaken(x.reqs[j]) /\ ~Untaken(x.reqs[j])'
           /\ \A j, l \in DOMAIN x.reqs : x.reqs[j] = x.reqs[l] => j = l
           /\ \A s \in Socks : taken'[s] >= taken[s]
           /\ UNCHANGED workerVars
<1>0. PICK e \in armed, more \in BOOLEAN :
        \E k \in (taken[e.sock] + 1) .. Len(asked[e.sock]) :
          /\ taken' = [taken EXCEPT ![e.sock] = k]
          /\ cq' = Append(cq, Cqe("recv", e.fd,
               [i \in 1 .. (k - taken[e.sock]) |-> [sock |-> e.sock, n |-> taken[e.sock] + i]],
               0, more))
  BY DEF Recv
<1>1. PICK k \in (taken[e.sock] + 1) .. Len(asked[e.sock]) :
        /\ taken' = [taken EXCEPT ![e.sock] = k]
        /\ cq' = Append(cq, Cqe("recv", e.fd,
             [i \in 1 .. (k - taken[e.sock]) |-> [sock |-> e.sock, n |-> taken[e.sock] + i]],
             0, more))
  BY <1>0
<1>15. PICK t : t = taken[e.sock]
  OBVIOUS
<1> DEFINE reqs == [i \in 1 .. (k - t) |-> [sock |-> e.sock, n |-> t + i]]
           x == Cqe("recv", e.fd, reqs, 0, more)
<1>2. /\ e.sock \in Socks /\ e.fd \in Fds /\ t \in Nat /\ asked[e.sock] \in Seq(AllKinds)
      /\ Len(asked[e.sock]) \in Nat /\ taken \in [Socks -> Nat]
  BY <1>15 DEF Types, ClientTypes, KernelTypes
<1>3. k \in Nat /\ k - t \in Nat /\ k - t >= 1
  BY <1>1, <1>2, <1>15
<1>4. taken'[e.sock] = k /\ \A s \in Socks : taken'[s] \in Nat /\ taken'[s] >= taken[s]
  BY <1>1, <1>2, <1>3
<1>5. \A j \in 1 .. (k - t) : [sock |-> e.sock, n |-> t + j] \in Requests /\ t + j > t /\ t + j <= k
  BY <1>2, <1>3 DEF Requests
<1>6. reqs \in Seq(Requests) /\ DOMAIN reqs = 1 .. (k - t)
  BY <1>3, <1>5
<1>7. \A j \in DOMAIN reqs : /\ reqs[j].sock = e.sock /\ reqs[j].n = t + j
                             /\ t + j > t /\ t + j <= k /\ t + j \in Nat
  BY <1>2, <1>5, <1>6
<1>8. \A j, l \in DOMAIN reqs : reqs[j] = reqs[l] => j = l
  BY <1>2, <1>6, <1>7
<1>14. cq' = Append(cq, x)
  BY <1>1, <1>15
<1> HIDE DEF reqs
<1>9. x \in Cqes /\ x.reqs = reqs
  BY <1>2, <1>6 DEF Cqe, Cqes
<1>10. \A j \in DOMAIN reqs : Untaken(reqs[j]) /\ ~Untaken(reqs[j])'
  <2> SUFFICES ASSUME NEW j \in DOMAIN reqs PROVE Untaken(reqs[j]) /\ ~Untaken(reqs[j])'
    OBVIOUS
  <2>1. reqs[j] \in Requests /\ j \in Nat
    BY <1>3, <1>6
  <2>2. reqs[j].sock = e.sock /\ reqs[j].n > t /\ reqs[j].n <= k /\ reqs[j].n \in Nat
    BY <1>7
  <2>3. ~(reqs[j].n > k)
    BY <1>3, <2>2
  <2> QED
    BY <1>4, <1>15, <2>1, <2>2, <2>3 DEF Untaken
<1>11. UNCHANGED workerVars
  BY DEF Recv
<1>12. \A j \in DOMAIN x.reqs : Untaken(x.reqs[j]) /\ ~Untaken(x.reqs[j])'
  BY <1>9, <1>10
<1>13. \A j, l \in DOMAIN x.reqs : x.reqs[j] = x.reqs[l] => j = l
  BY <1>8, <1>9
<1> HIDE DEF x
<1> QED
  BY <1>4, <1>9, <1>11, <1>12, <1>13, <1>14

(* What places look like *)
LEMMA AtIs ==
  ASSUME Types, NEW r, NEW p, NEW i, NEW j, At(r, p, i, j)
  PROVE  /\ i \in Nat /\ j \in Nat
         /\ p \in {"client", "cq", "buf", "parked", "released"}
         /\ p \in {"client", "parked", "released"} => i = 0 /\ j = 0
<1>1. CASE p = "cq"
  <2>1. i \in DOMAIN cq /\ j \in DOMAIN cq[i].reqs /\ cq \in Seq(Cqes)
    BY <1>1 DEF At, Types, KernelTypes
  <2>2. cq[i] \in Cqes
    BY <2>1
  <2>3. cq[i].reqs \in Seq(Requests)
    BY <2>2 DEF Cqes
  <2> QED
    BY <1>1, <2>1, <2>3
<1>2. CASE p = "buf"
  <2>1. i \in Fds /\ j \in DOMAIN conns[i].buf /\ conns[i].buf \in Seq(Requests)
    BY <1>2 DEF At, BufSlot, Types, WorkerTypes, Conn
  <2> QED
    BY <1>2, <2>1, WorkerAssumption
<1>3. CASE p \notin {"cq", "buf"}
  BY <1>3 DEF At
<1> QED
  BY <1>1, <1>2, <1>3

LEMMA AtIsNext ==
  (\A r, p, i, j : Types /\ At(r, p, i, j) =>
         /\ i \in Nat /\ j \in Nat
         /\ p \in {"client", "cq", "buf", "parked", "released"}
         /\ (p \in {"client", "parked", "released"} => i = 0 /\ j = 0))'
<1>1. \A r, p, i, j : Types /\ At(r, p, i, j) =>
         /\ i \in Nat /\ j \in Nat
         /\ p \in {"client", "cq", "buf", "parked", "released"}
         /\ (p \in {"client", "parked", "released"} => i = 0 /\ j = 0)
  BY AtIs
<1> QED
  BY <1>1, PTL

(* Requests stay once each, and none becomes fresh again. *)
Settles == Once' /\ \A r : Fresh(r)' => Fresh(r)

(* Most steps move requests within their queues, or release the parked one. *)
LEMMA OthersSettle ==
  ASSUME Types, Types', Once, [Next]_vars, ~Recv, ~RecvDataCqe, ~DrainPark
  PROVE  Settles
<1>1. PICK d \in {0, 1} : CqShift(d)
  BY CqMoves
<1>2. PICK g \in [Fds -> {0, 1}] : \A fd \in Fds : BufShift(fd, g[fd])
  <2> DEFINE h == [fd \in Fds |-> IF BufShift(fd, 0) THEN 0 ELSE 1]
  <2>1. \A fd \in Fds : BufShift(fd, h[fd])
    BY BufMoves
  <2>2. h \in [Fds -> {0, 1}]
    OBVIOUS
  <2> HIDE DEF h
  <2> QED
    BY <2>1, <2>2
<1>3. ASSUME NEW r, NEW p, NEW i, NEW j, At(r, p, i, j)'
      PROVE  \/ p = "client" /\ At(r, p, i, j)
             \/ p = "cq" /\ At(r, "cq", i + d, j)
             \/ p = "buf" /\ i \in Fds /\ At(r, "buf", i, j + g[i])
             \/ p = "parked" /\ At(r, p, i, j) /\ parked' # None
             \/ p = "released" /\ At(r, p, i, j)
             \/ p = "released" /\ At(r, "parked", i, j) /\ parked' = None
  <2>1. CASE p = "client"
    BY <1>3, <2>1, TakenMoves DEF At, Untaken
  <2>2. CASE p = "cq"
    BY <1>1, <1>3, <2>2 DEF At, CqShift
  <2>3. CASE p = "buf"
    <3>1. i \in Fds /\ BufSlot(i, j)' /\ conns'[i].buf[j] = r
      BY <1>3, <2>3 DEF At
    <3>2. BufSlot(i, j + g[i]) /\ conns'[i].buf[j] = conns[i].buf[j + g[i]]
      BY <1>2, <3>1 DEF BufShift, BufSlot
    <3> QED
      BY <2>3, <3>1, <3>2 DEF At
  <2>4. CASE p = "parked"
    BY <1>3, <2>4, ParkMoves DEF At, Parked
  <2>5. CASE p = "released"
    <3>1. i = 0 /\ j = 0 /\ Released(r)'
      BY <1>3, <2>5 DEF At
    <3>2. Released(r) \/ (Parked(r) /\ parked' = None)
      BY <3>1, ReleaseMoves
    <3> QED
      BY <2>5, <3>1, <3>2 DEF At
  <2> QED
    BY <1>3, <2>1, <2>2, <2>3, <2>4, <2>5 DEF At
<1>4. \A r, p, i, j : At(r, p, i, j)' =>
         /\ i \in Nat /\ j \in Nat
         /\ (p \in {"client", "parked", "released"} => i = 0 /\ j = 0)
  BY AtIsNext
<1>5. ASSUME NEW r, NEW p, NEW i, NEW j, NEW q, NEW k, NEW l, At(r, p, i, j)', At(r, q, k, l)'
      PROVE  p = q /\ i = k /\ j = l
  <2>1. /\ i \in Nat /\ j \in Nat /\ k \in Nat /\ l \in Nat
        /\ (p \in {"client", "parked", "released"} => i = 0 /\ j = 0)
        /\ (q \in {"client", "parked", "released"} => k = 0 /\ l = 0)
    BY <1>4, <1>5
  <2>2. \A a, b, m, n, s, t : At(r, a, m, n) /\ At(r, b, s, t) => a = b /\ m = s /\ n = t
    BY DEF Once
  <2>3. /\ \/ p = "client" /\ At(r, p, i, j)
           \/ p = "cq" /\ At(r, "cq", i + d, j)
           \/ p = "buf" /\ i \in Fds /\ At(r, "buf", i, j + g[i])
           \/ p = "parked" /\ At(r, p, i, j) /\ parked' # None
           \/ p = "released" /\ At(r, p, i, j)
           \/ p = "released" /\ At(r, "parked", i, j) /\ parked' = None
        /\ \/ q = "client" /\ At(r, q, k, l)
           \/ q = "cq" /\ At(r, "cq", k + d, l)
           \/ q = "buf" /\ k \in Fds /\ At(r, "buf", k, l + g[k])
           \/ q = "parked" /\ At(r, q, k, l) /\ parked' # None
           \/ q = "released" /\ At(r, q, k, l)
           \/ q = "released" /\ At(r, "parked", k, l) /\ parked' = None
    BY <1>3, <1>5
  <2>4. CASE p = "cq"
    BY <2>1, <2>2, <2>3, <2>4
  <2>5. CASE p = "buf"
    BY <2>1, <2>2, <2>3, <2>5
  <2>6. CASE p = "client"
    BY <2>1, <2>2, <2>3, <2>6
  <2>7. CASE p = "parked"
    BY <2>1, <2>2, <2>3, <2>7
  <2>8. CASE p = "released"
    BY <2>1, <2>2, <2>3, <2>8
  <2> QED
    BY <2>3, <2>4, <2>5, <2>6, <2>7, <2>8
<1>6. Once'
  BY <1>5 DEF Once
<1>7. ASSUME NEW r, Fresh(r)' PROVE Fresh(r)
  <2>1. PICK p, i, j : At(r, p, i, j)'
    BY <1>7 DEF Fresh
  <2> QED
    BY <1>3, <2>1 DEF Fresh
<1> QED
  BY <1>6, <1>7 DEF Settles

(* The parked request leaves its buffer. *)
LEMMA ParkSettles ==
  ASSUME Types, Types', Once, DrainPark
  PROVE  Settles
<1> DEFINE f == frame.fd
<1>1. /\ f \in Fds /\ conns' \in [Fds -> Conn] /\ \A h \in Fds : h # f => conns'[h] = conns[h]
      /\ conns[f].inUse /\ conns[f].buf # <<>> /\ conns'[f].buf = Tail(conns[f].buf)
      /\ parked = None /\ parked'.req = Head(conns[f].buf)
      /\ pc = "drain" /\ pc' \in {"recvTail", "ready"}
      /\ UNCHANGED <<cq, taken, frame, back>>
  BY DrainParkStep DEF Touches, DrainReturn, kernelVars, callVars
<1>2. conns[f].buf \in Seq(Requests)
  BY <1>1 DEF Types, WorkerTypes, Conn
<1>3. /\ 1 \in DOMAIN conns[f].buf /\ Head(conns[f].buf) = conns[f].buf[1]
      /\ \A k \in DOMAIN Tail(conns[f].buf) :
           k + 1 \in DOMAIN conns[f].buf /\ Tail(conns[f].buf)[k] = conns[f].buf[k + 1]
  BY <1>1, <1>2, SeqParts
<1>4. \A r, p, i, j : At(r, p, i, j)' =>
        /\ i \in Nat /\ j \in Nat
        /\ p \in {"client", "cq", "buf", "parked", "released"}
        /\ (p \in {"client", "parked", "released"} => i = 0 /\ j = 0)
  BY AtIsNext
<1>5. \A h \in Fds : Skips(h) = 0 /\ Skips(h)' = 0
  BY <1>1 DEF Skips
<1>6. ASSUME NEW r, NEW p, NEW i, NEW j, At(r, p, i, j)'
      PROVE  \/ p \in {"client", "cq"} /\ At(r, p, i, j)
             \/ p = "buf" /\ i # f /\ At(r, "buf", i, j)
             \/ p = "buf" /\ i = f /\ At(r, "buf", f, j + 1) /\ j >= 1
             \/ p = "parked" /\ At(r, "buf", f, 1)
  <2>1. CASE p \in {"client", "cq"}
    BY <1>1, <1>6, <2>1 DEF At, Untaken
  <2>2. CASE p = "buf"
    <3>1. i \in Fds /\ conns'[i].inUse /\ j \in DOMAIN conns'[i].buf /\ j > 0 /\ conns'[i].buf[j] = r
      BY <1>5, <1>6, <2>2 DEF At, BufSlot
    <3>2. CASE i # f
      BY <1>1, <1>5, <2>2, <3>1, <3>2 DEF At, BufSlot
    <3>3. CASE i = f
      <4>1. j + 1 \in DOMAIN conns[f].buf /\ r = conns[f].buf[j + 1] /\ j \in Nat
        BY <1>1, <1>3, <1>4, <1>6, <3>1, <3>3
      <4>2. BufSlot(f, j + 1) /\ j >= 1
        BY <1>1, <1>5, <3>1, <4>1 DEF BufSlot
      <4> QED
        BY <1>1, <2>2, <3>3, <4>1, <4>2 DEF At
    <3> QED
      BY <3>2, <3>3
  <2>3. CASE p = "parked"
    <3>1. r = conns[f].buf[1]
      BY <1>1, <1>3, <1>6, <2>3 DEF At, Parked
    <3>2. BufSlot(f, 1)
      BY <1>1, <1>3, <1>5 DEF BufSlot
    <3> QED
      BY <1>1, <2>3, <3>1, <3>2 DEF At
  <2>4. p # "released"
    <3>1. ~Serves'
      BY <1>1 DEF Serves
    <3> QED
      BY <1>6, <3>1 DEF At, Released
  <2> QED
    BY <1>4, <1>6, <2>1, <2>2, <2>3, <2>4
<1> HIDE DEF f
<1>7. ASSUME NEW r, NEW p, NEW i, NEW j, NEW q, NEW k, NEW l, At(r, p, i, j)', At(r, q, k, l)'
      PROVE  p = q /\ i = k /\ j = l
  <2>1. /\ i \in Nat /\ j \in Nat /\ k \in Nat /\ l \in Nat
        /\ (p \in {"client", "parked", "released"} => i = 0 /\ j = 0)
        /\ (q \in {"client", "parked", "released"} => k = 0 /\ l = 0)
    BY <1>4, <1>7
  <2>2. \A a, b, m, n, s, t : At(r, a, m, n) /\ At(r, b, s, t) => a = b /\ m = s /\ n = t
    BY DEF Once
  <2>3. /\ \/ p \in {"client", "cq"} /\ At(r, p, i, j)
           \/ p = "buf" /\ i # f /\ At(r, "buf", i, j)
           \/ p = "buf" /\ i = f /\ At(r, "buf", f, j + 1) /\ j >= 1
           \/ p = "parked" /\ At(r, "buf", f, 1)
        /\ \/ q \in {"client", "cq"} /\ At(r, q, k, l)
           \/ q = "buf" /\ k # f /\ At(r, "buf", k, l)
           \/ q = "buf" /\ k = f /\ At(r, "buf", f, l + 1) /\ l >= 1
           \/ q = "parked" /\ At(r, "buf", f, 1)
    BY <1>6, <1>7
  <2>4. CASE p \in {"client", "cq"}
    BY <2>1, <2>2, <2>3, <2>4
  <2>5. CASE p = "buf"
    BY <2>1, <2>2, <2>3, <2>5
  <2>6. CASE p = "parked"
    BY <2>1, <2>2, <2>3, <2>6
  <2> QED
    BY <2>3, <2>4, <2>5, <2>6
<1>8. ASSUME NEW r, Fresh(r)' PROVE Fresh(r)
  <2>1. PICK p, i, j : At(r, p, i, j)'
    BY <1>8 DEF Fresh
  <2> QED
    BY <1>6, <2>1 DEF Fresh
<1>9. Once'
  BY <1>7 DEF Once
<1> QED
  BY <1>8, <1>9 DEF Settles

(* A recv takes requests from their client into a completion. *)
LEMMA RecvSettles ==
  ASSUME Types, Types', Once, Recv
  PROVE  Settles
<1>1. PICK x \in Cqes :
        /\ cq' = Append(cq, x)
        /\ \A j \in DOMAIN x.reqs : Untaken(x.reqs[j]) /\ ~Untaken(x.reqs[j])'
        /\ \A j, l \in DOMAIN x.reqs : x.reqs[j] = x.reqs[l] => j = l
        /\ \A s \in Socks : taken'[s] >= taken[s]
        /\ UNCHANGED workerVars
  BY RecvMoves
<1>2. cq \in Seq(Cqes) /\ taken \in [Socks -> Nat] /\ taken' \in [Socks -> Nat]
  BY DEF Types, KernelTypes, ClientTypes
<1> DEFINE m == Len(cq) + 1
<1>3. /\ m \in Nat /\ m \notin DOMAIN cq /\ DOMAIN Append(cq, x) = DOMAIN cq \cup {m}
      /\ Append(cq, x)[m] = x /\ \A i \in DOMAIN cq : Append(cq, x)[i] = cq[i]
  BY <1>2
<1> HIDE DEF m
<1>4. \A r, p, i, j : At(r, p, i, j)' =>
        /\ i \in Nat /\ j \in Nat
        /\ p \in {"client", "cq", "buf", "parked", "released"}
        /\ (p \in {"client", "parked", "released"} => i = 0 /\ j = 0)
  BY AtIsNext
<1>5. ASSUME NEW r, NEW p, NEW i, NEW j, At(r, p, i, j)'
      PROVE  \/ p # "client" /\ At(r, p, i, j) /\ (p = "cq" => i # m)
             \/ p = "client" /\ At(r, p, i, j) /\ Untaken(r)'
             \/ /\ p = "cq" /\ i = m /\ At(r, "client", 0, 0) /\ ~Untaken(r)'
                /\ j \in DOMAIN x.reqs /\ x.reqs[j] = r
  <2>1. CASE p = "client"
    <3>1. Untaken(r)' /\ i = 0 /\ j = 0
      BY <1>5, <2>1 DEF At
    <3>2. r \in Requests /\ r.sock \in Socks /\ r.n \in Nat /\ r.n > taken'[r.sock]
      BY <3>1 DEF Untaken, Requests
    <3>3. Untaken(r)
      BY <1>1, <1>2, <3>2 DEF Untaken
    <3> QED
      BY <2>1, <3>1, <3>3 DEF At
  <2>2. CASE p = "cq"
    <3>1. i \in DOMAIN Append(cq, x) /\ j \in DOMAIN Append(cq, x)[i].reqs /\ Append(cq, x)[i].reqs[j] = r
      BY <1>1, <1>5, <2>2 DEF At
    <3>2. CASE i = m
      BY <1>1, <1>3, <2>2, <3>1, <3>2 DEF At
    <3>3. CASE i # m
      BY <1>3, <2>2, <3>1, <3>3 DEF At
    <3> QED
      BY <3>2, <3>3
  <2>3. CASE p = "buf"
    BY <1>1, <1>5, <2>3 DEF At, BufSlot, Skips, workerVars, callVars
  <2>4. CASE p = "parked"
    BY <1>1, <1>5, <2>4 DEF At, Parked, workerVars
  <2>5. CASE p = "released"
    BY <1>1, <1>5, <2>5 DEF At, Released, Serves, workerVars, callVars
  <2> QED
    BY <1>4, <1>5, <2>1, <2>2, <2>3, <2>4, <2>5
<1>6. ASSUME NEW r, NEW p, NEW i, NEW j, NEW q, NEW k, NEW l, At(r, p, i, j)', At(r, q, k, l)'
      PROVE  p = q /\ i = k /\ j = l
  <2>1. \A a, b, u, n, s, t : At(r, a, u, n) /\ At(r, b, s, t) => a = b /\ u = s /\ n = t
    BY DEF Once
  <2>2. /\ \/ p # "client" /\ At(r, p, i, j) /\ (p = "cq" => i # m)
           \/ p = "client" /\ At(r, p, i, j) /\ Untaken(r)'
           \/ /\ p = "cq" /\ i = m /\ At(r, "client", 0, 0) /\ ~Untaken(r)'
              /\ j \in DOMAIN x.reqs /\ x.reqs[j] = r
        /\ \/ q # "client" /\ At(r, q, k, l) /\ (q = "cq" => k # m)
           \/ q = "client" /\ At(r, q, k, l) /\ Untaken(r)'
           \/ /\ q = "cq" /\ k = m /\ At(r, "client", 0, 0) /\ ~Untaken(r)'
              /\ l \in DOMAIN x.reqs /\ x.reqs[l] = r
    BY <1>5, <1>6
  <2> QED
    BY <1>1, <2>1, <2>2
<1>7. ASSUME NEW r, Fresh(r)' PROVE Fresh(r)
  <2>1. PICK p, i, j : At(r, p, i, j)'
    BY <1>7 DEF Fresh
  <2> QED
    BY <1>5, <2>1 DEF Fresh
<1>8. Once'
  BY <1>6 DEF Once
<1> QED
  BY <1>7, <1>8 DEF Settles

LEMMA JoinedAt ==
  ASSUME NEW S, NEW p \in Seq(S), NEW q \in Seq(S), NEW i \in DOMAIN (p \o q)
  PROVE  \/ i \in DOMAIN p /\ i <= Len(p) /\ (p \o q)[i] = p[i]
         \/ i > Len(p) /\ i - Len(p) \in DOMAIN q /\ (p \o q)[i] = q[i - Len(p)]
<1>1. Len(p) \in Nat /\ Len(q) \in Nat /\ DOMAIN p = 1 .. Len(p) /\ DOMAIN q = 1 .. Len(q)
      /\ DOMAIN (p \o q) = 1 .. (Len(p) + Len(q)) /\ i \in 1 .. (Len(p) + Len(q))
  OBVIOUS
<1>2. CASE i <= Len(p)
  BY <1>1, <1>2
<1>3. CASE i > Len(p)
  BY <1>1, <1>3
<1> QED
  BY <1>1, <1>2, <1>3

(* A completion's requests are put behind those of the buffer. *)
LEMMA RecvDataSettles ==
  ASSUME Types, Types', Once, RecvDataCqe
  PROVE  Settles
<1> DEFINE f == Head(cq).fd
           b == conns[f].buf
           e == Head(cq)
<1>1. /\ f \in Fds /\ conns' \in [Fds -> Conn] /\ \A h \in Fds : h # f => conns'[h] = conns[h]
      /\ conns'[f].inUse = conns[f].inUse /\ cq # <<>> /\ parked' = parked /\ pc = "batch"
      /\ \/ pc' = "hung" /\ UNCHANGED <<cq, taken, conns, back, frame>>
         \/ conns'[f].buf = b \o e.reqs /\ pc' = "drain" /\ cq' = Tail(cq) /\ UNCHANGED taken
  BY ZenonT(60), RecvDataCqeStep DEF Touches, CqeIs, Consume, kernelVars
<1>2. \A r, p, i, j : At(r, p, i, j)' =>
        /\ i \in Nat /\ j \in Nat
        /\ p \in {"client", "cq", "buf", "parked", "released"}
        /\ (p \in {"client", "parked", "released"} => i = 0 /\ j = 0)
  BY AtIsNext
<1>3. /\ \A h \in Fds : Skips(h) = 0 /\ Skips(h)' = 0
      /\ ~Serves'
  BY Zenon, <1>1 DEF Skips, Serves
<1>4. CASE pc' = "hung" /\ UNCHANGED <<cq, taken, conns, back, frame>>
  <2>1. ASSUME NEW r, NEW p, NEW i, NEW j, At(r, p, i, j)' PROVE At(r, p, i, j)
    <3>1. CASE p = "buf"
      BY <1>3, <1>4, <2>1, <3>1 DEF At, BufSlot
    <3>2. CASE p # "buf"
      BY <1>1, <1>3, <1>4, <2>1, <3>2 DEF At, Untaken, Parked, Released
    <3> QED
      BY <3>1, <3>2
  <2> QED
    BY <2>1 DEF Settles, Once, Fresh
<1>5. CASE conns'[f].buf = b \o e.reqs /\ pc' = "drain" /\ cq' = Tail(cq) /\ UNCHANGED taken
  <2>1. b \in Seq(Requests) /\ e \in Cqes /\ e.reqs \in Seq(Requests) /\ cq \in Seq(Cqes)
    <3>1. e \in Cqes
      BY ZenonT(60), <1>1, HeadCqe
    <3> QED
      BY ZenonT(60), <1>1, <3>1 DEF Types, WorkerTypes, KernelTypes, Conn, Cqes
  <2>2. /\ 1 \in DOMAIN cq /\ cq[1] = e
        /\ \A i \in DOMAIN Tail(cq) : i + 1 \in DOMAIN cq /\ Tail(cq)[i] = cq[i + 1]
    BY Zenon, <1>1, <2>1, SeqParts
  <2>3. ASSUME NEW j \in DOMAIN (b \o e.reqs)
        PROVE  \/ j \in DOMAIN b /\ j <= Len(b) /\ (b \o e.reqs)[j] = b[j]
               \/ j > Len(b) /\ j - Len(b) \in DOMAIN e.reqs /\ (b \o e.reqs)[j] = e.reqs[j - Len(b)]
    BY <2>1, JoinedAt
  <2>10. Len(b) \in Nat
    BY <2>1
  <2>4. ASSUME NEW r, NEW p, NEW i, NEW j, At(r, p, i, j)'
        PROVE  \/ p \in {"client", "parked"} /\ At(r, p, i, j)
               \/ p = "cq" /\ i >= 1 /\ At(r, "cq", i + 1, j)
               \/ p = "buf" /\ (i = f => j <= Len(b)) /\ At(r, "buf", i, j)
               \/ p = "buf" /\ i = f /\ j > Len(b) /\ At(r, "cq", 1, j - Len(b))
    <3>1. CASE p = "client"
      BY <1>5, <2>4, <3>1 DEF At, Untaken
    <3>2. CASE p = "cq"
      <4>1. i \in DOMAIN Tail(cq) /\ j \in DOMAIN Tail(cq)[i].reqs /\ Tail(cq)[i].reqs[j] = r
        BY <1>5, <2>4, <3>2 DEF At
      <4>2. i + 1 \in DOMAIN cq /\ Tail(cq)[i] = cq[i + 1]
        BY <2>2, <4>1
      <4>3. Tail(cq) \in Seq(Cqes)
        BY Zenon, <1>1, HeadCqe
      <4>4. i >= 1
        BY <4>1, <4>3
      <4> QED
        BY <3>2, <4>1, <4>2, <4>4 DEF At
    <3>3. CASE p = "buf"
      <4>1. i \in Fds /\ conns'[i].inUse /\ j \in DOMAIN conns'[i].buf /\ j > 0 /\ conns'[i].buf[j] = r
        BY <1>3, <2>4, <3>3 DEF At, BufSlot
      <4>2. CASE i # f
        BY Zenon, <1>1, <1>3, <3>3, <4>1, <4>2 DEF At, BufSlot
      <4>3. CASE i = f
        <5>1. j \in DOMAIN (b \o e.reqs) /\ (b \o e.reqs)[j] = r
          BY ZenonT(60), <1>5, <4>1, <4>3
        <5>2. CASE j \in DOMAIN b /\ j <= Len(b) /\ (b \o e.reqs)[j] = b[j]
          <6>1. BufSlot(f, j)
            BY Zenon, <1>1, <1>3, <4>1, <4>3, <5>2 DEF BufSlot
          <6> QED
            BY Zenon, <1>1, <3>3, <4>3, <5>1, <5>2, <6>1 DEF At
        <5>3. CASE j > Len(b) /\ j - Len(b) \in DOMAIN e.reqs /\ (b \o e.reqs)[j] = e.reqs[j - Len(b)]
          BY <2>2, <3>3, <4>3, <5>1, <5>3 DEF At
        <5> QED
          BY <2>3, <5>1, <5>2, <5>3
      <4> QED
        BY <4>2, <4>3
    <3>4. CASE p = "parked"
      BY Zenon, <1>1, <2>4, <3>4 DEF At, Parked
    <3>5. p # "released"
      BY <1>3, <2>4 DEF At, Released
    <3> QED
      BY <1>2, <2>4, <3>1, <3>2, <3>3, <3>4, <3>5
  <2> HIDE DEF f, b, e
  <2>5. ASSUME NEW r, NEW p, NEW i, NEW j, NEW q, NEW k, NEW l, At(r, p, i, j)', At(r, q, k, l)'
        PROVE  p = q /\ i = k /\ j = l
    <3>1. i \in Nat /\ j \in Nat /\ k \in Nat /\ l \in Nat
      BY <1>2, <2>5
    <3>2. \A a, c, m, n, s, t : At(r, a, m, n) /\ At(r, c, s, t) => a = c /\ m = s /\ n = t
      BY DEF Once
    <3>3. /\ \/ p \in {"client", "parked"} /\ At(r, p, i, j)
             \/ p = "cq" /\ i >= 1 /\ At(r, "cq", i + 1, j)
             \/ p = "buf" /\ (i = f => j <= Len(b)) /\ At(r, "buf", i, j)
             \/ p = "buf" /\ i = f /\ j > Len(b) /\ At(r, "cq", 1, j - Len(b))
          /\ \/ q \in {"client", "parked"} /\ At(r, q, k, l)
             \/ q = "cq" /\ k >= 1 /\ At(r, "cq", k + 1, l)
             \/ q = "buf" /\ (k = f => l <= Len(b)) /\ At(r, "buf", k, l)
             \/ q = "buf" /\ k = f /\ l > Len(b) /\ At(r, "cq", 1, l - Len(b))
      BY <2>4, <2>5
    <3>4. CASE p \in {"client", "parked"}
      BY <3>2, <3>3, <3>4
    <3>5. CASE p = "cq"
      BY <3>1, <3>2, <3>3, <3>5
    <3>6. CASE p = "buf"
      BY <2>10, <3>1, <3>2, <3>3, <3>6
    <3> QED
      BY <3>3, <3>4, <3>5, <3>6
  <2>6. ASSUME NEW r, Fresh(r)' PROVE Fresh(r)
    <3>1. PICK p, i, j : At(r, p, i, j)'
      BY <2>6 DEF Fresh
    <3> QED
      BY <2>4, <3>1 DEF Fresh
  <2>7. Once'
    BY <2>5 DEF Once
  <2> QED
    BY <2>6, <2>7 DEF Settles
<1> QED
  BY ZenonT(60), <1>1, <1>4, <1>5

LEMMA OnceStep == Types /\ Once /\ [Next]_vars => Settles
  BY TypesStep, OthersSettle, ParkSettles, RecvSettles, RecvDataSettles

(* A request that is answered was fresh, and is not any more. *)
LEMMA AnswerOnce ==
  ASSUME Types, Types', Once, Answers, NEW r, r = frame.req
  PROVE  Fresh(r) /\ ~Fresh(r)'
<1> DEFINE f == frame.fd
<1>1. /\ pc \in {"respond", "write", "simple"} /\ pc' = "responded" /\ frame'.fd = f
      /\ UNCHANGED <<cq, taken, parked, back>>
      /\ f \in Fds /\ conns[f].inUse
      /\ back = "release" \/ (conns[f].buf # <<>> /\ r = Head(conns[f].buf))
  <2>1. /\ pc \in {"respond", "write", "simple"} /\ pc' = "responded"
        /\ UNCHANGED <<cq, taken, parked, back>> /\ frame'.fd = f
    <3>1. CASE RespondAsync
      BY <3>1 DEF RespondAsync, kernelVars, callVars
    <3>2. CASE RespondWrite \/ SendSimple
      BY <3>2 DEF RespondWrite, SendSimple, kernelVars, callVars, Types, WorkerTypes
    <3> QED
      BY <3>1, <3>2 DEF Answers
  <2> QED
    BY <2>1 DEF Types, Framed, Serving
<1>2. \A h \in Fds : (conns'[h].inUse => conns[h].inUse) /\ conns'[h].buf = conns[h].buf
  <2>1. CASE RespondAsync
    BY <2>1, RespondAsyncStep
  <2>2. CASE RespondWrite \/ SendSimple
    BY <2>2 DEF RespondWrite, SendSimple
  <2> QED
    BY <2>1, <2>2 DEF Answers
<1>3. \A h \in Fds : Skips(h) = 0
  BY <1>1 DEF Skips
<1>4. \A h \in Fds : h = f /\ back # "release" => Skips(h)' = 1
  BY <1>1 DEF Skips
<1>5. \A q, i, j : At(r, q, i, j)' => i \in Nat /\ j \in Nat
  BY AtIsNext
<1>6. ASSUME NEW q, NEW i, NEW j, At(r, q, i, j)'
      PROVE  At(r, q, i, j) /\ q # "released" /\ (q = "buf" /\ i = f /\ back # "release" => j # 1)
  <2>1. q # "released"
    BY <1>1, <1>6 DEF At, Released, Serves
  <2>2. CASE q = "buf"
    <3>1. /\ i \in Fds /\ conns[i].inUse /\ j \in DOMAIN conns[i].buf /\ j > Skips(i)'
          /\ conns[i].buf[j] = r /\ j \in Nat
      BY <1>2, <1>5, <1>6, <2>2 DEF At, BufSlot
    <3>2. Skips(i)' \in {0, 1}
      BY DEF Skips
    <3>3. j > 0 /\ (i = f /\ back # "release" => j # 1)
      BY <1>4, <3>1, <3>2
    <3> QED
      BY <1>3, <2>2, <3>1, <3>3 DEF At, BufSlot
  <2>3. CASE q # "buf"
    BY <1>1, <1>6, <2>1, <2>3 DEF At, Untaken, Parked
  <2> QED
    BY <2>1, <2>2, <2>3
<1>7. PICK p, k, l : At(r, p, k, l) /\ (p = "released" \/ (p = "buf" /\ k = f /\ l = 1 /\ back # "release"))
  <2>1. CASE back = "release"
    <3>1. At(r, "released", 0, 0)
      BY <1>1, <2>1 DEF At, Released, Serves
    <3> QED
      BY <3>1
  <2>2. CASE back # "release"
    <3>1. conns[f].buf \in Seq(Requests)
      BY <1>1 DEF Types, WorkerTypes, Conn
    <3>2. 1 \in DOMAIN conns[f].buf /\ r = conns[f].buf[1]
      BY <1>1, <2>2, <3>1, SeqParts
    <3>3. At(r, "buf", f, 1)
      BY <1>1, <1>3, <3>2 DEF At, BufSlot
    <3> QED
      BY <2>2, <3>3
  <2> QED
    BY <2>1, <2>2
<1> HIDE DEF f
<1>8. ~Fresh(r)'
  <2> SUFFICES ASSUME NEW q, NEW i, NEW j, At(r, q, i, j)' PROVE FALSE
    BY DEF Fresh
  <2>1. At(r, q, i, j) /\ q # "released" /\ (q = "buf" /\ i = f /\ back # "release" => j # 1)
    BY <1>6
  <2>2. q = p /\ i = k /\ j = l
    BY <1>7, <2>1 DEF Once
  <2> QED
    BY <1>7, <2>1, <2>2
<1> QED
  BY <1>7, <1>8 DEF Fresh

LEMMA MalformedOnce ==
  ASSUME Types, Types', Once, DrainMalformed, NEW r, r = Head(conns[frame.fd].buf)
  PROVE  Fresh(r) /\ ~Fresh(r)'
<1> DEFINE f == frame.fd
<1>1. /\ f \in Fds /\ \A h \in Fds : h # f => conns'[h] = conns[h]
      /\ conns[f].inUse /\ conns[f].buf # <<>> /\ ~conns'[f].inUse
      /\ pc = "drain" /\ pc' \in {"recvTail", "ready"}
      /\ UNCHANGED <<cq, taken, parked>>
  BY DrainMalformedStep DEF Touches, DrainReturn, kernelVars
<1>2. \A h \in Fds : Skips(h) = 0 /\ Skips(h)' = 0
  BY <1>1 DEF Skips
<1>3. At(r, "buf", f, 1)
  <2>1. conns[f].buf \in Seq(Requests)
    BY <1>1 DEF Types, WorkerTypes, Conn
  <2>2. 1 \in DOMAIN conns[f].buf /\ r = conns[f].buf[1]
    BY <1>1, <2>1, SeqParts
  <2> QED
    BY <1>1, <1>2, <2>2 DEF At, BufSlot
<1>4. ASSUME NEW q, NEW i, NEW j, At(r, q, i, j)' PROVE At(r, q, i, j) /\ (q = "buf" => i # f)
  <2>1. q # "released"
    BY <1>1, <1>4 DEF At, Released, Serves
  <2>2. CASE q = "buf"
    BY <1>1, <1>2, <1>4, <2>2 DEF At, BufSlot
  <2>3. CASE q # "buf"
    BY <1>1, <1>4, <2>1, <2>3 DEF At, Untaken, Parked
  <2> QED
    BY <2>1, <2>2, <2>3
<1> HIDE DEF f
<1>5. ~Fresh(r)'
  <2> SUFFICES ASSUME NEW q, NEW i, NEW j, At(r, q, i, j)' PROVE FALSE
    BY DEF Fresh
  <2>1. At(r, q, i, j) /\ (q = "buf" => i # f)
    BY <1>4
  <2>2. q = "buf" /\ i = f
    BY <1>3, <2>1 DEF Once
  <2> QED
    BY <2>1, <2>2
<1> QED
  BY <1>3, <1>5 DEF Fresh

(* How much of tx_buf is sent: set with it, and by completions of SENDs *)
LEMMA TxSentKept ==
  ASSUME Types, [Next]_vars, NEW fd \in Fds, ~(RespondAsync /\ fd = frame.fd),
         ~(SendCqe /\ fd = Head(cq).fd)
  PROVE  conns'[fd].txSent = conns[fd].txSent
<1>1. CASE RespondAsync
  BY <1>1, RespondAsyncStep
<1>2. CASE DrainMalformed
  BY <1>2, DrainMalformedStep DEF Touches, KeepsTx
<1>3. CASE DrainPark
  BY <1>3, DrainParkStep DEF Touches, KeepsTx
<1>4. CASE Responded
  BY <1>4, RespondedStep DEF Touches, KeepsTx
<1>5. CASE AcceptCqe
  BY <1>5, AcceptCqeStep DEF Touches
<1>6. CASE SendCqe
  BY <1>6, SendCqeStep DEF Touches
<1>7. CASE RecvEndCqe
  BY <1>7, RecvEndCqeStep DEF Touches, KeepsTx
<1>8. CASE RecvDataCqe
  BY Zenon, <1>8, RecvDataCqeStep DEF Touches, KeepsTx
<1> QED
  BY <1>1, <1>2, <1>3, <1>4, <1>5, <1>6, <1>7, <1>8, ConnsKept

(* What is counted is there, and what is there is counted. *)
Nothing(fd) ==
  /\ PendingAt(fd) = 0 => \A e \in pending : e.fd # fd
  /\ SqSends(fd) = 0 => \A e \in ToSet(sq) : e.op = "send" => e.fd # fd
  /\ CqSends(fd) = 0 => \A e \in ToSet(cq) : e.op = "send" => e.fd # fd

LEMMA NothingHolds == \A fd \in Fds : Types /\ Finite => Nothing(fd)
<1> SUFFICES ASSUME NEW fd \in Fds, Types, Finite PROVE Nothing(fd)
  OBVIOUS
<1>1. sq \in Seq(Sqes) /\ cq \in Seq(Cqes)
  BY DEF Types, KernelTypes
<1>2. PendingAt(fd) = 0 => \A e \in pending : e.fd # fd
  <2>1. {e \in pending : e.fd = fd} \in SUBSET pending
    OBVIOUS
  <2>2. IsFiniteSet({e \in pending : e.fd = fd})
    BY <2>1, FS_Subset DEF Finite
  <2>3. PendingAt(fd) = 0 => {e \in pending : e.fd = fd} = {}
    BY <2>2, FS_EmptySet DEF PendingAt
  <2> QED
    BY <2>3
<1>3. SqSends(fd) = 0 => \A i \in DOMAIN sq : sq[i] \notin {e \in Sqes : e.op = "send" /\ e.fd = fd}
  BY <1>1, CountFinite DEF SqSends
<1>4. CqSends(fd) = 0 => \A i \in DOMAIN cq : cq[i] \notin {e \in Cqes : e.op = "send" /\ e.fd = fd}
  BY <1>1, CountFinite DEF CqSends
<1>5. (\A i \in DOMAIN sq : sq[i] \in Sqes) /\ (\A i \in DOMAIN cq : cq[i] \in Cqes)
  BY <1>1
<1> QED
  BY <1>2, <1>3, <1>4, <1>5 DEF Nothing, ToSet

LEMMA NothingHoldsNext == (\A fd \in Fds : Types /\ Finite => Nothing(fd))'
  BY NothingHolds, PTL

(* Nothing else moves a SEND. *)
Sending == RespondAsync \/ SendCqe \/ SubmitSend \/ PendingSend

LEMMA QueuesMove ==
  ASSUME Types, [Next]_vars, ~Sending
  PROVE  /\ pending' = pending
         /\ \/ sq' = sq
            \/ \E f \in Fds : sq' = Append(sq, [op |-> "recv", fd |-> f, from |-> 0])
            \/ sq # <<>> /\ sq' = Tail(sq) /\ Head(sq).op = "recv"
         /\ \/ cq' = cq
            \/ cq # <<>> /\ cq' = Tail(cq)
            \/ \E y \in Cqes : y.op # "send" /\ cq' = Append(cq, y)
<1>1. <<>> \in Seq(Requests)
  OBVIOUS
<1>2. CASE SubmitRecv
  <2>1. /\ sq # <<>> /\ sq' = Tail(sq) /\ Head(sq).op = "recv" /\ pending' = pending
        /\ Head(sq).fd \in Fds
        /\ cq' = cq \/ cq' = Append(cq, Cqe("recv", Head(sq).fd, <<>>, 0, FALSE))
    BY <1>2, HeadSqe DEF SubmitRecv
  <2>2. \A f \in Fds : Cqe("recv", f, <<>>, 0, FALSE) \in Cqes /\ Cqe("recv", f, <<>>, 0, FALSE).op # "send"
    BY <1>1 DEF Cqe, Cqes
  <2> QED
    BY <2>1, <2>2
<1>3. CASE AcceptCqe
  BY <1>3, AcceptCqeStep DEF CqeIs, Consume, Touches
<1>4. CASE RecvNoBufsCqe
  BY <1>4, HeadCqe DEF RecvNoBufsCqe, CqeIs, Consume, Prepare
<1>5. CASE RecvEndCqe
  BY <1>5 DEF RecvEndCqe, CqeIs, Consume
<1>6. CASE RecvDataCqe
  BY <1>6 DEF RecvDataCqe, CqeIs, Consume, kernelVars
<1>7. CASE RecvTail
  <2>1. frame.fd \in Fds
    BY <1>7 DEF RecvTail, Types, Framed
  <2> QED
    BY <1>7, <2>1 DEF RecvTail, Prepare, kernelVars
<1>8. CASE Recv
  <2>1. PICK e \in armed, more \in BOOLEAN, reqs \in Seq(Requests) :
          /\ cq' = Append(cq, Cqe("recv", e.fd, reqs, 0, more))
          /\ Cqe("recv", e.fd, reqs, 0, more) \in Cqes /\ pending' = pending
    BY <1>8, RecvStep
  <2>2. Cqe("recv", e.fd, reqs, 0, more).op # "send"
    BY DEF Cqe
  <2> QED
    BY <1>8, <2>1, <2>2 DEF Recv, workerVars
<1>9. CASE RecvEnd \/ RecvNoBufs
  <2>1. PICK e \in armed, op \in {"recv", "nobufs"} : cq' = Append(cq, Cqe(op, e.fd, <<>>, 0, FALSE))
    BY <1>9 DEF RecvEnd, RecvNoBufs
  <2>2. Cqe(op, e.fd, <<>>, 0, FALSE) \in Cqes /\ Cqe(op, e.fd, <<>>, 0, FALSE).op # "send"
    <3>1. e.fd \in Fds
      BY DEF Types, KernelTypes
    <3> QED
      BY <1>1, <3>1 DEF Cqe, Cqes
  <2> QED
    BY <1>9, <2>1, <2>2 DEF RecvEnd, RecvNoBufs, workerVars
<1>10. CASE Accepting
  <2>1. PICK f \in Fds : cq' = Append(cq, Cqe("accept", f, <<>>, 0, TRUE))
    BY <1>10 DEF Accepting, Accept
  <2>2. Cqe("accept", f, <<>>, 0, TRUE) \in Cqes /\ Cqe("accept", f, <<>>, 0, TRUE).op # "send"
    BY <1>1 DEF Cqe, Cqes
  <2> QED
    BY <1>10, <2>1, <2>2 DEF Accepting, Accept, workerVars
<1>11. Serve /\ ~RespondAsync => UNCHANGED <<pending, sq, cq>>
  BY DEF Serve, RespondInOrder, RespondWrite, SendSimple, DrainNothing, DrainMalformed, DrainWait,
     DrainPark, DrainDispatch, Responded, ReadyNext, ReadyDone, kernelVars
<1>12. Top \/ GpuRelease("top") \/ GpuRelease("batch") \/ EndBatch \/ Submitted \/ Wake \/ Clients \/ JobEnds
         \/ UNCHANGED vars => UNCHANGED <<pending, sq, cq>>
  BY DEF Top, GpuRelease, EndBatch, Submitted, Wake, Clients, Connect, Ask, Leave, JobEnds, kernelVars,
     workerVars, vars
<1> QED
  BY <1>2, <1>3, <1>4, <1>5, <1>6, <1>7, <1>8, <1>9, <1>10, <1>11, <1>12
     DEF Next, Loop, Kernel, Idle, Accepting, Sending

(* A SEND is prepared for an answer only. *)
LEMMA SendsShrink ==
  ASSUME Types, Types', Finite, Finite', [Next]_vars, NEW fd \in Fds, Sends(fd) <= 1,
         ~(RespondAsync /\ fd = frame.fd)
  PROVE  Sends(fd)' <= Sends(fd)
<1>1. Sums(fd) /\ Sums(fd)'
  BY SumsHold, SumsHoldNext
<1>2. /\ Sends(fd) = PendingAt(fd) + SqSends(fd) + CqSends(fd)
      /\ Sends(fd)' = PendingAt(fd)' + SqSends(fd)' + CqSends(fd)'
      /\ PendingAt(fd) \in Nat /\ SqSends(fd) \in Nat /\ CqSends(fd) \in Nat
      /\ PendingAt(fd)' \in Nat /\ SqSends(fd)' \in Nat /\ CqSends(fd)' \in Nat
  BY <1>1 DEF Sums
<1>3. /\ pending' = pending => PendingAt(fd)' = PendingAt(fd)
      /\ sq' = sq => SqSends(fd)' = SqSends(fd)
      /\ cq' = cq => CqSends(fd)' = CqSends(fd)
  BY DEF PendingAt, SqSends, CqSends
<1>4. cq # <<>> /\ cq' = Tail(cq) => CqSends(fd)' <= CqSends(fd)
  <2> SUFFICES ASSUME cq # <<>>, cq' = Tail(cq) PROVE CqSends(fd)' <= CqSends(fd)
    OBVIOUS
  <2>1. CqSends(fd)' = CqSends(fd) - (IF Head(cq).op = "send" /\ Head(cq).fd = fd THEN 1 ELSE 0)
    BY CqTaken
  <2> QED
    BY <1>2, <2>1
<1>5. ASSUME NEW f \in Fds, sq' = Append(sq, [op |-> "recv", fd |-> f, from |-> 0])
      PROVE  SqSends(fd)' = SqSends(fd)
  <2> DEFINE x == [op |-> "recv", fd |-> f, from |-> 0]
  <2>1. x \in Sqes /\ x.op = "recv"
    BY DEF Sqes
  <2>2. sq' = Append(sq, x)
    BY <1>5
  <2> HIDE DEF x
  <2>3. SqSends(fd)' = SqSends(fd) + (IF x.op = "send" /\ x.fd = fd THEN 1 ELSE 0)
    BY <2>1, <2>2, SqAppended
  <2> QED
    BY <1>2, <2>1, <2>3
<1>6. ASSUME NEW y \in Cqes, y.op # "send", cq' = Append(cq, y) PROVE CqSends(fd)' = CqSends(fd)
  <2>1. CqSends(fd)' = CqSends(fd) + (IF y.op = "send" /\ y.fd = fd THEN 1 ELSE 0)
    BY <1>6, CqAppended
  <2> QED
    BY <1>2, <1>6, <2>1
<1>7. CASE RespondAsync
  <2> DEFINE x == [op |-> "send", fd |-> frame.fd, from |-> 1]
  <2>1. sq' = Append(sq, x) /\ x \in Sqes /\ x.fd # fd /\ UNCHANGED <<pending, cq>>
    BY <1>7, RespondAsyncStep DEF RespondAsync, kernelVars, Sqes
  <2> HIDE DEF x
  <2>2. SqSends(fd)' = SqSends(fd) + (IF x.op = "send" /\ x.fd = fd THEN 1 ELSE 0)
    BY <2>1, SqAppended
  <2> QED
    BY <1>2, <1>3, <2>1, <2>2
<1>8. CASE SendCqe
  <2>1. /\ cq # <<>> /\ cq' = Tail(cq) /\ pending' = pending /\ Head(cq).op = "send"
        /\ Head(cq).fd \in Fds
    BY <1>8, HeadCqe, SendCqeStep DEF CqeIs, Consume
  <2>2. CASE sq' = sq
    BY <1>2, <1>3, <1>4, <2>1, <2>2
  <2>3. ASSUME NEW from, sq' = Append(sq, [op |-> "send", fd |-> Head(cq).fd, from |-> from]), from \in Nat
        PROVE  Sends(fd)' <= Sends(fd)
    <3> DEFINE x == [op |-> "send", fd |-> Head(cq).fd, from |-> from]
    <3>1. sq' = Append(sq, x) /\ x \in Sqes /\ x.fd = Head(cq).fd
      BY <2>1, <2>3 DEF Sqes
    <3> HIDE DEF x
    <3>2. SqSends(fd)' = SqSends(fd) + (IF x.op = "send" /\ x.fd = fd THEN 1 ELSE 0)
      BY <3>1, SqAppended
    <3>3. CqSends(fd)' = CqSends(fd) - (IF Head(cq).op = "send" /\ Head(cq).fd = fd THEN 1 ELSE 0)
      BY <2>1, CqTaken
    <3>4. CASE Head(cq).fd = fd
      <4>1. SqSends(fd)' <= SqSends(fd) + 1
        BY <1>2, <3>2
      <4>2. CqSends(fd)' = CqSends(fd) - 1
        BY <2>1, <3>3, <3>4
      <4> QED
        BY <1>2, <1>3, <2>1, <4>1, <4>2
    <3>5. CASE Head(cq).fd # fd
      <4>1. SqSends(fd)' = SqSends(fd)
        BY <1>2, <3>1, <3>2, <3>5
      <4>2. CqSends(fd)' = CqSends(fd)
        BY <1>2, <3>3, <3>5
      <4> QED
        BY <1>2, <1>3, <2>1, <4>1, <4>2
    <3> QED
      BY <3>4, <3>5
  <2>4. sq' = sq \/ \E from \in Nat : sq' = Append(sq, [op |-> "send", fd |-> Head(cq).fd, from |-> from])
    <3>1. conns[Head(cq).fd].txSent + Head(cq).n + 1 \in Nat
      <4>1. Head(cq) \in Cqes /\ conns[Head(cq).fd] \in Conn
        BY <2>1, HeadCqe
      <4>2. Head(cq).n \in Nat /\ conns[Head(cq).fd].txSent \in Nat
        BY <4>1 DEF Conn, Cqes
      <4> QED
        BY <4>2
    <3> QED
      BY <1>8, <3>1, SendCqeStep
  <2> QED
    BY <2>2, <2>3, <2>4
<1>9. CASE SubmitSend
  <2> DEFINE x == Head(sq)
  <2>1. /\ sq # <<>> /\ sq' = Tail(sq) /\ x.op = "send"
        /\ x.fd \in Fds /\ x.from \in Nat /\ owner[x.fd] \in Socks \cup {None}
    BY <1>9, HeadSqe DEF SubmitSend
  <2>2. SqSends(fd)' = SqSends(fd) - (IF x.op = "send" /\ x.fd = fd THEN 1 ELSE 0)
    BY <2>1, SqTaken
  <2>3. SqSends(fd)' = SqSends(fd) - (IF x.fd = fd THEN 1 ELSE 0)
    BY <1>2, <2>1, <2>2
  <2>4. ASSUME NEW n \in 0 .. Parts, SendExecutes(owner[x.fd], x.fd, x.from, n), UNCHANGED pending
        PROVE  Sends(fd)' <= Sends(fd)
    <3> DEFINE e == Cqe("send", x.fd, <<>>, n, FALSE)
    <3>1. n \in Nat
      BY UnitCounts
    <3>2. cq' = Append(cq, e) /\ e \in Cqes
      BY <2>1, <2>4, <3>1, SendExecutesStep
    <3>3. e.op = "send" /\ e.fd = x.fd
      BY DEF Cqe
    <3> HIDE DEF e
    <3>4. CqSends(fd)' = CqSends(fd) + (IF e.op = "send" /\ e.fd = fd THEN 1 ELSE 0)
      BY <3>2, CqAppended
    <3>5. CqSends(fd)' = CqSends(fd) + (IF x.fd = fd THEN 1 ELSE 0)
      BY <1>2, <3>3, <3>4
    <3> HIDE DEF x
    <3> QED
      BY <1>2, <1>3, <2>3, <2>4, <3>5
  <2>5. CASE /\ owner[x.fd] # None /\ UNCHANGED cq
             /\ pending' = pending \cup {[sock |-> owner[x.fd], fd |-> x.fd, from |-> x.from]}
    <3> DEFINE e == [sock |-> owner[x.fd], fd |-> x.fd, from |-> x.from]
    <3>1. pending' = pending \cup {e} /\ e.fd = x.fd
      BY <2>5
    <3> HIDE DEF e
    <3>2. /\ PendingAt(fd) = 0 => PendingAt(fd)' = IF e.fd = fd THEN 1 ELSE 0
          /\ e.fd # fd => PendingAt(fd)' = PendingAt(fd)
      BY <3>1, PendingAdded
    <3> HIDE DEF x
    <3>3. x.fd = fd => PendingAt(fd) = 0
      BY <1>2, <2>3
    <3>4. CASE x.fd = fd
      BY <1>2, <1>3, <2>3, <2>5, <3>1, <3>2, <3>3, <3>4
    <3>5. CASE x.fd # fd
      BY <1>2, <1>3, <2>3, <2>5, <3>1, <3>2, <3>5
    <3> QED
      BY <3>4, <3>5
  <2> QED
    BY <1>9, <2>4, <2>5 DEF SubmitSend
<1>10. CASE PendingSend
  <2>1. PICK e \in pending, n \in 0 .. Parts :
          SendExecutes(e.sock, e.fd, e.from, n) /\ pending' = pending \ {e}
    BY <1>10 DEF PendingSend
  <2>2. e.sock \in Socks /\ e.fd \in Fds /\ e.from \in Nat /\ n \in Nat
    BY UnitCounts DEF Types, KernelTypes
  <2>3. sq' = sq
    BY <1>10 DEF PendingSend, workerVars
  <2> DEFINE y == Cqe("send", e.fd, <<>>, n, FALSE)
  <2>4. cq' = Append(cq, y) /\ y \in Cqes
    BY <2>1, <2>2, SendExecutesStep
  <2>5. y.op = "send" /\ y.fd = e.fd
    BY DEF Cqe
  <2> HIDE DEF y
  <2>6. CqSends(fd)' = CqSends(fd) + (IF y.op = "send" /\ y.fd = fd THEN 1 ELSE 0)
    BY <2>4, CqAppended
  <2>7. PendingAt(fd)' = PendingAt(fd) - (IF e.fd = fd THEN 1 ELSE 0)
    BY <2>1, PendingRemoved
  <2>8. CASE e.fd = fd
    BY <1>2, <1>3, <2>3, <2>5, <2>6, <2>7, <2>8
  <2>9. CASE e.fd # fd
    BY <1>2, <1>3, <2>3, <2>5, <2>6, <2>7, <2>9
  <2> QED
    BY <2>8, <2>9
<1>11. CASE ~Sending
  <2>1. SqSends(fd)' = SqSends(fd)
    <3>1. CASE sq # <<>> /\ sq' = Tail(sq) /\ Head(sq).op = "recv"
      <4>1. SqSends(fd)' = SqSends(fd) - (IF Head(sq).op = "send" /\ Head(sq).fd = fd THEN 1 ELSE 0)
        BY <3>1, SqTaken
      <4> QED
        BY <1>2, <3>1, <4>1
    <3> QED
      BY <1>3, <1>5, <1>11, <3>1, QueuesMove
  <2>2. CqSends(fd)' <= CqSends(fd)
    BY <1>2, <1>3, <1>4, <1>6, <1>11, QueuesMove
  <2> QED
    BY <1>2, <1>3, <1>11, <2>1, <2>2, QueuesMove
<1> QED
  BY <1>7, <1>8, <1>9, <1>10, <1>11 DEF Sending

----------------------------------------------------------------------------
(* How far each request is answered on the wire                            *)

(* The request a unit answers, and how far it was answered *)
ReqOf(u) == [sock |-> u.sock, n |-> u.n]
Upto(r, k) == \A s \in Socks : \A i \in DOMAIN wire[s] : ReqOf(wire[s][i]) = r => wire[s][i].part < k

(* A step puts units of r on a wire, before k. *)
Adds(r, k) ==
  \A s \in Socks : \A i \in DOMAIN wire'[s] :
    \/ i \in DOMAIN wire[s] /\ wire'[s][i] = wire[s][i]
    \/ ReqOf(wire'[s][i]) = r /\ wire'[s][i].part < k

LEMMA DeliveredOnce ==
  ASSUME WireInv, NoDuplicates, NEW s \in Socks, NEW r \in Requests, NEW from \in Nat, NEW to \in Int,
         to - from + 1 \in Nat, Upto(r, from), wire' = Delivered(s, Units(r, from, to))
  PROVE  NoDuplicates' /\ Adds(r, to + 1)
<1> DEFINE u == Units(r, from, to)
           m == to - from + 1
<1>1. /\ u \in Seq(Parcels) /\ DOMAIN u = 1 .. m
      /\ \A i \in 1 .. m : u[i] = [sock |-> r.sock, n |-> r.n, part |-> from + i - 1]
  BY UnitsAre DEF Units
<1>2. /\ r = [sock |-> r.sock, n |-> r.n] /\ m \in Nat
  BY DEF Requests
<1>3. \A i \in DOMAIN u : ReqOf(u[i]) = r /\ u[i].part < to + 1 /\ u[i].part >= from
  BY <1>1, <1>2 DEF ReqOf
<1>4. \A i, j \in DOMAIN u : u[i] = u[j] => i = j
  BY <1>1, <1>2
<1>5. wire \in [Socks -> Seq(Parcels)] /\ wire[s] \in Seq(Parcels)
  BY DEF WireInv
<1>6. wire' = Delivered(s, u)
  OBVIOUS
<1> HIDE DEF u, m
<1>7. /\ \A t \in Socks : t # s => wire'[t] = wire[t]
      /\ wire'[s] = wire[s] \/ wire'[s] = wire[s] \o u
  BY <1>5, <1>6 DEF Delivered
<1> DEFINE p == wire[s]
<1>8. /\ p \in Seq(Parcels)
      /\ \A i, j \in DOMAIN p : p[i] = p[j] => i = j
      /\ \A i \in DOMAIN p : ReqOf(p[i]) = r => p[i].part < from
      /\ \A i \in DOMAIN p : p[i].part \in Nat
  <2>1. \A i, j \in DOMAIN p : p[i] = p[j] => i = j
    BY DEF NoDuplicates, IsInjective
  <2>2. \A i \in DOMAIN p : ReqOf(p[i]) = r => p[i].part < from
    BY DEF Upto
  <2>3. \A i \in DOMAIN p : p[i] \in Parcels
    BY <1>5
  <2> QED
    BY <1>5, <2>1, <2>2, <2>3 DEF Parcels
<1> HIDE DEF p
<1>9. Len(p) \in Nat
  BY <1>8
<1>10. ASSUME NEW i \in DOMAIN (p \o u)
       PROVE  \/ i \in DOMAIN p /\ i <= Len(p) /\ (p \o u)[i] = p[i]
              \/ i > Len(p) /\ i - Len(p) \in DOMAIN u /\ (p \o u)[i] = u[i - Len(p)]
  BY <1>1, <1>8, JoinedAt
<1>11. ASSUME NEW i \in DOMAIN (p \o u), NEW j \in DOMAIN (p \o u), (p \o u)[i] = (p \o u)[j] PROVE i = j
  <2>1. i \in Int /\ j \in Int
    BY <1>1, <1>8
  <2>2. CASE i \in DOMAIN p /\ i <= Len(p) /\ (p \o u)[i] = p[i]
    <3>1. CASE j \in DOMAIN p /\ j <= Len(p) /\ (p \o u)[j] = p[j]
      BY <1>8, <1>11, <2>2, <3>1
    <3>2. CASE j > Len(p) /\ j - Len(p) \in DOMAIN u /\ (p \o u)[j] = u[j - Len(p)]
      <4>1. ReqOf(p[i]) = r /\ p[i].part >= from
        BY <1>3, <1>11, <2>2, <3>2
      <4> QED
        BY <1>8, <2>2, <4>1
    <3> QED
      BY <1>10, <3>1, <3>2
  <2>3. CASE i > Len(p) /\ i - Len(p) \in DOMAIN u /\ (p \o u)[i] = u[i - Len(p)]
    <3>1. CASE j \in DOMAIN p /\ j <= Len(p) /\ (p \o u)[j] = p[j]
      <4>1. ReqOf(p[j]) = r /\ p[j].part >= from
        BY <1>3, <1>11, <2>3, <3>1
      <4> QED
        BY <1>8, <3>1, <4>1
    <3>2. CASE j > Len(p) /\ j - Len(p) \in DOMAIN u /\ (p \o u)[j] = u[j - Len(p)]
      <4>1. i - Len(p) = j - Len(p)
        BY <1>4, <1>11, <2>3, <3>2
      <4> QED
        BY <1>9, <2>1, <4>1
    <3> QED
      BY <1>10, <3>1, <3>2
  <2> QED
    BY <1>10, <2>2, <2>3
<1>12. ASSUME NEW t \in Socks PROVE IsInjective(wire'[t])
  <2>1. CASE wire'[t] = wire[t]
    BY <2>1 DEF NoDuplicates
  <2>2. CASE wire'[t] = p \o u
    BY <1>11, <2>2 DEF IsInjective
  <2> QED
    BY <1>7, <2>1, <2>2 DEF p
<1>13. ASSUME NEW t \in Socks, NEW i \in DOMAIN wire'[t]
       PROVE  \/ i \in DOMAIN wire[t] /\ wire'[t][i] = wire[t][i]
              \/ ReqOf(wire'[t][i]) = r /\ wire'[t][i].part < to + 1
  <2>1. CASE wire'[t] = wire[t]
    BY <1>13, <2>1
  <2>2. CASE t = s /\ wire'[t] = p \o u
    <3>1. i \in DOMAIN (p \o u)
      BY <1>13, <2>2
    <3>2. CASE i \in DOMAIN p /\ (p \o u)[i] = p[i]
      BY <2>2, <3>2 DEF p
    <3>3. CASE i - Len(p) \in DOMAIN u /\ (p \o u)[i] = u[i - Len(p)]
      BY <1>3, <2>2, <3>3
    <3> QED
      BY <1>10, <3>1, <3>2, <3>3
  <2> QED
    BY <1>7, <2>1, <2>2 DEF p
<1> QED
  BY <1>12, <1>13 DEF NoDuplicates, Adds

(* What else was sent stays where it was. *)
LEMMA UptoKept ==
  ASSUME NEW r, NEW q, NEW k, NEW m, Adds(q, m), Upto(r, k), r # q
  PROVE  Upto(r, k)'
<1> SUFFICES ASSUME NEW s \in Socks, NEW i \in DOMAIN wire'[s], ReqOf(wire'[s][i]) = r
             PROVE  wire'[s][i].part < k
  BY DEF Upto
<1>1. i \in DOMAIN wire[s] /\ wire'[s][i] = wire[s][i]
  BY DEF Adds
<1> QED
  BY <1>1 DEF Upto

LEMMA UptoGrows ==
  ASSUME WireInv, NEW r, NEW k \in Int, NEW m \in Int, Adds(r, m), Upto(r, k), k <= m
  PROVE  Upto(r, m)'
<1> SUFFICES ASSUME NEW s \in Socks, NEW i \in DOMAIN wire'[s], ReqOf(wire'[s][i]) = r
             PROVE  wire'[s][i].part < m
  BY DEF Upto
<1>1. CASE i \in DOMAIN wire[s] /\ wire'[s][i] = wire[s][i]
  <2>1. wire[s] \in Seq(Parcels) /\ wire[s][i] \in Parcels
    BY <1>1 DEF WireInv
  <2>2. wire[s][i].part \in Nat
    BY <2>1 DEF Parcels
  <2>3. wire[s][i].part < k
    BY <1>1 DEF Upto
  <2> QED
    BY <1>1, <2>2, <2>3
<1>2. CASE wire'[s][i].part < m
  BY <1>2
<1> QED
  BY <1>1, <1>2 DEF Adds

LEMMA AddsNothing ==
  ASSUME NoDuplicates, wire' = wire
  PROVE  /\ NoDuplicates'
         /\ \A r, k : Adds(r, k) /\ (Upto(r, k) => Upto(r, k)')
  BY DEF Adds, Upto, NoDuplicates

(* What is on a wire answers no fresh request; neither does tx_buf while a *)
(* SEND reads it, and no two connections answer the same one.              *)
WireOld == \A s \in Socks : \A i \in DOMAIN wire[s] : ~Fresh(ReqOf(wire[s][i]))
TxOld == \A fd \in Fds : Sends(fd) # 0 => conns[fd].tx \in Requests /\ ~Fresh(conns[fd].tx)
TxApart ==
  \A f, g \in Fds : Sends(f) # 0 /\ Sends(g) # 0 /\ conns[f].tx = conns[g].tx => f = g
OneSend == \A fd \in Fds : Sends(fd) <= 1

(* A SEND starts after what was sent; what it sent is not on the wire yet, *)
(* and once it completed, what follows is not.                             *)
Left(fd) ==
  /\ \A e \in pending : e.fd = fd =>
       e.from = conns[fd].txSent + 1 /\ Upto(conns[fd].tx, e.from)
  /\ \A e \in ToSet(sq) : e.op = "send" /\ e.fd = fd =>
       e.from = conns[fd].txSent + 1 /\ Upto(conns[fd].tx, e.from)
  /\ \A e \in ToSet(cq) : e.op = "send" /\ e.fd = fd =>
       Upto(conns[fd].tx, conns[fd].txSent + e.n + 1)

OnceInv ==
  /\ RefsInv /\ WireInv /\ Once /\ OneSend /\ WireOld /\ TxOld /\ TxApart
  /\ \A fd \in Fds : Left(fd)
  /\ NoDuplicates

LEMMA FreshUpto ==
  ASSUME WireOld, NEW r, Fresh(r), NEW k
  PROVE  Upto(r, k)
  BY DEF WireOld, Upto

LEMMA WireOldKept ==
  ASSUME WireOld, Settles, NEW r, NEW k, Adds(r, k), ~Fresh(r)'
  PROVE  WireOld'
<1> SUFFICES ASSUME NEW s \in Socks, NEW i \in DOMAIN wire'[s], NEW q, q = ReqOf(wire'[s][i])
             PROVE  ~Fresh(q)'
  BY DEF WireOld, ReqOf
<1>1. CASE i \in DOMAIN wire[s] /\ wire'[s][i] = wire[s][i]
  <2>1. q = ReqOf(wire[s][i])
    BY <1>1 DEF ReqOf
  <2> QED
    BY <1>1, <2>1 DEF WireOld, Settles
<1>2. CASE ReqOf(wire'[s][i]) = r
  BY <1>2
<1> QED
  BY <1>1, <1>2 DEF Adds

LEMMA WrittenOnce ==
  ASSUME Types, WireInv, NoDuplicates, NEW fd \in Fds, NEW r \in Requests, NEW ok \in WriteOutcomes(fd),
         Written(fd, r, ok), Upto(r, 1)
  PROVE  NoDuplicates' /\ Adds(r, Parts + 1)
<1>1. CASE ~ok
  BY <1>1, AddsNothing DEF Written
<1>2. CASE ok
  <2>1. owner[fd] # None /\ owner[fd] \in Socks
    BY <1>2 DEF WriteOutcomes, MaySucceed, Types, KernelTypes
  <2>2. PICK s \in Socks, to \in Nat : s = owner[fd] /\ to = Parts
    BY <2>1, UnitCounts
  <2>3. wire' = Delivered(s, Units(r, 1, to)) /\ to - 1 + 1 \in Nat
    BY <1>2, <2>2 DEF Written
  <2>4. NoDuplicates' /\ Adds(r, to + 1)
    BY <2>3, DeliveredOnce
  <2> QED
    BY <2>2, <2>4
<1> QED
  BY <1>1, <1>2

LEMMA ExecutedOnce ==
  ASSUME Types, WireInv, NoDuplicates, NEW s \in Socks \cup {None}, NEW fd \in Fds, NEW from \in Nat,
         NEW n \in 0 .. Parts, SendExecutes(s, fd, from, n), NEW r \in Requests, r = conns[fd].tx,
         Upto(r, from)
  PROVE  NoDuplicates' /\ Adds(r, from + n)
<1>1. CASE n = 0
  BY <1>1, AddsNothing DEF SendExecutes
<1>2. CASE n # 0
  <2>1. s \in Socks
    BY <1>2 DEF SendExecutes, MaySucceed
  <2>2. n \in Nat /\ (from + n - 1) - from + 1 \in Nat /\ from + n - 1 \in Int
        /\ (from + n - 1) + 1 = from + n
    BY UnitCounts
  <2>3. wire' = Delivered(s, Units(r, from, from + n - 1))
    BY <1>2 DEF SendExecutes
  <2>4. PICK to \in Int : to = from + n - 1
    BY <2>2
  <2>5. NoDuplicates' /\ Adds(r, to + 1)
    BY <2>1, <2>2, <2>3, <2>4, DeliveredOnce
  <2> QED
    BY <2>2, <2>4, <2>5
<1> QED
  BY <1>1, <1>2

----------------------------------------------------------------------------
(* What the SENDs put on the wire *)

(* A SEND runs: what it puts on the wire, and what it leaves in the queues *)
Ran(fd, r, k) ==
  /\ Sends(fd) # 0 /\ r = conns[fd].tx /\ UNCHANGED conns
  /\ NoDuplicates' /\ Adds(r, k) /\ Left(fd)'
  /\ \A e \in pending' : e \in pending \/ e.fd = fd
  /\ \A e \in ToSet(sq') : e \in ToSet(sq)
  /\ \A e \in ToSet(cq') : e \in ToSet(cq) \/ e.fd = fd

LEMMA SubmitRuns ==
  ASSUME OnceInv, Finite', SubmitSend, Types'
  PROVE  \E fd \in Fds, r \in Requests, k \in Nat : Ran(fd, r, k)
<1>1. Types /\ Finite /\ Finite' /\ WireInv /\ NoDuplicates
  BY DEF OnceInv, RefsInv, CountInv, TableInv
<1>2. PICK x \in Sqes : x = Head(sq)
  BY <1>1, HeadSqe DEF SubmitSend
<1>3. PICK fd \in Fds, from \in Nat, s \in Socks \cup {None} : fd = x.fd /\ from = x.from /\ s = owner[fd]
  BY <1>1, <1>2, HeadSqe DEF SubmitSend
<1>4. /\ sq # <<>> /\ sq' = Tail(sq) /\ x.op = "send" /\ UNCHANGED conns
      /\ \/ (\E n \in 0 .. Parts : SendExecutes(s, fd, from, n)) /\ UNCHANGED pending
         \/ pending' = pending \cup {[sock |-> s, fd |-> fd, from |-> from]} /\ UNCHANGED <<wire, cq>>
  BY <1>2, <1>3 DEF SubmitSend
<1>5. sq \in Seq(Sqes) /\ cq \in Seq(Cqes) /\ ToSet(sq) = ToSet(Tail(sq)) \cup {x}
  BY <1>1, <1>2, <1>4, ToSetTail DEF Types, KernelTypes
<1>6. /\ SqSends(fd) = 1 /\ SqSends(fd)' = 0 /\ PendingAt(fd) = 0 /\ CqSends(fd) = 0 /\ Sends(fd) # 0
  <2>1. Sums(fd)
    BY <1>1, SumsHold
  <2>2. /\ SqSends(fd)' = SqSends(fd) - (IF x.op = "send" /\ x.fd = fd THEN 1 ELSE 0)
        /\ SqSends(fd)' \in Nat
    BY <1>1, <1>2, <1>4, SqTaken
  <2>3. SqSends(fd)' = SqSends(fd) - 1
    BY <1>3, <1>4, <2>2
  <2>4. Sends(fd) <= 1
    BY DEF OnceInv, OneSend
  <2>5. /\ Sends(fd) = PendingAt(fd) + SqSends(fd) + CqSends(fd)
        /\ PendingAt(fd) \in Nat /\ SqSends(fd) \in Nat /\ CqSends(fd) \in Nat
    BY <2>1 DEF Sums
  <2> QED
    BY <2>2, <2>3, <2>4, <2>5
<1>7. /\ \A e \in pending : e.fd # fd
      /\ \A e \in ToSet(cq) : e.op = "send" => e.fd # fd
      /\ \A e \in ToSet(sq') : e.op = "send" => e.fd # fd
  <2>1. Nothing(fd)
    BY <1>1, NothingHolds
  <2>2. Nothing(fd)'
    BY <1>1, NothingHoldsNext
  <2> QED
    BY <1>6, <2>1, <2>2 DEF Nothing
<1>8. PICK r \in Requests : r = conns[fd].tx
  BY <1>6 DEF OnceInv, TxOld
<1>9. conns[fd].txSent \in Nat /\ from = conns[fd].txSent + 1 /\ Upto(r, from)
  <2>1. x \in ToSet(sq) /\ Left(fd)
    BY <1>5 DEF OnceInv
  <2>2. conns[fd].txSent \in Nat
    BY <1>1 DEF Types, WorkerTypes, Conn
  <2> QED
    BY <1>3, <1>4, <1>8, <2>1, <2>2 DEF Left
<1>10. \A e \in ToSet(sq') : e \in ToSet(sq)
  BY <1>4, <1>5
<1>11. ASSUME NEW n \in 0 .. Parts, SendExecutes(s, fd, from, n), UNCHANGED pending
       PROVE  \E k \in Nat : Ran(fd, r, k)
  <2>1. NoDuplicates' /\ Adds(r, from + n)
    BY <1>1, <1>8, <1>9, <1>11, ExecutedOnce
  <2>2. n \in Nat
    BY <1>1, UnitCounts
  <2>3. Upto(r, from + n)'
    BY <1>1, <1>9, <2>1, <2>2, UptoGrows
  <2>4. PICK y \in Cqes : y = Cqe("send", fd, <<>>, n, FALSE) /\ cq' = Append(cq, y)
    BY <1>1, <1>11, <2>2, SendExecutesStep
  <2>5. ToSet(cq') = ToSet(cq) \cup {y} /\ y.fd = fd /\ y.n = n
    BY <1>5, <2>4, ToSetAppend DEF Cqe
  <2>6. conns'[fd].tx = r /\ conns'[fd].txSent + n + 1 = from + n
    BY <1>4, <1>8, <1>9, <2>2
  <2>7. \A e \in ToSet(cq') : e.op = "send" /\ e.fd = fd => e.n = n
    BY <1>7, <2>5
  <2>8. Left(fd)'
    BY <1>7, <1>11, <2>3, <2>6, <2>7 DEF Left
  <2>9. from + n \in Nat
    BY <2>2
  <2> QED
    BY <1>4, <1>6, <1>8, <1>10, <1>11, <2>1, <2>5, <2>8, <2>9 DEF Ran
<1>12. ASSUME pending' = pending \cup {[sock |-> s, fd |-> fd, from |-> from]}, UNCHANGED <<wire, cq>>
       PROVE  Ran(fd, r, 0)
  <2>1. NoDuplicates' /\ Adds(r, 0) /\ Upto(r, from)'
    BY <1>1, <1>9, <1>12, AddsNothing
  <2>2. conns'[fd].tx = r /\ from = conns'[fd].txSent + 1
    BY <1>4, <1>8, <1>9
  <2>3. \A e \in pending' : e \in pending \/ (e.fd = fd /\ e.from = from)
    BY <1>12
  <2>4. Left(fd)'
    BY <1>7, <1>12, <2>1, <2>2, <2>3 DEF Left
  <2> QED
    BY <1>4, <1>6, <1>8, <1>10, <1>12, <2>1, <2>3, <2>4 DEF Ran
<1> QED
  BY <1>4, <1>11, <1>12

LEMMA PendingRuns ==
  ASSUME OnceInv, Finite', PendingSend, Types'
  PROVE  \E fd \in Fds, r \in Requests, k \in Nat : Ran(fd, r, k)
<1>1. Types /\ Finite /\ Finite' /\ WireInv /\ NoDuplicates
  BY DEF OnceInv, RefsInv, CountInv, TableInv
<1>2. PICK x \in pending, n \in 0 .. Parts :
        SendExecutes(x.sock, x.fd, x.from, n) /\ pending' = pending \ {x}
  BY DEF PendingSend
<1>3. PICK fd \in Fds, from \in Nat, s \in Socks : fd = x.fd /\ from = x.from /\ s = x.sock
  BY <1>1 DEF Types, KernelTypes
<1>4. SendExecutes(s, fd, from, n) /\ UNCHANGED <<sq, conns>> /\ n \in Nat
  BY <1>1, <1>2, <1>3, UnitCounts DEF PendingSend, workerVars
<1>5. PICK y \in Cqes : y = Cqe("send", fd, <<>>, n, FALSE) /\ cq' = Append(cq, y)
  BY <1>1, <1>4, SendExecutesStep
<1>6. ToSet(cq') = ToSet(cq) \cup {y} /\ y.fd = fd /\ y.n = n
  <2>1. cq \in Seq(Cqes)
    BY <1>1 DEF Types, KernelTypes
  <2> QED
    BY <1>5, <2>1, ToSetAppend DEF Cqe
<1>7. PendingAt(fd)' = 0 /\ SqSends(fd) = 0 /\ CqSends(fd) = 0 /\ Sends(fd) # 0
  <2>1. Sums(fd)
    BY <1>1, SumsHold
  <2>2. PendingAt(fd)' = PendingAt(fd) - (IF x.fd = fd THEN 1 ELSE 0) /\ PendingAt(fd)' \in Nat
    BY <1>1, <1>2, PendingRemoved
  <2>3. PendingAt(fd)' = PendingAt(fd) - 1 /\ PendingAt(fd)' \in Nat
    BY <1>3, <2>2
  <2>4. Sends(fd) <= 1
    BY DEF OnceInv, OneSend
  <2>5. /\ Sends(fd) = PendingAt(fd) + SqSends(fd) + CqSends(fd)
        /\ PendingAt(fd) \in Nat /\ SqSends(fd) \in Nat /\ CqSends(fd) \in Nat
    BY <2>1 DEF Sums
  <2> QED
    BY <2>3, <2>4, <2>5
<1>8. /\ \A e \in pending' : e.fd # fd
      /\ \A e \in ToSet(cq) : e.op = "send" => e.fd # fd
      /\ \A e \in ToSet(sq) : e.op = "send" => e.fd # fd
  <2>1. Nothing(fd)
    BY <1>1, NothingHolds
  <2>2. Nothing(fd)'
    BY <1>1, NothingHoldsNext
  <2> QED
    BY <1>7, <2>1, <2>2 DEF Nothing
<1>9. PICK r \in Requests : r = conns[fd].tx
  BY <1>7 DEF OnceInv, TxOld
<1>10. conns[fd].txSent \in Nat /\ from = conns[fd].txSent + 1 /\ Upto(r, from)
  <2>1. Left(fd)
    BY DEF OnceInv
  <2>2. conns[fd].txSent \in Nat
    BY <1>1 DEF Types, WorkerTypes, Conn
  <2> QED
    BY <1>3, <1>9, <2>1, <2>2 DEF Left
<1>11. NoDuplicates' /\ Adds(r, from + n) /\ from + n \in Nat
  BY <1>1, <1>4, <1>9, <1>10, ExecutedOnce
<1>12. Upto(r, from + n)'
  BY <1>1, <1>4, <1>10, <1>11, UptoGrows
<1>13. conns'[fd].tx = r /\ conns'[fd].txSent + n + 1 = from + n
  BY <1>4, <1>9, <1>10
<1>14. \A e \in ToSet(cq') : e.op = "send" /\ e.fd = fd => e.n = n
  BY <1>6, <1>8
<1>15. Left(fd)'
  BY <1>4, <1>8, <1>12, <1>13, <1>14 DEF Left
<1>16. \A e \in pending' : e \in pending
  BY <1>2
<1> QED
  BY <1>4, <1>6, <1>7, <1>9, <1>11, <1>15, <1>16 DEF Ran

(* The other writes answer a request that was fresh. *)
LEMMA AnswerWrites ==
  ASSUME OnceInv, Types', RespondWrite \/ SendSimple \/ DrainMalformed
  PROVE  \E r \in Requests, k \in Int : Fresh(r) /\ ~Fresh(r)' /\ NoDuplicates' /\ Adds(r, k)
<1>1. Types /\ WireInv /\ NoDuplicates /\ Once /\ WireOld
  BY DEF OnceInv, RefsInv, CountInv, TableInv
<1>2. PICK fd \in Fds : fd = frame.fd
  <2>1. Serving \/ pc = "drain"
    BY DEF RespondWrite, SendSimple, DrainMalformed, DrainHead, Serving
  <2> QED
    BY <1>1, <2>1 DEF Types, Framed
<1>3. ASSUME NEW r \in Requests, Fresh(r), ~Fresh(r)', NEW ok \in WriteOutcomes(fd), Written(fd, r, ok)
      PROVE  \E k \in Int : Fresh(r) /\ ~Fresh(r)' /\ NoDuplicates' /\ Adds(r, k)
  <2>1. Upto(r, 1)
    BY <1>1, <1>3, FreshUpto
  <2>2. NoDuplicates' /\ Adds(r, Parts + 1)
    BY <1>1, <1>3, <2>1, WrittenOnce
  <2>3. Parts + 1 \in Int
    BY <1>1, UnitCounts
  <2> QED
    BY <1>3, <2>2, <2>3
<1>4. CASE RespondWrite \/ SendSimple
  <2>1. PICK r \in Requests : r = frame.req
    BY <1>1, <1>4 DEF RespondWrite, SendSimple, Serving, Types, Framed
  <2>2. Fresh(r) /\ ~Fresh(r)'
    BY <1>1, <1>4, <2>1, AnswerOnce DEF Answers
  <2>3. PICK ok \in WriteOutcomes(fd) : Written(fd, r, ok)
    BY <1>2, <1>4, <2>1 DEF RespondWrite, SendSimple
  <2> QED
    BY <1>3, <2>2, <2>3
<1>5. CASE DrainMalformed
  <2>1. conns[fd].buf \in Seq(Requests) /\ conns[fd].buf # <<>>
    BY <1>1, <1>2, <1>5, DrainMalformedStep DEF Types, WorkerTypes, Conn
  <2>2. PICK r \in Requests : r = Head(conns[fd].buf)
    BY <2>1
  <2>3. Fresh(r) /\ ~Fresh(r)'
    BY <1>1, <1>2, <1>5, <2>2, MalformedOnce
  <2>4. PICK ok \in WriteOutcomes(fd) : Written(fd, r, ok)
    BY <1>2, <1>5, <2>2 DEF DrainMalformed
  <2> QED
    BY <1>3, <2>3, <2>4
<1> QED
  BY <1>4, <1>5

(* A connection keeps what it has left if no SEND of it comes or ends. *)
LEMMA LeftKept ==
  ASSUME NEW fd \in Fds, NEW t, Left(fd), t = conns[fd].tx, t = conns'[fd].tx,
         conns'[fd].txSent = conns[fd].txSent, \A k : Upto(t, k) => Upto(t, k)',
         \A e \in pending' : e.fd = fd => e \in pending,
         \A e \in ToSet(sq') : e.op = "send" /\ e.fd = fd => e \in ToSet(sq),
         \A e \in ToSet(cq') : e.op = "send" /\ e.fd = fd => e \in ToSet(cq)
  PROVE  Left(fd)'
<1>1. ASSUME NEW e \in pending', e.fd = fd PROVE e.from = conns'[fd].txSent + 1 /\ Upto(t, e.from)'
  BY <1>1 DEF Left
<1>2. ASSUME NEW e \in ToSet(sq'), e.op = "send", e.fd = fd
      PROVE  e.from = conns'[fd].txSent + 1 /\ Upto(t, e.from)'
  BY <1>2 DEF Left
<1>3. ASSUME NEW e \in ToSet(cq'), e.op = "send", e.fd = fd, NEW k, k = conns'[fd].txSent + e.n + 1
      PROVE  Upto(t, k)'
  <2>1. Upto(t, k)
    BY <1>3 DEF Left
  <2> QED
    BY <2>1
<1> QED
  BY <1>1, <1>2, <1>3 DEF Left

LEMMA OneSendStep ==
  ASSUME OnceInv, RefsInv', [Next]_vars
  PROVE  OneSend' /\ \A fd \in Fds : Sends(fd)' # 0 => Sends(fd) # 0 \/ (RespondAsync /\ fd = frame.fd)
<1>1. Types /\ Types' /\ Finite /\ Finite'
  BY DEF OnceInv, RefsInv, CountInv, TableInv
<1> SUFFICES ASSUME NEW fd \in Fds
             PROVE  /\ Sends(fd)' <= 1
                    /\ Sends(fd)' # 0 => Sends(fd) # 0 \/ (RespondAsync /\ fd = frame.fd)
  BY DEF OneSend
<1>2. Sends(fd) \in Nat /\ Sends(fd)' \in Nat
  <2>1. Sums(fd) /\ Sums(fd)'
    BY <1>1, SumsHold, SumsHoldNext
  <2>2. Sends(fd) \in Nat
    BY <2>1 DEF Sums
  <2>3. /\ Sends(fd)' = PendingAt(fd)' + SqSends(fd)' + CqSends(fd)'
        /\ PendingAt(fd)' \in Nat /\ SqSends(fd)' \in Nat /\ CqSends(fd)' \in Nat
    BY <2>1 DEF Sums
  <2> QED
    BY <2>2, <2>3
<1>3. CASE RespondAsync /\ fd = frame.fd
  <2>1. conns'[fd].inUse
    BY <1>1, <1>3, RespondAsyncStep
  <2>2. TableAt(fd)' /\ CountAt(fd)'
    BY DEF RefsInv, CountInv, TableInv
  <2>3. owner'[fd] # None
    BY <2>1, <2>2 DEF TableAt
  <2>4. Sends(fd)' = IF conns'[fd].inUse /\ conns'[fd].txFlight THEN 1 ELSE 0
    BY <2>2, <2>3 DEF CountAt
  <2> QED
    BY <1>3, <2>4
<1>4. CASE ~(RespondAsync /\ fd = frame.fd)
  <2>1. Sends(fd) <= 1
    BY DEF OnceInv, OneSend
  <2>2. Sends(fd)' <= Sends(fd)
    BY <1>1, <1>4, <2>1, SendsShrink
  <2> QED
    BY <1>2, <2>1, <2>2
<1> QED
  BY <1>3, <1>4

LEMMA TxStep ==
  ASSUME OnceInv, RefsInv', [Next]_vars
  PROVE  TxOld' /\ TxApart'
<1>1. Types /\ Types' /\ Once
  BY DEF OnceInv, RefsInv, CountInv, TableInv
<1>2. Settles
  BY <1>1, OnceStep
<1>3. ASSUME NEW fd \in Fds, Sends(fd)' # 0, ~(RespondAsync /\ fd = frame.fd), NEW r, r = conns'[fd].tx
      PROVE  Sends(fd) # 0 /\ r = conns[fd].tx /\ r \in Requests /\ ~Fresh(r) /\ ~Fresh(r)'
  <2>1. Sends(fd) # 0
    BY <1>3, OneSendStep
  <2>2. r = conns[fd].tx
    BY <1>1, <1>3, TxKept
  <2> QED
    BY <1>2, <2>1, <2>2 DEF OnceInv, TxOld, Settles
<1>4. ASSUME NEW fd \in Fds, RespondAsync, fd = frame.fd, NEW r, r = conns'[fd].tx
      PROVE  r \in Requests /\ Fresh(r) /\ ~Fresh(r)'
  <2>1. r = frame.req /\ r \in Requests
    BY <1>1, <1>4, RespondAsyncStep
  <2> QED
    BY <1>1, <1>4, <2>1, AnswerOnce DEF Answers
<1>5. TxOld'
  <2> SUFFICES ASSUME NEW fd \in Fds, Sends(fd)' # 0, NEW r, r = conns'[fd].tx
               PROVE  r \in Requests /\ ~Fresh(r)'
    BY DEF TxOld
  <2> QED
    BY <1>3, <1>4
<1>6. TxApart'
  <2> SUFFICES ASSUME NEW f \in Fds, NEW g \in Fds, Sends(f)' # 0, Sends(g)' # 0,
                      conns'[f].tx = conns'[g].tx
               PROVE  f = g
    BY DEF TxApart
  <2>1. PICK r : r = conns'[f].tx /\ r = conns'[g].tx
    OBVIOUS
  <2>2. CASE ~(RespondAsync /\ f = frame.fd) /\ ~(RespondAsync /\ g = frame.fd)
    <3>1. /\ Sends(f) # 0 /\ r = conns[f].tx
          /\ Sends(g) # 0 /\ r = conns[g].tx
      BY <1>3, <2>1, <2>2
    <3> QED
      BY <3>1 DEF OnceInv, TxApart
  <2>3. CASE RespondAsync /\ f = frame.fd
    BY <1>3, <1>4, <2>1, <2>3
  <2>4. CASE RespondAsync /\ g = frame.fd
    BY <1>3, <1>4, <2>1, <2>4
  <2> QED
    BY <2>2, <2>3, <2>4
<1> QED
  BY <1>5, <1>6

(* Steps that write *)
LEMMA WritesOnce ==
  ASSUME OnceInv, RefsInv', [Next]_vars
  PROVE  /\ NoDuplicates' /\ WireOld'
         /\ \/ wire' = wire /\ ~SubmitSend /\ ~PendingSend
            \/ \E r \in Requests, k \in Int :
                 /\ Fresh(r) /\ Adds(r, k)
                 /\ RespondWrite \/ SendSimple \/ DrainMalformed
            \/ (SubmitSend \/ PendingSend) /\ \E fd \in Fds, r \in Requests, k \in Nat : Ran(fd, r, k)
<1>1. Types /\ Types' /\ Finite' /\ Once /\ WireOld /\ NoDuplicates
  BY DEF OnceInv, RefsInv, CountInv, TableInv
<1>2. Settles
  BY <1>1, OnceStep
<1>3. CASE RespondWrite \/ SendSimple \/ DrainMalformed
  <2>1. PICK r \in Requests, k \in Int : Fresh(r) /\ ~Fresh(r)' /\ NoDuplicates' /\ Adds(r, k)
    BY <1>1, <1>3, AnswerWrites
  <2>2. WireOld'
    BY <1>1, <1>2, <2>1, WireOldKept
  <2> QED
    BY <1>3, <2>1, <2>2
<1>4. CASE SubmitSend \/ PendingSend
  <2>1. PICK fd \in Fds, r \in Requests, k \in Nat : Ran(fd, r, k)
    BY <1>1, <1>4, SubmitRuns, PendingRuns
  <2>2. Sends(fd) # 0 /\ r = conns[fd].tx /\ NoDuplicates' /\ Adds(r, k)
    BY <2>1 DEF Ran
  <2>3. ~Fresh(r)
    BY <2>2 DEF OnceInv, TxOld
  <2>4. ~Fresh(r)'
    BY <1>2, <2>3 DEF Settles
  <2>5. WireOld'
    BY <1>1, <1>2, <2>2, <2>4, WireOldKept
  <2> QED
    BY <1>4, <2>1, <2>2, <2>5
<1>5. CASE ~RespondWrite /\ ~SendSimple /\ ~DrainMalformed /\ ~SubmitSend /\ ~PendingSend
  <2>1. wire' = wire
    BY <1>1, <1>5, WireKept
  <2>2. NoDuplicates'
    BY <1>1, <2>1, AddsNothing
  <2>3. WireOld'
    <3> SUFFICES ASSUME NEW s \in Socks, NEW i \in DOMAIN wire'[s], NEW q, q = ReqOf(wire'[s][i])
                 PROVE  ~Fresh(q)'
      BY DEF WireOld, ReqOf
    <3>1. i \in DOMAIN wire[s] /\ q = ReqOf(wire[s][i])
      BY <2>1 DEF ReqOf
    <3> QED
      BY <1>1, <1>2, <3>1 DEF WireOld, Settles
  <2> QED
    BY <1>5, <2>1, <2>2, <2>3
<1> QED
  BY <1>3, <1>4, <1>5

(* Where nothing is sent, nothing is left. *)
LEMMA LeftNothing ==
  ASSUME Types', Finite', NEW fd \in Fds, Sends(fd)' = 0
  PROVE  Left(fd)'
<1>1. Sums(fd)' /\ Nothing(fd)'
  BY SumsHoldNext, NothingHoldsNext
<1>2. PendingAt(fd)' = 0 /\ SqSends(fd)' = 0 /\ CqSends(fd)' = 0
  <2>1. /\ Sends(fd)' = PendingAt(fd)' + SqSends(fd)' + CqSends(fd)'
        /\ PendingAt(fd)' \in Nat /\ SqSends(fd)' \in Nat /\ CqSends(fd)' \in Nat
    BY <1>1 DEF Sums
  <2> QED
    BY <2>1
<1>3. /\ \A e \in pending' : e.fd # fd
      /\ \A e \in ToSet(sq') : e.op = "send" => e.fd # fd
      /\ \A e \in ToSet(cq') : e.op = "send" => e.fd # fd
  BY <1>1, <1>2 DEF Nothing
<1> QED
  BY <1>3 DEF Left

(* A response is queued. *)
LEMMA LeftQueued ==
  ASSUME OnceInv, RespondAsync, Types', NEW fd \in Fds, fd = frame.fd
  PROVE  Left(fd)'
<1>1. Types /\ Finite /\ Once /\ WireOld /\ NoDuplicates /\ TableAt(fd) /\ CountAt(fd)
  BY DEF OnceInv, RefsInv, CountInv, TableInv
<1>2. /\ conns[fd].inUse /\ ~conns[fd].txFlight
      /\ conns'[fd].tx = frame.req /\ conns'[fd].txSent = 0
      /\ sq' = Append(sq, [op |-> "send", fd |-> fd, from |-> 1])
      /\ UNCHANGED <<wire, pending, cq>>
  BY <1>1, RespondAsyncStep DEF RespondAsync, kernelVars
<1>3. Sends(fd) = 0
  BY <1>1, <1>2 DEF TableAt, CountAt
<1>4. Nothing(fd) /\ PendingAt(fd) = 0 /\ SqSends(fd) = 0 /\ CqSends(fd) = 0
  <2>1. Sums(fd) /\ Nothing(fd)
    BY <1>1, SumsHold, NothingHolds
  <2> QED
    BY <1>3, <2>1 DEF Sums
<1>5. sq \in Seq(Sqes)
  BY <1>1 DEF Types, KernelTypes
<1>6. \A e \in ToSet(sq') : e.op = "send" /\ e.fd = fd => e.from = 1
  <2>1. ToSet(sq') = ToSet(sq) \cup {[op |-> "send", fd |-> fd, from |-> 1]}
    BY <1>2, <1>5, ToSetAppend
  <2> QED
    BY <1>4, <2>1 DEF Nothing
<1>7. PICK r : r = frame.req
  OBVIOUS
<1>8. Upto(r, 1)'
  <2>1. Fresh(r)
    BY <1>1, <1>7, AnswerOnce DEF Answers
  <2>2. Upto(r, 1)
    BY <1>1, <2>1, FreshUpto
  <2> QED
    BY <1>1, <1>2, <2>2, AddsNothing
<1>9. conns'[fd].tx = r /\ conns'[fd].txSent + 1 = 1
  BY <1>2, <1>7
<1>10. (\A e \in pending' : e.fd # fd) /\ \A e \in ToSet(cq') : e.op = "send" => e.fd # fd
  BY <1>2, <1>4 DEF Nothing
<1> QED
  BY <1>6, <1>8, <1>9, <1>10 DEF Left

(* The rest of a response is queued. *)
LEMMA LeftRequeued ==
  ASSUME OnceInv, SendCqe, Types', NEW fd \in Fds, fd = Head(cq).fd, Sends(fd)' # 0, Finite'
  PROVE  Left(fd)'
<1>1. Types /\ Finite /\ NoDuplicates /\ Left(fd) /\ Sends(fd) <= 1
  BY DEF OnceInv, RefsInv, CountInv, TableInv, OneSend
<1>2. PICK x \in Cqes : x = Head(cq) /\ x.op = "send" /\ cq # <<>> /\ cq' = Tail(cq)
                        /\ UNCHANGED <<pending, wire>>
  BY <1>1, HeadCqe DEF SendCqe, CqeIs, Consume
<1>3. cq \in Seq(Cqes) /\ sq \in Seq(Sqes) /\ x.n \in Nat /\ conns[fd].txSent \in Nat
  BY <1>1 DEF Types, KernelTypes, WorkerTypes, Conn, Cqes
<1>4. PendingAt(fd) = 0 /\ SqSends(fd) = 0 /\ CqSends(fd)' = 0
  <2>1. Sums(fd)
    BY <1>1, SumsHold
  <2>2. /\ CqSends(fd)' = CqSends(fd) - (IF Head(cq).op = "send" /\ Head(cq).fd = fd THEN 1 ELSE 0)
        /\ CqSends(fd)' \in Nat
    BY <1>1, <1>2, CqTaken
  <2>3. CqSends(fd)' = CqSends(fd) - 1 /\ CqSends(fd)' \in Nat
    BY <1>2, <2>2
  <2>4. /\ Sends(fd) = PendingAt(fd) + SqSends(fd) + CqSends(fd)
        /\ PendingAt(fd) \in Nat /\ SqSends(fd) \in Nat /\ CqSends(fd) \in Nat
    BY <2>1 DEF Sums
  <2> QED
    BY <1>1, <2>3, <2>4
<1>5. Nothing(fd) /\ Nothing(fd)'
  BY <1>1, NothingHolds, NothingHoldsNext
<1>6. /\ \A e \in pending' : e.fd # fd
      /\ \A e \in ToSet(sq) : e.op = "send" => e.fd # fd
      /\ \A e \in ToSet(cq') : e.op = "send" => e.fd # fd
  BY <1>2, <1>4, <1>5 DEF Nothing
<1>7. CASE UNCHANGED sq
  BY <1>6, <1>7 DEF Left
<1>8. CASE ~(UNCHANGED sq)
  <2>1. /\ conns'[fd].tx = conns[fd].tx /\ conns'[fd].txSent = conns[fd].txSent + x.n
        /\ sq' = Append(sq, [op |-> "send", fd |-> fd, from |-> conns[fd].txSent + x.n + 1])
    BY <1>1, <1>2, <1>8, SendCqeStep
  <2>2. PICK from, r : from = conns[fd].txSent + x.n + 1 /\ r = conns[fd].tx
    OBVIOUS
  <2>3. Upto(r, from)
    <3>1. x \in ToSet(cq)
      BY <1>2, <1>3, HeadIn
    <3> QED
      BY <1>1, <1>2, <2>2, <3>1 DEF Left
  <2>4. Upto(r, from)'
    BY <1>1, <1>2, <2>3, AddsNothing
  <2>5. \A e \in ToSet(sq') : e.op = "send" /\ e.fd = fd => e.from = from
    <3>1. ToSet(sq') = ToSet(sq) \cup {[op |-> "send", fd |-> fd, from |-> from]}
      BY <1>3, <2>1, <2>2, ToSetAppend
    <3> QED
      BY <1>6, <3>1
  <2>6. conns'[fd].tx = r /\ from = conns'[fd].txSent + 1
    BY <1>3, <2>1, <2>2
  <2> QED
    BY <1>6, <2>4, <2>5, <2>6 DEF Left
<1> QED
  BY <1>7, <1>8

(* Everything else leaves the SENDs of a connection alone. *)
LEMMA LeftAlone ==
  ASSUME OnceInv, [Next]_vars, NEW fd \in Fds, ~SubmitSend, ~PendingSend,
         ~(RespondAsync /\ fd = frame.fd), ~(SendCqe /\ fd = Head(cq).fd),
         NEW t, t = conns[fd].tx, \A k : Upto(t, k) => Upto(t, k)'
  PROVE  Left(fd)'
<1>1. Types /\ Left(fd)
  BY DEF OnceInv, RefsInv, CountInv, TableInv
<1>3. t = conns'[fd].tx /\ conns'[fd].txSent = conns[fd].txSent
  BY <1>1, TxKept, TxSentKept
<1>5. sq \in Seq(Sqes) /\ cq \in Seq(Cqes)
  BY <1>1 DEF Types, KernelTypes
<1>6. /\ \A e \in pending' : e.fd = fd => e \in pending
      /\ \A e \in ToSet(sq') : e.op = "send" /\ e.fd = fd => e \in ToSet(sq)
      /\ \A e \in ToSet(cq') : e.op = "send" /\ e.fd = fd => e \in ToSet(cq)
  <2>1. CASE RespondAsync
    <3>1. PICK x : x.fd # fd /\ sq' = Append(sq, x) /\ UNCHANGED <<pending, cq>>
      BY <1>1, <2>1, RespondAsyncStep DEF RespondAsync, kernelVars
    <3>2. ToSet(sq') = ToSet(sq) \cup {x}
      BY <1>5, <3>1, ToSetAppend
    <3> QED
      BY <3>1, <3>2
  <2>2. CASE SendCqe
    <3>1. Head(cq).fd # fd /\ cq # <<>> /\ cq' = Tail(cq) /\ UNCHANGED pending
      BY <2>2 DEF SendCqe, CqeIs, Consume
    <3>2. ToSet(cq) = ToSet(cq') \cup {Head(cq)}
      BY <1>5, <3>1, ToSetTail
    <3>3. sq' = sq \/ \E x : x.fd # fd /\ sq' = Append(sq, x)
      BY <1>1, <2>2, <3>1, SendCqeStep
    <3>4. CASE sq' = sq
      BY <3>1, <3>2, <3>4
    <3>5. ASSUME NEW x, x.fd # fd, sq' = Append(sq, x)
          PROVE  \A e \in ToSet(sq') : e.fd = fd => e \in ToSet(sq)
      <4>1. ToSet(sq') = ToSet(sq) \cup {x}
        BY <1>5, <3>5, ToSetAppend
      <4> QED
        BY <3>5, <4>1
    <3> QED
      BY <3>1, <3>2, <3>3, <3>4, <3>5
  <2>3. CASE ~Sending
    <3>1. pending' = pending
      BY <1>1, <2>3, QueuesMove
    <3>2. \A e \in ToSet(sq') : e.op = "send" => e \in ToSet(sq)
      <4>1. CASE sq' = sq
        BY <4>1
      <4>2. ASSUME NEW f \in Fds, sq' = Append(sq, [op |-> "recv", fd |-> f, from |-> 0])
            PROVE  \A e \in ToSet(sq') : e.op = "send" => e \in ToSet(sq)
        <5>1. ToSet(sq') = ToSet(sq) \cup {[op |-> "recv", fd |-> f, from |-> 0]}
          BY <1>5, <4>2, ToSetAppend
        <5> QED
          BY <5>1
      <4>3. CASE sq # <<>> /\ sq' = Tail(sq)
        BY <1>5, <4>3, ToSetTail
      <4> QED
        BY <1>1, <2>3, <4>1, <4>2, <4>3, QueuesMove
    <3>3. \A e \in ToSet(cq') : e.op = "send" => e \in ToSet(cq)
      <4>1. CASE cq' = cq
        BY <4>1
      <4>2. ASSUME NEW y \in Cqes, y.op # "send", cq' = Append(cq, y)
            PROVE  \A e \in ToSet(cq') : e.op = "send" => e \in ToSet(cq)
        <5>1. ToSet(cq') = ToSet(cq) \cup {y}
          BY <1>5, <4>2, ToSetAppend
        <5> QED
          BY <4>2, <5>1
      <4>3. CASE cq # <<>> /\ cq' = Tail(cq)
        BY <1>5, <4>3, ToSetTail
      <4> QED
        BY <1>1, <2>3, <4>1, <4>2, <4>3, QueuesMove
    <3> QED
      BY <3>1, <3>2, <3>3
  <2> QED
    BY <2>1, <2>2, <2>3 DEF Sending
<1> QED
  BY <1>1, <1>3, <1>6, LeftKept

LEMMA LeftStep ==
  ASSUME OnceInv, RefsInv', [Next]_vars, NEW fd \in Fds
  PROVE  Left(fd)'
<1>1. Types /\ Types' /\ Finite' /\ Left(fd) /\ NoDuplicates
  BY DEF OnceInv, RefsInv, CountInv, TableInv
<1>2. CASE Sends(fd)' = 0
  BY <1>1, <1>2, LeftNothing
<1>3. CASE RespondAsync /\ fd = frame.fd
  BY <1>1, <1>3, LeftQueued
<1>4. CASE SendCqe /\ fd = Head(cq).fd /\ Sends(fd)' # 0
  BY <1>1, <1>4, LeftRequeued
<1>5. CASE /\ Sends(fd)' # 0 /\ ~(RespondAsync /\ fd = frame.fd)
           /\ ~(SendCqe /\ fd = Head(cq).fd)
  <2>1. PICK t : t = conns[fd].tx
    OBVIOUS
  <2>2. Sends(fd) # 0 /\ ~Fresh(t)
    BY <1>5, <2>1, OneSendStep DEF OnceInv, TxOld
  <2>3. CASE wire' = wire /\ ~SubmitSend /\ ~PendingSend
    <3>1. \A k : Upto(t, k) => Upto(t, k)'
      BY <1>1, <2>3, AddsNothing
    <3> QED
      BY <1>5, <2>1, <2>2, <2>3, <3>1, LeftAlone
  <2>4. ASSUME NEW r \in Requests, NEW k \in Int, Fresh(r), Adds(r, k), RespondWrite \/ SendSimple \/ DrainMalformed
        PROVE  Left(fd)'
    <3>1. t # r
      BY <2>2, <2>4
    <3>2. \A i : Upto(t, i) => Upto(t, i)'
      BY <2>4, <3>1, UptoKept
    <3>3. ~SubmitSend /\ ~PendingSend
      BY <1>1, <2>4 DEF SubmitSend, PendingSend, RespondWrite, SendSimple, DrainMalformed, DrainHead
    <3> QED
      BY <1>5, <2>1, <2>2, <3>2, <3>3, LeftAlone
  <2>5. ASSUME NEW f \in Fds, NEW r \in Requests, NEW k \in Nat, Ran(f, r, k)
        PROVE  Left(fd)'
    <3>1. CASE f = fd
      BY <2>5, <3>1 DEF Ran
    <3>2. CASE f # fd
      <4>1. /\ Sends(f) # 0 /\ r = conns[f].tx /\ UNCHANGED conns /\ Adds(r, k)
            /\ \A e \in pending' : e \in pending \/ e.fd = f
            /\ \A e \in ToSet(sq') : e \in ToSet(sq)
            /\ \A e \in ToSet(cq') : e \in ToSet(cq) \/ e.fd = f
        BY <2>5 DEF Ran
      <4>2. t # r
        BY <2>1, <2>2, <3>2, <4>1 DEF OnceInv, TxApart
      <4>3. \A i : Upto(t, i) => Upto(t, i)'
        BY <4>1, <4>2, UptoKept
      <4> QED
        BY <1>1, <2>1, <3>2, <4>1, <4>3, LeftKept
    <3> QED
      BY <3>1, <3>2
  <2> QED
    BY <2>3, <2>4, <2>5, WritesOnce
<1> QED
  BY <1>2, <1>3, <1>4, <1>5

LEMMA OnceInvStep == OnceInv /\ [Next]_vars /\ QuietReuse => OnceInv'
<1> SUFFICES ASSUME OnceInv, [Next]_vars, QuietReuse PROVE OnceInv'
  OBVIOUS
<1>1. RefsInv /\ WireInv /\ Types /\ Once
  BY DEF OnceInv, RefsInv, CountInv, TableInv
<1>2. RefsInv' /\ WireInv'
  BY <1>1, RefsStep, WireStep
<1>3. Once'
  BY <1>1, OnceStep DEF Settles
<1>4. OneSend' /\ TxOld' /\ TxApart' /\ NoDuplicates' /\ WireOld'
  BY <1>2, OneSendStep, TxStep, WritesOnce
<1>5. \A fd \in Fds : Left(fd)'
  BY <1>2, LeftStep
<1> QED
  BY <1>2, <1>3, <1>4, <1>5 DEF OnceInv

LEMMA OnceInit == Init => OnceInv
<1> SUFFICES ASSUME Init PROVE OnceInv
  OBVIOUS
<1>1. RefsInv /\ WireInv /\ Types /\ Finite
  BY RefsInit, WireInit DEF RefsInv, CountInv, TableInv
<1>2. /\ wire = [s \in Socks |-> <<>>] /\ pending = {} /\ sq = <<>> /\ cq = <<>> /\ parked = None
      /\ pc = "top" /\ \A fd \in Fds : ~conns[fd].inUse
  BY DEF Init, NoConn
<1>3. ToSet(sq) = {} /\ ToSet(cq) = {} /\ DOMAIN cq = {} /\ DOMAIN sq = {}
  BY <1>2 DEF ToSet
<1>4. \A r, p, i, j : At(r, p, i, j) => p = "client" /\ i = 0 /\ j = 0
  BY <1>2, <1>3 DEF At, BufSlot, Parked, Released, Serves
<1>5. Once
  BY <1>4 DEF Once
<1>6. \A fd \in Fds : Sends(fd) = 0 /\ Left(fd)
  <2> SUFFICES ASSUME NEW fd \in Fds PROVE Sends(fd) = 0 /\ Left(fd)
    OBVIOUS
  <2>1. Sends(fd) = 0
    <3>1. /\ {e \in pending : e.fd = fd} = {}
          /\ {i \in DOMAIN sq : sq[i].op = "send" /\ sq[i].fd = fd} = {}
          /\ {i \in DOMAIN cq : cq[i].op = "send" /\ cq[i].fd = fd} = {}
      BY <1>2, <1>3
    <3>2. /\ Cardinality({e \in pending : e.fd = fd}) = 0
          /\ Cardinality({i \in DOMAIN sq : sq[i].op = "send" /\ sq[i].fd = fd}) = 0
          /\ Cardinality({i \in DOMAIN cq : cq[i].op = "send" /\ cq[i].fd = fd}) = 0
      BY <3>1, FS_EmptySet
    <3> QED
      BY <3>2 DEF Sends
  <2> QED
    BY <1>2, <1>3, <2>1 DEF Left
<1>7. OneSend /\ TxOld /\ TxApart
  BY <1>6 DEF OneSend, TxOld, TxApart
<1>8. \A s \in Socks : wire[s] = <<>> /\ DOMAIN <<>> = {}
  BY <1>2
<1>9. WireOld /\ NoDuplicates
  BY <1>8 DEF WireOld, NoDuplicates, IsInjective
<1> QED
  BY <1>1, <1>5, <1>6, <1>7, <1>9 DEF OnceInv

(* No unit of a response reaches a client twice.  A request is taken from  *)
(* its buffer, or from where it is parked, as it is answered; a SEND that  *)
(* was cut short goes on after what it sent, and no other SEND, writev or  *)
(* completion repeats it.                                                  *)
THEOREM NothingSentTwice == ASSUME QuietReuse PROVE Spec => []NoDuplicates
<1>1. Init => OnceInv
  BY OnceInit
<1>2. OnceInv /\ [Next]_vars => OnceInv'
  BY OnceInvStep
<1>3. OnceInv => NoDuplicates
  BY DEF OnceInv
<1> QED
  BY <1>1, <1>2, <1>3, PTL DEF Spec
=============================================================================
