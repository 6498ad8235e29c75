----------------------------- MODULE HttpStream -----------------------------
(***************************************************************************)
(* From bytes to requests: how rt_http_drain_conn cuts what a connection   *)
(* received into requests (internal/runtime/c/http.go), whatever the sizes *)
(* in which it arrives.  The search for the end of the headers goes on     *)
(* where the last one stopped (header_scan_start), the rest of the buffer  *)
(* moves to its front after each request, and draining stops for a body    *)
(* that is incomplete or behind a parked GPU request.                      *)
(*                                                                         *)
(* A byte is "C" (\r), "L" (\n), one that starts a line and stands for     *)
(* what the line says, or "x".  The wire's other side (answers, SENDs,     *)
(* descriptors) is HttpWorker.                                             *)
(***************************************************************************)
EXTENDS Integers, Sequences, FiniteSets

CONSTANTS
  Streams,        \* what a client may send on a connection
  Clients,        \* connections that use the table entry in turn (bound)
  MaxHeaderBytes  \* RT_HTTP_MAX_HEADER_BYTES

RequestLine == {
  "G",   \* HTTP/1.1, a plain route
  "g",   \* HTTP/1.0: the connection is closed after the answer
  "P"}   \* HTTP/1.1, a route flagged uses_gpu whose handler parks
HeaderLine == {
  "h",   \* a header without a meaning here
  "K",   \* Connection: close
  "T",   \* Transfer-Encoding
  "2", "4",  \* Content-Length: 2, 4
  "9"}   \* Content-Length beyond RT_HTTP_MAX_BODY_BYTES
Lengths == {"2", "4", "9"}
Bytes == RequestLine \cup HeaderLine \cup {"C", "L", "x"}

ASSUME StreamAssumption ==
  /\ Streams \subseteq Seq(Bytes)
  /\ Clients \in Nat
  /\ MaxHeaderBytes \in Nat

VARIABLES
  stream, got,  \* what the client sends, and how much of it was received
  buf,          \* the first len bytes of c->buffer
  scan,         \* c->header_scan_start
  conn,         \* "open", "closing" (close_after_tx), "closed"
  spc,          \* "idle", or "drain": rt_http_drain_conn runs
  gpuBusy,      \* a request is parked on this worker, from here or elsewhere
  inReady,      \* c->in_ready_queue
  clients,      \* connections accepted so far
  cut,          \* how much of the stream left the buffer (history)
  served,       \* the requests dispatched, by offsets in the stream (history)
  refusal       \* the status a refused request was answered with, or 0 (history)

streamVars == <<stream, got, buf, scan, conn, spc, gpuBusy, inReady, clients, cut, served, refusal>>

----------------------------------------------------------------------------
(* Whether headers end with the byte e of s, and where the first do that   *)
(* start after from                                                        *)
EndsAt(s, e) == s[e - 3] = "C" /\ s[e - 2] = "L" /\ s[e - 1] = "C" /\ s[e] = "L"

Ends(s, from) == {e \in (from + 4) .. Len(s) : EndsAt(s, e)}

FirstEnd(s, from) == CHOOSE e \in Ends(s, from) : \A f \in Ends(s, from) : e <= f

(* rt_http_find_header_end steps back over what may be half of an end *)
From(start) == IF start > 3 THEN start - 3 ELSE start

(* rt_http_parse_request_headers, of the bytes h: what starts each line,   *)
(* and when the request is bad                                             *)
Starts(h) == {i \in 3 .. (Len(h) - 2) : h[i - 2] = "C" /\ h[i - 1] = "L"}

WellFormed(h) ==
  /\ h[1] \in RequestLine
  /\ \A i \in 1 .. (Len(h) - 1) : h[i] = "C" => h[i + 1] = "L"
  /\ \A i \in Starts(h) : h[i] \in HeaderLine \ {"T"}
  /\ \A i, j \in Starts(h) : h[i] \in Lengths /\ h[j] \in Lengths => i = j

ContentLength(h) ==
  IF \E i \in Starts(h) : h[i] = "2" THEN 2
  ELSE IF \E i \in Starts(h) : h[i] = "4" THEN 4 ELSE 0

TooLarge(h) == \E i \in Starts(h) : h[i] = "9"

CloseAfter(h) == h[1] = "g" \/ \E i \in Starts(h) : h[i] = "K"

----------------------------------------------------------------------------
(* rt_http_drain_conn, one turn of its loop in each action *)

HeaderEnds == spc = "drain" /\ Ends(buf, From(scan)) # {}

(* The bytes of the headers at the front of the buffer, when they end *)
HeaderLen == FirstEnd(buf, From(scan))
Header == SubSeq(buf, 1, HeaderLen)
Flagged == Header[1] = "P"

Refuse(status) ==
  /\ refusal' = status
  /\ conn' = "closed"
  /\ buf' = <<>>
  /\ spc' = "idle"
  /\ UNCHANGED <<stream, got, scan, gpuBusy, inReady, clients, cut, served>>

DrainMore ==
  /\ spc = "drain"
  /\ Ends(buf, From(scan)) = {}
  /\ Len(buf) <= MaxHeaderBytes
  /\ scan' = IF Len(buf) > 3 THEN Len(buf) - 3 ELSE scan
  /\ spc' = "idle"
  /\ UNCHANGED <<stream, got, buf, conn, gpuBusy, inReady, clients, cut, served, refusal>>

DrainRefuse ==
  \/ /\ spc = "drain"
     /\ Ends(buf, From(scan)) = {}
     /\ Len(buf) > MaxHeaderBytes
     /\ Refuse(431)
  \/ HeaderEnds /\ ~WellFormed(Header) /\ Refuse(400)
  \/ HeaderEnds /\ WellFormed(Header) /\ TooLarge(Header) /\ Refuse(413)

(* A request whose headers are good, with the length of its body *)
Accepted == HeaderEnds /\ WellFormed(Header) /\ ~TooLarge(Header)
RequestLen == HeaderLen + ContentLength(Header)

DrainBody ==
  /\ Accepted
  /\ Len(buf) < RequestLen
  /\ spc' = "idle"
  /\ UNCHANGED <<stream, got, buf, scan, conn, gpuBusy, inReady, clients, cut, served, refusal>>

DrainBehindGpu ==
  /\ Accepted
  /\ Len(buf) >= RequestLen
  /\ gpuBusy /\ Flagged
  /\ inReady' = TRUE
  /\ spc' = "idle"
  /\ UNCHANGED <<stream, got, buf, scan, conn, gpuBusy, clients, cut, served, refusal>>

(* Mutant: header_scan_start is reset only with an empty buffer. *)
DrainRequestKeepsScan ==
  /\ Accepted
  /\ Len(buf) >= RequestLen
  /\ ~(gpuBusy /\ Flagged)
  /\ served' = Append(served, [from |-> cut, head |-> cut + HeaderLen, to |-> cut + RequestLen])
  /\ cut' = cut + RequestLen
  /\ buf' = SubSeq(buf, RequestLen + 1, Len(buf))
  /\ scan' = IF RequestLen < Len(buf) THEN scan ELSE 0
  /\ gpuBusy' = (gpuBusy \/ Flagged)
  /\ spc' = "drain"
  /\ UNCHANGED <<stream, got, conn, inReady, clients, refusal>>

(* The request is dispatched and leaves the buffer.  If it parked, or the  *)
(* connection closes, draining ends; a close waits for a SEND in flight,   *)
(* which is there unless the answer was written at once.                   *)
DrainRequest ==
  /\ Accepted
  /\ Len(buf) >= RequestLen
  /\ ~(gpuBusy /\ Flagged)
  /\ served' = Append(served, [from |-> cut, head |-> cut + HeaderLen, to |-> cut + RequestLen])
  /\ cut' = cut + RequestLen
  /\ scan' = 0
  /\ LET rest == SubSeq(buf, RequestLen + 1, Len(buf)) IN
       IF Flagged
       THEN /\ gpuBusy' = TRUE
            /\ inReady' = (inReady \/ rest # <<>>)
            /\ buf' = rest
            /\ spc' = "idle"
            /\ UNCHANGED conn
       ELSE /\ UNCHANGED <<gpuBusy, inReady>>
            /\ IF CloseAfter(Header)
               THEN /\ spc' = "idle"
                    /\ \/ conn' = "closing" /\ buf' = rest
                       \/ conn' = "closed" /\ buf' = <<>>
               ELSE /\ buf' = rest
                    /\ spc' = IF rest = <<>> THEN "idle" ELSE "drain"
                    /\ UNCHANGED conn
  /\ UNCHANGED <<stream, got, clients, refusal>>

----------------------------------------------------------------------------
(* A recv completion; what arrives is cut anywhere. *)
Receive(n) ==
  /\ spc = "idle"
  /\ conn # "closed"
  /\ got + n <= Len(stream)
  /\ buf' = buf \o SubSeq(stream, got + 1, got + n)
  /\ got' = got + n
  /\ spc' = "drain"
  /\ UNCHANGED <<stream, scan, conn, gpuBusy, inReady, clients, cut, served, refusal>>

(* A request of another connection parks. *)
OtherParks ==
  /\ spc = "idle"
  /\ ~gpuBusy
  /\ gpuBusy' = TRUE
  /\ UNCHANGED <<stream, got, buf, scan, conn, spc, inReady, clients, cut, served, refusal>>

(* The parked request is released: rt_http_drain_ready *)
StreamRelease ==
  /\ spc = "idle"
  /\ gpuBusy
  /\ gpuBusy' = FALSE
  /\ inReady' = FALSE
  /\ spc' = IF inReady /\ conn # "closed" /\ buf # <<>> THEN "drain" ELSE "idle"
  /\ UNCHANGED <<stream, got, buf, scan, conn, clients, cut, served, refusal>>

(* The last SEND is done, or the client left. *)
CloseConn ==
  /\ spc = "idle"
  /\ conn # "closed"
  /\ conn' = "closed"
  /\ buf' = <<>>
  /\ UNCHANGED <<stream, got, scan, spc, gpuBusy, inReady, clients, cut, served, refusal>>

(* Mutant: header_scan_start is left as it was. *)
AcceptNextKeepsScan ==
  /\ spc = "idle"
  /\ conn = "closed"
  /\ clients < Clients
  /\ clients' = clients + 1
  /\ stream' \in Streams
  /\ conn' = "open"
  /\ got' = 0 /\ buf' = <<>> /\ cut' = 0 /\ served' = <<>> /\ refusal' = 0
  /\ UNCHANGED <<spc, scan, gpuBusy, inReady>>

(* The entry is taken by the next connection. *)
AcceptNext ==
  /\ spc = "idle"
  /\ conn = "closed"
  /\ clients < Clients
  /\ clients' = clients + 1
  /\ stream' \in Streams
  /\ conn' = "open"
  /\ scan' = 0
  /\ got' = 0 /\ buf' = <<>> /\ cut' = 0 /\ served' = <<>> /\ refusal' = 0
  /\ UNCHANGED <<spc, gpuBusy, inReady>>

StreamInit ==
  /\ stream \in Streams
  /\ got = 0 /\ buf = <<>> /\ scan = 0
  /\ conn = "open" /\ spc = "idle" /\ gpuBusy = FALSE /\ inReady = FALSE
  /\ clients = 1 /\ cut = 0 /\ served = <<>> /\ refusal = 0

Drain == DrainMore \/ DrainRefuse \/ DrainBody \/ DrainBehindGpu \/ DrainRequest

StreamNext ==
  \/ Drain
  \/ \E n \in 1 .. (Len(stream) - got) : Receive(n)
  \/ OtherParks \/ StreamRelease \/ CloseConn \/ AcceptNext

StreamSpec == StreamInit /\ [][StreamNext]_streamVars

----------------------------------------------------------------------------
(* The frame of the stream that starts after the first p bytes *)
HeadOf(p) == SubSeq(stream, p + 1, FirstEnd(stream, p))
FrameEnd(p) == FirstEnd(stream, p) + ContentLength(HeadOf(p))

(* However the bytes arrive, the requests dispatched are those that cutting *)
(* the whole stream from its beginning gives: each starts where the one     *)
(* before it ended, its headers end where they first can, a body is never   *)
(* searched for headers, and what is refused deserves it.                   *)
Framing ==
  /\ \A i \in DOMAIN served :
       LET r == served[i] IN
         /\ r.from = IF i = 1 THEN 0 ELSE served[i - 1].to
         /\ Ends(stream, r.from) # {} /\ WellFormed(HeadOf(r.from))
         /\ r.head = FirstEnd(stream, r.from)
         /\ r.to = FrameEnd(r.from)
  /\ refusal = 400 => Ends(stream, cut) # {} /\ ~WellFormed(HeadOf(cut))
  /\ refusal = 413 => Ends(stream, cut) # {} /\ TooLarge(HeadOf(cut))
  /\ refusal = 431 => \A e \in Ends(stream, cut) : e - cut > MaxHeaderBytes

(* When the worker turns to other things, no complete request is left in   *)
(* the buffer of an open connection, nor one to refuse, unless it waits    *)
(* for a parked one and the ready queue will come back to it.              *)
NothingLeftBehind ==
  spc = "idle" /\ conn = "open" /\ (\E e \in Ends(stream, cut) : e <= got) =>
    \/ WellFormed(HeadOf(cut)) /\ ~TooLarge(HeadOf(cut)) /\ FrameEnd(cut) > got
    \/ gpuBusy /\ inReady
=============================================================================
