------------------------- MODULE HttpRequests_proofs -------------------------
(***************************************************************************)
(* From the bytes a client sends to the handler and its answer.            *)
(*                                                                         *)
(* HttpStream: for whatever clients send, cut anywhere, the requests       *)
(* served are those of the stream read as a whole, and none is forgotten   *)
(* in the buffer.                                                          *)
(*                                                                         *)
(* HttpDispatch: for any application, with any handlers, a request is      *)
(* answered once.  For any application whose calls use up what they        *)
(* build, what is read for a request is what was put there last, and       *)
(* alive.                                                                  *)
(***************************************************************************)
EXTENDS HttpStream, HttpDispatch, SequenceTheorems, FiniteSetTheorems,
        WellFoundedInduction, TLAPS

(* The stream of bytes *)

Types ==
  /\ stream \in Seq(Bytes) /\ buf \in Seq(Bytes)
  /\ got \in 0 .. Len(stream) /\ cut \in Nat /\ scan \in Nat
  /\ conn \in {"open", "closing", "closed"} /\ spc \in {"idle", "drain"}
  /\ gpuBusy \in BOOLEAN /\ inReady \in BOOLEAN
  /\ served \in Seq([from : Nat, head : Nat, to : Nat])

(* The buffer is what was received and not cut off yet. *)
Buffered ==
  IF conn = "closed" THEN buf = <<>> /\ spc = "idle"
  ELSE /\ Len(buf) = got - cut
       /\ \A i \in 1 .. Len(buf) : buf[i] = stream[cut + i]
       /\ refusal = 0

(* No end of headers lies before the place from which the next search goes *)
(* on, nor will one when more arrives: header_scan_start is never stale.   *)
Scanned ==
  conn # "closed" =>
    /\ scan = 0 \/ scan + 3 <= Len(buf)
    /\ \A e \in Ends(buf, 0) : e >= From(scan) + 4

CutAfterServed == cut = IF served = <<>> THEN 0 ELSE served[Len(served)].to

StreamInv ==
  Types /\ Buffered /\ Scanned /\ CutAfterServed /\ Framing /\ NothingLeftBehind

----------------------------------------------------------------------------
(* Where headers end *)

LEMMA Least ==
  ASSUME NEW T, T \subseteq Nat, T # {}
  PROVE  \E x \in T : \A y \in T : x <= y
<1> DEFINE R == OpToRel(<, Nat)
<1>1. IsWellFoundedOn(R, Nat)
  BY NatLessThanWellFounded
<1>2. \A x, y \in Nat : x < y => <<x, y>> \in R
  BY DEF OpToRel
<1> HIDE DEF R
<1>3. PICK x \in T : \A y \in T : ~(<<y, x>> \in R)
  BY <1>1, WFMin, Zenon
<1>4. ASSUME NEW y \in T PROVE x <= y
  <2>1. ~(y < x)
    BY <1>2, <1>3, Zenon
  <2> QED
    BY <2>1
<1> QED
  BY <1>4

LEMMA FirstIsFirst ==
  ASSUME NEW s \in Seq(Bytes), NEW p \in Nat, Ends(s, p) # {}
  PROVE  FirstEnd(s, p) \in Ends(s, p) /\ \A f \in Ends(s, p) : FirstEnd(s, p) <= f
<1>1. Ends(s, p) \subseteq Nat
  BY DEF Ends
<1>2. \E e \in Ends(s, p) : \A f \in Ends(s, p) : e <= f
  <2> DEFINE T == Ends(s, p)
  <2> HIDE DEF T
  <2>1. T \subseteq Nat /\ T # {} => \E x \in T : \A y \in T : x <= y
    BY Least
  <2> QED
    BY <1>1, <2>1 DEF T
<1> QED
  BY <1>2, Zenon DEF FirstEnd

LEMMA FirstIsOnly ==
  ASSUME NEW s \in Seq(Bytes), NEW p \in Nat, NEW e \in Ends(s, p), \A f \in Ends(s, p) : e <= f
  PROVE  FirstEnd(s, p) = e
<1>1. FirstEnd(s, p) \in Ends(s, p) /\ FirstEnd(s, p) <= e /\ e <= FirstEnd(s, p)
  BY FirstIsFirst
<1>2. \A f \in Ends(s, p) : f \in Nat
  BY DEF Ends
<1> QED
  BY <1>1, <1>2

(* The ends in the buffer are those of the stream, as far as it was        *)
(* received.                                                               *)
LEMMA SameEnds ==
  ASSUME Types, Buffered, conn # "closed", NEW e \in Nat
  PROVE  /\ e \in Ends(buf, 0) <=> cut + e \in Ends(stream, cut) /\ cut + e <= got
         /\ Ends(buf, 0) \subseteq Nat /\ Ends(stream, cut) \subseteq Nat
         /\ \A f \in Ends(stream, cut) : f - cut \in Nat
<1>1. /\ Len(buf) = got - cut /\ \A i \in 1 .. Len(buf) : buf[i] = stream[cut + i]
      /\ got \in Nat /\ cut \in Nat /\ Len(buf) \in Nat /\ Len(stream) \in Nat /\ got <= Len(stream)
  BY DEF Types, Buffered
<1>2. ASSUME e \in 4 .. Len(buf)
      PROVE  EndsAt(buf, e) <=> EndsAt(stream, cut + e)
  <2>1. /\ e - 3 \in 1 .. Len(buf) /\ e - 2 \in 1 .. Len(buf) /\ e - 1 \in 1 .. Len(buf)
        /\ e \in 1 .. Len(buf)
        /\ cut + (e - 3) = (cut + e) - 3 /\ cut + (e - 2) = (cut + e) - 2 /\ cut + (e - 1) = (cut + e) - 1
    BY <1>1, <1>2
  <2>2. /\ buf[e - 3] = stream[(cut + e) - 3] /\ buf[e - 2] = stream[(cut + e) - 2]
        /\ buf[e - 1] = stream[(cut + e) - 1] /\ buf[e] = stream[cut + e]
    <3>1. /\ buf[e - 3] = stream[cut + (e - 3)] /\ buf[e - 2] = stream[cut + (e - 2)]
          /\ buf[e - 1] = stream[cut + (e - 1)] /\ buf[e] = stream[cut + e]
      BY <1>1, <2>1
    <3> QED
      BY <2>1, <3>1, Zenon
  <2> QED
    BY <2>2, Zenon DEF EndsAt
<1>3. e \in 4 .. Len(buf) <=> cut + e \in (cut + 4) .. Len(stream) /\ cut + e <= got
  BY <1>1
<1>4. e \in Ends(buf, 0) <=> e \in 4 .. Len(buf) /\ EndsAt(buf, e)
  BY DEF Ends
<1>5. cut + e \in Ends(stream, cut)
        <=> cut + e \in (cut + 4) .. Len(stream) /\ EndsAt(stream, cut + e)
  BY DEF Ends
<1>6. /\ Ends(buf, 0) \subseteq Nat /\ Ends(stream, cut) \subseteq Nat
      /\ \A f \in Ends(stream, cut) : f - cut \in Nat
  BY <1>1 DEF Ends
<1> QED
  BY <1>2, <1>3, <1>4, <1>5, <1>6

(* rt_http_find_header_end finds no end only when there is none... *)
LEMMA SearchFindsNone ==
  ASSUME Types, Buffered, Scanned, conn # "closed", Ends(buf, From(scan)) = {}
  PROVE  Ends(buf, 0) = {} /\ \A f \in Ends(stream, cut) : f > got
<1>1. From(scan) \in Nat
  BY DEF Types, From
<1>2. ASSUME NEW e \in Ends(buf, 0) PROVE FALSE
  <2>1. e \in 4 .. Len(buf) /\ EndsAt(buf, e) /\ e >= From(scan) + 4
    BY DEF Ends, Scanned
  <2>2. e \in Ends(buf, From(scan))
    BY <1>1, <2>1 DEF Ends, Types
  <2> QED
    BY <2>2
<1>3. ASSUME NEW f \in Ends(stream, cut), ~(f > got) PROVE FALSE
  <2>1. f - cut \in Nat /\ f \in Nat /\ got \in Nat /\ cut \in Nat
    BY SameEnds DEF Types
  <2>2. cut + (f - cut) = f /\ f <= got
    BY <1>3, <2>1
  <2>3. f - cut \in Ends(buf, 0)
    BY <2>1, <2>2, SameEnds
  <2> QED
    BY <1>2, <2>3
<1> QED
  BY <1>2, <1>3

(* ... and finds the first when there are. *)
LEMMA SearchFindsFirst ==
  ASSUME StreamInv, HeaderEnds
  PROVE  /\ conn # "closed"
         /\ HeaderLen \in 4 .. Len(buf)
         /\ Ends(stream, cut) # {} /\ cut + HeaderLen = FirstEnd(stream, cut)
         /\ Header = HeadOf(cut)
<1>1. conn # "closed" /\ Types /\ Buffered /\ Scanned
  BY DEF StreamInv, Buffered, HeaderEnds
<1>2. /\ stream \in Seq(Bytes) /\ buf \in Seq(Bytes) /\ cut \in Nat /\ got \in Nat
      /\ got <= Len(stream) /\ Len(stream) \in Nat /\ Len(buf) \in Nat
      /\ Len(buf) = got - cut /\ From(scan) \in Nat /\ scan \in Nat
  BY <1>1 DEF Types, Buffered, From
<1> DEFINE h == HeaderLen
<1>3. h \in Ends(buf, From(scan)) /\ \A f \in Ends(buf, From(scan)) : h <= f
  BY <1>2, FirstIsFirst DEF HeaderEnds, HeaderLen
<1>4. h \in 4 .. Len(buf) /\ h \in Ends(buf, 0)
  BY <1>2, <1>3 DEF Ends
<1> HIDE DEF h
<1>5. h \in Nat /\ cut + h \in Ends(stream, cut) /\ cut + h <= got
  BY <1>1, <1>2, <1>4, SameEnds
<1>6. ASSUME NEW f \in Ends(stream, cut) PROVE cut + h <= f
  <2>1. f \in Nat /\ f - cut \in Nat
    BY <1>1, <1>2, SameEnds
  <2>2. CASE f > got
    BY <1>2, <1>5, <2>1, <2>2
  <2>3. CASE f <= got
    <3>1. cut + (f - cut) = f
      BY <1>2, <2>1
    <3>2. f - cut \in Ends(buf, 0)
      BY <1>1, <2>1, <2>3, <3>1, SameEnds
    <3>3. f - cut >= From(scan) + 4 /\ f - cut \in 4 .. Len(buf) /\ EndsAt(buf, f - cut)
      BY <1>1, <3>2 DEF Scanned, Ends
    <3>4. f - cut \in Ends(buf, From(scan))
      BY <1>2, <3>3 DEF Ends
    <3>5. h <= f - cut
      BY <1>3, <3>4
    <3> QED
      BY <1>2, <1>5, <2>1, <3>5
  <2> QED
    BY <1>2, <2>1, <2>2, <2>3
<1>7. FirstEnd(stream, cut) = cut + h
  BY <1>2, <1>5, <1>6, FirstIsOnly
<1>8. SubSeq(buf, 1, h) = SubSeq(stream, cut + 1, cut + h)
  <2>1. /\ SubSeq(buf, 1, h) = [i \in 1 .. h |-> buf[i]]
        /\ SubSeq(stream, cut + 1, cut + h) = [i \in 1 .. h |-> stream[cut + i]]
    <3>1. /\ SubSeq(buf, 1, h) \in Seq(Bytes) /\ Len(SubSeq(buf, 1, h)) = h
          /\ \A i \in 1 .. h : SubSeq(buf, 1, h)[i] = buf[i]
      BY <1>2, <1>4
    <3>2. /\ SubSeq(stream, cut + 1, cut + h) \in Seq(Bytes)
          /\ Len(SubSeq(stream, cut + 1, cut + h)) = h
          /\ \A i \in 1 .. h : SubSeq(stream, cut + 1, cut + h)[i] = stream[cut + i]
      BY <1>2, <1>4
    <3> QED
      BY <3>1, <3>2, <1>5
  <2>2. \A i \in 1 .. h : buf[i] = stream[cut + i]
    BY <1>1, <1>4, <1>2 DEF Buffered
  <2> QED
    BY <2>1, <2>2
<1> QED
  BY <1>1, <1>4, <1>5, <1>7, <1>8 DEF Header, HeadOf, h

----------------------------------------------------------------------------
(* What an action keeps by leaving the variables alone *)

LEMMA HistoryKept ==
  ASSUME StreamInv, UNCHANGED <<stream, cut, served, refusal>>
  PROVE  CutAfterServed' /\ Framing'
  BY DEF StreamInv, CutAfterServed, Framing, HeadOf, FrameEnd

LEMMA BufferKept ==
  ASSUME StreamInv, conn # "closed", UNCHANGED <<stream, got, buf, conn, cut, refusal>>
  PROVE  Buffered'
  BY DEF StreamInv, Buffered

LEMMA ScanKept ==
  ASSUME StreamInv, UNCHANGED <<buf, scan, conn>>
  PROVE  Scanned'
  BY DEF StreamInv, Scanned, Ends, From

(* An end of headers has four bytes: an empty buffer holds none. *)
LEMMA EndsBehind ==
  ASSUME NEW s \in Seq(Bytes), NEW p \in Nat
  PROVE  \A e \in Ends(s, p) : e \in Nat /\ e >= p + 4
  BY DEF Ends

LEMMA EmptyBuffer == Ends(<<>>, 0) = {}
<1>1. Len(<<>>) = 0
  OBVIOUS
<1> QED
  BY <1>1 DEF Ends

----------------------------------------------------------------------------
(* One lemma for each thing the drain may do *)

LEMMA DrainMoreKeeps ==
  ASSUME StreamInv, DrainMore
  PROVE  StreamInv'
<1>1. /\ conn # "closed" /\ Types /\ Buffered /\ Scanned
  BY DEF StreamInv, Buffered, DrainMore
<1>2. Ends(buf, 0) = {} /\ \A f \in Ends(stream, cut) : f > got
  BY <1>1, SearchFindsNone DEF DrainMore
<1>3. Len(buf) \in Nat /\ scan \in Nat
  BY <1>1 DEF Types
<1>4. scan' \in Nat /\ (scan' = 0 \/ scan' + 3 <= Len(buf))
  BY <1>1, <1>3 DEF DrainMore, Scanned
<1>5. Types'
  BY <1>1, <1>4 DEF Types, DrainMore
<1>6. Buffered'
  BY <1>1, BufferKept DEF DrainMore
<1>7. Scanned'
  BY <1>2, <1>4 DEF Scanned, DrainMore
<1>8. CutAfterServed' /\ Framing'
  BY HistoryKept DEF DrainMore
<1>9. NothingLeftBehind'
  <2>1. \A f \in Ends(stream, cut) : ~(f <= got)
    BY <1>1, <1>2, SameEnds DEF Types
  <2> QED
    BY <2>1 DEF DrainMore, NothingLeftBehind
<1> QED
  BY <1>5, <1>6, <1>7, <1>8, <1>9 DEF StreamInv

LEMMA RefuseKeeps ==
  ASSUME StreamInv, spc = "drain", NEW status \in {400, 413, 431}, Refuse(status),
         status = 400 => Ends(stream, cut) # {} /\ ~WellFormed(HeadOf(cut)),
         status = 413 => Ends(stream, cut) # {} /\ TooLarge(HeadOf(cut)),
         status = 431 => \A e \in Ends(stream, cut) : e - cut > MaxHeaderBytes
  PROVE  StreamInv'
<1>1. Types'
  BY DEF StreamInv, Types, Refuse
<1>2. Buffered' /\ Scanned' /\ CutAfterServed' /\ NothingLeftBehind'
  BY DEF StreamInv, Buffered, Scanned, CutAfterServed, NothingLeftBehind, Refuse
<1>3. Framing'
  <2>1. UNCHANGED <<stream, cut, served>> /\ refusal' = status
    BY DEF Refuse
  <2>2. HeadOf(cut)' = HeadOf(cut) /\ Ends(stream, cut)' = Ends(stream, cut)
    BY <2>1 DEF HeadOf
  <2> QED
    BY <2>1, <2>2 DEF StreamInv, Framing, HeadOf, FrameEnd
<1> QED
  BY <1>1, <1>2, <1>3 DEF StreamInv

LEMMA DrainRefuseKeeps ==
  ASSUME StreamInv, DrainRefuse
  PROVE  StreamInv'
<1>1. CASE /\ spc = "drain" /\ Ends(buf, From(scan)) = {} /\ Len(buf) > MaxHeaderBytes
           /\ Refuse(431)
  <2>1. /\ conn # "closed" /\ Types /\ Buffered /\ Scanned
    BY <1>1 DEF StreamInv, Buffered
  <2>2. \A f \in Ends(stream, cut) : f > got /\ f \in Nat
    BY <1>1, <2>1, SearchFindsNone, SameEnds
  <2>3. Len(buf) = got - cut /\ got \in Nat /\ cut \in Nat /\ MaxHeaderBytes \in Nat
    BY <2>1, StreamAssumption DEF Types, Buffered
  <2>4. \A f \in Ends(stream, cut) : f - cut > MaxHeaderBytes
    BY <1>1, <2>2, <2>3
  <2> QED
    BY <1>1, <2>4, RefuseKeeps
<1>2. CASE HeaderEnds /\ ~WellFormed(Header) /\ Refuse(400)
  BY <1>2, SearchFindsFirst, RefuseKeeps DEF HeaderEnds
<1>3. CASE HeaderEnds /\ WellFormed(Header) /\ TooLarge(Header) /\ Refuse(413)
  BY <1>3, SearchFindsFirst, RefuseKeeps DEF HeaderEnds
<1> QED
  BY <1>1, <1>2, <1>3 DEF DrainRefuse

(* The frame of an accepted request, in the buffer and in the stream *)
LEMMA AcceptedFrame ==
  ASSUME StreamInv, Accepted
  PROVE  /\ conn # "closed" /\ spc = "drain"
         /\ Ends(stream, cut) # {} /\ WellFormed(HeadOf(cut)) /\ ~TooLarge(HeadOf(cut))
         /\ cut + HeaderLen = FirstEnd(stream, cut)
         /\ cut + RequestLen = FrameEnd(cut)
         /\ HeaderLen \in Nat /\ HeaderLen >= 4
         /\ RequestLen \in Nat /\ RequestLen >= HeaderLen
<1>1. /\ conn # "closed" /\ HeaderLen \in 4 .. Len(buf)
      /\ Ends(stream, cut) # {} /\ cut + HeaderLen = FirstEnd(stream, cut)
      /\ Header = HeadOf(cut) /\ spc = "drain"
  BY SearchFindsFirst DEF Accepted, HeaderEnds
<1>2. ContentLength(Header) \in {0, 2, 4}
  BY DEF ContentLength
<1>3. HeaderLen \in Nat /\ HeaderLen >= 4 /\ cut \in Nat
  BY <1>1 DEF StreamInv, Types
<1>4. cut + RequestLen = FrameEnd(cut) /\ RequestLen \in Nat /\ RequestLen >= HeaderLen
  <2> DEFINE h == HeaderLen
             n == ContentLength(Header)
  <2>1. RequestLen = h + n /\ FrameEnd(cut) = FirstEnd(stream, cut) + n
    BY <1>1 DEF RequestLen, FrameEnd
  <2>2. cut + h = FirstEnd(stream, cut) /\ h \in Nat /\ n \in {0, 2, 4}
    BY <1>1, <1>2, <1>3
  <2> HIDE DEF h, n
  <2>3. cut + (h + n) = (cut + h) + n /\ h + n \in Nat /\ h + n >= h
    BY <1>3, <2>2
  <2> QED
    BY <2>1, <2>2, <2>3 DEF h
<1> QED
  BY <1>1, <1>3, <1>4 DEF Accepted

LEMMA DrainBodyKeeps ==
  ASSUME StreamInv, DrainBody
  PROVE  StreamInv'
<1>1. Accepted /\ Len(buf) < RequestLen
  BY DEF DrainBody
<1>2. /\ conn # "closed" /\ WellFormed(HeadOf(cut)) /\ ~TooLarge(HeadOf(cut))
      /\ cut + RequestLen = FrameEnd(cut) /\ RequestLen \in Nat
  BY <1>1, AcceptedFrame
<1>3. Len(buf) = got - cut /\ got \in Nat /\ cut \in Nat
  BY <1>2 DEF StreamInv, Types, Buffered
<1>4. FrameEnd(cut) > got
  BY <1>1, <1>2, <1>3
<1>5. Types'
  BY DEF StreamInv, Types, DrainBody
<1>6. Buffered' /\ Scanned' /\ CutAfterServed' /\ Framing'
  BY <1>2, BufferKept, ScanKept, HistoryKept DEF DrainBody
<1>7. NothingLeftBehind'
  <2>1. HeadOf(cut)' = HeadOf(cut) /\ FrameEnd(cut)' = FrameEnd(cut) /\ got' = got
    BY DEF DrainBody, HeadOf, FrameEnd
  <2> QED
    BY <1>2, <1>4, <2>1 DEF NothingLeftBehind
<1> QED
  BY <1>5, <1>6, <1>7 DEF StreamInv

LEMMA DrainBehindGpuKeeps ==
  ASSUME StreamInv, DrainBehindGpu
  PROVE  StreamInv'
<1>1. conn # "closed"
  BY AcceptedFrame DEF DrainBehindGpu
<1>2. Types'
  BY DEF StreamInv, Types, DrainBehindGpu
<1>3. Buffered' /\ Scanned' /\ CutAfterServed' /\ Framing'
  BY <1>1, BufferKept, ScanKept, HistoryKept DEF DrainBehindGpu
<1>4. NothingLeftBehind'
  BY DEF DrainBehindGpu, NothingLeftBehind
<1> QED
  BY <1>2, <1>3, <1>4 DEF StreamInv

(* The request that leaves is the next of the stream. *)
LEMMA ServedInOrder ==
  ASSUME StreamInv, Accepted, UNCHANGED <<stream, refusal>>, cut' = cut + RequestLen,
         served' = Append(served, [from |-> cut, head |-> cut + HeaderLen, to |-> cut + RequestLen])
  PROVE  /\ served' \in Seq([from : Nat, head : Nat, to : Nat])
         /\ CutAfterServed' /\ Framing'
<1> DEFINE r == [from |-> cut, head |-> cut + HeaderLen, to |-> cut + RequestLen]
           k == Len(served)
<1>1. /\ served \in Seq([from : Nat, head : Nat, to : Nat]) /\ k \in Nat /\ cut \in Nat
      /\ refusal = 0 /\ Framing /\ CutAfterServed
  BY AcceptedFrame DEF StreamInv, Types, Buffered
<1>2. /\ r.from = cut /\ r.head = FirstEnd(stream, cut) /\ r.to = FrameEnd(cut) /\ r.to = cut'
      /\ Ends(stream, cut) # {} /\ WellFormed(HeadOf(cut))
      /\ r \in [from : Nat, head : Nat, to : Nat]
  BY <1>1, AcceptedFrame
<1> HIDE DEF r
<1>3. /\ served' \in Seq([from : Nat, head : Nat, to : Nat])
      /\ Len(served') = k + 1 /\ served'[k + 1] = r
      /\ \A i \in 1 .. k : served'[i] = served[i]
      /\ DOMAIN served' = 1 .. (k + 1) /\ DOMAIN served = 1 .. k
      /\ served' # <<>>
  BY <1>1, <1>2 DEF r
<1>4. served = <<>> <=> k = 0
  BY <1>1
<1>5. CutAfterServed'
  BY <1>1, <1>2, <1>3 DEF CutAfterServed
<1>6. ASSUME NEW i \in 1 .. (k + 1)
      PROVE  /\ served'[i].from = IF i = 1 THEN 0 ELSE served'[i - 1].to
             /\ Ends(stream, served'[i].from) # {} /\ WellFormed(HeadOf(served'[i].from))
             /\ served'[i].head = FirstEnd(stream, served'[i].from)
             /\ served'[i].to = FrameEnd(served'[i].from)
  <2>1. CASE i = k + 1
    <3>1. r.from = IF i = 1 THEN 0 ELSE served'[i - 1].to
      <4>1. CASE k = 0
        BY <1>1, <1>2, <1>4, <2>1, <4>1 DEF CutAfterServed
      <4>2. CASE k # 0
        <5>1. i - 1 = k /\ k \in 1 .. k /\ i # 1
          BY <1>1, <2>1, <4>2
        <5>2. cut = served[k].to
          BY <1>1, <1>4, <4>2 DEF CutAfterServed
        <5> QED
          BY <1>2, <1>3, <5>1, <5>2
      <4> QED
        BY <4>1, <4>2
    <3> QED
      BY <1>2, <1>3, <2>1, <3>1
  <2>2. CASE i # k + 1
    <3>1. i \in 1 .. k /\ (i # 1 => i - 1 \in 1 .. k)
      BY <1>1, <2>2
    <3>2. /\ served[i].from = IF i = 1 THEN 0 ELSE served[i - 1].to
          /\ Ends(stream, served[i].from) # {} /\ WellFormed(HeadOf(served[i].from))
          /\ served[i].head = FirstEnd(stream, served[i].from)
          /\ served[i].to = FrameEnd(served[i].from)
      BY <1>1, <1>3, <3>1 DEF Framing
    <3>3. served'[i] = served[i] /\ (i # 1 => served'[i - 1] = served[i - 1])
      BY <1>3, <3>1
    <3> QED
      BY <3>2, <3>3
  <2> QED
    BY <2>1, <2>2
<1>7. Framing'
  <2>1. stream' = stream /\ refusal' = 0
    BY <1>1
  <2>2. ASSUME NEW i \in DOMAIN served'
        PROVE  /\ served'[i].from = IF i = 1 THEN 0 ELSE served'[i - 1].to
               /\ Ends(stream', served'[i].from) # {} /\ (WellFormed(HeadOf(served[i].from)))'
               /\ served'[i].head = FirstEnd(stream', served'[i].from)
               /\ served'[i].to = FrameEnd(served[i].from)'
    <3>1. i \in 1 .. (k + 1)
      BY <1>3, <2>2
    <3> QED
      BY <1>6, <2>1, <3>1 DEF HeadOf, FrameEnd
  <2> QED
    BY <2>1, <2>2 DEF Framing
<1> QED
  BY <1>3, <1>5, <1>7

LEMMA DrainRequestKeeps ==
  ASSUME StreamInv, DrainRequest
  PROVE  StreamInv'
<1> DEFINE n == RequestLen
           rest == SubSeq(buf, n + 1, Len(buf))
<1>1. /\ Accepted /\ conn # "closed" /\ spc = "drain" /\ Len(buf) >= n
      /\ n \in Nat /\ n >= 4
  <2>1. Accepted /\ Len(buf) >= n
    BY DEF DrainRequest
  <2>2. /\ conn # "closed" /\ spc = "drain" /\ HeaderLen \in Nat /\ HeaderLen >= 4
        /\ n \in Nat /\ n >= HeaderLen
    BY <2>1, AcceptedFrame
  <2> HIDE DEF n
  <2> QED
    BY <2>1, <2>2
<1>2. /\ buf \in Seq(Bytes) /\ Len(buf) \in Nat /\ Len(buf) = got - cut
      /\ got \in Nat /\ cut \in Nat /\ got \in 0 .. Len(stream)
      /\ \A i \in 1 .. Len(buf) : buf[i] = stream[cut + i]
  BY <1>1 DEF StreamInv, Types, Buffered
<1>3. /\ UNCHANGED <<stream, got, clients, refusal>> /\ scan' = 0 /\ cut' = cut + n
      /\ served' = Append(served, [from |-> cut, head |-> cut + HeaderLen, to |-> cut + RequestLen])
      /\ conn' \in {conn, "closing", "closed"} /\ spc' \in {"idle", "drain"}
      /\ IF conn' = "closed" THEN buf' = <<>> /\ spc' = "idle" ELSE buf' = rest
      /\ gpuBusy' \in {gpuBusy, TRUE} /\ inReady' \in BOOLEAN
      /\ spc' = "idle" /\ conn' = "open" => rest = <<>> \/ (gpuBusy' /\ inReady')
  <2> HIDE DEF n
  <2>1. gpuBusy \in BOOLEAN /\ inReady \in BOOLEAN /\ spc = "drain" /\ conn # "closed"
    BY <1>1 DEF StreamInv, Types
  <2> QED
    BY <2>1 DEF DrainRequest, n
<1> HIDE DEF n
<1>4. /\ rest \in Seq(Bytes) /\ Len(rest) = Len(buf) - n
      /\ \A i \in 1 .. Len(rest) : rest[i] = buf[n + i]
  BY <1>1, <1>2
<1>5. served' \in Seq([from : Nat, head : Nat, to : Nat]) /\ CutAfterServed' /\ Framing'
  BY <1>1, <1>3, ServedInOrder DEF n
<1>6. ASSUME conn' # "closed"
      PROVE  Len(buf') = got' - cut' /\ \A i \in 1 .. Len(buf') : buf'[i] = stream'[cut' + i]
  <2> HIDE DEF rest
  <2>1. buf' = rest
    BY <1>3, <1>6
  <2>2. Len(rest) = got - (cut + n)
    BY <1>1, <1>2, <1>4
  <2>3. ASSUME NEW i \in 1 .. Len(rest) PROVE rest[i] = stream[(cut + n) + i]
    <3>1. n + i \in 1 .. Len(buf) /\ cut + (n + i) = (cut + n) + i
      BY <1>1, <1>2, <1>4
    <3> QED
      BY <1>2, <1>4, <3>1
  <2> QED
    BY <1>3, <2>1, <2>2, <2>3
<1>7. buf' \in Seq(Bytes)
  <2>1. buf' = <<>> \/ buf' = rest
    BY <1>3
  <2>2. rest \in Seq(Bytes) /\ <<>> \in Seq(Bytes)
    BY <1>4
  <2> HIDE DEF rest
  <2> QED
    BY <2>1, <2>2, Zenon
<1>8. Types'
  <2>1. /\ stream' \in Seq(Bytes) /\ got' \in 0 .. Len(stream') /\ cut' \in Nat /\ scan' \in Nat
    BY <1>1, <1>2, <1>3 DEF StreamInv, Types
  <2>2. conn' \in {"open", "closing", "closed"} /\ gpuBusy' \in BOOLEAN
    BY <1>3 DEF StreamInv, Types
  <2> HIDE DEF rest
  <2> QED
    BY <1>3, <1>5, <1>7, <2>1, <2>2 DEF Types
<1>9. Buffered'
  BY <1>1, <1>2, <1>3, <1>6 DEF StreamInv, Buffered
<1>10. Scanned'
  <2>1. \A e \in Ends(buf', 0) : e >= 4
    BY <1>7, EndsBehind
  <2> QED
    BY <1>3, <2>1 DEF Scanned, From
<1>11. NothingLeftBehind'
  <2>1. CASE spc' = "idle" /\ conn' = "open" /\ rest = <<>>
    <3>1. got' = cut' /\ cut' \in Nat /\ stream' \in Seq(Bytes)
      <4>1. buf' = <<>> /\ conn' # "closed"
        BY <1>3, <2>1
      <4>2. Len(buf') = 0
        BY <4>1
      <4>3. Len(buf') = got' - cut'
        BY <1>6, <4>1
      <4>4. got' \in Nat /\ cut' \in Nat /\ stream' \in Seq(Bytes)
        <5> HIDE DEF rest
        <5> QED
          BY <1>8 DEF Types
      <4>5. got' - cut' = 0
        BY <4>2, <4>3, Zenon
      <4>6. got' = cut'
        <5>1. ASSUME NEW a \in Nat, NEW b \in Nat, a - b = 0 PROVE a = b
          BY <5>1
        <5>2. got' \in Nat /\ cut' \in Nat
          BY <4>4
        <5> QED
          BY <4>5, <5>1, <5>2, Zenon
      <4> QED
        BY <4>4, <4>6
    <3>2. \A e \in Ends(stream', cut') : ~(e <= got')
      BY <3>1, EndsBehind
    <3> QED
      BY <3>2 DEF NothingLeftBehind
  <2> QED
    BY <1>3, <2>1 DEF NothingLeftBehind
<1> QED
  BY <1>5, <1>8, <1>9, <1>10, <1>11 DEF StreamInv

----------------------------------------------------------------------------
(* What happens between drains *)

LEMMA ReceiveKeeps ==
  ASSUME StreamInv, NEW n \in 1 .. (Len(stream) - got), Receive(n)
  PROVE  StreamInv'
<1> DEFINE more == SubSeq(stream, got + 1, got + n)
<1>1. /\ conn # "closed" /\ buf' = buf \o more /\ got' = got + n /\ spc' = "drain"
      /\ UNCHANGED <<stream, scan, conn, gpuBusy, inReady, clients, cut, served, refusal>>
  BY DEF Receive
<1>2. /\ stream \in Seq(Bytes) /\ buf \in Seq(Bytes) /\ Len(buf) \in Nat /\ Len(stream) \in Nat
      /\ got \in 0 .. Len(stream) /\ cut \in Nat /\ scan \in Nat
      /\ Len(buf) = got - cut /\ refusal = 0
      /\ \A i \in 1 .. Len(buf) : buf[i] = stream[cut + i]
  BY <1>1 DEF StreamInv, Types, Buffered
<1>3. /\ more \in Seq(Bytes) /\ Len(more) = n
      /\ \A i \in 1 .. n : more[i] = stream[got + i]
  BY <1>2
<1> HIDE DEF more
<1>4. /\ buf' \in Seq(Bytes) /\ Len(buf') = Len(buf) + n
      /\ \A i \in 1 .. Len(buf) : buf'[i] = buf[i]
      /\ \A i \in (Len(buf) + 1) .. (Len(buf) + n) : buf'[i] = more[i - Len(buf)]
  <2>1. buf \o more \in Seq(Bytes) /\ Len(buf \o more) = Len(buf) + Len(more)
    BY <1>2, <1>3, ConcatProperties
  <2>2. \A i \in 1 .. Len(buf) + Len(more) :
          (buf \o more)[i] = IF i <= Len(buf) THEN buf[i] ELSE more[i - Len(buf)]
    BY <1>2, <1>3, ConcatProperties
  <2>3. n \in Nat /\ Len(more) = n /\ Len(buf) \in Nat /\ buf' = buf \o more
    BY <1>1, <1>2, <1>3
  <2>4. ASSUME NEW i \in 1 .. Len(buf) PROVE buf'[i] = buf[i]
    <3>1. i \in 1 .. Len(buf) + Len(more) /\ i <= Len(buf)
      BY <2>3
    <3> QED
      BY <2>2, <2>3, <3>1
  <2>5. ASSUME NEW i \in (Len(buf) + 1) .. (Len(buf) + n) PROVE buf'[i] = more[i - Len(buf)]
    <3>1. i \in 1 .. Len(buf) + Len(more) /\ ~(i <= Len(buf))
      BY <2>3
    <3> QED
      BY <2>2, <2>3, <3>1
  <2> QED
    BY <2>1, <2>3, <2>4, <2>5
<1>5. Types'
  BY <1>1, <1>2, <1>4 DEF StreamInv, Types
<1>6. Buffered'
  <2>1. Len(buf') = got' - cut'
    BY <1>1, <1>2, <1>4
  <2>2. ASSUME NEW i \in 1 .. Len(buf') PROVE buf'[i] = stream[cut + i]
    <3>1. CASE i <= Len(buf)
      BY <1>2, <1>4, <2>2, <3>1
    <3>2. CASE i > Len(buf)
      <4>1. i \in (Len(buf) + 1) .. (Len(buf) + n) /\ i - Len(buf) \in 1 .. n
            /\ got + (i - Len(buf)) = cut + i
        BY <1>2, <1>4, <3>2
      <4> QED
        BY <1>3, <1>4, <4>1
    <3> QED
      BY <1>2, <1>4, <3>1, <3>2
  <2> QED
    BY <1>1, <1>2, <2>1, <2>2 DEF Buffered
<1>7. Scanned'
  <2>1. scan = 0 \/ scan + 3 <= Len(buf)
    BY <1>1 DEF StreamInv, Scanned
  <2>2. ASSUME NEW e \in Ends(buf', 0) PROVE e >= From(scan) + 4
    <3>1. e \in 4 .. Len(buf') /\ EndsAt(buf', e)
      BY DEF Ends
    <3>2. CASE e <= Len(buf)
      <4>1. /\ e - 3 \in 1 .. Len(buf) /\ e - 2 \in 1 .. Len(buf) /\ e - 1 \in 1 .. Len(buf)
            /\ e \in 1 .. Len(buf) /\ e \in 4 .. Len(buf)
        <5>1. e \in Int /\ e >= 4 /\ e <= Len(buf) /\ Len(buf) \in Nat
          BY <1>2, <1>4, <3>1, <3>2
        <5> QED
          BY ONLY <5>1
      <4>2. EndsAt(buf, e)
        BY <1>4, <3>1, <4>1 DEF EndsAt
      <4>3. e \in Ends(buf, 0)
        BY <4>1, <4>2 DEF Ends
      <4> QED
        BY <1>1, <4>3 DEF StreamInv, Scanned
    <3>3. CASE e > Len(buf)
      BY <1>2, <2>1, <3>1, <3>3 DEF From
    <3> QED
      BY <1>2, <3>1, <3>2, <3>3
  <2>3. scan' = 0 \/ scan' + 3 <= Len(buf')
    BY <1>1, <1>2, <1>4, <2>1
  <2> QED
    BY <1>1, <2>2, <2>3 DEF Scanned
<1>8. CutAfterServed' /\ Framing'
  BY <1>1, HistoryKept
<1>9. NothingLeftBehind'
  BY <1>1 DEF NothingLeftBehind
<1> QED
  BY <1>5, <1>6, <1>7, <1>8, <1>9 DEF StreamInv

LEMMA OtherParksKeeps ==
  ASSUME StreamInv, OtherParks
  PROVE  StreamInv'
<1>1. Types' /\ Buffered'
  BY DEF StreamInv, Types, Buffered, OtherParks
<1>2. Scanned' /\ CutAfterServed' /\ Framing'
  BY ScanKept, HistoryKept DEF OtherParks
<1>3. NothingLeftBehind'
  BY DEF StreamInv, OtherParks, NothingLeftBehind, HeadOf, FrameEnd
<1> QED
  BY <1>1, <1>2, <1>3 DEF StreamInv

LEMMA StreamReleaseKeeps ==
  ASSUME StreamInv, StreamRelease
  PROVE  StreamInv'
<1>1. Types' /\ Buffered'
  BY DEF StreamInv, Types, Buffered, StreamRelease
<1>2. Scanned' /\ CutAfterServed' /\ Framing'
  BY ScanKept, HistoryKept DEF StreamRelease
<1>3. NothingLeftBehind'
  <2>1. CASE ~inReady
    BY <2>1 DEF StreamInv, StreamRelease, NothingLeftBehind, HeadOf, FrameEnd
  <2>2. CASE inReady /\ conn = "open" /\ buf = <<>>
    <3>1. got = cut /\ cut \in Nat /\ stream \in Seq(Bytes)
      <4>1. Len(buf) = 0 /\ Len(buf) = got - cut /\ got \in Nat /\ cut \in Nat
        BY <2>2 DEF StreamInv, Types, Buffered
      <4> QED
        BY <4>1 DEF StreamInv, Types
    <3>2. \A e \in Ends(stream, cut) : ~(e <= got)
      BY <3>1, EndsBehind
    <3> QED
      BY <3>2 DEF StreamRelease, NothingLeftBehind
  <2> QED
    BY <2>1, <2>2 DEF StreamInv, Types, StreamRelease, NothingLeftBehind
<1> QED
  BY <1>1, <1>2, <1>3 DEF StreamInv

LEMMA CloseConnKeeps ==
  ASSUME StreamInv, CloseConn
  PROVE  StreamInv'
<1>1. Types' /\ Buffered' /\ Scanned'
  BY DEF StreamInv, Types, Buffered, Scanned, CloseConn
<1>2. CutAfterServed' /\ Framing'
  BY HistoryKept DEF CloseConn
<1>3. NothingLeftBehind'
  BY DEF CloseConn, NothingLeftBehind
<1> QED
  BY <1>1, <1>2, <1>3 DEF StreamInv

(* A connection that was just accepted: nothing is received. *)
LEMMA FreshConnection ==
  ASSUME stream \in Streams, got = 0, buf = <<>>, scan = 0, conn = "open", spc = "idle",
         gpuBusy \in BOOLEAN, inReady \in BOOLEAN, cut = 0, served = <<>>, refusal = 0
  PROVE  StreamInv
<1>1. Types
  BY StreamAssumption DEF Types
<1>2. Buffered /\ CutAfterServed /\ Framing
  BY DEF Buffered, CutAfterServed, Framing
<1>3. Scanned
  BY EmptyBuffer DEF Scanned
<1>4. NothingLeftBehind
  <2>1. \A e \in Ends(stream, cut) : ~(e <= got)
    BY <1>1, EndsBehind DEF Types
  <2> QED
    BY <2>1 DEF NothingLeftBehind
<1> QED
  BY <1>1, <1>2, <1>3, <1>4 DEF StreamInv

LEMMA AcceptNextKeeps ==
  ASSUME StreamInv, AcceptNext
  PROVE  StreamInv'
<1>1. /\ stream' \in Streams /\ got' = 0 /\ buf' = <<>> /\ scan' = 0 /\ conn' = "open"
      /\ spc' = "idle" /\ gpuBusy' \in BOOLEAN /\ inReady' \in BOOLEAN
      /\ cut' = 0 /\ served' = <<>> /\ refusal' = 0
  BY DEF StreamInv, Types, AcceptNext
<1>2. Types'
  BY <1>1, StreamAssumption DEF Types
<1>3. Buffered' /\ CutAfterServed' /\ Framing'
  BY <1>1 DEF Buffered, CutAfterServed, Framing
<1>4. Scanned'
  BY <1>1, EmptyBuffer DEF Scanned
<1>5. NothingLeftBehind'
  <2>1. \A e \in Ends(stream', cut') : ~(e <= got')
    BY <1>1, <1>2, EndsBehind DEF Types
  <2> QED
    BY <2>1 DEF NothingLeftBehind
<1> QED
  BY <1>2, <1>3, <1>4, <1>5 DEF StreamInv

----------------------------------------------------------------------------
LEMMA Inductive == StreamSpec => []StreamInv
<1>1. StreamInit => StreamInv
  BY FreshConnection DEF StreamInit
<1>2. StreamInv /\ [StreamNext]_streamVars => StreamInv'
  <2> SUFFICES ASSUME StreamInv, [StreamNext]_streamVars PROVE StreamInv'
    OBVIOUS
  <2>1. CASE Drain
    BY <2>1, DrainMoreKeeps, DrainRefuseKeeps, DrainBodyKeeps, DrainBehindGpuKeeps,
       DrainRequestKeeps DEF Drain
  <2>2. CASE \E n \in 1 .. (Len(stream) - got) : Receive(n)
    BY <2>2, ReceiveKeeps
  <2>3. CASE OtherParks \/ StreamRelease \/ CloseConn \/ AcceptNext
    BY <2>3, OtherParksKeeps, StreamReleaseKeeps, CloseConnKeeps, AcceptNextKeeps
  <2>4. CASE UNCHANGED streamVars
    <3>1. Types' /\ Buffered' /\ NothingLeftBehind'
      BY <2>4 DEF streamVars, StreamInv, Types, Buffered, NothingLeftBehind, HeadOf, FrameEnd
    <3>2. Scanned' /\ CutAfterServed' /\ Framing'
      BY <2>4, ScanKept, HistoryKept DEF streamVars
    <3> QED
      BY <3>1, <3>2 DEF StreamInv
  <2> QED
    BY <2>1, <2>2, <2>3, <2>4 DEF StreamNext
<1> QED
  BY <1>1, <1>2, PTL DEF StreamSpec

(* Whatever clients send, and in whatever pieces it arrives,                *)
(* rt_http_drain_conn serves the requests of the stream, one after the     *)
(* other, and refuses only what is bad, too large or too long.             *)
THEOREM RequestsFramed == StreamSpec => []Framing
<1>1. StreamInv => Framing
  BY DEF StreamInv
<1> QED
  BY <1>1, Inductive, PTL

(* The search that goes on from header_scan_start misses no request, and   *)
(* one that waits for a parked GPU request is in the ready queue.          *)
THEOREM NoRequestForgotten == StreamSpec => []NothingLeftBehind
<1>1. StreamInv => NothingLeftBehind
  BY DEF StreamInv
<1> QED
  BY <1>1, Inductive, PTL

----------------------------------------------------------------------------
(* Routing and handlers *)

(* What runs next, and whether it can still find the request unanswered *)
Stages == {"middleware", "route", "call", "after", "parked", "done", "exited"}

DispatchInv ==
  /\ answers \in Seq(Nat)
  /\ dpc \in Stages
  /\ "after" \in DOMAIN running /\ running.after \in {"middleware", "after", "done"}
  /\ Len(answers) <= 1
  /\ dpc = "done" => Len(answers) = 1
  /\ dpc \in {"middleware", "route", "parked"} => answers = <<>>

(* An answer, or the 500 of rt_http_dispatch *)
LEMMA AnsweredOr500 ==
  ASSUME DispatchInv
  PROVE  LET after == IF answers = <<>> THEN <<500>> ELSE answers IN
           after \in Seq(Nat) /\ Len(after) = 1
<1>1. CASE answers = <<>>
  BY <1>1
<1>2. CASE answers # <<>>
  <2>1. \A s \in Seq(Nat) : Len(s) = 0 => s = <<>>
    OBVIOUS
  <2>2. Len(answers) # 0
    BY <1>2, <2>1, Zenon DEF DispatchInv
  <2>3. answers \in Seq(Nat) /\ Len(answers) \in Nat /\ Len(answers) <= 1
    <3>1. answers \in Seq(Nat) /\ Len(answers) <= 1
      BY DEF DispatchInv
    <3> QED
      BY <3>1
  <2>4. Len(answers) = 1
    <3> DEFINE n == Len(answers)
    <3>1. n \in Nat /\ n <= 1 /\ n # 0
      BY <2>2, <2>3
    <3> HIDE DEF n
    <3>2. n = 1
      BY <3>1
    <3> QED
      BY <3>2 DEF n
  <2> QED
    BY <1>2, <2>3, <2>4, Zenon
<1> QED
  BY <1>1, <1>2

LEMMA CallKeeps ==
  ASSUME DispatchInv, NEW h, NEW after \in {"middleware", "after", "done"}, Call(h, after)
  PROVE  DispatchInv'
<1>1. /\ running' = Calls(h, after) /\ dpc' = "call" /\ UNCHANGED answers
  BY DEF Call
<1>2. "after" \in DOMAIN Calls(h, after) /\ Calls(h, after).after = after
  BY DEF Calls
<1> QED
  BY <1>1, <1>2 DEF DispatchInv, Stages

(* The steps of a call leave it the same way to return. *)
LEMMA DoneKeeps ==
  ASSUME DispatchInv, DoneStep
  PROVE  "after" \in DOMAIN running' /\ running'.after = running.after
  BY DEF DispatchInv, DoneStep

LEMMA StepKeeps ==
  ASSUME DispatchInv, [DispatchNext]_dispatchVars
  PROVE  DispatchInv'
<1>1. CASE CallMiddleware \/ CallHandler \/ Continue
  BY <1>1, CallKeeps DEF CallMiddleware, CallHandler, Continue
<1>2. CASE SkipMiddleware
  BY <1>2 DEF SkipMiddleware, DispatchInv, Stages
<1>3. CASE MiddlewareDone
  BY <1>3 DEF MiddlewareDone, DispatchInv, Stages
<1>4. CASE NotFound
  BY <1>4 DEF NotFound, DispatchInv, Stages
<1>5. CASE DoSet \/ DoHeader \/ DoGet
  <2>1. dpc = "call" /\ DoneStep /\ UNCHANGED <<dpc, answers>>
    BY <1>5 DEF DoSet, DoHeader, DoGet, Doing
  <2> QED
    BY <2>1, DoneKeeps DEF DispatchInv
<1>6. CASE DoText
  <2>1. /\ dpc = "call" /\ dpc' = "call" /\ DoneStep
        /\ answers' = (IF answers # <<>> THEN answers ELSE Append(answers, 200))
    BY <1>6 DEF DoText, Doing
  <2>2. answers' \in Seq(Nat) /\ Len(answers') <= 1
    BY <2>1 DEF DispatchInv
  <2> QED
    BY <2>1, <2>2, DoneKeeps DEF DispatchInv
<1>7. CASE DoFinish
  <2>1. dpc = "call" /\ dpc' \in {"call", "exited"} /\ DoneStep /\ UNCHANGED answers
    BY <1>7 DEF DoFinish, Doing
  <2> QED
    BY <2>1, DoneKeeps DEF DispatchInv, Stages
<1>8. CASE CallReturns
  <2>1. /\ running' = NotCalled
        /\ answers' = (IF running.after = "done" /\ answers = <<>> THEN <<500>> ELSE answers)
        /\ dpc' = (IF running.after = "middleware" /\ (running.ret # 0 \/ answers # <<>>)
                   THEN "after" ELSE running.after)
    BY <1>8 DEF CallReturns
  <2>2. "after" \in DOMAIN NotCalled /\ NotCalled.after = "done"
    BY DEF NotCalled
  <2>3. answers' \in Seq(Nat) /\ Len(answers') <= 1
    BY <2>1 DEF DispatchInv
  <2>4. dpc' \in Stages /\ dpc' \notin {"route", "parked"}
    BY <2>1 DEF DispatchInv, Stages
  <2>5. dpc' = "middleware" => answers' = <<>>
    BY <2>1 DEF DispatchInv
  <2>6. dpc' = "done" => Len(answers') = 1
    BY <2>1, AnsweredOr500 DEF DispatchInv
  <2> QED
    BY <2>1, <2>2, <2>3, <2>4, <2>5, <2>6 DEF DispatchInv
<1>9. CASE EndDispatch
  <2>1. answers' \in Seq(Nat) /\ Len(answers') = 1
    BY <1>9, AnsweredOr500 DEF EndDispatch
  <2> QED
    BY <1>9, <2>1 DEF EndDispatch, DispatchInv, Stages
<1>10. CASE ExitDispatch
  BY <1>10 DEF ExitDispatch, DispatchInv, Stages
<1>11. CASE Retain
  BY <1>11 DEF Retain, DispatchInv, Stages
<1>12. CASE Failed
  BY <1>12 DEF Failed, DispatchInv, Stages
<1>13. CASE UNCHANGED dispatchVars
  BY <1>13 DEF dispatchVars, DispatchInv
<1> QED
  BY <1>1, <1>2, <1>3, <1>4, <1>5, <1>6, <1>7, <1>8, <1>9, <1>10, <1>11, <1>12, <1>13
  DEF DispatchNext

(* Whatever the handlers do, and whether the request is answered at once,  *)
(* by rt_http_dispatch in their place, or later by its continuation, it is *)
(* answered once by the time it is over.                                   *)
THEOREM RequestsAnsweredOnce == DispatchSpec => []AnsweredOnce
<1>1. DispatchInit => DispatchInv
  BY DEF DispatchInit, DispatchInv, Stages, NotCalled
<1>2. DispatchInv /\ [DispatchNext]_dispatchVars => DispatchInv'
  BY StepKeeps
<1>3. DispatchInv => AnsweredOnce
  BY DEF DispatchInv, AnsweredOnce
<1> QED
  BY <1>1, <1>2, <1>3, PTL DEF DispatchSpec

----------------------------------------------------------------------------
(* What the proof needs to know of what runs *)
Texts == [id : Nat, at : Int]
PairsOf(keys) == [key : keys, val : Texts]
RunningOf(keys) ==
  [does : Seq(StepsOf(keys)), ret : Int, cont : Seq(StepsOf(keys)), after : {"middleware", "after", "done"}]

DispatchTypes ==
  /\ app \in Apps
  /\ chain \in Seq(HandlersOf(app.keys)) /\ running \in RunningOf(app.keys)
  /\ headers \in Seq(Texts) /\ context \in Seq(PairsOf(app.keys))
  /\ cont \subseteq Seq(StepsOf(app.keys)) /\ lastSet \in [app.keys -> Nat]
  /\ strings \in Nat /\ frame \in Nat /\ gotten \in Int
  /\ fields \in {RequestBytes, ParkedArena}

(* The calls to come are careful ones. *)
CallsCareful ==
  /\ \A i \in DOMAIN chain : CarefulCall(chain[i])
  /\ \A does \in cont : GetsFirst(does)
  /\ GetsFirst(running.cont)

(* A pair for each key that was set, with the string set last *)
PairsKept ==
  /\ \A i \in DOMAIN context : context[i].val.id = lastSet[context[i].key]
  /\ \A i, j \in DOMAIN context : context[i].key = context[j].key => i = j
  /\ \A k \in app.keys : lastSet[k] # 0 => \E i \in DOMAIN context : context[i].key = k

(* Every string of the request lies in one of these places. *)
KeptIn(where) ==
  /\ \A i \in DOMAIN headers : headers[i].at \in where
  /\ \A i \in DOMAIN context : context[i].val.at \in where
Outlasting == {StaticMemory, fields}

PlacesAlive ==
  /\ StaticMemory \in places
  /\ dpc \notin {"done", "exited"} => fields \in places
  /\ dpc = "call" => frame \in places /\ frame # 0

(* A call that will not answer leaves nothing of its frame behind. *)
CallLeaves ==
  dpc = "call" =>
    /\ KeptIn(Outlasting \cup {frame})
    /\ gotten = frame \/ GetsFirst(running.does)
    /\ \/ answers # <<>> \/ running.after = "done" \/ Responds(running.does)
       \/ KeptIn(Outlasting) /\ Lasting(running.does)

Lasts ==
  /\ dpc \in {"middleware", "route", "parked"} => KeptIn(Outlasting)
  /\ dpc = "after" => answers # <<>> \/ KeptIn(Outlasting)

ReadInv ==
  DispatchInv /\ DispatchTypes /\ CallsCareful /\ PairsKept /\ PlacesAlive /\ CallLeaves /\ Lasts

LEMMA StepIs ==
  ASSUME NEW keys, NEW e \in StepsOf(keys)
  PROVE  /\ e.op = "set" => e.key \in keys /\ e.from \in Sources
         /\ e.op = "get" => e.key \in keys
         /\ e.op \in {"header", "text"} => e.from \in Sources
  BY DEF StepsOf, SetContext, SetHeader, GetContext, Text, Finishes

LEMMA SeqIs ==
  ASSUME NEW S
  PROVE  /\ \A q \in Seq(S) : Len(q) \in Nat /\ DOMAIN q = 1 .. Len(q) /\ \A i \in DOMAIN q : q[i] \in S
         /\ \A n \in Nat : \A q \in [1 .. n -> S] : q \in Seq(S)
  OBVIOUS

(* What is left after a step *)
LEMMA TailIs ==
  ASSUME NEW S, NEW q \in Seq(S), q # <<>>
  PROVE  /\ Tail(q) \in Seq(S) /\ Head(q) \in S /\ Head(q) = q[1] /\ 1 \in DOMAIN q
         /\ \A i \in DOMAIN Tail(q) : i + 1 \in DOMAIN q /\ Tail(q)[i] = q[i + 1]
         /\ \A i \in DOMAIN q : i # 1 => i - 1 \in DOMAIN Tail(q) /\ Tail(q)[i - 1] = q[i]
  OBVIOUS

LEMMA RestIs ==
  ASSUME NEW S, NEW does \in Seq(S), does # <<>>
  PROVE  /\ Lasting(does) => Lasting(Tail(does))
         /\ Responds(does) /\ Head(does).op # "text" => Responds(Tail(does))
         /\ GetsFirst(does) /\ Head(does).op # "get" => GetsFirst(Tail(does))
<1>1. Lasting(does) => Lasting(Tail(does))
  BY TailIs DEF Lasting
<1>2. ASSUME Responds(does), Head(does).op # "text"
      PROVE  Responds(Tail(does))
  <2>1. PICK i \in DOMAIN does : does[i].op = "text"
    BY <1>2 DEF Responds
  <2>2. i # 1
    BY <1>2, <2>1, TailIs
  <2>3. i - 1 \in DOMAIN Tail(does) /\ Tail(does)[i - 1] = does[i]
    BY <2>2, TailIs
  <2> QED
    BY <2>1, <2>3 DEF Responds
<1>3. ASSUME GetsFirst(does), Head(does).op # "get", NEW i \in DOMAIN Tail(does),
             Tail(does)[i].op \in {"set", "header", "text"}, Tail(does)[i].from = "context"
      PROVE  \E j \in 1 .. (i - 1) : Tail(does)[j].op = "get"
  <2>1. i \in Nat /\ i + 1 \in DOMAIN does /\ Tail(does)[i] = does[i + 1]
    BY TailIs
  <2>2. PICK j \in 1 .. ((i + 1) - 1) : does[j].op = "get"
    BY <1>3, <2>1 DEF GetsFirst
  <2>3. j # 1
    BY <1>3, <2>2, TailIs
  <2>4. j \in DOMAIN does
    BY <2>1, <2>2
  <2>5. Tail(does)[j - 1] = does[j] /\ j - 1 \in 1 .. (i - 1)
    BY <2>1, <2>2, <2>3, <2>4, TailIs
  <2> QED
    BY <2>2, <2>5
<1> QED
  BY <1>1, <1>2, <1>3 DEF GetsFirst

(* The string of a step lies where the call may look. *)
LEMMA StringIs ==
  ASSUME ReadInv, dpc = "call", running.does # <<>>, Doing1.op \in {"set", "header", "text"}
  PROVE  /\ String(Doing1.from) \in Texts
         /\ String(Doing1.from).id = strings + 1
         /\ String(Doing1.from).at \in Outlasting \cup {frame}
         /\ String(Doing1.from).at \in places
         /\ Lasting(running.does) /\ Doing1.op # "text" => String(Doing1.from).at \in Outlasting
<1> DEFINE e == Doing1
<1>1. running.does \in Seq(StepsOf(app.keys))
  BY DEF ReadInv, DispatchTypes, RunningOf
<1>2. e = running.does[1] /\ 1 \in DOMAIN running.does /\ e \in StepsOf(app.keys)
  BY <1>1, TailIs DEF Doing1
<1>3. e.from \in Sources
  BY <1>2, StepIs
<1>4. e.from = "context" => gotten = frame
  BY <1>2 DEF ReadInv, CallLeaves, GetsFirst
<1>5. Lasting(running.does) /\ e.op # "text" => e.from \in {"literal", "request"}
  BY <1>2 DEF Lasting
<1>6. fields \in Int /\ frame \in Int /\ gotten \in Int /\ strings \in Nat
  BY DEF ReadInv, DispatchTypes, RequestBytes, ParkedArena
<1> HIDE DEF e
<1>7. Where(e.from) \in Int /\ Where(e.from) \in {StaticMemory, fields, frame}
  BY <1>3, <1>4, <1>6 DEF Where, Sources, StaticMemory
<1>8. e.from \in {"literal", "request"} => Where(e.from) \in {StaticMemory, fields}
  BY DEF Where
<1>9. {StaticMemory, fields, frame} \subseteq places
  BY DEF ReadInv, PlacesAlive
<1> QED
  BY <1>5, <1>6, <1>7, <1>8, <1>9 DEF String, Texts, Outlasting, e

(* The steps of a call that leave the strings of the request as they are *)
LEMMA DoneCareful ==
  ASSUME ReadInv, dpc = "call", running.does # <<>>, DoneStep
  PROVE  /\ running' \in RunningOf(app.keys) /\ running'.does = Tail(running.does)
         /\ running'.cont = running.cont /\ running'.after = running.after
         /\ Lasting(running.does) => Lasting(running'.does)
         /\ Responds(running.does) /\ Doing1.op # "text" => Responds(running'.does)
         /\ GetsFirst(running.does) /\ Doing1.op # "get" => GetsFirst(running'.does)
<1>1. running \in RunningOf(app.keys)
  BY DEF ReadInv, DispatchTypes
<1>2. running.does \in Seq(StepsOf(app.keys)) /\ Tail(running.does) \in Seq(StepsOf(app.keys))
  BY <1>1, TailIs DEF RunningOf
<1>3. running' \in RunningOf(app.keys) /\ running'.does = Tail(running.does)
      /\ running'.cont = running.cont /\ running'.after = running.after
  BY <1>1, <1>2 DEF RunningOf, DoneStep
<1> QED
  BY <1>2, <1>3, RestIs DEF Doing1

(* A call begins, with nothing of an earlier call's frame about. *)
LEMMA CallCareful ==
  ASSUME ReadInv, NEW h \in HandlersOf(app.keys), NEW after \in {"middleware", "after", "done"},
         Call(h, after), dpc \in {"middleware", "route", "parked"},
         GetsFirst(h.does), GetsFirst(h.cont),
         after = "done" \/ Lasting(h.does) \/ Responds(h.does),
         chain' \in Seq(HandlersOf(app.keys)), \A i \in DOMAIN chain' : CarefulCall(chain'[i])
  PROVE  ReadInv'
<1>1. DispatchInv'
  BY CallKeeps DEF ReadInv
<1>2. /\ running' = Calls(h, after) /\ frame' = frame + 1 /\ places' = places \cup {frame + 1}
      /\ dpc' = "call"
      /\ UNCHANGED <<app, fields, context, headers, gotten, cont, answers, strings, lastSet>>
  BY DEF Call
<1>3. running' \in RunningOf(app.keys) /\ running'.does = h.does /\ running'.cont = h.cont
      /\ running'.after = after
  BY <1>2 DEF Calls, RunningOf, HandlersOf
<1>4. DispatchTypes'
  BY <1>2, <1>3 DEF ReadInv, DispatchTypes
<1>5. CallsCareful'
  BY <1>2, <1>3 DEF ReadInv, CallsCareful
<1>6. PairsKept'
  BY <1>2 DEF ReadInv, PairsKept
<1>7. PlacesAlive'
  BY <1>2 DEF ReadInv, PlacesAlive, DispatchTypes
<1>8. KeptIn(Outlasting)
  BY DEF ReadInv, Lasts
<1>9. KeptIn(Outlasting)' /\ KeptIn(Outlasting \cup {frame})'
  BY <1>2, <1>8 DEF KeptIn, Outlasting
<1>10. CallLeaves'
  BY <1>2, <1>3, <1>9 DEF CallLeaves
<1>11. Lasts'
  BY <1>2 DEF Lasts
<1> QED
  BY <1>1, <1>4, <1>5, <1>6, <1>7, <1>10, <1>11 DEF ReadInv

LEMMA Calling ==
  ASSUME ReadInv, \A a \in Apps : Careful(a), CallMiddleware \/ CallHandler \/ Continue
  PROVE  ReadInv' /\ readings' = {}
<1>0. readings' = {}
  BY DEF CallMiddleware, CallHandler, Continue, Call
<1>1. CASE CallMiddleware
  <2>1. chain \in Seq(HandlersOf(app.keys)) /\ chain # <<>> /\ chain' = Tail(chain)
        /\ dpc = "middleware" /\ Call(Head(chain), "middleware")
    BY <1>1 DEF CallMiddleware, ReadInv, DispatchTypes
  <2>2. Head(chain) \in HandlersOf(app.keys) /\ CarefulCall(Head(chain))
        /\ chain' \in Seq(HandlersOf(app.keys)) /\ \A i \in DOMAIN chain' : CarefulCall(chain'[i])
    BY <2>1, TailIs DEF ReadInv, CallsCareful
  <2> QED
    BY <1>0, <2>1, <2>2, CallCareful DEF CarefulCall
<1>2. CASE CallHandler
  <2>1. PICK h \in app.routes \cup app.notFound : Call(h, "after")
    BY <1>2 DEF CallHandler
  <2>2. h \in HandlersOf(app.keys) /\ CarefulCall(h)
    BY DEF ReadInv, DispatchTypes, Careful
  <2>3. chain' = chain /\ dpc = "route"
    BY <1>2 DEF CallHandler
  <2> QED
    BY <1>0, <2>1, <2>2, <2>3, CallCareful DEF CarefulCall, ReadInv, DispatchTypes, CallsCareful
<1>3. CASE Continue
  <2>1. PICK does \in cont : Call(Handler(does, 0, <<>>), "done")
    BY <1>3 DEF Continue
  <2>2. does \in Seq(StepsOf(app.keys)) /\ GetsFirst(does)
    BY DEF ReadInv, DispatchTypes, CallsCareful
  <2>3. Handler(does, 0, <<>>) \in HandlersOf(app.keys) /\ Handler(does, 0, <<>>).does = does
        /\ Handler(does, 0, <<>>).cont = <<>>
    BY <2>2 DEF Handler, HandlersOf
  <2>4. GetsFirst(<<>>)
    BY DEF GetsFirst
  <2>5. chain' = chain /\ dpc = "parked"
    BY <1>3 DEF Continue
  <2> QED
    BY <1>0, <2>1, <2>2, <2>3, <2>4, <2>5, CallCareful DEF ReadInv, DispatchTypes, CallsCareful
<1> QED
  BY <1>1, <1>2, <1>3

(* Past the cap there is no key left: each has its pair. *)
LEMMA RoomForEvery ==
  ASSUME ReadInv, \A a \in Apps : Careful(a), NEW k \in app.keys,
         \A i \in DOMAIN context : context[i].key # k
  PROVE  Len(context) < ContextCap
<1> DEFINE n == Len(context)
           f == [i \in 1 .. n |-> context[i].key]
<1>1. context \in Seq(PairsOf(app.keys)) /\ app \in Apps
  BY DEF ReadInv, DispatchTypes
<1>2. n \in Nat /\ \A i \in 1 .. n : i \in DOMAIN context /\ context[i].key \in app.keys
  <2>1. /\ Len(context) \in Nat /\ DOMAIN context = 1 .. Len(context)
        /\ \A i \in DOMAIN context : context[i] \in PairsOf(app.keys)
    BY <1>1, SeqIs
  <2>2. \A p \in PairsOf(app.keys) : p.key \in app.keys
    BY DEF PairsOf
  <2> QED
    BY <2>1, <2>2
<1>3. IsFiniteSet(app.keys) /\ Cardinality(app.keys) <= ContextCap
  BY <1>1 DEF Careful
<1>4. \A i, j \in 1 .. n : f[i] = f[j] => i = j
  BY <1>2 DEF ReadInv, PairsKept
<1>5. f \in [1 .. n -> app.keys]
  BY <1>2
<1> HIDE DEF n
<1>6. f \in Injection(1 .. n, app.keys)
  BY <1>4, <1>5 DEF Injection, IsInjective
<1>7. Cardinality(1 .. n) = n
  BY <1>2, FS_Interval
<1>8. f \notin Surjection(1 .. n, app.keys)
  BY <1>2 DEF Surjection
<1> HIDE DEF f
<1>9. Cardinality(1 .. n) <= Cardinality(app.keys) /\ Cardinality(1 .. n) # Cardinality(app.keys)
  BY <1>3, <1>6, <1>8, FS_Injection, Zenon
<1>10. Cardinality(app.keys) \in Nat
  BY <1>3, FS_CardinalityType
<1>11. n < ContextCap
  BY <1>2, <1>3, <1>7, <1>9, <1>10, DispatchAssumption
<1> QED
  BY <1>11 DEF n

(* http.set replaces the string of its key or adds a pair. *)
LEMMA SettingKeeps ==
  ASSUME ReadInv, \A a \in Apps : Careful(a), DoSet
  PROVE  /\ PairsKept' /\ context' \in Seq(PairsOf(app.keys))
         /\ lastSet' \in [app.keys -> Nat]
         /\ \A i \in DOMAIN context' :
              \/ context'[i].val = String(Doing1.from)
              \/ i \in DOMAIN context /\ context'[i] = context[i]
<1> DEFINE Pair == PairsOf(app.keys)
<1>1. PICK s : s = String(Doing1.from)
  OBVIOUS
<1>2. PICK k : k = Doing1.key
  OBVIOUS
<1>3. /\ context \in Seq(Pair) /\ lastSet \in [app.keys -> Nat] /\ strings \in Nat
      /\ running.does \in Seq(StepsOf(app.keys))
  BY DEF ReadInv, DispatchTypes, RunningOf
<1>4. dpc = "call" /\ running.does # <<>> /\ Doing1.op = "set" /\ app' = app
  BY DEF DoSet, Doing, Doing1
<1>5. k \in app.keys
  BY <1>2, <1>3, <1>4, TailIs, StepIs DEF Doing1
<1>6. s \in Texts /\ s.id = strings + 1
  BY <1>1, <1>4, StringIs
<1> DEFINE pairs == {i \in DOMAIN context : context[i].key = k}
<1>7. /\ context' = IF pairs # {} THEN [i \in DOMAIN context |->
                       IF i \in pairs THEN [context[i] EXCEPT !.val = s] ELSE context[i]]
                    ELSE IF Len(context) < ContextCap THEN Append(context, [key |-> k, val |-> s])
                    ELSE context
      /\ lastSet' = [lastSet EXCEPT ![k] = s.id]
  BY <1>1, <1>2 DEF DoSet
<1>8. lastSet' \in [app.keys -> Nat] /\ lastSet'[k] = s.id
      /\ \A x \in app.keys : x # k => lastSet'[x] = lastSet[x]
  BY <1>3, <1>5, <1>6, <1>7 DEF Texts
<1>9. /\ \A i \in DOMAIN context : context[i] \in Pair /\ context[i].key \in app.keys
      /\ \A i \in DOMAIN context : context[i].val.id = lastSet[context[i].key]
      /\ \A i, j \in DOMAIN context : context[i].key = context[j].key => i = j
      /\ \A x \in app.keys : lastSet[x] # 0 => \E i \in DOMAIN context : context[i].key = x
  <2>1. \A i \in DOMAIN context : context[i] \in Pair
    BY <1>3, SeqIs
  <2>2. \A p \in Pair : p.key \in app.keys
    BY DEF PairsOf
  <2> QED
    BY <2>1, <2>2 DEF ReadInv, PairsKept
<1>10. CASE pairs # {}
  <2>1. \A p \in Pair : [p EXCEPT !.val = s] \in Pair /\ [p EXCEPT !.val = s].key = p.key
                         /\ [p EXCEPT !.val = s].val = s
    BY <1>6 DEF PairsOf
  <2>2. /\ DOMAIN context' = DOMAIN context
        /\ \A i \in DOMAIN context :
             /\ context'[i] \in Pair /\ context'[i].key = context[i].key
             /\ context[i].key = k => context'[i].val = s
             /\ context[i].key # k => context'[i] = context[i]
    BY <1>7, <1>9, <1>10, <2>1
  <2>3. context' \in Seq(Pair)
    <3>1. DOMAIN context = 1 .. Len(context) /\ Len(context) \in Nat
      BY <1>3, SeqIs
    <3>2. context' \in [1 .. Len(context) -> Pair]
      BY <1>7, <1>10, <2>2, <3>1
    <3> QED
      BY <3>1, <3>2, SeqIs
  <2>4. \A i \in DOMAIN context' : context'[i].val.id = lastSet'[context'[i].key]
    <3>1. TAKE i \in DOMAIN context'
    <3>2. i \in DOMAIN context /\ context[i].key \in app.keys
      BY <1>9, <2>2 DEF PairsOf
    <3>3. CASE context[i].key = k
      BY <1>8, <2>2, <3>2, <3>3
    <3>4. CASE context[i].key # k
      BY <1>8, <1>9, <2>2, <3>2, <3>4
    <3> QED
      BY <3>3, <3>4
  <2>5. \A x \in app.keys : lastSet'[x] # 0 => \E i \in DOMAIN context' : context'[i].key = x
    <3>1. PICK i \in DOMAIN context : context[i].key = k
      BY <1>10
    <3> QED
      BY <1>8, <1>9, <2>2, <3>1
  <2> QED
    BY <1>1, <1>4, <1>8, <1>9, <2>2, <2>3, <2>4, <2>5 DEF PairsKept
<1>11. CASE pairs = {}
  <2>1. Len(context) < ContextCap
    BY <1>5, <1>11, RoomForEvery
  <2>2. context' = Append(context, [key |-> k, val |-> s])
    BY <1>7, <1>11, <2>1
  <2>10. [key |-> k, val |-> s] \in Pair
    BY <1>5, <1>6 DEF PairsOf
  <2>3. /\ context' \in Seq(Pair) /\ Len(context) \in Nat
        /\ DOMAIN context = 1 .. Len(context) /\ DOMAIN context' = 1 .. (Len(context) + 1)
        /\ \A i \in DOMAIN context : context'[i] = context[i]
        /\ context'[Len(context) + 1] = [key |-> k, val |-> s]
    <3> HIDE DEF Pair
    <3> QED
      BY <1>3, <2>2, <2>10
  <2>4. \A i \in DOMAIN context' : i \in DOMAIN context \/ i = Len(context) + 1
    BY <2>3
  <2>5. \A i \in DOMAIN context : context'[i].key # k
    BY <1>11, <2>3
  <2>6. \A i \in DOMAIN context' : context'[i].val.id = lastSet'[context'[i].key]
    BY <1>8, <1>9, <2>3, <2>4, <2>5
  <2>7. \A i, j \in DOMAIN context' : context'[i].key = context'[j].key => i = j
    BY <1>9, <2>3, <2>4, <2>5
  <2>8. \A x \in app.keys : lastSet'[x] # 0 => \E i \in DOMAIN context' : context'[i].key = x
    <3>1. Len(context) + 1 \in DOMAIN context' /\ DOMAIN context \subseteq DOMAIN context'
      BY <2>3
    <3> QED
      BY <1>8, <1>9, <2>3, <3>1
  <2> QED
    BY <1>1, <1>4, <1>8, <2>3, <2>4, <2>6, <2>7, <2>8 DEF PairsKept
<1> QED
  BY <1>10, <1>11

(* What is read, where it is what was put there and alive *)
LEMMA ReadingsGood ==
  ASSUME NEW all, \A i \in DOMAIN all : all[i].at \in places
  PROVE  \A r \in Readings(all) : r.alive /\ r.id = r.want
<1>1. TAKE r \in Readings(all)
<1>2. PICK i \in DOMAIN all : r = Reading(all[i], all[i].id)
  BY <1>1 DEF Readings
<1> QED
  BY <1>2 DEF Reading

(* A step of a call, whatever it does to the strings, keeps the invariant  *)
(* if it puts them where the call may.                                     *)
LEMMA StepCareful ==
  ASSUME ReadInv, DispatchInv', dpc = "call", running.does # <<>>, DoneStep, dpc' \in {"call", "exited"},
         UNCHANGED <<app, chain, places, frame, fields>>,
         headers' \in Seq(Texts), context' \in Seq(PairsOf(app.keys)),
         cont' \subseteq Seq(StepsOf(app.keys)), \A does \in cont' : GetsFirst(does),
         lastSet' \in [app.keys -> Nat], strings' \in Nat, PairsKept',
         gotten' = frame \/ (gotten' = gotten /\ Doing1.op # "get"),
         answers # <<>> \/ Doing1.op = "text" => answers' # <<>>,
         KeptIn(Outlasting \cup {frame})',
         KeptIn(Outlasting) /\ Lasting(running.does) => KeptIn(Outlasting)' \/ answers' # <<>>
  PROVE  ReadInv'
<1>1. /\ running' \in RunningOf(app.keys) /\ running'.cont = running.cont /\ running'.after = running.after
      /\ Lasting(running.does) => Lasting(running'.does)
      /\ Responds(running.does) /\ Doing1.op # "text" => Responds(running'.does)
      /\ GetsFirst(running.does) /\ Doing1.op # "get" => GetsFirst(running'.does)
  BY DoneCareful
<1>2. DispatchTypes'
  BY <1>1 DEF ReadInv, DispatchTypes
<1>3. CallsCareful'
  BY <1>1 DEF ReadInv, CallsCareful
<1>4. PlacesAlive'
  BY DEF ReadInv, PlacesAlive
<1>5. gotten' = frame' \/ GetsFirst(running'.does)
  BY <1>1 DEF ReadInv, CallLeaves
<1>6. \/ answers' # <<>> \/ running'.after = "done" \/ Responds(running'.does)
      \/ KeptIn(Outlasting)' /\ Lasting(running'.does)
  BY <1>1 DEF ReadInv, CallLeaves
<1>7. CallLeaves'
  BY <1>5, <1>6 DEF CallLeaves
<1>8. Lasts'
  BY DEF Lasts
<1> QED
  BY <1>2, <1>3, <1>4, <1>7, <1>8 DEF ReadInv

LEMMA DoCareful ==
  ASSUME ReadInv, DispatchInv', \A a \in Apps : Careful(a),
         DoSet \/ DoHeader \/ DoGet \/ DoText \/ DoFinish
  PROVE  ReadInv'
<1>1. /\ dpc = "call" /\ running.does # <<>> /\ DoneStep /\ dpc' \in {"call", "exited"}
      /\ UNCHANGED <<app, chain, places, frame, fields>>
      /\ KeptIn(Outlasting \cup {frame})
  BY DEF DoSet, DoHeader, DoGet, DoText, DoFinish, Doing, ReadInv, CallLeaves
<1>2. /\ headers \in Seq(Texts) /\ context \in Seq(PairsOf(app.keys)) /\ strings \in Nat
      /\ cont \subseteq Seq(StepsOf(app.keys)) /\ \A does \in cont : GetsFirst(does)
      /\ lastSet \in [app.keys -> Nat] /\ frame \in Nat /\ PairsKept
      /\ running.cont \in Seq(StepsOf(app.keys)) /\ GetsFirst(running.cont)
  BY DEF ReadInv, DispatchTypes, CallsCareful, RunningOf
<1>3. CASE DoSet
  <2>1. Doing1.op = "set" /\ UNCHANGED <<headers, cont, answers, gotten>> /\ strings' = strings + 1
    BY <1>3 DEF DoSet, Doing, Doing1
  <2>2. PICK s : s = String(Doing1.from)
    OBVIOUS
  <2>3. /\ s.at \in Outlasting \cup {frame}
        /\ Lasting(running.does) => s.at \in Outlasting
    BY <1>1, <2>1, <2>2, StringIs
  <2>4. /\ PairsKept' /\ context' \in Seq(PairsOf(app.keys)) /\ lastSet' \in [app.keys -> Nat]
        /\ \A i \in DOMAIN context' :
             context'[i].val = s \/ (i \in DOMAIN context /\ context'[i] = context[i])
    BY <1>3, <2>2, SettingKeeps
  <2>5. Outlasting' = Outlasting /\ frame' = frame
    BY <1>1 DEF Outlasting
  <2>6. \A where : KeptIn(where) /\ s.at \in where =>
          /\ \A i \in DOMAIN headers' : headers'[i].at \in where
          /\ \A i \in DOMAIN context' : context'[i].val.at \in where
    BY <2>1, <2>4 DEF KeptIn
  <2>7. KeptIn(Outlasting \cup {frame})'
    BY <1>1, <2>3, <2>5, <2>6 DEF KeptIn
  <2>8. KeptIn(Outlasting) /\ Lasting(running.does) => KeptIn(Outlasting)'
    BY <2>3, <2>5, <2>6 DEF KeptIn
  <2> QED
    BY <1>1, <1>2, <2>1, <2>4, <2>7, <2>8, StepCareful
<1>4. CASE DoHeader
  <2>1. Doing1.op = "header" /\ UNCHANGED <<context, cont, answers, gotten, lastSet>>
        /\ strings' = strings + 1
    BY <1>4 DEF DoHeader, Doing, Doing1
  <2>2. PICK s : s = String(Doing1.from)
    OBVIOUS
  <2>3. /\ s.at \in Outlasting \cup {frame} /\ s \in Texts
        /\ Lasting(running.does) => s.at \in Outlasting
    BY <1>1, <2>1, <2>2, StringIs
  <2>4. headers' = Append(headers, s)
    BY <1>4, <2>2 DEF DoHeader
  <2>5. /\ headers' \in Seq(Texts)
        /\ \A i \in DOMAIN headers' : headers'[i] = s \/ (i \in DOMAIN headers /\ headers'[i] = headers[i])
    BY <1>2, <2>3, <2>4
  <2>6. Outlasting' = Outlasting /\ frame' = frame
    BY <1>1 DEF Outlasting
  <2>7. \A where : KeptIn(where) /\ s.at \in where =>
          /\ \A i \in DOMAIN headers' : headers'[i].at \in where
          /\ \A i \in DOMAIN context' : context'[i].val.at \in where
    BY <2>1, <2>5 DEF KeptIn
  <2>8. KeptIn(Outlasting \cup {frame})'
    BY <1>1, <2>3, <2>6, <2>7 DEF KeptIn
  <2>9. KeptIn(Outlasting) /\ Lasting(running.does) => KeptIn(Outlasting)'
    BY <2>3, <2>6, <2>7 DEF KeptIn
  <2>10. PairsKept'
    BY <1>1, <1>2, <2>1 DEF PairsKept
  <2> QED
    BY <1>1, <1>2, <2>1, <2>5, <2>8, <2>9, <2>10, StepCareful
<1>5. CASE DoGet \/ DoText \/ DoFinish
  <2>1. /\ UNCHANGED <<context, headers, lastSet, strings>>
        /\ gotten' = frame \/ (gotten' = gotten /\ Doing1.op # "get")
    BY <1>5 DEF DoGet, DoText, DoFinish, Doing, Doing1
  <2>2. cont' \subseteq Seq(StepsOf(app.keys)) /\ \A does \in cont' : GetsFirst(does)
    BY <1>2, <1>5 DEF DoGet, DoText, DoFinish
  <2>3. answers # <<>> \/ Doing1.op = "text" => answers' # <<>>
    <3>1. answers \in Seq(Nat) /\ Append(answers, 200) # <<>>
      BY DEF ReadInv, DispatchInv
    <3>2. CASE DoText
      BY <3>1, <3>2 DEF DoText
    <3>3. CASE DoGet \/ DoFinish
      BY <3>3 DEF DoGet, DoFinish, Doing, Doing1
    <3> QED
      BY <1>5, <3>2, <3>3
  <2>4. KeptIn(Outlasting \cup {frame})' /\ (KeptIn(Outlasting) => KeptIn(Outlasting)')
    BY <1>1, <2>1 DEF KeptIn, Outlasting
  <2>5. PairsKept'
    BY <1>1, <1>2, <2>1 DEF PairsKept
  <2> QED
    BY <1>1, <1>2, <2>1, <2>2, <2>3, <2>4, <2>5, StepCareful
<1> QED
  BY <1>3, <1>4, <1>5

(* What the steps of a call read *)
LEMMA DoReads ==
  ASSUME ReadInv, DoSet \/ DoHeader \/ DoGet \/ DoText \/ DoFinish
  PROVE  \A r \in readings' : r.alive /\ r.id = r.want
<1>1. dpc = "call" /\ running.does # <<>>
  BY DEF DoSet, DoHeader, DoGet, DoText, DoFinish, Doing
<1>2. KeptIn(places)
  <2>1. Outlasting \cup {frame} \subseteq places /\ KeptIn(Outlasting \cup {frame})
    BY <1>1 DEF ReadInv, PlacesAlive, CallLeaves, Outlasting
  <2> QED
    BY <2>1 DEF KeptIn
<1>3. CASE DoSet \/ DoHeader \/ DoFinish
  BY <1>3 DEF DoSet, DoHeader, DoFinish
<1>4. CASE DoGet
  <2>1. PICK k : k = Doing1.key
    OBVIOUS
  <2>2. k \in app.keys
    <3>1. running.does \in Seq(StepsOf(app.keys)) /\ Doing1.op = "get"
      BY <1>4 DEF ReadInv, DispatchTypes, RunningOf, DoGet, Doing, Doing1
    <3> QED
      BY <1>1, <2>1, <3>1, TailIs, StepIs DEF Doing1
  <2>3. TAKE r \in readings'
  <2>4. CASE \E i \in DOMAIN context : context[i].key = k
    <3>1. PICK i \in DOMAIN context : context[i].key = k /\ r = Reading(context[i].val, lastSet[k])
      BY <1>4, <2>1, <2>3, <2>4 DEF DoGet
    <3>2. context[i].val.at \in places /\ context[i].val.id = lastSet[k]
      BY <1>2, <3>1 DEF KeptIn, ReadInv, PairsKept
    <3> QED
      BY <3>1, <3>2 DEF Reading
  <2>5. CASE ~\E i \in DOMAIN context : context[i].key = k
    <3>1. r = Reading([id |-> 0, at |-> StaticMemory], lastSet[k])
      BY <1>4, <2>1, <2>3, <2>5 DEF DoGet
    <3>2. lastSet[k] = 0 /\ StaticMemory \in places
      BY <2>2, <2>5 DEF ReadInv, PairsKept, PlacesAlive
    <3> QED
      BY <3>1, <3>2 DEF Reading
  <2> QED
    BY <2>4, <2>5
<1>5. CASE DoText
  <2>1. PICK s : s = String(Doing1.from)
    OBVIOUS
  <2>2. s \in Texts /\ s.at \in places
    BY <1>1, <1>5, <2>1, StringIs DEF DoText, Doing, Doing1
  <2>3. readings' = {} \/ readings' = Readings(Append(headers, s))
    BY <1>5, <2>1 DEF DoText
  <2>4. headers \in Seq(Texts)
    BY DEF ReadInv, DispatchTypes
  <2>5. \A i \in DOMAIN Append(headers, s) :
          Append(headers, s)[i] = s \/ (i \in DOMAIN headers /\ Append(headers, s)[i] = headers[i])
    BY <2>2, <2>4
  <2>6. \A i \in DOMAIN Append(headers, s) : Append(headers, s)[i].at \in places
    BY <1>2, <2>2, <2>5 DEF KeptIn
  <2> QED
    BY <2>3, <2>6, ReadingsGood
<1> QED
  BY <1>3, <1>4, <1>5

(* The call returns: what is left lies in its frame only if nothing will   *)
(* read it.                                                                *)
LEMMA ReturnCareful ==
  ASSUME ReadInv, DispatchInv', CallReturns
  PROVE  ReadInv'
<1>1. /\ dpc = "call" /\ running.does = <<>> /\ running' = NotCalled
      /\ places' = places \ {frame}
      /\ UNCHANGED <<app, chain, frame, fields, context, headers, gotten, cont, strings, lastSet>>
  BY DEF CallReturns
<1>2. DispatchTypes'
  <2>1. NotCalled \in RunningOf(app.keys)
    BY DEF NotCalled, RunningOf
  <2> QED
    BY <1>1, <2>1 DEF ReadInv, DispatchTypes
<1>3. CallsCareful'
  BY <1>1 DEF ReadInv, CallsCareful, NotCalled, GetsFirst
<1>4. PairsKept'
  BY <1>1 DEF ReadInv, PairsKept
<1>5. /\ dpc' = (IF running.after = "middleware" /\ (running.ret # 0 \/ answers # <<>>)
                 THEN "after" ELSE running.after)
      /\ answers' = (IF running.after = "done" /\ answers = <<>> THEN <<500>> ELSE answers)
      /\ running.after \in {"middleware", "after", "done"}
  BY DEF CallReturns, ReadInv, DispatchInv
<1>6. PlacesAlive'
  <2>1. frame \in Nat /\ frame # 0 /\ StaticMemory # frame /\ fields # frame
    BY <1>1 DEF ReadInv, DispatchTypes, PlacesAlive, StaticMemory, RequestBytes, ParkedArena
  <2>2. StaticMemory \in places /\ fields \in places /\ dpc' # "call"
    BY <1>1, <1>5 DEF ReadInv, PlacesAlive
  <2> QED
    BY <1>1, <2>1, <2>2 DEF PlacesAlive
<1>7. CallLeaves'
  BY <1>5 DEF CallLeaves
<1>8. answers # <<>> \/ running.after = "done" \/ KeptIn(Outlasting)
  BY <1>1 DEF ReadInv, CallLeaves, Responds
<1>9. KeptIn(Outlasting) => KeptIn(Outlasting)'
  BY <1>1 DEF KeptIn, Outlasting
<1>10. Lasts'
  BY <1>5, <1>8, <1>9 DEF Lasts
<1> QED
  BY <1>2, <1>3, <1>4, <1>6, <1>7, <1>10 DEF ReadInv

(* Everything that is kept for the continuation is alive, and moved.       *)
LEMMA RetainCareful ==
  ASSUME ReadInv, DispatchInv', Retain
  PROVE  ReadInv' /\ \A r \in readings' : r.alive /\ r.id = r.want
<1> DEFINE values == [i \in DOMAIN context |-> context[i].val]
<1>1. /\ dpc = "after" /\ answers = <<>> /\ dpc' = "parked" /\ fields' = ParkedArena
      /\ readings' = Readings(headers \o values)
      /\ context' = [i \in DOMAIN context |-> [context[i] EXCEPT !.val = Moved(@)]]
      /\ headers' = [i \in DOMAIN headers |-> Moved(headers[i])]
      /\ places' = (places \ {RequestBytes}) \cup {ParkedArena}
      /\ UNCHANGED <<app, chain, running, frame, gotten, cont, answers, strings, lastSet>>
  BY DEF Retain
<1>2. /\ headers \in Seq(Texts) /\ context \in Seq(PairsOf(app.keys))
      /\ \A i \in DOMAIN context : context[i].val \in Texts
  <2>1. headers \in Seq(Texts) /\ context \in Seq(PairsOf(app.keys))
    BY DEF ReadInv, DispatchTypes
  <2>2. \A p \in PairsOf(app.keys) : p.val \in Texts
    BY DEF PairsOf
  <2>3. \A i \in DOMAIN context : context[i] \in PairsOf(app.keys)
    BY <2>1, SeqIs
  <2> QED
    BY <2>1, <2>2, <2>3
<1>3. KeptIn(places)
  <2>1. Outlasting \subseteq places /\ KeptIn(Outlasting)
    BY <1>1 DEF ReadInv, PlacesAlive, Lasts, Outlasting
  <2> QED
    BY <2>1 DEF KeptIn
<1>4. \A r \in readings' : r.alive /\ r.id = r.want
  <2>1. values \in Seq(Texts) /\ DOMAIN values = DOMAIN context
        /\ \A i \in DOMAIN context : values[i] = context[i].val
    <3>1. values \in [1 .. Len(context) -> Texts] /\ Len(context) \in Nat
      BY <1>2, SeqIs
    <3> QED
      BY <3>1, SeqIs
  <2>2. \A i \in DOMAIN values : values[i].at \in places
    BY <1>3, <2>1 DEF KeptIn
  <2>3. \A i \in DOMAIN headers : headers[i].at \in places
    BY <1>3 DEF KeptIn
  <2> HIDE DEF values
  <2>4. \A i \in DOMAIN (headers \o values) : (headers \o values)[i].at \in places
    BY <1>2, <2>1, <2>2, <2>3
  <2> QED
    BY <1>1, <2>4, ReadingsGood DEF values
<1>5. \A s \in Texts : Moved(s) \in Texts /\ Moved(s).id = s.id /\ Moved(s).at = ParkedArena
  BY DEF Moved, Texts, ParkedArena
<1>6. /\ DOMAIN context' = DOMAIN context
      /\ \A i \in DOMAIN context : /\ context'[i] \in PairsOf(app.keys) /\ context'[i].key = context[i].key
                                    /\ context'[i].val = Moved(context[i].val)
  <2>1. \A p \in PairsOf(app.keys) : \A v \in Texts :
          /\ [p EXCEPT !.val = v] \in PairsOf(app.keys) /\ [p EXCEPT !.val = v].key = p.key
          /\ [p EXCEPT !.val = v].val = v
    BY DEF PairsOf
  <2>2. \A i \in DOMAIN context : context[i] \in PairsOf(app.keys)
    BY <1>2, SeqIs
  <2>3. \A i \in DOMAIN context : context'[i] = [context[i] EXCEPT !.val = Moved(context[i].val)]
    BY <1>1
  <2>4. \A i \in DOMAIN context : Moved(context[i].val) \in Texts
    BY <1>2, <1>5
  <2> QED
    BY <1>1, <2>1, <2>2, <2>3, <2>4
<1>7. context' \in Seq(PairsOf(app.keys))
  <2>1. context' \in [1 .. Len(context) -> PairsOf(app.keys)] /\ Len(context) \in Nat
    BY <1>1, <1>2, <1>6, SeqIs
  <2> QED
    BY <2>1, SeqIs
<1>8. headers' \in Seq(Texts)
  <2>1. headers' \in [1 .. Len(headers) -> Texts] /\ Len(headers) \in Nat
    BY <1>1, <1>2, <1>5, SeqIs
  <2> QED
    BY <2>1, SeqIs
<1>9. DispatchTypes'
  BY <1>1, <1>7, <1>8 DEF ReadInv, DispatchTypes
<1>10. CallsCareful'
  BY <1>1 DEF ReadInv, CallsCareful
<1>11. PairsKept'
  <2>1. \A i \in DOMAIN context : context'[i].val.id = context[i].val.id
    BY <1>2, <1>5, <1>6
  <2>2. \A i \in DOMAIN context' : context'[i].val.id = lastSet[context'[i].key]
    BY <1>6, <2>1 DEF ReadInv, PairsKept
  <2>3. \A i, j \in DOMAIN context' : context'[i].key = context'[j].key => i = j
    BY <1>6 DEF ReadInv, PairsKept
  <2>4. \A k \in app.keys : lastSet[k] # 0 => \E i \in DOMAIN context' : context'[i].key = k
    BY <1>6 DEF ReadInv, PairsKept
  <2> QED
    BY <1>1, <2>2, <2>3, <2>4 DEF PairsKept
<1>12. PlacesAlive'
  BY <1>1 DEF ReadInv, PlacesAlive, StaticMemory, RequestBytes
<1>13. KeptIn(Outlasting)'
  <2>1. ParkedArena \in Outlasting'
    BY <1>1 DEF Outlasting
  <2>2. \A i \in DOMAIN context' : context'[i].val.at = ParkedArena
    BY <1>2, <1>5, <1>6
  <2>3. \A i \in DOMAIN headers' : headers'[i].at = ParkedArena
    <3>1. DOMAIN headers' = DOMAIN headers /\ \A i \in DOMAIN headers : headers'[i] = Moved(headers[i])
      BY <1>1
    <3> QED
      BY <1>2, <1>5, <3>1, SeqIs
  <2> QED
    BY <2>1, <2>2, <2>3 DEF KeptIn
<1>14. CallLeaves' /\ Lasts'
  BY <1>1, <1>13 DEF CallLeaves, Lasts
<1> QED
  BY <1>4, <1>9, <1>10, <1>11, <1>12, <1>14 DEF ReadInv

LEMMA ReadStep ==
  ASSUME ReadInv, ReadsWhatWasSet, \A a \in Apps : Careful(a), [DispatchNext]_dispatchVars
  PROVE  ReadInv' /\ ReadsWhatWasSet'
<1>1. DispatchInv'
  BY StepKeeps DEF ReadInv
<1>2. CASE CallMiddleware \/ CallHandler \/ Continue
  BY <1>2, Calling DEF ReadsWhatWasSet
<1>3. CASE DoSet \/ DoHeader \/ DoGet \/ DoText \/ DoFinish
  BY <1>1, <1>3, DoCareful, DoReads DEF ReadsWhatWasSet
<1>4. CASE CallReturns
  BY <1>1, <1>4, ReturnCareful DEF ReadsWhatWasSet, CallReturns
<1>5. CASE Retain
  BY <1>1, <1>5, RetainCareful DEF ReadsWhatWasSet
<1>6. CASE SkipMiddleware
  <2>1. chain \in Seq(HandlersOf(app.keys)) /\ chain # <<>> /\ chain' = Tail(chain) /\ readings' = {}
        /\ UNCHANGED <<app, dpc, running, places, frame, fields, context, headers, gotten, cont,
                       answers, strings, lastSet>>
    BY <1>6 DEF SkipMiddleware, ReadInv, DispatchTypes
  <2>2. chain' \in Seq(HandlersOf(app.keys)) /\ \A i \in DOMAIN chain' : CarefulCall(chain'[i])
    BY <2>1, TailIs DEF ReadInv, CallsCareful
  <2>3. DispatchTypes' /\ CallsCareful' /\ PairsKept' /\ PlacesAlive'
    BY <2>1, <2>2 DEF ReadInv, DispatchTypes, CallsCareful, PairsKept, PlacesAlive
  <2>4. CallLeaves' /\ Lasts'
    BY <2>1 DEF ReadInv, CallLeaves, Lasts, KeptIn, Outlasting
  <2> QED
    BY <1>1, <2>1, <2>3, <2>4 DEF ReadInv, ReadsWhatWasSet
<1>7. CASE MiddlewareDone \/ NotFound \/ EndDispatch \/ ExitDispatch \/ Failed
  <2>1. /\ UNCHANGED <<app, chain, running, frame, fields, context, headers, gotten, cont, strings, lastSet>>
        /\ readings' = {}
    BY <1>7 DEF MiddlewareDone, NotFound, EndDispatch, ExitDispatch, Failed
  <2>2. DispatchTypes' /\ CallsCareful' /\ PairsKept'
    BY <2>1 DEF ReadInv, DispatchTypes, CallsCareful, PairsKept
  <2>3. dpc' \in {"route", "after", "done", "exited"} /\ dpc # "call"
    BY <1>7 DEF MiddlewareDone, NotFound, EndDispatch, ExitDispatch, Failed
  <2>4. PlacesAlive'
    BY <1>7, <2>1, <2>3
    DEF ReadInv, PlacesAlive, StaticMemory, RequestBytes, MiddlewareDone, NotFound, EndDispatch, ExitDispatch, Failed
  <2>5. dpc' \in {"route", "after"} => KeptIn(Outlasting)
    BY <1>7 DEF ReadInv, Lasts, MiddlewareDone, NotFound, EndDispatch, ExitDispatch, Failed
  <2>6. CallLeaves' /\ Lasts'
    BY <2>1, <2>3, <2>5 DEF CallLeaves, Lasts, KeptIn, Outlasting
  <2> QED
    BY <1>1, <2>1, <2>2, <2>4, <2>6 DEF ReadInv, ReadsWhatWasSet
<1>8. CASE UNCHANGED dispatchVars
  <2>1. DispatchTypes' /\ CallsCareful' /\ PairsKept' /\ PlacesAlive'
    BY <1>8 DEF dispatchVars, ReadInv, DispatchTypes, CallsCareful, PairsKept, PlacesAlive
  <2>2. CallLeaves' /\ Lasts' /\ ReadsWhatWasSet'
    BY <1>8 DEF dispatchVars, ReadInv, CallLeaves, Lasts, KeptIn, Outlasting, ReadsWhatWasSet
  <2> QED
    BY <1>1, <2>1, <2>2 DEF ReadInv
<1> QED
  BY <1>2, <1>3, <1>4, <1>5, <1>6, <1>7, <1>8 DEF DispatchNext

LEMMA ReadStart ==
  ASSUME DispatchInit, \A a \in Apps : Careful(a)
  PROVE  ReadInv /\ ReadsWhatWasSet
<1>1. DispatchInv
  BY DEF DispatchInit, DispatchInv, Stages, NotCalled
<1>2. /\ app \in Apps /\ dpc = "middleware" /\ chain = app.middleware /\ running = NotCalled
      /\ places = {StaticMemory, RequestBytes} /\ frame = 0
      /\ fields = RequestBytes /\ context = <<>> /\ headers = <<>> /\ gotten = StaticMemory
      /\ cont = {} /\ answers = <<>> /\ strings = 0 /\ lastSet = [k \in app.keys |-> 0] /\ readings = {}
  BY DEF DispatchInit
<1>3. DispatchTypes
  BY <1>2 DEF DispatchTypes, RunningOf, NotCalled, StaticMemory, Careful
<1>4. CallsCareful
  BY <1>2 DEF CallsCareful, Careful, NotCalled, GetsFirst
<1>5. PairsKept /\ PlacesAlive /\ CallLeaves /\ Lasts
  BY <1>2 DEF PairsKept, PlacesAlive, CallLeaves, Lasts, KeptIn
<1> QED
  BY <1>1, <1>2, <1>3, <1>4, <1>5 DEF ReadInv, ReadsWhatWasSet

(* In an application whose calls use up what they build, whatever is read  *)
(* of the context and the headers - by a later handler, by the response,   *)
(* when the request is kept for its continuation, by the continuation - is *)
(* what was put there last, in memory that is still alive: the one thing   *)
(* an application must not do with http.set is keep a string it built.     *)
THEOREM CarefulReadsWhatWasSet ==
  ASSUME \A a \in Apps : Careful(a)
  PROVE  DispatchSpec => []ReadsWhatWasSet
<1>1. DispatchInit => ReadInv /\ ReadsWhatWasSet
  BY ReadStart
<1>2. (ReadInv /\ ReadsWhatWasSet) /\ [DispatchNext]_dispatchVars => (ReadInv /\ ReadsWhatWasSet)'
  BY ReadStep
<1> QED
  BY <1>1, <1>2, PTL DEF DispatchSpec
==============================================================================
