------------------------- MODULE GpuWorkspace_proofs -------------------------
(***************************************************************************)
(* What the host reads of a GPU job is what its kernels computed from what *)
(* its request sent, whatever the number of workspaces, handlers and jobs, *)
(* when handlers use the workspaces in order.                              *)
(*                                                                         *)
(* The stream is the difficulty: the mirror a copy goes through is written *)
(* at once, the buffer later, and what a kernel will find depends on all   *)
(* that is queued before it.  The invariant says of each place in the      *)
(* stream what is known of the buffers there.                              *)
(***************************************************************************)
EXTENDS GpuWorkspace, FiniteSetTheorems, TLAPS

(* What a buffer or a mirror holds, what is queued, and what a request has *)
(* copied to the device                                                    *)
Held == [of : Nat, stage : Nat]
Ops == [op : {"copy", "launch", "back"}, src : Slots, dst : Slots]
Sent == [of |-> jobs, stage |-> 0]

WorkspaceTypes ==
  /\ family \in Families
  /\ handler \in Seq(Steps) /\ gpc \in {"idle", "runs", "reads", "parked"} /\ jobs \in Nat
  /\ device \in [Slots -> Held] /\ pinned \in [Slots -> Held] /\ meant \in [Slots -> Held]
  /\ borrowed \subseteq Slots /\ copied \subseteq Slots
  /\ gpuStream \in Seq(Ops)
  /\ gpc = "reads" => handler # <<>> /\ Head(handler).op = "read"

(* The handler that runs has done k of the steps of h. *)
HasDone(h, k) ==
  /\ h \in family /\ k \in 0 .. Len(h)
  /\ Len(handler) = Len(h) - k /\ \A i \in DOMAIN handler : handler[i] = h[k + i]
  /\ \A i \in 1 .. k : h[i].op # "finish"
  /\ DoneTo(h, "borrow", k) \subseteq borrowed /\ DoneTo(h, "copy", k) \subseteq copied
  /\ \A s \in Slots : meant[s].stage > 0 => s \in DoneTo(h, "launch", k)
  /\ AllFinish(family) => borrowed = DoneTo(h, "borrow", k) /\ copied = DoneTo(h, "copy", k)

FlagsInv ==
  /\ \A inputs \in SUBSET Slots : Inputs(family, inputs) => copied \subseteq inputs
  /\ AllFinish(family) /\ gpc = "idle" => borrowed = {} /\ copied = {}

(* What is known of the buffers before and after each operation that is    *)
(* queued: known[i][s] has the value that buffer s will hold when i of     *)
(* them are done, or is empty if nothing is known.                         *)
Follows(e, before, after, mirrors, sent) ==
  /\ \A t \in Slots : e.op = "back" \/ t # e.dst => after[t] \subseteq before[t]
  /\ e.op = "copy" => \A v \in after[e.dst] : v = sent /\ mirrors[e.dst] = sent
  /\ e.op = "launch" => \A v \in after[e.dst] : \E u \in before[e.src] : v = Result(u)

Known(known, stream, buffers, mirrors, sent) ==
  /\ known \in [0 .. Len(stream) -> [Slots -> SUBSET Held]]
  /\ \A s \in Slots : \A v \in known[0][s] : buffers[s] = v
  /\ \A i \in 1 .. Len(stream) : Follows(stream[i], known[i - 1], known[i], mirrors, sent)

(* What the host will read when the stream is empty *)
Due == IF gpc = "parked" THEN {s \in Slots : meant[s].stage > 0}
       ELSE IF gpc = "reads" THEN {Slot} ELSE {}

(* Its copies back come last, and copy what they should. *)
CopiesBack(known) ==
  /\ gpc \in {"idle", "runs"} => \A i \in DOMAIN gpuStream : gpuStream[i].op # "back"
  /\ \A i, j \in DOMAIN gpuStream : i < j /\ gpuStream[i].op = "back" => gpuStream[j].op = "back"
  /\ \A i \in DOMAIN gpuStream :
       gpuStream[i].op = "back" /\ gpuStream[i].src \in Due
         => meant[gpuStream[i].src] \in known[i - 1][gpuStream[i].src]
  /\ \A s \in Due :
       pinned[s] = meant[s] \/ \E i \in DOMAIN gpuStream : gpuStream[i].op = "back" /\ gpuStream[i].src = s

StreamInv(known) == Known(known, gpuStream, device, pinned, Sent) /\ CopiesBack(known)

RunsInv(h, k, known) ==
  gpc \in {"runs", "reads"} =>
    HasDone(h, k) /\ \A s \in Written(h, k) : meant[s] \in known[Len(gpuStream)][s]

WorkspaceInv ==
  WorkspaceTypes /\ FlagsInv /\ \E h, k, known : StreamInv(known) /\ RunsInv(h, k, known)

----------------------------------------------------------------------------
LEMMA SeqFacts ==
  ASSUME NEW S
  PROVE  /\ \A q \in Seq(S) : Len(q) \in Nat /\ DOMAIN q = 1 .. Len(q) /\ \A i \in DOMAIN q : q[i] \in S
         /\ \A n \in Nat : \A q \in [1 .. n -> S] : q \in Seq(S) /\ Len(q) = n
  OBVIOUS

LEMMA OpsIs ==
  ASSUME NEW stream \in Seq(Ops)
  PROVE  /\ Len(stream) \in Nat /\ DOMAIN stream = 1 .. Len(stream)
         /\ \A i \in 1 .. Len(stream) : stream[i] \in Ops /\ stream[i].src \in Slots /\ stream[i].dst \in Slots
<1>1. \A e \in Ops : e.src \in Slots /\ e.dst \in Slots
  BY DEF Ops
<1> QED
  BY <1>1, SeqFacts

LEMMA HeadTail ==
  ASSUME NEW S, NEW q \in Seq(S), q # <<>>
  PROVE  /\ Tail(q) \in Seq(S) /\ Head(q) \in S /\ Head(q) = q[1] /\ 1 \in DOMAIN q
         /\ Len(Tail(q)) = Len(q) - 1
         /\ \A i \in DOMAIN Tail(q) : i + 1 \in DOMAIN q /\ Tail(q)[i] = q[i + 1]
         /\ \A i \in DOMAIN q : i # 1 => i - 1 \in DOMAIN Tail(q) /\ Tail(q)[i - 1] = q[i]
  OBVIOUS

LEMMA AppendIs ==
  ASSUME NEW S, NEW q \in Seq(S), NEW e \in S
  PROVE  /\ Append(q, e) \in Seq(S) /\ Len(Append(q, e)) = Len(q) + 1 /\ Len(q) \in Nat
         /\ \A i \in 1 .. Len(q) : Append(q, e)[i] = q[i]
         /\ Append(q, e)[Len(q) + 1] = e
  OBVIOUS

LEMMA ConcatIs ==
  ASSUME NEW S, NEW q \in Seq(S), NEW r \in Seq(S)
  PROVE  /\ q \o r \in Seq(S) /\ Len(q \o r) = Len(q) + Len(r)
         /\ \A i \in 1 .. Len(q) : (q \o r)[i] = q[i]
         /\ \A i \in Len(q) + 1 .. Len(q) + Len(r) : (q \o r)[i] = r[i - Len(q)]
  OBVIOUS

LEMMA StepTypes ==
  ASSUME NEW e \in Steps
  PROVE  /\ e.op \in {"borrow", "copy", "read", "launch", "finish"}
         /\ e.op # "finish" => e.src \in Slots /\ e.dst \in Slots
         /\ e.op \in {"copy", "launch"} => e \in Ops
  BY DEF Steps, Finish, Ops

LEMMA ResultIs ==
  ASSUME NEW v \in Held
  PROVE  Result(v) \in Held /\ Result(v).stage > 0
  BY DEF Held, Result

(* The next step of a handler, and what it has done after it *)
LEMMA DoneNext ==
  ASSUME NEW h, NEW k \in Nat, k + 1 \in DOMAIN h, DOMAIN h \subseteq Nat, NEW op
  PROVE  DoneTo(h, op, k + 1) = DoneTo(h, op, k) \cup IF h[k + 1].op = op THEN {h[k + 1].dst} ELSE {}
<1>1. \A i \in DOMAIN h : i <= k + 1 <=> i <= k \/ i = k + 1
  OBVIOUS
<1> QED
  BY <1>1 DEF DoneTo

LEMMA DoneGrows ==
  ASSUME NEW h, NEW k \in Nat, NEW n \in Nat, k <= n, DOMAIN h \subseteq Nat, NEW op
  PROVE  DoneTo(h, op, k) \subseteq DoneTo(h, op, n)
<1>1. \A i \in DOMAIN h : i <= k => i <= n
  OBVIOUS
<1> QED
  BY <1>1 DEF DoneTo

(* What is known stays known behind what is queued next. *)
LEMMA Queued ==
  ASSUME NEW stream \in Seq(Ops), NEW known, NEW buffers, NEW mirrors, NEW sent,
         Known(known, stream, buffers, mirrors, sent),
         NEW e \in Ops, NEW last \in [Slots -> SUBSET Held],
         Follows(e, known[Len(stream)], last, mirrors, sent)
  PROVE  \E more : /\ Known(more, Append(stream, e), buffers, mirrors, sent)
                   /\ more[Len(stream) + 1] = last
                   /\ \A i \in 0 .. Len(stream) : more[i] = known[i]
<1> DEFINE n == Len(stream)
           more == [i \in 0 .. n + 1 |-> IF i <= n THEN known[i] ELSE last]
<1>1. /\ n \in Nat /\ Len(Append(stream, e)) = n + 1
      /\ \A i \in 1 .. n : Append(stream, e)[i] = stream[i]
      /\ Append(stream, e)[n + 1] = e
  BY AppendIs
<1> HIDE DEF n
<1>2. known \in [0 .. n -> [Slots -> SUBSET Held]]
  BY DEF Known, n
<1>3. more \in [0 .. n + 1 -> [Slots -> SUBSET Held]]
  BY <1>1, <1>2
<1>4. more[n + 1] = last /\ \A i \in 0 .. n : more[i] = known[i]
  BY <1>1
<1> HIDE DEF more
<1>5. \A i \in 1 .. n + 1 : Follows(Append(stream, e)[i], more[i - 1], more[i], mirrors, sent)
  <2>1. TAKE i \in 1 .. n + 1
  <2>2. CASE i = n + 1
    <3>1. more[i - 1] = known[n] /\ more[i] = last
      BY <1>1, <1>4, <2>2
    <3> QED
      BY <1>1, <2>2, <3>1 DEF n
  <2>3. CASE i \in 1 .. n
    <3>1. more[i - 1] = known[i - 1] /\ more[i] = known[i]
      BY <1>1, <1>4, <2>3
    <3> QED
      BY <1>1, <2>3, <3>1 DEF Known, n
  <2> QED
    BY <1>1, <2>2, <2>3
<1>6. \A s \in Slots : \A v \in more[0][s] : buffers[s] = v
  BY <1>1, <1>4 DEF Known
<1>7. Known(more, Append(stream, e), buffers, mirrors, sent)
  BY <1>1, <1>3, <1>5, <1>6 DEF Known
<1> QED
  BY <1>4, <1>7 DEF n

(* Copies back change no buffer. *)
LEMMA QueuedBack ==
  ASSUME NEW stream \in Seq(Ops), NEW known, NEW buffers, NEW mirrors, NEW sent,
         Known(known, stream, buffers, mirrors, sent),
         NEW backs \in Seq(Ops), \A i \in DOMAIN backs : backs[i].op = "back"
  PROVE  \E more : /\ Known(more, stream \o backs, buffers, mirrors, sent)
                   /\ \A i \in 0 .. Len(stream) : more[i] = known[i]
                   /\ \A i \in Len(stream) .. Len(stream) + Len(backs) : more[i] = known[Len(stream)]
<1> DEFINE n == Len(stream)
           m == Len(backs)
           more == [i \in 0 .. n + m |-> IF i <= n THEN known[i] ELSE known[n]]
<1>1. /\ n \in Nat /\ m \in Nat /\ Len(stream \o backs) = n + m
      /\ \A i \in 1 .. n : (stream \o backs)[i] = stream[i]
      /\ \A i \in n + 1 .. n + m : (stream \o backs)[i] = backs[i - n]
  OBVIOUS
<1>2. \A i \in n + 1 .. n + m : (stream \o backs)[i].op = "back"
  <2>1. \A i \in n + 1 .. n + m : i - n \in DOMAIN backs
    BY <1>1
  <2> QED
    BY <1>1, <2>1
<1> HIDE DEF n, m
<1>3. known \in [0 .. n -> [Slots -> SUBSET Held]]
  BY DEF Known, n
<1>4. more \in [0 .. n + m -> [Slots -> SUBSET Held]]
  BY <1>1, <1>3
<1>5. (\A i \in 0 .. n : more[i] = known[i]) /\ \A i \in n .. n + m : more[i] = known[n]
  BY <1>1
<1> HIDE DEF more
<1>6. \A i \in 1 .. n + m : Follows((stream \o backs)[i], more[i - 1], more[i], mirrors, sent)
  <2>1. TAKE i \in 1 .. n + m
  <2>2. CASE i \in n + 1 .. n + m
    <3>1. more[i - 1] = known[n] /\ more[i] = known[n]
      BY <1>1, <1>5, <2>2
    <3> QED
      BY <1>2, <2>2, <3>1 DEF Follows
  <2>3. CASE i \in 1 .. n
    <3>1. more[i - 1] = known[i - 1] /\ more[i] = known[i]
      BY <1>1, <1>5, <2>3
    <3> QED
      BY <1>1, <2>3, <3>1 DEF Known, n
  <2> QED
    BY <1>1, <2>2, <2>3
<1>7. \A s \in Slots : \A v \in more[0][s] : buffers[s] = v
  BY <1>1, <1>5 DEF Known
<1>8. Known(more, stream \o backs, buffers, mirrors, sent)
  BY <1>1, <1>4, <1>6, <1>7 DEF Known
<1> QED
  BY <1>5, <1>8 DEF n, m

(* A mirror that is written with what the request sends spoils nothing.    *)
LEMMA Mirrored ==
  ASSUME NEW stream, NEW known, NEW buffers, NEW mirrors \in [Slots -> Held], NEW sent, NEW s \in Slots,
         stream \in Seq(Ops), Known(known, stream, buffers, mirrors, sent)
  PROVE  Known(known, stream, buffers, [mirrors EXCEPT ![s] = sent], sent)
<1>1. \A t \in Slots : mirrors[t] = sent => [mirrors EXCEPT ![s] = sent][t] = sent
  OBVIOUS
<1>2. \A i \in 1 .. Len(stream) : stream[i].dst \in Slots
  BY OpsIs
<1>3. \A i \in 1 .. Len(stream) : Follows(stream[i], known[i - 1], known[i], [mirrors EXCEPT ![s] = sent], sent)
  BY <1>1, <1>2 DEF Known, Follows
<1> QED
  BY <1>3 DEF Known

(* Nothing is known, of any stream. *)
LEMMA NothingKnown ==
  ASSUME NEW stream \in Seq(Ops), NEW buffers, NEW mirrors, NEW sent
  PROVE  Known([i \in 0 .. Len(stream) |-> [s \in Slots |-> {}]], stream, buffers, mirrors, sent)
<1> DEFINE n == Len(stream)
           known == [i \in 0 .. n |-> [s \in Slots |-> {}]]
<1>1. n \in Nat /\ \A i \in 1 .. n : stream[i].dst \in Slots /\ stream[i].src \in Slots
  BY OpsIs
<1> HIDE DEF n
<1>2. known \in [0 .. n -> [Slots -> SUBSET Held]]
  OBVIOUS
<1>3. \A i \in 0 .. n : \A s \in Slots : known[i][s] = {}
  OBVIOUS
<1>4. 0 \in 0 .. n /\ \A i \in 1 .. n : i - 1 \in 0 .. n /\ i \in 0 .. n
  BY <1>1
<1> HIDE DEF known
<1>5. \A i \in 1 .. n : Follows(stream[i], known[i - 1], known[i], mirrors, sent)
  BY <1>1, <1>3, <1>4 DEF Follows
<1>6. Known(known, stream, buffers, mirrors, sent)
  BY <1>2, <1>3, <1>4, <1>5 DEF Known, n
<1> QED
  BY <1>6 DEF known, n

(* The device does the first operation; what was known after it is known   *)
(* at once then.                                                           *)
Does(stream, buffers, mirrors, buffers2, mirrors2) ==
  \/ /\ Head(stream).op = "copy" /\ mirrors2 = mirrors
     /\ buffers2 = [buffers EXCEPT ![Head(stream).dst] = mirrors[Head(stream).dst]]
  \/ /\ Head(stream).op = "launch" /\ mirrors2 = mirrors
     /\ buffers2 = [buffers EXCEPT ![Head(stream).dst] = Result(buffers[Head(stream).src])]
  \/ /\ Head(stream).op = "back" /\ buffers2 = buffers
     /\ \A i \in DOMAIN stream : stream[i].op = "back"
Left(rest, known, n) == \A i \in 0 .. n - 1 : rest[i] = known[i + 1]

LEMMA DoneFirst ==
  ASSUME NEW stream \in Seq(Ops), stream # <<>>, NEW known, NEW sent,
         NEW buffers \in [Slots -> Held], NEW mirrors \in [Slots -> Held],
         NEW buffers2, NEW mirrors2,
         Known(known, stream, buffers, mirrors, sent),
         Does(stream, buffers, mirrors, buffers2, mirrors2)
  PROVE  \E rest : Known(rest, Tail(stream), buffers2, mirrors2, sent) /\ Left(rest, known, Len(stream))
<1> DEFINE n == Len(stream)
           rest == [i \in 0 .. n - 1 |-> known[i + 1]]
           e == Head(stream)
<1>1. /\ n \in Nat /\ n > 0 /\ Len(Tail(stream)) = n - 1 /\ DOMAIN stream = 1 .. n
      /\ \A i \in 1 .. n - 1 : Tail(stream)[i] = stream[i + 1]
      /\ e = stream[1] /\ e \in Ops
  BY HeadTail
<1> HIDE DEF n, e
<1>2. known \in [0 .. n -> [Slots -> SUBSET Held]]
  BY DEF Known, n
<1>3. rest \in [0 .. n - 1 -> [Slots -> SUBSET Held]]
  BY <1>1, <1>2
<1>4. \A i \in 0 .. n - 1 : rest[i] = known[i + 1]
  OBVIOUS
<1> HIDE DEF rest
<1>5. Follows(e, known[0], known[1], mirrors, sent)
  BY <1>1 DEF Known, n
<1>6. \A s \in Slots : \A v \in known[1][s] : buffers2[s] = v
  <2>1. \A s \in Slots : \A v \in known[0][s] : buffers[s] = v
    BY DEF Known
  <2>2. e.src \in Slots /\ e.dst \in Slots
    BY <1>1 DEF Ops
  <2>3. CASE e.op = "copy"
    BY <1>5, <2>1, <2>2, <2>3 DEF Follows, Does, e
  <2>4. CASE e.op = "launch"
    <3>1. buffers2 = [buffers EXCEPT ![e.dst] = Result(buffers[e.src])]
      BY <2>4 DEF Does, e
    <3>2. \A v \in known[1][e.dst] : v = Result(buffers[e.src])
      BY <1>5, <2>1, <2>2, <2>4 DEF Follows
    <3>3. \A s \in Slots : s # e.dst => known[1][s] \subseteq known[0][s]
      BY <1>5 DEF Follows
    <3>4. buffers2[e.dst] = Result(buffers[e.src]) /\ \A s \in Slots : s # e.dst => buffers2[s] = buffers[s]
      BY <2>2, <3>1
    <3> QED
      BY <2>1, <3>2, <3>3, <3>4
  <2>5. CASE e.op = "back"
    BY <1>5, <2>1, <2>2, <2>5 DEF Follows, Does, e
  <2> QED
    BY <2>3, <2>4, <2>5 DEF Does, e
<1>7. \A i \in 1 .. n - 1 : Follows(Tail(stream)[i], rest[i - 1], rest[i], mirrors2, sent)
  <2>1. TAKE i \in 1 .. n - 1
  <2>2. Follows(stream[i + 1], known[i], known[i + 1], mirrors, sent)
    <3>1. i + 1 \in 1 .. n /\ (i + 1) - 1 = i
      BY <1>1
    <3> QED
      BY <3>1 DEF Known, n
  <2>3. rest[i - 1] = known[i] /\ rest[i] = known[i + 1] /\ Tail(stream)[i] = stream[i + 1]
    BY <1>1, <1>4
  <2>4. mirrors2 = mirrors \/ stream[i + 1].op = "back"
    BY <1>1 DEF Does
  <2> QED
    BY <2>2, <2>3, <2>4 DEF Follows
<1>8. \A s \in Slots : \A v \in rest[0][s] : buffers2[s] = v
  <2>1. rest[0] = known[1]
    BY <1>1, <1>4
  <2> QED
    BY <1>6, <2>1
<1>9. Known(rest, Tail(stream), buffers2, mirrors2, sent)
  BY <1>1, <1>3, <1>7, <1>8 DEF Known
<1> QED
  BY <1>4, <1>9 DEF n, Left

----------------------------------------------------------------------------
(* Where the handler stands after its next step *)
LEMMA FamilyIs ==
  ASSUME WorkspaceTypes, NEW h \in family
  PROVE  h \in Seq(Steps) /\ Len(h) \in Nat /\ DOMAIN h = 1 .. Len(h) /\ \A i \in DOMAIN h : h[i] \in Steps
  BY WorkspaceAssumption, SeqFacts DEF WorkspaceTypes

LEMMA Stands ==
  ASSUME WorkspaceTypes, NEW h, NEW k, HasDone(h, k), handler # <<>>
  PROVE  /\ h \in family /\ k \in Nat /\ Len(h) \in Nat /\ DOMAIN h = 1 .. Len(h) /\ DOMAIN h \subseteq Nat
         /\ k + 1 \in DOMAIN h /\ Head(handler) = h[k + 1] /\ h[k + 1] \in Steps /\ k < Len(h)
         /\ Len(Tail(handler)) = Len(h) - (k + 1)
         /\ \A i \in DOMAIN Tail(handler) : Tail(handler)[i] = h[(k + 1) + i]
<1>1. /\ h \in family /\ k \in 0 .. Len(h)
      /\ Len(handler) = Len(h) - k /\ \A i \in DOMAIN handler : handler[i] = h[k + i]
  BY DEF HasDone
<1>2. Len(h) \in Nat /\ DOMAIN h = 1 .. Len(h) /\ \A i \in DOMAIN h : h[i] \in Steps
  BY <1>1, FamilyIs
<1>3. /\ handler \in Seq(Steps) /\ Head(handler) = handler[1] /\ 1 \in DOMAIN handler
      /\ Len(Tail(handler)) = Len(handler) - 1 /\ Len(handler) \in Nat /\ DOMAIN handler = 1 .. Len(handler)
      /\ \A i \in DOMAIN Tail(handler) : i \in Nat /\ i + 1 \in DOMAIN handler /\ Tail(handler)[i] = handler[i + 1]
  <2>1. handler \in Seq(Steps)
    BY DEF WorkspaceTypes
  <2>2. \A i \in DOMAIN Tail(handler) : i \in Nat
    BY <2>1, HeadTail, SeqFacts
  <2> QED
    BY <2>1, <2>2, HeadTail, SeqFacts
<1>4. k \in Nat /\ k < Len(h) /\ k + 1 \in DOMAIN h /\ DOMAIN h \subseteq Nat
  BY <1>1, <1>2, <1>3
<1>5. \A i \in DOMAIN Tail(handler) : Tail(handler)[i] = h[(k + 1) + i]
  <2>1. TAKE i \in DOMAIN Tail(handler)
  <2>2. Tail(handler)[i] = h[k + (i + 1)] /\ k + (i + 1) = (k + 1) + i
    BY <1>1, <1>3, <1>4
  <2> QED
    BY <2>2
<1>6. Len(Tail(handler)) = Len(h) - (k + 1)
  BY <1>1, <1>2, <1>3, <1>4
<1> QED
  BY <1>1, <1>2, <1>3, <1>4, <1>5, <1>6

LEMMA DoneAll ==
  ASSUME WorkspaceTypes, NEW h, NEW k, HasDone(h, k), handler # <<>>, NEW op
  PROVE  /\ DoneTo(h, op, k + 1) = DoneTo(h, op, k) \cup IF Head(handler).op = op THEN {Slot} ELSE {}
         /\ DoneTo(h, op, k + 1) \subseteq DoneTo(h, op, Len(h))
<1>1. /\ k \in Nat /\ Len(h) \in Nat /\ DOMAIN h \subseteq Nat /\ k + 1 \in DOMAIN h
      /\ Head(handler) = h[k + 1] /\ k < Len(h)
  BY Stands
<1>2. k + 1 \in Nat /\ k + 1 <= Len(h)
  BY <1>1
<1> QED
  BY <1>1, <1>2, DoneNext, DoneGrows DEF Slot

LEMMA StepMade ==
  ASSUME WorkspaceTypes, FlagsInv, NEW h, NEW k, HasDone(h, k), handler # <<>>,
         handler' = Tail(handler), family' = family, gpc' # "idle", Head(handler).op # "finish",
         borrowed' = borrowed \cup IF Head(handler).op = "borrow" THEN {Slot} ELSE {},
         copied' = copied \cup IF Head(handler).op = "copy" THEN {Slot} ELSE {},
         \A s \in Slots : meant'[s].stage > 0 => meant[s].stage > 0 \/ (Head(handler).op = "launch" /\ s = Slot)
  PROVE  HasDone(h, k + 1)' /\ FlagsInv' /\ handler' \in Seq(Steps)
<1>1. /\ h \in family /\ k \in Nat /\ Len(h) \in Nat /\ DOMAIN h = 1 .. Len(h)
      /\ k + 1 \in DOMAIN h /\ Head(handler) = h[k + 1] /\ k < Len(h)
      /\ Len(Tail(handler)) = Len(h) - (k + 1)
      /\ \A i \in DOMAIN Tail(handler) : Tail(handler)[i] = h[(k + 1) + i]
  BY Stands
<1>2. \A op : DoneTo(h, op, k + 1) = DoneTo(h, op, k) \cup IF Head(handler).op = op THEN {Slot} ELSE {}
  BY DoneAll
<1>3. k + 1 \in 0 .. Len(h) /\ \A i \in 1 .. k + 1 : h[i].op # "finish"
  <2>1. \A i \in 1 .. k + 1 : i \in 1 .. k \/ i = k + 1
    BY <1>1
  <2> QED
    BY <1>1, <2>1 DEF HasDone
<1>4. DoneTo(h, "borrow", k + 1) \subseteq borrowed' /\ DoneTo(h, "copy", k + 1) \subseteq copied'
  BY <1>2 DEF HasDone
<1>5. \A s \in Slots : meant'[s].stage > 0 => s \in DoneTo(h, "launch", k + 1)
  BY <1>2 DEF HasDone
<1>6. AllFinish(family) => borrowed' = DoneTo(h, "borrow", k + 1) /\ copied' = DoneTo(h, "copy", k + 1)
  BY <1>2 DEF HasDone
<1>7. HasDone(h, k + 1)'
  BY <1>1, <1>3, <1>4, <1>5, <1>6 DEF HasDone
<1>8. \A inputs \in SUBSET Slots : Inputs(family, inputs) => copied' \subseteq inputs
  <2>1. TAKE inputs \in SUBSET Slots
  <2>2. HAVE Inputs(family, inputs)
  <2>3. copied \subseteq inputs /\ DoneTo(h, "copy", Len(h)) \subseteq inputs
    BY <1>1, <2>2 DEF FlagsInv, Inputs
  <2>4. Head(handler).op = "copy" => Slot \in DoneTo(h, "copy", Len(h))
    BY DoneAll
  <2> QED
    BY <2>3, <2>4
<1>9. FlagsInv'
  BY <1>8 DEF FlagsInv
<1>10. handler' \in Seq(Steps)
  BY HeadTail DEF WorkspaceTypes
<1> QED
  BY <1>7, <1>9, <1>10

LEMMA DispatchStep ==
  ASSUME WorkspaceInv, DispatchJob
  PROVE  WorkspaceInv' /\ hostRead' = {}
<1>1. /\ gpc = "idle" /\ handler' \in family /\ gpc' = "runs" /\ jobs' = jobs + 1
      /\ meant' = [s \in Slots |-> Zero] /\ hostRead' = {}
      /\ UNCHANGED <<family, device, pinned, borrowed, copied, gpuStream>>
  BY DEF DispatchJob
<1>2. PICK h : h = handler'
  OBVIOUS
<1>3. h \in family /\ h \in Seq(Steps) /\ Len(h) \in Nat /\ DOMAIN h = 1 .. Len(h)
  BY <1>1, <1>2, FamilyIs DEF WorkspaceInv
<1>4. WorkspaceTypes'
  <2>1. Zero \in Held
    BY DEF Zero, Held
  <2> QED
    BY <1>1, <1>2, <1>3, <2>1 DEF WorkspaceInv, WorkspaceTypes
<1>5. FlagsInv'
  BY <1>1 DEF WorkspaceInv, FlagsInv
<1>6. \A op : DoneTo(h, op, 0) = {}
  BY <1>3 DEF DoneTo
<1>7. HasDone(h, 0)'
  <2>1. \A s \in Slots : ~(meant'[s].stage > 0)
    BY <1>1 DEF Zero
  <2>2. \A i \in DOMAIN h : h[i] = h[0 + i]
    BY <1>3
  <2>3. 0 \in 0 .. Len(h) /\ Len(h) = Len(h) - 0 /\ \A i \in 1 .. 0 : h[i].op # "finish"
    BY <1>3
  <2>4. AllFinish(family) => borrowed = {} /\ copied = {}
    BY <1>1 DEF WorkspaceInv, FlagsInv
  <2> QED
    BY <1>1, <1>2, <1>3, <1>6, <2>1, <2>2, <2>3, <2>4 DEF HasDone
<1>8. PICK known : known = [i \in 0 .. Len(gpuStream') |-> [s \in Slots |-> {}]]
  OBVIOUS
<1>9. Known(known, gpuStream, device, pinned, Sent)'
  BY <1>4, <1>8, NothingKnown DEF WorkspaceTypes
<1>10. CopiesBack(known)'
  BY <1>1 DEF WorkspaceInv, StreamInv, CopiesBack, Due
<1>11. RunsInv(h, 0, known)'
  BY <1>6, <1>7 DEF RunsInv, Written
<1> QED
  BY <1>1, <1>4, <1>5, <1>9, <1>10, <1>11 DEF WorkspaceInv, StreamInv

LEMMA BorrowStep ==
  ASSUME WorkspaceInv, BorrowSlot
  PROVE  WorkspaceInv' /\ hostRead' = hostRead
<1>1. /\ gpc = "runs" /\ handler # <<>> /\ Head(handler).op = "borrow" /\ handler' = Tail(handler)
      /\ borrowed' = borrowed \cup {Slot}
      /\ UNCHANGED <<family, gpc, jobs, device, pinned, copied, gpuStream, meant, hostRead>>
  BY DEF BorrowSlot, Step, Go
<1>2. PICK h, k, known : StreamInv(known) /\ RunsInv(h, k, known)
  BY DEF WorkspaceInv
<1>3. WorkspaceTypes /\ FlagsInv /\ HasDone(h, k)
  BY <1>1, <1>2 DEF WorkspaceInv, RunsInv
<1>4. HasDone(h, k + 1)' /\ FlagsInv' /\ handler' \in Seq(Steps)
  BY <1>1, <1>3, StepMade
<1>5. Slot \in Slots
  BY <1>1, <1>3, HeadTail, StepTypes DEF WorkspaceTypes, Slot
<1>6. WorkspaceTypes'
  BY <1>1, <1>3, <1>4, <1>5 DEF WorkspaceTypes
<1>7. Written(h, k + 1) = Written(h, k)
  BY <1>1, <1>3, DoneAll DEF Written
<1>8. RunsInv(h, k + 1, known)'
  BY <1>1, <1>2, <1>4, <1>7 DEF RunsInv
<1>9. StreamInv(known)'
  <2>1. Known(known, gpuStream, device, pinned, Sent)'
    BY <1>1, <1>2 DEF StreamInv, Sent
  <2>2. CopiesBack(known)'
    BY <1>1, <1>2 DEF StreamInv, CopiesBack, Due
  <2> QED
    BY <2>1, <2>2 DEF StreamInv
<1> QED
  BY <1>1, <1>4, <1>6, <1>8, <1>9 DEF WorkspaceInv

(* A copy or a kernel is queued; what its buffer will hold is known. *)
LEMMA QueueStep ==
  ASSUME \A f \in Families : Orderly(f),
         WorkspaceInv, gpc = "runs", handler # <<>>, Head(handler).op \in {"copy", "launch"},
         UNCHANGED <<family, gpc, jobs, device, borrowed, hostRead>>, handler' = Tail(handler),
         gpuStream' = Append(gpuStream, Head(handler)),
         copied' = copied \cup IF Head(handler).op = "copy" THEN {Slot} ELSE {},
         pinned' \in [Slots -> Held],
         pinned' = pinned \/ pinned' = [pinned EXCEPT ![Slot] = Sent],
         NEW value \in Held, meant' = [meant EXCEPT ![Slot] = value],
         Head(handler).op = "copy" => value = Sent /\ pinned'[Slot] = Sent,
         Head(handler).op = "launch" => value = Result(meant[Head(handler).src])
  PROVE  WorkspaceInv' /\ hostRead' = hostRead
<1>1. PICK h, k, known : StreamInv(known) /\ RunsInv(h, k, known)
  BY DEF WorkspaceInv
<1>2. WorkspaceTypes /\ FlagsInv /\ HasDone(h, k)
  BY <1>1 DEF WorkspaceInv, RunsInv
<1>3. PICK e : e = Head(handler)
  OBVIOUS
<1>4. /\ e \in Ops /\ Slot = e.dst /\ e.dst \in Slots /\ e.src \in Slots /\ e.op # "back"
      /\ e.op \in {"copy", "launch"}
  <2>1. e \in Steps
    BY <1>2, <1>3, HeadTail DEF WorkspaceTypes
  <2> QED
    BY <1>3, <2>1, StepTypes DEF Slot
<1>5. meant \in [Slots -> Held] /\ pinned \in [Slots -> Held] /\ gpuStream \in Seq(Ops)
  BY <1>2 DEF WorkspaceTypes
<1>6. /\ meant' \in [Slots -> Held] /\ meant'[e.dst] = value
      /\ \A s \in Slots : s # e.dst => meant'[s] = meant[s]
  BY <1>4, <1>5
<1>7. \A s \in Slots : meant'[s].stage > 0 => meant[s].stage > 0 \/ (Head(handler).op = "launch" /\ s = Slot)
  <2>1. Sent.stage = 0
    BY DEF Sent
  <2> QED
    BY <1>3, <1>4, <1>6, <2>1
<1>8. HasDone(h, k + 1)' /\ FlagsInv' /\ handler' \in Seq(Steps)
  <2>1. borrowed' = borrowed \cup IF Head(handler).op = "borrow" THEN {Slot} ELSE {}
    BY <1>3, <1>4
  <2> QED
    BY <1>2, <1>3, <1>4, <1>7, <2>1, StepMade
<1>9. WorkspaceTypes'
  <2>1. gpuStream' \in Seq(Ops)
    BY <1>3, <1>4, <1>5, AppendIs
  <2>2. copied' \subseteq Slots
    BY <1>2, <1>4 DEF WorkspaceTypes
  <2> QED
    BY <1>2, <1>6, <1>8, <2>1, <2>2 DEF WorkspaceTypes
<1>10. PICK n : n = Len(gpuStream)
  OBVIOUS
<1>11. n \in Nat /\ known \in [0 .. n -> [Slots -> SUBSET Held]] /\ known[n] \in [Slots -> SUBSET Held]
  <2>1. n \in Nat
    BY <1>5, <1>10, OpsIs
  <2>2. known \in [0 .. n -> [Slots -> SUBSET Held]]
    BY <1>1, <1>10 DEF StreamInv, Known
  <2> QED
    BY <2>1, <2>2
<1>12. Known(known, gpuStream, device, pinned', Sent)
  BY <1>1, <1>4, <1>5, Mirrored DEF StreamInv
<1>13. PICK last : last = [known[n] EXCEPT ![e.dst] = {value}]
  OBVIOUS
<1>14. /\ last \in [Slots -> SUBSET Held] /\ last[e.dst] = {value}
       /\ \A s \in Slots : s # e.dst => last[s] = known[n][s]
  BY <1>4, <1>11, <1>13
<1>15. e.op = "launch" => meant[e.src] \in known[n][e.src]
  <2>1. HAVE e.op = "launch"
  <2>2. /\ h \in family /\ k + 1 \in DOMAIN h /\ e = h[k + 1] /\ k \in Nat
    BY <1>2, <1>3, Stands
  <2>3. InOrderOf(h)
    BY <1>2, <2>2 DEF WorkspaceTypes, Orderly
  <2>4. (k + 1) - 1 = k
    BY <2>2
  <2>5. e.src \in Written(h, k)
    BY <2>1, <2>2, <2>3, <2>4 DEF InOrderOf
  <2> QED
    BY <1>1, <1>10, <2>5 DEF RunsInv
<1>16. Follows(e, known[Len(gpuStream)], last, pinned', Sent)
  BY <1>3, <1>4, <1>10, <1>14, <1>15 DEF Follows
<1>17. PICK more : /\ Known(more, Append(gpuStream, e), device, pinned', Sent)
                   /\ more[n + 1] = last
                   /\ \A i \in 0 .. n : more[i] = known[i]
  BY <1>4, <1>5, <1>10, <1>12, <1>14, <1>16, Queued
<1>18. StreamInv(more)'
  <2>1. Known(more, gpuStream, device, pinned, Sent)'
    BY <1>3, <1>17 DEF Sent
  <2>2. \A i \in DOMAIN gpuStream' : gpuStream'[i].op # "back"
    <3>1. \A i \in DOMAIN gpuStream : gpuStream[i].op # "back"
      BY <1>1 DEF StreamInv, CopiesBack
    <3>2. DOMAIN gpuStream = 1 .. n /\ DOMAIN gpuStream' = 1 .. n + 1
      BY <1>3, <1>4, <1>5, <1>10, AppendIs, OpsIs
    <3>3. \A i \in 1 .. n + 1 : i \in 1 .. n \/ i = n + 1
      BY <1>11
    <3>4. gpuStream'[n + 1] = e /\ \A i \in 1 .. n : gpuStream'[i] = gpuStream[i]
      BY <1>3, <1>4, <1>5, <1>10, AppendIs
    <3>5. e.op # "back"
      BY <1>4
    <3>6. \A i \in 1 .. n + 1 : gpuStream'[i].op # "back"
      BY <3>1, <3>2, <3>3, <3>4, <3>5, Zenon
    <3> QED
      BY <3>2, <3>6
  <2>3. Due' = {}
    BY DEF Due
  <2>4. CopiesBack(more)'
    BY <2>2, <2>3 DEF CopiesBack
  <2> QED
    BY <2>1, <2>4 DEF StreamInv
<1>19. RunsInv(h, k + 1, more)'
  <2>1. Len(gpuStream') = n + 1
    BY <1>3, <1>4, <1>5, <1>10, AppendIs
  <2>2. Written(h, k + 1) = Written(h, k) \cup {e.dst}
    BY <1>2, <1>3, <1>4, DoneAll DEF Written
  <2>3. \A s \in Written(h, k) : s \in Slots
    <3>1. h \in family /\ \A i \in DOMAIN h : h[i] \in Steps
      BY <1>2, FamilyIs DEF HasDone
    <3> QED
      BY <3>1, StepTypes DEF Written, DoneTo
  <2>4. \A s \in Written(h, k + 1) : meant'[s] \in last[s]
    <3>1. \A s \in Written(h, k) : meant[s] \in known[n][s]
      BY <1>1, <1>10 DEF RunsInv
    <3> QED
      BY <1>6, <1>14, <2>2, <2>3, <3>1
  <2> QED
    BY <1>8, <1>17, <2>1, <2>4 DEF RunsInv
<1> QED
  BY <1>8, <1>9, <1>18, <1>19 DEF WorkspaceInv

LEMMA CopyStep ==
  ASSUME \A f \in Families : Orderly(f), WorkspaceInv, CopyToDevice
  PROVE  WorkspaceInv' /\ hostRead' = hostRead
<1>1. /\ gpc = "runs" /\ handler # <<>> /\ Head(handler).op = "copy" /\ handler' = Tail(handler)
      /\ copied' = copied \cup {Slot}
      /\ pinned' = [pinned EXCEPT ![Slot] = Sent] /\ meant' = [meant EXCEPT ![Slot] = Sent]
      /\ gpuStream' = Append(gpuStream, Head(handler))
      /\ UNCHANGED <<family, gpc, jobs, device, borrowed, hostRead>>
  BY DEF CopyToDevice, Step, Go, Sent
<1>2. Sent \in Held
  BY DEF WorkspaceInv, WorkspaceTypes, Sent, Held
<1>3. Slot \in Slots
  BY <1>1, HeadTail, StepTypes DEF WorkspaceInv, WorkspaceTypes, Slot
<1>4. pinned' \in [Slots -> Held] /\ pinned'[Slot] = Sent
  BY <1>1, <1>2, <1>3 DEF WorkspaceInv, WorkspaceTypes
<1> QED
  BY <1>1, <1>2, <1>4, QueueStep

LEMMA LaunchStep ==
  ASSUME \A f \in Families : Orderly(f), WorkspaceInv, LaunchKernel
  PROVE  WorkspaceInv' /\ hostRead' = hostRead
<1>1. /\ gpc = "runs" /\ handler # <<>> /\ Head(handler).op = "launch" /\ handler' = Tail(handler)
      /\ meant' = [meant EXCEPT ![Slot] = Result(meant[Head(handler).src])]
      /\ gpuStream' = Append(gpuStream, Head(handler))
      /\ UNCHANGED <<family, gpc, jobs, device, pinned, borrowed, copied, hostRead>>
  BY DEF LaunchKernel, Step, Go
<1>2. Head(handler).src \in Slots
  BY <1>1, HeadTail, StepTypes DEF WorkspaceInv, WorkspaceTypes
<1>3. Result(meant[Head(handler).src]) \in Held
  BY <1>2, ResultIs DEF WorkspaceInv, WorkspaceTypes
<1>4. pinned' \in [Slots -> Held]
  BY <1>1 DEF WorkspaceInv, WorkspaceTypes
<1> QED
  BY <1>1, <1>3, <1>4, QueueStep


(* copyToHost queues its copy back: the mirror will have what is known.    *)
LEMMA ReadStep ==
  ASSUME \A f \in Families : Orderly(f), WorkspaceInv, CopyToHost
  PROVE  WorkspaceInv' /\ hostRead' = hostRead
<1>1. /\ gpc = "runs" /\ handler # <<>> /\ Head(handler).op = "read" /\ gpc' = "reads"
      /\ gpuStream' = Append(gpuStream, [op |-> "back", src |-> Slot, dst |-> Slot])
      /\ UNCHANGED <<family, handler, jobs, device, pinned, borrowed, copied, meant, hostRead>>
  BY DEF CopyToHost, Step
<1>2. PICK h, k, known : StreamInv(known) /\ RunsInv(h, k, known)
  BY DEF WorkspaceInv
<1>3. WorkspaceTypes /\ FlagsInv /\ HasDone(h, k)
  BY <1>1, <1>2 DEF WorkspaceInv, RunsInv
<1>4. Slot \in Slots
  BY <1>1, <1>3, HeadTail, StepTypes DEF WorkspaceTypes, Slot
<1>5. PICK e \in Ops : e = [op |-> "back", src |-> Slot, dst |-> Slot]
  BY <1>4 DEF Ops
<1>6. e.op = "back" /\ e.src = Slot /\ gpuStream' = Append(gpuStream, e) /\ gpuStream \in Seq(Ops)
  BY <1>1, <1>3, <1>5 DEF WorkspaceTypes
<1>7. PICK n : n = Len(gpuStream)
  OBVIOUS
<1>8. /\ n \in Nat /\ Len(gpuStream') = n + 1 /\ gpuStream' \in Seq(Ops)
      /\ DOMAIN gpuStream = 1 .. n /\ DOMAIN gpuStream' = 1 .. n + 1
      /\ gpuStream'[n + 1] = e /\ \A i \in 1 .. n : gpuStream'[i] = gpuStream[i]
  BY <1>6, <1>7, AppendIs, OpsIs
<1>9. known \in [0 .. n -> [Slots -> SUBSET Held]] /\ known[n] \in [Slots -> SUBSET Held]
  <2>1. known \in [0 .. n -> [Slots -> SUBSET Held]]
    BY <1>2, <1>7 DEF StreamInv, Known
  <2> QED
    BY <1>8, <2>1
<1>10. Follows(e, known[Len(gpuStream)], known[n], pinned, Sent)
  BY <1>6, <1>7 DEF Follows
<1>11. PICK more : /\ Known(more, Append(gpuStream, e), device, pinned, Sent)
                   /\ more[n + 1] = known[n]
                   /\ \A i \in 0 .. n : more[i] = known[i]
  <2>1. Known(known, gpuStream, device, pinned, Sent)
    BY <1>2 DEF StreamInv
  <2> QED
    BY <1>6, <1>7, <1>9, <1>10, <2>1, Queued
<1>12. WorkspaceTypes'
  BY <1>1, <1>3, <1>8 DEF WorkspaceTypes
<1>13. FlagsInv'
  BY <1>1, <1>3 DEF FlagsInv
<1>14. meant[Slot] \in known[n][Slot]
  <2>1. /\ h \in family /\ k + 1 \in DOMAIN h /\ Head(handler) = h[k + 1] /\ k \in Nat
    BY <1>1, <1>3, Stands
  <2>2. InOrderOf(h)
    BY <1>3, <2>1 DEF WorkspaceTypes, Orderly
  <2>3. (k + 1) - 1 = k
    BY <2>1
  <2>4. Slot \in Written(h, k)
    BY <1>1, <2>1, <2>2, <2>3 DEF InOrderOf, Slot
  <2> QED
    BY <1>1, <1>2, <1>7, <2>4 DEF RunsInv
<1>15. \A i \in DOMAIN gpuStream' : gpuStream'[i].op = "back" => i = n + 1
  <2>1. \A i \in DOMAIN gpuStream : gpuStream[i].op # "back"
    BY <1>1, <1>2 DEF StreamInv, CopiesBack
  <2>2. \A i \in 1 .. n + 1 : i \in 1 .. n \/ i = n + 1
    BY <1>8
  <2> QED
    BY <1>8, <2>1, <2>2, Zenon
<1>16. StreamInv(more)'
  <2>1. Known(more, gpuStream, device, pinned, Sent)'
    BY <1>1, <1>6, <1>11 DEF Sent
  <2>2. Due' = {Slot}
    BY <1>1 DEF Due, Slot
  <2>3. \A i, j \in DOMAIN gpuStream' : i < j /\ gpuStream'[i].op = "back" => gpuStream'[j].op = "back"
    BY <1>8, <1>15
  <2>4. \A i \in DOMAIN gpuStream' :
          gpuStream'[i].op = "back" /\ gpuStream'[i].src \in Due'
            => meant'[gpuStream'[i].src] \in more[i - 1][gpuStream'[i].src]
    <3>1. TAKE i \in DOMAIN gpuStream'
    <3>2. HAVE gpuStream'[i].op = "back" /\ gpuStream'[i].src \in Due'
    <3>3. i = n + 1 /\ i - 1 = n /\ gpuStream'[i].src = Slot
      BY <1>8, <1>15, <2>2, <3>2
    <3>4. more[n] = known[n]
      BY <1>8, <1>11
    <3> QED
      BY <1>1, <1>14, <3>3, <3>4
  <2>5. \A s \in Due' : \E i \in DOMAIN gpuStream' : gpuStream'[i].op = "back" /\ gpuStream'[i].src = s
    <3>1. n + 1 \in DOMAIN gpuStream'
      BY <1>8
    <3> QED
      BY <1>6, <1>8, <2>2, <3>1
  <2>6. CopiesBack(more)'
    BY <1>1, <2>3, <2>4, <2>5 DEF CopiesBack
  <2> QED
    BY <2>1, <2>6 DEF StreamInv
<1>17. RunsInv(h, k, more)'
  <2>1. HasDone(h, k)'
    BY <1>1, <1>3 DEF HasDone
  <2>2. \A s \in Written(h, k) : meant[s] \in known[n][s]
    BY <1>1, <1>2, <1>7 DEF RunsInv
  <2> QED
    BY <1>1, <1>8, <1>11, <2>1, <2>2 DEF RunsInv
<1> QED
  BY <1>1, <1>12, <1>13, <1>16, <1>17 DEF WorkspaceInv

LEMMA ReadDoneStep ==
  ASSUME WorkspaceInv, CopiedToHost
  PROVE  WorkspaceInv' /\ HostReadsResult'
<1>1. /\ gpc = "reads" /\ gpuStream = <<>> /\ gpc' = "runs" /\ handler' = Tail(handler)
      /\ hostRead' = {[got |-> pinned[Slot], want |-> meant[Slot]]}
      /\ UNCHANGED <<family, jobs, device, pinned, borrowed, copied, gpuStream, meant>>
  BY DEF CopiedToHost
<1>2. PICK h, k, known : StreamInv(known) /\ RunsInv(h, k, known)
  BY DEF WorkspaceInv
<1>3. WorkspaceTypes /\ FlagsInv /\ HasDone(h, k) /\ handler # <<>> /\ Head(handler).op = "read"
  BY <1>1, <1>2 DEF WorkspaceInv, RunsInv, WorkspaceTypes
<1>4. HasDone(h, k + 1)' /\ FlagsInv' /\ handler' \in Seq(Steps)
  BY <1>1, <1>3, StepMade
<1>5. WorkspaceTypes'
  BY <1>1, <1>3, <1>4 DEF WorkspaceTypes
<1>6. DOMAIN gpuStream = {}
  BY <1>1
<1>7. pinned[Slot] = meant[Slot]
  BY <1>1, <1>2, <1>6 DEF StreamInv, CopiesBack, Due
<1>8. StreamInv(known)'
  <2>1. Known(known, gpuStream, device, pinned, Sent)'
    BY <1>1, <1>2 DEF StreamInv, Sent
  <2>2. Due' = {} /\ DOMAIN gpuStream' = {}
    BY <1>1, <1>6 DEF Due
  <2>3. CopiesBack(known)'
    BY <2>2 DEF CopiesBack
  <2> QED
    BY <2>1, <2>3 DEF StreamInv
<1>9. Written(h, k + 1) = Written(h, k)
  BY <1>3, DoneAll DEF Written
<1>10. RunsInv(h, k + 1, known)'
  BY <1>1, <1>2, <1>4, <1>9 DEF RunsInv
<1> QED
  BY <1>1, <1>4, <1>5, <1>7, <1>8, <1>10 DEF WorkspaceInv, HostReadsResult

(* gpu.finish leaves out no slot that a kernel of the request wrote. *)
LEMMA LaunchedCopiedBack ==
  ASSUME \A f \in Families : Orderly(f), WorkspaceTypes, FlagsInv,
         NEW h, NEW k, HasDone(h, k), handler # <<>>, Head(handler).op = "finish",
         NEW s \in DoneTo(h, "launch", k)
  PROVE  s \in CopiedBack
<1>1. /\ h \in family /\ k \in Nat /\ Len(h) \in Nat /\ DOMAIN h \subseteq Nat
      /\ k + 1 \in DOMAIN h /\ Head(handler) = h[k + 1] /\ k < Len(h)
  BY Stands
<1>2. InOrderOf(h) /\ Orderly(family)
  BY <1>1 DEF WorkspaceTypes, Orderly
<1>3. k + 1 = Len(h)
  BY <1>1, <1>2 DEF InOrderOf
<1>4. s \in borrowed
  <2>1. PICK i \in DOMAIN h : i <= k /\ h[i].op = "launch" /\ h[i].dst = s
    BY DEF DoneTo
  <2>2. s \in DoneTo(h, "borrow", i - 1)
    BY <1>2, <2>1 DEF InOrderOf
  <2>3. i - 1 \in Nat /\ i - 1 <= k
    <3>1. DOMAIN h = 1 .. Len(h)
      BY <1>1, FamilyIs
    <3> QED
      BY <1>1, <2>1, <3>1
  <2>4. DoneTo(h, "borrow", i - 1) \subseteq DoneTo(h, "borrow", k)
    BY <1>1, <2>3, DoneGrows
  <2> QED
    BY <2>2, <2>4 DEF HasDone
<1>5. DoneTo(h, "launch", k) \subseteq DoneTo(h, "launch", Len(h))
  BY <1>1, DoneGrows
<1>6. CASE \E inputs \in SUBSET Slots : Inputs(family, inputs)
  <2>1. PICK inputs \in SUBSET Slots : Inputs(family, inputs)
    BY <1>6
  <2>2. copied \subseteq inputs /\ s \notin inputs
    BY <1>1, <1>5, <2>1 DEF FlagsInv, Inputs
  <2> QED
    BY <1>4, <2>2 DEF CopiedBack
<1>7. CASE AllFinish(family)
  <2>1. borrowed = DoneTo(h, "borrow", k) /\ copied = DoneTo(h, "copy", k)
    BY <1>7 DEF HasDone
  <2>2. DoneTo(h, "borrow", Len(h)) = DoneTo(h, "borrow", k) /\ DoneTo(h, "copy", Len(h)) = DoneTo(h, "copy", k)
    <3>1. \A op : DoneTo(h, op, k + 1) = DoneTo(h, op, k) \cup IF Head(handler).op = op THEN {Slot} ELSE {}
      BY DoneAll
    <3> QED
      BY <1>3, <3>1
  <2>3. CASE DoneTo(h, "launch", Len(h)) \cap DoneTo(h, "copy", Len(h)) = {}
    BY <1>4, <1>5, <2>1, <2>2, <2>3 DEF CopiedBack
  <2>4. CASE DoneTo(h, "borrow", Len(h)) \subseteq DoneTo(h, "copy", Len(h))
    BY <1>4, <2>1, <2>2, <2>4 DEF CopiedBack
  <2> QED
    BY <1>1, <1>7, <2>3, <2>4 DEF AllFinish
<1> QED
  BY <1>2, <1>6, <1>7 DEF Orderly

LEMMA FinishStep ==
  ASSUME \A f \in Families : Orderly(f), WorkspaceInv, FinishJob
  PROVE  WorkspaceInv' /\ hostRead' = hostRead
<1>1. /\ gpc = "runs" /\ handler # <<>> /\ Head(handler).op = "finish" /\ gpc' = "parked" /\ handler' = Tail(handler)
      /\ UNCHANGED <<family, jobs, device, pinned, borrowed, copied, meant, hostRead>>
  BY DEF FinishJob, Step
<1>2. PICK h, k, known : StreamInv(known) /\ RunsInv(h, k, known)
  BY DEF WorkspaceInv
<1>3. WorkspaceTypes /\ FlagsInv /\ HasDone(h, k)
  BY <1>1, <1>2 DEF WorkspaceInv, RunsInv
<1>4. PICK m : m = Cardinality(CopiedBack)
  OBVIOUS
<1>5. PICK order \in [1 .. m -> CopiedBack] :
        /\ {order[i] : i \in DOMAIN order} = CopiedBack
        /\ gpuStream' =
             gpuStream \o [i \in DOMAIN order |-> [op |-> "back", src |-> order[i], dst |-> order[i]]]
  BY <1>4 DEF FinishJob
<1>6. CopiedBack \subseteq Slots
  BY <1>3 DEF WorkspaceTypes, CopiedBack
<1>7. m \in Nat
  <2>1. IsFiniteSet(CopiedBack)
    BY <1>6, WorkspaceAssumption, FS_Subset
  <2> QED
    BY <1>4, <2>1, FS_CardinalityType
<1>8. PICK backs : backs = [i \in DOMAIN order |-> [op |-> "back", src |-> order[i], dst |-> order[i]]]
  OBVIOUS
<1>9. DOMAIN order = 1 .. m
  OBVIOUS
<1>10. /\ backs \in Seq(Ops) /\ Len(backs) = m /\ DOMAIN backs = 1 .. m
       /\ \A i \in 1 .. m : backs[i].op = "back" /\ backs[i].src = order[i]
  <2>1. \A i \in 1 .. m : [op |-> "back", src |-> order[i], dst |-> order[i]] \in Ops
    BY <1>6, <1>9 DEF Ops
  <2>2. backs \in [1 .. m -> Ops]
    BY <1>8, <1>9, <2>1
  <2>3. backs \in Seq(Ops) /\ Len(backs) = m
    BY <1>7, <2>2, SeqFacts
  <2> QED
    BY <1>8, <1>9, <2>2, <2>3
<1>11. PICK n : n = Len(gpuStream)
  OBVIOUS
<1>12. gpuStream \in Seq(Ops) /\ n \in Nat /\ DOMAIN gpuStream = 1 .. n
  BY <1>3, <1>11, OpsIs DEF WorkspaceTypes
<1>13. PICK stream : stream = gpuStream \o backs
  OBVIOUS
<1>14. /\ gpuStream' = stream /\ stream \in Seq(Ops) /\ Len(stream) = n + m /\ DOMAIN stream = 1 .. n + m
       /\ \A i \in 1 .. n : stream[i] = gpuStream[i]
       /\ \A i \in 1 .. m : stream[n + i] = backs[i]
  <2>1. stream \in Seq(Ops) /\ Len(stream) = n + m
    BY <1>10, <1>11, <1>12, <1>13, ConcatIs
  <2>2. \A i \in 1 .. m : n + i \in n + 1 .. n + m /\ (n + i) - n = i
    BY <1>7, <1>12
  <2>3. /\ \A i \in 1 .. n : stream[i] = gpuStream[i]
        /\ \A i \in n + 1 .. n + m : stream[i] = backs[i - n]
    BY <1>10, <1>11, <1>12, <1>13, ConcatIs
  <2> QED
    <3>1. \A i \in 1 .. m : stream[n + i] = backs[i]
      BY <2>2, <2>3
    <3> QED
      BY <1>5, <1>8, <1>13, <2>1, <2>3, <3>1, OpsIs
<1>15. PICK more : /\ Known(more, gpuStream \o backs, device, pinned, Sent)
                   /\ \A i \in 0 .. n : more[i] = known[i]
                   /\ \A i \in n .. n + m : more[i] = known[n]
  <2>1. Known(known, gpuStream, device, pinned, Sent)
    BY <1>2 DEF StreamInv
  <2>2. \A i \in DOMAIN backs : backs[i].op = "back"
    BY <1>10
  <2>3. gpuStream \in Seq(Ops) /\ backs \in Seq(Ops)
    BY <1>10, <1>12
  <2>4. \E more : /\ Known(more, gpuStream \o backs, device, pinned, Sent)
                  /\ \A i \in 0 .. Len(gpuStream) : more[i] = known[i]
                  /\ \A i \in Len(gpuStream) .. Len(gpuStream) + Len(backs) : more[i] = known[Len(gpuStream)]
    BY <2>1, <2>2, <2>3, QueuedBack
  <2>5. Len(backs) = m /\ Len(gpuStream) = n
    BY <1>10, <1>11
  <2> QED
    BY <2>4, <2>5
<1>16. WorkspaceTypes'
  <2>1. handler' \in Seq(Steps)
    BY <1>1, <1>3, HeadTail DEF WorkspaceTypes
  <2> QED
    BY <1>1, <1>3, <1>14, <2>1 DEF WorkspaceTypes
<1>17. FlagsInv'
  BY <1>1, <1>3 DEF FlagsInv
<1>18. \A i \in 1 .. n + m : (i \in 1 .. n /\ stream[i].op # "back") \/ (i > n /\ stream[i].op = "back")
  <2>1. \A i \in DOMAIN gpuStream : gpuStream[i].op # "back"
    BY <1>1, <1>2 DEF StreamInv, CopiesBack
  <2>2. TAKE i \in 1 .. n + m
  <2>3. CASE i \in 1 .. n
    BY <1>12, <1>14, <2>1, <2>3
  <2>4. CASE i > n
    <3>1. i - n \in 1 .. m /\ n + (i - n) = i
      BY <1>7, <1>12, <2>4
    <3> QED
      BY <1>10, <1>14, <2>4, <3>1
  <2> QED
    BY <1>7, <1>12, <2>3, <2>4
<1>19. PICK due : due = {s \in Slots : meant[s].stage > 0}
  OBVIOUS
<1>20. Due' = due
  BY <1>1, <1>19 DEF Due
<1>21. \A s \in due : s \in CopiedBack /\ meant[s] \in known[n][s]
  <2>1. TAKE s \in due
  <2>2. s \in DoneTo(h, "launch", k)
    BY <1>3, <1>19 DEF HasDone
  <2>3. s \in CopiedBack
    BY <1>1, <1>3, <2>2, LaunchedCopiedBack
  <2>4. s \in Written(h, k)
    BY <2>2 DEF Written
  <2> QED
    BY <1>1, <1>2, <1>11, <2>3, <2>4 DEF RunsInv
<1>22. StreamInv(more)'
  <2>1. Known(more, gpuStream, device, pinned, Sent)'
    BY <1>1, <1>13, <1>14, <1>15 DEF Sent
  <2>2. \A i, j \in 1 .. n + m : i < j /\ stream[i].op = "back" => stream[j].op = "back"
    <3>1. TAKE i, j \in 1 .. n + m
    <3>2. HAVE i < j /\ stream[i].op = "back"
    <3>3. i > n
      BY <1>18, <3>2
    <3>4. ~(j \in 1 .. n)
      BY <1>7, <1>12, <3>2, <3>3
    <3> QED
      BY <1>18, <3>4
  <2>3. \A i \in 1 .. n + m :
          stream[i].op = "back" /\ stream[i].src \in due => meant[stream[i].src] \in more[i - 1][stream[i].src]
    <3>1. TAKE i \in 1 .. n + m
    <3>2. HAVE stream[i].op = "back" /\ stream[i].src \in due
    <3>3. i > n
      BY <1>18, <3>2
    <3>4. i - 1 \in n .. n + m
      BY <1>7, <1>12, <3>3
    <3> QED
      BY <1>15, <1>21, <3>2, <3>4
  <2>4. \A s \in due : \E i \in 1 .. n + m : stream[i].op = "back" /\ stream[i].src = s
    <3>1. TAKE s \in due
    <3>2. PICK i \in 1 .. m : order[i] = s
      BY <1>5, <1>9, <1>21
    <3>3. n + i \in 1 .. n + m
      BY <1>7, <1>12
    <3> QED
      BY <1>10, <1>14, <3>2, <3>3
  <2>5. CopiesBack(more)'
    <3>1. gpc' \notin {"idle", "runs"} /\ meant' = meant /\ pinned' = pinned
      BY <1>1
    <3> QED
      BY <1>14, <1>20, <2>2, <2>3, <2>4, <3>1 DEF CopiesBack
  <2> QED
    BY <2>1, <2>5 DEF StreamInv
<1>23. RunsInv(h, k, more)'
  BY <1>1 DEF RunsInv
<1> QED
  BY <1>1, <1>16, <1>17, <1>22, <1>23 DEF WorkspaceInv

LEMMA AnswerStep ==
  ASSUME WorkspaceInv, Answer
  PROVE  WorkspaceInv' /\ hostRead' = hostRead
<1>1. /\ gpc = "runs" /\ handler = <<>> /\ gpc' = "idle"
      /\ UNCHANGED <<family, handler, jobs, device, pinned, borrowed, copied, gpuStream, meant, hostRead>>
  BY DEF Answer
<1>2. PICK h, k, known : StreamInv(known) /\ RunsInv(h, k, known)
  BY DEF WorkspaceInv
<1>3. WorkspaceTypes /\ FlagsInv /\ HasDone(h, k)
  BY <1>1, <1>2 DEF WorkspaceInv, RunsInv
<1>4. ~AllFinish(family)
  <2>1. h \in family /\ k \in 0 .. Len(h) /\ Len(handler) = Len(h) - k /\ \A i \in 1 .. k : h[i].op # "finish"
    BY <1>3 DEF HasDone
  <2>2. h \in Seq(Steps) /\ Len(h) \in Nat
    BY <1>3, <2>1, FamilyIs
  <2>3. k = Len(h)
    BY <1>1, <2>1, <2>2
  <2>4. h # <<>> => Len(h) \in 1 .. k
    BY <2>2, <2>3
  <2> QED
    BY <2>1, <2>4 DEF AllFinish
<1>5. WorkspaceTypes' /\ FlagsInv'
  BY <1>1, <1>3, <1>4 DEF WorkspaceTypes, FlagsInv
<1>6. StreamInv(known)'
  <2>1. Known(known, gpuStream, device, pinned, Sent)'
    BY <1>1, <1>2 DEF StreamInv, Sent
  <2>2. Due' = {}
    BY <1>1 DEF Due
  <2>3. CopiesBack(known)'
    BY <1>1, <1>2, <2>2 DEF StreamInv, CopiesBack
  <2> QED
    BY <2>1, <2>3 DEF StreamInv
<1>7. RunsInv(h, k, known)'
  BY <1>1 DEF RunsInv
<1> QED
  BY <1>1, <1>5, <1>6, <1>7 DEF WorkspaceInv

LEMMA ReleaseStep ==
  ASSUME WorkspaceInv, ReleaseJob
  PROVE  WorkspaceInv' /\ HostReadsResult'
<1>1. /\ gpc = "parked" /\ gpuStream = <<>> /\ gpc' = "idle" /\ borrowed' = {} /\ copied' = {}
      /\ hostRead' = {[got |-> pinned[s], want |-> meant[s]] : s \in {t \in Slots : meant[t].stage > 0}}
      /\ UNCHANGED <<family, handler, jobs, device, pinned, gpuStream, meant>>
  BY DEF ReleaseJob
<1>2. PICK h, k, known : StreamInv(known) /\ RunsInv(h, k, known)
  BY DEF WorkspaceInv
<1>3. WorkspaceTypes /\ FlagsInv
  BY DEF WorkspaceInv
<1>4. WorkspaceTypes' /\ FlagsInv'
  BY <1>1, <1>3 DEF WorkspaceTypes, FlagsInv
<1>5. DOMAIN gpuStream = {}
  BY <1>1
<1>6. \A s \in {t \in Slots : meant[t].stage > 0} : pinned[s] = meant[s]
  BY <1>1, <1>2, <1>5 DEF StreamInv, CopiesBack, Due
<1>7. HostReadsResult'
  BY <1>1, <1>6 DEF HostReadsResult
<1>8. StreamInv(known)'
  <2>1. Known(known, gpuStream, device, pinned, Sent)'
    BY <1>1, <1>2 DEF StreamInv, Sent
  <2>2. Due' = {} /\ DOMAIN gpuStream' = {}
    BY <1>1, <1>5 DEF Due
  <2>3. CopiesBack(known)'
    BY <2>2 DEF CopiesBack
  <2> QED
    BY <2>1, <2>3 DEF StreamInv
<1>9. RunsInv(h, k, known)'
  BY <1>1 DEF RunsInv
<1> QED
  BY <1>4, <1>7, <1>8, <1>9 DEF WorkspaceInv

LEMMA FailStep ==
  ASSUME WorkspaceInv, FailJob
  PROVE  WorkspaceInv' /\ hostRead' = {}
<1>1. /\ gpuStream' = <<>> /\ borrowed' = {} /\ copied' = {} /\ gpc' = "idle" /\ hostRead' = {}
      /\ UNCHANGED <<family, handler, jobs, device, pinned, meant>>
  BY DEF FailJob
<1>2. WorkspaceTypes /\ FlagsInv
  BY DEF WorkspaceInv
<1>3. WorkspaceTypes' /\ FlagsInv'
  BY <1>1, <1>2 DEF WorkspaceTypes, FlagsInv
<1>4. PICK known : known = [i \in 0 .. Len(gpuStream') |-> [s \in Slots |-> {}]]
  OBVIOUS
<1>5. StreamInv(known)'
  <2>1. Known(known, gpuStream, device, pinned, Sent)'
    BY <1>3, <1>4, NothingKnown DEF WorkspaceTypes
  <2>2. Due' = {} /\ DOMAIN gpuStream' = {}
    BY <1>1 DEF Due
  <2>3. CopiesBack(known)'
    BY <2>2 DEF CopiesBack
  <2> QED
    BY <2>1, <2>3 DEF StreamInv
<1>6. \A h, k : RunsInv(h, k, known)'
  BY <1>1 DEF RunsInv
<1> QED
  BY <1>1, <1>3, <1>5, <1>6 DEF WorkspaceInv

(* The device does the first operation of the stream. *)
LEMMA DeviceDoes ==
  ASSUME WorkspaceInv, DeviceStep
  PROVE  WorkspaceInv' /\ hostRead' = hostRead
<1>1. /\ gpuStream # <<>> /\ gpuStream' = Tail(gpuStream)
      /\ UNCHANGED <<family, handler, gpc, jobs, borrowed, copied, meant, hostRead>>
  BY DEF DeviceStep
<1>2. PICK h, k, known : StreamInv(known) /\ RunsInv(h, k, known)
  BY DEF WorkspaceInv
<1>3. WorkspaceTypes /\ FlagsInv
  BY DEF WorkspaceInv
<1>4. gpuStream \in Seq(Ops) /\ device \in [Slots -> Held] /\ pinned \in [Slots -> Held]
  BY <1>3 DEF WorkspaceTypes
<1>5. PICK e : e = Head(gpuStream)
  OBVIOUS
<1>6. e \in Ops /\ e.op \in {"copy", "launch", "back"} /\ e.src \in Slots /\ e.dst \in Slots
  <2>1. e \in Ops
    BY <1>1, <1>4, <1>5, HeadTail
  <2> QED
    BY <2>1 DEF Ops
<1>7. \/ e.op = "copy" /\ pinned' = pinned /\ device' = [device EXCEPT ![e.dst] = pinned[e.dst]]
      \/ e.op = "launch" /\ pinned' = pinned /\ device' = [device EXCEPT ![e.dst] = Result(device[e.src])]
      \/ e.op = "back" /\ device' = device /\ pinned' = [pinned EXCEPT ![e.src] = device[e.src]]
  BY <1>5, <1>6 DEF DeviceStep
<1>8. PICK n : n = Len(gpuStream)
  OBVIOUS
<1>9. PICK stream : stream = Tail(gpuStream)
  OBVIOUS
<1>10. /\ n \in Nat /\ n > 0 /\ DOMAIN gpuStream = 1 .. n /\ e = gpuStream[1]
       /\ stream \in Seq(Ops) /\ Len(stream) = n - 1 /\ DOMAIN stream = 1 .. n - 1
       /\ \A i \in 1 .. n - 1 : i + 1 \in 1 .. n /\ stream[i] = gpuStream[i + 1]
       /\ \A i \in 1 .. n : i # 1 => i - 1 \in 1 .. n - 1 /\ stream[i - 1] = gpuStream[i]
  <2>1. /\ stream \in Seq(Ops) /\ e = gpuStream[1] /\ 1 \in DOMAIN gpuStream /\ Len(stream) = n - 1
        /\ \A i \in DOMAIN stream : i + 1 \in DOMAIN gpuStream /\ stream[i] = gpuStream[i + 1]
        /\ \A i \in DOMAIN gpuStream : i # 1 => i - 1 \in DOMAIN stream /\ stream[i - 1] = gpuStream[i]
    BY <1>1, <1>4, <1>5, <1>8, <1>9, HeadTail
  <2>2. n \in Nat /\ DOMAIN gpuStream = 1 .. n /\ DOMAIN stream = 1 .. n - 1
    BY <1>4, <1>8, <2>1, OpsIs
  <2>3. n > 0
    BY <2>1, <2>2
  <2> QED
    BY <2>1, <2>2, <2>3, Zenon
<1>11. e.op = "back" => \A i \in DOMAIN gpuStream : gpuStream[i].op = "back"
  <2>1. HAVE e.op = "back"
  <2>2. \A i \in 1 .. n : i = 1 \/ 1 < i
    BY <1>10
  <2>3. 1 \in 1 .. n
    BY <1>10
  <2> QED
    BY <1>2, <1>10, <2>1, <2>2, <2>3 DEF StreamInv, CopiesBack
<1>12. PICK rest : /\ Known(rest, stream, device', pinned', Sent)
                   /\ \A i \in 0 .. n - 1 : rest[i] = known[i + 1]
  <2>1. PICK q, b, m, b2, m2, sent :
          q = gpuStream /\ b = device /\ m = pinned /\ b2 = device' /\ m2 = pinned' /\ sent = Sent
    OBVIOUS
  <2>2. q \in Seq(Ops) /\ q # <<>> /\ b \in [Slots -> Held] /\ m \in [Slots -> Held]
    BY <1>1, <1>4, <2>1
  <2>3. Known(known, q, b, m, sent)
    BY <1>2, <2>1 DEF StreamInv
  <2>4. Does(q, b, m, b2, m2)
    BY <1>5, <1>7, <1>11, <2>1 DEF Does
  <2>5. \E rest : Known(rest, Tail(q), b2, m2, sent) /\ Left(rest, known, Len(q))
    BY <2>2, <2>3, <2>4, DoneFirst
  <2> QED
    BY <1>8, <1>9, <2>1, <2>5 DEF Left
<1>13. WorkspaceTypes'
  <2>1. \A s \in Slots : device[s] \in Held /\ pinned[s] \in Held /\ Result(device[s]) \in Held
    BY <1>4, ResultIs
  <2>2. device' \in [Slots -> Held] /\ pinned' \in [Slots -> Held]
    BY <1>4, <1>6, <1>7, <2>1
  <2> QED
    BY <1>1, <1>3, <1>9, <1>10, <2>2 DEF WorkspaceTypes
<1>14. FlagsInv'
  BY <1>1, <1>3 DEF FlagsInv
<1>15. Due' = Due
  BY <1>1 DEF Due, Slot
<1>16. StreamInv(rest)'
  <2>1. Known(rest, gpuStream, device, pinned, Sent)'
    BY <1>1, <1>9, <1>12 DEF Sent
  <2>2. gpc \in {"idle", "runs"} => \A i \in 1 .. n - 1 : stream[i].op # "back"
    BY <1>2, <1>10 DEF StreamInv, CopiesBack
  <2>3. \A i, j \in 1 .. n - 1 : i < j /\ stream[i].op = "back" => stream[j].op = "back"
    <3>1. TAKE i, j \in 1 .. n - 1
    <3>2. HAVE i < j /\ stream[i].op = "back"
    <3>3. i + 1 < j + 1 /\ i + 1 \in 1 .. n /\ j + 1 \in 1 .. n
      BY <1>10, <3>2
    <3>4. \A a, b \in 1 .. n : a < b /\ gpuStream[a].op = "back" => gpuStream[b].op = "back"
      BY <1>2, <1>10 DEF StreamInv, CopiesBack
    <3>5. stream[i] = gpuStream[i + 1] /\ stream[j] = gpuStream[j + 1]
      BY <1>10
    <3> QED
      BY <3>2, <3>3, <3>4, <3>5
  <2>4. \A i \in 1 .. n - 1 :
          stream[i].op = "back" /\ stream[i].src \in Due => meant[stream[i].src] \in rest[i - 1][stream[i].src]
    <3>1. TAKE i \in 1 .. n - 1
    <3>2. HAVE stream[i].op = "back" /\ stream[i].src \in Due
    <3>3. i + 1 \in 1 .. n /\ (i + 1) - 1 = i /\ stream[i] = gpuStream[i + 1]
      BY <1>10
    <3>4. i - 1 \in 0 .. n - 1 /\ (i - 1) + 1 = i
      BY <1>10
    <3>5. meant[stream[i].src] \in known[i][stream[i].src]
      BY <1>2, <1>10, <3>2, <3>3 DEF StreamInv, CopiesBack
    <3>6. rest[i - 1] = known[i]
      BY <1>12, <3>4
    <3> QED
      BY <3>5, <3>6
  <2>5. \A s \in Due : pinned'[s] = meant[s] \/ \E i \in 1 .. n - 1 : stream[i].op = "back" /\ stream[i].src = s
    <3>1. TAKE s \in Due
    <3>2. s \in Slots
      <4>1. gpc = "reads" => Slot \in Slots
        BY <1>3, HeadTail, StepTypes DEF WorkspaceTypes, Slot
      <4> QED
        BY <4>1 DEF Due
    <3>3. CASE e.op = "back" /\ e.src = s
      <4>1. meant[s] \in known[0][s]
        <5>1. 1 \in 1 .. n /\ 1 - 1 = 0
          BY <1>10
        <5> QED
          BY <1>2, <1>10, <3>3, <5>1 DEF StreamInv, CopiesBack
      <4>2. device[s] = meant[s]
        BY <1>2, <3>2, <4>1 DEF StreamInv, Known
      <4> QED
        BY <1>4, <1>7, <3>2, <3>3, <4>2
    <3>4. CASE ~(e.op = "back" /\ e.src = s)
      <4>1. pinned'[s] = pinned[s]
        BY <1>4, <1>7, <3>2, <3>4
      <4>2. CASE pinned[s] = meant[s]
        BY <4>1, <4>2
      <4>3. CASE pinned[s] # meant[s]
        <5>1. PICK i \in DOMAIN gpuStream : gpuStream[i].op = "back" /\ gpuStream[i].src = s
          BY <1>2, <4>3 DEF StreamInv, CopiesBack
        <5>2. i # 1
          BY <1>10, <3>4, <5>1
        <5> QED
          BY <1>10, <5>1, <5>2
      <4> QED
        BY <4>2, <4>3
    <3> QED
      BY <3>3, <3>4
  <2>6. CopiesBack(rest)'
    <3>1. gpuStream' = stream /\ gpc' = gpc /\ meant' = meant
      BY <1>1, <1>9
    <3> QED
      BY <1>10, <1>15, <2>2, <2>3, <2>4, <2>5, <3>1 DEF CopiesBack
  <2> QED
    BY <2>1, <2>6 DEF StreamInv
<1>17. RunsInv(h, k, rest)'
  <2> SUFFICES ASSUME gpc \in {"runs", "reads"}
               PROVE  (HasDone(h, k) /\ \A s \in Written(h, k) : meant[s] \in rest[Len(gpuStream)][s])'
    BY <1>1 DEF RunsInv
  <2>2. HasDone(h, k) /\ \A s \in Written(h, k) : meant[s] \in known[n][s]
    BY <1>1, <1>2, <1>8 DEF RunsInv
  <2>3. HasDone(h, k)'
    BY <1>1, <2>2 DEF HasDone
  <2>4. rest[n - 1] = known[n]
    <3>1. n - 1 \in 0 .. n - 1 /\ (n - 1) + 1 = n
      BY <1>10
    <3> QED
      BY <1>12, <3>1
  <2>5. Len(gpuStream') = n - 1
    BY <1>1, <1>9, <1>10
  <2> QED
    BY <1>1, <2>2, <2>3, <2>4, <2>5
<1> QED
  BY <1>1, <1>13, <1>14, <1>16, <1>17 DEF WorkspaceInv

(* What the host reads is what the request's kernels computed from what it *)
(* sent, in every family of handlers that use the workspaces in order.     *)
THEOREM OrderlyReadsResult ==
  ASSUME \A f \in Families : Orderly(f)
  PROVE  GpuSpec => []HostReadsResult
<1> DEFINE GpuInv == WorkspaceInv /\ HostReadsResult
<1>1. GpuInit => GpuInv
  <2>1. HAVE GpuInit
  <2>2. WorkspaceTypes
    <3>1. Zero \in Held
      BY DEF Zero, Held
    <3>2. <<>> \in Seq(Steps) /\ <<>> \in Seq(Ops)
      OBVIOUS
    <3> QED
      BY <2>1, <3>1, <3>2 DEF GpuInit, WorkspaceTypes
  <2>3. FlagsInv
    BY <2>1 DEF GpuInit, FlagsInv
  <2>4. PICK known : known = [i \in 0 .. Len(gpuStream) |-> [s \in Slots |-> {}]]
    OBVIOUS
  <2>5. StreamInv(known)
    <3>1. Known(known, gpuStream, device, pinned, Sent)
      BY <2>2, <2>4, NothingKnown DEF WorkspaceTypes
    <3>2. Due = {} /\ DOMAIN gpuStream = {}
      BY <2>1 DEF GpuInit, Due
    <3> QED
      BY <3>1, <3>2 DEF StreamInv, CopiesBack
  <2>6. \A h, k : RunsInv(h, k, known)
    BY <2>1 DEF GpuInit, RunsInv
  <2>7. HostReadsResult
    BY <2>1 DEF GpuInit, HostReadsResult
  <2> QED
    BY <2>2, <2>3, <2>5, <2>6, <2>7 DEF WorkspaceInv
<1>2. GpuInv /\ [GpuNext]_gpuVars => GpuInv'
  <2> SUFFICES ASSUME GpuInv, [GpuNext]_gpuVars
               PROVE  GpuInv'
    OBVIOUS
  <2>1. hostRead' = hostRead \/ hostRead' = {} => HostReadsResult'
    BY DEF HostReadsResult
  <2>2. CASE DispatchJob
    BY <2>1, <2>2, DispatchStep
  <2>3. CASE BorrowSlot
    BY <2>1, <2>3, BorrowStep
  <2>4. CASE CopyToDevice
    BY <2>1, <2>4, CopyStep
  <2>5. CASE LaunchKernel
    BY <2>1, <2>5, LaunchStep
  <2>6. CASE CopyToHost
    BY <2>1, <2>6, ReadStep
  <2>7. CASE CopiedToHost
    BY <2>7, ReadDoneStep
  <2>8. CASE FinishJob
    BY <2>1, <2>8, FinishStep
  <2>9. CASE Answer
    BY <2>1, <2>9, AnswerStep
  <2>10. CASE ReleaseJob
    BY <2>10, ReleaseStep
  <2>11. CASE FailJob
    BY <2>1, <2>11, FailStep
  <2>12. CASE DeviceStep
    BY <2>1, <2>12, DeviceDoes
  <2>13. CASE UNCHANGED gpuVars
    <3>1. /\ family' = family /\ handler' = handler /\ gpc' = gpc /\ jobs' = jobs /\ device' = device
          /\ pinned' = pinned /\ borrowed' = borrowed /\ copied' = copied /\ gpuStream' = gpuStream
          /\ meant' = meant /\ hostRead' = hostRead
      BY <2>13 DEF gpuVars
    <3>2. WorkspaceTypes' /\ FlagsInv'
      BY <3>1 DEF WorkspaceInv, WorkspaceTypes, FlagsInv
    <3>3. PICK h, k, known : StreamInv(known) /\ RunsInv(h, k, known)
      BY DEF WorkspaceInv
    <3>4. Due' = Due
      BY <3>1 DEF Due, Slot
    <3>5. StreamInv(known)'
      BY <3>1, <3>3, <3>4 DEF StreamInv, Sent, CopiesBack
    <3>6. RunsInv(h, k, known)'
      BY <3>1, <3>3 DEF RunsInv, HasDone
    <3> QED
      BY <2>1, <3>1, <3>2, <3>5, <3>6 DEF WorkspaceInv
  <2> QED
    BY <2>2, <2>3, <2>4, <2>5, <2>6, <2>7, <2>8, <2>9, <2>10, <2>11, <2>12, <2>13 DEF GpuNext
<1>3. GpuInv => HostReadsResult
  OBVIOUS
<1> QED
  BY <1>1, <1>2, <1>3, PTL DEF GpuSpec
==============================================================================
