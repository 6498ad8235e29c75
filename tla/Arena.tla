------------------------------- MODULE Arena --------------------------------
(***************************************************************************)
(* The memory of requests on one HTTP worker: arenas of chunks, the pool   *)
(* of chunks they share, marks and rewinds of loops, and the move of the   *)
(* whole of it when a request parks (internal/runtime/c/rt.go; http.go).   *)
(*                                                                         *)
(* A handler runs on a stack of frames, each with an arena of its own; a   *)
(* function allocates in its own frame or, for its result, in its          *)
(* caller's.  While a request is parked its arena and the chunks that were *)
(* pooled belong to it, and other requests run; its continuation then runs *)
(* on its own arena and pool, and gives both back.                         *)
(*                                                                         *)
(* Abstracted: sizes are whole numbers of the alignment; an object is the  *)
(* range it occupies; a tracked list is its number; malloc does not fail.  *)
(***************************************************************************)
EXTENDS Integers, Sequences, FiniteSets, SequencesExt

CONSTANTS
  Chunks,       \* chunks the heap can hold at once, a set of naturals (bound)
  Sizes,        \* sizes objects are allocated with
  DefaultCap,   \* RT_ARENA_DEFAULT_CHUNK_SIZE
  TrimCap,      \* 65536: larger chunks are not kept in the worker's pool
  TrimKeep,     \* 16: nor are more than these
  MaxDepth,     \* frames on the stack, at most (bound)
  MaxObjects,   \* live objects of a frame, at most (bound)
  MaxLists,     \* tracked lists made, at most (bound)
  MaxMarks,     \* nested loops of a function, at most (bound)
  None

(* A frame: its chunks, newest first; its objects, oldest first; its       *)
(* tracked lists, newest first; and the marks of the loops it is in.       *)
Frame == [chunks : Seq(Chunks), objects : Seq([chunk : Chunks, at : Nat, size : Nat]),
          lists : Seq(Nat),
          marks : Seq([chunk : Chunks \cup {None}, used : Nat, lists : Nat, objects : Nat])]

ASSUME ArenaAssumption ==
  /\ Chunks \subseteq Nat
  /\ Sizes \subseteq Nat \ {0}
  /\ DefaultCap \in Nat \ {0}
  /\ TrimCap \in Nat /\ TrimKeep \in Nat
  /\ MaxDepth \in Nat /\ MaxObjects \in Nat /\ MaxLists \in Nat /\ MaxMarks \in Nat
  /\ None \notin Nat \cup Frame

VARIABLES
  cap,     \* the capacity of each chunk, 0 when it is not allocated
  used,    \* how much of it is
  pool,    \* chunk_pool of the worker's context and of the parked one's
  stack,   \* the frames of the handler, or the continuation, that runs
  phase,   \* "handler", or for the parked one: "retain", "continue"
  parked,  \* the frame of the parked request, or None
  lists    \* tracked lists: how many were made, how often each was freed

vars == <<cap, used, pool, stack, phase, parked, lists>>

NewFrame == [chunks |-> <<>>, objects |-> <<>>, lists |-> <<>>, marks |-> <<>>]

Top == Len(stack)
Ctx == IF phase = "handler" THEN "worker" ELSE "park"
Smallest(S) == CHOOSE x \in S : \A y \in S : x <= y
Largest(a, b) == IF a >= b THEN a ELSE b

----------------------------------------------------------------------------
(* Chunks *)

(* rt_arena_next_chunk_cap *)
NextChunkCap(frame, size) ==
  LET grown == IF frame.chunks = <<>> THEN 0 ELSE 2 * cap[Head(frame.chunks)]
  IN  Largest(size, Largest(DefaultCap, grown))

(* rt_arena_alloc when the newest chunk has room *)
HasRoom(frame, size) ==
  frame.chunks # <<>>
    /\ LET c == Head(frame.chunks) IN size <= cap[c] - used[c]

WithObject(frame, c, at, size) ==
  [frame EXCEPT !.chunks = IF Contains(@, c) THEN @ ELSE <<c>> \o @,
                !.objects = Append(@, [chunk |-> c, at |-> at, size |-> size])]

AllocInPlace(f, size) ==
  /\ HasRoom(stack[f], size)
  /\ LET c == Head(stack[f].chunks) IN
       /\ stack' = [stack EXCEPT ![f] = WithObject(@, c, used[c], size)]
       /\ used' = [used EXCEPT ![c] = @ + size]
  /\ UNCHANGED <<cap, pool>>

(* rt_arena_take_chunk: the first in the pool that is large enough... *)
Fitting(size) == {i \in DOMAIN pool[Ctx] : cap[pool[Ctx][i]] >= size}

AllocFromPool(f, size) ==
  /\ ~HasRoom(stack[f], size)
  /\ Fitting(size) # {}
  /\ LET i == Smallest(Fitting(size))
         c == pool[Ctx][i]
     IN  /\ pool' = [pool EXCEPT ![Ctx] = RemoveAt(@, i)]
         /\ stack' = [stack EXCEPT ![f] = WithObject(@, c, 0, size)]
         /\ used' = [used EXCEPT ![c] = size]
  /\ UNCHANGED cap

(* ... or a new one *)
AllocNewChunk(f, size) ==
  /\ ~HasRoom(stack[f], size)
  /\ Fitting(size) = {}
  /\ \E c \in Chunks : cap[c] = 0
  /\ LET c == Smallest({k \in Chunks : cap[k] = 0}) IN
       /\ cap' = [cap EXCEPT ![c] = NextChunkCap(stack[f], size)]
       /\ stack' = [stack EXCEPT ![f] = WithObject(@, c, 0, size)]
       /\ used' = [used EXCEPT ![c] = size]
  /\ UNCHANGED pool

Alloc(f, size) ==
  /\ Len(stack[f].objects) < MaxObjects
  /\ AllocInPlace(f, size) \/ AllocFromPool(f, size) \/ AllocNewChunk(f, size)
  /\ UNCHANGED <<phase, parked, lists>>

(* A list is made in a frame, whose arena tracks it. *)
TrackList(f) ==
  /\ Len(lists) < MaxLists
  /\ lists' = Append(lists, 0)
  /\ stack' = [stack EXCEPT ![f].lists = <<Len(lists')>> \o @]
  /\ UNCHANGED <<cap, used, pool, phase, parked>>

(* rt_arena_free_lists_until *)
Freed(nodes) == [l \in DOMAIN lists |-> IF Contains(nodes, l) THEN lists[l] + 1 ELSE lists[l]]

----------------------------------------------------------------------------
(* Loops *)

(* rt_arena_mark_current, at the start of each iteration.  Only the frame  *)
(* of a function is rewound, never the arena of its request.               *)
MarkCurrent ==
  /\ Top > 1
  /\ LET f == stack[Top]
         chunk == IF f.chunks = <<>> THEN None ELSE Head(f.chunks)
     IN  /\ Len(f.marks) < MaxMarks
         /\ stack' = [stack EXCEPT ![Top].marks = Append(@,
              [chunk |-> chunk, used |-> IF chunk = None THEN 0 ELSE used[chunk],
               lists |-> Len(f.lists), objects |-> Len(f.objects)])]
  /\ UNCHANGED <<cap, used, pool, phase, parked, lists>>

(* The chunks newer than the mark's *)
NewerChunks(frame, mark) ==
  {frame.chunks[i] : i \in {j \in DOMAIN frame.chunks :
                              \A k \in 1 .. j : frame.chunks[k] # mark.chunk}}

(* Mutant: the used part at the mark is not restored. *)
RewindToZero ==
  /\ Top > 1
  /\ LET f == stack[Top] IN
       /\ f.marks # <<>>
       /\ LET mark == Last(f.marks)
              newLists == Len(f.lists) - mark.lists
          IN  /\ lists' = Freed(SubSeq(f.lists, 1, newLists))
              /\ used' = [c \in Chunks |-> IF c \in NewerChunks(f, mark) THEN 0
                                           ELSE IF c = mark.chunk THEN 0
                                           ELSE used[c]]
              /\ stack' = [stack EXCEPT
                   ![Top].marks = Front(@),
                   ![Top].lists = SubSeq(@, newLists + 1, Len(@)),
                   ![Top].objects = SubSeq(@, 1, mark.objects)]
  /\ UNCHANGED <<cap, pool, phase, parked>>

(* Mutant: freed lists stay linked. *)
RewindKeepsLists ==
  /\ Top > 1
  /\ LET f == stack[Top] IN
       /\ f.marks # <<>>
       /\ LET mark == Last(f.marks)
              newLists == Len(f.lists) - mark.lists
          IN  /\ lists' = Freed(SubSeq(f.lists, 1, newLists))
              /\ used' = [c \in Chunks |-> IF c \in NewerChunks(f, mark) THEN 0
                                           ELSE IF c = mark.chunk THEN mark.used
                                           ELSE used[c]]
              /\ stack' = [stack EXCEPT
                   ![Top].marks = Front(@),
                   ![Top].objects = SubSeq(@, 1, mark.objects)]
  /\ UNCHANGED <<cap, pool, phase, parked>>

(* rt_arena_rewind, at the end of each *)
Rewind ==
  /\ Top > 1
  /\ LET f == stack[Top] IN
       /\ f.marks # <<>>
       /\ LET mark == Last(f.marks)
              newLists == Len(f.lists) - mark.lists
          IN  /\ lists' = Freed(SubSeq(f.lists, 1, newLists))
              /\ used' = [c \in Chunks |-> IF c \in NewerChunks(f, mark) THEN 0
                                           ELSE IF c = mark.chunk THEN mark.used
                                           ELSE used[c]]
              /\ stack' = [stack EXCEPT
                   ![Top].marks = Front(@),
                   ![Top].lists = SubSeq(@, newLists + 1, Len(@)),
                   ![Top].objects = SubSeq(@, 1, mark.objects)]
  /\ UNCHANGED <<cap, pool, phase, parked>>

(* A break leaves the loop without a rewind. *)
Break ==
  /\ Top > 1
  /\ stack[Top].marks # <<>>
  /\ stack' = [stack EXCEPT ![Top].marks = Front(@)]
  /\ UNCHANGED <<cap, used, pool, phase, parked, lists>>

----------------------------------------------------------------------------
(* Frames *)

(* A function that needs a frame is called. *)
Call ==
  /\ stack # <<>>
  /\ Top < MaxDepth
  /\ phase # "retain"
  /\ stack' = Append(stack, NewFrame)
  /\ UNCHANGED <<cap, used, pool, phase, parked, lists>>

(* rt_arena_deinit: the chunks go to the pool, one by one at its head. *)
Pooled(frame) == Reverse(frame.chunks) \o pool[Ctx]

Emptied(frame) == [c \in Chunks |-> IF Contains(frame.chunks, c) THEN 0 ELSE used[c]]

Return ==
  /\ Top > 1
  /\ pool' = [pool EXCEPT ![Ctx] = Pooled(stack[Top])]
  /\ used' = Emptied(stack[Top])
  /\ lists' = Freed(stack[Top].lists)
  /\ stack' = Front(stack)
  /\ UNCHANGED <<cap, phase, parked>>

----------------------------------------------------------------------------
(* Requests *)

(* rt_http_dispatch *)
Dispatch ==
  /\ stack = <<>>
  /\ stack' = <<NewFrame>>
  /\ phase' = "handler"
  /\ UNCHANGED <<cap, used, pool, parked, lists>>

(* The small chunks of a pool, in their order: a set of one sequence. *)
Small(chunks) ==
  LET at == {i \in DOMAIN chunks : cap[chunks[i]] <= TrimCap}
  IN  {[k \in DOMAIN order |-> chunks[order[k]]] :
         order \in {f \in [1 .. Cardinality(at) -> at] : \A k, l \in DOMAIN f : k < l => f[k] < f[l]}}

(* Mutant: small chunks are not counted. *)
KeptAllSmall(chunks) == Small(chunks)

(* rt_http_trim_worker_pool: the first of them stay. *)
Kept(chunks) ==
  {SubSeq(small, 1, IF Len(small) <= TrimKeep THEN Len(small) ELSE TrimKeep) : small \in Small(chunks)}

(* The worker's pool, trimmed: what is not kept is freed. *)
Trim(chunks, others) ==
  \E kept \in Kept(chunks) :
    /\ pool' = [worker |-> kept, park |-> others]
    /\ cap' = [c \in Chunks |-> IF Contains(chunks, c) /\ ~Contains(kept, c) THEN 0 ELSE cap[c]]

(* The request was answered by its handler. *)
Respond ==
  /\ Top = 1 /\ phase = "handler"
  /\ Trim(Pooled(stack[1]), pool.park)
  /\ used' = Emptied(stack[1])
  /\ lists' = Freed(stack[1].lists)
  /\ stack' = <<>>
  /\ UNCHANGED <<phase, parked>>

(* Mutant: the worker's chunk_pool is not cleared. *)
ParkSharesPool ==
  /\ Top = 1 /\ phase = "handler"
  /\ parked = None
  /\ phase' = "retain"
  /\ pool' = [worker |-> pool.worker, park |-> pool.worker]
  /\ UNCHANGED <<cap, used, stack, parked, lists>>

(* rt_http_park_begin; then rt_http_retain_parked copies the request into  *)
(* the arena that was parked.                                              *)
Park ==
  /\ Top = 1 /\ phase = "handler"
  /\ parked = None
  /\ phase' = "retain"
  /\ pool' = [worker |-> <<>>, park |-> pool.worker]
  /\ UNCHANGED <<cap, used, stack, parked, lists>>

Retained ==
  /\ phase = "retain"
  /\ stack # <<>>
  /\ parked' = stack[1]
  /\ stack' = <<>>
  /\ UNCHANGED <<cap, used, pool, phase, lists>>

(* rt_http_gpu_release runs the continuation on the parked arena...        *)
Continue ==
  /\ stack = <<>>
  /\ parked # None
  /\ stack' = <<parked>>
  /\ parked' = None
  /\ phase' = "continue"
  /\ UNCHANGED <<cap, used, pool, lists>>

(* ... and gives its chunks and its pool back to the worker. *)
Release ==
  /\ Top = 1 /\ phase = "continue"
  /\ Trim(Reverse(Pooled(stack[1])) \o pool.worker, <<>>)
  /\ used' = Emptied(stack[1])
  /\ lists' = Freed(stack[1].lists)
  /\ stack' = <<>>
  /\ UNCHANGED <<phase, parked>>

----------------------------------------------------------------------------
Init ==
  /\ cap = [c \in Chunks |-> 0]
  /\ used = [c \in Chunks |-> 0]
  /\ pool = [worker |-> <<>>, park |-> <<>>]
  /\ stack = <<>>
  /\ phase = "handler"
  /\ parked = None
  /\ lists = <<>>

(* A function allocates in its frame or, for its result, in its caller's. *)
Own == {f \in DOMAIN stack : f >= Top - 1}

Next ==
  \/ \E f \in Own : TrackList(f) \/ \E size \in Sizes : Alloc(f, size)
  \/ MarkCurrent \/ Rewind \/ Break
  \/ Call \/ Return
  \/ Dispatch \/ Respond \/ Park \/ Retained \/ Continue \/ Release

Spec == Init /\ [][Next]_vars

----------------------------------------------------------------------------
(* The frames that live: those of the stack and, as number 0, the parked   *)
(* one.                                                                    *)
Live == DOMAIN stack \cup (IF parked = None THEN {} ELSE {0})

FrameAt(f) == IF f = 0 THEN parked ELSE stack[f]

(* The places a chunk may be linked from: these frames and the two pools *)
WorkerPool == -1
ParkPool == -2
Links == [p \in Live \cup {WorkerPool, ParkPool} |->
            CASE p = WorkerPool -> pool.worker
              [] p = ParkPool -> pool.park
              [] OTHER -> FrameAt(p).chunks]

(* Each element of S is in one of the sequences, once, and no other is. *)
HeldOnce(seqs, S) ==
  /\ \A p \in DOMAIN seqs : IsInjective(seqs[p])
  /\ \A p, q \in DOMAIN seqs : p # q => ToSet(seqs[p]) \cap ToSet(seqs[q]) = {}
  /\ S = UNION {ToSet(seqs[p]) : p \in DOMAIN seqs}

(* A chunk is linked from one place, once, as long as it is allocated, and *)
(* from none afterwards: none is lost, freed twice or shared.              *)
ChunksLinkedOnce == HeldOnce(Links, {c \in Chunks : cap[c] > 0})

Disjoint(a, b) ==
  a.chunk # b.chunk \/ a.at + a.size <= b.at \/ b.at + b.size <= a.at

(* Objects that live never overlap - of one frame, of a caller and its     *)
(* callee, of the parked request and the ones served meanwhile - and lie   *)
(* in the used part of a chunk.                                            *)
NoAlias ==
  \A f \in Live : \A i \in DOMAIN FrameAt(f).objects :
    LET o == FrameAt(f).objects[i] IN
      /\ o.at + o.size <= used[o.chunk]
      /\ \A g \in Live : \A j \in DOMAIN FrameAt(g).objects :
           <<f, i>> # <<g, j>> => Disjoint(o, FrameAt(g).objects[j])

(* A list is freed once, when its arena lets go of it, and not before. *)
ListsFreedOnce ==
  \A l \in DOMAIN lists :
    lists[l] = IF \E f \in Live : Contains(FrameAt(f).lists, l) THEN 0 ELSE 1

(* Between requests the worker keeps a few small chunks, whatever the      *)
(* requests needed.                                                        *)
PoolBounded ==
  stack = <<>> =>
    /\ Len(pool.worker) <= TrimKeep
    /\ \A i \in DOMAIN pool.worker : cap[pool.worker[i]] <= TrimCap
=============================================================================
