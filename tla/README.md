# Trux in TLA+

Trux (`src/`) is a compiled language: a Go compiler (`cmd/trux`, `internal/`)
translates `.tx` files to one C file, and a C runtime (`internal/runtime/c`,
held in Go string constants) is compiled into every program. The runtime has
arenas instead of a collector, an io_uring HTTP server with one thread per
worker, and GPU requests that leave the server's loop and come back to it.

This directory models the parts in which order, failure and shared state make
the code hard to test, checks the models with TLC and proves the most important
facts about them with TLAPS. Paths below are relative to `src/`.

    tlc -workers 2 -config HttpTraffic.cfg MCHttpWorker.tla    # one run
    tlapm GpuPark_proofs.tla                                   # one proof module

`PROJECT.json` lists the components, the runs, the line ranges each definition
stands for (`map`), a plausible bug for every property and the hazards.

## 1. Inventory

| component | state | operations | interacts with | what is hard, and what makes it correct |
|---|---|---|---|---|
| HTTP worker (`http.go` 493-1296) | connection table by descriptor, receive buffer, `tx_buf` and its in-flight flags, ready queue, `need_submit` | accept, multishot recv, queued SEND, direct `writev`, drain, close | kernel (ring, descriptor table), clients, handlers, parked GPU request | descriptor numbers are reused while completions for the old connection are on their way; two ways to the wire. Answers reach their own client, once, in order; only what should be closed is |
| Deferred GPU requests (`http.go` 640-992, `rt.go` 1989-2099) | the parked request, generation, timer flag, job flag, CUDA stream, eventfd | park, query, poll, timeout, release, drain the ready queue, reset the stream | CUDA driver thread, ring, worker loop, arenas | three racing wake-ups, kernels that fail, waiting requests that only a release wakes. Released once, by its own kernel, nobody forgotten |
| Request memory (`rt.go` 262-480) | arenas of chunks, pools, tracked lists, marks | allocate, mark, rewind, deinit, park, release, trim | generated code (frames, loops), HTTP worker | chunks move between frames, pools and the parked request. No overlap, no loss, one free |
| Object cache (`cmd/trux/compile.go` 402-549) | files in a shared cache directory | stat, write, compile, remove, rename, link | other `trux` processes | interleaved or killed builds. The cache never holds a bad object |
| HTTP parsing and routing (`http.go`) | scan position, request, middleware chain | header scan, framing, limits, match, middleware, dispatch, retain | worker, handlers, park | fragments: what is served must not depend on where the stream is cut; a scan position and strings that go stale; one answer whatever handlers do |
| GPU memory, workspaces (`rt.go` 1725-1985) | workspaces and their mirrors, flags borrowed and copied | borrow, copy, launch, read, finish | handlers, park | copies back left out on flags of an earlier request |
| Lists, maps, strings (`rt.go` 481-1510) | entries, buckets, tombstones | set, delete, rehash, clone, iterate | arenas | a rehash in place, tombstones in runs of collisions; agreement with an ordered map; searches that end |
| Checked arithmetic (`rt.go` 128-262) | none | + - * / % negation, in three builds | generated code | guards that overflow themselves; every overflow fails, none wraps |
| TXM (`rt.go` 1566-1655, `python/txm.py`) | a file | write, read | the Python exporter | a reader that accepts exactly what the writer writes |
| Files, CSV, images, input (`rt.go` 2111-2844) | none | read, write, parse | file system | CSV quoting round trip |
| SQLite binding (`sqlite.go`) | per-thread connections, WAL checkpoint thread | open, close, query | vendored SQLite | a cached connection closed by another holder |
| JSON, JWT bindings | none | parse, sign, verify | vendored yyjson | none beyond unit tests |
| Lexer, parser, AST, tokens | position | scan, descend | all of the compiler | none beyond unit tests |
| Module loader (`internal/modules`) | units, stack, packages | load, siblings, cycle test, names | parser, language server overlays | the order files are met in must not matter |
| Type checker (`internal/types`) | scopes, origins | check, join | loader, IR | nothing points into a frame that is gone |
| IR, C code generation (`internal/ir`, `internal/codegen/c`) | frames, loops, GPU flags | lower, emit | runtime | a loop is rewound only if nothing built in it escapes; a handler that can reach `gpu.finish` is flagged |
| Standard library tables | none | look up | types, IR, codegen | data |
| Formatter | none | print | CLI | idempotence |
| Command line (`cmd/trux`) | temporary directories | build, run, debug, test, fmt | compiler, C compiler | test isolation |
| Language server (`tooling/lsp`) | open documents | open, change, close | loader with overlays | diagnostics that stay stale |
| VS Code extension; vendored SQLite, yyjson; examples, benchmarks, website | | | | outside this project |

## 2. Modules

| module | models | EXTENDS / INSTANCE |
|---|---|---|
| `GpuService` | what the clients of GPU routes are promised: one request in flight, the others in order, each answered as its own kernel ended | |
| `GpuPark` | one worker thread and the request it may have parked | INSTANCE `GpuService` (refinement) |
| `GpuPark_proofs` | theorems about it | `GpuPark`, TLAPS |
| `HttpWorker` | the loop, the connection table and the way a response reaches the wire | |
| `Arena` | chunks, pools, frames, marks, tracked lists, park and release | |
| `Statements` | the statements that matter to where strings live | |
| `ReturnOrigins` | the checker's origins of string variables, and which returns copy | `Statements` |
| `LoopRewind` | which loops the code generator rewinds, and a machine that runs what it emits | `ReturnOrigins` |
| `HttpStream` | how received bytes are cut into requests | |
| `HttpDispatch` | one request through middleware, handler and continuation, and where its strings live | |
| `GpuWorkspace` | workspaces, their mirrors, and the copies `gpu.finish` leaves out | |
| `OrderedMap` | what a map of the language promises | |
| `RtMap` | the hash map of the runtime: set, delete, rehash, clone | INSTANCE `OrderedMap` (refinement) |
| `CheckedArith` | the arithmetic of ints, in the three builds of the runtime | |
| `ObjectCache` | builds that share the cache of compiled objects | |
| `HttpWorker_proofs`, `Arena_proofs`, `RtMap_proofs`, `GpuWorkspace_proofs` | theorems about them | the module before `_proofs`, TLAPS |
| `HttpAnswers_proofs` | what an HTTP worker owes its clients, and in which order they get it | `HttpWorker_proofs` |
| `HttpRequests_proofs` | theorems about one connection's requests: how they are cut and how each is answered | `HttpStream`, `HttpDispatch`, TLAPS |
| `Parts_proofs` | theorems about the two smallest | `CheckedArith`, `ObjectCache`, TLAPS |
| `MCGpuPark`, `MCHttpWorker`, `MCArena`, `MCLoopRewind` | small instances: symmetry sets, bounds, programs | the module after `MC` |
| `MCParts` | one instance of six components that share no state | `RtMap`, `HttpStream`, `GpuWorkspace`, `HttpDispatch`, `CheckedArith`, `ObjectCache` |

Definitions named in a comment as "Mutant" are the original with one plausible
bug; no specification uses them.

**GpuPark and HttpWorker** meet in the ready queue, the parked request and its
release. `GpuPark` knows all of the device and of the ring's bookkeeping and
nothing of connections: a request is complete and has a connection of its own.
`HttpWorker` knows all of the connections, and its GPU job may end at any time,
done or failed, which is what `GpuPark` shows of it. `Arena` has the memory side
of the same dispatch, park and release, `GpuWorkspace` the device's. The three
agree on the names of those operations. `HttpStream` is what `HttpWorker` takes
for granted of its input - that a connection delivers whole requests, the right
ones - and `HttpDispatch` is the inside of its `dispatch`: the handler that there
is one of seven kinds is here a sequence of steps.

### GpuPark

One action per step of `rt_http_worker_thread` that another actor can come
between: the query at the loop top (`LoopTopRelease`, `LoopTopPass`), the wait
(`Wake`, `Interrupted`), each kind of completion (`ReadPoll` then `PollWithJob`
or `PollWithoutJob`; `ReadTimeout` then `TimeoutQuery`; `Receive`;
`ClientGone`), one step of `rt_http_drain_ready` (`DrainReady`,
`DrainReadyReturns`) and the end of a batch (`EndBatch`). A dispatch, a park and
a release are operators of these actions and make all the changes of the code
they stand for. The environment is the device (`JobCompletes`, `JobFails`,
`ContextLost`), the thread on which CUDA runs the host callback (`HostSignal`),
the ring (`PollFires`, `TimerFires`) and the clients. Operations on the ring are
counted by stage - prepared, in the kernel, completed - because a prepared
operation that nobody submits is a hang. Timeouts are counted by whether they
carry the current generation. `status` and `computed` are history variables.

### HttpWorker

The kernel's view (`owner`, `shut`, `armed`, `pending`, `cq`) and the worker's
(`conns`, `frame`, `ready`, `parked`) are separate, since a completion names a
descriptor number and not a connection. The calls `rt_http_drain_conn`,
`rt_http_dispatch`, `rt_http_respond`, `rt_http_send_simple` and
`rt_http_gpu_release` are steps chained by `pc`, with `back` and `ret` for where
they return to. A SEND reads `tx_buf` when the kernel executes it, not when it is
prepared. The ring is created with `DEFER_TASKRUN`: the kernel posts only while
the worker submits or waits. A response is `Parts` units, so that with
`Parts = 2` a SEND can be short; with `backpressure` in the traffic it can also wait
for room.
Requests are one of seven kinds, chosen for the different paths they take.

### Arena

A stack of frames, one for each generated function that has one, over the arena
of the request; allocation in place, from the pool or with `malloc`; nested
marks and their rewinds; a return, a response, a park, a continuation and its
release with the trim of the pool. An object is the range it occupies. The
generated code is taken at its word in one respect: it rewinds a loop only in the
frame of a function, and what a callee returns is allocated in its caller's
frame. Whether the code generator is right to rewind a given loop is the question
of `LoopRewind`.

### LoopRewind, ReturnOrigins

The analysis of `c.go` 212-403 over a small language (let, assignment and append
of a literal, a parameter, a fresh string or a variable; calls that keep their
argument or return two strings; `if`, inner loops, `break`, `continue`, a post
statement, returns), and a machine that runs the C emitted for it (`c.go`
1162-1245, 1650-1700): the block scopes, the mark at the top, the label of
`continue`, the rewind at the bottom, the copy out of the frame at a return. An
allocation is its number in the order of allocation; a rewind ends the life of
every one after the mark, a return that of all the frame's. `ReturnOrigins` is
the checker's part (`types.go` 397-520, 1150-1260): the origins joined over
branches and loop exits, and so which returns copy. Analyses and run are written
separately, so `NoDangling` and `ReturnedLives` compare one with the other.
Conditions are choices, integer work and the init of the counter are left out,
and names are not shadowed. Statements that always publish (stores through a
field or a pointer, GPU and HTTP statements) never let a loop rewind and are left
out. Both analyses are recursive operators, so these modules stay with TLC.

### RtMap

`entries` and `buckets` as in the code, `len` and the capacities beside them.
Rehash, the making of a table and clone are loops with one action per turn, since
the entries are compacted in place while the new buckets fill; a search is an
operator (`Distance` is where the loop of `rt_map_find_bucket` ends). The clone
becomes the map the program goes on with. `ImplementsOrderedMap` maps the entries
that count to a function and to the order of insertion: rehash and clone are
stutters.

### HttpStream, HttpDispatch, GpuWorkspace, CheckedArith

`HttpStream`: a byte is one end-of-line character, one that starts a line and
stands for what the line says, or a filler, so that every cut the scan can meet is
there in a stream of at most a dozen bytes. `scanStart`, compaction, the refusals
(400, 413, 431), `Connection: close`, a parked request that stops the drain and
the table entry taken over by a next connection are all as in
`rt_http_drain_conn`. The declarative reading of a stream, `Framing`, has no scan
position.

`HttpDispatch`: the handler's effects one by one, a frame for every call, and for
each string the memory it lies in: static, the receive buffer, a frame, the arena
of the parked request. `readings` is what the last step read and whether that
memory was still there.

`GpuWorkspace`: borrow, copy, launch, read and finish in the order a handler
calls them; the stream runs what was queued, in order, when the job completes or a
read synchronises. A value is the request it was computed for and how many
kernels it went through, so that a copy left out, or made of the wrong request's
data, shows.

`CheckedArith`: `Wrapped` at the width given by `IntMax`; each guard is the
expression of the code, with what C wraps wrapped.

### ObjectCache

One action per system call of `ensureSQLiteObjectCached` and
`ensureYYJSONObjectCached`, `os.WriteFile` being two (truncate, write), then the
link. A process can be killed before any of them. `Serial` says that a build
starts only when no other runs.

## 3. Runs

| run | bounds | what it shows |
|---|---|---|
| `gpu_park_safety` | 3 requests; job and context faults | bookkeeping of timers, polls and submissions; the ready queue always has a waker; a continuation follows its own kernel; released once; the worker implements `GpuService` |
| `gpu_park_live` | 2 requests; job faults | each request parked or waiting is released; `GpuService` with its fairness |
| `http_traffic` | 2 clients on one number, 2 requests each; every kind in turn with short and delayed sends, or small, large and closing ones pipelined | table, kernel and recv operations agree; one recv per connection; only what should be closed is; the buffer loop ends; a worker that waits owes no answer; isolation, order, one owner of `tx_buf` |
| `http_gpu` | 2 clients on 2 numbers, GPU requests, one client pipelines two | a held request is parked or queued behind the parked one; no answer twice; every request is answered or its connection ends |
| `arena` | 3 chunks, sizes 1 and 3, 2 frames, 2 lists, 2 objects per frame | chunks linked once, no overlap, lists freed once, pool bounded |
| `loop_rewind` | about 4000 functions with loops of up to 6 statements, 2 iterations per loop, one outer variable and one list | no escape of memory that is rewound; each iteration starts with the frame as the loop found it; what is returned outlives the frame |
| `parts` | see below | six components, each explored in full while the others rest |
| `gpu_park_unflagged`, `http_order_simple`, `http_reuse_parked`, `loop_rewind_escape`, `return_origin` | as small as the case needs | five places where the code does not do what its documentation says (section 6) |

`parts` is one run of six questions that share no state; the variable `part` of
`MCParts` says which component moves, and all of a component's states are
reached, as if it were alone:

| part | bounds | what it shows |
|---|---|---|
| map | 3 keys, two of them with one hash and the third next to it, 2 values, first table of 2 buckets and at most 8, new maps of capacity 0, 1, 3 | searches end, find what is live, and the map is an ordered map through every step of a rehash |
| stream | 44 streams of two requests and 4 of one to three more, 2 clients in turn on the table entry, headers of at most 10 bytes, any fragments | requests are the stream's whatever the fragments; nothing is left waiting in the buffer that could be served |
| gpu | 3 slots, 3 jobs, three families of handlers | what a continuation reads on the host is what its own kernels computed |
| dispatch | 14 applications of up to 2 middleware and 6 routes, a context of 2 pairs | strings are read while they live and are those set last; one answer |
| arith | ints of 5 bits, every pair, every operation, three builds | exact or failing |
| cache | 3 builds in turn, 2 kills | the cache is sound, leftovers are harmless, the object is there |

Why these bounds are enough to be interesting:

- Three GPU requests are one in flight and two in the queue, the least that
  tells a queue from a stack, and two releases in a row, so that timeouts of two
  old generations can be outstanding. The safety part is also proved for every
  number.
- One descriptor number and two clients force reuse; two numbers let one
  connection wait behind another's parked request. A third client would only
  repeat one of them.
- Two requests per client are enough for every pair of neighbouring responses,
  the unit in which order, overwriting and short sends go wrong.
- Three chunks of capacities 2, 3 and 4 give a chunk above and one below
  `TrimCap`, a pool of more than `TrimKeep`, and a request that is parked while
  another allocates. With `DefaultCap = 2` a size of 3 does not fit a default chunk.
- Two iterations are what it takes to use in one what the iteration before left
  behind; the statements of a body are chosen so that a value can be made, moved
  to a second variable under a condition, and handed over.
- The first table of a map has 8 buckets in the code and 2 here, so that three
  keys fill it, wrap around its end and rehash it twice; the proofs hold for any
  number. The hashes collide on purpose.
- Two jobs are the least in which flags left by the first can mislead the second
  (the violation of section 6 takes two); the third follows one of each.
- 5 bits hold each corner of a signed product and quotient; the proof is for every
  width.
- Two kills leave a build that starts where two others were cut off.

`QuietReuse` is the one hypothesis of the passing HTTP runs: a descriptor number
is given to a new client only when no queue, no recv and no parked request
refers to it. The code does not ensure it; what happens without it is
`http_reuse_parked`. With it, what remains to be shown - and is - is that the
worker itself keeps its books. In the pipelined traffic of `http_traffic`
responses that bypass the queue (404, 400, ...), delayed SENDs and GPU routes
are left out, since `InOrder` is false with any of them: section 6.

Deadlock is checked in every run. A state in which only new clients or new
completions can move anything is the stutter `Idle`, `Exited` or `AllEnded`; a
loop that has ended is `Done`. Only in `parts` is it off, since a component may
come to its end: every request of the stream served, every build done.

## 4. Fairness

Liveness is checked under weak fairness of: the worker thread's steps, and its
wake-up when a completion is there (the thread is never blocked elsewhere); the
device (a kernel ends, by completing or by failing); the driver's callback
thread; the kernel's posting of a poll, a timeout, a recv, a SEND that has room.
Nothing is assumed of clients: they may never send, and may leave at any time.
`EveryRequestAnswered` therefore promises an answer only to a client that stays,
and only until its connection ends.

## 5. Proofs

`GpuPark_proofs` proves, for any set of requests, each safety property of
`gpu_park_safety`. The invariants are not inductive alone.
`IInv` is the conjunction of:

- `TypeOK`;
- `SubmitInv`: nothing is prepared and unsubmitted at the loop top or in the
  wait; elsewhere it is only if `needSubmit` is set (gives `NothingStranded`);
- `TimerInv`: exactly one timeout of the current generation while a request is
  parked, and `timerArmed` only then (gives `TimerCovers`);
- `JobInv`: `busy` exactly while a request is parked, and the stream's state is
  that of the parked request's kernel (gives `AnswerMatchesKernel`);
- `HistoryInv`: the history agrees with the parked request and the ready queue,
  which holds no request twice;
- `ReadyHasWaker` and `AnswerMatchesKernel` themselves.

Each part has a lemma that every action preserves it from `IInv`; `Inductive`
combines them. `ReleasedOnce` is an action property and follows from `IInv` at
the step; `PollsWithinBudget` counts the polls against the releases in the history.
`OnlyLostContextsExit` and `WorkerImplementsService` assume
`Hidden = {}`: that the compiler flagged every route that can reach
`gpu.finish`, which it does not (section 6). The refinement maps the parked
request to `inflight`, the ready queue to `queue` and final statuses to `result`;
every other step, the end of the process included, is a stutter.

`HttpWorker_proofs` and `HttpAnswers_proofs` prove the ten safety properties of
the two HTTP runs, eight and two of them, for any number of clients and
descriptors, any parts of a response, short and delayed SENDs included, and any
traffic but for `NeverHangs` and `InOrder` (below). Each invariant builds on the
one before:

- `Types`: also where the worker is in its code, so that a step at a connection
  has one, and a request of it.
- `TableInv`: a number that is open is in use, or exactly one completion of an
  accept is queued that will put it in use; a closed one has neither. Without the
  queued accepts `TableAgrees` is not inductive.
- `CountInv`: for each number, the recvs armed, submitted and ended and the SENDs
  submitted, pending and completed, counted wherever they are; and nothing is out
  for a connection that is yet to be accepted. It gives `Listened` and
  `TxExclusive`.
- `RefsInv`: whatever refers to a number - a recv or a SEND in the kernel, a
  completion, a request in a receive buffer, the response in `tx_buf`, the request
  being served, the parked one - is about the socket that has it, if one has it at
  all. It gives `Isolation`: a SEND reads `tx_buf` when the kernel comes to it, and
  the buffer still holds a response for the socket behind the number.
- `AskInv`: who has `closeAfterTx`, a closing request, an end of stream on its way
  or no descriptor any more has asked for it, or left.
- `OnceInv`, on `RefsInv`: a request that nobody began to answer (`Fresh`) is in
  one place (`Once`): with its client, in a completion, in a buffer, parked, or
  released and about to be answered. What is on a wire (`WireOld`) or in a `tx_buf`
  that a SEND reads (`TxOld`) is not fresh, no two connections send the same
  request (`TxApart`), and a SEND starts after what was sent, none of which follows
  it on a wire (`Left`). So each write starts where nothing of the same request is
  yet, which gives `NoDuplicates`.
- `HeldInv`: a request in a buffer is looked at now or its connection is in the
  ready queue, and a queue that is not empty has a parked request to wait for.
- `BuffersInv`: every connection in use, and every number that data may arrive
  for, has a receive buffer. It gives `NeverHangs` for traffic without
  `uploadClose`, whose buffer is freed as its connection closes; with it the worker
  does hang (section 6).

`HttpAnswers_proofs` goes on from there:

- `OwnInv`: a recv, a completion with data and a parked request are about a socket
  that is over (`Ended`: closed, shut down or left), or that has the number still.
  It is what `RefsInv` says, turned around: there, the socket of a number is the
  right one; here, a socket that is there has not lost its number. An empty recv
  and a SEND that failed are of sockets that are over.
- `AnswerInv`: each unit of the answer to each request taken from a client that is
  there (`Owed`) is on the wire, or the request is fresh, or a SEND of it is in the
  submission queue, in the kernel or completed short of that unit (`Rest`).
  `Flushed` says that nothing is prepared when the worker waits, and at the
  `writev` of a large response. So in a worker that waits with nothing on its way
  all the units are on the wire; by `NoDuplicates` they are there once each, and
  counting them gives the length that `IdleOwesNothing` states (`Counted`: the wire
  is in bijection with the places `1 .. K` of its units).
- `OrderInv`, on `AnswerInv`, for `InOrder`: requests of a connection are in the
  client's order in its completions and its buffer, those in the buffer first
  (`InQueues`). A client that waits has had every answer but the last
  (`SerialDone`). If clients pipeline, SENDs are whole (`Straight`), the requests
  no one began to answer are the last ones (`Suffix`), and none behind one whose
  SEND is queued was answered (`Unsent`). Each step that writes then has its unit
  `Reached`: all before it on the wire, none after it, and `ReachedLen` counts the
  wire to find the unit at its place.

`InOrder` is proved of `Ordered` traffics: clients that wait for each answer may ask
for anything, with short and delayed SENDs; those that pipeline ask for small,
large and closing responses, and no SEND waits for room. The traffics of
`http_traffic` are such. With any of the rest - a malformed request, a route that
does not respond or a GPU route behind a small response, or a SEND that waits - TLC
finds answers out of order (section 6), so the hypothesis is where the code draws
the line and not where the proof does. GPU routes alone, pipelined, are in order;
the theorem leaves them out.

`TableInv` and `HeldInv` need no hypothesis, and `BuffersInv` only the one on
the traffic. The others are theorems under `QuietReuse`, and the properties they
give are false without it: `http_reuse_parked` is a parked request that outlives
its number, and section 6 has a recv that does. So what they prove is that the
worker's own books are right, and that those two are all that stands between it
and isolation.

Of `HttpStream`, `HttpRequests_proofs` proves, for any bytes and any fragments,
that the requests are the stream's and that none is forgotten. `Scanned` is what
makes it inductive (`StreamInv`): no end of headers lies, or will lie when more
arrives, before the place the next search starts from; `Buffered` ties the
buffer to the stream, and `CutAfterServed` where it begins to the last request
served.

`Arena_proofs` proves all four properties of `arena`, for any sizes, any
number of chunks, frames, objects, lists and nested loops. The parts of the
invariant:

- `Types`; `Nested`: the marks of nested loops point at what the frame has, none
  beyond an inner one; `Phases`: one request is parked at most, and chunks put
  aside are its own, so that a park overwrites none. With `PoolBounded` itself
  these are inductive (`PoolStaysSmall`).
- `ListInv`: a list that is not freed is tracked by one live frame, in one place,
  and the others were freed once (`EachListFreedOnce`).
- `ChunksLinkedOnce` is inductive on `Types` and `Phases`
  (`EachChunkLinkedOnce`).
- `ObjectInv`: the objects of a frame lie in used parts of its own chunks and do
  not overlap; those older than a mark are in no chunk newer than the mark's, and
  in the mark's chunk below what was used by then, so that a rewind takes back
  nothing of theirs. That objects of different frames do not overlap follows from
  `ChunksLinkedOnce`: their frames have no chunk in common (`NoObjectsOverlap`).

Lists and chunks are the same argument: places hold the elements of a set, each
once (`HeldOnce`), and a step puts a sequence in a place, takes one away or moves
one (`HeldPut`, `HeldWithout`, `HeldReplaced`, `HeldExchanged`, `HeldMoved`). The
lemmas above them say what the operations on sequences do to the elements. The
trim of the pool picks the small chunks by an increasing sequence of their
positions, since `SelectSeq` is recursive.

`Parts_proofs` proves of `ObjectCache`, for any number of builds and kills, that
builds that run one after the other keep the cache sound, are not harmed by what
others left and find the object they were told of. `IInv` adds that at most one
build is active and, by `FilesInv`, what an active build knows of the files at
each step; each theorem assumes `Serial`.

`RtMap_proofs` proves, for any keys, any hash, any first table and any sizes,
that a search ends and finds exactly what is live (`SearchesEnd`,
`SearchesFind`). `Table` is what makes it true: the used buckets, tombstones
included, are no more than the entries ever made, and each live entry is
`Reachable`, that is, in a bucket a search for its key comes to before any empty
one. `InsertKeeps` and `DeleteKeeps` say what a set and a delete do to a table;
`IInv` has the table of the map outside of a rehash, the half-filled one in it
(`Rehashing`), the one of the clone (`Cloning`), and that entries fill at most
half of the buckets. `ClonesFit` justifies the one liberty `CloneEntry` takes:
that a set in a clone always has room and never meets its key. The least bucket
of a search comes from the well-founded order of the naturals (`Least`).

`MapRefines` is the refinement `ImplementsOrderedMap`, step by step: `Insert` is
`Add` or `Replace`, `Delete` is `Remove`, every other step a stutter. The
abstract map is a function and an order, so the lemmas speak of the set of live
indices: entries that move in a rehash keep their keys, values and order
(`MovesKeep`), and nothing abstract changes. For `CloneEnd` the invariant is not
enough; `InOrder` adds that the clone holds the live entries before the place the
copying has come to, in their order.

Of `CheckedArith`, `Parts_proofs` proves `ExactOrFails` for every `IntMax > 0`: sums and
differences are linear; for products it is shown that each guard of the portable
build, a comparison with a rounded quotient, is exactly that the product is out
of range (`MulOverflowsExactly`, from Euclid's equation), and that the device's
high word tells the same; for quotients, that the rounded magnitude with the
signs' sign is the quotient C defines, and is an int but for the minimum by -1.

Of `HttpDispatch`, `HttpRequests_proofs` proves `AnsweredOnce` for any
application, with any handlers: `DispatchInv` adds that nothing is answered
before the route is called or while the request is parked.

It also proves `ReadsWhatWasSet`, of `Careful` applications: each call answers, or
puts in the context and the response headers nothing but literals and strings of
the request (a continuation, the last call, may put there anything), uses a
string of `http.context` after that `http.context`, and there is room for every
key. It is a rule for the application, which the compiler does not enforce
(section 6); TLC checks that the applications listed keep it
(`ApplicationsAreCareful`). `ReadInv` says where strings may lie at each stage: in
static memory, the bytes of the request or the arena it is kept in, and in the
frame of a call only while that call runs or once the request is answered; and
that each key that was set has one pair, with the string set last - by
`RoomForEvery` the cap drops nothing.

`GpuWorkspace_proofs` proves `HostReadsResult` for any workspaces and any number
of jobs, of `Orderly` families of handlers: a kernel's input and what is read was
copied or computed before, what a kernel writes was borrowed, `gpu.finish` comes
last; and either each workspace is for copies or for kernels in all handlers, or
every handler calls `gpu.finish` and keeps the two apart or works in place. The
families left out are those section 6 shows to go wrong; TLC checks that the
listed ones are orderly (`FamiliesAreOrderly`). `WorkspaceInv` describes the
stream by `known`, what is known of each buffer before and after each queued
operation (`Follows`): empty when nothing is, so that what failed or unfinished
jobs left behind needs no account. What the host is `Due` is either in its mirror
or behind a copy back at a place where the buffer is known to hold it
(`CopiesBack`); no copy to the device is queued after that one, so no mirror is
overwritten on the way. `HasDone` ties the flags to the steps the handler has
made, and `LaunchedCopiedBack` concludes that `rt_gpu_submit_signal` leaves out no
slot a kernel wrote.

Only model-checked: liveness under fairness (`EveryRequestReleased`,
`EveryRequestAnswered`, `ImplementsFairService`), which is beyond the prover, and
all of `LoopRewind` and `ReturnOrigins` (`NoDangling`, `Reclaimed`,
`ReturnedLives`): the analyses follow the nesting of statements, so they are
recursive operators, and what they compute for every function could only be shown
by an induction over it, which is beyond the prover too. Every other property of a
passing run is a theorem.

## 6. Where the code and its documents differ

| run | what happens |
|---|---|
| `gpu_park_unflagged` | A handler that reaches `gpu.finish` through a call statement, an any-method route, `notFound` or `useAt` is not flagged; dispatched while another request is parked it ends the process (`http.go` 870). |
| `http_order_simple` | `rt_http_send_simple` does not submit the queued response first: the second answer overtakes the first (`http.go` 322). |
| `http_reuse_parked` | The answer of a parked request whose client left goes to the client that got its number (`http.go` 950). |
| `return_origin` | A return in a loop is judged by the origins before the loop: `let s string = "none"; for { if done(i) { return s }; s = a + b }` returns a string of the frame uncopied from the second iteration on (`types.go` 1216). |
| `loop_rewind_escape` | A let or an assignment of several names is analysed by its first name alone: `let a string, b string = f()` with `append(words, b)` in a loop is rewound, and the list keeps a string in memory that was taken back (`c.go` 292). |

The same models show more with other constants. They have no configuration
here, to keep one run for each question:

- `HttpWorker`, a traffic with `kinds` of `{"gpu", "text"}`, pipelined: a plain
  request overtakes the parked one before it (`InOrder`, `http.go` 900). With
  `{"text", "malformed"}` the 400 overtakes the queued response, as in
  `http_order_simple`.
- `{"text", "large"}`, `parts = 2`, `backpressure`, pipelined: a large response
  is written into a short SEND (`InOrder`, `http.go` 531).
- `QuietReuse = FALSE`, `{"text"}`: the late end of an old recv closes the new
  connection (`ClosedOnlyWhenAsked`, `http.go` 1233).
- `{"text", "uploadClose"}`, pipelined: data in the same batch as a close that
  freed a large buffer doubles a capacity of zero for ever (`NeverHangs`,
  `http.go` 1252).
- `LoopRewind`, `Programs <- Carried`: the body of an inner loop is read once,
  so a string moved on in its next iteration, or left by `break`, escapes a loop
  that is rewound (`NoDangling`, `c.go` 364).
- `ObjectCache`, not `Serial`: a second build truncates the source while the
  first compiles it, and the object cached from then on has nothing in it
  (`CacheSound`, `compile.go` 450).
- `ObjectCache`, not `Serial`: an object removed before the rename is missing
  when another build links (`CachedIsLinked`, `compile.go` 468).
- `GpuPark`, `Faults = {"context"}`: the 500 of a failed kernel is not sent,
  because the reset of the stream ends the process first (`rt.go` 2091). This
  one is reached in `gpu_park_safety`, where `OthersWait` allows that exit.
- `GpuWorkspace`, families `{InPlace, h}` with a handler `h` that borrows a slot
  it does not copy to and answers without `gpu.finish`: the flag it leaves takes
  the next `InPlace` job for one with an output of its own, and the copy back of
  its result is left out (`HostReadsResult`, `rt.go` 2054; `docs/GPU.md` 104).
- `HttpDispatch`, middleware that sets a context value from a concatenation,
  read by a later handler, or a GPU handler that does so before `gpu.finish`:
  the string lies in the frame of the call that built it (`ReadsWhatWasSet`,
  `http.go` 425; `docs/HTTP.md` 88). Middleware that calls `gpu.finish` and lets
  the chain go on to a handler that answers ends the process.
- `HttpDispatch`: a 33rd context pair is dropped without a word
  (`RT_HTTP_MAX_CONTEXT`).
- The limit on bodies is 10 MiB (`RT_HTTP_MAX_BODY_BYTES`), not the 1 MiB the
  documentation gives. Setting and deleting keys in turn doubles the buckets of
  a map without bound, since a rehash is sized by the entries ever made (the
  model bounds it by `MaxBuckets`).

## 7. Not modelled

An exhausted submission queue, allocation failure, a multishot accept that ends
and a descriptor beyond `RT_MAX_CONNS` are hazards listed without a property: the
first two end in an exit or in an error of the system, and the last two need the
kernel's own failures.

Which route a path matches, parameters, query strings and the writing of a
response head are left out of `HttpDispatch`: it tries every handler. Lists,
slices and strings are bounds checks and copies over arenas, whose memory is
`Arena`'s. Which handlers the code generator flags as GPU handlers is a walk over
the syntax tree; what a missed flag leads to is `gpu_park_unflagged`.

SQLite's binding, the module loader, the language server, the formatter, TXM,
CSV, the commands and the vendored code have no module: they are sequential,
without state that outlives a call, or wrap a library that decides what can go
wrong. `PROJECT.json` gives the reason for each.
