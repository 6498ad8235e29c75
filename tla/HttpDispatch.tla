---------------------------- MODULE HttpDispatch ----------------------------
(***************************************************************************)
(* One request through rt_http_dispatch (internal/runtime/c/http.go): the  *)
(* middleware, the handler of its route, and, if that called gpu.finish,   *)
(* the continuation that answers later.  What is followed is where the     *)
(* strings live that the request carries from one of these to the next:    *)
(* the context (http.set) and the response headers hold views of memory    *)
(* that may be a literal's, the request's bytes in the connection buffer,  *)
(* or the frame of the call that built them, which ends with the call.     *)
(*                                                                         *)
(* Abstracted: which route and which prefixes match (both are tried), what *)
(* a string says, the limits on response headers and parameters.           *)
(***************************************************************************)
EXTENDS Integers, Sequences, FiniteSets

CONSTANTS
  Apps,       \* what the application registered: one is picked
  ContextCap  \* RT_HTTP_MAX_CONTEXT

(* A handler does its steps and returns; cont is the continuation it may   *)
(* give to gpu.finish.  A string comes from a literal, from the request    *)
(* (http.path, http.body, ...), from a concatenation, or from the last     *)
(* http.context.                                                           *)
Sources == {"literal", "request", "built", "context"}
SetContext(key, from) == [op |-> "set", key |-> key, from |-> from]
SetHeader(from) == [op |-> "header", from |-> from]
GetContext(key) == [op |-> "get", key |-> key]
Text(from) == [op |-> "text", from |-> from]
Finishes == [op |-> "finish"]
Handler(does, ret, cont) == [does |-> does, ret |-> ret, cont |-> cont]

ASSUME DispatchAssumption == ContextCap \in Nat

VARIABLES
  app,
  dpc,       \* "middleware", "route", "call", "after", "parked", "done", "exited"
  chain,     \* the middleware still to be tried
  running, \* the call that runs: what is left of it
  places,    \* the memory that is alive
  frame,     \* the number of the frame of the last call
  fields,    \* where the request's own strings are
  context,   \* the pairs of http.set, in order
  headers,   \* the response headers
  gotten,    \* where the string of the last http.context is
  cont,      \* the continuation to be, when the request is parked
  answers,   \* the statuses sent
  strings,   \* the number of strings handed over (history)
  lastSet,   \* key -> the string last set for it, or 0 (history)
  readings   \* what the last step read (history)

dispatchVars == <<app, dpc, chain, running, places, frame, fields, context, headers, gotten,
                  cont, answers, strings, lastSet, readings>>

Calls(h, after) == [does |-> h.does, ret |-> h.ret, cont |-> h.cont, after |-> after]
NotCalled == [does |-> <<>>, ret |-> 0, cont |-> <<>>, after |-> "done"]

(* Memory: frames are numbered from 1 *)
StaticMemory == 0
RequestBytes == -1
ParkedArena == -2

Where(from) ==
  CASE from = "literal" -> StaticMemory
    [] from = "request" -> fields
    [] from = "built" -> frame
    [] from = "context" -> gotten

(* A string, and what reading one finds *)
String(from) == [id |-> strings + 1, at |-> Where(from)]
Reading(s, want) == [id |-> s.id, want |-> want, alive |-> s.at \in places]
Readings(all) == {Reading(all[i], all[i].id) : i \in DOMAIN all}

----------------------------------------------------------------------------
(* A call gets a frame; http.context clones into it. *)
Call(h, after) ==
  /\ running' = Calls(h, after)
  /\ frame' = frame + 1
  /\ places' = places \cup {frame + 1}
  /\ dpc' = "call"
  /\ UNCHANGED <<app, fields, context, headers, gotten, cont, answers, strings, lastSet>>
  /\ readings' = {}

CallMiddleware ==
  /\ dpc = "middleware"
  /\ chain # <<>>
  /\ chain' = Tail(chain)
  /\ Call(Head(chain), "middleware")

(* Its prefix does not match the path. *)
SkipMiddleware ==
  /\ dpc = "middleware"
  /\ chain # <<>>
  /\ chain' = Tail(chain)
  /\ readings' = {}
  /\ UNCHANGED <<app, dpc, running, places, frame, fields, context, headers, gotten, cont,
                 answers, strings, lastSet>>

MiddlewareDone ==
  /\ dpc = "middleware"
  /\ chain = <<>>
  /\ dpc' = "route"
  /\ readings' = {}
  /\ UNCHANGED <<app, chain, running, places, frame, fields, context, headers, gotten, cont,
                 answers, strings, lastSet>>

(* The handler of a route, or else the one for what is not found *)
CallHandler ==
  /\ dpc = "route"
  /\ \E h \in app.routes \cup app.notFound : Call(h, "after")
  /\ UNCHANGED chain

NotFound ==
  /\ dpc = "route"
  /\ app.notFound = {}
  /\ answers' = Append(answers, 404)
  /\ dpc' = "after"
  /\ readings' = {}
  /\ UNCHANGED <<app, chain, running, places, frame, fields, context, headers, gotten, cont,
                 strings, lastSet>>

----------------------------------------------------------------------------
(* The steps of a call *)

Doing(op) == dpc = "call" /\ running.does # <<>> /\ Head(running.does).op = op
Doing1 == Head(running.does)
DoneStep == running' = [running EXCEPT !.does = Tail(@)]

(* rt_http_set_context: the pair of the key, or a new one while there is   *)
(* room; past that the string is dropped.                                  *)
DoSet ==
  /\ Doing("set")
  /\ LET s == String(Doing1.from)
         pairs == {i \in DOMAIN context : context[i].key = Doing1.key} IN
       /\ context' = IF pairs # {} THEN [i \in DOMAIN context |->
                                           IF i \in pairs THEN [context[i] EXCEPT !.val = s] ELSE context[i]]
                     ELSE IF Len(context) < ContextCap THEN Append(context, [key |-> Doing1.key, val |-> s])
                     ELSE context
       /\ lastSet' = [lastSet EXCEPT ![Doing1.key] = s.id]
  /\ strings' = strings + 1
  /\ readings' = {}
  /\ DoneStep
  /\ UNCHANGED <<app, dpc, chain, places, frame, fields, headers, gotten, cont, answers>>

DoHeader ==
  /\ Doing("header")
  /\ headers' = Append(headers, String(Doing1.from))
  /\ strings' = strings + 1
  /\ readings' = {}
  /\ DoneStep
  /\ UNCHANGED <<app, dpc, chain, places, frame, fields, context, gotten, cont, answers, lastSet>>

(* rt_http_context reads the string to clone it. *)
DoGet ==
  /\ Doing("get")
  /\ LET pairs == {i \in DOMAIN context : context[i].key = Doing1.key} IN
       readings' = IF pairs # {}
                   THEN {Reading(context[i].val, lastSet[Doing1.key]) : i \in pairs}
                   ELSE {Reading([id |-> 0, at |-> StaticMemory], lastSet[Doing1.key])}
  /\ gotten' = frame
  /\ DoneStep
  /\ UNCHANGED <<app, dpc, chain, places, frame, fields, context, headers, cont, answers, strings,
                 lastSet>>

(* Mutant: a second response is sent too. *)
DoTextAgain ==
  /\ Doing("text")
  /\ answers' = Append(answers, 200)
  /\ readings' = Readings(Append(headers, String(Doing1.from)))
  /\ DoneStep
  /\ UNCHANGED <<app, dpc, chain, places, frame, fields, context, headers, gotten, cont, strings,
                 lastSet>>

(* rt_http_respond copies the headers and the body out, once. *)
DoText ==
  /\ Doing("text")
  /\ IF answers # <<>> THEN readings' = {} /\ UNCHANGED answers
     ELSE /\ answers' = Append(answers, 200)
          /\ readings' = Readings(Append(headers, String(Doing1.from)))
  /\ DoneStep
  /\ UNCHANGED <<app, dpc, chain, places, frame, fields, context, headers, gotten, cont, strings,
                 lastSet>>

(* rt_http_gpu_finish; it ends the process where it is not allowed. *)
DoFinish ==
  /\ Doing("finish")
  /\ IF answers # <<>> \/ cont # {} \/ running.after = "done"
     THEN dpc' = "exited" /\ UNCHANGED cont
     ELSE cont' = {running.cont} /\ UNCHANGED dpc
  /\ readings' = {}
  /\ DoneStep
  /\ UNCHANGED <<app, chain, places, frame, fields, context, headers, gotten, answers, strings,
                 lastSet>>

(* The call returns and its frame ends.  Middleware that returns other     *)
(* than 0, or answered, ends the chain.                                    *)
CallReturns ==
  /\ dpc = "call"
  /\ running.does = <<>>
  /\ places' = places \ {frame}
  /\ dpc' = IF running.after = "middleware" /\ (running.ret # 0 \/ answers # <<>>)
            THEN "after" ELSE running.after
  /\ running' = NotCalled
  /\ answers' = IF running.after = "done" /\ answers = <<>> THEN <<500>> ELSE answers
  /\ readings' = {}
  /\ UNCHANGED <<app, chain, frame, fields, context, headers, gotten, cont, strings, lastSet>>

----------------------------------------------------------------------------
(* After the calls: the request is over and its bytes leave the buffer *)
EndDispatch ==
  /\ dpc = "after"
  /\ cont = {}
  /\ answers' = IF answers = <<>> THEN <<500>> ELSE answers
  /\ places' = places \ {RequestBytes}
  /\ dpc' = "done"
  /\ readings' = {}
  /\ UNCHANGED <<app, chain, running, frame, fields, context, headers, gotten, cont, strings,
                 lastSet>>

ExitDispatch ==
  /\ dpc = "after"
  /\ cont # {}
  /\ answers # <<>>
  /\ dpc' = "exited"
  /\ readings' = {}
  /\ UNCHANGED <<app, chain, running, places, frame, fields, context, headers, gotten, cont,
                 answers, strings, lastSet>>

Moved(s) == [s EXCEPT !.at = ParkedArena]

(* Mutant: rt_http_retain_parked leaves the response headers where they are. *)
RetainForgetsHeaders ==
  /\ dpc = "after"
  /\ cont # {}
  /\ answers = <<>>
  /\ readings' = Readings([i \in DOMAIN context |-> context[i].val])
  /\ fields' = ParkedArena
  /\ context' = [i \in DOMAIN context |-> [context[i] EXCEPT !.val = Moved(@)]]
  /\ places' = (places \ {RequestBytes}) \cup {ParkedArena}
  /\ dpc' = "parked"
  /\ UNCHANGED <<app, chain, running, frame, headers, gotten, cont, answers, strings, lastSet>>

(* rt_http_retain_parked copies every string of the request to the arena   *)
(* that is kept for the continuation; the bytes leave the buffer.          *)
Retain ==
  /\ dpc = "after"
  /\ cont # {}
  /\ answers = <<>>
  /\ readings' = Readings(headers \o [i \in DOMAIN context |-> context[i].val])
  /\ fields' = ParkedArena
  /\ context' = [i \in DOMAIN context |-> [context[i] EXCEPT !.val = Moved(@)]]
  /\ headers' = [i \in DOMAIN headers |-> Moved(headers[i])]
  /\ places' = (places \ {RequestBytes}) \cup {ParkedArena}
  /\ dpc' = "parked"
  /\ UNCHANGED <<app, chain, running, frame, gotten, cont, answers, strings, lastSet>>

(* rt_http_gpu_release of a job that is done: the continuation is called. *)
Continue ==
  /\ dpc = "parked"
  /\ \E does \in cont : Call(Handler(does, 0, <<>>), "done")
  /\ UNCHANGED chain

(* The job failed. *)
Failed ==
  /\ dpc = "parked"
  /\ answers' = <<500>>
  /\ dpc' = "done"
  /\ readings' = {}
  /\ UNCHANGED <<app, chain, running, places, frame, fields, context, headers, gotten, cont,
                 strings, lastSet>>

DispatchInit ==
  /\ app \in Apps
  /\ dpc = "middleware"
  /\ chain = app.middleware
  /\ running = NotCalled
  /\ places = {StaticMemory, RequestBytes} /\ frame = 0
  /\ fields = RequestBytes /\ context = <<>> /\ headers = <<>> /\ gotten = StaticMemory
  /\ cont = {} /\ answers = <<>>
  /\ strings = 0 /\ lastSet = [k \in app.keys |-> 0] /\ readings = {}

DispatchNext ==
  \/ CallMiddleware \/ SkipMiddleware \/ MiddlewareDone \/ CallHandler \/ NotFound
  \/ DoSet \/ DoHeader \/ DoGet \/ DoText \/ DoFinish \/ CallReturns
  \/ EndDispatch \/ ExitDispatch \/ Retain \/ Continue \/ Failed

DispatchSpec == DispatchInit /\ [][DispatchNext]_dispatchVars

----------------------------------------------------------------------------
(* Whatever is read for a request, by http.context, by a response or when  *)
(* the request is kept for its continuation, is the string that was put    *)
(* there last and its memory is still alive.                               *)
ReadsWhatWasSet == \A r \in readings : r.alive /\ r.id = r.want

(* An application that uses up in each call what the call builds: a call   *)
(* answers, or puts in the context and the headers only literals and       *)
(* strings of the request.  A continuation is the last call and may put    *)
(* there what it likes.  A string of http.context is used after the        *)
(* http.context it is from, and there is room for every key.               *)
StepsOf(keys) ==
  {SetContext(key, from) : key \in keys, from \in Sources} \cup {GetContext(key) : key \in keys}
  \cup {SetHeader(from) : from \in Sources} \cup {Text(from) : from \in Sources} \cup {Finishes}
HandlersOf(keys) == [does : Seq(StepsOf(keys)), ret : Int, cont : Seq(StepsOf(keys))]

GetsFirst(does) ==
  \A i \in DOMAIN does :
    does[i].op \in {"set", "header", "text"} /\ does[i].from = "context"
      => \E j \in 1 .. (i - 1) : does[j].op = "get"
Lasting(does) ==
  \A i \in DOMAIN does : does[i].op \in {"set", "header"} => does[i].from \in {"literal", "request"}
Responds(does) == \E i \in DOMAIN does : does[i].op = "text"

CarefulCall(h) ==
  GetsFirst(h.does) /\ GetsFirst(h.cont) /\ (Lasting(h.does) \/ Responds(h.does))

Careful(a) ==
  /\ IsFiniteSet(a.keys) /\ Cardinality(a.keys) <= ContextCap
  /\ a.middleware \in Seq(HandlersOf(a.keys)) /\ a.routes \cup a.notFound \subseteq HandlersOf(a.keys)
  /\ \A i \in DOMAIN a.middleware : CarefulCall(a.middleware[i])
  /\ \A h \in a.routes \cup a.notFound : CarefulCall(h)

(* A request is answered exactly once by the time it is over, and not yet  *)
(* while it is parked.                                                     *)
AnsweredOnce ==
  /\ Len(answers) <= 1
  /\ dpc = "done" => Len(answers) = 1
  /\ dpc = "parked" => answers = <<>>
=============================================================================
