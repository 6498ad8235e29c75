------------------------------ MODULE MCParts -------------------------------
(* Small instances, for TLC, of components that share no state.  A run is  *)
(* one of them: part says which, and the others stay where they start.     *)
EXTENDS RtMap, HttpStream, GpuWorkspace, HttpDispatch, CheckedArith, ObjectCache, TLC

CONSTANTS k1, k2, k3

VARIABLE part

----------------------------------------------------------------------------
(* RtMap: k1 and k2 collide in every table; k3 wraps around to them.       *)
SomeCollide == (k1 :> 3) @@ (k2 :> 11) @@ (k3 :> 4)

----------------------------------------------------------------------------
(* HttpStream: what a client sends. *)
CRLF == <<"C", "L">>
Get == <<"G">> \o CRLF \o CRLF
Park == <<"P">> \o CRLF \o CRLF
Post2 == <<"G">> \o CRLF \o <<"2">> \o CRLF \o CRLF \o CRLF
Post4 == <<"G">> \o CRLF \o <<"4">> \o CRLF \o CRLF \o CRLF \o CRLF
Last == <<"G">> \o CRLF \o <<"K">> \o CRLF \o CRLF
Old == <<"g">> \o CRLF \o CRLF
Chunked == <<"G">> \o CRLF \o <<"T">> \o CRLF \o CRLF
BareReturn == <<"G", "C", "x">> \o CRLF \o CRLF
TooLong == <<"G">> \o CRLF \o <<"9">> \o CRLF \o CRLF
LongHeader == <<"G">> \o CRLF \o <<"h", "x", "x", "x", "x">> \o CRLF \o CRLF
TwoLengths == <<"G">> \o CRLF \o <<"2">> \o CRLF \o <<"2">> \o CRLF \o CRLF

(* The bodies are ends of headers, or halves of one. *)
First == {Get, Park, Post2, Post4}
Second == First \cup {Last, Old, Chunked, BareReturn, TooLong, LongHeader, TwoLengths}
MixedStreams ==
  {a \o b : a \in First, b \in Second}
  \cup {Post4 \o Park \o Get, Park \o Park \o Post2, Last \o Get, Get \o Get \o Get}

----------------------------------------------------------------------------
(* GpuWorkspace: handlers that borrow and copy as the docs show.  InPlace  *)
(* is with none that answers without gpu.finish.                           *)
Classify == <<Borrow("in"), Copy("in"), Borrow("out"), Launch("in", "out"), Finish>>
TwoStage == <<Borrow("in"), Copy("in"), Borrow("mid"), Launch("in", "mid"), Borrow("out"),
              Launch("mid", "out"), Finish>>
InPlace == <<Borrow("in"), Copy("in"), Launch("in", "in"), Finish>>
AnswersItself == <<Borrow("in"), Copy("in"), Borrow("out"), Launch("in", "out"), Read("out")>>
RefusesInput == <<Borrow("in"), Copy("in")>>

HandlerFamilies == {{}, {Classify, TwoStage, AnswersItself, RefusesInput}, {Classify, InPlace, TwoStage}}

ASSUME FamiliesAreOrderly == \A f \in HandlerFamilies : Orderly(f)

----------------------------------------------------------------------------
(* HttpDispatch: strings built in a call are used up in the same call.     *)
Authorize == Handler(<<SetContext("user", "literal"), SetContext("role", "request")>>, 0, <<>>)
Mark == Handler(<<SetHeader("request"), SetContext("user", "request")>>, 0, <<>>)
Deny == Handler(<<SetHeader("built"), Text("literal")>>, 1, <<>>)
DenySilently == Handler(<<>>, 1, <<>>)
ParksFirst == Handler(<<Finishes>>, 0, <<Text("literal")>>)

Show == Handler(<<GetContext("user"), SetHeader("context"), SetContext("user", "built"),
                  GetContext("user"), Text("context")>>, 0, <<>>)
Twice == Handler(<<SetHeader("built"), Text("built"), Text("request")>>, 0, <<>>)
Mute == Handler(<<GetContext("role")>>, 0, <<>>)
Infer == Handler(<<SetHeader("request"), SetContext("role", "request"), SetContext("user", "literal"), Finishes>>, 0,
                 <<GetContext("role"), SetHeader("context"), Text("request"), Text("literal")>>)
InferMute == Handler(<<SetHeader("literal"), Finishes>>, 0, <<GetContext("user")>>)
InferAgain == Handler(<<Finishes>>, 0, <<Finishes>>)

Application(middleware, notFound) ==
  [middleware |-> middleware, routes |-> {Show, Twice, Mute, Infer, InferMute, InferAgain},
   notFound |-> notFound, keys |-> {"user", "role"}]

Applications ==
  {Application(m, n) :
     m \in {<<>>, <<Authorize>>, <<Mark, Authorize>>, <<Authorize, Deny>>, <<DenySilently, Mark>>,
            <<Mark, ParksFirst>>, <<ParksFirst, Authorize>>},
     n \in {{}, {Show}}}

ASSUME ApplicationsAreCareful == \A a \in Applications : Careful(a)

----------------------------------------------------------------------------
(* A component that is not checked waits in one of its first states. *)
MapStart == IF part = "map" THEN MapInit ELSE MapInit /\ copy.cap = 0
StreamStart == IF part = "stream" THEN StreamInit ELSE stream = Get \o Get /\ StreamInit
GpuStart == IF part = "gpu" THEN GpuInit ELSE family = {} /\ GpuInit
DispatchStart == IF part = "dispatch" THEN DispatchInit
                 ELSE app = Application(<<>>, {}) /\ DispatchInit
ArithStart == IF part = "arith" THEN ArithInit
              ELSE operation = "+" /\ build = "builtin" /\ left = 0 /\ right = 0 /\ ArithInit

PartsInit ==
  /\ part \in {"map", "stream", "gpu", "dispatch", "arith", "cache"}
  /\ MapStart /\ StreamStart /\ GpuStart /\ DispatchStart /\ ArithStart /\ Init

allVars == <<part, mapVars, streamVars, gpuVars, dispatchVars, arithVars, vars>>

PartsNext ==
  \/ part = "map" /\ MapNext
     /\ UNCHANGED <<part, streamVars, gpuVars, dispatchVars, arithVars, vars>>
  \/ part = "stream" /\ StreamNext
     /\ UNCHANGED <<part, mapVars, gpuVars, dispatchVars, arithVars, vars>>
  \/ part = "gpu" /\ GpuNext
     /\ UNCHANGED <<part, mapVars, streamVars, dispatchVars, arithVars, vars>>
  \/ part = "dispatch" /\ DispatchNext
     /\ UNCHANGED <<part, mapVars, streamVars, gpuVars, arithVars, vars>>
  \/ part = "arith" /\ ArithNext
     /\ UNCHANGED <<part, mapVars, streamVars, gpuVars, dispatchVars, vars>>
  \/ part = "cache" /\ Next
     /\ UNCHANGED <<part, mapVars, streamVars, gpuVars, dispatchVars, arithVars>>

PartsSpec == PartsInit /\ [][PartsNext]_allVars
=============================================================================
