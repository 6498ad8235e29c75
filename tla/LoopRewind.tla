----------------------------- MODULE LoopRewind -----------------------------
(***************************************************************************)
(* The escape analysis by which codegen (src/internal/codegen/c/c.go)      *)
(* decides that a loop may rewind the function's frame arena at the end of *)
(* each iteration, and the run of the C it emits for such a loop and for a *)
(* return, which copies the value the checker says lives in the frame      *)
(* (ReturnOrigins) to the caller's arena and ends the frame.               *)
(*                                                                         *)
(* A program is the body of a function, or the part of it from a loop on.  *)
(* Integer work, the loop counter with its init and the conditions are     *)
(* abstracted: a condition is a choice and allocates nothing.  Names are   *)
(* not reused for another variable (no shadowing).  The function's outer   *)
(* variables and its list exist before the program.                        *)
(*                                                                         *)
(* An allocation is a number, its place in the order of allocation; a mark *)
(* is the number of the last one, and a rewind ends the life of every      *)
(* later one.                                                              *)
(***************************************************************************)
EXTENDS Integers, ReturnOrigins

CONSTANTS
  Programs,    \* the function bodies examined
  OuterVars,   \* variables of the function, declared before
  MaxTrips     \* bound: iterations of a loop each time it is entered

ASSUME TripsAssumption == MaxTrips \in Nat \ {0}

VARIABLES
  todo,   \* what is left to run: statements and the loop's own steps
  env,    \* the value of each variable in scope
  words,  \* the values in the function's list
  live,   \* the allocations whose memory has not been taken back
  next,   \* the number of allocations made
  copies, \* the returns that copy their value
  result  \* what the function returned: no value or one

vars == <<todo, env, words, live, next, copies, result>>
kept == <<copies, result>>

-----------------------------------------------------------------------------
(* The escape analysis.  A verdict carries the two string sets of the code *)
(* and whether some statement publishes frame memory; the code stops at    *)
(* the first that does, and nothing read after it matters.                 *)

exprNeedsFrame(e) == e.kind = "fresh"

valueReferencesFrame(e, tainted) ==
  \/ e.kind = "fresh"
  \/ e.kind = "ident" /\ e.name \in tainted

Clean == [publishes |-> FALSE, declared |-> {}, tainted |-> {}]

(* A let declares its name and taints it.  A let of several names is seen  *)
(* by the first of them alone: stmt.Name.                                  *)
AfterLet(a, x, refs) ==
  [a EXCEPT !.declared = @ \cup {x}, !.tainted = IF refs THEN @ \cup {x} ELSE @]

(* So is an assignment of several names.                                   *)
AfterAssign(a, x, refs) ==
  IF x \notin a.declared
  THEN [a EXCEPT !.publishes = @ \/ refs]
  ELSE [a EXCEPT !.tainted = IF refs THEN @ \cup {x} ELSE @ \ {x}]

(* The list outlives the loop and a callee may keep its argument in it.    *)
AfterHandOver(a, e) ==
  [a EXCEPT !.publishes = @ \/ valueReferencesFrame(e, a.tainted)]

(* Mutant: only what both branches taint stays tainted. *)
AfterBranchesBoth(a, t, f) ==
  [a EXCEPT !.publishes = t.publishes \/ f.publishes,
            !.tainted = {x \in a.declared : x \in t.tainted /\ x \in f.tainted}]

(* A name that either branch of an if taints is tainted after it.          *)
AfterBranches(a, t, f) ==
  [a EXCEPT !.publishes = t.publishes \/ f.publishes,
            !.tainted = {x \in a.declared : x \in t.tainted \/ x \in f.tainted}]

(* The taint an inner loop leaves is added; it removes none, and its body  *)
(* is read once.                                                           *)
AfterLoop(a, inner) ==
  [a EXCEPT !.publishes = inner.publishes,
            !.tainted = @ \cup (inner.tainted \cap a.declared)]

RECURSIVE stmtsPublishFrame(_, _)
stmtPublishesFrame(s, a) ==
  CASE s.op = "let" -> AfterLet(a, s.x, valueReferencesFrame(s.e, a.tainted))
    [] s.op = "letPair" -> AfterLet(a, s.x, TRUE)
    [] s.op = "assign" -> AfterAssign(a, s.x, valueReferencesFrame(s.e, a.tainted))
    [] s.op = "assignPair" -> AfterAssign(a, s.x, TRUE)
    [] s.op \in {"append", "call"} -> AfterHandOver(a, s.e)
    [] s.op = "if" -> AfterBranches(a, stmtsPublishFrame(s.then, a), stmtsPublishFrame(s.else, a))
    [] s.op = "for" -> AfterLoop(a, stmtsPublishFrame(s.body \o s.post, a))
    [] OTHER -> a

stmtsPublishFrame(stmts, a) ==
  IF stmts = <<>> THEN a
  ELSE stmtsPublishFrame(Tail(stmts), stmtPublishesFrame(Head(stmts), a))

RECURSIVE stmtsAllocateInLoop(_)
stmtAllocatesInLoop(s) ==
  CASE s.op \in {"let", "assign", "append", "call"} -> exprNeedsFrame(s.e)
    [] s.op \in {"letPair", "assignPair"} -> TRUE
    [] s.op = "if" -> stmtsAllocateInLoop(s.then \o s.else)
    [] s.op = "for" -> stmtsAllocateInLoop(s.body \o s.post)
    [] OTHER -> FALSE

stmtsAllocateInLoop(stmts) == \E i \in DOMAIN stmts : stmtAllocatesInLoop(stmts[i])

forLoopCanRewind(s) ==
  /\ stmtAllocatesInLoop(s)
  /\ ~stmtsPublishFrame(s.body \o s.post, Clean).publishes

-----------------------------------------------------------------------------
(* The emitted code.  Between the statements, todo holds the steps of the  *)
(* C around them: "leave" closes the block of a branch; "test" is the top  *)
(* of a loop, where a rewinding loop takes its mark; "bottom" is the label *)
(* that continue goes to, before the post statement; "end" is the rewind   *)
(* and the way back to the top.                                            *)

Test(loop, left, names, rewinds, held) ==
  [op |-> "test", loop |-> loop, left |-> left, names |-> names,
   rewinds |-> rewinds, held |-> held]

Running(op) == todo # <<>> /\ Head(todo).op = op
Now == Head(todo)
Rest == Tail(todo)
From(op) == SelectInSeq(todo, LAMBDA item : item.op = op)
Scoped(names) == [x \in names |-> env[x]]

(* Value 0 is memory that outlives the function: static, or the caller's.  *)
Value(e) ==
  CASE e.kind \in {"literal", "param"} -> 0
    [] e.kind = "fresh" -> next + 1
    [] e.kind = "ident" -> env[e.name]

Allocate(n) ==
  /\ next' = next + n
  /\ live' = live \cup (next + 1)..(next + n)

Evaluate(e) == Allocate(IF exprNeedsFrame(e) THEN 1 ELSE 0)

(* At first each outer variable holds a string of the frame.               *)
Init ==
  /\ todo \in Programs
  /\ copies = copiedOut(todo, [x \in OuterVars |-> "scratch"])
  /\ result = {}
  /\ env = [x \in OuterVars |-> 1]
  /\ words = {1}
  /\ live = {1}
  /\ next = 1

Store ==
  /\ Running("let") \/ Running("assign")
  /\ env' = (Now.x :> Value(Now.e)) @@ env
  /\ Evaluate(Now.e)
  /\ todo' = Rest
  /\ UNCHANGED <<words, kept>>

(* A call that returns two strings, unpacked.                              *)
StorePair ==
  /\ Running("letPair") \/ Running("assignPair")
  /\ env' = (Now.x :> next + 1) @@ (Now.y :> next + 2) @@ env
  /\ Allocate(2)
  /\ todo' = Rest
  /\ UNCHANGED <<words, kept>>

(* append, or a call whose callee appends its argument.                    *)
HandOver ==
  /\ Running("append") \/ Running("call")
  /\ words' = words \cup {Value(Now.e)}
  /\ Evaluate(Now.e)
  /\ todo' = Rest
  /\ UNCHANGED <<env, kept>>

Branch ==
  /\ Running("if")
  /\ \E block \in {Now.then, Now.else} :
       todo' = block \o <<[op |-> "leave", names |-> DOMAIN env]>> \o Rest
  /\ UNCHANGED <<env, words, live, next, kept>>

Leave ==
  /\ Running("leave")
  /\ env' = Scoped(Now.names)
  /\ todo' = Rest
  /\ UNCHANGED <<words, live, next, kept>>

EnterLoop ==
  /\ Running("for")
  /\ todo' = <<Test(Now, MaxTrips, DOMAIN env, forLoopCanRewind(Now), live)>> \o Rest
  /\ UNCHANGED <<env, words, live, next, kept>>

Iterate ==
  /\ Running("test")
  /\ Now.left > 0
  /\ todo' = Now.loop.body
             \o <<[op |-> "bottom", names |-> Now.names]>>
             \o Now.loop.post
             \o <<[op |-> "end", mark |-> next, again |-> [Now EXCEPT !.left = @ - 1]]>>
             \o Rest
  /\ UNCHANGED <<env, words, live, next, kept>>

(* The condition fails.  The rewind before the break finds the arena at    *)
(* the mark just taken.                                                    *)
ExitLoop ==
  /\ Running("test")
  /\ todo' = Rest
  /\ UNCHANGED <<env, words, live, next, kept>>

(* The end of the body, which is where its variables end.                  *)
Bottom ==
  /\ Running("bottom")
  /\ env' = Scoped(Now.names)
  /\ todo' = Rest
  /\ UNCHANGED <<words, live, next, kept>>

EndIteration ==
  /\ Running("end")
  /\ live' = IF Now.again.rewinds THEN live \cap 1..Now.mark ELSE live
  /\ todo' = <<Now.again>> \o Rest
  /\ UNCHANGED <<env, words, next, kept>>

(* break leaves the C loop without a rewind.                               *)
BreakLoop ==
  /\ Running("break")
  /\ env' = Scoped(todo[From("end")].again.names)
  /\ todo' = SubSeq(todo, From("end") + 1, Len(todo))
  /\ UNCHANGED <<words, live, next, kept>>

(* Mutant: continue goes to the top of the loop. *)
ContinueSkipsRewind ==
  /\ Running("continue")
  /\ env' = Scoped(todo[From("end")].again.names)
  /\ todo' = <<todo[From("end")].again>> \o SubSeq(todo, From("end") + 1, Len(todo))
  /\ UNCHANGED <<words, live, next, kept>>

(* continue goes to the label before the post statement and the rewind.    *)
ContinueLoop ==
  /\ Running("continue")
  /\ todo' = SubSeq(todo, From("bottom"), Len(todo))
  /\ UNCHANGED <<env, words, live, next, kept>>

(* The value is copied to the caller's arena, or not; the frame ends.      *)
ReturnValue ==
  /\ Running("return")
  /\ result' = {IF Now.at \in copies THEN 0 ELSE Value(Now.e)}
  /\ live' = {}
  /\ env' = [x \in {} |-> 0] /\ words' = {} /\ todo' = <<>>
  /\ next' = next + IF exprNeedsFrame(Now.e) THEN 1 ELSE 0
  /\ UNCHANGED copies

Done == todo = <<>> /\ UNCHANGED vars

Next ==
  \/ Store \/ StorePair \/ HandOver
  \/ Branch \/ Leave
  \/ EnterLoop \/ Iterate \/ ExitLoop \/ Bottom \/ EndIteration
  \/ BreakLoop \/ ContinueLoop
  \/ ReturnValue
  \/ Done

Spec == Init /\ [][Next]_vars

-----------------------------------------------------------------------------
(* Properties.                                                             *)

(* No variable in scope and no element of the list points to memory that a *)
(* rewind took back: what the analysis lets a loop rewind has not escaped. *)
NoDangling == words \cup {env[x] : x \in DOMAIN env} \subseteq live \cup {0}

(* At the top of every iteration of a loop that rewinds the frame holds    *)
(* what it held when the loop was entered, whichever way the iteration     *)
(* before it ended.                                                        *)
Reclaimed == Running("test") /\ Now.rewinds => live = Now.held

(* What a function returns does not lie in its frame, which is gone: every *)
(* return whose value does copies it, whichever way control came there.    *)
ReturnedLives == result \subseteq live \cup {0}
=============================================================================
