--------------------------- MODULE ReturnOrigins ---------------------------
(***************************************************************************)
(* Where the checker (src/internal/types/types.go) thinks the value of a   *)
(* variable lives, its origin, at each point of a function, and so which   *)
(* returns have to copy the value out of the frame before it goes.         *)
(*                                                                         *)
(* The checker follows the statements once.  An outcome is what it knows   *)
(* after a statement: the origin of each variable in scope, whether the    *)
(* end is reached, the scopes in which the loop around was left by break   *)
(* and by continue, and the returns found so far that copy.                *)
(***************************************************************************)
EXTENDS Statements, Sequences, SequencesExt, TLC

Origins == {"owned", "borrowed", "scratch", "frame-owned"}

originCopiesOut(origin) == origin \in {"scratch", "frame-owned"}

(* Mutant: what is known not to need a copy wins. *)
joinOriginTrusting(left, right) ==
  IF left = right \/ ~originCopiesOut(left) THEN left ELSE right

joinOrigin(left, right) ==
  IF left = right THEN left
  ELSE IF "frame-owned" \in {left, right} THEN "frame-owned"
  ELSE IF originCopiesOut(left) \/ originCopiesOut(right) THEN "scratch"
  ELSE "borrowed"

(* The scopes at the exits joined, of the variables names; one or more *)
joinExitOrigins(names, exits) ==
  [x \in names |-> FoldLeft(joinOrigin, exits[1][x], [i \in DOMAIN exits |-> exits[i][x]])]

exprOrigin(e, scope) ==
  CASE e.kind = "literal" -> "owned"
    [] e.kind = "param" -> "borrowed"
    [] e.kind = "fresh" -> "scratch"
    [] e.kind = "ident" -> scope[e.name]

needsReturnCopyOut(e, scope) == originCopiesOut(exprOrigin(e, scope))

-----------------------------------------------------------------------------
Stored(o, names, origin) == [o EXCEPT !.scope = [x \in names |-> origin] @@ @]

Returned(o, s) ==
  [o EXCEPT !.reaches = FALSE,
            !.copies = IF needsReturnCopyOut(s.e, o.scope) THEN @ \cup {s.at} ELSE @]

(* After an if, with the outcomes of its branches; a branch that does not  *)
(* reach its end is no exit.                                               *)
Joined(o, then, else) ==
  LET exits == (IF then.reaches THEN <<then.scope>> ELSE <<>>)
               \o (IF else.reaches THEN <<else.scope>> ELSE <<>>)
  IN  IF exits = <<>> THEN [else EXCEPT !.scope = o.scope]
      ELSE [else EXCEPT !.scope = joinExitOrigins(DOMAIN o.scope, exits), !.reaches = TRUE]

(* Mutant: only the end of the body and continue lead out of a loop. *)
ExitsWithoutBreaks(o, body, afterPosts) == <<o.scope>> \o afterPosts

(* A loop is left before its first iteration, by break, or at its top      *)
(* after the post statement, which the end of the body and continue run.   *)
Exits(o, body, afterPosts) == <<o.scope>> \o body.breaks \o afterPosts

RECURSIVE checkStmtList(_, _)
checkStmt(s, o) ==
  CASE s.op \in {"let", "assign"} -> Stored(o, {s.x}, exprOrigin(s.e, o.scope))
    [] s.op \in {"letPair", "assignPair"} -> Stored(o, {s.x, s.y}, "frame-owned")
    [] s.op = "return" -> Returned(o, s)
    [] s.op = "break" -> [o EXCEPT !.breaks = Append(@, o.scope), !.reaches = FALSE]
    [] s.op = "continue" -> [o EXCEPT !.continues = Append(@, o.scope), !.reaches = FALSE]
    [] s.op = "if" ->
         LET then == checkStmtList(s.then, o)
             else == checkStmtList(s.else, [then EXCEPT !.scope = o.scope, !.reaches = TRUE])
         IN  Joined(o, then, else)
    [] s.op = "for" ->
         LET body == checkStmtList(s.body, [o EXCEPT !.breaks = <<>>, !.continues = <<>>])
             incoming == (IF body.reaches THEN <<body.scope>> ELSE <<>>) \o body.continues
             afterPosts == [i \in DOMAIN incoming |->
                              checkStmtList(s.post, [o EXCEPT !.scope = incoming[i]]).scope]
         IN  [o EXCEPT !.scope = joinExitOrigins(DOMAIN o.scope, Exits(o, body, afterPosts)),
                       !.copies = body.copies]
    [] OTHER -> o

(* What follows a jump is never run, and changes no origin. *)
checkStmtList(stmts, o) ==
  IF stmts = <<>> \/ ~o.reaches THEN o
  ELSE checkStmtList(Tail(stmts), checkStmt(Head(stmts), o))

(* The returns of a function that copy, when scope is its first. *)
copiedOut(stmts, scope) ==
  checkStmtList(stmts, [scope |-> scope, reaches |-> TRUE, breaks |-> <<>>, continues |-> <<>>,
                        copies |-> {}]).copies
=============================================================================
