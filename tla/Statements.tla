----------------------------- MODULE Statements -----------------------------
(***************************************************************************)
(* The statements and expressions of a function that matter to where its   *)
(* strings live (src/internal/ir/ir.go): stores, appends, calls, branches, *)
(* loops, jumps and returns.  Integer work and conditions are left out.    *)
(***************************************************************************)

(* An expression is a literal, which is static memory, a parameter, whose  *)
(* memory is the caller's, a fresh string (a concatenation, a clone, the   *)
(* result of a call) in the frame arena, or what a variable holds.         *)
Literal == [kind |-> "literal", name |-> ""]
Param == [kind |-> "param", name |-> ""]
Fresh == [kind |-> "fresh", name |-> ""]
Ident(x) == [kind |-> "ident", name |-> x]

Let(x, e) == [op |-> "let", x |-> x, e |-> e]
LetPair(x, y) == [op |-> "letPair", x |-> x, y |-> y]
Assign(x, e) == [op |-> "assign", x |-> x, e |-> e]
AssignPair(x, y) == [op |-> "assignPair", x |-> x, y |-> y]
AppendTo(e) == [op |-> "append", e |-> e]
CallWith(e) == [op |-> "call", e |-> e]
If(then, else) == [op |-> "if", then |-> then, else |-> else]
For(body, post) == [op |-> "for", body |-> body, post |-> post]
Break == [op |-> "break"]
Continue == [op |-> "continue"]
Return(e, at) == [op |-> "return", e |-> e, at |-> at]  \* at: which return
=============================================================================
