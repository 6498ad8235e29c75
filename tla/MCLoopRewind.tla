---------------------------- MODULE MCLoopRewind ----------------------------
(* Loops for LoopRewind.  Every loop declares x, a fresh string, and y, a  *)
(* literal; the function has one outer variable o and its list.            *)
EXTENDS LoopRewind

Prelude == <<Let("x", Fresh), Let("y", Literal)>>

Values(names) == {Literal, Fresh} \cup {Ident(n) : n \in names}

(* Statements that store or hand over a value.                             *)
Stores(targets, names) ==
  {Assign(t, e) : t \in targets, e \in Values(names)} \
    {Assign(t, Ident(t)) : t \in targets}
HandOvers(names) ==
  {AppendTo(e) : e \in Values(names) \ {Literal}} \cup {CallWith(Ident(n)) : n \in names}

Plain == Stores({"o", "x", "y"}, {"x", "y"}) \cup HandOvers({"x", "y"})

Jumps == {Break, Continue}
Guarded ==
  {If(<<s>>, <<>>) : s \in Plain \cup Jumps}
    \cup {If(<<s>>, <<t>>) : s \in Stores({"y"}, {"x"}), t \in Stores({"y"}, {"x"}) \cup Jumps}

(* Inner loops that assign no variable of the enclosing iteration.         *)
Nested ==
  {For(<<Let("z", e), s, If(<<j>>, <<>>), t>>, <<>>) :
     e \in {Fresh, Ident("y")}, s \in Stores({"o", "z"}, {"y"}), j \in Jumps,
     t \in {AppendTo(Ident("z")), Assign("o", Ident("z")), Assign("z", Fresh)}}

Rewinding(loops) ==
  {<<p>> : p \in
     {q \in loops : \/ forLoopCanRewind(q)
                    \/ \E i \in DOMAIN q.body :
                         q.body[i].op = "for" /\ forLoopCanRewind(q.body[i])}}

Bodies(S, T, U) == {<<s, t, u>> : s \in S, t \in T, u \in U}

Posts == {<<>>, <<Assign("o", Literal)>>, <<Assign("o", Fresh)>>}

(* Loops the analysis can follow: an inner loop assigns no variable of the *)
(* enclosing iteration, and of two unpacked results only the first is kept.*)
Followed ==
  Rewinding(
    {For(Prelude \o b, <<>>) : b \in Bodies(Plain, Guarded, Plain)}
    \cup {For(Prelude \o b, <<>>) : b \in Bodies(Stores({"y"}, {"x"}), Nested, Plain)}
    \cup {For(Prelude \o <<s>>, <<t>>) : s \in Guarded, t \in Stores({"o"}, {})}
    \cup {For(Prelude \o <<pair, s, t>>, <<>>) :
           pair \in {LetPair("z", "w"), AssignPair("x", "y")},
           s \in {If(<<u>>, <<j>>) : u \in Stores({"x", "y"}, {"x"}), j \in Jumps},
           t \in HandOvers({"x"}) \cup {Assign("o", Literal)}}
    \cup {For(Prelude \o <<AssignPair("o", "y"), s>>, <<>>) : s \in Plain})

(* A call whose two results are unpacked, then a statement on the second:  *)
(* one kept by no name the analysis knows.                                 *)
Unpacked ==
  Rewinding(
    {For(Prelude \o <<LetPair("z", "w"), s>>, <<>>) :
       s \in Stores({"o", "y"}, {"w"}) \cup HandOvers({"w"})}
    \cup {For(Prelude \o <<AssignPair("x", t), s>>, <<>>) : t \in {"o", "y"}, s \in Plain})

(* An inner loop that assigns the enclosing iteration's variables, so that *)
(* a value made in one of its iterations reaches a variable in the next.   *)
Carried ==
  Rewinding(
    {For(Prelude \o <<For(<<s, t>>, <<>>), u>>, <<>>) :
       s \in Stores({"x", "y"}, {"x", "y"}), t \in Stores({"x", "y"}, {"x", "y"}),
       u \in HandOvers({"x", "y"})}
    \cup {For(Prelude \o <<For(<<s, If(<<Break>>, <<>>), t>>, <<>>), u>>, <<>>) :
       s \in Stores({"y"}, {"x"}), t \in Stores({"y"}, {"x"}), u \in HandOvers({"y"})})

-----------------------------------------------------------------------------
(* Functions that set r on several ways, then return it.                   *)

SetResult == {Assign("r", e) : e \in {Literal, Param, Fresh}}
MaybeSet == {<<>>} \cup {<<s>> : s \in SetResult}
Leaving == Jumps \cup {Return(Ident("r"), "inside")}

SetAndLeave == {If(<<s, j>>, t) : s \in SetResult, j \in Leaving, t \in MaybeSet}
SetFromLocal == <<Let("x", Fresh), If(<<Assign("r", Ident("x"))>>, <<>>)>>

ReturnsAfterLoop ==
  {For(<<g>> \o t, post) : g \in SetAndLeave, t \in MaybeSet \cup {SetFromLocal}, post \in MaybeSet}
  \cup {For(<<For(<<g>>, <<>>)>> \o t, post) : g \in SetAndLeave, t \in MaybeSet, post \in {<<>>}}

ReturnsAfterIf ==
  {If(t \o u, <<If(v, w)>>) :
     t \in MaybeSet, u \in {<<>>, <<Return(Ident("r"), "inside")>>}, v \in MaybeSet, w \in MaybeSet}
  \cup {AssignPair("r", "q"), AssignPair("q", "r")}

Function(e, s) == <<Let("q", Literal), Let("r", e), s, Return(Ident("r"), "end")>>

Returning ==
  {Function(e, s) : e \in {Literal, Param, Fresh}, s \in ReturnsAfterLoop \cup ReturnsAfterIf}
  \cup {<<Return(e, "end")>> : e \in {Literal, Param, Fresh}}

(* A return in a loop, read before the store that a later statement of the *)
(* body makes for the next iteration; and a value that moves on.           *)
ReturnsEarlier ==
  {Function(Literal, For(<<If(<<Return(Ident("r"), "inside")>>, <<>>), s>>, <<>>)) : s \in SetResult}
  \cup {Function(Literal, For(<<Assign("r", Ident("q")), Assign("q", Fresh)>>, <<>>))}

FollowedAndReturning == Followed \cup Returning
=============================================================================
