----------------------------- MODULE OrderedMap -----------------------------
(***************************************************************************)
(* What a map of the language promises (website docs, "Maps"; the code is  *)
(* in RtMap): it holds at most one value for each key, a value set stays   *)
(* until it is set again or deleted, and the keys are listed in the order  *)
(* they were inserted.                                                     *)
(***************************************************************************)
CONSTANTS Keys, Values

VARIABLES
  dict,    \* the keys that are present, each with its value
  before   \* the pairs of present keys whose first was inserted first

vars == <<dict, before>>

Init == dict = [k \in {} |-> k] /\ before = {}

Replace(k, v) ==
  /\ k \in DOMAIN dict
  /\ dict' = [dict EXCEPT ![k] = v]
  /\ UNCHANGED before

Add(k, v) ==
  /\ k \notin DOMAIN dict
  /\ dict' = [x \in DOMAIN dict \cup {k} |-> IF x = k THEN v ELSE dict[x]]
  /\ before' = before \cup ((DOMAIN dict) \X {k})

Remove(k) ==
  /\ k \in DOMAIN dict
  /\ dict' = [x \in DOMAIN dict \ {k} |-> dict[x]]
  /\ before' = {p \in before : p[1] # k /\ p[2] # k}

Next ==
  \E k \in Keys :
    \/ Remove(k)
    \/ \E v \in Values : Replace(k, v) \/ Add(k, v)

Spec == Init /\ [][Next]_vars
=============================================================================
