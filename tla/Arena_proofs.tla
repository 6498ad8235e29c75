--------------------------- MODULE Arena_proofs ----------------------------
(***************************************************************************)
(* The memory of requests, for any sizes, any number of chunks, frames,    *)
(* objects, lists and nested loops.                                        *)
(***************************************************************************)
EXTENDS Arena, FiniteSetTheorems, WellFoundedInduction, TLAPS

Types ==
  /\ cap \in [Chunks -> Nat] /\ used \in [Chunks -> Nat]
  /\ pool \in [worker : Seq(Chunks), park : Seq(Chunks)]
  /\ stack \in Seq(Frame)
  /\ phase \in {"handler", "retain", "continue"}
  /\ parked \in Frame \cup {None}
  /\ lists \in Seq(Nat)

(* The marks of nested loops: none is beyond what the frame has, nor       *)
(* beyond an inner one.                                                    *)
Marked(fr) ==
  \A m \in DOMAIN fr.marks :
    LET mark == fr.marks[m] IN
      /\ mark.lists <= Len(fr.lists) /\ mark.objects <= Len(fr.objects)
      /\ mark.chunk \in ToSet(fr.chunks) \cup {None}
      /\ \A l \in m .. Len(fr.marks) :
           mark.lists <= fr.marks[l].lists /\ mark.objects <= fr.marks[l].objects

Nested == \A f \in Live : Marked(FrameAt(f))

(* One request is parked at most, and the chunks put aside with it are its *)
(* own.                                                                    *)
Phases ==
  /\ phase = "retain" /\ stack # <<>> => Top = 1 /\ parked = None /\ pool.worker = <<>>
  /\ phase = "continue" /\ stack # <<>> => parked = None
  /\ pool.park # <<>> => parked # None \/ (phase # "handler" /\ stack # <<>>)

----------------------------------------------------------------------------
(* Sequences *)

LEMMA ConsOf ==
  ASSUME NEW S, NEW s \in Seq(S), NEW c \in S
  PROVE  /\ <<c>> \o s \in Seq(S) /\ ToSet(<<c>> \o s) = {c} \cup ToSet(s)
         /\ IsInjective(s) /\ c \notin ToSet(s) => IsInjective(<<c>> \o s)
<1> DEFINE t == <<c>> \o s
<1>1. t \in Seq(S) /\ Len(t) = Len(s) + 1 /\ t[1] = c /\ \A i \in 1 .. Len(s) : t[i + 1] = s[i]
  OBVIOUS
<1>2. DOMAIN t = 1 .. (Len(s) + 1) /\ DOMAIN s = 1 .. Len(s) /\ Len(s) \in Nat
  BY <1>1
<1> HIDE DEF t
<1>5. \A i \in DOMAIN t : i = 1 \/ (i - 1 \in DOMAIN s /\ t[i] = s[i - 1])
  <2> SUFFICES ASSUME NEW i \in DOMAIN t, i # 1 PROVE i - 1 \in DOMAIN s /\ t[i] = s[i - 1]
    OBVIOUS
  <2>1. i - 1 \in 1 .. Len(s) /\ (i - 1) + 1 = i
    BY <1>2
  <2> QED
    BY <1>1, <1>2, <2>1
<1>3. ToSet(t) = {c} \cup ToSet(s)
  <2>2. \A i \in DOMAIN s : i + 1 \in DOMAIN t
    BY <1>1, <1>2
  <2>3. 1 \in DOMAIN t
    BY <1>1
  <2> QED
    BY <1>1, <1>5, <2>2, <2>3 DEF ToSet
<1>4. ASSUME IsInjective(s), c \notin ToSet(s) PROVE IsInjective(t)
  <2>1. \A i \in DOMAIN t : i = 1 \/ (i - 1 \in DOMAIN s /\ t[i] = s[i - 1] /\ t[i] # c)
    BY <1>4, <1>5 DEF ToSet
  <2>2. SUFFICES ASSUME NEW i \in DOMAIN t, NEW j \in DOMAIN t, t[i] = t[j] PROVE i = j
    BY DEF IsInjective
  <2>3. i \in Nat /\ j \in Nat
    BY <1>1
  <2> QED
    BY <1>1, <1>4, <2>1, <2>2, <2>3 DEF IsInjective
<1> QED
  BY <1>1, <1>3, <1>4 DEF t

LEMMA ReverseOf ==
  ASSUME NEW S, NEW s \in Seq(S)
  PROVE  /\ Reverse(s) \in Seq(S) /\ ToSet(Reverse(s)) = ToSet(s)
         /\ IsInjective(s) => IsInjective(Reverse(s))
<1> DEFINE t == Reverse(s)
<1>1. t = [i \in 1 .. Len(s) |-> s[(Len(s) - i) + 1]] /\ Len(s) \in Nat
  BY DEF Reverse
<1>2. t \in Seq(S) /\ DOMAIN t = DOMAIN s
  BY <1>1
<1>3. \A i \in DOMAIN s : (Len(s) - i) + 1 \in DOMAIN s /\ t[i] = s[(Len(s) - i) + 1]
  BY <1>1
<1>4. \A i \in DOMAIN s : s[i] = t[(Len(s) - i) + 1]
  <2> TAKE i \in DOMAIN s
  <2>1. i = (Len(s) - ((Len(s) - i) + 1)) + 1
    BY <1>1
  <2> QED
    BY <1>3, <2>1
<1> HIDE DEF t
<1>5. ToSet(t) = ToSet(s)
  BY <1>2, <1>3, <1>4 DEF ToSet
<1>6. IsInjective(s) => IsInjective(t)
  <2> SUFFICES ASSUME IsInjective(s), NEW i \in DOMAIN s, NEW j \in DOMAIN s, t[i] = t[j]
               PROVE  i = j
    BY <1>2 DEF IsInjective
  <2>1. (Len(s) - i) + 1 = (Len(s) - j) + 1
    BY <1>3 DEF IsInjective
  <2> QED
    BY <1>1, <2>1
<1> QED
  BY <1>2, <1>5, <1>6 DEF t

LEMMA JoinOf ==
  ASSUME NEW S, NEW s \in Seq(S), NEW t \in Seq(S)
  PROVE  /\ s \o t \in Seq(S) /\ ToSet(s \o t) = ToSet(s) \cup ToSet(t)
         /\ IsInjective(s) /\ IsInjective(t) /\ ToSet(s) \cap ToSet(t) = {} => IsInjective(s \o t)
<1> DEFINE u == s \o t
<1>1. /\ u \in Seq(S) /\ Len(u) = Len(s) + Len(t) /\ \A i \in 1 .. Len(s) : u[i] = s[i]
      /\ \A i \in 1 .. Len(t) : u[Len(s) + i] = t[i]
  OBVIOUS
<1>2. /\ DOMAIN u = 1 .. Len(u) /\ DOMAIN s = 1 .. Len(s) /\ DOMAIN t = 1 .. Len(t)
      /\ Len(s) \in Nat /\ Len(t) \in Nat
  BY <1>1
<1> HIDE DEF u
<1>3. \A i \in DOMAIN u : \/ i \in DOMAIN s /\ u[i] = s[i]
                          \/ i - Len(s) \in DOMAIN t /\ u[i] = t[i - Len(s)]
  <2> TAKE i \in DOMAIN u
  <2>1. CASE i <= Len(s)
    BY <1>1, <1>2, <2>1
  <2>2. CASE i > Len(s)
    <3>1. i - Len(s) \in 1 .. Len(t) /\ i = Len(s) + (i - Len(s))
      BY <1>1, <1>2, <2>2
    <3> QED
      BY <1>1, <1>2, <3>1
  <2> QED
    BY <1>2, <2>1, <2>2
<1>4. ToSet(u) = ToSet(s) \cup ToSet(t)
  <2>1. \A i \in DOMAIN s : i \in DOMAIN u /\ u[i] = s[i]
    BY <1>1, <1>2
  <2>2. \A i \in DOMAIN t : Len(s) + i \in DOMAIN u /\ u[Len(s) + i] = t[i]
    BY <1>1, <1>2
  <2> QED
    BY <1>3, <2>1, <2>2 DEF ToSet
<1>5. ASSUME IsInjective(s), IsInjective(t), ToSet(s) \cap ToSet(t) = {} PROVE IsInjective(u)
  <2> SUFFICES ASSUME NEW i \in DOMAIN u, NEW j \in DOMAIN u, u[i] = u[j] PROVE i = j
    BY DEF IsInjective
  <2>1. CASE i \in DOMAIN s /\ u[i] = s[i] /\ j \in DOMAIN s /\ u[j] = s[j]
    BY <1>5, <2>1 DEF IsInjective
  <2>2. CASE /\ i - Len(s) \in DOMAIN t /\ u[i] = t[i - Len(s)]
             /\ j - Len(s) \in DOMAIN t /\ u[j] = t[j - Len(s)]
    <3>1. i - Len(s) = j - Len(s)
      BY <1>5, <2>2 DEF IsInjective
    <3> QED
      BY <1>2, <3>1
  <2> QED
    BY <1>3, <1>5, <2>1, <2>2 DEF ToSet
<1> QED
  BY <1>1, <1>4, <1>5 DEF u

(* A sequence cut in two *)
LEMMA CutOf ==
  ASSUME NEW S, NEW s \in Seq(S), NEW n \in 0 .. Len(s)
  PROVE  /\ SubSeq(s, 1, n) \in Seq(S) /\ SubSeq(s, n + 1, Len(s)) \in Seq(S)
         /\ Len(SubSeq(s, 1, n)) = n /\ Len(SubSeq(s, n + 1, Len(s))) = Len(s) - n
         /\ \A i \in 1 .. n : SubSeq(s, 1, n)[i] = s[i]
         /\ ToSet(s) = ToSet(SubSeq(s, 1, n)) \cup ToSet(SubSeq(s, n + 1, Len(s)))
         /\ IsInjective(s) => /\ IsInjective(SubSeq(s, 1, n)) /\ IsInjective(SubSeq(s, n + 1, Len(s)))
                              /\ ToSet(SubSeq(s, 1, n)) \cap ToSet(SubSeq(s, n + 1, Len(s))) = {}
<1> DEFINE a == SubSeq(s, 1, n)
           b == SubSeq(s, n + 1, Len(s))
<1>1. /\ a \in Seq(S) /\ Len(a) = n /\ \A i \in 1 .. n : a[i] = s[i]
      /\ b \in Seq(S) /\ Len(b) = Len(s) - n /\ \A i \in 1 .. (Len(s) - n) : b[i] = s[n + i]
  OBVIOUS
<1>2. /\ DOMAIN a = 1 .. n /\ DOMAIN b = 1 .. (Len(s) - n) /\ DOMAIN s = 1 .. Len(s)
      /\ Len(s) \in Nat /\ n \in Nat /\ n <= Len(s)
  BY <1>1
<1> HIDE DEF a, b
<1>3. /\ \A i \in DOMAIN a : i \in DOMAIN s /\ a[i] = s[i]
      /\ \A i \in DOMAIN b : n + i \in DOMAIN s /\ b[i] = s[n + i]
  BY <1>1, <1>2
<1>4. \A i \in DOMAIN s : i \in DOMAIN a \/ (i - n \in DOMAIN b /\ b[i - n] = s[i])
  <2> TAKE i \in DOMAIN s
  <2>1. CASE i <= n
    BY <1>2, <2>1
  <2>2. CASE i > n
    <3>1. i - n \in DOMAIN b /\ n + (i - n) = i
      BY <1>2, <2>2
    <3> QED
      BY <1>3, <3>1
  <2> QED
    BY <1>2, <2>1, <2>2
<1>5. ToSet(s) = ToSet(a) \cup ToSet(b)
  BY <1>3, <1>4 DEF ToSet
<1>6. ASSUME IsInjective(s)
      PROVE  IsInjective(a) /\ IsInjective(b) /\ ToSet(a) \cap ToSet(b) = {}
  <2>1. IsInjective(a)
    BY <1>3, <1>6 DEF IsInjective
  <2>2. \A i, j \in DOMAIN b : b[i] = b[j] => n + i = n + j
    BY <1>3, <1>6 DEF IsInjective
  <2>3. IsInjective(b)
    BY <1>2, <2>2 DEF IsInjective
  <2>4. \A i \in DOMAIN a, j \in DOMAIN b : a[i] = b[j] => i = n + j
    BY <1>3, <1>6 DEF IsInjective
  <2>5. \A i \in DOMAIN a, j \in DOMAIN b : a[i] # b[j]
    BY <1>2, <2>4
  <2> QED
    BY <2>1, <2>3, <2>5 DEF ToSet
<1> QED
  BY <1>1, <1>5, <1>6 DEF a, b

LEMMA RemoveAtOf ==
  ASSUME NEW S, NEW s \in Seq(S), NEW i \in DOMAIN s
  PROVE  /\ RemoveAt(s, i) \in Seq(S)
         /\ IsInjective(s) => /\ IsInjective(RemoveAt(s, i))
                              /\ ToSet(RemoveAt(s, i)) = ToSet(s) \ {s[i]}
<1> DEFINE a == SubSeq(s, 1, i - 1)
           b == SubSeq(s, i + 1, Len(s))
           c == SubSeq(s, 1, i)
<1>1. i \in 1 .. Len(s) /\ i - 1 \in 0 .. Len(s) /\ i \in 0 .. Len(s) /\ Len(s) \in Nat
  OBVIOUS
<1>0. a \in Seq(S) /\ b \in Seq(S)
  BY <1>1, CutOf
<1>10. RemoveAt(s, i) \in Seq(S)
  BY <1>0, JoinOf DEF RemoveAt
<1> SUFFICES ASSUME IsInjective(s)
             PROVE  IsInjective(RemoveAt(s, i)) /\ ToSet(RemoveAt(s, i)) = ToSet(s) \ {s[i]}
  BY <1>10
<1>2. a \in Seq(S) /\ IsInjective(a) /\ Len(a) = i - 1 /\ \A k \in 1 .. (i - 1) : a[k] = s[k]
  BY <1>1, CutOf
<1>3. /\ c \in Seq(S) /\ Len(c) = i /\ \A k \in 1 .. i : c[k] = s[k]
      /\ b \in Seq(S) /\ IsInjective(b) /\ ToSet(c) \cap ToSet(b) = {}
      /\ ToSet(s) = ToSet(c) \cup ToSet(b)
  BY <1>1, CutOf
<1>4. RemoveAt(s, i) = a \o b
  BY DEF RemoveAt
<1> HIDE DEF a, b, c
<1>5. DOMAIN a = 1 .. (i - 1) /\ DOMAIN c = 1 .. i
  <2>1. DOMAIN a = 1 .. Len(a) /\ DOMAIN c = 1 .. Len(c)
    BY <1>2, <1>3
  <2> QED
    BY <1>2, <1>3, <2>1
<1>6. ToSet(c) = ToSet(a) \cup {s[i]}
  <2>1. \A k \in 1 .. i : k \in 1 .. (i - 1) \/ k = i
    BY <1>1
  <2>2. \A k \in 1 .. (i - 1) : k \in 1 .. i
    BY <1>1
  <2>3. i \in 1 .. i
    BY <1>1
  <2>4. \A k \in DOMAIN c : (k \in DOMAIN a /\ c[k] = a[k]) \/ c[k] = s[i]
    BY <1>2, <1>3, <1>5, <2>1
  <2>5. /\ \A k \in DOMAIN a : k \in DOMAIN c /\ a[k] = c[k]
        /\ i \in DOMAIN c /\ c[i] = s[i]
    BY <1>2, <1>3, <1>5, <2>2, <2>3
  <2> QED
    BY <2>4, <2>5 DEF ToSet
<1>7. s[i] \notin ToSet(a)
  <2>1. \A k \in 1 .. (i - 1) : k \in DOMAIN s /\ k # i
    BY <1>1
  <2> QED
    BY <1>2, <1>5, <2>1 DEF ToSet, IsInjective
<1>8. /\ a \o b \in Seq(S) /\ ToSet(a \o b) = ToSet(a) \cup ToSet(b)
      /\ ToSet(a) \cap ToSet(b) = {} => IsInjective(a \o b)
  BY <1>2, <1>3, JoinOf
<1> QED
  BY <1>3, <1>4, <1>6, <1>7, <1>8

(* The least of a set of numbers exists. *)
LEMMA SmallestIn ==
  ASSUME NEW T, T \subseteq Nat, T # {}
  PROVE  Smallest(T) \in T
<1> DEFINE R == OpToRel(<, Nat)
<1>1. IsWellFoundedOn(R, Nat)
  BY NatLessThanWellFounded
<1>2. \A x, y \in Nat : x < y => <<x, y>> \in R
  BY DEF OpToRel
<1> HIDE DEF R
<1>3. PICK x \in T : \A y \in T : ~(<<y, x>> \in R)
  BY <1>1, WFMin, Zenon
<1>4. ASSUME NEW y \in T PROVE x <= y
  <2>1. ~(y < x)
    BY <1>2, <1>3, Zenon
  <2> QED
    BY <2>1
<1> QED
  BY <1>4 DEF Smallest

(* What is kept of a pool: some of its chunks, each once, few and small    *)
LEMMA KeptOf ==
  ASSUME NEW chunks \in Seq(Chunks), NEW kept \in Kept(chunks)
  PROVE  /\ kept \in Seq(Chunks) /\ ToSet(kept) \subseteq ToSet(chunks)
         /\ IsInjective(chunks) => IsInjective(kept)
         /\ Len(kept) <= TrimKeep /\ \A i \in DOMAIN kept : cap[kept[i]] <= TrimCap
<1> DEFINE at == {i \in DOMAIN chunks : cap[chunks[i]] <= TrimCap}
           n == Cardinality(at)
<1>1. n \in Nat
  <2>1. IsFiniteSet(1 .. Len(chunks))
    BY FS_Interval
  <2>2. at \subseteq 1 .. Len(chunks)
    OBVIOUS
  <2> QED
    BY <2>1, <2>2, FS_Subset, FS_CardinalityType
<1>2. PICK small \in Small(chunks) :
        kept = SubSeq(small, 1, IF Len(small) <= TrimKeep THEN Len(small) ELSE TrimKeep)
  BY DEF Kept
<1>3. PICK f \in [1 .. n -> at] :
        /\ \A k, l \in DOMAIN f : k < l => f[k] < f[l]
        /\ small = [k \in DOMAIN f |-> chunks[f[k]]]
  BY <1>2 DEF Small
<1> HIDE DEF n
<1>4. /\ small \in Seq(Chunks) /\ Len(small) = n /\ DOMAIN small = 1 .. n
      /\ \A k \in 1 .. n : /\ f[k] \in DOMAIN chunks /\ small[k] = chunks[f[k]]
                           /\ cap[small[k]] <= TrimCap
  BY <1>1, <1>3
<1>5. IsInjective(chunks) => IsInjective(small)
  <2> SUFFICES ASSUME IsInjective(chunks), NEW k \in 1 .. n, NEW l \in 1 .. n, small[k] = small[l] PROVE k = l
    BY <1>4 DEF IsInjective
  <2>1. f[k] = f[l] /\ f[k] \in Nat
    BY <1>4 DEF IsInjective
  <2>2. ~(k < l) /\ ~(l < k)
    BY <1>3, <2>1
  <2> QED
    BY <1>1, <2>2
<1>6. ToSet(small) \subseteq ToSet(chunks)
  BY <1>4 DEF ToSet
<1> DEFINE m == IF Len(small) <= TrimKeep THEN Len(small) ELSE TrimKeep
<1>7. m \in 0 .. Len(small) /\ m <= TrimKeep
  BY <1>1, <1>4, ArenaAssumption
<1>8. kept = SubSeq(small, 1, m)
  BY <1>2
<1> HIDE DEF m
<1>9. /\ kept \in Seq(Chunks) /\ Len(kept) = m /\ (IsInjective(small) => IsInjective(kept))
      /\ ToSet(kept) \subseteq ToSet(small) /\ \A i \in 1 .. m : kept[i] = small[i]
  BY <1>4, <1>5, <1>7, <1>8, CutOf
<1>10. DOMAIN kept = 1 .. m /\ \A i \in 1 .. m : i \in 1 .. n
  <2>1. DOMAIN kept = 1 .. Len(kept)
    BY <1>9
  <2> QED
    BY <1>1, <1>4, <1>7, <1>9, <2>1
<1> QED
  BY <1>4, <1>5, <1>6, <1>7, <1>9, <1>10

----------------------------------------------------------------------------
(* Places that hold the elements of a set, and what moves between them *)

Put(seqs, p, x) == [q \in DOMAIN seqs \cup {p} |-> IF q = p THEN x ELSE seqs[q]]
Without(seqs, p) == [q \in DOMAIN seqs \ {p} |-> seqs[q]]

LEMMA HeldWithout ==
  ASSUME NEW seqs, NEW S, HeldOnce(seqs, S), NEW p \in DOMAIN seqs
  PROVE  HeldOnce(Without(seqs, p), S \ ToSet(seqs[p]))
<1> DEFINE w == Without(seqs, p)
<1>1. DOMAIN w = DOMAIN seqs \ {p} /\ \A q \in DOMAIN w : w[q] = seqs[q]
  BY DEF Without
<1> HIDE DEF w
<1>2. S \ ToSet(seqs[p]) = UNION {ToSet(w[q]) : q \in DOMAIN w}
  BY <1>1 DEF HeldOnce
<1> QED
  BY <1>1, <1>2 DEF HeldOnce, w

LEMMA HeldPut ==
  ASSUME NEW seqs, NEW S, HeldOnce(seqs, S), NEW p, p \notin DOMAIN seqs,
         NEW x, IsInjective(x), ToSet(x) \cap S = {}
  PROVE  HeldOnce(Put(seqs, p, x), S \cup ToSet(x))
<1> DEFINE w == Put(seqs, p, x)
<1>1. /\ DOMAIN w = DOMAIN seqs \cup {p} /\ w[p] = x
      /\ \A q \in DOMAIN seqs : q # p /\ w[q] = seqs[q]
  BY DEF Put
<1> HIDE DEF w
<1>2. S \cup ToSet(x) = UNION {ToSet(w[q]) : q \in DOMAIN w}
  BY <1>1 DEF HeldOnce
<1>3. \A q \in DOMAIN seqs : ToSet(seqs[q]) \subseteq S
  BY DEF HeldOnce
<1> QED
  BY <1>1, <1>2, <1>3 DEF HeldOnce, w

(* A place that is there gets another content. *)
LEMMA HeldReplaced ==
  ASSUME NEW seqs, NEW S, HeldOnce(seqs, S), NEW p \in DOMAIN seqs,
         NEW x, IsInjective(x), ToSet(x) \cap (S \ ToSet(seqs[p])) = {}
  PROVE  HeldOnce(Put(seqs, p, x), (S \ ToSet(seqs[p])) \cup ToSet(x))
<1>1. HeldOnce(Without(seqs, p), S \ ToSet(seqs[p])) /\ p \notin DOMAIN Without(seqs, p)
  BY HeldWithout DEF Without
<1>2. HeldOnce(Put(Without(seqs, p), p, x), (S \ ToSet(seqs[p])) \cup ToSet(x))
  BY <1>1, HeldPut
<1>3. Put(Without(seqs, p), p, x) = Put(seqs, p, x)
  BY DEF Put, Without
<1> QED
  BY <1>2, <1>3

----------------------------------------------------------------------------
(* Types *)

LEMMA FramesTyped ==
  ASSUME Types, NEW f \in DOMAIN stack
  PROVE  /\ stack[f] \in Frame /\ stack[f].chunks \in Seq(Chunks) /\ stack[f].lists \in Seq(Nat)
         /\ f \in 1 .. Len(stack) /\ Len(stack) \in Nat
<1>1. stack \in Seq(Frame)
  BY DEF Types
<1>2. DOMAIN stack = 1 .. Len(stack) /\ Len(stack) \in Nat /\ stack[f] \in Frame
  BY <1>1
<1> QED
  BY <1>2 DEF Frame

(* What an allocation does: in a chunk the frame has, in one of the pool,  *)
(* or in a new one.                                                        *)
LEMMA AllocStep ==
  ASSUME Types, NEW f \in DOMAIN stack, NEW size \in Sizes, Alloc(f, size)
  PROVE  \E c \in Chunks, at \in Nat :
           /\ stack' = [stack EXCEPT ![f] = WithObject(stack[f], c, at, size)]
           /\ used' = [used EXCEPT ![c] = at + size]
           /\ UNCHANGED <<phase, parked, lists>>
           /\ \/ c \in ToSet(stack[f].chunks) /\ at = used[c] /\ UNCHANGED <<cap, pool>>
              \/ /\ at = 0 /\ UNCHANGED cap
                 /\ \E i \in DOMAIN pool[Ctx] :
                      c = pool[Ctx][i] /\ pool' = [pool EXCEPT ![Ctx] = RemoveAt(pool[Ctx], i)]
              \/ at = 0 /\ cap[c] = 0 /\ UNCHANGED pool /\ \E n \in Nat \ {0} : cap' = [cap EXCEPT ![c] = n]
<1>1. /\ stack[f] \in Frame /\ stack[f].chunks \in Seq(Chunks) /\ size \in Nat \ {0}
      /\ UNCHANGED <<phase, parked, lists>> /\ cap \in [Chunks -> Nat] /\ used \in [Chunks -> Nat]
  BY FramesTyped, ArenaAssumption DEF Alloc, Types
<1>2. CASE AllocInPlace(f, size)
  <2>1. stack[f].chunks # <<>>
    BY <1>2 DEF AllocInPlace, HasRoom
  <2> DEFINE c == Head(stack[f].chunks)
  <2>2. c \in Chunks /\ c \in ToSet(stack[f].chunks)
    BY <1>1, <2>1 DEF ToSet
  <2>3. /\ stack' = [stack EXCEPT ![f] = WithObject(stack[f], c, used[c], size)]
        /\ used' = [used EXCEPT ![c] = used[c] + size] /\ UNCHANGED <<cap, pool>>
    BY <1>2 DEF AllocInPlace
  <2> HIDE DEF c
  <2>4. used[c] \in Nat
    BY <1>1, <2>2
  <2> QED
    BY <1>1, <2>2, <2>3, <2>4
<1>3. CASE AllocFromPool(f, size)
  <2>1. Fitting(size) \subseteq Nat /\ Fitting(size) # {} /\ Fitting(size) \subseteq DOMAIN pool[Ctx]
    <3>1. pool[Ctx] \in Seq(Chunks)
      BY DEF Types, Ctx
    <3>2. DOMAIN pool[Ctx] = 1 .. Len(pool[Ctx])
      BY <3>1
    <3> QED
      BY <1>3, <3>2 DEF AllocFromPool, Fitting
  <2> DEFINE i == Smallest(Fitting(size))
  <2>2. i \in DOMAIN pool[Ctx]
    BY <2>1, SmallestIn
  <2>3. pool[Ctx][i] \in Chunks
    BY <2>2 DEF Types, Ctx
  <2>4. /\ pool' = [pool EXCEPT ![Ctx] = RemoveAt(pool[Ctx], i)]
        /\ stack' = [stack EXCEPT ![f] = WithObject(stack[f], pool[Ctx][i], 0, size)]
        /\ used' = [used EXCEPT ![pool[Ctx][i]] = size] /\ UNCHANGED cap
    BY <1>3 DEF AllocFromPool
  <2> HIDE DEF i
  <2>5. size = 0 + size
    BY <1>1
  <2> QED
    BY <1>1, <2>2, <2>3, <2>4, <2>5
<1>4. CASE AllocNewChunk(f, size)
  <2> DEFINE T == {k \in Chunks : cap[k] = 0}
             c == Smallest(T)
             n == NextChunkCap(stack[f], size)
  <2>1. T \subseteq Nat /\ T # {}
    BY <1>4, ArenaAssumption DEF AllocNewChunk
  <2>2. c \in T
    BY <2>1, SmallestIn
  <2>3. /\ cap' = [cap EXCEPT ![c] = n] /\ UNCHANGED pool
        /\ stack' = [stack EXCEPT ![f] = WithObject(stack[f], c, 0, size)]
        /\ used' = [used EXCEPT ![c] = size]
    BY <1>4 DEF AllocNewChunk
  <2>4. n \in Nat \ {0}
    <3>1. CASE stack[f].chunks = <<>>
      BY <1>1, <3>1, ArenaAssumption DEF NextChunkCap, Largest
    <3>2. CASE stack[f].chunks # <<>>
      <4>1. cap[Head(stack[f].chunks)] \in Nat
        BY <1>1, <3>2
      <4> QED
        BY <1>1, <3>2, <4>1, ArenaAssumption DEF NextChunkCap, Largest
    <3> QED
      BY <3>1, <3>2
  <2>5. size = 0 + size /\ c \in Chunks /\ cap[c] = 0
    BY <1>1, <2>2
  <2> HIDE DEF c, n, T
  <2> QED
    BY <1>1, <2>3, <2>4, <2>5
<1> QED
  BY <1>2, <1>3, <1>4 DEF Alloc

LEMMA WithObjectTyped ==
  ASSUME NEW fr \in Frame, NEW c \in Chunks, NEW at \in Nat, NEW size \in Nat
  PROVE  /\ WithObject(fr, c, at, size) \in Frame
         /\ WithObject(fr, c, at, size).chunks = IF c \in ToSet(fr.chunks) THEN fr.chunks ELSE <<c>> \o fr.chunks
         /\ WithObject(fr, c, at, size).objects = Append(fr.objects, [chunk |-> c, at |-> at, size |-> size])
         /\ WithObject(fr, c, at, size).lists = fr.lists
         /\ WithObject(fr, c, at, size).marks = fr.marks
<1>1. Contains(fr.chunks, c) <=> c \in ToSet(fr.chunks)
  BY DEF Contains, ToSet, Frame
<1>2. fr.chunks \in Seq(Chunks) /\ <<c>> \o fr.chunks \in Seq(Chunks)
  BY DEF Frame
<1>3. Append(fr.objects, [chunk |-> c, at |-> at, size |-> size]) \in Seq([chunk : Chunks, at : Nat, size : Nat])
  BY DEF Frame
<1> QED
  BY <1>1, <1>2, <1>3 DEF WithObject, Frame

LEMMA NewFrameTyped ==
  /\ NewFrame \in Frame /\ Marked(NewFrame) /\ NewFrame.chunks = <<>> /\ NewFrame.objects = <<>>
  /\ NewFrame.lists = <<>> /\ NewFrame.marks = <<>>
  BY DEF NewFrame, Frame, Marked

LEMMA EmptiedTyped ==
  ASSUME Types, NEW fr \in Frame
  PROVE  /\ Emptied(fr) \in [Chunks -> Nat] /\ Pooled(fr) \in Seq(Chunks) /\ Freed(fr.lists) \in Seq(Nat)
         /\ \A c \in Chunks : Emptied(fr)[c] = IF c \in ToSet(fr.chunks) THEN 0 ELSE used[c]
         /\ ToSet(Pooled(fr)) = ToSet(fr.chunks) \cup ToSet(pool[Ctx])
         /\ /\ IsInjective(fr.chunks) /\ IsInjective(pool[Ctx])
            /\ ToSet(fr.chunks) \cap ToSet(pool[Ctx]) = {}
            => IsInjective(Pooled(fr))
<1>1. fr.chunks \in Seq(Chunks) /\ fr.lists \in Seq(Nat) /\ pool[Ctx] \in Seq(Chunks)
  BY DEF Frame, Types, Ctx
<1>2. \A c : Contains(fr.chunks, c) <=> c \in ToSet(fr.chunks)
  BY <1>1 DEF Contains, ToSet
<1>3. Reverse(fr.chunks) \in Seq(Chunks)
  BY <1>1, ReverseOf
<1>4. Freed(fr.lists) \in Seq(Nat)
  <2> DEFINE g == [l \in DOMAIN lists |-> IF Contains(fr.lists, l) THEN lists[l] + 1 ELSE lists[l]]
  <2>1. lists \in Seq(Nat) /\ Len(lists) \in Nat /\ DOMAIN lists = 1 .. Len(lists)
    BY DEF Types
  <2>2. \A l \in 1 .. Len(lists) : g[l] \in Nat
    BY <2>1
  <2> QED
    BY <2>1, <2>2 DEF Freed
<1> QED
  BY <1>1, <1>2, <1>3, <1>4, ReverseOf, JoinOf DEF Emptied, Pooled, Types

LEMMA TrimStep ==
  ASSUME Types, NEW chunks \in Seq(Chunks), NEW others \in Seq(Chunks), Trim(chunks, others)
  PROVE  \E kept \in Seq(Chunks) :
           /\ pool' = [worker |-> kept, park |-> others]
           /\ cap' \in [Chunks -> Nat]
           /\ \A c \in Chunks :
                cap'[c] = IF c \in ToSet(chunks) /\ c \notin ToSet(kept) THEN 0 ELSE cap[c]
           /\ ToSet(kept) \subseteq ToSet(chunks)
           /\ IsInjective(chunks) => IsInjective(kept)
           /\ Len(kept) <= TrimKeep /\ \A i \in DOMAIN kept : cap[kept[i]] <= TrimCap
<1>1. PICK kept \in Kept(chunks) :
        /\ pool' = [worker |-> kept, park |-> others]
        /\ cap' = [c \in Chunks |-> IF Contains(chunks, c) /\ ~Contains(kept, c) THEN 0 ELSE cap[c]]
  BY DEF Trim
<1>2. /\ kept \in Seq(Chunks) /\ ToSet(kept) \subseteq ToSet(chunks)
      /\ IsInjective(chunks) => IsInjective(kept)
      /\ Len(kept) <= TrimKeep /\ \A i \in DOMAIN kept : cap[kept[i]] <= TrimCap
  BY KeptOf
<1>3. \A c : /\ Contains(chunks, c) <=> c \in ToSet(chunks)
             /\ Contains(kept, c) <=> c \in ToSet(kept)
  BY <1>2 DEF Contains, ToSet
<1>4. cap \in [Chunks -> Nat]
  BY DEF Types
<1> QED
  BY <1>1, <1>2, <1>3, <1>4

(* What happens to a frame *)
WithList(fr, l) == [fr EXCEPT !.lists = <<l>> \o @]
WithMark(fr, mark) == [fr EXCEPT !.marks = Append(@, mark)]
OutOfLoop(fr) == [fr EXCEPT !.marks = Front(@)]
Rewound(fr) ==
  LET mark == fr.marks[Len(fr.marks)]
  IN  [fr EXCEPT !.marks = Front(@),
                 !.lists = SubSeq(@, Len(fr.lists) - mark.lists + 1, Len(@)),
                 !.objects = SubSeq(@, 1, mark.objects)]

(* A rewind is to the last mark of the frame of the function that runs. *)
LEMMA RewindStep ==
  ASSUME Types, Rewind
  PROVE  LET f == stack[Top]
             mark == f.marks[Len(f.marks)]
         IN  /\ Top \in DOMAIN stack /\ Top > 1 /\ f \in Frame
             /\ Len(f.marks) \in DOMAIN f.marks
             /\ lists' = Freed(SubSeq(f.lists, 1, Len(f.lists) - mark.lists))
             /\ used' = [c \in Chunks |-> IF c \in NewerChunks(f, mark) THEN 0
                                          ELSE IF c = mark.chunk THEN mark.used
                                          ELSE used[c]]
             /\ stack' = [stack EXCEPT ![Top] = Rewound(f)]
             /\ UNCHANGED <<cap, pool, phase, parked>>
<1>1. Top > 1 /\ Top \in Nat /\ stack \in Seq(Frame)
  BY DEF Rewind, Types, Top
<1>2. Top \in DOMAIN stack /\ stack[Top] \in Frame
  BY <1>1 DEF Top
<1>3. stack[Top].marks # <<>>
  BY DEF Rewind
<1>4. Len(stack[Top].marks) \in DOMAIN stack[Top].marks
  BY <1>2, <1>3 DEF Frame
<1>5. Last(stack[Top].marks) = stack[Top].marks[Len(stack[Top].marks)]
  BY DEF Last
<1>6. stack' = [stack EXCEPT
                   ![Top].marks = Front(@),
                   ![Top].lists = SubSeq(@, Len(stack[Top].lists) - Last(stack[Top].marks).lists + 1, Len(@)),
                   ![Top].objects = SubSeq(@, 1, Last(stack[Top].marks).objects)]
  BY DEF Rewind
<1>7. stack' = [stack EXCEPT ![Top] =
                  [stack[Top] EXCEPT !.marks = Front(@),
                            !.lists = SubSeq(@, Len(stack[Top].lists) - Last(stack[Top].marks).lists + 1, Len(@)),
                            !.objects = SubSeq(@, 1, Last(stack[Top].marks).objects)]]
  BY <1>1, <1>2, <1>6
<1> QED
  BY <1>1, <1>2, <1>4, <1>5, <1>7 DEF Rewind, Rewound

LEMMA FrontOf ==
  ASSUME NEW S, NEW s \in Seq(S), s # <<>>
  PROVE  /\ Front(s) \in Seq(S) /\ Len(Front(s)) = Len(s) - 1 /\ DOMAIN Front(s) = 1 .. (Len(s) - 1)
         /\ \A i \in 1 .. (Len(s) - 1) : i \in DOMAIN s /\ Front(s)[i] = s[i]
<1>1. Len(s) \in Nat \ {0} /\ Len(s) - 1 \in 0 .. Len(s) /\ DOMAIN s = 1 .. Len(s)
  OBVIOUS
<1>2. /\ SubSeq(s, 1, Len(s) - 1) \in Seq(S) /\ Len(SubSeq(s, 1, Len(s) - 1)) = Len(s) - 1
      /\ \A i \in 1 .. (Len(s) - 1) : SubSeq(s, 1, Len(s) - 1)[i] = s[i]
  BY <1>1, CutOf
<1>3. DOMAIN SubSeq(s, 1, Len(s) - 1) = 1 .. (Len(s) - 1)
  BY <1>2
<1> QED
  BY <1>1, <1>2, <1>3 DEF Front

LEMMA MarkTyped ==
  ASSUME NEW fr \in Frame, NEW m \in DOMAIN fr.marks
  PROVE  /\ fr.marks[m].lists \in Nat /\ fr.marks[m].objects \in Nat /\ fr.marks[m].used \in Nat
         /\ fr.marks[m].chunk \in Chunks \cup {None}
         /\ m \in 1 .. Len(fr.marks) /\ Len(fr.marks) \in Nat
<1> DEFINE R == [chunk : Chunks \cup {None}, used : Nat, lists : Nat, objects : Nat]
<1>1. fr.marks \in Seq(R)
  BY DEF Frame
<1> HIDE DEF R
<1>2. fr.marks[m] \in R /\ m \in 1 .. Len(fr.marks) /\ Len(fr.marks) \in Nat
  BY <1>1
<1> QED
  BY <1>2 DEF R

LEMMA WithObjectMarked ==
  ASSUME NEW fr \in Frame, NEW c \in Chunks, NEW at \in Nat, NEW size \in Nat, Marked(fr)
  PROVE  Marked(WithObject(fr, c, at, size))
<1> DEFINE g == WithObject(fr, c, at, size)
<1>1. /\ g.marks = fr.marks /\ g.lists = fr.lists
      /\ g.objects = Append(fr.objects, [chunk |-> c, at |-> at, size |-> size])
      /\ g.chunks = IF c \in ToSet(fr.chunks) THEN fr.chunks ELSE <<c>> \o fr.chunks
  BY WithObjectTyped
<1> HIDE DEF g
<1>2. Len(g.objects) = Len(fr.objects) + 1 /\ Len(fr.objects) \in Nat
  BY <1>1 DEF Frame
<1>3. ToSet(fr.chunks) \subseteq ToSet(g.chunks)
  BY <1>1, ConsOf DEF Frame
<1> SUFFICES ASSUME NEW m \in DOMAIN fr.marks
             PROVE  fr.marks[m].objects <= Len(g.objects) /\ fr.marks[m].chunk \in ToSet(g.chunks) \cup {None}
  BY <1>1 DEF Marked, g
<1> QED
  BY <1>2, <1>3, MarkTyped DEF Marked

LEMMA WithListTyped ==
  ASSUME NEW fr \in Frame, NEW l \in Nat
  PROVE  /\ WithList(fr, l) \in Frame /\ WithList(fr, l).chunks = fr.chunks
         /\ WithList(fr, l).objects = fr.objects /\ WithList(fr, l).marks = fr.marks
         /\ WithList(fr, l).lists = <<l>> \o fr.lists
         /\ Marked(fr) => Marked(WithList(fr, l))
<1>1. <<l>> \o fr.lists \in Seq(Nat) /\ Len(<<l>> \o fr.lists) = 1 + Len(fr.lists) /\ Len(fr.lists) \in Nat
  BY DEF Frame
<1>2. /\ WithList(fr, l) \in Frame /\ WithList(fr, l).chunks = fr.chunks
      /\ WithList(fr, l).objects = fr.objects /\ WithList(fr, l).marks = fr.marks
      /\ WithList(fr, l).lists = <<l>> \o fr.lists
  BY <1>1 DEF WithList, Frame
<1>3. ASSUME Marked(fr) PROVE Marked(WithList(fr, l))
  <2> SUFFICES ASSUME NEW m \in DOMAIN fr.marks
               PROVE  fr.marks[m].lists <= Len(<<l>> \o fr.lists)
    BY <1>2, <1>3 DEF Marked
  <2> QED
    BY <1>1, <1>3, MarkTyped DEF Marked
<1> QED
  BY <1>2, <1>3

LEMMA WithMarkTyped ==
  ASSUME NEW fr \in Frame,
         NEW mark \in [chunk : Chunks \cup {None}, used : Nat, lists : Nat, objects : Nat]
  PROVE  /\ WithMark(fr, mark) \in Frame /\ WithMark(fr, mark).chunks = fr.chunks
         /\ WithMark(fr, mark).objects = fr.objects /\ WithMark(fr, mark).lists = fr.lists
         /\ WithMark(fr, mark).marks = Append(fr.marks, mark)
         /\ /\ Marked(fr) /\ mark.lists = Len(fr.lists) /\ mark.objects = Len(fr.objects)
            /\ mark.chunk \in ToSet(fr.chunks) \cup {None}
            => Marked(WithMark(fr, mark))
<1> DEFINE t == Append(fr.marks, mark)
           n == Len(fr.marks)
<1>1. t \in Seq([chunk : Chunks \cup {None}, used : Nat, lists : Nat, objects : Nat])
  BY DEF Frame
<1>2. /\ Len(t) = n + 1 /\ t[n + 1] = mark /\ n \in Nat
      /\ \A m \in 1 .. n : m \in DOMAIN fr.marks /\ t[m] = fr.marks[m]
  <2>1. fr.marks \in Seq([chunk : Chunks \cup {None}, used : Nat, lists : Nat, objects : Nat])
    BY DEF Frame
  <2>2. DOMAIN fr.marks = 1 .. n /\ n \in Nat
    BY <2>1
  <2> QED
    BY <2>1, <2>2
<1>3. DOMAIN t = 1 .. (n + 1)
  <2>1. DOMAIN t = 1 .. Len(t)
    BY <1>1
  <2> QED
    BY <1>2, <2>1
<1>4. /\ WithMark(fr, mark) \in Frame /\ WithMark(fr, mark).chunks = fr.chunks
      /\ WithMark(fr, mark).objects = fr.objects /\ WithMark(fr, mark).lists = fr.lists
      /\ WithMark(fr, mark).marks = t
  BY <1>1 DEF WithMark, Frame
<1> HIDE DEF t
<1>5. ASSUME Marked(fr), mark.lists = Len(fr.lists), mark.objects = Len(fr.objects),
             mark.chunk \in ToSet(fr.chunks) \cup {None}
      PROVE  Marked(WithMark(fr, mark))
  <2>1. Len(fr.lists) \in Nat /\ Len(fr.objects) \in Nat
    BY DEF Frame
  <2> SUFFICES ASSUME NEW m \in DOMAIN t
               PROVE  /\ t[m].lists <= Len(fr.lists) /\ t[m].objects <= Len(fr.objects)
                      /\ t[m].chunk \in ToSet(fr.chunks) \cup {None}
                      /\ \A l \in m .. (n + 1) : t[m].lists <= t[l].lists /\ t[m].objects <= t[l].objects
    BY <1>2, <1>4 DEF Marked
  <2>2. CASE m = n + 1
    <3>1. \A l \in m .. (n + 1) : l = m
      BY <1>2, <2>2
    <3> QED
      BY <1>2, <1>5, <2>1, <2>2, <3>1
  <2>3. CASE m # n + 1
    <3>1. m \in 1 .. n /\ m \in DOMAIN fr.marks /\ t[m] = fr.marks[m]
      BY <1>2, <1>3, <2>3
    <3>2. t[m].lists \in Nat /\ t[m].objects \in Nat
      BY <3>1, MarkTyped
    <3>3. /\ t[m].lists <= Len(fr.lists) /\ t[m].objects <= Len(fr.objects)
          /\ t[m].chunk \in ToSet(fr.chunks) \cup {None}
          /\ \A l \in m .. n : t[m].lists <= fr.marks[l].lists /\ t[m].objects <= fr.marks[l].objects
      BY <1>5, <3>1 DEF Marked
    <3>4. ASSUME NEW l \in m .. (n + 1)
          PROVE  t[m].lists <= t[l].lists /\ t[m].objects <= t[l].objects
      <4>1. CASE l = n + 1
        BY <1>2, <1>5, <2>1, <3>3, <4>1
      <4>2. CASE l # n + 1
        <5>1. l \in m .. n /\ l \in 1 .. n
          BY <1>2, <3>1, <4>2
        <5> QED
          BY <1>2, <3>3, <5>1
      <4> QED
        BY <4>1, <4>2
    <3> QED
      BY <3>3, <3>4
  <2> QED
    BY <2>2, <2>3
<1> QED
  BY <1>4, <1>5 DEF t

LEMMA OutOfLoopTyped ==
  ASSUME NEW fr \in Frame, fr.marks # <<>>
  PROVE  /\ OutOfLoop(fr) \in Frame /\ OutOfLoop(fr).chunks = fr.chunks
         /\ OutOfLoop(fr).objects = fr.objects /\ OutOfLoop(fr).lists = fr.lists
         /\ DOMAIN OutOfLoop(fr).marks = 1 .. (Len(fr.marks) - 1)
         /\ \A m \in 1 .. (Len(fr.marks) - 1) : m \in DOMAIN fr.marks /\ OutOfLoop(fr).marks[m] = fr.marks[m]
         /\ Marked(fr) => Marked(OutOfLoop(fr))
<1> DEFINE R == [chunk : Chunks \cup {None}, used : Nat, lists : Nat, objects : Nat]
           t == Front(fr.marks)
           n == Len(fr.marks)
<1>1. fr.marks \in Seq(R)
  BY DEF Frame
<1> HIDE DEF R
<1>2. /\ t \in Seq(R) /\ Len(t) = n - 1 /\ DOMAIN t = 1 .. (n - 1)
      /\ \A m \in 1 .. (n - 1) : m \in DOMAIN fr.marks /\ t[m] = fr.marks[m]
  BY <1>1, FrontOf
<1> USE DEF R
<1>3. /\ OutOfLoop(fr) \in Frame /\ OutOfLoop(fr).chunks = fr.chunks
      /\ OutOfLoop(fr).objects = fr.objects /\ OutOfLoop(fr).lists = fr.lists
      /\ OutOfLoop(fr).marks = t
  BY <1>2 DEF OutOfLoop, Frame
<1> HIDE DEF t, R
<1>4. ASSUME Marked(fr) PROVE Marked(OutOfLoop(fr))
  <2>1. n \in Nat
    BY <1>1
  <2>2. \A m \in 1 .. (n - 1) : \A l \in m .. (n - 1) : l \in m .. n /\ t[l] = fr.marks[l]
    BY <1>2, <2>1
  <2> QED
    BY <1>2, <1>3, <1>4, <2>2 DEF Marked
<1> QED
  BY <1>2, <1>3, <1>4

LEMMA RewoundTyped ==
  ASSUME NEW fr \in Frame, fr.marks # <<>>, Marked(fr)
  PROVE  LET n == Len(fr.marks)
             mark == fr.marks[n]
             k == Len(fr.lists) - mark.lists
         IN  /\ n \in DOMAIN fr.marks /\ mark.objects \in 0 .. Len(fr.objects)
             /\ k \in 0 .. Len(fr.lists)
             /\ Rewound(fr) \in Frame /\ Rewound(fr).chunks = fr.chunks
             /\ Rewound(fr).objects = SubSeq(fr.objects, 1, mark.objects)
             /\ Rewound(fr).lists = SubSeq(fr.lists, k + 1, Len(fr.lists))
             /\ DOMAIN Rewound(fr).marks = 1 .. (n - 1)
             /\ \A m \in 1 .. (n - 1) : m \in DOMAIN fr.marks /\ Rewound(fr).marks[m] = fr.marks[m]
             /\ Marked(Rewound(fr))
<1> DEFINE n == Len(fr.marks)
           mark == fr.marks[n]
           k == Len(fr.lists) - mark.lists
           out == OutOfLoop(fr)
           objects == SubSeq(fr.objects, 1, mark.objects)
           left == SubSeq(fr.lists, k + 1, Len(fr.lists))
<1>1. n \in DOMAIN fr.marks
  BY DEF Frame
<1>2. /\ mark.lists \in Nat /\ mark.objects \in Nat /\ n \in Nat
      /\ mark.lists <= Len(fr.lists) /\ mark.objects <= Len(fr.objects)
  BY <1>1, MarkTyped DEF Marked
<1>3. Len(fr.lists) \in Nat /\ Len(fr.objects) \in Nat
  BY DEF Frame
<1>4. mark.objects \in 0 .. Len(fr.objects) /\ k \in 0 .. Len(fr.lists) /\ Len(fr.lists) - k = mark.lists
  BY <1>2, <1>3
<1>5. /\ out \in Frame /\ out.chunks = fr.chunks /\ DOMAIN out.marks = 1 .. (n - 1)
      /\ \A m \in 1 .. (n - 1) : m \in DOMAIN fr.marks /\ out.marks[m] = fr.marks[m]
      /\ out.marks = Front(fr.marks) /\ Marked(out)
  BY OutOfLoopTyped DEF OutOfLoop, Frame
<1>6. /\ objects \in Seq([chunk : Chunks, at : Nat, size : Nat]) /\ Len(objects) = mark.objects
      /\ left \in Seq(Nat) /\ Len(left) = mark.lists
  <2> DEFINE R == [chunk : Chunks, at : Nat, size : Nat]
  <2>1. fr.objects \in Seq(R) /\ fr.lists \in Seq(Nat)
    BY DEF Frame
  <2> HIDE DEF k, mark, R
  <2>2. objects \in Seq(R) /\ Len(objects) = mark.objects
    BY <1>4, <2>1, CutOf
  <2>3. left \in Seq(Nat) /\ Len(left) = Len(fr.lists) - k
    <3> DEFINE s == fr.lists
    <3>1. s \in Seq(Nat) /\ k \in 0 .. Len(s)
      BY <1>4, <2>1
    <3> HIDE DEF s
    <3>2. /\ SubSeq(s, k + 1, Len(s)) \in Seq(Nat)
          /\ Len(SubSeq(s, k + 1, Len(s))) = Len(s) - k
      BY <3>1, CutOf
    <3> QED
      BY <3>2 DEF s
  <2>4. Len(left) = mark.lists
    BY <1>4, <2>3
  <2> HIDE DEF objects, left
  <2> QED
    BY <2>2, <2>3, <2>4 DEF R
<1> HIDE DEF k, out, objects, left
<1>7. Rewound(fr) = [fr EXCEPT !.marks = out.marks, !.lists = left, !.objects = objects]
  BY <1>5 DEF Rewound, objects, left, k
<1>8. /\ Rewound(fr) \in Frame /\ Rewound(fr).chunks = fr.chunks /\ Rewound(fr).objects = objects
      /\ Rewound(fr).lists = left /\ Rewound(fr).marks = out.marks
  BY <1>5, <1>6, <1>7 DEF Frame
<1>9. Marked(Rewound(fr))
  <2>1. Len(out.marks) = n - 1
    BY <1>2, <1>5 DEF Frame
  <2>2. ASSUME NEW m \in 1 .. (n - 1)
        PROVE  /\ out.marks[m].lists <= mark.lists /\ out.marks[m].objects <= mark.objects
               /\ out.marks[m].chunk \in ToSet(fr.chunks) \cup {None}
    <3>1. m \in DOMAIN fr.marks /\ n \in m .. n
      BY <1>2, <1>5
    <3> QED
      BY <1>5, <3>1 DEF Marked
  <2> QED
    BY <1>5, <1>6, <1>8, <2>1, <2>2 DEF Marked
<1> QED
  BY <1>1, <1>4, <1>5, <1>8, <1>9 DEF k, objects, left

----------------------------------------------------------------------------
(* The frames that live, by their numbers, and what a change of the stack  *)
(* does to them                                                            *)

Frames == [f \in Live |-> FrameAt(f)]

LEMMA FramesAre ==
  ASSUME Types
  PROVE  /\ DOMAIN Frames = Live /\ Live \subseteq Nat
         /\ \A f \in Live : Frames[f] \in Frame /\ Frames[f] = FrameAt(f)
         /\ DOMAIN stack = 1 .. Top /\ Top \in Nat
         /\ \A f \in DOMAIN stack : f \in Live /\ f # 0 /\ Frames[f] = stack[f]
         /\ 0 \in Live <=> parked # None
         /\ 0 \in Live => Frames[0] = parked
<1>1. stack \in Seq(Frame) /\ parked \in Frame \cup {None}
  BY DEF Types
<1>2. DOMAIN stack = 1 .. Top /\ Top \in Nat /\ \A f \in DOMAIN stack : stack[f] \in Frame
  BY <1>1 DEF Top
<1> QED
  BY <1>1, <1>2 DEF Frames, Live, FrameAt

LEMMA FrameChanged ==
  ASSUME Types, NEW f \in DOMAIN stack, NEW fr,
         stack' = [stack EXCEPT ![f] = fr], UNCHANGED parked
  PROVE  Frames' = Put(Frames, f, fr) /\ Live' = Live
<1>1. /\ DOMAIN stack' = DOMAIN stack /\ f # 0 /\ f \in Live
      /\ \A g \in DOMAIN stack : stack'[g] = IF g = f THEN fr ELSE stack[g]
  BY FramesAre DEF Types
<1>2. Live' = Live
  BY <1>1 DEF Live
<1>3. \A g \in Live : FrameAt(g)' = IF g = f THEN fr ELSE FrameAt(g)
  BY <1>1 DEF FrameAt, Live
<1> QED
  BY <1>1, <1>2, <1>3 DEF Frames, Put

LEMMA FramePushed ==
  ASSUME Types, NEW fr, stack' = Append(stack, fr), UNCHANGED parked
  PROVE  Frames' = Put(Frames, Top + 1, fr) /\ Live' = Live \cup {Top + 1} /\ Top + 1 \notin Live
<1>1. stack \in Seq(Frame) /\ Top \in Nat /\ DOMAIN stack = 1 .. Top
  BY FramesAre DEF Types
<1>2. DOMAIN stack' = 1 .. (Top + 1) /\ stack'[Top + 1] = fr /\ \A g \in 1 .. Top : stack'[g] = stack[g]
  BY <1>1 DEF Top
<1>3. 1 .. (Top + 1) = 1 .. Top \cup {Top + 1} /\ Top + 1 \notin 1 .. Top /\ Top + 1 # 0 /\ 0 \notin 1 .. Top
  BY <1>1
<1>4. Live' = Live \cup {Top + 1} /\ Top + 1 \notin Live
  BY <1>1, <1>2, <1>3 DEF Live
<1>5. \A g \in Live' : FrameAt(g)' = IF g = Top + 1 THEN fr ELSE FrameAt(g)
  BY <1>1, <1>2, <1>3, <1>4 DEF FrameAt, Live
<1> QED
  BY <1>4, <1>5 DEF Frames, Put

LEMMA FramePopped ==
  ASSUME Types, stack # <<>>, stack' = Front(stack), UNCHANGED parked
  PROVE  Frames' = Without(Frames, Top) /\ Live' = Live \ {Top} /\ Top \in Live /\ Top \in DOMAIN stack
<1>1. stack \in Seq(Frame) /\ Top \in Nat \ {0} /\ DOMAIN stack = 1 .. Top
  BY FramesAre DEF Types, Top
<1>2. DOMAIN stack' = 1 .. (Top - 1) /\ \A g \in 1 .. (Top - 1) : stack'[g] = stack[g]
  BY <1>1, FrontOf DEF Top
<1>3. 1 .. (Top - 1) = (1 .. Top) \ {Top} /\ 0 \notin 1 .. Top /\ Top # 0 /\ Top \in 1 .. Top
  BY <1>1
<1>4. Live' = Live \ {Top} /\ Top \in Live
  BY <1>1, <1>2, <1>3 DEF Live
<1>5. \A g \in Live' : FrameAt(g)' = FrameAt(g)
  BY <1>1, <1>2, <1>3, <1>4 DEF FrameAt, Live
<1> QED
  BY <1>1, <1>3, <1>4, <1>5 DEF Frames, Without

LEMMA FrameParked ==
  ASSUME Types, Top = 1, parked = None, stack' = <<>>, parked' = stack[1]
  PROVE  /\ Frames' = Put(Without(Frames, 1), 0, Frames[1])
         /\ Live = {1} /\ Live' = {0} /\ 1 \in DOMAIN stack
<1>1. stack \in Seq(Frame) /\ DOMAIN stack = {1} /\ stack[1] \in Frame
  BY FramesAre DEF Types
<1>2. parked' # None
  BY <1>1, ArenaAssumption
<1>3. DOMAIN stack' = {}
  OBVIOUS
<1>4. Live = {1} /\ Live' = {0}
  BY <1>1, <1>2, <1>3 DEF Live
<1> QED
  BY <1>1, <1>4 DEF Frames, FrameAt, Put, Without

LEMMA FrameUnparked ==
  ASSUME Types, stack = <<>>, parked # None, stack' = <<parked>>, parked' = None
  PROVE  /\ Frames' = Put(Without(Frames, 0), 1, Frames[0])
         /\ Live = {0} /\ Live' = {1}
<1>1. DOMAIN stack = {} /\ DOMAIN stack' = {1} /\ stack'[1] = parked
  OBVIOUS
<1>2. Live = {0} /\ Live' = {1}
  BY <1>1 DEF Live
<1> QED
  BY <1>1, <1>2 DEF Frames, FrameAt, Put, Without

----------------------------------------------------------------------------
(* What each operation does to a frame *)

LEMMA TrackStep ==
  ASSUME Types, NEW f \in DOMAIN stack, TrackList(f)
  PROVE  /\ stack' = [stack EXCEPT ![f] = WithList(stack[f], Len(lists) + 1)]
         /\ lists' = Append(lists, 0) /\ UNCHANGED <<cap, used, pool, phase, parked>>
<1>1. lists \in Seq(Nat)
  BY DEF Types
<1>2. lists' = Append(lists, 0)
  BY DEF TrackList
<1>3. Len(lists') = Len(lists) + 1
  BY <1>1, <1>2
<1>4. stack' = [stack EXCEPT ![f] = [stack[f] EXCEPT !.lists = <<Len(lists')>> \o @]]
  BY DEF TrackList
<1> QED
  BY <1>2, <1>3, <1>4 DEF TrackList, WithList

LEMMA MarkStep ==
  ASSUME Types, MarkCurrent
  PROVE  \E mark \in [chunk : Chunks \cup {None}, used : Nat, lists : Nat, objects : Nat] :
           LET f == stack[Top] IN
           /\ Top \in DOMAIN stack /\ UNCHANGED <<cap, used, pool, phase, parked, lists>>
           /\ stack' = [stack EXCEPT ![Top] = WithMark(f, mark)]
           /\ mark.lists = Len(f.lists) /\ mark.objects = Len(f.objects)
           /\ \/ f.chunks = <<>> /\ mark.chunk = None
              \/ f.chunks # <<>> /\ mark.chunk = Head(f.chunks) /\ mark.used = used[Head(f.chunks)]
<1>1. Top > 1 /\ Top \in Nat /\ stack \in Seq(Frame)
  BY DEF MarkCurrent, Types, Top
<1>2. Top \in DOMAIN stack /\ stack[Top] \in Frame
  BY <1>1 DEF Top
<1> DEFINE f == stack[Top]
           chunk == IF f.chunks = <<>> THEN None ELSE Head(f.chunks)
           mark == [chunk |-> chunk, used |-> IF chunk = None THEN 0 ELSE used[chunk],
                    lists |-> Len(f.lists), objects |-> Len(f.objects)]
<1>3. /\ stack' = [stack EXCEPT ![Top].marks = Append(@, mark)]
      /\ UNCHANGED <<cap, used, pool, phase, parked, lists>>
  BY DEF MarkCurrent
<1>4. stack' = [stack EXCEPT ![Top] = WithMark(f, mark)]
  <2> HIDE DEF mark
  <2> QED
    BY <1>3 DEF WithMark
<1>5. f.chunks \in Seq(Chunks) /\ Len(f.lists) \in Nat /\ Len(f.objects) \in Nat
  BY <1>2 DEF Frame
<1>6. f.chunks # <<>> => /\ Head(f.chunks) \in Chunks /\ used[Head(f.chunks)] \in Nat
                         /\ Head(f.chunks) # None
  <2>1. used \in [Chunks -> Nat]
    BY DEF Types
  <2>2. f.chunks # <<>> => Head(f.chunks) \in Chunks
    <3> HIDE DEF f
    <3> QED
      BY <1>5
  <2> QED
    BY <2>1, <2>2, ArenaAssumption
<1> HIDE DEF f
<1>7. /\ chunk \in Chunks \cup {None} /\ (IF chunk = None THEN 0 ELSE used[chunk]) \in Nat
      /\ \/ f.chunks = <<>> /\ chunk = None
         \/ f.chunks # <<>> /\ chunk = Head(f.chunks) /\ chunk # None
  BY <1>6
<1>8. /\ mark \in [chunk : Chunks \cup {None}, used : Nat, lists : Nat, objects : Nat]
      /\ mark.lists = Len(f.lists) /\ mark.objects = Len(f.objects)
      /\ mark.chunk = chunk /\ (chunk # None => mark.used = used[chunk])
  <2> HIDE DEF chunk
  <2> QED
    BY <1>5, <1>7
<1> HIDE DEF chunk, mark
<1>9. \/ f.chunks = <<>> /\ mark.chunk = None
      \/ f.chunks # <<>> /\ mark.chunk = Head(f.chunks) /\ mark.used = used[Head(f.chunks)]
  BY <1>7, <1>8
<1> QED
  BY <1>2, <1>3, <1>4, <1>8, <1>9 DEF f

LEMMA BreakStep ==
  ASSUME Types, Break
  PROVE  /\ Top \in DOMAIN stack /\ stack[Top].marks # <<>>
         /\ stack' = [stack EXCEPT ![Top] = OutOfLoop(stack[Top])]
         /\ UNCHANGED <<cap, used, pool, phase, parked, lists>>
<1>1. Top > 1 /\ Top \in Nat /\ stack \in Seq(Frame)
  BY DEF Break, Types, Top
<1> QED
  BY <1>1 DEF Break, OutOfLoop, Top

(* The end of a frame: its chunks go, its lists are freed. *)
Ends(fr) == used' = Emptied(fr) /\ lists' = Freed(fr.lists) /\ stack' = Front(stack) /\ UNCHANGED parked

LEMMA EndStep ==
  ASSUME Types, Return \/ Respond \/ Release
  PROVE  stack # <<>> /\ Top \in DOMAIN stack /\ Ends(stack[Top]) /\ UNCHANGED phase
<1>1. stack \in Seq(Frame) /\ Top \in Nat /\ Top > 0
  BY DEF Types, Top, Return, Respond, Release
<1>2. Top = 1 => Front(stack) = <<>>
  BY <1>1 DEF Front, Top
<1> QED
  BY <1>1, <1>2 DEF Return, Respond, Release, Ends, Top

(* What a step may make of a frame *)
Grown(f, fr) ==
  \/ \E c \in Chunks, at \in Nat, size \in Nat : fr = WithObject(stack[f], c, at, size)
  \/ \E l \in Nat : fr = WithList(stack[f], l)
  \/ \E mark \in [chunk : Chunks \cup {None}, used : Nat, lists : Nat, objects : Nat] :
       /\ fr = WithMark(stack[f], mark)
       /\ mark.lists = Len(stack[f].lists) /\ mark.objects = Len(stack[f].objects)
       /\ mark.chunk \in ToSet(stack[f].chunks) \cup {None}
  \/ stack[f].marks # <<>> /\ fr = OutOfLoop(stack[f])
  \/ stack[f].marks # <<>> /\ fr = Rewound(stack[f])

Changes(f, fr) == stack' = [stack EXCEPT ![f] = fr] /\ UNCHANGED <<parked, phase>>

LEMMA GrownTyped ==
  ASSUME Types, NEW f \in DOMAIN stack, Marked(stack[f]), NEW fr, Grown(f, fr)
  PROVE  fr \in Frame /\ Marked(fr)
<1>1. stack[f] \in Frame
  BY FramesTyped
<1>2. CASE \E c \in Chunks, at \in Nat, size \in Nat : fr = WithObject(stack[f], c, at, size)
  <2>1. PICK c \in Chunks, at \in Nat, size \in Nat : fr = WithObject(stack[f], c, at, size)
    BY <1>2
  <2>2. WithObject(stack[f], c, at, size) \in Frame
    BY <1>1, WithObjectTyped
  <2>3. Marked(WithObject(stack[f], c, at, size))
    BY <1>1, WithObjectMarked
  <2> QED
    BY <2>1, <2>2, <2>3
<1>3. CASE \E l \in Nat : fr = WithList(stack[f], l)
  BY <1>1, <1>3, WithListTyped
<1>4. CASE \E mark \in [chunk : Chunks \cup {None}, used : Nat, lists : Nat, objects : Nat] :
             /\ fr = WithMark(stack[f], mark)
             /\ mark.lists = Len(stack[f].lists) /\ mark.objects = Len(stack[f].objects)
             /\ mark.chunk \in ToSet(stack[f].chunks) \cup {None}
  BY <1>1, <1>4, WithMarkTyped
<1>5. CASE stack[f].marks # <<>> /\ fr = OutOfLoop(stack[f])
  BY <1>1, <1>5, OutOfLoopTyped
<1>6. CASE stack[f].marks # <<>> /\ fr = Rewound(stack[f])
  BY <1>1, <1>6, RewoundTyped
<1> QED
  BY <1>2, <1>3, <1>4, <1>5, <1>6 DEF Grown

(* What a step does to the stack and to the parked frame *)
Moves ==
  \/ \E f \in DOMAIN stack : \E fr : Grown(f, fr) /\ Changes(f, fr)
  \/ stack' = Append(stack, NewFrame) /\ UNCHANGED parked
  \/ stack # <<>> /\ stack' = Front(stack) /\ UNCHANGED parked
  \/ Retained \/ Continue \/ UNCHANGED <<stack, parked>>

LEMMA MoveStep ==
  ASSUME Types, [Next]_vars
  PROVE  Moves
<1>1. ASSUME NEW f \in Own, TrackList(f) PROVE Moves
  <2>1. f \in DOMAIN stack /\ Len(lists) + 1 \in Nat
    BY DEF Own, Types
  <2> QED
    BY <1>1, <2>1, TrackStep DEF Moves, Grown, Changes
<1>2. ASSUME NEW f \in Own, NEW size \in Sizes, Alloc(f, size) PROVE Moves
  <2>1. f \in DOMAIN stack /\ size \in Nat
    BY ArenaAssumption DEF Own
  <2>2. PICK c \in Chunks, at \in Nat :
          /\ stack' = [stack EXCEPT ![f] = WithObject(stack[f], c, at, size)]
          /\ UNCHANGED <<phase, parked, lists>>
    BY <1>2, <2>1, AllocStep
  <2> QED
    BY <2>1, <2>2 DEF Moves, Grown, Changes
<1>3. CASE MarkCurrent
  <2>1. PICK mark \in [chunk : Chunks \cup {None}, used : Nat, lists : Nat, objects : Nat] :
           LET f == stack[Top] IN
           /\ Top \in DOMAIN stack /\ UNCHANGED <<cap, used, pool, phase, parked, lists>>
           /\ stack' = [stack EXCEPT ![Top] = WithMark(f, mark)]
           /\ mark.lists = Len(f.lists) /\ mark.objects = Len(f.objects)
           /\ \/ f.chunks = <<>> /\ mark.chunk = None
              \/ f.chunks # <<>> /\ mark.chunk = Head(f.chunks) /\ mark.used = used[Head(f.chunks)]
    BY <1>3, MarkStep
  <2>2. stack[Top].chunks \in Seq(Chunks)
    BY <2>1, FramesTyped
  <2>3. mark.chunk \in ToSet(stack[Top].chunks) \cup {None}
    BY <2>1, <2>2 DEF ToSet
  <2> QED
    BY <2>1, <2>3 DEF Moves, Grown, Changes
<1>4. CASE Break
  BY <1>4, BreakStep DEF Moves, Grown, Changes
<1>5. CASE Rewind
  <2>1. stack[Top].marks # <<>>
    BY <1>5 DEF Rewind
  <2> QED
    BY <1>5, <2>1, RewindStep DEF Moves, Grown, Changes
<1>6. CASE Call \/ Dispatch
  <2>1. Append(<<>>, NewFrame) = <<NewFrame>>
    OBVIOUS
  <2> QED
    BY <1>6, <2>1 DEF Call, Dispatch, Moves
<1>7. CASE Return \/ Respond \/ Release
  BY <1>7, EndStep DEF Moves, Ends
<1>8. CASE Park \/ Retained \/ Continue \/ UNCHANGED vars
  BY <1>8 DEF Park, vars, Moves
<1> QED
  BY <1>1, <1>2, <1>3, <1>4, <1>5, <1>6, <1>7, <1>8 DEF Next

----------------------------------------------------------------------------
(* Types, marks and phases are kept. *)

LEMMA PoolTaken ==
  ASSUME Types, NEW i \in DOMAIN pool[Ctx], pool' = [pool EXCEPT ![Ctx] = RemoveAt(pool[Ctx], i)]
  PROVE  /\ pool[Ctx] \in Seq(Chunks) /\ pool'[Ctx] = RemoveAt(pool[Ctx], i)
         /\ RemoveAt(pool[Ctx], i) \in Seq(Chunks)
         /\ pool' \in [worker : Seq(Chunks), park : Seq(Chunks)]
         /\ phase = "handler" => pool'.park = pool.park /\ pool'.worker = RemoveAt(pool[Ctx], i)
         /\ phase # "handler" => pool'.worker = pool.worker /\ pool'.park = RemoveAt(pool[Ctx], i)
<1>1. pool[Ctx] \in Seq(Chunks) /\ pool \in [worker : Seq(Chunks), park : Seq(Chunks)]
  BY DEF Types, Ctx
<1>2. RemoveAt(pool[Ctx], i) \in Seq(Chunks)
  BY <1>1, RemoveAtOf
<1> DEFINE r == RemoveAt(pool[Ctx], i)
<1> HIDE DEF r
<1>3. pool' = [pool EXCEPT ![Ctx] = r] /\ r \in Seq(Chunks)
  BY <1>2 DEF r
<1>4. CASE phase = "handler"
  BY <1>1, <1>3, <1>4 DEF Ctx, r
<1>5. CASE phase # "handler"
  BY <1>1, <1>3, <1>5 DEF Ctx, r
<1> QED
  BY <1>4, <1>5

LEMMA PoolFilled ==
  ASSUME Types, Return
  PROVE  /\ pool' \in [worker : Seq(Chunks), park : Seq(Chunks)]
         /\ phase = "handler" => pool'.park = pool.park /\ pool'.worker = Pooled(stack[Top])
         /\ phase # "handler" => pool'.worker = pool.worker /\ pool'.park = Pooled(stack[Top])
<1>1. stack[Top] \in Frame
  BY EndStep, FramesTyped
<1> DEFINE r == Pooled(stack[Top])
<1>2. r \in Seq(Chunks) /\ pool \in [worker : Seq(Chunks), park : Seq(Chunks)]
  BY <1>1, EmptiedTyped DEF Types
<1>3. pool' = [pool EXCEPT ![Ctx] = r]
  BY DEF Return
<1> HIDE DEF r
<1>4. CASE phase = "handler"
  BY <1>2, <1>3, <1>4 DEF Ctx, r
<1>5. CASE phase # "handler"
  BY <1>2, <1>3, <1>5 DEF Ctx, r
<1> QED
  BY <1>4, <1>5

(* What a request that ends gives back *)
LEMMA GivenBack ==
  ASSUME Types, Respond \/ Release
  PROVE  \E chunks, others \in Seq(Chunks) :
           /\ Trim(chunks, others) /\ Top = 1 /\ 1 \in DOMAIN stack /\ stack' = <<>>
           /\ Respond => /\ others = pool.park /\ phase = "handler"
                         /\ chunks = Pooled(stack[1])
           /\ Release => /\ others = <<>> /\ phase = "continue"
                         /\ chunks = Reverse(Pooled(stack[1])) \o pool.worker
<1>1. Top = 1 /\ 1 \in DOMAIN stack /\ stack[1] \in Frame /\ stack' = <<>>
  BY EndStep, FramesTyped DEF Respond, Release
<1>2. Pooled(stack[1]) \in Seq(Chunks) /\ pool.worker \in Seq(Chunks) /\ pool.park \in Seq(Chunks)
  BY <1>1, EmptiedTyped DEF Types
<1>3. Reverse(Pooled(stack[1])) \o pool.worker \in Seq(Chunks)
  BY <1>2, ReverseOf, JoinOf
<1>4. CASE Respond
  <2>1. ~Release
    BY <1>4 DEF Respond, Release
  <2> QED
    BY <1>1, <1>2, <1>4, <2>1 DEF Respond
<1>5. CASE Release
  <2>1. ~Respond
    BY <1>5 DEF Respond, Release
  <2>2. <<>> \in Seq(Chunks)
    OBVIOUS
  <2> QED
    BY <1>1, <1>3, <1>5, <2>1, <2>2 DEF Release
<1> QED
  BY <1>4, <1>5

LEMMA StackStep ==
  ASSUME Types, Nested, Phases, [Next]_vars
  PROVE  stack' \in Seq(Frame) /\ parked' \in Frame \cup {None} /\ Nested'
<1>1. stack \in Seq(Frame) /\ parked \in Frame \cup {None} /\ Moves
  BY MoveStep DEF Types
<1>2. \A f \in Live : Marked(Frames[f]) /\ Frames[f] \in Frame
  BY FramesAre DEF Nested
<1>3. ASSUME \A f \in Live' : Marked(Frames'[f]) PROVE Nested'
  BY <1>3 DEF Nested, Frames, Marked
<1>4. CASE \E f \in DOMAIN stack : \E fr : Grown(f, fr) /\ Changes(f, fr)
  <2>6. PICK f \in DOMAIN stack : \E fr : Grown(f, fr) /\ Changes(f, fr)
    BY <1>4
  <2>1. PICK fr : Grown(f, fr) /\ Changes(f, fr)
    BY <2>6
  <2>2. f \in Live /\ Frames[f] = stack[f]
    BY FramesAre
  <2>3. fr \in Frame /\ Marked(fr)
    BY <1>2, <2>1, <2>2, GrownTyped
  <2>4. Frames' = Put(Frames, f, fr) /\ Live' = Live
    BY <2>1, FrameChanged DEF Changes
  <2>5. \A g \in Live' : Marked(Frames'[g])
    BY <1>2, <2>3, <2>4, FramesAre DEF Put
  <2> QED
    BY <1>1, <1>3, <2>1, <2>3, <2>5 DEF Changes
<1>5. CASE stack' = Append(stack, NewFrame) /\ UNCHANGED parked
  <2>1. Frames' = Put(Frames, Top + 1, NewFrame) /\ Live' = Live \cup {Top + 1}
    BY <1>5, FramePushed
  <2>2. \A g \in Live' : Marked(Frames'[g])
    BY <1>2, <2>1, NewFrameTyped, FramesAre DEF Put
  <2> QED
    BY <1>1, <1>3, <1>5, <2>2, NewFrameTyped
<1>6. CASE stack # <<>> /\ stack' = Front(stack) /\ UNCHANGED parked
  <2>1. Frames' = Without(Frames, Top) /\ Live' = Live \ {Top}
    BY <1>6, FramePopped
  <2>2. \A g \in Live' : Marked(Frames'[g])
    BY <1>2, <2>1, FramesAre DEF Without
  <2> QED
    BY <1>1, <1>3, <1>6, <2>2, FrontOf
<1>7. CASE Retained
  <2>1. Top = 1 /\ parked = None /\ stack' = <<>> /\ parked' = stack[1]
    BY <1>7 DEF Retained, Phases
  <2>2. Frames' = Put(Without(Frames, 1), 0, Frames[1]) /\ Live = {1} /\ Live' = {0} /\ 1 \in DOMAIN stack
    BY <2>1, FrameParked
  <2>3. \A g \in Live' : Marked(Frames'[g])
    BY <1>2, <2>2, FramesAre DEF Put, Without
  <2> QED
    BY <1>1, <1>3, <2>1, <2>2, <2>3, FramesTyped
<1>8. CASE Continue
  <2>1. Frames' = Put(Without(Frames, 0), 1, Frames[0]) /\ Live = {0} /\ Live' = {1}
    BY <1>8, FrameUnparked DEF Continue
  <2>2. \A g \in Live' : Marked(Frames'[g])
    BY <1>2, <2>1, FramesAre DEF Put, Without
  <2> QED
    BY <1>1, <1>3, <1>8, <2>2 DEF Continue
<1>9. CASE UNCHANGED <<stack, parked>>
  BY <1>1, <1>9 DEF Nested, Live, FrameAt, Marked
<1> QED
  BY <1>1, <1>4, <1>5, <1>6, <1>7, <1>8, <1>9 DEF Moves

LEMMA TypesStep ==
  ASSUME Types, Nested, Phases, [Next]_vars
  PROVE  Types'
<1>1. stack' \in Seq(Frame) /\ parked' \in Frame \cup {None}
  BY StackStep
<1>2. /\ cap \in [Chunks -> Nat] /\ used \in [Chunks -> Nat] /\ lists \in Seq(Nat)
      /\ pool \in [worker : Seq(Chunks), park : Seq(Chunks)]
      /\ phase \in {"handler", "retain", "continue"}
  BY DEF Types
<1>3. ASSUME NEW f \in Own, TrackList(f) PROVE Types'
  <2>1. f \in DOMAIN stack
    BY DEF Own
  <2>2. Append(lists, 0) \in Seq(Nat)
    BY <1>2
  <2> QED
    BY <1>1, <1>2, <1>3, <2>1, <2>2, TrackStep DEF Types
<1>4. ASSUME NEW f \in Own, NEW size \in Sizes, Alloc(f, size) PROVE Types'
  <2>1. f \in DOMAIN stack /\ size \in Nat
    BY ArenaAssumption DEF Own
  <2>2. PICK c \in Chunks, at \in Nat :
          /\ used' = [used EXCEPT ![c] = at + size]
          /\ UNCHANGED <<phase, lists>>
          /\ \/ UNCHANGED <<cap, pool>>
             \/ /\ UNCHANGED cap
                /\ \E i \in DOMAIN pool[Ctx] : pool' = [pool EXCEPT ![Ctx] = RemoveAt(pool[Ctx], i)]
             \/ UNCHANGED pool /\ \E n \in Nat \ {0} : cap' = [cap EXCEPT ![c] = n]
    BY <1>4, <2>1, AllocStep
  <2>3. used' \in [Chunks -> Nat]
    BY <1>2, <2>1, <2>2
  <2>4. cap' \in [Chunks -> Nat] /\ pool' \in [worker : Seq(Chunks), park : Seq(Chunks)]
    BY <1>2, <2>2, PoolTaken
  <2> QED
    BY <1>1, <1>2, <2>2, <2>3, <2>4 DEF Types
<1>5. CASE MarkCurrent
  BY <1>1, <1>2, <1>5, MarkStep DEF Types
<1>6. CASE Break
  BY <1>1, <1>2, <1>6, BreakStep DEF Types
<1>7. CASE Rewind
  <2> DEFINE f == stack[Top]
             mark == f.marks[Len(f.marks)]
  <2>1. /\ Top \in DOMAIN stack /\ f \in Frame /\ f.marks # <<>> /\ Len(f.marks) \in DOMAIN f.marks
        /\ lists' = Freed(SubSeq(f.lists, 1, Len(f.lists) - mark.lists))
        /\ used' = [c \in Chunks |-> IF c \in NewerChunks(f, mark) THEN 0
                                     ELSE IF c = mark.chunk THEN mark.used
                                     ELSE used[c]]
        /\ UNCHANGED <<cap, pool, phase>>
    BY <1>7, RewindStep DEF Rewind
  <2>2. mark.used \in Nat
    BY <2>1, MarkTyped
  <2>3. used' \in [Chunks -> Nat]
    <3> HIDE DEF mark, f
    <3> QED
      BY <1>2, <2>1, <2>2
  <2>4. lists' \in Seq(Nat)
    <3> DEFINE l == SubSeq(f.lists, 1, Len(f.lists) - mark.lists)
    <3> HIDE DEF l
    <3>1. lists' = Freed(l)
      BY <2>1 DEF l
    <3>2. Len(lists) \in Nat /\ DOMAIN lists = 1 .. Len(lists) /\ \A i \in 1 .. Len(lists) : lists[i] \in Nat
      BY <1>2
    <3> QED
      BY <3>1, <3>2 DEF Freed
  <2> QED
    BY <1>1, <1>2, <2>1, <2>3, <2>4 DEF Types
<1>8. CASE Call \/ Dispatch
  BY <1>1, <1>2, <1>8 DEF Call, Dispatch, Types
<1>9. CASE Return \/ Respond \/ Release
  <2>1. Top \in DOMAIN stack /\ Ends(stack[Top]) /\ UNCHANGED phase
    BY <1>9, EndStep
  <2>2. used' \in [Chunks -> Nat] /\ lists' \in Seq(Nat)
    BY <2>1, FramesTyped, EmptiedTyped DEF Ends
  <2>3. cap' \in [Chunks -> Nat] /\ pool' \in [worker : Seq(Chunks), park : Seq(Chunks)]
    <3>1. CASE Return
      BY <1>2, <3>1, PoolFilled DEF Return
    <3>2. CASE Respond \/ Release
      <4>1. PICK chunks, others \in Seq(Chunks) : Trim(chunks, others)
        BY <3>2, GivenBack
      <4>2. PICK kept \in Seq(Chunks) : pool' = [worker |-> kept, park |-> others] /\ cap' \in [Chunks -> Nat]
        BY <4>1, TrimStep
      <4> QED
        BY <4>1, <4>2
    <3> QED
      BY <1>9, <3>1, <3>2
  <2> QED
    BY <1>1, <1>2, <2>1, <2>2, <2>3 DEF Types
<1>10. CASE Park
  BY <1>1, <1>2, <1>10 DEF Park, Types
<1>11. CASE Retained \/ Continue \/ UNCHANGED vars
  BY <1>1, <1>2, <1>11 DEF Retained, Continue, vars, Types
<1> QED
  BY <1>3, <1>4, <1>5, <1>6, <1>7, <1>8, <1>9, <1>10, <1>11 DEF Next

(* Steps inside a request leave the stack as high as it was. *)
LEMMA InsideStep ==
  ASSUME Types, \/ \E f \in Own : TrackList(f) \/ \E size \in Sizes : Alloc(f, size)
                \/ MarkCurrent \/ Rewind \/ Break
  PROVE  stack # <<>> /\ stack' # <<>> /\ Top' = Top /\ UNCHANGED <<phase, parked>>
<1>1. \E f \in DOMAIN stack : \E fr : stack' = [stack EXCEPT ![f] = fr] /\ UNCHANGED <<phase, parked>>
  <2>1. ASSUME NEW f \in Own, TrackList(f) \/ \E size \in Sizes : Alloc(f, size)
        PROVE  \E fr : stack' = [stack EXCEPT ![f] = fr] /\ UNCHANGED <<phase, parked>>
    <3>1. f \in DOMAIN stack
      BY DEF Own
    <3>2. CASE TrackList(f)
      BY <3>1, <3>2, TrackStep
    <3>3. CASE \E size \in Sizes : Alloc(f, size)
      <4>1. PICK size \in Sizes : Alloc(f, size)
        BY <3>3
      <4>2. \E c \in Chunks, at \in Nat : /\ stack' = [stack EXCEPT ![f] = WithObject(stack[f], c, at, size)]
                                          /\ UNCHANGED <<phase, parked>>
        BY <3>1, <4>1, AllocStep
      <4> QED
        BY <4>2
    <3> QED
      BY <2>1, <3>2, <3>3
  <2>2. CASE MarkCurrent
    BY <2>2, MarkStep
  <2>3. CASE Rewind
    BY <2>3, RewindStep
  <2>4. CASE Break
    BY <2>4, BreakStep
  <2> QED
    BY <2>1, <2>2, <2>3, <2>4 DEF Own
<1>2. PICK f \in DOMAIN stack : \E fr : stack' = [stack EXCEPT ![f] = fr] /\ UNCHANGED <<phase, parked>>
  BY <1>1
<1>3. PICK fr : stack' = [stack EXCEPT ![f] = fr] /\ UNCHANGED <<phase, parked>>
  BY <1>2
<1>4. stack \in Seq(Frame) /\ DOMAIN stack = 1 .. Len(stack) /\ Len(stack) \in Nat
  BY DEF Types
<1>5. Len(stack') = Len(stack) /\ DOMAIN stack' = DOMAIN stack
  BY <1>3, <1>4
<1>6. stack # <<>> /\ stack' # <<>>
  BY <1>4, <1>5
<1> QED
  BY <1>3, <1>5, <1>6 DEF Top

(* Between requests the pool is trimmed. *)
LEMMA PhasesStep ==
  ASSUME Types, Phases, PoolBounded, [Next]_vars
  PROVE  Phases' /\ PoolBounded'
<1> USE DEF Phases, PoolBounded
<1>1. /\ cap \in [Chunks -> Nat] /\ pool \in [worker : Seq(Chunks), park : Seq(Chunks)]
      /\ phase \in {"handler", "retain", "continue"} /\ stack \in Seq(Frame) /\ Top \in Nat
      /\ stack = <<>> <=> Top = 0
  BY DEF Types, Top
<1>2. CASE \E f \in Own : TrackList(f)
  BY <1>1, <1>2, InsideStep DEF TrackList
<1>3. CASE MarkCurrent \/ Rewind \/ Break
  BY <1>1, <1>3, InsideStep DEF MarkCurrent, Rewind, Break
<1>4. CASE \E f \in Own : \E size \in Sizes : Alloc(f, size)
  <2>1. stack # <<>> /\ stack' # <<>> /\ Top' = Top /\ UNCHANGED <<phase, parked>>
    BY <1>4, InsideStep
  <2>2. pool' = pool \/ \E i \in DOMAIN pool[Ctx] : pool' = [pool EXCEPT ![Ctx] = RemoveAt(pool[Ctx], i)]
    <3>1. PICK f \in Own, size \in Sizes : Alloc(f, size)
      BY <1>4
    <3>2. f \in DOMAIN stack
      BY DEF Own
    <3> QED
      BY <3>1, <3>2, AllocStep
  <2>3. CASE pool' = pool
    BY <1>1, <2>1, <2>3
  <2>4. CASE \E i \in DOMAIN pool[Ctx] : pool' = [pool EXCEPT ![Ctx] = RemoveAt(pool[Ctx], i)]
    <3>1. PICK i \in DOMAIN pool[Ctx] : pool' = [pool EXCEPT ![Ctx] = RemoveAt(pool[Ctx], i)]
      BY <2>4
    <3>2. /\ phase = "handler" => pool'.park = pool.park
          /\ phase # "handler" => pool'.worker = pool.worker
      BY <3>1, PoolTaken
    <3> QED
      BY <1>1, <2>1, <3>2
  <2> QED
    BY <2>2, <2>3, <2>4
<1>5. CASE Call
  <2>1. stack' # <<>> /\ UNCHANGED <<pool, phase, parked>> /\ phase # "retain" /\ stack # <<>>
    <3>1. Append(stack, NewFrame) # <<>>
      <4> DEFINE s == Append(stack, NewFrame)
      <4>1. Len(s) = Len(stack) + 1 /\ Len(stack) \in Nat
        BY <1>1, NewFrameTyped
      <4>2. Len(<<>>) = 0
        OBVIOUS
      <4> HIDE DEF s
      <4>3. s # <<>>
        BY <4>1, <4>2
      <4> QED
        BY <4>3 DEF s
    <3> QED
      BY <1>5, <3>1 DEF Call
  <2> QED
    BY <1>1, <2>1
<1>6. CASE Dispatch
  BY <1>1, <1>6 DEF Dispatch
<1>7. CASE Return
  <2>1. Top > 1 /\ stack' = Front(stack) /\ stack # <<>> /\ UNCHANGED <<phase, parked>>
    BY <1>1, <1>7 DEF Return
  <2>2. Len(Front(stack)) = Top - 1
    BY <1>1, <2>1, FrontOf DEF Top
  <2>3. stack' # <<>> /\ phase # "retain"
    BY <1>1, <2>1, <2>2
  <2> QED
    BY <1>1, <1>7, <2>1, <2>3, PoolFilled
<1>8. CASE Respond \/ Release
  <2>1. PICK chunks, others \in Seq(Chunks) :
           /\ Trim(chunks, others) /\ Top = 1 /\ 1 \in DOMAIN stack /\ stack' = <<>>
           /\ Respond => others = pool.park /\ phase = "handler"
           /\ Release => others = <<>> /\ phase = "continue"
    BY <1>8, GivenBack
  <2>2. PICK kept \in Seq(Chunks) :
           /\ pool' = [worker |-> kept, park |-> others]
           /\ \A c \in Chunks :
                cap'[c] = IF c \in ToSet(chunks) /\ c \notin ToSet(kept) THEN 0 ELSE cap[c]
           /\ Len(kept) <= TrimKeep /\ \A i \in DOMAIN kept : cap[kept[i]] <= TrimCap
    BY <2>1, TrimStep
  <2>3. \A i \in DOMAIN kept : kept[i] \in Chunks /\ kept[i] \in ToSet(kept)
    BY DEF ToSet
  <2>4. UNCHANGED <<phase, parked>>
    BY <1>8 DEF Respond, Release
  <2>5. PoolBounded'
    BY <2>2, <2>3
  <2> QED
    BY <1>1, <1>8, <2>1, <2>2, <2>4, <2>5
<1>9. CASE Park
  BY <1>1, <1>9 DEF Park, Top
<1>10. CASE Retained
  BY <1>1, <1>10, FramesTyped, ArenaAssumption DEF Retained
<1>11. CASE Continue
  <2>1. <<parked>> # <<>>
    <3>1. Len(<<parked>>) = 1 /\ Len(<<>>) = 0
      OBVIOUS
    <3> QED
      BY <3>1
  <2>2. stack' # <<>> /\ parked' = None /\ phase' = "continue" /\ pool' = pool
    BY <1>11, <2>1 DEF Continue
  <2> QED
    BY <2>2
<1>12. CASE UNCHANGED vars
  BY <1>12 DEF vars, Top
<1> QED
  <2>1. CASE \E f \in Own : TrackList(f) \/ \E size \in Sizes : Alloc(f, size)
    <3>1. PICK f \in Own : TrackList(f) \/ \E size \in Sizes : Alloc(f, size)
      BY <2>1
    <3>2. (\E g \in Own : TrackList(g)) \/ (\E g \in Own : \E size \in Sizes : Alloc(g, size))
      BY <3>1, Zenon
    <3> QED
      BY <1>2, <1>4, <3>2, Zenon
  <2> QED
    BY <1>3, <1>5, <1>6, <1>7, <1>8, <1>9, <1>10, <1>11, <1>12, <2>1 DEF Next

LEMMA BaseInit == Init => Types /\ Nested /\ Phases /\ PoolBounded
<1> SUFFICES ASSUME Init PROVE Types /\ Nested /\ Phases /\ PoolBounded
  OBVIOUS
<1>1. Types
  BY DEF Init, Types
<1>2. Live = {}
  BY DEF Init, Live
<1>3. Phases /\ PoolBounded
  BY ArenaAssumption DEF Init, Phases, PoolBounded
<1> QED
  BY <1>1, <1>2, <1>3 DEF Nested

(* Between requests, however much memory the requests before needed, the   *)
(* worker keeps at most TrimKeep chunks, none of them above TrimCap.       *)
THEOREM PoolStaysSmall == Spec => []PoolBounded
<1> DEFINE Inv == Types /\ Nested /\ Phases /\ PoolBounded
<1>1. Init => Inv
  BY BaseInit
<1>2. Inv /\ [Next]_vars => Inv'
  BY TypesStep, StackStep, PhasesStep
<1> QED
  BY <1>1, <1>2, PTL DEF Spec

----------------------------------------------------------------------------
(* Tracked lists *)

LEMMA HeldMoved ==
  ASSUME NEW seqs, NEW S, HeldOnce(seqs, S), NEW p \in DOMAIN seqs, NEW q, q \notin DOMAIN seqs
  PROVE  HeldOnce(Put(Without(seqs, p), q, seqs[p]), S)
<1>1. HeldOnce(Without(seqs, p), S \ ToSet(seqs[p])) /\ q \notin DOMAIN Without(seqs, p)
  BY HeldWithout DEF Without
<1>2. IsInjective(seqs[p]) /\ ToSet(seqs[p]) \subseteq S
  BY DEF HeldOnce
<1>3. ToSet(seqs[p]) \cap (S \ ToSet(seqs[p])) = {}
  OBVIOUS
<1>4. HeldOnce(Put(Without(seqs, p), q, seqs[p]), (S \ ToSet(seqs[p])) \cup ToSet(seqs[p]))
  BY <1>1, <1>2, <1>3, HeldPut
<1>5. (S \ ToSet(seqs[p])) \cup ToSet(seqs[p]) = S
  BY <1>2
<1> QED
  BY <1>4, <1>5

LEMMA EmptyOf == IsInjective(<<>>) /\ ToSet(<<>>) = {}
  BY DEF IsInjective, ToSet

(* The lists of each frame, and those not freed yet *)
Lists == [f \in DOMAIN Frames |-> Frames[f].lists]
Unfreed == {l \in DOMAIN lists : lists[l] = 0}

ListInv == HeldOnce(Lists, Unfreed) /\ \A l \in DOMAIN lists : lists[l] \in {0, 1}

LEMMA ListsAre ==
  ASSUME Types
  PROVE  /\ DOMAIN Lists = Live /\ \A f \in Live : Lists[f] = Frames[f].lists /\ Lists[f] \in Seq(Nat)
  BY FramesAre DEF Lists, Frame

(* rt_arena_free_lists_until frees lists that were not. *)
LEMMA FreedOf ==
  ASSUME Types, ListInv, NEW nodes \in Seq(Nat), ToSet(nodes) \subseteq Unfreed, lists' = Freed(nodes)
  PROVE  Unfreed' = Unfreed \ ToSet(nodes) /\ \A l \in DOMAIN lists' : lists'[l] \in {0, 1}
<1>1. \A l : Contains(nodes, l) <=> l \in ToSet(nodes)
  BY DEF Contains, ToSet
<1>2. DOMAIN lists' = DOMAIN lists /\ \A l \in DOMAIN lists :
        lists'[l] = IF l \in ToSet(nodes) THEN lists[l] + 1 ELSE lists[l]
  BY <1>1 DEF Freed
<1>3. \A l \in DOMAIN lists : lists'[l] = IF l \in ToSet(nodes) THEN 1 ELSE lists[l]
  BY <1>2 DEF Unfreed
<1> QED
  BY <1>2, <1>3 DEF Unfreed, ListInv

LEMMA ListsUnchanged ==
  ASSUME Types, ListInv, UNCHANGED lists, NEW f \in DOMAIN stack, NEW fr,
         fr.lists = stack[f].lists, stack' = [stack EXCEPT ![f] = fr], UNCHANGED parked
  PROVE  ListInv'
<1>1. Frames' = Put(Frames, f, fr) /\ f \in DOMAIN Frames /\ Frames[f] = stack[f]
  BY FrameChanged, FramesAre
<1>2. Lists' = Lists
  BY <1>1 DEF Lists, Put
<1> QED
  BY <1>2 DEF ListInv, Unfreed, HeldOnce

LEMMA ListStep ==
  ASSUME Types, Nested, Phases, ListInv, [Next]_vars
  PROVE  ListInv'
<1> DEFINE Once == HeldOnce(Lists, Unfreed)
<1>1. /\ Once /\ \A f \in Live : ToSet(Lists[f]) \subseteq Unfreed /\ IsInjective(Lists[f])
      /\ DOMAIN Lists = Live
  BY ListsAre DEF ListInv, HeldOnce
<1>2. ASSUME NEW f \in Own, TrackList(f) PROVE ListInv'
  <2> DEFINE n == Len(lists) + 1
             x == <<n>> \o Lists[f]
  <2>1. f \in DOMAIN stack
    BY DEF Own
  <2>2. /\ lists \in Seq(Nat) /\ n \in Nat /\ n \notin DOMAIN lists
        /\ DOMAIN lists = 1 .. Len(lists) /\ Len(lists) \in Nat
    BY DEF Types
  <2>3. f \in Live /\ Frames[f] = stack[f] /\ Lists[f] = stack[f].lists /\ Lists[f] \in Seq(Nat)
    BY <2>1, FramesAre, ListsAre
  <2>4. /\ lists' = Append(lists, 0) /\ UNCHANGED parked
        /\ stack' = [stack EXCEPT ![f] = WithList(stack[f], n)]
    BY <1>2, <2>1, TrackStep
  <2>5. WithList(stack[f], n).lists = x
    BY <2>1, <2>2, <2>3, FramesTyped, WithListTyped
  <2>6. Lists' = Put(Lists, f, x)
    <3>1. Frames' = Put(Frames, f, WithList(stack[f], n))
      BY <2>1, <2>4, FrameChanged
    <3> HIDE DEF n, x
    <3> QED
      BY <2>5, <3>1 DEF Lists, Put
  <2>7. IsInjective(x) /\ ToSet(x) = {n} \cup ToSet(Lists[f])
    <3>1. n \notin ToSet(Lists[f])
      BY <1>1, <2>2, <2>3 DEF Unfreed
    <3> QED
      BY <1>1, <2>2, <2>3, <3>1, ConsOf
  <2>8. Unfreed' = Unfreed \cup {n} /\ \A l \in DOMAIN lists' : lists'[l] \in {0, 1}
    <3>1. /\ DOMAIN lists' = DOMAIN lists \cup {n} /\ lists'[n] = 0
          /\ \A l \in DOMAIN lists : lists'[l] = lists[l]
      BY <2>2, <2>4
    <3> HIDE DEF n
    <3> QED
      BY <2>2, <3>1 DEF Unfreed, ListInv
  <2>9. ToSet(x) \cap (Unfreed \ ToSet(Lists[f])) = {}
    BY <2>2, <2>7 DEF Unfreed
  <2> HIDE DEF n, x
  <2>10. HeldOnce(Put(Lists, f, x), (Unfreed \ ToSet(Lists[f])) \cup ToSet(x))
    BY <1>1, <2>3, <2>7, <2>9, HeldReplaced
  <2>11. (Unfreed \ ToSet(Lists[f])) \cup ToSet(x) = Unfreed'
    BY <1>1, <2>3, <2>7, <2>8
  <2>12. HeldOnce(Lists', Unfreed')
    BY <2>6, <2>10, <2>11
  <2> QED
    BY <2>8, <2>12 DEF ListInv, HeldOnce
<1>3. ASSUME NEW f \in Own, NEW size \in Sizes, Alloc(f, size) PROVE ListInv'
  <2>1. f \in DOMAIN stack /\ size \in Nat
    BY ArenaAssumption DEF Own
  <2>2. PICK c \in Chunks, at \in Nat :
          /\ stack' = [stack EXCEPT ![f] = WithObject(stack[f], c, at, size)]
          /\ UNCHANGED <<phase, parked, lists>>
    BY <1>3, <2>1, AllocStep
  <2>3. WithObject(stack[f], c, at, size).lists = stack[f].lists
    <3>1. stack[f] \in Frame
      BY <2>1, FramesTyped
    <3> QED
      BY <3>1 DEF WithObject, Frame
  <2> QED
    BY <2>1, <2>2, <2>3, ListsUnchanged
<1>4. CASE MarkCurrent
  <2>1. PICK mark \in [chunk : Chunks \cup {None}, used : Nat, lists : Nat, objects : Nat] :
          /\ Top \in DOMAIN stack /\ UNCHANGED <<parked, lists>>
          /\ stack' = [stack EXCEPT ![Top] = WithMark(stack[Top], mark)]
    BY <1>4, MarkStep
  <2>2. WithMark(stack[Top], mark).lists = stack[Top].lists
    BY <2>1, FramesTyped, WithMarkTyped
  <2> QED
    BY <2>1, <2>2, ListsUnchanged
<1>5. CASE Break
  <2>1. OutOfLoop(stack[Top]).lists = stack[Top].lists
    BY <1>5, BreakStep, FramesTyped, OutOfLoopTyped
  <2> QED
    BY <1>5, <2>1, BreakStep, ListsUnchanged
<1>6. CASE Rewind
  <2> DEFINE f == stack[Top]
             mark == f.marks[Len(f.marks)]
             k == Len(f.lists) - mark.lists
             new == SubSeq(f.lists, 1, k)
             x == SubSeq(f.lists, k + 1, Len(f.lists))
  <2>1. /\ Top \in DOMAIN stack /\ f \in Frame /\ f.marks # <<>> /\ lists' = Freed(new)
        /\ stack' = [stack EXCEPT ![Top] = Rewound(f)] /\ UNCHANGED parked
    BY <1>6, RewindStep DEF Rewind
  <2>2. Top \in Live /\ Frames[Top] = f /\ Lists[Top] = f.lists /\ f.lists \in Seq(Nat) /\ Marked(f)
    BY <2>1, FramesAre, ListsAre DEF Nested
  <2>3. k \in 0 .. Len(f.lists) /\ Rewound(f).lists = x
    BY <2>1, <2>2, RewoundTyped
  <2> HIDE DEF k
  <2>4. /\ new \in Seq(Nat) /\ IsInjective(x) /\ ToSet(f.lists) = ToSet(new) \cup ToSet(x)
        /\ ToSet(new) \cap ToSet(x) = {}
    BY <1>1, <2>2, <2>3, CutOf
  <2> HIDE DEF x, new, f
  <2>5. Unfreed' = Unfreed \ ToSet(new) /\ \A l \in DOMAIN lists' : lists'[l] \in {0, 1}
    BY <1>1, <2>1, <2>2, <2>4, FreedOf
  <2>6. Lists' = Put(Lists, Top, x)
    <3>1. Frames' = Put(Frames, Top, Rewound(f))
      BY <2>1, FrameChanged
    <3> QED
      BY <2>3, <3>1 DEF Lists, Put
  <2>7. HeldOnce(Put(Lists, Top, x), (Unfreed \ ToSet(Lists[Top])) \cup ToSet(x))
    <3>1. ToSet(x) \cap (Unfreed \ ToSet(Lists[Top])) = {}
      BY <2>2, <2>4
    <3> QED
      BY <1>1, <2>2, <2>4, <3>1, HeldReplaced
  <2>8. (Unfreed \ ToSet(Lists[Top])) \cup ToSet(x) = Unfreed'
    BY <1>1, <2>2, <2>4, <2>5
  <2>9. HeldOnce(Lists', Unfreed')
    BY <2>6, <2>7, <2>8
  <2> QED
    BY <2>5, <2>9 DEF ListInv, HeldOnce
<1>7. CASE Call \/ Dispatch
  <2>1. stack' = Append(stack, NewFrame) /\ UNCHANGED <<parked, lists>>
    <3>1. Append(<<>>, NewFrame) = <<NewFrame>>
      OBVIOUS
    <3> QED
      BY <1>7, <3>1 DEF Call, Dispatch
  <2>2. Frames' = Put(Frames, Top + 1, NewFrame) /\ Top + 1 \notin Live
    BY <2>1, FramePushed
  <2>3. Lists' = Put(Lists, Top + 1, <<>>)
    BY <2>2, NewFrameTyped DEF Lists, Put
  <2>4. HeldOnce(Put(Lists, Top + 1, <<>>), Unfreed \cup ToSet(<<>>))
    BY <1>1, <2>2, EmptyOf, HeldPut
  <2>5. HeldOnce(Lists', Unfreed') /\ UNCHANGED lists
    BY <2>1, <2>3, <2>4, EmptyOf DEF Unfreed
  <2> QED
    BY <2>5 DEF ListInv, HeldOnce
<1>8. CASE Return \/ Respond \/ Release
  <2>1. stack # <<>> /\ Top \in DOMAIN stack /\ Ends(stack[Top])
    BY <1>8, EndStep
  <2>2. Top \in Live /\ Frames[Top] = stack[Top] /\ Lists[Top] = stack[Top].lists /\ Lists[Top] \in Seq(Nat)
    BY <2>1, FramesAre, ListsAre
  <2>3. Lists' = Without(Lists, Top)
    <3>1. Frames' = Without(Frames, Top)
      BY <2>1, FramePopped DEF Ends
    <3> QED
      BY <3>1 DEF Lists, Without
  <2>4. Unfreed' = Unfreed \ ToSet(Lists[Top]) /\ \A l \in DOMAIN lists' : lists'[l] \in {0, 1}
    BY <1>1, <2>1, <2>2, FreedOf DEF Ends
  <2>5. HeldOnce(Lists', Unfreed')
    BY <1>1, <2>2, <2>3, <2>4, HeldWithout
  <2> QED
    BY <2>4, <2>5 DEF ListInv, HeldOnce
<1>9. CASE Park
  <2>1. UNCHANGED <<stack, parked, lists>>
    BY <1>9 DEF Park
  <2>2. Lists' = Lists
    BY <2>1 DEF Lists, Frames, FrameAt, Live
  <2> QED
    BY <2>1, <2>2 DEF ListInv, Unfreed, HeldOnce
<1>10. CASE Retained
  <2>1. Top = 1 /\ parked = None /\ stack' = <<>> /\ parked' = stack[1] /\ UNCHANGED lists
    BY <1>10 DEF Retained, Phases
  <2>2. Frames' = Put(Without(Frames, 1), 0, Frames[1]) /\ Live = {1}
    BY <2>1, FrameParked
  <2>3. Lists' = Put(Without(Lists, 1), 0, Lists[1])
    BY <2>2, FramesAre DEF Lists, Put, Without
  <2>4. HeldOnce(Lists', Unfreed)
    BY <1>1, <2>2, <2>3, HeldMoved
  <2> QED
    BY <2>1, <2>4 DEF ListInv, Unfreed, HeldOnce
<1>11. CASE Continue
  <2>1. /\ stack = <<>> /\ parked # None /\ stack' = <<parked>> /\ parked' = None /\ UNCHANGED lists
    BY <1>11 DEF Continue
  <2>2. Frames' = Put(Without(Frames, 0), 1, Frames[0]) /\ Live = {0}
    BY <2>1, FrameUnparked
  <2>3. Lists' = Put(Without(Lists, 0), 1, Lists[0])
    BY <2>2, FramesAre DEF Lists, Put, Without
  <2>4. HeldOnce(Lists', Unfreed)
    BY <1>1, <2>2, <2>3, HeldMoved
  <2> QED
    BY <2>1, <2>4 DEF ListInv, Unfreed, HeldOnce
<1>12. CASE UNCHANGED vars
  <2>1. UNCHANGED <<stack, parked, lists>>
    BY <1>12 DEF vars
  <2>2. Lists' = Lists
    BY <2>1 DEF Lists, Frames, FrameAt, Live
  <2> QED
    BY <2>1, <2>2 DEF ListInv, Unfreed, HeldOnce
<1> QED
  BY <1>2, <1>3, <1>4, <1>5, <1>6, <1>7, <1>8, <1>9, <1>10, <1>11, <1>12 DEF Next

LEMMA ListInit == Init => ListInv
<1> SUFFICES ASSUME Init PROVE ListInv
  OBVIOUS
<1>1. DOMAIN Frames = {} /\ DOMAIN lists = {}
  BY DEF Init, Frames, Live
<1>2. DOMAIN Lists = {} /\ Unfreed = {}
  BY <1>1 DEF Lists, Unfreed
<1>3. HeldOnce(Lists, Unfreed)
  BY <1>2 DEF HeldOnce
<1> QED
  BY <1>1, <1>3 DEF ListInv

LEMMA ListSays == Types /\ ListInv => ListsFreedOnce
<1> SUFFICES ASSUME Types, ListInv, NEW l \in DOMAIN lists
             PROVE  lists[l] = IF \E f \in Live : Contains(FrameAt(f).lists, l) THEN 0 ELSE 1
  BY DEF ListsFreedOnce
<1>1. (\E f \in Live : Contains(FrameAt(f).lists, l)) <=> \E f \in Live : l \in ToSet(Lists[f])
  BY FramesAre, ListsAre DEF Contains, ToSet
<1>2. (\E f \in Live : l \in ToSet(Lists[f])) <=> l \in Unfreed
  BY ListsAre DEF ListInv, HeldOnce
<1> QED
  BY <1>1, <1>2 DEF ListInv, Unfreed

(* Every list is freed exactly once, by the rewind of the loop or the end  *)
(* of the frame it was made in, whoever parks or continues in between.     *)
THEOREM EachListFreedOnce == Spec => []ListsFreedOnce
<1> DEFINE Inv == Types /\ Nested /\ Phases /\ PoolBounded /\ ListInv
<1>1. Init => Inv
  BY BaseInit, ListInit
<1>2. Inv /\ [Next]_vars => Inv'
  BY TypesStep, StackStep, PhasesStep, ListStep
<1>3. Inv => ListsFreedOnce
  BY ListSays
<1> QED
  BY <1>1, <1>2, <1>3, PTL DEF Spec

----------------------------------------------------------------------------
(* Chunks *)

Allocated == {c \in Chunks : cap[c] > 0}

(* The places chunks are linked from, given the frames and the two pools *)
Linked(frames, worker, park) ==
  [p \in DOMAIN frames \cup {WorkerPool, ParkPool} |->
     IF p = WorkerPool THEN worker ELSE IF p = ParkPool THEN park ELSE frames[p].chunks]

LEMMA LinksOf ==
  /\ Links = Linked(Frames, pool.worker, pool.park)
  /\ Links' = Linked(Frames', pool'.worker, pool'.park)
<1>1. Links = Linked(Frames, pool.worker, pool.park)
  BY DEF Links, Linked, Frames, WorkerPool, ParkPool
<1>2. Links' = Linked(Frames', pool'.worker, pool'.park)
  BY DEF Links, Linked, Frames, WorkerPool, ParkPool
<1> QED
  BY <1>1, <1>2

LEMMA LinkedOf ==
  ASSUME NEW frames, DOMAIN frames \subseteq Nat, NEW w, NEW k
  PROVE  /\ DOMAIN Linked(frames, w, k) = DOMAIN frames \cup {WorkerPool, ParkPool}
         /\ Linked(frames, w, k)[WorkerPool] = w /\ Linked(frames, w, k)[ParkPool] = k
         /\ \A f \in DOMAIN frames : Linked(frames, w, k)[f] = frames[f].chunks
         /\ WorkerPool \notin DOMAIN frames /\ ParkPool \notin DOMAIN frames /\ WorkerPool # ParkPool
  BY DEF Linked, WorkerPool, ParkPool

LEMMA LinkedPool ==
  ASSUME NEW frames, NEW w, NEW k, NEW x
  PROVE  /\ Linked(frames, x, k) = Put(Linked(frames, w, k), WorkerPool, x)
         /\ Linked(frames, w, x) = Put(Linked(frames, w, k), ParkPool, x)
<1>1. WorkerPool # ParkPool
  BY DEF WorkerPool, ParkPool
<1> QED
  BY <1>1 DEF Linked, Put

LEMMA LinkedPut ==
  ASSUME NEW frames, DOMAIN frames \subseteq Nat, NEW w, NEW k, NEW f \in Nat, NEW fr
  PROVE  Linked(Put(frames, f, fr), w, k) = Put(Linked(frames, w, k), f, fr.chunks)
<1>1. f # WorkerPool /\ f # ParkPool
  BY DEF WorkerPool, ParkPool
<1> HIDE DEF WorkerPool, ParkPool
<1> QED
  BY <1>1 DEF Linked, Put

LEMMA LinkedWithout ==
  ASSUME NEW frames, DOMAIN frames \subseteq Nat, NEW w, NEW k, NEW f \in Nat
  PROVE  Linked(Without(frames, f), w, k) = Without(Linked(frames, w, k), f)
<1>1. f # WorkerPool /\ f # ParkPool
  BY DEF WorkerPool, ParkPool
<1> QED
  BY <1>1 DEF Linked, Without

(* The place of the pool of the context that runs *)
PoolPlace == IF phase = "handler" THEN WorkerPool ELSE ParkPool

LEMMA PoolLinked ==
  ASSUME Types, NEW frames, DOMAIN frames \subseteq Nat, NEW x,
         phase = "handler" => pool'.park = pool.park /\ pool'.worker = x,
         phase # "handler" => pool'.worker = pool.worker /\ pool'.park = x
  PROVE  Linked(frames, pool'.worker, pool'.park) =
           Put(Linked(frames, pool.worker, pool.park), PoolPlace, x)
<1>1. CASE phase = "handler"
  <2>1. Linked(frames, x, pool.park) = Put(Linked(frames, pool.worker, pool.park), WorkerPool, x)
    BY LinkedPool
  <2> QED
    BY <1>1, <2>1 DEF PoolPlace
<1>2. CASE phase # "handler"
  <2>1. Linked(frames, pool.worker, x) = Put(Linked(frames, pool.worker, pool.park), ParkPool, x)
    BY LinkedPool
  <2> QED
    BY <1>2, <2>1 DEF PoolPlace
<1> QED
  BY <1>1, <1>2

LEMMA LinksAre ==
  ASSUME Types
  PROVE  /\ DOMAIN Links = Live \cup {WorkerPool, ParkPool}
         /\ Links[WorkerPool] = pool.worker /\ Links[ParkPool] = pool.park
         /\ Links[PoolPlace] = pool[Ctx] /\ PoolPlace \in DOMAIN Links /\ PoolPlace \notin Live
         /\ \A f \in Live : Links[f] = Frames[f].chunks /\ f # WorkerPool /\ f # ParkPool
         /\ \A p \in DOMAIN Links : Links[p] \in Seq(Chunks)
         /\ WorkerPool # ParkPool /\ WorkerPool \notin Live /\ ParkPool \notin Live
<1>1. DOMAIN Frames = Live /\ Live \subseteq Nat /\ \A f \in Live : Frames[f].chunks \in Seq(Chunks)
  BY FramesAre DEF Frame
<1>2. /\ DOMAIN Links = Live \cup {WorkerPool, ParkPool}
      /\ Links[WorkerPool] = pool.worker /\ Links[ParkPool] = pool.park
      /\ \A f \in Live : Links[f] = Frames[f].chunks
      /\ WorkerPool \notin Live /\ ParkPool \notin Live /\ WorkerPool # ParkPool
  <2> DEFINE l == Linked(Frames, pool.worker, pool.park)
  <2>1. /\ DOMAIN l = DOMAIN Frames \cup {WorkerPool, ParkPool}
        /\ l[WorkerPool] = pool.worker /\ l[ParkPool] = pool.park
        /\ \A f \in DOMAIN Frames : l[f] = Frames[f].chunks
        /\ WorkerPool \notin DOMAIN Frames /\ ParkPool \notin DOMAIN Frames /\ WorkerPool # ParkPool
    <3>1. DOMAIN Frames \subseteq Nat
      BY <1>1
    <3> QED
      BY <3>1 DEF Linked, WorkerPool, ParkPool
  <2>2. Links = l
    BY LinksOf
  <2> HIDE DEF l
  <2> QED
    BY <1>1, <2>1, <2>2
<1>3. pool.worker \in Seq(Chunks) /\ pool.park \in Seq(Chunks)
  BY DEF Types
<1> QED
  BY <1>1, <1>2, <1>3 DEF PoolPlace, Ctx

LEMMA LinksUnchanged ==
  ASSUME Types, ChunksLinkedOnce, UNCHANGED <<cap, pool>>, NEW f \in DOMAIN stack, NEW fr,
         fr.chunks = stack[f].chunks, stack' = [stack EXCEPT ![f] = fr], UNCHANGED parked
  PROVE  ChunksLinkedOnce'
<1>1. Frames' = Put(Frames, f, fr) /\ f \in DOMAIN Frames /\ Frames[f] = stack[f]
  BY FrameChanged, FramesAre
<1>2. Links' = Links
  <2>1. \A p \in DOMAIN Frames : Frames'[p].chunks = Frames[p].chunks
    BY <1>1 DEF Put
  <2>2. DOMAIN Frames' = DOMAIN Frames
    BY <1>1 DEF Put
  <2> QED
    BY <2>1, <2>2, LinksOf DEF Linked
<1> QED
  BY <1>2 DEF ChunksLinkedOnce, HeldOnce

(* Two places exchange elements. *)
LEMMA HeldExchanged ==
  ASSUME NEW seqs, NEW S, HeldOnce(seqs, S), NEW p \in DOMAIN seqs, NEW q \in DOMAIN seqs, p # q,
         NEW x, NEW y, IsInjective(x), IsInjective(y), ToSet(x) \cap ToSet(y) = {},
         ToSet(x) \cup ToSet(y) = ToSet(seqs[p]) \cup ToSet(seqs[q])
  PROVE  HeldOnce(Put(Put(seqs, p, x), q, y), S)
<1> DEFINE w == Put(Put(seqs, p, x), q, y)
<1>1. /\ DOMAIN w = DOMAIN seqs /\ w[p] = x /\ w[q] = y
      /\ \A r \in DOMAIN seqs : r # p /\ r # q => w[r] = seqs[r]
  BY DEF Put
<1> HIDE DEF w
<1>2. /\ \A r \in DOMAIN seqs : IsInjective(seqs[r])
      /\ \A r, t \in DOMAIN seqs : r # t => ToSet(seqs[r]) \cap ToSet(seqs[t]) = {}
      /\ S = UNION {ToSet(seqs[r]) : r \in DOMAIN seqs}
  BY DEF HeldOnce
<1>3. \A r \in DOMAIN w : IsInjective(w[r])
  BY <1>1, <1>2
<1>4. ASSUME NEW r \in DOMAIN w, NEW t \in DOMAIN w, r # t
      PROVE  ToSet(w[r]) \cap ToSet(w[t]) = {}
  <2>1. CASE r \in {p, q} /\ t \in {p, q}
    BY <1>1, <1>4, <2>1
  <2>2. CASE r \in {p, q} /\ t \notin {p, q}
    BY <1>1, <1>2, <2>2
  <2>3. CASE r \notin {p, q} /\ t \in {p, q}
    BY <1>1, <1>2, <2>3
  <2>4. CASE r \notin {p, q} /\ t \notin {p, q}
    BY <1>1, <1>2, <1>4, <2>4
  <2> QED
    BY <2>1, <2>2, <2>3, <2>4
<1>5. S = UNION {ToSet(w[r]) : r \in DOMAIN w}
  BY <1>1, <1>2
<1> QED
  BY <1>3, <1>4, <1>5 DEF HeldOnce, w

(* A chunk that is linked is allocated, and one that is not is not. *)
LEMMA LinkedIsAllocated ==
  ASSUME Types, ChunksLinkedOnce
  PROVE  /\ HeldOnce(Links, Allocated) /\ \A p \in DOMAIN Links : ToSet(Links[p]) \subseteq Allocated
         /\ \A p \in DOMAIN Links : IsInjective(Links[p])
         /\ \A p, q \in DOMAIN Links : p # q => ToSet(Links[p]) \cap ToSet(Links[q]) = {}
  BY DEF ChunksLinkedOnce, HeldOnce, Allocated

LEMMA AllocLinks ==
  ASSUME Types, ChunksLinkedOnce, NEW f \in Own, NEW size \in Sizes, Alloc(f, size)
  PROVE  ChunksLinkedOnce'
<1>1. f \in DOMAIN stack /\ f \in Live /\ Frames[f] = stack[f] /\ stack[f] \in Frame /\ size \in Nat /\ f \in Nat
  BY FramesAre, ArenaAssumption DEF Own
<1>2. /\ Links[f] = stack[f].chunks /\ f \in DOMAIN Links /\ Links[f] \in Seq(Chunks)
      /\ Links[PoolPlace] = pool[Ctx] /\ PoolPlace \in DOMAIN Links /\ f # PoolPlace
  BY <1>1, LinksAre
<1>3. PICK c \in Chunks, at \in Nat :
           /\ stack' = [stack EXCEPT ![f] = WithObject(stack[f], c, at, size)]
           /\ UNCHANGED <<phase, parked, lists>>
           /\ \/ c \in ToSet(stack[f].chunks) /\ UNCHANGED <<cap, pool>>
              \/ /\ UNCHANGED cap
                 /\ \E i \in DOMAIN pool[Ctx] :
                      c = pool[Ctx][i] /\ pool' = [pool EXCEPT ![Ctx] = RemoveAt(pool[Ctx], i)]
              \/ cap[c] = 0 /\ UNCHANGED pool /\ \E n \in Nat \ {0} : cap' = [cap EXCEPT ![c] = n]
  BY <1>1, AllocStep
<1> DEFINE fr == WithObject(stack[f], c, at, size)
<1>4. fr.chunks = IF c \in ToSet(Links[f]) THEN Links[f] ELSE <<c>> \o Links[f]
  <2>1. fr.chunks = IF Contains(stack[f].chunks, c) THEN stack[f].chunks ELSE <<c>> \o stack[f].chunks
    BY <1>1 DEF WithObject, Frame
  <2>2. Contains(stack[f].chunks, c) <=> c \in ToSet(stack[f].chunks)
    <3>1. stack[f].chunks \in Seq(Chunks)
      BY <1>1 DEF Frame
    <3> QED
      BY <3>1 DEF Contains, ToSet
  <2> HIDE DEF fr
  <2> QED
    BY <1>2, <2>1, <2>2
<1>5. Frames' = Put(Frames, f, fr) /\ DOMAIN Frames \subseteq Nat
  BY <1>1, <1>3, FrameChanged, FramesAre
<1> HIDE DEF fr
<1>6. Linked(Frames', pool.worker, pool.park) = Put(Links, f, fr.chunks)
  BY <1>1, <1>5, LinkedPut, LinksOf
<1>7. c \notin ToSet(Links[f]) =>
        IsInjective(fr.chunks) /\ ToSet(fr.chunks) = {c} \cup ToSet(Links[f])
  BY <1>2, <1>4, ConsOf, LinkedIsAllocated
<1>8. CASE c \in ToSet(stack[f].chunks) /\ UNCHANGED <<cap, pool>>
  <2>1. fr.chunks = stack[f].chunks
    BY <1>2, <1>4, <1>8
  <2> QED
    BY <1>1, <1>3, <1>8, <2>1, LinksUnchanged DEF fr
<1>9. CASE /\ UNCHANGED cap
           /\ \E i \in DOMAIN pool[Ctx] :
                c = pool[Ctx][i] /\ pool' = [pool EXCEPT ![Ctx] = RemoveAt(pool[Ctx], i)]
  <2>1. PICK i \in DOMAIN pool[Ctx] : c = pool[Ctx][i] /\ pool' = [pool EXCEPT ![Ctx] = RemoveAt(pool[Ctx], i)]
    BY <1>9
  <2> DEFINE rest == RemoveAt(pool[Ctx], i)
  <2>2. IsInjective(rest) /\ ToSet(rest) = ToSet(Links[PoolPlace]) \ {c} /\ c \in ToSet(Links[PoolPlace])
    <3>1. pool[Ctx] \in Seq(Chunks) /\ IsInjective(pool[Ctx])
      BY <1>2, LinkedIsAllocated, LinksAre
    <3>2. c \in ToSet(pool[Ctx])
      BY <2>1 DEF ToSet
    <3> QED
      BY <1>2, <2>1, <3>1, <3>2, RemoveAtOf
  <2>3. /\ phase = "handler" => pool'.park = pool.park /\ pool'.worker = rest
        /\ phase # "handler" => pool'.worker = pool.worker /\ pool'.park = rest
    BY <2>1, PoolTaken
  <2> HIDE DEF rest
  <2>4. c \notin ToSet(Links[f])
    BY <1>2, <2>2, LinkedIsAllocated
  <2>5. Links' = Put(Put(Links, f, fr.chunks), PoolPlace, rest)
    <3>1. DOMAIN Frames' \subseteq Nat
      BY <1>1, <1>5 DEF Put
    <3>2. Linked(Frames', pool'.worker, pool'.park) =
            Put(Linked(Frames', pool.worker, pool.park), PoolPlace, rest)
      BY <2>3, <3>1, PoolLinked
    <3> QED
      BY <1>6, <3>2, LinksOf
  <2>6. HeldOnce(Put(Put(Links, f, fr.chunks), PoolPlace, rest), Allocated)
    <3>1. HeldOnce(Links, Allocated)
      BY LinkedIsAllocated
    <3>2. ToSet(Links[f]) \cap ToSet(Links[PoolPlace]) = {}
      BY <1>2, LinkedIsAllocated
    <3>3. /\ ToSet(fr.chunks) \cap ToSet(rest) = {}
          /\ ToSet(fr.chunks) \cup ToSet(rest) = ToSet(Links[f]) \cup ToSet(Links[PoolPlace])
          /\ IsInjective(fr.chunks)
      BY <1>7, <2>2, <2>4, <3>2
    <3> QED
      BY <1>2, <2>2, <3>1, <3>3, HeldExchanged
  <2> QED
    BY <1>9, <2>5, <2>6 DEF ChunksLinkedOnce, Allocated
<1>10. CASE cap[c] = 0 /\ UNCHANGED pool /\ \E n \in Nat \ {0} : cap' = [cap EXCEPT ![c] = n]
  <2>1. Allocated' = Allocated \cup {c} /\ c \notin Allocated
    BY <1>10 DEF Allocated, Types
  <2>2. Links' = Put(Links, f, fr.chunks)
    BY <1>6, <1>10, LinksOf
  <2>3. HeldOnce(Links, Allocated) /\ ToSet(Links[f]) \subseteq Allocated
    BY <1>2, LinkedIsAllocated
  <2>4. IsInjective(fr.chunks) /\ ToSet(fr.chunks) = {c} \cup ToSet(Links[f])
    BY <1>7, <2>1, <2>3
  <2>5. ToSet(fr.chunks) \cap (Allocated \ ToSet(Links[f])) = {}
    BY <2>1, <2>4
  <2>6. HeldOnce(Put(Links, f, fr.chunks), (Allocated \ ToSet(Links[f])) \cup ToSet(fr.chunks))
    BY <1>2, <2>3, <2>4, <2>5, HeldReplaced
  <2>7. (Allocated \ ToSet(Links[f])) \cup ToSet(fr.chunks) = Allocated'
    BY <2>1, <2>3, <2>4
  <2> QED
    BY <2>2, <2>6, <2>7 DEF ChunksLinkedOnce, Allocated
<1> QED
  BY <1>3, <1>8, <1>9, <1>10

LEMMA ReturnLinks ==
  ASSUME Types, ChunksLinkedOnce, Return
  PROVE  ChunksLinkedOnce'
<1> DEFINE fr == stack[Top]
           x == Pooled(fr)
<1>1. stack # <<>> /\ Top \in DOMAIN stack /\ Ends(fr) /\ UNCHANGED cap /\ fr \in Frame
  BY EndStep, FramesTyped DEF Return
<1>2. Top \in Live /\ Frames[Top] = fr /\ Top \in Nat /\ DOMAIN Frames \subseteq Nat
  BY <1>1, FramesAre
<1>3. /\ Links[Top] = fr.chunks /\ Top \in DOMAIN Links
      /\ Links[PoolPlace] = pool[Ctx] /\ PoolPlace \in DOMAIN Links /\ Top # PoolPlace
  BY <1>2, LinksAre
<1>4. /\ IsInjective(Links[Top]) /\ IsInjective(Links[PoolPlace])
      /\ ToSet(Links[Top]) \cap ToSet(Links[PoolPlace]) = {}
      /\ ToSet(Links[Top]) \subseteq Allocated /\ HeldOnce(Links, Allocated)
  BY <1>3, LinkedIsAllocated
<1>5. ToSet(x) = ToSet(Links[Top]) \cup ToSet(Links[PoolPlace]) /\ IsInjective(x)
  BY <1>1, <1>3, <1>4, EmptiedTyped
<1>6. Frames' = Without(Frames, Top)
  BY <1>1, FramePopped DEF Ends
<1>7. /\ phase = "handler" => pool'.park = pool.park /\ pool'.worker = x
      /\ phase # "handler" => pool'.worker = pool.worker /\ pool'.park = x
  BY PoolFilled
<1> HIDE DEF fr, x
<1>8. Links' = Put(Without(Links, Top), PoolPlace, x)
  <2>1. DOMAIN Frames' \subseteq Nat
    BY <1>2, <1>6 DEF Without
  <2>2. Links' = Put(Linked(Frames', pool.worker, pool.park), PoolPlace, x)
    BY <1>7, <2>1, PoolLinked, LinksOf
  <2>3. Links = Linked(Frames, pool.worker, pool.park)
    BY LinksOf
  <2>4. Linked(Without(Frames, Top), pool.worker, pool.park) = Without(Links, Top)
    BY <1>2, <2>3, LinkedWithout
  <2> QED
    BY <1>6, <2>2, <2>4
<1> DEFINE w == Without(Links, Top)
           S == Allocated \ ToSet(Links[Top])
<1>9. HeldOnce(w, S) /\ PoolPlace \in DOMAIN w /\ w[PoolPlace] = Links[PoolPlace]
  <2>1. HeldOnce(w, S)
    BY <1>3, <1>4, HeldWithout
  <2> QED
    BY <1>3, <2>1 DEF Without
<1> HIDE DEF w
<1>10. ToSet(x) \cap (S \ ToSet(w[PoolPlace])) = {}
  BY <1>5, <1>9
<1>11. HeldOnce(Put(w, PoolPlace, x), (S \ ToSet(w[PoolPlace])) \cup ToSet(x))
  BY <1>5, <1>9, <1>10, HeldReplaced
<1>12. (S \ ToSet(w[PoolPlace])) \cup ToSet(x) = Allocated
  <2>1. ToSet(Links[PoolPlace]) \subseteq Allocated
    BY <1>3, LinkedIsAllocated
  <2> QED
    BY <1>4, <1>5, <1>9, <2>1
<1> QED
  BY <1>1, <1>8, <1>11, <1>12 DEF ChunksLinkedOnce, Allocated, w

(* What is not kept of the pool is freed. *)
LEMMA TrimLinks ==
  ASSUME Types, ChunksLinkedOnce, Respond \/ Release
  PROVE  ChunksLinkedOnce'
<1> DEFINE fr == stack[1]
<1>1. PICK chunks, others \in Seq(Chunks) :
           /\ Trim(chunks, others) /\ Top = 1 /\ 1 \in DOMAIN stack /\ stack' = <<>>
           /\ Respond => /\ others = pool.park /\ phase = "handler"
                         /\ chunks = Pooled(fr)
           /\ Release => /\ others = <<>> /\ phase = "continue"
                         /\ chunks = Reverse(Pooled(fr)) \o pool.worker
  BY GivenBack
<1>2. PICK kept \in Seq(Chunks) :
           /\ pool' = [worker |-> kept, park |-> others]
           /\ cap' \in [Chunks -> Nat]
           /\ \A c \in Chunks :
                cap'[c] = IF c \in ToSet(chunks) /\ c \notin ToSet(kept) THEN 0 ELSE cap[c]
           /\ ToSet(kept) \subseteq ToSet(chunks)
           /\ IsInjective(chunks) => IsInjective(kept)
  BY <1>1, TrimStep
<1>3. /\ 1 \in Live /\ Frames[1] = fr /\ fr \in Frame /\ DOMAIN Frames \subseteq Nat
      /\ Links[1] = fr.chunks /\ 1 \in DOMAIN Links /\ Links[1] \in Seq(Chunks)
      /\ Links[WorkerPool] = pool.worker /\ Links[ParkPool] = pool.park
      /\ WorkerPool \in DOMAIN Links /\ ParkPool \in DOMAIN Links
      /\ 1 # WorkerPool /\ 1 # ParkPool /\ WorkerPool # ParkPool
      /\ pool.worker \in Seq(Chunks)
  <2>1. 1 \in Live /\ Frames[1] = fr /\ fr \in Frame /\ DOMAIN Frames \subseteq Nat
    BY <1>1, FramesAre
  <2> QED
    BY <2>1, LinksAre DEF Types
<1>4. /\ HeldOnce(Links, Allocated) /\ \A p \in DOMAIN Links : ToSet(Links[p]) \subseteq Allocated
      /\ \A p \in DOMAIN Links : IsInjective(Links[p])
      /\ \A p, q \in DOMAIN Links : p # q => ToSet(Links[p]) \cap ToSet(Links[q]) = {}
  BY LinkedIsAllocated
<1>5. /\ Pooled(fr) \in Seq(Chunks)
      /\ ToSet(Pooled(fr)) = ToSet(fr.chunks) \cup ToSet(pool[Ctx])
      /\ /\ IsInjective(fr.chunks) /\ IsInjective(pool[Ctx])
         /\ ToSet(fr.chunks) \cap ToSet(pool[Ctx]) = {}
         => IsInjective(Pooled(fr))
  BY <1>3, EmptiedTyped
(* What the worker's pool holds when it is trimmed *)
<1> DEFINE all == ToSet(Links[1]) \cup ToSet(Links[WorkerPool])
                    \cup (ToSet(Links[ParkPool]) \ ToSet(others))
<1>6. IsInjective(chunks) /\ ToSet(chunks) = all
  <2>1. CASE Respond
    <3>1. pool[Ctx] = Links[WorkerPool] /\ others = Links[ParkPool]
      BY <1>1, <1>3, <2>1 DEF Ctx
    <3> QED
      BY <1>1, <1>3, <1>4, <1>5, <2>1, <3>1
  <2>2. CASE Release
    <3>1. pool[Ctx] = Links[ParkPool] /\ others = <<>>
      BY <1>1, <1>3, <2>2 DEF Ctx
    <3>2. ToSet(Pooled(fr)) = ToSet(Links[1]) \cup ToSet(Links[ParkPool]) /\ IsInjective(Pooled(fr))
      BY <1>3, <1>4, <1>5, <3>1
    <3>3. /\ Reverse(Pooled(fr)) \in Seq(Chunks) /\ IsInjective(Reverse(Pooled(fr)))
          /\ ToSet(Reverse(Pooled(fr))) = ToSet(Pooled(fr))
      BY <1>5, <3>2, ReverseOf
    <3>4. ToSet(Reverse(Pooled(fr))) \cap ToSet(pool.worker) = {} /\ IsInjective(pool.worker)
      BY <1>3, <1>4, <3>2, <3>3
    <3>5. /\ IsInjective(Reverse(Pooled(fr)) \o pool.worker)
          /\ ToSet(Reverse(Pooled(fr)) \o pool.worker) = ToSet(Pooled(fr)) \cup ToSet(pool.worker)
      BY <1>3, <3>3, <3>4, JoinOf
    <3>6. ToSet(others) = {}
      BY <3>1, EmptyOf
    <3> QED
      BY <1>1, <1>3, <2>2, <3>2, <3>5, <3>6
  <2> QED
    BY <2>1, <2>2
<1>7. IsInjective(others) /\ ToSet(others) \subseteq ToSet(Links[ParkPool])
  BY <1>1, <1>3, <1>4, EmptyOf
<1>8. Frames' = Without(Frames, 1)
  <2>1. stack # <<>> /\ Ends(stack[Top])
    BY EndStep
  <2> QED
    BY <1>1, <2>1, FramePopped DEF Ends
<1> HIDE DEF fr
<1>9. Links' = Put(Put(Without(Links, 1), WorkerPool, kept), ParkPool, others)
  <2> DEFINE l == Linked(Frames', pool.worker, pool.park)
  <2>1. l = Without(Links, 1)
    <3>1. Links = Linked(Frames, pool.worker, pool.park)
      BY LinksOf
    <3>2. Linked(Without(Frames, 1), pool.worker, pool.park) = Without(Links, 1)
      BY <1>3, <3>1 DEF Linked, Without, WorkerPool, ParkPool
    <3> QED
      BY <1>8, <3>2
  <2>2. Linked(Frames', kept, pool.park) = Put(l, WorkerPool, kept)
    BY LinkedPool
  <2>3. Linked(Frames', kept, others) = Put(Linked(Frames', kept, pool.park), ParkPool, others)
    BY LinkedPool
  <2>4. Links' = Linked(Frames', kept, others)
    BY <1>2, LinksOf
  <2> QED
    BY <2>1, <2>2, <2>3, <2>4
<1> DEFINE w == Put(Put(Without(Links, 1), WorkerPool, kept), ParkPool, others)
<1>10. /\ DOMAIN w = DOMAIN Links \ {1} /\ w[WorkerPool] = kept /\ w[ParkPool] = others
       /\ \A p \in DOMAIN w : p # WorkerPool /\ p # ParkPool => w[p] = Links[p]
  BY <1>3 DEF Put, Without
<1> HIDE DEF w
<1>11. Allocated' = (Allocated \ all) \cup ToSet(kept)
  <2>1. \A c \in Chunks : cap'[c] > 0 <=> (cap[c] > 0 /\ c \notin all) \/ (cap[c] > 0 /\ c \in ToSet(kept))
    BY <1>2, <1>6
  <2>2. ToSet(kept) \subseteq Allocated
    BY <1>2, <1>3, <1>4, <1>6
  <2> HIDE DEF all
  <2> QED
    BY <2>1, <2>2 DEF Allocated
<1>12. IsInjective(kept) /\ ToSet(kept) \subseteq all
  BY <1>2, <1>6
<1>13. \A p \in DOMAIN w : IsInjective(w[p])
  BY <1>4, <1>7, <1>10, <1>12
<1>14. ASSUME NEW p \in DOMAIN w, NEW q \in DOMAIN w, p # q
       PROVE  ToSet(w[p]) \cap ToSet(w[q]) = {}
  <2>1. ToSet(w[p]) \cap ToSet(kept) = {} \/ p = WorkerPool
    BY <1>3, <1>4, <1>7, <1>10, <1>12
  <2>2. ToSet(w[q]) \cap ToSet(kept) = {} \/ q = WorkerPool
    BY <1>3, <1>4, <1>7, <1>10, <1>12
  <2>3. p # WorkerPool => ToSet(w[p]) \subseteq ToSet(Links[p])
    BY <1>7, <1>10
  <2>4. q # WorkerPool => ToSet(w[q]) \subseteq ToSet(Links[q])
    BY <1>7, <1>10
  <2>5. CASE p = WorkerPool
    BY <1>10, <1>14, <2>2, <2>5
  <2>6. CASE q = WorkerPool
    BY <1>10, <1>14, <2>1, <2>6
  <2>7. CASE p # WorkerPool /\ q # WorkerPool
    BY <1>4, <1>10, <1>14, <2>3, <2>4, <2>7
  <2> QED
    BY <2>5, <2>6, <2>7
<1>15. Allocated' = UNION {ToSet(w[p]) : p \in DOMAIN w}
  <2>1. Allocated = UNION {ToSet(Links[p]) : p \in DOMAIN Links}
    BY <1>4 DEF HeldOnce
  <2>2. ASSUME NEW c \in Allocated' PROVE \E p \in DOMAIN w : c \in ToSet(w[p])
    <3>1. CASE c \in ToSet(kept)
      BY <1>3, <1>10, <3>1
    <3>2. CASE c \in Allocated /\ c \notin all
      <4>1. PICK p \in DOMAIN Links : c \in ToSet(Links[p])
        BY <2>1, <3>2
      <4>2. p # 1 /\ p # WorkerPool
        BY <3>2, <4>1
      <4>3. p = ParkPool => c \in ToSet(others)
        BY <3>2, <4>1
      <4> QED
        BY <1>3, <1>10, <4>1, <4>2, <4>3
    <3> QED
      BY <1>11, <2>2, <3>1, <3>2
  <2>3. ASSUME NEW p \in DOMAIN w, NEW c \in ToSet(w[p]) PROVE c \in Allocated'
    <3>1. CASE p = WorkerPool
      BY <1>10, <1>11, <2>3, <3>1
    <3>2. CASE p = ParkPool
      BY <1>3, <1>4, <1>7, <1>10, <1>11, <2>3, <3>2
    <3>3. CASE p # WorkerPool /\ p # ParkPool
      BY <1>3, <1>4, <1>10, <1>11, <2>3, <3>3
    <3> QED
      BY <3>1, <3>2, <3>3
  <2> HIDE DEF all
  <2> QED
    BY <2>2, <2>3
<1>16. HeldOnce(w, Allocated')
  BY <1>13, <1>14, <1>15 DEF HeldOnce
<1> QED
  BY <1>9, <1>16 DEF ChunksLinkedOnce, Allocated, w

LEMMA ChunkStep ==
  ASSUME Types, Phases, ChunksLinkedOnce, [Next]_vars
  PROVE  ChunksLinkedOnce'
<1> DEFINE w == pool.worker
           k == pool.park
<1>1. /\ HeldOnce(Links, Allocated) /\ Links = Linked(Frames, w, k) /\ DOMAIN Frames = Live
      /\ DOMAIN Frames \subseteq Nat /\ DOMAIN Links = Live \cup {WorkerPool, ParkPool}
      /\ WorkerPool # ParkPool
      /\ Links[WorkerPool] = w /\ Links[ParkPool] = k
      /\ \A f \in Live : Links[f] = Frames[f].chunks
  BY LinkedIsAllocated, LinksOf, FramesAre, LinksAre
<1>2. ASSUME NEW f \in Own, TrackList(f) PROVE ChunksLinkedOnce'
  <2>1. f \in DOMAIN stack /\ stack[f] \in Frame /\ Len(lists) + 1 \in Nat
    BY FramesTyped DEF Own, Types
  <2> DEFINE fr == WithList(stack[f], Len(lists) + 1)
  <2>2. fr.chunks = stack[f].chunks
    BY <2>1, WithListTyped
  <2>3. stack' = [stack EXCEPT ![f] = fr] /\ UNCHANGED <<cap, pool, parked>>
    BY <1>2, <2>1, TrackStep
  <2> HIDE DEF fr
  <2> QED
    BY <2>1, <2>2, <2>3, LinksUnchanged
<1>3. ASSUME NEW f \in Own, NEW size \in Sizes, Alloc(f, size) PROVE ChunksLinkedOnce'
  BY <1>3, AllocLinks
<1>4. CASE MarkCurrent
  <2>1. PICK mark \in [chunk : Chunks \cup {None}, used : Nat, lists : Nat, objects : Nat] :
          /\ Top \in DOMAIN stack /\ UNCHANGED <<cap, pool, parked>>
          /\ stack' = [stack EXCEPT ![Top] = WithMark(stack[Top], mark)]
    BY <1>4, MarkStep
  <2>2. WithMark(stack[Top], mark).chunks = stack[Top].chunks
    BY <2>1, FramesTyped, WithMarkTyped
  <2> QED
    BY <2>1, <2>2, LinksUnchanged
<1>5. CASE Break
  <2>1. OutOfLoop(stack[Top]).chunks = stack[Top].chunks
    BY <1>5, BreakStep, FramesTyped, OutOfLoopTyped
  <2> QED
    BY <1>5, <2>1, BreakStep, LinksUnchanged
<1>6. CASE Rewind
  <2>1. /\ Top \in DOMAIN stack /\ UNCHANGED <<cap, pool, parked>> /\ stack[Top] \in Frame
        /\ stack' = [stack EXCEPT ![Top] = Rewound(stack[Top])]
    BY <1>6, RewindStep
  <2>2. Rewound(stack[Top]).chunks = stack[Top].chunks
    BY <2>1 DEF Rewound, Frame
  <2> QED
    BY <2>1, <2>2, LinksUnchanged
<1>7. CASE Call \/ Dispatch
  <2>1. stack' = Append(stack, NewFrame) /\ UNCHANGED <<cap, pool, parked>>
    <3>1. Append(<<>>, NewFrame) = <<NewFrame>>
      OBVIOUS
    <3> QED
      BY <1>7, <3>1 DEF Call, Dispatch
  <2>2. Frames' = Put(Frames, Top + 1, NewFrame) /\ Top + 1 \notin Live /\ Top + 1 \in Nat
    BY <2>1, FramePushed, FramesAre
  <2>3. Links' = Put(Links, Top + 1, <<>>)
    <3>1. Linked(Put(Frames, Top + 1, NewFrame), w, k) = Put(Links, Top + 1, <<>>)
      BY <1>1, <2>2, LinkedPut, NewFrameTyped
    <3> QED
      BY <2>1, <2>2, <3>1, LinksOf
  <2>4. Top + 1 \notin DOMAIN Links
    BY <1>1, <2>2 DEF WorkerPool, ParkPool
  <2>5. HeldOnce(Put(Links, Top + 1, <<>>), Allocated \cup ToSet(<<>>))
    BY <1>1, <2>4, EmptyOf, HeldPut
  <2>6. HeldOnce(Links', Allocated) /\ UNCHANGED cap
    BY <2>1, <2>3, <2>5, EmptyOf
  <2> QED
    BY <2>6 DEF ChunksLinkedOnce, Allocated
<1>8. CASE Return
  BY <1>8, ReturnLinks
<1>9. CASE Respond \/ Release
  BY <1>9, TrimLinks
<1>10. CASE Park
  <2>1. /\ pool' = [worker |-> <<>>, park |-> w] /\ UNCHANGED <<cap, stack, parked>>
        /\ pool.park = <<>>
    BY <1>10 DEF Park, Phases
  <2>2. Frames' = Frames
    BY <2>1 DEF Frames, FrameAt, Live
  <2>3. Links' = Put(Put(Links, WorkerPool, <<>>), ParkPool, w)
    <3>1. Linked(Frames, <<>>, k) = Put(Links, WorkerPool, <<>>)
      BY <1>1, LinkedPool
    <3>2. Linked(Frames, <<>>, w) = Put(Linked(Frames, <<>>, k), ParkPool, w)
      BY LinkedPool
    <3>3. Links' = Linked(Frames, <<>>, w)
      BY <2>1, <2>2, LinksOf
    <3> QED
      BY <3>1, <3>2, <3>3
  <2>4. /\ IsInjective(w) /\ ToSet(<<>>) \cap ToSet(w) = {}
        /\ ToSet(<<>>) \cup ToSet(w) = ToSet(Links[WorkerPool]) \cup ToSet(Links[ParkPool])
    <3>1. IsInjective(w)
      BY <1>1 DEF HeldOnce
    <3> QED
      BY <1>1, <2>1, <3>1, EmptyOf
  <2> HIDE DEF w, k
  <2>5. HeldOnce(Put(Put(Links, WorkerPool, <<>>), ParkPool, w), Allocated)
    BY <1>1, <2>4, EmptyOf, HeldExchanged
  <2> QED
    BY <2>1, <2>3, <2>5 DEF ChunksLinkedOnce, Allocated
<1>11. CASE Retained
  <2>1. Top = 1 /\ parked = None /\ stack' = <<>> /\ parked' = stack[1] /\ UNCHANGED <<cap, pool>>
    BY <1>11 DEF Retained, Phases
  <2>2. Frames' = Put(Without(Frames, 1), 0, Frames[1]) /\ Live = {1}
    BY <2>1, FrameParked
  <2>3. Links' = Put(Without(Links, 1), 0, Links[1])
    <3>1. Linked(Without(Frames, 1), w, k) = Without(Links, 1) /\ DOMAIN Without(Frames, 1) \subseteq Nat
      BY <1>1 DEF Linked, Without, WorkerPool, ParkPool
    <3>2. Linked(Put(Without(Frames, 1), 0, Frames[1]), w, k) = Put(Without(Links, 1), 0, Frames[1].chunks)
      BY <3>1, LinkedPut
    <3> QED
      BY <1>1, <2>1, <2>2, <3>2, LinksOf
  <2>4. 1 \in DOMAIN Links /\ 0 \notin DOMAIN Links
    BY <1>1, <2>2 DEF WorkerPool, ParkPool
  <2>5. HeldOnce(Links', Allocated)
    BY <1>1, <2>3, <2>4, HeldMoved
  <2> QED
    BY <2>1, <2>5 DEF ChunksLinkedOnce, Allocated
<1>12. CASE Continue
  <2>1. /\ stack = <<>> /\ parked # None /\ stack' = <<parked>> /\ parked' = None
        /\ UNCHANGED <<cap, pool>>
    BY <1>12 DEF Continue
  <2>2. Frames' = Put(Without(Frames, 0), 1, Frames[0]) /\ Live = {0}
    BY <2>1, FrameUnparked
  <2>3. Links' = Put(Without(Links, 0), 1, Links[0])
    <3>1. Linked(Without(Frames, 0), w, k) = Without(Links, 0) /\ DOMAIN Without(Frames, 0) \subseteq Nat
      BY <1>1 DEF Linked, Without, WorkerPool, ParkPool
    <3>2. Linked(Put(Without(Frames, 0), 1, Frames[0]), w, k) = Put(Without(Links, 0), 1, Frames[0].chunks)
      BY <3>1, LinkedPut
    <3> QED
      BY <1>1, <2>1, <2>2, <3>2, LinksOf
  <2>4. 0 \in DOMAIN Links /\ 1 \notin DOMAIN Links
    BY <1>1, <2>2 DEF WorkerPool, ParkPool
  <2>5. HeldOnce(Links', Allocated)
    BY <1>1, <2>3, <2>4, HeldMoved
  <2> QED
    BY <2>1, <2>5 DEF ChunksLinkedOnce, Allocated
<1>13. CASE UNCHANGED vars
  <2>1. UNCHANGED <<stack, parked, pool, cap>>
    BY <1>13 DEF vars
  <2>2. Frames' = Frames
    BY <2>1 DEF Frames, FrameAt, Live
  <2>3. Links' = Links
    BY <2>1, <2>2, LinksOf
  <2> QED
    BY <2>1, <2>3 DEF ChunksLinkedOnce, HeldOnce
<1> QED
  BY <1>2, <1>3, <1>4, <1>5, <1>6, <1>7, <1>8, <1>9, <1>10, <1>11, <1>12, <1>13 DEF Next

LEMMA ChunkInit == Init => ChunksLinkedOnce
<1> SUFFICES ASSUME Init PROVE ChunksLinkedOnce
  OBVIOUS
<1>1. Live = {} /\ Allocated = {}
  BY DEF Init, Live, Allocated
<1>2. DOMAIN Links = {WorkerPool, ParkPool} /\ \A p \in DOMAIN Links : Links[p] = <<>>
  BY <1>1 DEF Links, Init
<1> QED
  BY <1>1, <1>2, EmptyOf DEF ChunksLinkedOnce, HeldOnce, Allocated

(* No chunk is lost, shared or freed twice, whoever takes it from a pool,  *)
(* gives it back, parks or continues.                                      *)
THEOREM EachChunkLinkedOnce == Spec => []ChunksLinkedOnce
<1> DEFINE Inv == Types /\ Nested /\ Phases /\ PoolBounded /\ ChunksLinkedOnce
<1>1. Init => Inv
  BY BaseInit, ChunkInit
<1>2. Inv /\ [Next]_vars => Inv'
  BY TypesStep, StackStep, PhasesStep, ChunkStep
<1> QED
  BY <1>1, <1>2, PTL DEF Spec

----------------------------------------------------------------------------
(* Objects *)

(* The objects of a frame do not overlap and lie in used parts of its      *)
(* chunks.  Those older than a mark are not in chunks newer than the       *)
(* mark's, and in the mark's chunk they lie in what was used by then: a    *)
(* rewind gives back the rest.                                             *)
LaidOut(fr, u) ==
  \A i \in DOMAIN fr.objects :
    LET o == fr.objects[i] IN
      /\ o.chunk \in ToSet(fr.chunks) /\ o.at + o.size <= u[o.chunk]
      /\ \A j \in DOMAIN fr.objects : i # j => Disjoint(o, fr.objects[j])

OlderThan(o, fr, mark) ==
  o.chunk \notin NewerChunks(fr, mark) /\ (o.chunk = mark.chunk => o.at + o.size <= mark.used)

MarksHold(fr) ==
  \A m \in DOMAIN fr.marks : \A i \in 1 .. fr.marks[m].objects :
    OlderThan(fr.objects[i], fr, fr.marks[m])

Laid(fr, u) == LaidOut(fr, u) /\ MarksHold(fr)

ObjectInv == \A f \in Live : Laid(Frames[f], used)

LEMMA ObjectTyped ==
  ASSUME NEW fr \in Frame
  PROVE  /\ Len(fr.objects) \in Nat /\ DOMAIN fr.objects = 1 .. Len(fr.objects)
         /\ \A i \in DOMAIN fr.objects :
              fr.objects[i].chunk \in Chunks /\ fr.objects[i].at \in Nat /\ fr.objects[i].size \in Nat
<1> DEFINE R == [chunk : Chunks, at : Nat, size : Nat]
<1>1. fr.objects \in Seq(R)
  BY DEF Frame
<1> HIDE DEF R
<1>2. \A i \in DOMAIN fr.objects : fr.objects[i] \in R
  BY <1>1
<1>3. Len(fr.objects) \in Nat /\ DOMAIN fr.objects = 1 .. Len(fr.objects)
  BY <1>1
<1> QED
  BY <1>2, <1>3 DEF R

(* Chunks of others may change. *)
LEMMA LaidSame ==
  ASSUME NEW fr \in Frame, NEW u, NEW v, Laid(fr, u), \A c \in ToSet(fr.chunks) : v[c] = u[c]
  PROVE  Laid(fr, v)
  BY DEF Laid, LaidOut

(* A frame with the same objects, chunks and marks *)
LEMMA LaidAlike ==
  ASSUME NEW fr, NEW g, NEW u, Laid(fr, u), g.chunks = fr.chunks, g.objects = fr.objects,
         \A m \in DOMAIN g.marks : m \in DOMAIN fr.marks /\ g.marks[m] = fr.marks[m]
  PROVE  Laid(g, u)
  BY DEF Laid, LaidOut, MarksHold, OlderThan, NewerChunks

(* One more object in a chunk the frame has *)
LEMMA LaidInPlace ==
  ASSUME NEW fr \in Frame, Marked(fr), NEW u \in [Chunks -> Nat], Laid(fr, u),
         NEW c \in ToSet(fr.chunks), NEW size \in Nat, c \in Chunks
  PROVE  Laid(WithObject(fr, c, u[c], size), [u EXCEPT ![c] = u[c] + size])
<1> DEFINE g == WithObject(fr, c, u[c], size)
           v == [u EXCEPT ![c] = u[c] + size]
           n == Len(fr.objects)
<1>1. /\ g.chunks = fr.chunks /\ g.marks = fr.marks
      /\ g.objects = Append(fr.objects, [chunk |-> c, at |-> u[c], size |-> size])
  <2>1. u[c] \in Nat
    OBVIOUS
  <2>2. Contains(fr.chunks, c)
    BY DEF Contains, ToSet
  <2> QED
    BY <2>1, <2>2 DEF WithObject, Frame
<1>2. n \in Nat /\ DOMAIN fr.objects = 1 .. n
  BY ObjectTyped
<1>3. /\ DOMAIN g.objects = 1 .. (n + 1) /\ g.objects[n + 1] = [chunk |-> c, at |-> u[c], size |-> size]
      /\ \A i \in 1 .. n : g.objects[i] = fr.objects[i]
  BY <1>1 DEF Frame
<1>4. \A d \in Chunks : v[d] \in Nat /\ v[d] >= u[d] /\ (d = c => v[d] = u[d] + size)
  OBVIOUS
<1> HIDE DEF g, v
<1>5. \A i \in 1 .. n : LET o == fr.objects[i] IN
        /\ o.chunk \in Chunks /\ o.at \in Nat /\ o.size \in Nat
        /\ o.chunk \in ToSet(fr.chunks) /\ o.at + o.size <= u[o.chunk]
        /\ \A j \in 1 .. n : i # j => Disjoint(o, fr.objects[j])
  BY <1>2, ObjectTyped DEF Laid, LaidOut
<1>6. LaidOut(g, v)
  <2>1. ASSUME NEW i \in 1 .. n
        PROVE  /\ g.objects[i].chunk \in ToSet(g.chunks)
               /\ g.objects[i].at + g.objects[i].size <= v[g.objects[i].chunk]
               /\ Disjoint(g.objects[i], g.objects[n + 1]) /\ Disjoint(g.objects[n + 1], g.objects[i])
    <3> DEFINE o == fr.objects[i]
               p == g.objects[n + 1]
    <3>1. /\ o.chunk \in Chunks /\ o.at \in Nat /\ o.size \in Nat
          /\ o.chunk \in ToSet(fr.chunks) /\ o.at + o.size <= u[o.chunk]
      BY <1>5
    <3>2. p.chunk = c /\ p.at = u[c] /\ p.size = size /\ u[c] \in Nat
      BY <1>3
    <3>3. g.objects[i] = o
      BY <1>3
    <3>4. u[o.chunk] \in Nat /\ v[o.chunk] \in Nat /\ v[o.chunk] >= u[o.chunk]
      BY <1>4, <3>1
    <3> HIDE DEF o, p
    <3>5. o.at + o.size <= v[o.chunk]
      BY <3>1, <3>4
    <3>6. Disjoint(o, p) /\ Disjoint(p, o)
      BY <3>1, <3>2 DEF Disjoint
    <3> QED
      BY <1>1, <3>1, <3>3, <3>5, <3>6 DEF p
  <2>2. /\ g.objects[n + 1].chunk \in ToSet(g.chunks)
        /\ g.objects[n + 1].at + g.objects[n + 1].size <= v[g.objects[n + 1].chunk]
    BY <1>1, <1>3, <1>4
  <2>3. \A i \in 1 .. (n + 1) : i \in 1 .. n \/ i = n + 1
    BY <1>2
  <2>4. \A i, j \in 1 .. n : i # j => Disjoint(g.objects[i], g.objects[j])
    BY <1>3, <1>5
  <2> QED
    BY <1>3, <2>1, <2>2, <2>3, <2>4 DEF LaidOut
<1>7. MarksHold(g)
  <2> SUFFICES ASSUME NEW m \in DOMAIN fr.marks, NEW i \in 1 .. fr.marks[m].objects
               PROVE  OlderThan(g.objects[i], g, fr.marks[m])
    BY <1>1 DEF MarksHold
  <2>1. i \in 1 .. n
    BY <1>2, MarkTyped DEF Marked
  <2>2. OlderThan(fr.objects[i], fr, fr.marks[m])
    BY DEF Laid, MarksHold
  <2> QED
    BY <1>1, <1>3, <2>1, <2>2 DEF OlderThan, NewerChunks
<1> QED
  BY <1>6, <1>7 DEF Laid, g, v

(* One more object in a chunk the frame gets *)
LEMMA LaidInNew ==
  ASSUME NEW fr \in Frame, Marked(fr), NEW u \in [Chunks -> Nat], Laid(fr, u),
         NEW c \in Chunks, c \notin ToSet(fr.chunks), NEW size \in Nat
  PROVE  Laid(WithObject(fr, c, 0, size), [u EXCEPT ![c] = 0 + size])
<1> DEFINE g == WithObject(fr, c, 0, size)
           v == [u EXCEPT ![c] = 0 + size]
           n == Len(fr.objects)
<1>1. /\ g.chunks = <<c>> \o fr.chunks /\ g.marks = fr.marks
      /\ g.objects = Append(fr.objects, [chunk |-> c, at |-> 0, size |-> size])
  <2>1. ~Contains(fr.chunks, c)
    BY DEF Contains, ToSet
  <2> QED
    BY <2>1 DEF WithObject, Frame
<1>2. n \in Nat /\ DOMAIN fr.objects = 1 .. n
  BY ObjectTyped
<1>3. /\ DOMAIN g.objects = 1 .. (n + 1) /\ g.objects[n + 1] = [chunk |-> c, at |-> 0, size |-> size]
      /\ \A i \in 1 .. n : g.objects[i] = fr.objects[i]
  BY <1>1 DEF Frame
<1>4. v[c] = size /\ \A d \in Chunks : d # c => v[d] = u[d]
  OBVIOUS
<1>8. fr.chunks \in Seq(Chunks) /\ ToSet(g.chunks) = {c} \cup ToSet(fr.chunks)
  BY <1>1, ConsOf DEF Frame
<1> HIDE DEF g, v
<1>5. \A i \in 1 .. n : LET o == fr.objects[i] IN
        /\ o.chunk \in Chunks /\ o.chunk \in ToSet(fr.chunks) /\ o.at + o.size <= u[o.chunk]
        /\ \A j \in 1 .. n : i # j => Disjoint(o, fr.objects[j])
  BY <1>2, ObjectTyped DEF Laid, LaidOut
<1>6. LaidOut(g, v)
  <2>1. ASSUME NEW i \in 1 .. n
        PROVE  /\ g.objects[i].chunk \in ToSet(g.chunks)
               /\ g.objects[i].at + g.objects[i].size <= v[g.objects[i].chunk]
               /\ Disjoint(g.objects[i], g.objects[n + 1]) /\ Disjoint(g.objects[n + 1], g.objects[i])
    <3> DEFINE o == fr.objects[i]
               p == g.objects[n + 1]
    <3>1. /\ o.chunk \in Chunks /\ o.chunk \in ToSet(fr.chunks) /\ o.at + o.size <= u[o.chunk]
      BY <1>5
    <3>2. p.chunk = c /\ g.objects[i] = o
      BY <1>3
    <3> HIDE DEF o, p
    <3>3. o.chunk # c
      BY <3>1
    <3>4. v[o.chunk] = u[o.chunk] /\ o.chunk \in ToSet(g.chunks)
      BY <1>4, <1>8, <3>1, <3>3
    <3>5. Disjoint(o, p) /\ Disjoint(p, o)
      BY <3>2, <3>3 DEF Disjoint
    <3> QED
      BY <3>1, <3>2, <3>4, <3>5 DEF p
  <2>2. /\ g.objects[n + 1].chunk \in ToSet(g.chunks)
        /\ g.objects[n + 1].at + g.objects[n + 1].size <= v[g.objects[n + 1].chunk]
    BY <1>3, <1>4, <1>8
  <2>3. \A i \in 1 .. (n + 1) : i \in 1 .. n \/ i = n + 1
    BY <1>2
  <2>4. \A i, j \in 1 .. n : i # j => Disjoint(g.objects[i], g.objects[j])
    BY <1>3, <1>5
  <2> QED
    BY <1>3, <2>1, <2>2, <2>3, <2>4 DEF LaidOut
<1>7. MarksHold(g)
  <2> SUFFICES ASSUME NEW m \in DOMAIN fr.marks, NEW i \in 1 .. fr.marks[m].objects
               PROVE  OlderThan(g.objects[i], g, fr.marks[m])
    BY <1>1 DEF MarksHold
  <2>1. i \in 1 .. n
    BY <1>2, MarkTyped DEF Marked
  <2>2. OlderThan(fr.objects[i], fr, fr.marks[m])
    BY DEF Laid, MarksHold
  <2>3. NewerChunks(g, fr.marks[m]) \subseteq {c} \cup NewerChunks(fr, fr.marks[m])
    <3> SUFFICES ASSUME NEW k \in DOMAIN g.chunks, \A l \in 1 .. k : g.chunks[l] # fr.marks[m].chunk
                 PROVE  g.chunks[k] \in {c} \cup NewerChunks(fr, fr.marks[m])
      BY DEF NewerChunks
    <3>1. /\ DOMAIN g.chunks = 1 .. (Len(fr.chunks) + 1) /\ g.chunks[1] = c /\ Len(fr.chunks) \in Nat
          /\ \A l \in 1 .. Len(fr.chunks) : g.chunks[l + 1] = fr.chunks[l]
          /\ DOMAIN fr.chunks = 1 .. Len(fr.chunks)
      BY <1>1, <1>8
    <3>2. CASE k = 1
      BY <3>1, <3>2
    <3>3. CASE k # 1
      <4>1. k - 1 \in DOMAIN fr.chunks /\ k = (k - 1) + 1
        BY <3>1, <3>3
      <4>2. g.chunks[k] = fr.chunks[k - 1]
        BY <3>1, <4>1
      <4>3. \A l \in 1 .. (k - 1) : l \in 1 .. Len(fr.chunks) /\ l + 1 \in 1 .. k
        BY <3>1, <4>1
      <4>4. \A l \in 1 .. (k - 1) : fr.chunks[l] # fr.marks[m].chunk
        BY <3>1, <4>3
      <4> QED
        BY <4>1, <4>2, <4>4 DEF NewerChunks
    <3> QED
      BY <3>2, <3>3
  <2> QED
    BY <1>3, <1>5, <2>1, <2>2, <2>3 DEF OlderThan
<1> QED
  BY <1>6, <1>7 DEF Laid, g, v

(* A mark is made: everything is older than it. *)
LEMMA LaidMarked ==
  ASSUME NEW fr \in Frame, NEW u \in [Chunks -> Nat], Laid(fr, u),
         NEW mark \in [chunk : Chunks \cup {None}, used : Nat, lists : Nat, objects : Nat],
         mark.objects = Len(fr.objects),
         \/ fr.chunks = <<>> /\ mark.chunk = None
         \/ fr.chunks # <<>> /\ mark.chunk = Head(fr.chunks) /\ mark.used = u[Head(fr.chunks)]
  PROVE  Laid(WithMark(fr, mark), u)
<1> DEFINE g == WithMark(fr, mark)
           n == Len(fr.marks)
<1>1. /\ g.chunks = fr.chunks /\ g.objects = fr.objects /\ g.marks = Append(fr.marks, mark)
      /\ fr.chunks \in Seq(Chunks) /\ DOMAIN fr.objects = 1 .. Len(fr.objects)
  BY ObjectTyped DEF WithMark, Frame
<1>2. /\ DOMAIN g.marks = 1 .. (n + 1) /\ g.marks[n + 1] = mark /\ n \in Nat /\ DOMAIN fr.marks = 1 .. n
      /\ \A m \in 1 .. n : g.marks[m] = fr.marks[m]
  <2> DEFINE R == [chunk : Chunks \cup {None}, used : Nat, lists : Nat, objects : Nat]
  <2>1. fr.marks \in Seq(R)
    BY DEF Frame
  <2> HIDE DEF R, g
  <2> QED
    BY <1>1, <2>1
<1> HIDE DEF g
<1>3. ASSUME NEW i \in 1 .. mark.objects PROVE OlderThan(fr.objects[i], g, mark)
  <2>1. fr.objects[i].chunk \in ToSet(fr.chunks) /\ fr.objects[i].at + fr.objects[i].size <= u[fr.objects[i].chunk]
    BY <1>1 DEF Laid, LaidOut
  <2>2. fr.chunks # <<>>
    BY <2>1, EmptyOf
  <2>3. mark.chunk = fr.chunks[1] /\ mark.used = u[mark.chunk]
    BY <1>1, <2>2
  <2>4. \A k \in DOMAIN fr.chunks : 1 \in 1 .. k
    BY <1>1
  <2>5. NewerChunks(g, mark) = {}
    BY <1>1, <2>3, <2>4 DEF NewerChunks
  <2> QED
    BY <2>1, <2>3, <2>5 DEF OlderThan
<1>4. ASSUME NEW m \in 1 .. n, NEW i \in 1 .. fr.marks[m].objects
      PROVE  OlderThan(fr.objects[i], g, fr.marks[m])
  <2>1. OlderThan(fr.objects[i], fr, fr.marks[m])
    BY <1>2 DEF Laid, MarksHold
  <2>2. NewerChunks(g, fr.marks[m]) = NewerChunks(fr, fr.marks[m])
    BY <1>1 DEF NewerChunks
  <2> QED
    BY <2>1, <2>2 DEF OlderThan
<1>5. \A m \in 1 .. (n + 1) : m \in 1 .. n \/ m = n + 1
  BY <1>2
<1>6. MarksHold(g)
  BY <1>1, <1>2, <1>3, <1>4, <1>5 DEF MarksHold
<1> QED
  BY <1>1, <1>6 DEF Laid, LaidOut, g

(* A rewind takes back what is not older than the mark. *)
LEMMA LaidRewound ==
  ASSUME NEW fr \in Frame, fr.marks # <<>>, Marked(fr), NEW u, Laid(fr, u),
         NEW v, \A c \in ToSet(fr.chunks) :
                  v[c] = IF c \in NewerChunks(fr, fr.marks[Len(fr.marks)]) THEN 0
                         ELSE IF c = fr.marks[Len(fr.marks)].chunk THEN fr.marks[Len(fr.marks)].used
                         ELSE u[c]
  PROVE  Laid(Rewound(fr), v)
<1> DEFINE g == Rewound(fr)
           n == Len(fr.marks)
           mark == fr.marks[n]
<1>1. /\ n \in DOMAIN fr.marks /\ mark.objects \in 0 .. Len(fr.objects)
      /\ g.chunks = fr.chunks /\ g.objects = SubSeq(fr.objects, 1, mark.objects)
      /\ DOMAIN g.marks = 1 .. (n - 1)
      /\ \A m \in 1 .. (n - 1) : m \in DOMAIN fr.marks /\ g.marks[m] = fr.marks[m]
  BY RewoundTyped
<1> HIDE DEF g
<1>2. /\ DOMAIN g.objects = 1 .. mark.objects
      /\ \A i \in 1 .. mark.objects : g.objects[i] = fr.objects[i] /\ i \in DOMAIN fr.objects
  <2> DEFINE R == [chunk : Chunks, at : Nat, size : Nat]
             k == mark.objects
  <2>1. fr.objects \in Seq(R) /\ DOMAIN fr.objects = 1 .. Len(fr.objects) /\ Len(fr.objects) \in Nat
    BY ObjectTyped DEF Frame
  <2> HIDE DEF R, k
  <2>2. /\ SubSeq(fr.objects, 1, k) \in Seq(R) /\ Len(SubSeq(fr.objects, 1, k)) = k
        /\ \A i \in 1 .. k : SubSeq(fr.objects, 1, k)[i] = fr.objects[i]
    BY <1>1, <2>1, CutOf DEF k
  <2>3. DOMAIN g.objects = 1 .. k /\ \A i \in 1 .. k : g.objects[i] = fr.objects[i]
    BY <1>1, <2>2 DEF k
  <2>4. \A i \in 1 .. k : i \in 1 .. Len(fr.objects)
    BY <1>1, <2>1 DEF k
  <2> QED
    BY <2>1, <2>3, <2>4 DEF k
<1>3. LaidOut(g, v)
  <2>1. ASSUME NEW i \in 1 .. mark.objects
        PROVE  /\ fr.objects[i].chunk \in ToSet(fr.chunks)
               /\ fr.objects[i].at + fr.objects[i].size <= v[fr.objects[i].chunk]
    <3>1. fr.objects[i].chunk \in ToSet(fr.chunks) /\ fr.objects[i].at + fr.objects[i].size <= u[fr.objects[i].chunk]
      BY <1>2 DEF Laid, LaidOut
    <3>2. OlderThan(fr.objects[i], fr, mark)
      BY <1>1 DEF Laid, MarksHold
    <3> QED
      BY <3>1, <3>2 DEF OlderThan
  <2>2. \A i, j \in 1 .. mark.objects : i # j => Disjoint(fr.objects[i], fr.objects[j])
    BY <1>2 DEF Laid, LaidOut
  <2> QED
    BY <1>1, <1>2, <2>1, <2>2 DEF LaidOut
<1>4. MarksHold(g)
  <2> SUFFICES ASSUME NEW m \in 1 .. (n - 1), NEW i \in 1 .. fr.marks[m].objects
               PROVE  OlderThan(g.objects[i], g, fr.marks[m])
    BY <1>1 DEF MarksHold
  <2>1. n \in m .. n
    BY <1>1, MarkTyped
  <2>2. i \in 1 .. mark.objects
    BY <1>1, <2>1, MarkTyped DEF Marked
  <2>3. OlderThan(fr.objects[i], fr, fr.marks[m])
    BY <1>1 DEF Laid, MarksHold
  <2> QED
    BY <1>1, <1>2, <2>2, <2>3 DEF OlderThan, NewerChunks
<1> QED
  BY <1>3, <1>4 DEF Laid, g

(* Frames have no chunk in common, nor one that is pooled or free. *)
LEMMA FramesApart ==
  ASSUME Types, ChunksLinkedOnce, NEW f \in Live
  PROVE  /\ \A g \in Live : f # g => ToSet(Frames[f].chunks) \cap ToSet(Frames[g].chunks) = {}
         /\ ToSet(Frames[f].chunks) \cap ToSet(pool[Ctx]) = {}
         /\ \A c \in ToSet(Frames[f].chunks) : c \in Chunks /\ cap[c] # 0
<1>1. /\ DOMAIN Links = Live \cup {WorkerPool, ParkPool} /\ Links[PoolPlace] = pool[Ctx]
      /\ PoolPlace \in DOMAIN Links /\ PoolPlace \notin Live /\ \A g \in Live : Links[g] = Frames[g].chunks
  BY LinksAre
<1>2. /\ \A p \in DOMAIN Links : ToSet(Links[p]) \subseteq Allocated
      /\ \A p, q \in DOMAIN Links : p # q => ToSet(Links[p]) \cap ToSet(Links[q]) = {}
  BY LinkedIsAllocated
<1>3. \A c \in Allocated : c \in Chunks /\ cap[c] # 0
  BY DEF Allocated, Types
<1> QED
  BY <1>1, <1>2, <1>3

LEMMA ObjectsChanged ==
  ASSUME Types, ObjectInv, NEW f \in DOMAIN stack, NEW fr,
         stack' = [stack EXCEPT ![f] = fr], UNCHANGED parked, Laid(fr, used'),
         \A g \in Live \ {f} : \A c \in ToSet(Frames[g].chunks) : used'[c] = used[c]
  PROVE  ObjectInv'
<1>1. Frames' = Put(Frames, f, fr) /\ Live' = Live /\ DOMAIN Frames = Live /\ f \in Live
  BY FrameChanged, FramesAre
<1>2. ASSUME NEW g \in Live PROVE Laid(Frames'[g], used')
  <2>1. CASE g = f
    BY <1>1, <2>1 DEF Put
  <2>2. CASE g # f
    <3>1. Frames'[g] = Frames[g]
      BY <1>1, <2>2 DEF Put
    <3>2. Laid(Frames[g], used) /\ Frames[g] \in Frame
      BY FramesAre DEF ObjectInv
    <3>3. Laid(Frames[g], used')
      BY <2>2, <3>2, LaidSame
    <3> QED
      BY <3>1, <3>3
  <2> QED
    BY <2>1, <2>2
<1>3. \A g \in Live' : Laid(Frames'[g], used')
  BY <1>1, <1>2
<1> QED
  BY <1>3 DEF ObjectInv, Laid, LaidOut, MarksHold, OlderThan, NewerChunks, Disjoint

LEMMA AllocObjects ==
  ASSUME Types, Nested, ChunksLinkedOnce, ObjectInv, NEW f \in Own, NEW size \in Sizes, Alloc(f, size)
  PROVE  ObjectInv'
<1>1. /\ f \in DOMAIN stack /\ f \in Live /\ Frames[f] = stack[f] /\ stack[f] \in Frame /\ size \in Nat
      /\ Marked(stack[f]) /\ Laid(stack[f], used) /\ used \in [Chunks -> Nat]
  <2>1. f \in DOMAIN stack /\ f \in Live /\ Frames[f] = stack[f] /\ stack[f] \in Frame /\ Frames[f] = FrameAt(f)
    BY FramesAre DEF Own
  <2> QED
    BY <2>1, ArenaAssumption DEF Nested, ObjectInv, Types
<1>2. PICK c \in Chunks, at \in Nat :
           /\ stack' = [stack EXCEPT ![f] = WithObject(stack[f], c, at, size)]
           /\ used' = [used EXCEPT ![c] = at + size]
           /\ UNCHANGED <<phase, parked, lists>>
           /\ \/ c \in ToSet(stack[f].chunks) /\ at = used[c]
              \/ at = 0 /\ c \in ToSet(pool[Ctx])
              \/ at = 0 /\ cap[c] = 0
  <2>1. \A i \in DOMAIN pool[Ctx] : pool[Ctx][i] \in ToSet(pool[Ctx])
    BY DEF ToSet
  <2> QED
    BY <1>1, <2>1, AllocStep
<1> DEFINE fr == WithObject(stack[f], c, at, size)
<1>3. Laid(fr, used')
  <2>1. CASE c \in ToSet(stack[f].chunks) /\ at = used[c]
    <3>1. Laid(WithObject(stack[f], c, used[c], size), [used EXCEPT ![c] = used[c] + size])
      BY <1>1, <2>1, LaidInPlace
    <3> QED
      BY <1>2, <2>1, <3>1
  <2>2. CASE at = 0 /\ (c \in ToSet(pool[Ctx]) \/ cap[c] = 0)
    <3>1. c \notin ToSet(stack[f].chunks)
      BY <1>1, <2>2, FramesApart
    <3>2. Laid(WithObject(stack[f], c, 0, size), [used EXCEPT ![c] = 0 + size])
      BY <1>1, <3>1, LaidInNew
    <3> QED
      BY <1>2, <2>2, <3>2
  <2> QED
    BY <1>2, <2>1, <2>2
<1>4. ASSUME NEW g \in Live \ {f}, NEW d \in ToSet(Frames[g].chunks)
      PROVE  used'[d] = used[d]
  <2>1. d \in Chunks
    BY FramesApart
  <2>2. d # c
    BY <1>1, <1>2, FramesApart
  <2> QED
    BY <1>1, <1>2, <2>1, <2>2
<1> HIDE DEF fr
<1>5. stack' = [stack EXCEPT ![f] = fr] /\ UNCHANGED parked
  BY <1>2 DEF fr
<1> QED
  BY <1>1, <1>3, <1>4, <1>5, ObjectsChanged

LEMMA RewindObjects ==
  ASSUME Types, Nested, ChunksLinkedOnce, ObjectInv, Rewind
  PROVE  ObjectInv'
<1> DEFINE fr == stack[Top]
           mark == fr.marks[Len(fr.marks)]
<1>1. /\ Top \in DOMAIN stack /\ fr \in Frame /\ fr.marks # <<>> /\ Len(fr.marks) \in DOMAIN fr.marks
      /\ used' = [c \in Chunks |-> IF c \in NewerChunks(fr, mark) THEN 0
                                   ELSE IF c = mark.chunk THEN mark.used
                                   ELSE used[c]]
      /\ stack' = [stack EXCEPT ![Top] = Rewound(fr)] /\ UNCHANGED parked
  BY RewindStep DEF Rewind
<1>2. /\ Top \in Live /\ Frames[Top] = fr /\ fr.chunks \in Seq(Chunks)
      /\ Marked(fr) /\ Laid(fr, used)
  <2>1. Top \in Live /\ Frames[Top] = fr /\ Frames[Top] = FrameAt(Top)
    BY <1>1, FramesAre
  <2> QED
    BY <1>1, <2>1 DEF Nested, ObjectInv, Frame
<1> HIDE DEF fr
<1>3. NewerChunks(fr, mark) \subseteq ToSet(fr.chunks) /\ mark.chunk \in ToSet(fr.chunks) \cup {None}
  BY <1>1, <1>2 DEF NewerChunks, ToSet, Marked
<1>4. \A c \in ToSet(fr.chunks) : c \in Chunks
  BY <1>2 DEF ToSet
<1>5. Laid(Rewound(fr), used')
  <2>1. \A c \in ToSet(fr.chunks) :
          used'[c] = IF c \in NewerChunks(fr, mark) THEN 0
                     ELSE IF c = mark.chunk THEN mark.used ELSE used[c]
    BY <1>1, <1>4
  <2> QED
    BY <1>1, <1>2, <2>1, LaidRewound
<1>6. ASSUME NEW g \in Live \ {Top}, NEW d \in ToSet(Frames[g].chunks)
      PROVE  used'[d] = used[d]
  <2>1. d \in Chunks /\ d # None
    BY FramesApart, ArenaAssumption
  <2>2. d \notin ToSet(fr.chunks)
    BY <1>2, FramesApart
  <2> QED
    BY <1>1, <1>3, <2>1, <2>2
<1> QED
  BY <1>1, <1>5, <1>6, ObjectsChanged

LEMMA EndObjects ==
  ASSUME Types, ChunksLinkedOnce, ObjectInv, Return \/ Respond \/ Release
  PROVE  ObjectInv'
<1> DEFINE fr == stack[Top]
<1>1. stack # <<>> /\ Top \in DOMAIN stack /\ Ends(fr) /\ fr \in Frame /\ Top \in Live /\ Frames[Top] = fr
  BY EndStep, FramesAre
<1>2. Frames' = Without(Frames, Top) /\ Live' = Live \ {Top} /\ DOMAIN Frames = Live
  BY <1>1, FramePopped, FramesAre DEF Ends
<1> HIDE DEF fr
<1>3. \A c \in Chunks : used'[c] = IF c \in ToSet(fr.chunks) THEN 0 ELSE used[c]
  BY <1>1, EmptiedTyped DEF Ends
<1>4. ASSUME NEW g \in Live' PROVE Laid(Frames'[g], used')
  <2>1. Frames'[g] = Frames[g] /\ g \in Live /\ g # Top
    BY <1>2 DEF Without
  <2>2. Laid(Frames[g], used) /\ Frames[g] \in Frame
    BY <2>1, FramesAre DEF ObjectInv
  <2>3. \A c \in ToSet(Frames[g].chunks) : c \in Chunks /\ c \notin ToSet(fr.chunks)
    BY <1>1, <2>1, FramesApart
  <2>4. Laid(Frames[g], used')
    BY <1>3, <2>2, <2>3, LaidSame
  <2> QED
    BY <2>1, <2>4
<1> QED
  BY <1>4 DEF ObjectInv, Laid, LaidOut, MarksHold, OlderThan, NewerChunks, Disjoint

(* A step that moves frames, and leaves them and the chunks as they are *)
LEMMA ObjectsMoved ==
  ASSUME Types, ObjectInv, UNCHANGED used,
         \A g \in Live' : \/ \E f \in Live : Frames'[g] = Frames[f]
                          \/ Frames'[g] = NewFrame
  PROVE  ObjectInv'
<1>1. Laid(NewFrame, used)
  BY NewFrameTyped DEF Laid, LaidOut, MarksHold
<1>2. \A g \in Live' : Laid(Frames'[g], used')
  BY <1>1 DEF ObjectInv
<1> QED
  BY <1>2 DEF ObjectInv, Laid, LaidOut, MarksHold, OlderThan, NewerChunks, Disjoint

LEMMA ObjectStep ==
  ASSUME Types, Nested, Phases, ChunksLinkedOnce, ObjectInv, [Next]_vars
  PROVE  ObjectInv'
<1>0. /\ \A f \in DOMAIN stack : f \in Live /\ stack[f] \in Frame /\ Laid(stack[f], used)
      /\ DOMAIN Frames = Live
  BY FramesAre DEF ObjectInv
<1>1. ASSUME NEW f \in DOMAIN stack, NEW fr, Laid(fr, used), UNCHANGED <<used, parked>>,
             stack' = [stack EXCEPT ![f] = fr]
      PROVE  ObjectInv'
  BY <1>1, ObjectsChanged
<1>2. ASSUME NEW f \in Own, TrackList(f) PROVE ObjectInv'
  <2>1. f \in DOMAIN stack /\ Len(lists) + 1 \in Nat
    BY DEF Own, Types
  <2> DEFINE fr == WithList(stack[f], Len(lists) + 1)
  <2>2. stack' = [stack EXCEPT ![f] = fr] /\ UNCHANGED <<used, parked>>
    BY <1>2, <2>1, TrackStep
  <2>3. fr.chunks = stack[f].chunks /\ fr.objects = stack[f].objects /\ fr.marks = stack[f].marks
    BY <1>0, <2>1, WithListTyped
  <2> HIDE DEF fr
  <2>4. Laid(fr, used)
    BY <1>0, <2>1, <2>3, LaidAlike
  <2> QED
    BY <1>1, <2>1, <2>2, <2>4
<1>3. ASSUME NEW f \in Own, NEW size \in Sizes, Alloc(f, size) PROVE ObjectInv'
  BY <1>3, AllocObjects
<1>4. CASE MarkCurrent
  <2>1. PICK mark \in [chunk : Chunks \cup {None}, used : Nat, lists : Nat, objects : Nat] :
           LET f == stack[Top] IN
           /\ Top \in DOMAIN stack /\ UNCHANGED <<cap, used, pool, phase, parked, lists>>
           /\ stack' = [stack EXCEPT ![Top] = WithMark(f, mark)]
           /\ mark.lists = Len(f.lists) /\ mark.objects = Len(f.objects)
           /\ \/ f.chunks = <<>> /\ mark.chunk = None
              \/ f.chunks # <<>> /\ mark.chunk = Head(f.chunks) /\ mark.used = used[Head(f.chunks)]
    BY <1>4, MarkStep
  <2>2. used \in [Chunks -> Nat]
    BY DEF Types
  <2>3. Laid(WithMark(stack[Top], mark), used)
    BY <1>0, <2>1, <2>2, LaidMarked
  <2> QED
    BY <1>1, <2>1, <2>3
<1>5. CASE Break
  <2> DEFINE f == stack[Top]
  <2>1. /\ Top \in DOMAIN stack /\ f.marks # <<>> /\ UNCHANGED <<used, parked>>
        /\ stack' = [stack EXCEPT ![Top] = OutOfLoop(f)]
    BY <1>5, BreakStep
  <2>2. f \in Frame /\ Laid(f, used)
    BY <1>0, <2>1
  <2> HIDE DEF f
  <2>3. /\ OutOfLoop(f).chunks = f.chunks /\ OutOfLoop(f).objects = f.objects
        /\ \A m \in DOMAIN OutOfLoop(f).marks : m \in DOMAIN f.marks /\ OutOfLoop(f).marks[m] = f.marks[m]
    BY <2>1, <2>2, OutOfLoopTyped
  <2>4. Laid(OutOfLoop(f), used)
    BY <2>2, <2>3, LaidAlike
  <2> QED
    BY <1>1, <2>1, <2>4
<1>6. CASE Rewind
  BY <1>6, RewindObjects
<1>7. CASE Call \/ Dispatch
  <2>1. stack' = Append(stack, NewFrame) /\ UNCHANGED <<used, parked>>
    <3>1. Append(<<>>, NewFrame) = <<NewFrame>>
      OBVIOUS
    <3> QED
      BY <1>7, <3>1 DEF Call, Dispatch
  <2>2. Frames' = Put(Frames, Top + 1, NewFrame) /\ Live' = Live \cup {Top + 1} /\ Top + 1 \notin Live
    BY <2>1, FramePushed
  <2>3. \A g \in Live' : (g \in Live /\ Frames'[g] = Frames[g]) \/ Frames'[g] = NewFrame
    BY <1>0, <2>2 DEF Put
  <2> QED
    BY <2>1, <2>3, ObjectsMoved
<1>8. CASE Return \/ Respond \/ Release
  BY <1>8, EndObjects
<1>9. CASE Park \/ UNCHANGED vars
  <2>1. UNCHANGED <<stack, parked, used>>
    BY <1>9 DEF Park, vars
  <2>2. Frames' = Frames /\ Live' = Live
    BY <2>1 DEF Frames, FrameAt, Live
  <2> QED
    BY <2>1, <2>2, ObjectsMoved
<1>10. CASE Retained
  <2>1. Top = 1 /\ parked = None /\ stack' = <<>> /\ parked' = stack[1] /\ UNCHANGED used
    BY <1>10 DEF Retained, Phases
  <2>2. Frames' = Put(Without(Frames, 1), 0, Frames[1]) /\ Live = {1} /\ Live' = {0}
    BY <2>1, FrameParked
  <2>3. \A g \in Live' : \E f \in Live : Frames'[g] = Frames[f]
    BY <2>2 DEF Put
  <2> QED
    BY <2>1, <2>3, ObjectsMoved
<1>11. CASE Continue
  <2>1. stack = <<>> /\ parked # None /\ stack' = <<parked>> /\ parked' = None /\ UNCHANGED used
    BY <1>11 DEF Continue
  <2>2. Frames' = Put(Without(Frames, 0), 1, Frames[0]) /\ Live = {0} /\ Live' = {1}
    BY <2>1, FrameUnparked
  <2>3. \A g \in Live' : \E f \in Live : Frames'[g] = Frames[f]
    BY <2>2 DEF Put
  <2> QED
    BY <2>1, <2>3, ObjectsMoved
<1> QED
  BY <1>2, <1>3, <1>4, <1>5, <1>6, <1>7, <1>8, <1>9, <1>10, <1>11 DEF Next

LEMMA ObjectsApart == Types /\ ChunksLinkedOnce /\ ObjectInv => NoAlias
<1> SUFFICES ASSUME Types, ChunksLinkedOnce, ObjectInv,
                    NEW f \in Live, NEW i \in DOMAIN FrameAt(f).objects
             PROVE  /\ FrameAt(f).objects[i].at + FrameAt(f).objects[i].size
                         <= used[FrameAt(f).objects[i].chunk]
                    /\ \A g \in Live : \A j \in DOMAIN FrameAt(g).objects :
                         <<f, i>> # <<g, j>> => Disjoint(FrameAt(f).objects[i], FrameAt(g).objects[j])
  BY DEF NoAlias
<1>1. \A g \in Live : Frames[g] = FrameAt(g) /\ LaidOut(Frames[g], used)
  BY FramesAre DEF ObjectInv, Laid
<1>2. ASSUME NEW g \in Live, NEW j \in DOMAIN FrameAt(g).objects, <<f, i>> # <<g, j>>
      PROVE  Disjoint(FrameAt(f).objects[i], FrameAt(g).objects[j])
  <2>1. CASE f = g
    BY <1>1, <1>2, <2>1 DEF LaidOut
  <2>2. CASE f # g
    <3>1. /\ FrameAt(f).objects[i].chunk \in ToSet(Frames[f].chunks)
          /\ FrameAt(g).objects[j].chunk \in ToSet(Frames[g].chunks)
      BY <1>1 DEF LaidOut
    <3>2. FrameAt(f).objects[i].chunk # FrameAt(g).objects[j].chunk
      BY <2>2, <3>1, FramesApart
    <3> QED
      BY <3>2 DEF Disjoint
  <2> QED
    BY <2>1, <2>2
<1> QED
  BY <1>1, <1>2 DEF LaidOut

(* Objects that live never overlap, however frames allocate for each       *)
(* other, loops rewind, and requests park and continue.                    *)
THEOREM NoObjectsOverlap == Spec => []NoAlias
<1> DEFINE Inv == Types /\ Nested /\ Phases /\ PoolBounded /\ ChunksLinkedOnce /\ ObjectInv
<1>1. Init => Inv
  <2>1. Init => ObjectInv
    BY DEF Init, ObjectInv, Live
  <2> QED
    BY <2>1, BaseInit, ChunkInit
<1>2. Inv /\ [Next]_vars => Inv'
  BY TypesStep, StackStep, PhasesStep, ChunkStep, ObjectStep
<1>3. Inv => NoAlias
  BY ObjectsApart
<1> QED
  BY <1>1, <1>2, <1>3, PTL DEF Spec
=============================================================================
