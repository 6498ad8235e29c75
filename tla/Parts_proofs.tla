---------------------------- MODULE Parts_proofs ----------------------------
(***************************************************************************)
(* Theorems about the two smallest components, which share nothing.        *)
(*                                                                         *)
(* CheckedArith: at every width of an int, the operations are exact or     *)
(* fail, in each build: first sums and differences, which are linear, then *)
(* products and quotients, from what a quotient is.                        *)
(*                                                                         *)
(* ObjectCache: builds that run one after the other, however many and      *)
(* wherever they are killed, never cache an object that is not the library.*)
(***************************************************************************)
EXTENDS CheckedArith, ObjectCache, TLAPS

(* What an outcome should be, of an operation whose exact result is x *)
Exact(o, x) == IF o.fails THEN x \notin Ints ELSE o.value \in Ints /\ o.value = x

LEMMA AddExact ==
  ASSUME NEW l \in Ints, NEW r \in Ints, NEW b \in Builds
  PROVE  Exact(Add(l, r, b), l + r)
<1> USE ArithAssumption DEF Ints, IntMin, Words, Exact, Fails, Gives
<1>1. CASE b = "builtin"
  BY <1>1 DEF Add, Builtin
<1>2. CASE b = "portable"
  BY <1>2 DEF Add, AddOverflows, Wrapped
<1>3. CASE b = "device"
  BY <1>3 DEF Add, Wrapped, Negative
<1> QED
  BY <1>1, <1>2, <1>3 DEF Builds

LEMMA SubExact ==
  ASSUME NEW l \in Ints, NEW r \in Ints, NEW b \in Builds
  PROVE  Exact(Sub(l, r, b), l - r)
<1> USE ArithAssumption DEF Ints, IntMin, Words, Exact, Fails, Gives
<1>1. CASE b = "builtin"
  BY <1>1 DEF Sub, Builtin
<1>2. CASE b = "portable"
  BY <1>2 DEF Sub, SubOverflows, Wrapped
<1>3. CASE b = "device"
  BY <1>3 DEF Sub, Wrapped, Negative
<1> QED
  BY <1>1, <1>2, <1>3 DEF Builds

----------------------------------------------------------------------------
(* What \div and % are *)
LEMMA Euclid ==
  ASSUME NEW a \in Int, NEW b \in Nat \ {0}
  PROVE  /\ a \div b \in Int
         /\ a % b \in 0 .. (b - 1)
         /\ a = b * (a \div b) + (a % b)
OBVIOUS

(* The guards of the portable product compare a factor with a quotient. *)
LEMMA BeyondQuotient ==
  ASSUME NEW a \in Nat, NEW b \in Nat \ {0}, NEW c \in Int
  PROVE  c > a \div b <=> c * b > a
<1> DEFINE q == a \div b
<1> q \in Int /\ a = b * q + (a % b) /\ a % b \in 0 .. (b - 1)
  BY Euclid
<1>1. ASSUME c > q PROVE c * b > a
  <2>1. (c - q - 1) * b >= 0
    BY <1>1
  <2>2. c * b >= b * q + b
    BY <2>1
  <2> QED
    BY <2>2
<1>2. ASSUME c <= q PROVE c * b <= a
  <2>1. (q - c) * b >= 0
    BY <1>2
  <2> QED
    BY <2>1
<1> QED
  BY <1>1, <1>2

LEMMA QuotientOfNat ==
  ASSUME NEW a \in Nat, NEW b \in Nat \ {0}
  PROVE  a \div b \in 0 .. a
<1> DEFINE q == a \div b
<1> q \in Int /\ a = b * q + (a % b) /\ a % b \in 0 .. (b - 1)
  BY Euclid
<1>1. ASSUME q < 0 PROVE FALSE
  <2>1. b * (-q - 1) >= 0
    BY <1>1
  <2> QED
    BY <2>1
<1>2. q >= 0
  BY <1>1
<1>3. (b - 1) * q >= 0
  BY <1>2
<1> QED
  BY <1>2, <1>3

LEMMA Division ==
  \A a \in Nat, b \in Nat \ {0} :
    /\ a \div b \in 0 .. a
    /\ a % b \in 0 .. (b - 1)
    /\ a = b * (a \div b) + (a % b)
<1> TAKE a \in Nat, b \in Nat \ {0}
<1>1. a \div b \in 0 .. a
  BY QuotientOfNat
<1>2. a % b \in 0 .. (b - 1) /\ a = b * (a \div b) + (a % b)
  BY Euclid
<1> QED
  BY <1>1, <1>2

LEMMA QuotientAtMostHalf ==
  ASSUME NEW a \in Nat, NEW b \in Nat \ {0}
  PROVE  /\ b > 1 => 2 * (a \div b) <= a
         /\ b = 1 => a \div b = a
<1> DEFINE q == a \div b
<1>0. a = b * q + (a % b) /\ a % b \in 0 .. (b - 1)
  BY Euclid
<1>q. q \in Nat
  <2>1. a \div b \in 0 .. a
    BY QuotientOfNat
  <2> QED
    BY <2>1
<1>1. q \in Nat /\ a = b * q + (a % b) /\ a % b \in 0 .. (b - 1)
  BY <1>0, <1>q
<1> HIDE DEF q
<1>2. ASSUME b > 1 PROVE (b - 2) * q >= 0
  BY <1>1, <1>2
<1> QED
  BY <1>1, <1>2 DEF q

LEMMA MulOverflowsExactly ==
  ASSUME NEW l \in Ints, NEW r \in Ints
  PROVE  MulOverflows(l, r) <=> l * r \notin Ints
<1> USE ArithAssumption DEF Ints, IntMin, Words
<1>1. CASE l = 0 \/ r = 0
  BY <1>1 DEF MulOverflows
<1>2. CASE l > 0 /\ r > 0
  <2>1. Wrapped(Quotient(IntMax, r)) = IntMax \div r
    BY <1>2, QuotientOfNat DEF Quotient, Magnitude, Wrapped
  <2>2. l > IntMax \div r <=> l * r > IntMax
    BY <1>2, BeyondQuotient
  <2>3. l * r >= 0
    BY <1>2
  <2> QED
    BY <1>2, <2>1, <2>2, <2>3 DEF MulOverflows
<1>3. CASE l > 0 /\ r < 0
  <2>1. Wrapped(Quotient(IntMin, l)) = -((IntMax + 1) \div l)
    BY <1>3, QuotientOfNat DEF Quotient, Magnitude, Wrapped
  <2>2. -r > (IntMax + 1) \div l <=> (-r) * l > IntMax + 1
    BY <1>3, BeyondQuotient
  <2>3. (-r) * l = -(l * r) /\ l * r <= 0
    BY <1>3
  <2>4. (IntMax + 1) \div l \in Int
    BY <1>3, QuotientOfNat
  <2> QED
    BY <1>3, <2>1, <2>2, <2>3, <2>4 DEF MulOverflows
<1>4. CASE l < 0 /\ r > 0
  <2>1. Wrapped(Quotient(IntMin, r)) = -((IntMax + 1) \div r)
    BY <1>4, QuotientOfNat DEF Quotient, Magnitude, Wrapped
  <2>2. -l > (IntMax + 1) \div r <=> (-l) * r > IntMax + 1
    BY <1>4, BeyondQuotient
  <2>3. (-l) * r = -(l * r) /\ l * r <= 0
    BY <1>4
  <2>4. (IntMax + 1) \div r \in Int
    BY <1>4, QuotientOfNat
  <2> QED
    BY <1>4, <2>1, <2>2, <2>3, <2>4 DEF MulOverflows
<1>5. CASE l < 0 /\ r < 0
  <2>1. Wrapped(Quotient(IntMax, r)) = -(IntMax \div (-r))
    BY <1>5, QuotientOfNat DEF Quotient, Magnitude, Wrapped
  <2>2. -l > IntMax \div (-r) <=> (-l) * (-r) > IntMax
    BY <1>5, BeyondQuotient
  <2>3. (-l) * (-r) = l * r /\ l * r >= 0
    BY <1>5
  <2>4. IntMax \div (-r) \in Int
    BY <1>5, QuotientOfNat
  <2> QED
    BY <1>5, <2>1, <2>2, <2>3, <2>4 DEF MulOverflows
<1> QED
  BY <1>1, <1>2, <1>3, <1>4, <1>5

(* The high word of a product says whether the low one is all of it. *)
LEMMA HighWordTells ==
  ASSUME NEW x \in Int
  PROVE  IF HighWord(x) = (IF LowWord(x) < 0 THEN -1 ELSE 0)
         THEN x \in Ints /\ LowWord(x) = x
         ELSE x \notin Ints
<1> DEFINE q == x \div Words
           m == x % Words
<1>1. Words \in Nat \ {0}
  BY ArithAssumption DEF Words
<1>2. q \in Int /\ x = Words * q + m /\ m \in 0 .. (Words - 1)
  BY <1>1, Euclid
<1>3. LowWord(x) = (IF m > IntMax THEN m - Words ELSE m) /\ HighWord(x) = q
  BY <1>2, ArithAssumption DEF LowWord, HighWord, Wrapped, IntMin, Words
<1> HIDE DEF q, m
<1> USE ArithAssumption DEF Ints, IntMin, Words
<1>4. CASE q = 0
  BY <1>2, <1>3, <1>4
<1>5. CASE q = -1
  BY <1>2, <1>3, <1>5
<1>6. CASE q > 0
  <2>1. Words * (q - 1) >= 0
    BY <1>2, <1>6
  <2>2. x >= Words
    BY <1>2, <2>1
  <2> QED
    BY <1>2, <1>3, <1>6, <2>2
<1>7. CASE q < -1
  <2>1. Words * (-q - 2) >= 0
    BY <1>2, <1>7
  <2>2. x < -Words
    BY <1>2, <2>1
  <2> QED
    BY <1>2, <1>3, <1>7, <2>2
<1> QED
  BY <1>2, <1>4, <1>5, <1>6, <1>7

LEMMA MulExact ==
  ASSUME NEW l \in Ints, NEW r \in Ints, NEW b \in Builds
  PROVE  Exact(Mul(l, r, b), l * r)
<1> DEFINE x == l * r
<1>0. x \in Int
  BY ArithAssumption DEF Ints, IntMin
<1> HIDE DEF x
<1>1. CASE b = "builtin"
  <2>1. Mul(l, r, b) = Builtin(x)
    BY <1>1 DEF Mul, x
  <2>2. Exact(Builtin(x), x)
    BY <1>0 DEF Builtin, Exact, Fails, Gives
  <2> QED
    BY <2>1, <2>2 DEF x
<1>2. CASE b = "portable"
  <2>1. Mul(l, r, b) = IF x \notin Ints THEN Fails ELSE Gives(x)
    BY <1>2, MulOverflowsExactly DEF Mul, x
  <2> QED
    BY <1>0, <2>1 DEF x, Exact, Fails, Gives
<1>3. CASE b = "device"
  <2>1. Mul(l, r, b) = IF HighWord(x) # (IF LowWord(x) < 0 THEN -1 ELSE 0) THEN Fails ELSE Gives(LowWord(x))
    BY <1>3 DEF Mul, x, Negative
  <2> QED
    BY <1>0, <2>1, HighWordTells DEF x, Exact, Fails, Gives
<1> QED
  BY <1>1, <1>2, <1>3 DEF Builds

----------------------------------------------------------------------------
(* The quotient is rounded towards 0. *)
LEMMA QuotientQuotes ==
  ASSUME NEW l \in Ints, NEW r \in Ints, r # 0
  PROVE  /\ Quotes(l, r, Quotient(l, r))
         /\ Quotient(l, r) \in Ints <=> ~(l = IntMin /\ r = -1)
<1> DEFINE a == Magnitude(l)
           b == Magnitude(r)
           q == a \div b
<1>1. a \in Nat /\ b \in Nat \ {0} /\ a = Magnitude(l) /\ b = Magnitude(r)
  BY ArithAssumption DEF Magnitude, Ints, IntMin
<1>2. q \in 0 .. a /\ a % b \in 0 .. (b - 1) /\ a = b * q + (a % b)
  <2> HIDE DEF a, b
  <2>1. /\ a \div b \in 0 .. a
        /\ a % b \in 0 .. (b - 1)
        /\ a = b * (a \div b) + (a % b)
    BY <1>1, Division, Zenon
  <2> QED
    BY <2>1 DEF q
<1>3. Quotient(l, r) = IF (l < 0) = (r < 0) THEN q ELSE -q
  BY DEF Quotient
<1>4. (b > 1 => 2 * q <= a) /\ (b = 1 => q = a)
  BY <1>1, QuotientAtMostHalf
<1> HIDE DEF q, a, b
<1>5. r * Quotient(l, r) = IF l < 0 THEN -(b * q) ELSE b * q
  <2>1. r * q = IF r < 0 THEN -(b * q) ELSE b * q
    BY <1>1, <1>2, ArithAssumption DEF Magnitude, Ints, IntMin
  <2>2. r * (-q) = -(r * q)
    BY <1>2, ArithAssumption DEF Ints, IntMin
  <2> QED
    BY <1>3, <2>1, <2>2, <1>1, <1>2
<1>6. Quotes(l, r, Quotient(l, r))
  <2> DEFINE rest == a % b
  <2>1. l - r * Quotient(l, r) = IF l < 0 THEN -rest ELSE rest
    BY <1>1, <1>2, <1>5, ArithAssumption DEF Magnitude, Ints, IntMin
  <2> HIDE DEF rest
  <2> QED
    BY <1>1, <1>2, <2>1 DEF Quotes, Magnitude, rest
<1> QED
  BY <1>1, <1>2, <1>3, <1>4, <1>6, ArithAssumption DEF Magnitude, Ints, IntMin

(* No int is a quotient where division fails. *)
LEMMA NoQuotient ==
  ASSUME NEW l \in Ints, NEW r \in Ints, DivFails(l, r), NEW x \in Ints
  PROVE  ~Quotes(l, r, x)
<1> USE ArithAssumption DEF Ints, IntMin, Quotes, Magnitude
<1>1. CASE r = 0
  BY <1>1
<1>2. CASE l = IntMin /\ r = -1
  BY <1>2
<1> QED
  BY <1>1, <1>2 DEF DivFails

----------------------------------------------------------------------------
ArithInv ==
  /\ operation \in Operations /\ build \in Builds
  /\ left \in Ints /\ right \in Ints
  /\ ExactOrFails

(* What the code computes is right for each operation. *)
LEMMA Right ==
  ASSUME left \in Ints, right \in Ints, build \in Builds, NEW op \in Operations,
         NEW o,
         o = CASE op = "+" -> Add(left, right, build)
               [] op = "-" -> Sub(left, right, build)
               [] op = "*" -> Mul(left, right, build)
               [] op = "/" -> Div(left, right)
               [] op = "%" -> Rem(left, right)
               [] op = "neg" -> Neg(left, build)
  PROVE  IF o.fails THEN \A y \in Ints : ~Means(op, left, right, y)
         ELSE o.value \in Ints /\ Means(op, left, right, o.value)
<1>1. CASE op = "+"
  BY <1>1, AddExact DEF Exact, Means
<1>2. CASE op = "-"
  BY <1>2, SubExact DEF Exact, Means
<1>3. CASE op = "*"
  BY <1>3, MulExact DEF Exact, Means
<1>4. CASE op = "neg"
  <2>1. 0 \in Ints /\ left \in Int
    BY ArithAssumption DEF Ints, IntMin
  <2>2. Exact(o, 0 - left)
    BY <1>4, <2>1, SubExact DEF Neg
  <2>3. 0 - left = -left
    BY <2>1
  <2> QED
    BY <1>4, <2>2, <2>3 DEF Exact, Means
<1>5. CASE op = "/"
  <2>1. CASE DivFails(left, right)
    BY <1>5, <2>1, NoQuotient DEF Div, Fails, Means
  <2>2. CASE ~DivFails(left, right)
    BY <1>5, <2>2, QuotientQuotes DEF Div, DivFails, Gives, Means
  <2> QED
    BY <2>1, <2>2
<1>6. CASE op = "%"
  <2>1. CASE DivFails(left, right)
    BY <1>6, <2>1, NoQuotient DEF Rem, Fails, Means
  <2>2. CASE ~DivFails(left, right)
    <3> DEFINE q == Quotient(left, right)
               rest == left - right * q
    <3>1. Quotes(left, right, q) /\ q \in Ints
      BY <2>2, QuotientQuotes DEF DivFails
    <3>2. o = Gives(rest)
      BY <1>6, <2>2 DEF Rem, Remainder
    <3>3. rest \in Ints
      BY <3>1, <2>2, ArithAssumption DEF Quotes, Magnitude, Ints, IntMin, DivFails
    <3> QED
      BY <1>6, <3>1, <3>2, <3>3 DEF Gives, Means
  <2> QED
    BY <2>1, <2>2
<1> QED
  BY <1>1, <1>2, <1>3, <1>4, <1>5, <1>6 DEF Operations

(* At every width and in every build an operation on ints gives its exact  *)
(* result or fails because no int is (rt.go:133-250).                      *)
THEOREM ArithmeticIsExact == ArithSpec => []ExactOrFails
<1>1. ArithInit => ArithInv
  BY DEF ArithInit, ArithInv, ExactOrFails
<1>2. ArithInv /\ [ArithNext]_arithVars => ArithInv'
  <2> SUFFICES ASSUME ArithInv, [ArithNext]_arithVars PROVE ArithInv'
    OBVIOUS
  <2>1. CASE UNCHANGED arithVars
    BY <2>1 DEF ArithInv, ExactOrFails, arithVars
  <2>2. ASSUME NEW op, NEW o, Computes(op, o),
               op \in Operations,
               IF o.fails THEN \A y \in Ints : ~Means(op, left, right, y)
               ELSE o.value \in Ints /\ Means(op, left, right, o.value)
        PROVE  ArithInv'
    <3>1. outcome' = {o} /\ operation = op /\ UNCHANGED <<operation, build, left, right>>
      BY <2>2 DEF Computes
    <3>2. ExactOrFails'
      BY <2>2, <3>1 DEF ExactOrFails
    <3> QED
      BY <3>1, <3>2 DEF ArithInv
  <2>3. CASE ArithNext
    BY <2>2, <2>3, Right DEF ArithNext, ArithInv, Operations
  <2> QED
    BY <2>1, <2>3
<1>3. ArithInv => ExactOrFails
  BY DEF ArithInv
<1> QED
  BY <1>1, <1>2, <1>3, PTL DEF ArithSpec

----------------------------------------------------------------------------
USE DEF Ended, Goto, Active

(* A build starts only when no other one runs, and only it moves. *)
LEMMA Inductive ==
  ASSUME Serial
  PROVE  IInv /\ [Next]_vars => IInv'
<1> SUFFICES ASSUME IInv, [Next]_vars PROVE IInv'
  OBVIOUS
<1> USE DEF IInv, TypeOK, FilesInv, CacheSound, BuildsIndependent, CachedIsLinked
<1>1. ASSUME NEW p \in Procs, Start(p) PROVE IInv'
  BY <1>1, Serial DEF Start
<1>2. ASSUME NEW p \in Procs, WriteHeader(p) PROVE IInv'
  BY <1>2 DEF WriteHeader
<1>3. ASSUME NEW p \in Procs, WriteSource(p) PROVE IInv'
  BY <1>3 DEF WriteSource
<1>4. ASSUME NEW p \in Procs, Compile(p) PROVE IInv'
  BY <1>4 DEF Compile
<1>5. ASSUME NEW p \in Procs, RemoveOld(p) PROVE IInv'
  BY <1>5 DEF RemoveOld
<1>6. ASSUME NEW p \in Procs, Rename(p) PROVE IInv'
  BY <1>6 DEF Rename
<1>7. ASSUME NEW p \in Procs, RenameRefused(p) PROVE IInv'
  BY <1>7 DEF RenameRefused
<1>8. ASSUME NEW p \in Procs, RemoveSource(p) PROVE IInv'
  BY <1>8 DEF RemoveSource
<1>9. ASSUME NEW p \in Procs, Link(p) PROVE IInv'
  BY <1>9 DEF Link
<1>10. ASSUME NEW p \in Procs, Kill(p) PROVE IInv'
  BY <1>10 DEF Kill
<1>11. CASE UNCHANGED vars
  BY <1>11 DEF vars
<1>12. QED
  BY <1>1, <1>2, <1>3, <1>4, <1>5, <1>6, <1>7, <1>8, <1>9, <1>10, <1>11
  DEF Next, Build, AllEnded

LEMMA Invariance ==
  ASSUME Serial
  PROVE  Spec => []IInv
<1>1. Init => IInv
  BY DEF Init, IInv, TypeOK, FilesInv, CacheSound, BuildsIndependent, CachedIsLinked
<1>2. IInv /\ [Next]_vars => IInv'
  BY Inductive
<1>3. QED
  BY <1>1, <1>2, PTL DEF Spec

(* Type correctness of the files and the builds. *)
THEOREM Typing ==
  ASSUME Serial
  PROVE  Spec => []TypeOK
<1>1. IInv => TypeOK
  BY DEF IInv
<1>2. Spec => []IInv
  BY Invariance
<1>3. QED
  BY <1>1, <1>2, PTL

(* No build, killed at whatever point, leaves an object in the cache that  *)
(* is not the whole library (compile.go:402-482, 484-549).                 *)
THEOREM CacheStaysSound ==
  ASSUME Serial
  PROVE  Spec => []CacheSound
<1>1. IInv => CacheSound
  BY DEF IInv
<1>2. Spec => []IInv
  BY Invariance
<1>3. QED
  BY <1>1, <1>2, PTL

(* A build never fails for what another one left behind.                   *)
THEOREM LeftoversAreHarmless ==
  ASSUME Serial
  PROVE  Spec => []BuildsIndependent
<1>1. IInv => BuildsIndependent
  BY DEF IInv
<1>2. Spec => []IInv
  BY Invariance
<1>3. QED
  BY <1>1, <1>2, PTL

(* The object whose path a build was given is there when it links.         *)
THEOREM ObjectIsThere ==
  ASSUME Serial
  PROVE  Spec => []CachedIsLinked
<1>1. IInv => CachedIsLinked
  BY DEF IInv
<1>2. Spec => []IInv
  BY Invariance
<1>3. QED
  BY <1>1, <1>2, PTL
=============================================================================
