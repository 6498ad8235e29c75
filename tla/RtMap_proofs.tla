---------------------------- MODULE RtMap_proofs ----------------------------
(***************************************************************************)
(* For any keys and hashes and any number of buckets, a search in a map of *)
(* the runtime ends and finds what is in the map, and the map implements   *)
(* the ordered map.                                                        *)
(***************************************************************************)
EXTENDS RtMap, FiniteSetTheorems, WellFoundedInduction, TLAPS

Entries == [key : Keys, value : Values, deleted : BOOLEAN]
Slots(es) == {Empty, Tombstone} \cup DOMAIN es
Used(bs, cap) == {b \in 0 .. (cap - 1) : bs[b] # Empty}
LiveIn(es) == {i \in DOMAIN es : ~es[i].deleted}

(* Entry i is where a search for its key comes before an empty bucket. *)
Reachable(i, k, bs, cap) ==
  \E d \in 0 .. (cap - 1) :
    /\ bs[Probe(k, d, cap)] = i
    /\ \A e \in 0 .. (d - 1) : bs[Probe(k, e, cap)] # Empty

Table(es, bs, cap) ==
  /\ es \in Seq(Entries)
  /\ bs \in [0 .. (cap - 1) -> Slots(es)]
  /\ Cardinality(Used(bs, cap)) <= Len(es)
  /\ \A i \in LiveIn(es) : Reachable(i, es[i].key, bs, cap)
  /\ \A i, j \in LiveIn(es) : es[i].key = es[j].key => i = j

----------------------------------------------------------------------------
LEMMA Least ==
  ASSUME NEW T, T \subseteq Nat, T # {}
  PROVE  \E x \in T : \A y \in T : x <= y
<1> DEFINE R == OpToRel(<, Nat)
<1>1. IsWellFoundedOn(R, Nat)
  BY NatLessThanWellFounded
<1>2. \A x, y \in Nat : x < y => <<x, y>> \in R
  BY DEF OpToRel
<1> HIDE DEF R
<1>3. PICK x \in T : \A y \in T : ~(<<y, x>> \in R)
  BY <1>1, WFMin, Zenon
<1>4. ASSUME NEW y \in T PROVE x <= y
  <2>1. ~(y < x)
    BY <1>2, <1>3, Zenon
  <2> QED
    BY <2>1
<1> QED
  BY <1>4

(* Probing visits every bucket. *)
LEMMA Probes ==
  ASSUME NEW k \in Keys, NEW cap \in Nat \ {0}
  PROVE  /\ \A d \in 0 .. (cap - 1) : Probe(k, d, cap) \in 0 .. (cap - 1)
         /\ \A b \in 0 .. (cap - 1) : \E d \in 0 .. (cap - 1) : Probe(k, d, cap) = b
<1> DEFINE h == Hash[k] % cap
<1>1. h \in 0 .. (cap - 1)
  BY RtMapAssumption
<1>2. \A d : Probe(k, d, cap) = IF h + d < cap THEN h + d ELSE h + d - cap
  BY DEF Probe
<1> HIDE DEF h
<1>3. \A d \in 0 .. (cap - 1) : Probe(k, d, cap) \in 0 .. (cap - 1)
  BY <1>1, <1>2
<1>4. ASSUME NEW b \in 0 .. (cap - 1)
      PROVE  \E d \in 0 .. (cap - 1) : Probe(k, d, cap) = b
  <2> DEFINE d == IF b >= h THEN b - h ELSE b - h + cap
  <2>1. d \in 0 .. (cap - 1)
    BY <1>1
  <2>2. Probe(k, d, cap) = b
    BY <1>1, <1>2
  <2> QED
    BY <2>1, <2>2
<1> QED
  BY <1>3, <1>4

LEMMA UsedFinite ==
  ASSUME NEW bs, NEW cap \in Nat
  PROVE  IsFiniteSet(Used(bs, cap)) /\ Cardinality(Used(bs, cap)) \in Nat
<1>1. IsFiniteSet(0 .. (cap - 1))
  BY FS_Interval
<1>2. Used(bs, cap) \subseteq 0 .. (cap - 1)
  BY DEF Used
<1> QED
  BY <1>1, <1>2, FS_Subset, FS_CardinalityType

(* With fewer used buckets than buckets, probing comes to a first empty one. *)
LEMMA EmptyAhead ==
  ASSUME NEW k \in Keys, NEW cap \in Nat \ {0}, NEW bs, Cardinality(Used(bs, cap)) < cap
  PROVE  \E d \in 0 .. (cap - 1) :
           /\ bs[Probe(k, d, cap)] = Empty
           /\ \A e \in 0 .. (d - 1) : bs[Probe(k, e, cap)] # Empty
<1>1. PICK b \in 0 .. (cap - 1) : bs[b] = Empty
  <2>1. SUFFICES ASSUME \A b \in 0 .. (cap - 1) : bs[b] # Empty PROVE FALSE
    OBVIOUS
  <2>2. Used(bs, cap) = 0 .. (cap - 1)
    BY <2>1 DEF Used
  <2>3. Cardinality(0 .. (cap - 1)) = cap
    BY FS_Interval
  <2> QED
    BY <2>2, <2>3
<1> DEFINE T == {d \in 0 .. (cap - 1) : bs[Probe(k, d, cap)] = Empty}
<1>2. T # {}
  BY <1>1, Probes
<1>3. PICK d \in T : \A e \in T : d <= e
  <2>1. T \subseteq Nat
    OBVIOUS
  <2> HIDE DEF T
  <2> QED
    BY <1>2, <2>1, Least
<1> QED
  BY <1>3

----------------------------------------------------------------------------
(* A search ends, at the first bucket that ends it. *)
LEMMA SearchEnds ==
  ASSUME NEW k \in Keys, NEW cap \in Nat \ {0}, NEW es, NEW bs, Cardinality(Used(bs, cap)) < cap
  PROVE  /\ \E d \in 0 .. (cap - 1) : Stops(es, bs, cap, k, d)
         /\ Distance(es, bs, cap, k) \in 0 .. (cap - 1)
         /\ Stops(es, bs, cap, k, Distance(es, bs, cap, k))
         /\ \A e \in 0 .. (Distance(es, bs, cap, k) - 1) : ~Stops(es, bs, cap, k, e)
         /\ Bucket(es, bs, cap, k) \in 0 .. (cap - 1)
<1> DEFINE T == {d \in 0 .. (cap - 1) : Stops(es, bs, cap, k, d)}
<1>1. PICK c \in 0 .. (cap - 1) : Stops(es, bs, cap, k, c)
  BY EmptyAhead DEF Stops
<1>2. T \subseteq Nat /\ T # {}
  BY <1>1
<1>3. PICK d \in T : \A e \in T : d <= e
  <2> HIDE DEF T
  <2> QED
    BY <1>2, Least
<1>4. /\ d \in 0 .. (cap - 1)
      /\ Stops(es, bs, cap, k, d) /\ \A e \in 0 .. (d - 1) : ~Stops(es, bs, cap, k, e)
  BY <1>3
<1>5. /\ Distance(es, bs, cap, k) \in 0 .. (cap - 1)
      /\ Stops(es, bs, cap, k, Distance(es, bs, cap, k))
      /\ \A e \in 0 .. (Distance(es, bs, cap, k) - 1) : ~Stops(es, bs, cap, k, e)
  BY <1>4, Zenon DEF Distance
<1>6. Bucket(es, bs, cap, k) \in 0 .. (cap - 1)
  BY <1>5, Probes DEF Bucket
<1> QED
  BY <1>1, <1>5, <1>6

(* What it finds is what is in the table. *)
LEMMA Finds ==
  ASSUME NEW k \in Keys, NEW cap \in Nat \ {0}, NEW es, NEW bs, Table(es, bs, cap),
         Cardinality(Used(bs, cap)) < cap
  PROVE  /\ Found(es, bs, cap, k) <=> \E i \in LiveIn(es) : es[i].key = k
         /\ \A i \in LiveIn(es) : es[i].key = k => bs[Bucket(es, bs, cap, k)] = i
         /\ Found(es, bs, cap, k) => /\ bs[Bucket(es, bs, cap, k)] \in LiveIn(es)
                                     /\ es[bs[Bucket(es, bs, cap, k)]].key = k
<1> DEFINE D == Distance(es, bs, cap, k)
<1>1. /\ D \in 0 .. (cap - 1)
      /\ Stops(es, bs, cap, k, D)
      /\ \A e \in 0 .. (D - 1) : ~Stops(es, bs, cap, k, e)
  BY SearchEnds
<1>2. Bucket(es, bs, cap, k) = Probe(k, D, cap)
  BY DEF Bucket
<1> HIDE DEF D
<1>3. \A d \in 0 .. (cap - 1) : bs[Probe(k, d, cap)] \in Slots(es)
  BY Probes DEF Table
<1>4. bs[Probe(k, D, cap)] # Empty =>
        /\ bs[Probe(k, D, cap)] \in LiveIn(es)
        /\ es[bs[Probe(k, D, cap)]].key = k
  BY <1>1, <1>3 DEF Stops, Matches, Slots, LiveIn
<1>5. ASSUME NEW i \in LiveIn(es), es[i].key = k
      PROVE  bs[Probe(k, D, cap)] = i
  <2>1. PICK d \in 0 .. (cap - 1) :
          /\ bs[Probe(k, d, cap)] = i
          /\ \A e \in 0 .. (d - 1) : bs[Probe(k, e, cap)] # Empty
    BY <1>5 DEF Table, Reachable
  <2>2. i \notin {Empty, Tombstone}
    BY DEF Table, LiveIn, Empty, Tombstone
  <2>3. Stops(es, bs, cap, k, d)
    BY <1>5, <2>1, <2>2 DEF Stops, Matches, LiveIn
  <2>4. D <= d
    BY <1>1, <2>1, <2>3
  <2>5. bs[Probe(k, D, cap)] # Empty
    BY <1>1, <2>1, <2>2, <2>4
  <2> QED
    BY <1>4, <1>5, <2>5 DEF Table
<1>6. Found(es, bs, cap, k) <=> bs[Probe(k, D, cap)] # Empty
  BY <1>2 DEF Found
<1>7. \A i \in LiveIn(es) : i # Empty
  BY DEF Table, LiveIn, Empty
<1>8. ASSUME NEW i \in LiveIn(es), es[i].key = k
      PROVE  Found(es, bs, cap, k) /\ bs[Bucket(es, bs, cap, k)] = i
  BY <1>2, <1>5, <1>6, <1>7, <1>8
<1>9. ASSUME Found(es, bs, cap, k)
      PROVE  /\ bs[Bucket(es, bs, cap, k)] \in LiveIn(es)
             /\ es[bs[Bucket(es, bs, cap, k)]].key = k
  BY <1>2, <1>4, <1>6, <1>9
<1> QED
  BY <1>8, <1>9

----------------------------------------------------------------------------
(* An entry is put in the first free bucket a search for its key passes. *)
LEMMA PutKeeps ==
  ASSUME NEW k \in Keys, NEW cap \in Nat \ {0}, NEW S, NEW bs \in [0 .. (cap - 1) -> S],
         NEW d \in 0 .. (cap - 1), NEW n,
         n # Empty,
         bs[Probe(k, d, cap)] \in {Empty, Tombstone},
         \A e \in 0 .. (d - 1) : bs[Probe(k, e, cap)] # Empty
  PROVE  LET after == [bs EXCEPT ![Probe(k, d, cap)] = n] IN
           /\ Cardinality(Used(after, cap)) <= Cardinality(Used(bs, cap)) + 1
           /\ Reachable(n, k, after, cap)
           /\ \A i, l : i \notin {Empty, Tombstone} /\ l \in Keys /\ Reachable(i, l, bs, cap)
                       => Reachable(i, l, after, cap)
<1> DEFINE f == Probe(k, d, cap)
           after == [bs EXCEPT ![f] = n]
<1>1. f \in 0 .. (cap - 1)
  BY Probes
<1> HIDE DEF f
<1>2. after[f] = n /\ \A b \in 0 .. (cap - 1) : b # f => after[b] = bs[b]
  BY <1>1
<1> HIDE DEF after
<1>3. Cardinality(Used(after, cap)) <= Cardinality(Used(bs, cap)) + 1
  <2>1. IsFiniteSet(Used(bs, cap)) /\ Cardinality(Used(bs, cap)) \in Nat
    BY UsedFinite
  <2>2. Used(after, cap) \subseteq Used(bs, cap) \cup {f}
    BY <1>2 DEF Used
  <2>3. /\ IsFiniteSet(Used(bs, cap) \cup {f})
        /\ Cardinality(Used(bs, cap) \cup {f}) <= Cardinality(Used(bs, cap)) + 1
    <3>1. /\ IsFiniteSet(Used(bs, cap) \cup {f})
          /\ Cardinality(Used(bs, cap) \cup {f}) =
               IF f \in Used(bs, cap) THEN Cardinality(Used(bs, cap)) ELSE Cardinality(Used(bs, cap)) + 1
      BY <2>1, FS_AddElement, Zenon
    <3> QED
      BY <2>1, <3>1
  <2>4. Cardinality(Used(after, cap)) <= Cardinality(Used(bs, cap) \cup {f})
    BY <2>2, <2>3, FS_Subset, Zenon
  <2>5. Cardinality(Used(after, cap)) \in Nat /\ Cardinality(Used(bs, cap) \cup {f}) \in Nat
    BY <2>3, UsedFinite, FS_CardinalityType
  <2> QED
    BY <2>1, <2>3, <2>4, <2>5
<1>4. Reachable(n, k, after, cap)
  <2>1. ASSUME NEW e \in 0 .. (d - 1) PROVE after[Probe(k, e, cap)] # Empty
    <3>1. e \in 0 .. (cap - 1)
      OBVIOUS
    <3>2. Probe(k, e, cap) \in 0 .. (cap - 1)
      BY <3>1, Probes
    <3>3. bs[Probe(k, e, cap)] # Empty
      OBVIOUS
    <3> QED
      BY <1>2, <3>2, <3>3
  <2> QED
    BY <1>2, <2>1 DEF f, Reachable
<1>5. ASSUME NEW i, NEW l \in Keys, i \notin {Empty, Tombstone}, Reachable(i, l, bs, cap)
      PROVE  Reachable(i, l, after, cap)
  <2>1. PICK c \in 0 .. (cap - 1) :
          /\ bs[Probe(l, c, cap)] = i
          /\ \A e \in 0 .. (c - 1) : bs[Probe(l, e, cap)] # Empty
    BY <1>5 DEF Reachable
  <2>2. after[Probe(l, c, cap)] = i
    BY <1>2, <1>5, <2>1, Probes DEF f
  <2>3. ASSUME NEW e \in 0 .. (c - 1) PROVE after[Probe(l, e, cap)] # Empty
    <3>1. e \in 0 .. (cap - 1)
      OBVIOUS
    <3>2. Probe(l, e, cap) \in 0 .. (cap - 1)
      BY <3>1, Probes
    <3>3. bs[Probe(l, e, cap)] # Empty
      BY <2>1
    <3> QED
      BY <1>2, <3>2, <3>3
  <2> QED
    BY <2>2, <2>3 DEF Reachable
<1> QED
  BY <1>3, <1>4, <1>5 DEF after, f

LEMMA FreeBucketIs ==
  ASSUME NEW k \in Keys, NEW cap \in Nat \ {0}, NEW es, NEW bs, Table(es, bs, cap),
         Cardinality(Used(bs, cap)) < cap,
         \A i \in LiveIn(es) : es[i].key # k
  PROVE  \E d \in 0 .. (cap - 1) :
           /\ FreeBucket(es, bs, cap, k) = Probe(k, d, cap)
           /\ bs[Probe(k, d, cap)] \in {Empty, Tombstone}
           /\ \A e \in 0 .. (d - 1) : bs[Probe(k, e, cap)] # Empty
<1> DEFINE D == Distance(es, bs, cap, k)
           passed == {e \in 0 .. (D - 1) : bs[Probe(k, e, cap)] = Tombstone}
<1>1. /\ D \in 0 .. (cap - 1)
      /\ \A e \in 0 .. (D - 1) : ~Stops(es, bs, cap, k, e)
      /\ Bucket(es, bs, cap, k) = Probe(k, D, cap)
  BY SearchEnds DEF Bucket
<1>2. bs[Probe(k, D, cap)] = Empty
  BY <1>1, Finds DEF Found
<1>3. \A e \in 0 .. (D - 1) : bs[Probe(k, e, cap)] # Empty
  BY <1>1 DEF Stops
<1>4. FreeBucket(es, bs, cap, k) =
        IF passed = {} THEN Probe(k, D, cap)
        ELSE Probe(k, CHOOSE e \in passed : \A f \in passed : e <= f, cap)
  BY DEF FreeBucket
<1>5. CASE passed = {}
  BY <1>1, <1>2, <1>3, <1>4, <1>5
<1>6. CASE passed # {}
  <2> DEFINE d == CHOOSE e \in passed : \A f \in passed : e <= f
  <2>1. passed \subseteq Nat
    BY <1>1
  <2>2. d \in passed
    <3> HIDE DEF passed
    <3>1. \E e \in passed : \A f \in passed : e <= f
      BY <1>6, <2>1, Least
    <3> QED
      BY <3>1, Zenon
  <2>3. FreeBucket(es, bs, cap, k) = Probe(k, d, cap)
    BY <1>4, <1>6
  <2> HIDE DEF d
  <2>4. d \in 0 .. (D - 1) /\ bs[Probe(k, d, cap)] = Tombstone
    BY <2>2
  <2> HIDE DEF D
  <2> QED
    BY <1>1, <1>3, <2>3, <2>4
<1> QED
  BY <1>5, <1>6

LEMMA InsertKeeps ==
  ASSUME NEW k \in Keys, NEW v \in Values, NEW cap \in Nat \ {0}, NEW es, NEW bs,
         Table(es, bs, cap), Len(es) < cap,
         \A i \in LiveIn(es) : es[i].key # k
  PROVE  Table(Append(es, Entry(k, v)), [bs EXCEPT ![FreeBucket(es, bs, cap, k)] = Len(es) + 1], cap)
<1> DEFINE n == Len(es) + 1
           longer == Append(es, Entry(k, v))
           after == [bs EXCEPT ![FreeBucket(es, bs, cap, k)] = n]
<1>1. es \in Seq(Entries) /\ Cardinality(Used(bs, cap)) < cap /\ Cardinality(Used(bs, cap)) \in Nat
  BY UsedFinite DEF Table
<1>2. PICK d \in 0 .. (cap - 1) :
        /\ FreeBucket(es, bs, cap, k) = Probe(k, d, cap)
        /\ bs[Probe(k, d, cap)] \in {Empty, Tombstone}
        /\ \A e \in 0 .. (d - 1) : bs[Probe(k, e, cap)] # Empty
  BY <1>1, FreeBucketIs
<1>3. n \in Nat \ {0} /\ n # Empty
  BY <1>1 DEF Empty
<1>4. /\ Cardinality(Used(after, cap)) <= Cardinality(Used(bs, cap)) + 1
      /\ Reachable(n, k, after, cap)
      /\ \A i, l : i \notin {Empty, Tombstone} /\ l \in Keys /\ Reachable(i, l, bs, cap)
                  => Reachable(i, l, after, cap)
  BY <1>2, <1>3, PutKeeps DEF Table
<1>5. Entry(k, v) \in Entries /\ Entry(k, v).key = k /\ ~Entry(k, v).deleted
  BY DEF Entry, Entries
<1>6. /\ longer \in Seq(Entries) /\ Len(longer) = n
      /\ DOMAIN longer = DOMAIN es \cup {n} /\ n \notin DOMAIN es
      /\ longer[n] = Entry(k, v) /\ \A i \in DOMAIN es : longer[i] = es[i]
  BY <1>1, <1>5
<1>7. after \in [0 .. (cap - 1) -> Slots(longer)]
  BY <1>2, <1>6, Probes DEF Table, Slots
<1> HIDE DEF after, longer, n
<1>8. Cardinality(Used(after, cap)) <= Len(longer)
  BY <1>1, <1>4, <1>6, UsedFinite DEF Table, n
<1>9. LiveIn(longer) = LiveIn(es) \cup {n}
  BY <1>5, <1>6 DEF LiveIn
<1>10. \A i \in LiveIn(es) : i \notin {Empty, Tombstone} /\ es[i].key \in Keys /\ longer[i] = es[i]
  <2> TAKE i \in LiveIn(es)
  <2>1. i \in DOMAIN es /\ i \in Nat \ {0} /\ es[i] \in Entries
    BY <1>1 DEF LiveIn
  <2> QED
    BY <1>6, <2>1 DEF Empty, Tombstone, Entries
<1>11. \A i \in LiveIn(longer) : Reachable(i, longer[i].key, after, cap)
  BY <1>4, <1>5, <1>6, <1>9, <1>10 DEF Table
<1>12. \A i, j \in LiveIn(longer) : longer[i].key = longer[j].key => i = j
  BY <1>5, <1>6, <1>9, <1>10 DEF Table
<1>13. Table(longer, after, cap)
  BY <1>6, <1>7, <1>8, <1>11, <1>12 DEF Table
<1> QED
  BY <1>13 DEF longer, after, n

----------------------------------------------------------------------------
(* The inductive invariant.  The table has twice as many buckets as there  *)
(* are entries, deleted ones included, and no more used buckets than       *)
(* entries; outside of a rehash every live entry is where a search comes.  *)
Typed ==
  /\ entries \in Seq(Entries) /\ copy \in [entries : Seq(Entries), cap : Nat]
  /\ entriesCap \in Nat /\ len \in Nat /\ written \in Nat /\ at \in Nat \ {0}
  /\ bucketCap \in Nat \ {1} /\ newCap \in Nat \ {1}
  /\ mpc \in {"idle", "rehash", "insert", "double", "clone"}
  /\ mpc \in {"rehash", "insert"} => call \in [key : Keys, value : Values]

Sized ==
  /\ Len(entries) <= entriesCap
  /\ Cardinality(Live) = len
  /\ Len(entries) * 2 <= bucketCap
  /\ Cardinality(Used(buckets, bucketCap)) <= Len(entries)
  /\ mpc = "insert" => (Len(entries) + 1) * 2 <= bucketCap

(* The entries up to written are in the new buckets. *)
Rehashing ==
  /\ written < at /\ at <= Len(entries) + 1
  /\ (Len(entries) + 1) * 2 <= newCap
  /\ newBuckets \in [0 .. (newCap - 1) -> {Empty} \cup 1 .. written]
  /\ Cardinality(Used(newBuckets, newCap)) <= written
  /\ \A i \in 1 .. written :
       ~entries[i].deleted /\ Reachable(i, entries[i].key, newBuckets, newCap)
  /\ \A i, j \in Live : entries[i].key = entries[j].key => i = j

(* The copy holds the live entries before at. *)
Before == {i \in LiveIn(entries) : i < at}
Cloning ==
  /\ Table(copy.entries, newBuckets, newCap)
  /\ at <= Len(entries) + 1
  /\ copy.cap * 2 <= newCap
  /\ Len(copy.entries) = Cardinality(Before)
  /\ \A j \in DOMAIN copy.entries :
       ~copy.entries[j].deleted /\ \E i \in Before : entries[i].key = copy.entries[j].key

IInv ==
  /\ Typed
  /\ Sized
  /\ mpc # "rehash" => Table(entries, buckets, bucketCap)
  /\ mpc = "rehash" => Rehashing
  /\ mpc \in {"double", "clone"} => len <= copy.cap
  /\ mpc = "double" => copy.entries = <<>>
  /\ mpc = "clone" => Cloning

(* A clone is made large enough: none of its sets would have to rehash,    *)
(* allocate or find the key there, which CloneEntry takes for granted.     *)
CloneFits ==
  mpc = "clone" /\ at <= Len(entries) /\ ~entries[at].deleted =>
    /\ ~Full(Len(copy.entries), newCap)
    /\ Len(copy.entries) < copy.cap
    /\ ~Found(copy.entries, newBuckets, newCap, entries[at].key)

----------------------------------------------------------------------------
LEMMA LiveFinite ==
  ASSUME NEW es \in Seq(Entries), NEW S, S \subseteq DOMAIN es
  PROVE  IsFiniteSet(S) /\ Cardinality(S) \in Nat
<1>1. DOMAIN es = 1 .. Len(es) /\ Len(es) \in Nat
  OBVIOUS
<1>2. IsFiniteSet(1 .. Len(es))
  BY <1>1, FS_Interval
<1> QED
  BY <1>1, <1>2, FS_Subset, FS_CardinalityType

LEMMA Updated ==
  ASSUME NEW es \in Seq(Entries), NEW i \in DOMAIN es, NEW e \in Entries
  PROVE  LET after == [es EXCEPT ![i] = e] IN
           /\ after \in Seq(Entries) /\ Len(after) = Len(es)
           /\ after[i] = e /\ \A j \in DOMAIN es : j # i => after[j] = es[j]
  OBVIOUS

(* A table of more than no buckets has an empty one. *)
LEMMA Room ==
  ASSUME NEW es \in Seq(Entries), NEW bs, NEW cap \in Nat, Len(es) * 2 <= cap, cap # 0,
         Cardinality(Used(bs, cap)) <= Len(es)
  PROVE  Cardinality(Used(bs, cap)) < cap
  BY UsedFinite

LEMMA EmptyTable ==
  ASSUME NEW cap \in Nat
  PROVE  Table(<<>>, NoBuckets(cap), cap) /\ Cardinality(Used(NoBuckets(cap), cap)) = 0
<1>1. Used(NoBuckets(cap), cap) = {}
  BY DEF Used, NoBuckets
<1>2. Cardinality(Used(NoBuckets(cap), cap)) = 0
  BY <1>1, FS_EmptySet
<1>3. LiveIn(<<>>) = {} /\ <<>> \in Seq(Entries) /\ Len(<<>>) = 0
  BY DEF LiveIn
<1>4. NoBuckets(cap) \in [0 .. (cap - 1) -> Slots(<<>>)]
  BY DEF NoBuckets, Slots
<1> QED
  BY <1>2, <1>3, <1>4 DEF Table

(* A new value is set in an entry. *)
LEMMA SameKeys ==
  ASSUME NEW es, NEW other \in Seq(Entries), NEW bs, NEW cap,
         Table(es, bs, cap), Len(other) = Len(es),
         \A i \in DOMAIN es : other[i].key = es[i].key /\ other[i].deleted = es[i].deleted
  PROVE  Table(other, bs, cap) /\ LiveIn(other) = LiveIn(es)
<1>1. DOMAIN other = DOMAIN es
  BY DEF Table
<1>2. LiveIn(other) = LiveIn(es)
  BY <1>1 DEF LiveIn
<1>3. Slots(other) = Slots(es)
  BY <1>1 DEF Slots
<1>4. \A i \in LiveIn(es) : other[i].key = es[i].key
  BY DEF LiveIn
<1> QED
  BY <1>2, <1>3, <1>4 DEF Table

(* An entry is deleted, and a tombstone left. *)
DeletedIn(es, other, i) ==
  \A j \in DOMAIN es : /\ other[j].key = es[j].key
                       /\ other[j].deleted <=> (es[j].deleted \/ j = i)

LEMMA DeleteKeeps ==
  ASSUME NEW es, NEW other \in Seq(Entries), NEW bs, NEW cap \in Nat \ {0}, NEW b \in 0 .. (cap - 1),
         Table(es, bs, cap), Len(other) = Len(es),
         bs[b] \in LiveIn(es),
         DeletedIn(es, other, bs[b])
  PROVE  Table(other, [bs EXCEPT ![b] = Tombstone], cap)
<1> DEFINE after == [bs EXCEPT ![b] = Tombstone]
<1>1. DOMAIN other = DOMAIN es
  BY DEF Table
<1>2. LiveIn(other) = LiveIn(es) \ {bs[b]}
  BY <1>1 DEF LiveIn, DeletedIn
<1>3. /\ after \in [0 .. (cap - 1) -> Slots(es)]
      /\ after[b] = Tombstone
      /\ \A c \in 0 .. (cap - 1) : c # b => after[c] = bs[c]
  BY DEF Table, Slots
<1> HIDE DEF after
<1>4. Slots(other) = Slots(es)
  BY <1>1 DEF Slots
<1>5. bs[b] # Empty
  BY DEF Table, LiveIn, Empty
<1>6. Used(after, cap) = Used(bs, cap)
  BY <1>3, <1>5 DEF Used, Empty, Tombstone
<1>7. ASSUME NEW i \in LiveIn(other)
      PROVE  Reachable(i, other[i].key, after, cap)
  <2> DEFINE k == es[i].key
  <2>1. i \in LiveIn(es) /\ i # bs[b] /\ other[i].key = k /\ k \in Keys
    <3>1. i \in LiveIn(es) /\ i # bs[b] /\ i \in DOMAIN es
      BY <1>2 DEF LiveIn
    <3>2. es[i] \in Entries
      BY <3>1 DEF Table
    <3> QED
      BY <3>1, <3>2 DEF Entries, DeletedIn
  <2> HIDE DEF k
  <2>2. PICK d \in 0 .. (cap - 1) :
          /\ bs[Probe(k, d, cap)] = i
          /\ \A e \in 0 .. (d - 1) : bs[Probe(k, e, cap)] # Empty
    BY <2>1 DEF Table, Reachable, k
  <2>3. after[Probe(k, d, cap)] = i
    BY <1>3, <2>1, <2>2, Probes
  <2>4. ASSUME NEW e \in 0 .. (d - 1) PROVE after[Probe(k, e, cap)] # Empty
    <3>1. e \in 0 .. (cap - 1)
      OBVIOUS
    <3>2. Probe(k, e, cap) \in 0 .. (cap - 1)
      BY <2>1, <3>1, Probes
    <3> QED
      BY <1>3, <2>2, <3>2 DEF Empty, Tombstone
  <2> QED
    BY <2>1, <2>3, <2>4 DEF Reachable
<1>8. \A i, j \in LiveIn(other) : other[i].key = other[j].key => i = j
  <2>1. \A i \in LiveIn(other) : i \in LiveIn(es) /\ other[i].key = es[i].key
    BY <1>2 DEF LiveIn, DeletedIn
  <2> QED
    BY <2>1 DEF Table
<1> QED
  BY <1>1, <1>2, <1>3, <1>4, <1>6, <1>7, <1>8 DEF Table, after

----------------------------------------------------------------------------
LEMMA Starts ==
  ASSUME MapInit
  PROVE  IInv
<1>1. /\ Table(entries, buckets, bucketCap) /\ Cardinality(Used(buckets, bucketCap)) = 0
  BY EmptyTable DEF MapInit
<1>2. Live = {} /\ Cardinality(Live) = 0
  BY FS_EmptySet DEF MapInit, Live
<1>3. Typed
  BY RtMapAssumption DEF MapInit, Typed
<1>4. Sized
  BY <1>1, <1>2 DEF MapInit, Sized
<1>5. mpc = "double" /\ copy.entries = <<>> /\ copy.cap \in Nat /\ len = 0
  BY RtMapAssumption DEF MapInit
<1> QED
  BY <1>1, <1>3, <1>4, <1>5 DEF IInv

LEMMA SetKeeps ==
  ASSUME IInv, NEW k \in Keys, NEW v \in Values, Set(k, v)
  PROVE  IInv'
<1> USE DEF IInv, Typed, Sized, Set
<1>1. /\ UNCHANGED <<entries, entriesCap, buckets, bucketCap, len, copy>>
      /\ call' \in [key : Keys, value : Values] /\ mpc = "idle"
  OBVIOUS
<1>2. CASE ~Full(Len(entries), bucketCap)
  <2>1. mpc' = "insert" /\ UNCHANGED <<at, written, newBuckets, newCap>>
    BY <1>2
  <2>2. Live' = Live
    BY <1>1, <2>1 DEF Live
  <2>3. (Len(entries) + 1) * 2 <= bucketCap
    BY <1>2 DEF Full
  <2> QED
    BY <1>1, <2>1, <2>2, <2>3
<1>3. CASE Full(Len(entries), bucketCap)
  <2> DEFINE cap == IF bucketCap = 0 THEN FirstBuckets ELSE bucketCap * 2
  <2>1. mpc' = "rehash" /\ newCap' = cap /\ newBuckets' = NoBuckets(cap) /\ at' = 1 /\ written' = 0
    BY <1>3
  <2>2. cap \in Nat \ {0, 1} /\ (Len(entries) + 1) * 2 <= cap
    BY RtMapAssumption
  <2> HIDE DEF cap
  <2>3. Live' = Live /\ Live = LiveIn(entries)
    BY <1>1, <2>1 DEF Live, LiveIn
  <2>4. Cardinality(Used(newBuckets, newCap))' = 0
    BY <2>1, <2>2, EmptyTable
  <2>5. newBuckets' \in [0 .. (cap - 1) -> {Empty} \cup 1 .. 0]
    BY <2>1 DEF NoBuckets
  <2>6. Rehashing'
    BY <1>1, <2>1, <2>2, <2>3, <2>4, <2>5 DEF Rehashing, Table
  <2> QED
    BY <1>1, <2>1, <2>2, <2>3, <2>6
<1> QED
  BY <1>2, <1>3

LEMMA InsertStep ==
  ASSUME IInv, Insert
  PROVE  IInv'
<1> USE DEF IInv, Typed, Sized
<1>1. /\ mpc = "insert" /\ mpc' = "idle"
      /\ UNCHANGED <<bucketCap, at, written, newBuckets, newCap, copy>>
  BY DEF Insert
<1>2. /\ Table(entries, buckets, bucketCap) /\ call.key \in Keys /\ call.value \in Values
      /\ bucketCap \in Nat \ {0} /\ Len(entries) < bucketCap
      /\ Cardinality(Used(buckets, bucketCap)) < bucketCap
      /\ Live = LiveIn(entries) /\ Live' = LiveIn(entries')
  BY <1>1, Room DEF Live, LiveIn
<1> DEFINE k == call.key
<1>3. CASE Found(entries, buckets, bucketCap, k)
  <2> DEFINE i == buckets[Bucket(entries, buckets, bucketCap, k)]
  <2>1. i \in LiveIn(entries)
    BY <1>2, <1>3, Finds
  <2>2. entries' = [entries EXCEPT ![i].value = call.value] /\ UNCHANGED <<entriesCap, buckets, len>>
    BY <1>3 DEF Insert
  <2> HIDE DEF i
  <2>3. /\ entries' \in Seq(Entries) /\ Len(entries') = Len(entries)
        /\ \A j \in DOMAIN entries : /\ entries'[j].key = entries[j].key
                                     /\ entries'[j].deleted = entries[j].deleted
    <3> DEFINE e == [entries[i] EXCEPT !.value = call.value]
    <3>1. i \in DOMAIN entries /\ entries[i] \in Entries
      BY <2>1 DEF LiveIn
    <3>2. e \in Entries /\ e.key = entries[i].key /\ e.deleted = entries[i].deleted
      BY <1>2, <3>1 DEF Entries
    <3>3. entries' = [entries EXCEPT ![i] = e]
      BY <2>2, <3>1
    <3> HIDE DEF e
    <3> QED
      BY <3>1, <3>2, <3>3, Updated
  <2>4. Table(entries', buckets, bucketCap) /\ LiveIn(entries') = LiveIn(entries)
    BY <1>2, <2>3, SameKeys
  <2> QED
    BY <1>1, <1>2, <2>2, <2>3, <2>4
<1>4. CASE ~Found(entries, buckets, bucketCap, k)
  <2> DEFINE n == Len(entries) + 1
  <2>1. /\ entries' = Append(entries, Entry(k, call.value))
        /\ buckets' = [buckets EXCEPT ![FreeBucket(entries, buckets, bucketCap, k)] = n]
        /\ entriesCap' = IF Len(entries) # entriesCap THEN entriesCap
                         ELSE IF entriesCap = 0 THEN 4 ELSE entriesCap * 2
        /\ len' = len + 1
    BY <1>4 DEF Insert
  <2>2. \A i \in LiveIn(entries) : entries[i].key # k
    BY <1>2, <1>4, Finds
  <2>3. Table(entries', buckets', bucketCap)
    BY <1>2, <2>1, <2>2, InsertKeeps
  <2>4. Entry(k, call.value) \in Entries /\ ~Entry(k, call.value).deleted
    BY <1>2 DEF Entry, Entries
  <2>5. /\ entries' \in Seq(Entries) /\ Len(entries') = n
        /\ LiveIn(entries') = LiveIn(entries) \cup {n} /\ n \notin LiveIn(entries)
    BY <2>1, <2>4 DEF LiveIn
  <2>6. Cardinality(LiveIn(entries')) = len + 1
    <3>1. IsFiniteSet(LiveIn(entries))
      BY LiveFinite DEF LiveIn
    <3>2. Cardinality(LiveIn(entries) \cup {n}) = Cardinality(LiveIn(entries)) + 1
      BY <2>5, <3>1, FS_AddElement
    <3> QED
      BY <1>2, <2>5, <3>2
  <2>7. entriesCap' \in Nat /\ n <= entriesCap' /\ len' \in Nat
    BY <2>1
  <2>8. Cardinality(Used(buckets', bucketCap)) <= Len(entries')
    BY <2>3 DEF Table
  <2> QED
    BY <1>1, <1>2, <2>1, <2>3, <2>5, <2>6, <2>7, <2>8
<1> QED
  BY <1>3, <1>4

LEMMA DeleteStep ==
  ASSUME IInv, NEW k \in Keys, Delete(k)
  PROVE  IInv'
<1> USE DEF IInv, Typed, Sized
<1> DEFINE b == Bucket(entries, buckets, bucketCap, k)
           i == buckets[b]
           e == [entries[i] EXCEPT !.deleted = TRUE]
<1>1. /\ mpc = "idle" /\ Found(entries, buckets, bucketCap, k)
      /\ entries' = [entries EXCEPT ![i].deleted = TRUE]
      /\ buckets' = [buckets EXCEPT ![b] = Tombstone]
      /\ len' = len - 1
      /\ UNCHANGED <<entriesCap, bucketCap, mpc, call, at, written, newBuckets, newCap, copy>>
  BY DEF Delete
<1>2. /\ Table(entries, buckets, bucketCap)
      /\ bucketCap \in Nat \ {0}
      /\ Cardinality(Used(buckets, bucketCap)) < bucketCap
      /\ Live = LiveIn(entries) /\ Live' = LiveIn(entries')
  BY <1>1, Room DEF Live, LiveIn, Found
<1>3. i \in LiveIn(entries) /\ b \in 0 .. (bucketCap - 1)
  BY <1>1, <1>2, Finds, SearchEnds
<1>4. i \in DOMAIN entries /\ entries[i] \in Entries
  BY <1>3 DEF LiveIn
<1>5. entries' = [entries EXCEPT ![i] = e]
  BY <1>1, <1>4
<1>6. e \in Entries /\ e.key = entries[i].key /\ e.deleted
  BY <1>4 DEF Entries
<1> HIDE DEF b, e
<1>7. /\ entries' \in Seq(Entries) /\ Len(entries') = Len(entries)
      /\ DeletedIn(entries, entries', i)
  <2> HIDE DEF i
  <2> QED
    BY <1>4, <1>5, <1>6, Updated DEF DeletedIn
<1>8. Table(entries', buckets', bucketCap) /\ LiveIn(entries') = LiveIn(entries) \ {i}
  <2>1. Table(entries', [buckets EXCEPT ![b] = Tombstone], bucketCap)
    BY <1>2, <1>3, <1>7, DeleteKeeps
  <2>2. LiveIn(entries') = LiveIn(entries) \ {i}
    <3> HIDE DEF i
    <3>1. DOMAIN entries' = DOMAIN entries
      BY <1>7
    <3> QED
      BY <1>7, <3>1 DEF LiveIn, DeletedIn
  <2> QED
    BY <1>1, <2>1, <2>2
<1> HIDE DEF i
<1>9. Cardinality(LiveIn(entries')) = len - 1 /\ len - 1 \in Nat
  <2>1. IsFiniteSet(LiveIn(entries)) /\ LiveIn(entries') \subseteq DOMAIN entries'
    BY LiveFinite DEF LiveIn
  <2>2. Cardinality(LiveIn(entries) \ {i}) = Cardinality(LiveIn(entries)) - 1
    BY <1>3, <2>1, FS_RemoveElement
  <2>3. Cardinality(LiveIn(entries')) \in Nat
    BY <1>7, <2>1, LiveFinite
  <2> QED
    BY <1>2, <1>8, <2>2, <2>3
<1>10. Cardinality(Used(buckets', bucketCap)) <= Len(entries')
  BY <1>8 DEF Table
<1> QED
  BY <1>1, <1>2, <1>7, <1>8, <1>9, <1>10

----------------------------------------------------------------------------
LEMMA EmptyBucketIs ==
  ASSUME NEW k \in Keys, NEW cap \in Nat \ {0}, NEW bs, Cardinality(Used(bs, cap)) < cap
  PROVE  \E d \in 0 .. (cap - 1) :
           /\ EmptyBucket(bs, cap, k) = Probe(k, d, cap)
           /\ bs[Probe(k, d, cap)] = Empty
           /\ \A e \in 0 .. (d - 1) : bs[Probe(k, e, cap)] # Empty
<1> DEFINE First(d) == /\ bs[Probe(k, d, cap)] = Empty
                       /\ \A e \in 0 .. (d - 1) : bs[Probe(k, e, cap)] # Empty
           D == CHOOSE d \in 0 .. (cap - 1) : First(d)
<1>1. \E d \in 0 .. (cap - 1) : First(d)
  BY EmptyAhead
<1>2. EmptyBucket(bs, cap, k) = Probe(k, D, cap)
  BY DEF EmptyBucket
<1>3. D \in 0 .. (cap - 1) /\ First(D)
  <2> HIDE DEF First
  <2> QED
    BY <1>1, Zenon
<1> HIDE DEF D
<1> QED
  BY <1>2, <1>3

(* What moving an entry to the front does *)
LEMMA RehashMoves ==
  ASSUME IInv, RehashEntry, ~entries[at].deleted
  PROVE  LET n == written + 1 IN
           /\ written' = n
           /\ newBuckets' =
                [newBuckets EXCEPT ![EmptyBucket(newBuckets, newCap, entries[at].key)] = n]
           /\ n \in 1 .. at /\ n <= at /\ n \in DOMAIN entries /\ n # Empty
           /\ entries[at] \in Entries /\ entries[at].key \in Keys
           /\ entries' \in Seq(Entries) /\ Len(entries') = Len(entries)
           /\ entries'[n] = entries[at]
           /\ \A j \in DOMAIN entries : j # n => entries'[j] = entries[j]
           /\ Live' = (Live \ {at}) \cup {n}
           /\ at \in Live /\ (n # at => n \notin Live)
<1> DEFINE n == written + 1
<1>1. /\ mpc = "rehash" /\ mpc' = "rehash" /\ at <= Len(entries) /\ at' = at + 1
      /\ entries \in Seq(Entries) /\ at \in Nat \ {0} /\ written \in Nat /\ Rehashing
      /\ at \in DOMAIN entries
  BY DEF RehashEntry, IInv, Typed
<1>2. /\ entries' = [entries EXCEPT ![n] = entries[at]]
      /\ newBuckets' = [newBuckets EXCEPT ![EmptyBucket(newBuckets, newCap, entries[at].key)] = n]
      /\ written' = n
  BY DEF RehashEntry
<1>3. n \in 1 .. at /\ n <= at /\ n \in DOMAIN entries /\ n # Empty
  BY <1>1 DEF Rehashing, Empty
<1>4. entries[at] \in Entries
  BY <1>1
<1>5. entries[at].key \in Keys
  BY <1>4 DEF Entries
<1> HIDE DEF n
<1>6. /\ entries' \in Seq(Entries) /\ Len(entries') = Len(entries)
      /\ entries'[n] = entries[at]
      /\ \A j \in DOMAIN entries : j # n => entries'[j] = entries[j]
  BY <1>1, <1>2, <1>3, <1>4, Updated
<1>7. DOMAIN entries' = DOMAIN entries
  BY <1>1, <1>6
<1>8. at \in Live
  BY <1>1 DEF Live
<1>9. n # at => n \notin Live
  BY <1>1, <1>3 DEF Live, n
<1>10. ASSUME NEW x \in DOMAIN entries
       PROVE  x \in Live' <=> x = n \/ (x \in Live /\ x # at)
  <2>1. x \in Live' <=> ~entries'[x].deleted /\ (x <= n \/ x >= at + 1)
    BY <1>1, <1>2, <1>7 DEF Live
  <2>2. x \in Live <=> ~entries[x].deleted /\ (x <= written \/ x >= at)
    BY <1>1 DEF Live
  <2>3. x \in Nat
    BY <1>1
  <2>4. CASE x = n
    BY <1>3, <1>6, <2>1, <2>3, <2>4
  <2>5. CASE x # n
    <3>1. entries'[x] = entries[x]
      BY <1>6, <2>5
    <3> QED
      BY <1>1, <1>3, <2>1, <2>2, <2>3, <2>5, <3>1 DEF n
  <2> QED
    BY <2>4, <2>5
<1>11. Live \subseteq DOMAIN entries /\ Live' \subseteq DOMAIN entries
  BY <1>7 DEF Live
<1>12. Live' = (Live \ {at}) \cup {n}
  BY <1>3, <1>10, <1>11
<1> QED
  BY <1>2, <1>3, <1>4, <1>5, <1>6, <1>8, <1>9, <1>12 DEF n

LEMMA RehashEntryStep ==
  ASSUME IInv, RehashEntry
  PROVE  IInv'
<1> USE DEF IInv, Typed, Sized
<1>1. /\ mpc = "rehash" /\ at <= Len(entries) /\ at' = at + 1
      /\ UNCHANGED <<entriesCap, buckets, bucketCap, len, mpc, call, newCap, copy>>
      /\ at \in DOMAIN entries
  BY DEF RehashEntry
<1>2. Rehashing
  BY <1>1
<1>3. CASE entries[at].deleted
  <2>1. UNCHANGED <<entries, newBuckets, written>>
    BY <1>3 DEF RehashEntry
  <2>2. Live' = Live
    BY <1>1, <1>3, <2>1 DEF Live
  <2>3. Rehashing'
    BY <1>1, <1>2, <2>1, <2>2 DEF Rehashing
  <2> QED
    BY <1>1, <2>1, <2>2, <2>3
<1>4. CASE ~entries[at].deleted
  <2> DEFINE n == written + 1
             k == entries[at].key
  <2>1. /\ newBuckets' = [newBuckets EXCEPT ![EmptyBucket(newBuckets, newCap, k)] = n]
        /\ written' = n
    BY <1>4, RehashMoves
  <2>2. n \in 1 .. at /\ n \in DOMAIN entries /\ entries[at] \in Entries /\ k \in Keys /\ n # Empty
    BY <1>4, RehashMoves
  <2>3. /\ entries' \in Seq(Entries) /\ Len(entries') = Len(entries)
        /\ entries'[n] = entries[at]
        /\ \A j \in DOMAIN entries : j # n => entries'[j] = entries[j]
    BY <1>4, RehashMoves
  <2>4. newCap \in Nat \ {0} /\ Cardinality(Used(newBuckets, newCap)) < newCap
        /\ Cardinality(Used(newBuckets, newCap)) \in Nat
        /\ Cardinality(Used(newBuckets', newCap)) \in Nat
    BY <1>1, <1>2, UsedFinite DEF Rehashing
  <2>5. PICK d \in 0 .. (newCap - 1) :
          /\ EmptyBucket(newBuckets, newCap, k) = Probe(k, d, newCap)
          /\ newBuckets[Probe(k, d, newCap)] = Empty
          /\ \A e \in 0 .. (d - 1) : newBuckets[Probe(k, e, newCap)] # Empty
    <3> HIDE DEF IInv, Typed, Sized, n, k
    <3> QED
      BY <2>2, <2>4, EmptyBucketIs
  <2> HIDE DEF n, k
  <2>6. /\ Cardinality(Used(newBuckets', newCap)) <= Cardinality(Used(newBuckets, newCap)) + 1
        /\ Reachable(n, k, newBuckets', newCap)
        /\ \A i, l : i \notin {Empty, Tombstone} /\ l \in Keys /\ Reachable(i, l, newBuckets, newCap)
                    => Reachable(i, l, newBuckets', newCap)
    BY <1>2, <2>1, <2>2, <2>4, <2>5, PutKeeps DEF Rehashing
  <2>7. newBuckets' \in [0 .. (newCap - 1) -> {Empty} \cup 1 .. n]
    <3>1. Probe(k, d, newCap) \in 0 .. (newCap - 1)
      BY <2>2, <2>4, Probes
    <3>2. newBuckets' = [newBuckets EXCEPT ![Probe(k, d, newCap)] = n]
      BY <2>1, <2>5
    <3>3. n \in 1 .. n /\ {Empty} \cup 1 .. written \subseteq {Empty} \cup 1 .. n
      BY DEF n
    <3>4. newBuckets \in [0 .. (newCap - 1) -> {Empty} \cup 1 .. written]
      BY <1>2 DEF Rehashing
    <3> QED
      BY <3>1, <3>2, <3>3, <3>4
  <2>8. ASSUME NEW i \in 1 .. n
        PROVE  ~entries'[i].deleted /\ Reachable(i, entries'[i].key, newBuckets', newCap)
    <3>1. CASE i = n
      BY <1>4, <2>3, <2>6, <3>1 DEF k
    <3>2. CASE i # n
      <4>1. i \in 1 .. written /\ i \in DOMAIN entries /\ i \notin {Empty, Tombstone}
        BY <1>1, <1>2, <3>2 DEF n, Rehashing, Empty, Tombstone
      <4>2. entries'[i] = entries[i] /\ entries[i].key \in Keys
        <5>1. entries'[i] = entries[i] /\ entries[i] \in Entries
          BY <2>3, <3>2, <4>1
        <5> QED
          BY <5>1 DEF Entries
      <4> QED
        BY <1>2, <2>6, <4>1, <4>2 DEF Rehashing
    <3> QED
      BY <3>1, <3>2
  <2>9. /\ Live' = (Live \ {at}) \cup {n}
        /\ at \in Live /\ (n # at => n \notin Live)
    BY <1>4, RehashMoves DEF n
  <2>10. Cardinality(Live') = len
    <3>1. IsFiniteSet(Live) /\ Cardinality(Live) \in Nat
      BY LiveFinite DEF Live
    <3>2. IsFiniteSet(Live \ {at}) /\ Cardinality(Live \ {at}) = Cardinality(Live) - 1
      BY <2>9, <3>1, FS_RemoveElement
    <3>3. Cardinality((Live \ {at}) \cup {n}) = Cardinality(Live \ {at}) + 1
      BY <2>9, <3>2, FS_AddElement
    <3> QED
      BY <2>9, <3>1, <3>2, <3>3
  <2>11. ASSUME NEW i \in Live', NEW j \in Live', entries'[i].key = entries'[j].key
         PROVE  i = j
    <3>1. ASSUME NEW x \in Live', x # n PROVE x \in Live /\ x # at /\ entries'[x] = entries[x]
      <4>1. x \in Live /\ x # at
        BY <2>9, <3>1
      <4> QED
        BY <2>3, <3>1, <4>1 DEF Live
    <3>2. \A x, y \in Live : entries[x].key = entries[y].key => x = y
      BY <1>2 DEF Rehashing
    <3> QED
      <4>1. CASE i = n /\ j # n
        BY <2>3, <2>9, <2>11, <3>1, <3>2, <4>1
      <4>2. CASE i # n /\ j = n
        BY <2>3, <2>9, <2>11, <3>1, <3>2, <4>2
      <4>3. CASE i # n /\ j # n
        BY <2>11, <3>1, <3>2, <4>3
      <4> QED
        BY <4>1, <4>2, <4>3
  <2>12. Rehashing'
    <3>1. written' < at' /\ at' <= Len(entries') + 1 /\ (Len(entries') + 1) * 2 <= newCap'
      BY <1>1, <1>2, <2>1, <2>2, <2>3 DEF Rehashing
    <3>2. Cardinality(Used(newBuckets', newCap)) <= written'
      <4>1. /\ Cardinality(Used(newBuckets, newCap)) <= written
            /\ written \in Nat /\ written' = written + 1
        BY <1>2, <2>1 DEF Rehashing, n
      <4> HIDE DEF IInv, Typed, Sized
      <4> QED
        BY <2>4, <2>6, <4>1
    <3>3. newBuckets' \in [0 .. (newCap' - 1) -> {Empty} \cup 1 .. written']
      BY <1>1, <2>1, <2>7
    <3>4. \A i \in 1 .. written' :
            ~entries'[i].deleted /\ Reachable(i, entries'[i].key, newBuckets', newCap')
      BY <1>1, <2>1, <2>8
    <3>5. \A i, j \in Live' : entries'[i].key = entries'[j].key => i = j
      BY <2>11
    <3>6. Cardinality(Used(newBuckets', newCap')) <= written'
      BY <1>1, <3>2
    <3> QED
      BY <3>1, <3>3, <3>4, <3>5, <3>6 DEF Rehashing
  <2> QED
    BY <1>1, <2>1, <2>2, <2>3, <2>10, <2>12 DEF n
<1> QED
  BY <1>3, <1>4

LEMMA RehashEndStep ==
  ASSUME IInv, RehashEnd
  PROVE  IInv'
<1> USE DEF IInv, Typed, Sized
<1>1. /\ mpc = "rehash" /\ at > Len(entries) /\ mpc' = "insert"
      /\ entries' = SubSeq(entries, 1, written)
      /\ buckets' = newBuckets /\ bucketCap' = newCap
      /\ at' = 1 /\ written' = 0 /\ newCap' = 0
      /\ UNCHANGED <<entriesCap, len, call, copy>>
  BY DEF RehashEnd
<1>2. Rehashing
  BY <1>1
<1>3. written <= Len(entries)
  BY <1>1, <1>2 DEF Rehashing
<1>4. /\ entries' \in Seq(Entries) /\ Len(entries') = written
      /\ \A i \in 1 .. written : entries'[i] = entries[i]
  BY <1>1, <1>3
<1>5. Live = 1 .. written
  <2>1. \A i \in 1 .. written : ~entries[i].deleted
    BY <1>2 DEF Rehashing
  <2>2. \A i \in DOMAIN entries : i \in Nat /\ i < at
    BY <1>1
  <2>3. DOMAIN entries = 1 .. Len(entries) /\ written \in Nat
    OBVIOUS
  <2> HIDE DEF IInv, Typed, Sized
  <2>4. ASSUME NEW i \in DOMAIN entries PROVE i \in Live <=> i \in 1 .. written
    <3>1. i \in Live <=> ~entries[i].deleted /\ (i <= written \/ i >= at)
      BY <1>1 DEF Live
    <3>2. at \in Nat /\ i \in Nat /\ i < at /\ 1 <= i
      BY <2>2, <2>3 DEF IInv, Typed
    <3> QED
      BY <2>1, <2>3, <3>1, <3>2
  <2> QED
    BY <1>3, <2>3, <2>4 DEF Live
<1>6. LiveIn(entries') = 1 .. written /\ Live' = LiveIn(entries')
  <2>1. DOMAIN entries' = 1 .. written
    BY <1>4
  <2> QED
    BY <1>1, <1>2, <1>4, <2>1 DEF LiveIn, Live, Rehashing
<1>7. buckets' \in [0 .. (bucketCap' - 1) -> Slots(entries')]
  <2>1. {Empty} \cup 1 .. written \subseteq Slots(entries')
    BY <1>4 DEF Slots
  <2> QED
    BY <1>1, <1>2, <2>1 DEF Rehashing
<1>8. Table(entries', buckets', bucketCap')
  <2>1. Cardinality(Used(buckets', bucketCap')) <= Len(entries')
    BY <1>1, <1>2, <1>4 DEF Rehashing
  <2>2. \A i \in LiveIn(entries') : Reachable(i, entries'[i].key, buckets', bucketCap')
    BY <1>1, <1>2, <1>4, <1>6 DEF Rehashing
  <2>3. \A i, j \in LiveIn(entries') : entries'[i].key = entries'[j].key => i = j
    BY <1>2, <1>4, <1>5, <1>6 DEF Rehashing
  <2> QED
    BY <1>4, <1>7, <2>1, <2>2, <2>3 DEF Table
<1>9. Cardinality(Used(buckets', bucketCap')) <= Len(entries')
  BY <1>8 DEF Table
<1>10. (Len(entries') + 1) * 2 <= bucketCap' /\ Len(entries') <= entriesCap'
  BY <1>1, <1>2, <1>3, <1>4 DEF Rehashing
<1> QED
  BY <1>1, <1>4, <1>5, <1>6, <1>8, <1>9, <1>10

----------------------------------------------------------------------------
LEMMA CloneKeeps ==
  ASSUME IInv, Clone
  PROVE  IInv'
<1> USE DEF IInv, Typed, Sized
<1>1. /\ mpc = "idle" /\ mpc' = "double"
      /\ copy' = [entries |-> <<>>, cap |-> len]
      /\ newCap' = IF len = 0 THEN 0 ELSE FirstBuckets
      /\ UNCHANGED <<entries, entriesCap, buckets, bucketCap, len, call, at, written, newBuckets>>
  BY DEF Clone
<1>2. Live' = Live
  BY <1>1 DEF Live
<1>3. newCap' \in Nat \ {1} /\ copy' \in [entries : Seq(Entries), cap : Nat]
  BY <1>1, RtMapAssumption
<1> QED
  BY <1>1, <1>2, <1>3

LEMMA DoubleKeeps ==
  ASSUME IInv, Double
  PROVE  IInv'
<1> USE DEF IInv, Typed, Sized, Double
<1>1. Live' = Live
  BY DEF Live
<1>2. newCap' \in Nat \ {1}
  OBVIOUS
<1> QED
  BY <1>1, <1>2

LEMMA DoubledKeeps ==
  ASSUME IInv, Doubled
  PROVE  IInv'
<1> USE DEF IInv, Typed, Sized
<1>1. /\ mpc = "double" /\ mpc' = "clone" /\ newCap >= copy.cap * 2
      /\ newBuckets' = NoBuckets(newCap) /\ at' = 1
      /\ UNCHANGED <<entries, entriesCap, buckets, bucketCap, len, call, written, newCap, copy>>
  BY DEF Doubled
<1>2. Live' = Live
  BY <1>1 DEF Live
<1>3. Table(<<>>, newBuckets', newCap)
  BY <1>1, EmptyTable
<1>4. Before' = {}
  BY <1>1 DEF Before, LiveIn
<1>5. Cloning'
  BY <1>1, <1>3, <1>4, FS_EmptySet DEF Cloning
<1> QED
  BY <1>1, <1>2, <1>5

(* What is still to be copied has room in the clone. *)
LEMMA Fits ==
  ASSUME IInv
  PROVE  CloneFits
<1> USE DEF IInv, Typed, Sized
<1> SUFFICES ASSUME mpc = "clone", at <= Len(entries), ~entries[at].deleted
             PROVE  /\ ~Full(Len(copy.entries), newCap)
                    /\ Len(copy.entries) < copy.cap
                    /\ ~Found(copy.entries, newBuckets, newCap, entries[at].key)
  BY DEF CloneFits
<1>1. Cloning /\ Table(entries, buckets, bucketCap) /\ Live = LiveIn(entries)
  BY DEF Live, LiveIn
<1>2. at \in LiveIn(entries) /\ at \notin Before /\ Before \subseteq LiveIn(entries)
  BY DEF LiveIn, Before
<1>3. Cardinality(Before) + 1 <= len
  <2>1. IsFiniteSet(Before) /\ IsFiniteSet(LiveIn(entries)) /\ Cardinality(Before) \in Nat
    BY <1>2, LiveFinite DEF LiveIn
  <2>2. Cardinality(Before \cup {at}) = Cardinality(Before) + 1
    BY <1>2, <2>1, FS_AddElement
  <2>3. Cardinality(Before \cup {at}) <= Cardinality(LiveIn(entries))
    BY <1>2, <2>1, FS_Subset
  <2> QED
    BY <1>1, <2>2, <2>3
<1>4. Len(copy.entries) < copy.cap /\ ~Full(Len(copy.entries), newCap)
  BY <1>1, <1>3 DEF Cloning, Full
<1>5. ~Found(copy.entries, newBuckets, newCap, entries[at].key)
  <2>1. newCap \in Nat \ {0} /\ Cardinality(Used(newBuckets, newCap)) < newCap
    <3>1. /\ copy.entries \in Seq(Entries) /\ newCap \in Nat
          /\ Cardinality(Used(newBuckets, newCap)) <= Len(copy.entries)
      BY <1>1 DEF Cloning, Table
    <3>2. (Len(copy.entries) + 1) * 2 <= newCap
      BY <1>4, <3>1 DEF Full
    <3> HIDE DEF IInv, Typed, Sized
    <3>3. newCap \in Nat \ {0} /\ Len(copy.entries) * 2 <= newCap
      BY <3>1, <3>2
    <3> QED
      BY <3>1, <3>3, Room
  <2>2. entries[at] \in Entries
    BY <1>2 DEF LiveIn
  <2>3. ASSUME NEW j \in LiveIn(copy.entries) PROVE copy.entries[j].key # entries[at].key
    <3>1. PICK i \in Before : entries[i].key = copy.entries[j].key
      BY <1>1 DEF Cloning, LiveIn
    <3> QED
      BY <1>1, <1>2, <3>1 DEF Table
  <2> QED
    BY <1>1, <2>1, <2>2, <2>3, Finds DEF Cloning, Entries
<1> QED
  BY <1>4, <1>5

LEMMA CloneEntryKeeps ==
  ASSUME IInv, CloneEntry
  PROVE  IInv'
<1> USE DEF IInv, Typed, Sized
<1>1. /\ mpc = "clone" /\ at <= Len(entries) /\ at' = at + 1
      /\ UNCHANGED <<entries, entriesCap, buckets, bucketCap, len, mpc, call, written, newCap>>
      /\ Cloning
  BY DEF CloneEntry
<1>2. Live' = Live
  BY <1>1 DEF Live
<1>3. CASE entries[at].deleted
  <2>1. UNCHANGED <<newBuckets, copy>>
    BY <1>3 DEF CloneEntry
  <2>2. Before' = Before
    BY <1>1, <1>3 DEF Before, LiveIn
  <2>3. Cloning'
    BY <1>1, <2>1, <2>2 DEF Cloning
  <2> QED
    BY <1>1, <1>2, <2>1, <2>3
<1>4. CASE ~entries[at].deleted
  <2> DEFINE k == entries[at].key
             v == entries[at].value
             n == Len(copy.entries) + 1
  <2>1. /\ copy'.entries = Append(copy.entries, Entry(k, v)) /\ copy'.cap = copy.cap
        /\ copy' \in [entries : Seq(Entries), cap : Nat]
        /\ newBuckets' = [newBuckets EXCEPT ![FreeBucket(copy.entries, newBuckets, newCap, k)] = n]
        /\ ~Full(Len(copy.entries), newCap)
        /\ ~Found(copy.entries, newBuckets, newCap, k)
        /\ k \in Keys /\ v \in Values /\ Entry(k, v) \in Entries
        /\ Entry(k, v).key = k /\ ~Entry(k, v).deleted
    <3>1. entries[at] \in Entries
      BY <1>1
    <3>2. /\ k \in Keys /\ v \in Values /\ Entry(k, v) \in Entries
          /\ Entry(k, v).key = k /\ ~Entry(k, v).deleted
      BY <3>1 DEF Entries, Entry
    <3>3. /\ ~Full(Len(copy.entries), newCap)
          /\ ~Found(copy.entries, newBuckets, newCap, k)
          /\ copy' = [copy EXCEPT !.entries = Append(@, Entry(k, v))]
          /\ newBuckets' = [newBuckets EXCEPT ![FreeBucket(copy.entries, newBuckets, newCap, k)] = n]
      BY <1>4 DEF CloneEntry
    <3> HIDE DEF k, v, n
    <3>4. Append(copy.entries, Entry(k, v)) \in Seq(Entries)
      BY <3>2
    <3>5. /\ copy'.entries = Append(copy.entries, Entry(k, v)) /\ copy'.cap = copy.cap
          /\ copy' \in [entries : Seq(Entries), cap : Nat]
      BY <3>3, <3>4
    <3> QED
      BY <3>2, <3>3, <3>5
  <2> HIDE DEF k, v
  <2>2. newCap \in Nat \ {0} /\ Len(copy.entries) < newCap
        /\ Cardinality(Used(newBuckets, newCap)) < newCap
    <3>1. /\ copy.entries \in Seq(Entries) /\ Len(copy.entries) \in Nat
          /\ (Len(copy.entries) + 1) * 2 <= newCap
          /\ Cardinality(Used(newBuckets, newCap)) <= Len(copy.entries)
      <4>1. /\ copy.entries \in Seq(Entries) /\ newCap \in Nat
            /\ Cardinality(Used(newBuckets, newCap)) <= Len(copy.entries)
        BY <1>1 DEF Cloning, Table
      <4> HIDE DEF IInv, Typed, Sized
      <4> QED
        BY <2>1, <4>1 DEF Full
    <3>2. Cardinality(Used(newBuckets, newCap)) < newCap
      BY <3>1, UsedFinite
    <3> QED
      BY <3>1, <3>2
  <2>3. \A i \in LiveIn(copy.entries) : copy.entries[i].key # k
    BY <1>1, <2>1, <2>2, Finds DEF Cloning
  <2>4. Table(copy'.entries, newBuckets', newCap)
    <3>1. Table(copy.entries, newBuckets, newCap)
      BY <1>1 DEF Cloning
    <3>2. Table(Append(copy.entries, Entry(k, v)),
                [newBuckets EXCEPT ![FreeBucket(copy.entries, newBuckets, newCap, k)] = n], newCap)
      BY <2>1, <2>2, <2>3, <3>1, InsertKeeps
    <3> QED
      BY <2>1, <3>2
  <2>5. /\ Len(copy'.entries) = n
        /\ \A j \in DOMAIN copy'.entries :
             \/ j \in DOMAIN copy.entries /\ copy'.entries[j] = copy.entries[j]
             \/ copy'.entries[j] = Entry(k, v)
    BY <2>1
  <2>6. Before' = Before \cup {at} /\ at \notin Before
    BY <1>1, <1>4 DEF Before, LiveIn
  <2>7. Cardinality(Before') = Cardinality(Before) + 1
    <3>1. IsFiniteSet(Before)
      BY LiveFinite DEF Before, LiveIn
    <3> QED
      BY <2>6, <3>1, FS_AddElement
  <2>8. ASSUME NEW j \in DOMAIN copy'.entries
        PROVE  ~copy'.entries[j].deleted /\ \E i \in Before' : entries'[i].key = copy'.entries[j].key
    <3>1. CASE copy'.entries[j] = Entry(k, v)
      BY <1>1, <2>1, <2>6, <3>1 DEF k
    <3>2. CASE j \in DOMAIN copy.entries /\ copy'.entries[j] = copy.entries[j]
      BY <1>1, <2>6, <3>2 DEF Cloning
    <3> QED
      BY <2>5, <3>1, <3>2
  <2>9. Cloning'
    <3>1. Len(copy'.entries) = Cardinality(Before)'
      BY <1>1, <2>5, <2>7 DEF Cloning
    <3>2. at' <= Len(entries)' + 1 /\ copy'.cap * 2 <= newCap'
      BY <1>1, <2>1 DEF Cloning
    <3> QED
      BY <1>1, <2>4, <2>8, <3>1, <3>2 DEF Cloning
  <2> QED
    BY <1>1, <1>2, <2>1, <2>9
<1> QED
  BY <1>3, <1>4

LEMMA CloneEndKeeps ==
  ASSUME IInv, CloneEnd
  PROVE  IInv'
<1> USE DEF IInv, Typed, Sized
<1>1. /\ mpc = "clone" /\ mpc' = "idle" /\ Cloning
      /\ entries' = copy.entries /\ entriesCap' = copy.cap
      /\ buckets' = newBuckets /\ bucketCap' = newCap
      /\ len' = Len(copy.entries)
      /\ at' = 1 /\ newCap' = 0 /\ copy' = NoCopy /\ UNCHANGED <<call, written>>
  BY DEF CloneEnd
<1>2. LiveIn(copy.entries) = 1 .. Len(copy.entries) /\ Live' = LiveIn(entries')
  <2>1. copy.entries \in Seq(Entries) /\ \A j \in DOMAIN copy.entries : ~copy.entries[j].deleted
    BY <1>1 DEF Cloning
  <2> HIDE DEF IInv, Typed, Sized
  <2> QED
    BY <1>1, <2>1 DEF LiveIn, Live
<1>3. Cardinality(Live') = len' /\ Len(copy.entries) \in Nat
  <2>1. Len(copy.entries) \in Nat
    OBVIOUS
  <2>2. Cardinality(1 .. Len(copy.entries)) = Len(copy.entries)
    <3> DEFINE n == Len(copy.entries)
    <3>1. n \in Nat
      BY <2>1
    <3> HIDE DEF n, IInv, Typed, Sized
    <3>2. Cardinality(1 .. n) = n
      BY <3>1, FS_Interval
    <3> QED
      BY <3>2 DEF n
  <2> QED
    <3>1. Cardinality(Live') = Len(copy.entries)
      BY <1>1, <1>2, <2>2
    <3> QED
      BY <1>1, <2>1, <3>1
<1>4. Len(copy.entries) <= copy.cap
  <2>1. Live = LiveIn(entries) /\ Before \subseteq Live
    BY <1>1 DEF Live, LiveIn, Before
  <2>2. IsFiniteSet(Live) /\ Cardinality(Before) <= Cardinality(Live)
    BY <2>1, LiveFinite, FS_Subset DEF LiveIn
  <2> QED
    BY <1>1, <2>2 DEF Cloning
<1>5. Table(entries', buckets', bucketCap')
  BY <1>1 DEF Cloning
<1>6. Len(entries') * 2 <= bucketCap' /\ Cardinality(Used(buckets', bucketCap')) <= Len(entries')
  <2>1. copy.cap * 2 <= newCap /\ copy.cap \in Nat /\ newCap \in Nat
    BY <1>1 DEF Cloning
  <2>2. Cardinality(Used(buckets', bucketCap')) <= Len(entries')
    BY <1>5 DEF Table
  <2> HIDE DEF IInv, Typed, Sized
  <2> QED
    BY <1>1, <1>3, <1>4, <2>1, <2>2
<1>7. copy' \in [entries : Seq(Entries), cap : Nat]
  BY <1>1 DEF NoCopy
<1> QED
  BY <1>1, <1>3, <1>4, <1>5, <1>6, <1>7

----------------------------------------------------------------------------
LEMMA Stutters ==
  ASSUME IInv, UNCHANGED mapVars
  PROVE  IInv'
  BY DEF IInv, Typed, Sized, Rehashing, Cloning, Before, Live, LiveIn, mapVars

(* The inductive invariant holds of every map. *)
LEMMA Invariant == MapSpec => []IInv
<1>1. MapInit => IInv
  BY Starts
<1>2. IInv /\ [MapNext]_mapVars => IInv'
  BY SetKeeps, InsertStep, DeleteStep, RehashEntryStep, RehashEndStep, CloneKeeps, DoubleKeeps,
     DoubledKeeps, CloneEntryKeeps, CloneEndKeeps, Stutters DEF MapNext
<1> QED
  BY <1>1, <1>2, PTL DEF MapSpec

(* A search for any key ends, in the table of the map and in the one being *)
(* filled: deletes leave tombstones and never empty a bucket, but what is  *)
(* used stays below the number of buckets (rt_map_find_bucket loops until  *)
(* it comes to an empty one).                                              *)
THEOREM SearchesEnd == MapSpec => []ProbeEnds
<1>1. ASSUME IInv, NEW k \in Keys, bucketCap # 0
      PROVE  \E d \in 0 .. (bucketCap - 1) : Stops(entries, buckets, bucketCap, k, d)
  <2>1. bucketCap \in Nat \ {0} /\ Cardinality(Used(buckets, bucketCap)) < bucketCap
    BY <1>1, Room DEF IInv, Typed, Sized
  <2> QED
    BY <2>1, SearchEnds
<1>2. ASSUME IInv, NEW k \in Keys, mpc \in {"rehash", "clone"}, newCap # 0
      PROVE  \E d \in 0 .. (newCap - 1) : newBuckets[Probe(k, d, newCap)] = Empty
  <2>1. newCap \in Nat \ {0}
    BY <1>2 DEF IInv, Typed
  <2>2. Cardinality(Used(newBuckets, newCap)) < newCap
    <3>1. CASE mpc = "rehash"
      BY <1>2, <2>1, <3>1, UsedFinite DEF IInv, Typed, Rehashing
    <3>2. CASE mpc = "clone"
      <4>1. Cardinality(Before) <= Cardinality(Live) /\ Cardinality(Before) \in Nat
        <5>1. Before \subseteq Live /\ Live \subseteq DOMAIN entries /\ Before \subseteq DOMAIN entries
          BY <3>2 DEF Live, LiveIn, Before
        <5> QED
          BY <1>2, <5>1, LiveFinite, FS_Subset DEF IInv, Typed
      <4> QED
        <5>1. /\ copy.cap * 2 <= newCap /\ Len(copy.entries) = Cardinality(Before)
              /\ Cardinality(Used(newBuckets, newCap)) <= Len(copy.entries)
          BY <1>2, <3>2 DEF IInv, Cloning, Table
        <5>2. Cardinality(Live) = len /\ len <= copy.cap /\ copy.cap \in Nat /\ len \in Nat
          BY <1>2, <3>2 DEF IInv, Typed, Sized
        <5>3. Cardinality(Used(newBuckets, newCap)) \in Nat
          BY <2>1, UsedFinite
        <5> QED
          BY <2>1, <4>1, <5>1, <5>2, <5>3
    <3> QED
      BY <1>2, <3>1, <3>2
  <2> QED
    BY <2>1, <2>2, EmptyAhead
<1>3. IInv => ProbeEnds
  BY <1>1, <1>2 DEF ProbeEnds
<1> QED
  BY <1>3, Invariant, PTL

(* Whatever was set, deleted, rehashed and cloned, a search finds a key    *)
(* exactly when a live entry has it, and finds that entry.                 *)
THEOREM SearchesFind == MapSpec => []FindsLive
<1>1. ASSUME IInv, mpc \in {"idle", "insert"}
      PROVE  /\ Cardinality(Live) = len
             /\ Len(entries) <= entriesCap
             /\ \A k \in Keys :
                  Found(entries, buckets, bucketCap, k) <=> \E i \in Live : entries[i].key = k
             /\ \A i \in Live : buckets[Bucket(entries, buckets, bucketCap, entries[i].key)] = i
  <2>1. /\ Table(entries, buckets, bucketCap) /\ Live = LiveIn(entries)
        /\ Cardinality(Live) = len /\ Len(entries) <= entriesCap
    BY <1>1 DEF IInv, Sized, Live, LiveIn
  <2>2. CASE bucketCap = 0
    <3>1. Live = {}
      BY <1>1, <2>1, <2>2 DEF IInv, Typed, Sized, LiveIn
    <3> QED
      BY <2>1, <2>2, <3>1 DEF Found
  <2>3. CASE bucketCap # 0
    <3>1. bucketCap \in Nat \ {0} /\ Cardinality(Used(buckets, bucketCap)) < bucketCap
      BY <1>1, <2>3, Room DEF IInv, Typed, Sized
    <3>2. \A i \in Live : entries[i].key \in Keys
      <4>1. \A i \in Live : entries[i] \in Entries
        BY <1>1, <2>1 DEF IInv, Typed, LiveIn
      <4> QED
        BY <4>1 DEF Entries
    <3> QED
      BY <2>1, <3>1, <3>2, Finds
  <2> QED
    BY <2>2, <2>3
<1>2. IInv => FindsLive
  BY <1>1 DEF FindsLive
<1> QED
  BY <1>2, Invariant, PTL

(* The sets of rt_map_clone neither rehash nor grow the entries of the     *)
(* clone, nor come upon a key twice: CloneEntry never waits.               *)
THEOREM ClonesFit == MapSpec => []CloneFits
  BY Invariant, Fits, PTL

----------------------------------------------------------------------------
(* The content of the map whose entries es count at the positions in S *)
PresentIn(es, S) == {es[i].key : i \in S}
DictOf(es, S) == [k \in PresentIn(es, S) |-> es[CHOOSE i \in S : es[i].key = k].value]
BeforeOf(es, S) ==
  {p \in PresentIn(es, S) \X PresentIn(es, S) :
     \E i, j \in S : i < j /\ es[i].key = p[1] /\ es[j].key = p[2]}

Positions(S) == S \subseteq Nat
UniqueIn(es, S) == \A i, j \in S : es[i].key = es[j].key => i = j

LEMMA DictHas ==
  ASSUME NEW es, NEW S, UniqueIn(es, S)
  PROVE  /\ DictOf(es, S) = [k \in PresentIn(es, S) |-> DictOf(es, S)[k]]
         /\ \A i \in S : es[i].key \in PresentIn(es, S) /\ DictOf(es, S)[es[i].key] = es[i].value
<1>1. ASSUME NEW i \in S
      PROVE  es[i].key \in PresentIn(es, S) /\ DictOf(es, S)[es[i].key] = es[i].value
  <2> DEFINE k == es[i].key
             c == CHOOSE j \in S : es[j].key = k
  <2>1. c \in S /\ es[c].key = k
    <3>1. \E j \in S : es[j].key = k
      OBVIOUS
    <3> HIDE DEF k
    <3> QED
      BY <3>1, Zenon
  <2>2. k \in PresentIn(es, S)
    BY DEF PresentIn
  <2>3. DictOf(es, S)[k] = es[c].value
    BY <2>2, Zenon DEF DictOf
  <2> HIDE DEF c
  <2>4. c = i
    BY <2>1 DEF UniqueIn
  <2> QED
    BY <2>2, <2>3, <2>4
<1>2. DictOf(es, S) = [k \in PresentIn(es, S) |-> DictOf(es, S)[k]]
  BY DEF DictOf
<1> QED
  BY <1>1, <1>2

(* Nothing else holds those keys with those values. *)
LEMMA DictIs ==
  ASSUME NEW es, NEW S, UniqueIn(es, S), NEW F, NEW D, F = [k \in D |-> F[k]],
         D = PresentIn(es, S), \A i \in S : F[es[i].key] = es[i].value
  PROVE  F = DictOf(es, S)
<1> DEFINE G == DictOf(es, S)
<1>1. G = [k \in D |-> G[k]] /\ \A i \in S : G[es[i].key] = es[i].value
  BY DictHas
<1> HIDE DEF G
<1>2. \A k \in D : F[k] = G[k]
  BY <1>1 DEF PresentIn
<1>3. F = G
  BY <1>1, <1>2
<1> QED
  BY <1>3 DEF G

(* Entries that move, in their order and with what they hold, hold the same *)
(* content where they come to.                                              *)
Moves(m, es, S, fs, T) ==
  /\ \A i \in S : m[i] \in T /\ fs[m[i]].key = es[i].key /\ fs[m[i]].value = es[i].value
  /\ \A j \in T : \E i \in S : m[i] = j
  /\ \A i, j \in S : i < j => m[i] < m[j]

LEMMA MovedSame ==
  ASSUME NEW es, NEW S, Positions(S), UniqueIn(es, S),
         NEW fs, NEW T, Positions(T),
         NEW m, Moves(m, es, S, fs, T)
  PROVE  DictOf(fs, T) = DictOf(es, S) /\ BeforeOf(fs, T) = BeforeOf(es, S)
<1>0. UniqueIn(fs, T)
  <2> SUFFICES ASSUME NEW x \in T, NEW y \in T, fs[x].key = fs[y].key
               PROVE  x = y
    BY DEF UniqueIn
  <2>1. PICK i \in S, j \in S : m[i] = x /\ m[j] = y
    BY DEF Moves
  <2>2. es[i].key = es[j].key
    BY <2>1 DEF Moves
  <2> QED
    BY <2>1, <2>2 DEF UniqueIn
<1>1. PresentIn(fs, T) = PresentIn(es, S)
  <2>1. ASSUME NEW i \in S PROVE es[i].key \in PresentIn(fs, T)
    <3>1. m[i] \in T /\ fs[m[i]].key = es[i].key
      BY DEF Moves
    <3> QED
      BY <3>1, Zenon DEF PresentIn
  <2>2. ASSUME NEW j \in T PROVE fs[j].key \in PresentIn(es, S)
    <3>1. PICK i \in S : m[i] = j
      BY DEF Moves
    <3>2. fs[j].key = es[i].key
      BY <3>1 DEF Moves
    <3> QED
      BY <3>2, Zenon DEF PresentIn
  <2> QED
    BY <2>1, <2>2 DEF PresentIn
<1>2. DictOf(fs, T) = DictOf(es, S)
  <2> DEFINE F == DictOf(fs, T)
  <2>1. F = [k \in PresentIn(fs, T) |-> F[k]] /\ \A j \in T : F[fs[j].key] = fs[j].value
    BY <1>0, DictHas
  <2> HIDE DEF F
  <2>2. \A i \in S : F[es[i].key] = es[i].value
    BY <2>1 DEF Moves
  <2>3. F = DictOf(es, S)
    BY <1>1, <2>1, <2>2, DictIs
  <2> QED
    BY <2>3 DEF F
<1>3. ASSUME NEW k, NEW l
      PROVE  (\E i, j \in S : i < j /\ es[i].key = k /\ es[j].key = l)
               <=> (\E i, j \in T : i < j /\ fs[i].key = k /\ fs[j].key = l)
  <2>1. ASSUME NEW i \in S, NEW j \in S, i < j /\ es[i].key = k /\ es[j].key = l
        PROVE  \E x, y \in T : x < y /\ fs[x].key = k /\ fs[y].key = l
    BY <2>1 DEF Moves
  <2>2. ASSUME NEW x \in T, NEW y \in T, x < y /\ fs[x].key = k /\ fs[y].key = l
        PROVE  \E i, j \in S : i < j /\ es[i].key = k /\ es[j].key = l
    <3>1. PICK i \in S, j \in S : m[i] = x /\ m[j] = y
      BY DEF Moves
    <3>2. es[i].key = k /\ es[j].key = l
      BY <2>2, <3>1 DEF Moves
    <3>3. i \in Nat /\ j \in Nat /\ x \in Nat /\ y \in Nat
      BY DEF Positions
    <3>4. j < i => y < x
      BY <3>1 DEF Moves
    <3>5. i < j
      BY <2>2, <3>1, <3>3, <3>4
    <3> QED
      BY <3>2, <3>5
  <2> QED
    BY <2>1, <2>2
<1>4. BeforeOf(fs, T) = BeforeOf(es, S)
  BY <1>1, <1>3 DEF BeforeOf
<1> QED
  BY <1>1, <1>2, <1>4

(* What becomes of the content when a key is given a value, is added, or is *)
(* removed                                                                 *)
WithValue(D, k, v) == [D EXCEPT ![k] = v]
WithKey(D, k, v) == [x \in DOMAIN D \cup {k} |-> IF x = k THEN v ELSE D[x]]
WithoutKey(D, k) == [x \in DOMAIN D \ {k} |-> D[x]]
WithLast(B, D, k) == B \cup ((DOMAIN D) \X {k})
WithoutPairs(B, k) == {p \in B : p[1] # k /\ p[2] # k}

Last(n, S) == n \in Nat /\ \A i \in S : i < n

(* One entry is given a value, is put at the end, or stops counting. *)
LEMMA ReplacedIn ==
  ASSUME NEW es, NEW S, UniqueIn(es, S), NEW fs, NEW i \in S, NEW v,
         \A j \in S : fs[j].key = es[j].key /\ fs[j].value = IF j = i THEN v ELSE es[j].value
  PROVE  /\ es[i].key \in DOMAIN DictOf(es, S)
         /\ DictOf(fs, S) = WithValue(DictOf(es, S), es[i].key, v)
         /\ BeforeOf(fs, S) = BeforeOf(es, S)
<1> DEFINE k == es[i].key
           D == DictOf(es, S)
           F == [D EXCEPT ![k] = v]
<1>1. /\ D = [x \in PresentIn(es, S) |-> D[x]]
      /\ \A j \in S : es[j].key \in PresentIn(es, S) /\ D[es[j].key] = es[j].value
  BY DictHas
<1>2. PresentIn(fs, S) = PresentIn(es, S)
  BY DEF PresentIn
<1>3. BeforeOf(fs, S) = BeforeOf(es, S)
  BY <1>2 DEF BeforeOf
<1>4. UniqueIn(fs, S)
  BY DEF UniqueIn
<1> HIDE DEF D
<1>5. k \in PresentIn(es, S) /\ DOMAIN D = PresentIn(es, S)
  BY <1>1
<1>6. F = [x \in PresentIn(es, S) |-> F[x]]
  BY <1>1, <1>5
<1>7. \A j \in S : F[fs[j].key] = fs[j].value
  BY <1>1, <1>5 DEF UniqueIn
<1> HIDE DEF F
<1>8. F = DictOf(fs, S)
  BY <1>2, <1>4, <1>6, <1>7, DictIs
<1> QED
  BY <1>3, <1>5, <1>8 DEF D, F, WithValue

LEMMA AddedTo ==
  ASSUME NEW es, NEW S, Positions(S), UniqueIn(es, S), NEW fs, NEW n, Last(n, S),
         \A i \in S : fs[i] = es[i], fs[n].key \notin PresentIn(es, S)
  PROVE  /\ fs[n].key \notin DOMAIN DictOf(es, S)
         /\ DictOf(fs, S \cup {n}) = WithKey(DictOf(es, S), fs[n].key, fs[n].value)
         /\ BeforeOf(fs, S \cup {n}) = WithLast(BeforeOf(es, S), DictOf(es, S), fs[n].key)
<1> DEFINE D == DictOf(es, S)
           k == fs[n].key
           T == S \cup {n}
           F == [x \in DOMAIN D \cup {k} |-> IF x = k THEN fs[n].value ELSE D[x]]
<1>0. n \in Nat /\ \A i \in S : i < n
  BY DEF Last
<1>1. /\ D = [x \in PresentIn(es, S) |-> D[x]]
      /\ \A j \in S : es[j].key \in PresentIn(es, S) /\ D[es[j].key] = es[j].value
  BY DictHas
<1> HIDE DEF D
<1>2. DOMAIN D = PresentIn(es, S) /\ k \notin DOMAIN D
  BY <1>1
<1>3. PresentIn(fs, T) = PresentIn(es, S) \cup {k}
  BY DEF PresentIn
<1>4. UniqueIn(fs, T)
  <2>1. \A i \in S : fs[i].key # k /\ fs[i].key = es[i].key
    BY <1>0, <1>1
  <2> QED
    BY <2>1 DEF UniqueIn
<1>5. F = DictOf(fs, T)
  <2>1. F = [x \in DOMAIN D \cup {k} |-> F[x]]
    OBVIOUS
  <2>2. \A i \in T : F[fs[i].key] = fs[i].value
    <3>1. ASSUME NEW i \in S PROVE F[fs[i].key] = fs[i].value
      <4>1. fs[i] = es[i] /\ es[i].key \in DOMAIN D /\ es[i].key # k /\ D[es[i].key] = es[i].value
        BY <1>1, <1>2
      <4> QED
        BY <4>1
    <3>2. F[k] = fs[n].value
      OBVIOUS
    <3> QED
      BY <3>1, <3>2
  <2>3. DOMAIN D \cup {k} = PresentIn(fs, T)
    BY <1>2, <1>3
  <2> HIDE DEF F, T, k
  <2>4. F = [x \in PresentIn(fs, T) |-> F[x]]
    BY <2>1, <2>3
  <2> QED
    BY <1>4, <2>2, <2>4, DictIs
<1>6. ASSUME NEW x, NEW y
      PROVE  (\E i, j \in T : i < j /\ fs[i].key = x /\ fs[j].key = y)
               <=> \/ \E i, j \in S : i < j /\ es[i].key = x /\ es[j].key = y
                   \/ x \in PresentIn(es, S) /\ y = k
  <2>1. ASSUME NEW i \in T, NEW j \in T, i < j, fs[i].key = x, fs[j].key = y
        PROVE  \/ \E a, b \in S : a < b /\ es[a].key = x /\ es[b].key = y
               \/ x \in PresentIn(es, S) /\ y = k
    <3>1. i \in S
      <4>1. CASE i = n
        <5>1. n < j /\ (j \in S => j \in Nat)
          BY <1>0, <2>1, <4>1 DEF Positions
        <5>2. j = n \/ j < n
          BY <1>0
        <5> QED
          BY <1>0, <5>1, <5>2
      <4> QED
        BY <4>1
    <3>2. fs[i] = es[i]
      BY <3>1
    <3>3. CASE j = n
      BY <1>1, <2>1, <3>1, <3>2, <3>3
    <3>4. CASE j \in S
      BY <2>1, <3>1, <3>2, <3>4
    <3> QED
      BY <3>3, <3>4
  <2>2. ASSUME NEW a \in S, NEW b \in S, a < b, es[a].key = x, es[b].key = y
        PROVE  \E i, j \in T : i < j /\ fs[i].key = x /\ fs[j].key = y
    BY <2>2
  <2>3. ASSUME x \in PresentIn(es, S), y = k
        PROVE  \E i, j \in T : i < j /\ fs[i].key = x /\ fs[j].key = y
    <3>1. PICK i \in S : es[i].key = x
      BY <2>3 DEF PresentIn
    <3>2. i \in T /\ n \in T /\ i < n /\ fs[i].key = x /\ fs[n].key = y
      BY <1>0, <2>3, <3>1
    <3> HIDE DEF T, k
    <3> QED
      BY <3>2
  <2> QED
    BY <2>1, <2>2, <2>3
<1>7. BeforeOf(fs, T) = BeforeOf(es, S) \cup (PresentIn(es, S) \X {k})
  <2> HIDE DEF T, k
  <2>1. \A i, j \in S : es[i].key \in PresentIn(es, S) /\ es[j].key \in PresentIn(es, S)
    BY <1>1
  <2>2. \A p \in PresentIn(fs, T) \X PresentIn(fs, T) :
          p \in BeforeOf(fs, T) <=> p \in BeforeOf(es, S) \cup (PresentIn(es, S) \X {k})
    <3> TAKE p \in PresentIn(fs, T) \X PresentIn(fs, T)
    <3>1. p = <<p[1], p[2]>>
      OBVIOUS
    <3>2. p \in BeforeOf(fs, T) <=> \E i, j \in T : i < j /\ fs[i].key = p[1] /\ fs[j].key = p[2]
      BY DEF BeforeOf
    <3>3. p \in BeforeOf(es, S) <=> \E i, j \in S : i < j /\ es[i].key = p[1] /\ es[j].key = p[2]
      BY <2>1, <3>1 DEF BeforeOf
    <3>4. p \in PresentIn(es, S) \X {k} <=> p[1] \in PresentIn(es, S) /\ p[2] = k
      BY <3>1
    <3>5. (\E i, j \in T : i < j /\ fs[i].key = p[1] /\ fs[j].key = p[2])
            <=> \/ \E i, j \in S : i < j /\ es[i].key = p[1] /\ es[j].key = p[2]
                \/ p[1] \in PresentIn(es, S) /\ p[2] = k
      <4> DEFINE x == p[1]
                 y == p[2]
      <4> HIDE DEF x, y
      <4>1. (\E i, j \in T : i < j /\ fs[i].key = x /\ fs[j].key = y)
              <=> \/ \E i, j \in S : i < j /\ es[i].key = x /\ es[j].key = y
                  \/ x \in PresentIn(es, S) /\ y = k
        BY <1>6, Zenon
      <4> QED
        BY <4>1, Zenon DEF x, y
    <3> QED
      BY <3>2, <3>3, <3>4, <3>5, Zenon
  <2>3. /\ BeforeOf(fs, T) \subseteq PresentIn(fs, T) \X PresentIn(fs, T)
        /\ BeforeOf(es, S) \subseteq PresentIn(fs, T) \X PresentIn(fs, T)
        /\ PresentIn(es, S) \X {k} \subseteq PresentIn(fs, T) \X PresentIn(fs, T)
    BY <1>3 DEF BeforeOf
  <2> QED
    BY <2>2, <2>3
<1> QED
  BY <1>2, <1>5, <1>7 DEF D, WithKey, WithLast

LEMMA RemovedFrom ==
  ASSUME NEW es, NEW S, UniqueIn(es, S), NEW fs, NEW i \in S,
         \A j \in S \ {i} : fs[j].key = es[j].key /\ fs[j].value = es[j].value
  PROVE  /\ es[i].key \in DOMAIN DictOf(es, S)
         /\ DictOf(fs, S \ {i}) = WithoutKey(DictOf(es, S), es[i].key)
         /\ BeforeOf(fs, S \ {i}) = WithoutPairs(BeforeOf(es, S), es[i].key)
<1> DEFINE D == DictOf(es, S)
           k == es[i].key
           T == S \ {i}
           F == [x \in DOMAIN D \ {k} |-> D[x]]
<1>1. /\ D = [x \in PresentIn(es, S) |-> D[x]]
      /\ \A j \in S : es[j].key \in PresentIn(es, S) /\ D[es[j].key] = es[j].value
  BY DictHas
<1> HIDE DEF D
<1>2. DOMAIN D = PresentIn(es, S) /\ k \in DOMAIN D
  BY <1>1
<1>3. \A j \in S : j \in T <=> es[j].key # k
  BY DEF UniqueIn
<1>4. PresentIn(fs, T) = PresentIn(es, S) \ {k}
  BY <1>3 DEF PresentIn
<1>5. UniqueIn(fs, T)
  BY DEF UniqueIn
<1>6. F = DictOf(fs, T)
  <2>1. F = [x \in DOMAIN D \ {k} |-> F[x]]
    OBVIOUS
  <2>2. \A j \in T : F[fs[j].key] = fs[j].value
    BY <1>1, <1>2, <1>3
  <2>3. DOMAIN D \ {k} = PresentIn(fs, T)
    BY <1>2, <1>4
  <2> HIDE DEF F, T, k
  <2>4. F = [x \in PresentIn(fs, T) |-> F[x]]
    BY <2>1, <2>3
  <2> QED
    BY <1>5, <2>2, <2>4, DictIs
<1>7. BeforeOf(fs, T) = {p \in BeforeOf(es, S) : p[1] # k /\ p[2] # k}
  <2>1. ASSUME NEW p \in PresentIn(es, S) \X PresentIn(es, S), p[1] # k /\ p[2] # k
        PROVE  (\E a, b \in T : a < b /\ fs[a].key = p[1] /\ fs[b].key = p[2])
                 <=> (\E a, b \in S : a < b /\ es[a].key = p[1] /\ es[b].key = p[2])
    BY <1>3, <2>1
  <2>2. \A p \in PresentIn(es, S) \X PresentIn(es, S) :
          p \in PresentIn(fs, T) \X PresentIn(fs, T) <=> p[1] # k /\ p[2] # k
    BY <1>4
  <2> HIDE DEF T, k
  <2>3. PresentIn(fs, T) \X PresentIn(fs, T) \subseteq PresentIn(es, S) \X PresentIn(es, S)
    BY <1>4
  <2> QED
    BY <2>1, <2>2, <2>3 DEF BeforeOf
<1> QED
  BY <1>2, <1>6, <1>7 DEF D, WithoutKey, WithoutPairs

----------------------------------------------------------------------------
(* The clone holds what the entries before at hold, in their order. *)
InOrder ==
  mpc = "clone" =>
    \E m \in [Before -> DOMAIN copy.entries] :
      Moves(m, entries, Before, copy.entries, DOMAIN copy.entries)

LEMMA CloneEntryOrders ==
  ASSUME IInv, InOrder, CloneEntry
  PROVE  InOrder'
<1>1. /\ mpc = "clone" /\ at <= Len(entries) /\ at' = at + 1 /\ mpc' = "clone"
      /\ UNCHANGED entries
  BY DEF CloneEntry
<1>2. /\ entries \in Seq(Entries) /\ copy \in [entries : Seq(Entries), cap : Nat] /\ at \in Nat \ {0}
  BY DEF IInv, Typed
<1>3. PICK m \in [Before -> DOMAIN copy.entries] :
        Moves(m, entries, Before, copy.entries, DOMAIN copy.entries)
  BY <1>1 DEF InOrder
<1>4. CASE entries[at].deleted
  <2>1. UNCHANGED copy
    BY <1>4 DEF CloneEntry
  <2>2. Before' = Before
    BY <1>1, <1>2, <1>4 DEF Before, LiveIn
  <2> QED
    BY <1>1, <1>3, <2>1, <2>2 DEF InOrder
<1>5. CASE ~entries[at].deleted
  <2> DEFINE es == copy.entries
             fs == copy'.entries
             n == Len(es) + 1
             e == Entry(entries[at].key, entries[at].value)
             w == [i \in Before \cup {at} |-> IF i = at THEN n ELSE m[i]]
  <2>1. es \in Seq(Entries) /\ n \in Nat /\ DOMAIN es = 1 .. (n - 1)
    BY <1>2
  <2>2. fs = Append(es, e)
    BY <1>2, <1>5 DEF CloneEntry
  <2>3. Before' = Before \cup {at} /\ at \notin Before /\ \A i \in Before : i < at /\ i \in Nat
    BY <1>1, <1>2, <1>5 DEF Before, LiveIn
  <2>4. e.key = entries[at].key /\ e.value = entries[at].value
    BY DEF Entry
  <2> HIDE DEF e, es, fs
  <2>5. DOMAIN fs = 1 .. n /\ fs[n] = e /\ \A j \in DOMAIN es : fs[j] = es[j]
    BY <2>1, <2>2
  <2>6. /\ \A i \in Before : /\ m[i] \in 1 .. (n - 1)
                             /\ es[m[i]].key = entries[i].key /\ es[m[i]].value = entries[i].value
        /\ \A j \in 1 .. (n - 1) : \E i \in Before : m[i] = j
        /\ \A i, j \in Before : i < j => m[i] < m[j]
    BY <1>3, <2>1 DEF Moves, es
  <2>7. w[at] = n /\ \A i \in Before : w[i] = m[i]
    BY <2>3
  <2>8. w \in [Before' -> DOMAIN fs]
    BY <2>1, <2>3, <2>5, <2>6
  <2> HIDE DEF w, n
  <2>9. Moves(w, entries, Before', fs, DOMAIN fs)
    <3>1. ASSUME NEW i \in Before'
          PROVE  w[i] \in DOMAIN fs /\ fs[w[i]].key = entries[i].key /\ fs[w[i]].value = entries[i].value
      <4>1. CASE i = at
        BY <2>1, <2>4, <2>5, <2>7, <2>8, <4>1
      <4>2. CASE i \in Before
        BY <2>1, <2>5, <2>6, <2>7, <2>8, <4>2
      <4> QED
        BY <2>3, <4>1, <4>2
    <3>2. ASSUME NEW j \in DOMAIN fs PROVE \E i \in Before' : w[i] = j
      <4>1. CASE j = n
        BY <2>3, <2>7, <4>1
      <4>2. CASE j \in 1 .. (n - 1)
        BY <2>3, <2>6, <2>7, <4>2
      <4> QED
        BY <2>1, <2>5, <4>1, <4>2
    <3>3. ASSUME NEW i \in Before', NEW j \in Before', i < j PROVE w[i] < w[j]
      <4>1. i \in Before
        BY <1>2, <2>3, <3>3
      <4>2. CASE j = at
        BY <2>1, <2>6, <2>7, <4>1, <4>2
      <4>3. CASE j \in Before
        BY <2>6, <2>7, <3>3, <4>1, <4>3
      <4> QED
        BY <2>3, <4>2, <4>3
    <3> QED
      BY <3>1, <3>2, <3>3 DEF Moves
  <2>10. \E x \in [Before' -> DOMAIN fs] : Moves(x, entries', Before', fs, DOMAIN fs)
    BY <1>1, <2>8, <2>9
  <2> QED
    BY <2>10 DEF InOrder, fs
<1> QED
  BY <1>4, <1>5

LEMMA CloneInOrder == MapSpec => []InOrder
<1>1. MapInit => InOrder
  BY DEF MapInit, InOrder
<1>2. ASSUME IInv, InOrder, [MapNext]_mapVars PROVE InOrder'
  <2>1. CASE mpc' # "clone"
    BY <2>1 DEF InOrder
  <2>2. CASE CloneEntry
    BY <1>2, <2>2, CloneEntryOrders
  <2>3. CASE Doubled
    <3>1. /\ mpc = "double" /\ at' = 1 /\ UNCHANGED <<entries, copy>>
      BY <2>3 DEF Doubled
    <3>2. copy.entries = <<>> /\ entries \in Seq(Entries)
      BY <1>2, <3>1 DEF IInv, Typed
    <3>3. Before' = {} /\ DOMAIN copy'.entries = {}
      BY <3>1, <3>2 DEF Before, LiveIn
    <3> DEFINE m == [i \in {} |-> 0]
    <3>4. m \in [Before' -> DOMAIN copy'.entries]
      BY <3>3
    <3>5. Moves(m, entries', Before', copy'.entries, DOMAIN copy'.entries)
      BY <3>3 DEF Moves
    <3> HIDE DEF m
    <3> QED
      BY <3>4, <3>5 DEF InOrder
  <2>4. CASE UNCHANGED <<mpc, entries, at, copy>>
    <3>1. Before' = Before
      BY <2>4 DEF Before, LiveIn
    <3> QED
      BY <1>2, <2>4, <3>1 DEF InOrder
  <2>5. ASSUME NEW k \in Keys, Delete(k) \/ \E v \in Values : Set(k, v) PROVE mpc' # "clone"
    BY <2>5 DEF Delete, Set
  <2>6. CASE RehashEntry \/ RehashEnd \/ Insert \/ Clone \/ Double \/ CloneEnd
    <3>1. mpc' # "clone"
      BY <2>6 DEF RehashEntry, RehashEnd, Insert, Clone, Double, CloneEnd
    <3> QED
      BY <2>1, <3>1
  <2> QED
    BY <1>2, <2>1, <2>2, <2>3, <2>4, <2>5, <2>6 DEF MapNext, mapVars
<1> QED
  BY <1>1, <1>2, Invariant, PTL DEF MapSpec

----------------------------------------------------------------------------
(* The content of the map, as the ordered map has it *)
Dict == DictOf(entries, Live)
Order == BeforeOf(entries, Live)

LEMMA KeepsContent ==
  ASSUME Dict' = Dict, Order' = Order
  PROVE  UNCHANGED Contents!vars
  BY Zenon DEF Contents!vars, Present, Dict, Order, DictOf, BeforeOf, PresentIn

LEMMA Replaces ==
  ASSUME NEW k, NEW v, k \in DOMAIN Dict, Dict' = WithValue(Dict, k, v), Order' = Order
  PROVE  Contents!Replace(k, v)
  BY Zenon DEF Contents!Replace, WithValue, Present, Dict, Order, DictOf, BeforeOf, PresentIn

LEMMA Adds ==
  ASSUME NEW k, NEW v, k \notin DOMAIN Dict,
         Dict' = WithKey(Dict, k, v), Order' = WithLast(Order, Dict, k)
  PROVE  Contents!Add(k, v)
  BY Zenon DEF Contents!Add, WithKey, WithLast, Present, Dict, Order, DictOf, BeforeOf, PresentIn

LEMMA Removes ==
  ASSUME NEW k, k \in DOMAIN Dict,
         Dict' = WithoutKey(Dict, k), Order' = WithoutPairs(Order, k)
  PROVE  Contents!Remove(k)
  BY Zenon DEF Contents!Remove, WithoutKey, WithoutPairs, Present, Dict, Order, DictOf, BeforeOf, PresentIn

LEMMA StartsEmpty ==
  ASSUME MapInit
  PROVE  Contents!Init
<1>1. Live = {}
  BY DEF MapInit, Live
<1>2. Present = {}
  BY <1>1 DEF Present
<1>3. [k \in Present |-> entries[CHOOSE i \in Live : entries[i].key = k].value] = [k \in {} |-> k]
  BY <1>2
<1>4. {p \in Present \X Present :
         \E i, j \in Live : i < j /\ entries[i].key = p[1] /\ entries[j].key = p[2]} = {}
  BY <1>2
<1> QED
  BY <1>3, <1>4, Zenon DEF Contents!Init

LEMMA LiveUnique ==
  ASSUME IInv
  PROVE  UniqueIn(entries, Live) /\ Positions(Live)
<1>1. entries \in Seq(Entries)
  BY DEF IInv, Typed
<1>2. Positions(Live)
  BY <1>1 DEF Live, Positions
<1>3. CASE mpc = "rehash"
  <2>1. Rehashing
    BY <1>3 DEF IInv
  <2>2. \A i, j \in Live : entries[i].key = entries[j].key => i = j
    BY <2>1 DEF Rehashing
  <2> QED
    BY <1>2, <2>2 DEF UniqueIn
<1>4. CASE mpc # "rehash"
  <2>1. Table(entries, buckets, bucketCap) /\ Live = LiveIn(entries)
    BY <1>4 DEF IInv, Live, LiveIn
  <2> QED
    <3>1. \A i, j \in LiveIn(entries) : entries[i].key = entries[j].key => i = j
      BY <2>1 DEF Table
    <3> QED
      BY <1>2, <2>1, <3>1 DEF UniqueIn
<1> QED
  BY <1>3, <1>4

LEMMA MovesKeep ==
  ASSUME IInv, NEW m, Moves(m, entries, Live, entries', Live'), Positions(Live')
  PROVE  UNCHANGED Contents!vars
<1>1. UniqueIn(entries, Live) /\ Positions(Live)
  BY LiveUnique
<1>2. /\ DictOf(entries', Live') = DictOf(entries, Live)
      /\ BeforeOf(entries', Live') = BeforeOf(entries, Live)
  BY <1>1, MovedSame
<1>3. Dict' = Dict /\ Order' = Order
  BY <1>2 DEF Dict, Order
<1> QED
  BY <1>3, KeepsContent

LEMMA StaysSame ==
  ASSUME IInv, Live' = Live, \A i \in Live : entries'[i] = entries[i]
  PROVE  UNCHANGED Contents!vars
<1> DEFINE m == [i \in Live |-> i]
<1>1. Moves(m, entries, Live, entries', Live')
  BY DEF Moves
<1>2. Positions(Live')
  BY LiveUnique
<1> HIDE DEF m
<1> QED
  BY <1>1, <1>2, MovesKeep

LEMMA SetRefines ==
  ASSUME IInv, NEW k \in Keys, NEW v \in Values, Set(k, v)
  PROVE  UNCHANGED Contents!vars
<1>1. mpc = "idle" /\ UNCHANGED entries /\ entries \in Seq(Entries)
      /\ (mpc' = "rehash" => at' = 1)
  BY DEF Set, IInv, Typed
<1>2. Live' = Live
  BY <1>1 DEF Live
<1> QED
  BY <1>1, <1>2, StaysSame

LEMMA RehashEntryRefines ==
  ASSUME IInv, RehashEntry
  PROVE  UNCHANGED Contents!vars
<1>1. /\ mpc = "rehash" /\ mpc' = "rehash" /\ at <= Len(entries) /\ at' = at + 1
      /\ entries \in Seq(Entries) /\ at \in Nat \ {0} /\ written \in Nat /\ Rehashing
  BY DEF RehashEntry, IInv, Typed
<1>2. CASE entries[at].deleted
  <2>1. UNCHANGED <<entries, written>>
    BY <1>2 DEF RehashEntry
  <2>2. Live' = Live
    BY <1>1, <1>2, <2>1 DEF Live
  <2> QED
    BY <2>1, <2>2, StaysSame
<1>3. CASE ~entries[at].deleted
  <2> DEFINE n == written + 1
             m == [i \in Live |-> IF i = at THEN n ELSE i]
  <2>1. /\ n \in DOMAIN entries /\ n <= at
        /\ entries'[n] = entries[at]
        /\ \A j \in DOMAIN entries : j # n => entries'[j] = entries[j]
    BY <1>3, RehashMoves
  <2>2. Live' = (Live \ {at}) \cup {n} /\ at \in Live /\ (n # at => n \notin Live)
    BY <1>3, RehashMoves
  <2>3. Live \subseteq DOMAIN entries /\ \A i \in Live : i <= written \/ i >= at
    BY <1>1 DEF Live
  <2>4. \A i \in Live : i \in Nat
    BY LiveUnique DEF Positions
  <2>5. m[at] = n /\ \A i \in Live : i # at => m[i] = i
    BY <2>2
  <2> HIDE DEF m
  <2>6. ASSUME NEW i \in Live
        PROVE  /\ m[i] \in Live'
               /\ entries'[m[i]].key = entries[i].key /\ entries'[m[i]].value = entries[i].value
    BY <2>1, <2>2, <2>3, <2>5
  <2>7. \A j \in Live' : \E i \in Live : m[i] = j
    BY <2>2, <2>5
  <2>8. ASSUME NEW i \in Live, NEW j \in Live, i < j PROVE m[i] < m[j]
    BY <1>1, <2>1, <2>3, <2>4, <2>5, <2>8
  <2>9. Moves(m, entries, Live, entries', Live')
    BY <2>6, <2>7, <2>8 DEF Moves
  <2>10. Positions(Live')
    BY <1>1, <2>2, <2>4 DEF Positions
  <2> QED
    BY <2>9, <2>10, MovesKeep
<1> QED
  BY <1>2, <1>3

LEMMA RehashEndRefines ==
  ASSUME IInv, RehashEnd
  PROVE  UNCHANGED Contents!vars
<1>1. /\ mpc = "rehash" /\ mpc' = "insert" /\ at > Len(entries)
      /\ entries' = SubSeq(entries, 1, written)
      /\ entries \in Seq(Entries) /\ at \in Nat \ {0} /\ written \in Nat /\ Rehashing
  BY DEF RehashEnd, IInv, Typed
<1>2. written <= Len(entries) /\ \A i \in 1 .. written : ~entries[i].deleted
  BY <1>1 DEF Rehashing
<1>3. DOMAIN entries' = 1 .. written /\ \A i \in 1 .. written : entries'[i] = entries[i]
  BY <1>1, <1>2
<1>4. Live = 1 .. written
  BY <1>1, <1>2 DEF Live
<1>5. Live' = 1 .. written
  BY <1>1, <1>2, <1>3 DEF Live
<1> QED
  BY <1>3, <1>4, <1>5, StaysSame

LEMMA CloneEndRefines ==
  ASSUME IInv, InOrder, CloneEnd
  PROVE  UNCHANGED Contents!vars
<1>1. /\ mpc = "clone" /\ mpc' = "idle" /\ at > Len(entries) /\ entries' = copy.entries
      /\ entries \in Seq(Entries) /\ at \in Nat \ {0} /\ Cloning
      /\ copy \in [entries : Seq(Entries), cap : Nat]
  BY DEF CloneEnd, IInv, Typed
<1>2. Before = Live
  BY <1>1 DEF Before, LiveIn, Live
<1>3. Live' = DOMAIN copy.entries
  BY <1>1 DEF Live, Cloning
<1>4. PICK m : Moves(m, entries, Before, copy.entries, DOMAIN copy.entries)
  BY <1>1 DEF InOrder
<1>5. copy.entries \in Seq(Entries)
  BY <1>1
<1>6. Positions(DOMAIN copy.entries)
  BY <1>5 DEF Positions
<1> QED
  BY <1>1, <1>2, <1>3, <1>4, <1>6, MovesKeep

LEMMA InsertRefines ==
  ASSUME IInv, Insert
  PROVE  \E k \in Keys, v \in Values : Contents!Replace(k, v) \/ Contents!Add(k, v)
<1>0. PICK k \in Keys, v \in Values : k = call.key /\ v = call.value
  BY DEF Insert, IInv, Typed
<1>1. /\ mpc = "insert" /\ mpc' = "idle" /\ entries \in Seq(Entries) /\ bucketCap \in Nat
      /\ Len(entries) * 2 <= bucketCap
      /\ (Len(entries) + 1) * 2 <= bucketCap
      /\ Cardinality(Used(buckets, bucketCap)) <= Len(entries)
      /\ Table(entries, buckets, bucketCap)
  BY DEF Insert, IInv, Typed, Sized
<1>2. bucketCap \in Nat \ {0} /\ Cardinality(Used(buckets, bucketCap)) < bucketCap
  BY <1>1, Room
<1>3. Live = LiveIn(entries) /\ Live' = LiveIn(entries')
  BY <1>1 DEF Live, LiveIn
<1>4. UniqueIn(entries, Live) /\ Positions(Live)
  BY LiveUnique
<1>5. CASE Found(entries, buckets, bucketCap, k)
  <2> DEFINE i == buckets[Bucket(entries, buckets, bucketCap, k)]
             e == [entries[i] EXCEPT !.value = v]
  <2>1. i \in Live /\ entries[i].key = k
    <3>1. i \in LiveIn(entries) /\ entries[i].key = k
      BY <1>0, <1>1, <1>2, <1>5, Finds
    <3> QED
      BY <1>3, <3>1
  <2>2. entries' = [entries EXCEPT ![i].value = v]
    BY <1>0, <1>5 DEF Insert
  <2> HIDE DEF i
  <2>3. i \in DOMAIN entries /\ entries[i] \in Entries
    BY <1>1, <1>3, <2>1 DEF LiveIn
  <2>4. e \in Entries /\ e.key = entries[i].key /\ e.deleted = entries[i].deleted /\ e.value = v
    BY <1>1, <2>3 DEF Entries
  <2>5. entries' = [entries EXCEPT ![i] = e]
    BY <2>2, <2>3
  <2> HIDE DEF e
  <2>6. /\ entries' \in Seq(Entries) /\ Len(entries') = Len(entries)
        /\ entries'[i] = e /\ \A j \in DOMAIN entries : j # i => entries'[j] = entries[j]
    BY <1>1, <2>3, <2>4, <2>5, Updated
  <2>7. Live' = Live
    <3>1. DOMAIN entries' = DOMAIN entries
      BY <1>1, <2>6
    <3> QED
      BY <1>3, <2>3, <2>4, <2>6, <3>1 DEF LiveIn
  <2>8. \A j \in Live : /\ entries'[j].key = entries[j].key
                        /\ entries'[j].value = IF j = i THEN v ELSE entries[j].value
    BY <1>3, <2>4, <2>6 DEF LiveIn
  <2>9. /\ k \in DOMAIN DictOf(entries, Live)
        /\ DictOf(entries', Live) = WithValue(DictOf(entries, Live), k, v)
        /\ BeforeOf(entries', Live) = BeforeOf(entries, Live)
    BY <1>4, <2>1, <2>8, ReplacedIn
  <2>10. k \in DOMAIN Dict /\ Dict' = WithValue(Dict, k, v) /\ Order' = Order
    <3>1. /\ DictOf(entries', Live') = WithValue(DictOf(entries, Live), k, v)
          /\ BeforeOf(entries', Live') = BeforeOf(entries, Live)
      BY <2>7, <2>9
    <3> QED
      BY <2>9, <3>1 DEF Dict, Order
  <2> QED
    BY <2>10, Replaces
<1>6. CASE ~Found(entries, buckets, bucketCap, k)
  <2> DEFINE n == Len(entries) + 1
             e == Entry(k, v)
  <2>1. entries' = Append(entries, e)
    BY <1>0, <1>6 DEF Insert
  <2>2. \A i \in Live : entries[i].key # k
    BY <1>0, <1>1, <1>2, <1>3, <1>6, Finds
  <2>3. e \in Entries /\ ~e.deleted /\ e.key = k /\ e.value = v
    BY <1>1 DEF Entry, Entries
  <2> HIDE DEF e
  <2>4. /\ entries' \in Seq(Entries) /\ DOMAIN entries' = DOMAIN entries \cup {n}
        /\ entries'[n] = e /\ \A i \in DOMAIN entries : entries'[i] = entries[i] /\ i < n
        /\ n \in Nat
    BY <1>1, <2>1, <2>3
  <2> HIDE DEF n
  <2>5. Live' = Live \cup {n}
    BY <1>3, <2>3, <2>4 DEF LiveIn
  <2>6. Last(n, Live) /\ \A i \in Live : entries'[i] = entries[i]
    BY <1>3, <2>4 DEF LiveIn, Last
  <2>7. entries'[n].key = k /\ entries'[n].value = v /\ k \notin PresentIn(entries, Live)
    BY <2>2, <2>3, <2>4 DEF PresentIn
  <2>8. /\ k \notin DOMAIN DictOf(entries, Live)
        /\ DictOf(entries', Live \cup {n}) = WithKey(DictOf(entries, Live), k, v)
        /\ BeforeOf(entries', Live \cup {n}) =
             WithLast(BeforeOf(entries, Live), DictOf(entries, Live), k)
    BY <1>4, <2>6, <2>7, AddedTo
  <2>9. /\ k \notin DOMAIN Dict
        /\ Dict' = WithKey(Dict, k, v)
        /\ Order' = WithLast(Order, Dict, k)
    <3>1. /\ DictOf(entries', Live') = WithKey(DictOf(entries, Live), k, v)
          /\ BeforeOf(entries', Live') = WithLast(BeforeOf(entries, Live), DictOf(entries, Live), k)
      BY <2>5, <2>8
    <3> QED
      BY <2>8, <3>1 DEF Dict, Order
  <2>10. Contents!Add(k, v)
    BY <2>9, Adds
  <2> QED
    BY <2>10
<1> QED
  BY <1>5, <1>6

LEMMA DeleteRefines ==
  ASSUME IInv, NEW k \in Keys, Delete(k)
  PROVE  Contents!Remove(k)
<1> DEFINE b == Bucket(entries, buckets, bucketCap, k)
           i == buckets[b]
           e == [entries[i] EXCEPT !.deleted = TRUE]
<1>1. /\ mpc = "idle" /\ mpc' = "idle" /\ entries \in Seq(Entries) /\ bucketCap \in Nat
      /\ Len(entries) * 2 <= bucketCap
      /\ Cardinality(Used(buckets, bucketCap)) <= Len(entries)
      /\ Table(entries, buckets, bucketCap) /\ Found(entries, buckets, bucketCap, k)
      /\ entries' = [entries EXCEPT ![i].deleted = TRUE]
  BY DEF Delete, IInv, Typed, Sized
<1>2. bucketCap \in Nat \ {0} /\ Cardinality(Used(buckets, bucketCap)) < bucketCap
  BY <1>1, Room DEF Found
<1>3. Live = LiveIn(entries) /\ Live' = LiveIn(entries')
  BY <1>1 DEF Live, LiveIn
<1>4. UniqueIn(entries, Live)
  BY LiveUnique
<1>5. i \in Live /\ entries[i].key = k
  BY <1>1, <1>2, <1>3, Finds
<1> HIDE DEF b, i
<1>6. i \in DOMAIN entries /\ entries[i] \in Entries
  BY <1>1, <1>3, <1>5 DEF LiveIn
<1>7. e \in Entries /\ e.deleted
  BY <1>6 DEF Entries
<1>8. entries' = [entries EXCEPT ![i] = e]
  BY <1>1, <1>6
<1> HIDE DEF e
<1>9. /\ entries' \in Seq(Entries) /\ Len(entries') = Len(entries)
      /\ entries'[i] = e /\ \A j \in DOMAIN entries : j # i => entries'[j] = entries[j]
  <2>1. entries \in Seq(Entries)
    BY <1>1
  <2> QED
    BY <1>6, <1>7, <1>8, <2>1, Updated
<1>10. Live' = Live \ {i}
  <2>1. DOMAIN entries' = DOMAIN entries
    BY <1>1, <1>9
  <2> QED
    BY <1>3, <1>6, <1>7, <1>9, <2>1 DEF LiveIn
<1>11. \A j \in Live \ {i} : entries'[j].key = entries[j].key /\ entries'[j].value = entries[j].value
  BY <1>3, <1>9 DEF LiveIn
<1>12. /\ k \in DOMAIN DictOf(entries, Live)
       /\ DictOf(entries', Live \ {i}) = WithoutKey(DictOf(entries, Live), k)
       /\ BeforeOf(entries', Live \ {i}) = WithoutPairs(BeforeOf(entries, Live), k)
  BY <1>4, <1>5, <1>11, RemovedFrom
<1>13. /\ k \in DOMAIN Dict
       /\ Dict' = WithoutKey(Dict, k)
       /\ Order' = WithoutPairs(Order, k)
  BY <1>5, <1>10, <1>12 DEF Dict, Order
<1> QED
  BY <1>13, Removes

(* A map of the language implements the ordered map: each set and each     *)
(* delete changes the content as it should, once, and neither a step of a  *)
(* rehash, which moves the entries under the map, nor a clone changes what *)
(* is in the map or its order (rt_map_set, rt_map_delete, rt_map_rehash,   *)
(* rt_map_clone).                                                          *)
THEOREM MapRefines == MapSpec => ImplementsOrderedMap
<1>1. MapInit => Contents!Init
  BY StartsEmpty
<1>2. ASSUME IInv, InOrder, [MapNext]_mapVars
      PROVE  [Contents!Next]_(Contents!vars)
  <2>1. ASSUME NEW k \in Keys, Delete(k) PROVE Contents!Next
    BY <1>2, <2>1, DeleteRefines DEF Contents!Next
  <2>2. ASSUME NEW k \in Keys, NEW v \in Values, Set(k, v) PROVE UNCHANGED Contents!vars
    BY <1>2, <2>2, SetRefines
  <2>3. CASE RehashEntry
    BY <1>2, <2>3, RehashEntryRefines
  <2>4. CASE RehashEnd
    BY <1>2, <2>4, RehashEndRefines
  <2>5. CASE Insert
    <3>1. \E k \in Keys, v \in Values : Contents!Replace(k, v) \/ Contents!Add(k, v)
      BY <1>2, <2>5, InsertRefines
    <3>2. Contents!Next
      BY <3>1, Zenon DEF Contents!Next
    <3> QED
      BY <3>2
  <2>6. CASE CloneEnd
    BY <1>2, <2>6, CloneEndRefines
  <2>7. CASE Clone \/ Double \/ Doubled \/ CloneEntry \/ UNCHANGED mapVars
    <3>1. UNCHANGED entries /\ entries \in Seq(Entries)
      BY <1>2, <2>7 DEF Clone, Double, Doubled, CloneEntry, mapVars, IInv, Typed
    <3>2. Live' = Live
      BY <2>7, <3>1 DEF Clone, Double, Doubled, CloneEntry, mapVars, Live
    <3> QED
      BY <1>2, <3>1, <3>2, StaysSame
  <2> QED
    BY <1>2, <2>1, <2>2, <2>3, <2>4, <2>5, <2>6, <2>7 DEF MapNext
<1> QED
  BY <1>1, <1>2, Invariant, CloneInOrder, PTL DEF MapSpec, ImplementsOrderedMap, Contents!Spec
=============================================================================
