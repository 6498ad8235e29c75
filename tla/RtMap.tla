------------------------------- MODULE RtMap -------------------------------
(***************************************************************************)
(* The hash map of the runtime, RT_DEFINE_MAP (internal/runtime/c/rt.go):  *)
(* an array of entries in insertion order and an array of buckets probed   *)
(* linearly.  A delete leaves a tombstone in its bucket and the entry in   *)
(* its place; a rehash compacts the entries in place while it fills the    *)
(* new buckets; a clone is a new map the live entries are set in.          *)
(*                                                                         *)
(* Arrays count from 1 here: a bucket holds the position of its entry, and *)
(* entries_len is the length of the sequence.  Abstracted: the hash stored *)
(* in an entry (it is its key's), the nil map (empty to readers, a failure *)
(* to set), failures of malloc, sizes beyond MaxBuckets.                   *)
(***************************************************************************)
EXTENDS Integers, Sequences, FiniteSets

CONSTANTS
  Keys, Values,
  Hash,         \* the hash of each key
  InitialCaps,  \* the capacities maps are made with
  FirstBuckets, \* the buckets of the first table: 8
  MaxBuckets    \* a map that would rehash beyond is left alone (bound)

ASSUME RtMapAssumption ==
  /\ Hash \in [Keys -> Nat]
  /\ InitialCaps \subseteq Nat
  /\ FirstBuckets \in Nat \ {0, 1}
  /\ MaxBuckets \in Nat

VARIABLES
  entries,    \* [key, value, deleted] each
  entriesCap,
  buckets,    \* 0 .. bucketCap - 1 -> a position, Empty or Tombstone
  bucketCap,
  len,        \* m->len
  mpc,        \* where the operation that runs stands, or "idle"
  call,       \* the key and the value being set
  at, written, newBuckets, newCap, \* the loops of rehash, new and clone
  copy        \* the entries and the table of the clone being made

mapVars == <<entries, entriesCap, buckets, bucketCap, len, mpc, call, at, written, newBuckets,
             newCap, copy>>

Empty == 0
Tombstone == -1

NoCall == [key |-> CHOOSE k \in Keys : TRUE, value |-> CHOOSE v \in Values : TRUE]
NoCopy == [entries |-> <<>>, cap |-> 0]
NoBuckets(cap) == [b \in 0 .. (cap - 1) |-> Empty]

----------------------------------------------------------------------------
(* rt_map_find_bucket, in entries es and cap buckets bs *)

(* The d-th bucket that is probed for k: b = (b + 1) & mask *)
Probe(k, d, cap) ==
  LET b == Hash[k] % cap IN IF b + d < cap THEN b + d ELSE b + d - cap

Matches(es, slot, k) == slot \notin {Empty, Tombstone} /\ ~es[slot].deleted /\ es[slot].key = k

Stops(es, bs, cap, k, d) ==
  LET slot == bs[Probe(k, d, cap)] IN slot = Empty \/ Matches(es, slot, k)

Distance(es, bs, cap, k) ==
  CHOOSE d \in 0 .. (cap - 1) :
    Stops(es, bs, cap, k, d) /\ \A e \in 0 .. (d - 1) : ~Stops(es, bs, cap, k, e)

Bucket(es, bs, cap, k) == Probe(k, Distance(es, bs, cap, k), cap)

Found(es, bs, cap, k) == cap # 0 /\ bs[Bucket(es, bs, cap, k)] # Empty

(* Where k goes if it was not found: the first tombstone on the way, or *)
(* the empty bucket that ended the search.                              *)
FreeBucket(es, bs, cap, k) ==
  LET d == Distance(es, bs, cap, k)
      passed == {e \in 0 .. (d - 1) : bs[Probe(k, e, cap)] = Tombstone}
  IN  IF passed = {} THEN Probe(k, d, cap)
      ELSE Probe(k, CHOOSE e \in passed : \A f \in passed : e <= f, cap)

----------------------------------------------------------------------------
(* Mutant: the table is filled to the last bucket. *)
FullSparse(n, cap) == n + 1 > cap

(* Whether an entry more would fill more than half of the buckets *)
Full(n, cap) == (n + 1) * 2 > cap

Entry(k, v) == [key |-> k, value |-> v, deleted |-> FALSE]

(* rt_map_set; the key is looked up after the rehash, if there is one. *)
Set(k, v) ==
  /\ mpc = "idle"
  /\ call' = [key |-> k, value |-> v]
  /\ IF ~Full(Len(entries), bucketCap)
     THEN mpc' = "insert" /\ UNCHANGED <<at, written, newBuckets, newCap>>
     ELSE LET cap == IF bucketCap = 0 THEN FirstBuckets ELSE bucketCap * 2 IN
            /\ cap <= MaxBuckets
            /\ mpc' = "rehash"
            /\ newCap' = cap
            /\ newBuckets' = NoBuckets(cap)
            /\ at' = 1 /\ written' = 0
  /\ UNCHANGED <<entries, entriesCap, buckets, bucketCap, len, copy>>

(* The first bucket on the way of k that is empty *)
EmptyBucket(bs, cap, k) ==
  Probe(k, CHOOSE d \in 0 .. (cap - 1) :
             /\ bs[Probe(k, d, cap)] = Empty
             /\ \A e \in 0 .. (d - 1) : bs[Probe(k, e, cap)] # Empty, cap)

(* Mutant: a deleted entry is moved too. *)
RehashMovesDeleted ==
  /\ mpc = "rehash"
  /\ at <= Len(entries)
  /\ entries' = [entries EXCEPT ![written + 1] = [entries[at] EXCEPT !.deleted = FALSE]]
  /\ newBuckets' =
       [newBuckets EXCEPT ![EmptyBucket(newBuckets, newCap, entries[at].key)] = written + 1]
  /\ written' = written + 1
  /\ at' = at + 1
  /\ UNCHANGED <<entriesCap, buckets, bucketCap, len, mpc, call, newCap, copy>>

(* rt_map_rehash: the entries that are left move to the front, in place. *)
RehashEntry ==
  /\ mpc = "rehash"
  /\ at <= Len(entries)
  /\ IF entries[at].deleted
     THEN UNCHANGED <<entries, newBuckets, written>>
     ELSE /\ entries' = [entries EXCEPT ![written + 1] = entries[at]]
          /\ newBuckets' =
               [newBuckets EXCEPT ![EmptyBucket(newBuckets, newCap, entries[at].key)] = written + 1]
          /\ written' = written + 1
  /\ at' = at + 1
  /\ UNCHANGED <<entriesCap, buckets, bucketCap, len, mpc, call, newCap, copy>>

RehashEnd ==
  /\ mpc = "rehash"
  /\ at > Len(entries)
  /\ entries' = SubSeq(entries, 1, written)
  /\ buckets' = newBuckets
  /\ bucketCap' = newCap
  /\ mpc' = "insert"
  /\ at' = 1 /\ written' = 0 /\ newCap' = 0 /\ newBuckets' = NoBuckets(0)
  /\ UNCHANGED <<entriesCap, len, call, copy>>

Insert ==
  /\ mpc = "insert"
  /\ IF Found(entries, buckets, bucketCap, call.key)
     THEN /\ entries' = [entries EXCEPT
               ![buckets[Bucket(entries, buckets, bucketCap, call.key)]].value = call.value]
          /\ UNCHANGED <<entriesCap, buckets, len>>
     ELSE /\ entriesCap' = IF Len(entries) # entriesCap THEN entriesCap
                           ELSE IF entriesCap = 0 THEN 4 ELSE entriesCap * 2
          /\ entries' = Append(entries, Entry(call.key, call.value))
          /\ buckets' = [buckets EXCEPT
               ![FreeBucket(entries, buckets, bucketCap, call.key)] = Len(entries) + 1]
          /\ len' = len + 1
  /\ mpc' = "idle"
  /\ call' = NoCall
  /\ UNCHANGED <<bucketCap, at, written, newBuckets, newCap, copy>>

(* Mutant: the bucket is emptied, as if nothing had been put past it. *)
DeleteLeavesHole(k) ==
  /\ mpc = "idle"
  /\ len # 0
  /\ Found(entries, buckets, bucketCap, k)
  /\ LET b == Bucket(entries, buckets, bucketCap, k) IN
       /\ entries' = [entries EXCEPT ![buckets[b]].deleted = TRUE]
       /\ buckets' = [buckets EXCEPT ![b] = Empty]
       /\ len' = len - 1
  /\ UNCHANGED <<entriesCap, bucketCap, mpc, call, at, written, newBuckets, newCap, copy>>

(* rt_map_delete, of a key that is there; it changes nothing otherwise. *)
Delete(k) ==
  /\ mpc = "idle"
  /\ len # 0
  /\ Found(entries, buckets, bucketCap, k)
  /\ LET b == Bucket(entries, buckets, bucketCap, k) IN
       /\ entries' = [entries EXCEPT ![buckets[b]].deleted = TRUE]
       /\ buckets' = [buckets EXCEPT ![b] = Tombstone]
       /\ len' = len - 1
  /\ UNCHANGED <<entriesCap, bucketCap, mpc, call, at, written, newBuckets, newCap, copy>>

----------------------------------------------------------------------------
(* rt_map_new(cap) makes the table of cap * 2 buckets or more by doubling; *)
(* rt_map_clone makes a map of capacity len and sets the live entries.     *)

Clone ==
  /\ mpc = "idle"
  /\ copy' = [entries |-> <<>>, cap |-> len]
  /\ mpc' = "double"
  /\ newCap' = IF len = 0 THEN 0 ELSE FirstBuckets
  /\ UNCHANGED <<entries, entriesCap, buckets, bucketCap, len, call, at, written, newBuckets>>

Double ==
  /\ mpc = "double"
  /\ newCap < copy.cap * 2
  /\ newCap' = newCap * 2
  /\ UNCHANGED <<entries, entriesCap, buckets, bucketCap, len, mpc, call, at, written,
                 newBuckets, copy>>

Doubled ==
  /\ mpc = "double"
  /\ newCap >= copy.cap * 2
  /\ newBuckets' = NoBuckets(newCap)
  /\ at' = 1
  /\ mpc' = "clone"
  /\ UNCHANGED <<entries, entriesCap, buckets, bucketCap, len, call, written, newCap, copy>>

(* The table is large enough and no key comes twice: each set inserts. *)
CloneEntry ==
  /\ mpc = "clone"
  /\ at <= Len(entries)
  /\ IF entries[at].deleted
     THEN UNCHANGED <<newBuckets, copy>>
     ELSE LET k == entries[at].key IN
            /\ ~Full(Len(copy.entries), newCap)
            /\ Len(copy.entries) < copy.cap
            /\ ~Found(copy.entries, newBuckets, newCap, k)
            /\ copy' = [copy EXCEPT !.entries = Append(@, Entry(k, entries[at].value))]
            /\ newBuckets' = [newBuckets EXCEPT
                 ![FreeBucket(copy.entries, newBuckets, newCap, k)] = Len(copy.entries) + 1]
  /\ at' = at + 1
  /\ UNCHANGED <<entries, entriesCap, buckets, bucketCap, len, mpc, call, written, newCap>>

(* The copy is what the program goes on with. *)
CloneEnd ==
  /\ mpc = "clone"
  /\ at > Len(entries)
  /\ entries' = copy.entries
  /\ entriesCap' = copy.cap
  /\ buckets' = newBuckets
  /\ bucketCap' = newCap
  /\ len' = Len(copy.entries)
  /\ mpc' = "idle"
  /\ at' = 1 /\ newCap' = 0 /\ newBuckets' = NoBuckets(0) /\ copy' = NoCopy
  /\ UNCHANGED <<call, written>>

----------------------------------------------------------------------------
(* A new map of capacity c is the clone of an empty one of that capacity. *)
MapInit ==
  /\ entries = <<>> /\ entriesCap = 0 /\ buckets = NoBuckets(0) /\ bucketCap = 0 /\ len = 0
  /\ mpc = "double"
  /\ call = NoCall
  /\ at = 1 /\ written = 0 /\ newBuckets = NoBuckets(0)
  /\ \E c \in InitialCaps :
       copy = [entries |-> <<>>, cap |-> c] /\ newCap = IF c = 0 THEN 0 ELSE FirstBuckets

MapNext ==
  \/ \E k \in Keys : Delete(k) \/ \E v \in Values : Set(k, v)
  \/ RehashEntry \/ RehashEnd \/ Insert
  \/ Clone \/ Double \/ Doubled \/ CloneEntry \/ CloneEnd

MapSpec == MapInit /\ [][MapNext]_mapVars

----------------------------------------------------------------------------
(* The entries that count: in a rehash, those moved and those to come.     *)
Live ==
  {i \in DOMAIN entries :
     /\ ~entries[i].deleted
     /\ mpc = "rehash" => i <= written \/ i >= at}

(* A probe for any key comes to a bucket that ends it: the table always    *)
(* has an empty one, though deletes empty none.                            *)
ProbeEnds ==
  \A k \in Keys :
    /\ bucketCap # 0 => \E d \in 0 .. (bucketCap - 1) : Stops(entries, buckets, bucketCap, k, d)
    /\ mpc \in {"rehash", "clone"} /\ newCap # 0
         => \E d \in 0 .. (newCap - 1) : newBuckets[Probe(k, d, newCap)] = Empty

(* Between operations a key is found exactly when an entry that counts has *)
(* it, in that entry, which is the only one; and m->len counts them.       *)
FindsLive ==
  mpc \in {"idle", "insert"} =>
    /\ Cardinality(Live) = len
    /\ Len(entries) <= entriesCap
    /\ \A k \in Keys :
         Found(entries, buckets, bucketCap, k) <=> \E i \in Live : entries[i].key = k
    /\ \A i \in Live : buckets[Bucket(entries, buckets, bucketCap, entries[i].key)] = i

(* The map implements the ordered map: rehash and clone keep the content   *)
(* and its order at every step, and the rest changes it as it should.      *)
Present == {entries[i].key : i \in Live}
Contents == INSTANCE OrderedMap WITH
  dict <- [k \in Present |-> entries[CHOOSE i \in Live : entries[i].key = k].value],
  before <- {p \in Present \X Present :
               \E i, j \in Live : i < j /\ entries[i].key = p[1] /\ entries[j].key = p[2]}
ImplementsOrderedMap == Contents!Spec
=============================================================================
