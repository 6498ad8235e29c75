---------------------------- MODULE ObjectCache -----------------------------
(***************************************************************************)
(* The cache of objects compiled once and linked into every program        *)
(* (cmd/trux/compile.go): sqlite3 and yyjson, each built from sources the  *)
(* compiler embeds into a directory that every trux process of the user    *)
(* shares.  The mutex there holds within a process only.                   *)
(*                                                                         *)
(* A file is absent, empty (it was truncated and its content is not there  *)
(* yet) or full.  A source that is empty compiles to an object without the *)
(* library in it: "hollow".  A source whose header is empty does not       *)
(* compile.                                                                *)
(***************************************************************************)
EXTENDS Naturals, FiniteSets

CONSTANTS
  Procs,       \* builds of programs that use the library
  Serial,      \* a build starts when no other one runs
  MaxCrashes   \* processes that are killed, at most (bound)

ASSUME CacheAssumption == Serial \in BOOLEAN /\ MaxCrashes \in Nat

VARIABLES
  pc,       \* where each build is
  header,   \* yyjson.h or sqlite3.h in the cache directory
  source,   \* the .c file there
  tmp,      \* the object each process compiles to, by its pid
  obj,      \* the cached object
  refused,  \* builds whose rename failed
  linked    \* what each build linked

vars == <<pc, header, source, tmp, obj, refused, linked>>

Ended == {"done", "failed", "killed"}
Goto(p, to) == pc' = [pc EXCEPT ![p] = to]

(* os.Stat: the object is taken if it is there and not empty. *)
Start(p) ==
  /\ pc[p] = "start"
  /\ Serial => \A q \in Procs : pc[q] \in Ended \cup {"start"}
  /\ Goto(p, IF obj = "absent" THEN "writeHeader" ELSE "link")
  /\ UNCHANGED <<header, source, tmp, obj, refused, linked>>

(* Mutant: the header is written only where it is missing. *)
WriteHeaderOnce(p) ==
  /\ pc[p] \in {"writeHeader", "fillHeader"}
  /\ IF pc[p] = "writeHeader"
     THEN /\ header' = IF header = "absent" THEN "empty" ELSE header
          /\ Goto(p, IF header = "absent" THEN "fillHeader" ELSE "writeSource")
     ELSE header' = "full" /\ Goto(p, "writeSource")
  /\ UNCHANGED <<source, tmp, obj, refused, linked>>

(* os.WriteFile truncates, then writes. *)
WriteHeader(p) ==
  /\ pc[p] \in {"writeHeader", "fillHeader"}
  /\ header' = IF pc[p] = "writeHeader" THEN "empty" ELSE "full"
  /\ Goto(p, IF pc[p] = "writeHeader" THEN "fillHeader" ELSE "writeSource")
  /\ UNCHANGED <<source, tmp, obj, refused, linked>>

(* Mutant: the source is written only where it is missing. *)
WriteSourceOnce(p) ==
  /\ pc[p] \in {"writeSource", "fillSource"}
  /\ IF pc[p] = "writeSource"
     THEN /\ source' = IF source = "absent" THEN "empty" ELSE source
          /\ Goto(p, IF source = "absent" THEN "fillSource" ELSE "compile")
     ELSE source' = "full" /\ Goto(p, "compile")
  /\ UNCHANGED <<header, tmp, obj, refused, linked>>

WriteSource(p) ==
  /\ pc[p] \in {"writeSource", "fillSource"}
  /\ source' = IF pc[p] = "writeSource" THEN "empty" ELSE "full"
  /\ Goto(p, IF pc[p] = "writeSource" THEN "fillSource" ELSE "compile")
  /\ UNCHANGED <<header, tmp, obj, refused, linked>>

Compile(p) ==
  /\ pc[p] = "compile"
  /\ IF source = "absent" \/ (source = "full" /\ header # "full")
     THEN Goto(p, "failed") /\ UNCHANGED tmp
     ELSE /\ tmp' = [tmp EXCEPT ![p] = IF source = "full" THEN "full" ELSE "hollow"]
          /\ Goto(p, "removeOld")
  /\ UNCHANGED <<header, source, obj, refused, linked>>

RemoveOld(p) ==
  /\ pc[p] = "removeOld"
  /\ obj' = "absent"
  /\ Goto(p, "rename")
  /\ UNCHANGED <<header, source, tmp, refused, linked>>

Rename(p) ==
  /\ pc[p] = "rename"
  /\ obj' = tmp[p]
  /\ tmp' = [tmp EXCEPT ![p] = "absent"]
  /\ Goto(p, "removeSource")
  /\ UNCHANGED <<header, source, refused, linked>>

(* Mutant: the object is taken for cached although it could not be. *)
RenameRefusedIgnored(p) ==
  /\ pc[p] = "rename"
  /\ refused' = refused \cup {p}
  /\ tmp' = [tmp EXCEPT ![p] = "absent"]
  /\ Goto(p, "link")
  /\ UNCHANGED <<header, source, obj, linked>>

(* The rename failed: the object another process cached is taken. *)
RenameRefused(p) ==
  /\ pc[p] = "rename"
  /\ refused' = refused \cup {p}
  /\ IF obj = "absent"
     THEN Goto(p, "failed") /\ UNCHANGED tmp
     ELSE Goto(p, "link") /\ tmp' = [tmp EXCEPT ![p] = "absent"]
  /\ UNCHANGED <<header, source, obj, linked>>

RemoveSource(p) ==
  /\ pc[p] = "removeSource"
  /\ source' = "absent"
  /\ Goto(p, "link")
  /\ UNCHANGED <<header, tmp, obj, refused, linked>>

(* compileGenerated passes the path to the linker. *)
Link(p) ==
  /\ pc[p] = "link"
  /\ linked' = [linked EXCEPT ![p] = obj]
  /\ Goto(p, IF obj = "full" THEN "done" ELSE "failed")
  /\ UNCHANGED <<header, source, tmp, obj, refused>>

Kill(p) ==
  /\ pc[p] \notin Ended \cup {"start"}
  /\ Cardinality({q \in Procs : pc[q] = "killed"}) < MaxCrashes
  /\ Goto(p, "killed")
  /\ UNCHANGED <<header, source, tmp, obj, refused, linked>>

Init ==
  /\ pc = [p \in Procs |-> "start"]
  /\ header = "absent" /\ source = "absent" /\ obj = "absent"
  /\ tmp = [p \in Procs |-> "absent"]
  /\ refused = {}
  /\ linked = [p \in Procs |-> "none"]

AllEnded == (\A p \in Procs : pc[p] \in Ended) /\ UNCHANGED vars

Build(p) ==
  \/ Start(p) \/ WriteHeader(p) \/ WriteSource(p) \/ Compile(p)
  \/ RemoveOld(p) \/ Rename(p) \/ RenameRefused(p) \/ RemoveSource(p) \/ Link(p)

Next == (\E p \in Procs : Build(p) \/ Kill(p)) \/ AllEnded

Spec == Init /\ [][Next]_vars

----------------------------------------------------------------------------
(* The files and the builds are in the states the code leaves them in. *)
TypeOK ==
  /\ pc \in [Procs -> Ended \cup {"start", "writeHeader", "fillHeader", "writeSource",
                      "fillSource", "compile", "removeOld", "rename", "removeSource", "link"}]
  /\ header \in {"absent", "empty", "full"}
  /\ source \in {"absent", "empty", "full"}
  /\ tmp \in [Procs -> {"absent", "hollow", "full"}]
  /\ obj \in {"absent", "hollow", "full"}
  /\ refused \subseteq Procs
  /\ linked \in [Procs -> {"none", "absent", "hollow", "full"}]

(* compilation.md:167 - what is linked is the library, built once: no      *)
(* process, killed at whatever point, leaves an object in the cache that   *)
(* is not whole.  A bad one would be linked by every build from then on.   *)
CacheSound == obj \in {"absent", "full"}

(* A build fails only where the file system refused it: never for what     *)
(* another build, running or killed, did to the files they share.          *)
BuildsIndependent == \A p \in Procs : pc[p] = "failed" => p \in refused

(* A build that takes an object for cached finds it when it links. *)
CachedIsLinked == \A p \in Procs : linked[p] # "absent"

----------------------------------------------------------------------------
(* Why they hold when builds run one at a time: what a build finds at each *)
(* step is what it did before, whatever the ones before it left.           *)
Active(p) == pc[p] \notin Ended \cup {"start"}

FilesInv(p) ==
  /\ pc[p] \in {"writeSource", "fillSource", "compile"} => header = "full"
  /\ pc[p] = "compile" => source = "full"
  /\ pc[p] \in {"removeOld", "rename"} => tmp[p] = "full"
  /\ pc[p] \in {"removeSource", "link"} => obj = "full"

IInv ==
  /\ TypeOK
  /\ \A p, q \in Procs : Active(p) /\ Active(q) => p = q
  /\ \A p \in Procs : FilesInv(p)
  /\ CacheSound
  /\ BuildsIndependent
  /\ CachedIsLinked
=============================================================================
