---------------------------- MODULE DiskStorage -----------------------------
(***************************************************************************)
(* The calls of osfs.Storage (vfs/osfs/storage.go) on a directory shared   *)
(* by several callers, one system call per step.  A write goes to a        *)
(* temporary file that is renamed over its destination.  Any system call   *)
(* may fail, and the process may end between two of them.                  *)
(*                                                                         *)
(* All paths are files in one directory.  A name of the directory is       *)
(* <<p, 0>> for the file at path p, or <<p, n>> for a temporary file of    *)
(* it: n stands for the random suffix, which no two of them share.         *)
(* Contents are sequences of words.  A call also fails when its context is *)
(* over or its path is invalid.                                            *)
(***************************************************************************)
EXTENDS Naturals, Sequences, FiniteSets

CONSTANTS Callers, Paths, Contents,
          Disks  \* bound: what the directory holds at the start

VARIABLES disk,  \* the content of each name in the directory
          pc,    \* pc[c]: where the call of c is; "idle" and "answered" between calls
          req,   \* req[c]: its request
          tmp,   \* tmp[c]: the temporary file of its write
          ans,   \* ans[c]: its answer, or the names a listing has read
          left   \* history: temporary files whose removal failed or a crash prevented

diskVars == <<disk, pc, req, tmp, ans, left>>

File(p) == <<p, 0>>
Names == Paths \X Nat

\* What an earlier process left behind may be there.
ASSUME DiskAssumption == \A d \in Disks : DOMAIN d \subseteq Names

Temps == {n \in DOMAIN disk : n[2] > 0}
Writing == {c \in Callers : pc[c] \in {"fill", "rename", "discard"}}

Positions == {"idle", "read", "open", "write", "fill", "rename", "discard", "delete", "remove",
              "list", "info", "answered"}

DiskInit ==
  /\ disk \in Disks
  /\ pc = [c \in Callers |-> "idle"]
  /\ req = [c \in Callers |-> <<>>]
  /\ tmp = [c \in Callers |-> <<>>]
  /\ ans = [c \in Callers |-> <<>>]
  /\ left = Temps

Without(n) == [m \in DOMAIN disk \ {n} |-> disk[m]]
GoTo(c, l) == pc' = [pc EXCEPT ![c] = l]
Answer(c, a) == GoTo(c, "answered") /\ ans' = [ans EXCEPT ![c] = a]

\* A request r: [do, file, content], without the fields it does not need.
Call(c, r) ==
  /\ pc[c] \in {"idle", "answered"}
  /\ GoTo(c, r.do)
  /\ req' = [req EXCEPT ![c] = r]
  /\ ans' = [ans EXCEPT ![c] = <<>>]
  /\ UNCHANGED <<disk, tmp, left>>

\* The caller has taken the answer.
HangUp(c) ==
  /\ pc[c] = "answered"
  /\ GoTo(c, "idle")
  /\ req' = [req EXCEPT ![c] = <<>>]
  /\ ans' = [ans EXCEPT ![c] = <<>>]
  /\ UNCHANGED <<disk, tmp, left>>

\* The call fails where there is nothing to undo.
Fails(c) ==
  /\ pc[c] \in {"read", "open", "write", "delete", "remove", "list", "info"}
  /\ Answer(c, <<"failed">>)
  /\ UNCHANGED <<disk, req, tmp, left>>

-----------------------------------------------------------------------------
\* ReadFile and DeleteFile look first whether there is a regular file.
Stat(c) ==
  /\ pc[c] \in {"read", "delete"}
  /\ IF req[c].file \in DOMAIN disk
       THEN GoTo(c, IF pc[c] = "read" THEN "open" ELSE "remove") /\ UNCHANGED ans
       ELSE Answer(c, <<"notFound">>)
  /\ UNCHANGED <<disk, req, tmp, left>>

\* root.ReadFile reads the file it opened even when the name is given away.
Open(c) ==
  /\ pc[c] = "open"
  /\ Answer(c, IF req[c].file \in DOMAIN disk
                 THEN <<"content", disk[req[c].file]>> ELSE <<"notFound">>)
  /\ UNCHANGED <<disk, req, tmp, left>>

Unlink(c) ==
  /\ pc[c] = "remove"
  /\ Answer(c, IF req[c].file \in DOMAIN disk THEN <<"done">> ELSE <<"notFound">>)
  /\ disk' = Without(req[c].file)
  /\ UNCHANGED <<req, tmp, left>>

-----------------------------------------------------------------------------
\* WriteFile: an empty temporary file of a new name, ...
Create(c) ==
  /\ pc[c] = "write"
  /\ \E n \in 1..(Cardinality(DOMAIN disk) + 1) :
       LET t == <<req[c].file[1], n>>
       IN /\ t \notin DOMAIN disk
          /\ \A m \in 1..(n - 1) : <<t[1], m>> \in DOMAIN disk
          /\ tmp' = [tmp EXCEPT ![c] = t]
          /\ disk' = [m \in DOMAIN disk \cup {t} |-> IF m = t THEN <<>> ELSE disk[m]]
  /\ GoTo(c, "fill")
  /\ UNCHANGED <<req, ans, left>>

\* As if the destination were written in place.
FillInPlace(c) ==
  /\ pc[c] = "fill"
  /\ disk' = [m \in DOMAIN disk \cup {req[c].file} |->
                IF m = tmp[c] THEN req[c].content ELSE IF m = req[c].file THEN <<>> ELSE disk[m]]
  /\ GoTo(c, "rename")
  /\ UNCHANGED <<req, tmp, ans, left>>

\* ... filled, ...
Fill(c) ==
  /\ pc[c] = "fill"
  /\ disk' = [disk EXCEPT ![tmp[c]] = req[c].content]
  /\ GoTo(c, "rename")
  /\ UNCHANGED <<req, tmp, ans, left>>

\* ... of which only a part may arrive, ...
FillFails(c) ==
  /\ pc[c] = "fill"
  /\ \E k \in 0..Len(req[c].content) :
       disk' = [disk EXCEPT ![tmp[c]] = SubSeq(req[c].content, 1, k)]
  /\ GoTo(c, "discard")
  /\ UNCHANGED <<req, tmp, ans, left>>

\* ... and renamed.
Rename(c) ==
  /\ pc[c] = "rename"
  /\ disk' = [m \in (DOMAIN disk \ {tmp[c]}) \cup {req[c].file} |->
                disk[IF m = req[c].file THEN tmp[c] ELSE m]]
  /\ Answer(c, <<"done">>)
  /\ tmp' = [tmp EXCEPT ![c] = <<>>]
  /\ UNCHANGED <<req, left>>

\* As if a failed rename left the temporary file where it is.
RenameFailsOnly(c) ==
  /\ pc[c] = "rename"
  /\ Answer(c, <<"failed">>)
  /\ UNCHANGED <<disk, req, tmp, left>>

RenameFails(c) ==
  /\ pc[c] = "rename"
  /\ GoTo(c, "discard")
  /\ UNCHANGED <<disk, req, tmp, ans, left>>

\* A failed write removes its temporary file, and ignores a failure to.
Discard(c) ==
  /\ pc[c] = "discard"
  /\ \/ disk' = Without(tmp[c]) /\ UNCHANGED left
     \/ left' = left \cup {tmp[c]} /\ UNCHANGED disk
  /\ Answer(c, <<"failed">>)
  /\ tmp' = [tmp EXCEPT ![c] = <<>>]
  /\ UNCHANGED req

-----------------------------------------------------------------------------
\* ListFiles: the names in the directory, ...
ReadDir(c) ==
  /\ pc[c] = "list"
  /\ ans' = [ans EXCEPT ![c] = <<"names", DOMAIN disk>>]
  /\ GoTo(c, "info")
  /\ UNCHANGED <<disk, req, tmp, left>>

\* ... each of which must still be there when it is looked at.
Info(c) ==
  /\ pc[c] = "info"
  /\ Answer(c, IF ans[c][2] \subseteq DOMAIN disk THEN ans[c] ELSE <<"failed">>)
  /\ UNCHANGED <<disk, req, tmp, left>>

StorageStep(c) ==
  \/ Fails(c) \/ Stat(c) \/ Open(c) \/ Unlink(c)
  \/ Create(c) \/ Fill(c) \/ FillFails(c) \/ Rename(c) \/ RenameFails(c) \/ Discard(c)
  \/ ReadDir(c) \/ Info(c)

\* The process ends; only the directory remains.
DiskCrash ==
  /\ pc' = [c \in Callers |-> "idle"]
  /\ req' = [c \in Callers |-> <<>>]
  /\ tmp' = [c \in Callers |-> <<>>]
  /\ ans' = [c \in Callers |-> <<>>]
  /\ left' = Temps
  /\ UNCHANGED disk

-----------------------------------------------------------------------------
\* A temporary file belongs to a write that is under way, or was left behind by a
\* crash or a failed removal.
TempsAreCleared == Temps = {tmp[c] : c \in Writing} \cup left

\* The calls as their contract sees them; a listing is not one of its calls,
\* and a temporary file is none of its files.
Request(c) == IF req[c].do = "write"
                THEN [do |-> "write", path |-> req[c].file[1], content |-> req[c].content]
                ELSE [do |-> req[c].do, path |-> req[c].file[1]]
Files == [p \in {q \in Paths : File(q) \in DOMAIN disk} |-> disk[File(p)]]
Op(c) ==
  IF pc[c] = "idle" \/ req[c].do = "list" \/ req[c].file[2] > 0 THEN [is |-> "idle"]
  ELSE IF pc[c] = "answered" THEN [is |-> "answered", request |-> Request(c), answer |-> ans[c]]
  ELSE [is |-> "asked", request |-> Request(c)]
Contract == INSTANCE Storage WITH files <- Files, op <- [c \in Callers |-> Op(c)]

\* "Each call is atomic at the backend level" (vfs/storage.go:20): reading,
\* writing and deleting are, on a disk shared by callers that run in any order,
\* fail at any system call and end in a crash at any.
DiskIsAtomic == Contract!Spec
=============================================================================
