------------------------------ MODULE Storage -------------------------------
(***************************************************************************)
(* What vfs.Storage promises of reading, writing and deleting a file       *)
(* (vfs/storage.go): "each call is atomic at the backend level".  A caller *)
(* asks, the call takes effect or fails without one, and it is answered.   *)
(* A crash of the process ends the calls; the files remain.                *)
(***************************************************************************)
CONSTANTS Callers, Paths, Contents

VARIABLES files,  \* the content of each file there is
          op      \* op[c]: the call of c, from its request to its answer

Idle == [is |-> "idle"]
Requests == [do : {"read", "delete"}, path : Paths]
            \cup [do : {"write"}, path : Paths, content : Contents]
Asked(r) == [is |-> "asked", request |-> r]
Answered(r, a) == [is |-> "answered", request |-> r, answer |-> a]

Init == /\ DOMAIN files \subseteq Paths
        /\ op = [c \in Callers |-> Idle]

Ask(c) ==
  /\ op[c].is # "asked"
  /\ \E r \in Requests : op' = [op EXCEPT ![c] = Asked(r)]
  /\ UNCHANGED files

\* The call c does d on path p, and is answered with a.
Does(c, d, p, a) ==
  /\ op[c].is = "asked"
  /\ op[c].request.do = d /\ op[c].request.path = p
  /\ op' = [op EXCEPT ![c] = Answered(op[c].request, a)]

Read(c, p) ==
  /\ p \in DOMAIN files
  /\ Does(c, "read", p, <<"content", files[p]>>)
  /\ UNCHANGED files

Write(c, p) ==
  /\ Does(c, "write", p, <<"done">>)
  /\ files' = [q \in DOMAIN files \cup {p} |-> IF q = p THEN op[c].request.content ELSE files[q]]

Delete(c, p) ==
  /\ p \in DOMAIN files
  /\ Does(c, "delete", p, <<"done">>)
  /\ files' = [q \in DOMAIN files \ {p} |-> files[q]]

NotFound(c, d, p) ==
  /\ d # "write" /\ p \notin DOMAIN files
  /\ Does(c, d, p, <<"notFound">>)
  /\ UNCHANGED files

Fail(c, d, p) == Does(c, d, p, <<"failed">>) /\ UNCHANGED files

Dismiss(c) ==
  /\ op[c].is = "answered"
  /\ op' = [op EXCEPT ![c] = Idle]
  /\ UNCHANGED files

Crash == op' = [c \in Callers |-> Idle] /\ UNCHANGED files

Next ==
  \/ Crash
  \/ \E c \in Callers :
       \/ Ask(c) \/ Dismiss(c)
       \/ \E p \in Paths :
            \/ Read(c, p) \/ Write(c, p) \/ Delete(c, p)
            \/ \E d \in {"read", "write", "delete"} : NotFound(c, d, p) \/ Fail(c, d, p)

Spec == Init /\ [][Next]_<<files, op>>
=============================================================================
