----------------------------- MODULE FileTools ------------------------------
(***************************************************************************)
(* The file tools of the agent (agent/tools_builtin.go, tools_grep.go,     *)
(* tools_register.go) on a workspace on the disk that several sessions     *)
(* share.  Each session runs one tool call at a time; a tool checks its    *)
(* arguments against the options and then makes one call of the storage,   *)
(* two (edit_file) or one for each file (grep).                            *)
(*                                                                         *)
(* Words stand for the strings a pattern or an old_string matches; Nul is  *)
(* a NUL byte.  read_file's range of lines, globs, grep's output modes and *)
(* entry limits and the content types are left out, and so is search,      *)
(* which a disk does not offer.                                            *)
(***************************************************************************)
EXTENDS DiskStorage, SequencesExt

CONSTANTS Hidden,      \* paths with a segment that begins with "_" or "."
          Foreign,     \* paths whose extension is not one of AllowedExtensions
          Words, Nul,
          MaxFileBytes,
          ScanBudget,  \* grepScanBudget
          OptionSets,  \* bound: the options the tools are registered with
          ToolCalls,   \* bound: what the model asks for
          MaxCalls,    \* bound: how often
          MaxCrashes   \* bound: crashes

Options == [hide : BOOLEAN, exts : BOOLEAN, readOnly : BOOLEAN, disableExtended : BOOLEAN]

ASSUME FileToolsAssumption ==
  /\ Hidden \subseteq Paths /\ Foreign \subseteq Paths
  /\ Nul \in Words
  /\ MaxFileBytes \in Nat /\ ScanBudget \in Nat \ {0}
  /\ MaxCalls \in Nat /\ MaxCrashes \in Nat
  /\ \A d \in Disks : \A n \in DOMAIN d : d[n] \in Seq(Words)
  /\ OptionSets \subseteq Options
  /\ ToolCalls \subseteq
       [name : {"read_file", "delete_file"}, path : Paths]
       \cup [name : {"write_file"}, path : Paths, content : Seq(Words)]
       \cup [name : {"edit_file"}, path : Paths, old : Words, new : Seq(Words), all : BOOLEAN]
       \cup [name : {"list_files", "glob"}]
       \cup [name : {"grep"}, pattern : Words]

VARIABLES opts,     \* VFSToolOptions: hide, exts (some are set), readOnly, disableExtended
          tool,     \* tool[c]: the tool call session c runs
          todo,     \* todo[c]: the files grep has not read yet
          scanned,  \* scanned[c]: the size of those it has
          shown,    \* shown[c]: the names its answer shows the model, as far as it has come
          verdict,  \* verdict[c]: how its last tool call ended
          changed,  \* history: changed[c]: whether that call has changed a file
          calls, crashes

callVars == <<tool, todo, scanned, shown, verdict, changed>>
vars == <<diskVars, opts, callVars, calls, crashes>>

NoTool == [name |-> "none"]
TypeOK ==
  /\ DOMAIN disk \subseteq Names /\ \A n \in DOMAIN disk : disk[n] \in Seq(Words)
  /\ pc \in [Callers -> Positions]
  /\ \A c \in Callers : tmp[c] = <<>> <=> c \notin Writing
  /\ opts \in Options
  /\ tool \in [Callers -> ToolCalls \cup {NoTool}]
  /\ \A c \in Callers : pc[c] # "idle" => tool[c] # NoTool
  /\ \A c \in Callers : todo[c] \subseteq Names /\ scanned[c] \in 0..(ScanBudget - 1)
  /\ shown \in [Callers -> SUBSET Names]
  /\ verdict \in [Callers -> {"none", "ok", "error"}]
  /\ changed \in [Callers -> BOOLEAN]

Init ==
  /\ DiskInit
  /\ opts \in OptionSets
  /\ tool = [c \in Callers |-> NoTool]
  /\ todo = [c \in Callers |-> {}]
  /\ scanned = [c \in Callers |-> 0]
  /\ shown = [c \in Callers |-> {}]
  /\ verdict = [c \in Callers |-> "none"]
  /\ changed = [c \in Callers |-> FALSE]
  /\ calls = 0 /\ crashes = 0

-----------------------------------------------------------------------------
\* The policy.  A temporary file is called ".<base>.tmp-<suffix>".
IsHidden(n) == n[2] > 0 \/ n[1] \in Hidden
ExtensionAllowed(n) == opts.exts => n[2] = 0 /\ n[1] \notin Foreign
Addressable(n) == ExtensionAllowed(n) /\ (opts.hide => ~IsHidden(n))
Visible(n) == (opts.hide => ~IsHidden(n)) /\ ExtensionAllowed(n)
VisibleIn(ns) == {n \in ns : Visible(n)}

\* As if ReadOnly were about the two tools its comment names.
RegisteredWithEdit(t) ==
  /\ t \in {"write_file", "delete_file"} => ~opts.readOnly
  /\ t \in {"grep", "glob", "edit_file"} => ~opts.disableExtended
Registered(t) ==
  /\ t \in {"write_file", "delete_file", "edit_file"} => ~opts.readOnly
  /\ t \in {"grep", "glob", "edit_file"} => ~opts.disableExtended

\* What a tool call is refused for before it touches the storage.
Acceptable(t) ==
  /\ Registered(t.name)
  /\ t.name \in {"read_file", "write_file", "delete_file", "edit_file"} =>
       Addressable(File(t.path))
  /\ t.name = "write_file" => Len(t.content) <= MaxFileBytes
  /\ t.name = "edit_file" => t.new # <<t.old>>

FirstRequest(t) ==
  CASE t.name \in {"read_file", "edit_file"} -> [do |-> "read", file |-> File(t.path)]
    [] t.name = "write_file" -> [do |-> "write", file |-> File(t.path), content |-> t.content]
    [] t.name = "delete_file" -> [do |-> "delete", file |-> File(t.path)]
    [] t.name \in {"list_files", "glob", "grep"} -> [do |-> "list"]

-----------------------------------------------------------------------------
\* The tool call of session c ends with the error e or shows the names ns.
End(c, v, ns) ==
  /\ HangUp(c)
  /\ verdict' = [verdict EXCEPT ![c] = v]
  /\ shown' = [shown EXCEPT ![c] = ns]
  /\ tool' = [tool EXCEPT ![c] = NoTool]
  /\ todo' = [todo EXCEPT ![c] = {}]
  /\ scanned' = [scanned EXCEPT ![c] = 0]
  /\ UNCHANGED <<opts, changed, calls, crashes>>

\* Registry.Dispatch and the checks of the handler.
Dispatch(c) ==
  /\ tool[c] = NoTool
  /\ calls < MaxCalls /\ calls' = calls + 1
  /\ \E t \in ToolCalls :
       IF Acceptable(t)
         THEN /\ Call(c, FirstRequest(t))
              /\ tool' = [tool EXCEPT ![c] = t]
              /\ verdict' = [verdict EXCEPT ![c] = "none"]
         ELSE /\ verdict' = [verdict EXCEPT ![c] = "error"]
              /\ UNCHANGED <<diskVars, tool>>
  /\ shown' = [shown EXCEPT ![c] = {}]
  /\ changed' = [changed EXCEPT ![c] = FALSE]
  /\ UNCHANGED <<opts, todo, scanned, crashes>>

\* The storage works for session c.
StorageWorks(c) ==
  /\ StorageStep(c)
  /\ changed' = [changed EXCEPT ![c] = @ \/ Files' # Files]
  /\ UNCHANGED <<opts, tool, todo, scanned, shown, verdict, calls, crashes>>

Answers(c, t, a) == pc[c] = "answered" /\ tool[c].name \in t /\ ans[c][1] \in a

\* Any error of the storage ends any tool.
StorageErred(c) ==
  /\ pc[c] = "answered" /\ ans[c][1] \in {"failed", "notFound"}
  /\ End(c, "error", {})

ReadTold(c) ==
  /\ Answers(c, {"read_file"}, {"content"})
  /\ End(c, "ok", {File(tool[c].path)})

ChangeTold(c) ==
  /\ Answers(c, {"write_file", "delete_file", "edit_file"}, {"done"})
  /\ End(c, "ok", {})

ListTold(c) ==
  /\ Answers(c, {"list_files", "glob"}, {"names"})
  /\ End(c, "ok", VisibleIn(ans[c][2]))

-----------------------------------------------------------------------------
\* edit_file, once it has read the file.
Occurrences(s, w) == Cardinality({i \in DOMAIN s : s[i] = w})
Replaced(s, w, new) == FlattenSeq([i \in DOMAIN s |-> IF s[i] = w THEN new ELSE <<s[i]>>])
IsBinary(s) == Contains(s, Nul)

Editable(s, t) ==
  /\ ~IsBinary(s)
  /\ Occurrences(s, t.old) = 1 \/ (t.all /\ Occurrences(s, t.old) > 1)
  /\ Len(Replaced(s, t.old, t.new)) <= MaxFileBytes

EditRefused(c) ==
  /\ Answers(c, {"edit_file"}, {"content"})
  /\ ~Editable(ans[c][2], tool[c])
  /\ End(c, "error", {})

EditWrites(c) ==
  /\ Answers(c, {"edit_file"}, {"content"})
  /\ Editable(ans[c][2], tool[c])
  /\ Call(c, [do |-> "write", file |-> File(tool[c].path),
              content |-> Replaced(ans[c][2], tool[c].old, tool[c].new)])
  /\ UNCHANGED <<opts, tool, todo, scanned, shown, verdict, changed, calls, crashes>>

-----------------------------------------------------------------------------
\* grep, once it has the listing: one file after another.  Paths are numbered in
\* the order of a listing; the dot of a temporary file comes first.
Before(m, n) ==
  LET key(x) == <<IF x[2] > 0 THEN 0 ELSE 1, x[1], x[2]>>
      k == key(m)  l == key(n)
  IN \E i \in 1..3 : k[i] < l[i] /\ \A j \in 1..(i - 1) : k[j] = l[j]

ScannedEnough(size) == size >= ScanBudget

\* Of the files ns the first is read, after size many bytes.
GrepOn(c, ns, size, hits) ==
  IF ns = {} \/ ScannedEnough(size)
    THEN End(c, "ok", hits)
    ELSE \E n \in ns :
           /\ \A m \in ns \ {n} : Before(n, m)
           /\ Call(c, [do |-> "read", file |-> n])
           /\ todo' = [todo EXCEPT ![c] = ns \ {n}]
           /\ scanned' = [scanned EXCEPT ![c] = size]
           /\ shown' = [shown EXCEPT ![c] = hits]
           /\ UNCHANGED <<opts, tool, verdict, changed, calls, crashes>>

GrepStarts(c) ==
  /\ Answers(c, {"grep"}, {"names"})
  /\ GrepOn(c, VisibleIn(ans[c][2]), 0, {})

GrepReads(c) ==
  /\ Answers(c, {"grep"}, {"content"})
  /\ LET s == ans[c][2]
         hit == ~IsBinary(s) /\ Contains(s, tool[c].pattern)
     IN GrepOn(c, todo[c], scanned[c] + Len(s),
               shown[c] \cup IF hit THEN {req[c].file} ELSE {})

Crash ==
  /\ crashes < MaxCrashes /\ crashes' = crashes + 1
  /\ DiskCrash
  /\ tool' = [c \in Callers |-> NoTool]
  /\ todo' = [c \in Callers |-> {}]
  /\ scanned' = [c \in Callers |-> 0]
  /\ shown' = [c \in Callers |-> {}]
  /\ verdict' = [c \in Callers |-> "none"]
  /\ changed' = [c \in Callers |-> FALSE]
  /\ UNCHANGED <<opts, calls>>

Next ==
  \/ Crash
  \/ \E c \in Callers :
       \/ Dispatch(c) \/ StorageWorks(c) \/ StorageErred(c)
       \/ ReadTold(c) \/ ChangeTold(c) \/ ListTold(c)
       \/ EditRefused(c) \/ EditWrites(c)
       \/ GrepStarts(c) \/ GrepReads(c)

Spec == Init /\ [][Next]_vars

-----------------------------------------------------------------------------
\* Under a policy that hides something, the model is shown nothing but files it
\* may address: no hidden or foreign file, and no temporary file of a write that
\* is under way or was cut short (tools_builtin.go:286-290); and no call, of any
\* session, changes a file outside the policy, and with ReadOnly none changes
\* any (tools_register.go:16-19, 45-61).
Showable(n) == n[2] = 0 /\ (opts.hide => n[1] \notin Hidden) /\ (opts.exts => n[1] \notin Foreign)
Guarded(p) == opts.readOnly \/ (opts.hide /\ p \in Hidden) \/ (opts.exts /\ p \in Foreign)

PolicyGuardsFiles ==
  /\ [][(opts.hide \/ opts.exts) =>
          \A c \in Callers : (tool[c] = NoTool)' => \A n \in shown'[c] : Showable(n)]_vars
  /\ [][\A p \in Paths : Guarded(p) =>
          /\ File(p) \in DOMAIN disk <=> File(p) \in (DOMAIN disk)'
          /\ File(p) \in DOMAIN disk => disk'[File(p)] = disk[File(p)]]_vars

\* Whichever of its steps fails, a tool that reports an error has changed no
\* file, and a write has cleared up behind itself: a temporary file on the disk
\* belongs to a write under way, or a crash or a failed removal left it there
\* (osfs/storage.go:117-126), and nobody else's (TypeOK).
FailureLeavesNothing ==
  /\ TypeOK
  /\ \A c \in Callers : verdict[c] = "error" => ~changed[c]
  /\ TempsAreCleared
=============================================================================
