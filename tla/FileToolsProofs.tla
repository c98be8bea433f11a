--------------------------- MODULE FileToolsProofs --------------------------
(***************************************************************************)
(* The file tools on a disk, for any number of sessions, tool calls,       *)
(* crashes, files and contents.                                            *)
(*                                                                         *)
(* The invariant says of each session what its tool call has led to: which *)
(* call of the storage runs for it, on which file, and what an answer may  *)
(* hold.  It is local, so a step of one session preserves it for all the   *)
(* others; they meet on the disk alone, where each temporary file is the   *)
(* one of a single write or was left behind.                               *)
(***************************************************************************)
EXTENDS FileTools, SequenceTheorems, FiniteSetTheorems, WellFoundedInduction, TLAPS

-----------------------------------------------------------------------------
\* The inductive invariant.

PathFiles == {File(p) : p \in Paths}
DiskRequests == [do : {"read"}, file : Names]
                \cup [do : {"delete"}, file : PathFiles]
                \cup [do : {"write"}, file : PathFiles, content : Seq(Words)]
                \cup [do : {"list"}]
DiskAnswers == {<<"failed">>, <<"notFound">>, <<"done">>}
               \cup {"content"} \X Seq(Words) \cup {"names"} \X SUBSET Names

DiskTyped == DOMAIN disk \subseteq Names /\ \A n \in DOMAIN disk : disk[n] \in Seq(Words)

Maps ==
  /\ DOMAIN req = Callers /\ DOMAIN tmp = Callers /\ DOMAIN ans = Callers
  /\ DOMAIN todo = Callers /\ DOMAIN scanned = Callers
  /\ pc \in [Callers -> Positions]
  /\ tool \in [Callers -> ToolCalls \cup {NoTool}]
  /\ shown \in [Callers -> SUBSET Names]
  /\ verdict \in [Callers -> {"none", "ok", "error"}]
  /\ changed \in [Callers -> BOOLEAN]
  /\ opts \in Options

\* Where the call of the storage is, and what it may have been told.
CallInv(c) ==
  /\ pc[c] # "idle" => req[c] \in DiskRequests
  /\ pc[c] \in {"read", "open"} => req[c].do = "read"
  /\ pc[c] \in {"delete", "remove"} => req[c].do = "delete"
  /\ pc[c] \in {"write", "fill", "rename", "discard"} => req[c].do = "write"
  /\ pc[c] \in {"list", "info"} => req[c].do = "list"
  /\ pc[c] = "info" => ans[c] \in {"names"} \X SUBSET Names
  /\ pc[c] = "answered" =>
       ans[c] \in DiskAnswers /\ (ans[c][1] = "content" => req[c].do = "read")

\* What the tool has asked for: nothing but the file it was given, or files the
\* policy shows.
ToolInv(c) ==
  /\ tool[c] = NoTool <=> pc[c] = "idle"
  /\ tool[c] # NoTool => verdict[c] = "none" /\ Acceptable(tool[c])
  /\ tool[c].name = "read_file" => req[c].do = "read" /\ req[c].file = File(tool[c].path)
  /\ tool[c].name = "delete_file" => req[c].do = "delete" /\ req[c].file = File(tool[c].path)
  /\ tool[c].name = "write_file" => req[c].do = "write" /\ req[c].file = File(tool[c].path)
  /\ tool[c].name = "edit_file" => req[c].do \in {"read", "write"} /\ req[c].file = File(tool[c].path)
  /\ tool[c].name \in {"list_files", "glob"} => req[c].do = "list"
  /\ tool[c].name = "grep" =>
       req[c].do = "list" \/ (req[c].do = "read" /\ Visible(req[c].file))

\* What grep has before it and what the model is shown.
ShownInv(c) ==
  /\ todo[c] \subseteq Names /\ \A n \in todo[c] : Visible(n)
  /\ scanned[c] \in 0..(ScanBudget - 1)
  /\ \A n \in shown[c] : Visible(n)

ChangedInv(c) ==
  changed[c] => \/ pc[c] = "answered" /\ ans[c] = <<"done">>
                \/ pc[c] = "idle" /\ verdict[c] # "error"

SessionInv(c) == CallInv(c) /\ ToolInv(c) /\ ShownInv(c) /\ ChangedInv(c)

TmpInv ==
  /\ \A c \in Callers : IF c \in Writing THEN tmp[c] \in Temps \ left ELSE tmp[c] = <<>>
  /\ \A c, d \in Writing : c # d => tmp[c] # tmp[d]
  /\ TempsAreCleared

FilesInv == DiskTyped /\ Maps /\ (\A c \in Callers : SessionInv(c)) /\ TmpInv

-----------------------------------------------------------------------------
\* Replacing words keeps a content a sequence of words.

\* Induction over the naturals, for a set of them.
LEMMA LeastNat ==
  ASSUME NEW T, T \subseteq Nat, T # {}
  PROVE  \E x \in T : \A y \in T : x <= y
<1>1. IsWellFoundedOn(OpToRel(<, Nat), Nat)
  BY NatLessThanWellFounded
<1>2. PICK x \in T : \A y \in T : ~ (<<y, x>> \in OpToRel(<, Nat))
  BY <1>1, WFMin
<1>3. \A y \in T : ~ (<<y, x>> \in {ss \in Nat \X Nat : ss[1] < ss[2]})
  BY <1>2, Zenon DEF OpToRel
<1>4. \A y \in T : ~(y < x)
  BY <1>3
<1> QED
  BY <1>4

LEMMA FlattenSeqType ==
  ASSUME NEW S, NEW ss \in Seq(Seq(S))
  PROVE  FlattenSeq(ss) \in Seq(S)
<1> DEFINE N == Len(ss)
           Step(f, i) == IF i = 1 THEN ss[i] ELSE f[i - 1] \o ss[i]
           Partial(f, m) == f \in [1..m -> Seq(S)] /\ \A i \in 1..m : f[i] = Step(f, i)
<1>1. N \in Nat /\ \A i \in 1..N : ss[i] \in Seq(S)
  BY LenProperties, ElementOfSeq
<1>2. CASE N = 0
  BY <1>2 DEF FlattenSeq
<1>3. CASE N # 0
  <2>1. \A m \in 1..N : \E f : Partial(f, m)
    <3> DEFINE T == {m \in 1..N : ~ \E f : Partial(f, m)}
    <3>1. SUFFICES ASSUME T # {}
                   PROVE  FALSE
      OBVIOUS
    <3> HIDE DEF Partial
    <3>2. PICK x \in 1..N : ~(\E f : Partial(f, x)) /\ \A y \in 1..N : y < x => \E f : Partial(f, y)
      <4>1. PICK x \in T : \A y \in T : x <= y
        <5>1. T \subseteq Nat
          OBVIOUS
        <5> HIDE DEF T
        <5> QED
          BY <3>1, <5>1, LeastNat
      <4>2. \A y \in 1..N : y < x => y \notin T
        BY <1>1, <4>1
      <4> QED
        BY <4>1, <4>2
    <3> USE DEF Partial
    <3>3. CASE x = 1
      <4>1. Partial([i \in 1..1 |-> ss[1]], 1)
        BY <1>1, <1>3
      <4> QED
        BY <3>2, <3>3, <4>1
    <3>4. CASE x # 1
      <4>1. x - 1 \in 1..N /\ x - 1 < x
        BY <1>1, <3>4
      <4>2. PICK f : Partial(f, x - 1)
        BY <3>2, <4>1
      <4> DEFINE g == [i \in 1..x |-> IF i < x THEN f[i] ELSE f[x - 1] \o ss[x]]
      <4>3. f[x - 1] \o ss[x] \in Seq(S)
        BY <1>1, <3>2, <4>1, <4>2
      <4>4. g \in [1..x -> Seq(S)]
        BY <1>1, <3>2, <4>2, <4>3
      <4>5. ASSUME NEW i \in 1..x
            PROVE  g[i] = Step(g, i)
        <5>1. CASE i = 1
          <6>1. 1 \in 1..(x - 1) /\ 1 \in 1..x /\ 1 < x
            BY <1>1, <3>4
          <6>2. f[1] = ss[1]
            BY <4>2, <6>1
          <6>3. g[1] = f[1]
            BY <6>1
          <6> QED
            BY <5>1, <6>2, <6>3
        <5>2. CASE i # 1 /\ i < x
          <6>1. i \in 1..(x - 1) /\ i - 1 \in 1..x /\ i - 1 < x
            BY <1>1, <5>2
          <6> QED
            BY <4>2, <5>2, <6>1
        <5>3. CASE i = x
          <6>1. x - 1 \in 1..x /\ x - 1 < x /\ x \in 1..x /\ ~(x < x)
            BY <1>1, <3>4
          <6>2. g[x - 1] = f[x - 1]
            BY <6>1
          <6>3. g[x] = f[x - 1] \o ss[x]
            BY <6>1
          <6> HIDE DEF g
          <6> QED
            BY <3>4, <5>3, <6>2, <6>3
        <5> QED
          BY <1>1, <5>1, <5>2, <5>3
      <4> QED
        BY <3>2, <4>4, <4>5
    <3> QED
      BY <3>3, <3>4
  <2>2. PICK f : Partial(f, N)
    <3>1. N \in 1..N
      BY <1>1, <1>3
    <3> HIDE DEF Partial
    <3> QED
      BY <2>1, <3>1
  <2> DEFINE flatten == CHOOSE h : h = [i \in 1..N |-> Step(h, i)]
  <2>3. f = [i \in 1..N |-> Step(f, i)]
    BY <2>2
  <2>4. flatten = [i \in 1..N |-> Step(flatten, i)]
    BY <2>3
  <2>5. FlattenSeq(ss) = flatten[N]
    BY <1>3, Zenon DEF FlattenSeq
  <2> HIDE DEF flatten
  <2>6. \A i \in 1..N : flatten[i] \in Seq(S)
    <3> DEFINE T == {i \in 1..N : flatten[i] \notin Seq(S)}
    <3>1. SUFFICES ASSUME T # {}
                   PROVE  FALSE
      OBVIOUS
    <3>2. PICK x \in T : \A y \in T : x <= y
      <4>1. T \subseteq Nat
        OBVIOUS
      <4> HIDE DEF T
      <4> QED
        BY <3>1, <4>1, LeastNat
    <3>3. flatten[x] = Step(flatten, x) /\ ss[x] \in Seq(S)
      BY <1>1, <2>4, <3>2
    <3>4. CASE x = 1
      BY <3>2, <3>3, <3>4
    <3>5. CASE x # 1
      <4>1. x - 1 \in 1..N /\ x - 1 \notin T
        BY <1>1, <3>2, <3>5
      <4> QED
        <5>1. flatten[x - 1] \in Seq(S) /\ flatten[x] = flatten[x - 1] \o ss[x]
          BY <3>3, <3>5, <4>1
        <5>2. flatten[x] \in Seq(S)
          BY <3>3, <5>1, ConcatProperties
        <5> QED
          BY <3>2, <5>2
    <3> QED
      BY <3>4, <3>5
  <2> QED
    BY <1>1, <1>3, <2>5, <2>6
<1> QED
  BY <1>2, <1>3

-----------------------------------------------------------------------------
\* The session that takes a step, and the others.

Same(d) ==
  /\ pc'[d] = pc[d] /\ req'[d] = req[d] /\ ans'[d] = ans[d]
  /\ tool'[d] = tool[d] /\ todo'[d] = todo[d] /\ scanned'[d] = scanned[d]
  /\ shown'[d] = shown[d] /\ verdict'[d] = verdict[d] /\ changed'[d] = changed[d]

LEMMA OthersKept ==
  ASSUME NEW d, SessionInv(d), Same(d), opts' = opts
  PROVE  SessionInv(d)'
<1>1. CallInv(d)'
  BY DEF SessionInv, CallInv, Same
<1>2. ToolInv(d)'
  BY DEF SessionInv, ToolInv, Same, Acceptable, Registered, Addressable, Visible, ExtensionAllowed,
         IsHidden
<1>3. ShownInv(d)'
  BY DEF SessionInv, ShownInv, Same, Visible, ExtensionAllowed, IsHidden
<1>4. ChangedInv(d)'
  BY DEF SessionInv, ChangedInv, Same
<1> QED
  BY <1>1, <1>2, <1>3, <1>4 DEF SessionInv

\* A system call moves the call on, for the same request.
Advances(c) ==
  /\ pc[c] \notin {"idle", "answered"}
  /\ req' = req
  /\ pc' \in [Callers -> Positions] /\ pc'[c] # "idle"
  /\ DOMAIN ans' = Callers
  /\ \A d \in Callers \ {c} : pc'[d] = pc[d] /\ ans'[d] = ans[d]
  /\ CallInv(c)'

LEMMA AnswersAreTyped ==
  /\ <<"failed">> \in DiskAnswers /\ <<"notFound">> \in DiskAnswers /\ <<"done">> \in DiskAnswers
  /\ \A s \in Seq(Words) : <<"content", s>> \in DiskAnswers
  /\ \A ns \in SUBSET Names : <<"names", ns>> \in DiskAnswers
BY DEF DiskAnswers

LEMMA AnswerAdvances ==
  ASSUME Maps, NEW c \in Callers, CallInv(c), pc[c] \notin {"idle", "answered"},
         NEW a \in DiskAnswers, a[1] = "content" => req[c].do = "read", Answer(c, a), req' = req
  PROVE  Advances(c)
<1>1. /\ DOMAIN pc = Callers /\ DOMAIN ans = Callers
      /\ pc' = [pc EXCEPT ![c] = "answered"] /\ ans' = [ans EXCEPT ![c] = a]
  BY DEF Maps, Answer, GoTo
<1>2. /\ pc'[c] = "answered" /\ ans'[c] = a /\ DOMAIN ans' = Callers
      /\ \A d \in Callers \ {c} : pc'[d] = pc[d] /\ ans'[d] = ans[d]
  BY <1>1
<1>3. pc' \in [Callers -> Positions]
  BY <1>1 DEF Maps, Positions
<1>4. CallInv(c)'
  BY <1>2 DEF CallInv
<1> QED
  BY <1>2, <1>3, <1>4 DEF Advances

LEMMA GoingAdvances ==
  ASSUME Maps, NEW c \in Callers, CallInv(c), pc[c] \notin {"idle", "answered"},
         NEW l \in Positions, GoTo(c, l), ans' = ans, req' = req,
         \/ pc[c] = "read" /\ l = "open"
         \/ pc[c] = "delete" /\ l = "remove"
         \/ pc[c] \in {"write", "fill", "rename"} /\ l \in {"fill", "rename", "discard"}
  PROVE  Advances(c)
<1>1. /\ DOMAIN pc = Callers /\ DOMAIN ans = Callers /\ pc' = [pc EXCEPT ![c] = l]
  BY DEF Maps, GoTo
<1>2. pc'[c] = l /\ \A d \in Callers \ {c} : pc'[d] = pc[d]
  BY <1>1
<1>3. pc' \in [Callers -> Positions]
  BY <1>1 DEF Maps
<1>4. CallInv(c)'
  BY <1>2 DEF CallInv
<1> QED
  BY <1>1, <1>2, <1>3, <1>4 DEF Advances

LEMMA StorageAdvances ==
  ASSUME Maps, DiskTyped, NEW c \in Callers, CallInv(c), StorageStep(c)
  PROVE  Advances(c)
<1> USE AnswersAreTyped
<1>1. CASE Fails(c)
  BY <1>1, AnswerAdvances DEF Fails
<1>2. CASE Stat(c)
  <2>1. CASE req[c].file \in DOMAIN disk
    BY <1>2, <2>1, GoingAdvances DEF Stat, Positions
  <2>2. CASE req[c].file \notin DOMAIN disk
    BY <1>2, <2>2, AnswerAdvances DEF Stat
  <2> QED
    BY <2>1, <2>2
<1>3. CASE Open(c)
  <2>1. req[c].file \in DOMAIN disk => disk[req[c].file] \in Seq(Words)
    BY DEF DiskTyped
  <2> QED
    BY <1>3, <2>1, AnswerAdvances DEF Open, CallInv
<1>4. CASE Unlink(c)
  BY <1>4, AnswerAdvances DEF Unlink
<1>5. CASE Create(c) \/ Fill(c) \/ FillFails(c) \/ RenameFails(c)
  BY <1>5, GoingAdvances DEF Create, Fill, FillFails, RenameFails, Positions
<1>6. CASE Rename(c) \/ Discard(c)
  BY <1>6, AnswerAdvances DEF Rename, Discard
<1>7. CASE ReadDir(c)
  <2>1. /\ pc[c] = "list" /\ pc' = [pc EXCEPT ![c] = "info"] /\ req' = req
        /\ ans' = [ans EXCEPT ![c] = <<"names", DOMAIN disk>>]
    BY <1>7 DEF ReadDir, GoTo
  <2>2. /\ pc'[c] = "info" /\ ans'[c] = <<"names", DOMAIN disk>> /\ DOMAIN ans' = Callers
        /\ \A d \in Callers \ {c} : pc'[d] = pc[d] /\ ans'[d] = ans[d]
    BY <2>1 DEF Maps
  <2>3. pc' \in [Callers -> Positions]
    BY <2>1 DEF Maps, Positions
  <2>4. ans'[c] \in {"names"} \X SUBSET Names
    BY <2>2 DEF DiskTyped
  <2>5. CallInv(c)'
    BY <2>1, <2>2, <2>4 DEF CallInv
  <2> QED
    BY <2>1, <2>2, <2>3, <2>5 DEF Advances
<1>8. CASE Info(c)
  <2>1. ans[c] \in DiskAnswers /\ ans[c][1] # "content"
    BY <1>8 DEF Info, CallInv, DiskAnswers
  <2> QED
    BY <1>8, <2>1, AnswerAdvances DEF Info
<1> QED
  BY <1>1, <1>2, <1>3, <1>4, <1>5, <1>6, <1>7, <1>8 DEF StorageStep

-----------------------------------------------------------------------------
\* The disk.

LEMMA RequestFields ==
  ASSUME NEW r \in DiskRequests
  PROVE  /\ r.do = "read" => r.file \in Names
         /\ r.do = "delete" => r.file \in PathFiles
         /\ r.do = "write" => r.file \in PathFiles /\ r.content \in Seq(Words)
BY DEF DiskRequests

LEMMA PathFilesAreFiles ==
  ASSUME NEW f \in PathFiles
  PROVE  f[1] \in Paths /\ f[2] = 0 /\ f = File(f[1]) /\ f \in Names
BY DEF PathFiles, File, Names

LEMMA FileIsNoTemp ==
  ASSUME NEW p
  PROVE  File(p)[1] = p /\ File(p)[2] = 0
BY DEF File

\* The temporary files, each with its one owner.
LEMMA TempsByOwner ==
  TempsAreCleared <=> \A n : n \in Temps <=> (\E c \in Writing : tmp[c] = n) \/ n \in left
BY DEF TempsAreCleared

LEMMA WriteFields ==
  ASSUME NEW c \in Callers, CallInv(c), pc[c] \in {"write", "fill", "rename", "discard"}
  PROVE  req[c].file \in PathFiles /\ req[c].content \in Seq(Words)
BY RequestFields DEF CallInv

LEMMA TmpFields ==
  ASSUME TmpInv, DiskTyped, NEW c \in Callers, c \in Writing
  PROVE  /\ tmp[c] \in DOMAIN disk /\ tmp[c] \in Temps /\ tmp[c] \in Names /\ tmp[c][2] > 0
         /\ tmp[c] \notin left /\ \A p : tmp[c] # File(p)
BY FileIsNoTemp DEF TmpInv, DiskTyped, Temps

LEMMA TypedStep ==
  ASSUME Maps, DiskTyped, TmpInv, NEW c \in Callers, CallInv(c), StorageStep(c)
  PROVE  DiskTyped'
<1>1. CASE disk' = disk
  BY <1>1 DEF DiskTyped
<1>2. ASSUME NEW n, disk' = Without(n)
      PROVE  DiskTyped'
  BY <1>2 DEF DiskTyped, Without
<1>3. CASE Create(c)
  <2>1. PICK n, t :
          /\ n \in 1..(Cardinality(DOMAIN disk) + 1)
          /\ t = <<req[c].file[1], n>>
          /\ disk' = [m \in DOMAIN disk \cup {t} |-> IF m = t THEN <<>> ELSE disk[m]]
    BY <1>3 DEF Create
  <2>2. t \in Names
    BY <1>3, <2>1, WriteFields, PathFilesAreFiles DEF Create, Names
  <2>3. <<>> \in Seq(Words)
    OBVIOUS
  <2> QED
    BY <2>1, <2>2, <2>3 DEF DiskTyped
<1>4. CASE Fill(c) \/ FillFails(c)
  <2>1. req[c].content \in Seq(Words)
    BY <1>4, WriteFields DEF Fill, FillFails
  <2>2. PICK s \in Seq(Words) : disk' = [disk EXCEPT ![tmp[c]] = s]
    <3>1. CASE Fill(c)
      BY <2>1, <3>1 DEF Fill
    <3>2. CASE FillFails(c)
      <4>1. PICK k \in 0..Len(req[c].content) :
              disk' = [disk EXCEPT ![tmp[c]] = SubSeq(req[c].content, 1, k)]
        BY <3>2 DEF FillFails
      <4>2. SubSeq(req[c].content, 1, k) \in Seq(Words)
        BY <2>1, SubSeqProperties, LenProperties
      <4> QED
        BY <4>1, <4>2
    <3> QED
      BY <1>4, <3>1, <3>2
  <2> QED
    BY <2>2 DEF DiskTyped
<1>5. CASE Rename(c)
  <2>1. /\ disk' = [m \in (DOMAIN disk \ {tmp[c]}) \cup {req[c].file} |->
                      disk[IF m = req[c].file THEN tmp[c] ELSE m]]
        /\ c \in Writing
    BY <1>5 DEF Rename, Writing
  <2>2. req[c].file \in Names /\ tmp[c] \in DOMAIN disk
    BY <1>5, <2>1, WriteFields, PathFilesAreFiles, TmpFields DEF Rename
  <2> QED
    BY <2>1, <2>2 DEF DiskTyped
<1>6. CASE Unlink(c) \/ Discard(c)
  BY <1>1, <1>2, <1>6 DEF Unlink, Discard
<1>7. CASE Fails(c) \/ Stat(c) \/ Open(c) \/ RenameFails(c) \/ ReadDir(c) \/ Info(c)
  BY <1>1, <1>7 DEF Fails, Stat, Open, RenameFails, ReadDir, Info
<1> QED
  BY <1>3, <1>4, <1>5, <1>6, <1>7 DEF StorageStep

LEMMA TmpKept ==
  ASSUME TmpInv, (DOMAIN disk)' = DOMAIN disk, Writing' = Writing, tmp' = tmp, left' = left
  PROVE  TmpInv'
BY DEF TmpInv, TempsAreCleared, Temps

LEMMA WritingMoves ==
  ASSUME Maps, NEW c \in Callers, NEW l, GoTo(c, l)
  PROVE  Writing' = IF l \in {"fill", "rename", "discard"} THEN Writing \cup {c} ELSE Writing \ {c}
<1>1. pc'[c] = l /\ \A d \in Callers \ {c} : pc'[d] = pc[d]
  BY DEF Maps, GoTo
<1> QED
  BY <1>1 DEF Writing

\* A write gives its temporary file up: it is removed or left behind.
LEMMA TmpGivenUp ==
  ASSUME Maps, TmpInv, NEW c \in Callers, c \in Writing, Writing' = Writing \ {c},
         tmp' = [tmp EXCEPT ![c] = <<>>],
         \/ Temps' = Temps \ {tmp[c]} /\ left' = left
         \/ Temps' = Temps /\ left' = left \cup {tmp[c]}
  PROVE  TmpInv'
<1>1. DOMAIN tmp = Callers /\ Writing \subseteq Callers
  BY DEF Maps, Writing
<1>2. tmp'[c] = <<>> /\ \A d \in Callers \ {c} : tmp'[d] = tmp[d]
  BY <1>1
<1>3. \A d \in Writing' : d # c /\ tmp'[d] = tmp[d] /\ tmp[d] # tmp[c] /\ tmp[d] \in Temps \ left
  BY <1>1, <1>2 DEF TmpInv
<1>4. \A d \in Callers : IF d \in Writing' THEN tmp'[d] \in Temps' \ left' ELSE tmp'[d] = <<>>
  BY <1>1, <1>2, <1>3 DEF TmpInv
<1>5. \A d, e \in Writing' : d # e => tmp'[d] # tmp'[e]
  BY <1>3 DEF TmpInv
<1>6. Temps = {tmp[d] : d \in Writing} \cup left /\ tmp[c] \notin left
  BY <1>1 DEF TmpInv, TempsAreCleared
<1>7. {tmp[d] : d \in Writing} = {tmp[d] : d \in Writing'} \cup {tmp[c]}
  OBVIOUS
<1>8. {tmp'[d] : d \in Writing'} = {tmp[d] : d \in Writing'} /\ tmp[c] \notin {tmp[d] : d \in Writing'}
  BY <1>3
<1>9. Temps' = {tmp'[d] : d \in Writing'} \cup left'
  BY <1>6, <1>7, <1>8
<1> QED
  BY <1>4, <1>5, <1>9 DEF TmpInv, TempsAreCleared

LEMMA TmpStep ==
  ASSUME Maps, DiskTyped, TmpInv, NEW c \in Callers, CallInv(c), StorageStep(c)
  PROVE  TmpInv'
<1>1. CASE Fails(c) \/ Stat(c) \/ Open(c) \/ ReadDir(c) \/ Info(c)
  <2>1. disk' = disk /\ tmp' = tmp /\ left' = left /\ c \notin Writing
    BY <1>1 DEF Fails, Stat, Open, ReadDir, Info, Writing
  <2>2. PICK l \in {"open", "remove", "info", "answered"} : GoTo(c, l)
    BY <1>1 DEF Fails, Stat, Open, ReadDir, Info, Answer
  <2>3. Writing' = Writing
    BY <2>1, <2>2, WritingMoves
  <2> QED
    BY <2>1, <2>3, TmpKept
<1>2. CASE Unlink(c)
  <2>1. req[c].file \in PathFiles /\ c \notin Writing /\ tmp' = tmp /\ left' = left
    BY <1>2, RequestFields DEF Unlink, CallInv, Writing
  <2>2. Writing' = Writing
    BY <1>2, <2>1, WritingMoves DEF Unlink, Answer
  <2>3. Temps' = Temps
    BY <1>2, <2>1, PathFilesAreFiles DEF Unlink, Without, Temps
  <2> QED
    BY <2>1, <2>2, <2>3 DEF TmpInv, TempsAreCleared
<1>3. CASE Create(c)
  <2>1. PICK n, t :
          /\ n \in 1..(Cardinality(DOMAIN disk) + 1)
          /\ t = <<req[c].file[1], n>>
          /\ t \notin DOMAIN disk
          /\ tmp' = [tmp EXCEPT ![c] = t]
          /\ DOMAIN disk' = DOMAIN disk \cup {t}
    BY <1>3 DEF Create
  <2>2. t[2] > 0
    BY <2>1
  <2>3. Temps' = Temps \cup {t} /\ t \notin Temps
    BY <2>1, <2>2 DEF Temps
  <2>4. left' = left /\ c \notin Writing /\ Writing' = Writing \cup {c} /\ Writing \subseteq Callers
    BY <1>3, WritingMoves DEF Create, Writing
  <2>5. tmp'[c] = t /\ \A d \in Callers \ {c} : tmp'[d] = tmp[d]
    BY <2>1 DEF Maps
  <2>6. left \subseteq Temps /\ \A d \in Writing : tmp[d] \in Temps
    BY <2>4 DEF TmpInv, TempsAreCleared
  <2>7. \A d \in Callers : IF d \in Writing' THEN tmp'[d] \in Temps' \ left' ELSE tmp'[d] = <<>>
    BY <2>3, <2>4, <2>5, <2>6 DEF TmpInv
  <2>8. \A d, e \in Writing' : d # e => tmp'[d] # tmp'[e]
    BY <2>3, <2>4, <2>5, <2>6 DEF TmpInv
  <2>9. {tmp'[d] : d \in Writing'} = {tmp[d] : d \in Writing} \cup {t}
    BY <2>4, <2>5
  <2>10. Temps' = {tmp'[d] : d \in Writing'} \cup left'
    BY <2>3, <2>4, <2>9 DEF TmpInv, TempsAreCleared
  <2> QED
    BY <2>7, <2>8, <2>10 DEF TmpInv, TempsAreCleared
<1>4. CASE Fill(c) \/ FillFails(c) \/ RenameFails(c)
  <2>1. (DOMAIN disk)' = DOMAIN disk /\ tmp' = tmp /\ left' = left /\ c \in Writing
    BY <1>4 DEF Fill, FillFails, RenameFails, Writing
  <2>2. PICK l \in {"rename", "discard"} : GoTo(c, l)
    BY <1>4 DEF Fill, FillFails, RenameFails
  <2>3. Writing' = Writing
    BY <2>1, <2>2, WritingMoves
  <2> QED
    BY <2>1, <2>3, TmpKept
<1>5. CASE Rename(c)
  <2>1. /\ DOMAIN disk' = (DOMAIN disk \ {tmp[c]}) \cup {req[c].file}
        /\ c \in Writing /\ tmp' = [tmp EXCEPT ![c] = <<>>] /\ left' = left
    BY <1>5 DEF Rename, Writing
  <2>2. Writing' = Writing \ {c}
    BY <1>5, WritingMoves DEF Rename, Answer
  <2>3. req[c].file[2] = 0
    BY <1>5, WriteFields, PathFilesAreFiles DEF Rename
  <2>4. Temps' = Temps \ {tmp[c]}
    BY <2>1, <2>3 DEF Temps
  <2> QED
    BY <2>1, <2>2, <2>4, TmpGivenUp
<1>6. CASE Discard(c)
  <2>1. c \in Writing /\ tmp' = [tmp EXCEPT ![c] = <<>>]
    BY <1>6 DEF Discard, Writing
  <2>2. Writing' = Writing \ {c}
    BY <1>6, WritingMoves DEF Discard, Answer
  <2>3. \/ Temps' = Temps \ {tmp[c]} /\ left' = left
        \/ Temps' = Temps /\ left' = left \cup {tmp[c]}
    BY <1>6 DEF Discard, Without, Temps
  <2> QED
    BY <2>1, <2>2, <2>3, TmpGivenUp
<1> QED
  BY <1>1, <1>2, <1>3, <1>4, <1>5, <1>6 DEF StorageStep

-----------------------------------------------------------------------------
\* The files of the directory.

FileKept(p) ==
  /\ File(p) \in DOMAIN disk <=> File(p) \in (DOMAIN disk)'
  /\ File(p) \in DOMAIN disk => disk'[File(p)] = disk[File(p)]

\* The two steps that change files, each the one its request names.
Changes(c) == \/ Rename(c)
              \/ Unlink(c) /\ req[c].file \in DOMAIN disk

LEMMA FilesOfStep ==
  ASSUME Maps, DiskTyped, TmpInv, NEW c \in Callers, CallInv(c), StorageStep(c), NEW p \in Paths,
         Changes(c) => File(p) # req[c].file
  PROVE  FileKept(p)
<1> USE FileIsNoTemp
<1>1. CASE Fails(c) \/ Stat(c) \/ Open(c) \/ RenameFails(c) \/ ReadDir(c) \/ Info(c)
  BY <1>1 DEF FileKept, Fails, Stat, Open, RenameFails, ReadDir, Info
<1>2. CASE Unlink(c)
  BY <1>2 DEF FileKept, Unlink, Without, Changes
<1>3. CASE Create(c)
  <2>1. PICK n, t :
          /\ n \in 1..(Cardinality(DOMAIN disk) + 1)
          /\ t = <<req[c].file[1], n>>
          /\ disk' = [m \in DOMAIN disk \cup {t} |-> IF m = t THEN <<>> ELSE disk[m]]
    BY <1>3 DEF Create
  <2>2. t[2] > 0
    BY <2>1
  <2>3. File(p) # t
    BY <2>2
  <2> QED
    BY <2>1, <2>3 DEF FileKept
<1>4. CASE Fill(c) \/ FillFails(c) \/ Rename(c) \/ Discard(c)
  <2>1. tmp[c] # File(p)
    BY <1>4, TmpFields DEF Fill, FillFails, Rename, Discard, Writing
  <2>2. CASE Fill(c)
    BY <2>1, <2>2 DEF Fill, FileKept
  <2>3. CASE FillFails(c)
    BY <2>1, <2>3 DEF FillFails, FileKept
  <2>4. CASE Rename(c)
    BY <2>1, <2>4 DEF Rename, FileKept, Changes
  <2>5. CASE Discard(c)
    BY <2>1, <2>5 DEF Discard, Without, FileKept
  <2> QED
    BY <1>4, <2>2, <2>3, <2>4, <2>5
<1> QED
  BY <1>1, <1>2, <1>3, <1>4 DEF StorageStep

LEMMA FilesKept ==
  ASSUME \A p \in Paths : FileKept(p)
  PROVE  Files' = Files
<1>1. {q \in Paths : File(q) \in DOMAIN disk}' = {q \in Paths : File(q) \in DOMAIN disk}
  BY DEF FileKept
<1>2. \A p \in {q \in Paths : File(q) \in DOMAIN disk} : disk'[File(p)] = disk[File(p)]
  BY DEF FileKept
<1> QED
  BY <1>1, <1>2 DEF Files

-----------------------------------------------------------------------------
\* The storage at work for a session.

LEMMA StorageTmps ==
  ASSUME Maps, NEW c \in Callers, StorageStep(c)
  PROVE  DOMAIN tmp' = Callers
BY DEF Maps, StorageStep, Fails, Stat, Open, Unlink, Create, Fill, FillFails, Rename, RenameFails,
       Discard, ReadDir, Info

LEMMA ChangesAnswers ==
  ASSUME Maps, NEW c \in Callers, Changes(c)
  PROVE  pc'[c] = "answered" /\ ans'[c] = <<"done">>
BY DEF Maps, Changes, Rename, Unlink, Answer, GoTo

LEMMA StorageWorksStep ==
  ASSUME FilesInv, NEW c \in Callers, StorageWorks(c)
  PROVE  FilesInv'
<1>1. /\ DiskTyped /\ Maps /\ TmpInv /\ StorageStep(c) /\ SessionInv(c)
      /\ CallInv(c) /\ ToolInv(c) /\ ShownInv(c) /\ ChangedInv(c)
  BY DEF FilesInv, SessionInv, StorageWorks
<1>2. DiskTyped' /\ TmpInv' /\ Advances(c)
  BY <1>1, TypedStep, TmpStep, StorageAdvances
<1>3. /\ UNCHANGED <<opts, tool, todo, scanned, shown, verdict>>
      /\ changed' = [changed EXCEPT ![c] = @ \/ Files' # Files]
  BY DEF StorageWorks
<1>4. Maps'
  <2>1. changed' \in [Callers -> BOOLEAN]
    BY <1>1, <1>3 DEF Maps
  <2> QED
    BY <1>1, <1>2, <1>3, <2>1, StorageTmps DEF Maps, Advances
<1>5. \A d \in Callers \ {c} : Same(d)
  BY <1>1, <1>2, <1>3 DEF Same, Advances, Maps
<1>6. SessionInv(c)'
  <2>1. CallInv(c)'
    BY <1>2 DEF Advances
  <2>2. ToolInv(c)'
    BY <1>1, <1>2, <1>3 DEF ToolInv, Advances, Acceptable, Registered, Addressable, Visible,
                            ExtensionAllowed, IsHidden
  <2>3. ShownInv(c)'
    BY <1>1, <1>3 DEF ShownInv, Visible, ExtensionAllowed, IsHidden
  <2>4. ~changed[c]
    BY <1>1, <1>2 DEF ChangedInv, Advances
  <2>5. changed'[c] => Files' # Files
    BY <1>1, <1>3, <2>4 DEF Maps
  <2>6. Files' # Files => Changes(c)
    BY <1>1, FilesOfStep, FilesKept
  <2>7. ChangedInv(c)'
    BY <1>1, <2>5, <2>6, ChangesAnswers DEF ChangedInv
  <2> QED
    BY <2>1, <2>2, <2>3, <2>7 DEF SessionInv
<1>7. \A d \in Callers \ {c} : SessionInv(d)'
  BY <1>3, <1>5, OthersKept DEF FilesInv
<1> QED
  BY <1>2, <1>4, <1>6, <1>7 DEF FilesInv

-----------------------------------------------------------------------------
\* The tools.

\* What a request does to its call, and to no other.
LEMMA CallMoves ==
  ASSUME Maps, NEW c \in Callers, NEW r \in DiskRequests, Call(c, r)
  PROVE  /\ pc[c] \in {"idle", "answered"} /\ pc'[c] = r.do /\ req'[c] = r /\ pc'[c] # "idle"
         /\ pc' \in [Callers -> Positions] /\ DOMAIN req' = Callers /\ DOMAIN ans' = Callers
         /\ UNCHANGED <<disk, tmp, left>> /\ Writing' = Writing
         /\ CallInv(c)'
         /\ \A d \in Callers \ {c} : pc'[d] = pc[d] /\ req'[d] = req[d] /\ ans'[d] = ans[d]
<1>1. /\ pc' = [pc EXCEPT ![c] = r.do] /\ req' = [req EXCEPT ![c] = r]
      /\ ans' = [ans EXCEPT ![c] = <<>>] /\ UNCHANGED <<disk, tmp, left>>
      /\ pc[c] \in {"idle", "answered"}
  BY DEF Call, GoTo
<1>2. r.do \in {"read", "write", "delete", "list"}
  BY DEF DiskRequests
<1>3. /\ pc'[c] = r.do /\ req'[c] = r /\ DOMAIN req' = Callers /\ DOMAIN ans' = Callers
      /\ \A d \in Callers \ {c} : pc'[d] = pc[d] /\ req'[d] = req[d] /\ ans'[d] = ans[d]
  BY <1>1 DEF Maps
<1>4. pc' \in [Callers -> Positions]
  BY <1>1, <1>2 DEF Maps, Positions
<1>5. Writing' = Writing
  BY <1>1, <1>2, <1>3 DEF Writing
<1>6. CallInv(c)'
  BY <1>2, <1>3 DEF CallInv
<1> QED
  BY <1>1, <1>2, <1>3, <1>4, <1>5, <1>6

LEMMA TmpUndisturbed ==
  ASSUME DiskTyped, TmpInv, UNCHANGED <<disk, tmp, left>>, Writing' = Writing
  PROVE  DiskTyped' /\ TmpInv'
BY TmpKept DEF DiskTyped

\* A tool call that has its answer ends.
LEMMA EndStep ==
  ASSUME FilesInv, NEW c \in Callers, NEW v \in {"ok", "error"}, NEW ns \in SUBSET Names,
         End(c, v, ns), \A n \in ns : Visible(n), v = "error" => ~changed[c]
  PROVE  FilesInv'
<1>1. DiskTyped /\ Maps /\ TmpInv /\ SessionInv(c) /\ pc[c] = "answered"
  BY DEF FilesInv, End, HangUp
<1>2. /\ pc' = [pc EXCEPT ![c] = "idle"] /\ req' = [req EXCEPT ![c] = <<>>]
      /\ ans' = [ans EXCEPT ![c] = <<>>] /\ UNCHANGED <<disk, tmp, left>>
      /\ verdict' = [verdict EXCEPT ![c] = v] /\ shown' = [shown EXCEPT ![c] = ns]
      /\ tool' = [tool EXCEPT ![c] = NoTool] /\ todo' = [todo EXCEPT ![c] = {}]
      /\ scanned' = [scanned EXCEPT ![c] = 0] /\ UNCHANGED <<opts, changed>>
  BY DEF End, HangUp, GoTo
<1>3. Maps'
  BY <1>1, <1>2 DEF Maps, Positions
<1>4. \A d \in Callers \ {c} : Same(d)
  BY <1>1, <1>2 DEF Maps, Same
<1>5. Writing' = Writing
  BY <1>1, <1>2 DEF Maps, Writing
<1>6. /\ pc'[c] = "idle" /\ tool'[c] = NoTool /\ verdict'[c] = v /\ shown'[c] = ns
      /\ todo'[c] = {} /\ scanned'[c] = 0 /\ changed'[c] = changed[c] /\ opts' = opts
  BY <1>1, <1>2 DEF Maps
<1>7. SessionInv(c)'
  <2>1. CallInv(c)'
    BY <1>6 DEF CallInv
  <2>2. ToolInv(c)'
    BY <1>6 DEF ToolInv, NoTool
  <2>3. ShownInv(c)'
    BY <1>6, FileToolsAssumption DEF ShownInv, Visible, ExtensionAllowed, IsHidden
  <2>4. ChangedInv(c)'
    BY <1>6 DEF ChangedInv
  <2> QED
    BY <2>1, <2>2, <2>3, <2>4 DEF SessionInv
<1>8. \A d \in Callers \ {c} : SessionInv(d)'
  BY <1>2, <1>4, OthersKept DEF FilesInv
<1> QED
  BY <1>1, <1>2, <1>3, <1>5, <1>7, <1>8, TmpUndisturbed DEF FilesInv

LEMMA ToolFields ==
  ASSUME NEW t \in ToolCalls
  PROVE  /\ t.name \in {"read_file", "delete_file", "write_file", "edit_file", "list_files", "glob",
                        "grep"}
         /\ t # NoTool
         /\ t.name \in {"read_file", "delete_file", "write_file", "edit_file"} =>
              t.path \in Paths /\ File(t.path) \in PathFiles /\ File(t.path) \in Names
         /\ t.name = "write_file" => t.content \in Seq(Words)
         /\ t.name = "edit_file" => t.old \in Words /\ t.new \in Seq(Words)
<1>1. /\ t.name \in {"read_file", "delete_file", "write_file", "edit_file", "list_files", "glob",
                     "grep"}
      /\ t.name \in {"read_file", "delete_file", "write_file", "edit_file"} => t.path \in Paths
      /\ t.name = "write_file" => t.content \in Seq(Words)
      /\ t.name = "edit_file" => t.old \in Words /\ t.new \in Seq(Words)
  BY FileToolsAssumption
<1>2. \A p \in Paths : File(p) \in PathFiles /\ File(p) \in Names
  BY DEF PathFiles, File, Names
<1> QED
  BY <1>1, <1>2 DEF NoTool

LEMMA FirstRequestFields ==
  ASSUME NEW t \in ToolCalls
  PROVE  /\ FirstRequest(t) \in DiskRequests
         /\ t.name \in {"read_file", "edit_file"} =>
              FirstRequest(t).do = "read" /\ FirstRequest(t).file = File(t.path)
         /\ t.name = "write_file" => FirstRequest(t).do = "write" /\ FirstRequest(t).file = File(t.path)
         /\ t.name = "delete_file" => FirstRequest(t).do = "delete" /\ FirstRequest(t).file = File(t.path)
         /\ t.name \in {"list_files", "glob", "grep"} => FirstRequest(t).do = "list"
<1>1. CASE t.name \in {"read_file", "edit_file"}
  <2>1. FirstRequest(t) = [do |-> "read", file |-> File(t.path)]
    BY <1>1 DEF FirstRequest
  <2> QED
    BY <1>1, <2>1, ToolFields DEF DiskRequests
<1>2. CASE t.name = "write_file"
  <2>1. FirstRequest(t) = [do |-> "write", file |-> File(t.path), content |-> t.content]
    BY <1>2 DEF FirstRequest
  <2> QED
    BY <1>2, <2>1, ToolFields DEF DiskRequests
<1>3. CASE t.name = "delete_file"
  <2>1. FirstRequest(t) = [do |-> "delete", file |-> File(t.path)]
    BY <1>3 DEF FirstRequest
  <2> QED
    BY <1>3, <2>1, ToolFields DEF DiskRequests
<1>4. CASE t.name \in {"list_files", "glob", "grep"}
  <2>1. FirstRequest(t) = [do |-> "list"]
    BY <1>4 DEF FirstRequest
  <2> QED
    BY <1>4, <2>1 DEF DiskRequests
<1> QED
  BY <1>1, <1>2, <1>3, <1>4, ToolFields

LEMMA DispatchStep ==
  ASSUME FilesInv, NEW c \in Callers, Dispatch(c)
  PROVE  FilesInv'
<1>1. DiskTyped /\ Maps /\ TmpInv /\ SessionInv(c) /\ ToolInv(c) /\ CallInv(c) /\ ShownInv(c)
  BY DEF FilesInv, SessionInv
<1>2. /\ tool[c] = NoTool /\ pc[c] = "idle" /\ UNCHANGED <<opts, todo, scanned>>
      /\ shown' = [shown EXCEPT ![c] = {}] /\ changed' = [changed EXCEPT ![c] = FALSE]
  BY <1>1 DEF Dispatch, ToolInv
<1>3. /\ shown'[c] = {} /\ changed'[c] = FALSE
      /\ shown' \in [Callers -> SUBSET Names] /\ changed' \in [Callers -> BOOLEAN]
      /\ \A d \in Callers \ {c} : shown'[d] = shown[d] /\ changed'[d] = changed[d]
  BY <1>1, <1>2 DEF Maps
<1>4. ShownInv(c)' /\ ChangedInv(c)'
  BY <1>1, <1>2, <1>3 DEF ShownInv, ChangedInv, Visible, ExtensionAllowed, IsHidden
<1>5. PICK t \in ToolCalls :
        IF Acceptable(t)
          THEN /\ Call(c, FirstRequest(t))
               /\ tool' = [tool EXCEPT ![c] = t]
               /\ verdict' = [verdict EXCEPT ![c] = "none"]
          ELSE /\ verdict' = [verdict EXCEPT ![c] = "error"]
               /\ UNCHANGED <<diskVars, tool>>
  BY DEF Dispatch
<1>6. CASE Acceptable(t)
  <2>1. /\ Call(c, FirstRequest(t)) /\ tool' = [tool EXCEPT ![c] = t]
        /\ verdict' = [verdict EXCEPT ![c] = "none"]
    BY <1>5, <1>6
  <2> DEFINE r == FirstRequest(t)
  <2>2. r \in DiskRequests
    BY FirstRequestFields
  <2> HIDE DEF r
  <2>3. /\ pc'[c] # "idle" /\ req'[c] = r
        /\ pc' \in [Callers -> Positions] /\ DOMAIN req' = Callers /\ DOMAIN ans' = Callers
        /\ UNCHANGED <<disk, tmp, left>> /\ Writing' = Writing /\ CallInv(c)'
        /\ \A d \in Callers \ {c} : pc'[d] = pc[d] /\ req'[d] = req[d] /\ ans'[d] = ans[d]
    BY <1>1, <2>1, <2>2, CallMoves DEF r
  <2>4. /\ tool'[c] = t /\ verdict'[c] = "none" /\ tool' \in [Callers -> ToolCalls \cup {NoTool}]
        /\ verdict' \in [Callers -> {"none", "ok", "error"}]
        /\ \A d \in Callers \ {c} : tool'[d] = tool[d] /\ verdict'[d] = verdict[d]
    BY <1>1, <2>1 DEF Maps
  <2>5. ToolInv(c)'
    <3>1. Acceptable(t)'
      BY <1>2, <1>6 DEF Acceptable, Registered, Addressable, ExtensionAllowed, IsHidden
    <3> QED
      BY <2>3, <2>4, <3>1, ToolFields, FirstRequestFields DEF ToolInv, Acceptable, r
  <2>6. Maps'
    BY <1>1, <1>2, <1>3, <2>3, <2>4 DEF Maps
  <2>7. \A d \in Callers \ {c} : Same(d)
    BY <1>2, <1>3, <2>3, <2>4 DEF Same
  <2>8. \A d \in Callers \ {c} : SessionInv(d)'
    BY <1>2, <2>7, OthersKept DEF FilesInv
  <2> QED
    BY <1>1, <1>4, <2>3, <2>5, <2>6, <2>8, TmpUndisturbed DEF FilesInv, SessionInv
<1>7. CASE ~Acceptable(t)
  <2>1. verdict' = [verdict EXCEPT ![c] = "error"] /\ UNCHANGED <<disk, pc, req, tmp, ans, left, tool>>
    BY <1>5, <1>7 DEF diskVars
  <2>2. Maps' /\ \A d \in Callers \ {c} : Same(d)
    BY <1>1, <1>2, <1>3, <2>1 DEF Maps, Same
  <2>3. CallInv(c)' /\ ToolInv(c)'
    BY <1>1, <1>2, <2>1 DEF CallInv, ToolInv, NoTool
  <2>4. Writing' = Writing
    BY <2>1 DEF Writing
  <2>5. \A d \in Callers \ {c} : SessionInv(d)'
    BY <1>2, <2>2, OthersKept DEF FilesInv
  <2> QED
    BY <1>1, <1>4, <2>1, <2>2, <2>3, <2>4, <2>5, TmpUndisturbed DEF FilesInv, SessionInv
<1> QED
  BY <1>6, <1>7

LEMMA AnswerFields ==
  ASSUME NEW a \in DiskAnswers
  PROVE  /\ a[1] = "content" => a[2] \in Seq(Words)
         /\ a[1] = "names" => a[2] \in SUBSET Names
BY DEF DiskAnswers

LEMMA ReplacedType ==
  ASSUME NEW s \in Seq(Words), NEW w, NEW new \in Seq(Words)
  PROVE  Replaced(s, w, new) \in Seq(Words)
<1> DEFINE ss == [i \in DOMAIN s |-> IF s[i] = w THEN new ELSE <<s[i]>>]
<1>1. Len(s) \in Nat /\ DOMAIN s = 1..Len(s) /\ \A i \in 1..Len(s) : s[i] \in Words
  BY LenProperties, ElementOfSeq
<1>2. \A i \in 1..Len(s) : ss[i] \in Seq(Words)
  BY <1>1
<1>3. ss \in [1..Len(s) -> Seq(Words)]
  BY <1>1, <1>2
<1>4. ss \in Seq(Seq(Words))
  BY <1>1, <1>3, SeqDef
<1> QED
  BY <1>4, FlattenSeqType DEF Replaced

LEMMA AnswersFields ==
  ASSUME FilesInv, NEW c \in Callers, NEW t, NEW a, Answers(c, t, a), "none" \notin t
  PROVE  /\ pc[c] = "answered" /\ tool[c] \in ToolCalls /\ tool[c].name \in t /\ ans[c][1] \in a
         /\ Acceptable(tool[c]) /\ ans[c] \in DiskAnswers
         /\ "done" \notin a => ~changed[c]
         /\ Maps /\ DiskTyped /\ TmpInv /\ CallInv(c) /\ ToolInv(c) /\ ShownInv(c) /\ ChangedInv(c)
BY DEF FilesInv, SessionInv, Maps, Answers, ToolInv, CallInv, ChangedInv, NoTool

LEMMA TellStep ==
  ASSUME FilesInv, NEW c \in Callers,
         StorageErred(c) \/ ReadTold(c) \/ ChangeTold(c) \/ ListTold(c) \/ EditRefused(c)
  PROVE  FilesInv'
<1>1. CASE StorageErred(c)
  <2>1. pc[c] = "answered" /\ ans[c] # <<"done">>
    BY <1>1 DEF StorageErred
  <2>2. ~changed[c]
    BY <2>1 DEF FilesInv, SessionInv, ChangedInv
  <2> QED
    BY <1>1, <2>2, EndStep DEF StorageErred
<1>2. CASE ReadTold(c)
  <2>1. tool[c] \in ToolCalls /\ tool[c].name = "read_file" /\ Acceptable(tool[c])
    BY <1>2, AnswersFields DEF ReadTold
  <2>2. Visible(File(tool[c].path)) /\ File(tool[c].path) \in Names
    BY <2>1, ToolFields DEF Acceptable, Addressable, Visible
  <2> QED
    BY <1>2, <2>2, EndStep DEF ReadTold
<1>3. CASE ChangeTold(c)
  BY <1>3, EndStep DEF ChangeTold
<1>4. CASE ListTold(c)
  <2>1. ans[c][2] \in SUBSET Names
    BY <1>4, AnswersFields, AnswerFields DEF ListTold
  <2> QED
    BY <1>4, <2>1, EndStep DEF ListTold, VisibleIn
<1>5. CASE EditRefused(c)
  <2>1. ~changed[c]
    BY <1>5, AnswersFields DEF EditRefused
  <2> QED
    BY <1>5, <2>1, EndStep DEF EditRefused
<1> QED
  BY <1>1, <1>2, <1>3, <1>4, <1>5

\* A tool makes a further call of the storage.
LEMMA GoOnStep ==
  ASSUME FilesInv, NEW c \in Callers, NEW r \in DiskRequests, Call(c, r),
         pc[c] = "answered", ~changed[c], UNCHANGED <<opts, tool, verdict, changed>>,
         DOMAIN todo' = Callers, DOMAIN scanned' = Callers, shown' \in [Callers -> SUBSET Names],
         \A d \in Callers \ {c} : todo'[d] = todo[d] /\ scanned'[d] = scanned[d] /\ shown'[d] = shown[d],
         ShownInv(c)',
         \/ tool[c].name = "edit_file" /\ r.do = "write" /\ r.file = File(tool[c].path)
         \/ tool[c].name = "grep" /\ r.do = "read" /\ Visible(r.file)
  PROVE  FilesInv'
<1>1. DiskTyped /\ Maps /\ TmpInv /\ ToolInv(c)
  BY DEF FilesInv, SessionInv
<1>2. /\ pc'[c] = r.do /\ req'[c] = r /\ pc'[c] # "idle"
      /\ pc' \in [Callers -> Positions] /\ DOMAIN req' = Callers /\ DOMAIN ans' = Callers
      /\ UNCHANGED <<disk, tmp, left>> /\ Writing' = Writing /\ CallInv(c)'
      /\ \A d \in Callers \ {c} : pc'[d] = pc[d] /\ req'[d] = req[d] /\ ans'[d] = ans[d]
  BY <1>1, CallMoves
<1>3. Maps'
  BY <1>1, <1>2 DEF Maps
<1>4. ToolInv(c)'
  BY <1>1, <1>2 DEF ToolInv, Acceptable, Registered, Addressable, Visible, ExtensionAllowed, IsHidden
<1>5. ChangedInv(c)'
  BY DEF ChangedInv
<1>6. \A d \in Callers \ {c} : Same(d)
  BY <1>2 DEF Same
<1>7. \A d \in Callers \ {c} : SessionInv(d)'
  BY <1>6, OthersKept DEF FilesInv
<1> QED
  BY <1>1, <1>2, <1>3, <1>4, <1>5, <1>7, TmpUndisturbed DEF FilesInv, SessionInv

LEMMA EditWritesStep ==
  ASSUME FilesInv, NEW c \in Callers, EditWrites(c)
  PROVE  FilesInv'
<1> DEFINE new == Replaced(ans[c][2], tool[c].old, tool[c].new)
           r == [do |-> "write", file |-> File(tool[c].path), content |-> new]
<1>1. /\ pc[c] = "answered" /\ tool[c] \in ToolCalls /\ tool[c].name = "edit_file"
      /\ ans[c] \in DiskAnswers /\ ans[c][1] = "content" /\ ~changed[c]
      /\ Maps /\ ShownInv(c)
  BY AnswersFields DEF EditWrites
<1>2. new \in Seq(Words)
  BY <1>1, AnswerFields, ToolFields, ReplacedType
<1>3. Call(c, r) /\ UNCHANGED <<opts, tool, todo, scanned, shown, verdict, changed>>
  BY DEF EditWrites
<1> HIDE DEF new
<1>4. r \in DiskRequests /\ r.do = "write" /\ r.file = File(tool[c].path)
  BY <1>1, <1>2, ToolFields DEF DiskRequests
<1>5. ShownInv(c)'
  BY <1>1, <1>3 DEF ShownInv, Visible, ExtensionAllowed, IsHidden
<1> HIDE DEF r
<1> QED
  BY <1>1, <1>3, <1>4, <1>5, GoOnStep DEF Maps

LEMMA GrepOnStep ==
  ASSUME FilesInv, NEW c \in Callers, tool[c].name = "grep", pc[c] = "answered", ~changed[c],
         NEW ns \in SUBSET Names, \A n \in ns : Visible(n),
         NEW size \in Nat,
         NEW hits \in SUBSET Names, \A n \in hits : Visible(n),
         GrepOn(c, ns, size, hits)
  PROVE  FilesInv'
<1>1. CASE ns = {} \/ ScannedEnough(size)
  BY <1>1, EndStep DEF GrepOn
<1>2. CASE ~(ns = {} \/ ScannedEnough(size))
  <2>1. PICK n \in ns :
          /\ Call(c, [do |-> "read", file |-> n])
          /\ todo' = [todo EXCEPT ![c] = ns \ {n}]
          /\ scanned' = [scanned EXCEPT ![c] = size]
          /\ shown' = [shown EXCEPT ![c] = hits]
          /\ UNCHANGED <<opts, tool, verdict, changed, calls, crashes>>
    BY <1>2 DEF GrepOn
  <2>2. Maps
    BY DEF FilesInv
  <2>3. /\ todo'[c] = ns \ {n} /\ scanned'[c] = size /\ shown'[c] = hits
        /\ DOMAIN todo' = Callers /\ DOMAIN scanned' = Callers
        /\ shown' \in [Callers -> SUBSET Names]
        /\ \A d \in Callers \ {c} : todo'[d] = todo[d] /\ scanned'[d] = scanned[d] /\ shown'[d] = shown[d]
    BY <2>1, <2>2 DEF Maps
  <2>4. size \in 0..(ScanBudget - 1)
    BY <1>2, FileToolsAssumption DEF ScannedEnough
  <2>5. ShownInv(c)'
    BY <2>1, <2>3, <2>4 DEF ShownInv, Visible, ExtensionAllowed, IsHidden
  <2> DEFINE r == [do |-> "read", file |-> n]
  <2>6. r \in DiskRequests /\ r.do = "read" /\ r.file = n /\ Visible(n)
    BY DEF DiskRequests
  <2> HIDE DEF r
  <2>7. Call(c, r)
    BY <2>1 DEF r
  <2> QED
    BY <2>1, <2>3, <2>5, <2>6, <2>7, GoOnStep
<1> QED
  BY <1>1, <1>2

LEMMA GrepStep ==
  ASSUME FilesInv, NEW c \in Callers, GrepStarts(c) \/ GrepReads(c)
  PROVE  FilesInv'
<1>1. CASE GrepStarts(c)
  <2>1. /\ pc[c] = "answered" /\ tool[c].name = "grep" /\ ~changed[c]
        /\ ans[c][2] \in SUBSET Names
    BY <1>1, AnswersFields, AnswerFields DEF GrepStarts
  <2>2. VisibleIn(ans[c][2]) \in SUBSET Names /\ \A n \in VisibleIn(ans[c][2]) : Visible(n)
    BY <2>1 DEF VisibleIn
  <2>3. GrepOn(c, VisibleIn(ans[c][2]), 0, {})
    BY <1>1 DEF GrepStarts
  <2> QED
    BY <2>1, <2>2, <2>3, GrepOnStep
<1>2. CASE GrepReads(c)
  <2>1. /\ pc[c] = "answered" /\ tool[c].name = "grep" /\ ~changed[c]
        /\ ans[c][2] \in Seq(Words) /\ req[c].do = "read"
        /\ Maps /\ CallInv(c) /\ ToolInv(c) /\ ShownInv(c)
    BY <1>2, AnswersFields, AnswerFields DEF GrepReads, CallInv
  <2>2. req[c].file \in Names /\ Visible(req[c].file)
    BY <2>1, RequestFields DEF CallInv, ToolInv
  <2>3. /\ shown[c] \in SUBSET Names /\ \A n \in shown[c] : Visible(n)
        /\ todo[c] \in SUBSET Names /\ \A n \in todo[c] : Visible(n)
        /\ scanned[c] \in Nat
    BY <2>1, FileToolsAssumption DEF Maps, ShownInv
  <2>4. scanned[c] + Len(ans[c][2]) \in Nat
    BY <2>1, <2>3, LenProperties
  <2>5. PICK hits \in {shown[c], shown[c] \cup {req[c].file}} :
          GrepOn(c, todo[c], scanned[c] + Len(ans[c][2]), hits)
    BY <1>2 DEF GrepReads
  <2>6. hits \in SUBSET Names /\ \A n \in hits : Visible(n)
    BY <2>2, <2>3
  <2> QED
    BY <2>1, <2>3, <2>4, <2>5, <2>6, GrepOnStep
<1> QED
  BY <1>1, <1>2

-----------------------------------------------------------------------------
\* The invariant.

LEMMA FilesInit == Init => FilesInv
<1> SUFFICES ASSUME Init PROVE FilesInv
  OBVIOUS
<1>1. /\ disk \in Disks /\ left = Temps /\ opts \in OptionSets
      /\ pc = [c \in Callers |-> "idle"] /\ req = [c \in Callers |-> <<>>]
      /\ tmp = [c \in Callers |-> <<>>] /\ ans = [c \in Callers |-> <<>>]
      /\ tool = [c \in Callers |-> NoTool] /\ todo = [c \in Callers |-> {}]
      /\ scanned = [c \in Callers |-> 0] /\ shown = [c \in Callers |-> {}]
      /\ verdict = [c \in Callers |-> "none"] /\ changed = [c \in Callers |-> FALSE]
  BY DEF Init, DiskInit
<1>2. DiskTyped
  BY <1>1, DiskAssumption, FileToolsAssumption DEF DiskTyped
<1>3. Maps
  BY <1>1, FileToolsAssumption DEF Maps, Positions
<1>4. \A c \in Callers : SessionInv(c)
  BY <1>1, FileToolsAssumption DEF SessionInv, CallInv, ToolInv, ShownInv, ChangedInv, NoTool
<1>5. Writing = {}
  BY <1>1 DEF Writing
<1>6. TmpInv
  BY <1>1, <1>5 DEF TmpInv, TempsAreCleared
<1> QED
  BY <1>2, <1>3, <1>4, <1>6 DEF FilesInv

LEMMA CrashStep ==
  ASSUME FilesInv, Crash
  PROVE  FilesInv'
<1>1. /\ disk' = disk /\ left' = Temps /\ opts' = opts
      /\ pc' = [c \in Callers |-> "idle"] /\ req' = [c \in Callers |-> <<>>]
      /\ tmp' = [c \in Callers |-> <<>>] /\ ans' = [c \in Callers |-> <<>>]
      /\ tool' = [c \in Callers |-> NoTool] /\ todo' = [c \in Callers |-> {}]
      /\ scanned' = [c \in Callers |-> 0] /\ shown' = [c \in Callers |-> {}]
      /\ verdict' = [c \in Callers |-> "none"] /\ changed' = [c \in Callers |-> FALSE]
  BY DEF Crash, DiskCrash
<1>2. DiskTyped'
  BY <1>1 DEF FilesInv, DiskTyped
<1>3. Maps'
  BY <1>1 DEF FilesInv, Maps, Positions
<1>4. \A c \in Callers : SessionInv(c)'
  BY <1>1, FileToolsAssumption DEF SessionInv, CallInv, ToolInv, ShownInv, ChangedInv, NoTool
<1>5. Writing' = {} /\ Temps' = Temps
  BY <1>1 DEF Writing, Temps
<1>6. TmpInv'
  BY <1>1, <1>5 DEF TmpInv, TempsAreCleared
<1> QED
  BY <1>2, <1>3, <1>4, <1>6 DEF FilesInv

LEMMA FilesStutter ==
  ASSUME FilesInv, UNCHANGED vars
  PROVE  FilesInv'
<1> USE DEF vars, diskVars, callVars
<1>1. DiskTyped' /\ Maps'
  BY DEF FilesInv, DiskTyped, Maps
<1>2. \A c \in Callers : SessionInv(c)'
  BY OthersKept DEF FilesInv, Same
<1>3. Writing' = Writing
  BY DEF Writing
<1>4. TmpInv'
  BY <1>3, TmpKept DEF FilesInv
<1> QED
  BY <1>1, <1>2, <1>4 DEF FilesInv

LEMMA FilesStep ==
  ASSUME FilesInv, [Next]_vars
  PROVE  FilesInv'
BY FilesStutter, CrashStep, DispatchStep, StorageWorksStep, TellStep, EditWritesStep, GrepStep DEF Next

LEMMA FilesAlways == Spec => []FilesInv
BY FilesInit, FilesStep, PTL DEF Spec

\* A tool that reports an error has changed no file, whichever of its steps
\* failed, and a temporary file belongs to a write under way or was left by a
\* crash or a failed removal (osfs/storage.go:117-126).
THEOREM FailuresLeaveNothing == Spec => []FailureLeavesNothing
<1>1. ASSUME FilesInv
      PROVE  FailureLeavesNothing
  <2>1. /\ DiskTyped /\ Maps /\ TmpInv
        /\ \A c \in Callers : ToolInv(c) /\ ShownInv(c) /\ ChangedInv(c)
    BY <1>1 DEF FilesInv, SessionInv
  <2>2. \A c \in Callers : tmp[c] = <<>> <=> c \notin Writing
    <3>1. \A n \in Temps : n # <<>>
      BY <2>1 DEF DiskTyped, Temps, Names
    <3> QED
      BY <2>1, <3>1 DEF TmpInv
  <2>3. TypeOK
    BY <2>1, <2>2 DEF TypeOK, DiskTyped, Maps, ToolInv, ShownInv
  <2>4. \A c \in Callers : verdict[c] = "error" => ~changed[c]
    BY <2>1 DEF ToolInv, ChangedInv
  <2> QED
    BY <2>1, <2>3, <2>4 DEF FailureLeavesNothing, TmpInv
<1> QED
  BY <1>1, FilesAlways, PTL

-----------------------------------------------------------------------------
\* The policy.

LEMMA OptionsStay ==
  ASSUME [Next]_vars
  PROVE  opts' = opts
BY DEF Next, vars, Crash, Dispatch, StorageWorks, StorageErred, ReadTold, ChangeTold, ListTold,
       EditRefused, EditWrites, GrepStarts, GrepReads, GrepOn, End

\* A step that is no system call leaves the disk alone.
LEMMA DiskStays ==
  ASSUME [Next]_vars, ~(\E c \in Callers : StorageWorks(c))
  PROVE  disk' = disk
BY DEF Next, vars, diskVars, Crash, DiskCrash, Dispatch, StorageErred, ReadTold, ChangeTold, ListTold,
       EditRefused, EditWrites, GrepStarts, GrepReads, GrepOn, End, Call, HangUp

LEMMA VisibleIsShowable ==
  ASSUME NEW n \in Names, Visible(n), opts.hide \/ opts.exts
  PROVE  Showable(n)
BY DEF Visible, Showable, ExtensionAllowed, IsHidden, Names

LEMMA GuardedIsKept ==
  ASSUME FilesInv, NEW c \in Callers, StorageWorks(c), NEW p \in Paths, Guarded(p)
  PROVE  FileKept(p)
<1>1. /\ DiskTyped /\ Maps /\ TmpInv /\ StorageStep(c) /\ CallInv(c) /\ ToolInv(c)
  BY DEF FilesInv, SessionInv, StorageWorks
<1>2. ASSUME Changes(c)
      PROVE  File(p) # req[c].file
  <2>1. pc[c] # "idle" /\ req[c].do \in {"write", "delete"}
    BY <1>1, <1>2 DEF Changes, Rename, Unlink, CallInv
  <2>2. tool[c] \in ToolCalls /\ Acceptable(tool[c])
    BY <1>1, <2>1 DEF ToolInv, Maps
  <2>3. tool[c].name \in {"write_file", "delete_file", "edit_file"} /\ req[c].file = File(tool[c].path)
    BY <1>1, <2>1, <2>2, ToolFields DEF ToolInv
  <2>4. ~opts.readOnly /\ Addressable(File(tool[c].path))
    BY <2>2, <2>3 DEF Acceptable, Registered
  <2>5. tool[c].path # p
    BY <2>4, FileIsNoTemp DEF Addressable, Guarded, ExtensionAllowed, IsHidden
  <2> QED
    BY <2>3, <2>5, FileIsNoTemp
<1> QED
  BY <1>1, <1>2, FilesOfStep

\* A policy that hides something hides it from every answer, temporary files
\* too, and no call of any session changes a file outside of it
\* (tools_builtin.go:286-290, tools_register.go:16-19, 45-61).
THEOREM PolicyHolds == Spec => PolicyGuardsFiles
<1>1. ASSUME FilesInv, FilesInv', [Next]_vars, opts.hide \/ opts.exts
      PROVE  \A c \in Callers : (tool[c] = NoTool)' => \A n \in shown'[c] : Showable(n)
  <2>1. opts' = opts
    BY <1>1, OptionsStay
  <2>2. ASSUME NEW c \in Callers, NEW n \in shown'[c]
        PROVE  Showable(n)
    <3>1. n \in Names
      BY <1>1, <2>2 DEF FilesInv, Maps
    <3>2. Visible(n)
      BY <1>1, <2>1, <2>2 DEF FilesInv, SessionInv, ShownInv, Visible, ExtensionAllowed, IsHidden
    <3> QED
      BY <1>1, <3>1, <3>2, VisibleIsShowable
  <2> QED
    BY <2>2
<1>2. ASSUME FilesInv, [Next]_vars, NEW p \in Paths, Guarded(p)
      PROVE  FileKept(p)
  BY <1>2, GuardedIsKept, DiskStays DEF FileKept
<1>3. FilesInv /\ FilesInv' /\ [Next]_vars =>
        /\ (opts.hide \/ opts.exts) =>
             \A c \in Callers : (tool[c] = NoTool)' => \A n \in shown'[c] : Showable(n)
        /\ \A p \in Paths : Guarded(p) =>
             /\ File(p) \in DOMAIN disk <=> File(p) \in (DOMAIN disk)'
             /\ File(p) \in DOMAIN disk => disk'[File(p)] = disk[File(p)]
  BY <1>1, <1>2 DEF FileKept
<1> QED
  BY <1>3, FilesAlways, PTL DEF Spec, PolicyGuardsFiles

-----------------------------------------------------------------------------
\* The disk implements the contract of the storage: a call takes effect where it
\* renames or unlinks, or reads the file it has opened, and has failed or found
\* nothing where it says so.

Ops == [c \in Callers |-> Op(c)]

\* No call on a file, for the contract: a listing, or a look into a temporary file.
NoFile(r) == r.do = "list" \/ r.file[2] > 0
FileCall(r) == IF r.do = "write"
                 THEN [do |-> "write", path |-> r.file[1], content |-> r.content]
                 ELSE [do |-> r.do, path |-> r.file[1]]

LEMMA OpParts ==
  ASSUME NEW c
  PROVE  /\ pc[c] = "idle" \/ NoFile(req[c]) => Op(c) = [is |-> "idle"]
         /\ pc[c] = "answered" /\ ~NoFile(req[c]) =>
              Op(c) = [is |-> "answered", request |-> FileCall(req[c]), answer |-> ans[c]]
         /\ pc[c] \notin {"idle", "answered"} /\ ~NoFile(req[c]) =>
              Op(c) = [is |-> "asked", request |-> FileCall(req[c])]
BY DEF Op, NoFile, FileCall, Request

LEMMA OpPartsNext ==
  ASSUME NEW c
  PROVE  /\ pc'[c] = "idle" \/ NoFile(req'[c]) => Op(c)' = [is |-> "idle"]
         /\ pc'[c] = "answered" /\ ~NoFile(req'[c]) =>
              Op(c)' = [is |-> "answered", request |-> FileCall(req'[c]), answer |-> ans'[c]]
         /\ pc'[c] \notin {"idle", "answered"} /\ ~NoFile(req'[c]) =>
              Op(c)' = [is |-> "asked", request |-> FileCall(req'[c])]
BY DEF Op, NoFile, FileCall, Request

OthersWait(c) == \A d \in Callers \ {c} : pc'[d] = pc[d] /\ req'[d] = req[d] /\ ans'[d] = ans[d]

LEMMA OpsUpdate ==
  ASSUME NEW c \in Callers, OthersWait(c), NEW v, Op(c)' = v
  PROVE  Ops' = [Ops EXCEPT ![c] = v]
<1>1. \A d \in Callers \ {c} : Op(d)' = Op(d)
  BY DEF OthersWait, Op, Request
<1> QED
  BY <1>1 DEF Ops

LEMMA OpsStutter ==
  ASSUME NEW c \in Callers, OthersWait(c), Op(c)' = Op(c)
  PROVE  Ops' = Ops
<1>1. \A d \in Callers \ {c} : Op(d)' = Op(d)
  BY DEF OthersWait, Op, Request
<1> QED
  BY <1>1 DEF Ops

LEMMA FileCallTyped ==
  ASSUME Seq(Words) \subseteq Contents, NEW r \in DiskRequests, ~NoFile(r)
  PROVE  /\ FileCall(r) \in Contract!Requests
         /\ FileCall(r).do = r.do /\ FileCall(r).path = r.file[1]
         /\ r.do = "write" => FileCall(r).content = r.content
         /\ r.do \in {"read", "delete", "write"}
         /\ r.file[1] \in Paths /\ r.file = File(r.file[1])
<1>1. r.do \in {"read", "delete", "write"}
  BY DEF DiskRequests, NoFile
<1>2. r.file \in Names
  BY <1>1, RequestFields, PathFilesAreFiles
<1>3. r.file[1] \in Paths /\ r.file = File(r.file[1])
  BY <1>1, <1>2 DEF Names, NoFile, File
<1>4. CASE r.do = "write"
  <2>1. r.content \in Contents
    BY <1>4, RequestFields
  <2> QED
    BY <1>3, <1>4, <2>1 DEF FileCall, Contract!Requests
<1>5. CASE r.do # "write"
  BY <1>1, <1>3, <1>5 DEF FileCall, Contract!Requests
<1> QED
  BY <1>1, <1>3, <1>4, <1>5

ContractStep == [Contract!Next]_<<Files, Ops>>

\* A request, after an answer or none.
LEMMA CallRefines ==
  ASSUME Seq(Words) \subseteq Contents, Maps, NEW c \in Callers, NEW r \in DiskRequests, Call(c, r)
  PROVE  ContractStep
<1>1. /\ pc[c] \in {"idle", "answered"} /\ pc'[c] = r.do /\ req'[c] = r
      /\ disk' = disk /\ OthersWait(c)
  BY CallMoves DEF OthersWait
<1>2. Files' = Files
  BY <1>1 DEF Files
<1>3. Ops[c] = Op(c) /\ r.do \notin {"idle", "answered"}
  BY DEF Ops, DiskRequests
<1>4. CASE NoFile(r)
  <2>1. Op(c)' = [is |-> "idle"]
    BY <1>1, <1>4, OpPartsNext
  <2>2. CASE Op(c) = [is |-> "idle"]
    BY <1>1, <1>2, <2>1, <2>2, OpsStutter DEF ContractStep
  <2>3. CASE Op(c).is = "answered"
    <3>1. Ops' = [Ops EXCEPT ![c] = [is |-> "idle"]]
      BY <1>1, <2>1, OpsUpdate
    <3>2. Contract!Dismiss(c)
      BY <1>2, <1>3, <2>3, <3>1 DEF Contract!Dismiss, Contract!Idle, Ops
    <3> QED
      BY <3>2 DEF ContractStep, Contract!Next
  <2> QED
    BY <1>1, <2>2, <2>3, OpParts
<1>5. CASE ~NoFile(r)
  <2>1. Op(c)' = [is |-> "asked", request |-> FileCall(r)]
    BY <1>1, <1>3, <1>5, OpPartsNext
  <2>2. Ops' = [Ops EXCEPT ![c] = [is |-> "asked", request |-> FileCall(r)]]
    BY <1>1, <2>1, OpsUpdate
  <2>3. Op(c).is # "asked"
    BY <1>1, OpParts
  <2>4. FileCall(r) \in Contract!Requests
    BY <1>5, FileCallTyped
  <2>5. Contract!Ask(c)
    BY <1>2, <1>3, <2>2, <2>3, <2>4 DEF Contract!Ask, Contract!Asked, Ops
  <2> QED
    BY <2>5 DEF ContractStep, Contract!Next
<1> QED
  BY <1>4, <1>5

LEMMA HangUpRefines ==
  ASSUME Maps, NEW c \in Callers, HangUp(c)
  PROVE  ContractStep
<1>1. pc[c] = "answered" /\ pc'[c] = "idle" /\ disk' = disk /\ OthersWait(c)
  BY DEF Maps, HangUp, GoTo, OthersWait
<1>2. Files' = Files /\ Ops[c] = Op(c)
  BY <1>1 DEF Files, Ops
<1>3. Op(c)' = [is |-> "idle"]
  BY <1>1, OpPartsNext
<1>4. CASE NoFile(req[c])
  BY <1>1, <1>2, <1>3, <1>4, OpParts, OpsStutter DEF ContractStep
<1>5. CASE ~NoFile(req[c])
  <2>1. Ops' = [Ops EXCEPT ![c] = [is |-> "idle"]]
    BY <1>1, <1>3, OpsUpdate
  <2>2. Op(c).is = "answered"
    BY <1>1, <1>5, OpParts
  <2>3. Contract!Dismiss(c)
    BY <1>2, <2>1, <2>2 DEF Contract!Dismiss, Contract!Idle, Ops
  <2> QED
    BY <2>3 DEF ContractStep, Contract!Next
<1> QED
  BY <1>4, <1>5

LEMMA CrashRefines ==
  ASSUME DiskCrash
  PROVE  ContractStep
<1>1. Files' = Files
  BY DEF DiskCrash, Files
<1>2. \A c \in Callers : pc'[c] = "idle"
  BY DEF DiskCrash
<1>3. Ops' = [c \in Callers |-> [is |-> "idle"]]
  BY <1>2, OpPartsNext DEF Ops
<1>4. Contract!Crash
  BY <1>1, <1>3 DEF Contract!Crash, Contract!Idle, Ops
<1> QED
  BY <1>4 DEF ContractStep, Contract!Next

\* A system call that leaves the files as they are and the call unanswered.
LEMMA GoingOnRefines ==
  ASSUME Maps, NEW c \in Callers, Advances(c), Files' = Files,
         NoFile(req[c]) \/ pc'[c] # "answered"
  PROVE  ContractStep
<1>1. /\ OthersWait(c) /\ req'[c] = req[c]
      /\ pc[c] \notin {"idle", "answered"} /\ pc'[c] # "idle"
  BY DEF Advances, OthersWait
<1>2. Op(c)' = Op(c)
  <2>1. CASE NoFile(req[c])
    BY <1>1, <2>1, OpParts, OpPartsNext
  <2>2. CASE ~NoFile(req[c])
    BY <1>1, <2>2, OpParts, OpPartsNext
  <2> QED
    BY <2>1, <2>2
<1> QED
  BY <1>1, <1>2, OpsStutter DEF ContractStep

\* A system call that answers a call on a file.
LEMMA AnswerDoes ==
  ASSUME Seq(Words) \subseteq Contents, Maps, NEW c \in Callers, CallInv(c), Advances(c),
         ~NoFile(req[c]), NEW a, Answer(c, a)
  PROVE  /\ Contract!Does(c, req[c].do, req[c].file[1], a)
         /\ req[c].do \in {"read", "delete", "write"}
         /\ req[c].file[1] \in Paths /\ req[c].file = File(req[c].file[1])
         /\ req[c].do = "write" => Ops[c].request.content = req[c].content
<1>1. /\ OthersWait(c) /\ req'[c] = req[c] /\ pc[c] \notin {"idle", "answered"}
      /\ pc'[c] = "answered" /\ ans'[c] = a
  BY DEF Advances, OthersWait, Maps, Answer, GoTo
<1>2. /\ Op(c) = [is |-> "asked", request |-> FileCall(req[c])]
      /\ Op(c)' = [is |-> "answered", request |-> FileCall(req[c]), answer |-> a]
  BY <1>1, OpParts, OpPartsNext
<1>3. req[c] \in DiskRequests
  BY <1>1 DEF CallInv
<1>4. /\ FileCall(req[c]).do = req[c].do /\ FileCall(req[c]).path = req[c].file[1]
      /\ req[c].do = "write" => FileCall(req[c]).content = req[c].content
      /\ req[c].do \in {"read", "delete", "write"}
      /\ req[c].file[1] \in Paths /\ req[c].file = File(req[c].file[1])
  BY <1>3, FileCallTyped
<1>5. Ops[c] = Op(c)
  BY DEF Ops
<1>6. Ops' = [Ops EXCEPT ![c] = [is |-> "answered", request |-> FileCall(req[c]), answer |-> a]]
  BY <1>1, <1>2, OpsUpdate
<1>7. Ops[c].is = "asked" /\ Ops[c].request = FileCall(req[c])
  BY <1>2, <1>5
<1>8. Contract!Does(c, req[c].do, req[c].file[1], a)
  BY <1>4, <1>6, <1>7 DEF Contract!Does, Contract!Answered, Ops
<1> QED
  BY <1>4, <1>7, <1>8

\* The file of a call is there for the contract when it is there on the disk.
LEMMA FileOfCall ==
  ASSUME NEW p \in Paths
  PROVE  /\ p \in DOMAIN Files <=> File(p) \in DOMAIN disk
         /\ p \in DOMAIN Files => Files[p] = disk[File(p)]
BY DEF Files

LEMMA FailRefines ==
  ASSUME Seq(Words) \subseteq Contents, Maps, NEW c \in Callers, CallInv(c), Advances(c),
         Files' = Files, Answer(c, <<"failed">>)
  PROVE  ContractStep
<1>1. CASE NoFile(req[c])
  BY <1>1, GoingOnRefines
<1>2. CASE ~NoFile(req[c])
  <2>1. /\ Contract!Does(c, req[c].do, req[c].file[1], <<"failed">>)
        /\ req[c].do \in {"read", "delete", "write"} /\ req[c].file[1] \in Paths
    BY <1>2, AnswerDoes
  <2>2. Contract!Fail(c, req[c].do, req[c].file[1])
    BY <2>1 DEF Contract!Fail
  <2> QED
    BY <2>1, <2>2 DEF ContractStep, Contract!Next
<1> QED
  BY <1>1, <1>2

LEMMA NotFoundRefines ==
  ASSUME Seq(Words) \subseteq Contents, Maps, NEW c \in Callers, CallInv(c), Advances(c),
         Files' = Files, Answer(c, <<"notFound">>), req[c].do # "write",
         req[c].file \notin DOMAIN disk
  PROVE  ContractStep
<1>1. CASE NoFile(req[c])
  BY <1>1, GoingOnRefines
<1>2. CASE ~NoFile(req[c])
  <2>1. /\ Contract!Does(c, req[c].do, req[c].file[1], <<"notFound">>)
        /\ req[c].do \in {"read", "delete", "write"} /\ req[c].file[1] \in Paths
        /\ req[c].file = File(req[c].file[1])
    BY <1>2, AnswerDoes
  <2>2. req[c].file[1] \notin DOMAIN Files
    BY <2>1, FileOfCall
  <2>3. Contract!NotFound(c, req[c].do, req[c].file[1])
    BY <2>1, <2>2 DEF Contract!NotFound
  <2> QED
    BY <2>1, <2>3 DEF ContractStep, Contract!Next
<1> QED
  BY <1>1, <1>2

\* The steps that change no file of the contract.
LEMMA FilesUnchanged ==
  ASSUME Maps, DiskTyped, TmpInv, NEW c \in Callers, CallInv(c), StorageStep(c), ~Changes(c)
  PROVE  Files' = Files
BY FilesOfStep, FilesKept

\* A rename is the write of what the temporary file holds.
LEMMA RenameRefines ==
  ASSUME Seq(Words) \subseteq Contents, Maps, DiskTyped, TmpInv, NEW c \in Callers, CallInv(c),
         Advances(c), Rename(c), disk[tmp[c]] = req[c].content
  PROVE  ContractStep
<1> DEFINE p == req[c].file[1]
           new == [q \in DOMAIN Files \cup {p} |-> IF q = p THEN Ops[c].request.content ELSE Files[q]]
<1>1. pc[c] = "rename" /\ req[c].do = "write" /\ req[c].file \in PathFiles
  BY WriteFields DEF Rename, CallInv
<1>2. ~NoFile(req[c])
  BY <1>1, PathFilesAreFiles DEF NoFile
<1>3. /\ Contract!Does(c, "write", p, <<"done">>) /\ p \in Paths /\ req[c].file = File(p)
      /\ Ops[c].request.content = req[c].content
  BY <1>1, <1>2, AnswerDoes DEF Rename
<1>4. \A q \in Paths \ {p} : FileKept(q)
  <2>1. \A q \in Paths \ {p} : File(q) # req[c].file
    BY <1>3, FileIsNoTemp
  <2> QED
    BY <2>1, FilesOfStep DEF StorageStep
<1>5. File(p) \in (DOMAIN disk)' /\ disk'[File(p)] = req[c].content
  BY <1>3 DEF Rename
<1>6. Files' = new
  <2>1. \A q \in Paths : File(q) \in (DOMAIN disk)' <=> q \in DOMAIN Files \cup {p}
    BY <1>4, <1>5, FileOfCall DEF FileKept
  <2>2. {q \in Paths : File(q) \in DOMAIN disk}' = DOMAIN Files \cup {p}
    BY <1>3, <2>1 DEF Files
  <2>3. \A q \in DOMAIN Files \cup {p} : disk'[File(q)] = new[q]
    BY <1>3, <1>4, <1>5, FileOfCall DEF FileKept, Files
  <2> QED
    BY <2>2, <2>3 DEF Files
<1>7. Contract!Write(c, p)
  BY <1>3, <1>6 DEF Contract!Write, Ops
<1> QED
  BY <1>3, <1>7 DEF ContractStep, Contract!Next

\* An unlink deletes the file, where it is still there.
LEMMA UnlinkRefines ==
  ASSUME Seq(Words) \subseteq Contents, Maps, DiskTyped, TmpInv, NEW c \in Callers, CallInv(c),
         Advances(c), Unlink(c)
  PROVE  ContractStep
<1> DEFINE p == req[c].file[1]
<1>1. pc[c] = "remove" /\ req[c].do = "delete" /\ req[c].file \in PathFiles
  BY RequestFields DEF Unlink, CallInv
<1>2. ~NoFile(req[c])
  BY <1>1, PathFilesAreFiles DEF NoFile
<1>3. CASE req[c].file \notin DOMAIN disk
  <2>1. Files' = Files
    BY <1>3, FilesUnchanged DEF Changes, Rename, Unlink, StorageStep
  <2> QED
    BY <1>1, <1>3, <2>1, NotFoundRefines DEF Unlink
<1>4. CASE req[c].file \in DOMAIN disk
  <2>1. /\ Contract!Does(c, "delete", p, <<"done">>) /\ p \in Paths /\ req[c].file = File(p)
    BY <1>1, <1>2, <1>4, AnswerDoes DEF Unlink
  <2>2. \A q \in Paths \ {p} : FileKept(q)
    <3>1. \A q \in Paths \ {p} : File(q) # req[c].file
      BY <2>1, FileIsNoTemp
    <3> QED
      BY <3>1, FilesOfStep DEF StorageStep
  <2>3. File(p) \notin (DOMAIN disk)' /\ p \in DOMAIN Files
    BY <1>4, <2>1, FileOfCall DEF Unlink, Without
  <2>4. Files' = [q \in DOMAIN Files \ {p} |-> Files[q]]
    <3>1. \A q \in Paths : File(q) \in (DOMAIN disk)' <=> q \in DOMAIN Files \ {p}
      BY <2>2, <2>3, FileOfCall DEF FileKept
    <3>2. {q \in Paths : File(q) \in DOMAIN disk}' = DOMAIN Files \ {p}
      BY <3>1 DEF Files
    <3>3. \A q \in DOMAIN Files \ {p} : disk'[File(q)] = Files[q]
      BY <2>2, FileOfCall DEF FileKept, Files
    <3> QED
      BY <3>2, <3>3 DEF Files
  <2>5. Contract!Delete(c, p)
    BY <2>1, <2>3, <2>4 DEF Contract!Delete
  <2> QED
    BY <2>1, <2>5 DEF ContractStep, Contract!Next
<1> QED
  BY <1>3, <1>4

\* Opening a file reads it.
LEMMA OpenRefines ==
  ASSUME Seq(Words) \subseteq Contents, Maps, NEW c \in Callers, CallInv(c), Advances(c), Open(c)
  PROVE  ContractStep
<1>1. req[c].do = "read" /\ Files' = Files
  BY DEF Open, CallInv, Files
<1>2. CASE req[c].file \notin DOMAIN disk
  BY <1>1, <1>2, NotFoundRefines DEF Open
<1>3. CASE NoFile(req[c])
  BY <1>1, <1>3, GoingOnRefines
<1>4. CASE req[c].file \in DOMAIN disk /\ ~NoFile(req[c])
  <2> DEFINE p == req[c].file[1]
  <2>1. /\ Contract!Does(c, "read", p, <<"content", disk[req[c].file]>>) /\ p \in Paths
        /\ req[c].file = File(p)
    BY <1>1, <1>4, AnswerDoes DEF Open
  <2>2. p \in DOMAIN Files /\ Files[p] = disk[req[c].file]
    BY <1>4, <2>1, FileOfCall
  <2>3. Contract!Read(c, p)
    BY <1>1, <2>1, <2>2 DEF Contract!Read
  <2> QED
    BY <2>1, <2>3 DEF ContractStep, Contract!Next
<1> QED
  BY <1>2, <1>3, <1>4

-----------------------------------------------------------------------------
\* What is renamed is what was to be written: nobody else touches the temporary
\* file of a write.

FilledInv == \A c \in Callers : pc[c] = "rename" => disk[tmp[c]] = req[c].content

LEMMA TempOfOtherKept ==
  ASSUME Maps, DiskTyped, TmpInv, NEW c \in Callers, CallInv(c), StorageStep(c),
         NEW d \in Callers \ {c}, pc[d] = "rename"
  PROVE  tmp'[d] = tmp[d] /\ disk'[tmp[d]] = disk[tmp[d]]
<1>1. /\ tmp[d] \in DOMAIN disk /\ \A p : tmp[d] # File(p)
  BY TmpFields DEF Writing
<1>2. c \in Writing => tmp[c] # tmp[d]
  BY DEF TmpInv, Writing
<1>3. CASE Fails(c) \/ Stat(c) \/ Open(c) \/ RenameFails(c) \/ ReadDir(c) \/ Info(c)
  BY <1>3 DEF Fails, Stat, Open, RenameFails, ReadDir, Info
<1>4. CASE Unlink(c)
  <2>1. req[c].file \in PathFiles
    BY <1>4, RequestFields DEF Unlink, CallInv
  <2>2. tmp[d] # req[c].file
    BY <1>1, <2>1, PathFilesAreFiles
  <2> QED
    BY <1>1, <1>4, <2>2 DEF Unlink, Without
<1>5. CASE Create(c)
  <2>1. PICK t : /\ t \notin DOMAIN disk /\ tmp' = [tmp EXCEPT ![c] = t]
                 /\ disk' = [m \in DOMAIN disk \cup {t} |-> IF m = t THEN <<>> ELSE disk[m]]
    BY <1>5 DEF Create
  <2> QED
    BY <1>1, <2>1
<1>6. CASE Fill(c)
  BY <1>1, <1>2, <1>6 DEF Fill, Writing
<1>7. CASE FillFails(c)
  BY <1>1, <1>2, <1>7 DEF FillFails, Writing
<1>8. CASE Rename(c)
  <2>1. req[c].file \in PathFiles
    BY <1>8, WriteFields DEF Rename
  <2>2. tmp[d] # req[c].file
    BY <1>1, <2>1, PathFilesAreFiles
  <2> QED
    BY <1>1, <1>2, <1>8, <2>2 DEF Rename, Writing
<1>9. CASE Discard(c)
  BY <1>1, <1>2, <1>9 DEF Discard, Without, Writing
<1> QED
  BY <1>3, <1>4, <1>5, <1>6, <1>7, <1>8, <1>9 DEF StorageStep

LEMMA FillIsWhole ==
  ASSUME Maps, DiskTyped, TmpInv, NEW c \in Callers, CallInv(c), StorageStep(c), pc'[c] = "rename"
  PROVE  disk'[tmp'[c]] = req'[c].content
<1>1. Fill(c)
  BY DEF StorageStep, Maps, Fails, Stat, Open, Unlink, Create, FillFails, Rename, RenameFails, Discard,
         ReadDir, Info, Answer, GoTo
<1>2. tmp[c] \in DOMAIN disk
  BY <1>1, TmpFields DEF Fill, Writing
<1> QED
  BY <1>1, <1>2 DEF Fill

\* A step of a tool: it makes a call, ends one, or leaves the storage alone.
ToolStep(c) ==
  \/ \E r \in DiskRequests : Call(c, r)
  \/ HangUp(c)
  \/ UNCHANGED diskVars

LEMMA ToolsOnly ==
  ASSUME FilesInv, NEW c \in Callers,
         \/ Dispatch(c) \/ StorageErred(c) \/ ReadTold(c) \/ ChangeTold(c) \/ ListTold(c)
         \/ EditRefused(c) \/ EditWrites(c) \/ GrepStarts(c) \/ GrepReads(c)
  PROVE  ToolStep(c)
<1>1. CASE Dispatch(c)
  BY <1>1, FirstRequestFields DEF Dispatch, ToolStep
<1>2. CASE StorageErred(c) \/ ReadTold(c) \/ ChangeTold(c) \/ ListTold(c) \/ EditRefused(c)
  BY <1>2 DEF StorageErred, ReadTold, ChangeTold, ListTold, EditRefused, End, ToolStep
<1>3. CASE EditWrites(c)
  <2> DEFINE new == Replaced(ans[c][2], tool[c].old, tool[c].new)
  <2>1. tool[c] \in ToolCalls /\ tool[c].name = "edit_file" /\ ans[c] \in DiskAnswers /\ ans[c][1] = "content"
    BY <1>3, AnswersFields DEF EditWrites
  <2>2. new \in Seq(Words) /\ File(tool[c].path) \in PathFiles
    BY <2>1, AnswerFields, ToolFields, ReplacedType
  <2>3. Call(c, [do |-> "write", file |-> File(tool[c].path), content |-> new])
    BY <1>3 DEF EditWrites
  <2> HIDE DEF new
  <2>4. [do |-> "write", file |-> File(tool[c].path), content |-> new] \in DiskRequests
    BY <2>2 DEF DiskRequests
  <2> QED
    BY <2>3, <2>4 DEF ToolStep
<1>4. ASSUME NEW ns \in SUBSET Names, NEW size, NEW hits, GrepOn(c, ns, size, hits)
      PROVE  ToolStep(c)
  <2>1. CASE ns = {} \/ ScannedEnough(size)
    BY <1>4, <2>1 DEF GrepOn, End, ToolStep
  <2>2. CASE ~(ns = {} \/ ScannedEnough(size))
    <3>1. PICK n \in ns : Call(c, [do |-> "read", file |-> n])
      BY <1>4, <2>2 DEF GrepOn
    <3>2. [do |-> "read", file |-> n] \in DiskRequests
      BY DEF DiskRequests
    <3> QED
      BY <3>1, <3>2 DEF ToolStep
  <2> QED
    BY <2>1, <2>2
<1>5. CASE GrepStarts(c)
  <2>1. VisibleIn(ans[c][2]) \in SUBSET Names
    BY <1>5, AnswersFields, AnswerFields DEF GrepStarts, VisibleIn
  <2> QED
    BY <1>4, <1>5, <2>1 DEF GrepStarts
<1>6. CASE GrepReads(c)
  <2>1. todo[c] \in SUBSET Names
    BY <1>6, AnswersFields DEF GrepReads, ShownInv
  <2> QED
    BY <1>4, <1>6, <2>1 DEF GrepReads
<1> QED
  BY <1>1, <1>2, <1>3, <1>5, <1>6

LEMMA FilledStep ==
  ASSUME FilesInv, FilledInv, [Next]_vars
  PROVE  FilledInv'
<1>1. DiskTyped /\ Maps /\ TmpInv /\ \A c \in Callers : CallInv(c)
  BY DEF FilesInv, SessionInv
<1>2. CASE UNCHANGED diskVars
  BY <1>2 DEF FilledInv, diskVars
<1>3. CASE Crash
  BY <1>3 DEF FilledInv, Crash, DiskCrash
<1>4. ASSUME NEW c \in Callers, StorageWorks(c)
      PROVE  FilledInv'
  <2>1. StorageStep(c) /\ Advances(c)
    BY <1>1, <1>4, StorageAdvances DEF StorageWorks
  <2>2. \A d \in Callers \ {c} : pc'[d] = "rename" => disk'[tmp'[d]] = req'[d].content
    BY <1>1, <2>1, TempOfOtherKept DEF Advances, FilledInv
  <2>3. pc'[c] = "rename" => disk'[tmp'[c]] = req'[c].content
    BY <1>1, <2>1, FillIsWhole
  <2> QED
    BY <2>2, <2>3 DEF FilledInv
<1>5. ASSUME NEW c \in Callers, ToolStep(c)
      PROVE  FilledInv'
  <2>1. CASE \E r \in DiskRequests : Call(c, r)
    <3>1. PICK r \in DiskRequests : Call(c, r)
      BY <2>1
    <3>2. /\ pc'[c] = r.do /\ UNCHANGED <<disk, tmp, left>>
          /\ \A d \in Callers \ {c} : pc'[d] = pc[d] /\ req'[d] = req[d] /\ ans'[d] = ans[d]
      BY <1>1, <3>1, CallMoves
    <3>3. r.do # "rename"
      BY DEF DiskRequests
    <3> QED
      BY <3>2, <3>3 DEF FilledInv
  <2>2. CASE HangUp(c)
    BY <1>1, <2>2 DEF HangUp, GoTo, Maps, FilledInv
  <2> QED
    BY <1>2, <1>5, <2>1, <2>2 DEF ToolStep
<1> QED
  BY <1>2, <1>3, <1>4, <1>5, ToolsOnly DEF Next, vars, diskVars

LEMMA FilledAlways == Spec => []FilledInv
<1>1. Init => FilledInv
  BY DEF Init, DiskInit, FilledInv
<1> QED
  BY <1>1, FilledStep, FilesAlways, PTL DEF Spec

-----------------------------------------------------------------------------
\* The refinement.

LEMMA StorageRefines ==
  ASSUME Seq(Words) \subseteq Contents, Maps, DiskTyped, TmpInv, FilledInv,
         NEW c \in Callers, CallInv(c), StorageStep(c)
  PROVE  ContractStep
<1>1. Advances(c)
  BY StorageAdvances
<1>2. ~Changes(c) => Files' = Files
  BY FilesUnchanged
<1>3. CASE Fails(c)
  <2>1. Files' = Files
    BY <1>3 DEF Fails, Files
  <2> QED
    BY <1>1, <1>3, <2>1, FailRefines DEF Fails
<1>4. CASE Stat(c)
  <2>1. Files' = Files /\ DOMAIN pc = Callers /\ req[c].do \in {"read", "delete"}
    BY <1>4 DEF Stat, Files, Maps, CallInv
  <2>2. CASE req[c].file \in DOMAIN disk
    BY <1>1, <1>4, <2>1, <2>2, GoingOnRefines DEF Stat, GoTo
  <2>3. CASE req[c].file \notin DOMAIN disk
    BY <1>1, <1>4, <2>1, <2>3, NotFoundRefines DEF Stat
  <2> QED
    BY <2>2, <2>3
<1>5. CASE Open(c)
  BY <1>1, <1>5, OpenRefines
<1>6. CASE Unlink(c)
  BY <1>1, <1>6, UnlinkRefines
<1>7. CASE Create(c) \/ Fill(c) \/ FillFails(c) \/ RenameFails(c)
  <2>1. ~Changes(c)
    BY <1>7 DEF Changes, Rename, Unlink, Create, Fill, FillFails, RenameFails, Answer, GoTo, Maps
  <2>2. pc'[c] # "answered"
    BY <1>7 DEF Create, Fill, FillFails, RenameFails, GoTo, Maps
  <2> QED
    BY <1>1, <1>2, <2>1, <2>2, GoingOnRefines
<1>8. CASE Rename(c)
  BY <1>1, <1>8, RenameRefines DEF FilledInv, Rename
<1>9. CASE Discard(c)
  <2>1. ~Changes(c)
    BY <1>9 DEF Changes, Rename, Unlink, Discard
  <2> QED
    BY <1>1, <1>2, <1>9, <2>1, FailRefines DEF Discard
<1>10. CASE ReadDir(c) \/ Info(c)
  <2>1. req[c].do = "list" /\ Files' = Files
    BY <1>10 DEF ReadDir, Info, CallInv, Files
  <2> QED
    BY <1>1, <2>1, GoingOnRefines DEF NoFile
<1> QED
  BY <1>3, <1>4, <1>5, <1>6, <1>7, <1>8, <1>9, <1>10 DEF StorageStep

LEMMA StepRefines ==
  ASSUME Seq(Words) \subseteq Contents, FilesInv, FilledInv, [Next]_vars
  PROVE  ContractStep
<1>1. DiskTyped /\ Maps /\ TmpInv /\ \A c \in Callers : CallInv(c)
  BY DEF FilesInv, SessionInv
<1>2. CASE UNCHANGED diskVars
  BY <1>2 DEF ContractStep, diskVars, Files, Ops, Op, Request
<1>3. CASE Crash
  BY <1>3, CrashRefines DEF Crash
<1>4. ASSUME NEW c \in Callers, StorageWorks(c)
      PROVE  ContractStep
  BY <1>1, <1>4, StorageRefines DEF StorageWorks
<1>5. ASSUME NEW c \in Callers, ToolStep(c)
      PROVE  ContractStep
  BY <1>1, <1>2, <1>5, CallRefines, HangUpRefines DEF ToolStep
<1> QED
  BY <1>2, <1>3, <1>4, <1>5, ToolsOnly DEF Next, vars, diskVars

\* Reading, writing and deleting a file are atomic (vfs/storage.go:20), whatever
\* the calls of other sessions, failing system calls and crashes come between
\* the steps of one: the disk implements the contract.  Contents are whatever
\* the contract takes them to be, as long as every text is one.
THEOREM DiskImplementsStorage ==
  ASSUME Seq(Words) \subseteq Contents
  PROVE  Spec => DiskIsAtomic
<1>1. Init => Contract!Init
  <2>1. Init => Ops = [c \in Callers |-> [is |-> "idle"]]
    BY OpParts DEF Init, DiskInit, Ops
  <2> QED
    BY <2>1 DEF Contract!Init, Contract!Idle, Files, Ops
<1>2. FilesInv /\ FilledInv /\ [Next]_vars => [Contract!Next]_<<Files, Ops>>
  BY StepRefines DEF ContractStep
<1> QED
  BY <1>1, <1>2, FilesAlways, FilledAlways, PTL DEF Spec, DiskIsAtomic, Contract!Spec, Ops
=============================================================================
