-------------------------- MODULE VersionStoreProofs --------------------------
(***************************************************************************)
(* Proofs about the version store, for every number of flows, contents and  *)
(* requests and every behaviour of the environment: its types; that         *)
(* captures which overlap in any order leave nothing uncommitted behind     *)
(* (TreeInv); and that captures which neither overlap nor fail miss no edit *)
(* and keep the history FlowHistory promises (SerialInv, LastInv).          *)
(***************************************************************************)
EXTENDS VersionStore, FoldLemmas, SequenceTheorems

USE DEF Parts

-----------------------------------------------------------------------------
(***************************************************************************)
(* Types.                                                                   *)
(***************************************************************************)

\* A content is a pair of files, and so is the content of a missing flow.
LEMMA ContentTypes == Contents \subseteq Files /\ Absent \in Files
BY ContentsAssumption DEF Files, Absent

\* A request that has not arrived.
LEMMA IdleType == Idle \in Tasks
BY ContentTypes, ContentsAssumption DEF Idle, Tasks, Serving, Capture, Saving, Deleting

\* The tree as of any commit, and before the first one.
LEMMA TreeType == ASSUME TypeOK, NEW k \in 0 .. Len(log) PROVE TreeAt(k) \in Trees
<1>1. CASE k = 0
  BY <1>1, ContentTypes DEF TreeAt, Trees
<1>2. CASE k # 0
  <2>1. k \in 1 .. Len(log) BY <1>2
  <2>2. log[k] \in Commits BY <2>1 DEF TypeOK
  <2>. QED BY <1>2, <2>2 DEF TreeAt, Commits
<1>. QED BY <1>1, <1>2

\* A tree in which one file of one flow is replaced.
LEMMA TreeSetType ==
  ASSUME NEW t \in Trees, NEW f \in Flows, NEW p \in Parts,
         NEW v \in Texts \cup {NoText}
  PROVE  [t EXCEPT ![f][p] = v] \in Trees
<1>1. t[f] \in Files BY DEF Trees
<1>2. [t[f] EXCEPT ![p] = v] \in Files BY <1>1 DEF Files
<1>. QED BY <1>2 DEF Trees

\* A step that changes one request's task.
LEMMA TaskType ==
  ASSUME TypeOK, NEW r \in Requests, NEW t \in Tasks, task' = [task EXCEPT ![r] = t]
  PROVE  task' \in [Requests -> Tasks]
BY DEF TypeOK

\* The initial state has the types.
LEMMA InitTypes == Init => TypeOK
<1>. SUFFICES ASSUME Init PROVE TypeOK
  OBVIOUS
<1>1. row \in [Flows -> [content : Files, by : Requests \cup {NoOne}]]
  BY ContentTypes DEF Init
<1>2. file \in Trees /\ index \in Trees
  BY ContentTypes DEF Init, Trees
<1>3. log \in Seq(Commits) BY DEF Init
<1>4. task \in [Requests -> Tasks] BY IdleType DEF Init
<1>. QED BY <1>1, <1>2, <1>3, <1>4 DEF Init, TypeOK

\* The arrival of a request of any kind keeps the types.
LEMMA ArriveTypes ==
  ASSUME TypeOK, NEW r \in Requests, NEW f \in Flows, NEW c \in Files,
         NEW kind \in {"create", "update", "restore", "delete"}, Arrive(r, kind, f, c)
  PROVE  TypeOK'
<1>1. [Idle EXCEPT !.kind = kind, !.flow = f, !.content = c, !.stage = "loaded"] \in Tasks
  BY IdleType DEF Tasks, Serving
<1>2. task' \in [Requests -> Tasks]
  BY <1>1, TaskType DEF Arrive
<1>. QED BY <1>2 DEF Arrive, TypeOK

\* Each action keeps the types.
LEMMA NextTypes == ASSUME TypeOK, [Next]_vars PROVE TypeOK'
<1>. USE DEF Flow, Part, At
<1>1. ASSUME NEW r \in Requests, Create(r) PROVE TypeOK'
  BY <1>1, ArriveTypes, ContentTypes DEF Create
<1>2. ASSUME NEW r \in Requests, Update(r) PROVE TypeOK'
  BY <1>2, ArriveTypes, ContentTypes DEF Update
<1>3. ASSUME NEW r \in Requests, Restore(r) PROVE TypeOK'
  <2>1. PICK f \in Flows, k \in 1 .. Len(log) :
          Arrive(r, "restore", f,
                 [row[f].content EXCEPT !["flow"] = log[k].tree[f]["flow"]])
    BY <1>3 DEF Restore
  <2>2. log[k] \in Commits BY DEF TypeOK
  <2>3. log[k].tree[f] \in Files /\ row[f].content \in Files
    BY <2>2 DEF TypeOK, Trees, Commits
  <2>4. [row[f].content EXCEPT !["flow"] = log[k].tree[f]["flow"]] \in Files
    BY <2>3 DEF Files
  <2>. QED BY <2>1, <2>4, ArriveTypes
<1>4. ASSUME NEW r \in Requests, Delete(r) PROVE TypeOK'
  BY <1>4, ArriveTypes, ContentTypes DEF Delete
<1>5. ASSUME NEW r \in Requests, SaveRow(r) PROVE TypeOK'
  <2>1. task[r] \in Tasks BY DEF TypeOK
  <2>2. [task[r] EXCEPT !.stage = "compare"] \in Tasks
    BY <2>1 DEF Tasks, Serving, Capture, Saving
  <2>3. task' \in [Requests -> Tasks] BY <1>5, <2>2, TaskType DEF SaveRow
  <2>4. [content |-> task[r].content, by |-> r]
          \in [content : Files, by : Requests \cup {NoOne}]
    BY <2>1 DEF Tasks
  <2>. QED BY <1>5, <2>3, <2>4 DEF SaveRow, TypeOK
<1>6. ASSUME NEW r \in Requests, DeleteRow(r) PROVE TypeOK'
  <2>1. task[r] \in Tasks BY DEF TypeOK
  <2>2. [task[r] EXCEPT !.stage = "remove"] \in Tasks
    BY <2>1 DEF Tasks, Serving, Capture, Deleting
  <2>3. task' \in [Requests -> Tasks] BY <1>6, <2>2, TaskType DEF DeleteRow
  <2>. QED BY <1>6, <2>3, ContentTypes DEF DeleteRow, TypeOK
<1>7. ASSUME NEW r \in Requests, CompareFile(r) PROVE TypeOK'
  <2>1. task[r] \in Tasks BY DEF TypeOK
  <2>2. task'[r] \in Tasks /\ task' = [task EXCEPT ![r] = task'[r]]
    BY <1>7, <2>1 DEF CompareFile, TypeOK, Tasks, Serving, Capture, Saving
  <2>3. task' \in [Requests -> Tasks] BY <2>2, TaskType
  <2>. QED BY <1>7, <2>3 DEF CompareFile, TypeOK
<1>8. ASSUME NEW r \in Requests, WriteFile(r) PROVE TypeOK'
  <2>1. task[r] \in Tasks BY DEF TypeOK
  <2>2. task'[r] \in Tasks /\ task' = [task EXCEPT ![r] = task'[r]]
    BY <1>8, <2>1 DEF WriteFile, Onward, TypeOK, Tasks, Serving, Capture, Saving
  <2>3. task' \in [Requests -> Tasks] BY <2>2, TaskType
  <2>4. task[r].content[task[r].part] \in Texts \cup {NoText}
    BY <2>1 DEF Tasks, Files
  <2>5. file' \in Trees
    BY <1>8, <2>1, <2>4, TreeSetType DEF WriteFile, TypeOK, Tasks
  <2>. QED BY <1>8, <2>3, <2>5 DEF WriteFile, TypeOK
<1>9. ASSUME NEW r \in Requests, Add(r) PROVE TypeOK'
  <2>1. task[r] \in Tasks BY DEF TypeOK
  <2>2. task'[r] \in Tasks /\ task' = [task EXCEPT ![r] = task'[r]]
    BY <1>9, <2>1 DEF Add, Onward, TypeOK, Tasks, Serving, Capture, Saving
  <2>3. task' \in [Requests -> Tasks] BY <2>2, TaskType
  <2>4. file[task[r].flow][task[r].part] \in Texts \cup {NoText}
    BY <2>1 DEF Tasks, Files, Trees, TypeOK
  <2>5. task[r].flow \in Flows /\ task[r].part \in Parts BY <2>1 DEF Tasks
  <2>6. [index EXCEPT ![task[r].flow][task[r].part]
            = file[task[r].flow][task[r].part]] \in Trees
    BY <2>4, <2>5, TreeSetType DEF TypeOK
  <2>7. index' \in Trees
    <3>1. CASE file[task[r].flow][task[r].part] = NoText
      BY <1>9, <3>1 DEF Add, TypeOK
    <3>2. CASE file[task[r].flow][task[r].part] # NoText
      <4>1. index' = [index EXCEPT ![task[r].flow][task[r].part]
                        = file[task[r].flow][task[r].part]]
        BY <1>9, <3>2 DEF Add
      <4>. QED BY <2>6, <4>1
    <3>. QED BY <3>1, <3>2
  <2>. QED BY <1>9, <2>3, <2>7 DEF Add, TypeOK
<1>10. ASSUME NEW r \in Requests, Commit(r) PROVE TypeOK'
  <2>1. task[r] \in Tasks BY DEF TypeOK
  <2>2. [task[r] EXCEPT !.stage = "done"] \in Tasks BY <2>1 DEF Tasks
  <2>3. task' \in [Requests -> Tasks] BY <1>10, <2>2, TaskType DEF Commit
  <2>4. [tree |-> index, flow |-> task[r].flow, author |-> r]
          \in Commits
    BY <2>1 DEF Tasks, TypeOK, Commits
  <2>5. log' \in Seq(Commits)
    BY <1>10, <2>4 DEF Commit, TypeOK
  <2>. QED BY <1>10, <2>3, <2>5 DEF Commit, TypeOK
<1>11. ASSUME NEW r \in Requests, RemoveFile(r) PROVE TypeOK'
  <2>1. task[r] \in Tasks BY DEF TypeOK
  <2>2. task'[r] \in Tasks /\ task' = [task EXCEPT ![r] = task'[r]]
    BY <1>11, <2>1 DEF RemoveFile, TypeOK, Tasks, Serving, Capture, Deleting
  <2>3. task' \in [Requests -> Tasks] BY <2>2, TaskType
  <2>4. [file EXCEPT ![task[r].flow][task[r].part] = NoText] \in Trees
    BY <2>1, TreeSetType DEF TypeOK, Tasks
  <2>5. file' \in Trees
    <3>1. CASE file[task[r].flow][task[r].part] = NoText
      BY <1>11, <3>1 DEF RemoveFile, TypeOK
    <3>2. CASE file[task[r].flow][task[r].part] # NoText
      BY <1>11, <2>4, <3>2 DEF RemoveFile
    <3>. QED BY <3>1, <3>2
  <2>. QED BY <1>11, <2>3, <2>5 DEF RemoveFile, TypeOK
<1>12. ASSUME NEW r \in Requests, Unstage(r) PROVE TypeOK'
  <2>1. task[r] \in Tasks BY DEF TypeOK
  <2>2. task'[r] \in Tasks /\ task' = [task EXCEPT ![r] = task'[r]]
    BY <1>12, <2>1 DEF Unstage, TypeOK, Tasks, Serving, Capture, Deleting
  <2>3. task' \in [Requests -> Tasks] BY <2>2, TaskType
  <2>4. [index EXCEPT ![task[r].flow][task[r].part] = NoText] \in Trees
    BY <2>1, TreeSetType DEF TypeOK, Tasks
  <2>5. index' \in Trees BY <1>12, <2>4 DEF Unstage
  <2>. QED BY <1>12, <2>3, <2>5 DEF Unstage, TypeOK
<1>13. ASSUME NEW r \in Requests, Interrupt(r) PROVE TypeOK'
  <2>1. [task[r] EXCEPT !.stage = "failed"] \in Tasks BY DEF TypeOK, Tasks
  <2>2. task' \in [Requests -> Tasks] BY <1>13, <2>1, TaskType DEF Interrupt
  <2>. QED BY <1>13, <2>2 DEF Interrupt, TypeOK
<1>14. ASSUME UNCHANGED vars PROVE TypeOK'
  BY <1>14 DEF vars, TypeOK
<1>. QED
  BY <1>1, <1>2, <1>3, <1>4, <1>5, <1>6, <1>7, <1>8, <1>9, <1>10, <1>11, <1>12,
     <1>13, <1>14 DEF Next

\* Rows, files, index, commits and tasks have the types TypeOK gives them, for
\* every set of flows, contents and requests.
THEOREM TypeCorrect == Spec => []TypeOK
BY InitTypes, NextTypes, PTL DEF Spec

-----------------------------------------------------------------------------
(***************************************************************************)
(* What a request that is being served still owes: the files it has yet to  *)
(* stage and the commit it has yet to make. A file that differs from the    *)
(* index, or an index that differs from the last commit, is always owed by  *)
(* somebody - not always by the request that caused the difference.         *)
(***************************************************************************)

WillAdd(r, p) == At(r, "write") \/ (At(r, "add") /\ (Part(r) = "flow" \/ p = "meta"))

WillCommit(r) == task[r].stage \in {"write", "add", "commit"}

Deleted(f) == \E r \in Requests : Flow(r) = f /\ task[r].kind = "delete"

KindsAgree ==
  \A r \in Requests :
    /\ At(r, "idle") => task[r].kind # "delete"
    /\ task[r].stage \in Deleting => task[r].kind = "delete"

FilesPending ==
  \A f \in Flows, p \in Parts :
    file[f][p] # index[f][p] =>
      Deleted(f) \/ \E r \in Requests : Flow(r) = f /\ WillAdd(r, p)

IndexPending ==
  \A f \in Flows, p \in Parts :
    index[f][p] # HeadTree[f][p] =>
      Deleted(f) \/ \E r \in Requests : WillCommit(r)

TreeInv == KindsAgree /\ (Failed \/ (FilesPending /\ IndexPending))

\* Only the task of one request changes.
OnlyTask(r) == \A q \in Requests \ {r} : task'[q] = task[q]

\* A request that is being served stays with its flow and its kind.
SameFlow(r) == Flow(r)' = Flow(r) /\ task'[r].kind = task[r].kind

\* A flow stays deleted.
LEMMA DeletedKept ==
  ASSUME NEW r \in Requests, OnlyTask(r), SameFlow(r) \/ task[r].kind # "delete",
         NEW f \in Flows, Deleted(f)
  PROVE  Deleted(f)'
BY DEF OnlyTask, SameFlow, Deleted, Flow

\* A failure stays.
LEMMA FailedKept ==
  ASSUME NEW r \in Requests, OnlyTask(r), ~At(r, "failed"), Failed
  PROVE  Failed'
BY DEF OnlyTask, Failed, At

\* What the other requests owe does not change.
LEMMA OthersOwe ==
  ASSUME NEW r \in Requests, OnlyTask(r), NEW q \in Requests \ {r}
  PROVE  /\ Flow(q)' = Flow(q)
         /\ \A p \in Parts : WillAdd(q, p)' <=> WillAdd(q, p)
         /\ WillCommit(q)' <=> WillCommit(q)
BY DEF OnlyTask, WillAdd, WillCommit, Flow, At, Part

\* A step that touches neither file, index nor log, of a request that owes
\* nothing or goes on owing it.
LEMMA NothingMoves ==
  ASSUME FilesPending, IndexPending, NEW r \in Requests, OnlyTask(r),
         SameFlow(r) \/ task[r].kind # "delete",
         ~WillCommit(r), file' = file, index' = index, log' = log
  PROVE  FilesPending' /\ IndexPending'
<1>1. \A p \in Parts : ~WillAdd(r, p)
  BY DEF WillAdd, WillCommit, At
<1>2. HeadTree' = HeadTree
  BY DEF HeadTree, TreeAt
<1>3. ASSUME NEW f \in Flows, NEW p \in Parts, file'[f][p] # index'[f][p]
      PROVE  Deleted(f)' \/ \E q \in Requests : Flow(q)' = f /\ WillAdd(q, p)'
  <2>1. CASE Deleted(f) BY <2>1, DeletedKept
  <2>2. CASE \E q \in Requests : Flow(q) = f /\ WillAdd(q, p)
    <3>1. PICK q \in Requests : Flow(q) = f /\ WillAdd(q, p) BY <2>2
    <3>2. q # r BY <3>1, <1>1
    <3>. QED BY <3>1, <3>2, OthersOwe
  <2>. QED BY <1>3, <2>1, <2>2 DEF FilesPending
<1>4. ASSUME NEW f \in Flows, NEW p \in Parts, index'[f][p] # HeadTree'[f][p]
      PROVE  Deleted(f)' \/ \E q \in Requests : WillCommit(q)'
  <2>1. CASE Deleted(f) BY <2>1, DeletedKept
  <2>2. CASE \E q \in Requests : WillCommit(q)
    <3>1. PICK q \in Requests : WillCommit(q) BY <2>2
    <3>2. q # r BY <3>1
    <3>. QED BY <3>1, <3>2, OthersOwe
  <2>. QED BY <1>2, <1>4, <2>1, <2>2 DEF IndexPending
<1>5. FilesPending' BY <1>3 DEF FilesPending
<1>6. IndexPending' BY <1>4 DEF IndexPending
<1>. QED BY <1>5, <1>6

\* The requests' arrival: an idle request owes nothing and deletes nothing.
LEMMA ArriveKeeps ==
  ASSUME TypeOK, TreeInv, NEW r \in Requests, NEW f \in Flows, NEW c \in Files,
         NEW kind \in {"create", "update", "restore", "delete"}, Arrive(r, kind, f, c)
  PROVE  TreeInv'
<1>1. task'[r].stage = "loaded" /\ OnlyTask(r) /\ At(r, "idle")
  BY DEF Arrive, OnlyTask, TypeOK, Idle, At
<1>2. KindsAgree'
  BY <1>1 DEF OnlyTask, TreeInv, KindsAgree, At, Deleting
<1>3. task[r].kind # "delete" /\ ~WillCommit(r)
  BY <1>1 DEF TreeInv, KindsAgree, At, WillCommit
<1>4. CASE Failed
  BY <1>1, <1>2, <1>4, FailedKept DEF TreeInv, At
<1>5. CASE FilesPending /\ IndexPending
  <2>1. file' = file /\ index' = index /\ log' = log BY DEF Arrive
  <2>2. FilesPending' /\ IndexPending'
    BY <1>1, <1>3, <1>5, <2>1, NothingMoves
  <2>. QED BY <1>2, <2>2 DEF TreeInv
<1>. QED BY <1>4, <1>5 DEF TreeInv

\* The kinds and stages of a request go together through the steps of one
\* request that is not idle.
LEMMA KindsKept ==
  ASSUME KindsAgree, NEW r \in Requests, OnlyTask(r), SameFlow(r),
         task'[r].stage # "idle",
         task'[r].stage \in Deleting => task[r].kind = "delete"
  PROVE  KindsAgree'
BY DEF KindsAgree, OnlyTask, SameFlow, At

\* SaveRow, DeleteRow, CompareFile: nothing of the store is touched.
LEMMA RowStepsKeep ==
  ASSUME TypeOK, TreeInv, NEW r \in Requests,
         SaveRow(r) \/ DeleteRow(r) \/ CompareFile(r)
  PROVE  TreeInv'
<1>1. task[r] \in Tasks BY DEF TypeOK
<1>2. OnlyTask(r) /\ SameFlow(r)
  BY <1>1 DEF SaveRow, DeleteRow, CompareFile, OnlyTask, SameFlow, Flow, TypeOK, Tasks
<1>3. task[r].stage \in {"loaded", "compare"}
  BY DEF SaveRow, DeleteRow, CompareFile, At
<1>4. task'[r].stage \in {"compare", "remove", "done", "write"}
  BY <1>1, <1>3 DEF SaveRow, DeleteRow, CompareFile, At, TypeOK, Tasks, Part
<1>5. task'[r].stage \in Deleting => task[r].kind = "delete"
  BY <1>1, <1>3 DEF SaveRow, DeleteRow, CompareFile, At, TypeOK, Tasks, Part, Deleting
<1>6. KindsAgree'
  BY <1>2, <1>4, <1>5, KindsKept DEF TreeInv
<1>7. CASE Failed
  BY <1>2, <1>3, <1>6, <1>7, FailedKept DEF TreeInv, At
<1>8. CASE FilesPending /\ IndexPending
  <2>1. file' = file /\ index' = index /\ log' = log
    BY DEF SaveRow, DeleteRow, CompareFile
  <2>2. ~WillCommit(r) BY <1>3 DEF WillCommit
  <2>3. FilesPending' /\ IndexPending'
    BY <1>2, <1>8, <2>1, <2>2, NothingMoves
  <2>. QED BY <1>6, <2>3 DEF TreeInv
<1>. QED BY <1>7, <1>8 DEF TreeInv

\* WriteFile: the request that writes a file has yet to stage it.
LEMMA WriteKeeps ==
  ASSUME TypeOK, TreeInv, NEW r \in Requests, WriteFile(r)
  PROVE  TreeInv'
<1>1. task[r] \in Tasks /\ At(r, "write") BY DEF TypeOK, WriteFile
<1>2. OnlyTask(r) /\ SameFlow(r)
  BY <1>1 DEF WriteFile, Onward, OnlyTask, SameFlow, Flow, TypeOK, Tasks
<1>3. At(r, "write")' \/ (At(r, "add")' /\ Part(r)' = "flow")
  BY <1>1 DEF WriteFile, Onward, At, Part, TypeOK, Tasks
<1>4. WillCommit(r)' /\ \A p \in Parts : WillAdd(r, p)'
  BY <1>3 DEF WillCommit, WillAdd, At
<1>5. KindsAgree'
  <2>1. task'[r].stage \in {"write", "add"} BY <1>3 DEF At
  <2>. QED BY <1>2, <2>1, KindsKept DEF TreeInv, Deleting
<1>6. CASE Failed
  BY <1>1, <1>2, <1>5, <1>6, FailedKept DEF TreeInv, At
<1>7. CASE FilesPending /\ IndexPending
  <2>1. index' = index /\ log' = log BY DEF WriteFile
  <2>2. ASSUME NEW f \in Flows \ {Flow(r)}, NEW p \in Parts PROVE file'[f][p] = file[f][p]
    BY <1>1 DEF WriteFile, TypeOK, Trees
  <2>3. ASSUME NEW f \in Flows, NEW p \in Parts, file'[f][p] # index'[f][p]
        PROVE  Deleted(f)' \/ \E q \in Requests : Flow(q)' = f /\ WillAdd(q, p)'
    <3>1. CASE f = Flow(r) BY <1>2, <1>4, <3>1 DEF SameFlow
    <3>2. CASE f # Flow(r)
      <4>1. file[f][p] # index[f][p] BY <2>1, <2>2, <2>3, <3>2
      <4>2. CASE Deleted(f) BY <1>2, <4>2, DeletedKept
      <4>3. CASE \E q \in Requests : Flow(q) = f /\ WillAdd(q, p)
        <5>1. PICK q \in Requests : Flow(q) = f /\ WillAdd(q, p) BY <4>3
        <5>. QED BY <1>2, <3>2, <5>1, OthersOwe
      <4>. QED BY <1>7, <4>1, <4>2, <4>3 DEF FilesPending
    <3>. QED BY <3>1, <3>2
  <2>4. FilesPending' BY <2>3 DEF FilesPending
  <2>5. IndexPending' BY <1>4 DEF IndexPending
  <2>. QED BY <1>5, <2>4, <2>5 DEF TreeInv
<1>. QED BY <1>6, <1>7 DEF TreeInv

\* Add: what is staged is the file as it is, whoever wrote it.
LEMMA AddKeeps ==
  ASSUME TypeOK, TreeInv, NEW r \in Requests, Add(r)
  PROVE  TreeInv'
<1>1. task[r] \in Tasks /\ At(r, "add") BY DEF TypeOK, Add
<1>2. OnlyTask(r) /\ SameFlow(r)
  BY <1>1 DEF Add, Onward, OnlyTask, SameFlow, Flow, TypeOK, Tasks
<1>3. task'[r].stage \in {"add", "commit", "failed"}
  BY <1>1 DEF Add, Onward, At, TypeOK, Tasks, Part
<1>4. KindsAgree'
  BY <1>2, <1>3, KindsKept DEF TreeInv, Deleting
<1>5. CASE Failed
  BY <1>1, <1>2, <1>4, <1>5, FailedKept DEF TreeInv, At
<1>6. CASE task'[r].stage = "failed"
  BY <1>4, <1>6 DEF TreeInv, Failed, At
<1>7. CASE FilesPending /\ IndexPending /\ task'[r].stage # "failed"
  <2>1. file' = file BY DEF Add
  <2>2. WillCommit(r)' BY <1>3, <1>7 DEF WillCommit
  <2>3. index' = [index EXCEPT ![Flow(r)][Part(r)] = file[Flow(r)][Part(r)]]
    <3>1. CASE file[Flow(r)][Part(r)] = NoText
      <4>1. task' = [task EXCEPT ![r].stage = "failed"] BY <3>1 DEF Add
      <4>. QED BY <1>1, <1>7, <4>1 DEF TypeOK, Tasks
    <3>2. CASE file[Flow(r)][Part(r)] # NoText BY <3>2 DEF Add
    <3>. QED BY <3>1, <3>2
  <2>4. Part(r) = "flow" => At(r, "add")' /\ Part(r)' = "meta"
    BY <1>1, <1>7 DEF Add, Onward, At, Part, TypeOK, Tasks
  <2>5. ASSUME NEW f \in Flows, NEW p \in Parts, file'[f][p] # index'[f][p]
        PROVE  Deleted(f)' \/ \E q \in Requests : Flow(q)' = f /\ WillAdd(q, p)'
    <3>1. file[f][p] # index[f][p] /\ ~(f = Flow(r) /\ p = Part(r))
      <4>1. Flow(r) \in Flows /\ Part(r) \in Parts /\ index[Flow(r)] \in Files
        BY <1>1 DEF TypeOK, Trees, Tasks, Flow, Part
      <4>2. index'[Flow(r)] = [index[Flow(r)] EXCEPT ![Part(r)] = file[Flow(r)][Part(r)]]
        BY <2>3, <4>1 DEF TypeOK, Trees
      <4>3. CASE f # Flow(r) BY <2>1, <2>3, <2>5, <4>1, <4>3 DEF TypeOK, Trees
      <4>4. CASE f = Flow(r) /\ p = Part(r)
        BY <2>1, <2>5, <4>1, <4>2, <4>4 DEF Files
      <4>5. CASE f = Flow(r) /\ p # Part(r)
        BY <2>1, <2>5, <4>1, <4>2, <4>5 DEF Files
      <4>. QED BY <4>3, <4>4, <4>5
    <3>2. CASE Deleted(f) BY <1>2, <3>2, DeletedKept
    <3>3. CASE \E q \in Requests : Flow(q) = f /\ WillAdd(q, p)
      <4>1. PICK q \in Requests : Flow(q) = f /\ WillAdd(q, p) BY <3>3
      <4>2. CASE q = r
        <5>1. Part(r) = "flow" /\ p = "meta"
          <6>1. Part(r) \in Parts BY <1>1 DEF Tasks, Part
          <6>2. p # Part(r) BY <3>1, <4>1, <4>2
          <6>3. Part(r) = "flow" \/ p = "meta"
            BY <1>1, <4>1, <4>2 DEF WillAdd, At
          <6>. QED BY <6>1, <6>2, <6>3
        <5>. QED BY <1>2, <2>4, <4>1, <4>2, <5>1 DEF WillAdd, SameFlow
      <4>3. CASE q # r BY <1>2, <4>1, <4>3, OthersOwe
      <4>. QED BY <4>2, <4>3
    <3>. QED BY <1>7, <3>1, <3>2, <3>3 DEF FilesPending
  <2>6. FilesPending' BY <2>5 DEF FilesPending
  <2>7. IndexPending' BY <2>2 DEF IndexPending
  <2>. QED BY <1>4, <2>6, <2>7 DEF TreeInv
<1>. QED BY <1>5, <1>6, <1>7 DEF TreeInv

\* Commit: the whole index becomes the last tree.
LEMMA CommitKeeps ==
  ASSUME TypeOK, TreeInv, NEW r \in Requests, Commit(r)
  PROVE  TreeInv'
<1>1. task[r] \in Tasks /\ At(r, "commit") BY DEF TypeOK, Commit
<1>2. OnlyTask(r) /\ SameFlow(r)
  BY <1>1 DEF Commit, OnlyTask, SameFlow, Flow, TypeOK, Tasks
<1>3. task'[r].stage = "done"
  BY <1>1 DEF Commit, TypeOK, Tasks
<1>4. KindsAgree'
  BY <1>2, <1>3, KindsKept DEF TreeInv, Deleting
<1>5. CASE Failed
  BY <1>1, <1>2, <1>4, <1>5, FailedKept DEF TreeInv, At
<1>6. CASE FilesPending /\ IndexPending
  <2>1. file' = file /\ index' = index BY DEF Commit
  <2>2. \A p \in Parts : ~WillAdd(r, p) BY <1>1 DEF WillAdd, At
  <2>3. ASSUME NEW f \in Flows, NEW p \in Parts, file'[f][p] # index'[f][p]
        PROVE  Deleted(f)' \/ \E q \in Requests : Flow(q)' = f /\ WillAdd(q, p)'
    <3>1. CASE Deleted(f) BY <1>2, <3>1, DeletedKept
    <3>2. CASE \E q \in Requests : Flow(q) = f /\ WillAdd(q, p)
      <4>1. PICK q \in Requests : Flow(q) = f /\ WillAdd(q, p) BY <3>2
      <4>. QED BY <1>2, <2>2, <4>1, OthersOwe
    <3>. QED BY <1>6, <2>1, <2>3, <3>1, <3>2 DEF FilesPending
  <2>4. FilesPending' BY <2>3 DEF FilesPending
  <2>5. HeadTree' = index'
    <3>1. log \in Seq(Commits) BY DEF TypeOK
    <3>2. Len(log') = Len(log) + 1 /\ log'[Len(log) + 1].tree = index
      BY <3>1 DEF Commit
    <3>3. Len(log) \in Nat BY <3>1
    <3>. QED BY <2>1, <3>2, <3>3 DEF HeadTree, TreeAt
  <2>6. IndexPending' BY <2>5 DEF IndexPending
  <2>. QED BY <1>4, <2>4, <2>6 DEF TreeInv
<1>. QED BY <1>5, <1>6 DEF TreeInv

\* RemoveFile and Unstage: only the files of a deleted flow change.
LEMMA DeletionKeeps ==
  ASSUME TypeOK, TreeInv, NEW r \in Requests, RemoveFile(r) \/ Unstage(r)
  PROVE  TreeInv'
<1>1. task[r] \in Tasks /\ task[r].stage \in Deleting
  BY DEF TypeOK, RemoveFile, Unstage, At, Deleting
<1>2. OnlyTask(r) /\ SameFlow(r)
  BY <1>1 DEF RemoveFile, Unstage, OnlyTask, SameFlow, Flow, TypeOK, Tasks
<1>3. task'[r].stage \in {"done", "commit", "remove", "unstage"}
  BY <1>1 DEF RemoveFile, Unstage, TypeOK, Tasks, Part, At
<1>4. Deleted(Flow(r)) /\ task[r].kind = "delete"
  BY <1>1 DEF TreeInv, KindsAgree, Deleted
<1>5. KindsAgree'
  BY <1>2, <1>3, <1>4, KindsKept DEF TreeInv
<1>6. CASE Failed
  BY <1>1, <1>2, <1>5, <1>6, FailedKept DEF TreeInv, At, Deleting
<1>7. CASE FilesPending /\ IndexPending
  <2>1. log' = log /\ HeadTree' = HeadTree
    BY DEF RemoveFile, Unstage, HeadTree, TreeAt
  <2>2. ~WillCommit(r) /\ \A p \in Parts : ~WillAdd(r, p)
    BY <1>1 DEF WillCommit, WillAdd, At, Deleting
  <2>3. ASSUME NEW f \in Flows \ {Flow(r)}
        PROVE  file'[f] = file[f] /\ index'[f] = index[f]
    BY <1>1 DEF RemoveFile, Unstage, TypeOK, Trees
  <2>4. ASSUME NEW f \in Flows, NEW p \in Parts, file'[f][p] # index'[f][p]
        PROVE  Deleted(f)' \/ \E q \in Requests : Flow(q)' = f /\ WillAdd(q, p)'
    <3>1. CASE Deleted(f) BY <1>2, <3>1, DeletedKept
    <3>2. CASE ~Deleted(f)
      <4>1. file[f][p] # index[f][p] BY <1>4, <2>3, <2>4, <3>2
      <4>2. PICK q \in Requests : Flow(q) = f /\ WillAdd(q, p)
        BY <1>7, <3>2, <4>1 DEF FilesPending
      <4>. QED BY <1>2, <2>2, <4>2, OthersOwe
    <3>. QED BY <3>1, <3>2
  <2>5. ASSUME NEW f \in Flows, NEW p \in Parts, index'[f][p] # HeadTree'[f][p]
        PROVE  Deleted(f)' \/ \E q \in Requests : WillCommit(q)'
    <3>1. CASE Deleted(f) BY <1>2, <3>1, DeletedKept
    <3>2. CASE ~Deleted(f)
      <4>1. index[f][p] # HeadTree[f][p] BY <1>4, <2>1, <2>3, <2>5, <3>2
      <4>2. PICK q \in Requests : WillCommit(q)
        BY <1>7, <3>2, <4>1 DEF IndexPending
      <4>. QED BY <1>2, <2>2, <4>2, OthersOwe
    <3>. QED BY <3>1, <3>2
  <2>6. FilesPending' BY <2>4 DEF FilesPending
  <2>7. IndexPending' BY <2>5 DEF IndexPending
  <2>. QED BY <1>5, <2>6, <2>7 DEF TreeInv
<1>. QED BY <1>6, <1>7 DEF TreeInv

\* Interrupt: the request has failed, and stays so.
LEMMA InterruptKeeps ==
  ASSUME TypeOK, TreeInv, NEW r \in Requests, Interrupt(r)
  PROVE  TreeInv'
<1>1. task[r] \in Tasks BY DEF TypeOK
<1>2. OnlyTask(r) /\ SameFlow(r) /\ task'[r].stage = "failed"
  BY <1>1 DEF Interrupt, OnlyTask, SameFlow, Flow, TypeOK, Tasks
<1>3. KindsAgree' BY <1>2, KindsKept DEF TreeInv, Deleting
<1>4. Failed' BY <1>2 DEF Failed, At
<1>. QED BY <1>3, <1>4 DEF TreeInv

\* Initially nothing is owed.
LEMMA TreeInit == Init => TreeInv
<1>. SUFFICES ASSUME Init PROVE TreeInv
  OBVIOUS
<1>1. \A r \in Requests : task[r] = Idle BY DEF Init
<1>2. KindsAgree
  <2>1. Idle.kind = "none" /\ Idle.stage = "idle" BY DEF Idle
  <2>. QED BY <1>1, <2>1 DEF KindsAgree, Deleting
<1>3. file = index /\ HeadTree = index
  <2>1. log = <<>> /\ Len(<<>>) = 0 BY DEF Init
  <2>2. HeadTree = [f \in Flows |-> Absent] BY <2>1 DEF HeadTree, TreeAt
  <2>. QED BY <2>2 DEF Init
<1>4. FilesPending /\ IndexPending BY <1>3 DEF FilesPending, IndexPending
<1>. QED BY <1>2, <1>4 DEF TreeInv

\* Each action keeps what is owed.
LEMMA TreeNext == ASSUME TypeOK, TreeInv, [Next]_vars PROVE TreeInv'
<1>1. ASSUME NEW r \in Requests, Create(r) \/ Update(r) \/ Delete(r) PROVE TreeInv'
  BY <1>1, ArriveKeeps, ContentTypes DEF Create, Update, Delete
<1>2. ASSUME NEW r \in Requests, Restore(r) PROVE TreeInv'
  <2>1. PICK f \in Flows, k \in 1 .. Len(log) :
          Arrive(r, "restore", f,
                 [row[f].content EXCEPT !["flow"] = log[k].tree[f]["flow"]])
    BY <1>2 DEF Restore
  <2>2. [row[f].content EXCEPT !["flow"] = log[k].tree[f]["flow"]] \in Files
    <3>1. log[k] \in Commits BY DEF TypeOK
    <3>2. log[k].tree[f] \in Files /\ row[f].content \in Files
      BY <3>1 DEF TypeOK, Trees, Commits
    <3>. QED BY <3>2 DEF Files
  <2>. QED BY <2>1, <2>2, ArriveKeeps
<1>3. ASSUME UNCHANGED vars PROVE TreeInv'
  BY <1>3 DEF vars, TreeInv, KindsAgree, FilesPending, IndexPending, Failed, At,
              Deleted, WillAdd, WillCommit, HeadTree, TreeAt, Flow, Part
<1>. QED
  BY <1>1, <1>2, <1>3, RowStepsKeep, WriteKeeps, AddKeeps, CommitKeeps,
     DeletionKeeps, InterruptKeeps DEF Next

\* With nobody being served nothing is owed.
LEMMA TreeAtRest == ASSUME TypeOK, TreeInv PROVE QuietTreeIsCommitted
<1>. SUFFICES ASSUME AtRest, ~Failed, NEW f \in Flows,
                     \A r \in Requests : Flow(r) = f => task[r].kind # "delete"
              PROVE  file[f] = HeadTree[f] /\ index[f] = HeadTree[f]
  BY DEF QuietTreeIsCommitted
<1>1. ~Deleted(f) BY DEF Deleted
<1>2. \A r \in Requests : ~WillCommit(r)
  BY DEF AtRest, Served, WillCommit, Serving, Capture, Saving
<1>3. \A r \in Requests, p \in Parts : ~WillAdd(r, p)
  BY <1>2 DEF WillCommit, WillAdd, At
<1>4. \A p \in Parts : file[f][p] = index[f][p] /\ index[f][p] = HeadTree[f][p]
  BY <1>1, <1>2, <1>3 DEF TreeInv, FilesPending, IndexPending
<1>5. file[f] \in Files /\ index[f] \in Files /\ HeadTree[f] \in Files
  <2>1. Len(log) \in 0 .. Len(log) BY DEF TypeOK
  <2>2. HeadTree \in Trees BY <2>1, TreeType DEF HeadTree
  <2>. QED BY <2>2 DEF TypeOK, Trees
<1>. QED BY <1>4, <1>5 DEF Files

\* However many captures overlap and in whatever order, once nothing is being
\* served and nothing failed, working tree, index and last commit agree on
\* every flow that was not deleted.
THEOREM TreeIsCommitted == Spec => []QuietTreeIsCommitted
<1>1. Init => TypeOK /\ TreeInv
  BY InitTypes, TreeInit
<1>2. TypeOK /\ TreeInv /\ [Next]_vars => (TypeOK /\ TreeInv)'
  BY NextTypes, TreeNext
<1>3. TypeOK /\ TreeInv => QuietTreeIsCommitted
  BY TreeAtRest
<1>. QED BY <1>1, <1>2, <1>3, PTL DEF Spec

-----------------------------------------------------------------------------
(***************************************************************************)
(* One capture at a time. While captures neither overlapped nor failed, at  *)
(* most one request is being served, every other flow is settled (row,      *)
(* files, index and last commit agree), and the flow of that request is as  *)
(* far as its stage says.                                                   *)
(***************************************************************************)
Full  == [Parts -> Texts]
Whole == Full \cup {Absent}

Settled(f) ==
  file[f] = row[f].content /\ index[f] = row[f].content /\ HeadTree[f] = row[f].content

\* The working tree, the index and the last commit are still the same.
Untouched(f) == index[f] = file[f] /\ HeadTree[f] = file[f] /\ file[f] \in Whole

Progress(r) ==
  LET f == Flow(r)
      c == task[r].content
      s == task[r].stage
      p == Part(r)
  IN  /\ s = "loaded"   => Settled(f) /\ p = "flow" /\ task[r].same
      /\ s # "loaded"   => row[f] = [content |-> c, by |-> r]
      /\ s \in {"loaded"} \cup Saving /\ task[r].kind # "delete" => c \in Full
      /\ task[r].kind = "delete" => c = Absent /\ s \notin Saving
      /\ s = "compare"  => /\ Untouched(f)
                           /\ p = "flow" => task[r].same
                           /\ p = "meta" => (task[r].same <=> file[f]["flow"] = c["flow"])
      /\ s = "write" /\ p = "meta" => file[f]["flow"] = c["flow"]
      /\ s = "add"      => /\ file[f] = c
                           /\ p = "meta" => index[f]["flow"] = c["flow"]
      /\ s \in Deleting => task[r].kind = "delete"
      /\ s = "remove"   => /\ p = "flow" => Untouched(f)
                           /\ p = "meta" => file[f]["flow"] = NoText /\ index[f]["flow"] = NoText
                           /\ p = "meta" => file[f]["meta"] = index[f]["meta"]
      /\ s = "unstage"  => /\ file[f]["flow"] = NoText
                           /\ p = "flow" => file[f]["meta"] = index[f]["meta"]
                           /\ p = "meta" => file[f] = Absent /\ index[f]["flow"] = NoText
      /\ s = "commit"   => file[f] = c /\ index[f] = c

OneByOne ==
  /\ \A q, r \in Served : q = r
  /\ \A r \in Served : Progress(r)
  /\ \A f \in Flows : row[f].content \in Whole
  /\ \A f \in Flows : (\A r \in Served : Flow(r) # f) => Settled(f)

SerialInv == Undisturbed => OneByOne

\* The flow files hold flow texts, everywhere.
FlowTexts == {c["flow"] : c \in Contents} \cup {NoText}

TextInv ==
  /\ \A f \in Flows : /\ row[f].content["flow"] \in FlowTexts
                      /\ file[f]["flow"] \in FlowTexts
                      /\ index[f]["flow"] \in FlowTexts
  /\ \A k \in 1 .. Len(log), f \in Flows : log[k].tree[f]["flow"] \in FlowTexts
  /\ \A r \in Requests : task[r].content["flow"] \in FlowTexts

\* The last version of a flow is the flow file of the last commit.
LastInv ==
  \A f \in Flows :
    HeadTree[f]["flow"] =
      IF Changes(f) = <<>> THEN NoText ELSE TreeAt(Changes(f)[Len(Changes(f))])[f]["flow"]

-----------------------------------------------------------------------------
(***************************************************************************)
(* How the history of a flow grows with the log. TreeIn and ChangesIn are   *)
(* TreeAt and Changes for any log, so that they can be compared before and  *)
(* after a commit.                                                          *)
(***************************************************************************)
TreeIn(l, k) == IF k = 0 THEN [f \in Flows |-> Absent] ELSE l[k].tree

SameText(l, f, k) == TreeIn(l, k)[f]["flow"] = TreeIn(l, k - 1)[f]["flow"]

ChangesIn(l, f) ==
  LET upto[k \in 0 .. Len(l)] ==
        IF k = 0 THEN <<>>
        ELSE IF SameText(l, f, k) THEN upto[k - 1] ELSE Append(upto[k - 1], k)
  IN  upto[Len(l)]

\* The recursion has a solution, and its values are indexes of commits.
LEMMA ChangesFold ==
  ASSUME NEW l \in Seq(Commits), NEW f \in Flows
  PROVE  \E g \in [0 .. Len(l) -> Seq(1 .. Len(l))] :
           /\ g[0] = <<>>
           /\ \A k \in 1 .. Len(l) :
                g[k] = IF SameText(l, f, k) THEN g[k - 1] ELSE Append(g[k - 1], k)
           /\ ChangesIn(l, f) = g[Len(l)]
<1> DEFINE len == Len(l)
           S   == Seq(1 .. Len(l))
           upto[k \in 0 .. Len(l)] ==
             IF k = 0 THEN <<>>
             ELSE IF SameText(l, f, k) THEN upto[k - 1] ELSE Append(upto[k - 1], k)
           step == [p \in (1 .. len) \X S |->
                      IF SameText(l, f, p[1]) THEN p[2] ELSE Append(p[2], p[1])]
<1>1. ChangesIn(l, f) = upto[Len(l)]
  BY DEF ChangesIn
<1>2. len \in Nat /\ <<>> \in S
  OBVIOUS
<1>3. step \in [(1 .. len) \X S -> S]
  <2>1. ASSUME NEW k \in 1 .. len, NEW s \in S
        PROVE  (IF SameText(l, f, k) THEN s ELSE Append(s, k)) \in S
    <3> DEFINE T == 1 .. len
    <3>1. k \in T /\ s \in Seq(T)
      OBVIOUS
    <3>2. Append(s, k) \in Seq(T)
      <4> HIDE DEF T, S, len
      <4> QED BY <3>1
    <3> QED BY <3>2
  <2> QED BY <2>1
<1>4. PICK g \in [0 .. len -> S] :
        g[0] = <<>> /\ \A k \in 1 .. len : g[k] = step[<<k, g[k - 1]>>]
  <2>1. HasFold(S, <<>>, len, step)
    <3> HIDE DEF step, len, S
    <3> QED BY <1>2, <1>3, FoldExists
  <2> QED BY <2>1 DEF HasFold
<1>5. ASSUME NEW k \in 1 .. len
      PROVE  g[k] = IF SameText(l, f, k) THEN g[k - 1] ELSE Append(g[k - 1], k)
  <2>1. k - 1 \in 0 .. len
    BY <1>2
  <2>2. <<k, g[k - 1]>> \in (1 .. len) \X S
    BY <2>1
  <2> QED BY <1>4, <2>2
<1>6. g = [k \in 0 .. Len(l) |->
             IF k = 0 THEN <<>>
             ELSE IF SameText(l, f, k) THEN g[k - 1] ELSE Append(g[k - 1], k)]
  <2> DEFINE rhs == [k \in 0 .. Len(l) |->
             IF k = 0 THEN <<>>
             ELSE IF SameText(l, f, k) THEN g[k - 1] ELSE Append(g[k - 1], k)]
  <2>1. \A k \in 0 .. len : k # 0 => k \in 1 .. len
    BY <1>2
  <2>2. \A k \in 0 .. len : g[k] = rhs[k]
    BY <1>4, <1>5, <2>1
  <2>3. g = [k \in 0 .. len |-> g[k]] /\ rhs = [k \in 0 .. len |-> rhs[k]]
    OBVIOUS
  <2> HIDE DEF rhs
  <2>4. g = rhs
    BY <2>2, <2>3
  <2> QED BY <2>4 DEF rhs
<1>7. upto = [k \in 0 .. Len(l) |->
                IF k = 0 THEN <<>>
                ELSE IF SameText(l, f, k) THEN upto[k - 1] ELSE Append(upto[k - 1], k)]
  BY <1>6
<1>8. ASSUME NEW k \in 1 .. len
      PROVE  upto[k] = IF SameText(l, f, k) THEN upto[k - 1] ELSE Append(upto[k - 1], k)
  <2>1. k \in 0 .. len /\ k # 0
    BY <1>2
  <2> HIDE DEF upto
  <2> QED BY <1>7, <2>1
<1> DEFINE Equal == {k \in Nat : k <= len => upto[k] = g[k]}
<1>9. Nat \subseteq Equal
  <2> HIDE DEF upto
  <2>1. 0 \in Equal
    <3>1. 0 \in 0 .. len
      BY <1>2
    <3> QED BY <1>4, <1>7, <3>1
  <2>2. ASSUME NEW k \in Nat, k \in Equal PROVE k + 1 \in Equal
    <3> SUFFICES ASSUME k + 1 <= len PROVE upto[k + 1] = g[k + 1]
      OBVIOUS
    <3>1. k + 1 \in 1 .. len /\ (k + 1) - 1 = k /\ k <= len
      BY <1>2
    <3>2. upto[k] = g[k]
      BY <2>2, <3>1
    <3> QED BY <1>5, <1>8, <3>1, <3>2
  <2> HIDE DEF Equal
  <2> QED BY <2>1, <2>2, SetInduction
<1>10. upto[Len(l)] = g[Len(l)]
  <2> HIDE DEF upto
  <2> QED BY <1>2, <1>9
<1> HIDE DEF upto
<1> QED BY <1>1, <1>4, <1>5, <1>10

\* A commit adds itself to the history of the flows whose flow file it changes.
LEMMA ChangesAppend ==
  ASSUME NEW l \in Seq(Commits), NEW c \in Commits, NEW f \in Flows
  PROVE  /\ ChangesIn(l, f) \in Seq(1 .. Len(l))
         /\ ChangesIn(Append(l, c), f) =
              IF c.tree[f]["flow"] = TreeIn(l, Len(l))[f]["flow"]
              THEN ChangesIn(l, f) ELSE Append(ChangesIn(l, f), Len(l) + 1)
<1> DEFINE n == Len(l)
           m == Append(l, c)
<1>1. n \in Nat /\ m \in Seq(Commits) /\ Len(m) = n + 1 /\ m[n + 1] = c
      /\ \A k \in 1 .. n : m[k] = l[k]
  OBVIOUS
<1>2. PICK g \in [0 .. n -> Seq(1 .. n)] :
        /\ g[0] = <<>>
        /\ \A k \in 1 .. n : g[k] = IF SameText(l, f, k) THEN g[k - 1] ELSE Append(g[k - 1], k)
        /\ ChangesIn(l, f) = g[n]
  BY ChangesFold
<1> HIDE DEF m, n
<1>3. PICK h \in [0 .. n + 1 -> Seq(1 .. n + 1)] :
        /\ h[0] = <<>>
        /\ \A k \in 1 .. n + 1 :
             h[k] = IF SameText(m, f, k) THEN h[k - 1] ELSE Append(h[k - 1], k)
        /\ ChangesIn(m, f) = h[n + 1]
  BY <1>1, ChangesFold, ZenonT(30)
<1>4. \A k \in 1 .. n : SameText(m, f, k) <=> SameText(l, f, k)
  <2>1. \A k \in 0 .. n : TreeIn(m, k) = TreeIn(l, k)
    BY <1>1, SMTT(30) DEF TreeIn
  <2>2. \A k \in 1 .. n : k \in 0 .. n /\ k - 1 \in 0 .. n
    BY <1>1
  <2> QED BY <2>1, <2>2 DEF SameText
<1>5. SameText(m, f, n + 1) <=> c.tree[f]["flow"] = TreeIn(l, n)[f]["flow"]
  BY <1>1 DEF SameText, TreeIn
<1> DEFINE Equal == {k \in Nat : k <= n => g[k] = h[k]}
<1>6. 0 \in Equal
  BY <1>2, <1>3
<1>7. ASSUME NEW k \in Nat, k \in Equal PROVE k + 1 \in Equal
  <2> SUFFICES ASSUME k + 1 <= n PROVE g[k + 1] = h[k + 1]
    OBVIOUS
  <2>1. k + 1 \in 1 .. n /\ k + 1 \in 1 .. n + 1 /\ (k + 1) - 1 = k /\ k <= n
    BY <1>1
  <2>2. g[k] = h[k]
    BY <1>7, <2>1
  <2>3. g[k + 1] = IF SameText(l, f, k + 1) THEN g[k] ELSE Append(g[k], k + 1)
    BY <1>2, <2>1
  <2>4. h[k + 1] = IF SameText(m, f, k + 1) THEN h[k] ELSE Append(h[k], k + 1)
    BY <1>3, <2>1
  <2> QED BY <1>4, <2>1, <2>2, <2>3, <2>4
<1>8. Nat \subseteq Equal
  <2> HIDE DEF Equal
  <2> QED BY <1>6, <1>7, SetInduction
<1>9. h[n] = g[n]
  BY <1>1, <1>8
<1>10. h[n + 1] = IF SameText(m, f, n + 1) THEN h[n] ELSE Append(h[n], n + 1)
  <2>1. n + 1 \in 1 .. n + 1 /\ (n + 1) - 1 = n
    BY <1>1
  <2> QED BY <1>3, <2>1
<1>11. ChangesIn(l, f) \in Seq(1 .. n)
  BY <1>1, <1>2
<1> QED BY <1>2, <1>3, <1>5, <1>9, <1>10, <1>11 DEF m, n

-----------------------------------------------------------------------------
\* Two pairs of files with the same files are equal.
LEMMA SameFiles ==
  ASSUME NEW c \in Files, NEW d \in Files, c["flow"] = d["flow"], c["meta"] = d["meta"]
  PROVE  c = d
BY DEF Files

\* A whole content without a flow file is absent.
LEMMA WholeTypes ==
  /\ Whole \subseteq Files
  /\ \A c \in Whole : c["flow"] = NoText <=> c = Absent
  /\ \A c \in Full : c["flow"] # NoText /\ c["meta"] # NoText
  /\ Contents \subseteq Full
<1>1. Absent["flow"] = NoText
  BY DEF Absent
<1> QED BY <1>1, ContentsAssumption, ContentTypes DEF Whole, Full, Files

\* The types of what a capture handles.
LEMMA StoreTypes ==
  ASSUME TypeOK, NEW f \in Flows
  PROVE  /\ file[f] \in Files /\ index[f] \in Files /\ HeadTree[f] \in Files
         /\ row[f].content \in Files
         /\ log \in Seq(Commits) /\ Len(log) \in Nat
<1>1. Len(log) \in 0 .. Len(log) /\ log \in Seq(Commits)
  BY DEF TypeOK
<1>2. HeadTree \in Trees
  BY <1>1, TreeType DEF HeadTree
<1> QED BY <1>1, <1>2 DEF TypeOK, Trees

\* A disturbance stays.
LEMMA UndisturbedBefore ==
  ASSUME TypeOK, NEW r \in Requests, OnlyTask(r), ~At(r, "failed"),
         overlapped => overlapped', Undisturbed'
  PROVE  Undisturbed
BY FailedKept DEF Undisturbed

\* A step of the one request that is being served.
LEMMA ServedStep ==
  ASSUME TypeOK, OneByOne, NEW r \in Served, OnlyTask(r), SameFlow(r),
         \A f \in Flows \ {Flow(r)} :
           /\ row'[f] = row[f] /\ file'[f] = file[f] /\ index'[f] = index[f]
           /\ HeadTree'[f] = HeadTree[f],
         row'[Flow(r)].content \in Whole,
         task'[r].stage \in Serving => Progress(r)',
         task'[r].stage \notin Serving => Settled(Flow(r))'
  PROVE  OneByOne'
<1>1. \A q \in Requests \ {r} : q \notin Served
  BY DEF OneByOne
<1>2. \A q \in Requests \ {r} : task'[q].stage \notin Serving
  BY <1>1 DEF OnlyTask, Served
<1>3. r \in Requests /\ Flow(r) \in Flows /\ Flow(r)' = Flow(r)
  BY DEF Served, SameFlow, TypeOK, Tasks, Flow
<1>4. \A q \in Served' : q = r /\ task'[r].stage \in Serving
  BY <1>2 DEF Served
<1>5. \A f \in Flows : row'[f].content \in Whole
  BY <1>3 DEF OneByOne
<1>6. ASSUME NEW f \in Flows, \A q \in Served' : Flow(q)' # f PROVE Settled(f)'
  <2>1. CASE f = Flow(r)
    <3>1. r \notin Served'
      BY <1>3, <1>6, <2>1
    <3>2. task'[r].stage \notin Serving
      BY <1>3, <3>1 DEF Served
    <3> QED BY <2>1, <3>2, <1>3 DEF Settled
  <2>2. CASE f # Flow(r)
    <3>1. Settled(f)
      BY <1>1, <2>2 DEF OneByOne, Served
    <3> QED BY <2>2, <3>1 DEF Settled
  <2> QED BY <2>1, <2>2
<1>7. \A q \in Served' : Progress(q)'
  BY <1>4
<1>8. \A q, p \in Served' : q = p
  BY <1>4
<1> QED BY <1>5, <1>6, <1>7, <1>8 DEF OneByOne

\* An arrival: with nobody being served, the flow is settled.
LEMMA ArriveSerial ==
  ASSUME TypeOK, SerialInv, NEW r \in Requests, NEW f \in Flows, NEW c \in Files,
         NEW kind \in {"create", "update", "restore", "delete"}, Arrive(r, kind, f, c),
         IF kind = "delete" THEN c = Absent ELSE c \in Full
  PROVE  SerialInv'
<1> SUFFICES ASSUME Undisturbed' PROVE OneByOne'
  BY DEF SerialInv
<1>1. OnlyTask(r) /\ At(r, "idle")
  BY DEF Arrive, OnlyTask, TypeOK
<1>2. Undisturbed
  BY <1>1, UndisturbedBefore DEF Arrive, At
<1>3. OneByOne /\ Served = {}
  BY <1>2 DEF SerialInv, Arrive, Undisturbed, TypeOK
<1>4. /\ UNCHANGED <<row, file, index, log>> /\ HeadTree' = HeadTree
      /\ \A g \in Flows : Settled(g)
  BY <1>3 DEF Arrive, HeadTree, TreeAt, OneByOne
<1>5. task'[r] = [Idle EXCEPT !.kind = kind, !.flow = f, !.content = c, !.stage = "loaded"]
  BY DEF Arrive, TypeOK
<1>6. /\ task'[r].stage = "loaded" /\ task'[r].part = "flow" /\ task'[r].same
      /\ task'[r].content = c /\ task'[r].kind = kind /\ task'[r].flow = f
  BY <1>5 DEF Idle
<1>7. Served' = {r}
  <2>1. \A q \in Requests \ {r} : task'[q].stage \notin Serving
    BY <1>1, <1>3 DEF OnlyTask, Served
  <2>2. "loaded" \in Serving
    BY DEF Serving
  <2> QED BY <1>6, <2>1, <2>2 DEF Served
<1>8. \A g \in Flows : Settled(g)'
  BY <1>4 DEF Settled
<1>9. Progress(r)'
  BY <1>6, <1>8 DEF Progress, Flow, Part, Saving, Deleting
<1>10. \A g \in Flows : row'[g].content \in Whole
  BY <1>3, <1>4 DEF OneByOne
<1> QED BY <1>7, <1>8, <1>9, <1>10 DEF OneByOne

\* What is known of a request that is being served.
LEMMA ServedFacts ==
  ASSUME TypeOK, SerialInv, NEW r \in Requests, task[r].stage \in Serving,
         OnlyTask(r), overlapped' = overlapped, Undisturbed'
  PROVE  /\ OneByOne /\ r \in Served /\ Progress(r) /\ task[r] \in Tasks
         /\ Flow(r) \in Flows /\ Part(r) \in Parts /\ task[r].content \in Files
         /\ task'[r].stage # "failed"
<1>1. task[r].stage # "failed"
  BY DEF Serving, Capture, Saving, Deleting
<1>2. Undisturbed
  BY <1>1, UndisturbedBefore DEF At
<1>3. task'[r].stage # "failed"
  BY DEF Undisturbed, Failed, At
<1> QED BY <1>2, <1>3 DEF SerialInv, OneByOne, Served, TypeOK, Tasks, Flow, Part

\* The write of the row.
LEMMA RowSerial ==
  ASSUME TypeOK, SerialInv, NEW r \in Requests, SaveRow(r) \/ DeleteRow(r)
  PROVE  SerialInv'
<1> SUFFICES ASSUME Undisturbed' PROVE OneByOne'
  BY DEF SerialInv
<1> DEFINE f == Flow(r)
           c == task[r].content
<1>1. /\ OnlyTask(r) /\ task[r].stage = "loaded" /\ overlapped' = overlapped
      /\ task[r].stage \in Serving
  BY DEF SaveRow, DeleteRow, OnlyTask, TypeOK, At, Serving
<1>2. /\ OneByOne /\ r \in Served /\ Progress(r) /\ task[r] \in Tasks
      /\ f \in Flows /\ c \in Files
  BY <1>1, ServedFacts
<1>3. /\ SameFlow(r) /\ task'[r].content = c /\ task'[r].part = task[r].part
      /\ task'[r].same = task[r].same
      /\ task'[r].stage = IF task[r].kind = "delete" THEN "remove" ELSE "compare"
  BY <1>2 DEF SaveRow, DeleteRow, SameFlow, Flow, TypeOK, Tasks
<1>4. Settled(f) /\ Part(r) = "flow" /\ task[r].same
  BY <1>1, <1>2 DEF Progress
<1>5. /\ task[r].kind = "delete" => c = Absent
      /\ task[r].kind # "delete" => c \in Full
  BY <1>1, <1>2 DEF Progress
<1>6. row' = [row EXCEPT ![f] = [content |-> c, by |-> r]]
  BY <1>1, <1>5 DEF SaveRow, DeleteRow
<1>7. row'[f] = [content |-> c, by |-> r] /\ \A g \in Flows \ {f} : row'[g] = row[g]
  BY <1>2, <1>6 DEF TypeOK
<1>8. UNCHANGED <<file, index, log>> /\ HeadTree' = HeadTree
  BY DEF SaveRow, DeleteRow, HeadTree, TreeAt
<1>9. Untouched(f)'
  BY <1>2, <1>3, <1>4, <1>8 DEF Untouched, Settled, OneByOne, SameFlow
<1>10. /\ Flow(r)' = f /\ Part(r)' = "flow"
  BY <1>3, <1>4 DEF SameFlow, Part
<1>11. Progress(r)'
  BY <1>3, <1>4, <1>5, <1>7, <1>9, <1>10 DEF Progress, SameFlow, Saving, Deleting
<1>12. row'[f].content \in Whole
  BY <1>5, <1>7 DEF Whole
<1>13. task'[r].stage \in Serving
  BY <1>3 DEF Serving, Capture, Saving, Deleting
<1> QED BY <1>1, <1>2, <1>3, <1>7, <1>8, <1>11, <1>12, <1>13, ServedStep

\* The comparison of both files: without a difference the flow is settled.
LEMMA CompareSerial ==
  ASSUME TypeOK, SerialInv, NEW r \in Requests, CompareFile(r)
  PROVE  SerialInv'
<1> SUFFICES ASSUME Undisturbed' PROVE OneByOne'
  BY DEF SerialInv
<1> DEFINE f == Flow(r)
           c == task[r].content
           same == task[r].same /\ file[f][Part(r)] = c[Part(r)]
<1>1. /\ OnlyTask(r) /\ task[r].stage = "compare" /\ overlapped' = overlapped
      /\ task[r].stage \in Serving
  BY DEF CompareFile, OnlyTask, TypeOK, At, Serving, Capture, Saving
<1>2. /\ OneByOne /\ r \in Served /\ Progress(r) /\ task[r] \in Tasks
      /\ f \in Flows /\ c \in Files /\ Part(r) \in Parts
  BY <1>1, ServedFacts
<1>3. /\ SameFlow(r) /\ task'[r].content = c
      /\ task'[r].part = IF Part(r) = "flow" THEN "meta" ELSE "flow"
      /\ task'[r].same = same
      /\ task'[r].stage = IF Part(r) = "flow" THEN "compare" ELSE IF same THEN "done" ELSE "write"
  BY <1>1, <1>2 DEF CompareFile, SameFlow, Flow, TypeOK, Tasks
<1>4. UNCHANGED <<row, file, index, log>> /\ HeadTree' = HeadTree
  BY DEF CompareFile, HeadTree, TreeAt
<1>5. /\ row[f] = [content |-> c, by |-> r] /\ Untouched(f) /\ task[r].kind # "delete"
      /\ c \in Full
      /\ Part(r) = "flow" => task[r].same
      /\ Part(r) = "meta" => (task[r].same <=> file[f]["flow"] = c["flow"])
  BY <1>1, <1>2 DEF Progress, Saving
<1>6. Untouched(f)' /\ Flow(r)' = f /\ row'[f] = row[f]
  BY <1>3, <1>4, <1>5 DEF Untouched, SameFlow
<1>7. ASSUME task'[r].stage \in Serving PROVE Progress(r)'
  <2>1. CASE Part(r) = "flow"
    BY <1>3, <1>4, <1>5, <1>6, <2>1 DEF Progress, SameFlow, Part, Saving, Deleting
  <2>2. CASE Part(r) = "meta"
    <3>1. task'[r].stage = "write" /\ task'[r].part = "flow"
      BY <1>3, <1>7, <2>2 DEF Serving, Capture, Saving, Deleting
    <3> QED BY <1>3, <1>5, <1>6, <3>1 DEF Progress, SameFlow, Part, Saving, Deleting
  <2> QED BY <1>2, <2>1, <2>2
<1>8. ASSUME task'[r].stage \notin Serving PROVE Settled(f)'
  <2>1. Part(r) = "meta" /\ same
    BY <1>2, <1>3, <1>8 DEF Serving, Capture, Saving
  <2>2. file[f]["flow"] = c["flow"] /\ file[f]["meta"] = c["meta"]
    BY <1>5, <2>1
  <2>3. file[f] = c
    BY <1>2, <2>2, SameFiles, StoreTypes
  <2> QED BY <1>4, <1>5, <1>6, <2>3 DEF Settled, Untouched
<1>9. row'[f].content \in Whole
  BY <1>5, <1>6 DEF Whole
<1> QED BY <1>1, <1>2, <1>3, <1>4, <1>7, <1>8, <1>9, ServedStep

\* The write of the two files: then they are the content.
LEMMA WriteSerial ==
  ASSUME TypeOK, SerialInv, NEW r \in Requests, WriteFile(r)
  PROVE  SerialInv'
<1> SUFFICES ASSUME Undisturbed' PROVE OneByOne'
  BY DEF SerialInv
<1> DEFINE f == Flow(r)
           c == task[r].content
<1>1. /\ OnlyTask(r) /\ task[r].stage = "write" /\ overlapped' = overlapped
      /\ task[r].stage \in Serving
  BY DEF WriteFile, Onward, OnlyTask, TypeOK, At, Serving, Capture, Saving
<1>2. /\ OneByOne /\ r \in Served /\ Progress(r) /\ task[r] \in Tasks
      /\ f \in Flows /\ c \in Files /\ Part(r) \in Parts
  BY <1>1, ServedFacts
<1>3. /\ SameFlow(r) /\ task'[r].content = c
      /\ task'[r].part = IF Part(r) = "flow" THEN "meta" ELSE "flow"
      /\ task'[r].stage = IF Part(r) = "flow" THEN "write" ELSE "add"
  BY <1>1, <1>2 DEF WriteFile, Onward, SameFlow, Flow, Part, TypeOK, Tasks
<1>4. UNCHANGED <<row, index, log>> /\ HeadTree' = HeadTree
  BY DEF WriteFile, HeadTree, TreeAt
<1>5. /\ file'[f][Part(r)] = c[Part(r)]
      /\ \A q \in Parts \ {Part(r)} : file'[f][q] = file[f][q]
      /\ \A g \in Flows \ {f} : file'[g] = file[g]
  <2>1. file \in Trees /\ file' = [file EXCEPT ![f][Part(r)] = c[Part(r)]]
    BY DEF WriteFile, TypeOK
  <2> HIDE DEF f
  <2>2. /\ file'[f] = [file[f] EXCEPT ![Part(r)] = c[Part(r)]]
       /\ \A g \in Flows \ {f} : file'[g] = file[g]
    BY <1>2, <2>1 DEF Trees
  <2>3. file[f] \in [Parts -> Texts \cup {NoText}]
    BY <1>2, <2>1 DEF Trees, Files
  <2> QED BY <1>2, <2>2, <2>3
<1>6. file'[f] \in Files
  BY <1>2, NextTypes DEF Next, TypeOK, Trees
<1>7. /\ row[f] = [content |-> c, by |-> r] /\ c \in Full /\ task[r].kind # "delete"
      /\ Part(r) = "meta" => file[f]["flow"] = c["flow"]
  BY <1>1, <1>2 DEF Progress, Saving
<1>8. Part(r) = "meta" => file'[f] = c
  BY <1>2, <1>5, <1>6, <1>7, SameFiles
<1>9. Flow(r)' = f /\ row'[f] = row[f]
  BY <1>3, <1>4 DEF SameFlow
<1>10. Progress(r)'
  <2>1. CASE Part(r) = "flow"
    BY <1>3, <1>5, <1>7, <1>9, <2>1 DEF Progress, SameFlow, Part, Saving, Deleting
  <2>2. CASE Part(r) = "meta"
    BY <1>3, <1>7, <1>8, <1>9, <2>2 DEF Progress, SameFlow, Part, Saving, Deleting
  <2> QED BY <1>2, <2>1, <2>2
<1>11. row'[f].content \in Whole
  BY <1>7, <1>9 DEF Whole
<1>12. task'[r].stage \in Serving
  BY <1>3 DEF Serving, Capture, Saving
<1> QED BY <1>1, <1>2, <1>3, <1>4, <1>5, <1>10, <1>11, <1>12, ServedStep

\* The staging of the two files.
LEMMA AddSerial ==
  ASSUME TypeOK, SerialInv, NEW r \in Requests, Add(r)
  PROVE  SerialInv'
<1> SUFFICES ASSUME Undisturbed' PROVE OneByOne'
  BY DEF SerialInv
<1> DEFINE f == Flow(r)
           c == task[r].content
<1>1. /\ OnlyTask(r) /\ task[r].stage = "add" /\ overlapped' = overlapped
      /\ task[r].stage \in Serving
  BY DEF Add, Onward, OnlyTask, TypeOK, At, Serving, Capture, Saving
<1>2. /\ OneByOne /\ r \in Served /\ Progress(r) /\ task[r] \in Tasks
      /\ f \in Flows /\ c \in Files /\ Part(r) \in Parts /\ task'[r].stage # "failed"
  BY <1>1, ServedFacts
<1>3. file[f][Part(r)] # NoText
  BY <1>2 DEF Add, TypeOK, Tasks
<1>4. /\ SameFlow(r) /\ task'[r].content = c
      /\ task'[r].part = IF Part(r) = "flow" THEN "meta" ELSE "flow"
      /\ task'[r].stage = IF Part(r) = "flow" THEN "add" ELSE "commit"
  BY <1>1, <1>2, <1>3 DEF Add, Onward, SameFlow, Flow, Part, TypeOK, Tasks
<1>5. UNCHANGED <<row, file, log>> /\ HeadTree' = HeadTree
  BY DEF Add, HeadTree, TreeAt
<1>6. /\ index'[f][Part(r)] = file[f][Part(r)]
      /\ \A q \in Parts \ {Part(r)} : index'[f][q] = index[f][q]
      /\ \A g \in Flows \ {f} : index'[g] = index[g]
  <2>1. index \in Trees /\ index' = [index EXCEPT ![f][Part(r)] = file[f][Part(r)]]
    BY <1>3 DEF Add, TypeOK
  <2> HIDE DEF f
  <2>2. /\ index'[f] = [index[f] EXCEPT ![Part(r)] = file[f][Part(r)]]
       /\ \A g \in Flows \ {f} : index'[g] = index[g]
    BY <1>2, <2>1 DEF Trees
  <2>3. index[f] \in [Parts -> Texts \cup {NoText}]
    BY <1>2, <2>1 DEF Trees, Files
  <2> QED BY <1>2, <2>2, <2>3
<1>7. index'[f] \in Files
  BY <1>2, NextTypes DEF Next, TypeOK, Trees
<1>8. /\ row[f] = [content |-> c, by |-> r] /\ c \in Full /\ task[r].kind # "delete"
      /\ file[f] = c
      /\ Part(r) = "meta" => index[f]["flow"] = c["flow"]
  BY <1>1, <1>2 DEF Progress, Saving
<1>9. Part(r) = "meta" => index'[f] = c
  BY <1>2, <1>6, <1>7, <1>8, SameFiles
<1>10. Flow(r)' = f /\ row'[f] = row[f]
  BY <1>4, <1>5 DEF SameFlow
<1>11. Progress(r)'
  <2>1. CASE Part(r) = "flow"
    BY <1>4, <1>5, <1>6, <1>8, <1>10, <2>1 DEF Progress, SameFlow, Part, Saving, Deleting
  <2>2. CASE Part(r) = "meta"
    BY <1>4, <1>5, <1>8, <1>9, <1>10, <2>2 DEF Progress, SameFlow, Part, Saving, Deleting
  <2> QED BY <1>2, <2>1, <2>2
<1>12. row'[f].content \in Whole
  BY <1>8, <1>10 DEF Whole
<1>13. task'[r].stage \in Serving
  BY <1>4 DEF Serving, Capture, Saving
<1> QED BY <1>1, <1>2, <1>4, <1>5, <1>6, <1>11, <1>12, <1>13, ServedStep

\* The last tree after a commit.
LEMMA CommitHead ==
  ASSUME TypeOK, NEW r \in Requests, Commit(r)
  PROVE  /\ HeadTree' = index
         /\ log' = Append(log, [tree |-> index, flow |-> Flow(r), author |-> r])
         /\ [tree |-> index, flow |-> Flow(r), author |-> r] \in Commits
         /\ Len(log') = Len(log) + 1
         /\ \A k \in 0 .. Len(log) : TreeAt(k)' = TreeAt(k)
         /\ \A k \in 1 .. Len(log) : log'[k] = log[k]
         /\ log'[Len(log) + 1] = [tree |-> index, flow |-> Flow(r), author |-> r]
         /\ log'[Len(log) + 1].tree = index /\ log'[Len(log) + 1].author = r
<1> DEFINE new == [tree |-> index, flow |-> Flow(r), author |-> r]
<1>1. log \in Seq(Commits) /\ Len(log) \in Nat /\ log' = Append(log, new)
  BY DEF Commit, TypeOK
<1>2. new \in Commits
  BY DEF TypeOK, Tasks, Commits, Flow
<1>3. /\ Len(log') = Len(log) + 1 /\ log'[Len(log) + 1] = new
      /\ \A k \in 1 .. Len(log) : log'[k] = log[k]
  <2> HIDE DEF new
  <2> QED BY <1>1, <1>2
<1>4. HeadTree' = index /\ new.tree = index /\ new.author = r
  BY <1>1, <1>3 DEF HeadTree, TreeAt
<1>5. \A k \in 0 .. Len(log) : TreeAt(k)' = TreeAt(k)
  BY <1>1, <1>3 DEF TreeAt
<1> QED BY <1>1, <1>2, <1>3, <1>4, <1>5

\* The commit settles the flow.
LEMMA CommitSerial ==
  ASSUME TypeOK, SerialInv, NEW r \in Requests, Commit(r)
  PROVE  SerialInv'
<1> SUFFICES ASSUME Undisturbed' PROVE OneByOne'
  BY DEF SerialInv
<1> DEFINE f == Flow(r)
           c == task[r].content
<1>1. /\ OnlyTask(r) /\ task[r].stage = "commit" /\ overlapped' = overlapped
      /\ task[r].stage \in Serving
  BY DEF Commit, OnlyTask, TypeOK, At, Serving, Capture
<1>2. /\ OneByOne /\ r \in Served /\ Progress(r) /\ task[r] \in Tasks
      /\ f \in Flows /\ c \in Files
  BY <1>1, ServedFacts
<1>3. SameFlow(r) /\ task'[r].stage = "done"
  BY <1>1, <1>2 DEF Commit, SameFlow, Flow, TypeOK, Tasks
<1>4. UNCHANGED <<row, file, index>> /\ HeadTree' = index
  BY CommitHead DEF Commit
<1>5. \A g \in Flows \ {f} : HeadTree'[g] = HeadTree[g]
  <2> SUFFICES ASSUME NEW g \in Flows \ {f} PROVE Settled(g)
    BY <1>4 DEF Settled
  <2> QED BY <1>2 DEF OneByOne
<1>6. row[f].content = c /\ file[f] = c /\ index[f] = c
  BY <1>1, <1>2 DEF Progress
<1>7. Settled(f)'
  BY <1>3, <1>4, <1>6 DEF Settled, SameFlow
<1>8. row'[f].content \in Whole
  BY <1>2, <1>4 DEF OneByOne
<1>9. task'[r].stage \notin Serving
  BY <1>3 DEF Serving, Capture, Saving, Deleting
<1> QED BY <1>1, <1>2, <1>3, <1>4, <1>5, <1>7, <1>8, <1>9, ServedStep

\* The removal of the two files from the working tree.
LEMMA RemoveSerial ==
  ASSUME TypeOK, SerialInv, NEW r \in Requests, RemoveFile(r)
  PROVE  SerialInv'
<1> SUFFICES ASSUME Undisturbed' PROVE OneByOne'
  BY DEF SerialInv
<1> DEFINE f == Flow(r)
           gone == file[f][Part(r)] = NoText
<1>1. /\ OnlyTask(r) /\ task[r].stage = "remove" /\ overlapped' = overlapped
      /\ task[r].stage \in Serving
  BY DEF RemoveFile, OnlyTask, TypeOK, At, Serving, Capture, Deleting
<1>2. /\ OneByOne /\ r \in Served /\ Progress(r) /\ task[r] \in Tasks
      /\ f \in Flows /\ Part(r) \in Parts
  BY <1>1, ServedFacts
<1>3. /\ SameFlow(r) /\ task'[r].content = task[r].content
      /\ task'[r].part = IF gone THEN "flow" ELSE Part(r)
      /\ task'[r].stage = IF ~gone THEN "unstage" ELSE IF Part(r) = "flow" THEN "done" ELSE "commit"
  BY <1>1, <1>2 DEF RemoveFile, SameFlow, Flow, Part, TypeOK, Tasks
<1>4. UNCHANGED <<row, index, log>> /\ HeadTree' = HeadTree
  BY DEF RemoveFile, HeadTree, TreeAt
<1>5. /\ file'[f][Part(r)] = NoText
      /\ \A q \in Parts \ {Part(r)} : file'[f][q] = file[f][q]
      /\ \A g \in Flows \ {f} : file'[g] = file[g]
  <2>1. CASE gone
    BY <2>1 DEF RemoveFile
  <2>2. CASE ~gone
    <3>1. file \in Trees /\ file' = [file EXCEPT ![f][Part(r)] = NoText]
      BY <2>2 DEF RemoveFile, TypeOK
    <3> HIDE DEF f
    <3>2. /\ file'[f] = [file[f] EXCEPT ![Part(r)] = NoText]
         /\ \A g \in Flows \ {f} : file'[g] = file[g]
      BY <1>2, <3>1 DEF Trees
    <3>3. file[f] \in [Parts -> Texts \cup {NoText}]
      BY <1>2, <3>1 DEF Trees, Files
    <3> QED BY <1>2, <3>2, <3>3
  <2> QED BY <2>1, <2>2
<1>6. file'[f] \in Files /\ index[f] \in Files
  BY <1>2, NextTypes DEF Next, TypeOK, Trees
<1>7. /\ row[f] = [content |-> Absent, by |-> r] /\ task[r].content = Absent
      /\ task[r].kind = "delete"
      /\ Part(r) = "flow" => Untouched(f)
      /\ Part(r) = "meta" => /\ file[f]["flow"] = NoText /\ index[f]["flow"] = NoText
                             /\ file[f]["meta"] = index[f]["meta"]
  BY <1>1, <1>2 DEF Progress, Deleting
<1>8. Flow(r)' = f /\ row'[f] = row[f]
  BY <1>3, <1>4 DEF SameFlow
<1>9. Absent \in Files /\ Absent["flow"] = NoText /\ Absent["meta"] = NoText
  BY ContentTypes DEF Absent
<1>10. ASSUME task'[r].stage \in Serving PROVE Progress(r)'
  <2>1. CASE ~gone /\ Part(r) = "flow"
    BY <1>3, <1>4, <1>5, <1>7, <1>8, <2>1 DEF Progress, SameFlow, Part, Saving, Deleting, Untouched
  <2>2. CASE ~gone /\ Part(r) = "meta"
    <3>1. file'[f] = Absent
      BY <1>5, <1>6, <1>7, <1>9, <2>2, SameFiles
    <3> QED BY <1>3, <1>4, <1>7, <1>8, <1>9, <2>2, <3>1
            DEF Progress, SameFlow, Part, Saving, Deleting
  <2>3. CASE gone /\ Part(r) = "meta"
    <3>1. file'[f] = Absent
      BY <1>5, <1>6, <1>7, <1>9, <2>3, SameFiles
    <3>2. index[f] = Absent
      BY <1>6, <1>7, <1>9, <2>3, SameFiles
    <3> QED BY <1>3, <1>4, <1>7, <1>8, <2>3, <3>1, <3>2
            DEF Progress, SameFlow, Part, Saving, Deleting
  <2>4. CASE gone /\ Part(r) = "flow"
    <3>1. task'[r].stage = "done"
      BY <1>3, <2>4
    <3> QED BY <1>10, <3>1 DEF Serving, Capture, Saving, Deleting
  <2> QED BY <1>2, <2>1, <2>2, <2>3, <2>4
<1>11. ASSUME task'[r].stage \notin Serving PROVE Settled(f)'
  <2>1. gone /\ Part(r) = "flow"
    BY <1>3, <1>11 DEF Serving, Capture, Saving, Deleting
  <2>2. file[f] = Absent
    BY <1>7, <2>1, WholeTypes DEF Untouched
  <2>3. file' = file
    BY <2>1 DEF RemoveFile
  <2> QED BY <1>4, <1>7, <1>8, <2>2, <2>1, <2>3 DEF Settled, Untouched
<1>12. row'[f].content \in Whole
  BY <1>7, <1>8 DEF Whole
<1> QED BY <1>1, <1>2, <1>3, <1>4, <1>5, <1>10, <1>11, <1>12, ServedStep

\* Their removal from the index.
LEMMA UnstageSerial ==
  ASSUME TypeOK, SerialInv, NEW r \in Requests, Unstage(r)
  PROVE  SerialInv'
<1> SUFFICES ASSUME Undisturbed' PROVE OneByOne'
  BY DEF SerialInv
<1> DEFINE f == Flow(r)
<1>1. /\ OnlyTask(r) /\ task[r].stage = "unstage" /\ overlapped' = overlapped
      /\ task[r].stage \in Serving
  BY DEF Unstage, OnlyTask, TypeOK, At, Serving, Capture, Deleting
<1>2. /\ OneByOne /\ r \in Served /\ Progress(r) /\ task[r] \in Tasks
      /\ f \in Flows /\ Part(r) \in Parts
  BY <1>1, ServedFacts
<1>3. /\ SameFlow(r) /\ task'[r].content = task[r].content
      /\ task'[r].part = IF Part(r) = "flow" THEN "meta" ELSE "flow"
      /\ task'[r].stage = IF Part(r) = "flow" THEN "remove" ELSE "commit"
  BY <1>1, <1>2 DEF Unstage, SameFlow, Flow, Part, TypeOK, Tasks
<1>4. UNCHANGED <<row, file, log>> /\ HeadTree' = HeadTree
  BY DEF Unstage, HeadTree, TreeAt
<1>5. /\ index'[f][Part(r)] = NoText
      /\ \A q \in Parts \ {Part(r)} : index'[f][q] = index[f][q]
      /\ \A g \in Flows \ {f} : index'[g] = index[g]
  <2>1. index \in Trees /\ index' = [index EXCEPT ![f][Part(r)] = NoText]
    BY DEF Unstage, TypeOK
  <2> HIDE DEF f
  <2>2. /\ index'[f] = [index[f] EXCEPT ![Part(r)] = NoText]
       /\ \A g \in Flows \ {f} : index'[g] = index[g]
    BY <1>2, <2>1 DEF Trees
  <2>3. index[f] \in [Parts -> Texts \cup {NoText}]
    BY <1>2, <2>1 DEF Trees, Files
  <2> QED BY <1>2, <2>2, <2>3
<1>6. index'[f] \in Files
  BY <1>2, NextTypes DEF Next, TypeOK, Trees
<1>7. /\ row[f] = [content |-> Absent, by |-> r] /\ task[r].content = Absent
      /\ task[r].kind = "delete" /\ file[f]["flow"] = NoText
      /\ Part(r) = "flow" => file[f]["meta"] = index[f]["meta"]
      /\ Part(r) = "meta" => file[f] = Absent /\ index[f]["flow"] = NoText
  BY <1>1, <1>2 DEF Progress, Deleting
<1>8. Flow(r)' = f /\ row'[f] = row[f]
  BY <1>3, <1>4 DEF SameFlow
<1>9. Absent \in Files /\ Absent["flow"] = NoText /\ Absent["meta"] = NoText
  BY ContentTypes DEF Absent
<1>10. Progress(r)'
  <2>1. CASE Part(r) = "flow"
    BY <1>3, <1>4, <1>5, <1>7, <1>8, <2>1 DEF Progress, SameFlow, Part, Saving, Deleting
  <2>2. CASE Part(r) = "meta"
    <3>1. index'[f] = Absent
      BY <1>5, <1>6, <1>7, <1>9, <2>2, SameFiles
    <3> QED BY <1>3, <1>4, <1>7, <1>8, <2>2, <3>1 DEF Progress, SameFlow, Part, Saving, Deleting
  <2> QED BY <1>2, <2>1, <2>2
<1>11. row'[f].content \in Whole
  BY <1>7, <1>8 DEF Whole
<1>12. task'[r].stage \in Serving
  BY <1>3 DEF Serving, Capture, Deleting
<1> QED BY <1>1, <1>2, <1>3, <1>4, <1>5, <1>10, <1>11, <1>12, ServedStep

\* Arrivals bring a whole content, or nothing for a deletion.
LEMMA ArrivalsSerial ==
  ASSUME TypeOK, SerialInv, NEW r \in Requests, Create(r) \/ Update(r) \/ Restore(r) \/ Delete(r)
  PROVE  SerialInv'
<1>1. CASE Create(r)
  BY <1>1, ArriveSerial, WholeTypes, ContentTypes DEF Create
<1>2. CASE Update(r)
  BY <1>2, ArriveSerial, WholeTypes, ContentTypes DEF Update
<1>3. CASE Delete(r)
  BY <1>3, ArriveSerial, ContentTypes DEF Delete
<1>4. CASE Restore(r)
  <2> SUFFICES ASSUME Undisturbed' PROVE SerialInv'
    BY DEF SerialInv
  <2>1. PICK f \in Flows, k \in 1 .. Len(log) :
          /\ row[f].content # Absent
          /\ log[k].tree[f]["flow"] # NoText
          /\ Arrive(r, "restore", f,
                    [row[f].content EXCEPT !["flow"] = log[k].tree[f]["flow"]])
    BY <1>4 DEF Restore
  <2>2. Undisturbed
    <3>1. OnlyTask(r) /\ At(r, "idle") /\ (overlapped => overlapped')
      BY <2>1 DEF Arrive, OnlyTask, TypeOK
    <3> QED BY <3>1, UndisturbedBefore DEF At
  <2>3. row[f].content \in Full
    BY <2>1, <2>2 DEF SerialInv, OneByOne, Whole
  <2>4. log[k].tree[f]["flow"] \in Texts
    <3>1. log[k] \in Commits
      BY <2>1 DEF TypeOK
    <3> QED BY <2>1, <3>1 DEF Commits, Trees, Files
  <2>5. [row[f].content EXCEPT !["flow"] = log[k].tree[f]["flow"]] \in Full
    BY <2>3, <2>4 DEF Full
  <2> QED BY <2>1, <2>5, ArriveSerial, WholeTypes DEF Whole
<1> QED BY <1>1, <1>2, <1>3, <1>4

\* The invariant holds at the start ...
LEMMA SerialInit == Init => SerialInv
<1> SUFFICES ASSUME Init PROVE OneByOne
  BY DEF SerialInv
<1>1. Served = {}
  BY DEF Init, Served, Idle, Serving, Capture, Saving, Deleting
<1>2. HeadTree = [f \in Flows |-> Absent]
  BY DEF Init, HeadTree, TreeAt
<1>3. \A f \in Flows : Settled(f) /\ row[f].content \in Whole
  BY <1>2 DEF Init, Settled, Whole
<1> QED BY <1>1, <1>3 DEF OneByOne

\* ... and every step keeps it.
LEMMA SerialNext == ASSUME TypeOK, SerialInv, [Next]_vars PROVE SerialInv'
<1>1. ASSUME NEW r \in Requests, Interrupt(r) PROVE SerialInv'
  <2>1. task'[r].stage = "failed"
    BY <1>1 DEF Interrupt, TypeOK, Tasks
  <2> QED BY <2>1 DEF SerialInv, Undisturbed, Failed, At
<1>2. CASE UNCHANGED vars
  BY <1>2 DEF vars, SerialInv, Undisturbed, Failed, OneByOne, Served, Progress, Settled,
              Untouched, HeadTree, TreeAt, Flow, Part, At
<1> QED
  BY <1>1, <1>2, ArrivalsSerial, RowSerial, CompareSerial, WriteSerial, AddSerial,
     CommitSerial, RemoveSerial, UnstageSerial DEF Next

\* With captures one at a time and none failed, once nothing is being served the
\* last version of every flow is what its row holds, in both files: no save,
\* restore or deletion is missed, for any number of flows and requests.
THEOREM LastIsCurrent == Spec => []LastVersionIsCurrent
<1>1. Init => TypeOK /\ SerialInv
  BY InitTypes, SerialInit
<1>2. TypeOK /\ SerialInv /\ [Next]_vars => (TypeOK /\ SerialInv)'
  BY NextTypes, SerialNext
<1>3. SerialInv => LastVersionIsCurrent
  BY DEF SerialInv, LastVersionIsCurrent, OneByOne, AtRest, Settled
<1> QED BY <1>1, <1>2, <1>3, PTL DEF Spec

-----------------------------------------------------------------------------
(***************************************************************************)
(* The refinement. HistoryKept compares a step of the store with a step of  *)
(* FlowHistory: a row is edited, a version is recorded, or neither.         *)
(***************************************************************************)

\* Only flow texts get into flow files.
LEMMA TextNext == ASSUME TypeOK, TextInv, [Next]_vars PROVE TextInv'
<1>1. NoText \in FlowTexts /\ Absent["flow"] = NoText /\ \A c \in Contents : c["flow"] \in FlowTexts
  BY DEF FlowTexts, Absent
<1>2. ASSUME NEW r \in Requests, NEW kind, NEW f \in Flows, NEW c,
             Arrive(r, kind, f, c), c["flow"] \in FlowTexts
      PROVE  TextInv'
  <2>1. task'[r].content = c
    BY <1>2 DEF Arrive, TypeOK, Idle
  <2>2. OnlyTask(r) /\ UNCHANGED <<row, file, index, log>>
    BY <1>2 DEF Arrive, OnlyTask, TypeOK
  <2> QED BY <1>2, <2>1, <2>2 DEF TextInv, OnlyTask
<1>3. ASSUME NEW r \in Requests, Create(r) \/ Update(r) \/ Delete(r) PROVE TextInv'
  BY <1>1, <1>2, <1>3 DEF Create, Update, Delete
<1>4. ASSUME NEW r \in Requests, Restore(r) PROVE TextInv'
  <2>1. PICK f \in Flows, k \in 1 .. Len(log) :
          Arrive(r, "restore", f,
                 [row[f].content EXCEPT !["flow"] = log[k].tree[f]["flow"]])
    BY <1>4 DEF Restore
  <2>2. row[f].content \in Files
    BY DEF TypeOK
  <2>3. [row[f].content EXCEPT !["flow"] = log[k].tree[f]["flow"]]["flow"] \in FlowTexts
    BY <2>2 DEF Files, TextInv
  <2> QED BY <1>2, <2>1, <2>3
<1>5. ASSUME NEW r \in Requests, OnlyTask(r), task'[r].content = task[r].content
      PROVE  \A q \in Requests : task'[q].content["flow"] \in FlowTexts
  BY <1>5 DEF OnlyTask, TextInv
<1>6. ASSUME NEW r \in Requests,
             SaveRow(r) \/ DeleteRow(r) \/ CompareFile(r) \/ WriteFile(r) \/ Add(r)
             \/ Commit(r) \/ RemoveFile(r) \/ Unstage(r) \/ Interrupt(r)
      PROVE  TextInv'
  <2>1. task[r] \in Tasks /\ Flow(r) \in Flows /\ Part(r) \in Parts
    BY DEF TypeOK, Tasks, Flow, Part
  <2>2. OnlyTask(r) /\ task'[r].content = task[r].content
    BY <1>6, <2>1 DEF SaveRow, DeleteRow, CompareFile, WriteFile, Add, Onward, Commit,
                      RemoveFile, Unstage, Interrupt, OnlyTask, TypeOK, Tasks
  <2>3. \A q \in Requests : task'[q].content["flow"] \in FlowTexts
    BY <1>5, <2>2
  <2>4. task[r].content["flow"] \in FlowTexts
    BY DEF TextInv
  <2>5. CASE SaveRow(r) \/ DeleteRow(r)
    <3>1. PICK c : c["flow"] \in FlowTexts
                   /\ row' = [row EXCEPT ![Flow(r)] = [content |-> c, by |-> r]]
      BY <1>1, <2>4, <2>5 DEF SaveRow, DeleteRow
    <3>2. \A f \in Flows : row'[f].content["flow"] \in FlowTexts
      BY <3>1 DEF TypeOK, TextInv
    <3>3. UNCHANGED <<file, index, log>>
      BY <2>5 DEF SaveRow, DeleteRow
    <3> QED BY <2>3, <3>2, <3>3 DEF TextInv
  <2>6. CASE CompareFile(r) \/ Interrupt(r)
    BY <2>3, <2>6 DEF CompareFile, Interrupt, TextInv
  <2>7. CASE WriteFile(r) \/ RemoveFile(r)
    <3>1. PICK v : (Part(r) = "flow" => v \in FlowTexts)
                   /\ (file' = [file EXCEPT ![Flow(r)][Part(r)] = v] \/ file' = file)
      BY <1>1, <2>4, <2>7 DEF WriteFile, RemoveFile
    <3>2. \A f \in Flows : file'[f]["flow"] \in FlowTexts
      <4>1. \A f \in Flows : file[f] \in Files /\ file[f]["flow"] \in FlowTexts
        BY DEF TypeOK, Trees, TextInv
      <4>2. CASE file' = [file EXCEPT ![Flow(r)][Part(r)] = v]
        <5>1. /\ file'[Flow(r)] = [file[Flow(r)] EXCEPT ![Part(r)] = v]
              /\ \A f \in Flows \ {Flow(r)} : file'[f] = file[f]
          BY <2>1, <4>2 DEF TypeOK, Trees
        <5>2. file'[Flow(r)]["flow"] \in FlowTexts
          BY <2>1, <3>1, <4>1, <5>1 DEF Files
        <5> QED BY <4>1, <5>1, <5>2
      <4>3. CASE file' = file
        BY <4>1, <4>3
      <4> QED BY <3>1, <4>2, <4>3
    <3>3. UNCHANGED <<row, index, log>>
      BY <2>7 DEF WriteFile, RemoveFile
    <3> QED BY <2>3, <3>2, <3>3 DEF TextInv
  <2>8. CASE Add(r) \/ Unstage(r)
    <3>1. PICK v : (Part(r) = "flow" => v \in FlowTexts)
                   /\ (index' = [index EXCEPT ![Flow(r)][Part(r)] = v] \/ index' = index)
      <4>1. file[Flow(r)]["flow"] \in FlowTexts
        BY <2>1 DEF TextInv
      <4> QED BY <1>1, <2>8, <4>1 DEF Add, Unstage
    <3>2. \A f \in Flows : index'[f]["flow"] \in FlowTexts
      <4>1. \A f \in Flows : index[f] \in Files /\ index[f]["flow"] \in FlowTexts
        BY DEF TypeOK, Trees, TextInv
      <4>2. CASE index' = [index EXCEPT ![Flow(r)][Part(r)] = v]
        <5>1. /\ index'[Flow(r)] = [index[Flow(r)] EXCEPT ![Part(r)] = v]
              /\ \A f \in Flows \ {Flow(r)} : index'[f] = index[f]
          BY <2>1, <4>2 DEF TypeOK, Trees
        <5>2. index'[Flow(r)]["flow"] \in FlowTexts
          BY <2>1, <3>1, <4>1, <5>1 DEF Files
        <5> QED BY <4>1, <5>1, <5>2
      <4>3. CASE index' = index
        BY <4>1, <4>3
      <4> QED BY <3>1, <4>2, <4>3
    <3>3. UNCHANGED <<row, file, log>>
      BY <2>8 DEF Add, Unstage
    <3> QED BY <2>3, <3>2, <3>3 DEF TextInv
  <2>9. CASE Commit(r)
    <3>1. \A k \in 1 .. Len(log'), f \in Flows : log'[k].tree[f]["flow"] \in FlowTexts
      <4> SUFFICES ASSUME NEW k \in 1 .. Len(log'), NEW f \in Flows
                   PROVE  log'[k].tree[f]["flow"] \in FlowTexts
        OBVIOUS
      <4>1. Len(log') = Len(log) + 1 /\ Len(log) \in Nat
        BY <2>9, CommitHead, StoreTypes
      <4>2. CASE k = Len(log) + 1
        <5>1. log'[k].tree = index
          BY <2>9, <4>2, CommitHead
        <5> QED BY <5>1 DEF TextInv
      <4>3. CASE k # Len(log) + 1
        <5>1. k \in 1 .. Len(log)
          BY <4>1, <4>3
        <5> QED BY <2>9, <5>1, CommitHead DEF TextInv
      <4> QED BY <4>2, <4>3
    <3>2. UNCHANGED <<row, file, index>>
      BY <2>9 DEF Commit
    <3> QED BY <2>3, <3>1, <3>2 DEF TextInv
  <2> QED BY <1>6, <2>5, <2>6, <2>7, <2>8, <2>9
<1>7. CASE UNCHANGED vars
  BY <1>7 DEF vars, TextInv
<1> QED BY <1>3, <1>4, <1>6, <1>7 DEF Next

\* Changes is ChangesIn of the log, before and after a step.
LEMMA ChangesAreIn ==
  ASSUME NEW f
  PROVE  Changes(f) = ChangesIn(log, f) /\ Changes(f)' = ChangesIn(log', f)
BY DEF Changes, ChangesIn, SameText, TreeAt, TreeIn

\* What a commit does to the history of each flow.
LEMMA CommitChanges ==
  ASSUME TypeOK, NEW r \in Requests, Commit(r), NEW f \in Flows
  PROVE  /\ Changes(f) \in Seq(1 .. Len(log))
         /\ Changes(f)' = IF index[f]["flow"] = HeadTree[f]["flow"] THEN Changes(f)
                          ELSE Append(Changes(f), Len(log) + 1)
<1> DEFINE new == [tree |-> index, flow |-> Flow(r), author |-> r]
<1>1. log \in Seq(Commits) /\ new \in Commits /\ log' = Append(log, new)
  BY CommitHead, StoreTypes
<1>2. HeadTree = TreeIn(log, Len(log))
  BY DEF HeadTree, TreeAt, TreeIn
<1>3. new.tree = index
  OBVIOUS
<1> HIDE DEF new
<1> QED BY <1>1, <1>2, <1>3, ChangesAppend, ChangesAreIn

\* The last version shown is the flow file of the last commit: at the start ...
LEMMA LastInit == Init => LastInv
<1> SUFFICES ASSUME Init, NEW f \in Flows
             PROVE  HeadTree[f]["flow"] = NoText /\ Changes(f) = <<>>
  BY DEF LastInv
<1>1. log = <<>> /\ Len(log) = 0
  BY DEF Init
<1>2. HeadTree[f]["flow"] = NoText
  BY <1>1 DEF HeadTree, TreeAt, Absent
<1>3. Changes(f) = <<>>
  <2>1. log \in Seq(Commits)
    BY <1>1
  <2>2. PICK g \in [0 .. Len(log) -> Seq(1 .. Len(log))] :
          g[0] = <<>> /\ ChangesIn(log, f) = g[Len(log)]
    BY <2>1, ChangesFold
  <2> QED BY <1>1, <2>2, ChangesAreIn
<1> QED BY <1>2, <1>3

\* ... and after every step.
LEMMA LastNext == ASSUME TypeOK, LastInv, [Next]_vars PROVE LastInv'
<1>1. CASE UNCHANGED log
  <2>1. \A f \in Flows : Changes(f)' = Changes(f)
    BY <1>1, ChangesAreIn
  <2>2. \A f \in Flows :
          TreeAt(Changes(f)[Len(Changes(f))])' = TreeAt(Changes(f)[Len(Changes(f))])
    BY <1>1, <2>1 DEF TreeAt
  <2>3. HeadTree' = HeadTree
    BY <1>1 DEF HeadTree, TreeAt
  <2> QED BY <2>1, <2>2, <2>3 DEF LastInv
<1>2. ASSUME NEW r \in Requests, Commit(r) PROVE LastInv'
  <2> SUFFICES ASSUME NEW f \in Flows
      PROVE  HeadTree'[f]["flow"] =
               IF Changes(f)' = <<>> THEN NoText
               ELSE TreeAt(Changes(f)[Len(Changes(f))])'[f]["flow"]
    BY DEF LastInv
  <2> DEFINE s == Changes(f)
  <2>0. PICK n \in Nat : n = Len(log)
    BY StoreTypes
  <2>1. /\ s \in Seq(1 .. n) /\ n \in Nat
        /\ Changes(f)' = IF index[f]["flow"] = HeadTree[f]["flow"] THEN s ELSE Append(s, n + 1)
    BY <1>2, <2>0, CommitChanges
  <2>2. HeadTree' = index /\ \A k \in 0 .. n : TreeAt(k)' = TreeAt(k)
    BY <1>2, <2>0, CommitHead
  <2>3. TreeAt(n + 1)' = index
    <3>1. log'[n + 1].tree = index
      BY <1>2, <2>0, CommitHead
    <3> QED BY <2>1, <3>1 DEF TreeAt
  <2>4. HeadTree[f]["flow"] = IF s = <<>> THEN NoText ELSE TreeAt(s[Len(s)])[f]["flow"]
    BY DEF LastInv
  <2>5. ASSUME NEW t, Changes(f)' = t, t # <<>>
        PROVE  TreeAt(Changes(f)[Len(Changes(f))])' = TreeIn(log', t[Len(t)])
    BY <2>5 DEF TreeAt, TreeIn
  <2>6. \A k \in 0 .. n + 1 : TreeIn(log', k) = TreeAt(k)'
    BY DEF TreeAt, TreeIn
  <2>7. CASE index[f]["flow"] = HeadTree[f]["flow"]
    <3>1. Changes(f)' = s
      BY <2>1, <2>7
    <3>2. CASE s = <<>>
      BY <2>2, <2>4, <2>7, <3>1, <3>2
    <3>3. CASE s # <<>>
      <4>1. s[Len(s)] \in 1 .. n /\ s[Len(s)] \in 0 .. n + 1 /\ s[Len(s)] \in 0 .. n
        <5> HIDE DEF s
        <5> QED BY <2>1, <3>3
      <4>2. TreeAt(Changes(f)[Len(Changes(f))])' = TreeAt(s[Len(s)])
        <5> HIDE DEF s
        <5> QED BY <2>2, <2>5, <2>6, <3>1, <3>3, <4>1
      <4> QED BY <2>2, <2>4, <2>7, <3>1, <3>3, <4>2
    <3> QED BY <3>2, <3>3
  <2>8. CASE index[f]["flow"] # HeadTree[f]["flow"]
    <3> DEFINE t == Append(s, n + 1)
    <3>1. Changes(f)' = t
      BY <2>1, <2>8
    <3>2. t # <<>> /\ t[Len(t)] = n + 1 /\ n + 1 \in 0 .. n + 1
      <4> HIDE DEF s
      <4> QED BY <2>1
    <3>3. TreeAt(Changes(f)[Len(Changes(f))])' = index
      <4> HIDE DEF t
      <4> QED BY <2>3, <2>5, <2>6, <3>1, <3>2
    <3> HIDE DEF t
    <3> QED BY <2>2, <3>1, <3>2, <3>3
  <2> QED BY <2>7, <2>8
<1>3. (\E r \in Requests : Commit(r)) \/ UNCHANGED log
  BY DEF Next, vars, Create, Update, Restore, Delete, Arrive, SaveRow, DeleteRow,
         CompareFile, WriteFile, Add, RemoveFile, Unstage, Interrupt
<1> QED BY <1>1, <1>2, <1>3

\* Versions for any log and any list of commits of it.
VersionsIn(l, s, f) ==
  [i \in 1 .. Len(s) |-> [content |-> TreeIn(l, s[i])[f]["flow"], author |-> l[s[i]].author]]

LEMMA VersionsAreIn ==
  ASSUME NEW f
  PROVE  /\ Versions(f) = VersionsIn(log, Changes(f), f)
         /\ Versions(f)' = VersionsIn(log', Changes(f)', f)
BY DEF Versions, VersionsIn, TreeAt, TreeIn

\* A commit leaves the versions there are, and may add itself.
LEMMA VersionsAppend ==
  ASSUME NEW l \in Seq(Commits), NEW c \in Commits, NEW f \in Flows, NEW s \in Seq(1 .. Len(l))
  PROVE  /\ VersionsIn(Append(l, c), s, f) = VersionsIn(l, s, f)
         /\ VersionsIn(Append(l, c), Append(s, Len(l) + 1), f) =
              Append(VersionsIn(l, s, f), [content |-> c.tree[f]["flow"], author |-> c.author])
<1> DEFINE n == Len(l)
           m == Append(l, c)
           Version(k) == [content |-> TreeIn(l, k)[f]["flow"], author |-> l[k].author]
           last == [content |-> c.tree[f]["flow"], author |-> c.author]
<1>1. /\ n \in Nat /\ m[n + 1] = c /\ \A k \in 1 .. n : m[k] = l[k]
      /\ Len(s) \in Nat /\ \A i \in 1 .. Len(s) : s[i] \in 1 .. n
  OBVIOUS
<1>2. \A k \in 1 .. n : TreeIn(m, k) = TreeIn(l, k)
  BY <1>1 DEF TreeIn
<1>3. TreeIn(m, n + 1) = c.tree
  BY <1>1 DEF TreeIn
<1> HIDE DEF m, n
<1>4. VersionsIn(m, s, f) = VersionsIn(l, s, f)
  BY <1>1, <1>2 DEF VersionsIn
<1> DEFINE t    == Append(s, n + 1)
           old  == VersionsIn(l, s, f)
           more == Append(old, last)
           len  == Len(s)
<1>5. /\ Len(t) = len + 1 /\ t[len + 1] = n + 1
      /\ \A i \in 1 .. len : t[i] = s[i]
  <2>1. s \in Seq(Nat) /\ n + 1 \in Nat
    BY <1>1
  <2> QED BY <2>1
<1>6. old = [i \in 1 .. len |-> Version(s[i])]
  BY DEF VersionsIn
<1>7. \E V : old \in Seq(V) /\ last \in V
  <2> DEFINE V == {Version(s[i]) : i \in 1 .. len} \cup {last}
  <2>1. \A i \in 1 .. len : Version(s[i]) \in V
    OBVIOUS
  <2>2. last \in V
    OBVIOUS
  <2> HIDE DEF Version, last, V, old
  <2>3. old \in Seq(V)
    BY <1>1, <1>6, <2>1
  <2> QED BY <2>2, <2>3
<1>8. Len(old) = len
  <2> HIDE DEF old, Version
  <2> QED BY <1>1, <1>6
<1>9. /\ more = [i \in 1 .. len + 1 |-> more[i]]
      /\ more[len + 1] = last
      /\ \A i \in 1 .. len : more[i] = old[i]
  <2>1. PICK V : old \in Seq(V) /\ last \in V
    BY <1>7
  <2> HIDE DEF old, last
  <2>2. /\ more \in Seq(V) /\ Len(more) = len + 1
        /\ more[len + 1] = last /\ \A i \in 1 .. len : more[i] = old[i]
    BY <1>8, <2>1
  <2>3. more = [i \in 1 .. len + 1 |-> more[i]]
    <3> HIDE DEF more
    <3> QED BY <2>2
  <2> QED BY <2>2, <2>3
<1>10. VersionsIn(m, t, f) = more
  <2>1. VersionsIn(m, t, f)
          = [i \in 1 .. len + 1 |->
               [content |-> TreeIn(m, t[i])[f]["flow"], author |-> m[t[i]].author]]
    BY <1>5 DEF VersionsIn
  <2>2. ASSUME NEW i \in 1 .. len + 1
        PROVE  more[i] = [content |-> TreeIn(m, t[i])[f]["flow"], author |-> m[t[i]].author]
    <3>1. CASE i = len + 1
      <4>1. t[i] = n + 1 /\ more[i] = last
        BY <1>5, <1>9, <3>1
      <4> HIDE DEF t, more
      <4> QED BY <1>1, <1>3, <4>1
    <3>2. CASE i # len + 1
      <4>1. i \in 1 .. len
        BY <1>1, <3>2
      <4>2. t[i] = s[i] /\ more[i] = old[i] /\ s[i] \in 1 .. n
        BY <1>1, <1>5, <1>9, <4>1
      <4>3. old[i] = Version(s[i])
        BY <1>6, <4>1
      <4> HIDE DEF t, more, old
      <4> QED BY <1>1, <1>2, <4>2, <4>3
    <3> QED BY <3>1, <3>2
  <2> HIDE DEF more, t
  <2> QED BY <1>9, <2>1, <2>2
<1> QED BY <1>4, <1>10 DEF m, n

\* The rows and the editors, as FlowHistory sees them.
Current == [f \in Flows |-> row[f].content["flow"]]
Editor  == [f \in Flows |-> row[f].by]
Shown   == [f \in Flows |-> Versions(f)]

\* The write of a row is an edit.
LEMMA RowIsEdit ==
  ASSUME TypeOK, TextInv, NEW r \in Requests, SaveRow(r) \/ DeleteRow(r)
  PROVE  History!Next
<1>0. PICK f \in Flows : f = Flow(r)
  BY DEF TypeOK, Tasks, Flow
<1>1. task[r].content["flow"] \in FlowTexts /\ UNCHANGED log
  BY DEF TextInv, SaveRow, DeleteRow
<1>2. PICK c : /\ c["flow"] \in FlowTexts
               /\ row' = [row EXCEPT ![f] = [content |-> c, by |-> r]]
  <2>1. Absent["flow"] \in FlowTexts
    BY DEF Absent, FlowTexts
  <2> QED BY <1>0, <1>1, <2>1 DEF SaveRow, DeleteRow
<1>3. /\ row'[f] = [content |-> c, by |-> r]
      /\ \A g \in Flows \ {f} : row'[g] = row[g]
  BY <1>1, <1>2 DEF TypeOK
<1>4. Current' = [Current EXCEPT ![f] = c["flow"]] /\ Editor' = [Editor EXCEPT ![f] = r]
  <2>1. \A g \in Flows : /\ row'[g].content["flow"] = IF g = f THEN c["flow"] ELSE row[g].content["flow"]
                         /\ row'[g].by = IF g = f THEN r ELSE row[g].by
    BY <1>3
  <2> QED BY <2>1 DEF Current, Editor
<1>5. Shown' = Shown
  <2>1. \A g \in Flows : Changes(g)' = Changes(g)
    BY <1>1, ChangesAreIn
  <2>2. \A g \in Flows : Versions(g)' = Versions(g)
    BY <1>1, <2>1, VersionsAreIn
  <2> QED BY <2>2 DEF Shown
<1>6. History!Edit(f)
  BY <1>2, <1>4, <1>5 DEF History!Edit, Current, Editor, Shown, FlowTexts
<1> QED BY <1>1, <1>6 DEF History!Next

\* A commit records the content of the row, or changes no flow file.
LEMMA CommitIsRecord ==
  ASSUME TypeOK, SerialInv, LastInv, NEW r \in Requests, Commit(r), Undisturbed'
  PROVE  History!Next \/ UNCHANGED <<Current, Editor, Shown>>
<1> DEFINE new == [tree |-> index, flow |-> Flow(r), author |-> r]
<1>1. /\ OnlyTask(r) /\ task[r].stage = "commit" /\ overlapped' = overlapped
      /\ task[r].stage \in Serving
  BY DEF Commit, OnlyTask, TypeOK, At, Serving, Capture
<1>0. OneByOne /\ r \in Served /\ Progress(r) /\ Flow(r) \in Flows
  BY <1>1, ServedFacts
<1>2. PICK f \in Flows : f = Flow(r)
  BY <1>0
<1>3. /\ row[f] = [content |-> task[r].content, by |-> r]
      /\ index[f] = task[r].content
  BY <1>0, <1>1, <1>2 DEF Progress
<1>4. \A g \in Flows \ {f} : index[g] = HeadTree[g]
  <2> SUFFICES ASSUME NEW g \in Flows \ {f} PROVE Settled(g)
    BY DEF Settled
  <2> QED BY <1>0, <1>2 DEF OneByOne
<1>5. /\ log \in Seq(Commits) /\ new \in Commits /\ log' = Append(log, new)
      /\ new.tree = index /\ new.author = r /\ row' = row
  <2>1. log \in Seq(Commits)
    BY DEF TypeOK
  <2> QED BY <2>1, CommitHead DEF Commit
<1> HIDE DEF new
<1>6. ASSUME NEW g \in Flows, index[g]["flow"] = HeadTree[g]["flow"]
      PROVE  Versions(g)' = Versions(g)
  <2>1. Changes(g)' = Changes(g) /\ Changes(g) \in Seq(1 .. Len(log))
    BY <1>6, CommitChanges
  <2> QED BY <1>5, <2>1, VersionsAppend, VersionsAreIn, ZenonT(30)
<1>7. Current' = Current /\ Editor' = Editor
  BY <1>5 DEF Current, Editor
<1>8. CASE index[f]["flow"] = HeadTree[f]["flow"]
  <2>1. \A g \in Flows : Versions(g)' = Versions(g)
    BY <1>2, <1>4, <1>6, <1>8
  <2>2. Shown' = Shown
    BY <2>1 DEF Shown
  <2> QED BY <1>7, <2>2
<1>9. CASE index[f]["flow"] # HeadTree[f]["flow"]
  <2> DEFINE v == [content |-> index[f]["flow"], author |-> r]
  <2>1. Changes(f)' = Append(Changes(f), Len(log) + 1) /\ Changes(f) \in Seq(1 .. Len(log))
    BY <1>2, <1>9, CommitChanges
  <2>2. Versions(f)' = Append(Versions(f), v)
    <3>1. VersionsIn(log', Append(Changes(f), Len(log) + 1), f)
            = Append(VersionsIn(log, Changes(f), f),
                     [content |-> new.tree[f]["flow"], author |-> new.author])
      BY <1>2, <1>5, <2>1, VersionsAppend
    <3> QED BY <1>5, <2>1, <3>1, VersionsAreIn
  <2>3. \A g \in Flows \ {f} : Versions(g)' = Versions(g)
    BY <1>4, <1>6
  <2>4. Shown' = [Shown EXCEPT ![f] = Append(@, v)]
    BY <1>2, <2>2, <2>3 DEF Shown
  <2>5. v = [content |-> Current[f], author |-> Editor[f]]
    BY <1>2, <1>3 DEF Current, Editor
  <2>6. Current[f] # History!LastContent(Shown[f])
    <3>1. History!LastContent(Shown[f]) = HeadTree[f]["flow"]
      <4>1. /\ Len(Versions(f)) = Len(Changes(f))
            /\ Versions(f) = <<>> <=> Changes(f) = <<>>
            /\ Changes(f) # <<>> => Versions(f)[Len(Changes(f))].content
                                      = TreeAt(Changes(f)[Len(Changes(f))])[f]["flow"]
        <5>1. Len(Changes(f)) \in Nat
          BY <2>1
        <5>2. Len(Versions(f)) = Len(Changes(f))
          BY <5>1 DEF Versions
        <5>3. Changes(f) # <<>> => Len(Changes(f)) \in 1 .. Len(Changes(f))
          BY <2>1, <5>1
        <5>4. Versions(f) = <<>> <=> Changes(f) = <<>>
          BY <2>1, <5>1, <5>2 DEF Versions
        <5> QED BY <5>2, <5>3, <5>4 DEF Versions
      <4>2. Shown[f] = Versions(f)
        BY <1>2 DEF Shown
      <4> QED BY <1>2, <4>1, <4>2 DEF History!LastContent, LastInv
    <3>2. Current[f] = index[f]["flow"]
      BY <1>2, <1>3 DEF Current
    <3> QED BY <1>9, <3>1, <3>2
  <2>7. History!Record(f)
    BY <1>7, <2>4, <2>5, <2>6 DEF History!Record, Current, Editor, Shown
  <2> QED BY <1>2, <2>7 DEF History!Next
<1> QED BY <1>8, <1>9

\* Every undisturbed step of the store is a step of the history, or none.
LEMMA HistoryStep ==
  ASSUME TypeOK, SerialInv, TextInv, LastInv, [Next]_vars, Undisturbed'
  PROVE  [History!Next]_<<Current, Editor, Shown>>
<1>1. CASE UNCHANGED <<row, log>>
  <2>1. \A g \in Flows : Changes(g)' = Changes(g)
    BY <1>1, ChangesAreIn
  <2>2. \A g \in Flows : Versions(g)' = Versions(g)
    BY <1>1, <2>1, VersionsAreIn
  <2> QED BY <1>1, <2>2 DEF Current, Editor, Shown
<1>2. ASSUME NEW r \in Requests, SaveRow(r) \/ DeleteRow(r) PROVE History!Next
  BY <1>2, RowIsEdit
<1>3. ASSUME NEW r \in Requests, Commit(r)
      PROVE  History!Next \/ UNCHANGED <<Current, Editor, Shown>>
  BY <1>3, CommitIsRecord
<1>4. \/ \E r \in Requests : SaveRow(r) \/ DeleteRow(r) \/ Commit(r)
      \/ UNCHANGED <<row, log>>
  BY DEF Next, vars, Create, Update, Restore, Delete, Arrive, CompareFile, WriteFile, Add,
         RemoveFile, Unstage, Interrupt
<1> QED BY <1>1, <1>2, <1>3, <1>4

\* While captures neither overlapped nor failed, the store implements
\* FlowHistory: the history of a flow grows by one version at a time, each with
\* the content of the row and the name of whoever wrote it.
THEOREM HistoryImplemented == Spec => HistoryKept
<1>1. Init => TypeOK /\ SerialInv /\ TextInv /\ LastInv
  <2>1. Init => TextInv
    BY DEF Init, TextInv, FlowTexts, Absent, Idle
  <2> QED BY <2>1, InitTypes, SerialInit, LastInit
<1>2. Init => History!Init
  <2> SUFFICES ASSUME Init PROVE History!Init
    OBVIOUS
  <2>1. \A f \in Flows : row[f].content["flow"] = NoText /\ row[f].by = NoOne
    BY DEF Init, Absent
  <2>2. \A f \in Flows : Changes(f) = <<>>
    <3>1. Len(log) = 0 /\ log \in Seq(Commits)
      BY DEF Init
    <3>2. ASSUME NEW f \in Flows PROVE Changes(f) = <<>>
      <4>1. PICK g \in [0 .. Len(log) -> Seq(1 .. Len(log))] :
              g[0] = <<>> /\ ChangesIn(log, f) = g[Len(log)]
        BY <3>1, ChangesFold
      <4> QED BY <3>1, <4>1, ChangesAreIn
    <3> QED BY <3>2
  <2>3. \A f \in Flows : Versions(f) = <<>>
    BY <2>2 DEF Versions
  <2> QED BY <2>1, <2>3 DEF History!Init
<1>3. TypeOK /\ SerialInv /\ TextInv /\ LastInv /\ [Next]_vars
        => (TypeOK /\ SerialInv /\ TextInv /\ LastInv)'
  BY NextTypes, SerialNext, TextNext, LastNext
<1>4. TypeOK /\ SerialInv /\ TextInv /\ LastInv /\ [Next]_vars
        => [Undisturbed' => [History!Next]_(History!vars)]_vars
  BY HistoryStep DEF History!vars, Current, Editor, Shown
<1> QED BY <1>1, <1>2, <1>3, <1>4, PTL DEF Spec, HistoryKept
=============================================================================
