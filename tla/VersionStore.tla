----------------------------- MODULE VersionStore -----------------------------
(***************************************************************************)
(* The git-backed version store of flows (packages/server/src/versioning)   *)
(* and the saves, restores and deletions of services/chatflows that feed    *)
(* it. Each request first writes the flow's row and then captures it; the   *)
(* captures of all requests share one working tree, one index and one       *)
(* branch, and every await between their steps lets another one in.         *)
(*                                                                          *)
(* A content is what a save leaves in the two files of a flow, after        *)
(* normalisation: flows/<id>.json and meta/<id>.json. git itself            *)
(* (isomorphic-git) is external: add, remove and commit are atomic, a       *)
(* commit takes the whole index.                                            *)
(***************************************************************************)
EXTENDS Naturals, Sequences, FiniteSets

CONSTANTS
  Flows,
  Contents,  \* the contents saves may give a flow
  Requests,  \* the save, restore and delete requests; each has its own user
  NoText,    \* no such file
  NoOne,     \* the editor of a flow that was never created
  Env        \* what the environment does, a subset of EnvEvents

EnvEvents ==
  {"overlap",   \* a request may arrive while another one is being served
   "delete",
   "fail"}      \* the disk fills up, permissions fail or the process dies

Parts == {"flow", "meta"}
Absent == [p \in Parts |-> NoText]
Texts == {c[p] : c \in Contents, p \in Parts}
Files == [Parts -> Texts \cup {NoText}]

ASSUME ContentsAssumption ==
  /\ Flows # {}
  /\ Contents \subseteq [Parts -> Texts]
  /\ NoText \notin Texts
  /\ NoOne \notin Requests
  /\ Env \subseteq EnvEvents

VARIABLES
  row,        \* the ChatFlow rows: content, and who wrote it (auxiliary)
  file,       \* the working tree
  index,      \* the git index
  log,        \* the commits of the branch, oldest first; HEAD is the last
  task,       \* what each request is doing
  overlapped  \* auxiliary: two requests were being served at once

vars == <<row, file, index, log, task, overlapped>>

Trees == [Flows -> Files]

Commits == [tree : Trees, flow : Flows, author : Requests]

Saving   == {"compare", "write", "add"}
Deleting == {"remove", "unstage"}
Capture  == Saving \cup Deleting \cup {"commit"}
Serving  == {"loaded"} \cup Capture

Idle == [kind |-> "none", flow |-> CHOOSE f \in Flows : TRUE, content |-> Absent,
         stage |-> "idle", part |-> "flow", same |-> TRUE]

Tasks == [kind : {"none", "create", "update", "restore", "delete"},
          flow : Flows, content : Files,
          stage : {"idle", "done", "failed"} \cup Serving,
          part : Parts, same : BOOLEAN]

Init ==
  /\ row = [f \in Flows |-> [content |-> Absent, by |-> NoOne]]
  /\ file = [f \in Flows |-> Absent]
  /\ index = [f \in Flows |-> Absent]
  /\ log = <<>>
  /\ task = [r \in Requests |-> Idle]
  /\ overlapped = FALSE

Flow(r) == task[r].flow
Part(r) == task[r].part
At(r, stage) == task[r].stage = stage
Served == {r \in Requests : task[r].stage \in Serving}

TreeAt(k) == IF k = 0 THEN [f \in Flows |-> Absent] ELSE log[k].tree
HeadTree == TreeAt(Len(log))

-----------------------------------------------------------------------------
\* The requests.

Arrive(r, kind, f, content) ==
  /\ At(r, "idle")
  /\ Served = {} \/ "overlap" \in Env
  /\ overlapped' = (overlapped \/ Served # {})
  /\ task' = [task EXCEPT ![r] =
       [Idle EXCEPT !.kind = kind, !.flow = f, !.content = content, !.stage = "loaded"]]
  /\ UNCHANGED <<row, file, index, log>>

Create(r) ==
  \E f \in Flows, c \in Contents : row[f].by = NoOne /\ Arrive(r, "create", f, c)

\* The row is read first; a flow that is not there is a 404.
Update(r) ==
  \E f \in Flows, c \in Contents :
    row[f].content # Absent /\ Arrive(r, "update", f, c)

\* The flow file as of a commit, with the rest of the row as it was read.
Restore(r) ==
  \E f \in Flows, k \in 1 .. Len(log) :
    /\ row[f].content # Absent
    /\ log[k].tree[f]["flow"] # NoText
    /\ Arrive(r, "restore", f, [row[f].content EXCEPT !["flow"] = log[k].tree[f]["flow"]])

Delete(r) ==
  /\ "delete" \in Env
  /\ \E f \in Flows : row[f].content # Absent /\ Arrive(r, "delete", f, Absent)

\* repository.save: an update whose row was deleted meanwhile inserts it again.
SaveRow(r) ==
  /\ At(r, "loaded")
  /\ task[r].kind # "delete"
  /\ row' = [row EXCEPT ![Flow(r)] = [content |-> task[r].content, by |-> r]]
  /\ task' = [task EXCEPT ![r].stage = "compare"]
  /\ UNCHANGED <<file, index, log, overlapped>>

DeleteRow(r) ==
  /\ At(r, "loaded")
  /\ task[r].kind = "delete"
  /\ row' = [row EXCEPT ![Flow(r)] = [content |-> Absent, by |-> r]]
  /\ task' = [task EXCEPT ![r].stage = "remove"]
  /\ UNCHANGED <<file, index, log, overlapped>>

-----------------------------------------------------------------------------
\* captureFlow: each step handles the flow file and then the meta file.

Onward(r, next) ==
  task' = [task EXCEPT ![r].stage = IF Part(r) = "flow" THEN @ ELSE next,
                       ![r].part  = IF Part(r) = "flow" THEN "meta" ELSE "flow"]

\* Mutant: only the flow file decides whether there is something to record.
CompareFlowOnly(r) ==
  /\ At(r, "compare")
  /\ LET same == file[Flow(r)]["flow"] = task[r].content["flow"]
     IN  task' = [task EXCEPT ![r].stage = IF same THEN "done" ELSE "write"]
  /\ UNCHANGED <<row, file, index, log, overlapped>>

\* flowUnchanged and metaUnchanged: nothing to do when both files are as saved.
CompareFile(r) ==
  /\ At(r, "compare")
  /\ LET same == task[r].same /\ file[Flow(r)][Part(r)] = task[r].content[Part(r)]
     IN  task' = [task EXCEPT
           ![r].stage = IF Part(r) = "flow" THEN @ ELSE IF same THEN "done" ELSE "write",
           ![r].part  = IF Part(r) = "flow" THEN "meta" ELSE "flow",
           ![r].same  = same]
  /\ UNCHANGED <<row, file, index, log, overlapped>>

WriteFile(r) ==
  /\ At(r, "write")
  /\ file' = [file EXCEPT ![Flow(r)][Part(r)] = task[r].content[Part(r)]]
  /\ Onward(r, "add")
  /\ UNCHANGED <<row, index, log, overlapped>>

\* Mutant: the text of the request is staged, not the file.
AddOwnText(r) ==
  /\ At(r, "add")
  /\ index' = [index EXCEPT ![Flow(r)][Part(r)] = task[r].content[Part(r)]]
  /\ Onward(r, "commit")
  /\ UNCHANGED <<row, file, log, overlapped>>

\* git.add takes the file as it is now, and throws when it is gone.
Add(r) ==
  /\ At(r, "add")
  /\ IF file[Flow(r)][Part(r)] = NoText
     THEN task' = [task EXCEPT ![r].stage = "failed"] /\ UNCHANGED index
     ELSE /\ index' = [index EXCEPT ![Flow(r)][Part(r)] = file[Flow(r)][Part(r)]]
          /\ Onward(r, "commit")
  /\ UNCHANGED <<row, file, log, overlapped>>

\* Mutants: the user of the request is not passed on; consecutive versions of
\* a flow are squashed.
CommitByNoOne(r) ==
  /\ At(r, "commit")
  /\ log' = Append(log, [tree |-> index, flow |-> Flow(r), author |-> NoOne])
  /\ task' = [task EXCEPT ![r].stage = "done"]
  /\ UNCHANGED <<row, file, index, overlapped>>

CommitSquashes(r) ==
  /\ At(r, "commit")
  /\ LET own == log # <<>> /\ log[Len(log)].flow = Flow(r)
     IN  log' = Append(IF own THEN SubSeq(log, 1, Len(log) - 1) ELSE log,
                       [tree |-> index, flow |-> Flow(r), author |-> r])
  /\ task' = [task EXCEPT ![r].stage = "done"]
  /\ UNCHANGED <<row, file, index, overlapped>>

\* git.commit: the whole index, under the name of this request's user.
Commit(r) ==
  /\ At(r, "commit")
  /\ log' = Append(log, [tree |-> index, flow |-> Flow(r), author |-> r])
  /\ task' = [task EXCEPT ![r].stage = "done"]
  /\ UNCHANGED <<row, file, index, overlapped>>

\* captureDeletion: without a flow file there is nothing to record.
RemoveFile(r) ==
  /\ At(r, "remove")
  /\ IF file[Flow(r)][Part(r)] = NoText
     THEN /\ task' = [task EXCEPT
               ![r].stage = IF Part(r) = "flow" THEN "done" ELSE "commit",
               ![r].part = "flow"]
          /\ UNCHANGED file
     ELSE /\ file' = [file EXCEPT ![Flow(r)][Part(r)] = NoText]
          /\ task' = [task EXCEPT ![r].stage = "unstage"]
  /\ UNCHANGED <<row, index, log, overlapped>>

Unstage(r) ==
  /\ At(r, "unstage")
  /\ index' = [index EXCEPT ![Flow(r)][Part(r)] = NoText]
  /\ task' = [task EXCEPT ![r].stage = IF Part(r) = "flow" THEN "remove" ELSE "commit",
                          ![r].part  = IF Part(r) = "flow" THEN "meta" ELSE "flow"]
  /\ UNCHANGED <<row, file, log, overlapped>>

\* "Every entry point swallows its own errors": the capture stops where it is
\* and the request succeeds; the files stay as they are.
Interrupt(r) ==
  /\ "fail" \in Env
  /\ task[r].stage \in Capture
  /\ task' = [task EXCEPT ![r].stage = "failed"]
  /\ UNCHANGED <<row, file, index, log, overlapped>>

Next ==
  \E r \in Requests :
    \/ Create(r) \/ Update(r) \/ Restore(r) \/ Delete(r)
    \/ SaveRow(r) \/ DeleteRow(r)
    \/ CompareFile(r) \/ WriteFile(r) \/ Add(r) \/ Commit(r)
    \/ RemoveFile(r) \/ Unstage(r)
    \/ Interrupt(r)

Spec == Init /\ [][Next]_vars

-----------------------------------------------------------------------------
TypeOK ==
  /\ row \in [Flows -> [content : Files, by : Requests \cup {NoOne}]]
  /\ file \in Trees
  /\ index \in Trees
  /\ log \in Seq(Commits)
  /\ task \in [Requests -> Tasks]
  /\ overlapped \in BOOLEAN

AtRest == Served = {}
Failed == \E r \in Requests : At(r, "failed")
Undisturbed == ~overlapped /\ ~Failed

\* git.log with a filepath: the commits at which the flow file changes. A
\* renaming is committed, but is no entry of the history.
Changes(f) ==
  LET upto[k \in 0 .. Len(log)] ==
        IF k = 0 THEN <<>>
        ELSE IF TreeAt(k)[f]["flow"] = TreeAt(k - 1)[f]["flow"] THEN upto[k - 1]
        ELSE Append(upto[k - 1], k)
  IN  upto[Len(log)]

Versions(f) ==
  [i \in 1 .. Len(Changes(f)) |->
     [content |-> TreeAt(Changes(f)[i])[f]["flow"], author |-> log[Changes(f)[i]].author]]

History ==
  INSTANCE FlowHistory WITH
    Contents <- {c["flow"] : c \in Contents},
    Absent   <- NoText,
    People   <- Requests \cup {NoOne},
    current  <- [f \in Flows |-> row[f].content["flow"]],
    editor   <- [f \in Flows |-> row[f].by],
    hist     <- [f \in Flows |-> Versions(f)]

\* As long as captures neither overlap nor fail, the history of each flow is
\* the one FlowHistory promises: versions are recorded one at a time, each with
\* the content the flow has at that moment and the name of its editor, through
\* creations, edits, restores of any old version and deletions.
HistoryKept ==
  /\ History!Init
  /\ [][Undisturbed' => [History!Next]_(History!vars)]_vars

\* ... and no edit is missed: once nothing is being served, the last version of
\* each flow is what its row holds, both files of it.
LastVersionIsCurrent ==
  Undisturbed /\ AtRest => \A f \in Flows : HeadTree[f] = row[f].content

\* However captures overlap, they leave no file behind that is written or
\* staged but not committed: each of them stages what it finds, after its own
\* write, so the last one to commit brings the working tree in. (A deletion that
\* overlaps an edit of the same flow is outside of this.)
QuietTreeIsCommitted ==
  AtRest /\ ~Failed =>
    \A f \in Flows :
      (\A r \in Requests : Flow(r) = f => task[r].kind # "delete")
        => file[f] = HeadTree[f] /\ index[f] = HeadTree[f]

\* VersionStore.ts: "Losing a version is recoverable - the next save captures
\* the current state": after a save whose own capture went through, the current
\* content is the last version, even if an earlier capture failed.
NextSaveRecovers ==
  AtRest =>
    \A f \in Flows : row[f].by # NoOne =>
      (At(row[f].by, "done") => HeadTree[f] = row[f].content)
=============================================================================
