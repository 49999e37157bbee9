----------------------------- MODULE FlowHistory -----------------------------
(***************************************************************************)
(* What the version store promises to whoever opens the history of a flow:  *)
(* a list of the contents the flow has had, each under the name of the      *)
(* person who gave it that content, with nothing of files, indexes or       *)
(* commits. VersionStore implements it while captures neither overlap nor   *)
(* fail.                                                                    *)
(***************************************************************************)
EXTENDS Sequences, Naturals

CONSTANTS
  Flows,
  Contents,  \* what a flow may contain
  Absent,    \* the content of a flow that does not exist
  People

VARIABLES
  current,   \* the content of each flow
  editor,    \* who gave it that content
  hist       \* the history shown for each flow, oldest version first

vars == <<current, editor, hist>>

Init ==
  /\ current = [f \in Flows |-> Absent]
  /\ editor \in [Flows -> People]
  /\ hist = [f \in Flows |-> <<>>]

LastContent(h) == IF h = <<>> THEN Absent ELSE h[Len(h)].content

Edit(f) ==
  /\ \E v \in Contents \cup {Absent} : current' = [current EXCEPT ![f] = v]
  /\ \E p \in People : editor' = [editor EXCEPT ![f] = p]
  /\ UNCHANGED hist

\* A version is the current content, by its editor, and differs from the last.
Record(f) ==
  /\ current[f] # LastContent(hist[f])
  /\ hist' = [hist EXCEPT ![f] =
                Append(@, [content |-> current[f], author |-> editor[f]])]
  /\ UNCHANGED <<current, editor>>

Next == \E f \in Flows : Edit(f) \/ Record(f)

Spec == Init /\ [][Next]_vars
=============================================================================
