------------------------- MODULE ExecutionLifecycle -------------------------
(***************************************************************************)
(* What the Execution rows of one chat session promise to whoever reads     *)
(* them (the executions list, the resume branch, the schedule log), with    *)
(* nothing of how the engine keeps the promise: AgentFlow implements it as  *)
(* long as the requests of the session do not overlap.                      *)
(***************************************************************************)
EXTENDS Sequences, Integers

VARIABLE life   \* the stage of each execution of the session, oldest first

(* "running"   a request is, or died, working on it                          *)
(* "paused"    waits for human input                                         *)
(* "retryable" failed right after a pause; human input may be sent again     *)
(* "closed"    finished, failed or cancelled                                 *)
Stages == {"running", "paused", "retryable", "closed"}

Init == life = <<>>

Begin == life' = Append(life, "running")

\* A run that ends settles its execution.
Settle(i) ==
  /\ life[i] = "running"
  /\ \E s \in {"paused", "retryable", "closed"} : life' = [life EXCEPT ![i] = s]

\* Human input reaches the newest execution only, and only at a pause.
Reopen(i) ==
  /\ i = Len(life)
  /\ life[i] \in {"paused", "retryable"}
  /\ life' = [life EXCEPT ![i] = "running"]

Next == Begin \/ \E i \in 1 .. Len(life) : Settle(i) \/ Reopen(i)

Spec == Init /\ [][Next]_life
=============================================================================
