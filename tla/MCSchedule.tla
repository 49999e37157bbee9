----------------------------- MODULE MCSchedule -----------------------------
(* Instances of Schedule: two cron expressions with different slots, and   *)
(* Start nodes that are fine, that end, and that cannot be enabled.        *)
EXTENDS Schedule, TLC

CONSTANTS ca, cb, cf

MCCrons == {ca, cb, cf}
MCSlots == (ca :> {1, 2}) @@ (cb :> {2}) @@ (cf :> {2})
Ask(cron, input, ends, mode) == [cron |-> cron, input |-> input, ends |-> ends, mode |-> mode]

Ends == Ask(ca, TRUE, MaxTime, TRUE)
MCConfigs == {Ends, Ask(cb, TRUE, Never, TRUE), Ask(cf, TRUE, Never, TRUE)}
MCStored == {None, Ends}
=============================================================================
