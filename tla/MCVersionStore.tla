---------------------------- MODULE MCVersionStore ----------------------------
(***************************************************************************)
(* Three contents that differ in the flow file, in the meta file or both:   *)
(* an edit, a renaming, and the two at once.                                *)
(***************************************************************************)
EXTENDS VersionStore, TLC

CONSTANTS a, b, name

C(flow, meta) == [p \in Parts |-> IF p = "flow" THEN flow ELSE meta]

MCContents == {C(a, name), C(b, name), C(b, a)}
MCSymmetry == Permutations(Requests) \cup Permutations(Flows)
=============================================================================
