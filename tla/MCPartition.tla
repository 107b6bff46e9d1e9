----------------------------- MODULE MCPartition -----------------------------
(***************************************************************************)
(* Two ImageSets that share the image s, until an edit takes it from one   *)
(* of them.                                                                *)
(***************************************************************************)
EXTENDS PartitionedState
MCWants == {[a |-> {"s", "x"}, b |-> {"s"}], [a |-> {"x"}, b |-> {"s"}]}
MCTargets == {<<"a">>, <<"a", "b">>}
MCLegacies == {[s |-> {}, x |-> {}], [s |-> {"a", "b"}, x |-> {"a"}]}
=============================================================================
