----------------------------- MODULE MCCleanup -----------------------------
(***************************************************************************)
(* Two ImageSets and two names of one manifest: "a" wants the digest       *)
(* reference and "b" the digest-derived tag.                               *)
(***************************************************************************)
EXTENDS Cleanup
MCManifest == [d \in Dests |-> "m"]
MCKind == [d \in Dests |-> d]
MCWant == [s \in ImageSets |-> IF s = "a" THEN {"digest"} ELSE {"digestTag"}]
=============================================================================
