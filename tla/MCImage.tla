------------------------------- MODULE MCImage -------------------------------
(***************************************************************************)
(* Package a has the channel 2, with every upgrade graph of four bundles   *)
(* that skips at most one, and the channel 1, whose head is history in 2.  *)
(* Its first bundle needs b, whose bundle needs an API that c provides; d  *)
(* is a companion of a.                                                    *)
(***************************************************************************)
EXTENDS CatalogImage
MCCandidates == [p \in {"a", "b", "c", "d"} |-> IF p = "a" THEN <<"x", "d", "c">> ELSE <<>>]
L(packages, cache, other) == [packages |-> packages, cache |-> cache, other |-> other]
MCSource == [base |-> L({}, FALSE, TRUE), fbc |-> L({"a", "b"}, TRUE, FALSE),
             mixed |-> L({"c"}, FALSE, TRUE), more |-> L({"d"}, FALSE, FALSE)]
E(n, r, s) == [name |-> n, replaces |-> r, skips |-> s]
B(p, v, req, need, prov) == [package |-> p, version |-> v, requires |-> req, needs |-> need, provides |-> prov]
Ch(p, n, es) == [package |-> p, name |-> n, entries |-> es]
Graphs == {<<E(1, 0, {}), E(2, r2, s2), E(3, r3, s3), E(4, r4, s4)>> :
              r2 \in 0..1, r3 \in 0..2, r4 \in 1..3,
              s2 \in {{}, {1}}, s3 \in {{}, {1}, {2}}, s4 \in {{}, {1}, {2}, {3}}}
MCCatalogs ==
    {[packages |-> [a |-> 2, b |-> 1, c |-> 1, d |-> 1],
      channels |-> {Ch("a", 2, g), Ch("a", 1, <<E(1, 0, {}), E(2, 1, {})>>),
                    Ch("b", 1, <<E(5, 0, {})>>), Ch("d", 1, <<E(7, 0, {})>>)},
      bundles |-> <<B("a", 1, {"b"}, {}, {}), B("a", 2, {}, {}, {}), B("a", v, {}, {}, {}),
                    B("a", 4, {}, {}, {}), B("b", 5, {"a", "none"}, {"api"}, {}),
                    B("c", 6, {}, {}, {"api"}), B("d", 7, {"a"}, {}, {"api"})>>] :
        g \in {h \in Graphs : Cardinality({i \in 1..4 : h[i].skips # {}}) <= 1}, v \in {0, 3}}
I(p) == Bare(p)
MCRequests ==
    {<<>>, <<I("a")>>, <<[I("a") EXCEPT !.previous = 2]>>,
     <<[I("a") EXCEPT !.min = 2, !.max = 3]>>, <<[I("a") EXCEPT !.channels = 1 :> [min |-> 0, max |-> 0]]>>,
     <<[I("a") EXCEPT !.channels = 2 :> [min |-> 2, max |-> 0], !.min = 1, !.max = 3]>>,
     <<[I("a") EXCEPT !.bundles = {1, 3}]>>, <<[I("a") EXCEPT !.bundles = {2, 4}]>>,
     <<[I("a") EXCEPT !.bundles = {5}]>>, <<I("d"), [I("d") EXCEPT !.min = 8]>>}
=============================================================================
