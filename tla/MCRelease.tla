------------------------------ MODULE MCRelease ------------------------------
(***************************************************************************)
(* Channel "16" has the versions 1 to 4, of which 4 appears later; channel *)
(* "17" has the versions 5 and 6 and a node that is no version.  The       *)
(* component "cli" is the same in all releases, "etcd" in none.            *)
(***************************************************************************)
EXTENDS ReleaseResolve
Arches == {"amd64", "arm64"}
Img(p, d) == [path |-> p, digest |-> d]
MCPayloadOf(v, a) == Img("ocp-release", <<v, a>>)
MCPayloads ==
    [p \in {MCPayloadOf(v, a) : v \in 0 .. 6, a \in Arches} |->
        [components |-> [cli |-> Img("cli", <<"cli">>), etcd |-> Img("etcd", p.digest)],
         disks |-> IF p.digest[1] \in {0, 1} THEN NoEntries
                   ELSE [a \in Arches |-> Img("rhcos", <<p.digest[1], a, "disk">>)]]]
MCSignedAtFirst == {DOMAIN MCPayloads, DOMAIN MCPayloads \ {MCPayloadOf(2, "amd64")},
                    {p \in DOMAIN MCPayloads : p.digest[1] > 4}}

\* Pairs of node positions; the graph has some of them as edges, and two that
\* are no edges.
Pairs == <<<<2, 1>>, <<3, 4>>, <<1, 4>>, <<2, 3>>, <<3, 1>>, <<2, 4>>,
           <<4, 1>>, <<4, 3>>, <<1, 2>>, <<3, 2>>, <<1, 3>>, <<4, 2>>,
           <<1, 5>>, <<2, 5>>, <<3, 5>>, <<4, 5>>>>
Graph(n, edges) == [nodes |-> SubSeq(<<3, 1, 2, 4, 5>>, 1, n),
                    edges |-> <<<<7, 1>>, <<1>>>> \o SelectSeq(Pairs, LAMBDA e : e \in edges)]
\* All graphs of four versions, and all of five without a cycle.
SomeGraphs == {Graph(4, e) : e \in SUBSET {x \in ToSet(Pairs) : x[2] # 5}} \cup
              {Graph(5, e) : e \in SUBSET {x \in ToSet(Pairs) : x[1] < x[2]}}
Upgrades == {<<2, 3>>, <<2, 1>>, <<3, 1>>, <<3, 4>>, <<1, 4>>}
Minor17 == [nodes |-> <<5, 0, 6>>, edges |-> <<>>]
Upstream(n) == [key \in {"16", "17"} \X Arches |-> IF key[1] = "16" THEN Graph(n, Upgrades) ELSE Minor17]
MCHistories == {<<Upstream(3), Upstream(4)>>}

Channel(n, min, max) ==
    [name |-> n, min |-> min, max |-> max, full |-> FALSE, shortest |-> FALSE, skipVerify |-> FALSE]
S(chs, arches, kv, blocked) == [channels |-> chs, arches |-> arches, kubeVirt |-> kv, blocked |-> blocked]
MCSpecs ==
    {S(<<Channel("16", 1, 3)>>, <<"amd64">>, FALSE, {}),
     S(<<[Channel("16", 1, 4) EXCEPT !.shortest = TRUE]>>, <<"amd64", "arm64">>, TRUE, {}),
     S(<<Channel("16", 0, 0), [Channel("17", 0, 0) EXCEPT !.full = TRUE, !.skipVerify = TRUE]>>,
       <<"arm64">>, FALSE, {Img("cli", <<>>)}),
     S(<<Channel("17", 0, 5), Channel("16", 2, 0)>>, <<"amd64">>, TRUE, {Img("etcd", <<2, "amd64">>)})}
\* Two channels that share a version, together and each alone.
SharedSpecs == {S(chs, <<"amd64">>, FALSE, {}) : chs \in {<<Channel("16", 1, 2)>>, <<Channel("16", 2, 3)>>,
                                                         <<Channel("16", 1, 2), Channel("16", 2, 3)>>}}
=============================================================================
