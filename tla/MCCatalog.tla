------------------------------ MODULE MCCatalog ------------------------------
(***************************************************************************)
(* A release channel and an operator catalog, whose two filters share an   *)
(* image; a new catalog version adds one.                                  *)
(***************************************************************************)
EXTENDS CatalogBuild
MCOrder == <<"channel", "catalog">>
MCContent ==
    [channel |-> [k \in {1} |-> [d \in Digests |-> {"payload"}]],
     catalog |-> [k \in {1, 2} |-> [d \in Digests |-> IF k = 2 THEN {"b"} ELSE IF d = 1 THEN {"a"} ELSE {"a", "b"}]]]
MCSpecs == {[channel |-> 1, catalog |-> o] : o \in {1, 2}}
=============================================================================
