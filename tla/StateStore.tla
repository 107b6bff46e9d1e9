----------------------------- MODULE StateStore -----------------------------
(***************************************************************************)
(* What the image state promises across restarts of the manager, however   *)
(* it is laid out on disk: a restart finds every image that was stored,    *)
(* with progress that was stored for it, and no write drops an image the   *)
(* manager still works with, except while it moves between ImageSets.      *)
(***************************************************************************)
CONSTANTS Dests, None

VARIABLES
    live,       \* [image -> its progress, None when it is not known]
    stored,     \* [image -> what a restart may find for it]
    loaded,     \* the manager has read what is stored
    impaired,   \* a read has failed
    moving      \* images whose owners of now have not stored them yet

Init == live = [d \in Dests |-> None] /\ ~loaded /\ ~impaired

\* The manager makes progress in memory: images come, change and go.
Work == loaded /\ UNCHANGED <<stored, loaded, impaired>>

\* One write of many: it may add what is known now and drop what is older.
Write ==
    /\ UNCHANGED <<live, loaded, impaired>>
    /\ \A d \in Dests :
        /\ stored'[d] \subseteq stored[d] \cup ({live[d]} \ {None})
        /\ stored'[d] = {} => stored[d] = {} \/ (loaded /\ (live[d] = None \/ d \in moving))

Restart == ~loaded' /\ live' = [d \in Dests |-> None] /\ UNCHANGED <<stored, impaired>>
Load ==
    /\ ~loaded /\ loaded' /\ (impaired => impaired') /\ UNCHANGED stored
    /\ \A d \in Dests : live'[d] \in (IF stored[d] = {} \/ impaired' THEN stored[d] \cup {None} ELSE stored[d])
ReadFails == impaired' /\ UNCHANGED <<live, stored, loaded>>

Next == Work \/ Write \/ Restart \/ Load \/ ReadFails
Spec == Init /\ [][Next]_<<live, stored, loaded, impaired>>
=============================================================================
