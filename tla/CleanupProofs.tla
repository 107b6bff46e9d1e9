---------------------------- MODULE CleanupProofs ----------------------------
(***************************************************************************)
(* Proofs about the cleanup: for any number of ImageSets, images, edits    *)
(* and failures, no cleanup Job takes an image that was wanted all along,  *)
(* and no cleanup is forgotten.                                            *)
(***************************************************************************)
EXTENDS Cleanup, TLAPS

\* What liveImages.needs relies on.  repoAndDigest finds the digest of a
\* digest reference and of a digest-derived tag in their names; a plain tag of
\* the same manifest would go unnoticed.
PlainTagsApart ==
    \A d, e \in Dests : Kind[d] = "tag" /\ Kind[e] = "digest" => Manifest[d] # Manifest[e]

-----------------------------------------------------------------------------
(***************************************************************************)
(* The inductive invariants.                                               *)
(***************************************************************************)
IsCopy(x) ==
    x = [spec |-> x.spec, known |-> x.known, pending |-> x.pending, policy |-> x.policy,
         orphans |-> x.orphans, name |-> x.name, shared |-> x.shared, todo |-> x.todo]

Shape ==
    /\ spec \subseteq ImageSets /\ want \in [ImageSets -> SUBSET Dests]
    /\ known \subseteq ImageSets /\ pending \subseteq Names
    /\ DOMAIN mem = Dests /\ DOMAIN cm = ImageSets
    /\ DOMAIN snap = Names /\ DOMAIN job = Names /\ DOMAIN work = Names
    /\ \A n \in Names : work[n] \subseteq Dests
    /\ IsCopy(c) /\ c.spec \subseteq ImageSets /\ c.known \subseteq ImageSets
    /\ c.pending \subseteq Names

\* An ImageSet that has been listed and has wanted an image all along owns it
\* in the manager's working set and in its state ConfigMap (Held), is none of
\* those the controller removes (Spared), and no Job has the image in its
\* reach.
Held(s, d) == s \in owners[d] /\ mem[d] # Absent /\ cm[s][d] # Absent
Spared(s) == cpc # "idle" => s \in c.spec \ c.todo /\ c.name # s
OutOfReach(d) ==
    \A n \in Names, e \in Dests :
        e \in work[n] \/ snap[n].state[e] # Absent => d \notin Deletes(e)
KeepInv ==
    /\ Shape
    /\ \A s \in spec : \A d \in want[s] \ readded : Held(s, d) /\ Spared(s) /\ OutOfReach(d)

\* What the copy of the MirrorTarget that a reconcile works on says, and that a
\* cleanup is only taken off its list when there is nothing left to clean.
Done(n) == ~snap[n].live \/ (cpc = "error" /\ n \in c.known \ c.spec)
PendingInv ==
    /\ \A n \in Names : job[n] = "succeeded" => ~snap[n].live
    /\ cpc # "idle" =>
         /\ c.known = known /\ c.todo \subseteq c.known \ c.spec
         /\ ~touched => spec = c.spec
         /\ \A n \in pending \ c.pending : Done(n)

-----------------------------------------------------------------------------
(***************************************************************************)
(* The operators.                                                          *)
(***************************************************************************)
LEMMA OnlyIn ==
    ASSUME NEW state, NEW D, NEW d \in Dests
    PROVE  /\ Only(state, D)[d] = IF d \in D THEN state[d] ELSE Absent
           /\ NoState[d] = Absent /\ NoSnap.state[d] = Absent /\ ~NoSnap.live
  BY DEF Only, NoState, NoSnap

\* liveImages.needs answers for everything whose deletion takes a live image.
LEMMA NeedsCovers ==
    ASSUME PlainTagsApart, NEW live, NEW d \in live, d \in Dests, NEW e \in Dests,
           d \in Deletes(e)
    PROVE  Needs(live, e)
  BY CleanupAssumption DEF PlainTagsApart, Deletes, Needs

LEMMA CopyWith ==
    ASSUME NEW x, IsCopy(x), NEW v
    PROVE  /\ IsCopy([x EXCEPT !.orphans = v])
           /\ [x EXCEPT !.orphans = v].spec = x.spec /\ [x EXCEPT !.orphans = v].todo = x.todo
           /\ [x EXCEPT !.orphans = v].name = x.name /\ [x EXCEPT !.orphans = v].known = x.known
           /\ [x EXCEPT !.orphans = v].pending = x.pending
  BY DEF IsCopy

\* What QueueOrphans and Partition may do, one alternative per line of theirs.
LEMMA QueueEffect ==
    ASSUME QueueOrphans
    PROVE  LET gone == {d \in In(c.orphans) : ~Needs(Live("orphans"), d)} IN
           \/ cpc' = "clear" /\ c' = [c EXCEPT !.orphans = NoState] /\ UNCHANGED <<snap, job, work>>
           \/ /\ cpc' = "removed" /\ c' = [c EXCEPT !.orphans = NoState]
              /\ DeleteJob("orphans") /\ DropSnap("orphans")
           \/ /\ cpc' = "clear"
              /\ c' = [c EXCEPT !.orphans = NoState, !.pending = @ \cup {"orphans"}]
              /\ ~Stale("orphans") /\ SetSnap("orphans", Only(c.orphans, gone)) /\ CreateJob("orphans")
<1> DEFINE gone == {d \in In(c.orphans) : ~Needs(Live("orphans"), d)}
<1>1. CASE gone = {}
  BY <1>1 DEF QueueOrphans, Goto
<1>2. CASE gone # {} /\ Stale("orphans")
  BY <1>2 DEF QueueOrphans, Goto
<1>3. CASE gone # {} /\ ~Stale("orphans")
  BY <1>3 DEF QueueOrphans, Goto
<1> QED BY <1>1, <1>2, <1>3

Exclusive(s) == {d \in In(cm[s]) : ~(Cardinality(index[d]) >= 2 \/ Needs(Live(s), d))}

LEMMA PartitionEffect ==
    ASSUME NEW s \in ImageSets, Partition(s)
    PROVE  \E shared :
           LET here == [c EXCEPT !.name = s, !.shared = shared, !.todo = @ \ {s}] IN
           \/ cpc' = "commit" /\ c' = here /\ UNCHANGED <<snap, job, work>>
           \/ /\ cpc' = "error" /\ UNCHANGED c
              /\ DeleteJob(s) /\ SetSnap(s, Only(cm[s], Exclusive(s)))
           \/ /\ cpc' = "commit" /\ c' = [here EXCEPT !.pending = @ \cup {s}]
              /\ ~Stale(s) /\ SetSnap(s, Only(cm[s], Exclusive(s))) /\ CreateJob(s)
<1> DEFINE shared == {d \in In(cm[s]) : Cardinality(index[d]) >= 2 \/ Needs(Live(s), d)}
           exclusive == In(cm[s]) \ shared
           here == [c EXCEPT !.name = s, !.shared = shared, !.todo = @ \ {s}]
<1>1. exclusive = Exclusive(s)
  BY DEF Exclusive
<1>2. CASE exclusive = {}
  <2>1. cpc' = "commit" /\ c' = here /\ UNCHANGED <<snap, job, work>>
    BY <1>2 DEF Partition, Goto
  <2> QED BY <2>1
<1>3. CASE exclusive # {} /\ Stale(s)
  <2>1. cpc' = "error" /\ UNCHANGED c /\ DeleteJob(s) /\ SetSnap(s, Only(cm[s], exclusive))
    BY <1>3 DEF Partition, Goto
  <2> QED BY <1>1, <2>1
<1>4. CASE exclusive # {} /\ ~Stale(s)
  <2>1. /\ cpc' = "commit" /\ c' = [here EXCEPT !.pending = @ \cup {s}]
        /\ SetSnap(s, Only(cm[s], exclusive)) /\ CreateJob(s)
    BY <1>4 DEF Partition, Goto
  <2> QED BY <1>1, <1>4, <2>1
<1> QED BY <1>2, <1>3, <1>4

-----------------------------------------------------------------------------
(***************************************************************************)
(* Shape is an invariant.                                                  *)
(***************************************************************************)
LEMMA ReconcileShape ==
    ASSUME Shape, Reconcile
    PROVE  Shape'
<1>1. UNCHANGED <<spec, want, mem>> /\ ImageSets \subseteq Names /\ "orphans" \in Names
  BY DEF Reconcile, Start, LoadOrphans, QueueOrphans, QueueOrphansFails, ClearOrphans, Commit,
         Finish, FinishWithError, LaterStepFails, WriteStatus, ControllerRestart, Partition,
         PartitionFails, userVars, mgrVars, Names
<1>2. IsCopy(IdleC) /\ IdleC.spec = {} /\ IdleC.known = {} /\ IdleC.pending = {}
  BY DEF IdleC, IsCopy
<1>3. CASE Start
  <2>1. /\ UNCHANGED <<known, pending, cm, snap>> /\ DOMAIN job' = Names /\ DOMAIN work' = Names
        /\ \A n \in Names : work'[n] \in {work[n], {}}
    BY <1>3 DEF Start, statusVars
  <2>2. /\ IsCopy(c') /\ c'.spec = spec /\ c'.known = known /\ c'.pending \subseteq pending
    BY <1>3 DEF Start, IdleC, IsCopy
  <2> QED BY <1>1, <2>1, <2>2 DEF Shape
<1>4. CASE LoadOrphans \/ QueueOrphans \/ QueueOrphansFails \/ ClearOrphans \/ Commit
  <2>1. /\ UNCHANGED <<known, pending>> /\ DOMAIN cm' = DOMAIN cm
        /\ DOMAIN snap' = DOMAIN snap /\ DOMAIN job' = DOMAIN job /\ DOMAIN work' = DOMAIN work
    BY <1>4, QueueEffect DEF LoadOrphans, QueueOrphans, QueueOrphansFails, ClearOrphans, Commit,
         DropSnap, SetSnap, DeleteJob, CreateJob, statusVars, jobVars
  <2>2. \A n \in Names : work'[n] \in {work[n], {}}
    BY <1>4, QueueEffect DEF LoadOrphans, QueueOrphansFails, ClearOrphans, Commit,
         DeleteJob, CreateJob, jobVars, Shape
  <2>3. \/ c' = c \/ (\E v : c' = [c EXCEPT !.orphans = v])
        \/ c' = [c EXCEPT !.orphans = NoState, !.pending = @ \cup {"orphans"}]
        \/ c' = [c EXCEPT !.shared = {}, !.name = "orphans"]
    BY <1>4, QueueEffect DEF LoadOrphans, QueueOrphansFails, ClearOrphans, Commit
  <2>4. /\ IsCopy(c') /\ c'.spec = c.spec /\ c'.known = c.known
        /\ c'.pending \subseteq c.pending \cup {"orphans"}
    <3>1. CASE c' = c
      BY <3>1 DEF Shape
    <3>2. ASSUME NEW v, c' = [c EXCEPT !.orphans = v]
          PROVE  IsCopy(c') /\ c'.spec = c.spec /\ c'.known = c.known /\ c'.pending = c.pending
      BY <3>2, CopyWith DEF Shape
    <3>3. CASE \/ c' = [c EXCEPT !.orphans = NoState, !.pending = @ \cup {"orphans"}]
               \/ c' = [c EXCEPT !.shared = {}, !.name = "orphans"]
      BY <3>3 DEF IsCopy, Shape
    <3> QED BY <2>3, <3>1, <3>2, <3>3
  <2> QED BY <1>1, <2>1, <2>2, <2>4 DEF Shape
<1>5. CASE Finish \/ FinishWithError \/ LaterStepFails \/ ControllerRestart
  <2>1. /\ UNCHANGED <<cm, snap, job, work>> /\ c' = IdleC
        /\ known' \in {known, c.spec, c.known} /\ pending' \in {pending, c.pending}
    BY <1>5 DEF Finish, FinishWithError, LaterStepFails, WriteStatus, ControllerRestart,
                jobVars, statusVars
  <2> QED BY <1>1, <1>2, <2>1 DEF Shape
<1>6. ASSUME NEW s \in ImageSets, Partition(s) \/ PartitionFails(s) PROVE Shape'
  <2>1. UNCHANGED <<known, pending, cm>>
    BY <1>6 DEF Partition, PartitionFails, statusVars
  <2>2. CASE PartitionFails(s)
    BY <1>1, <2>1, <2>2 DEF PartitionFails, DropSnap, jobVars, Shape
  <2>3. CASE Partition(s)
    <3>1. PICK shared :
           LET here == [c EXCEPT !.name = s, !.shared = shared, !.todo = @ \ {s}] IN
           \/ cpc' = "commit" /\ c' = here /\ UNCHANGED <<snap, job, work>>
           \/ /\ cpc' = "error" /\ UNCHANGED c
              /\ DeleteJob(s) /\ SetSnap(s, Only(cm[s], Exclusive(s)))
           \/ /\ cpc' = "commit" /\ c' = [here EXCEPT !.pending = @ \cup {s}]
              /\ ~Stale(s) /\ SetSnap(s, Only(cm[s], Exclusive(s))) /\ CreateJob(s)
      BY <2>3, PartitionEffect
    <3>2. /\ IsCopy(c') /\ c'.spec = c.spec /\ c'.known = c.known
          /\ c'.pending \subseteq c.pending \cup {s}
      BY <3>1 DEF IsCopy, Shape
    <3>3. /\ DOMAIN snap' = Names /\ DOMAIN job' = Names /\ DOMAIN work' = Names
          /\ \A m \in Names : work'[m] \in {work[m], {}}
      BY <1>1, <3>1 DEF DeleteJob, SetSnap, CreateJob, Shape
    <3> QED BY <1>1, <2>1, <3>2, <3>3 DEF Shape
  <2> QED BY <1>6, <2>2, <2>3
<1> QED BY <1>3, <1>4, <1>5, <1>6 DEF Reconcile

LEMMA ShapeStep ==
    ASSUME Shape, [Next]_vars
    PROVE  Shape'
<1>1. CASE UNCHANGED vars
  BY <1>1 DEF vars, userVars, statusVars, jobVars, mgrVars, ctlVars, Shape
<1>2. CASE User
  <2>1. UNCHANGED <<known, pending, mem, cm, snap, job, work, c>>
    BY <1>2 DEF User, EditTarget, EditImageSet, EditPolicy, statusVars, jobVars, mgrVars, ctlVars
  <2>2. spec' \subseteq ImageSets /\ want' \in [ImageSets -> SUBSET Dests]
    <3>1. CASE EditPolicy
      BY <3>1 DEF EditPolicy, Shape
    <3>2. ASSUME NEW s \in ImageSets, EditTarget(s)
          PROVE  spec' \subseteq ImageSets /\ want' \in [ImageSets -> SUBSET Dests]
      BY <3>2 DEF EditTarget, Shape
    <3>3. ASSUME NEW s \in ImageSets, NEW d \in Dests, EditImageSet(s, d)
          PROVE  spec' \subseteq ImageSets /\ want' \in [ImageSets -> SUBSET Dests]
      BY <3>3 DEF EditImageSet, Shape
    <3> QED BY <1>2, <3>1, <3>2, <3>3 DEF User
  <2> QED BY <2>1, <2>2 DEF Shape
<1>3. CASE Manager
  <2>1. UNCHANGED <<spec, want, known, pending, snap, job, work, c>>
    BY <1>3 DEF Manager, TickOK, TickResolveFails, ManagerTick, AppendOrphans, AppendFails,
         FlushIndex, ManagerRestart, FlushState, FlushFails, MirrorImage, DriftFound,
         userVars, statusVars, jobVars, ctlVars
  <2>2. DOMAIN mem' = Dests /\ DOMAIN cm' = ImageSets
    BY <1>3 DEF Manager, TickOK, TickResolveFails, ManagerTick, AppendOrphans, AppendFails,
         FlushIndex, ManagerRestart, FlushState, FlushFails, MirrorImage, DriftFound, Shape
  <2> QED BY <2>1, <2>2 DEF Shape
<1>4. ASSUME NEW n \in Names, Job(n) PROVE Shape'
  <2>1. UNCHANGED <<spec, want, known, pending, mem, cm, c>>
    BY <1>4 DEF Job, PodLoad, PodDone, PodFails, JobExpires, userVars, statusVars, mgrVars, ctlVars
  <2>2. /\ DOMAIN snap' = Names /\ DOMAIN job' = Names /\ DOMAIN work' = Names
        /\ \A m \in Names : m # n => work'[m] = work[m]
        /\ work'[n] \in {{}, {d \in Dests : snap[n].state[d] = "Mirrored"}}
    BY <1>4 DEF Job, PodLoad, PodDone, PodFails, JobExpires, DropSnap, DeleteJob, Shape
  <2> QED BY <2>1, <2>2 DEF Shape
<1> QED BY <1>1, <1>2, <1>3, <1>4, ReconcileShape DEF Next

-----------------------------------------------------------------------------
(***************************************************************************)
(* KeepInv is an invariant.                                                *)
(***************************************************************************)
LEMMA KeepInit == Init => KeepInv
<1> SUFFICES ASSUME Init PROVE KeepInv
  OBVIOUS
<1>1. want \in [ImageSets -> SUBSET Dests] /\ spec = ImageSets
  BY CleanupAssumption DEF Init
<1>2. IsCopy(c) /\ c.spec = {} /\ c.known = {} /\ c.pending = {} /\ cpc = "idle"
  BY DEF Init, IdleC, IsCopy
<1>3. Shape
  BY <1>1, <1>2 DEF Init, Shape
<1>4. ASSUME NEW s \in spec, NEW d \in want[s]
      PROVE  Held(s, d) /\ OutOfReach(d)
  <2>1. s \in ImageSets /\ d \in Dests /\ d \in registry
    BY <1>1, <1>4 DEF Init
  <2>2. mem[d] = "Mirrored" /\ s \in owners[d] /\ cm[s] = Only(mem, want[s])
    BY <2>1 DEF Init
  <2>3. cm[s][d] = "Mirrored"
    BY <2>1, <2>2, OnlyIn, <1>4
  <2>4. \A n \in Names, e \in Dests : work[n] = {} /\ snap[n].state[e] = Absent
    BY OnlyIn DEF Init
  <2> QED BY <2>2, <2>3, <2>4 DEF Held, OutOfReach, Absent
<1> QED BY <1>2, <1>3, <1>4 DEF KeepInv, Spared

LEMMA UserKeeps ==
    ASSUME KeepInv, Shape', User
    PROVE  KeepInv'
<1>1. /\ UNCHANGED <<known, pending, owners, mem, cm, snap, job, work, cpc, c>>
      /\ readded \subseteq readded'
  BY DEF User, EditTarget, EditImageSet, EditPolicy, statusVars, jobVars, mgrVars, ctlVars
<1>3. ASSUME NEW s \in spec', NEW d \in want'[s] \ readded'
      PROVE  s \in spec /\ d \in want[s] \ readded
  <2>1. CASE EditPolicy
    BY <1>1, <1>3, <2>1 DEF EditPolicy
  <2>2. ASSUME NEW t \in ImageSets, EditTarget(t) PROVE s \in spec /\ d \in want[s] \ readded
    BY <1>1, <1>3, <2>2 DEF EditTarget
  <2>3. ASSUME NEW t \in ImageSets, NEW e \in Dests, EditImageSet(t, e)
        PROVE  s \in spec /\ d \in want[s] \ readded
    BY <1>1, <1>3, <2>3 DEF EditImageSet, KeepInv, Shape
  <2> QED BY <2>1, <2>2, <2>3 DEF User
<1>4. ASSUME NEW s \in spec', NEW d \in want'[s] \ readded'
      PROVE  Held(s, d)' /\ Spared(s)' /\ OutOfReach(d)'
  BY <1>1, <1>3, <1>4 DEF KeepInv, Held, Spared, OutOfReach
<1> QED BY <1>4 DEF KeepInv

\* A tick keeps the entry of an image an ImageSet goes on wanting, also one
\* whose resolve fails.
LEMMA TickKeeps ==
    ASSUME NEW R, ManagerTick(spec, R), NEW s \in spec, NEW d \in want[s], d \in Dests,
           s \in owners[d], mem[d] # Absent
    PROVE  s \in owners'[d] /\ mem'[d] # Absent
<1> DEFINE own == MergedOwners(spec, R)
           kept == [x \in Dests |-> IF x \in Dropped(spec) THEN Absent ELSE mem[x]]
<1>1. d \notin Dropped(spec)
  BY DEF Dropped
<1>2. kept[d] = mem[d]
  BY <1>1
<1>3. s \in own[d]
  BY DEF MergedOwners
<1>4. owners' = own
  BY DEF ManagerTick
<1>5. mem'[d] = IF own[d] = {} THEN Absent
                ELSE IF kept[d] # Absent THEN kept[d]
                ELSE IF d \in mirrored \ Dropped(spec) THEN "Mirrored" ELSE "Pending"
  BY DEF ManagerTick
<1> QED BY <1>2, <1>3, <1>4, <1>5

LEMMA ManagerKeeps ==
    ASSUME KeepInv, Shape', Manager
    PROVE  KeepInv'
<1>1. UNCHANGED <<spec, want, readded, known, pending, snap, job, work, cpc, c>>
  BY DEF Manager, TickOK, TickResolveFails, ManagerTick, AppendOrphans, AppendFails, FlushIndex,
         ManagerRestart, FlushState, FlushFails, MirrorImage, DriftFound,
         userVars, statusVars, jobVars, ctlVars
<1>4. ASSUME NEW s \in spec, NEW d \in want[s] \ readded
      PROVE  Held(s, d)'
  <2>1. s \in ImageSets /\ d \in Dests /\ Held(s, d) /\ DOMAIN mem = Dests /\ DOMAIN cm = ImageSets
    BY <1>4 DEF KeepInv, Shape
  <2>2. ASSUME NEW R, ManagerTick(spec, R) PROVE Held(s, d)'
    <3>1. s \in owners'[d] /\ mem'[d] # Absent
      BY <1>4, <2>1, <2>2, TickKeeps DEF Held
    <3>2. cm' = cm
      BY <2>2 DEF ManagerTick
    <3> QED BY <2>1, <3>1, <3>2 DEF Held
  <2>3. CASE AppendOrphans \/ AppendFails \/ FlushIndex
    BY <2>1, <2>3 DEF AppendOrphans, AppendFails, FlushIndex, Held
  <2>4. CASE ManagerRestart
    <3>1. cm' = cm /\ s \in owners'[d]
      BY <2>1, <2>4 DEF ManagerRestart, Held
    <3>2. mem'[d] \in {"Mirrored", "Pending"}
      BY <2>1, <2>4, <3>1 DEF ManagerRestart
    <3> QED BY <2>1, <3>1, <3>2 DEF Held, Absent
  <2>5. ASSUME NEW t \in ImageSets, FlushState(t) \/ FlushFails(t) PROVE Held(s, d)'
    <3>1. UNCHANGED <<mem, owners>>
      BY <2>5 DEF FlushState, FlushFails
    <3>2. cm'[s] \in {cm[s], Only(mem, {x \in Dests : s \in owners[x]})}
      <4>1. CASE FlushState(t)
        <5>1. cm' = [cm EXCEPT ![t] = Only(mem, {x \in Dests : t \in owners[x]})]
          BY <4>1 DEF FlushState
        <5> QED BY <2>1, <5>1
      <4>2. CASE FlushFails(t)
        <5>1. PICK T : cm' = [u \in ImageSets |->
                                IF u \in T THEN Only(mem, {x \in Dests : u \in owners[x]})
                                ELSE cm[u]]
          BY <4>2 DEF FlushFails
        <5> QED BY <2>1, <5>1
      <4> QED BY <2>5, <4>1, <4>2
    <3>3. Only(mem, {x \in Dests : s \in owners[x]})[d] = mem[d]
      BY <2>1, OnlyIn DEF Held
    <3> QED BY <2>1, <3>1, <3>2, <3>3 DEF Held
  <2>6. ASSUME NEW e \in Dests, MirrorImage(e) \/ DriftFound(e) PROVE Held(s, d)'
    <3>1. UNCHANGED <<cm, owners>> /\ mem'[d] \in {mem[d], "Mirrored", "Pending"}
      BY <2>1, <2>6 DEF MirrorImage, DriftFound
    <3> QED BY <2>1, <3>1 DEF Held, Absent
  <2> QED BY <2>2, <2>3, <2>4, <2>5, <2>6 DEF Manager, TickOK, TickResolveFails
<1>5. ASSUME NEW s \in spec, NEW d \in want[s] \ readded
      PROVE  Spared(s)' /\ OutOfReach(d)'
  BY <1>1, <1>5 DEF KeepInv, Spared, OutOfReach
<1> QED BY <1>1, <1>4, <1>5 DEF KeepInv

LEMMA JobKeeps ==
    ASSUME KeepInv, Shape', NEW n \in Names, Job(n)
    PROVE  KeepInv'
<1>1. UNCHANGED <<spec, want, readded, known, pending, owners, mem, cm, cpc, c>>
  BY DEF Job, PodLoad, PodDone, PodFails, JobExpires, userVars, statusVars, mgrVars, ctlVars
<1>2. /\ \A m \in Names : m # n => work'[m] = work[m] /\ snap'[m] = snap[m]
      /\ snap'[n] \in {snap[n], NoSnap}
      /\ work'[n] \in {{}, {d \in Dests : snap[n].state[d] = "Mirrored"}}
  BY DEF Job, PodLoad, PodDone, PodFails, JobExpires, DropSnap, DeleteJob, KeepInv, Shape
<1>4. ASSUME NEW m \in Names, NEW e \in Dests, e \in work'[m] \/ snap'[m].state[e] # Absent
      PROVE  e \in work[m] \/ snap[m].state[e] # Absent
  <2>1. CASE m # n
    BY <1>2, <1>4, <2>1
  <2>2. CASE m = n
    BY <1>2, <1>4, <2>2, OnlyIn DEF Absent
  <2> QED BY <2>1, <2>2
<1>5. ASSUME NEW s \in spec, NEW d \in want[s] \ readded
      PROVE  Held(s, d)' /\ Spared(s)' /\ OutOfReach(d)'
  <2>1. Held(s, d)' /\ Spared(s)'
    BY <1>1, <1>5 DEF KeepInv, Held, Spared
  <2>2. OutOfReach(d)
    BY <1>5 DEF KeepInv
  <2>3. OutOfReach(d)'
    BY <1>4, <2>2 DEF OutOfReach, Deletes
  <2> QED BY <2>1, <2>3
<1> QED BY <1>1, <1>5 DEF KeepInv

\* The steps of a reconcile that leave snapshots, Jobs and ConfigMaps of
\* ImageSets alone.
LEMMA CopyKeeps ==
    ASSUME KeepInv, Shape', UNCHANGED <<spec, want, readded, owners, mem, cm>>,
           \A s \in spec : Spared(s) => Spared(s)',
           \A n \in Names : work'[n] \in {work[n], {}} /\ snap'[n] \in {snap[n], NoSnap}
    PROVE  KeepInv'
<1>1. ASSUME NEW s \in spec, NEW d \in want[s] \ readded
      PROVE  Held(s, d)' /\ Spared(s)' /\ OutOfReach(d)'
  <2>1. Held(s, d) /\ Spared(s) /\ OutOfReach(d)
    BY <1>1 DEF KeepInv
  <2>2. Held(s, d)' /\ Spared(s)'
    BY <1>1, <2>1 DEF Held
  <2>3. ASSUME NEW n \in Names, NEW e \in Dests, e \in work'[n] \/ snap'[n].state[e] # Absent
        PROVE  e \in work[n] \/ snap[n].state[e] # Absent
    BY <2>3, OnlyIn
  <2>4. OutOfReach(d)'
    BY <2>1, <2>3 DEF OutOfReach, Deletes
  <2> QED BY <2>2, <2>4
<1> QED BY <1>1 DEF KeepInv

\* A snapshot of images that no live image needs.
LEMMA SnapKeeps ==
    ASSUME PlainTagsApart, KeepInv, Shape', UNCHANGED <<spec, want, readded, owners, mem, cm>>,
           cpc # "idle", NEW n \in Names, NEW state, NEW gone,
           \A s \in spec : Spared(s) => Spared(s)',
           \A s \in c.spec \ c.todo : s # n,
           \A m \in Names : work'[m] \in {work[m], {}} /\ (m # n => snap'[m] = snap[m]),
           snap'[n].state = Only(state, gone),
           \A e \in gone : ~Needs(Live(n), e)
    PROVE  KeepInv'
<1>1. ASSUME NEW s \in spec, NEW d \in want[s] \ readded
      PROVE  Held(s, d)' /\ Spared(s)' /\ OutOfReach(d)'
  <2>1. Held(s, d) /\ Spared(s) /\ OutOfReach(d)
    BY <1>1 DEF KeepInv
  <2>2. Held(s, d)' /\ Spared(s)'
    BY <1>1, <2>1 DEF Held
  <2>3. d \in Dests /\ d \in Live(n)
    <3>1. d \in Dests /\ s \in c.spec \ c.todo /\ cm[s][d] # Absent
      BY <1>1, <2>1 DEF KeepInv, Shape, Spared, Held
    <3> QED BY <3>1 DEF Live
  <2>4. ASSUME NEW m \in Names, NEW e \in Dests, e \in work'[m] \/ snap'[m].state[e] # Absent
        PROVE  d \notin Deletes(e)
    <3>1. CASE e \in work[m] \/ snap[m].state[e] # Absent
      BY <2>1, <3>1 DEF OutOfReach
    <3>2. CASE ~(e \in work[m] \/ snap[m].state[e] # Absent)
      <4>1. m = n /\ snap'[m].state[e] # Absent
        BY <2>4, <3>2
      <4>2. e \in gone
        BY <4>1, OnlyIn
      <4> QED BY <2>3, <4>2, NeedsCovers
    <3> QED BY <3>1, <3>2
  <2>5. OutOfReach(d)'
    BY <2>4 DEF OutOfReach, Deletes
  <2> QED BY <2>2, <2>5
<1> QED BY <1>1 DEF KeepInv

LEMMA ReconcileKeeps ==
    ASSUME PlainTagsApart, KeepInv, Shape', Reconcile
    PROVE  KeepInv'
<1>1. UNCHANGED <<spec, want, readded, owners, mem>>
  BY DEF Reconcile, Start, LoadOrphans, QueueOrphans, QueueOrphansFails, ClearOrphans, Commit,
         Finish, FinishWithError, LaterStepFails, WriteStatus, ControllerRestart, Partition,
         PartitionFails, userVars, mgrVars
<1>2. /\ IsCopy(c) /\ c.spec \subseteq ImageSets /\ c.known \subseteq ImageSets
      /\ c.pending \subseteq Names
      /\ spec \subseteq ImageSets /\ known \subseteq ImageSets /\ pending \subseteq Names
      /\ "orphans" \in Names /\ "orphans" \notin ImageSets /\ ImageSets \subseteq Names
  BY CleanupAssumption DEF KeepInv, Shape, Names
<1>3. IsCopy(IdleC) /\ IdleC.spec = {} /\ IdleC.known = {} /\ IdleC.pending = {}
  BY DEF IdleC, IsCopy
<1>4. CASE Start
  <2>1. /\ UNCHANGED <<known, pending, cm, snap>> /\ DOMAIN job' = Names /\ DOMAIN work' = Names
        /\ \A n \in Names : work'[n] \in {work[n], {}}
    BY <1>4 DEF Start, statusVars
  <2>2. /\ IsCopy(c') /\ c'.spec = spec /\ c'.todo = known \ spec /\ c'.name = "orphans"
        /\ c'.known = known /\ c'.pending \subseteq pending
    BY <1>4 DEF Start, IdleC, IsCopy
  <2>4. \A s \in spec : Spared(s)'
    BY <1>2, <2>2 DEF Spared
  <2> QED BY <1>1, <2>1, <2>4, CopyKeeps
<1>5. CASE LoadOrphans \/ QueueOrphansFails \/ ClearOrphans
  <2>1. /\ UNCHANGED <<known, pending, cm, job, work>> /\ cpc # "idle"
        /\ snap' \in {snap, [snap EXCEPT !["orphans"] = NoSnap]}
        /\ c' = c \/ \E v : c' = [c EXCEPT !.orphans = v]
    BY <1>5 DEF LoadOrphans, QueueOrphansFails, ClearOrphans, DropSnap, statusVars, jobVars
  <2>2. /\ IsCopy(c') /\ c'.spec = c.spec /\ c'.todo = c.todo /\ c'.name = c.name /\ c'.known = c.known
        /\ c'.pending = c.pending
    <3>1. CASE c' = c
      BY <1>2, <3>1
    <3>2. ASSUME NEW v, c' = [c EXCEPT !.orphans = v]
          PROVE  /\ IsCopy(c') /\ c'.spec = c.spec /\ c'.todo = c.todo /\ c'.name = c.name
                 /\ c'.known = c.known /\ c'.pending = c.pending
      BY <1>2, <3>2, CopyWith
    <3> QED BY <2>1, <3>1, <3>2
  <2>3. DOMAIN snap' = Names /\ \A n \in Names : snap'[n] \in {snap[n], NoSnap}
    BY <2>1 DEF KeepInv, Shape
  <2>5. \A s \in spec : Spared(s) => Spared(s)'
    BY <2>1, <2>2 DEF Spared
  <2> QED BY <1>1, <2>1, <2>3, <2>5, CopyKeeps
<1>6. CASE QueueOrphans
  <2> DEFINE gone == {d \in In(c.orphans) : ~Needs(Live("orphans"), d)}
  <2>1. UNCHANGED <<known, pending, cm>> /\ cpc # "idle"
    BY <1>6 DEF QueueOrphans, statusVars
  <2>2. \/ c' = [c EXCEPT !.orphans = NoState]
        \/ c' = [c EXCEPT !.orphans = NoState, !.pending = @ \cup {"orphans"}]
    BY <1>6, QueueEffect
  <2>3. /\ IsCopy(c') /\ c'.spec = c.spec /\ c'.todo = c.todo /\ c'.name = c.name /\ c'.known = c.known
        /\ c'.pending \subseteq c.pending \cup {"orphans"}
    BY <1>2, <2>2 DEF IsCopy
  <2>4. /\ DOMAIN snap' = Names /\ DOMAIN job' = Names /\ DOMAIN work' = Names
        /\ \A m \in Names : work'[m] \in {work[m], {}} /\ (m # "orphans" => snap'[m] = snap[m])
        /\ \/ \A m \in Names : snap'[m] \in {snap[m], NoSnap}
           \/ snap'["orphans"].state = Only(c.orphans, gone)
    BY <1>2, <1>6, QueueEffect DEF DeleteJob, DropSnap, SetSnap, CreateJob, KeepInv, Shape
  <2>6. \A s \in spec : Spared(s) => Spared(s)'
    BY <2>1, <2>3 DEF Spared
  <2>7. CASE \A m \in Names : snap'[m] \in {snap[m], NoSnap}
    BY <1>1, <2>1, <2>4, <2>6, <2>7, CopyKeeps
  <2>8. CASE snap'["orphans"].state = Only(c.orphans, gone)
    <3>1. \A e \in gone : ~Needs(Live("orphans"), e)
      OBVIOUS
    <3>2. \A s \in c.spec \ c.todo : s # "orphans"
      BY <1>2
    <3> HIDE DEF gone
    <3> QED BY <1>1, <1>2, <2>1, <2>4, <2>6, <2>8, <3>1, <3>2, SnapKeeps
  <2> QED BY <2>4, <2>7, <2>8
<1>7. CASE Commit
  <2>1. /\ UNCHANGED <<known, pending, snap, job, work>> /\ cpc = "commit"
        /\ cm' = [cm EXCEPT ![c.name] = NoState]
        /\ c' = [c EXCEPT !.shared = {}, !.name = "orphans"]
    BY <1>7 DEF Commit, statusVars, jobVars
  <2>2. /\ IsCopy(c') /\ c'.spec = c.spec /\ c'.todo = c.todo /\ c'.name = "orphans"
        /\ c'.known = c.known /\ c'.pending = c.pending
    BY <1>2, <2>1 DEF IsCopy
  <2>4. ASSUME NEW s \in spec, NEW d \in want[s] \ readded
        PROVE  Held(s, d)' /\ Spared(s)' /\ OutOfReach(d)'
    <3>1. Held(s, d) /\ Spared(s) /\ OutOfReach(d) /\ s \in ImageSets
      BY <1>2, <2>4 DEF KeepInv
    <3>2. cm'[s] = cm[s]
      BY <2>1, <3>1 DEF Spared, KeepInv, Shape
    <3> QED BY <1>1, <1>2, <2>1, <2>2, <3>1, <3>2 DEF Held, Spared, OutOfReach, Deletes
  <2> QED BY <1>1, <2>4 DEF KeepInv
<1>8. CASE Finish \/ FinishWithError \/ LaterStepFails \/ ControllerRestart
  <2>1. /\ UNCHANGED <<cm, snap, job, work>> /\ cpc' = "idle" /\ c' = IdleC
        /\ known' \in {known, c.spec, c.known} /\ pending' \in {pending, c.pending}
    BY <1>8 DEF Finish, FinishWithError, LaterStepFails, WriteStatus, ControllerRestart,
                jobVars, statusVars
  <2>2. cpc # "idle"
    BY <1>8 DEF Finish, FinishWithError, LaterStepFails, ControllerRestart
  <2>4. \A s \in spec : Spared(s)'
    BY <2>1 DEF Spared
  <2> QED BY <1>1, <2>1, <2>4, CopyKeeps
<1>9. ASSUME NEW s \in ImageSets, PartitionFails(s) PROVE KeepInv'
  <2>1. /\ UNCHANGED <<known, pending, cm, job, work, c>> /\ cpc # "idle"
        /\ snap' \in {snap, [snap EXCEPT ![s] = NoSnap]}
    BY <1>9 DEF PartitionFails, DropSnap, statusVars, jobVars
  <2>2. DOMAIN snap' = Names /\ \A n \in Names : snap'[n] \in {snap[n], NoSnap}
    BY <2>1 DEF KeepInv, Shape
  <2>4. \A t \in spec : Spared(t) => Spared(t)'
    BY <2>1 DEF Spared
  <2> QED BY <1>1, <2>1, <2>2, <2>4, CopyKeeps
<1>10. ASSUME NEW s \in ImageSets, Partition(s) PROVE KeepInv'
  <2>1. UNCHANGED <<known, pending, cm>> /\ cpc # "idle" /\ s \in c.todo
    BY <1>10 DEF Partition, ToPartition, statusVars
  <2>2. PICK shared :
           LET here == [c EXCEPT !.name = s, !.shared = shared, !.todo = @ \ {s}] IN
           \/ cpc' = "commit" /\ c' = here /\ UNCHANGED <<snap, job, work>>
           \/ /\ cpc' = "error" /\ UNCHANGED c
              /\ DeleteJob(s) /\ SetSnap(s, Only(cm[s], Exclusive(s)))
           \/ /\ cpc' = "commit" /\ c' = [here EXCEPT !.pending = @ \cup {s}]
              /\ ~Stale(s) /\ SetSnap(s, Only(cm[s], Exclusive(s))) /\ CreateJob(s)
    BY <1>10, PartitionEffect
  <2>3. /\ IsCopy(c') /\ c'.spec = c.spec /\ c'.todo \subseteq c.todo /\ c'.name \in {c.name, s}
        /\ c'.known = c.known /\ c'.pending \subseteq c.pending \cup {s}
    BY <1>2, <2>2 DEF IsCopy
  <2>4. s \in Names
    BY <1>2
  <2>5. /\ DOMAIN snap' = Names /\ DOMAIN job' = Names /\ DOMAIN work' = Names
        /\ \A m \in Names : work'[m] \in {work[m], {}} /\ (m # s => snap'[m] = snap[m])
        /\ snap' = snap \/ snap'[s].state = Only(cm[s], Exclusive(s))
    BY <2>2, <2>4 DEF DeleteJob, SetSnap, CreateJob, KeepInv, Shape
  <2>7. \A t \in spec : Spared(t) => Spared(t)'
    BY <2>1, <2>3 DEF Spared
  <2>8. CASE snap' = snap
    BY <1>1, <2>1, <2>5, <2>7, <2>8, CopyKeeps
  <2>9. CASE snap'[s].state = Only(cm[s], Exclusive(s))
    <3>1. \A e \in Exclusive(s) : ~Needs(Live(s), e)
      BY DEF Exclusive
    <3> QED BY <1>1, <2>1, <2>4, <2>5, <2>7, <2>9, <3>1, SnapKeeps
  <2> QED BY <2>5, <2>8, <2>9
<1> QED BY <1>4, <1>5, <1>6, <1>7, <1>8, <1>9, <1>10 DEF Reconcile

LEMMA KeepStep ==
    ASSUME PlainTagsApart, KeepInv, [Next]_vars
    PROVE  KeepInv'
<1>1. CASE UNCHANGED vars
  BY <1>1 DEF vars, userVars, statusVars, jobVars, mgrVars, ctlVars, KeepInv, Shape, Held, Spared,
              OutOfReach, Deletes
<1>2. Shape'
  BY ShapeStep DEF KeepInv
<1> QED BY <1>1, <1>2, UserKeeps, ManagerKeeps, ReconcileKeeps, JobKeeps DEF Next

\* Only a Job's pod takes images out of the registry, and only in its reach.
LEMMA DeletedByJob ==
    ASSUME KeepInv, [Next]_vars, NEW d \in registry, d \notin registry'
    PROVE  \E n \in Names : \E e \in work[n] : d \in Deletes(e)
<1>1. \/ UNCHANGED registry \/ \E x \in Dests : MirrorImage(x)
      \/ \E n \in Names : PodDone(n) \/ PodFails(n)
  BY DEF Next, vars, User, EditTarget, EditImageSet, EditPolicy, Manager, TickOK, TickResolveFails,
         ManagerTick, AppendOrphans, AppendFails, FlushIndex, ManagerRestart, FlushState, FlushFails,
         DriftFound, Reconcile, Start, LoadOrphans, QueueOrphans, QueueOrphansFails,
         ClearOrphans, Commit, Finish, FinishWithError, LaterStepFails, WriteStatus,
         ControllerRestart, Partition, PartitionFails, Job, PodLoad, JobExpires, jobVars
<1>2. \A x \in Dests : MirrorImage(x) => d \in registry'
  BY DEF MirrorImage
<1>3. PICK n \in Names : PodDone(n) \/ PodFails(n)
  BY <1>1, <1>2
<1>4. PICK D \in SUBSET work[n] : DeleteAll(D)
  BY <1>3 DEF PodDone, PodFails
<1>5. \E e \in D : d \in Deletes(e)
  BY <1>4 DEF DeleteAll
<1> QED BY <1>4, <1>5

\* A cleanup Job never takes an image that some listed ImageSet has wanted all
\* along: whatever edits, crashes, failed flushes and failed Jobs there were,
\* for any number of ImageSets that share images and manifests.
THEOREM CleanupSparesTheWanted ==
    ASSUME PlainTagsApart
    PROVE  Spec => DeletesOnlyUnwanted
<1>1. KeepInv /\ [Next]_vars => KeepInv'
  BY KeepStep
<1>2. ASSUME KeepInv, [Next]_vars, NEW d \in registry \ registry', d \in Wanted
      PROVE  d \in readded
  <2>1. PICK n \in Names : \E e \in work[n] : d \in Deletes(e)
    BY <1>2, DeletedByJob
  <2>2. PICK s \in spec : d \in want[s]
    BY <1>2 DEF Wanted
  <2>3. CASE d \notin readded
    <3>1. OutOfReach(d) /\ d \in Dests
      BY <1>2, <2>2, <2>3 DEF KeepInv, Shape
    <3>2. PICK e \in work[n] : d \in Deletes(e)
      BY <2>1
    <3>3. work[n] \subseteq Dests
      BY <1>2 DEF KeepInv, Shape
    <3> QED BY <3>1, <3>2, <3>3 DEF OutOfReach
  <2> QED BY <2>3
<1>3. KeepInv /\ [Next]_vars
        => [\A d \in registry \ registry' : d \in Wanted => d \in readded]_vars
  BY <1>2
<1> QED BY <1>1, <1>3, KeepInit, PTL DEF Spec, DeletesOnlyUnwanted
-----------------------------------------------------------------------------
(***************************************************************************)
(* No cleanup is forgotten: PendingInv is an invariant.                    *)
(***************************************************************************)
LEMMA ShapeInit == Init => Shape
  BY KeepInit DEF KeepInv

LEMMA PendingInit == Init => PendingInv
<1> SUFFICES ASSUME Init PROVE PendingInv
  OBVIOUS
<1>1. cpc = "idle" /\ \A n \in Names : job[n] = "none"
  BY DEF Init
<1> QED BY <1>1 DEF PendingInv

\* Whatever the user and the manager do meanwhile, an edit marks the copy as
\* outdated and nothing else of it changes.
LEMMA OthersLeavePending ==
    ASSUME PendingInv, User \/ Manager
    PROVE  PendingInv'
<1>1. UNCHANGED <<known, pending, snap, job, cpc, c>>
  BY DEF User, EditTarget, EditImageSet, EditPolicy, Manager, TickOK, TickResolveFails,
         ManagerTick, AppendOrphans, AppendFails, FlushIndex, ManagerRestart, FlushState,
         FlushFails, MirrorImage, DriftFound, statusVars, jobVars, ctlVars
<1>2. touched' = TRUE \/ UNCHANGED <<touched, spec>>
  BY DEF User, EditTarget, EditImageSet, EditPolicy, Manager, TickOK, TickResolveFails,
         ManagerTick, AppendOrphans, AppendFails, FlushIndex, ManagerRestart, FlushState,
         FlushFails, MirrorImage, DriftFound, userVars
<1> QED BY <1>1, <1>2 DEF PendingInv, Done

\* A Job succeeds in the step that takes its snapshot away.
LEMMA JobLeavesPending ==
    ASSUME Shape, PendingInv, NEW n \in Names, Job(n)
    PROVE  PendingInv'
<1>1. UNCHANGED <<known, pending, cpc, c, spec, touched>>
  BY DEF Job, PodLoad, PodDone, PodFails, JobExpires, userVars, statusVars, ctlVars
<1>2. /\ \A m \in Names : m # n => job'[m] = job[m] /\ snap'[m] = snap[m]
      /\ snap'[n] \in {snap[n], NoSnap} /\ (job'[n] = "succeeded" => snap'[n] = NoSnap)
  BY DEF Job, PodLoad, PodDone, PodFails, JobExpires, DropSnap, DeleteJob, Shape
<1>3. ~NoSnap.live
  BY DEF NoSnap
<1>4. \A m \in Names : (job'[m] = "succeeded" => ~snap'[m].live) /\ (~snap[m].live => ~snap'[m].live)
  BY <1>2, <1>3 DEF PendingInv
<1> QED BY <1>1, <1>4 DEF PendingInv, Done, Shape

\* Steps of a reconcile between its start and its end: the copy keeps what was
\* read, a new snapshot is noted in it, and an error leaves the removal to be
\* found again.
LEMMA CopyPending ==
    ASSUME Shape, PendingInv, cpc # "idle", cpc # "error",
           UNCHANGED <<known, pending, spec, touched>>,
           c'.known = c.known, c'.spec = c.spec, c'.todo \subseteq c.todo,
           c.pending \subseteq c'.pending,
           \A m \in Names : job'[m] = "succeeded" => ~snap'[m].live,
           \A m \in Names : snap'[m].live =>
              \/ snap[m].live \/ m \in c'.pending
              \/ cpc' = "error" /\ m \in c.known \ c.spec
    PROVE  PendingInv'
<1>1. /\ c.known = known /\ c.todo \subseteq c.known \ c.spec /\ (~touched => spec = c.spec)
      /\ \A n \in pending \ c.pending : ~snap[n].live
  BY DEF PendingInv, Done
<1>2. ASSUME NEW n \in pending', n \notin c'.pending PROVE Done(n)'
  <2>1. n \in Names /\ ~snap[n].live
    BY <1>1, <1>2 DEF Shape
  <2> QED BY <1>2, <2>1 DEF Done
<1> QED BY <1>1, <1>2 DEF PendingInv

LEMMA ReconcileLeavesPending ==
    ASSUME Shape, PendingInv, Reconcile
    PROVE  PendingInv'
<1>1. /\ IsCopy(c) /\ DOMAIN snap = Names /\ DOMAIN job = Names
      /\ "orphans" \in Names /\ ImageSets \subseteq Names
      /\ ~NoSnap.live /\ \A m \in Names : job[m] = "succeeded" => ~snap[m].live
  BY DEF Shape, Names, NoSnap, PendingInv
<1>2. CASE Start
  <2>1. /\ UNCHANGED <<known, pending, snap, spec>> /\ touched' = FALSE
        /\ \A m \in Names : job'[m] = "succeeded" => job[m] = "succeeded"
    BY <1>2 DEF Start, statusVars
  <2>2. /\ c'.spec = spec /\ c'.todo = known \ spec /\ c'.known = known
        /\ c'.pending = {n \in pending : StillPending(n)}
    BY <1>2 DEF Start, IdleC
  <2>3. ASSUME NEW n \in pending, ~StillPending(n) PROVE ~snap[n].live
    BY <1>1, <2>3 DEF StillPending, Shape
  <2> QED BY <1>1, <2>1, <2>2, <2>3 DEF PendingInv, Done
<1>3. CASE LoadOrphans \/ QueueOrphansFails \/ ClearOrphans \/ Commit
  <2>1. /\ UNCHANGED <<known, pending, spec, touched, job>> /\ cpc # "idle" /\ cpc # "error"
        /\ snap' \in {snap, [snap EXCEPT !["orphans"] = NoSnap]}
    BY <1>3 DEF LoadOrphans, QueueOrphansFails, ClearOrphans, Commit, DropSnap, statusVars, jobVars,
                userVars
  <2>2. \/ c' = c \/ (\E v : c' = [c EXCEPT !.orphans = v])
        \/ c' = [c EXCEPT !.shared = {}, !.name = "orphans"]
    BY <1>3 DEF LoadOrphans, QueueOrphansFails, ClearOrphans, Commit
  <2>3. c'.known = c.known /\ c'.spec = c.spec /\ c'.todo = c.todo /\ c'.pending = c.pending
    <3>1. ASSUME NEW v, c' = [c EXCEPT !.orphans = v]
          PROVE  c'.known = c.known /\ c'.spec = c.spec /\ c'.todo = c.todo /\ c'.pending = c.pending
      BY <1>1, <3>1, CopyWith
    <3>2. CASE c' = [c EXCEPT !.shared = {}, !.name = "orphans"]
      BY <1>1, <3>2 DEF IsCopy
    <3> QED BY <2>2, <3>1, <3>2
  <2>4. \A m \in Names : snap'[m].live => snap[m].live
    BY <1>1, <2>1
  <2> QED BY <1>1, <2>1, <2>3, <2>4, CopyPending
<1>4. CASE QueueOrphans
  <2>1. UNCHANGED <<known, pending, spec, touched>> /\ cpc # "idle" /\ cpc # "error"
    BY <1>4 DEF QueueOrphans, statusVars, userVars
  <2>2. /\ c'.known = c.known /\ c'.spec = c.spec /\ c'.todo = c.todo /\ c.pending \subseteq c'.pending
    BY <1>1, <1>4, QueueEffect DEF IsCopy
  <2>3. \A m \in Names : snap'[m].live => snap[m].live \/ m \in c'.pending
    BY <1>1, <1>4, QueueEffect DEF DropSnap, SetSnap, IsCopy
  <2>4. \A m \in Names : job'[m] = "succeeded" => ~snap'[m].live
    BY <1>1, <1>4, QueueEffect DEF DropSnap, SetSnap, DeleteJob, CreateJob, Stale
  <2> QED BY <2>1, <2>2, <2>3, <2>4, CopyPending
<1>5. CASE Finish \/ FinishWithError \/ LaterStepFails \/ ControllerRestart
  <2>1. UNCHANGED <<snap, job>> /\ cpc' = "idle"
    BY <1>5 DEF Finish, FinishWithError, LaterStepFails, WriteStatus, ControllerRestart, jobVars
  <2> QED BY <2>1 DEF PendingInv
<1>6. ASSUME NEW s \in ImageSets, PartitionFails(s) PROVE PendingInv'
  <2>1. /\ UNCHANGED <<known, pending, spec, touched, job, c>> /\ cpc = "removed"
        /\ snap' \in {snap, [snap EXCEPT ![s] = NoSnap]}
    BY <1>6 DEF PartitionFails, DropSnap, statusVars, jobVars, userVars
  <2>2. \A m \in Names : snap'[m].live => snap[m].live
    BY <1>1, <2>1
  <2> QED BY <1>1, <2>1, <2>2, CopyPending
<1>7. ASSUME NEW s \in ImageSets, Partition(s) PROVE PendingInv'
  <2>1. UNCHANGED <<known, pending, spec, touched>> /\ cpc = "removed" /\ s \in c.todo /\ s \in Names
    BY <1>1, <1>7 DEF Partition, ToPartition, statusVars, userVars
  <2>2. PICK shared :
           LET here == [c EXCEPT !.name = s, !.shared = shared, !.todo = @ \ {s}] IN
           \/ cpc' = "commit" /\ c' = here /\ UNCHANGED <<snap, job, work>>
           \/ /\ cpc' = "error" /\ UNCHANGED c
              /\ DeleteJob(s) /\ SetSnap(s, Only(cm[s], Exclusive(s)))
           \/ /\ cpc' = "commit" /\ c' = [here EXCEPT !.pending = @ \cup {s}]
              /\ ~Stale(s) /\ SetSnap(s, Only(cm[s], Exclusive(s))) /\ CreateJob(s)
    BY <1>7, PartitionEffect
  <2>3. /\ c'.known = c.known /\ c'.spec = c.spec /\ c'.todo \subseteq c.todo
        /\ c.pending \subseteq c'.pending /\ (snap' = snap \/ cpc' = "error" \/ s \in c'.pending)
    <3>1. CASE c' = [c EXCEPT !.name = s, !.shared = shared, !.todo = @ \ {s}]
               /\ UNCHANGED <<snap, job, work>>
      BY <1>1, <3>1 DEF IsCopy
    <3>2. CASE c' = [[c EXCEPT !.name = s, !.shared = shared, !.todo = @ \ {s}]
                       EXCEPT !.pending = @ \cup {s}]
      BY <1>1, <3>2 DEF IsCopy
    <3> QED BY <2>2, <3>1, <3>2
  <2>4. \A m \in Names : m # s => snap'[m] = snap[m] /\ job'[m] = job[m]
    BY <1>1, <2>1, <2>2 DEF SetSnap, DeleteJob, CreateJob
  <2>5. job'[s] = "succeeded" => ~snap'[s].live
    BY <1>1, <2>1, <2>2 DEF SetSnap, DeleteJob, CreateJob, Stale
  <2>6. s \in c.known \ c.spec
    BY <2>1 DEF PendingInv
  <2>7. \A m \in Names : job'[m] = "succeeded" => ~snap'[m].live
    BY <1>1, <2>4, <2>5
  <2>8. \A m \in Names : snap'[m].live => \/ snap[m].live \/ m \in c'.pending
                                          \/ cpc' = "error" /\ m \in c.known \ c.spec
    BY <2>3, <2>4, <2>6
  <2> QED BY <2>1, <2>3, <2>7, <2>8, CopyPending
<1> QED BY <1>2, <1>3, <1>4, <1>5, <1>6, <1>7 DEF Reconcile

LEMMA PendingStep ==
    ASSUME Shape, PendingInv, [Next]_vars
    PROVE  PendingInv'
<1>1. CASE UNCHANGED vars
  BY <1>1 DEF vars, userVars, statusVars, jobVars, ctlVars, PendingInv, Done
<1> QED BY <1>1, OthersLeavePending, ReconcileLeavesPending, JobLeavesPending DEF Next

\* The list of pending cleanups only changes when a reconcile writes its copy
\* of the status.
LEMMA PendingWrites ==
    ASSUME [Next]_vars, pending' # pending
    PROVE  Finish \/ FinishWithError \/ LaterStepFails
  BY DEF Next, vars, User, EditTarget, EditImageSet, EditPolicy, Manager, TickOK, TickResolveFails,
         ManagerTick, AppendOrphans, AppendFails, FlushIndex, ManagerRestart, FlushState, FlushFails,
         MirrorImage, DriftFound, Reconcile, Start, LoadOrphans, QueueOrphans, QueueOrphansFails,
         ClearOrphans, Commit, ControllerRestart, Partition, PartitionFails,
         Job, PodLoad, PodDone, PodFails, JobExpires, statusVars

\* A cleanup leaves status.pendingCleanup only when its Job has consumed the
\* snapshot, or while the removal is still there to be detected again: across
\* failed Jobs, expired Jobs, conflicting status writes and restarts.
THEOREM NoCleanupIsForgotten == Spec => CleanupNotAbandoned
<1>1. Shape /\ PendingInv /\ [Next]_vars => (Shape /\ PendingInv)'
  BY ShapeStep, PendingStep
<1>2. ASSUME PendingInv, [Next]_vars, NEW n \in pending \ pending'
      PROVE  ~snap[n].live \/ n \in known' \ spec
  <2>1. Finish \/ FinishWithError \/ LaterStepFails
    BY <1>2, PendingWrites
  <2>2. cpc \in {"removed", "error"} /\ ~touched /\ pending' = c.pending
    BY <1>2, <2>1 DEF Finish, FinishWithError, LaterStepFails, WriteStatus
  <2>3. spec = c.spec /\ Done(n)
    BY <1>2, <2>2 DEF PendingInv
  <2>4. CASE cpc = "removed"
    BY <2>3, <2>4 DEF Done
  <2>5. CASE cpc = "error"
    <3>1. known' = c.known
      BY <2>1, <2>2, <2>5 DEF Finish, FinishWithError, LaterStepFails, WriteStatus
    <3> QED BY <2>3, <3>1 DEF Done
  <2> QED BY <2>2, <2>4, <2>5
<1>3. PendingInv /\ [Next]_vars
        => [\A n \in pending \ pending' : ~snap[n].live \/ n \in known' \ spec]_vars
  BY <1>2
<1> QED BY <1>1, <1>3, ShapeInit, PendingInit, PTL DEF Spec, CleanupNotAbandoned
=============================================================================
