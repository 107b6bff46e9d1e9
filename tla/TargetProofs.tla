---------------------------- MODULE TargetProofs ----------------------------
(***************************************************************************)
(* Proofs about the MirrorTarget controller, for any number of             *)
(* MirrorTargets, any specs, edits, hand deletions and failed calls.       *)
(***************************************************************************)
EXTENDS TargetController, TLAPS

-----------------------------------------------------------------------------
(***************************************************************************)
(* The steps of a reconcile.                                               *)
(***************************************************************************)
Objects == {"coordinatorSA", "workerSA", "role", "roleBinding", "manager-ingress",
            "worker-ingress-deny", "worker-egress", "apiSA", "apiRole", "apiRoleBinding",
            "apiDeployment", "apiService", "manager", "managerService", "resourcesService"}

LEMMA StepParts ==
    /\ CoordinatorRBAC \in Seq(Objects) /\ NetworkPolicies \in Seq(Objects)
    /\ ResourceAPI \in Seq(Objects) /\ Manager \in Seq(Objects)
<1>1. CoordinatorRBAC \in Seq(Objects)
  BY DEF CoordinatorRBAC, Objects
<1>2. NetworkPolicies \in Seq(Objects)
  BY DEF NetworkPolicies, Obsolete, Objects
<1>3. ResourceRBAC \in Seq(Objects)
  BY DEF ResourceRBAC, Objects
<1>4. <<"apiDeployment", "apiService">> \in Seq(Objects)
  BY DEF Objects
<1>5. ResourceAPI \in Seq(Objects)
  BY <1>3, <1>4 DEF ResourceAPI
<1>6. Manager \in Seq(Objects)
  BY DEF Manager, Objects
<1> QED BY <1>1, <1>2, <1>5, <1>6

\* What has a place in one of the parts is a step.
LEMMA StepsCover ==
    /\ Steps \in Seq(Objects)
    /\ Shared \subseteq ToSet(Steps) /\ Obsolete \in ToSet(Steps) /\ "manager" \in ToSet(Steps)
    /\ ToSet(Steps) = {Steps[i] : i \in 1..Len(Steps)}
<1> DEFINE C == CoordinatorRBAC
           N == NetworkPolicies
           A == ResourceAPI
           M == Manager
<1>1. C \in Seq(Objects) /\ N \in Seq(Objects) /\ A \in Seq(Objects) /\ M \in Seq(Objects)
  BY StepParts
<1>2. Steps = ((C \o N) \o A) \o M
  BY DEF Steps
<1>3. Len(N) = 3 /\ N[3] = Obsolete /\ Len(M) = 3 /\ M[1] = "manager"
  BY DEF NetworkPolicies, Manager
<1> HIDE DEF C, N, A, M
<1>4. Len(C) \in Nat /\ Len(N) \in Nat /\ Len(A) \in Nat /\ Len(M) \in Nat
  BY <1>1
<1>5. Steps \in Seq(Objects) /\ Len(Steps) = Len(C) + Len(N) + Len(A) + Len(M)
  BY <1>1, <1>2
<1>6. ToSet(Steps) = {Steps[i] : i \in 1..Len(Steps)}
  BY <1>5 DEF ToSet
<1>7. ASSUME NEW o \in Shared PROVE o \in ToSet(Steps)
  <2>1. PICK j \in 1..Len(A) : o = A[j]
    BY <1>1 DEF Shared, ToSet, A
  <2>2. Steps[Len(C) + Len(N) + j] = A[j]
    BY <1>1, <1>2, <1>4
  <2>3. Len(C) + Len(N) + j \in 1..Len(Steps)
    BY <1>4, <1>5
  <2> QED BY <2>1, <2>2, <2>3, <1>6
<1>8. ASSUME NEW j \in 1..Len(N) PROVE N[j] \in ToSet(Steps)
  <2>1. Steps[Len(C) + j] = N[j]
    BY <1>1, <1>2, <1>4
  <2>2. Len(C) + j \in 1..Len(Steps)
    BY <1>4, <1>5
  <2> QED BY <2>1, <2>2, <1>6
<1>9. ASSUME NEW j \in 1..Len(M) PROVE M[j] \in ToSet(Steps)
  <2>1. Steps[Len(C) + Len(N) + Len(A) + j] = M[j]
    BY <1>1, <1>2, <1>4
  <2>2. Len(C) + Len(N) + Len(A) + j \in 1..Len(Steps)
    BY <1>4, <1>5
  <2> QED BY <2>1, <2>2, <1>6
<1>10. Obsolete \in ToSet(Steps) /\ "manager" \in ToSet(Steps)
  BY <1>3, <1>8, <1>9
<1> QED BY <1>5, <1>6, <1>7, <1>10

\* None of the steps makes an exposure object, and no spec asks for the policy
\* that is deleted.
LEMMA Apart ==
    /\ Required \cap Exposures = {} /\ Obsolete \notin Required /\ Obsolete \notin Exposures
    /\ \A f \in Configs, hasRoute \in BOOLEAN : Desired(f, hasRoute) \subseteq Exposures
<1>1. Required \subseteq Objects /\ Obsolete \notin Required
  <2>1. \A i \in 1..Len(Steps) : Steps[i] \in Objects
    BY StepsCover
  <2> QED BY <2>1, StepsCover DEF Required
<1>2. Objects \cap Exposures = {} /\ Obsolete \notin Exposures
  BY DEF Objects, Exposures, Obsolete
<1>3. ASSUME NEW f \in Configs, NEW hasRoute \in BOOLEAN
      PROVE  Desired(f, hasRoute) \subseteq Exposures
  <2>1. f.expose \in {"", "Service", "Route", "Ingress", "GatewayAPI"}
    BY TargetAssumption DEF Config
  <2>2. ExposeType(f, hasRoute) \in {"Service", "Route", "Ingress", "GatewayAPI"}
    BY <2>1 DEF ExposeType
  <2> QED BY <2>2 DEF Desired, Exposures
<1> QED BY <1>1, <1>2, <1>3

\* The first k steps take nothing away but the obsolete policy, which they do not
\* bring back; all of them make every required object.
LEMMA EnsureOwn ==
    ASSUME NEW t \in Targets, NEW k
    PROVE  /\ objs[t] \ {Obsolete} \subseteq Ensure(t, k).own
           /\ Obsolete \notin objs[t] => Obsolete \notin Ensure(t, k).own
           /\ k = Len(Steps) => /\ Required \subseteq Ensure(t, k).own
                                /\ Obsolete \notin Ensure(t, k).own
                                /\ "manager" \in Ensure(t, k).done
<1> DEFINE done == {Steps[i] : i \in 1..k}
<1>1. /\ Ensure(t, k).done = done
      /\ Ensure(t, k).own = (objs[t] \cup (done \ Shared)) \ (done \cap {Obsolete})
  BY DEF Ensure
<1>2. k = Len(Steps) => done = ToSet(Steps)
  BY StepsCover
<1> HIDE DEF done
<1>3. /\ objs[t] \ {Obsolete} \subseteq Ensure(t, k).own
      /\ Obsolete \notin objs[t] => Obsolete \notin Ensure(t, k).own
  BY <1>1
<1>4. ASSUME k = Len(Steps)
      PROVE  /\ Required \subseteq Ensure(t, k).own
             /\ Obsolete \notin Ensure(t, k).own
             /\ "manager" \in Ensure(t, k).done
  BY <1>1, <1>2, <1>4, StepsCover DEF Required
<1> QED BY <1>3, <1>4

-----------------------------------------------------------------------------
(***************************************************************************)
(* The Ready condition.                                                    *)
(***************************************************************************)
Reasons == {"", "DeploymentReady", "ExposureError", "ReconcileError"}

\* What a Ready condition of the current generation promises.
HasObjects(t, S) ==
    /\ Required \ HandDeleted \subseteq S /\ Obsolete \notin S
    /\ config[t].expose # "" => Desired(config[t], RouteAPI) \ HandDeleted \subseteq S
Provisioned(t) == template[t] = Template(config[t]) /\ HasObjects(t, objs[t])

ReadyInv ==
    /\ config \in [Targets -> Configs] /\ finalizer \in [Targets -> BOOLEAN]
    /\ exists \in [Targets -> BOOLEAN] /\ deleting \in [Targets -> BOOLEAN]
    /\ ready \in [Targets -> Reasons] /\ current \in [Targets -> BOOLEAN]
    /\ DOMAIN objs = Targets /\ DOMAIN template = Targets
    /\ \A t \in Targets :
         Active(t) /\ ready[t] = "DeploymentReady" /\ current[t] => Provisioned(t)

LEMMA ReadyInit == Init => ReadyInv
<1> SUFFICES ASSUME Init PROVE ReadyInv
  OBVIOUS
<1>1. config \in [Targets -> Configs] /\ finalizer \in [Targets -> BOOLEAN]
  BY DEF Init
<1>2. /\ exists \in [Targets -> BOOLEAN] /\ deleting \in [Targets -> BOOLEAN]
      /\ ready \in [Targets -> Reasons] /\ current \in [Targets -> BOOLEAN]
      /\ DOMAIN objs = Targets /\ DOMAIN template = Targets
      /\ \A t \in Targets : ready[t] = ""
  BY DEF Init, Reasons
<1> QED BY <1>1, <1>2 DEF ReadyInv

\* A reconcile leaves the target's objects as S.  It keeps the promise when S
\* has what was there, and may make it when S has everything.
LEMMA ProvisionReady ==
    ASSUME ReadyInv, NEW t \in Targets, NEW k, Provision(t, k),
           NEW S, objs' = [objs EXCEPT ![t] = S],
           HasObjects(t, objs[t]) => HasObjects(t, S),
           NEW r \in Reasons, SetCondition(t, r) \/ UNCHANGED statusVars,
           r = "DeploymentReady" => HasObjects(t, S) /\ k = Len(Steps)
    PROVE  ReadyInv'
<1>1. config' = config /\ exists' = exists /\ deleting' = deleting /\ finalizer' = finalizer
  BY DEF Provision, objVars
<1>2. \/ template' = [template EXCEPT ![t] = Template(config[t])]
      \/ template' = template /\ k # Len(Steps)
  BY EnsureOwn DEF Provision
<1>3. \/ ready' = [ready EXCEPT ![t] = r] /\ current' = [current EXCEPT ![t] = TRUE]
      \/ ready' = ready /\ current' = current
  BY DEF SetCondition, statusVars
<1>4. /\ ready' \in [Targets -> Reasons] /\ current' \in [Targets -> BOOLEAN]
      /\ DOMAIN objs' = Targets /\ DOMAIN template' = Targets
  BY <1>2, <1>3 DEF ReadyInv
<1>5. ASSUME NEW u \in Targets, Active(u)', ready'[u] = "DeploymentReady", current'[u]
      PROVE  Provisioned(u)'
  <2>1. Active(u)
    BY <1>1, <1>5 DEF Active
  <2>2. CASE u # t
    <3>1. ready[u] = "DeploymentReady" /\ current[u]
      BY <1>3, <1>5, <2>2 DEF ReadyInv
    <3>2. template'[u] = template[u] /\ objs'[u] = objs[u]
      BY <1>2, <2>2 DEF ReadyInv
    <3>3. Provisioned(u)
      BY <2>1, <3>1 DEF ReadyInv
    <3> QED BY <1>1, <3>2, <3>3 DEF Provisioned, HasObjects
  <2>3. CASE u = t /\ r = "DeploymentReady"
    <3>1. template'[t] = Template(config[t]) /\ objs'[t] = S
      BY <1>2, <2>3 DEF ReadyInv
    <3> QED BY <1>1, <2>3, <3>1 DEF Provisioned, HasObjects
  <2>4. CASE u = t /\ r # "DeploymentReady"
    <3>1. ready[t] = "DeploymentReady" /\ current[t]
      BY <1>3, <1>5, <2>4 DEF ReadyInv
    <3>2. Provisioned(t)
      BY <2>1, <2>4, <3>1 DEF ReadyInv
    <3>3. template'[t] = Template(config[t]) /\ objs'[t] = S
      BY <1>2, <3>2 DEF ReadyInv, Provisioned
    <3> QED BY <1>1, <2>4, <3>2, <3>3 DEF Provisioned, HasObjects
  <2> QED BY <2>2, <2>3, <2>4
<1> QED BY <1>1, <1>4, <1>5 DEF ReadyInv

\* The exposure keeps every required object, and the one it wants.
LEMMA ExposeKeeps ==
    ASSUME ReadyInv, NEW t \in Targets, NEW hasRoute \in BOOLEAN, NEW keep, NEW got,
           NEW S, S = (Ensure(t, Len(Steps)).own
                         \ (Exposures \ (Desired(config[t], hasRoute) \cup keep))) \cup got,
           got \subseteq Desired(config[t], hasRoute)
    PROVE  /\ HasObjects(t, objs[t]) => HasObjects(t, S)
           /\ got = Desired(config[t], hasRoute) => HasObjects(t, S)
<1> DEFINE own == Ensure(t, Len(Steps)).own
           want == Desired(config[t], hasRoute)
<1>1. config[t] \in Configs
  BY DEF ReadyInv
<1>2. want \subseteq Exposures
  BY <1>1, Apart
<1>3. config[t].expose # "" => want = Desired(config[t], RouteAPI)
  BY DEF Desired, ExposeType
<1>4. /\ objs[t] \ {Obsolete} \subseteq own
      /\ Required \subseteq own /\ Obsolete \notin own
  BY EnsureOwn
<1> HIDE DEF own, want
<1>5. S = (own \ (Exposures \ (want \cup keep))) \cup got /\ got \subseteq want
  BY DEF own, want
<1>6. Required \subseteq S /\ Obsolete \notin S
  BY <1>2, <1>4, <1>5, Apart
<1>7. /\ got = want => want \subseteq S
      /\ want \cap objs[t] \subseteq S
  BY <1>2, <1>4, <1>5, Apart
<1>8. HasObjects(t, objs[t]) => HasObjects(t, S)
  BY <1>3, <1>6, <1>7 DEF HasObjects
<1>9. got = want => HasObjects(t, S)
  BY <1>3, <1>6, <1>7 DEF HasObjects
<1> QED BY <1>8, <1>9 DEF want

\* A reconcile that gets as far as the exposure.
LEMMA ExposeReady ==
    ASSUME ReadyInv, NEW t \in Targets, Provision(t, Len(Steps)),
           NEW hasRoute \in BOOLEAN, NEW keep, NEW ok, Expose(t, hasRoute, keep, ok),
           SetReady(t, ok) \/ UNCHANGED statusVars
    PROVE  ReadyInv'
<1> DEFINE want == Desired(config[t], hasRoute)
           got == If(ok, want)
           S == (Ensure(t, Len(Steps)).own \ (Exposures \ (want \cup keep))) \cup got
           r == IF ok THEN "DeploymentReady" ELSE "ExposureError"
<1>1. objs' = [objs EXCEPT ![t] = S]
  BY Zenon DEF Expose
<1>2. got \subseteq want /\ (ok => got = want)
  BY DEF If
<1>3. r \in Reasons /\ (r = "DeploymentReady" => ok)
  BY DEF Reasons
<1>4. SetCondition(t, r) \/ UNCHANGED statusVars
  BY DEF SetReady
<1> HIDE DEF got, r
<1>5. /\ HasObjects(t, objs[t]) => HasObjects(t, S)
      /\ got = want => HasObjects(t, S)
  BY <1>2, ExposeKeeps
<1> HIDE DEF S, want
<1> QED BY <1>1, <1>2, <1>3, <1>4, <1>5, ProvisionReady

LEMMA ReadyNext == ReadyInv /\ [Next]_vars => ReadyInv'
<1> SUFFICES ASSUME ReadyInv, [Next]_vars PROVE ReadyInv'
  OBVIOUS
<1>a. RouteAPI \in BOOLEAN
  BY TargetAssumption
\* Nothing the promise is about changes, or only for a target that is not active.
<1>b. ASSUME config' = config, ready' = ready, current' = current, template' = template,
             exists' \in [Targets -> BOOLEAN], deleting' \in [Targets -> BOOLEAN],
             finalizer' \in [Targets -> BOOLEAN],
             DOMAIN objs' = Targets,
             \A u \in Targets : Active(u)' => Active(u) /\ objs'[u] = objs[u]
      PROVE  ReadyInv'
  BY <1>b DEF ReadyInv, Provisioned, HasObjects
<1>1. CASE UNCHANGED vars
  BY <1>1, <1>b DEF vars, objVars, statusVars, ReadyInv, Active
<1>2. ASSUME NEW t \in Targets, AddFinalizer(t) PROVE ReadyInv'
  BY <1>2, <1>b DEF AddFinalizer, statusVars, ReadyInv, Active
<1>3. ASSUME NEW t \in Targets, Reconcile(t) PROVE ReadyInv'
  BY <1>3, <1>a, ExposeReady DEF Reconcile
<1>4. ASSUME NEW t \in Targets, ReconcileFails(t) PROVE ReadyInv'
  <2>1. ASSUME NEW k \in 0..(Len(Steps) - 1), Provision(t, k),
               objs' = [objs EXCEPT ![t] = Ensure(t, k).own],
               SetCondition(t, "ReconcileError") \/ UNCHANGED statusVars
        PROVE  ReadyInv'
    <3>1. HasObjects(t, objs[t]) => HasObjects(t, Ensure(t, k).own)
      <4>1. Obsolete \notin objs[t] => objs[t] \subseteq Ensure(t, k).own
        BY EnsureOwn
      <4> QED BY <4>1, EnsureOwn DEF HasObjects
    <3>2. "ReconcileError" \in Reasons /\ "ReconcileError" # "DeploymentReady"
      BY DEF Reasons
    <3> QED BY <2>1, <3>1, <3>2, ProvisionReady
  <2>2. ASSUME Provision(t, Len(Steps)),
               NEW hasRoute \in {FALSE, RouteAPI}, NEW keep, NEW ok,
               Expose(t, hasRoute, keep, ok), SetReady(t, ok) \/ UNCHANGED statusVars
        PROVE  ReadyInv'
    BY <2>2, <1>a, ExposeReady
  <2> QED BY <1>4, <2>1, <2>2 DEF ReconcileFails
<1>5. ASSUME NEW t \in Targets, HandleDeletion(t) \/ HandleDeletionFails(t) PROVE ReadyInv'
  <2>1. /\ config' = config /\ ready' = ready /\ current' = current /\ template' = template
        /\ deleting' = deleting /\ deleting[t]
        /\ \E gone \in BOOLEAN : /\ exists' = [exists EXCEPT ![t] = @ /\ ~gone]
                                 /\ finalizer' = [finalizer EXCEPT ![t] = @ /\ ~gone]
        /\ objs' = objs \/ objs' = [objs EXCEPT ![t] = @ \ {"manager"}]
    BY <1>5 DEF HandleDeletion, HandleDeletionFails, Finish, statusVars
  <2>2. exists' \in [Targets -> BOOLEAN] /\ \A u \in Targets : exists'[u] => exists[u]
    BY <2>1 DEF ReadyInv
  <2>3. DOMAIN objs' = Targets /\ \A u \in Targets : u # t => objs'[u] = objs[u]
    BY <2>1 DEF ReadyInv
  <2>4. deleting' \in [Targets -> BOOLEAN] /\ finalizer' \in [Targets -> BOOLEAN]
    BY <2>1 DEF ReadyInv
  <2>5. \A u \in Targets : Active(u)' => Active(u) /\ objs'[u] = objs[u]
    BY <2>1, <2>2, <2>3 DEF Active
  <2> QED BY <2>1, <2>2, <2>3, <2>4, <2>5, <1>b
<1>6. ASSUME NEW t \in Targets, DeleteTarget(t) PROVE ReadyInv'
  <2>1. /\ config' = config /\ ready' = ready /\ current' = current /\ template' = template
        /\ objs' = objs /\ deleting' = [deleting EXCEPT ![t] = TRUE]
        /\ exists' = [exists EXCEPT ![t] = finalizer[t]] /\ exists[t] /\ finalizer' = finalizer
    BY <1>6 DEF DeleteTarget, Active, statusVars
  <2> QED BY <2>1, <1>b DEF ReadyInv, Active
<1>7. ASSUME NEW t \in Targets, CollectGarbage(t) PROVE ReadyInv'
  <2>1. /\ config' = config /\ ready' = ready /\ current' = current /\ template' = template
        /\ deleting' = deleting /\ exists' = exists /\ finalizer' = finalizer
        /\ objs' = IF exists[t] THEN objs ELSE [objs EXCEPT ![t] = {}]
    BY <1>7 DEF CollectGarbage, objVars, statusVars
  <2> QED BY <2>1, <1>b DEF ReadyInv, Active
<1>8. ASSUME NEW t \in Targets, PodsStart(t) \/ PodsEnd(t) PROVE ReadyInv'
  BY <1>8, <1>b DEF PodsStart, PodsEnd, objVars, statusVars, ReadyInv, Active
<1>9. ASSUME NEW t \in Targets, NEW f \in Configs, EditSpec(t, f) PROVE ReadyInv'
  <2>1. /\ config' = [config EXCEPT ![t] = f] /\ current' = [current EXCEPT ![t] = FALSE]
        /\ exists' = exists /\ deleting' = deleting /\ finalizer' = finalizer /\ ready' = ready
        /\ objs' = objs /\ template' = template
    BY <1>9 DEF EditSpec
  <2>2. /\ config' \in [Targets -> Configs] /\ current' \in [Targets -> BOOLEAN]
        /\ \A u \in Targets : current'[u] => u # t /\ current[u] /\ config'[u] = config[u]
    BY <2>1 DEF ReadyInv
  <2>3. ASSUME NEW u \in Targets, Active(u)', ready'[u] = "DeploymentReady", current'[u]
        PROVE  Provisioned(u)'
    <3>1. Provisioned(u)
      BY <2>1, <2>2, <2>3 DEF ReadyInv, Active
    <3> QED BY <2>1, <2>2, <2>3, <3>1 DEF Provisioned, HasObjects
  <2> QED BY <2>1, <2>2, <2>3 DEF ReadyInv
<1>10. ASSUME NEW t \in Targets, NEW o \in HandDeleted, DeleteObject(t, o) PROVE ReadyInv'
  <2>1. /\ config' = config /\ ready' = ready /\ current' = current /\ template' = template
        /\ exists' = exists /\ deleting' = deleting /\ finalizer' = finalizer
        /\ objs' = [objs EXCEPT ![t] = @ \ {o}]
    BY <1>10 DEF DeleteObject, objVars, statusVars
  <2>2. ASSUME NEW u \in Targets, Provisioned(u) PROVE Provisioned(u)'
    <3>1. objs'[u] = objs[u] \/ objs'[u] = objs[u] \ {o}
      BY <2>1 DEF ReadyInv
    <3> QED BY <2>1, <2>2, <3>1 DEF Provisioned, HasObjects
  <2>3. DOMAIN objs' = Targets
    BY <2>1 DEF ReadyInv
  <2>4. \A u \in Targets : Active(u)' = Active(u)
    BY <2>1 DEF Active
  <2> QED BY <2>1, <2>2, <2>3, <2>4 DEF ReadyInv
<1> QED BY <1>1, <1>2, <1>3, <1>4, <1>5, <1>6, <1>7, <1>8, <1>9, <1>10 DEF Next, Controller

(***************************************************************************)
(* A Ready condition of the current generation tells the truth, wherever a *)
(* reconcile stopped before and whichever status writes were lost: the     *)
(* manager's Deployment has the pod template of the current spec, every    *)
(* object that nobody deleted by hand is there, the exposure object        *)
(* included when the spec names its type, and the obsolete policy is gone  *)
(* (Reconcile, reconcileExposure, setCondition).                           *)
(***************************************************************************)
THEOREM ReadyTellsTheTruth == Spec => []ReadyIsCurrent
<1>1. Safety => []ReadyInv
  BY ReadyInit, ReadyNext, PTL DEF Safety
<1>2. ReadyInv => ReadyIsCurrent
  BY Zenon DEF ReadyInv, ReadyIsCurrent, Provisioned, HasObjects
<1> QED BY <1>1, <1>2, PTL DEF Spec

-----------------------------------------------------------------------------
(***************************************************************************)
(* The resource API that several MirrorTargets own together.               *)
(***************************************************************************)
SharedInv ==
    /\ exists \in [Targets -> BOOLEAN] /\ deleting \in [Targets -> BOOLEAN]
    /\ finalizer \in [Targets -> BOOLEAN]
    /\ ready \in [Targets -> Reasons]
    /\ DOMAIN shared = Shared
    /\ SharedApiKept

LEMMA SharedInit == Init => SharedInv
  BY DEF Init, SharedInv, SharedApiKept, Reasons

\* Whatever part of a reconcile is done, nobody loses the resource API by it,
\* and a whole one makes the target an owner of all of it.
LEMMA ProvisionKeeps ==
    ASSUME SharedInv, NEW t \in Targets, NEW k, Provision(t, k)
    PROVE  /\ exists' = exists /\ deleting' = deleting /\ finalizer' = finalizer
           /\ DOMAIN shared' = Shared
           /\ \A o \in Shared : shared[o] \subseteq shared'[o]
           /\ k = Len(Steps) => \A o \in Shared : t \in shared'[o]
<1>1. exists' = exists /\ deleting' = deleting /\ finalizer' = finalizer
  BY DEF Provision, objVars
<1>2. shared' = [o \in Shared |-> IF o \in {Steps[i] : i \in 1..k}
                                  THEN shared[o] \cup {t} ELSE shared[o]]
  BY Zenon DEF Provision, Ensure
<1>3. DOMAIN shared' = Shared /\ \A o \in Shared : shared[o] \subseteq shared'[o]
  BY <1>2
<1>4. ASSUME k = Len(Steps) PROVE \A o \in Shared : t \in shared'[o]
  BY <1>2, <1>4, StepsCover
<1> QED BY <1>1, <1>3, <1>4

LEMMA SharedNext == SharedInv /\ [Next]_vars => SharedInv'
<1> SUFFICES ASSUME SharedInv, [Next]_vars PROVE SharedInv'
  OBVIOUS
<1> USE DEF SharedInv, SharedApiKept
<1>1. CASE UNCHANGED vars
  BY <1>1 DEF vars, objVars, statusVars
<1>2. ASSUME NEW t \in Targets, Provision(t, Len(Steps)), NEW ok, SetReady(t, ok)
      PROVE  SharedInv'
  BY <1>2, ProvisionKeeps DEF SetReady, SetCondition, Reasons
<1>3. ASSUME NEW t \in Targets, NEW k, Provision(t, k),
             SetCondition(t, "ReconcileError") \/ UNCHANGED statusVars
      PROVE  SharedInv'
  BY <1>3, ProvisionKeeps DEF SetCondition, statusVars, Reasons
<1>4. ASSUME NEW t \in Targets, Controller(t) \/ ReconcileFails(t) \/ HandleDeletionFails(t)
      PROVE  SharedInv'
  <2>1. CASE AddFinalizer(t)
    BY <2>1 DEF AddFinalizer, statusVars
  <2>2. CASE HandleDeletion(t) \/ HandleDeletionFails(t)
    BY <2>2 DEF HandleDeletion, HandleDeletionFails, Finish, statusVars
  <2>3. CASE Reconcile(t)
    BY <2>3, <1>2 DEF Reconcile
  <2>4. CASE ReconcileFails(t)
    <3>1. CASE \E k \in 0..(Len(Steps) - 1) :
                 /\ Provision(t, k)
                 /\ SetCondition(t, "ReconcileError") \/ UNCHANGED statusVars
      BY <3>1, <1>3
    <3>2. CASE Provision(t, Len(Steps)) /\ \E ok : SetReady(t, ok) \/ UNCHANGED statusVars
      BY <3>2, <1>2, <1>3
    <3> QED BY <2>4, <3>1, <3>2 DEF ReconcileFails
  <2> QED BY <1>4, <2>1, <2>2, <2>3, <2>4 DEF Controller
<1>5. ASSUME NEW t \in Targets, DeleteTarget(t) PROVE SharedInv'
  BY <1>5 DEF DeleteTarget, Active, statusVars
<1>6. ASSUME NEW t \in Targets, CollectGarbage(t) PROVE SharedInv'
  <2>1. exists' = exists /\ deleting' = deleting /\ finalizer' = finalizer /\ ready' = ready
    BY <1>6 DEF CollectGarbage, objVars, statusVars
  <2>2. CASE exists[t]
    BY <1>6, <2>1, <2>2 DEF CollectGarbage
  <2>3. CASE ~exists[t]
    <3>1. shared' = [o \in Shared |-> shared[o] \ {t}]
      BY <1>6, <2>3 DEF CollectGarbage
    <3> QED BY <2>1, <2>3, <3>1
  <2> QED BY <2>2, <2>3
<1>7. ASSUME NEW t \in Targets, PodsStart(t) \/ PodsEnd(t) PROVE SharedInv'
  BY <1>7 DEF PodsStart, PodsEnd, objVars, statusVars
<1>8. ASSUME NEW t \in Targets, NEW f \in Configs, EditSpec(t, f) PROVE SharedInv'
  BY <1>8 DEF EditSpec
<1>9. ASSUME NEW t \in Targets, NEW o, DeleteObject(t, o) PROVE SharedInv'
  BY <1>9 DEF DeleteObject, objVars, statusVars
<1> QED BY <1>1, <1>4, <1>5, <1>6, <1>7, <1>8, <1>9 DEF Next

(***************************************************************************)
(* A MirrorTarget that was reported ready stays an owner of every object   *)
(* of the shared resource API until it is gone itself, whichever of the    *)
(* others are deleted and collected, and wherever a reconcile stops        *)
(* (ensureResourceAPI, garbage collection by owner references).            *)
(***************************************************************************)
THEOREM TheSharedApiIsKept == Spec => []SharedApiKept
<1>1. Safety => []SharedInv
  BY SharedInit, SharedNext, PTL DEF Safety
<1>2. SharedInv => SharedApiKept
  BY DEF SharedInv
<1> QED BY <1>1, <1>2, PTL DEF Spec
=============================================================================
