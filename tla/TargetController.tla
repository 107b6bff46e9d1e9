-------------------------- MODULE TargetController --------------------------
(***************************************************************************)
(* The MirrorTarget controller apart from cleanup (module Cleanup): what   *)
(* Reconcile provisions for a MirrorTarget and in which order, how the     *)
(* resource server is exposed, and the finalizer.  Several MirrorTargets   *)
(* of a namespace share one resource API, which they own together.  The    *)
(* cluster's own controllers (Deployment, Job, garbage collection) act     *)
(* between two reconciles.                                                 *)
(***************************************************************************)
EXTENDS Naturals, Sequences, SequencesExt

CONSTANTS
    Targets,        \* MirrorTargets of the namespace
    Configs,        \* specs a user may give them, see Config
    RouteAPI,       \* the cluster serves OpenShift Routes
    GatewayAPI,     \* the cluster serves HTTPRoutes
    HandDeleted,    \* objects somebody may delete by hand
    MaxEdits,       \* bound on edits of specs and deletions of objects
    MaxFaults       \* bound on failed API calls

Exposures == {"Route", "Ingress", "HTTPRoute"}

\* The part of a spec that decides what is created.  expose "" asks for
\* auto-detection; host and gateway say whether those fields are filled in, and
\* proxy which fields of the proxy configuration are.
Config == [expose : {"", "Service", "Route", "Ingress", "GatewayAPI"}, host : BOOLEAN,
           gateway : BOOLEAN, auth : BOOLEAN, ca : BOOLEAN,
           proxy : SUBSET {"httpProxy", "httpsProxy", "noProxy"}]

ASSUME TargetAssumption ==
    /\ Configs \subseteq Config
    /\ RouteAPI \in BOOLEAN /\ GatewayAPI \in BOOLEAN
    /\ MaxEdits \in Nat /\ MaxFaults \in Nat

VARIABLES
    exists, deleting, finalizer,    \* [Targets -> BOOLEAN]: the MirrorTarget object
    config,                         \* [Targets -> Configs]: its spec
    ready,                          \* [Targets -> reason of its Ready condition]
    current,                        \* [Targets -> BOOLEAN]: its observedGeneration is the
                                    \* generation of the spec
    objs,                           \* [Targets -> what it controls]
    shared,                         \* [shared object -> its owners]
    template,                       \* [Targets -> the manager's pod template]
    rs, pods,                       \* the manager's ReplicaSet, and the target's pods
    edits, faults

objVars == <<exists, deleting, finalizer, config>>
statusVars == <<ready, current>>
podVars == <<rs, pods>>
vars == <<objVars, statusVars, objs, shared, template, podVars, edits, faults>>

\* What Reconcile ensures, in its order.  The last of the policies is the one
\* that an earlier version of the operator created and this one deletes.
Obsolete == "worker-egress"
CoordinatorRBAC == <<"coordinatorSA", "workerSA", "role", "roleBinding">>
NetworkPolicies == <<"manager-ingress", "worker-ingress-deny", Obsolete>>
ResourceRBAC == <<"apiSA", "apiRole", "apiRoleBinding">>
ResourceAPI == ResourceRBAC \o <<"apiDeployment", "apiService">>
Manager == <<"manager", "managerService", "resourcesService">>
Steps == CoordinatorRBAC \o NetworkPolicies \o ResourceAPI \o Manager
Shared == ToSet(ResourceAPI)
Required == ToSet(Steps) \ (Shared \cup {Obsolete})

-----------------------------------------------------------------------------
(***************************************************************************)
(* The manager's pod template: managerContainerEnv,                        *)
(* managerContainerVolumeMounts and managerPodVolumes.                     *)
(***************************************************************************)
If(b, S) == IF b THEN S ELSE {}
UsesProxy(f) == f.proxy \cap {"httpProxy", "httpsProxy"} # {}
\* The entries of NO_PROXY: the cluster's own names come first when a proxy is set.
NoProxy(f) == If(UsesProxy(f), {"clusterNoProxy"}) \cup (f.proxy \cap {"noProxy"})
ProxyEnv(f) ==
    If("httpProxy" \in f.proxy, {"HTTP_PROXY"}) \cup If("httpsProxy" \in f.proxy, {"HTTPS_PROXY"})
        \cup If(NoProxy(f) # {}, {"NO_PROXY"}) \cup If(UsesProxy(f), {"KUBERNETES_SERVICE_HOST"})
CABundleEnv(f) == If(f.ca, {"SSL_CERT_FILE"})
Env(f) == If(f.auth, {"DOCKER_CONFIG"}) \cup ProxyEnv(f) \cup CABundleEnv(f)
Mounts(f) == If(f.auth, {"dockerconfig"}) \cup If(f.ca, {"ca-bundle"})
Volumes(f) == If(f.auth, {"dockerconfig"}) \cup If(f.ca, {"ca-bundle"})
Template(f) ==
    [env |-> Env(f), noProxy |-> NoProxy(f), mounts |-> Mounts(f), volumes |-> Volumes(f)]
NoTemplate == [env |-> {}, noProxy |-> {}, mounts |-> {}, volumes |-> {}]

-----------------------------------------------------------------------------
(***************************************************************************)
(* Exposure: the object asked for, and what ensuring it needs.             *)
(***************************************************************************)
\* hasRouteAPI answers what the cluster serves; a probe that fails counts as no.
ExposeType(f, hasRoute) ==
    IF f.expose # "" THEN f.expose ELSE IF hasRoute THEN "Route" ELSE "Service"
Desired(f, hasRoute) ==
    LET e == ExposeType(f, hasRoute)
    IN  IF e = "GatewayAPI" THEN {"HTTPRoute"} ELSE {e} \ {"Service"}
CanRoute == RouteAPI
CanIngress(f) == f.host
CanHTTPRoute(f) == f.gateway /\ GatewayAPI
CanExpose(f, hasRoute) ==
    CASE ExposeType(f, hasRoute) = "Route"      -> CanRoute
      [] ExposeType(f, hasRoute) = "Ingress"    -> CanIngress(f)
      [] ExposeType(f, hasRoute) = "GatewayAPI" -> CanHTTPRoute(f)
      [] OTHER                                  -> TRUE
Exposed(f) == IF CanExpose(f, RouteAPI) THEN Desired(f, RouteAPI) ELSE {}

Init ==
    /\ exists = [t \in Targets |-> TRUE]
    /\ deleting = [t \in Targets |-> FALSE] /\ finalizer = [t \in Targets |-> FALSE]
    /\ \E f \in Configs : config = [t \in Targets |-> f]
    /\ ready = [t \in Targets |-> ""] /\ current = [t \in Targets |-> FALSE]
    /\ objs = [t \in Targets |-> {Obsolete}]
    /\ shared = [o \in Shared |-> {}]
    /\ template = [t \in Targets |-> NoTemplate]
    /\ rs = [t \in Targets |-> FALSE]
    /\ pods = [t \in Targets |-> "none"]
    /\ edits = 0 /\ faults = 0

-----------------------------------------------------------------------------
(***************************************************************************)
(* Reconcile of a MirrorTarget that is not being deleted.                  *)
(***************************************************************************)
Active(t) == exists[t] /\ ~deleting[t]

AddFinalizer(t) ==
    /\ Active(t) /\ ~finalizer[t]
    /\ finalizer' = [finalizer EXCEPT ![t] = TRUE]
    /\ UNCHANGED <<exists, deleting, config, statusVars, objs, shared, template, podVars, edits, faults>>

OwnsApiAlone(t, k) ==
    LET done == {Steps[i] : i \in 1..k}
    IN  [done |-> done,
         own |-> (objs[t] \cup (done \ Shared)) \ (done \cap {Obsolete}),
         api |-> [o \in Shared |-> IF o \in done THEN {t} ELSE shared[o]]]

\* The first k steps succeed.
Ensure(t, k) ==
    LET done == {Steps[i] : i \in 1..k}
    IN  [done |-> done,
         own |-> (objs[t] \cup (done \ Shared)) \ (done \cap {Obsolete}),
         api |-> [o \in Shared |-> IF o \in done THEN shared[o] \cup {t} ELSE shared[o]]]

\* CreateOrUpdate of the Deployment replaces its pod template.
ProvisionKeepsTemplate(t, k) ==
    /\ Active(t) /\ finalizer[t]
    /\ shared' = Ensure(t, k).api
    /\ IF "manager" \in Ensure(t, k).done \ objs[t]
       THEN /\ template' = [template EXCEPT ![t] = Template(config[t])]
            /\ rs' = [rs EXCEPT ![t] = TRUE]
       ELSE UNCHANGED <<template, rs>>
    /\ UNCHANGED <<objVars, pods, edits>>
Provision(t, k) ==
    /\ Active(t) /\ finalizer[t]
    /\ shared' = Ensure(t, k).api
    /\ IF "manager" \in Ensure(t, k).done
       THEN /\ template' = [template EXCEPT ![t] = Template(config[t])]
            /\ rs' = [rs EXCEPT ![t] = TRUE]
       ELSE UNCHANGED <<template, rs>>
    /\ UNCHANGED <<objVars, pods, edits>>

\* reconcileExposure: objects of the other types are deleted, whose errors are
\* ignored (keep), then the object asked for is ensured (ok).
ExposeOnTop(t, hasRoute, keep, ok) ==
    objs' = [objs EXCEPT ![t] = Ensure(t, Len(Steps)).own \cup If(ok, Desired(config[t], hasRoute))]
Expose(t, hasRoute, keep, ok) ==
    LET want == Desired(config[t], hasRoute)
    IN  objs' = [objs EXCEPT ![t] =
                    (Ensure(t, Len(Steps)).own \ (Exposures \ (want \cup keep))) \cup If(ok, want)]

\* setCondition stamps the generation the reconcile read; the write of a status
\* whose spec was edited meanwhile is refused as a conflict.
SetCondition(t, reason) ==
    /\ ready' = [ready EXCEPT ![t] = reason]
    /\ current' = [current EXCEPT ![t] = TRUE]
SetReady(t, ok) == SetCondition(t, IF ok THEN "DeploymentReady" ELSE "ExposureError")

Reconcile(t) ==
    LET ok == CanExpose(config[t], RouteAPI) IN
    /\ Provision(t, Len(Steps)) /\ Expose(t, RouteAPI, {}, ok) /\ SetReady(t, ok)
    /\ UNCHANGED faults

\* One of the calls fails.  An ensure step ends the reconcile; a failed probe, or
\* a failed deletion of another exposure object, does not show; a failed
\* exposure does.  The status may stay as it was: its write fails (after a failed
\* step that is ignored), or the operator stops where it is.
ReconcileFails(t) ==
    /\ faults < MaxFaults /\ faults' = faults + 1
    /\ \/ \E k \in 0..(Len(Steps) - 1) :
            /\ Provision(t, k)
            /\ objs' = [objs EXCEPT ![t] = Ensure(t, k).own]
            /\ SetCondition(t, "ReconcileError") \/ UNCHANGED statusVars
       \/ /\ Provision(t, Len(Steps))
          /\ \E hasRoute \in {FALSE, RouteAPI}, keep \in SUBSET (objs[t] \cap Exposures) :
             \E ok \in {FALSE, CanExpose(config[t], hasRoute)} :
                /\ Expose(t, hasRoute, keep, ok)
                /\ SetReady(t, ok) \/ UNCHANGED statusVars

Stopped(p) == IF p = "none" THEN p ELSE "terminating"

\* handleDeletion: the Deployment goes first, then every pod is asked to stop;
\* the finalizer is only removed once a listing finds none.
Finish(t, gone) ==
    /\ finalizer' = [finalizer EXCEPT ![t] = @ /\ ~gone]
    /\ exists' = [exists EXCEPT ![t] = @ /\ ~gone]
    /\ UNCHANGED <<deleting, config, statusVars, shared, template, rs, edits>>
DeletesOnlyPods(t) ==
    /\ exists[t] /\ deleting[t] /\ finalizer[t]
    /\ pods' = [pods EXCEPT ![t] = Stopped(@)]
    /\ Finish(t, pods[t] = "none") /\ UNCHANGED <<objs, faults>>
HandleDeletion(t) ==
    /\ exists[t] /\ deleting[t] /\ finalizer[t]
    /\ objs' = [objs EXCEPT ![t] = @ \ {"manager"}]
    /\ pods' = [pods EXCEPT ![t] = Stopped(@)]
    /\ Finish(t, pods[t] = "none") /\ UNCHANGED faults

\* A call of handleDeletion fails.  A Deployment that cannot be read is left
\* alone and the rest goes on; any other failure ends the reconcile, before or
\* after the Deployment is deleted and pods are asked to stop.
HandleDeletionFails(t) ==
    /\ exists[t] /\ deleting[t] /\ finalizer[t]
    /\ faults < MaxFaults /\ faults' = faults + 1
    /\ \/ /\ pods' = [pods EXCEPT ![t] = Stopped(@)]
          /\ Finish(t, pods[t] = "none") /\ UNCHANGED objs
       \/ /\ objs' \in {objs, [objs EXCEPT ![t] = @ \ {"manager"}]}
          /\ UNCHANGED pods /\ Finish(t, FALSE)

-----------------------------------------------------------------------------
(***************************************************************************)
(* Users and the cluster.                                                  *)
(***************************************************************************)
Edit == edits < MaxEdits /\ edits' = edits + 1

EditSpec(t, f) ==
    /\ Edit /\ Active(t) /\ f # config[t]
    /\ config' = [config EXCEPT ![t] = f] /\ current' = [current EXCEPT ![t] = FALSE]
    /\ UNCHANGED <<exists, deleting, finalizer, ready, objs, shared, template, podVars, faults>>
DeleteObject(t, o) ==
    /\ Edit /\ Active(t) /\ o \in objs[t] /\ objs' = [objs EXCEPT ![t] = @ \ {o}]
    /\ UNCHANGED <<objVars, statusVars, shared, template, podVars, faults>>
DeleteTarget(t) ==
    /\ Active(t)
    /\ deleting' = [deleting EXCEPT ![t] = TRUE]
    /\ exists' = [exists EXCEPT ![t] = finalizer[t]]
    /\ UNCHANGED <<finalizer, config, statusVars, objs, shared, template, podVars, edits, faults>>

\* Garbage collection: what a deleted target controlled goes, a shared object
\* goes with its last owner, a ReplicaSet goes after its Deployment, and pods go
\* with what started them.
CollectGarbage(t) ==
    /\ \/ ~exists[t] /\ (objs[t] # {} \/ \E o \in Shared : t \in shared[o])
       \/ rs[t] /\ "manager" \notin objs[t]
    /\ objs' = IF exists[t] THEN objs ELSE [objs EXCEPT ![t] = {}]
    /\ shared' = IF exists[t] THEN shared ELSE [o \in Shared |-> shared[o] \ {t}]
    /\ rs' = [rs EXCEPT ![t] = FALSE]
    /\ pods' = [pods EXCEPT ![t] = Stopped(@)]
    /\ UNCHANGED <<objVars, statusVars, template, edits, faults>>

\* A ReplicaSet that is left runs the manager, which starts workers.
PodsStart(t) ==
    /\ pods[t] = "none" /\ rs[t] /\ pods' = [pods EXCEPT ![t] = "running"]
    /\ UNCHANGED <<objVars, statusVars, objs, shared, template, rs, edits, faults>>
PodsEnd(t) ==
    /\ pods[t] = "terminating" /\ pods' = [pods EXCEPT ![t] = "none"]
    /\ UNCHANGED <<objVars, statusVars, objs, shared, template, rs, edits, faults>>

-----------------------------------------------------------------------------
Controller(t) == AddFinalizer(t) \/ Reconcile(t) \/ HandleDeletion(t)
Next ==
    \E t \in Targets :
        \/ Controller(t) \/ ReconcileFails(t) \/ HandleDeletionFails(t)
        \/ DeleteTarget(t) \/ CollectGarbage(t) \/ PodsStart(t) \/ PodsEnd(t)
        \/ \E f \in Configs : EditSpec(t, f)
        \/ \E o \in HandDeleted : DeleteObject(t, o)

Safety == Init /\ [][Next]_vars

\* Reconcile runs on every event and every ten minutes at the latest; a pod that
\* was asked to stop stops, and garbage is collected.
Fairness ==
    \A t \in Targets :
        WF_vars(Controller(t)) /\ WF_vars(CollectGarbage(t)) /\ WF_vars(PodsEnd(t))

Spec == Safety /\ Fairness

-----------------------------------------------------------------------------
\* A Ready condition of the current generation can be relied on, whatever edits,
\* half-finished reconciles and lost status writes came before: the manager runs
\* the template of the current spec, every object is there that nobody deleted by
\* hand, also the exposure object when the spec names its type, and the obsolete
\* policy is gone (setCondition at the end of Reconcile).
ReadyIsCurrent ==
    \A t \in Targets :
        Active(t) /\ ready[t] = "DeploymentReady" /\ current[t] =>
            /\ template[t] = Template(config[t])
            /\ Required \ HandDeleted \subseteq objs[t] /\ Obsolete \notin objs[t]
            /\ config[t].expose # "" => Desired(config[t], RouteAPI) \ HandDeleted \subseteq objs[t]

\* A MirrorTarget that was reported ready keeps the shared resource API for as
\* long as it exists: the deletion of another one does not take it along.
SharedApiKept ==
    \A t \in Targets :
        exists[t] /\ ready[t] = "DeploymentReady" => \A o \in Shared : t \in shared[o]

\* After the last edit and the last failed call every MirrorTarget has all its
\* objects, exactly the exposure its spec asks for, a manager with the template of that
\* spec, and no obsolete policy.
Converges ==
    <>[](\A t \in Targets : Active(t) =>
            /\ template[t] = Template(config[t])
            /\ Required \subseteq objs[t] /\ Obsolete \notin objs[t]
            /\ objs[t] \cap Exposures = Exposed(config[t]))

\* A deleted MirrorTarget goes away in the end, although its ReplicaSet starts
\* pods meanwhile and a call of the finalizer may fail, and from then on no pod,
\* no object and no part in the shared resource API is left of it.
DeletionEnds ==
    <>[](\A t \in Targets : deleting[t] =>
            /\ ~exists[t] /\ pods[t] = "none" /\ ~rs[t]
            /\ objs[t] = {} /\ \A o \in Shared : t \notin shared[o])
=============================================================================
