-------------------------- MODULE ProviderWorkload --------------------------
(***************************************************************************)
(* The operator's workload for each Provider (operator: provider.rs,       *)
(* workload.rs, naming.rs, providerclass.rs).                              *)
(*                                                                         *)
(* A pass applies, one object at a time, the identity of a Provider's      *)
(* process, its permissions and the Deployment, then removes by label what *)
(* an earlier class left, and reports.  Providers are edited and deleted,  *)
(* and classes edited, while a pass runs from a cached Provider; any call  *)
(* may fail, which ends the pass.                                          *)
(***************************************************************************)
EXTENDS Integers, Sequences, FiniteSets

CONSTANTS
    Providers,
    Home,           \* the namespace of each; all have one name
    Classes,
    Pinned,         \* the workloadNamespace of each class at first
    Spaces,         \* that it may be set to
    Uses,           \* the classes each Provider may refer to
    MaxEdits,       \* edits of Providers and classes
    MaxFaults

VARIABLES
    prov, cache,    \* the Providers, and as the operator's store holds them
    class,          \* what a ProviderClass says of its workloads
    objs,           \* the objects of the workloads
    pass,           \* the pass of each Provider
    status,         \* status.workload.mode
    edits, faults

vars == <<prov, cache, class, objs, pass, status, edits, faults>>

Modes == {"Managed", "External"}

\* A class that is fit for a workload has a mode; others make a pass do nothing.
ClassStates == Modes \cup {"Paused", "NoImage", "NotFound"}
Unset == "unset"

\* A class as a pass has read it.
Read(c) == [name |-> c, mode |-> class[c].state, ns |-> class[c].ns]

\* The kinds, in the order in which prune_orphans goes through them.
Kinds == <<"Deployment", "ServiceAccount", "Role", "RoleBinding", "ClusterRoleBinding">>

-----------------------------------------------------------------------------
(* The objects of a workload.                                              *)

workload_namespace_or(p, k) == IF k.ns = Unset THEN Home[p] ELSE k.ns

\* An External Provider keeps its identity with the Provider.
service_account_namespace(p, k) ==
    IF k.mode = "External" THEN Home[p] ELSE workload_namespace_or(p, k)

\* What identifies an object, whom its labels name, and the namespace of the
\* account it binds.
Object(kind, ns, c, role, p, sa) ==
    [kind |-> kind, ns |-> ns, class |-> c, role |-> role, of |-> p, sa |-> sa]

\* The name of a binding for the cluster tells the namespace of the Provider.
ClusterScoped(p) == <<"cluster", Home[p]>>

Account(p, k) ==
    LET sa == service_account_namespace(p, k) IN Object("ServiceAccount", sa, k.name, "own", p, sa)
Grants(p, k) ==
    <<Object("Role", Home[p], k.name, "own", p, "none"),
      Object("RoleBinding", Home[p], k.name, "own", p, service_account_namespace(p, k))>>
\* What the import Jobs, which run elsewhere, may read of this Provider.
ImportGrants(p, k) ==
    <<Object("Role", Home[p], k.name, "import", p, "none"),
      Object("RoleBinding", Home[p], k.name, "import", p, "build")>>
ClusterBinding(p, k) ==
    Object("ClusterRoleBinding", ClusterScoped(p), k.name, "own", p, service_account_namespace(p, k))
Workload(p, k) ==
    LET ns == workload_namespace_or(p, k) IN Object("Deployment", ns, k.name, "own", p, ns)

build_pod_first(p, k) ==
    (IF k.mode = "Managed" THEN <<Workload(p, k)>> ELSE <<>>)
    \o <<Account(p, k)>> \o Grants(p, k)
    \o (IF k.mode = "Managed" THEN ImportGrants(p, k) ELSE <<>>)
    \o <<ClusterBinding(p, k)>>

\* The identity and its permissions come before the pod that uses them; an
\* External class has neither a Deployment nor an import identity.
build_workload(p, k) ==
    <<Account(p, k)>> \o Grants(p, k)
    \o (IF k.mode = "Managed" THEN ImportGrants(p, k) ELSE <<>>)
    \o <<ClusterBinding(p, k)>>
    \o (IF k.mode = "Managed" THEN <<Workload(p, k)>> ELSE <<>>)

Key(o) == [kind |-> o.kind, ns |-> o.ns, class |-> o.class, role |-> o.role]
server_side_apply(o) == {x \in objs : Key(x) # Key(o)} \cup {o}

\* Objects in the Provider's namespace have it for their owner and are collected
\* with it; the others go only by the finalizer.
workload_is_owned(o) == o.ns = Home[o.of]

owned_by_current_name(p) == {o \in objs : o.of = p /\ o.class = cache[p].class}

\* Selection by label: the Provider's name and its namespace.
owned_by_selector(p) == {o \in objs : o.of = p}

keep_one_role(o, k) ==
    /\ o.class = k.name /\ o.role = "own"
    /\ o.kind = "Deployment" => k.mode = "Managed"

\* What a pass keeps, by name, which tells the class but not the namespace: of a
\* Managed class the Deployment and the import grants too.
keep(o, k) ==
    /\ o.class = k.name
    /\ o.kind = "Deployment" \/ o.role = "import" => k.mode = "Managed"

-----------------------------------------------------------------------------
Idle == [pc |-> "idle"]
Missing == [life |-> "new", fin |-> FALSE, class |-> "none", paused |-> FALSE]

Init ==
    /\ prov = [p \in Providers |-> Missing] /\ cache = prov
    /\ class = [c \in Classes |-> [state |-> "Managed", ns |-> Pinned[c]]]
    /\ objs = {} /\ pass = [p \in Providers |-> Idle]
    /\ status = [x \in Providers |-> "none"]
    /\ edits = 0 /\ faults = 0

Exists(o) == o.life \in {"live", "deleting"}
Step(p, s) == pass' = [pass EXCEPT ![p] = s]
Fail == faults < MaxFaults /\ faults' = faults + 1

-----------------------------------------------------------------------------
(* A pass of the Provider controller.                                      *)

\* A deleted Provider is cleaned up; the finalizer is put on before anything is
\* applied, and the call is refused for one that is gone or being deleted.
reconcile(p) ==
    /\ pass[p].pc = "idle" /\ Exists(cache[p])
    /\ IF cache[p].life = "deleting"
       THEN Step(p, [pc |-> "cleanup", kinds |-> <<"ClusterRoleBinding">> \o SubSeq(Kinds, 1, 4)]) /\ UNCHANGED prov
       ELSE /\ Step(p, [pc |-> "class", class |-> cache[p].class, paused |-> cache[p].paused])
            /\ IF cache[p].fin THEN UNCHANGED prov
               ELSE prov[p].life = "live" /\ prov' = [prov EXCEPT ![p].fin = TRUE]
    /\ UNCHANGED <<cache, class, objs, status, edits, faults>>

\* No class, no image for a Managed one, or a pause: nothing is applied and
\* nothing removed.
skip_reason(p) == pass[p].paused \/ class[pass[p].class].state \notin Modes

GetClass(p) ==
    /\ pass[p].pc = "class"
    /\ LET k == Read(pass[p].class) IN
       Step(p, IF skip_reason(p) THEN Idle
               ELSE [pc |-> "apply", class |-> k, todo |-> build_workload(p, k)])
    /\ UNCHANGED <<prov, cache, class, objs, status, edits, faults>>

apply_workload(p) ==
    /\ pass[p].pc = "apply"
    /\ objs' = server_side_apply(Head(pass[p].todo))
    /\ Step(p, IF Len(pass[p].todo) > 1 THEN [pass[p] EXCEPT !.todo = Tail(@)]
               ELSE [pc |-> "prune", class |-> pass[p].class, kinds |-> Kinds])
    /\ UNCHANGED <<prov, cache, class, status, edits, faults>>

\* Kind by kind, in every namespace.
prune_orphans(p) ==
    /\ pass[p].pc = "prune"
    /\ objs' = objs \ {o \in owned_by_selector(p) :
                         o.kind = Head(pass[p].kinds) /\ ~keep(o, pass[p].class)}
    /\ Step(p, IF Len(pass[p].kinds) > 1 THEN [pass[p] EXCEPT !.kinds = Tail(@)]
               ELSE [pc |-> "publish", mode |-> pass[p].class.mode])
    /\ UNCHANGED <<prov, cache, class, status, edits, faults>>

publish_status(p) ==
    /\ pass[p].pc = "publish" /\ Step(p, Idle)
    /\ status' = [status EXCEPT ![p] = IF prov[p].life = "gone" THEN @ ELSE pass[p].mode]
    /\ UNCHANGED <<prov, cache, class, objs, edits, faults>>

\* By label too, in every namespace, whatever the class says now.
cleanup(p) ==
    /\ pass[p].pc = "cleanup"
    /\ objs' = objs \ {o \in owned_by_selector(p) : o.kind = Head(pass[p].kinds)}
    /\ Step(p, IF Len(pass[p].kinds) > 1 THEN [pass[p] EXCEPT !.kinds = Tail(@)]
               ELSE [pc |-> "release"])
    /\ UNCHANGED <<prov, cache, class, status, edits, faults>>

\* Without the finalizer a deleted Provider is gone.
RemoveFinalizer(p) ==
    /\ pass[p].pc = "release" /\ Step(p, Idle)
    /\ prov' = IF prov[p].life = "deleting" THEN [prov EXCEPT ![p].life = "gone", ![p].fin = FALSE]
               ELSE prov
    /\ UNCHANGED <<cache, class, objs, status, edits, faults>>

\* A call fails, or the operator is restarted.
PassFails(p) ==
    /\ pass[p].pc # "idle" /\ Fail /\ Step(p, Idle)
    /\ UNCHANGED <<prov, cache, class, objs, status, edits>>

-----------------------------------------------------------------------------
(* Everybody else.                                                         *)

Edit == edits < MaxEdits /\ edits' = edits + 1

Create(p) ==
    /\ prov[p].life = "new"
    /\ \E c \in Uses[p] : prov' = [prov EXCEPT ![p].life = "live", ![p].class = c]
    /\ UNCHANGED <<cache, class, objs, pass, status, edits, faults>>

EditProvider(p) ==
    /\ prov[p].life = "live" /\ Edit
    /\ \/ \E c \in Uses[p] \ {prov[p].class} : prov' = [prov EXCEPT ![p].class = c]
       \/ prov' = [prov EXCEPT ![p].paused = ~@]
    /\ UNCHANGED <<cache, class, objs, pass, status, faults>>

Delete(p) ==
    /\ prov[p].life = "live"
    /\ prov' = [prov EXCEPT ![p].life = IF prov[p].fin THEN "deleting" ELSE "gone"]
    /\ UNCHANGED <<cache, class, objs, pass, status, edits, faults>>

EditClass(c) ==
    /\ Edit
    /\ \/ \E s \in ClassStates \ {class[c].state} : class' = [class EXCEPT ![c].state = s]
       \/ \E ns \in (Spaces \cup {Unset}) \ {class[c].ns} : class' = [class EXCEPT ![c].ns = ns]
    /\ UNCHANGED <<prov, cache, objs, pass, status, faults>>

Sync(p) ==
    /\ cache[p] # prov[p]
    /\ cache' = [cache EXCEPT ![p] = prov[p]]
    /\ UNCHANGED <<prov, class, objs, pass, status, edits, faults>>

Pass(p) ==
    \/ reconcile(p) \/ GetClass(p) \/ apply_workload(p) \/ prune_orphans(p)
    \/ publish_status(p) \/ cleanup(p) \/ RemoveFinalizer(p)

Next ==
    \/ \E p \in Providers :
          Pass(p) \/ PassFails(p) \/ Create(p) \/ EditProvider(p) \/ Delete(p) \/ Sync(p)
    \/ \E c \in Classes : EditClass(c)

\* Passes are requeued, calls answered, watch events delivered.
Fairness == \A p \in Providers : WF_vars(Pass(p)) /\ WF_vars(Sync(p))

Spec == Init /\ [][Next]_vars /\ Fairness
-----------------------------------------------------------------------------
(* Properties.                                                             *)

TypeOK ==
    /\ prov \in [Providers -> [life: {"new", "live", "deleting", "gone"}, fin: BOOLEAN,
                               class: Classes \cup {"none"}, paused: BOOLEAN]]
    /\ class \in [Classes -> [state: ClassStates, ns: Spaces \cup {Unset}]]
    /\ \A x, y \in objs : Key(x) = Key(y) => x = y
    /\ status \in [Providers -> Modes \cup {"none"}]

Of(p, kind) == {o \in objs : o.of = p /\ o.kind = kind}

\* A pod never runs without an identity and its grants, unless the Provider is
\* being taken down: whatever is edited while the objects are applied, whichever
\* call fails, and although what an earlier class left is removed meanwhile.
IdentityBeforePod ==
    \A p \in Providers : prov[p].life = "live" =>
        \A d \in Of(p, "Deployment") :
            /\ \E o \in Of(p, "ServiceAccount") : o.class = d.class /\ o.ns = d.ns
            /\ \A kind \in {"Role", "RoleBinding", "ClusterRoleBinding"} :
                  \E o \in Of(p, kind) : o.class = d.class /\ o.role = "own"

\* A Provider that is gone left nothing that only the finalizer removes, of no
\* class it ever had.
NothingLeaks ==
    \A o \in objs : prov[o.of].life = "gone" => workload_is_owned(o)

\* No pass removes what it has just applied ("the pruner deleted the import Role and
\* RoleBinding moments after the reconciler created them, on every pass, forever", of
\* an earlier version of prune_namespaced).
AppliedStays ==
    \A p \in Providers : pass[p].pc = "prune" =>
        LET workload == build_workload(p, pass[p].class)
        IN  \A i \in DOMAIN workload : workload[i] \in objs => workload[i] \in objs'
WorkloadKept == [][AppliedStays]_vars

\* A pod of the class in a namespace that the class no longer says: its name is kept.
LeftBehind(o, p, k) == o.kind = "Deployment" /\ o.class = k.name /\ o.ns # workload_namespace_or(p, k)

Settled(p) ==
    LET k == Read(prov[p].class)
        workload == build_workload(p, k)
        wanted == {workload[i] : i \in DOMAIN workload}
    IN  prov[p].life = "live" /\ ~prov[p].paused /\ k.mode \in Modes =>
            /\ wanted \subseteq objs
            /\ \A o \in objs \ wanted : o.of = p => o.kind = "ServiceAccount" \/ LeftBehind(o, p, k)

\* When nobody edits any more each Provider has the workload of its class, and of no
\* other class: no second pod for the backend, and no pass that undoes what the pass
\* before it did.  Two things that the code leaves are excepted.  When a class is
\* given another workloadNamespace the pod in the old one stays beside the new one,
\* since pruning keeps by name in every namespace; and so does the account of a
\* Managed past outside the Provider's namespace.
AllSettled == \A p \in Providers : Settled(p)
WorkloadSettles == <>[]AllSettled

\* A deleted Provider goes.
DeletedProviderGoes ==
    \A p \in Providers : prov[p].life = "deleting" ~> prov[p].life = "gone"
=============================================================================
