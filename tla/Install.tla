------------------------------ MODULE Install -------------------------------
(***************************************************************************)
(* The installs of `banlieue bootstrap` (operator: bootstrap.rs): the      *)
(* objects each target is made of, and the order in which they are         *)
(* applied.  Installs of several targets run at the same time, are run     *)
(* again, and end at the first object the cluster refuses.                 *)
(***************************************************************************)
EXTENDS Integers, Sequences, SequencesExt

CONSTANTS
    Backends,       \* compiled into the binary, and with a ClusterRole of their own
    Admins,         \* who runs an install
    MaxRuns         \* installs that are started

VARIABLES
    cluster,        \* the objects that are there
    established,    \* the API server serves the CRDs
    todo,           \* what is left of the install of an admin
    runs

vars == <<cluster, established, todo, runs>>

System == "system"          \* --namespace
Build == "imagebuild"       \* DEFAULT_IMAGEBUILD_NAMESPACE
Object(kind, ns, name) == [kind |-> kind, ns |-> ns, name |-> name]
Targets == {"operator", "imagebuilder"} \cup Backends

-----------------------------------------------------------------------------
(* What an install is made of.                                             *)

InstalledRoles(t) == IF t = "operator" THEN <<"controller", "operator">> ELSE <<t>>

\* Each role but the operator has a Role for its own Lease.
elects_through_own_lease(r) == r # "operator"

\* Namespaced access besides the ClusterRole, last the Lease.
build_operator_token_role == Object("Role", System, "operator-external-tokens")
build_controller_userdata_role == Object("Role", System, "controller-userdata")
build_cloud_config_role == Object("Role", Build, "imagebuilder-cloudconfig")
build_leader_election_role(r) == Object("Role", System, r \o "-leader-election")

NamespacedRoles(r) ==
    (CASE r = "operator" -> <<build_operator_token_role>>
       [] r = "controller" -> <<build_controller_userdata_role>>
       [] r = "imagebuilder" -> <<build_cloud_config_role>>
       [] OTHER -> <<Object("Role", System, r)>>)
    \o (IF elects_through_own_lease(r) THEN <<build_leader_election_role(r)>> ELSE <<>>)

\* A Role and its binding are in one namespace and have one name.
BindingOf(role) == [role EXCEPT !.kind = "RoleBinding"]

build_service_account(r) == Object("ServiceAccount", System, r)
cluster_role(r) == Object("ClusterRole", "none", r)
build_cluster_role_binding(r) == Object("ClusterRoleBinding", "none", r)
build_config_map(r) == Object("ConfigMap", System, r)
build_deployment(r) == Object("Deployment", System, r)

\* All there is of one role.
add_role(r) ==
    [ClusterRole |-> <<cluster_role(r)>>,
     ServiceAccount |-> <<build_service_account(r)>>,
     ClusterRoleBinding |-> <<build_cluster_role_binding(r)>>,
     Role |-> NamespacedRoles(r),
     RoleBinding |-> [i \in 1..Len(NamespacedRoles(r)) |-> BindingOf(NamespacedRoles(r)[i])],
     ConfigMap |-> <<build_config_map(r)>>,
     Deployment |-> <<build_deployment(r)>>]

OfRoles(t, kind) ==
    FlattenSeq([i \in 1..Len(InstalledRoles(t)) |-> add_role(InstalledRoles(t)[i])[kind]])
Seeded(kind) == [i \in 1..Len(SetToSeq(Backends)) |-> Object(kind, "none", SetToSeq(Backends)[i])]

\* The platform: namespace, CRDs, both roles, a ClusterRole for each backend,
\* which the operator may bind and not make, and the classes.
build_operator_install(kind) ==
    CASE kind = "Namespace" -> <<Object("Namespace", "none", System)>>
      [] kind = "CRD" -> <<Object("CRD", "none", "all")>>
      [] kind = "ClusterRole" -> OfRoles("operator", kind) \o Seeded(kind)
                                 \o <<Object(kind, "none", "capi-aggregate")>>
      [] kind = "ProviderClass" -> Seeded(kind)
      [] OTHER -> OfRoles("operator", kind)

\* One role: neither CRDs nor the namespace it is installed into.
build_role_install(t, kind) ==
    CASE kind = "Namespace" -> IF t = "imagebuilder" THEN <<Object(kind, "none", Build)>> ELSE <<>>
      [] kind = "ServiceAccount" ->
            (IF t = "imagebuilder" THEN <<Object(kind, Build, "import")>> ELSE <<>>) \o OfRoles(t, kind)
      [] kind \in {"CRD", "ProviderClass"} -> <<>>
      [] OTHER -> OfRoles(t, kind)

apply_order_without_roles ==
    <<"Namespace", "CRD", "ClusterRole", "ClusterRoleBinding", "ServiceAccount",
      "ConfigMap", "Deployment", "ProviderClass">>

\* The order in which the kinds are applied, and the one of a dry run.
apply_order ==
    <<"Namespace", "CRD", "ClusterRole", "ClusterRoleBinding", "ServiceAccount", "Role",
      "RoleBinding", "ConfigMap", "Deployment", "ProviderClass">>
to_yaml_order ==
    <<"Namespace", "CRD", "ServiceAccount", "ClusterRole", "ClusterRoleBinding", "Role",
      "RoleBinding", "ConfigMap", "Deployment", "ProviderClass">>

Manifests(t, order) ==
    FlattenSeq([i \in 1..Len(order) |->
        IF t = "operator" THEN build_operator_install(order[i]) ELSE build_role_install(t, order[i])])

-----------------------------------------------------------------------------
Init == cluster = {} /\ established = FALSE /\ todo = [a \in Admins |-> <<>>] /\ runs = 0

\* An install, or what a dry run printed, applied in the order it is printed in.
run(a) ==
    /\ todo[a] = <<>> /\ runs < MaxRuns /\ runs' = runs + 1
    /\ \E t \in Targets : \E order \in {apply_order, to_yaml_order} :
          todo' = [todo EXCEPT ![a] = Manifests(t, order)]
    /\ UNCHANGED <<cluster, established>>

\* What the cluster refuses: an object in a namespace, or of a kind, it has not.
Admitted(o) ==
    /\ o.ns # "none" => Object("Namespace", "none", o.ns) \in cluster
    /\ o.kind = "ProviderClass" => established

\* The first refusal, or a call that fails, ends the install.
apply(a) ==
    /\ todo[a] # <<>>
    /\ \/ /\ Admitted(Head(todo[a]))
          /\ cluster' = cluster \cup {Head(todo[a])} /\ todo' = [todo EXCEPT ![a] = Tail(@)]
       \/ todo' = [todo EXCEPT ![a] = <<>>] /\ UNCHANGED cluster
    /\ UNCHANGED <<established, runs>>

Establish ==
    /\ Object("CRD", "none", "all") \in cluster /\ ~established /\ established' = TRUE
    /\ UNCHANGED <<cluster, todo, runs>>

Next == Establish \/ \E a \in Admins : run(a) \/ apply(a)

Spec == Init /\ [][Next]_vars
-----------------------------------------------------------------------------
(* Properties.                                                             *)

\* What the pod of a role runs with.
Needs(r) ==
    {Object("ServiceAccount", System, r), Object("ConfigMap", System, r),
     Object("ClusterRole", "none", r), Object("ClusterRoleBinding", "none", r)}
    \cup {NamespacedRoles(r)[i] : i \in 1..Len(NamespacedRoles(r))}
    \cup {BindingOf(NamespacedRoles(r)[i]) : i \in 1..Len(NamespacedRoles(r))}

\* No pod is installed before its identity and every grant it needs, and no
\* class before the ClusterRole the operator binds for it, wherever installs
\* end and however they overlap; and a dry run prints an order that is as good.
InstalledIsWhole ==
    /\ \A d \in cluster : d.kind = "Deployment" => Needs(d.name) \subseteq cluster
    /\ \A c \in cluster : c.kind = "ProviderClass" => Object("ClusterRole", "none", c.name) \in cluster
=============================================================================
