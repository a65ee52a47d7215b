----------------------------- MODULE Aggregates -----------------------------
(***************************************************************************)
(* The two statuses the controller sums up from other statuses: a          *)
(* VMImage's `Ready` from its providers' rows (reconciler/vmimage.rs) and  *)
(* a VSphereCluster's failure domains from the Providers it selects        *)
(* (reconciler/vsphere_cluster.rs).  Each pass works on a copy of its      *)
(* object that may be old by the time it writes, while providers go on     *)
(* writing into the same object.                                           *)
(***************************************************************************)
EXTENDS Integers, FiniteSets, FiniteSetsExt

CONSTANTS Providers,    \* numbers, in the order of their identities
          Labels,       \* that a selector may ask for
          LabelsOf,     \* Provider -> its labels
          DomainsOf,    \* Provider -> the failure domains it may advertise
          MaxEdits      \* bound: writes by anyone but the controller

VARIABLES side,         \* the one that is followed: the two share nothing
          image,        \* the VMImage
          told,         \* what each provider last reported of the image
          cluster,      \* the VSphereCluster
          domains,      \* Provider -> the domains in its status
          cache,        \* the controller's copies of the image and the cluster
          pass,         \* what the pass of each reconciler under way works on
          edits

vars == <<side, image, told, cluster, domains, cache, pass, edits>>

None == "none"
NoRow == [there |-> FALSE, ready |-> FALSE, reason |-> None]
Rows == {NoRow} \cup [there: {TRUE}, ready: BOOLEAN, reason: {None, "Missing"}]
ImageSpecs == [sealing: BOOLEAN, url: BOOLEAN]
ClusterSpecs == [paused: BOOLEAN, refs: SUBSET Providers, selector: Labels \cup {None}]

\* A status field a manager does not own is absent.
Absent == [ready |-> None, provisioned |-> None, domains |-> {}]

Init ==
    /\ side \in {"image", "cluster"}
    /\ \E s \in ImageSpecs : (side = "cluster" => s = [sealing |-> FALSE, url |-> FALSE]) /\
          image = [spec |-> s, rows |-> [p \in Providers |-> NoRow], layer |-> FALSE,
                   ready |-> [status |-> None, reason |-> None], sealing |-> None]
    /\ told = [p \in Providers |-> NoRow]
    /\ \E s \in ClusterSpecs : (side = "image" => s = [paused |-> FALSE, refs |-> {}, selector |-> None]) /\
          cluster = [spec |-> s, status |-> Absent]
    /\ domains = [p \in Providers |-> {}]
    /\ cache = [image |-> image, cluster |-> cluster]
    /\ pass = [image |-> <<>>, cluster |-> <<>>]
    /\ edits = 0

-----------------------------------------------------------------------------
(* The image.                                                              *)

aggregate_ready_any(rows) ==
    LET there == {p \in Providers : rows[p].there} IN
    [status |-> IF there = {} THEN "Unknown" ELSE IF \E p \in there : rows[p].ready THEN "True" ELSE "False",
     reason |-> "Reconciled"]

\* True only when every provider that reports is ready; the reason is that of
\* the first one, by identity, that is not.
aggregate_ready(rows) ==
    LET there == {p \in Providers : rows[p].there}
        unready == {p \in there : ~rows[p].ready}
    IN  CASE there = {} -> [status |-> "Unknown", reason |-> "NoProviders"]
          [] there # {} /\ unready = {} -> [status |-> "True", reason |-> "Reconciled"]
          [] OTHER -> LET why == rows[Min(unready)].reason
                      IN  [status |-> "False", reason |-> IF why = None THEN "NotReady" ELSE why]

\* An image banlieue builds is sealed once the builder says it wrote the layer;
\* any other is the operator's claim.
first_boot_sealing_provenance(i) ==
    CASE ~i.spec.sealing -> None
      [] i.spec.sealing /\ ~i.spec.url -> "Asserted"
      [] OTHER -> IF i.layer THEN "Built" ELSE None

build_status_patch_whole(i) ==
    [image EXCEPT !.rows = i.rows, !.ready = aggregate_ready(i.rows),
                  !.sealing = first_boot_sealing_provenance(i)]

\* The patch carries the condition and the provenance and nothing else: the
\* rows belong to the providers' field managers.
build_status_patch(i) ==
    [image EXCEPT !.ready = aggregate_ready(i.rows), !.sealing = first_boot_sealing_provenance(i)]

BeginImage ==
    /\ side = "image" /\ pass.image = <<>>
    /\ pass' = [pass EXCEPT !.image = <<cache.image>>]
    /\ UNCHANGED <<side, image, told, cluster, domains, cache, edits>>

reconcile_image ==
    /\ pass.image # <<>>
    /\ image' = build_status_patch(pass.image[1])
    /\ pass' = [pass EXCEPT !.image = <<>>]
    /\ UNCHANGED <<side, told, cluster, domains, cache, edits>>

-----------------------------------------------------------------------------
(* The cluster.                                                            *)

\* Explicit references win; an empty selector matches every Provider.
select_providers(s) ==
    IF s.refs # {} THEN s.refs
    ELSE {p \in Providers : s.selector = None \/ s.selector \in LabelsOf[p]}

aggregate_failure_domains(ps) == UNION {domains[p] : p \in ps}

build_status(s) ==
    LET ds == aggregate_failure_domains(select_providers(s)) IN
    [ready |-> IF ds # {} THEN "True" ELSE "False", provisioned |-> IF ds # {} THEN "yes" ELSE "no",
     domains |-> ds]

\* Only the conditions are applied; what the same manager applied before and
\* leaves out now is removed by the API server.
patch_paused == [Absent EXCEPT !.ready = "False"]

BeginCluster ==
    /\ side = "cluster" /\ pass.cluster = <<>>
    /\ pass' = [pass EXCEPT !.cluster =
            <<IF cache.cluster.spec.paused THEN patch_paused ELSE build_status(cache.cluster.spec)>>]
    /\ UNCHANGED <<side, image, told, cluster, domains, cache, edits>>

reconcile_cluster ==
    /\ pass.cluster # <<>>
    /\ cluster' = [cluster EXCEPT !.status = pass.cluster[1]]
    /\ pass' = [pass EXCEPT !.cluster = <<>>]
    /\ UNCHANGED <<side, image, told, domains, cache, edits>>

\* A patch is refused; the pass is repeated later.
PassFails ==
    /\ \E r \in DOMAIN pass : pass[r] # <<>> /\ pass' = [pass EXCEPT ![r] = <<>>]
    /\ UNCHANGED <<side, image, told, cluster, domains, cache, edits>>

-----------------------------------------------------------------------------
(* The others.                                                             *)

Edit == edits < MaxEdits /\ edits' = edits + 1 /\ UNCHANGED <<side, cache, pass>>

\* A provider applies its own row; the builder reports the layer it wrote.
Report ==
    /\ side = "image" /\ Edit
    /\ \/ \E p \in Providers, r \in Rows :
            r # image.rows[p] /\ image' = [image EXCEPT !.rows[p] = r] /\ told' = [told EXCEPT ![p] = r]
       \/ ~image.layer /\ image' = [image EXCEPT !.layer = TRUE] /\ UNCHANGED told
    /\ UNCHANGED <<cluster, domains>>

Advertise ==
    /\ side = "cluster" /\ Edit
    /\ \E p \in Providers : \E ds \in SUBSET DomainsOf[p] :
          ds # domains[p] /\ domains' = [domains EXCEPT ![p] = ds]
    /\ UNCHANGED <<image, told, cluster>>

Pause ==
    /\ side = "cluster" /\ Edit
    /\ cluster' = [cluster EXCEPT !.spec.paused = ~@]
    /\ UNCHANGED <<image, told, domains>>

Sync ==
    /\ cache # [image |-> image, cluster |-> cluster]
    /\ cache' = [image |-> image, cluster |-> cluster]
    /\ UNCHANGED <<side, image, told, cluster, domains, pass, edits>>

Next ==
    \/ BeginImage \/ reconcile_image \/ BeginCluster \/ reconcile_cluster \/ PassFails
    \/ Report \/ Advertise \/ Pause \/ Sync

\* A write wakes the reconciler, and a pass is repeated at long intervals; a
\* patch that is retried for ever is accepted in the end.
Fairness ==
    /\ WF_vars(Sync) /\ WF_vars(BeginImage) /\ WF_vars(BeginCluster)
    /\ SF_vars(reconcile_image) /\ SF_vars(reconcile_cluster)

Spec == Init /\ [][Next]_vars /\ Fairness

-----------------------------------------------------------------------------
\* No report is lost: however old the copy a pass of the controller works on,
\* what it writes leaves every provider's row as that provider last wrote it
\* (build_status_patch: the patch "must carry conditions and nothing else").
RowsAreOwn == image.rows = told

\* Once the others stop writing, the image's Ready and the cluster's domains
\* come to say what the rows and the selected Providers say; a paused cluster
\* only comes to say that it is paused.
Followed ==
    IF side = "image" THEN
        /\ image.ready.status = (IF \A p \in Providers : ~image.rows[p].there THEN "Unknown"
                                 ELSE IF \A p \in Providers : image.rows[p].there => image.rows[p].ready
                                 THEN "True" ELSE "False")
        /\ image.sealing = "Built" => image.layer
    ELSE IF cluster.spec.paused THEN cluster.status.ready = "False"
    ELSE LET named == cluster.spec.refs
             ps == {p \in Providers : p \in named \/ (named = {} /\
                       (cluster.spec.selector # None => cluster.spec.selector \in LabelsOf[p]))}
         IN  cluster.status.domains = UNION {domains[p] : p \in ps}
AggregatesFollow == <>[]Followed
=============================================================================
