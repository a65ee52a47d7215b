---------------------------- MODULE VSphereImage ----------------------------
(***************************************************************************)
(* The images of the vSphere providers (reconciler/vmimage.rs) and the     *)
(* import Jobs that make their templates (import.rs, vim.rs).              *)
(*                                                                         *)
(* One VMImage is served by a workload per Provider, each with a cached    *)
(* copy of it; all of them share one finalizer and one request to import   *)
(* again.  A Provider has one failure domain here, so a Provider's row has *)
(* one zone.  A Job runs a pod, and a second one when the first fails; the *)
(* pod of a deleted Job is stopped before the next Job's pod starts.       *)
(***************************************************************************)
EXTENDS Integers, FiniteSets

CONSTANTS
    Providers,
    Sources,        \* the images followed: subset of {"url", "template"}
    Imported,       \* whether behaviours start with the templates imported, by Providers that
                    \* may be gone since
    LateStores,     \* the Providers whose workloads' stores may lag behind
    MaxFaults,      \* calls that fail, and passes that stop half-way
    MaxChanges,     \* what users and administrators do
    MaxRequests     \* how often the image is imported again on request

VARIABLES
    obj,        \* the VMImage at the API server
    cache,      \* as each workload's store holds it
    backend,    \* what each vCenter holds under the template's name
    jobs,       \* the import Jobs
    pods,       \* their importers
    provider,   \* the Providers that exist
    pc, pass,   \* each workload's pass: its next call, and what it knows
    ghost,      \* who acted on the request or passed over it, whether it is told from the
                \* one before, and whose template is to go
    faults, changes

vars == <<obj, cache, backend, jobs, pods, provider, pc, pass, ghost, faults, changes>>

\* A Provider's row: not written, without zones, with a zone, with its template.
Rows == {"none", "empty", "listed", "ready"}
Images == [life: {"live", "deleting", "absent"}, fin: BOOLEAN,
           source: {"url", "template"}, retain: BOOLEAN, force: BOOLEAN,
           artifact: {"pending", "ready"},
           request: BOOLEAN, handled: SUBSET Providers, rows: [Providers -> Rows]]
JobPhases == {"none", "running", "retrying", "failed", "due", "succeeded"}

Blank == [life |-> "absent", fin |-> FALSE, source |-> "url", retain |-> FALSE, force |-> FALSE,
          artifact |-> "ready", request |-> FALSE, handled |-> {},
          rows |-> [p \in Providers |-> "none"]]
NoPass == [img |-> Blank, row |-> "none", all |-> {}, marked |-> {}]

\* Of a live image a store shows what passes read; the rows are the finalizer's.
Seen(image) == IF image.life = "deleting" THEN image ELSE [image EXCEPT !.rows = Blank.rows]

TypeOK ==
    /\ obj \in Images /\ cache \in [Providers -> Images]
    /\ backend \in [Providers -> {"none", "half", "template"}]
    /\ jobs \in [Providers -> [phase: JobPhases, going: BOOLEAN]]
    /\ pods \in [Providers -> {"none", "install"}]
    /\ provider \subseteq Providers
    /\ pc \in [Providers -> {"idle", "finalizer", "jobs", "create", "status", "mark",
                             "clear", "destroy", "cleared", "others", "finRemove"}]
    /\ pass \in [Providers -> [img: Images, row: Rows, all: SUBSET Providers,
                               marked: SUBSET Providers]]
    /\ ghost \in [acted: SUBSET Providers, over: SUBSET Providers, fresh: BOOLEAN,
                  owed: SUBSET Providers, requests: 0..MaxRequests]
    /\ faults \in 0..MaxFaults /\ changes \in 0..MaxChanges

\* An adopted template was in vCenter before; a built one is imported.
Init ==
    /\ obj \in [life: {"live"}, fin: {Imported}, source: Sources, retain: BOOLEAN,
                force: BOOLEAN, artifact: {"ready"}, request: {FALSE}, handled: {{}},
                rows: {[p \in Providers |-> IF Imported THEN "ready" ELSE "none"]}]
    /\ obj.source = "template" \/ Imported => ~obj.force
    /\ MaxChanges = 0 => ~obj.retain
    /\ obj.source = "template" => ~obj.retain
    /\ cache = [p \in Providers |-> Seen(obj)]
    /\ backend = [p \in Providers |->
                    IF obj.source = "template" \/ Imported THEN "template" ELSE "none"]
    /\ jobs = [p \in Providers |->
                 [phase |-> IF obj.source = "url" /\ Imported THEN "succeeded" ELSE "none",
                  going |-> FALSE]]
    /\ pods = [p \in Providers |-> "none"]
    /\ provider \in SUBSET Providers \ {{}} /\ (Imported \/ provider = Providers)
    /\ pc = [p \in Providers |-> "idle"] /\ pass = [p \in Providers |-> NoPass]
    /\ ghost = [acted |-> {}, over |-> {}, fresh |-> TRUE, owed |-> {}, requests |-> 0]
    /\ faults = 0 /\ changes = 0

-----------------------------------------------------------------------------

At(p, stage) == pc[p] = stage
Goto(p, stage) == pc' = [pc EXCEPT ![p] = stage]
Knows(p, known) == pass' = [pass EXCEPT ![p] = known]
End(p) == Goto(p, "idle") /\ Knows(p, NoPass)
Fail == faults < MaxFaults /\ faults' = faults + 1
FailPass(p) == Fail /\ End(p)

img(p) == pass[p].img

KeepWorld == UNCHANGED <<cache, provider, changes>>
KeepImports == UNCHANGED <<backend, jobs, pods>>

Store(p) == IF p \in LateStores THEN cache[p] ELSE Seen(obj)

\* A workload's pass starts from its cached copy; deletion comes first.
reconcile(p) ==
    /\ At(p, "idle") /\ Store(p).life # "absent"
    /\ Goto(p, CASE Store(p).life = "deleting" -> "destroy"
                 [] Store(p).life = "live" /\ ~Store(p).fin -> "finalizer"
                 [] OTHER -> "jobs")
    /\ Knows(p, [NoPass EXCEPT !.img = Store(p)])
    /\ UNCHANGED <<obj, ghost, faults>> /\ KeepImports /\ KeepWorld

ensure_finalizer(p) ==
    /\ At(p, "finalizer") /\ UNCHANGED ghost /\ KeepImports /\ KeepWorld
    /\ \/ /\ obj.life # "absent"
          /\ obj' = [obj EXCEPT !.fin = TRUE] /\ Goto(p, "jobs") /\ UNCHANGED <<pass, faults>>
       \/ obj.life = "absent" /\ End(p) /\ UNCHANGED <<obj, faults>>
       \/ FailPass(p) /\ UNCHANGED obj

-----------------------------------------------------------------------------
(* The row of a Provider.                                                  *)

force_reimport_pending_for(image, p) == image.request /\ p \notin image.handled

\* All the Providers of the class are listed first, of which the workload serves
\* its own.
list_vsphere_providers(p) == At(p, "jobs") /\ p \in provider

NotServed(p) ==
    /\ At(p, "jobs") /\ UNCHANGED <<obj, ghost>> /\ KeepImports /\ KeepWorld
    /\ (p \notin provider /\ End(p) /\ UNCHANGED faults) \/ FailPass(p)

HasRow(p, row) ==
    /\ Goto(p, "status") /\ Knows(p, [pass[p] EXCEPT !.row = row, !.all = provider])

gate_on_build_artifact(image) == image.artifact = "ready"

\* Acting on a request is deleting the Job, to create it once more.  A pass that gets
\* to no Job, or cannot delete it, passes over the request, and will mark it all the same.
Acts(p) ==
    ghost' = IF force_reimport_pending_for(img(p), p) /\ obj.request
             THEN [ghost EXCEPT !.acted = @ \cup {p}] ELSE ghost
PassesOver(p) ==
    ghost' = IF force_reimport_pending_for(img(p), p) /\ obj.request
             THEN [ghost EXCEPT !.over = @ \cup {p}] ELSE ghost

\* An adopted template is looked up in its folder; a call that fails makes a row.
compute_template_status(p) ==
    /\ list_vsphere_providers(p) /\ img(p).source = "template" /\ PassesOver(p)
    /\ \/ HasRow(p, IF backend[p] = "template" THEN "ready" ELSE "listed") /\ UNCHANGED faults
       \/ Fail /\ HasRow(p, "listed")
       \/ Fail /\ HasRow(p, "empty")
    /\ UNCHANGED obj /\ KeepImports /\ KeepWorld

ArtifactPending(p) ==
    /\ list_vsphere_providers(p) /\ img(p).source = "url" /\ ~gate_on_build_artifact(img(p))
    /\ HasRow(p, "empty") /\ PassesOver(p)
    /\ UNCHANGED <<obj, faults>> /\ KeepImports /\ KeepWorld

\* Deletion takes effect at once, or the Job lingers.
DeleteJob(p) ==
    /\ \/ jobs' = [jobs EXCEPT ![p] = [phase |-> "none", going |-> FALSE]]
       \/ jobs[p].phase # "none" /\ jobs' = [jobs EXCEPT ![p].going = TRUE]
    /\ UNCHANGED <<backend, pods>>

import_retry_due(job) == job.phase = "due"

zone_from_job(job) == IF job.phase = "succeeded" THEN "ready" ELSE "listed"

\* A forced import deletes the Job, whatever became of it, and creates it again;
\* a Job that could not be deleted is left.
ForceReimport(p) ==
    /\ force_reimport_pending_for(img(p), p)
    /\ \/ DeleteJob(p) /\ Acts(p) /\ Goto(p, "create") /\ UNCHANGED <<pass, faults>>
       \/ Fail /\ PassesOver(p) /\ HasRow(p, "listed") /\ KeepImports

\* Otherwise the Job that is there is adopted, retried when it failed a while
\* ago, or created.
AdoptJob(p) ==
    /\ ~force_reimport_pending_for(img(p), p) /\ UNCHANGED ghost
    /\ \/ /\ import_retry_due(jobs[p]) /\ DeleteJob(p) /\ HasRow(p, "listed") /\ UNCHANGED faults
       \/ /\ ~import_retry_due(jobs[p]) /\ jobs[p].phase # "none"
          /\ HasRow(p, zone_from_job(jobs[p])) /\ KeepImports /\ UNCHANGED faults
       \/ jobs[p].phase = "none" /\ Goto(p, "create") /\ KeepImports /\ UNCHANGED <<pass, faults>>
       \/ Fail /\ HasRow(p, "listed") /\ KeepImports

ensure_import_jobs(p) ==
    /\ list_vsphere_providers(p) /\ img(p).source = "url" /\ gate_on_build_artifact(img(p))
    /\ ForceReimport(p) \/ AdoptJob(p)
    /\ UNCHANGED obj /\ KeepWorld

\* The apply of a Job that is still going makes no new one.
create_import_job(p) ==
    /\ At(p, "create") /\ HasRow(p, "listed")
    /\ \/ /\ jobs' = IF jobs[p].phase = "none"
                     THEN [jobs EXCEPT ![p].phase = "running"] ELSE jobs
          /\ UNCHANGED faults
       \/ Fail /\ UNCHANGED jobs
    /\ UNCHANGED <<obj, backend, pods, ghost>> /\ KeepWorld

\* A row written after the deletion replaces what the finalizer would work from.
patch_vmimage_status(p) ==
    /\ At(p, "status") /\ KeepImports /\ KeepWorld
    /\ \/ /\ obj.life # "absent" /\ obj' = [obj EXCEPT !.rows[p] = pass[p].row]
          /\ ghost' = IF obj.life = "deleting" THEN [ghost EXCEPT !.owed = @ \ {p}] ELSE ghost
          /\ \/ /\ IF img(p).request THEN Goto(p, "mark") /\ Knows(p, [pass[p] EXCEPT !.row = "none"])
                   ELSE End(p)
                /\ UNCHANGED faults
             \/ FailPass(p)
       \/ obj.life = "absent" /\ End(p) /\ UNCHANGED <<obj, ghost, faults>>
       \/ FailPass(p) /\ UNCHANGED <<obj, ghost>>

-----------------------------------------------------------------------------
(* A request to import again.                                              *)

mark_force_reimport_forgotten(image, p) == image.handled

mark_force_reimport_handled_patch(image, p) == image.handled \cup {p}

force_reimport_complete_first(marked, all) == marked # {}

force_reimport_complete(marked, all) == all \subseteq marked

\* The marker is set on the image as it is by now, whether or not the request
\* still is on it; the answer shows the markers of the others.
settle_force_reimport(p) ==
    /\ At(p, "mark") /\ UNCHANGED ghost /\ KeepImports /\ KeepWorld
    /\ LET acted == force_reimport_pending_for(img(p), p)
           marked == IF acted THEN mark_force_reimport_handled_patch(obj, p) ELSE img(p).handled
       IN  \/ /\ obj.life # "absent" \/ ~acted
              /\ obj' = IF acted THEN [obj EXCEPT !.handled = marked] ELSE obj
              /\ IF force_reimport_complete(marked, pass[p].all)
                 THEN Goto(p, "clear") /\ Knows(p, [pass[p] EXCEPT !.marked = marked])
                 ELSE End(p)
              /\ UNCHANGED faults
           \/ obj.life = "absent" /\ acted /\ End(p) /\ UNCHANGED <<obj, faults>>
           \/ FailPass(p) /\ UNCHANGED obj

\* The request goes, and the markers that the workload has seen.
clear_force_reimport_patch(p) ==
    /\ At(p, "clear") /\ UNCHANGED ghost /\ KeepImports /\ KeepWorld
    /\ \/ /\ obj' = IF obj.life = "absent" THEN obj
                    ELSE [obj EXCEPT !.request = FALSE, !.handled = @ \ pass[p].marked]
          /\ End(p) /\ UNCHANGED faults
       \/ FailPass(p) /\ UNCHANGED obj

-----------------------------------------------------------------------------
(* Deletion.                                                               *)

image_owns_by_status(image) == \E p \in Providers : image.rows[p] = "ready"

image_owns_templates(image) == image.source = "url"

HasZones(row) == row \in {"listed", "ready"}

\* The template the row names is destroyed; a zone that names none is skipped, and
\* so is the row of a Provider that is gone.
destroy_zone_templates(p) ==
    backend' = IF /\ img(p).rows[p] = "ready" /\ p \in provider /\ backend[p] = "template"
               THEN [backend EXCEPT ![p] = "none"] ELSE backend

finalize(p) ==
    /\ At(p, "destroy") /\ UNCHANGED <<obj, jobs, pods, ghost>> /\ KeepWorld
    /\ \/ /\ img(p).retain \/ ~image_owns_templates(img(p))
          /\ Goto(p, "finRemove") /\ UNCHANGED <<backend, pass, faults>>
       \/ /\ ~img(p).retain /\ image_owns_templates(img(p))
          /\ destroy_zone_templates(p)
          /\ Goto(p, IF img(p).rows[p] = "none" THEN "others" ELSE "cleared")
          /\ UNCHANGED <<pass, faults>>
       \/ /\ ~img(p).retain /\ image_owns_templates(img(p)) /\ FailPass(p) /\ UNCHANGED backend

with_zones_cleared(p) ==
    /\ At(p, "cleared") /\ UNCHANGED ghost /\ KeepImports /\ KeepWorld
    /\ \/ /\ obj.life # "absent" /\ obj' = [obj EXCEPT !.rows[p] = "empty"]
          /\ (Goto(p, "others") /\ UNCHANGED <<pass, faults>>) \/ FailPass(p)
       \/ obj.life = "absent" /\ End(p) /\ UNCHANGED <<obj, faults>>
       \/ FailPass(p) /\ UNCHANGED obj

finalizer_can_go_alone(rows, p) == TRUE
finalizer_can_go_waits(rows, p) == \A q \in Providers \ {p} : ~HasZones(rows[q])

\* No other Provider that exists lists zones.
finalizer_can_go(rows, p) == \A q \in Providers \ {p} : HasZones(rows[q]) => q \notin provider

OthersDone(p) ==
    /\ At(p, "others") /\ UNCHANGED <<obj, ghost>> /\ KeepImports /\ KeepWorld
    /\ \/ finalizer_can_go(img(p).rows, p) /\ Goto(p, "finRemove") /\ UNCHANGED <<pass, faults>>
       \/ ~finalizer_can_go(img(p).rows, p) /\ End(p) /\ UNCHANGED faults
       \/ FailPass(p)

remove_finalizer(p) ==
    /\ At(p, "finRemove") /\ UNCHANGED ghost /\ KeepImports /\ KeepWorld
    /\ \/ /\ obj' = IF obj.life = "absent" \/ ~img(p).fin THEN obj
                    ELSE [obj EXCEPT !.life = "absent", !.fin = FALSE]
          /\ End(p) /\ UNCHANGED faults
       \/ FailPass(p) /\ UNCHANGED obj

Crash(p) ==
    /\ pc[p] # "idle" /\ FailPass(p)
    /\ UNCHANGED <<obj, ghost>> /\ KeepImports /\ KeepWorld

-----------------------------------------------------------------------------
(* The Jobs: Kubernetes' part, and the importer's.                         *)

KeepPasses == UNCHANGED <<obj, pc, pass>> /\ KeepWorld

Stop(p) == pods' = [pods EXCEPT ![p] = "none"]

\* A pod whose Job is gone reports to nobody.
Succeeds(p) ==
    /\ Stop(p)
    /\ jobs' = IF jobs[p].phase \in {"running", "retrying"}
               THEN [jobs EXCEPT ![p].phase = "succeeded"] ELSE jobs

Fails(p) ==
    /\ Stop(p)
    /\ jobs' = CASE jobs[p].phase = "running" -> [jobs EXCEPT ![p].phase = "retrying"]
                 [] jobs[p].phase = "retrying" -> [jobs EXCEPT ![p].phase = "failed"]
                 [] OTHER -> jobs

\* Image and Provider are read first.  A VM of the name that is found, template
\* or not, ends the import, unless it is to be replaced.
import_start(p) ==
    /\ jobs[p].phase \in {"running", "retrying"} /\ ~jobs[p].going /\ pods[p] = "none" /\ KeepPasses
    /\ \/ /\ obj.life = "absent" \/ p \notin provider
          /\ Fails(p) /\ UNCHANGED <<backend, ghost, faults>>
       \/ /\ obj.life # "absent" /\ p \in provider /\ UNCHANGED faults
          /\ \/ /\ backend[p] # "none" /\ ~obj.force
                /\ Succeeds(p) /\ UNCHANGED <<backend, ghost>>
             \/ /\ backend[p] = "none" \/ obj.force
                /\ backend' = [backend EXCEPT ![p] = "half"]
                /\ pods' = [pods EXCEPT ![p] = "install"]
                /\ ghost' = [ghost EXCEPT !.owed = @ \ {p}] /\ UNCHANGED jobs
       \/ Fail /\ Fails(p) /\ UNCHANGED <<backend, ghost>>

\* The install ends and the VM is marked as a template, or it is left as it is.
import_iso_template(p) ==
    /\ pods[p] = "install" /\ KeepPasses /\ UNCHANGED ghost
    /\ \/ backend' = [backend EXCEPT ![p] = "template"] /\ Succeeds(p) /\ UNCHANGED faults
       \/ Fail /\ Fails(p) /\ UNCHANGED backend

\* The pod of a deleted Job is stopped.
PodKilled(p) ==
    /\ pods[p] # "none" /\ (jobs[p].phase = "none" \/ jobs[p].going) /\ Stop(p)
    /\ UNCHANGED <<backend, jobs, ghost, faults>> /\ KeepPasses

JobGone(p) ==
    /\ jobs[p].going /\ pods[p] = "none"
    /\ jobs' = [jobs EXCEPT ![p] = [phase |-> "none", going |-> FALSE]]
    /\ UNCHANGED <<backend, pods, ghost, faults>> /\ KeepPasses

\* The Job has failed for IMPORT_RETRY_AFTER_SECS.
RetryDue(p) ==
    /\ jobs[p].phase = "failed" /\ jobs' = [jobs EXCEPT ![p].phase = "due"]
    /\ UNCHANGED <<backend, pods, ghost, faults>> /\ KeepPasses

-----------------------------------------------------------------------------
(* Everybody else.                                                         *)

Change == changes < MaxChanges /\ changes' = changes + 1
OnlyWorld == UNCHANGED <<cache, pc, pass, pods, faults>>

Sync(p) ==
    /\ p \in LateStores /\ cache[p] # Seen(obj) /\ cache' = [cache EXCEPT ![p] = Seen(obj)]
    /\ UNCHANGED <<obj, provider, pc, pass, ghost, faults, changes>> /\ KeepImports

Delete ==
    /\ Change /\ obj.life = "live"
    /\ obj' = [obj EXCEPT !.life = IF obj.fin THEN "deleting" ELSE "absent"]
    /\ ghost' = IF obj.fin /\ ~obj.retain /\ obj.source = "url"
                THEN [ghost EXCEPT !.owed = {p \in provider : obj.rows[p] = "ready" /\ backend[p] = "template"}]
                ELSE ghost
    /\ UNCHANGED <<backend, jobs, provider>> /\ OnlyWorld

\* kubectl annotate.  A request says nothing that tells it from the one before: it is
\* fresh when no marker is left of that one and nobody still goes by it.
Request ==
    /\ obj.life = "live" /\ ~obj.request /\ ghost.requests < MaxRequests
    /\ obj' = [obj EXCEPT !.request = TRUE]
    /\ ghost' = [ghost EXCEPT !.acted = {}, !.over = {}, !.requests = @ + 1,
                     !.fresh = obj.handled = {} /\ \A p \in Providers : ~cache[p].request /\ ~img(p).request]
    /\ UNCHANGED <<backend, jobs, provider, changes>> /\ OnlyWorld

\* The image builder starts over, or is done.
Rebuild ==
    /\ Change /\ obj.life = "live" /\ obj.source = "url" /\ obj.artifact = "ready"
    /\ obj' = [obj EXCEPT !.artifact = "pending"]
    /\ UNCHANGED <<backend, jobs, provider, ghost>> /\ OnlyWorld

Built ==
    /\ obj.life # "absent" /\ obj.artifact = "pending"
    /\ obj' = [obj EXCEPT !.artifact = "ready"]
    /\ UNCHANGED <<backend, jobs, provider, ghost, changes>> /\ OnlyWorld

\* The Job's time to live ends.
JobExpires(p) ==
    /\ Change /\ jobs[p].phase \in {"succeeded", "failed"} /\ ~jobs[p].going
    /\ jobs' = [jobs EXCEPT ![p].phase = "none"]
    /\ UNCHANGED <<obj, backend, provider, ghost>> /\ OnlyWorld

ProviderDeleted(p) ==
    /\ Change /\ p \in provider /\ provider' = provider \ {p}
    /\ ghost' = [ghost EXCEPT !.owed = @ \ {p}]
    /\ UNCHANGED <<obj, backend, jobs>> /\ OnlyWorld

-----------------------------------------------------------------------------

Pass(p) ==
    \/ reconcile(p) \/ ensure_finalizer(p) \/ NotServed(p)
    \/ compute_template_status(p) \/ ArtifactPending(p) \/ ensure_import_jobs(p)
    \/ create_import_job(p) \/ patch_vmimage_status(p)
    \/ settle_force_reimport(p) \/ clear_force_reimport_patch(p)
    \/ finalize(p) \/ with_zones_cleared(p) \/ OthersDone(p) \/ remove_finalizer(p)

Import(p) ==
    \/ import_start(p) \/ import_iso_template(p) \/ PodKilled(p)
    \/ JobGone(p) \/ RetryDue(p)

World ==
    \/ Delete \/ Request \/ Rebuild \/ Built
    \/ \E p \in Providers : JobExpires(p) \/ ProviderDeleted(p)

Next ==
    \/ \E p \in Providers : Pass(p) \/ Crash(p) \/ Import(p) \/ Sync(p)
    \/ World

\* A workload runs while its Provider is there; Kubernetes runs Jobs and
\* delivers events; builds end.
Fairness ==
    /\ \A p \in Providers :
          /\ WF_vars(p \in provider /\ Pass(p)) /\ WF_vars(Sync(p))
          /\ WF_vars(Import(p))
    /\ WF_vars(Built)

Spec == Init /\ [][Next]_vars /\ Fairness
-----------------------------------------------------------------------------
(* Properties.                                                             *)

\* What banlieue did not import, or is told to keep, stays in vCenter, whatever
\* the rows say and whichever workload finalizes the image.
AdoptedKept ==
    \A p \in Providers :
        (obj.source = "template" \/ (obj.retain /\ obj.life = "deleting" /\ ~obj.force))
            /\ backend[p] = "template" => backend'[p] = "template"

\* The image goes only after the templates that existing Providers' rows named
\* when it was deleted, unless a row is written or an import replaces the
\* template afterwards: one finalizer serves all of the workloads.
RecordedTemplatesGo ==
    obj.life = "absent" => \A p \in ghost.owed : backend[p] # "template"

\* A request is taken off the image only once the Job of each Provider was deleted for
\* it, after the request was made.  Two exceptions, both the code's: a Provider whose
\* pass got to no Job (an adopted template, an artifact that is not ready) or could not
\* delete it is marked all the same; and of a request that is made while a marker, a
\* store or a pass of the one before is left, which the code cannot tell apart from it,
\* nothing is said.
RequestReachesAll ==
    [][obj.request /\ ~obj'.request /\ ghost.fresh => provider \subseteq ghost.acted \cup ghost.over]_vars

\* A zone that is reported ready has its template.  Not so: README, "Where the code
\* and its documents part".
ReadyHasTemplate ==
    [][\A p \in Providers : obj'.rows[p] = "ready" /\ obj.rows[p] # "ready" => backend[p] = "template"]_vars

\* Every Provider's row becomes ready and a request is taken off: neither a request
\* that is still on the image nor a failed Job keeps imports from ending.
Served == /\ ~obj.request \/ provider = {}
          /\ \A p \in provider : obj.rows[p] = "ready"
=============================================================================
