---------------------------- MODULE LibvirtImage ----------------------------
(***************************************************************************)
(* The images of a libvirt provider (reconciler/vmimage.rs) and the Jobs   *)
(* that upload them to its storage pools (import.rs).                      *)
(*                                                                         *)
(* A "url" image is built by the image builder and uploaded to every pool  *)
(* the Provider verified, by a Job for each; a "backing" image is only     *)
(* looked for.  Nothing is removed when the image is deleted, so deletion  *)
(* is not followed here.  A Job runs a pod, and once more when that fails. *)
(***************************************************************************)
EXTENDS Integers, FiniteSets

CONSTANTS
    Pools,
    Sources,        \* the images followed: subset of {"url", "backing"}
    MaxFaults,      \* calls that fail, and pods that die
    MaxChanges      \* rebuilds, and pools that come and go

VARIABLES
    obj,        \* the VMImage: its source, its build, and this Provider's row
    cache,      \* as the workload's store holds it
    backend,    \* the image's volume in each pool
    jobs,       \* the import Job of each pool
    pods,       \* their importers
    provider,   \* the pools the Provider verified
    pc, pass,   \* the pass: its next call, and what it knows
    faults, changes

vars == <<obj, cache, backend, jobs, pods, provider, pc, pass, faults, changes>>

Rows == {"none", "pending", "noPools", "unreachable", "missing", "importing", "failed", "ready"}
Images == [source: {"url", "backing"}, artifact: {"pending", "failed", "ready"}, row: Rows]
Volumes == {"none", "half", "whole"}
JobPhases == {"none", "running", "retrying", "failed", "succeeded"}

NoPass == [img |-> [source |-> "url", artifact |-> "pending", row |-> "none"],
           pools |-> {}, left |-> {}, zones |-> {}]

TypeOK ==
    /\ obj \in Images /\ cache \in Images
    /\ backend \in [Pools -> Volumes]
    /\ jobs \in [Pools -> JobPhases] /\ pods \subseteq Pools
    /\ provider \subseteq Pools
    /\ pc \in {"idle", "row", "jobs", "create", "patch"}
    /\ pass \in [img: Images, pools: SUBSET Pools, left: SUBSET Pools,
                 zones: SUBSET Rows]
    /\ faults \in 0..MaxFaults /\ changes \in 0..MaxChanges

Init ==
    /\ obj \in [source: Sources, artifact: {"pending"}, row: {"none"}] /\ cache = obj
    /\ backend \in [Pools -> IF obj.source = "backing" THEN {"none", "whole"} ELSE {"none"}]
    /\ jobs = [p \in Pools |-> "none"] /\ pods = {}
    /\ provider = {} /\ pc = "idle" /\ pass = NoPass
    /\ faults = 0 /\ changes = 0

Fail == faults < MaxFaults /\ faults' = faults + 1
KeepWorld == UNCHANGED <<cache, provider, changes>>
KeepImports == UNCHANGED <<backend, jobs, pods>>

-----------------------------------------------------------------------------
(* The pass.                                                               *)

\* The row is put together before it is written.
RowIs(row) == pc' = "patch" /\ pass' = [NoPass EXCEPT !.pools = pass.pools, !.zones = {row}]

reconcile ==
    /\ pc = "idle" /\ UNCHANGED obj /\ KeepImports /\ KeepWorld
    /\ pc' = "row" /\ pass' = [NoPass EXCEPT !.img = cache] /\ UNCHANGED faults

gate_on_raw_disk(image) == image.artifact = "ready"

target_pools == provider

backing_file_anywhere(pools) ==
    IF \E p \in pools : backend[p] # "none" THEN "ready" ELSE "missing"

\* Every pool has to have it.
backing_file_row(pools) ==
    IF \A p \in pools : backend[p] # "none" THEN "ready" ELSE "missing"

reconcile_for_provider ==
    /\ pc = "row" /\ UNCHANGED obj /\ KeepImports /\ KeepWorld
    /\ \/ /\ pass.img.source = "url" /\ ~gate_on_raw_disk(pass.img)
          /\ RowIs(IF pass.img.artifact = "failed" THEN "failed" ELSE "pending") /\ UNCHANGED faults
       \/ /\ pass.img.source = "url" => gate_on_raw_disk(pass.img)
          /\ target_pools = {} /\ RowIs("noPools") /\ UNCHANGED faults
       \/ /\ target_pools # {}
          /\ \/ /\ pass.img.source = "backing"
                /\ \/ /\ pc' = "patch" /\ UNCHANGED faults
                      /\ pass' = [NoPass EXCEPT !.pools = target_pools,
                                                !.zones = {backing_file_row(target_pools)}]
                   \/ Fail /\ RowIs("unreachable")
             \/ /\ pass.img.source = "url" /\ gate_on_raw_disk(pass.img)
                /\ pc' = "jobs" /\ UNCHANGED faults
                /\ pass' = [pass EXCEPT !.pools = target_pools, !.left = target_pools]

zone_from_job(job) ==
    CASE job = "succeeded" -> "ready"
      [] job \in {"retrying", "failed"} -> "failed"
      [] OTHER -> "importing"

\* A pool's Job is adopted, or created when there is none; a failed call is a row.
ensure_import_jobs(p) ==
    /\ p \in pass.left /\ UNCHANGED <<obj, backend, pods>> /\ KeepWorld
    /\ LET Zone(z) == pass' = [pass EXCEPT !.left = @ \ {p}, !.zones = @ \cup {z}]
       IN  \/ /\ pc = "jobs" /\ jobs[p] # "none" /\ Zone(zone_from_job(jobs[p]))
              /\ UNCHANGED <<jobs, pc, faults>>
           \/ /\ pc = "jobs" /\ jobs[p] = "none" /\ Zone("importing")
              /\ jobs' = [jobs EXCEPT ![p] = "running"] /\ UNCHANGED <<pc, faults>>
           \/ pc = "jobs" /\ Fail /\ Zone("failed") /\ UNCHANGED <<jobs, pc>>

RowOf_any(zones) == IF "ready" \in zones THEN "ready" ELSE "importing"

\* Ready where every pool is.
RowOf(zones) ==
    CASE zones \subseteq {"ready"} -> "ready"
      [] "failed" \in zones -> "failed"
      [] OTHER -> "importing"

ImportsListed ==
    /\ pc = "jobs" /\ pass.left = {} /\ RowIs(RowOf(pass.zones))
    /\ UNCHANGED <<obj, faults>> /\ KeepImports /\ KeepWorld

patch_status ==
    /\ pc = "patch" /\ pc' = "idle" /\ pass' = NoPass /\ KeepImports /\ KeepWorld
    /\ \/ (\E row \in pass.zones : obj' = [obj EXCEPT !.row = row]) /\ UNCHANGED faults
       \/ Fail /\ UNCHANGED obj

Crash ==
    /\ pc # "idle" /\ Fail /\ pc' = "idle" /\ pass' = NoPass
    /\ UNCHANGED obj /\ KeepImports /\ KeepWorld

-----------------------------------------------------------------------------
(* The importer: a volume of the name that is there is taken for the image. *)

plan(p) == backend[p] = "none"

KeepPasses == UNCHANGED <<obj, pc, pass>> /\ KeepWorld

Attempt(p) == jobs[p] \in {"running", "retrying"}

Ended(p, ok) ==
    /\ pods' = pods \ {p}
    /\ jobs' = [jobs EXCEPT ![p] = CASE ok /\ Attempt(p) -> "succeeded"
                                     [] ~ok /\ @ = "running" -> "retrying"
                                     [] ~ok /\ @ = "retrying" -> "failed"
                                     [] OTHER -> @]

\* The artifact is verified, the pool looked up, and the volume created; nothing is
\* made before that.
import_start(p) ==
    /\ Attempt(p) /\ p \notin pods /\ KeepPasses
    /\ \/ ~plan(p) /\ Ended(p, TRUE) /\ UNCHANGED <<backend, faults>>
       \/ /\ plan(p) /\ backend' = [backend EXCEPT ![p] = "half"]
          /\ pods' = pods \cup {p} /\ UNCHANGED <<jobs, faults>>
       \/ Fail /\ Ended(p, FALSE) /\ UNCHANGED backend

storage_vol_upload(p) ==
    /\ p \in pods /\ KeepPasses
    /\ \/ backend' = [backend EXCEPT ![p] = "whole"] /\ Ended(p, TRUE) /\ UNCHANGED faults
       \/ Fail /\ Ended(p, FALSE) /\ UNCHANGED backend

\* A finished Job's time to live ends.
JobExpires(p) ==
    /\ jobs[p] = "failed" \/ (jobs[p] = "succeeded" /\ changes < MaxChanges)
    /\ changes' = IF jobs[p] = "failed" THEN changes ELSE changes + 1
    /\ jobs' = [jobs EXCEPT ![p] = "none"]
    /\ UNCHANGED <<obj, cache, backend, pods, provider, pc, pass, faults>>

-----------------------------------------------------------------------------
(* Everybody else.                                                         *)

Change == changes < MaxChanges /\ changes' = changes + 1
OnlyWorld == UNCHANGED <<cache, pc, pass, faults>>

Sync ==
    /\ cache # obj /\ cache' = obj
    /\ UNCHANGED <<obj, provider, pc, pass, faults, changes>> /\ KeepImports

\* The image builder starts over, which takes the Jobs with the old build, or ends.
Rebuild ==
    /\ Change /\ obj.source = "url" /\ obj.artifact = "ready"
    /\ obj' = [obj EXCEPT !.artifact = "pending"]
    /\ jobs' = [p \in Pools |-> "none"] /\ pods' = {}
    /\ UNCHANGED <<backend, provider>> /\ OnlyWorld

Built ==
    /\ obj.source = "url" /\ obj.artifact # "ready"
    /\ \/ obj' = [obj EXCEPT !.artifact = "ready"] /\ UNCHANGED changes
       \/ Change /\ obj.artifact = "pending" /\ obj' = [obj EXCEPT !.artifact = "failed"]
    /\ UNCHANGED provider /\ KeepImports /\ OnlyWorld

\* The Provider's pools are verified; more may be later.
PoolVerified(p) ==
    /\ p \notin provider /\ provider' = provider \cup {p}
    /\ UNCHANGED <<obj, changes>> /\ KeepImports /\ OnlyWorld

\* An administrator puts the file of a backing image into its pool.
VolumeAdded(p) ==
    /\ obj.source = "backing" /\ backend[p] = "none" /\ backend' = [backend EXCEPT ![p] = "whole"]
    /\ UNCHANGED <<obj, jobs, pods, provider, changes>> /\ OnlyWorld

Pass ==
    \/ reconcile \/ reconcile_for_provider
    \/ \E p \in Pools : ensure_import_jobs(p)
    \/ ImportsListed \/ patch_status

Import(p) == import_start(p) \/ storage_vol_upload(p) \/ JobExpires(p)

Next ==
    \/ Pass \/ Crash \/ Sync \/ Rebuild \/ Built
    \/ \E p \in Pools : Import(p) \/ PoolVerified(p) \/ VolumeAdded(p)

Fairness ==
    /\ WF_vars(Pass) /\ WF_vars(Sync) /\ WF_vars(Built)
    /\ \A p \in Pools : WF_vars(Import(p)) /\ WF_vars(PoolVerified(p)) /\ WF_vars(VolumeAdded(p))

Spec == Init /\ [][Next]_vars /\ Fairness
-----------------------------------------------------------------------------
(* Properties.                                                             *)

\* An image that becomes ready has its volume in every pool that was verified when
\* its row was put together: a machine is not scheduled to a host without it.
ReadyEverywhere ==
    pc = "patch" /\ "ready" \in pass.zones =>
        pass.pools # {} /\ \A p \in pass.pools : backend[p] # "none"

\* The volume of an image that is reported ready was uploaded to its end.  Not so:
\* README, "Where the code and its documents part".
ReadyHasVolume ==
    [][obj'.row = "ready" /\ obj.row # "ready" => \A p \in Pools : backend[p] # "half"]_vars

Served == obj.row = "ready"
=============================================================================
