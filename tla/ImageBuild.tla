----------------------------- MODULE ImageBuild -----------------------------
(***************************************************************************)
(* The image builder (banlieue-imagebuilder): it has kairos-operator build *)
(* what a VMImage's Url source names, by an OSArtifact whose name follows  *)
(* from the image's; has the result pre-laid, and pushed to a registry,    *)
(* by Jobs; and mirrors where that is into status.buildArtifact.           *)
(*                                                                         *)
(* kairos-operator, the garbage collector and the Jobs are modelled from   *)
(* how the builder uses them: objects are owned by uid, the artifacts      *)
(* volume is found by name, and a build that ended is not started over.    *)
(***************************************************************************)
EXTENDS Integers, FiniteSets

CONSTANTS
    Specs,          \* what the image's spec may say
    MaxBuilds,      \* OSArtifacts, over time
    MaxFaults, MaxChanges

VARIABLES
    obj,        \* the VMImage
    cache,      \* as the builder's store holds it
    backend,    \* the OSArtifact and the volume
    jobs,       \* the Jobs that pre-lay and push
    pc, pass,   \* the pass: its next call, and what it knows
    ghost,      \* what each OSArtifact was made from, and in sight of what
    faults, changes

vars == <<obj, cache, backend, jobs, pc, pass, ghost, faults, changes>>

Builds == 0..MaxBuilds                  \* uids of OSArtifacts, 0 for none
Uids == 0..MaxChanges + 1               \* uids of VMImages
Phases == {"pending", "building", "ready", "failed"}
Files == {"none", "raw", "prelaid"}
\* prelay, push: what else is asked for; keys: whether the Secret of a trusted boot is
\* complete; sealable, prelayable, registry: whether the builder can do what is asked.
SpecType == [ref: Nat, seal: BOOLEAN, prelay: BOOLEAN, push: BOOLEAN,
             keys: BOOLEAN, sealable: BOOLEAN, prelayable: BOOLEAN, registry: BOOLEAN]
Pushes == [phase: {"none", "pushing", "ready", "failed"}, build: Builds, file: Files]
NoPush == [phase |-> "none", build |-> 0, file |-> "none"]
Statuses == [phase: Phases, build: Builds, layer: BOOLEAN, file: Files, oci: Pushes]
Pending == [phase |-> "pending", build |-> 0, layer |-> FALSE, file |-> "none", oci |-> NoPush]

Artifacts == [uid: Builds, owner: Uids, ref: Nat, seal: BOOLEAN,
              phase: {"none", "pending", "building", "ready", "error"}, going: BOOLEAN]
NoArtifact == [uid |-> 0, owner |-> 0, ref |-> 0, seal |-> FALSE, phase |-> "none", going |-> FALSE]
Volumes == [owner: Builds, going: BOOLEAN, lost: BOOLEAN, holds: Builds]
NoVolume == [owner |-> 0, going |-> FALSE, lost |-> FALSE, holds |-> 0]
Jobs == [owner: Builds, phase: {"none", "running", "succeeded", "failed"}, pod: BOOLEAN,
         file: Files, done: Builds]
NoJob == [owner |-> 0, phase |-> "none", pod |-> FALSE, file |-> "none", done |-> 0]
Kinds == {"prelay", "push"}

NoPass == [img |-> [uid |-> 0, spec |-> CHOOSE s \in Specs : TRUE],
           live |-> NoArtifact, status |-> Pending]

TypeOK ==
    /\ obj.uid \in Uids /\ obj.spec \in Specs /\ Specs \subseteq SpecType /\ obj.status \in Statuses
    /\ cache.uid \in Uids /\ cache.spec \in Specs
    /\ backend.art \in Artifacts /\ backend.vol \in Volumes /\ backend.next \in 1..MaxBuilds + 1
    /\ jobs \in [Kinds -> Jobs]
    /\ pc \in {"idle", "live", "volume", "delete", "apply", "prelay", "push", "patch"}
    /\ pass.img.uid \in Uids /\ pass.img.spec \in Specs /\ pass.live \in Artifacts
    /\ pass.status \in Statuses
    /\ ghost \in [1..MaxBuilds -> [ref: Nat, seal: BOOLEAN, owner: Uids, blind: BOOLEAN]]
    /\ faults \in 0..MaxFaults /\ changes \in 0..MaxChanges

Init ==
    /\ obj \in [uid: {1}, spec: Specs, status: {Pending}]
    /\ cache = [uid |-> obj.uid, spec |-> obj.spec]
    /\ backend = [art |-> NoArtifact, vol |-> NoVolume, next |-> 1]
    /\ jobs = [k \in Kinds |-> NoJob]
    /\ pc = "idle" /\ pass = NoPass
    /\ ghost = [b \in 1..MaxBuilds |-> [ref |-> 0, seal |-> FALSE, owner |-> 0, blind |-> FALSE]]
    /\ faults = 0 /\ changes = 0

art == backend.art
vol == backend.vol
spec == pass.img.spec

Fail == faults < MaxFaults /\ faults' = faults + 1
End == pc' = "idle" /\ pass' = NoPass
FailPass == Fail /\ End
Publish(status) == pc' = "patch" /\ pass' = [pass EXCEPT !.status = status]
KeepWorld == UNCHANGED <<cache, ghost, changes>>
Reads == UNCHANGED <<obj, backend, jobs>> /\ KeepWorld

-----------------------------------------------------------------------------
(* The OSArtifact.                                                         *)

missing_trusted_boot_keys(s) == ~s.keys

\* An image whose trusted-boot keys are incomplete is refused before anything.
reconcile ==
    /\ pc = "idle" /\ cache.uid # 0 /\ Reads /\ UNCHANGED faults
    /\ LET known == [NoPass EXCEPT !.img = cache]
       IN  IF missing_trusted_boot_keys(cache.spec)
           THEN pc' = "patch" /\ pass' = [known EXCEPT !.status.phase = "failed"]
           ELSE pc' = "live" /\ pass' = known

GetArtifact ==
    /\ pc = "live" /\ Reads
    /\ \/ pc' = "volume" /\ pass' = [pass EXCEPT !.live = art] /\ UNCHANGED faults
       \/ FailPass

owner_uid_trusted(owner, uid) == TRUE

owner_uid_matches(owner, uid) == owner = uid

spec_matches_any(live, s) == TRUE

\* Source, architecture and kind; the cloud-config is not compared.
spec_matches(live, s) == live.ref = s.ref

artifact_gate_hasty(live, lost, await, s, uid) ==
    CASE live = NoArtifact -> "proceed"
      [] live.going -> "await"
      [] ~owner_uid_matches(live.owner, uid) \/ ~spec_matches(live, s) \/ lost -> "delete"
      [] OTHER -> "proceed"

\* Wait for what is being torn down, and for its volume; delete what is stale,
\* foreign, or lost its volume.
artifact_gate(live, lost, await, s, uid) ==
    CASE live = NoArtifact -> IF await THEN "await" ELSE "proceed"
      [] live.going -> "await"
      [] ~owner_uid_matches(live.owner, uid) \/ ~spec_matches(live, s) \/ lost -> "delete"
      [] OTHER -> "proceed"

\* The claim outlived the PersistentVolume it was bound to.
artifact_volume_lost == vol.lost

\* The volume of an artifact that stays is lost when its node was replaced; what
\* cannot be read is not judged.
GetVolume ==
    /\ pc = "volume" /\ Reads
    /\ LET lost == artifact_volume_lost /\ pass.live # NoArtifact /\ ~pass.live.going
           Gate(l) == artifact_gate(pass.live, l, vol.going, spec, pass.img.uid)
           Go(gate) == CASE gate = "proceed" -> pc' = "apply" /\ UNCHANGED pass
                         [] gate = "delete" -> pc' = "delete" /\ UNCHANGED pass
                         [] OTHER -> Publish(Pending)
       IN  \/ Go(Gate(lost)) /\ UNCHANGED faults
           \/ lost /\ Fail /\ Go(Gate(FALSE))
           \/ FailPass

\* Deleted in the foreground: it stays, going, until what it owns has gone.
DeleteForRebuild ==
    /\ pc = "delete" /\ UNCHANGED <<obj, jobs>> /\ KeepWorld
    /\ \/ /\ art # NoArtifact /\ Publish(Pending) /\ UNCHANGED faults
          /\ backend' = [backend EXCEPT !.art.going = TRUE]
       \/ art = NoArtifact /\ End /\ UNCHANGED <<backend, faults>>
       \/ FailPass /\ UNCHANGED backend

sealing_layer_refused(s) == s.seal /\ ~s.sealable

\* The merged cloud-config and the OSArtifact are applied; the apply makes it when
\* there is none by now, and only updates the one that is there.
desired_os_artifact ==
    IF art = NoArtifact
    THEN [backend EXCEPT !.next = @ + 1,
                         !.art = [uid |-> backend.next, owner |-> pass.img.uid, ref |-> spec.ref,
                                  seal |-> spec.seal, phase |-> "none", going |-> FALSE]]
    ELSE [backend EXCEPT !.art.ref = spec.ref, !.art.seal = spec.seal]

map_kairos_phase(phase) ==
    CASE phase \in {"none", "pending"} -> "pending"
      [] phase = "building" -> "building"
      [] phase = "ready" -> "ready"
      [] OTHER -> "failed"

\* What is reported is what the live artifact said before the apply.
compute_build_artifact_status(live) ==
    LET phase == map_kairos_phase(live.phase)
    IN  [phase |-> phase, build |-> live.uid, layer |-> spec.seal,
         file |-> IF phase = "ready" THEN "raw" ELSE "none", oci |-> NoPush]

\* Pre-laying takes a cloud image, and the builder's own image to do it with.
prelay_refusal(s) == s.prelay /\ ~s.prelayable
apply_refusal(status) == [status EXCEPT !.phase = "failed", !.file = "none"]

BuildStatus(live) ==
    IF prelay_refusal(spec) THEN apply_refusal(compute_build_artifact_status(live))
    ELSE compute_build_artifact_status(live)

After(status) ==
    CASE status.phase # "ready" -> "patch"
      [] spec.prelay /\ status.file = "raw" -> "prelay"
      [] spec.push -> "push"
      [] OTHER -> "patch"

Apply ==
    /\ pc = "apply" /\ UNCHANGED <<obj, jobs, cache, changes>>
    /\ \/ sealing_layer_refused(spec) /\ Publish([Pending EXCEPT !.phase = "failed"])
          /\ UNCHANGED <<backend, ghost, faults>>
       \/ /\ ~sealing_layer_refused(spec) /\ (art = NoArtifact => backend.next <= MaxBuilds)
          /\ backend' = desired_os_artifact
          /\ LET status == BuildStatus(pass.live)
             IN  pc' = After(status) /\ pass' = [pass EXCEPT !.status = status]
          /\ ghost' = IF art = NoArtifact
                      THEN [ghost EXCEPT ![backend.next].blind = pass.live # NoArtifact] ELSE ghost
          /\ UNCHANGED faults
       \/ FailPass /\ UNCHANGED <<backend, ghost>>

-----------------------------------------------------------------------------
(* The Jobs.                                                               *)

\* A Job of an earlier build reports on another artifact.
job_of_this_build(job, build) == owner_uid_matches(job.owner, build)

Create(k, file) == jobs' = [jobs EXCEPT ![k] = [NoJob EXCEPT !.owner = pass.status.build, !.phase = "running",
                                                             !.file = file]]
Remove(k) == jobs' = [jobs EXCEPT ![k] = NoJob]

\* What the pod left is the result; that of a Job that ended well may be gone.
prelay_outcome(job) ==
    IF job.phase = "succeeded" THEN (IF job.pod THEN "done" ELSE "unread") ELSE job.phase

\* Created, replaced, or read.
JobStep(k, file, Running(_), Done(_), Failed(_)) ==
    LET job == jobs[k]
    IN  \/ job = NoJob /\ Create(k, file) /\ Running("created") /\ UNCHANGED faults
        \/ /\ job # NoJob /\ ~job_of_this_build(job, pass.status.build)
           /\ Remove(k) /\ Running("replaced") /\ UNCHANGED faults
        \/ /\ job # NoJob /\ job_of_this_build(job, pass.status.build) /\ UNCHANGED faults
           /\ CASE prelay_outcome(job) = "running" -> Running("running") /\ UNCHANGED jobs
                [] prelay_outcome(job) = "failed" -> Failed(job) /\ UNCHANGED jobs
                [] prelay_outcome(job) = "done" -> Done(job) /\ UNCHANGED jobs
                [] prelay_outcome(job) = "unread" ->
                      /\ Running("unread")
                      /\ IF k = "push" THEN Remove(k) ELSE UNCHANGED jobs
        \/ FailPass /\ UNCHANGED jobs

\* Only a pre-laid image is ready.  A Job that ended well is not run again, also when
\* its pod went before the result was read.
reconcile_prelay ==
    /\ pc = "prelay" /\ UNCHANGED <<obj, backend>> /\ KeepWorld
    /\ LET Running(why) == Publish([pass.status EXCEPT !.phase = "building", !.file = "none"])
           Failed(job) == Publish([pass.status EXCEPT !.phase = "failed", !.file = "none"])
           Done(job) == LET status == [pass.status EXCEPT !.file = "prelaid"]
                        IN  pc' = After(status) /\ pass' = [pass EXCEPT !.status = status]
       IN  JobStep("prelay", "raw", Running, Done, Failed)

\* Without a registry nothing is pushed.  A Job whose result is gone pushes again.
reconcile_push ==
    /\ pc = "push" /\ UNCHANGED <<obj, backend>> /\ KeepWorld
    /\ LET Oci(oci) == Publish([pass.status EXCEPT !.oci = oci])
           Running(why) == Oci([NoPush EXCEPT !.phase = "pushing"])
           Failed(job) == Oci([NoPush EXCEPT !.phase = "failed"])
           Done(job) == Oci([phase |-> "ready", build |-> job.done, file |-> job.file])
       IN  \/ ~spec.registry /\ Oci([NoPush EXCEPT !.phase = "failed"]) /\ UNCHANGED <<jobs, faults>>
           \/ spec.registry /\ JobStep("push", pass.status.file, Running, Done, Failed)

\* The status is the named image's, whichever that is by now.
patch_vmimage_status ==
    /\ pc = "patch" /\ End /\ UNCHANGED <<backend, jobs>> /\ KeepWorld
    /\ \/ obj.uid # 0 /\ obj' = [obj EXCEPT !.status = pass.status] /\ UNCHANGED faults
       \/ obj.uid = 0 /\ UNCHANGED <<obj, faults>>
       \/ Fail /\ UNCHANGED obj

Crash == pc # "idle" /\ FailPass /\ Reads

-----------------------------------------------------------------------------
(* kairos-operator, the Jobs' pods and the garbage collector.              *)

KeepPass == UNCHANGED <<obj, cache, pc, pass, changes>>

\* A volume of the name that is there is used, whoever owns it.
KairosStarts ==
    /\ art.phase = "none" /\ art # NoArtifact /\ ~art.going
    /\ backend' = [backend EXCEPT !.art.phase = "building",
                     !.vol = IF vol = NoVolume THEN [NoVolume EXCEPT !.owner = art.uid] ELSE vol]
    /\ ghost' = [ghost EXCEPT ![art.uid] = [@ EXCEPT !.ref = art.ref, !.seal = art.seal, !.owner = art.owner]]
    /\ UNCHANGED <<jobs, faults>> /\ KeepPass

KairosBuilds ==
    /\ art.phase = "building" /\ ~art.going /\ vol # NoVolume
    /\ \/ /\ backend' = [backend EXCEPT !.art.phase = "ready", !.vol.holds = art.uid]
          /\ UNCHANGED faults
       \/ Fail /\ backend' = [backend EXCEPT !.art.phase = "error"]
    /\ UNCHANGED <<jobs, ghost>> /\ KeepPass

\* A pod needs the volume it was made for, and the file on it.
JobRuns(k) ==
    /\ jobs[k].phase = "running" /\ vol.holds = jobs[k].owner /\ ~vol.lost
    /\ \/ /\ jobs' = [jobs EXCEPT ![k].phase = "succeeded", ![k].pod = TRUE, ![k].done = vol.holds]
          /\ UNCHANGED faults
       \/ Fail /\ jobs' = [jobs EXCEPT ![k].phase = "failed"]
    /\ UNCHANGED <<backend, ghost>> /\ KeepPass

\* Dependents go when their owner has gone or is going in the foreground.
Collect ==
    /\ UNCHANGED <<ghost, faults>> /\ KeepPass
    /\ \/ /\ vol # NoVolume /\ ~vol.going /\ (vol.owner # art.uid \/ art.going)
          /\ backend' = [backend EXCEPT !.vol.going = TRUE] /\ UNCHANGED jobs
       \/ vol.going /\ backend' = [backend EXCEPT !.vol = NoVolume] /\ UNCHANGED jobs
       \/ /\ art.going /\ vol.owner # art.uid /\ \A k \in Kinds : jobs[k].owner # art.uid
          /\ backend' = [backend EXCEPT !.art = NoArtifact] /\ UNCHANGED jobs
       \/ \E k \in Kinds : /\ jobs[k] # NoJob /\ (jobs[k].owner # art.uid \/ art.going)
                           /\ Remove(k) /\ UNCHANGED backend

-----------------------------------------------------------------------------
(* Everybody else.                                                         *)

Change == changes < MaxChanges /\ changes' = changes + 1
OnlyWorld == UNCHANGED <<cache, pc, pass, ghost, faults>>

Sync ==
    /\ cache # [uid |-> obj.uid, spec |-> obj.spec] /\ cache' = [uid |-> obj.uid, spec |-> obj.spec]
    /\ UNCHANGED <<obj, backend, jobs, pc, pass, ghost, faults, changes>>

SpecChange ==
    /\ Change /\ obj.uid # 0 /\ (\E s \in Specs \ {obj.spec} : obj' = [obj EXCEPT !.spec = s])
    /\ UNCHANGED <<backend, jobs>> /\ OnlyWorld

\* The image is deleted and made again; the collector takes the OSArtifact of the
\* deleted one, in the background, and marks the volume with it.
Recreate ==
    /\ Change /\ obj.uid # 0
    /\ obj' = [obj EXCEPT !.uid = @ + 1, !.status = Pending]
    /\ UNCHANGED <<backend, jobs>> /\ OnlyWorld

CollectArtifact ==
    /\ art # NoArtifact /\ art.owner # obj.uid /\ ~art.going
    /\ backend' = [backend EXCEPT !.art = NoArtifact, !.vol.going = (vol.owner = art.uid) \/ vol.going]
    /\ UNCHANGED <<jobs, ghost, faults>> /\ KeepPass

\* The node that holds the volume is replaced.
NodeReplaced ==
    /\ Change /\ vol # NoVolume /\ ~vol.lost /\ art.phase = "ready"
    /\ backend' = [backend EXCEPT !.vol.lost = TRUE] /\ UNCHANGED <<obj, jobs>> /\ OnlyWorld

PodGone(k) ==
    /\ Change /\ jobs[k].pod /\ jobs' = [jobs EXCEPT ![k].pod = FALSE]
    /\ UNCHANGED <<obj, backend>> /\ OnlyWorld

Pass ==
    \/ reconcile \/ GetArtifact \/ GetVolume \/ DeleteForRebuild \/ Apply
    \/ reconcile_prelay \/ reconcile_push \/ patch_vmimage_status

World == KairosStarts \/ KairosBuilds \/ Collect \/ CollectArtifact \/ \E k \in Kinds : JobRuns(k)

Next ==
    \/ Pass \/ Crash \/ Sync \/ World \/ SpecChange \/ Recreate \/ NodeReplaced
    \/ \E k \in Kinds : PodGone(k)

Fairness ==
    /\ WF_vars(Pass) /\ WF_vars(Sync)
    /\ WF_vars(KairosStarts) /\ WF_vars(KairosBuilds) /\ WF_vars(Collect) /\ WF_vars(CollectArtifact)
    /\ \A k \in Kinds : WF_vars(JobRuns(k))

Spec == Init /\ [][Next]_vars /\ Fairness
-----------------------------------------------------------------------------
(* Properties.                                                             *)

\* A build is published as ready only when it was made for this image, not for a
\* deleted one of its name, and from the source the image names: kairos' status
\* does not say what it is the status of.
ReadyIsTheBuild ==
    pc = "patch" /\ pass.status.phase = "ready" =>
        LET made == ghost[pass.status.build]
        IN  made.ref = spec.ref /\ made.owner = pass.img.uid

\* What is published as pushed is this build: neither a previous build's Job nor a
\* previous volume is taken for it.
PushedIsTheBuild ==
    pc = "patch" /\ pass.status.oci.phase = "ready" => pass.status.oci.build = pass.status.build

\* An OSArtifact that is made because there is none never builds on a volume that
\* goes with the one before it.  (One that a pass makes by applying what was there
\* when it looked may.)
VolumeIsOwn ==
    /\ art.phase \in {"building", "ready"} /\ ~art.going /\ ~ghost[art.uid].blind
    /\ vol # NoVolume
    => vol.owner = art.uid

\* The pushed file is the one the status names.  Neither this nor the next one is so:
\* README, "Where the code and its documents part".
PushedIsTheFile ==
    obj.status.oci.phase = "ready" => obj.status.oci.file = obj.status.file

\* The sealing layer is reported for builds that were made with it.
LayerIsBuilt ==
    obj.status.phase = "ready" /\ obj.status.layer => ghost[obj.status.build].seal

\* The pod of the pre-lay Job of this build is gone with its result.
PrelayUnread == /\ obj.spec.prelay /\ jobs["prelay"].owner = art.uid
                /\ prelay_outcome(jobs["prelay"]) = "unread"

\* The build of the image as it is, or its failure, is reported; unless its pre-lay Job's
\* pod went before the result was read, for which the code waits for ever, or a pass
\* waits to make one OSArtifact more than MaxBuilds.
Served ==
    \/ obj.uid = 0 \/ obj.status.phase = "failed" \/ PrelayUnread
    \/ backend.next > MaxBuilds /\ art = NoArtifact
    \/ /\ obj.status.phase = "ready" /\ ghost[obj.status.build].ref = obj.spec.ref
       /\ ghost[obj.status.build].owner = obj.uid
       /\ obj.spec.push => obj.status.oci.phase \in {"ready", "failed"}
=============================================================================
