# A verification project for banlieue

banlieue runs virtual machines on several hypervisors (vSphere, libvirt,
Proxmox, Cloud Hypervisor) from Kubernetes objects. It is a set of Kubernetes
controllers: every part reacts to objects in the API server and writes objects
back, with no lock, no transaction and no memory but the objects themselves.
What is hard in it is therefore not computation but order: caches that trail the
API server, passes cut short between two writes, two actors acting on the same
snapshot, forced writes, deletions that have to wait for one another.

This directory holds TLA+ models of that control logic, TLC runs that check them
on small instances, and TLAPS proofs for instances of any size.

## The system

| Part | State it keeps | Operations | Talks to |
|---|---|---|---|
| `VirtualMachineClaim` reconciler (`claim.rs`, `claim_plan.rs`) | claim status (phase, member, `expiresAt`), finalizer; the claim label on a member | pick, bind, hold, wait, fail, release, expire | pool members, VM controller (deletes), garbage collector |
| `VirtualMachinePool` reconciler (`pool.rs`, `pool_plan.rs`) | pool status; the member VMs it creates | read image, list, plan, delete, create, publish | claims (labels), VM controller, users |
| `VirtualMachine` reconciler (`virtualmachine.rs`, `migration.rs`, `status_mirror.rs`) | status (placement, held addresses, conditions), finalizer, one infra CR of the chosen kind | pause, finalizer, schedule, block, apply, mirror, migrate, finalize | scheduler, providers (infra CRs) |
| Duplicate addresses (`address_conflict.rs`) | none: judges declared and held addresses | `find_duplicate_address`, `contending_vms` | called by the VM reconciler |
| Scheduler (`scheduler.rs`) | none | filter, spread, anti-affinity, capacity | called by the VM reconciler |
| Leader election and health (`leader.rs`, `health.rs`) | the Lease; in-memory readiness | read, create, take over, renew, re-read, exit | every controller process, kubelet |
| Provider SDK (`finalizer.rs`, `ssa.rs`, `runner.rs`, cloud-init, ...) | none | helpers | every provider |
| vSphere / libvirt / Proxmox providers | infra CR status (`vmRef`, VMID), VMs in the backend | clone or define, configure, power, roll back, compensate, finalize | backend APIs |
| Cloud Hypervisor provider | systemd units, host files, uid ledger, image cache, token | converge, vTPM, power off, teardown, import, evict, renew token | systemd, host file system |
| Image builder and image reconcilers (`banlieue-imagebuilder`, `vmimage.rs` of every provider and of the controller) | OSArtifact, jobs, per-provider rows, image finalizer | build, gate, push, prelay, import, aggregate, release | registry, jobs, hosts |
| Operator (`banlieue-operator`) | a workload per Provider, heartbeat condition | apply, prune, judge heartbeat, clean up | leases, deployments |
| Wire clients (`banlieue-libvirt`, `banlieue-proxmox`, `banlieue-cloud-hypervisor`, `banlieue-oci`) | a connection | calls | backends |
| Host installer, VEX tools, CLI, API types | files | one-shot | - |

`PROJECT.json` lists every part with its status, and every hazard with its line.

What makes each part correct:

* *Claims*: one member per claim and one claim per member; a bind is finished
  once; a claim goes only after its sandbox; overdue sandboxes go.
* *Pools*: ceilings hold although a plan is applied long after its snapshot; no
  address twice; claimed members are left alone; plans settle; pools fill and
  images roll out.
* *VirtualMachines*: no infra CR outlives its VM; placements and held addresses
  are not lost; migration policies hold and migrations finish; two guests never
  get one address; a paused VM's guest is left alone.
* *Leader election*: one leader, a leader eventually, a loss of the lease is
  noticed, readiness tells the truth.
* *Providers*: backend resources exist only while their machine does, whatever
  crashes; what is not the machine's own is left alone; no identity (uid, VMID,
  vTPM) is given twice; a guest is ready when all that makes it ready is so, and
  stays ready; what a Provider advertises is what its backend has. Where the code
  falls short of one of these, the property names the case it excepts.
* *Images*: what is published is this source's build; no image is removed while a
  machine or host uses it; a rebuild never adopts what its predecessor is about to
  lose; every Provider acts on a request to import again; images are served or go.
* *Scheduling*: a decision fits its domain and keeps apart what has to be apart,
  and no VM is left without a placement that some domain could take.
* *Operator and installers*: nothing is left of a Provider; heartbeats are judged
  alike on both sides of every limit; an installation is whole wherever it
  stopped, and running it again takes nothing away.

## Modules

A reconcile pass is a sequence of API calls, and each call is one action:
everybody else may act between any two. A pass ends where the code returns; a
crash or a failed call ends it early, at any stage (`Abort` and the `*Fails`
actions), and the work begins again from what the API server holds.

### Claim

`claim` are the objects in the API server, `feed` the versions the watch has not
delivered, `seen` the cache; `rc` the pass of each claim with the object it works
from; `vm` the members. `Reconcile` decides with `next_step` (`claim_plan.rs`),
`Pick` lists the members, `EnsureFinalizer`, `BindGet`, `BindPatch`, `BindStatus`
are the bind, `HoldStatus`, `WaitStatus`, `FailStatus` the other outcomes,
`ReleaseDelete`, `ReleaseStatus`, `RemoveFinalizer` the release and
`DeleteExpired` the end of a TTL. The environment creates and deletes claims and
members, makes members ready, finishes deletions and collects members whose owner
is gone. Conflicts are modelled by `Outdate`: a write to a member makes the
`resourceVersion` that other passes read stale. Deadlines saturate at
`EndOfTime`, as `Timestamp::MAX` does.

### PoolPlan, PoolPlanning, Pool

`PoolPlan` translates `plan` and the address pool parsing: phases, the sizing
arithmetic (`Sizing`), which members go, which addresses are drawn (`Draws`, in list
order).
`PoolPlanning` applies it to every small snapshot. `Pool` is the reconciler:
`GetImage`, `ListAndPlan`, then `DeleteMember` and `CreateMember` one call at a
time, then `Publish`, while members are bound, become ready, lose readiness or
hang, specs change, the image is rebuilt and the pool is deleted. Ages saturate at
`AgeCap`, above every limit they are compared with, so time goes on for ever in
finitely many states. `Width` bits stand for the 32 bits of an address.

### Leader

One action per call of `wait_for_leader` and of the renewal loop: `ReadLease`
decides, `CreateLease`, `patch_take_over` and `RenewToLead` act on what was read
earlier, `RenewOnce` renews, `Reread` looks again after a failed renewal,
`StartControllers` and `Exit` are the process around them. Server-side apply is
part of it: an apply by force takes every field it names, and a field that its
only manager no longer applies is removed. `evaluate` is `/readyz`.
Replicas act at any speed. The ghost variable `calm` remembers whether they acted
in time so far (no tick passed the lease duration while one had a call to make) and
whether nothing but renewals failed; the code can only promise one leader while it
is true.

### AddressConflict, AddressAdmission

`AddressConflict` is `address_conflict.rs`: the sweep over held and then over
declared addresses, oldest VM first (`HeldSweep`, `DeclaredSweep`: functions of how
many VMs have had their turn), and the reduction to the VMs that share an address
directly or through others (`contending_vms`: those in every set that has the VM and
is closed under sharing).
`AddressAdmission` runs the rule over VMs that come, change and go when a pass
checks and records in one step.

### Scheduler, InfraBuild, Aggregates

`Scheduler` is `schedule`: the filters in their order (`Survivors`), what is
eligible by capacity and anti-affinity, spread and rank (`Better`). `List` and
`Decide` are the two ends of a pass, so that passes of several VMs overlap; the
ghost remembers who was placed from a list that was out of date. Only the first
decision for a VM is recorded: whatever its migration policy, a later one that differs
leaves `status.scheduled` as it is. `InfraBuild` is
`infra.rs`: for each kind of backend, which parts of VM, class, image and zone end
up in the machine object, built over and over while its inputs are edited; it is
compared with a second definition of what the VM asks for. `Aggregates` has the two
statuses the controller sums up from others (`vmimage.rs`, `vsphere_cluster.rs`),
patched from copies that may be old.

### MachineLifecycle and the machine reconcilers

`MachineLifecycle` is what every provider promises: resources of the backend are
made only while the machine object is there, and the object goes only when none is
left. `InfraMachine` is what the four reconcilers share (the object, the cached
copy, the pass, namesakes under new uids, deletions, stops, failed calls), and each
of them extends it:

* `VSphereMachine`: `live_base`, `ensure_vm` with its clone, roll-back and reclaim
  by the marker, `record`, `compensate_gone`, `finalize` with and without a recorded
  VM; vCenter finishes a clone after its caller gave up. Others have VMs of the name in
  the folder and below it, and the lookup of a clone just made, which goes by name,
  may take one below for the clone.
* `LibvirtMachine`: disk, seed and domain by name, from the cached object alone;
  `compensate_gone`; `finalize`.
* `ProxmoxMachine`: `next_id` and `allocate_vmid`, the clone that carries the mark,
  configuration, seed, start; the removal in its separate calls (`finalize_find` reads
  the marker, `finalize_stop` and `finalize_delete` name the VMID). Others take VMIDs
  between any two calls, also one that an administrator frees under the pass
  (`pass.reused` remembers that).
* `CloudHypervisorMachine`: `converge` one unit a pass, `ensure_tpm` with the setup
  unit and the adoption of its result, power off, `teardown`, on units that are
  named after a uid the next machine gets.

`MCMachines` instantiates the four and the lifecycle (`INSTANCE MachineLifecycle
WITH machine <- ..., held <- ...`): `held` is what the backend holds under the
machine's marker, name or uid, without what `loss` says was left to the
administrator. `loss` names those cases one by one: a finalizer taken off by force,
a Provider or pool that is gone, a VM that was registered anew, a clone that ended
after its machine, another's VM that was taken for the clone, a patch that reached a
namesake, a machine that cannot be
planned, a setup unit stopped between key and state. Those that are the code's
doing are listed under "Where the code and its documents part".

`HostUids` is the allocation of the uids of a Cloud Hypervisor host (ledger in
memory, statuses, stale caches, restarts, a pass over a machine that is gone already).
`GuestReadiness` follows one machine
from its first boot to `GuestReady` on vSphere, libvirt and Cloud Hypervisor: what
the guest announces in a boot, the eject of the install medium, the EK certificate,
the sealing report and its deadline, and the fields that stick, in passes that on
libvirt and Cloud Hypervisor work from a copy of the machine that may be old.

### Images

`ImageBuild` is the image builder: the OSArtifact and its volume, the gates before
it is applied again, prelay and push Jobs, and the status they are folded into.
`VSphereImage` are the workloads of several Providers on one VMImage: import Jobs,
templates, the request to import again, the shared finalizer; a ghost records for which
Providers a request had the Job deleted (`acted`) and for which it was marked handled
although the pass came to no Job or could not delete it (`over`). Workloads in
`LateStores` read old copies, the others the image as it is. `LibvirtImage` uploads
to every verified pool, or looks for a backing file. `HostImageCache` is a Cloud
Hypervisor host's cache with the controller's half of the finalizer. `MCImages`
runs them in eleven configurations.

### Inventory, connection, credential

`ProviderInventory` is the Provider reconciler of all four kinds: credentials,
discovery or declared zones, verified classes, capacity, conditions, and the passes
its own status patches cause (`Figures` are the capacities a host may report).
`LibvirtTransport` is one session with libvirtd; the
stream is a sequence of 32-bit words, so an abandoned read really leaves it at a
wrong offset. `HostCredential` is the token of a host, from its bootstrap through its
renewals.

### Operator and installers

`ProviderWorkload` applies and prunes the objects of a Provider and cleans up after
it, while its class changes its mode or its `workloadNamespace`; `OperatorReports` judges heartbeats and classes; `Install` is
`banlieue bootstrap`; `HostInstall` prepares a Cloud Hypervisor host, write by write.

`MCServices` runs the parts of the last three sections, and `PoolPlanning`,
`Scheduler`, `InfraBuild`, `Aggregates`, `GuestReadiness` and `HostUids`, side by side: its variables `s1 .. s12` are the variables of the one part
that a behaviour follows, chosen in the initial state by `which`. The parts share
nothing, so this is fourteen checks in one run; its properties are conjunctions of
the parts' properties, each defined and explained in its own module.

### VirtualMachine

Extends `AddressConflict`. `life`, `finalized`, `spec`, `status` are the VM
objects, `store` the controller's copy, `infra`, `ending`, `machine` the infra
CRs, `pc`, `pass`, `lookups` the passes. `Reconcile` takes the pause, deletion and
finalizer checks, `Decide` everything between the finalizer and the first write
(scheduling, image pairing, duplicate addresses, migration policy: `Verdict`,
`evaluate`), `Apply`, `Recreate`, `StickRead`, `BlockRead`, `BlockPower` the calls
on infra CRs, `patch_status` every status write with what it writes (`Written`),
and `FinRead`, `FinDelete`, `remove_finalizer` the cascade with `plan_finalize`.

Abstractions: `world[v]` is what the reads of class, image and providers and
`schedule` lead to, and may change at any time within `Answers`; a delivery brings
the store up to date in one step (it may be arbitrarily late when `Lag` is set);
`unreadable` are kinds whose lookups fail for good, chosen from `Outages`; the ghost
`altered` remembers the VMs whose address was edited or whose name is used again;
the `Paused` condition, pausing a VM that is already being deleted, and foreground
deletion are left out; the fixed order in which the kinds are searched for an
existing infra CR is any order. Passes of one VM do not overlap, as the kube-rs
controller guarantees within one process; two leading processes are a finding of
`Leader`, and their composition with a reconciler is planned.

Definitions with a suffix (`evaluate_ignoring_drift`, `next_step_rebinding`, ...)
are plausible mistakes. They are used nowhere in the specifications: each is
substituted for the definition that follows it to show that a property would
notice.

## Runs

Bounds are named in the modules and given in the `.cfg` files.

| Run | Instance | Shows |
|---|---|---|
| claim | 1 claim, 2 members, cache one version behind, one fault, a TTL that ends | one member per claim; only a pass that does not see its own bind rebinds or moves a deadline; a release follows the member's end; overdue sandboxes and deleted claims go |
| pool | 3 members, ceiling 2, 2 events, valid and invalid address pools | ceiling and addresses hold across half-applied plans; pools fill, images roll out |
| leader | 3 replicas at any speed, every fault, two of them | one leader and truthful readiness while calm; somebody leads as long as somebody runs |
| vm_placement | 1 VM over 2 kinds, lagging store, one fault, perhaps an unreadable kind; 1 VM over 4 placements with every decision, policy and user change | no infra CR outlives its VM or is anywhere but where the status says, no pass handed a paused VM deletes its guest, deleted VMs go, and so do the guests of the kinds that can be read |
| addresses | 2 VMs racing for one address, equal and distinct creation times, one change; 3 VMs and 2 addresses under the rule alone | of two VMs one is applied, unless they are equally old, edited or created again; the rule answers everybody alike and keeps an incumbent; power follows the spec on a blocked VM |
| machines | per provider one name under 2 uids, 2 to 3 backend VMs, one fault, 3 user changes | the lifecycle is implemented; recorded VMs are spared, and foreign ones but in two named cases; machines are served or go |
| images | one image, 1 or 2 Providers, pools or hosts, 2 builds, up to 2 requests, 0 to 2 faults, eleven configurations | published is what was built; used files and templates stay; a request is taken off when it reached every Provider's Job, but in named cases; images are served or go |
| services | fourteen parts, 2 actors or zones each, one fault or stop, 1 to 3 edits or runs | decisions keep their limits, what is set up is whole, nothing relied on is taken back, controllers come to rest, nobody waits for ever |

`AdmissionSound` of `addresses` is `HoldersDistinct`, `SameAnswer`, `IncumbentAdmitted`
and `BlockedForCause` of `AddressAdmission` (chains of conflicts, unresolved classes).

What the properties of `services` are made of:

| Property | Parts |
|---|---|
| `DecisionsSound` | `PlanWithinLimits`, `WarmCovered` (up to 3 members in every phase on either side of every limit); `RoomForAll`, `ApartStaysApart` (2 VMs, 3 domains); `RowsAreOwn` |
| `ServicesSound` | `IdentityBeforePod`, `NothingLeaks`; `AliveIsRecent`, `ReadyClassServes`; `InstalledIsWhole`; `HostSound`; `ReadyIsWhole`; `UidsDistinct`, `UnitIsOwn`; `DomainsSound`; `SessionSound`; `CredentialLives` |
| `StepsSound` | `NothingMore` (a plan applied in full is not contradicted by the next); `AsAsked`; `NothingLost`; `ReadyStays`; `UidStays`, `UnitStays`; `AppliedStays` (a pass takes nothing it applied away again) |
| `ComesToRest` | `Settled` of `Scheduler`; `Followed`; `AllSettled`; `AtRest` of `ProviderInventory` |
| `NobodyWaits` | a machine gets its uid, a deleted Provider goes, a dead process is noticed, a guest gets its verdict, a call ends |

Runs that refute what a comment or a document says of the code (`findings` in
`PROJECT.json` quotes each sentence):

| Run | What happens |
|---|---|
| claim_double_bind | two claims list one member; each re-reads it before it patches, so the second patch carries the version the first one wrote and succeeds |
| pool_claimed_deleted | a claim binds between LIST and DELETE, and the DELETE has no precondition |
| leader_loss_unnoticed | a stalled leader and its successor renew by force in turns, for ever |
| vm_migration_stuck | Recreate leaves `status.scheduled` alone, so each pass deletes and none creates |

### Where the code and its documents part

Further disagreements met while modelling. The models take these steps too, and the
properties above are stated so that they do not deny them: where one excepts a case,
its comment names it. A property that the code does not have stays in its module as a
definition, with a comment, and is checked by no run.

*Controller*

* a claim deleted between the two patches of its bind has no reference yet, and its
  finalizer comes off while the labelled member lives (`claim.rs:373`);
* a pass from a cached claim that predates its own bind finishes it again with a
  later deadline (`claim.rs:286`) or, if the member vanished, binds a second one
  (`claim.rs:204`): this is what `ReboundOnlyIfStale` confines;
* overlapping entries of an address pool yield one address twice in one plan
  (`pool_plan.rs:244`): `AddressesSound` is checked, and proved, for lists whose
  entries do not overlap;
* two standbys that read the expired lease both take it over (`leader.rs:355`), and
  the first renewal after a takeover drops `leaseTransitions` (`leader.rs:391`);
* two VMs that exchange their addresses block each other (`address_conflict.rs:138`);
* of two VMs created in the same second the first by name may arrive after the other
  was checked, and both are applied; the same can follow an edit, or a name that is
  deleted and created again during a pass (`address_conflict.rs:291`):
  `AddressesExclusive` excludes exactly these;
* a status write from an older cached status erases the held address
  (`virtualmachine.rs:1098`); nothing sets `PlacementValid` back to True
  (`virtualmachine.rs:548`); under Never with a changed decision a vanished infra CR
  is not applied again (`virtualmachine.rs:606`), and one whose status patch was lost
  gets a twin of another kind (`virtualmachine.rs:564`): `PlacementRecorded` is checked
  with a current store and no lost call, and what holds without these is
  `PlacementSticks`;
* a migration deletes the guest of a VM that was paused after its pass began, or whose
  pause the store did not show then: `PausedSpared` says that of migrations no more than
  that the pass was not handed a paused VM;
* a self-selecting required anti-affinity rule counts the VM's own placement
  (`scheduler.rs:639`), so its decision differs from its record in every pass;
  overlapping passes place from lists
  that lack each other and can overshoot a domain: `RoomForAll` and
  `ApartStaysApart` excuse exactly the VMs in `ghost`;
* `domain_name_for` joins namespace and name by `-`, which is not injective though
  its comment relies on it (`infra.rs`);
* the image and cluster aggregates stamp their conditions anew each pass
  (`vmimage.rs`, `vsphere_cluster.rs`), and the `paused` patch of a cluster drops
  its failure domains (`vsphere_cluster.rs:223`);
* `finalizer.rs` says that the API server appends the finalizers of a patch: a JSON
  merge patch replaces the list.

*Machines*

* vSphere: the lookup by name sees nested folders (`vim.rs:1891`), the search for own
  clones does not: a VM of the same name in a folder below can be taken for the clone,
  recorded, and destroyed with the machine, against "never touched"
  (`vspheremachine.rs:528`). `OwnOnly` and `ForeignSpared` except exactly this VM
  (`Mistaken`), and without the exception the run refutes them; a VM that was unregistered and registered
  again has a new reference and is left by `finalize`; a CloneVM_Task that ends after
  its pass and its machine is an orphan; patches name the object without a uid
  precondition and may reach a namesake. `loss` marks the orphans.
* libvirt: an upload that fails leaves an empty seed volume which the next pass
  reuses, so a guest may boot without its seed (`BootsWithSeed`).
* Proxmox: a machine may be Ready although its configuration failed half-way
  (`ReadyIsConfigured`); a clone that ends late and without its mark is an orphan; the
  marker is read in one call and the VMID named in others (`proxmoxmachine.rs:185`,
  `:336`, `:405`, `:514`), so a VM that gets the VMID in between is configured, started,
  stopped or deleted, against "touched only if it carries our ownership marker"
  (`proxmoxmachine.rs:500`). `ForeignSpared` excepts exactly such a VM (`pass.reused`).
* Cloud Hypervisor: a guest may be started on a vTPM whose EK files are there and
  whose state is not (`GuestTpmComplete`, against the comment at `machine.rs:189`);
  an eject whose status patch failed is repeated on a device that is gone; a guest's
  report is only in the memory of the process; `finalize` of a machine that cannot be
  planned stops only the VMM; a second `finalize` of a machine that is gone but still
  cached stops the unit of the machine that has its uid now (`LateTeardown`, the one
  exception of `UnitStays`).
* On libvirt and Cloud Hypervisor a pass from a copy older than the report takes
  `GuestReady` back, against "Once `Some(true)`, it stays" (`libvirtmachine.rs:1188`),
  and one from a copy older than the eject puts the install medium back: `ReadyStays`
  and `ReadyIsWhole` except these passes and nothing else.

*Images*

* vSphere: a row is Ready while its template is being replaced (`ReadyHasTemplate`);
  a request to import again is marked handled by a pass that came to no Job (an adopted
  template, an artifact that is not ready) or could not delete it, and one that is made
  while a marker, a store or a pass of the one before is left cannot be told from it and
  may be taken off unseen (`vmimage.rs:98`): `RequestReachesAll` excepts these; a
  template whose import runs, or whose row was emptied, when the image is deleted
  is left behind.
* libvirt: a half-uploaded volume is reported ready (`ReadyHasVolume`); truncated Job
  names can collide; a rebuilt image finds the old volume.
* Host cache: when no unreferenced file is kept, a file can be pulled for one image and
  evicted by another's pass before the row refers to it, for ever: nothing is claimed
  of when such an image is ready; a host that has not
  reported yet is not waited for (against `vmimage.rs:20` of the controller).
* Builder: the sealing layer is reported for builds that were made without it
  (`LayerIsBuilt`), and the file that was pushed may be another than the one the
  status names (`PushedIsTheFile`); a pre-lay Job whose pod
  is gone before its result was read stays "Running" for ever (`vmimage.rs:1444`,
  `prelay.rs:258`), while a push Job in the same case is started again: `ImageServed`
  excepts such an image (`PrelayUnread`); a blind apply can recreate an artifact that was just
  collected and adopt its volume (`VolumeIsOwn` is stated for what the gate saw); a
  status patch by name may reach a namesake.

*Operator, providers, installers*

* `prune_orphans` keeps by name only (`provider.rs:271`), so an edited
  `workloadNamespace` leaves the old Deployment where it is, and two pods run for one
  backend: `ComesToRest` excepts what is `LeftBehind`; two Providers of one name and one pinned class
  collide; a Managed class with a pinned namespace elects its Lease where its Role
  does not reach; "Nothing watches ProviderClass" is not so (`app.rs`); a paused
  Provider keeps its last heartbeat.
* `patch_status_failed` of vSphere omits `failureDomains` from a forced apply, which
  drops them, against its comments ("Preserves any previously-known failure domains",
  `provider.rs:514`, and `:553`): `DomainsSound` claims neither for vSphere, and the
  other kinds, which promise nothing, report none; libvirt and Proxmox rebuild
  their conditions from nothing, the hot loop that the comment at vSphere's
  `provider.rs:88` describes: `ComesToRest` asks of them that the status is right and
  stays so, and only of the other two that passes stop waking themselves;
  libvirt never counts `bridge` targets; Secrets are not watched although a comment
  says that their changes trigger a pass; short failure-domain names are not
  injective, which discovery notices and refuses.
* `register_guest_uids` takes the first of four files for all of them, so a stop
  among the four is not made good by the next run; a provider that is already active
  is not restarted on a new binary; host settings are kept without `--force` although
  the guide calls a re-run the way to change them.
* The libvirt session is not closed after a serial mismatch or a timeout, though the
  error is called fatal; the best-effort calls that follow are one reply behind (they
  fail, and never return another's answer: `SessionSound`); an open whose reply is
  late leaks a handle of the guest.
* A host bootstrap that stops between kubeconfig and token leaves a directory which
  the command refuses for ever; renewal ends for good at one file that is not a
  token. `CredentialLives` says that no stop of the provider leaves such a file.

### Why the bounds are enough

The races here need two actors on one object and one event between two calls. A
claim with two members has one to lose and one to take by mistake, and the second
actor on it is its own cache; two claims on one member are the finding, and the
theorems about claims hold for any number of both. Three members with a ceiling of
two let a pool replace, surge and be full; three replicas give a leader and two
standbys that can disagree; a VM with two kinds has a kind to leave and a kind to
reach; three VMs give a chain of address conflicts whose ends do not share an
address. A machine name under two uids has a predecessor whose remains can be found
and a successor that can be hit by mistake; two Providers, pools or hosts have
something to share; two builds are an old and a new one; three runs of an installer
are an interrupted one, its repair and one with other settings. Faults and user changes are counted because each one only returns a pass to
its start; the numbers are the smallest at which every action fires and every listed
mistake is noticed. What a bound could hide from TLC is covered, for the theorems
below, by proof.

`CHECK_DEADLOCK FALSE` stands where a bounded environment may come to rest: all
claims, members, machines, images or runs used up, nothing left to reconcile. The leader runs check for deadlock. No run uses
symmetry: most check liveness, and VMs and pool members are numbers because the code
orders them.

### Fairness

* A pass that has been started makes its next call, and a claim that is due is
  reconciled: kube-rs runs queued objects, and `error_policy` requeues a failed
  pass. A pass that ends in `await_change` is *not* started again without an event.
* The watch delivers, the clock runs, providers finish deletions and bring prompt
  guests up: the environment every reconciler depends on.
* A VirtualMachine pass always follows another: each ends in a requeue.
* In `Leader` a running replica acts and time passes. Nothing makes an ended
  process start again, so `LeaderEmerges` only speaks of times when one runs.
* The passes of providers, image workloads, builder and operator are started again
  after they end or fail (`error_policy`, requeue), events reach their stores, Jobs
  and their pods run, units that were started end. `MachineServed` speaks of
  behaviours in which the Provider and its template stay.
* Where a call may fail again and again (the status patch of the aggregates, the
  read of an EK certificate) strong fairness says that one attempt succeeds.
* Each part of `services` has only the fairness a temporal property about it needs:
  installers and credentials have none.
* No fairness is assumed of users, of faults, or of claims binding pool members.

## Proofs

| Theorem | States |
|---|---|
| `ClaimProofs!TypeInvariant` | `TypeOK` of `Claim` |
| `ClaimProofs!OneMember` | `OneMemberPerClaim` |
| `ClaimProofs!ReleaseOrder` | `ReleaseAfterDestroy` |
| `ClaimProofs!NeverRebound` | `ReboundOnlyIfStale` |
| `PoolProofs!SizingBounds` | a plan's creations fit `max_replicas` and `max_surge` |
| `PoolProofs!SizingSettles` | the counts a plan asks for leave the next plan nothing to do |
| `PoolProofs!PlanWithinLimits` | of the plan for any snapshot: no claimed member is deleted, and creations fit both limits next to what is kept |
| `PoolProofs!PlanGrants` | a plan's addresses are listed, held by no member, and different if no entries overlap |
| `PoolProofs!PoolWithinMax` | `AliveWithinMax` |
| `PoolProofs!PoolAddressesSound` | `AddressesSound`, if no entries overlap |
| `ServiceProofs!LeaderTypes` | `TypeOK` of `Leader` |
| `ServiceProofs!CalmElection` | `OneLeaderWhileCalm` |
| `ServiceProofs!TruthfulReadiness` | `ReadyzTruthful` |
| `VirtualMachineProofs!NoDangling` | `NoDanglingInfra` |
| `VirtualMachineProofs!VmTypes` | `TypeOK` of `VirtualMachine` |
| `VirtualMachineProofs!PausedGuests` | `PausedSpared` |
| `VirtualMachineProofs!ExclusiveAddresses` | `AddressesExclusive` |
| `VirtualMachineProofs!AdmissionRule` | `HoldersDistinct`, `SameAnswer`, `IncumbentAdmitted`, `BlockedForCause` of `AddressAdmission` |
| `VirtualMachineProofs!PlacementKept` | `PlacementSticks`: with any lag and any lost call, a pass applies a guest where the status it was handed records it, and overwrites only a record it was not handed |
| `ProxmoxMachineProofs!ProxmoxLifecycle` | `ProxmoxMachine` implements `MachineLifecycle` |
| `ProxmoxMachineProofs!ProxmoxForeignSpared` | no step of a pass touches a VM without a machine's marker, but one that got the VMID under the pass |
| `MachineProofs!EveryLifecycle` | `ImplementsLifecycle` |
| `MachineProofs!EveryForeignSpared` | `ForeignSpared` |
| `MachineProofs!EveryRecordedSpared` | `RecordedSpared` |
| `MachineProofs!EveryOwnOnly` | `OwnOnly` |
| `MachineProofs!LibvirtLifecycle` | `LibvirtMachine` implements `MachineLifecycle` |
| `MachineProofs!CloudHypervisorLifecycle` | `CloudHypervisorMachine` implements `MachineLifecycle` |
| `MachineProofs!GuestTpms` | `GuestTpmIsOwn` and `TpmKept` of `CloudHypervisorMachine` |
| `VSphereMachineProofs!VSphereLifecycle` | `VSphereMachine` implements `MachineLifecycle` |
| `VSphereMachineProofs!VSphereSpared` | no step of a pass destroys a VM without a marker, but one below the folder that was taken for the clone, or the one a live machine records |
| `VSphereMachineProofs!VSphereRecordedIsOwn` | `RecordedIsOwn` |
| `ServiceProofs!UidsNeverShared` | `UidsDistinct`, `UnitIsOwn` and `UidStays` of `HostUids` |
| `ServiceProofs!UnitsSpared` | `UnitStays` of `HostUids` |
| `ServiceProofs!PublishedBuilds` | `TypeOK`, `ReadyIsTheBuild`, `PushedIsTheBuild` and `VolumeIsOwn` of `ImageBuild` |
| `ServiceProofs!ReleasedThenGone` | `ReleasedFirst` of `HostImageCache` |
| `ServiceProofs!VolumesEverywhere` | `ReadyEverywhere` of `LibvirtImage` |
| `ServiceProofs!TemplatesGoFirst` | `RecordedTemplatesGo` and `AdoptedKept` of `VSphereImage` |

`ServiceProofs` extends `Leader` and instantiates the other five modules it is about.
Each of its theorems speaks of the behaviours of one module; where two of them declare
a constant or a variable of one name, the name is all they share.

They hold for every value of the constants that satisfies the named assumptions of
each module (`ConstantsAssumption`, `PoolAssumption`, `LeaderAssumption`,
`VmAssumption`, `BoundsAssumption`, `MachinesAssumption`): any number of claims, members, replicas, VMs,
kinds, VMIDs and faults, and any lag of a cache. `PowersOfTwo` is a fact of
arithmetic (`2^k` is a positive number) that the prover, which does not unfold
exponentials, takes from the assumption TLC evaluates. One theorem has a
hypothesis of its own, and the code needs it: overlapping entries do hand
out one address twice (*PoolAddressesSound*). Where the code breaks what its comments
promise, the exception is in the property itself, and the theorem says that there is no
other. See "Where the code and its documents part". The other hypotheses
on constants only say what they are: bounds are natural numbers, a spec is a record of
a spec's fields, `Nobody` is not a machine (`UidAssumption`, `BuildAssumption`, and the
hypotheses of *ReleasedThenGone* and *TemplatesGoFirst*).

* *OneMember*. That no claim has two members is not inductive: a pass that has
  picked its member may be about to label it. `LoneTarget` adds that from the pick
  to the status patch no member but the pass's target carries the claim's label. It
  survives other claims because they label with their own name, and the claim's own
  passes because they do not overlap and `Pick` lists the API server, not the cache.
* *ReleaseOrder*. The 404 a release waits for says that the member is not there
  *now*. `RefsCreated` says that every reference - in the API server, in the cache,
  in undelivered versions and in passes - names a member that was created, and
  `LifeForward` that a created member never returns from being gone
  (`generateName` does not reuse names); `ReleaseStages` carries what the two stages
  of a release know.
* *NeverRebound*. `HandedUnbound`: a pass on its way to a bind was handed a claim
  without a reference. So if the claim has one when the pass writes another, the copy
  it was handed is not the claim as it is: the pass is stale, as the property says.
* *PlanWithinLimits*, *PlanGrants*. The plan is taken apart into its phases and
  counts, which are tied to `Sizing` by cardinalities: a member that is kept is in
  one phase only, `Sizing`'s numbers are the sizes of these sets, and what is deleted
  is exactly what was not kept. The n-th grant is the place and address that n - 1
  others precede in `DrawnBefore`, a strict total order of finitely many draws, so two
  grants are two draws, and two addresses if no entries overlap.
* *PoolWithinMax*, *PoolAddressesSound*. A plan is applied call by call while its
  snapshot ages, so the bound must be one that survives every step in between.
  `PlanFits`: the living members that the pass will not delete, plus what it has still
  to create, fit `MaxReplicas` while it is applied. It holds of a fresh plan by
  `PlanWithinLimits`, and nobody but the pass makes members. `Granted`
  is the same for addresses: what is still to be handed out is listed, held by nobody
  who exists, and no two the same.
* *CalmElection*. `Elected`: a leader holds a lease that has not run out, the holder
  of a lease leads, and whoever is about to act found no lease, so that its CREATE
  either is the first or fails. This holds while `calm` is true, and both halves of
  `calm` are needed: a lease that outlives its replica is taken over by two standbys,
  and a slow replica renews a lease that is no longer its own.
* *TruthfulReadiness*. `FlagTrue`: the flag `/readyz` reads is set exactly while a
  replica leads. With `Elected` it also says who holds the lease.
* *SizingBounds*, *SizingSettles*. Arithmetic on natural numbers with the code's
  saturating subtraction, step by step along `Sizing`.
* *NoDangling*. `Guarded` is the inductive invariant. `Held`: whoever has an infra CR
  has the finalizer, and whoever is being deleted has it too. `Covered`: a pass that may
  apply has it. `Cleared`: what the cascade saw absent stays absent until the
  finalizer is off. The cache makes this delicate: `StoreTrue` says that a finalizer
  in a cached live VM is still there, `StorePast` that a cached deletion is either
  still under way or over, and `Finalizing` that no cascade runs over a VM that has
  the finalizer and is live. Together they exclude that a pass over the previous
  bearer of a name strips the finalizer of the next.
* *PausedGuests*. `PauseKept`: a cascade that runs over a VM being deleted runs over
  one that is not paused, and a store that shows it being deleted and not paused is
  right about that, since nobody pauses a VM that is being deleted (the model leaves
  that out). `Handed`: a pass that decides or migrates was handed a VM that is not
  paused.
* *PlacementKept*. `Handed`: a pass that applies or mirrors was handed a status with the
  placement it wants, or with none, for `evaluate` sends every other pass elsewhere; and
  no other status write changes the recorded placement (`WrittenPlacement`).
* *AdmissionRule*. What the sweeps compute goes by induction on the turns, and that
  induction from the least number for which a claim fails (`LeastNumber`, `UpTo`).
  `HeldTurnSound` and `DeclaredTurnSound` say what is true after each turn; the result
  (`BlockedEquation`) is that a VM is blocked exactly if a holder, or an older VM that
  is not blocked itself, is in its way. Such an equation has one solution, because it
  refers to older VMs only, and who can be in a VM's way shares an address with it: so
  the VMs that share an address, closed under sharing, solve it by themselves, and
  judging among them gives the answer of judging among all (`SameAnswers`).
* *ExclusiveAddresses*. That the CRs of two VMs differ in address is not inductive: one
  may be applied by a pass that checked long ago, from a store that had not seen the
  other yet. `Exclusive` is. `Faithful`: store, pass, status and CR of a VM show its
  own address or none. `Yields`: of two VMs the older is in the store whenever the
  younger is - the store is behind, but not out of order - and if they declare one
  address the younger has nothing of it, no CR, no record, and no pass past the check
  (`Withheld`). A check keeps this because it sees the older VM, and the oldest VM that
  declares an address reserves it, as no younger one holds it (`OldestWins`,
  `YoungerBlocked`, from the proofs of the rule).
* *ProxmoxLifecycle*, *LibvirtLifecycle*. The abstract `Vanish` needs that nothing is
  held when the machine goes, and `Use` that the machine is there when something is
  made. `Cared` (for libvirt `DomainCared`, and so with the other names) says that
  what is held has a machine under the finalizer, or a pass that finds the machine gone
  and cleans up. To keep it, a pass that makes something must have a machine:
  `Witnessed` carries that from the copy a pass was handed, for a copy under the finalizer is of a machine under the finalizer; `Current` excludes
  that a pass over the previous bearer of a name is still about when the next one has
  the finalizer, and `History` orders object, cache and pass by age. `Removed` is
  what each stage of the removal has seen to. For Proxmox a machine must have one VM
  at most (`Lone`), because the finalizer removes one; for libvirt a domain must have
  an owner exactly while it is there (`DomainStanding`), because everything is found by
  name. All of it is up to `Excused`, which says that resources were left to the
  administrator and, once true, stays so. `InfraMachineProofs` proves what the
  machine reconcilers have in common once, from what a step may do to the object, the cache and the pass.
* *CloudHypervisorLifecycle*, *GuestTpms*. A pass that finds its machine gone takes
  nothing back here, so `GuestCared` is stricter than `Cared`: what is there has a
  machine under the finalizer, with no other excuse. The finalizer removes nothing
  without a recorded guest uid, hence `UidRecorded`: no copy of a machine for which
  something was made is without it, although the status patch writes the guest uid of
  a copy the pass took earlier. `TornDown` is what each stage of the teardown leaves,
  and `MadeBefore` says that nothing is there for a machine nobody has seen. For the
  vTPM `Manufactured` says what the EK files, the only witness of a manufacture, are
  worth: with them there the state is complete, or swtpm_setup still runs, or its
  being stopped is recorded in `loss`, or no copy of the machine is live any more
  (`Leaving`), so that nobody starts a guest on what a teardown stopped half-way.
* *VSphereLifecycle*, *VSphereSpared*, *VSphereRecordedIsOwn*. Here a pass decides from
  the live machine (`live_base`), so the invariant says nothing of the cache; instead
  `Followed` says that, as a pass writes to the machine last and nobody else writes a
  `vmRef`, the machine still records what the pass read. The folder itself holds at most one VM
  of the name (`OneVm`), so the VM found after a clone is the clone or one below the
  folder, which `loss` then says (`Own`, `Mistaken`), and otherwise with the recorded one
  goes all that is held (`Removed`). `Tracked` says that a
  pass in which nothing failed knows every clone of its machine, `Cared` that what is held has a machine under the finalizer or a
  pass that will find the machine gone and destroys its clone, and `Late` that a clone
  whose task outlives its pass comes for a machine under the finalizer or is excused.
  What a pass destroys is then its own clone (`OwnRef`) or one with its marker.
* *EveryLifecycle*, *EveryForeignSpared*, *EveryRecordedSpared*, *EveryOwnOnly*. A
  behaviour of `MCMachines` follows one provider for good. `FollowedInv` is the
  invariant of that one: those of libvirt and Cloud Hypervisor from this module, those
  of vSphere and Proxmox from instances of their proof modules (`VX`, `PX`), which
  `VSphereSame` and `ProxmoxSame` show to speak of the behaviours of `V` and `P`. The
  step lemmas of the four then give the steps of the whole (`FollowedRefines`,
  `FollowedSpares`).
* *ProxmoxForeignSpared*. `Marked`: the VM a pass configures, starts, stops or deletes,
  if it is there and did not get its VMID under the pass, carries the marker of the
  pass's machine. It was read before, or written by the clone, and no step changes the
  marker of a VM.
* *UidsNeverShared*, *UnitsSpared*. A uid is given out from a list taken earlier and a
  ledger in memory. Neither alone is enough: the list misses what was recorded since,
  the ledger what was given out before the last crash. `Listed` says that between them
  they miss nothing: what another machine recorded and the list does not show is in the
  ledger still. `GivenOnce` keeps the ledger free of doubles, and `Remembered` says that
  a machine whose uid the ledger forgot is one the store shows with it, so that it is
  not given another. A unit then runs under its machine's uid, and a removal that runs
  over a machine still there stops what has that machine's uid; one over a machine that
  is gone is the exception `UnitStays` makes.
* *PublishedBuilds*. A pass looks at the OSArtifact once and reports much later.
  `SameArtifact`: only a pass makes one, and passes of an image do not overlap, so what
  is there is what the pass saw, or nothing. `Gated` is what the gate let through: the
  reference and the owner of the image it works on. `ReportedBuild` carries that to the
  status, from the moment a build begins (`ghost` remembers for what), and `Pushed` to
  the Jobs, each of which is owned by one build. `VolumeOwned`: the volume is of the
  OSArtifact that is there, since one that is made because none was there waits until
  there is no volume either.
* *ReleasedThenGone*. `Stopped`: from the first step of the release on, wherever it is
  visible (pass, image, store), the unit is gone and the store does not show the image
  live, so that no pass can start another. `Lagging` and `Unreported` say what a late
  store may still show, and which images were deleted before the host said anything.
* *VolumesEverywhere*. `PoolsReported`: while every zone is ready, each pool the pass is
  done with has the volume; `Uploaded`: a Job that succeeded, or a pod that outlived
  its Job, left one there.
* *TemplatesGoFirst*. Workloads finalize from copies of the image they took at
  different times. `Agrees` is why one finalizer is enough: every copy from after the
  deletion names each template that is still to go (`Owing`), since after the deletion
  a ready row is taken back only with its template, or written again, which the
  property excuses. `Stage` follows one workload: past
  its own cleanup it owes nothing, and about to take the finalizer off it has seen that
  nobody does.

Left to TLC: all liveness (fairness and ENABLED are beyond the prover); the invariants that put several modules
together in one run, but for those of the machines (`AdmissionSound`,
`RecordedWhenCurrent`, `GoesLast`, `PublishedIsBuilt`, `VolumeIsOwn`), whose parts are proved of their modules as far as
the table says; `InUseKept` of `HostImageCache`, where the cache is a sequence that is
filtered, and what a filter keeps takes induction over sequences; `RequestReachesAll`
of `VSphereImage`; and of the services and decisions all but the uids. `PlacementSticks` is only proved.

## What is not modelled

* *I/O and serialization*: SOAP, HTTP, XDR and OCI encodings, TLS, the REST clients
  of Cloud Hypervisor and Proxmox (the wait for a task is in `ProxmoxMachine`).
* *Documents*: cloud-init, ISO 9660, domain XML, systemd units, manifests, PEM,
  cloud-config merging. They have no state; what the control reads of them is a
  value of the models.
* *The image rows of Proxmox* (`reconciler/image.rs`): one check and one status
  apply, with nothing to clean up.
* *Tools and wiring*: VEX tools, the CLI, metrics, events, flags, log lines, messages
  of conditions, leases without a `renewTime`.
* *Two at once*: two leading processes (a finding of `Leader`) under a reconciler, and
  the reconcilers composed with each other. Every module meets the others through an
  environment that does what they may do: members that claims bind and users delete,
  a scheduler that answers anything, infra CRs that come up or hang.

## Plan

In order of how much rides on it:

1. The control logic of the controller, the providers, the images, the operator and
   the installers: built, as above.
2. Proofs. Done: the table above, with the refinement of `MachineLifecycle` by all four
   providers. Next: the services and decisions. The modules of machines, scheduling
   and operator use no RECURSIVE operator for this reason.
3. Compositions: Claim with Pool, to see the double bind from both sides; Leader with a
   machine reconciler, to see which findings two leaders add.
4. The image rows of Proxmox, as a fifth actor of the image runs.
