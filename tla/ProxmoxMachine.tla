--------------------------- MODULE ProxmoxMachine ---------------------------
(***************************************************************************)
(* The ProxmoxMachine reconciler (proxmoxmachine.rs): a VMID is allocated  *)
(* and recorded, the template cloned onto it, the VM configured and        *)
(* started; VM and seed are removed before the machine goes.               *)
(*                                                                         *)
(* A clone carries the uid of its machine in its description from the      *)
(* start, and a pass looks for it before it works on a VM.  It looks once: *)
(* the calls that follow name the VMID, and a VM removed under the pass    *)
(* may have left its VMID to somebody else by then.  nextid reserves       *)
(* nothing either: an id may be taken before the clone is asked for.       *)
(***************************************************************************)
EXTENDS InfraMachine

CONSTANT MaxVMs     \* the VMIDs there are

Vmids == 1..MaxVMs
NoVM == 0
Foreign == 0

vms == backend.vms

\* A VMID is free, or a VM: the uid it is marked with, the version of the spec it
\* was configured for (0: none), and its power.
VmRecords == [at: {"free", "vm"}, uid: Uids \cup {Foreign}, conf: Nat, on: BOOLEAN]

\* A ProxmoxMachine that is to be powered on: generation and what it stands for
\* (version and spec.providerID), and of its status vmid and observedGeneration,
\* with which initialization.provisioned and the Ready condition are written.
Objects == [life: Lives, uid: Uids, fin: BOOLEAN,
            gen: Nat, ver: Nat, pid: Vmids \cup {NoVM},
            ref: Vmids \cup {NoVM}, seen: Nat]

Stages == {"idle", "connect", "finalizer", "allocate", "recordId", "clone", "configure",
           "power", "providerId", "record", "failed", "finVm", "finStop", "finDelete", "finSeed",
           "finRemove"}

\* What a pass knows: the VMID it works on, whether the machine was found gone, and
\* (ghost) whether somebody else took the VMID since its marker was looked at.
Passes == [snap: Objects, vmid: Vmids \cup {NoVM}, gone: BOOLEAN, reused: BOOLEAN]

TypeOK ==
    /\ obj \in Objects /\ cache \in Objects
    /\ backend \in [vms: [Vmids -> VmRecords], seeds: SUBSET Uids] /\ provider \in BOOLEAN
    /\ pc \in Stages /\ pass \in Passes
    /\ loss \subseteq {"forced", "noticed", "namesake"}
    /\ faults \in 0..MaxFaults /\ changes \in 0..MaxChanges

NoObject == [life |-> "absent", uid |-> 1, fin |-> FALSE,
             gen |-> 1, ver |-> 1, pid |-> NoVM,
             ref |-> NoVM, seen |-> 0]
NoPass == [snap |-> NoObject, vmid |-> NoVM, gone |-> FALSE, reused |-> FALSE]
Free == [at |-> "free", uid |-> Foreign, conf |-> 0, on |-> FALSE]
End == EndPass(NoPass)

Init ==
    /\ obj = Created(NoObject, 1) /\ cache = obj
    /\ backend = [vms |-> [v \in Vmids |-> Free], seeds |-> {}]
    /\ provider = TRUE /\ pc = "idle" /\ pass = NoPass
    /\ loss = {} /\ faults = 0 /\ changes = 0

-----------------------------------------------------------------------------
(* The pass.                                                               *)

IsVm(v) == v \in Vmids /\ vms[v].at = "vm"
IsFree(v) == v \in Vmids /\ vms[v].at = "free"

Trigger == StartPass(NoPass, "connect")

\* Provider, credentials and client; without them the pass ends with an error.
Connect ==
    /\ pc = "connect"
    /\ \/ /\ provider /\ UNCHANGED faults
          /\ Goto(IF pass.snap.life = "deleting" THEN "finVm" ELSE "finalizer")
       \/ ~provider /\ End /\ UNCHANGED <<loss, faults>>
       \/ provider /\ Fail /\ End /\ UNCHANGED loss
    /\ UNCHANGED backend /\ KeepApi /\ Keep

AddFinalizer == EnsureFinalizer(NoPass, "allocate")

find_ours_by_record(recorded) == {v \in Vmids : IsVm(v) /\ v = recorded}

\* The recorded VMID if its VM carries our marker, else a VM of the machine's
\* name that does.
find_ours(recorded) ==
    LET ours == {v \in Vmids : IsVm(v) /\ vms[v].uid = pass.snap.uid} IN
    IF recorded \in ours THEN {recorded} ELSE ours

\* Until a pass completed for the current generation.
needs_configure(snap) == snap.seen # snap.gen

next_id_past_the_last == {Cardinality({v \in Vmids : ~IsFree(v)}) + 1}

\* /cluster/nextid: the lowest free one.
next_id == {v \in Vmids : IsFree(v) /\ \A w \in Vmids : IsFree(w) => v <= w}

\* A recorded VMID with nothing at it is used again.
fresh_vmid(recorded) == IF IsFree(recorded) THEN {recorded} ELSE next_id

allocate_vmid ==
    /\ pc = "allocate"
    /\ LET recorded == pass.snap.ref
           ours == find_ours(recorded)
       IN \/ \E v \in ours :
                /\ pc' = IF needs_configure(pass.snap) THEN "configure" ELSE "power"
                /\ pass' = [pass EXCEPT !.vmid = v] /\ UNCHANGED <<loss, faults>>
          \/ /\ ours = {} /\ UNCHANGED <<loss, faults>>
             /\ \E v \in fresh_vmid(recorded) :
                   /\ pc' = IF v = recorded THEN "clone" ELSE "recordId"
                   /\ pass' = [pass EXCEPT !.vmid = v]
          \/ ours = {} /\ fresh_vmid(recorded) = {} /\ Goto("failed") /\ UNCHANGED faults
          \/ Fail /\ Goto("failed")
    /\ UNCHANGED backend /\ KeepApi /\ Keep

ToStage(stage) == pc' = stage /\ UNCHANGED pass

\* The fields of the status, over those the pass started with.
Status(ref, seen) == [obj EXCEPT !.ref = ref, !.seen = seen]

\* A fresh VMID is recorded before the clone.
record_vmid ==
    /\ pc = "recordId"
    /\ PatchMachine(Status(pass.vmid, pass.snap.seen),
                    ToStage("clone"), ToStage("failed"), ToStage("failed"))
    /\ UNCHANGED <<cache, backend>> /\ Keep

Cloned == [at |-> "vm", uid |-> pass.snap.uid, conf |-> 0, on |-> FALSE]

\* The clone is refused when the id was taken.  The wait for its task may give up
\* on a clone that goes on: it holds its VMID and has its description already.
clone_from_template ==
    /\ pc = "clone"
    /\ \/ /\ IsFree(pass.vmid) /\ backend' = [backend EXCEPT !.vms[pass.vmid] = Cloned]
          /\ Goto("configure") /\ UNCHANGED faults
       \/ ~IsFree(pass.vmid) /\ Goto("failed") /\ UNCHANGED <<backend, faults>>
       \/ /\ IsFree(pass.vmid) /\ Fail /\ Goto("failed")
          /\ backend' \in {backend, [backend EXCEPT !.vms[pass.vmid] = Cloned]}
    /\ KeepApi /\ Keep

\* A call that changes the pass's VM; it fails when the VM is not there.
VmCall(stage, made, next) ==
    /\ pc = stage
    /\ \/ IsVm(pass.vmid) /\ backend' = made /\ Goto(next) /\ UNCHANGED faults
       \/ ~IsVm(pass.vmid) /\ Goto("failed") /\ UNCHANGED <<backend, faults>>
       \/ /\ IsVm(pass.vmid) /\ Fail /\ Goto("failed")
          /\ backend' \in {backend, [backend EXCEPT !.seeds = made.seeds], made}
    /\ KeepApi /\ Keep

\* Upload the seed, set the configuration, grow the OS disk.
configure ==
    VmCall("configure",
           [backend EXCEPT !.seeds = @ \cup {pass.snap.uid}, !.vms[pass.vmid].conf = pass.snap.ver],
           "power")

ensure_power == VmCall("power", [backend EXCEPT !.vms[pass.vmid].on = TRUE], "providerId")

\* Gone, VM and seed are removed as the finalizer would.
gone_or(vmid) == pc' = "finVm" /\ pass' = [pass EXCEPT !.vmid = vmid, !.gone = TRUE]

\* spec.providerID names the VMID.  It is part of the spec: its patch is a new
\* generation.
patch_provider_id ==
    /\ pc = "providerId"
    /\ \/ pass.snap.pid = pass.vmid /\ Goto("record") /\ UNCHANGED <<obj, faults>>
       \/ /\ pass.snap.pid # pass.vmid
          /\ PatchMachine([obj EXCEPT !.pid = pass.vmid,
                                      !.gen = IF obj.pid = pass.vmid THEN @ ELSE @ + 1],
                          ToStage("record"), End, gone_or(pass.vmid))
    /\ UNCHANGED <<cache, backend>> /\ Keep

build_status == Status(pass.vmid, pass.snap.gen)

\* Everything the pass started with: a VMID recorded by this pass is taken back.
failure_status == Status(pass.snap.ref, pass.snap.seen)

patch_status ==
    /\ \/ pc = "record" /\ PatchMachine(build_status, End, End, gone_or(pass.vmid))
       \/ pc = "failed" /\ PatchMachine(failure_status, End, End, gone_or(pass.snap.ref))
    /\ UNCHANGED <<cache, backend>> /\ Keep

-----------------------------------------------------------------------------
(* finalize_backend, for a deleted machine and for one that is gone.       *)

\* The VM to remove is looked for as by allocate_vmid: here its marker is read.
finalize_find ==
    /\ pc = "finVm" /\ UNCHANGED <<backend, loss>>
    /\ LET recorded == IF pass.gone THEN pass.vmid ELSE pass.snap.ref
           ours == find_ours(recorded)
       IN \/ \E v \in ours :
                /\ pc' = "finStop" /\ pass' = [pass EXCEPT !.vmid = v, !.reused = FALSE]
                /\ UNCHANGED faults
          \/ ours = {} /\ ToStage("finSeed") /\ UNCHANGED faults
          \/ Fail /\ End
    /\ KeepApi /\ Keep

\* A call of the removal for whatever has the VMID now.  Nothing there is as good as
\* done; a task that is given up on may be carried out.
FinalizeCall(stage, left, next) ==
    LET after == IF IsVm(pass.vmid) THEN left ELSE backend IN
    /\ pc = stage /\ UNCHANGED loss
    /\ \/ backend' = after /\ ToStage(next) /\ UNCHANGED faults
       \/ backend' \in {backend, after} /\ Fail /\ End
    /\ KeepApi /\ Keep

finalize_stop == FinalizeCall("finStop", [backend EXCEPT !.vms[pass.vmid].on = FALSE], "finDelete")

finalize_delete == FinalizeCall("finDelete", [backend EXCEPT !.vms[pass.vmid] = Free], "finSeed")

finalize_seed_skipped ==
    /\ pc = "finSeed"
    /\ IF pass.gone THEN End ELSE ToStage("finRemove")
    /\ UNCHANGED <<backend, loss, faults>> /\ KeepApi /\ Keep

finalize_seed ==
    /\ pc = "finSeed"
    /\ \/ /\ backend' = [backend EXCEPT !.seeds = @ \ {pass.snap.uid}] /\ UNCHANGED faults
          /\ IF pass.gone THEN End ELSE ToStage("finRemove")
       \/ Fail /\ End /\ UNCHANGED backend
    /\ UNCHANGED loss /\ KeepApi /\ Keep

DropFinalizer == RemoveFinalizer(NoPass)

-----------------------------------------------------------------------------
(* Everybody else.                                                         *)

Stop == Crash(NoPass)

CreateAgain == Create(NoObject)

TakeFinalizerOff ==
    RemoveByHand({"clone", "configure", "power", "providerId", "record", "failed"})

Edit ==
    /\ Change /\ obj.life = "live"
    /\ obj' = [obj EXCEPT !.ver = @ + 1, !.gen = @ + 1]
    /\ UNCHANGED <<backend, provider, loss>> /\ OnlyWorld

\* The stages that name the VMID of a VM whose marker the pass has read or written.
Trusting == {"configure", "power", "finStop", "finDelete"}

\* Somebody takes the next VMID, also one that became free under a pass.  An
\* administrator removes our VM, once recorded.
ForeignVm ==
    /\ Change
    /\ \E v \in next_id :
          /\ backend' = [backend EXCEPT !.vms[v] = [Free EXCEPT !.at = "vm"]]
          /\ pass' = [pass EXCEPT !.reused = @ \/ (v = pass.vmid /\ pc \in Trusting)]
    /\ UNCHANGED <<obj, cache, provider, pc, loss, faults>>

LoseVm ==
    /\ Change /\ IsVm(obj.ref) /\ vms[obj.ref].uid = obj.uid
    /\ backend' = [backend EXCEPT !.vms[obj.ref] = Free]
    /\ UNCHANGED <<obj, provider, loss>> /\ OnlyWorld

Pass ==
    \/ Connect \/ AddFinalizer \/ allocate_vmid \/ record_vmid \/ clone_from_template
    \/ configure \/ ensure_power \/ patch_provider_id \/ patch_status
    \/ finalize_find \/ finalize_stop \/ finalize_delete \/ finalize_seed \/ DropFinalizer

World == CreateAgain \/ Delete \/ TakeFinalizerOff \/ Edit \/ ForeignVm \/ LoseVm \/ ProviderChange

Next == Trigger \/ Pass \/ Stop \/ Sync \/ World

\* As for every reconciler: passes are run again and again, calls are answered,
\* watch events arrive.
Fairness == WF_vars(Trigger) /\ WF_vars(Pass) /\ WF_vars(Sync)

Spec == Init /\ [][Next]_vars /\ Fairness
-----------------------------------------------------------------------------
(* Properties.                                                             *)

Resources == ({"vm"} \X Vmids) \cup ({"seed"} \X Uids)

Held(u) ==
    ({"vm"} \X {v \in Vmids : IsVm(v) /\ vms[v].uid = u}) \cup ({"seed"} \X (backend.seeds \cap {u}))

Holdings == [u \in Uids |-> IF Excused THEN {} ELSE Held(u)]

\* A VM without a marker is not changed, whatever its name and whatever VMID is
\* recorded; except the one that took the VMID a pass works on after the pass looked
\* at the marker there.
ForeignKept ==
    \A v \in Vmids : IsVm(v) /\ vms[v].uid = Foreign =>
        vms'[v] = vms[v] \/ (v = pass.vmid /\ pass.reused)

Stays == provider

\* The machine's VM runs, unless no VMID is left for it.
Served(u) ==
    \/ IsVm(obj.ref) /\ vms[obj.ref].uid = u /\ vms[obj.ref].on
    \/ \A v \in Vmids : vms[v].uid = u \/ ~IsFree(v)

\* A pass that reports the machine ready has a VM that was configured ("does not
\* advance observedGeneration, so the next pass reconfigures").  Not so: README,
\* "Where the code and its documents part".
ReadyIsConfigured ==
    [][pc = "record" /\ obj' # obj /\ IsVm(pass.vmid)
          => vms[pass.vmid].conf = pass.snap.ver]_vars
=============================================================================
