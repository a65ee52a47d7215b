--------------------------- MODULE VSphereMachine ---------------------------
(***************************************************************************)
(* The VSphereMachine reconciler (vspheremachine.rs): clone a VM for a     *)
(* machine, record it, adopt or report it when it goes missing, and        *)
(* destroy it before the machine goes.                                     *)
(*                                                                         *)
(* One machine name, deleted and created again under new uids.  A VM has   *)
(* the machine's name and carries the uid it was cloned for (the marker    *)
(* in its extraConfig); Foreign VMs of that name carry none of ours, and   *)
(* are in the machine's folder or in one below it.                         *)
(* Every read of the API server and call of vCenter is a step of its own;  *)
(* a pass may fail, or its process stop, at any of them.                   *)
(***************************************************************************)
EXTENDS InfraMachine

CONSTANT MaxVMs     \* how many VMs of the name there ever are

Foreign == 0
Morefs == 1..MaxVMs
NoVM == 0

\* The VMs of the machine's name, and the uids whose CloneVM_Task outlived the
\* pass that submitted it.
vms == backend.vms
late == backend.late

\* at: "unused" (the moref was never given out), in the machine's "folder",
\* "below" it, or "gone".
VmRecords == [at: {"unused", "folder", "below", "gone"}, uid: Uids \cup {Foreign}]

\* Of a VSphereMachine: its identity, the finalizer, and of its status
\* initialization.provisioned, vmRef and the Ready condition.
Objects == [life: Lives, uid: Uids, fin: BOOLEAN,
            prov: BOOLEAN, ref: Morefs \cup {NoVM}, ready: BOOLEAN]

Stages == {"idle", "read", "finalizer", "connect", "search", "reclaim", "clone",
           "lookup", "finish", "rollback", "record", "failed", "compensate",
           "observe", "adopt", "adopting", "observed",
           "finProvider", "finVm", "finSearch", "finClean", "finRemove"}

TypeOK ==
    /\ obj \in Objects /\ cache \in Objects
    /\ backend \in [vms: [Morefs -> VmRecords], late: SUBSET Uids] /\ provider \in BOOLEAN
    /\ pc \in Stages
    /\ pass \in [snap: Objects, ref: Morefs \cup {NoVM}, todo: SUBSET Morefs, made: BOOLEAN]
    /\ loss \subseteq {"provider", "late", "forced", "noticed", "namesake", "moved", "mistaken"}
    /\ faults \in 0..MaxFaults /\ changes \in 0..MaxChanges

NoObject == [life |-> "absent", uid |-> 1, fin |-> FALSE, prov |-> FALSE,
             ref |-> NoVM, ready |-> FALSE]
NoPass == [snap |-> NoObject, ref |-> NoVM, todo |-> {}, made |-> FALSE]
End == EndPass(NoPass)

Init ==
    /\ obj = Created(NoObject, 1) /\ cache = obj
    /\ backend = [vms |-> [m \in Morefs |-> [at |-> "unused", uid |-> Foreign]], late |-> {}]
    /\ provider = TRUE /\ pc = "idle" /\ pass = NoPass
    /\ loss = {} /\ faults = 0 /\ changes = 0

-----------------------------------------------------------------------------
(* vCenter, as client/vim.rs uses it.                                      *)

There(m) == vms[m].at \in {"folder", "below"}

\* The children of the machine's folder that have its name; vCenter keeps
\* names unique within a folder.
find_vms_named == {m \in Morefs : vms[m].at = "folder"}

\* The VMs of the name anywhere below the folder: the first one found counts.
find_vm_moref_by_name == {m \in Morefs : There(m)}

\* A VM that is not there any more counts as destroyed.
destroy_vm(m) == backend' = IF There(m) THEN [backend EXCEPT !.vms[m].at = "gone"] ELSE backend

Unused == \E m \in Morefs : vms[m].at = "unused"
NewMoref == CHOOSE m \in Morefs : vms[m].at = "unused"
CanAdd == find_vms_named = {} /\ Unused

AddVm(b, where, u) == [b EXCEPT !.vms[NewMoref] = [at |-> where, uid |-> u]]

-----------------------------------------------------------------------------
(* The pass.                                                               *)

Trigger == StartPass(NoPass, "read")

live_base_from_cache(cached, live) == cached

\* The object to decide from: the live one, unless it is gone or another.
live_base(cached, live) ==
    IF live.life = "absent" \/ live.uid # cached.uid THEN NoObject ELSE live

Read ==
    /\ pc = "read"
    /\ LET base == live_base(pass.snap, obj) IN
       \/ /\ UNCHANGED faults
          /\ IF base.life = "absent" THEN End
             ELSE /\ pc' = IF base.life = "deleting" THEN "finProvider" ELSE "finalizer"
                  /\ pass' = [pass EXCEPT !.snap = base]
       \/ Fail /\ End
    /\ UNCHANGED <<loss, backend>> /\ KeepApi /\ Keep

AddFinalizer == EnsureFinalizer(NoPass, "connect")

\* Which way a pass goes with a client: a provisioned machine is only
\* observed; one that has a vmRef is not cloned again.
route(snap) == IF snap.prov THEN "observe" ELSE IF snap.ref # NoVM THEN "record" ELSE "search"

\* Read the Provider, its credentials and CA bundle, and connect.
Connect ==
    /\ pc = "connect"
    /\ \/ /\ provider
          /\ pc' = route(pass.snap) /\ pass' = [pass EXCEPT !.ref = pass.snap.ref]
          /\ UNCHANGED faults
       \/ ~provider /\ pc' = "failed" /\ UNCHANGED <<pass, faults>>
       \/ provider /\ Fail /\ pc' = "failed" /\ UNCHANGED pass
    /\ UNCHANGED <<loss, backend>> /\ KeepApi /\ Keep

Search ==
    /\ pc = "search"
    /\ \/ /\ pc' = "reclaim" /\ pass' = [pass EXCEPT !.todo = find_vms_named, !.made = TRUE]
          /\ UNCHANGED faults
       \/ Fail /\ pc' = "failed" /\ pass' = [pass EXCEPT !.made = TRUE]
    /\ UNCHANGED <<loss, backend>> /\ KeepApi /\ Keep

IsOwn(m) == vms[m].uid = pass.snap.uid

reclaim_by_name ==
    /\ pc = "reclaim"
    /\ \/ pass.todo = {} /\ Goto("clone") /\ UNCHANGED backend
       \/ \E m \in pass.todo :
             /\ destroy_vm(m)
             /\ pass' = [pass EXCEPT !.todo = @ \ {m}] /\ UNCHANGED <<pc, loss>>
    /\ UNCHANGED faults /\ KeepApi /\ Keep

reclaim_nothing ==
    /\ pc = "reclaim"
    /\ Goto(IF pass.todo = {} THEN "clone" ELSE "failed")
    /\ UNCHANGED <<backend, faults>> /\ KeepApi /\ Keep

\* A VM of the name that is ours is a clone some pass lost, and is destroyed;
\* another is somebody else's, and ends the pass.
reclaim_or_refuse ==
    /\ pc = "reclaim"
    /\ \/ pass.todo = {} /\ Goto("clone") /\ UNCHANGED <<backend, faults>>
       \/ \E m \in pass.todo :
             ~IsOwn(m) /\ Goto("failed") /\ UNCHANGED <<backend, faults>>
       \/ \E m \in pass.todo :
             /\ IsOwn(m) /\ destroy_vm(m)
             /\ pass' = [pass EXCEPT !.todo = @ \ {m}] /\ UNCHANGED <<pc, loss, faults>>
       \/ Fail /\ Goto("failed") /\ UNCHANGED backend
    /\ KeepApi /\ Keep

\* Resolve cluster, template, datastore and networks, then CloneVM_Task with
\* the marker in the CloneSpec.  The wait for the task may give up on it.
clone_vm ==
    /\ pc = "clone"
    /\ \/ /\ CanAdd /\ backend' = AddVm(backend, "folder", pass.snap.uid)
          /\ Goto("lookup") /\ UNCHANGED faults
       \/ ~CanAdd /\ Goto("failed") /\ UNCHANGED <<backend, faults>>
       \/ Fail /\ Goto("failed") /\ UNCHANGED backend
       \/ Fail /\ Goto("failed") /\ backend' = [backend EXCEPT !.late = @ \cup {pass.snap.uid}]
    /\ KeepApi /\ Keep

\* The clone's moref is looked up by name, in the folder and below: the VM of
\* somebody else may be taken for the clone.
Lookup ==
    /\ pc = "lookup"
    /\ \/ \E m \in find_vm_moref_by_name :
             /\ pc' = "finish" /\ pass' = [pass EXCEPT !.ref = m] /\ UNCHANGED faults
             /\ loss' = loss \cup IF IsOwn(m) THEN {} ELSE {"mistaken"}
       \/ find_vm_moref_by_name = {} /\ Goto("failed") /\ UNCHANGED faults
       \/ Fail /\ Goto("failed")
    /\ UNCHANGED backend /\ KeepApi /\ Keep

\* Attributes, disk, vTPM and power: they succeed as one, or the clone goes.
finish_clone ==
    /\ pc = "finish"
    /\ \/ Goto(IF There(pass.ref) THEN "record" ELSE "rollback") /\ UNCHANGED faults
       \/ Fail /\ Goto("rollback")
    /\ UNCHANGED backend /\ KeepApi /\ Keep

roll_back_clone ==
    /\ pc = "rollback"
    /\ \/ destroy_vm(pass.ref) /\ UNCHANGED faults
       \/ Fail /\ UNCHANGED backend
    /\ pc' = "failed" /\ pass' = [pass EXCEPT !.ref = NoVM] /\ UNCHANGED loss
    /\ KeepApi /\ Keep

Patch(written, onGone) == PatchMachine(written, End, End, onGone) /\ UNCHANGED <<cache, backend>> /\ Keep

Compensate == pc' = "compensate" /\ UNCHANGED pass

patch_status_success ==
    /\ pc = "record"
    /\ Patch([obj EXCEPT !.prov = TRUE, !.ref = pass.ref, !.ready = TRUE], Compensate)

\* The whole status the pass started from, with Ready=False.  Gone, what the
\* pass started from is destroyed, if it got as far as ensure_vm.
patch_status_failed ==
    /\ pc = "failed"
    /\ Patch([obj EXCEPT !.prov = pass.snap.prov, !.ref = pass.snap.ref, !.ready = FALSE],
             IF pass.made THEN pc' = "compensate" /\ pass' = [pass EXCEPT !.ref = pass.snap.ref]
                          ELSE End)

\* Nobody comes back to a machine that is gone: a failed destroy leaves the VM.
compensate_gone ==
    /\ pc = "compensate"
    /\ \/ /\ IF pass.ref = NoVM THEN UNCHANGED backend ELSE destroy_vm(pass.ref)
          /\ UNCHANGED faults
       \/ pass.ref # NoVM /\ Fail /\ UNCHANGED backend
    /\ End /\ UNCHANGED loss /\ KeepApi /\ Keep

-----------------------------------------------------------------------------
(* A provisioned machine: refresh_power_state.                             *)

\* The power state read tells whether the recorded VM is there.
refresh_power_state ==
    /\ pc = "observe"
    /\ \/ /\ Goto(IF pass.ref = NoVM THEN "failed" ELSE IF There(pass.ref) THEN "observed" ELSE "adopt")
          /\ UNCHANGED faults
       \/ Fail /\ End /\ UNCHANGED loss
    /\ UNCHANGED backend /\ KeepApi /\ Keep

status_with_observed_state ==
    /\ pc = "observed"
    /\ Patch([obj EXCEPT !.prov = pass.snap.prov, !.ref = pass.snap.ref, !.ready = TRUE], End)

OwnClones_by_name == find_vms_named

\* Of the VMs of the name, the one that carries our marker takes the place of
\* the recorded one.  A failed lookup adopts none.
OwnClones == {m \in find_vms_named : IsOwn(m)}

find_own_clone ==
    /\ pc = "adopt"
    /\ \/ \E m \in OwnClones :
             /\ OwnClones = {m} /\ m # pass.ref
             /\ pc' = "adopting" /\ pass' = [pass EXCEPT !.ref = m] /\ UNCHANGED faults
       \/ (\A m \in OwnClones : OwnClones # {m}) /\ pc' = "failed" /\ UNCHANGED <<pass, faults>>
       \/ Fail /\ pc' = "failed" /\ UNCHANGED pass
    /\ UNCHANGED <<loss, backend>> /\ KeepApi /\ Keep

status_adopting ==
    /\ pc = "adopting"
    /\ Patch([obj EXCEPT !.prov = pass.snap.prov, !.ref = pass.ref, !.ready = pass.snap.ready], End)

-----------------------------------------------------------------------------
(* A deleted machine: finalize.                                            *)

\* Without the Provider there is no vCenter to ask: a machine with no vmRef
\* goes, one with a vmRef waits.
finalize ==
    /\ pc = "finProvider"
    /\ \/ /\ provider /\ UNCHANGED <<loss, faults>>
          /\ pc' = IF pass.snap.ref # NoVM THEN "finVm" ELSE "finSearch"
          /\ pass' = [pass EXCEPT !.ref = pass.snap.ref]
       \/ /\ ~provider /\ pass.snap.ref = NoVM /\ pc' = "finRemove"
          /\ loss' = loss \cup {"provider"} /\ UNCHANGED <<pass, faults>>
       \/ ~provider /\ pass.snap.ref # NoVM /\ End /\ UNCHANGED <<loss, faults>>
       \/ Fail /\ End /\ UNCHANGED loss
    /\ UNCHANGED backend /\ KeepApi /\ Keep

finalize_vm_must_be_there ==
    /\ pc = "finVm"
    /\ \/ /\ There(pass.ref) /\ destroy_vm(pass.ref) /\ Goto("finRemove") /\ UNCHANGED faults
       \/ ~There(pass.ref) /\ End /\ UNCHANGED <<backend, loss, faults>>
    /\ KeepApi /\ Keep

\* Only the recorded VM is destroyed, also when it is not there any more and
\* another carries the marker.
finalize_vm ==
    /\ pc = "finVm"
    /\ \/ /\ destroy_vm(pass.ref) /\ pc' = "finRemove" /\ UNCHANGED <<pass, faults>>
          /\ loss' = loss \cup IF There(pass.ref) THEN {} ELSE {"moved"}
       \/ Fail /\ End /\ UNCHANGED <<backend, loss>>
    /\ KeepApi /\ Keep

FinalizeSearch ==
    /\ pc = "finSearch"
    /\ \/ /\ pc' = "finClean" /\ pass' = [pass EXCEPT !.todo = find_vms_named]
          /\ UNCHANGED faults
       \/ Fail /\ End
    /\ UNCHANGED <<loss, backend>> /\ KeepApi /\ Keep

finalize_unrecorded_skipped ==
    /\ pc = "finClean" /\ Goto("finRemove")
    /\ UNCHANGED <<backend, faults>> /\ KeepApi /\ Keep

\* Of the VMs of the name, ours are destroyed and others left.
finalize_unrecorded ==
    /\ pc = "finClean"
    /\ \/ pass.todo = {} /\ Goto("finRemove") /\ UNCHANGED <<backend, faults>>
       \/ \E m \in pass.todo :
             /\ IF IsOwn(m) THEN destroy_vm(m) ELSE UNCHANGED backend
             /\ pass' = [pass EXCEPT !.todo = @ \ {m}] /\ UNCHANGED <<pc, loss, faults>>
       \/ Fail /\ End /\ UNCHANGED <<backend, loss>>
    /\ KeepApi /\ Keep

DropFinalizer == RemoveFinalizer(NoPass)

-----------------------------------------------------------------------------
(* Everybody else.                                                         *)

Stop == Crash(NoPass)

\* A clone that was given up on finishes after all, or fails.
LateClone ==
    /\ \E u \in late :
          LET settled == [backend EXCEPT !.late = @ \ {u}] IN
          \/ /\ CanAdd /\ backend' = AddVm(settled, "folder", u)
             /\ loss' = loss \cup IF obj.life # "live" \/ obj.uid # u THEN {"late"} ELSE {}
          \/ backend' = settled /\ UNCHANGED loss
    /\ KeepApi /\ UNCHANGED <<pc, pass, faults>> /\ Keep

CreateAgain == Create(NoObject)

TakeFinalizerOff == RemoveByHand({"clone", "lookup", "finish", "record"})

\* Somebody else's VM of the machine's name, in its folder or in one below.
ForeignVm ==
    /\ Change /\ Unused
    /\ \/ CanAdd /\ backend' = AddVm(backend, "folder", Foreign)
       \/ backend' = AddVm(backend, "below", Foreign)
    /\ UNCHANGED <<obj, provider, loss>> /\ OnlyWorld

\* An administrator removes a VM from the inventory, and perhaps registers it
\* again: it keeps its marker and gets another moref.  A clone that no status
\* records yet is left alone.
Unregister ==
    /\ Change
    /\ \E m \in Morefs :
          /\ There(m) /\ (m = obj.ref \/ vms[m].uid = Foreign)
          /\ \/ backend' = [backend EXCEPT !.vms[m].at = "gone"]
             \/ Unused /\ backend' = [backend EXCEPT !.vms[m].at = "gone", !.vms[NewMoref] = vms[m]]
    /\ UNCHANGED <<obj, provider, loss>> /\ OnlyWorld

Pass ==
    \/ Read \/ AddFinalizer \/ Connect \/ Search \/ reclaim_or_refuse \/ clone_vm
    \/ Lookup \/ finish_clone \/ roll_back_clone \/ patch_status_success
    \/ patch_status_failed \/ compensate_gone
    \/ refresh_power_state \/ status_with_observed_state \/ find_own_clone \/ status_adopting
    \/ finalize \/ finalize_vm \/ FinalizeSearch \/ finalize_unrecorded \/ DropFinalizer

World == CreateAgain \/ Delete \/ TakeFinalizerOff \/ ForeignVm \/ Unregister \/ ProviderChange

Next == Trigger \/ Pass \/ Stop \/ Sync \/ LateClone \/ World

\* The controller runs passes again and again (every machine is requeued) and
\* each of its calls is answered; watch events arrive.
Fairness == WF_vars(Trigger) /\ WF_vars(Pass) /\ WF_vars(Sync)

Spec == Init /\ [][Next]_vars /\ Fairness
-----------------------------------------------------------------------------
(* Properties.                                                             *)

OwnVMs(u) == {m \in Morefs : There(m) /\ vms[m].uid = u}

\* Clones that are not left to the administrator.  They are left when the Provider
\* was removed first, a finalizer was taken off by hand, a clone outlives its pass
\* and its machine, the VM was registered anew and not seen again before the
\* deletion, the machine was created again within a pass, or somebody else's VM was
\* taken for the clone.
Holdings == [u \in Uids |-> IF Excused THEN {} ELSE {"vm"} \X OwnVMs(u)]

Resources == {"vm"} \X Morefs

\* Somebody else's VM, from below the machine's folder, was taken for its clone.
Mistaken(m) == "mistaken" \in loss /\ vms[m].uid = Foreign /\ vms[m].at # "folder"

\* No VM without a marker goes, but one that the pass takes for the machine's.
ForeignKept ==
    \A m \in Morefs : vms[m].uid = Foreign /\ There(m) =>
        There(m)' \/ (Mistaken(m) /\ m = pass.ref)

\* The VM a live machine records does not go.
RecordedKept ==
    \A m \in Morefs : obj.life = "live" /\ obj.ref = m /\ There(m) => There(m)'

\* What a machine records is its own clone, also after it adopted one: status is
\* written by name, and adopted by marker.  Not so when the lookup after the clone
\* took another's VM below the folder for it.
RecordedIsOwn ==
    "namesake" \notin loss /\ obj.life # "absent" /\ obj.ref # NoVM
        => vms[obj.ref].uid = obj.uid \/ Mistaken(obj.ref)

Stays == provider

\* The machine has its VM, or its name is taken, or no VM can be made; a VM
\* registered anew is found by its marker.
Served(u) ==
    \/ obj.ref # NoVM /\ There(obj.ref)
    \/ \E m \in find_vms_named : vms[m].uid # u
    \/ ~obj.prov /\ ~Unused
    \/ obj.prov /\ find_vms_named = {}
=============================================================================
