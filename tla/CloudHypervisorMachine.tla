----------------------- MODULE CloudHypervisorMachine -----------------------
(***************************************************************************)
(* The CloudHypervisorMachine reconciler (reconciler.rs, machine.rs,       *)
(* hostfs.rs): files, a vTPM and a VMM for a machine on one host.          *)
(*                                                                         *)
(* The files are named after the machine's uid; the systemd units and the  *)
(* state of the vTPM after the guest uid of the host, which the next       *)
(* machine gets again.  One guest uid is modelled here (its allocation is  *)
(* in HostUids).  A pass advances the machine by one unit and comes back.  *)
(* The vTPM is made by swtpm_setup in a unit of its own, which writes the  *)
(* endorsement key (EK) files before it saves the state.                   *)
(***************************************************************************)
EXTENDS InfraMachine

NoOwner == 0
Owners == Uids \cup {NoOwner}

\* A CloudHypervisorMachine: whether its spec can be planned, its power state,
\* and of its status hostUid and the Ready condition.
Objects == [life: Lives, uid: Uids, fin: BOOLEAN, plans: BOOLEAN, on: BOOLEAN,
            huid: BOOLEAN, ready: BOOLEAN]

\* files and EK files by uid; of the guest uid's units whom they run for, and
\* what the vTPM state is: a VMM is up before its guest runs.
Hosts == [files: SUBSET Uids, ek: SUBSET Uids,
          tpm: [uid: Owners, full: BOOLEAN],
          setup: {"none", "running", "failed"},
          swtpm: [uid: Owners, st: {"none", "run", "failed"}],
          vmm: [uid: Owners, st: {"none", "up", "run", "failed"}]]

Stages == {"idle", "finalizer", "hostUid", "prepare", "tpm", "vmm", "boot", "powerOff",
           "stopTpm", "record", "failed", "finalize", "teardownTpm", "teardownFiles", "finRemove"}

TypeOK ==
    /\ obj \in Objects /\ cache \in Objects
    /\ backend \in Hosts /\ provider \in BOOLEAN
    /\ pc \in Stages /\ pass \in [snap: Objects, running: BOOLEAN]
    /\ loss \subseteq {"forced", "namesake", "unplanned", "setup"}
    /\ faults \in 0..MaxFaults /\ changes \in 0..MaxChanges

NoObject == [life |-> "absent", uid |-> 1, fin |-> FALSE, plans |-> TRUE, on |-> TRUE,
             huid |-> FALSE, ready |-> FALSE]
NoPass == [snap |-> NoObject, running |-> FALSE]
NoUnit == [uid |-> NoOwner, st |-> "none"]
NoTpm == [uid |-> NoOwner, full |-> FALSE]
End == EndPass(NoPass)

Init ==
    /\ obj = Created(NoObject, 1) /\ cache = obj
    /\ backend = [files |-> {}, ek |-> {}, tpm |-> NoTpm, setup |-> "none",
                  swtpm |-> NoUnit, vmm |-> NoUnit]
    /\ provider = TRUE /\ pc = "idle" /\ pass = NoPass
    /\ loss = {} /\ faults = 0 /\ changes = 0

Unit(st) == [uid |-> pass.snap.uid, st |-> st]

Setup == backend.tpm.uid

\* swtpm_setup is stopped after the EK files were written and before the state.
HalfMade == IF backend.setup = "running" /\ Setup \in backend.ek THEN {"setup"} ELSE {}

-----------------------------------------------------------------------------
(* The pass.                                                               *)

Trigger == StartPass(NoPass, IF cache.life = "deleting" THEN "finalize" ELSE "finalizer")

AddFinalizer == EnsureFinalizer(NoPass, "hostUid")

ToStage(stage) == pc' = stage /\ UNCHANGED pass

\* The guest uid is recorded before anything is made for it; the pass ends there.
\* A spec that cannot be planned is reported.
reconcile ==
    /\ pc = "hostUid"
    /\ \/ /\ ~pass.snap.huid
          /\ PatchMachine([obj EXCEPT !.huid = TRUE], End, End, End)
       \/ /\ pass.snap.huid
          /\ Goto(IF ~pass.snap.plans THEN "failed"
                  ELSE IF pass.snap.on THEN "prepare" ELSE "powerOff")
          /\ UNCHANGED <<obj, faults>>
    /\ UNCHANGED <<cache, backend>> /\ Keep

\* A call of the host.
CallLosing(lost, made, next) ==
    /\ \/ backend' = made /\ pc' = next /\ UNCHANGED faults
       \/ Fail /\ pc' = "failed" /\ backend' \in {backend, made}
    /\ loss' = loss \cup lost /\ UNCHANGED pass /\ KeepApi /\ Keep

Call(made, next) == CallLosing({}, made, next)

\* Directories, disk, install medium, seed and taps: what is there is kept.
prepare_dirs ==
    pc = "prepare" /\ Call([backend EXCEPT !.files = @ \cup {pass.snap.uid}], "tpm")

\* Some EK file of the machine is there.
tpm_manufactured == pass.snap.uid \in backend.ek

\* One step of the vTPM per pass.  What is in the state directory before the
\* manufacture is of no TPM of this machine.
ensure_tpm ==
    /\ pc = "tpm"
    /\ \/ /\ ~tpm_manufactured /\ backend.setup = "failed" /\ Call(backend, "failed")
       \/ ~tpm_manufactured /\ backend.setup = "running" /\ Call(backend, "record")
       \/ /\ ~tpm_manufactured /\ backend.setup = "none"
          /\ Call([backend EXCEPT !.tpm = [uid |-> pass.snap.uid, full |-> FALSE],
                                  !.setup = "running"], "record")
       \/ tpm_manufactured /\ backend.setup = "running" /\ Call(backend, "record")
       \/ /\ tpm_manufactured /\ backend.setup # "running"
          /\ \/ backend.swtpm.st = "run" /\ Call(backend, "vmm")
             \/ /\ backend.swtpm.st = "failed"
                /\ Call([backend EXCEPT !.swtpm = NoUnit], "failed")
             \/ /\ backend.swtpm.st = "none" /\ backend.tpm.uid # NoOwner
                /\ Call([backend EXCEPT !.swtpm = Unit("run")], "record")
             \/ backend.swtpm.st = "none" /\ backend.tpm.uid = NoOwner /\ Call(backend, "failed")

\* A unit that failed is cleared and reported, one that is not there started.
start_vmm ==
    /\ pc = "vmm"
    /\ \/ backend.vmm.st = "none" /\ Call([backend EXCEPT !.vmm = Unit("up")], "record")
       \/ backend.vmm.st = "failed" /\ Call([backend EXCEPT !.vmm = NoUnit], "failed")
       \/ backend.vmm.st \in {"up", "run"} /\ Call(backend, "boot")

\* Create and boot the VM through the VMM's API, and observe the guest.
boot ==
    /\ pc = "boot"
    /\ \/ /\ backend.vmm.st \in {"up", "run"} /\ UNCHANGED <<loss, faults>>
          /\ backend' = [backend EXCEPT !.vmm.st = "run"]
          /\ pc' = "record" /\ pass' = [pass EXCEPT !.running = TRUE]
       \/ (backend.vmm.st \notin {"up", "run"}) /\ Goto("failed") /\ UNCHANGED <<backend, faults>>
       \/ Fail /\ Goto("failed") /\ UNCHANGED backend
    /\ KeepApi /\ Keep

\* A running guest has its power button pressed; a VMM without one is stopped,
\* and after it the vTPM.
power_off ==
    \/ /\ pc = "powerOff"
       /\ \/ backend.vmm.st = "run" /\ Call(backend, "record")
          \/ backend.vmm.st # "run" /\ Call([backend EXCEPT !.vmm = NoUnit], "stopTpm")
    \/ /\ pc = "stopTpm"
       /\ CallLosing(HalfMade, [backend EXCEPT !.swtpm = NoUnit, !.setup = "none"], "record")

\* A machine that is gone ends the pass: nothing is taken back.
patch_status ==
    /\ \/ /\ pc = "record"
          /\ PatchMachine([obj EXCEPT !.huid = pass.snap.huid, !.ready = pass.running], End, End, End)
       \/ /\ pc = "failed"
          /\ PatchMachine([obj EXCEPT !.huid = pass.snap.huid, !.ready = FALSE], End, End, End)
    /\ UNCHANGED <<cache, backend>> /\ Keep

-----------------------------------------------------------------------------
(* A deleted machine.                                                      *)

\* A call of the teardown that fails ends the pass.
Clean(left, next) ==
    /\ \/ backend' = left /\ UNCHANGED <<pass, faults>> /\ pc' = next
       \/ Fail /\ End /\ backend' \in {backend, left}
    /\ KeepApi /\ Keep

\* Without a recorded guest uid nothing was made.  Of a spec that cannot be
\* planned any more only the VMM is stopped.
finalize ==
    /\ pc = "finalize"
    /\ \/ ~pass.snap.huid /\ Clean(backend, "finRemove") /\ UNCHANGED loss
       \/ /\ pass.snap.huid /\ pass.snap.plans
          /\ Clean([backend EXCEPT !.vmm = NoUnit], "teardownTpm") /\ UNCHANGED loss
       \/ /\ pass.snap.huid /\ ~pass.snap.plans
          /\ Clean([backend EXCEPT !.vmm = NoUnit], "finRemove")
          /\ loss' = loss \cup {"unplanned"}

teardown_keeps_state ==
    \/ /\ pc = "teardownTpm" /\ UNCHANGED loss
       /\ Clean([backend EXCEPT !.swtpm = NoUnit, !.setup = "none"], "teardownFiles")
    \/ /\ pc = "teardownFiles" /\ UNCHANGED loss
       /\ Clean([backend EXCEPT !.files = @ \ {pass.snap.uid}], "finRemove")

\* Units first, so that no file is taken from under them.
teardown ==
    \/ /\ pc = "teardownTpm" /\ UNCHANGED loss
       /\ Clean([backend EXCEPT !.swtpm = NoUnit, !.setup = "none"], "teardownFiles")
    \/ /\ pc = "teardownFiles" /\ UNCHANGED loss
       /\ Clean([backend EXCEPT !.files = @ \ {pass.snap.uid}, !.ek = @ \ {pass.snap.uid},
                                !.tpm = NoTpm], "finRemove")

DropFinalizer == RemoveFinalizer(NoPass)

-----------------------------------------------------------------------------
(* Everybody else.                                                         *)

Stop == Crash(NoPass)

CreateAgain == Create(NoObject)

TakeFinalizerOff == RemoveByHand({})

Edit ==
    /\ Change /\ obj.life = "live"
    /\ \/ obj' = [obj EXCEPT !.on = ~@]
       \/ obj' = [obj EXCEPT !.plans = ~@]
    /\ UNCHANGED <<backend, provider, loss>> /\ OnlyWorld

HostOnly == UNCHANGED <<obj, cache, pc, pass>> /\ Keep

\* swtpm_setup writes the EK files, saves the state, and is done.
SwtpmSetup ==
    /\ backend.setup = "running" /\ HostOnly /\ UNCHANGED <<loss, faults>>
    /\ IF Setup \notin backend.ek
       THEN backend' = [backend EXCEPT !.ek = @ \cup {Setup}]
       ELSE backend' = [backend EXCEPT !.tpm.full = TRUE, !.setup = "none"]

\* A guest whose power button was pressed shuts down.
GuestShutsDown ==
    /\ backend.vmm.st = "run" /\ ~obj.on /\ HostOnly /\ UNCHANGED <<loss, faults>>
    /\ backend' = [backend EXCEPT !.vmm.st = "up"]

\* A unit fails, or the host starts anew.
UnitFails ==
    /\ Fail /\ HostOnly
    /\ loss' = loss \cup HalfMade
    /\ \/ backend.setup = "running" /\ backend' = [backend EXCEPT !.setup = "failed"]
       \/ backend.swtpm.st = "run" /\ backend' = [backend EXCEPT !.swtpm.st = "failed"]
       \/ backend.vmm.st \in {"up", "run"} /\ backend' = [backend EXCEPT !.vmm.st = "failed"]
       \/ backend' = [backend EXCEPT !.setup = "none", !.swtpm = NoUnit, !.vmm = NoUnit]

\* An administrator clears the failed manufacture.
ResetFailed ==
    /\ backend.setup = "failed" /\ HostOnly /\ UNCHANGED <<loss, faults>>
    /\ backend' = [backend EXCEPT !.setup = "none"]

Pass ==
    \/ AddFinalizer \/ reconcile \/ prepare_dirs \/ ensure_tpm \/ start_vmm \/ boot
    \/ power_off \/ patch_status \/ finalize \/ teardown \/ DropFinalizer

World == CreateAgain \/ Delete \/ TakeFinalizerOff \/ Edit

Next ==
    \/ Trigger \/ Pass \/ Stop \/ Sync \/ SwtpmSetup \/ GuestShutsDown \/ UnitFails
    \/ ResetFailed \/ World

\* As for every reconciler; and swtpm_setup ends, guests react to the power
\* button, failed manufactures are cleared.
Fairness ==
    /\ WF_vars(Trigger) /\ WF_vars(Pass) /\ WF_vars(Sync)
    /\ WF_vars(SwtpmSetup) /\ WF_vars(GuestShutsDown) /\ WF_vars(ResetFailed)

Spec == Init /\ [][Next]_vars /\ Fairness
-----------------------------------------------------------------------------
(* Properties.                                                             *)

Kinds == {"files", "ek", "tpm", "swtpm", "vmm"}
Resources == Kinds \X Uids

Held(u) ==
    {r \in Kinds :
        CASE r = "files" -> u \in backend.files [] r = "ek" -> u \in backend.ek
          [] r = "tpm" -> u = backend.tpm.uid [] r = "swtpm" -> u = backend.swtpm.uid
          [] r = "vmm" -> u = backend.vmm.uid}

Holdings == [u \in Uids |-> IF Excused THEN {} ELSE Held(u) \X {u}]

GuestOnTpm == backend.vmm.st = "run" /\ backend.swtpm.st = "run"

\* A guest runs on the vTPM that was made for its machine, although units and
\* state are named after a guest uid that is reused; and on a complete one,
\* unless its manufacture was stopped after the EK files were written.
GuestTpmIsOwn ==
    GuestOnTpm /\ ~Excused
        => /\ backend.tpm.uid = backend.vmm.uid /\ backend.swtpm.uid = backend.vmm.uid
           /\ backend.tpm.full \/ "setup" \in loss

\* A guest runs on a vTPM that was manufactured ("Manufacture runs once ...
\* whether it ran is the host-minted EK files").  Not so: README, "Where the code and
\* its documents part".
GuestTpmComplete == GuestOnTpm => backend.tpm.full

\* The complete state of a live machine's vTPM is not replaced.
TpmKept == obj.life = "live" /\ backend.tpm.full /\ backend.tpm.uid = obj.uid
              => backend'.tpm = backend.tpm

Stays == TRUE

Served(u) == ~obj.on \/ ~obj.plans \/ Excused \/ (backend.vmm.st = "run" /\ backend.vmm.uid = u)
=============================================================================
