--------------------------- MODULE LibvirtMachine ---------------------------
(***************************************************************************)
(* The LibvirtMachine reconciler (libvirtmachine.rs): volumes, a domain    *)
(* and a cloud-init seed for a machine, and all of them removed before the *)
(* machine goes.                                                           *)
(*                                                                         *)
(* Everything on the host is found by the machine's name: a machine that   *)
(* is created again finds what its predecessor left.  The pass works from  *)
(* the cached object; it never reads the live one.                         *)
(***************************************************************************)
EXTENDS InfraMachine

\* Of what a machine owns on the host, the uid it was made for.
NoOwner == 0
Owners == Uids \cup {NoOwner}

domain == backend.domain
disk == backend.disk
seed == backend.seed

\* A LibvirtMachine: its identity, the finalizer, spec.desiredPowerState, and of
\* its status initialization.provisioned and the Ready condition.
Objects == [life: Lives, uid: Uids, fin: BOOLEAN, on: BOOLEAN, prov: BOOLEAN, ready: BOOLEAN]

\* The pool, the volume of the image in it, the disks of the machine (as one),
\* its seed and whether it was written, and the domain: its state, and whether
\* its definition has the seed.
Hosts == [pool: BOOLEAN, image: BOOLEAN, disk: Owners, seed: [uid: Owners, full: BOOLEAN],
          domain: [uid: Owners, run: {"none", "off", "on"}, seed: BOOLEAN]]

Stages == {"idle", "connect", "finalizer", "disk", "define", "seed", "upload", "attach",
           "power", "record", "failed", "destroy", "undefine", "volumes", "finRemove"}

TypeOK ==
    /\ obj \in Objects /\ cache \in Objects
    /\ backend \in Hosts /\ provider \in BOOLEAN
    /\ pc \in Stages /\ pass \in [snap: Objects, gone: BOOLEAN]
    /\ loss \subseteq {"pool", "forced", "noticed", "namesake"}
    /\ faults \in 0..MaxFaults /\ changes \in 0..MaxChanges

NoObject == [life |-> "absent", uid |-> 1, fin |-> FALSE, on |-> TRUE,
             prov |-> FALSE, ready |-> FALSE]
NoPass == [snap |-> NoObject, gone |-> FALSE]
NoSeed == [uid |-> NoOwner, full |-> FALSE]
NoDomain == [uid |-> NoOwner, run |-> "none", seed |-> FALSE]
End == EndPass(NoPass)

Init ==
    /\ obj = Created(NoObject, 1) /\ cache = obj
    /\ backend = [pool |-> TRUE, image |-> TRUE, disk |-> NoOwner, seed |-> NoSeed,
                  domain |-> NoDomain]
    /\ provider = TRUE /\ pc = "idle" /\ pass = NoPass
    /\ loss = {} /\ faults = 0 /\ changes = 0

-----------------------------------------------------------------------------
(* The pass.                                                               *)

Trigger == StartPass(NoPass, "connect")

\* Provider, credentials and connection come first, for a deleted machine too.
\* Without them the pass ends with an error and no status.
Connect ==
    /\ pc = "connect"
    /\ \/ /\ provider /\ UNCHANGED faults
          /\ Goto(IF pass.snap.life = "deleting" THEN "destroy" ELSE "finalizer")
       \/ ~provider /\ End /\ UNCHANGED <<loss, faults>>
       \/ provider /\ Fail /\ End /\ UNCHANGED loss
    /\ UNCHANGED backend /\ KeepApi /\ Keep

AddFinalizer == EnsureFinalizer(NoPass, "disk")

\* A call of the host that leaves it as `made`, and goes on; or fails, before or
\* after it took effect.
Call(stage, made, next) ==
    /\ pc = stage
    /\ \/ backend' = made /\ Goto(next) /\ UNCHANGED faults
       \/ Fail /\ Goto("failed") /\ backend' \in {backend, made}
    /\ KeepApi /\ Keep

\* The pool and the image must be there; a disk that is there is used as it is.
ensure_disks ==
    \/ /\ backend.pool /\ backend.image
       /\ Call("disk", [backend EXCEPT !.disk = IF @ = NoOwner THEN pass.snap.uid ELSE @], "define")
    \/ /\ pc = "disk" /\ ~(backend.pool /\ backend.image)
       /\ Goto("failed") /\ UNCHANGED <<backend, faults>> /\ KeepApi /\ Keep

\* The first definition has no seed, that of a domain that is there neither.
define_domain ==
    Call("define",
         [backend EXCEPT !.domain = IF @.run = "none"
            THEN [uid |-> pass.snap.uid, run |-> "off", seed |-> FALSE]
            ELSE [@ EXCEPT !.seed = FALSE]],
         "seed")

\* A seed volume of the name is used as it is: it is not written again.
ensure_seed ==
    \/ seed.uid # NoOwner /\ Call("seed", backend, "attach")
    \/ seed.uid = NoOwner /\ Call("seed", [backend EXCEPT !.seed.uid = pass.snap.uid], "upload")

upload_volume == Call("upload", [backend EXCEPT !.seed.full = TRUE], "attach")

attach_seed == Call("attach", [backend EXCEPT !.domain.seed = TRUE], "power")

\* Start or stop the domain, then read addresses, marker, certificate and
\* sealing report, and eject the install medium.
converge_power ==
    Call("power", [backend EXCEPT !.domain.run = IF pass.snap.on THEN "on" ELSE "off"], "record")

\* Gone, what the pass made is removed as the finalizer would.
gone_or == pc' = "destroy" /\ pass' = [pass EXCEPT !.gone = TRUE]

Patch(written) == PatchMachine(written, End, End, gone_or) /\ UNCHANGED <<cache, backend>> /\ Keep

build_status == [obj EXCEPT !.prov = pass.snap.on, !.ready = pass.snap.on]

\* What the status said when the pass started, with Ready=False.
failure_status == [obj EXCEPT !.prov = pass.snap.prov, !.ready = FALSE]

patch_status ==
    \/ pc = "record" /\ Patch(build_status)
    \/ pc = "failed" /\ Patch(failure_status)

-----------------------------------------------------------------------------
(* finalize_backend, for a deleted machine and for one that is gone.       *)

\* A call of the host that fails ends the pass.
Clean(stage, left, next) ==
    /\ pc = stage
    /\ \/ backend' = left /\ Goto(next) /\ UNCHANGED faults
       \/ Fail /\ End /\ UNCHANGED loss /\ backend' \in {backend, left}
    /\ KeepApi /\ Keep

destroy_domain ==
    IF domain.run = "none" THEN Clean("destroy", backend, "volumes")
    ELSE Clean("destroy", [backend EXCEPT !.domain.run = "off"], "undefine")

undefine_domain == Clean("undefine", [backend EXCEPT !.domain = NoDomain], "volumes")

Cleaned == IF pass.gone THEN End ELSE pc' = "finRemove" /\ UNCHANGED pass

delete_volumes_seed_forgotten ==
    \/ backend.pool /\ disk # NoOwner /\ Clean("volumes", [backend EXCEPT !.disk = NoOwner], "volumes")
    \/ /\ pc = "volumes" /\ (~backend.pool \/ disk = NoOwner)
       /\ Cleaned /\ UNCHANGED <<backend, faults, loss>> /\ KeepApi /\ Keep

\* The disks, then the seed; in a pool that is not there, nothing.
delete_volumes ==
    \/ backend.pool /\ disk # NoOwner /\ Clean("volumes", [backend EXCEPT !.disk = NoOwner], "volumes")
    \/ /\ backend.pool /\ disk = NoOwner /\ seed.uid # NoOwner
       /\ Clean("volumes", [backend EXCEPT !.seed = NoSeed], "volumes")
    \/ /\ pc = "volumes" /\ (~backend.pool \/ (disk = NoOwner /\ seed.uid = NoOwner))
       /\ loss' = loss \cup IF backend.pool THEN {} ELSE {"pool"}
       /\ Cleaned /\ UNCHANGED <<backend, faults>> /\ KeepApi /\ Keep

DropFinalizer == RemoveFinalizer(NoPass)

-----------------------------------------------------------------------------
(* Everybody else.                                                         *)

Stop == Crash(NoPass)

CreateAgain == Create(NoObject)

TakeFinalizerOff ==
    RemoveByHand({"disk", "define", "seed", "upload", "attach", "power", "record", "failed"})

SetPower ==
    /\ Change /\ obj.life = "live" /\ obj' = [obj EXCEPT !.on = ~@]
    /\ UNCHANGED <<backend, provider, loss>> /\ OnlyWorld

\* The pool or the image comes and goes; the guest switches itself off.
HostChange ==
    /\ Change
    /\ \/ backend' = [backend EXCEPT !.pool = ~@]
       \/ backend' = [backend EXCEPT !.image = ~@]
       \/ domain.run = "on" /\ backend' = [backend EXCEPT !.domain.run = "off"]
    /\ UNCHANGED <<obj, provider, loss>> /\ OnlyWorld

Pass ==
    \/ Connect \/ AddFinalizer \/ ensure_disks \/ define_domain \/ ensure_seed
    \/ upload_volume \/ attach_seed \/ converge_power \/ patch_status
    \/ destroy_domain \/ undefine_domain \/ delete_volumes \/ DropFinalizer

World == CreateAgain \/ Delete \/ TakeFinalizerOff \/ SetPower \/ HostChange \/ ProviderChange

Next == Trigger \/ Pass \/ Stop \/ Sync \/ World

\* As for every reconciler: passes are run again and again, calls are answered,
\* watch events arrive.
Fairness == WF_vars(Trigger) /\ WF_vars(Pass) /\ WF_vars(Sync)

Spec == Init /\ [][Next]_vars /\ Fairness
-----------------------------------------------------------------------------
(* Properties.                                                             *)

Kinds == {"domain", "disk", "seed"}
Resources == Kinds \X Uids

Held(u) ==
    {r \in Kinds : u = CASE r = "domain" -> domain.uid [] r = "disk" -> disk
                              [] r = "seed" -> seed.uid}

Holdings == [u \in Uids |-> IF Excused THEN {} ELSE Held(u) \X {u}]

Stays == provider /\ backend.pool /\ backend.image

\* The domain of a machine that is to be on runs.
Served(u) == ~obj.on \/ Excused \/ (domain.run = "on" /\ domain.uid = u /\ disk = u)

\* A machine boots from a seed that was written (ensure_seed: "an existing seed
\* volume is reused rather than rewritten").  Not so: README, "Where the code and
\* its documents part".
BootsWithSeed == domain.run = "on" /\ domain.seed => seed.full
=============================================================================
