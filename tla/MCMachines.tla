----------------------------- MODULE MCMachines -----------------------------
(***************************************************************************)
(* The machine reconcilers of the four providers, each in behaviours of    *)
(* its own, checked against what all of them promise.                      *)
(***************************************************************************)
EXTENDS InfraMachine

CONSTANTS
    MaxMorefs, VSphereFaults,   \* VMs that ever have the name in vCenter, and what fails there
    MaxVmids, ProxmoxChanges    \* VMIDs of the Proxmox cluster, and what users do there

ASSUME MachinesAssumption ==
    {MaxMorefs, VSphereFaults, MaxVmids, ProxmoxChanges} \subseteq Nat

VARIABLE which      \* the provider that is followed

V == INSTANCE VSphereMachine WITH
        MaxVMs <- MaxMorefs, MaxFaults <- VSphereFaults
L == INSTANCE LibvirtMachine
P == INSTANCE ProxmoxMachine WITH MaxVMs <- MaxVmids, MaxChanges <- ProxmoxChanges
C == INSTANCE CloudHypervisorMachine

allvars == <<which, vars>>

IsV == which = "vsphere"
IsL == which = "libvirt"
IsP == which = "proxmox"
IsC == which = "cloudhv"

Init == \/ IsV /\ V!Init
        \/ IsL /\ L!Init
        \/ IsP /\ P!Init
        \/ IsC /\ C!Init

Next == /\ UNCHANGED which
        /\ \/ IsV /\ V!Next
           \/ IsL /\ L!Next
           \/ IsP /\ P!Next
           \/ IsC /\ C!Next

Trigger == /\ UNCHANGED which
           /\ \/ IsV /\ V!Trigger
              \/ IsL /\ L!Trigger
              \/ IsP /\ P!Trigger
              \/ IsC /\ C!Trigger

Pass == /\ UNCHANGED which
        /\ \/ IsV /\ V!Pass
           \/ IsL /\ L!Pass
           \/ IsP /\ P!Pass
           \/ IsC /\ C!Pass

\* The fairness of each of the modules.
Fairness ==
    /\ WF_allvars(Trigger) /\ WF_allvars(Pass) /\ WF_allvars(Sync /\ UNCHANGED which)
    /\ WF_allvars(IsC /\ C!SwtpmSetup /\ UNCHANGED which) /\ WF_allvars(IsC /\ C!GuestShutsDown /\ UNCHANGED which)
    /\ WF_allvars(IsC /\ C!ResetFailed /\ UNCHANGED which)

Spec == Init /\ [][Next]_allvars /\ Fairness
-----------------------------------------------------------------------------
(* Properties.                                                             *)

TypeOK ==
    \/ IsV /\ V!TypeOK
    \/ IsL /\ L!TypeOK
    \/ IsP /\ P!TypeOK
    \/ IsC /\ C!TypeOK

Holdings ==
    CASE IsV -> V!Holdings [] IsL -> L!Holdings [] IsP -> P!Holdings [] IsC -> C!Holdings

AllResources == V!Resources \cup L!Resources \cup P!Resources \cup C!Resources

Lifecycle == INSTANCE MachineLifecycle WITH
    Machines <- Uids, Resources <- AllResources,
    machine <- [u \in Uids |-> MachineOf(u)], held <- Holdings

\* Every provider implements the lifecycle that all of them promise: VMs, domains,
\* volumes, files and units are made only while their machine is there, and it
\* goes only after the last of them, wherever a pass fails or stops between making
\* one and recording it, and whatever the pass was handed by the cache.
ImplementsLifecycle == Lifecycle!Spec

\* A VM that does not carry the machine's marker is destroyed (vSphere) or changed
\* (Proxmox) in two cases only, where the code does less than its comment says ("Any
\* other is somebody else's: never touched", vspheremachine.rs:528-532).  The VM just
\* cloned is looked up by name, in the folder and below it: another's VM below the
\* folder may be taken for it, and is then what the machine records and destroys.
\* And the calls for a VM of Proxmox name its VMID, which somebody else may have got
\* since the pass looked at its marker.
ForeignSpared ==
    [][ProviderStep => /\ IsV => V!ForeignKept
                       /\ IsP => P!ForeignKept]_allvars

\* A pass decides from the live object, not from the cached one that predates
\* the status it wrote itself: the VM a live machine records is not destroyed;
\* the vTPM of a live machine, once complete, is never made again.
RecordedSpared ==
    [][ProviderStep => /\ IsV => V!RecordedKept
                       /\ IsC => C!TpmKept]_allvars

\* What a machine uses is its own: the VM its status records (vSphere), unless the
\* lookup by name took one below the folder for the clone; the vTPM its guest runs on
\* (Cloud Hypervisor, where units are named after a reused uid).
OwnOnly == /\ TypeOK
           /\ IsV => V!RecordedIsOwn
           /\ IsC => C!GuestTpmIsOwn

Stays ==
    CASE IsV -> V!Stays [] IsL -> L!Stays [] IsP -> P!Stays [] IsC -> C!Stays

Served(u) ==
    CASE IsV -> V!Served(u) [] IsL -> L!Served(u) [] IsP -> P!Served(u) [] IsC -> C!Served(u)

\* Once what the provider depends on stays, every machine is served in the end,
\* whatever half-made state earlier passes left.
MachineServed ==
    <>[]Stays => \A u \in Uids :
        (obj.uid = u /\ obj.life = "live") ~> (obj.uid # u \/ obj.life # "live" \/ Served(u))

\* Once the Provider stays, a deleted machine goes: no failed call, stopped pass
\* or unrecorded clone keeps the finalizer for ever.
DeletedMachineGoes ==
    <>[](provider \/ IsC) => \A u \in Uids :
        (obj.uid = u /\ obj.life = "deleting") ~> (obj.uid # u \/ obj.life = "absent")
=============================================================================
