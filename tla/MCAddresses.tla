---------------------------- MODULE MCAddresses -----------------------------
(***************************************************************************)
(* Who gets a static address, each in behaviours of its own: "racing", the *)
(* VirtualMachine reconciler with passes of two VMs that contend for one   *)
(* address; and "admission", the rule by itself over three VMs, where a    *)
(* pass checks and records in one step.                                    *)
(***************************************************************************)
EXTENDS VirtualMachine

VARIABLES which, vms

OnVsphere == [p \in Placements |-> "vsphere"]

\* Two addresses on one network, one of them also declared by VMs whose class cannot
\* be resolved.
On(network, address) == [net |-> network, address |-> address]
Admission == INSTANCE AddressAdmission WITH
    VMs <- 1..3, MaxBorn <- 1,
    Declarations <- SUBSET {On("lan", 1), On("lan", 2)} \cup {{On(AnyNet, 1)}}

allvars == <<which, vms, vars>>
IsRacing == which = "racing"
IsAdmission == which = "admission"

EitherInit == /\ Init
              /\ \/ IsRacing /\ vms = {}
                 \/ IsAdmission /\ Admission!Init

EitherNext == /\ UNCHANGED which
              /\ \/ IsRacing /\ Next /\ UNCHANGED vms
                 \/ IsAdmission /\ Admission!Next /\ UNCHANGED vars

\* The fairness of FairSpec.
Fairness ==
    /\ WF_allvars(IsRacing /\ Deliver /\ UNCHANGED <<which, vms>>)
    /\ \A v \in VMs :
         /\ WF_allvars(IsRacing /\ Step(v) /\ UNCHANGED <<which, vms>>)
         /\ \A k \in Kinds : WF_allvars(IsRacing /\ Backend(v, k) /\ UNCHANGED <<which, vms>>)

EitherSpec == EitherInit /\ [][EitherNext]_allvars /\ Fairness
-----------------------------------------------------------------------------
\* The rule gives an address to one VM, to the same one whoever asks, does not take
\* it from the guest that has it, and blocks only for a VM that holds or may take it.
AdmissionSound ==
    /\ IsRacing => TypeOK
    /\ IsAdmission => /\ Admission!TypeOK /\ Admission!HoldersDistinct /\ Admission!SameAnswer
                      /\ Admission!IncumbentAdmitted /\ Admission!BlockedForCause

\* Power follows the spec, on a VM blocked by a duplicate address too.
PowerSound == []<>(IsRacing => PowerIsAsked)
=============================================================================
