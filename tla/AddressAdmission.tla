-------------------------- MODULE AddressAdmission --------------------------
(***************************************************************************)
(* The rule of address_conflict.rs over the life of a set of VMs, when a   *)
(* pass checks, applies and records in one step: VirtualMachine has the    *)
(* passes in detail.                                                       *)
(***************************************************************************)
EXTENDS AddressConflict

CONSTANTS
    VMs,            \* names, as numbers
    Declarations,   \* the sets of claims a user may declare
    MaxBorn         \* bound on creation times

VARIABLE vms    \* the VMs that exist

vars == vms

Resolved == {c \in UNION Declarations : c.net # AnyNet}

TypeOK ==
    /\ DOMAIN vms \subseteq VMs
    /\ \A v \in DOMAIN vms :
         vms[v] \in [born: 0..MaxBorn, declared: Declarations, held: SUBSET Resolved]

Init == vms = [v \in {} |-> 0]

\* Creation times do not go back, and two VMs may have the same one.
Create(v, born, claims) ==
    /\ v \notin DOMAIN vms
    /\ \A w \in DOMAIN vms : vms[w].born \in {born, born - 1}
    /\ vms' = [w \in DOMAIN vms \cup {v} |->
                 IF w = v THEN [born |-> born, declared |-> claims, held |-> {}]
                 ELSE vms[w]]

Edit(v, claims) == vms' = [vms EXCEPT ![v].declared = claims]

Delete(v) == vms' = Restricted(vms, DOMAIN vms \ {v})

Admit_unresolved(v) ==
    /\ ~duplicate_address(v, vms)
    /\ vms' = [vms EXCEPT ![v].held = vms[v].declared]

\* A pass of a VM whose class resolves applies its infra CR and records what it
\* declared as held, unless the VM is blocked.
Admit(v) ==
    /\ vms[v].declared \subseteq Resolved
    /\ ~duplicate_address(v, vms)
    /\ vms' = [vms EXCEPT ![v].held = vms[v].declared]

Next ==
    \/ \E v \in VMs, born \in 0..MaxBorn, claims \in Declarations :
         Create(v, born, claims)
    \/ \E v \in DOMAIN vms : \/ Delete(v) \/ Admit(v)
                             \/ \E claims \in Declarations : Edit(v, claims)

Spec == Init /\ [][Next]_vars

-----------------------------------------------------------------------------
Blocked == Sweeps(vms).blocked

\* Two VMs never hold matching claims, whatever users declare and edit.
HoldersDistinct ==
    \A v, w \in DOMAIN vms : v # w =>
        \A c \in vms[v].held, d \in vms[w].held : ~Matches(c, d)

\* Looking only at the VMs that share an address, however indirectly, answers
\* as looking at all of them would: every VM computes the same result.
SameAnswer ==
    {v \in DOMAIN vms : duplicate_address(v, vms)} = {v \in Blocked : vms[v].declared # {}}

\* A VM that still declares only what its guest was given is never blocked, no
\* matter how old the VMs that come to declare its addresses.
IncumbentAdmitted ==
    \A v \in Blocked : ~(vms[v].declared \subseteq vms[v].held)

\* A blocked VM blocks nobody by what it only declares: whoever is blocked
\* shares a claim with a holder or with a VM that is admitted.
BlockedForCause ==
    \A blocked \in {Blocked} : \A v \in blocked : \E w \in DOMAIN vms \ {v} :
        \E c \in vms[v].declared \cup vms[v].held :
        \E d \in vms[w].held \cup (IF w \in blocked THEN {} ELSE vms[w].declared) :
            Matches(c, d)
=============================================================================
