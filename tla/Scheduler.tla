----------------------------- MODULE Scheduler ------------------------------
(***************************************************************************)
(* The scheduler (reconciler/scheduler.rs): every pass of every VM decides *)
(* anew where the VM goes, from lists of Providers, images and VMs.        *)
(*                                                                         *)
(* The decision is a function of what the pass has listed; passes of       *)
(* different VMs overlap, so a list may lack what others decided.  Only    *)
(* the first decision is recorded; what becomes of the machine when a      *)
(* later one differs from the record is VirtualMachine's matter.           *)
(***************************************************************************)
EXTENDS Integers, FiniteSets, FiniteSetsExt

CONSTANTS
    VMs, Domains,
    Attributes,     \* of each failure domain: [provider, memory, cpus, ratio, overhead, offers, value]
    Requests,       \* what a VM may ask for: [memory, cpus, offers, pool, apart, label]
    Rank,           \* the rendezvous hash of a VM and a domain
    MaxChanges

VARIABLES
    vm,         \* of each VM: its request, and its placement
    world,      \* Providers: whose Lease is stale, which have the image
    pc, pass,   \* each VM's pass, and what it listed
    ghost,      \* VMs placed from a list that was out of date
    changes

vars == <<vm, world, pc, pass, ghost, changes>>

Nowhere == "nowhere"
Providers == {Attributes[d].provider : d \in Domains}
NoList == [v \in VMs |-> Nowhere]

TypeOK ==
    /\ vm \in [VMs -> [asks: Requests, at: Domains \cup {Nowhere}, live: BOOLEAN]]
    /\ world \in [stale: SUBSET Providers, ready: SUBSET Providers]
    /\ pc \in [VMs -> {"idle", "listed"}] /\ pass \in [VMs -> [VMs -> Domains \cup {Nowhere}]]
    /\ ghost \subseteq VMs /\ changes \in 0..MaxChanges

Init ==
    /\ vm \in [VMs -> [asks: Requests, at: {Nowhere}, live: {TRUE}]]
    /\ world = [stale |-> {}, ready |-> Providers]
    /\ pc = [v \in VMs |-> "idle"] /\ pass = [v \in VMs |-> NoList]
    /\ ghost = {} /\ changes = 0

-----------------------------------------------------------------------------
(* The decision of VM v, given where the VMs are.                          *)

Placed(at, d) == {v \in VMs : at[v] = d}

\* Provider first, then the domain: image, storage, network and other features.
is_stale(p) == p \in world.stale
image_ready_on_provider(p) == p \in world.ready
first_missing(v, d) == vm[v].asks.offers \subseteq Attributes[d].offers

\* What the other VMs on the domain use, as their classes say.
usage_on(v, at, d) ==
    LET others == Placed(at, d) \ {v}
    IN  [memory |-> MapThenSumSet(LAMBDA w : vm[w].asks.memory + Attributes[d].overhead, others),
         cpus |-> MapThenSumSet(LAMBDA w : vm[w].asks.cpus, others)]

capacity_shortfall_late(v, used, d) ==
    \/ used.memory > Attributes[d].memory
    \/ used.cpus > Attributes[d].cpus * Attributes[d].ratio

capacity_shortfall_strict(v, used, d) ==
    \/ used.memory + vm[v].asks.memory + Attributes[d].overhead >= Attributes[d].memory
    \/ used.cpus + vm[v].asks.cpus > Attributes[d].cpus * Attributes[d].ratio

\* Memory strictly, vCPUs up to the overcommit ratio.
capacity_shortfall(v, used, d) ==
    \/ used.memory + vm[v].asks.memory + Attributes[d].overhead > Attributes[d].memory
    \/ used.cpus + vm[v].asks.cpus > Attributes[d].cpus * Attributes[d].ratio

Survivors(v, at) ==
    {d \in Domains : /\ ~is_stale(Attributes[d].provider)
                     /\ image_ready_on_provider(Attributes[d].provider)
                     /\ first_missing(v, d)
                     /\ ~capacity_shortfall(v, usage_on(v, at, d), d)}

blocked_nowhere(v, at) == {}

\* The names of the domains of all the VMs the rule selects, taken for the values
\* of its topology key: also the VM's own, when the rule selects it.
blocked_topology_values(v, at) ==
    {at[w] : w \in {w \in VMs : at[w] # Nowhere /\ vm[w].asks.label = vm[v].asks.apart}}

Eligible(v, at) ==
    {d \in Survivors(v, at) : Attributes[d].value \notin blocked_topology_values(v, at)}

\* Members of the VM's pool there, and all the VMs there, itself left out.
placement_load(v, at, d) ==
    LET others == Placed(at, d) \ {v}
        group == {w \in others : vm[v].asks.pool = "none" \/ vm[w].asks.pool = vm[v].asks.pool}
    IN  <<Cardinality(group), Cardinality(others)>>

Better(v, at, d, e) ==
    LET a == placement_load(v, at, d)
        b == placement_load(v, at, e)
    IN  \/ a[1] < b[1]
        \/ a[1] = b[1] /\ a[2] < b[2]
        \/ a = b /\ Rank[v][d] > Rank[v][e]

schedule(v, at) ==
    IF Eligible(v, at) = {} THEN Nowhere
    ELSE CHOOSE d \in Eligible(v, at) : \A e \in Eligible(v, at) \ {d} : Better(v, at, d, e)

-----------------------------------------------------------------------------
(* Passes.                                                                 *)

At == [w \in VMs |-> vm[w].at]

List(v) ==
    /\ pc[v] = "idle" /\ vm[v].live
    /\ pc' = [pc EXCEPT ![v] = "listed"] /\ pass' = [pass EXCEPT ![v] = At]
    /\ UNCHANGED <<vm, world, ghost, changes>>

\* A VM that cannot be scheduled is left as it is, and so is the record of one that
\* has a placement: a decision that differs from it is passed over (Never), reported
\* (Manual), or deletes the machine (Automatic), each without recording anything.
Decide(v) ==
    /\ pc[v] = "listed" /\ pc' = [pc EXCEPT ![v] = "idle"] /\ pass' = [pass EXCEPT ![v] = NoList]
    /\ LET d == schedule(v, pass[v])
       IN  IF vm[v].live /\ vm[v].at = Nowhere /\ d # Nowhere
           THEN /\ vm' = [vm EXCEPT ![v].at = d]
                /\ ghost' = IF \E w \in VMs \ {v} : pass[v][w] # At[w] THEN ghost \cup {v} ELSE ghost
           ELSE UNCHANGED <<vm, ghost>>
    /\ UNCHANGED <<world, changes>>

-----------------------------------------------------------------------------

Change == changes < MaxChanges /\ changes' = changes + 1

LeaseStale(p) ==
    /\ Change /\ p \notin world.stale /\ world' = [world EXCEPT !.stale = @ \cup {p}]
    /\ UNCHANGED <<vm, pc, pass, ghost>>

LeaseRenewed(p) ==
    /\ p \in world.stale /\ world' = [world EXCEPT !.stale = @ \ {p}]
    /\ UNCHANGED <<vm, pc, pass, ghost, changes>>

ImageLost(p) ==
    /\ Change /\ p \in world.ready /\ world' = [world EXCEPT !.ready = @ \ {p}]
    /\ UNCHANGED <<vm, pc, pass, ghost>>

Delete(v) ==
    /\ Change /\ vm[v].live /\ vm' = [vm EXCEPT ![v].at = Nowhere, ![v].live = FALSE]
    /\ ghost' = ghost \ {v} /\ UNCHANGED <<world, pc, pass>>

Next ==
    \/ \E v \in VMs : List(v) \/ Decide(v) \/ Delete(v)
    \/ \E p \in Providers : LeaseStale(p) \/ LeaseRenewed(p) \/ ImageLost(p)

Fairness ==
    /\ \A v \in VMs : WF_vars(List(v) \/ Decide(v))
    /\ \A p \in Providers : WF_vars(LeaseRenewed(p))

Spec == Init /\ [][Next]_vars /\ Fairness
-----------------------------------------------------------------------------
(* Properties.                                                             *)

Fits(vms, d) ==
    /\ MapThenSumSet(LAMBDA w : vm[w].asks.memory + Attributes[d].overhead, vms) <= Attributes[d].memory
    /\ MapThenSumSet(LAMBDA w : vm[w].asks.cpus, vms) <= Attributes[d].cpus * Attributes[d].ratio

\* A domain has room for the VMs placed there, unless one of them was placed while
\* another's placement had not been listed.
RoomForAll == \A d \in Domains : Placed(At, d) \cap ghost = {} => Fits(Placed(At, d), d)

\* VMs that are to be apart are, unless they were placed at the same time; if domains
\* are named by the values of the topology key.
ApartStaysApart ==
    \A v, w \in VMs \ ghost :
        /\ v # w /\ vm[v].at # Nowhere /\ vm[v].at = vm[w].at
        /\ Attributes[vm[v].at].value = vm[v].at
        => ~(vm[v].asks.apart = vm[w].asks.label /\ vm[w].asks.apart = vm[v].asks.label)

\* A domain that is alive, has the image and all that is asked for, and room to the
\* last byte, and in which nobody is whom the VM has to be apart from.
CouldTake(v, d) ==
    /\ Attributes[d].provider \in world.ready \ world.stale
    /\ vm[v].asks.offers \subseteq Attributes[d].offers /\ Fits(Placed(At, d) \cup {v}, d)
    /\ \A w \in VMs : vm[w].asks.label = vm[v].asks.apart => vm[w].at # Attributes[d].value

\* In the end no VM is without a placement that some domain could take: however the
\* passes overlap, what one of them could not see does not leave a VM out for good.
Settled == \A v \in VMs : vm[v].live /\ vm[v].at = Nowhere => \A d \in Domains : ~CouldTake(v, d)
Settles == <>[]Settled
=============================================================================
