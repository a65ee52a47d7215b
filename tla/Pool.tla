-------------------------------- MODULE Pool --------------------------------
(***************************************************************************)
(* The VirtualMachinePool reconciler (pool.rs): read the image revision,   *)
(* LIST the members, plan (PoolPlan), apply the plan one API call at a     *)
(* time, publish the counts.  Claims bind and release members, providers   *)
(* report readiness and finish deletions, users edit the pool between any  *)
(* two calls.                                                              *)
(*                                                                         *)
(* Ages saturate at AgeCap, past every limit they are compared with, so    *)
(* that time may pass forever in a finite state space.                     *)
(***************************************************************************)
EXTENDS PoolPlan

CONSTANTS
    Members,         \* numbers: room for the VirtualMachine objects
    Specs,           \* the specs the pool may be edited to: [warm, entries]
    MaxReplicas, MaxSurge, Timeout, MaxIdle, Recycle,  \* the rest of the spec
    Width,           \* bits of an address
    AgeCap,          \* bound on ages
    Prompt,          \* a guest that does not hang is ready within the timeout
    MaxEvents        \* bound on binds, blips, rebuilds, edits and faults

\* An entry of addressing.pool.
Entries == [kind: {"cidr"}, addr: Nat, prefix: Nat]
           \cup [kind: {"range"}, lo: Nat, hi: Nat] \cup [kind: {"single"}, addr: Nat]

ASSUME PoolAssumption ==
    /\ Members \subseteq Nat
    /\ Specs # {} /\ Specs \subseteq [warm: Nat, entries: Seq(Entries)]
    /\ {MaxReplicas, MaxSurge, Width, AgeCap, MaxEvents} \subseteq Nat
    /\ Timeout \in 0..(AgeCap - 1) /\ MaxIdle \subseteq 0..(AgeCap - 1)
    /\ Recycle \in BOOLEAN /\ Prompt \in BOOLEAN

\* A fact of arithmetic, for the proofs: a block is not empty.
ASSUME PowersOfTwo == \A k \in 0..Width : 2 ^ k \in Nat \ {0}

VARIABLES
    vm,       \* vm[m]: the members; st "absent" is a free name
    spec,     \* the pool's spec
    deleted,  \* the pool has a deletionTimestamp
    image,    \* the current revision of the pool's image
    pass,     \* the reconcile pass
    status,   \* the published status
    events    \* what the environment did so far

vars == <<vm, spec, deleted, image, pass, status, events>>

\* ready is the pool's readiness condition; broken is a guest whose install
\* hangs.
VmObjects ==
    [st: {"absent", "live", "deleting"}, claimed: BOOLEAN, broken: BOOLEAN,
     ready: {"unset", "True", "False"}, age: 0..AgeCap, readyFor: 0..AgeCap,
     revision: Nat, address: Nat \cup {NoAddress}]

NoVm == [st |-> "absent", claimed |-> FALSE, broken |-> FALSE, ready |-> "unset",
         age |-> 0, readyFor |-> 0, revision |-> 0, address |-> NoAddress]

\* A deletionTimestamp: only the address and the conditions are read after it.
Deleting(o) == [o EXCEPT !.st = "deleting", !.claimed = FALSE, !.broken = FALSE,
                         !.age = 0, !.readyFor = 0, !.revision = 0]

Capacities == {"Ok", "ReadinessSignalAbsent", "AddressRangeExhausted",
               "MaxReplicasReached"}

\* Of the status, the Warm condition and the reason of the Capacity condition.
Reports == [warm: BOOLEAN, capacity: Capacities]

NoReport == [warm |-> FALSE, capacity |-> "Ok"]

NoPass == [pc |-> "idle", spec |-> CHOOSE s \in Specs : TRUE, revision |-> 0,
           delete |-> {}, create |-> <<>>, report |-> NoReport]

TypeOK ==
    /\ vm \in [Members -> VmObjects]
    /\ spec \in Specs
    /\ deleted \in BOOLEAN
    /\ image \in Nat
    /\ pass \in [pc: {"idle", "list", "apply"}, spec: Specs, revision: Nat,
                 delete: SUBSET Members,
                 create: Seq(Nat \cup {NoAddress}), report: Reports]
    /\ status \in Reports
    /\ events \in 0..MaxEvents

Init ==
    /\ vm = [m \in Members |-> NoVm]
    /\ spec \in Specs
    /\ deleted = FALSE
    /\ image = 1
    /\ pass = NoPass
    /\ status = NoReport
    /\ events = 0

-----------------------------------------------------------------------------
Existing == {m \in Members : vm[m].st # "absent"}
Live == {m \in Members : vm[m].st = "live"}

PhaseOf(m) ==
    IF vm[m].st = "deleting" THEN "Deleting"
    ELSE IF vm[m].claimed THEN "Claimed"
    ELSE IF vm[m].ready = "True" THEN "Ready" ELSE "Provisioning"

member_view(m) ==
    [phase |-> PhaseOf(m), age |-> vm[m].age,
     readyFor |-> IF vm[m].ready = "True" THEN vm[m].readyFor ELSE 0,
     revision |-> vm[m].revision, address |-> vm[m].address]

Parsed(s) == [i \in DOMAIN s.entries |-> parse_address_pool_entry(s.entries[i], Width)]

\* Err: some entry of the address list does not parse.
InvalidAddressing(s) == \E i \in DOMAIN s.entries : Parsed(s)[i] = {}

pool_inputs(s, revision) ==
    [warm |-> s.warm, max |-> MaxReplicas, surge |-> MaxSurge, timeout |-> Timeout,
     maxIdle |-> MaxIdle, recycle |-> Recycle, revision |-> revision,
     ranges |-> [i \in DOMAIN s.entries |-> CHOOSE r \in Parsed(s)[i] : TRUE]]

readiness_signal_absent == Existing # {} /\ \A m \in Existing : vm[m].ready = "unset"

\* What publish says of the snapshot.
Report(views, s, capacity) ==
    [warm |-> Cardinality(InPhase(views, "Ready")) >= s.warm, capacity |-> capacity]

\* Why creations were held back: the reasons in the order the code tests them.
CapacityReason(decided) ==
    CASE readiness_signal_absent -> "ReadinessSignalAbsent"
      [] ~readiness_signal_absent /\ decided.blockedOnAddresses > 0 ->
            "AddressRangeExhausted"
      [] ~readiness_signal_absent /\ decided.blockedOnAddresses = 0
         /\ decided.blockedOnCapacity > 0 -> "MaxReplicasReached"
      [] OTHER -> "Ok"

\* A pass starts from the spec it was handed and reads the image; a pool being
\* deleted is left to the garbage collector.
GetImage ==
    /\ pass.pc = "idle"
    /\ ~deleted
    /\ pass' = [pass EXCEPT !.pc = "list", !.spec = spec, !.revision = image]
    /\ UNCHANGED <<vm, spec, deleted, image, status, events>>

\* LIST the members and plan; an address list that does not parse is only
\* reported.
ListAndPlan ==
    /\ pass.pc = "list"
    /\ \E views \in {[m \in Existing |-> member_view(m)]} :
         \/ /\ InvalidAddressing(pass.spec)
            /\ pass' = [NoPass EXCEPT !.pc = "apply",
                           !.report = Report(views, pass.spec, "AddressRangeExhausted")]
         \/ /\ ~InvalidAddressing(pass.spec)
            /\ \E inputs \in {pool_inputs(pass.spec, pass.revision)} :
               \E decided \in {plan(inputs, views)} :
                 pass' = [NoPass EXCEPT !.pc = "apply", !.revision = pass.revision,
                           !.delete = decided.delete, !.create = decided.create,
                           !.report = Report(views, pass.spec, CapacityReason(decided))]
    /\ UNCHANGED <<vm, spec, deleted, image, status, events>>

\* DELETE by name, without a precondition; 404 is as good.
DeleteMember(m) ==
    /\ pass.pc = "apply"
    /\ m \in pass.delete
    /\ pass' = [pass EXCEPT !.delete = @ \ {m}]
    /\ vm' = [vm EXCEPT ![m] = IF @.st = "live" THEN Deleting(@) ELSE @]
    /\ UNCHANGED <<spec, deleted, image, status, events>>

\* Creates come after every delete; the server picks the name.
CreateMember(m) ==
    /\ pass.pc = "apply"
    /\ pass.delete = {}
    /\ pass.create # <<>>
    /\ vm[m].st = "absent"
    /\ vm' = [vm EXCEPT ![m] = [NoVm EXCEPT !.st = "live",
                                            !.revision = pass.revision,
                                            !.address = Head(pass.create)]]
    /\ pass' = [pass EXCEPT !.create = Tail(@)]
    /\ UNCHANGED <<spec, deleted, image, status, events>>

\* The report of the snapshot, and the end of the pass.
Publish ==
    /\ pass.pc = "apply"
    /\ pass.delete = {} /\ pass.create = <<>>
    /\ status' = pass.report
    /\ pass' = NoPass
    /\ UNCHANGED <<vm, spec, deleted, image, events>>

-----------------------------------------------------------------------------
\* The rest of the cluster.

Event == events < MaxEvents /\ events' = events + 1

\* A call fails or the controller crashes: the next pass starts over.
Abort ==
    /\ Event
    /\ pass.pc # "idle"
    /\ pass' = NoPass
    /\ UNCHANGED <<vm, spec, deleted, image, status>>

\* A claim binds a Ready member; a claim that ends deletes it.
Bind(m) ==
    /\ Event
    /\ vm[m].st = "live" /\ PhaseOf(m) = "Ready"
    /\ vm' = [vm EXCEPT ![m].claimed = TRUE]
    /\ UNCHANGED <<spec, deleted, image, pass, status>>

Release(m) ==
    /\ vm[m].st = "live" /\ vm[m].claimed
    /\ vm' = [vm EXCEPT ![m] = Deleting(@)]
    /\ UNCHANGED <<spec, deleted, image, pass, status, events>>

\* The member reports the pool's readiness condition, loses it again, or hangs
\* before it ever reports it.
BecomeReady(m) ==
    /\ vm[m].st = "live" /\ vm[m].ready # "True" /\ ~vm[m].broken
    /\ vm' = [vm EXCEPT ![m].ready = "True", ![m].readyFor = 0]
    /\ UNCHANGED <<spec, deleted, image, pass, status, events>>

LoseReady(m) ==
    /\ Event
    /\ vm[m].st = "live" /\ vm[m].ready = "True"
    /\ vm' = [vm EXCEPT ![m].ready = "False", ![m].readyFor = 0]
    /\ UNCHANGED <<spec, deleted, image, pass, status>>

Hang(m) ==
    /\ Event
    /\ vm[m].st = "live" /\ vm[m].ready # "True" /\ ~vm[m].broken
    /\ vm' = [vm EXCEPT ![m].broken = TRUE]
    /\ UNCHANGED <<spec, deleted, image, pass, status>>

\* The backend VM is gone and the finalizer removed: name and address are free.
Finish(m) ==
    /\ vm[m].st = "deleting"
    /\ vm' = [vm EXCEPT ![m] = NoVm]
    /\ UNCHANGED <<spec, deleted, image, pass, status, events>>

RebuildImage ==
    /\ Event
    /\ image' = image + 1
    /\ UNCHANGED <<vm, spec, deleted, pass, status>>

EditSpec ==
    /\ Event
    /\ spec' \in Specs
    /\ UNCHANGED <<vm, deleted, image, pass, status>>

DeletePool ==
    /\ Event
    /\ ~deleted
    /\ deleted' = TRUE
    /\ UNCHANGED <<vm, spec, image, pass, status>>

\* The collector takes the members the deleted pool still owns.
CollectMember(m) ==
    /\ deleted
    /\ vm[m].st = "live" /\ ~vm[m].claimed
    /\ vm' = [vm EXCEPT ![m] = Deleting(@)]
    /\ UNCHANGED <<spec, deleted, image, pass, status, events>>

Tick ==
    /\ Prompt => \A m \in Live : vm[m].ready = "True" \/ vm[m].broken
                                \/ vm[m].age < Timeout
    /\ vm' = [m \in Members |->
                 IF vm[m].st # "live" THEN vm[m]
                 ELSE [vm[m] EXCEPT
                         !.age = Least(@ + 1, AgeCap),
                         !.readyFor = IF vm[m].ready = "True" THEN Least(@ + 1, AgeCap)
                                      ELSE @]]
    /\ UNCHANGED <<spec, deleted, image, pass, status, events>>

Apply(m) == DeleteMember(m) \/ CreateMember(m)

PassStep == GetImage \/ ListAndPlan \/ Publish \/ \E m \in Members : Apply(m)

Provider(m) == BecomeReady(m) \/ Finish(m)

Next ==
    \/ PassStep \/ Abort \/ RebuildImage \/ EditSpec \/ DeletePool \/ Tick
    \/ \E m \in Members : \/ Provider(m) \/ Bind(m) \/ Release(m) \/ LoseReady(m)
                          \/ Hang(m) \/ CollectMember(m)

Spec == Init /\ [][Next]_vars

\* Passes are requeued and go on; time passes; providers bring members up,
\* unless they hang, and take deleted ones down.
FairSpec == Spec /\ WF_vars(PassStep) /\ WF_vars(Tick)
                 /\ \A m \in Members : WF_vars(Provider(m))

-----------------------------------------------------------------------------
\* Properties.

\* maxReplicas holds across passes, failed ones included: alive members never
\* exceed it, although a plan is applied long after its snapshot was taken.
AliveWithinMax == Cardinality(Live) <= MaxReplicas

\* No two members have one address, although a deleted member keeps its own
\* until its backend VM is gone and a failed pass leaves a plan half applied.
AddressesDistinct ==
    \A m, n \in Existing : m # n /\ vm[m].address # NoAddress
                           => vm[m].address # vm[n].address

\* The addresses an entry stands for; those of a block share their first bits.
Lists(e, a) ==
    \/ e.kind = "single" /\ a = e.addr
    \/ e.kind = "range" /\ e.lo <= a /\ a <= e.hi
    \/ /\ e.kind = "cidr" /\ e.prefix <= Width
       /\ \E size \in {2 ^ (Width - e.prefix)} : a \div size = e.addr \div size

\* Members get addresses that an address list of the pool stands for, and no two
\* of them the same one: not while one is being destroyed, nor when the list is
\* edited or runs out.
AddressesSound ==
    /\ AddressesDistinct
    /\ \A m \in Existing :
         vm[m].address # NoAddress =>
            \E s \in Specs : \E i \in DOMAIN s.entries : Lists(s.entries[i], vm[m].address)

\* A claimed member is never deleted by the pool (invariant 1 of pool_plan.rs).
ClaimedSpared ==
    [][\A m \in Members : DeleteMember(m) /\ vm[m].st = "live"
                          => ~vm[m].claimed]_vars

Ready == {m \in Live : PhaseOf(m) = "Ready"}

\* Left alone, a pool fills: it has its warm members again and again, or its
\* ceiling is reached or its addresses do not parse, and it says so.
PoolFills ==
    []<>(\/ deleted
         \/ Cardinality(Ready) >= spec.warm
         \/ status.capacity \in {"MaxReplicasReached", "AddressRangeExhausted"})

\* A rebuilt image reaches every warm member of a pool whose addresses parse:
\* none of an old revision stays.
RolloutCompletes ==
    []<>(\/ deleted \/ InvalidAddressing(spec)
         \/ \A m \in Ready : vm[m].revision = image)
=============================================================================
