--------------------------- MODULE VirtualMachine ---------------------------
(***************************************************************************)
(* The VirtualMachine reconciler (virtualmachine.rs) with its migration    *)
(* (migration.rs) and status mirror (status_mirror.rs): place a VM, keep   *)
(* the infrastructure CR of the chosen kind, mirror its status, and take   *)
(* every CR down before the VM goes.                                       *)
(*                                                                         *)
(* Passes work from the controller's store, which lags behind the API      *)
(* server; passes of one VM do not overlap.  What the reads of class,      *)
(* image and providers lead to is world[v]: the scheduler's decision, or   *)
(* that the pairing is refused, or that nothing fits.                      *)
(***************************************************************************)
EXTENDS AddressConflict

CONSTANTS
    VMs,                    \* names, as numbers
    Kinds,                  \* the kinds of infra CR
    Placements, KindOf,     \* decisions, and the kind of each; NoKind: no builder
    NoKind, Refused, NoPlacement,
    Answers,                \* the values world may take
    Addresses, NoAddress,   \* static addresses
    Powers,                 \* power states
    Policies,               \* migration policies
    Outages,                \* the sets of kinds whose lookups may fail for good
    Changes,                \* what users and the backends do
    Lag,                    \* the store may be behind
    Ties,                   \* creation times may be equal
    MaxClock, MaxChanges, MaxFaults   \* bounds

AllChanges == {"world", "pause", "edit", "power", "approve", "delete", "vanish"}

ASSUME VmAssumption ==
    /\ VMs \subseteq Nat
    /\ KindOf \in [Placements -> Kinds \cup {NoKind}] /\ NoKind \notin Kinds
    /\ {Refused, NoPlacement} \cap Placements = {}
    /\ Answers \subseteq Placements \cup {Refused, NoPlacement}
    /\ NoAddress \notin Addresses
    /\ Policies \subseteq {"Never", "Manual", "Automatic"}
    /\ Powers # {} /\ Policies # {}
    /\ Outages \subseteq SUBSET Kinds /\ Changes \subseteq AllChanges
    /\ Lag \in BOOLEAN /\ Ties \in BOOLEAN
    /\ {MaxClock, MaxChanges, MaxFaults} \subseteq Nat

VARIABLES
    life,       \* life[v]: "absent", "live" or "deleting"
    finalized,  \* the VMs that carry the finalizer
    spec,       \* their specs, migrate annotation and creation time
    status,     \* their status
    store,      \* what the controller's store shows of these four
    infra,      \* the infra CRs, as pairs <<v, k>>
    ending,     \* those with a deletionTimestamp
    machine,    \* machine[<<v, k>>]: what the infra CR says
    pc, pass,   \* the pass of each VM: its next call, and what it knows
    lookups,    \* what the pass of each VM found of each kind, in a deletion
    world,      \* what scheduling v leads to
    unreadable, \* the kinds whose lookups always fail
    altered,    \* ghost: the VMs whose address was altered or that were deleted once
    clock, changes, faults

objects == <<life, finalized, spec, status>>
vars == <<objects, store, infra, ending, machine, pc, pass, lookups, world,
          unreadable, altered, clock, changes, faults>>

Specs == [paused: BOOLEAN, address: Addresses \cup {NoAddress}, power: Powers,
          policy: Policies, approved: BOOLEAN, born: 0..MaxClock]

\* Of the status: the recorded placement, the held address, the conditions
\* Scheduled and PlacementValid (TRUE until it is set to False), and Ready.
Statuses == [scheduled: Placements \cup {NoPlacement},
             held: Addresses \cup {NoAddress},
             isScheduled: BOOLEAN, valid: BOOLEAN, ready: BOOLEAN]

NoStatus == [scheduled |-> NoPlacement, held |-> NoAddress, isScheduled |-> FALSE,
             valid |-> TRUE, ready |-> FALSE]

NoSpec == [paused |-> FALSE, address |-> NoAddress, power |-> CHOOSE p \in Powers : TRUE,
           policy |-> CHOOSE p \in Policies : TRUE, approved |-> FALSE, born |-> 0]

Machines == [at: Placements \cup {NoPlacement}, address: Addresses \cup {NoAddress},
             power: Powers, ready: BOOLEAN]

NoMachine == [at |-> NoPlacement, address |-> NoAddress, power |-> NoSpec.power,
              ready |-> FALSE]

InfraStates == {"Unread", "Absent", "Present", "Terminating", "Unknown"}

Unread == [k \in Kinds |-> "Unread"]

\* What a pass was handed and what it found out: the decision, the kind of the
\* infra CR it read and whether that is ready.
Passes == [spec: Specs, status: Statuses, want: Placements \cup {NoPlacement},
           kind: Kinds \cup {NoKind}, ready: BOOLEAN]

NoPass == [spec |-> NoSpec, status |-> NoStatus, want |-> NoPlacement,
           kind |-> NoKind, ready |-> FALSE]

Stages == {"idle", "paused", "finRead", "finDelete", "finRemove", "finalizer", "decide",
           "refused", "unschedulable", "noBuilder", "drifted", "recreate",
           "stickRead", "stickStatus", "blockRead", "blockPower", "blockStatus",
           "apply", "mirror"}

TypeOK ==
    /\ life \in [VMs -> {"absent", "live", "deleting"}]
    /\ finalized \subseteq VMs
    /\ spec \in [VMs -> Specs]
    /\ status \in [VMs -> Statuses]
    /\ store.life \in [VMs -> {"absent", "live", "deleting"}]
    /\ store.finalized \subseteq VMs
    /\ store.spec \in [VMs -> Specs]
    /\ store.status \in [VMs -> Statuses]
    /\ ending \subseteq infra /\ infra \subseteq VMs \X Kinds
    /\ machine \in [VMs \X Kinds -> Machines]
    /\ pc \in [VMs -> Stages]
    /\ pass \in [VMs -> Passes]
    /\ lookups \in [VMs -> [Kinds -> InfraStates]]
    /\ world \in [VMs -> Placements \cup {Refused, NoPlacement}]
    /\ unreadable \subseteq Kinds /\ altered \subseteq VMs
    /\ clock \in 0..MaxClock /\ changes \in 0..MaxChanges /\ faults \in 0..MaxFaults

Current == [life |-> life, finalized |-> finalized, spec |-> spec, status |-> status]

Init ==
    /\ life = [v \in VMs |-> "absent"]
    /\ finalized = {}
    /\ spec = [v \in VMs |-> NoSpec]
    /\ status = [v \in VMs |-> NoStatus]
    /\ store = Current
    /\ infra = {} /\ ending = {}
    /\ machine = [vk \in VMs \X Kinds |-> NoMachine]
    /\ pc = [v \in VMs |-> "idle"]
    /\ pass = [v \in VMs |-> NoPass]
    /\ lookups = [v \in VMs |-> Unread]
    /\ world \in [VMs -> Answers]
    /\ unreadable \in Outages /\ altered = {}
    /\ clock = 0 /\ changes = 0 /\ faults = 0

-----------------------------------------------------------------------------
Unchanged == UNCHANGED <<world, unreadable, altered, clock, changes, faults>>

Goto(v, stage) == pc' = [pc EXCEPT ![v] = stage]

\* The pass keeps what it read.
Learn(v, p) == pass' = [pass EXCEPT ![v] = p] /\ UNCHANGED lookups

EndPass(v) ==
    /\ Goto(v, "idle")
    /\ pass' = [pass EXCEPT ![v] = NoPass]
    /\ lookups' = [lookups EXCEPT ![v] = Unread]

Fresh == Lag \/ store = Current

\* Where a pass starts.  A paused VM is left alone, even when it is deleted; a
\* finalizer the store already shows is not written again.
Reconcile_deleting_first(v) ==
    /\ pc[v] = "idle" /\ store.life[v] # "absent" /\ Fresh
    /\ Goto(v, CASE store.life[v] = "deleting" -> "finRead"
                 [] store.spec[v].paused /\ store.life[v] # "deleting" -> "paused"
                 [] OTHER -> IF v \in store.finalized THEN "decide" ELSE "finalizer")
    /\ Learn(v, [NoPass EXCEPT !.spec = store.spec[v], !.status = store.status[v]])
    /\ UNCHANGED <<objects, store, infra, ending, machine>> /\ Unchanged

Reconcile(v) ==
    /\ pc[v] = "idle" /\ store.life[v] # "absent" /\ Fresh
    /\ Goto(v, CASE store.spec[v].paused -> "paused"
                 [] ~store.spec[v].paused /\ store.life[v] = "deleting" -> "finRead"
                 [] OTHER -> IF v \in store.finalized THEN "decide" ELSE "finalizer")
    /\ Learn(v, [NoPass EXCEPT !.spec = store.spec[v], !.status = store.status[v]])
    /\ UNCHANGED <<objects, store, infra, ending, machine>> /\ Unchanged

\* A merge patch of the finalizers, by name.  A VM that is gone is an error, and
\* one that is going takes no new finalizer.
ensure_finalizer(v) ==
    /\ pc[v] = "finalizer"
    /\ \/ /\ life[v] = "live" \/ v \in finalized
          /\ finalized' = finalized \cup {v}
          /\ Goto(v, "decide") /\ UNCHANGED <<pass, lookups>>
       \/ life[v] # "live" /\ v \notin finalized /\ EndPass(v) /\ UNCHANGED finalized
    /\ UNCHANGED <<life, spec, status, store, infra, ending, machine>> /\ Unchanged

\* The claims of every VM in the store, the pass's own VM as it was handed.
ClaimOn(address) ==
    IF address = NoAddress THEN {} ELSE {[net |-> "net", address |-> address]}

Contestants(v) ==
    [w \in {w \in VMs : store.life[w] # "absent"} \cup {v} |->
        LET s == IF w = v THEN pass[v].spec ELSE store.spec[w]
            t == IF w = v THEN pass[v].status ELSE store.status[w]
        IN  [born |-> s.born, declared |-> ClaimOn(s.address), held |-> ClaimOn(t.held)]]

evaluate_ignoring_drift(v, decision) == "InPlace"

\* Drift is a decision other than the recorded placement.
evaluate(v, decision) ==
    CASE pass[v].status.scheduled \in {NoPlacement, decision} -> "InPlace"
      [] pass[v].status.scheduled \notin {NoPlacement, decision} ->
            CASE pass[v].spec.policy = "Never" -> "StickToOld"
              [] pass[v].spec.policy = "Manual" ->
                    IF pass[v].spec.approved THEN "Recreate" ELSE "SurfaceOnly"
              [] OTHER -> "Recreate"    \* Automatic

Verdict_any_class(v, duplicate) ==
    CASE world[v] = Refused -> "refused"
      [] world[v] # Refused /\ duplicate -> "blockRead"
      [] world[v] = NoPlacement /\ ~duplicate -> "unschedulable"
      [] OTHER ->
            CASE evaluate(v, world[v]) = "InPlace" -> "apply"
              [] evaluate(v, world[v]) = "StickToOld" -> "stickRead"
              [] evaluate(v, world[v]) = "SurfaceOnly" -> "drifted"
              [] OTHER -> "recreate"

\* The first check that stops the pass names its next call.
Verdict(v, duplicate) ==
    CASE world[v] = Refused -> "refused"
      [] world[v] # Refused /\ duplicate -> "blockRead"
      [] world[v] = NoPlacement /\ ~duplicate -> "unschedulable"
      [] OTHER ->
            CASE KindOf[world[v]] = NoKind -> "noBuilder"
              [] KindOf[world[v]] # NoKind ->
                    CASE evaluate(v, world[v]) = "InPlace" -> "apply"
                      [] evaluate(v, world[v]) = "StickToOld" -> "stickRead"
                      [] evaluate(v, world[v]) = "SurfaceOnly" -> "drifted"
                      [] OTHER -> "recreate"

\* The reads of class, image, providers and VMs, and what they lead to.
Decide(v) ==
    /\ pc[v] = "decide" /\ Fresh
    /\ \E duplicate \in {duplicate_address(v, Contestants(v))} :
         Goto(v, Verdict(v, duplicate))
    /\ Learn(v, [pass[v] EXCEPT
                  !.want = IF world[v] \in Placements THEN world[v] ELSE NoPlacement])
    /\ UNCHANGED <<objects, store, infra, ending, machine>> /\ Unchanged

-----------------------------------------------------------------------------
\* Status writes.  Every one of them writes the whole status, built on the one
\* the pass was handed.

mirror_status_from_infra(t, ready) ==
    [t EXCEPT !.ready = t.isScheduled /\ t.valid /\ ready]

\* What the pass writes at each stage that writes the status.
Written(v) ==
    LET t == pass[v].status
    IN  CASE pc[v] = "paused" -> [t EXCEPT !.ready = FALSE]
          [] pc[v] = "refused" -> [t EXCEPT !.ready = FALSE]
          [] pc[v] \in {"unschedulable", "noBuilder"} ->
                [t EXCEPT !.isScheduled = FALSE, !.ready = FALSE]
          [] pc[v] = "drifted" -> [t EXCEPT !.valid = FALSE, !.ready = FALSE]
          [] pc[v] = "stickStatus" -> mirror_status_from_infra(t, pass[v].ready)
          [] pc[v] = "blockStatus" -> [t EXCEPT !.ready = FALSE]
          [] pc[v] = "mirror" ->
                [mirror_status_from_infra([t EXCEPT !.isScheduled = TRUE], pass[v].ready)
                    EXCEPT !.scheduled = pass[v].want, !.held = pass[v].spec.address]

StatusStages == {"paused", "refused", "unschedulable", "noBuilder", "drifted",
                 "stickStatus", "blockStatus", "mirror"}

\* A VM that is gone makes the patch an error: either way the pass is over.
patch_status(v) ==
    /\ pc[v] \in StatusStages
    /\ status' = [status EXCEPT ![v] = IF life[v] = "absent" THEN @ ELSE Written(v)]
    /\ EndPass(v)
    /\ UNCHANGED <<life, finalized, spec, store, infra, ending, machine>> /\ Unchanged

-----------------------------------------------------------------------------
\* Calls on infra CRs.

\* Server-side apply: a new CR, or the spec of the one that exists.
Apply(v) ==
    /\ pc[v] = "apply"
    /\ LET k == KindOf[pass[v].want]
           ready == <<v, k>> \in infra /\ machine[<<v, k>>].ready
       IN  /\ infra' = infra \cup {<<v, k>>}
           /\ machine' = [machine EXCEPT ![<<v, k>>] =
                [at |-> pass[v].want, address |-> pass[v].spec.address,
                 power |-> pass[v].spec.power, ready |-> ready]]
           /\ Learn(v, [pass[v] EXCEPT !.kind = k, !.ready = ready])
    /\ Goto(v, "mirror")
    /\ UNCHANGED <<objects, store, ending>> /\ Unchanged

\* DELETE of the CR of the new placement's kind; 404 is as good.
Recreate(v) ==
    /\ pc[v] = "recreate"
    /\ ending' = ending \cup ({<<v, KindOf[pass[v].want]>>} \cap infra)
    /\ Goto(v, "drifted") /\ UNCHANGED <<pass, lookups>>
    /\ UNCHANGED <<objects, store, infra, machine>> /\ Unchanged

\* GET of the CR of the new placement's kind; nothing is written without one.
StickRead(v) ==
    /\ pc[v] = "stickRead"
    /\ LET k == KindOf[pass[v].want]
       IN  \/ /\ <<v, k>> \in infra
              /\ Learn(v, [pass[v] EXCEPT !.ready = machine[<<v, k>>].ready])
              /\ Goto(v, "stickStatus")
           \/ <<v, k>> \notin infra /\ EndPass(v)
    /\ UNCHANGED <<objects, store, infra, ending, machine>> /\ Unchanged

\* The infra CR of a blocked VM, of whichever kind exists.
BlockRead(v) ==
    /\ pc[v] = "blockRead"
    /\ \/ /\ \A k \in Kinds : <<v, k>> \notin infra
          /\ Goto(v, "blockStatus") /\ UNCHANGED <<pass, lookups>>
       \/ \E k \in Kinds :
            /\ <<v, k>> \in infra
            /\ Learn(v, [pass[v] EXCEPT !.kind = k])
            /\ Goto(v, IF machine[<<v, k>>].power = pass[v].spec.power
                       THEN "blockStatus" ELSE "blockPower")
    /\ UNCHANGED <<objects, store, infra, ending, machine>> /\ Unchanged

BlockPower_withheld(v) ==
    /\ pc[v] = "blockPower"
    /\ Goto(v, "blockStatus") /\ UNCHANGED <<pass, lookups, machine>>
    /\ UNCHANGED <<objects, store, infra, ending>> /\ Unchanged

\* Merge patch of the power state of a blocked VM's infra CR, and nothing else.
BlockPower(v) ==
    /\ pc[v] = "blockPower"
    /\ \/ /\ <<v, pass[v].kind>> \in infra
          /\ machine' = [machine EXCEPT ![<<v, pass[v].kind>>] =
                            [@ EXCEPT !.power = pass[v].spec.power]]
          /\ Goto(v, "blockStatus") /\ UNCHANGED <<pass, lookups>>
       \/ <<v, pass[v].kind>> \notin infra /\ EndPass(v) /\ UNCHANGED machine
    /\ UNCHANGED <<objects, store, infra, ending>> /\ Unchanged

-----------------------------------------------------------------------------
\* The deletion cascade.

infra_state_missing_is_unknown(v, k) ==
    CASE k \in unreadable \/ <<v, k>> \notin infra -> "Unknown"
      [] OTHER -> IF <<v, k>> \in ending THEN "Terminating" ELSE "Present"

infra_state(v, k) ==
    CASE k \in unreadable -> "Unknown"
      [] k \notin unreadable ->
            IF <<v, k>> \notin infra THEN "Absent"
            ELSE IF <<v, k>> \in ending THEN "Terminating" ELSE "Present"

plan_finalize_unknown_is_absent(states) ==
    [delete |-> {k \in Kinds : states[k] = "Present"},
     remove_finalizer |-> \A k \in Kinds : states[k] \in {"Absent", "Unknown"}]

plan_finalize_all_or_nothing(states) ==
    [delete |-> IF \E k \in Kinds : states[k] = "Unknown" THEN {}
                ELSE {k \in Kinds : states[k] = "Present"},
     remove_finalizer |-> \A k \in Kinds : states[k] = "Absent"]

plan_finalize(states) ==
    [delete |-> {k \in Kinds : states[k] = "Present"},
     remove_finalizer |-> \A k \in Kinds : states[k] = "Absent"]

Cascade(v, states, stage) ==
    \/ stage = "idle" /\ EndPass(v)
    \/ /\ stage # "idle" /\ Goto(v, stage)
       /\ lookups' = [lookups EXCEPT ![v] = states]
       /\ UNCHANGED pass

\* Where the pass goes on: it plans once every kind has been looked up.
AfterRead(states) ==
    CASE \E k \in Kinds : states[k] = "Unread" -> "finRead"
      [] \A k \in Kinds : states[k] # "Unread" ->
            IF plan_finalize(states).delete # {} THEN "finDelete"
            ELSE IF plan_finalize(states).remove_finalizer THEN "finRemove" ELSE "idle"

Saw(v, k, state) ==
    \E states \in {[lookups[v] EXCEPT ![k] = state]} :
        Cascade(v, states, AfterRead(states))

\* GET of one kind.
FinRead(v, k) ==
    /\ pc[v] = "finRead" /\ lookups[v][k] = "Unread"
    /\ Saw(v, k, infra_state(v, k))
    /\ UNCHANGED <<objects, store, infra, ending, machine>> /\ Unchanged

\* DELETE of a kind that was present; the pass ends after the last one.
Deleted(v, k) ==
    \E states \in {[lookups[v] EXCEPT ![k] = "Terminating"]} :
        Cascade(v, states, IF plan_finalize(states).delete = {} THEN "idle" ELSE "finDelete")

FinDelete(v, k) ==
    /\ pc[v] = "finDelete" /\ k \in plan_finalize(lookups[v]).delete
    /\ ending' = ending \cup ({<<v, k>>} \cap infra)
    /\ Deleted(v, k)
    /\ UNCHANGED <<objects, store, infra, machine>> /\ Unchanged

\* The finalizer comes off, and a VM with a deletionTimestamp goes.
remove_finalizer(v) ==
    /\ pc[v] = "finRemove"
    /\ finalized' = finalized \ {v}
    /\ life' = [life EXCEPT ![v] = IF @ = "deleting" THEN "absent" ELSE @]
    /\ status' = [status EXCEPT ![v] = IF life[v] = "deleting" THEN NoStatus ELSE @]
    /\ spec' = [spec EXCEPT ![v] = IF life[v] = "deleting" THEN NoSpec ELSE @]
    /\ altered' = altered \cup {w \in {v} : life[w] = "deleting"}
    /\ EndPass(v)
    /\ UNCHANGED <<store, infra, ending, machine, world, unreadable, clock, changes, faults>>

-----------------------------------------------------------------------------
\* Faults: a call fails and the pass ends, or fails where the code goes on.

Fault ==
    /\ faults < MaxFaults /\ faults' = faults + 1
    /\ UNCHANGED <<world, unreadable, altered, clock, changes>>

Abort(v) ==
    /\ Fault /\ pc[v] # "idle"
    /\ EndPass(v)
    /\ UNCHANGED <<objects, store, infra, ending, machine>>

LookupFails(v, k) ==
    /\ Fault /\ pc[v] = "finRead" /\ lookups[v][k] = "Unread"
    /\ Saw(v, k, "Unknown")
    /\ UNCHANGED <<objects, store, infra, ending, machine>>

DeleteFails(v, k) ==
    /\ Fault /\ pc[v] = "finDelete" /\ k \in plan_finalize(lookups[v]).delete
    /\ Deleted(v, k)
    /\ UNCHANGED <<objects, store, infra, ending, machine>>

\* User data that does not resolve, or a builder that refuses.
BuildFails(v) ==
    /\ Fault /\ pc[v] = "apply"
    /\ Goto(v, "noBuilder") /\ UNCHANGED <<pass, lookups>>
    /\ UNCHANGED <<objects, store, infra, ending, machine>>

-----------------------------------------------------------------------------
\* The rest of the cluster.

Cluster == UNCHANGED <<store, pc, pass, lookups, unreadable, faults>>

Deliver ==
    /\ store' = Current
    /\ UNCHANGED <<objects, infra, ending, machine, pc, pass, lookups>> /\ Unchanged

Create(v, address, policy) ==
    /\ life[v] = "absent"
    /\ clock' \in {clock, clock + 1} /\ clock' <= MaxClock /\ (Ties \/ clock' > clock)
    /\ life' = [life EXCEPT ![v] = "live"]
    /\ spec' = [spec EXCEPT ![v] = [NoSpec EXCEPT !.address = address, !.policy = policy,
                                                  !.born = clock']]
    /\ UNCHANGED <<finalized, status, infra, ending, machine, world, altered, changes>>
    /\ Cluster

Change(what) ==
    what \in Changes /\ changes < MaxChanges /\ changes' = changes + 1
    /\ UNCHANGED clock /\ Cluster

Edited(v, s) == spec' = [spec EXCEPT ![v] = s]

\* Pausing a VM that is being deleted is left out: nothing is promised for it.
Pause(v) ==
    /\ Change("pause")
    /\ \/ life[v] = "live" /\ ~spec[v].paused /\ Edited(v, [spec[v] EXCEPT !.paused = TRUE])
       \/ life[v] # "absent" /\ spec[v].paused /\ Edited(v, [spec[v] EXCEPT !.paused = FALSE])
    /\ UNCHANGED <<life, finalized, status, infra, ending, machine, world, altered>>

EditAddress(v, address) ==
    /\ Change("edit") /\ life[v] = "live"
    /\ Edited(v, [spec[v] EXCEPT !.address = address])
    /\ altered' = altered \cup {v}
    /\ UNCHANGED <<life, finalized, status, infra, ending, machine, world>>

SetPower(v, power) ==
    /\ Change("power") /\ life[v] = "live"
    /\ Edited(v, [spec[v] EXCEPT !.power = power])
    /\ UNCHANGED <<life, finalized, status, infra, ending, machine, world, altered>>

Approve(v) ==
    /\ Change("approve") /\ life[v] = "live"
    /\ Edited(v, [spec[v] EXCEPT !.approved = TRUE])
    /\ UNCHANGED <<life, finalized, status, infra, ending, machine, world, altered>>

\* A deletionTimestamp, or the end of a VM no finalizer holds.
DeleteVm(v) ==
    /\ Change("delete") /\ life[v] = "live"
    /\ \/ v \in finalized /\ life' = [life EXCEPT ![v] = "deleting"]
          /\ UNCHANGED <<spec, status, altered>>
       \/ v \notin finalized /\ life' = [life EXCEPT ![v] = "absent"]
          /\ Edited(v, NoSpec) /\ status' = [status EXCEPT ![v] = NoStatus]
          /\ altered' = altered \cup {v}
    /\ UNCHANGED <<finalized, infra, ending, machine, world>>

\* Providers, classes, images or other VMs change what scheduling leads to.
Reschedule(v, answer) ==
    /\ Change("world") /\ world[v] # answer /\ world' = [world EXCEPT ![v] = answer]
    /\ UNCHANGED <<objects, infra, ending, machine, altered>>

\* Somebody deletes the infra CR.
Vanish(v, k) ==
    /\ Change("vanish") /\ <<v, k>> \in infra
    /\ ending' = ending \cup {<<v, k>>}
    /\ UNCHANGED <<objects, infra, machine, world, altered>>

\* The provider brings the machine up, and removes its own finalizer once the
\* backend VM of a CR being deleted is gone.
Provision(v, k) ==
    /\ <<v, k>> \in infra \ ending /\ ~machine[<<v, k>>].ready
    /\ machine' = [machine EXCEPT ![<<v, k>>] = [@ EXCEPT !.ready = TRUE]]
    /\ UNCHANGED <<objects, infra, ending>> /\ Cluster /\ Unchanged

Finish(v, k) ==
    /\ <<v, k>> \in ending
    /\ infra' = infra \ {<<v, k>>} /\ ending' = ending \ {<<v, k>>}
    /\ machine' = [machine EXCEPT ![<<v, k>>] = NoMachine]
    /\ UNCHANGED objects /\ Cluster /\ Unchanged

-----------------------------------------------------------------------------
Step(v) ==
    \/ Reconcile(v) \/ ensure_finalizer(v) \/ Decide(v) \/ patch_status(v) \/ Apply(v)
    \/ Recreate(v) \/ StickRead(v) \/ BlockRead(v) \/ BlockPower(v) \/ remove_finalizer(v)
    \/ \E k \in Kinds : FinRead(v, k) \/ FinDelete(v, k)

Failure(v) ==
    \/ Abort(v) \/ BuildFails(v)
    \/ \E k \in Kinds : LookupFails(v, k) \/ DeleteFails(v, k)

User(v) ==
    \/ \E a \in Addresses \cup {NoAddress} :
         EditAddress(v, a) \/ \E p \in Policies : Create(v, a, p)
    \/ \E p \in Powers : SetPower(v, p)
    \/ \E a \in Answers : Reschedule(v, a)
    \/ \E k \in Kinds : Vanish(v, k)
    \/ Pause(v) \/ Approve(v) \/ DeleteVm(v)

Backend(v, k) == Provision(v, k) \/ Finish(v, k)

Next ==
    \/ Deliver
    \/ \E v \in VMs : \/ Step(v) \/ Failure(v) \/ User(v)
                      \/ \E k \in Kinds : Backend(v, k)

Spec == Init /\ [][Next]_vars

\* Every pass ends in a requeue, the watch delivers, providers do their work.
FairSpec ==
    /\ Spec /\ WF_vars(Deliver)
    /\ \A v \in VMs : WF_vars(Step(v)) /\ \A k \in Kinds : WF_vars(Backend(v, k))

-----------------------------------------------------------------------------
\* Properties.

\* A VM is gone only after every infra CR of it is gone (finalize_vm): no guest
\* outlives its VirtualMachine, whatever lookups, deletes and passes fail.
NoDanglingInfra == \A v \in VMs, k \in Kinds : <<v, k>> \in infra => life[v] # "absent"

\* No pass deletes a guest of a paused VM (virtualmachine.rs:247).  The deletion
\* cascade never does, however late the store is: the VM is not paused when the
\* DELETE is sent.  A migration does not if its pass was handed a paused VM; a pause
\* that the store did not show when the pass began does not stop it.
PausedSpared ==
    [][\A v \in VMs, k \in Kinds :
          Step(v) /\ <<v, k>> \in ending' \ ending
          => IF pc[v] = "recreate" THEN ~pass[v].spec.paused ELSE ~spec[v].paused]_vars

\* Two guests are never configured with one address (address_conflict.rs): not
\* when their VMs were created at different times, under names not used before,
\* with the addresses they have.
AddressesExclusive ==
    \A vk, wl \in infra :
        /\ vk[1] # wl[1] /\ spec[vk[1]].born # spec[wl[1]].born
        /\ {vk[1], wl[1]} \cap altered = {} /\ machine[vk].address # NoAddress
        => machine[vk].address # machine[wl].address

\* An infra CR is where the VM's status records it to be.
PlacementRecorded ==
    \A vk \in infra : status[vk[1]].scheduled \in {NoPlacement, machine[vk].at}

\* Whatever the store shows and whichever calls are lost, a pass applies a guest
\* where the status it was handed records it, or for the first time; and it changes
\* the recorded placement only if that is not the one it was handed.  So a guest gets
\* a second place only from a pass that was handed a status without the first.
PlacementSticks ==
    [][\A v \in VMs :
          /\ Apply(v) => \A k \in Kinds : machine'[<<v, k>>] # machine[<<v, k>>] =>
                pass[v].status.scheduled \in {NoPlacement, machine'[<<v, k>>].at}
          /\ patch_status(v) /\ pass[v].status.scheduled = status[v].scheduled =>
                status[v].scheduled \in {NoPlacement, status'[v].scheduled}]_vars

\* A deleted VM goes, once it is not paused and every kind can be looked up.
DeletedVmGoes ==
    \A v \in VMs : (life[v] = "deleting" /\ ~spec[v].paused /\ unreadable = {})
                   ~> (life[v] # "deleting" \/ spec[v].paused)

\* A kind that cannot be looked up holds up nothing but itself (ADR-0090): the
\* guests of a deleted VM on the other kinds go.
CascadeIsolated ==
    \A v \in VMs, k \in Kinds :
        (life[v] = "deleting" /\ ~spec[v].paused /\ <<v, k>> \in infra
         /\ k \notin unreadable)
        ~> (<<v, k>> \notin infra \/ spec[v].paused)

Settled(v) == life[v] = "live" /\ ~spec[v].paused

\* Power follows the spec, on a VM blocked by a duplicate address too (ADR-0083).
PowerIsAsked ==
    \A v \in VMs, k \in Kinds :
        Settled(v) /\ <<v, k>> \in infra \ ending => machine[<<v, k>>].power = spec[v].power
PowerFollows == []<>PowerIsAsked

\* Placement drift under the Automatic policy ends in an infra CR at the new
\* placement (migration.rs).
MigrationCompletes ==
    []<>(\A v \in VMs : Settled(v) /\ world[v] \in Placements
                        => \E k \in Kinds : <<v, k>> \in infra /\ machine[<<v, k>>].at = world[v])
=============================================================================
