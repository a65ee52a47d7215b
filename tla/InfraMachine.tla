---------------------------- MODULE InfraMachine ----------------------------
(***************************************************************************)
(* What the machine reconcilers of the providers share: one machine name,  *)
(* deleted and created again under new uids, the copy of it the controller *)
(* hands to a pass, and the pass.  Every call of the API server or of the  *)
(* backend is a step; a pass may fail, or its process stop, at any of      *)
(* them, and is then tried again.  A provider's module says what backend   *)
(* and the status fields of obj are.                                       *)
(***************************************************************************)
EXTENDS Integers, FiniteSets

CONSTANTS
    MaxUid,         \* how often the machine is created
    MaxFaults,      \* calls that fail, and passes that stop half-way
    MaxChanges      \* what users and administrators do

ASSUME BoundsAssumption == MaxUid \in Nat \ {0} /\ MaxFaults \in Nat /\ MaxChanges \in Nat

VARIABLES
    obj,        \* the machine, as the API server holds it
    cache,      \* as the controller's store holds it
    backend,    \* what the provider's backend holds
    provider,   \* whether the Provider exists
    pc, pass,   \* the pass: its next call, and what it knows
    loss,       \* ghost: why a backend object was left to the administrator
    faults, changes

vars == <<obj, cache, backend, provider, pc, pass, loss, faults, changes>>

Uids == 1..MaxUid
Lives == {"absent", "live", "deleting"}

\* `blank` is a machine without a status.
Created(blank, u) == [blank EXCEPT !.life = "live", !.uid = u]

Keep == UNCHANGED <<provider, changes>>
KeepApi == UNCHANGED <<obj, cache>>
OnlyWorld == UNCHANGED <<cache, pc, pass, faults>>

Fail == faults < MaxFaults /\ faults' = faults + 1

Goto(stage) == pc' = stage /\ UNCHANGED <<pass, loss>>

EndPass(none) == pc' = "idle" /\ pass' = none

-----------------------------------------------------------------------------
(* The calls every reconciler makes of the API server.                     *)

\* The cached object is what the controller hands a pass.
StartPass(none, first) ==
    /\ pc = "idle" /\ cache.life # "absent"
    /\ pc' = first /\ pass' = [none EXCEPT !.snap = cache]
    /\ UNCHANGED <<loss, faults, backend>> /\ KeepApi /\ Keep

\* What is written by name while the machine was created again meanwhile.
Namesake == IF obj.uid # pass.snap.uid THEN {"namesake"} ELSE {}

\* The patch names the machine only, and replaces the list of finalizers; on a
\* deleted machine the API server takes it only when it changes nothing.
EnsureFinalizer(none, next) ==
    /\ pc = "finalizer"
    /\ \/ /\ pass.snap.fin /\ Goto(next) /\ UNCHANGED <<obj, faults>>
       \/ /\ ~pass.snap.fin /\ (obj.life = "live" \/ (obj.life = "deleting" /\ obj.fin))
          /\ obj' = [obj EXCEPT !.fin = TRUE] /\ loss' = loss \cup Namesake
          /\ pc' = next /\ UNCHANGED <<pass, faults>>
       \/ ~pass.snap.fin /\ obj.life = "absent" /\ EndPass(none) /\ UNCHANGED <<obj, loss, faults>>
       \/ Fail /\ EndPass(none) /\ UNCHANGED <<obj, loss>>
    /\ UNCHANGED <<cache, backend>> /\ Keep

FinalizerRemoved(o) ==
    IF o.life = "deleting" THEN [o EXCEPT !.life = "absent", !.fin = FALSE]
                           ELSE [o EXCEPT !.fin = FALSE]

RemoveFinalizer(none) ==
    /\ pc = "finRemove"
    /\ \/ /\ obj.life # "absent" /\ pass.snap.fin
          /\ obj' = FinalizerRemoved(obj) /\ loss' = loss \cup Namesake /\ UNCHANGED faults
       \/ (obj.life = "absent" \/ ~pass.snap.fin) /\ UNCHANGED <<obj, loss, faults>>
       \/ Fail /\ UNCHANGED <<obj, loss>>
    /\ EndPass(none) /\ UNCHANGED <<cache, backend>> /\ Keep

\* An apply of fields of the machine, by name.  `written` is what it leaves of
\* the machine when it is there.  One that fails may have been applied.
PatchMachine(written, next, onFail, onGone) ==
    \/ /\ obj.life # "absent" /\ obj' = written /\ loss' = loss \cup Namesake
       /\ \/ next /\ UNCHANGED faults
          \/ Fail /\ onFail
    \/ obj.life = "absent" /\ UNCHANGED <<obj, loss, faults>> /\ onGone
    \/ Fail /\ onFail /\ UNCHANGED <<obj, loss>>

\* The process stops between two calls.
Crash(none) ==
    /\ pc # "idle" /\ Fail /\ EndPass(none)
    /\ UNCHANGED <<loss, backend>> /\ KeepApi /\ Keep

-----------------------------------------------------------------------------
(* Everybody else.                                                         *)

Sync ==
    /\ cache # obj /\ cache' = obj
    /\ UNCHANGED <<obj, backend, pc, pass, loss, faults>> /\ Keep

Change == changes < MaxChanges /\ changes' = changes + 1

Create(blank) ==
    /\ Change /\ obj.life = "absent" /\ obj.uid < MaxUid
    /\ obj' = Created(blank, obj.uid + 1)
    /\ UNCHANGED <<backend, provider, loss>> /\ OnlyWorld

Delete ==
    /\ Change /\ obj.life = "live"
    /\ obj' = [obj EXCEPT !.life = IF obj.fin THEN "deleting" ELSE "absent"]
    /\ UNCHANGED <<backend, provider, loss>> /\ OnlyWorld

\* A user takes the finalizer off a deleted machine by hand.  A pass that is at
\* one of the `noticing` stages will find the machine gone and clean up.
RemoveByHand(noticing) ==
    /\ Change /\ obj.life = "deleting"
    /\ obj' = FinalizerRemoved(obj)
    /\ loss' = loss \cup IF pc \in noticing THEN {"noticed"} ELSE {"forced"}
    /\ UNCHANGED <<backend, provider>> /\ OnlyWorld

ProviderChange ==
    /\ Change /\ provider' = ~provider
    /\ UNCHANGED <<obj, backend, loss>> /\ OnlyWorld

\* What the provider does, as opposed to users and administrators.
ProviderStep == changes' = changes

\* A machine is still the provider's business while a pass for it is under way.
MachineOf(u) ==
    IF obj.uid = u /\ obj.life # "absent" THEN obj.life
    ELSE IF pc \notin {"idle", "read"} /\ pass.snap.uid = u THEN "deleting" ELSE "absent"

\* A finalizer taken off while the VM is made does no harm, if nothing fails too; and
\* a vTPM whose manufacture was stopped is not left to anybody.
Excused == loss \ {"noticed", "setup"} # {} \/ ("noticed" \in loss /\ faults > 0)

=============================================================================
