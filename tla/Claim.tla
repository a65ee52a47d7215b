------------------------------- MODULE Claim -------------------------------
(***************************************************************************)
(* The VirtualMachineClaim reconciler (claim.rs, claim_plan.rs): a claim   *)
(* takes one warm member of a pool, holds it until it is deleted or its    *)
(* TTL runs out, destroys it and lets go.                                  *)
(*                                                                         *)
(* A reconcile of one claim is single-flight and is a sequence of calls to *)
(* the Kubernetes API server, one action each; other claims, users, the    *)
(* pool, the garbage collector and the VirtualMachine controller run       *)
(* between any two calls.  The claim a pass works from comes from the      *)
(* controller's watch cache, which trails the API server; members are read *)
(* from the API server itself.                                             *)
(***************************************************************************)
EXTENDS Naturals, Sequences, FiniteSets

CONSTANTS
    Claims,       \* claim names
    Members,      \* names of pool members; generateName never reuses one
    None,         \* "no claim" / "no member"
    TTL,          \* spec.ttlSeconds of every claim, in ticks
    EndOfTime,    \* Timestamp::MAX, where a deadline saturates
    MaxNow,       \* bound on the clock
    MaxLives,     \* bound on how often one claim name is created
    MaxLag,       \* versions the watch cache may trail the API server by
    MaxFaults     \* bound on failed calls and controller crashes

ASSUME ConstantsAssumption ==
    /\ None \notin Claims \cup Members
    /\ TTL \in Nat \ {0}
    /\ {EndOfTime, MaxNow, MaxLives, MaxLag, MaxFaults} \subseteq Nat
    /\ EndOfTime > 0

VARIABLES
    vm,      \* vm[m]: the VirtualMachine objects of the pool
    claim,   \* claim[c]: the VirtualMachineClaim objects in the API server
    feed,    \* feed[c]: versions of claim c the watch has yet to deliver
    seen,    \* seen[c]: claim c in the controller's cache
    due,     \* due[c]: a watch event or a requeue will start a pass over c
    rc,      \* rc[c]: the reconcile pass of claim c
    lives,   \* lives[c]: how often claim c was created (its last uid)
    now,     \* the clock
    faults   \* failed calls so far

vars == <<vm, claim, feed, seen, due, rc, lives, now, faults>>

Phases == {"none", "Pending", "Bound", "Releasing", "Failed"}

\* uid 0 is no object at all; exp 0 is an unset status.expiresAt.
ClaimObjects ==
    [uid: 0..MaxLives, del: BOOLEAN, fin: BOOLEAN, ref: Members \cup {None},
     exp: Nat, phase: Phases]

NoClaim == [uid |-> 0, del |-> FALSE, fin |-> FALSE, ref |-> None, exp |-> 0,
            phase |-> "none"]

\* The API server's life of an object: "deleting" has a deletionTimestamp and
\* waits for its finalizers.  owner is the uid of the owning claim, 0 the pool.
VmObjects ==
    [st: {"absent", "live", "deleting", "gone"}, label: Claims \cup {None},
     owner: 0..MaxLives, ready: BOOLEAN]

NoVm(st) == [st |-> st, label |-> None, owner |-> 0, ready |-> FALSE]

Exists(m) == vm[m].st \in {"live", "deleting"}

Stages ==
    {"idle", "pick", "bindFin", "bindGet", "bindPatch", "bindStatus",
     "waitFin", "waitStatus", "holdFin", "holdStatus", "failFin", "failStatus",
     "relDelete", "relStatus", "relLetGo"}

\* obj: the cached claim of the pass; tgt: the member it works on; at: the
\* instant it read the clock; fresh: nobody wrote tgt since the pass GET it,
\* so the resourceVersion it carries is still current.
Passes == [pc: Stages, obj: ClaimObjects, tgt: Members \cup {None}, at: Nat,
           fresh: BOOLEAN]

NoPass == [pc |-> "idle", obj |-> NoClaim, tgt |-> None, at |-> 0,
           fresh |-> FALSE]

TypeOK ==
    /\ vm \in [Members -> VmObjects]
    /\ claim \in [Claims -> ClaimObjects]
    /\ feed \in [Claims -> Seq(ClaimObjects)]
    /\ seen \in [Claims -> ClaimObjects]
    /\ due \in [Claims -> BOOLEAN]
    /\ rc \in [Claims -> Passes]
    /\ lives \in [Claims -> 0..MaxLives]
    /\ now \in Nat
    /\ faults \in Nat

Init ==
    /\ vm = [m \in Members |-> NoVm("absent")]
    /\ claim = [c \in Claims |-> NoClaim]
    /\ feed = [c \in Claims |-> <<>>]
    /\ seen = [c \in Claims |-> NoClaim]
    /\ due = [c \in Claims |-> FALSE]
    /\ rc = [c \in Claims |-> NoPass]
    /\ lives = [c \in Claims |-> 0]
    /\ now = 1
    /\ faults = 0

-----------------------------------------------------------------------------
\* Writes.  Every call that changes an object goes through one of these.

\* Claim c becomes o.  A write that changes nothing is no new version; a new
\* version queues behind the ones the watch has yet to deliver, and the oldest
\* is delivered at once when the cache would trail by more than MaxLag.
WriteClaim(c, o, requeue) ==
    LET q == IF o = claim[c] THEN feed[c] ELSE Append(feed[c], o)
        full == Len(q) > MaxLag
    IN  /\ claim' = [claim EXCEPT ![c] = o]
        /\ seen' = [seen EXCEPT ![c] = IF full THEN Head(q) ELSE @]
        /\ feed' = [feed EXCEPT ![c] = IF full THEN Tail(q) ELSE q]
        /\ due' = [due EXCEPT ![c] = @ \/ full \/ requeue]

\* The reconcile states once member m was written: any resourceVersion of m
\* a pass carries is out of date.
Outdate(m, passes) ==
    [d \in Claims |-> IF passes[d].tgt = m
                      THEN [passes[d] EXCEPT !.fresh = FALSE] ELSE passes[d]]

Goto(c, stage) == rc' = [rc EXCEPT ![c].pc = stage]

EndPass(c) == rc' = [rc EXCEPT ![c] = NoPass]
NoWrite == UNCHANGED <<claim, feed, seen>>

\* A failed call ends the pass; error_policy requeues the claim.
FailCall(c) == EndPass(c) /\ NoWrite /\ due' = [due EXCEPT ![c] = TRUE]

-----------------------------------------------------------------------------
\* The decisions of claim_plan.rs.

is_expired(exp, t) == exp # 0 /\ t >= exp

expiry_wrapping(t) ==
    IF t + TTL > EndOfTime THEN t + TTL - 2 * EndOfTime - 2 ELSE t + TTL

expiry(t) == IF t + TTL > EndOfTime THEN EndOfTime ELSE t + TTL

next_step_rebinding(o, boundExists, t) ==
    IF o.del \/ is_expired(o.exp, t)
    THEN IF o.ref = None THEN "relLetGo" ELSE "relDelete"
    ELSE IF boundExists THEN "holdFin" ELSE "pick"

next_step_outliving_its_ttl(o, boundExists, t) ==
    IF o.del
    THEN IF o.ref = None THEN "relLetGo" ELSE "relDelete"
    ELSE IF o.ref = None THEN "pick"
         ELSE IF boundExists THEN "holdFin" ELSE "failFin"

next_step_ignoring_deletion(o, boundExists, t) ==
    IF is_expired(o.exp, t)
    THEN IF o.ref = None THEN "relLetGo" ELSE "relDelete"
    ELSE IF o.ref = None THEN "pick"
         ELSE IF boundExists THEN "holdFin" ELSE "failFin"

\* next_step without a candidate: "pick" stands for Bind or Wait, which the
\* reconciler tells apart once it listed the members.
next_step(o, boundExists, t) ==
    IF o.del \/ is_expired(o.exp, t)
    THEN IF o.ref = None THEN "relLetGo" ELSE "relDelete"
    ELSE IF o.ref = None THEN "pick"
         ELSE IF boundExists THEN "holdFin" ELSE "failFin"

\* The members already labelled for c: finishing that bind comes first.
member_bound_to(c) == {m \in Members : Exists(m) /\ vm[m].label = c}

\* A Ready member: not being deleted, no claim label, readiness condition True.
IsReady(m) == vm[m].st = "live" /\ vm[m].label = None /\ vm[m].ready

\* Which Ready member is taken (revision, longest ready, name) is left open.
pick_member == {m \in Members : IsReady(m)}

Candidates_always_new(c) == pick_member

Candidates(c) == IF member_bound_to(c) # {} THEN member_bound_to(c)
                 ELSE pick_member

-----------------------------------------------------------------------------
\* One reconcile pass.

\* The pass reads its claim from the cache and looks its member up.
Reconcile(c) ==
    /\ rc[c].pc = "idle"
    /\ seen[c].uid # 0
    /\ LET o == seen[c]
       IN rc' = [rc EXCEPT ![c] =
            [pc |-> next_step(o, o.ref # None /\ Exists(o.ref), now),
             obj |-> o, tgt |-> o.ref, at |-> now, fresh |-> FALSE]]
    /\ due' = [due EXCEPT ![c] = FALSE]
    /\ NoWrite
    /\ UNCHANGED <<vm, lives, now, faults>>

\* LIST the members and take a candidate; with none, wait.  A pool that is not
\* there, at any time, is no candidate either.
Pick(c) ==
    /\ rc[c].pc = "pick"
    /\ \/ \E m \in Candidates(c) :
             rc' = [rc EXCEPT ![c].pc = "bindFin", ![c].tgt = m]
       \/ Goto(c, "waitFin")
    /\ NoWrite
    /\ UNCHANGED <<vm, due, lives, now, faults>>

AfterFin == [bindFin |-> "bindGet", waitFin |-> "waitStatus",
             holdFin |-> "holdStatus", failFin |-> "failStatus"]

\* ensure_finalizer: a merge patch by name, skipped when the cached claim has
\* the finalizer.  The API server refuses to add one to a deleting object.
EnsureFinalizer(c) ==
    /\ rc[c].pc \in DOMAIN AfterFin
    /\ \/ /\ rc[c].obj.fin
          /\ Goto(c, AfterFin[rc[c].pc])
          /\ NoWrite /\ UNCHANGED due
       \/ /\ ~rc[c].obj.fin
          /\ claim[c].uid # 0 /\ (claim[c].del => claim[c].fin)
          /\ Goto(c, AfterFin[rc[c].pc])
          /\ WriteClaim(c, [claim[c] EXCEPT !.fin = TRUE], FALSE)
       \/ /\ ~rc[c].obj.fin
          /\ claim[c].uid = 0 \/ (claim[c].del /\ ~claim[c].fin)
          /\ FailCall(c)
    /\ UNCHANGED <<vm, lives, now, faults>>

\* bind reads the member again; the patch will carry this resourceVersion.
BindGet(c) ==
    /\ rc[c].pc = "bindGet"
    /\ IF Exists(rc[c].tgt)
       THEN /\ rc' = [rc EXCEPT ![c].pc = "bindPatch", ![c].fresh = TRUE]
            /\ NoWrite /\ UNCHANGED due
       ELSE FailCall(c)
    /\ UNCHANGED <<vm, lives, now, faults>>

\* The bind itself: label the member and re-parent it to this claim's uid, or
\* lose the race with a 409 and start over.
BindPatch(c) ==
    /\ rc[c].pc = "bindPatch"
    /\ LET m == rc[c].tgt
       IN IF rc[c].fresh
          THEN /\ vm' = [vm EXCEPT ![m].label = c, ![m].owner = rc[c].obj.uid]
               /\ rc' = [Outdate(m, rc) EXCEPT ![c].pc = "bindStatus"]
               /\ NoWrite /\ UNCHANGED due
          ELSE FailCall(c) /\ UNCHANGED vm
    /\ UNCHANGED <<lives, now, faults>>

\* patch_status, the last call of a pass: a merge patch by name.
PatchStatus(c, o, requeue) ==
    /\ IF claim[c].uid # 0
       THEN WriteClaim(c, o, requeue) /\ EndPass(c)
       ELSE FailCall(c)
    /\ UNCHANGED <<vm, lives, now, faults>>

BindStatus(c) ==
    /\ rc[c].pc = "bindStatus"
    /\ PatchStatus(c, [claim[c] EXCEPT !.phase = "Bound", !.ref = rc[c].tgt,
                                       !.exp = expiry(rc[c].at)], TRUE)

HoldStatus(c) ==
    /\ rc[c].pc = "holdStatus"
    /\ PatchStatus(c, [claim[c] EXCEPT !.phase = "Bound"], TRUE)

WaitStatus(c) ==
    /\ rc[c].pc = "waitStatus"
    /\ PatchStatus(c, [claim[c] EXCEPT !.phase = "Pending"], TRUE)

\* The one status patch that ends in await_change.
FailStatus(c) ==
    /\ rc[c].pc = "failStatus"
    /\ PatchStatus(c, [claim[c] EXCEPT !.phase = "Failed"], FALSE)

ReleaseDelete_not_waiting(c) ==
    /\ rc[c].pc = "relDelete"
    /\ vm' = [vm EXCEPT ![rc[c].tgt].st = IF @ = "live" THEN "deleting" ELSE @]
    /\ rc' = [Outdate(rc[c].tgt, rc) EXCEPT ![c].pc = "relLetGo"]
    /\ NoWrite
    /\ UNCHANGED <<due, lives, now, faults>>

\* release: delete the member and come back, until the answer is 404.
ReleaseDelete(c) ==
    /\ rc[c].pc = "relDelete"
    /\ LET m == rc[c].tgt
       IN \/ /\ vm[m].st = "live"
             /\ vm' = [vm EXCEPT ![m].st = "deleting"]
             /\ rc' = [Outdate(m, rc) EXCEPT ![c].pc = "relStatus"]
          \/ vm[m].st = "deleting" /\ Goto(c, "relStatus") /\ UNCHANGED vm
          \/ ~Exists(m) /\ Goto(c, "relLetGo") /\ UNCHANGED vm
    /\ NoWrite
    /\ UNCHANGED <<due, lives, now, faults>>

ReleaseStatus(c) ==
    /\ rc[c].pc = "relStatus"
    /\ PatchStatus(c, [claim[c] EXCEPT !.phase = "Releasing"], TRUE)

\* The claim object without its finalizer: gone when it was being deleted.
WithoutFinalizer(o) == IF o.del THEN NoClaim ELSE [o EXCEPT !.fin = FALSE]

\* The claim object once deleted: gone, or waiting for its finalizer.
Deleted(o) == IF o.fin THEN [o EXCEPT !.del = TRUE] ELSE NoClaim

\* remove_finalizer, skipped when the cached claim does not have it.
RemoveFinalizer(c) ==
    /\ rc[c].pc = "relLetGo"
    /\ rc[c].obj.del
    /\ \/ ~rc[c].obj.fin /\ EndPass(c) /\ NoWrite /\ UNCHANGED due
       \/ /\ rc[c].obj.fin /\ claim[c].uid # 0
          /\ WriteClaim(c, WithoutFinalizer(claim[c]), FALSE)
          /\ EndPass(c)
       \/ rc[c].obj.fin /\ claim[c].uid = 0 /\ FailCall(c)
    /\ UNCHANGED <<vm, lives, now, faults>>

\* Expired and nobody deleted it: the controller deletes the claim itself.
DeleteExpired(c) ==
    /\ rc[c].pc = "relLetGo"
    /\ ~rc[c].obj.del
    /\ WriteClaim(c, Deleted(claim[c]), TRUE)
    /\ EndPass(c)
    /\ UNCHANGED <<vm, lives, now, faults>>

\* A call fails, its answer is lost, or the controller crashes.
Abort(c) ==
    /\ rc[c].pc # "idle"
    /\ faults < MaxFaults
    /\ faults' = faults + 1
    /\ FailCall(c)
    /\ UNCHANGED <<vm, lives, now>>

Pass(c) ==
    \/ Pick(c) \/ EnsureFinalizer(c)
    \/ BindGet(c) \/ BindPatch(c) \/ BindStatus(c)
    \/ HoldStatus(c) \/ WaitStatus(c) \/ FailStatus(c)
    \/ ReleaseDelete(c) \/ ReleaseStatus(c) \/ RemoveFinalizer(c)
    \/ DeleteExpired(c)

-----------------------------------------------------------------------------
\* The rest of the cluster.

\* The watch delivers the next version of a claim.
Deliver(c) ==
    /\ feed[c] # <<>>
    /\ seen' = [seen EXCEPT ![c] = Head(feed[c])]
    /\ feed' = [feed EXCEPT ![c] = Tail(feed[c])]
    /\ due' = [due EXCEPT ![c] = TRUE]
    /\ UNCHANGED <<vm, claim, rc, lives, now, faults>>

\* A user creates a claim, or deletes one.
CreateClaim(c) ==
    /\ claim[c].uid = 0
    /\ lives[c] < MaxLives
    /\ lives' = [lives EXCEPT ![c] = @ + 1]
    /\ WriteClaim(c, [NoClaim EXCEPT !.uid = lives[c] + 1], FALSE)
    /\ UNCHANGED <<vm, rc, now, faults>>

DeleteClaim(c) ==
    /\ claim[c].uid # 0
    /\ ~claim[c].del
    /\ WriteClaim(c, Deleted(claim[c]), FALSE)
    /\ UNCHANGED <<vm, rc, lives, now, faults>>

SetVm(m, o) ==
    /\ vm' = [vm EXCEPT ![m] = o]
    /\ rc' = Outdate(m, rc)
    /\ NoWrite
    /\ UNCHANGED <<due, lives, now, faults>>

\* The pool creates a member; the VirtualMachine controller reports readiness
\* (of a bound member nothing here reads it any more).
CreateMember(m) ==
    /\ vm[m].st = "absent"
    /\ SetVm(m, NoVm("live"))

ReportReady(m) ==
    /\ vm[m].st = "live" /\ vm[m].label = None
    /\ SetVm(m, [vm[m] EXCEPT !.ready = ~@])

\* Somebody else deletes a member: the pool (recycling from a snapshot that
\* may predate the bind), an operator, or the garbage collector of a pool.
DeleteMember(m) ==
    /\ vm[m].st = "live"
    /\ SetVm(m, [vm[m] EXCEPT !.st = "deleting"])

\* The garbage collector deletes a member whose owning claim is gone.
Orphaned(m) == vm[m].owner # 0 /\ claim[vm[m].label].uid # vm[m].owner

CollectGarbage(m) ==
    /\ vm[m].st = "live"
    /\ Orphaned(m)
    /\ SetVm(m, [vm[m] EXCEPT !.st = "deleting"])

\* The backend VM is destroyed and the member's finalizer removed.
FinishMember(m) ==
    /\ vm[m].st = "deleting"
    /\ SetVm(m, NoVm("gone"))

Tick ==
    /\ now < MaxNow
    /\ now' = now + 1
    /\ UNCHANGED <<vm, claim, feed, seen, due, rc, lives, faults>>

Next ==
    \/ \E c \in Claims : \/ Reconcile(c) \/ Pass(c) \/ Abort(c)
                         \/ Deliver(c) \/ CreateClaim(c) \/ DeleteClaim(c)
    \/ \E m \in Members : \/ CreateMember(m) \/ ReportReady(m)
                          \/ DeleteMember(m) \/ CollectGarbage(m)
                          \/ FinishMember(m)
    \/ Tick

Spec == Init /\ [][Next]_vars

\* A due claim is reconciled and a pass that started goes on; the watch
\* delivers; providers finish deletions; the clock runs.
Fairness ==
    /\ \A c \in Claims : /\ WF_vars(due[c] /\ Reconcile(c))
                         /\ WF_vars(Pass(c))
                         /\ WF_vars(Deliver(c))
    /\ \A m \in Members : WF_vars(FinishMember(m)) /\ WF_vars(CollectGarbage(m))
    /\ WF_vars(Tick)

FairSpec == Spec /\ Fairness

-----------------------------------------------------------------------------
\* Properties.

\* A claim never has two members: however often a pass is cut short between
\* the label on the member and the status of the claim, and however old the
\* cached claim of the next pass, pick finds the member already labelled
\* (member_bound_to) before it takes another.
OneMemberPerClaim ==
    \A c \in Claims : \A m, n \in member_bound_to(c) : m = n

\* release lets a claim go only when the member its pass read from the claim's
\* status has left the API server: no other reconcile, user or restart between
\* the 404 and the removal of the finalizer brings it back.
ReleaseAfterDestroy ==
    \A c \in Claims : rc[c].pc = "relLetGo" /\ rc[c].obj.ref # None
                      => ~Exists(rc[c].obj.ref)

\* A member is bound at most once in its life (claim.rs): the claim label,
\* once written, names the same claim until the member is gone.
BoundOnce ==
    [][\A m \in Members : vm[m].label # None /\ vm'[m].st # "gone"
                          => vm'[m].label = vm[m].label]_vars

\* Claims are never rebound, and nothing extends a deadline, except by a pass whose
\* cached claim predates the bind it is about to repeat: whatever happens to the
\* member, a pass that knows of the bind changes neither.
ReboundOnlyIfStale ==
    [][\A c \in Claims :
         /\ claim[c].ref # None /\ claim'[c].uid = claim[c].uid
         /\ <<claim'[c].ref, claim'[c].exp>> # <<claim[c].ref, claim[c].exp>>
         => rc[c].obj.ref = None]_vars

\* A member is destroyed once the deadline of the claim that names it passed,
\* whatever calls fail on the way.
OverdueSandboxGoes ==
    \A c \in Claims : \A m \in Members :
        claim[c].ref = m /\ is_expired(claim[c].exp, now) ~> ~Exists(m)

\* A deleted claim goes away: release never waits for something that does not
\* happen, nor stops in await_change with its finalizer on.
DeletedClaimGoes ==
    \A c \in Claims : \A u \in 1..MaxLives :
        claim[c].uid = u /\ claim[c].del ~> claim[c].uid # u
=============================================================================
