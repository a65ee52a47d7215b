---------------------------- MODULE ClaimProofs ----------------------------
(***************************************************************************)
(* Proofs about Claim, for every number of claims and members, every cache *)
(* lag, every number of faults and of lives of a claim name.               *)
(***************************************************************************)
EXTENDS Claim, TLAPS

\* A write to a claim keeps the claim, its undelivered versions and its cached
\* copy well-typed.
LEMMA WriteClaimType ==
    ASSUME TypeOK, NEW c \in Claims, NEW o \in ClaimObjects,
           NEW r \in BOOLEAN, WriteClaim(c, o, r)
    PROVE  /\ claim' \in [Claims -> ClaimObjects]
           /\ feed' \in [Claims -> Seq(ClaimObjects)]
           /\ seen' \in [Claims -> ClaimObjects]
           /\ due' \in [Claims -> BOOLEAN]
<1> DEFINE q == IF o = claim[c] THEN feed[c] ELSE Append(feed[c], o)
           full == Len(q) > MaxLag
<1>1. q \in Seq(ClaimObjects) /\ MaxLag \in Nat
  BY ConstantsAssumption DEF TypeOK
<1>2. full => q # <<>>
  <2>1. q = <<>> => Len(q) = 0
    OBVIOUS
  <2> QED BY <1>1, <2>1
<1>3. full => Head(q) \in ClaimObjects /\ Tail(q) \in Seq(ClaimObjects)
  BY <1>1, <1>2
<1>4. claim' \in [Claims -> ClaimObjects]
  BY DEF TypeOK, WriteClaim
<1>5. /\ feed' = [feed EXCEPT ![c] = IF full THEN Tail(q) ELSE q]
      /\ seen' = [seen EXCEPT ![c] = IF full THEN Head(q) ELSE @]
      /\ due' = [due EXCEPT ![c] = @ \/ full \/ r]
  BY Zenon DEF WriteClaim
<1> HIDE DEF q, full
<1>6. feed' \in [Claims -> Seq(ClaimObjects)] /\ seen' \in [Claims -> ClaimObjects]
  BY <1>1, <1>3, <1>5 DEF TypeOK
<1>7. due' \in [Claims -> BOOLEAN]
  BY <1>5 DEF TypeOK
<1> QED BY <1>4, <1>6, <1>7

\* A write to a member leaves every pass as it was, but for the currency of
\* the resourceVersion it carries.
LEMMA OutdatePasses ==
    ASSUME rc \in [Claims -> Passes], NEW m
    PROVE  /\ Outdate(m, rc) \in [Claims -> Passes]
           /\ \A d \in Claims : /\ Outdate(m, rc)[d].pc = rc[d].pc
                                /\ Outdate(m, rc)[d].obj = rc[d].obj
                                /\ Outdate(m, rc)[d].tgt = rc[d].tgt
                                /\ Outdate(m, rc)[d].at = rc[d].at
BY DEF Outdate, Passes

\* What the updates of the model do to the types of objects and passes.
LEMMA ClaimUpdates ==
    ASSUME NEW o \in ClaimObjects
    PROVE  /\ \A b \in BOOLEAN : [o EXCEPT !.fin = b] \in ClaimObjects
           /\ \A p \in Phases : [o EXCEPT !.phase = p] \in ClaimObjects
           /\ \A u \in 0..MaxLives : [o EXCEPT !.uid = u] \in ClaimObjects
           /\ \A p \in Phases, r \in Members \cup {None}, e \in Nat :
                 [o EXCEPT !.phase = p, !.ref = r, !.exp = e] \in ClaimObjects
BY DEF ClaimObjects

\* What the updates of the model do to the type of a pass.
LEMMA PassUpdates ==
    ASSUME NEW s \in Passes, NEW p \in Stages
    PROVE  /\ [s EXCEPT !.pc = p] \in Passes
           /\ \A t \in Members \cup {None} :
                 [s EXCEPT !.pc = p, !.tgt = t] \in Passes
           /\ \A b \in BOOLEAN : [s EXCEPT !.pc = p, !.fresh = b] \in Passes
BY DEF Passes

\* What the updates of the model do to the type of a member.
LEMMA VmUpdates ==
    ASSUME NEW o \in VmObjects
    PROVE  /\ [o EXCEPT !.st = "deleting"] \in VmObjects
           /\ [o EXCEPT !.ready = ~@] \in VmObjects
           /\ \A c \in Claims, u \in 0..MaxLives :
                 [o EXCEPT !.label = c, !.owner = u] \in VmObjects
BY DEF VmObjects

\* A pass that becomes s stays a pass.
LEMMA PassSet ==
    ASSUME rc \in [Claims -> Passes], NEW c \in Claims, NEW s \in Passes
    PROVE  [rc EXCEPT ![c] = s] \in [Claims -> Passes]
OBVIOUS

\* A pass that moves on to another call stays a pass.
LEMMA GotoType ==
    ASSUME rc \in [Claims -> Passes], NEW c \in Claims, NEW p \in Stages,
           Goto(c, p)
    PROVE  rc' \in [Claims -> Passes]
<1> DEFINE s == [rc[c] EXCEPT !.pc = p]
<1>1. s \in Passes
  BY PassUpdates
<1>2. rc' = [rc EXCEPT ![c] = s]
  BY DEF Goto
<1> HIDE DEF s
<1> QED BY <1>1, <1>2

\* The pass that is not running and the absent claim are well-typed.
LEMMA NoPassType == NoPass \in Passes /\ NoClaim \in ClaimObjects
BY ConstantsAssumption DEF NoPass, NoClaim, Passes, ClaimObjects, Stages, Phases

\* next_step answers with the name of a stage of the pass.
LEMMA NextStepStage ==
    ASSUME NEW o, NEW b, NEW t PROVE next_step(o, b, t) \in Stages
BY DEF next_step, Stages

\* Every object and every pass stays well-typed: in particular a deadline that
\* would overflow saturates instead of wrapping to the past.
THEOREM TypeInvariant == Spec => []TypeOK
<1> USE ConstantsAssumption
<1>1. Init => TypeOK
  BY NoPassType DEF Init, TypeOK, NoVm, VmObjects
<1>2. TypeOK /\ [Next]_vars => TypeOK'
  <2> SUFFICES ASSUME TypeOK, [Next]_vars PROVE TypeOK'
    OBVIOUS
  <2> USE DEF TypeOK
  <2>1. ASSUME NEW c \in Claims, Reconcile(c) PROVE TypeOK'
    <3>1. next_step(seen[c], seen[c].ref # None /\ Exists(seen[c].ref), now) \in Stages
      BY NextStepStage
    <3>2. seen[c].ref \in Members \cup {None}
      BY DEF ClaimObjects
    <3>3. rc' \in [Claims -> Passes]
      BY <2>1, <3>1, <3>2 DEF Reconcile, Passes
    <3> QED BY <2>1, <3>3 DEF Reconcile, NoWrite
  <2>2. ASSUME NEW c \in Claims, Pick(c) PROVE TypeOK'
    <3>1. Candidates(c) \subseteq Members
      BY DEF Candidates, member_bound_to, pick_member
    <3>2. ASSUME NEW m \in Candidates(c),
                 rc' = [rc EXCEPT ![c].pc = "bindFin", ![c].tgt = m]
          PROVE  rc' \in [Claims -> Passes]
      <4> DEFINE s == [rc[c] EXCEPT !.pc = "bindFin", !.tgt = m]
      <4>1. s \in Passes
        BY <3>1, PassUpdates, "bindFin" \in Stages DEF Stages
      <4>2. rc' = [rc EXCEPT ![c] = s]
        BY <3>2
      <4> HIDE DEF s
      <4> QED BY <4>1, <4>2
    <3>3. ASSUME Goto(c, "waitFin") PROVE rc' \in [Claims -> Passes]
      <4>1. "waitFin" \in Stages
        BY DEF Stages
      <4> QED BY <3>3, <4>1, GotoType
    <3>4. rc' \in [Claims -> Passes]
      BY <2>2, <3>2, <3>3 DEF Pick
    <3> QED BY <2>2, <3>4 DEF Pick, NoWrite
  <2>3. ASSUME NEW c \in Claims, FailCall(c) PROVE
            /\ rc' \in [Claims -> Passes] /\ due' \in [Claims -> BOOLEAN]
            /\ UNCHANGED <<claim, feed, seen>>
    BY <2>3, NoPassType DEF FailCall, EndPass, NoWrite
  <2>4. ASSUME NEW c \in Claims, EnsureFinalizer(c) PROVE TypeOK'
    <3>1. [claim[c] EXCEPT !.fin = TRUE] \in ClaimObjects
      BY ClaimUpdates, claim[c] \in ClaimObjects
    <3>2. ASSUME Goto(c, AfterFin[rc[c].pc]) PROVE rc' \in [Claims -> Passes]
      <4>1. AfterFin[rc[c].pc] \in Stages
        BY <2>4 DEF EnsureFinalizer, AfterFin, Stages
      <4> QED BY <3>2, <4>1, GotoType
    <3>3. CASE FailCall(c)
      BY <2>3, <2>4, <3>3 DEF EnsureFinalizer
    <3>4. CASE Goto(c, AfterFin[rc[c].pc]) /\ NoWrite /\ UNCHANGED due
      BY <2>4, <3>2, <3>4 DEF EnsureFinalizer, NoWrite
    <3>5. CASE Goto(c, AfterFin[rc[c].pc])
               /\ WriteClaim(c, [claim[c] EXCEPT !.fin = TRUE], FALSE)
      BY <2>4, <3>1, <3>2, <3>5, WriteClaimType DEF EnsureFinalizer
    <3> QED BY <2>4, <3>3, <3>4, <3>5 DEF EnsureFinalizer
  <2>5. ASSUME NEW c \in Claims, BindGet(c) PROVE TypeOK'
    <3>1. CASE Exists(rc[c].tgt)
      <4> DEFINE s == [rc[c] EXCEPT !.pc = "bindPatch", !.fresh = TRUE]
      <4>1. s \in Passes
        BY PassUpdates, "bindPatch" \in Stages DEF Stages
      <4>2. rc' = [rc EXCEPT ![c] = s]
        BY <2>5, <3>1 DEF BindGet
      <4> HIDE DEF s
      <4>3. rc' \in [Claims -> Passes]
        BY <4>1, <4>2
      <4> QED BY <2>5, <3>1, <4>3 DEF BindGet, NoWrite
    <3>2. CASE ~Exists(rc[c].tgt)
      BY <2>3, <2>5, <3>2 DEF BindGet
    <3> QED BY <3>1, <3>2
  <2>6. ASSUME NEW c \in Claims, BindPatch(c) PROVE TypeOK'
    <3>1. CASE rc[c].fresh
      <4>1. vm' = [vm EXCEPT ![rc[c].tgt].label = c,
                             ![rc[c].tgt].owner = rc[c].obj.uid]
        BY <2>6, <3>1 DEF BindPatch
      <4>2. vm' \in [Members -> VmObjects]
        <5> DEFINE m == rc[c].tgt
                   o == [vm[m] EXCEPT !.label = c, !.owner = rc[c].obj.uid]
        <5>1. rc[c].obj.uid \in 0..MaxLives
          BY DEF Passes, ClaimObjects
        <5>2. m \in Members => o \in VmObjects
          BY <5>1, VmUpdates
        <5>3. vm' = [vm EXCEPT ![m] = o]
          BY <4>1
        <5> HIDE DEF m, o
        <5> QED BY <5>2, <5>3
      <4>3. rc' = [Outdate(rc[c].tgt, rc) EXCEPT ![c].pc = "bindStatus"]
        BY <2>6, <3>1 DEF BindPatch
      <4>4. Outdate(rc[c].tgt, rc) \in [Claims -> Passes]
        BY OutdatePasses
      <4>5. rc' \in [Claims -> Passes]
        <5> DEFINE r == Outdate(rc[c].tgt, rc)
                   s == [r[c] EXCEPT !.pc = "bindStatus"]
        <5>1. s \in Passes
          BY <4>4, PassUpdates, "bindStatus" \in Stages DEF Stages
        <5>2. rc' = [r EXCEPT ![c] = s]
          BY <4>3
        <5> HIDE DEF r, s
        <5> QED BY <4>4, <5>1, <5>2 DEF r
      <4> QED BY <2>6, <3>1, <4>2, <4>5 DEF BindPatch, NoWrite
    <3>2. CASE ~rc[c].fresh
      BY <2>3, <2>6, <3>2 DEF BindPatch
    <3> QED BY <3>1, <3>2
  <2>7. ASSUME NEW c \in Claims, NEW o \in ClaimObjects, NEW r \in BOOLEAN,
               PatchStatus(c, o, r) PROVE TypeOK'
    <3>1. CASE claim[c].uid # 0
      <4>1. WriteClaim(c, o, r) /\ EndPass(c) /\ UNCHANGED <<vm, lives, now, faults>>
        BY <2>7, <3>1 DEF PatchStatus
      <4>2. rc' \in [Claims -> Passes]
        BY <4>1, NoPassType DEF EndPass
      <4> QED BY <4>1, <4>2, WriteClaimType
    <3>2. CASE claim[c].uid = 0
      BY <2>3, <2>7, <3>2 DEF PatchStatus
    <3> QED BY <3>1, <3>2
  <2>8. ASSUME NEW c \in Claims, BindStatus(c) PROVE TypeOK'
    <3>1. expiry(rc[c].at) \in Nat /\ rc[c].tgt \in Members \cup {None}
      BY DEF expiry, Passes
    <3>2. [claim[c] EXCEPT !.phase = "Bound", !.ref = rc[c].tgt,
                           !.exp = expiry(rc[c].at)] \in ClaimObjects
      BY <3>1, ClaimUpdates, claim[c] \in ClaimObjects, "Bound" \in Phases DEF Phases
    <3> QED BY <2>7, <2>8, <3>2 DEF BindStatus
  <2>9. ASSUME NEW c \in Claims, NEW p \in Phases
        PROVE  [claim[c] EXCEPT !.phase = p] \in ClaimObjects
    BY ClaimUpdates, claim[c] \in ClaimObjects
  <2>10. ASSUME NEW c \in Claims, HoldStatus(c) \/ WaitStatus(c)
                                  \/ FailStatus(c) \/ ReleaseStatus(c)
         PROVE  TypeOK'
    <3>1. /\ [claim[c] EXCEPT !.phase = "Bound"] \in ClaimObjects
          /\ [claim[c] EXCEPT !.phase = "Pending"] \in ClaimObjects
          /\ [claim[c] EXCEPT !.phase = "Failed"] \in ClaimObjects
          /\ [claim[c] EXCEPT !.phase = "Releasing"] \in ClaimObjects
      BY <2>9 DEF Phases
    <3> QED
      BY <2>7, <2>10, <3>1 DEF HoldStatus, WaitStatus, FailStatus, ReleaseStatus
  <2>11. ASSUME NEW c \in Claims, ReleaseDelete(c) PROVE TypeOK'
    <3>1. Outdate(rc[c].tgt, rc) \in [Claims -> Passes]
      BY OutdatePasses
    <3>2. rc' \in [Claims -> Passes]
      <4> DEFINE r == Outdate(rc[c].tgt, rc)
                 s == [r[c] EXCEPT !.pc = "relStatus"]
      <4>1. CASE rc' = [r EXCEPT ![c].pc = "relStatus"]
        <5>1. s \in Passes
          BY <3>1, PassUpdates, "relStatus" \in Stages DEF Stages
        <5>2. rc' = [r EXCEPT ![c] = s]
          BY <4>1
        <5> HIDE DEF r, s
        <5> QED BY <3>1, <5>1, <5>2 DEF r
      <4>2. CASE Goto(c, "relStatus") \/ Goto(c, "relLetGo")
        BY <4>2, GotoType, {"relStatus", "relLetGo"} \subseteq Stages DEF Stages
      <4> QED BY <2>11, <4>1, <4>2 DEF ReleaseDelete
    <3>3. vm' \in [Members -> VmObjects]
      <4> DEFINE m == rc[c].tgt
                 o == [vm[m] EXCEPT !.st = "deleting"]
      <4>1. CASE vm' = [vm EXCEPT ![m].st = "deleting"]
        <5>1. m \in Members => o \in VmObjects
          BY VmUpdates
        <5>2. vm' = [vm EXCEPT ![m] = o]
          BY <4>1
        <5> HIDE DEF m, o
        <5> QED BY <5>1, <5>2
      <4>2. CASE UNCHANGED vm
        BY <4>2
      <4> QED BY <2>11, <4>1, <4>2 DEF ReleaseDelete
    <3> QED BY <2>11, <3>2, <3>3 DEF ReleaseDelete, NoWrite
  <2>12. ASSUME NEW o \in ClaimObjects
         PROVE  WithoutFinalizer(o) \in ClaimObjects /\ Deleted(o) \in ClaimObjects
    BY NoPassType DEF WithoutFinalizer, Deleted, ClaimObjects
  <2>13. ASSUME NEW c \in Claims, RemoveFinalizer(c) PROVE TypeOK'
    <3>1. CASE EndPass(c) /\ NoWrite /\ UNCHANGED due
      BY <2>13, <3>1, NoPassType DEF RemoveFinalizer, EndPass, NoWrite
    <3>2. CASE EndPass(c) /\ WriteClaim(c, WithoutFinalizer(claim[c]), FALSE)
      BY <2>12, <2>13, <3>2, WriteClaimType, NoPassType DEF RemoveFinalizer, EndPass
    <3>3. CASE FailCall(c)
      BY <2>3, <2>13, <3>3 DEF RemoveFinalizer
    <3> QED BY <2>13, <3>1, <3>2, <3>3 DEF RemoveFinalizer
  <2>14. ASSUME NEW c \in Claims, DeleteExpired(c) PROVE TypeOK'
    BY <2>12, <2>14, WriteClaimType, NoPassType DEF DeleteExpired, EndPass
  <2>15. ASSUME NEW c \in Claims, Abort(c) PROVE TypeOK'
    BY <2>3, <2>15 DEF Abort
  <2>16. ASSUME NEW c \in Claims, Deliver(c) PROVE TypeOK'
    <3>1. Head(feed[c]) \in ClaimObjects /\ Tail(feed[c]) \in Seq(ClaimObjects)
      BY <2>16 DEF Deliver
    <3> QED BY <2>16, <3>1 DEF Deliver
  <2>17. ASSUME NEW c \in Claims, CreateClaim(c) PROVE TypeOK'
    <3>1. [NoClaim EXCEPT !.uid = lives[c] + 1] \in ClaimObjects
      <4>1. lives[c] + 1 \in 0..MaxLives
        BY <2>17 DEF CreateClaim
      <4> QED BY <4>1, ClaimUpdates, NoPassType
    <3>2. lives' \in [Claims -> 0..MaxLives]
      BY <2>17 DEF CreateClaim
    <3> QED BY <2>17, <3>1, <3>2, WriteClaimType DEF CreateClaim
  <2>18. ASSUME NEW c \in Claims, DeleteClaim(c) PROVE TypeOK'
    BY <2>12, <2>18, WriteClaimType DEF DeleteClaim
  <2>19. ASSUME NEW m \in Members, NEW o \in VmObjects, SetVm(m, o) PROVE TypeOK'
    BY <2>19, OutdatePasses DEF SetVm, NoWrite
  <2>20. ASSUME NEW m \in Members,
                CreateMember(m) \/ ReportReady(m) \/ DeleteMember(m)
                \/ CollectGarbage(m) \/ FinishMember(m)
         PROVE  TypeOK'
    <3>1. /\ NoVm("live") \in VmObjects /\ NoVm("gone") \in VmObjects
          /\ [vm[m] EXCEPT !.ready = ~@] \in VmObjects
          /\ [vm[m] EXCEPT !.st = "deleting"] \in VmObjects
      <4>1. NoVm("live") \in VmObjects /\ NoVm("gone") \in VmObjects
        BY DEF NoVm, VmObjects
      <4> QED BY <4>1, VmUpdates, vm[m] \in VmObjects
    <3> QED
      BY <2>19, <2>20, <3>1 DEF CreateMember, ReportReady, DeleteMember,
                                CollectGarbage, FinishMember
  <2>21. CASE Tick
    BY <2>21 DEF Tick
  <2>22. CASE UNCHANGED vars
    BY <2>22 DEF vars
  <2> QED
    BY <2>1, <2>2, <2>4, <2>5, <2>6, <2>8, <2>10, <2>11, <2>13, <2>14, <2>15,
       <2>16, <2>17, <2>18, <2>20, <2>21, <2>22 DEF Next, Pass
<1> QED BY <1>1, <1>2, PTL DEF Spec

-----------------------------------------------------------------------------
(***************************************************************************)
(* OneMemberPerClaim.  It is not inductive: nothing in it says that the    *)
(* member a pass is about to label is the only one of its claim.  What     *)
(* makes it so is that pick looked for a labelled member first, and that   *)
(* passes of one claim do not overlap.                                     *)
(***************************************************************************)
BindStages == {"bindFin", "bindGet", "bindPatch", "bindStatus"}

\* From pick to the status patch, no member but the target is the claim's.
LoneTarget ==
    \A c \in Claims : rc[c].pc \in BindStages =>
        /\ rc[c].tgt \in Members
        /\ \A m \in Members : Exists(m) /\ vm[m].label = c => m = rc[c].tgt

\* What every action but pick and the bind patch leaves alone: no member gains
\* a claim label, and no pass enters the bind or changes its target.
NoNewLabel ==
    \A m \in Members : \A c \in Claims :
        Exists(m)' /\ vm'[m].label = c => Exists(m) /\ vm[m].label = c

NoNewTarget ==
    \A c \in Claims : rc'[c].pc \in BindStages =>
        rc[c].pc \in BindStages /\ rc'[c].tgt = rc[c].tgt

\* A step that starts no bind and labels no member keeps the labels exclusive.
LEMMA QuietStep ==
    ASSUME OneMemberPerClaim, LoneTarget, NoNewLabel, NoNewTarget
    PROVE  OneMemberPerClaim' /\ LoneTarget'
<1>1. OneMemberPerClaim'
  BY DEF OneMemberPerClaim, NoNewLabel, member_bound_to
<1>2. LoneTarget'
  BY DEF LoneTarget, NoNewLabel, NoNewTarget
<1> QED BY <1>1, <1>2

\* Ending a pass starts no bind.
LEMMA EndPassQuiet ==
    ASSUME TypeOK, NEW c \in Claims, EndPass(c) PROVE NoNewTarget
BY DEF EndPass, NoPass, NoNewTarget, BindStages, TypeOK

\* Moving a pass on to another call changes nothing else of it.
LEMMA GotoFields ==
    ASSUME TypeOK, NEW c \in Claims, NEW p, Goto(c, p)
    PROVE  /\ rc'[c].pc = p /\ rc'[c].tgt = rc[c].tgt /\ rc'[c].obj = rc[c].obj
           /\ \A d \in Claims \ {c} : rc'[d] = rc[d]
<1> DEFINE s == [rc[c] EXCEPT !.pc = p]
<1>1. rc[c] \in Passes
  BY DEF TypeOK
<1>2. s.pc = p /\ s.tgt = rc[c].tgt /\ s.obj = rc[c].obj
  BY <1>1 DEF Passes
<1>3. rc' = [rc EXCEPT ![c] = s]
  BY DEF Goto
<1> HIDE DEF s
<1> QED BY <1>2, <1>3 DEF TypeOK

\* A write to a member by anyone else moves no pass.
LEMMA SetVmQuiet ==
    ASSUME TypeOK, NEW m \in Members, NEW o \in VmObjects, SetVm(m, o),
           o.label \in {None, vm[m].label},
           o.label # None => o.st \in {"live", "deleting"} /\ Exists(m)
    PROVE  NoNewLabel /\ NoNewTarget
<1>1. NoNewTarget
  BY OutdatePasses DEF SetVm, NoNewTarget, TypeOK
<1>2. vm' = [vm EXCEPT ![m] = o]
  BY DEF SetVm
<1>3. NoNewLabel
  BY <1>2, ConstantsAssumption DEF NoNewLabel, Exists, TypeOK
<1> QED BY <1>1, <1>3

\* A claim never has two members (member_bound_to in claim_plan.rs), for any
\* number of claims, members, failed calls and undelivered versions.
THEOREM OneMember == Spec => []OneMemberPerClaim
<1> DEFINE Inv == TypeOK /\ OneMemberPerClaim /\ LoneTarget
<1>1. Init => Inv
  <2> SUFFICES ASSUME Init PROVE Inv
    OBVIOUS
  <2>1. TypeOK
    BY NoPassType, ConstantsAssumption DEF Init, TypeOK, NoVm, VmObjects
  <2>2. OneMemberPerClaim
    BY DEF Init, OneMemberPerClaim, member_bound_to, Exists, NoVm
  <2>3. LoneTarget
    BY DEF Init, LoneTarget, NoPass, BindStages
  <2> QED BY <2>1, <2>2, <2>3
<1>2. Inv /\ TypeOK' /\ [Next]_vars => Inv'
  <2> SUFFICES ASSUME TypeOK, OneMemberPerClaim, LoneTarget, TypeOK', [Next]_vars
               PROVE  OneMemberPerClaim' /\ LoneTarget'
    OBVIOUS
  <2>1. ASSUME UNCHANGED vm PROVE NoNewLabel
    BY <2>1 DEF NoNewLabel, Exists
  <2>2. ASSUME UNCHANGED rc PROVE NoNewTarget
    BY <2>2 DEF NoNewTarget
  <2>3. ASSUME NEW c \in Claims, NEW p, p \notin BindStages \/ rc[c].pc \in BindStages,
               Goto(c, p)
        PROVE  NoNewTarget
    BY <2>3, GotoFields DEF NoNewTarget
  <2>4. ASSUME NEW c \in Claims, Reconcile(c) PROVE NoNewLabel /\ NoNewTarget
    <3> DEFINE s == [pc |-> next_step(seen[c], seen[c].ref # None /\ Exists(seen[c].ref), now),
                     obj |-> seen[c], tgt |-> seen[c].ref, at |-> now, fresh |-> FALSE]
    <3>1. rc' = [rc EXCEPT ![c] = s]
      BY <2>4 DEF Reconcile
    <3>2. s.pc \notin BindStages
      BY DEF next_step, BindStages
    <3> HIDE DEF s
    <3>3. NoNewTarget
      BY <3>1, <3>2 DEF NoNewTarget, TypeOK
    <3> QED BY <2>1, <2>4, <3>3 DEF Reconcile
  <2>5. ASSUME NEW c \in Claims, Pick(c) PROVE OneMemberPerClaim' /\ LoneTarget'
    <3>1. NoNewLabel /\ UNCHANGED vm
      BY <2>1, <2>5 DEF Pick
    <3>2. CASE Goto(c, "waitFin")
      <4>1. NoNewTarget
        BY <2>3, <3>2, "waitFin" \notin BindStages DEF BindStages
      <4> QED BY <3>1, <4>1, QuietStep
    <3>3. ASSUME NEW m \in Candidates(c),
                 rc' = [rc EXCEPT ![c].pc = "bindFin", ![c].tgt = m]
          PROVE  OneMemberPerClaim' /\ LoneTarget'
      <4>1. m \in Members
        BY <3>3 DEF Candidates, member_bound_to, pick_member
      <4>2. \A n \in Members : Exists(n) /\ vm[n].label = c => n = m
        BY <3>3 DEF Candidates, member_bound_to, OneMemberPerClaim
      <4> DEFINE s == [rc[c] EXCEPT !.pc = "bindFin", !.tgt = m]
      <4>3. s.tgt = m
        BY rc[c] \in Passes DEF Passes, TypeOK
      <4>4. rc' = [rc EXCEPT ![c] = s]
        BY <3>3
      <4> HIDE DEF s
      <4>5. LoneTarget'
        BY <3>1, <4>1, <4>2, <4>3, <4>4 DEF LoneTarget, TypeOK, Exists
      <4>6. OneMemberPerClaim'
        BY <3>1 DEF OneMemberPerClaim, member_bound_to, Exists
      <4> QED BY <4>5, <4>6
    <3> QED BY <2>5, <3>2, <3>3 DEF Pick
  <2>6. ASSUME NEW c \in Claims, EnsureFinalizer(c) PROVE NoNewLabel /\ NoNewTarget
    <3>1. AfterFin[rc[c].pc] \notin BindStages \/ rc[c].pc \in BindStages
      BY <2>6 DEF EnsureFinalizer, AfterFin, BindStages
    <3>2. Goto(c, AfterFin[rc[c].pc]) \/ EndPass(c)
      BY <2>6 DEF EnsureFinalizer, FailCall
    <3>3. NoNewTarget
      BY <2>3, <3>1, <3>2, EndPassQuiet
    <3> QED BY <2>1, <2>6, <3>3 DEF EnsureFinalizer
  <2>7. ASSUME NEW c \in Claims, BindGet(c) PROVE NoNewLabel /\ NoNewTarget
    <3>1. CASE EndPass(c)
      BY <3>1, EndPassQuiet, <2>1, <2>7 DEF BindGet
    <3>2. CASE rc' = [rc EXCEPT ![c].pc = "bindPatch", ![c].fresh = TRUE]
      <4> DEFINE s == [rc[c] EXCEPT !.pc = "bindPatch", !.fresh = TRUE]
      <4>1. s.tgt = rc[c].tgt
        BY rc[c] \in Passes DEF Passes, TypeOK
      <4>2. rc' = [rc EXCEPT ![c] = s]
        BY <3>2
      <4> HIDE DEF s
      <4>3. rc[c].pc \in BindStages
        BY <2>7 DEF BindGet, BindStages
      <4>4. NoNewTarget
        BY <4>1, <4>2, <4>3 DEF NoNewTarget, TypeOK
      <4> QED BY <2>1, <2>7, <4>4 DEF BindGet
    <3> QED BY <2>7, <3>1, <3>2 DEF BindGet, FailCall
  <2>8. ASSUME NEW c \in Claims, BindPatch(c) PROVE OneMemberPerClaim' /\ LoneTarget'
    <3>1. CASE ~rc[c].fresh
      BY <2>1, <2>8, <3>1, EndPassQuiet, QuietStep DEF BindPatch, FailCall
    <3>2. CASE rc[c].fresh
      <4> DEFINE m == rc[c].tgt
                 o == [vm[m] EXCEPT !.label = c, !.owner = rc[c].obj.uid]
                 r == Outdate(m, rc)
                 s == [r[c] EXCEPT !.pc = "bindStatus"]
      <4>1. /\ rc[c].pc \in BindStages
            /\ m \in Members
            /\ \A n \in Members : Exists(n) /\ vm[n].label = c => n = m
        BY <2>8 DEF BindPatch, BindStages, LoneTarget
      <4>2. vm' = [vm EXCEPT ![m] = o]
        BY <2>8, <3>2 DEF BindPatch
      <4>3. o.label = c
        BY <4>1, vm[m] \in VmObjects DEF VmObjects, TypeOK
      <4>4. rc' = [r EXCEPT ![c] = s]
        BY <2>8, <3>2 DEF BindPatch
      <4>5. /\ r \in [Claims -> Passes]
            /\ \A d \in Claims : r[d].pc = rc[d].pc /\ r[d].tgt = rc[d].tgt
        BY OutdatePasses DEF TypeOK
      <4>6. s.tgt = m
        BY <4>5, r[c] \in Passes DEF Passes
      <4> HIDE DEF m, o, r, s
      <4>7. \A n \in Members : vm'[n].label = c /\ Exists(n)' => n = m
        BY <4>1, <4>2 DEF Exists, TypeOK
      <4>8. \A n \in Members : \A d \in Claims \ {c} :
               vm'[n].label = d /\ Exists(n)' => vm[n].label = d /\ Exists(n)
        BY <4>1, <4>2, <4>3 DEF Exists, TypeOK
      <4>9. OneMemberPerClaim'
        BY <4>7, <4>8 DEF OneMemberPerClaim, member_bound_to
      <4>10. \A d \in Claims : rc'[d].tgt = rc[d].tgt
                               /\ (d # c => rc'[d].pc = rc[d].pc)
        BY <4>4, <4>5, <4>6 DEF m
      <4>11. LoneTarget'
        BY <4>1, <4>7, <4>8, <4>10 DEF LoneTarget, m
      <4> QED BY <4>9, <4>11
    <3> QED BY <3>1, <3>2
  <2>9. ASSUME NEW c \in Claims, NEW o, NEW r, PatchStatus(c, o, r)
        PROVE  NoNewLabel /\ NoNewTarget
    BY <2>1, <2>9, EndPassQuiet DEF PatchStatus, FailCall
  <2>10. ASSUME NEW c \in Claims, BindStatus(c) \/ HoldStatus(c) \/ WaitStatus(c)
                                  \/ FailStatus(c) \/ ReleaseStatus(c)
         PROVE  NoNewLabel /\ NoNewTarget
    BY <2>9, <2>10 DEF BindStatus, HoldStatus, WaitStatus, FailStatus, ReleaseStatus
  <2>11. ASSUME NEW c \in Claims, ReleaseDelete(c) PROVE NoNewLabel /\ NoNewTarget
    <3> DEFINE m == rc[c].tgt
               o == [vm[m] EXCEPT !.st = "deleting"]
               r == Outdate(m, rc)
               s == [r[c] EXCEPT !.pc = "relStatus"]
    <3>1. CASE /\ vm[m].st = "live" /\ vm' = [vm EXCEPT ![m].st = "deleting"]
               /\ rc' = [r EXCEPT ![c].pc = "relStatus"]
      <4>1. vm' = [vm EXCEPT ![m] = o] /\ rc' = [r EXCEPT ![c] = s]
        BY <3>1
      <4>2. m \in Members => o.label = vm[m].label
        BY vm \in [Members -> VmObjects] DEF VmObjects, TypeOK
      <4>3. s.pc = "relStatus"
        BY OutdatePasses, r[c] \in Passes DEF Passes, TypeOK
      <4>4. \A d \in Claims : r[d].pc = rc[d].pc /\ r[d].tgt = rc[d].tgt
        BY OutdatePasses DEF TypeOK
      <4>5. DOMAIN r = Claims
        BY DEF Outdate
      <4>6. vm[m].st = "live"
        BY <3>1
      <4> HIDE DEF m, o, r, s
      <4>7. NoNewTarget
        BY <4>1, <4>3, <4>4, <4>5 DEF NoNewTarget, BindStages
      <4>8. NoNewLabel
        BY <4>1, <4>2, <4>6 DEF NoNewLabel, Exists, TypeOK
      <4> QED BY <4>7, <4>8
    <3>2. CASE UNCHANGED vm /\ (Goto(c, "relStatus") \/ Goto(c, "relLetGo"))
      <4>1. {"relStatus", "relLetGo"} \cap BindStages = {}
        BY DEF BindStages
      <4> QED BY <2>1, <2>3, <3>2, <4>1
    <3> QED BY <2>11, <3>1, <3>2 DEF ReleaseDelete
  <2>12. ASSUME NEW c \in Claims, RemoveFinalizer(c) \/ DeleteExpired(c) \/ Abort(c)
         PROVE  NoNewLabel /\ NoNewTarget
    BY <2>1, <2>12, EndPassQuiet DEF RemoveFinalizer, DeleteExpired, Abort, FailCall
  <2>13. ASSUME NEW c \in Claims, Deliver(c) \/ CreateClaim(c) \/ DeleteClaim(c)
         PROVE  NoNewLabel /\ NoNewTarget
    BY <2>1, <2>2, <2>13 DEF Deliver, CreateClaim, DeleteClaim
  <2>14. ASSUME NEW m \in Members,
                CreateMember(m) \/ ReportReady(m) \/ DeleteMember(m)
                \/ CollectGarbage(m) \/ FinishMember(m)
         PROVE  NoNewLabel /\ NoNewTarget
    <3>1. vm[m] \in VmObjects
      BY DEF TypeOK
    <3>2. NoVm("live") \in VmObjects /\ NoVm("gone") \in VmObjects
      BY ConstantsAssumption DEF NoVm, VmObjects
    <3>3. CASE CreateMember(m) \/ FinishMember(m)
      BY <3>2, <3>3, SetVmQuiet DEF CreateMember, FinishMember, NoVm
    <3>4. CASE ReportReady(m)
      <4> DEFINE o == [vm[m] EXCEPT !.ready = ~@]
      <4>1. o \in VmObjects /\ o.label = vm[m].label /\ vm[m].label = None
        BY <3>1, <3>4, VmUpdates DEF ReportReady, VmObjects
      <4>2. SetVm(m, o)
        BY <3>4 DEF ReportReady
      <4> HIDE DEF o
      <4> QED BY <4>1, <4>2, SetVmQuiet
    <3>5. CASE DeleteMember(m) \/ CollectGarbage(m)
      <4> DEFINE o == [vm[m] EXCEPT !.st = "deleting"]
      <4>1. o \in VmObjects /\ o.label = vm[m].label /\ o.st = "deleting"
        BY <3>1, VmUpdates DEF VmObjects
      <4>2. SetVm(m, o) /\ Exists(m)
        BY <3>5 DEF DeleteMember, CollectGarbage, Exists
      <4> HIDE DEF o
      <4> QED BY <4>1, <4>2, SetVmQuiet
    <3> QED BY <2>14, <3>3, <3>4, <3>5
  <2>15. CASE Tick \/ UNCHANGED vars
    BY <2>1, <2>2, <2>15, QuietStep DEF Tick, vars
  <2> QED
    BY <2>4, <2>5, <2>6, <2>7, <2>8, <2>10, <2>11, <2>12, <2>13, <2>14, <2>15,
       QuietStep DEF Next, Pass
<1>3. Inv => OneMemberPerClaim
  OBVIOUS
<1> QED BY <1>1, <1>2, <1>3, TypeInvariant, PTL DEF Spec

-----------------------------------------------------------------------------
(***************************************************************************)
(* ReleaseAfterDestroy.  A 404 says the member is not there; that it will  *)
(* not be there again rests on every reference naming a member that was    *)
(* created once, in the API server, in the cache, in the versions still to *)
(* be delivered and in the passes under way.                               *)
(***************************************************************************)
Created(x) == x \in Members => vm[x].st # "absent"

RefsCreated ==
    \A c \in Claims :
        /\ Created(claim[c].ref) /\ Created(seen[c].ref) /\ Created(rc[c].obj.ref)
        /\ rc[c].pc \in BindStages => Created(rc[c].tgt)
        /\ \A i \in 1..Len(feed[c]) : Created(feed[c][i].ref)

\* The two stages of a release, and what each knows of the member.
ReleaseStages ==
    \A c \in Claims :
        /\ rc[c].pc = "relDelete" => rc[c].tgt = rc[c].obj.ref
        /\ rc[c].pc = "relLetGo" /\ rc[c].obj.ref # None
           => vm[rc[c].obj.ref].st = "gone"

\* No step takes a member back to before it was created, or back from gone.
LifeForward ==
    \A m \in Members : /\ vm[m].st # "absent" => vm'[m].st # "absent"
                       /\ vm[m].st = "gone" => vm'[m].st = "gone"

\* A step that moves no pass into the bind or into a release.
QuietPasses ==
    \A c \in Claims :
        /\ Created(rc'[c].obj.ref)
        /\ rc'[c].pc \in BindStages => Created(rc'[c].tgt)
        /\ rc'[c].pc \in {"relDelete", "relLetGo"}
           => rc'[c].pc = rc[c].pc /\ rc'[c].obj = rc[c].obj /\ rc'[c].tgt = rc[c].tgt

QuietClaims ==
    \A c \in Claims : /\ Created(claim'[c].ref) /\ Created(seen'[c].ref)
                      /\ \A i \in 1..Len(feed'[c]) : Created(feed'[c][i].ref)

\* A member's life only goes forward: created, deleting, gone.
LEMMA LifeStep == ASSUME TypeOK, TypeOK', [Next]_vars PROVE LifeForward
<1>1. ASSUME UNCHANGED vm PROVE LifeForward
  BY <1>1 DEF LifeForward
<1>2. ASSUME NEW m, NEW o, vm' = [vm EXCEPT ![m] = o], m \in Members =>
             o.st # "absent" /\ (vm[m].st = "gone" => o.st = "gone")
      PROVE  LifeForward
  BY <1>2 DEF LifeForward, TypeOK
<1>3. ASSUME NEW c \in Claims, BindPatch(c) PROVE LifeForward
  <2> DEFINE m == rc[c].tgt
             o == [vm[m] EXCEPT !.label = c, !.owner = rc[c].obj.uid]
  <2>1. CASE vm' = [vm EXCEPT ![m].label = c, ![m].owner = rc[c].obj.uid]
    <3>1. vm' = [vm EXCEPT ![m] = o]
      BY <2>1
    <3>2. m \in Members => o.st = vm[m].st
      BY vm \in [Members -> VmObjects] DEF VmObjects, TypeOK
    <3> HIDE DEF o, m
    <3> QED BY <3>1, <3>2 DEF LifeForward, TypeOK
  <2> QED BY <1>1, <1>3, <2>1 DEF BindPatch
<1>4. ASSUME NEW c \in Claims, ReleaseDelete(c) PROVE LifeForward
  <2> DEFINE m == rc[c].tgt
             o == [vm[m] EXCEPT !.st = "deleting"]
  <2>1. CASE vm[m].st = "live" /\ vm' = [vm EXCEPT ![m].st = "deleting"]
    <3>1. vm' = [vm EXCEPT ![m] = o]
      BY <2>1
    <3>2. m \in Members => o.st = "deleting"
      BY vm \in [Members -> VmObjects] DEF VmObjects, TypeOK
    <3>3. vm[m].st = "live"
      BY <2>1
    <3> HIDE DEF o, m
    <3> QED BY <1>2, <3>1, <3>2, <3>3
  <2> QED BY <1>1, <1>4, <2>1 DEF ReleaseDelete
<1>5. ASSUME NEW m \in Members,
             CreateMember(m) \/ ReportReady(m) \/ DeleteMember(m)
             \/ CollectGarbage(m) \/ FinishMember(m)
      PROVE  LifeForward
  <2>1. CASE CreateMember(m) \/ FinishMember(m)
    BY <2>1, <1>2 DEF CreateMember, FinishMember, SetVm, NoVm
  <2>2. CASE ReportReady(m) \/ DeleteMember(m) \/ CollectGarbage(m)
    <3> DEFINE o1 == [vm[m] EXCEPT !.ready = ~@]
               o2 == [vm[m] EXCEPT !.st = "deleting"]
    <3>1. o1.st = vm[m].st /\ o2.st = "deleting"
      BY vm[m] \in VmObjects DEF VmObjects, TypeOK
    <3>2. vm[m].st = "live" /\ (vm' = [vm EXCEPT ![m] = o1] \/ vm' = [vm EXCEPT ![m] = o2])
      BY <2>2 DEF ReportReady, DeleteMember, CollectGarbage, SetVm
    <3> HIDE DEF o1, o2
    <3> QED BY <1>2, <3>1, <3>2
  <2> QED BY <1>5, <2>1, <2>2
<1>6. ASSUME NEW c \in Claims, Reconcile(c) \/ Pick(c) \/ EnsureFinalizer(c) \/ BindGet(c)
             \/ BindStatus(c) \/ HoldStatus(c) \/ WaitStatus(c) \/ FailStatus(c)
             \/ ReleaseStatus(c) \/ RemoveFinalizer(c) \/ DeleteExpired(c) \/ Abort(c)
             \/ Deliver(c) \/ CreateClaim(c) \/ DeleteClaim(c)
      PROVE  LifeForward
  <2>1. UNCHANGED vm
    BY <1>6 DEF Reconcile, Pick, EnsureFinalizer, BindGet, BindStatus, HoldStatus,
       WaitStatus, FailStatus, ReleaseStatus, PatchStatus, RemoveFinalizer,
       DeleteExpired, Abort, Deliver, CreateClaim, DeleteClaim
  <2> QED BY <1>1, <2>1
<1>7. CASE Tick \/ UNCHANGED vars
  BY <1>1, <1>7 DEF Tick, vars
<1> QED BY <1>3, <1>4, <1>5, <1>6, <1>7 DEF Next, Pass

\* A write of a claim whose member was created keeps the references sound.
LEMMA WriteClaimRefs ==
    ASSUME TypeOK, RefsCreated, NEW c \in Claims, NEW o \in ClaimObjects, NEW r,
           WriteClaim(c, o, r), Created(o.ref)
    PROVE  QuietClaims
<1> DEFINE q == IF o = claim[c] THEN feed[c] ELSE Append(feed[c], o)
           full == Len(q) > MaxLag
<1>1. feed[c] \in Seq(ClaimObjects) /\ q \in Seq(ClaimObjects) /\ MaxLag \in Nat
  BY ConstantsAssumption DEF TypeOK
<1>2. \A i \in 1..Len(q) : Created(q[i].ref)
  <2>1. CASE o = claim[c]
    BY <2>1 DEF RefsCreated
  <2>2. CASE o # claim[c]
    <3>1. q = Append(feed[c], o)
      BY <2>2
    <3>2. \A i \in 1..Len(q) : q[i] = o \/ (i \in 1..Len(feed[c]) /\ q[i] = feed[c][i])
      BY <1>1, <3>1
    <3> HIDE DEF q
    <3> QED BY <3>2 DEF RefsCreated
  <2> QED BY <2>1, <2>2
<1>3. /\ claim' = [claim EXCEPT ![c] = o]
      /\ feed' = [feed EXCEPT ![c] = IF full THEN Tail(q) ELSE q]
      /\ seen' = [seen EXCEPT ![c] = IF full THEN Head(q) ELSE @]
  BY Zenon DEF WriteClaim
<1> HIDE DEF q
<1>4. full => /\ Len(q) \in Nat /\ Len(q) > 0
              /\ Head(q) = q[1]
              /\ Len(Tail(q)) = Len(q) - 1
              /\ \A i \in 1..Len(Tail(q)) : Tail(q)[i] = q[i + 1]
  BY <1>1
<1>5. full => /\ Created(Head(q).ref)
              /\ \A i \in 1..Len(Tail(q)) : Created(Tail(q)[i].ref)
  BY <1>2, <1>4
<1> HIDE DEF full
<1>6. Created(claim'[c].ref) /\ Created(seen'[c].ref)
      /\ \A i \in 1..Len(feed'[c]) : Created(feed'[c][i].ref)
  BY <1>2, <1>3, <1>5 DEF TypeOK, RefsCreated
<1>7. \A d \in Claims \ {c} : claim'[d] = claim[d] /\ seen'[d] = seen[d] /\ feed'[d] = feed[d]
  BY <1>3 DEF TypeOK
<1> QED BY <1>6, <1>7 DEF QuietClaims, RefsCreated

\* A step that moves no pass into a release keeps the order of every release.
LEMMA QuietRelease ==
    ASSUME RefsCreated, ReleaseStages, LifeForward, QuietPasses, QuietClaims,
           TypeOK, TypeOK'
    PROVE  RefsCreated' /\ ReleaseStages'
<1>1. \A x : Created(x) => Created(x)'
  BY DEF Created, LifeForward
<1>2. RefsCreated'
  BY <1>1 DEF RefsCreated, QuietPasses, QuietClaims
<1>3. \A c \in Claims : rc[c].obj.ref \in Members \cup {None}
  BY DEF TypeOK, Passes, ClaimObjects
<1>4. ReleaseStages'
  BY <1>3 DEF ReleaseStages, QuietPasses, LifeForward
<1> QED BY <1>2, <1>4

\* Ending a pass, or writing a member, moves no pass into a release.
LEMMA EndPassRelease ==
    ASSUME TypeOK, RefsCreated, NEW c \in Claims, EndPass(c) PROVE QuietPasses
<1>1. \A d \in Claims : rc'[d] = IF d = c THEN NoPass ELSE rc[d]
  BY DEF EndPass, TypeOK
<1>2. /\ NoPass.pc \notin BindStages \cup {"relDelete", "relLetGo"}
      /\ Created(NoPass.obj.ref)
  BY ConstantsAssumption DEF NoPass, NoClaim, BindStages, Created
<1> QED BY <1>1, <1>2 DEF QuietPasses, RefsCreated

\* The release pass lets the claim go only after its member left the API
\* server (the order release in claim.rs relies on), whoever else writes.
THEOREM ReleaseOrder == Spec => []ReleaseAfterDestroy
<1> DEFINE Inv == TypeOK /\ RefsCreated /\ ReleaseStages
<1>1. Init => Inv
  <2> SUFFICES ASSUME Init PROVE Inv
    OBVIOUS
  <2>1. TypeOK
    BY NoPassType, ConstantsAssumption DEF Init, TypeOK, NoVm, VmObjects
  <2>2. RefsCreated
    BY ConstantsAssumption DEF Init, RefsCreated, Created, NoClaim, NoPass, BindStages
  <2>3. ReleaseStages
    BY DEF Init, ReleaseStages, NoPass
  <2> QED BY <2>1, <2>2, <2>3
<1>2. Inv /\ TypeOK' /\ [Next]_vars => Inv'
  <2> SUFFICES ASSUME TypeOK, RefsCreated, ReleaseStages, TypeOK', [Next]_vars
               PROVE  RefsCreated' /\ ReleaseStages'
    OBVIOUS
  <2>1. LifeForward
    BY LifeStep
  <2>2. ASSUME UNCHANGED <<claim, feed, seen>> PROVE QuietClaims
    BY <2>2 DEF QuietClaims, RefsCreated
  <2>3. ASSUME UNCHANGED rc PROVE QuietPasses
    BY <2>3 DEF QuietPasses, RefsCreated
  <2>4. ASSUME NEW c \in Claims, NEW p, Goto(c, p), p \notin {"relDelete", "relLetGo"},
               p \in BindStages => Created(rc[c].tgt)
        PROVE  QuietPasses
    BY <2>4, GotoFields DEF QuietPasses, RefsCreated
  <2>5. ASSUME NEW m, rc' = Outdate(m, rc) PROVE QuietPasses
    BY <2>5, OutdatePasses DEF QuietPasses, RefsCreated, TypeOK
  <2>6. ASSUME NEW c \in Claims, NEW o \in ClaimObjects, Created(o.ref), NEW r,
               PatchStatus(c, o, r)
        PROVE  QuietClaims /\ QuietPasses
    <3>1. QuietPasses
      BY <2>6, EndPassRelease DEF PatchStatus, FailCall
    <3>2. QuietClaims
      BY <2>2, <2>6, WriteClaimRefs DEF PatchStatus, FailCall, NoWrite
    <3> QED BY <3>1, <3>2
  <2>7. ASSUME NEW c \in Claims, Reconcile(c) PROVE RefsCreated' /\ ReleaseStages'
    <3> DEFINE s == [pc |-> next_step(seen[c], seen[c].ref # None /\ Exists(seen[c].ref), now),
                     obj |-> seen[c], tgt |-> seen[c].ref, at |-> now, fresh |-> FALSE]
    <3>1. rc' = [rc EXCEPT ![c] = s] /\ UNCHANGED <<vm, claim, feed, seen>>
      BY <2>7 DEF Reconcile, NoWrite
    <3>2. /\ s.obj = seen[c] /\ s.tgt = seen[c].ref /\ s.pc \notin BindStages
          /\ s.pc = "relLetGo" => seen[c].ref = None
      BY DEF next_step, BindStages
    <3> HIDE DEF s
    <3>3. \A d \in Claims : rc'[d] = IF d = c THEN s ELSE rc[d]
      BY <3>1 DEF TypeOK
    <3>4. \A x : Created(x)' <=> Created(x)
      BY <3>1 DEF Created
    <3>5. RefsCreated'
      BY <3>1, <3>2, <3>3, <3>4 DEF RefsCreated
    <3>6. ReleaseStages'
      BY <3>1, <3>2, <3>3 DEF ReleaseStages
    <3> QED BY <3>5, <3>6
  <2>8. ASSUME NEW c \in Claims, Pick(c) PROVE QuietClaims /\ QuietPasses
    <3>1. QuietClaims
      BY <2>2, <2>8 DEF Pick, NoWrite
    <3>2. ASSUME NEW m \in Candidates(c),
                 rc' = [rc EXCEPT ![c].pc = "bindFin", ![c].tgt = m]
          PROVE  QuietPasses
      <4>1. Created(m)
        BY <3>2 DEF Candidates, member_bound_to, pick_member, Created, Exists, IsReady
      <4> DEFINE s == [rc[c] EXCEPT !.pc = "bindFin", !.tgt = m]
      <4>2. s.tgt = m /\ s.pc = "bindFin" /\ s.obj = rc[c].obj
        BY rc[c] \in Passes DEF Passes, TypeOK
      <4>3. rc' = [rc EXCEPT ![c] = s]
        BY <3>2
      <4> HIDE DEF s
      <4>4. \A d \in Claims : rc'[d] = IF d = c THEN s ELSE rc[d]
        BY <4>3 DEF TypeOK
      <4> QED BY <4>1, <4>2, <4>4 DEF QuietPasses, RefsCreated
    <3>3. ASSUME Goto(c, "waitFin") PROVE QuietPasses
      <4>1. "waitFin" \notin BindStages
        BY DEF BindStages
      <4> QED BY <2>4, <3>3, <4>1
    <3> QED BY <2>8, <3>1, <3>2, <3>3 DEF Pick
  <2>9. ASSUME NEW c \in Claims, EnsureFinalizer(c) PROVE QuietClaims /\ QuietPasses
    <3>1. /\ AfterFin[rc[c].pc] \notin {"relDelete", "relLetGo"}
          /\ AfterFin[rc[c].pc] \in BindStages => rc[c].pc \in BindStages
      BY <2>9 DEF EnsureFinalizer, AfterFin, BindStages
    <3>2. QuietPasses
      BY <2>4, <2>9, <3>1, EndPassRelease DEF EnsureFinalizer, FailCall, RefsCreated
    <3> DEFINE o == [claim[c] EXCEPT !.fin = TRUE]
    <3>3. o \in ClaimObjects /\ o.ref = claim[c].ref
      BY claim[c] \in ClaimObjects, ClaimUpdates DEF ClaimObjects, TypeOK
    <3>4. WriteClaim(c, o, FALSE) \/ UNCHANGED <<claim, feed, seen>>
      BY <2>9 DEF EnsureFinalizer, FailCall, NoWrite
    <3> HIDE DEF o
    <3>5. QuietClaims
      BY <2>2, <3>3, <3>4, WriteClaimRefs DEF RefsCreated
    <3> QED BY <3>2, <3>5
  <2>10. ASSUME NEW c \in Claims, BindGet(c) PROVE QuietClaims /\ QuietPasses
    <3>1. QuietClaims
      BY <2>2, <2>10 DEF BindGet, FailCall, NoWrite
    <3>2. CASE EndPass(c)
      BY <3>1, <3>2, EndPassRelease
    <3>3. CASE rc' = [rc EXCEPT ![c].pc = "bindPatch", ![c].fresh = TRUE]
      <4> DEFINE s == [rc[c] EXCEPT !.pc = "bindPatch", !.fresh = TRUE]
      <4>1. s.tgt = rc[c].tgt /\ s.pc = "bindPatch" /\ s.obj = rc[c].obj
        BY rc[c] \in Passes DEF Passes, TypeOK
      <4>2. rc' = [rc EXCEPT ![c] = s]
        BY <3>3
      <4> HIDE DEF s
      <4>3. \A d \in Claims : rc'[d] = IF d = c THEN s ELSE rc[d]
        BY <4>2 DEF TypeOK
      <4>4. rc[c].pc \in BindStages
        BY <2>10 DEF BindGet, BindStages
      <4> QED BY <3>1, <4>1, <4>3, <4>4 DEF QuietPasses, RefsCreated
    <3> QED BY <2>10, <3>2, <3>3 DEF BindGet, FailCall
  <2>11. ASSUME NEW c \in Claims, NEW m, NEW p, p \in {"bindStatus", "relStatus"},
                rc' = [Outdate(m, rc) EXCEPT ![c].pc = p],
                p \in BindStages => Created(rc[c].tgt)
         PROVE  QuietPasses
    <3> DEFINE r == Outdate(m, rc)
               s == [r[c] EXCEPT !.pc = p]
    <3>1. /\ r \in [Claims -> Passes]
          /\ \A d \in Claims : r[d].pc = rc[d].pc /\ r[d].tgt = rc[d].tgt
                               /\ r[d].obj = rc[d].obj
      BY OutdatePasses DEF TypeOK
    <3>2. s.pc = p /\ s.tgt = r[c].tgt /\ s.obj = r[c].obj
      BY <3>1, r[c] \in Passes DEF Passes
    <3>3. rc' = [r EXCEPT ![c] = s]
      BY <2>11
    <3> HIDE DEF r, s
    <3>4. \A d \in Claims : rc'[d] = IF d = c THEN s ELSE r[d]
      BY <3>1, <3>3
    <3>5. p \notin {"relDelete", "relLetGo"}
      BY <2>11
    <3>6. /\ Created(s.obj.ref)
          /\ s.pc \in BindStages => Created(s.tgt)
          /\ s.pc \notin {"relDelete", "relLetGo"}
      BY <2>11, <3>1, <3>2, <3>5 DEF RefsCreated
    <3>7. \A d \in Claims \ {c} : /\ Created(r[d].obj.ref)
                                  /\ r[d].pc \in BindStages => Created(r[d].tgt)
      BY <3>1 DEF RefsCreated
    <3> QED BY <3>1, <3>4, <3>6, <3>7 DEF QuietPasses
  <2>12. ASSUME NEW c \in Claims, BindPatch(c) PROVE QuietClaims /\ QuietPasses
    <3>1. QuietClaims
      BY <2>2, <2>12 DEF BindPatch, FailCall, NoWrite
    <3>2. Created(rc[c].tgt)
      BY <2>12 DEF BindPatch, BindStages, RefsCreated
    <3>3. EndPass(c) \/ rc' = [Outdate(rc[c].tgt, rc) EXCEPT ![c].pc = "bindStatus"]
      BY <2>12 DEF BindPatch, FailCall
    <3> QED BY <2>11, <3>1, <3>2, <3>3, EndPassRelease
  <2>13. ASSUME NEW c \in Claims, BindStatus(c) PROVE QuietClaims /\ QuietPasses
    <3> DEFINE o == [claim[c] EXCEPT !.phase = "Bound", !.ref = rc[c].tgt,
                                     !.exp = expiry(rc[c].at)]
    <3>1. Created(rc[c].tgt)
      BY <2>13 DEF BindStatus, BindStages, RefsCreated
    <3>2. expiry(rc[c].at) \in Nat /\ rc[c].tgt \in Members \cup {None}
      BY ConstantsAssumption DEF expiry, Passes, TypeOK
    <3>3. "Bound" \in Phases /\ claim[c] \in ClaimObjects
      BY DEF Phases, TypeOK
    <3>4. o \in ClaimObjects
      BY <3>2, <3>3, ClaimUpdates
    <3>5. o.ref = rc[c].tgt
      BY <3>3 DEF ClaimObjects
    <3>6. PatchStatus(c, o, TRUE)
      BY <2>13 DEF BindStatus
    <3> HIDE DEF o
    <3> QED BY <2>6, <3>1, <3>4, <3>5, <3>6
  <2>14. ASSUME NEW c \in Claims, HoldStatus(c) \/ WaitStatus(c) \/ FailStatus(c)
                                  \/ ReleaseStatus(c)
         PROVE  QuietClaims /\ QuietPasses
    <3>1. claim[c] \in ClaimObjects /\ Created(claim[c].ref)
      BY DEF TypeOK, RefsCreated
    <3>2. \A p \in Phases : /\ [claim[c] EXCEPT !.phase = p] \in ClaimObjects
                            /\ [claim[c] EXCEPT !.phase = p].ref = claim[c].ref
      BY <3>1, ClaimUpdates DEF ClaimObjects
    <3>3. PICK p \in Phases, r \in BOOLEAN :
             PatchStatus(c, [claim[c] EXCEPT !.phase = p], r)
      BY <2>14 DEF HoldStatus, WaitStatus, FailStatus, ReleaseStatus, Phases
    <3> DEFINE o == [claim[c] EXCEPT !.phase = p]
    <3>4. o \in ClaimObjects /\ o.ref = claim[c].ref /\ PatchStatus(c, o, r)
      BY <3>2, <3>3
    <3> HIDE DEF o
    <3> QED BY <2>6, <3>1, <3>4
  <2>15. ASSUME NEW c \in Claims, ReleaseDelete(c) PROVE RefsCreated' /\ ReleaseStages'
    <3>1. QuietClaims
      BY <2>2, <2>15 DEF ReleaseDelete, NoWrite
    <3>2. "relStatus" \notin BindStages /\ "relLetGo" \notin BindStages
      BY DEF BindStages
    <3>3. CASE rc' = [Outdate(rc[c].tgt, rc) EXCEPT ![c].pc = "relStatus"]
      BY <2>1, <2>11, <3>1, <3>2, <3>3, QuietRelease
    <3>4. CASE Goto(c, "relStatus")
      BY <2>1, <2>4, <3>1, <3>2, <3>4, QuietRelease
    <3>5. CASE ~Exists(rc[c].tgt) /\ Goto(c, "relLetGo") /\ UNCHANGED vm
      <4>1. rc[c].tgt = rc[c].obj.ref /\ Created(rc[c].obj.ref)
        BY <2>15 DEF ReleaseDelete, ReleaseStages, RefsCreated
      <4>2. rc[c].obj.ref \in Members \cup {None}
        BY DEF TypeOK, Passes, ClaimObjects
      <4>3. rc[c].obj.ref \in Members => vm[rc[c].obj.ref].st = "gone"
        BY <3>5, <4>1 DEF Created, Exists, TypeOK, VmObjects
      <4>4. /\ rc'[c].pc = "relLetGo" /\ rc'[c].obj = rc[c].obj /\ rc'[c].tgt = rc[c].tgt
            /\ \A d \in Claims \ {c} : rc'[d] = rc[d]
        BY <3>5, GotoFields
      <4>5. UNCHANGED <<vm, claim, feed, seen>>
        BY <2>15, <3>5 DEF ReleaseDelete, NoWrite
      <4>6. \A x : Created(x)' <=> Created(x)
        BY <4>5 DEF Created
      <4>7. RefsCreated'
        BY <3>2, <4>4, <4>5, <4>6 DEF RefsCreated
      <4>8. ReleaseStages'
        BY <4>2, <4>3, <4>4, <4>5 DEF ReleaseStages
      <4> QED BY <4>7, <4>8
    <3> QED BY <2>15, <3>3, <3>4, <3>5 DEF ReleaseDelete
  <2>16. ASSUME NEW o \in ClaimObjects, Created(o.ref)
         PROVE  /\ WithoutFinalizer(o) \in ClaimObjects /\ Created(WithoutFinalizer(o).ref)
                /\ Deleted(o) \in ClaimObjects /\ Created(Deleted(o).ref)
    <3>1. NoClaim \in ClaimObjects /\ Created(NoClaim.ref)
      BY NoPassType, ConstantsAssumption DEF NoClaim, Created
    <3>2. /\ [o EXCEPT !.fin = FALSE] \in ClaimObjects
          /\ [o EXCEPT !.fin = FALSE].ref = o.ref
          /\ [o EXCEPT !.del = TRUE] \in ClaimObjects
          /\ [o EXCEPT !.del = TRUE].ref = o.ref
      BY DEF ClaimObjects
    <3> QED BY <2>16, <3>1, <3>2 DEF WithoutFinalizer, Deleted
  <2>17. ASSUME NEW c \in Claims, RemoveFinalizer(c) \/ DeleteExpired(c) \/ Abort(c)
         PROVE  QuietClaims /\ QuietPasses
    <3>1. QuietPasses
      BY <2>17, EndPassRelease DEF RemoveFinalizer, DeleteExpired, Abort, FailCall
    <3>2. claim[c] \in ClaimObjects /\ Created(claim[c].ref)
      BY DEF TypeOK, RefsCreated
    <3>3. QuietClaims
      BY <2>2, <2>16, <2>17, <3>2, WriteClaimRefs
         DEF RemoveFinalizer, DeleteExpired, Abort, FailCall, NoWrite
    <3> QED BY <3>1, <3>3
  <2>18. ASSUME NEW c \in Claims, Deliver(c) PROVE QuietClaims /\ QuietPasses
    <3> DEFINE q == feed[c]
    <3>1. q \in Seq(ClaimObjects) /\ q # <<>>
      BY <2>18 DEF Deliver, TypeOK
    <3>2. \A i \in 1..Len(q) : Created(q[i].ref)
      BY DEF RefsCreated
    <3>3. seen' = [seen EXCEPT ![c] = Head(q)] /\ feed' = [feed EXCEPT ![c] = Tail(q)]
      BY <2>18 DEF Deliver
    <3>4. UNCHANGED <<claim, rc>>
      BY <2>18 DEF Deliver
    <3> HIDE DEF q
    <3>5. /\ Len(q) \in Nat /\ Len(q) > 0 /\ Head(q) = q[1]
          /\ Len(Tail(q)) = Len(q) - 1
          /\ \A i \in 1..Len(Tail(q)) : Tail(q)[i] = q[i + 1]
      BY <3>1
    <3>6. Created(Head(q).ref) /\ \A i \in 1..Len(Tail(q)) : Created(Tail(q)[i].ref)
      BY <3>2, <3>5
    <3>7. QuietClaims
      BY <3>3, <3>4, <3>6 DEF QuietClaims, RefsCreated, TypeOK
    <3> QED BY <2>3, <3>4, <3>7
  <2>19. ASSUME NEW c \in Claims, CreateClaim(c) \/ DeleteClaim(c)
         PROVE  QuietClaims /\ QuietPasses
    <3>1. QuietPasses
      BY <2>3, <2>19 DEF CreateClaim, DeleteClaim
    <3>2. claim[c] \in ClaimObjects /\ Created(claim[c].ref)
      BY DEF TypeOK, RefsCreated
    <3>3. CASE DeleteClaim(c)
      BY <2>16, <3>1, <3>2, <3>3, WriteClaimRefs DEF DeleteClaim
    <3>4. CASE CreateClaim(c)
      <4> DEFINE o == [NoClaim EXCEPT !.uid = lives[c] + 1]
      <4>1. lives[c] + 1 \in 0..MaxLives
        BY <3>4, ConstantsAssumption DEF CreateClaim, TypeOK
      <4>2. o \in ClaimObjects
        BY <4>1, ClaimUpdates, NoPassType
      <4>3. o.ref = None
        BY DEF NoClaim
      <4>4. WriteClaim(c, o, FALSE)
        BY <3>4 DEF CreateClaim
      <4> HIDE DEF o
      <4>5. Created(o.ref)
        BY <4>3, ConstantsAssumption DEF Created
      <4> QED BY <3>1, <4>2, <4>4, <4>5, WriteClaimRefs
    <3> QED BY <2>19, <3>3, <3>4
  <2>20. ASSUME NEW m \in Members,
                CreateMember(m) \/ ReportReady(m) \/ DeleteMember(m)
                \/ CollectGarbage(m) \/ FinishMember(m)
         PROVE  QuietClaims /\ QuietPasses
    <3>1. UNCHANGED <<claim, feed, seen>> /\ rc' = Outdate(m, rc)
      BY <2>20 DEF CreateMember, ReportReady, DeleteMember, CollectGarbage,
                   FinishMember, SetVm, NoWrite
    <3> QED BY <2>2, <2>5, <3>1
  <2>21. CASE Tick \/ UNCHANGED vars
    BY <2>1, <2>2, <2>3, <2>21, QuietRelease DEF Tick, vars
  <2> QED
    BY <2>1, <2>7, <2>8, <2>9, <2>10, <2>12, <2>13, <2>14, <2>15, <2>17, <2>18,
       <2>19, <2>20, <2>21, QuietRelease DEF Next, Pass
<1>3. Inv => ReleaseAfterDestroy
  BY DEF ReleaseStages, ReleaseAfterDestroy, Exists, TypeOK, Passes, ClaimObjects
<1> QED BY <1>1, <1>2, <1>3, TypeInvariant, PTL DEF Spec
-----------------------------------------------------------------------------
(***************************************************************************)
(* ReboundOnlyIfStale.  Only the status patch of a bind writes boundRef    *)
(* and expiresAt, and next_step sends a pass to the bind only when the     *)
(* claim it was handed names no member; what the pass was handed does not  *)
(* change until it ends.                                                   *)
(***************************************************************************)
Binding == BindStages \cup {"pick"}

HandedUnbound ==
    \A c \in Claims : /\ rc[c].pc \in Binding => rc[c].obj.ref = None
                      /\ claim[c].uid = 0 => claim[c].ref = None

\* A step takes no pass towards a bind, except from pick on, with the claim it
\* was handed.
NoNewBinding ==
    \A c \in Claims : rc'[c].pc \in Binding =>
        rc[c].pc \in Binding /\ rc'[c].obj = rc[c].obj

\* The claim a write leaves: as bound as before, or another object.
SameBinding(o, p) ==
    \/ p.uid = o.uid /\ p.ref = o.ref /\ p.exp = o.exp
    \/ p.ref = None /\ (p.uid # o.uid \/ o.ref = None)

\* The writes of a claim object but for the status patch of a bind.
LEMMA SameBindings ==
    ASSUME NEW o \in ClaimObjects, o.uid = 0 => o.ref = None
    PROVE  /\ SameBinding(o, o)
           /\ \A b \in BOOLEAN : SameBinding(o, [o EXCEPT !.fin = b])
           /\ \A p \in Phases : SameBinding(o, [o EXCEPT !.phase = p])
           /\ SameBinding(o, WithoutFinalizer(o)) /\ SameBinding(o, Deleted(o))
<1>1. SameBinding(o, o) /\ SameBinding(o, NoClaim)
  BY DEF SameBinding, NoClaim, ClaimObjects
<1>2. /\ \A b \in BOOLEAN : SameBinding(o, [o EXCEPT !.fin = b])
      /\ \A p \in Phases : SameBinding(o, [o EXCEPT !.phase = p])
      /\ SameBinding(o, [o EXCEPT !.del = TRUE])
  BY DEF SameBinding, ClaimObjects
<1> QED BY <1>1, <1>2 DEF WithoutFinalizer, Deleted

\* Every step but the status patch of a bind leaves every claim as bound as it
\* was, and every step but the start of a pass leaves what a pass was handed.
LEMMA BindingStep ==
    ASSUME TypeOK, HandedUnbound, [Next]_vars
    PROVE  /\ \A c \in Claims : BindStatus(c) \/ SameBinding(claim[c], claim'[c])
           /\ NoNewBinding \/ \E c \in Claims : Reconcile(c)
<1> DEFINE Alike == \A d \in Claims : SameBinding(claim[d], claim'[d])
<1>1. \A d \in Claims : claim[d] \in ClaimObjects /\ (claim[d].uid = 0 => claim[d].ref = None)
  BY DEF TypeOK, HandedUnbound
<1>2. ASSUME UNCHANGED claim PROVE Alike
  BY <1>1, <1>2, SameBindings
<1>3. ASSUME NEW c \in Claims, NEW o, NEW r, WriteClaim(c, o, r), SameBinding(claim[c], o)
      PROVE  Alike
  <2>1. claim' = [claim EXCEPT ![c] = o]
    BY <1>3 DEF WriteClaim
  <2>2. \A d \in Claims : claim'[d] = IF d = c THEN o ELSE claim[d]
    BY <2>1 DEF TypeOK
  <2> QED BY <1>1, <1>3, <2>2, SameBindings
<1>4. ASSUME NEW c \in Claims, EndPass(c) PROVE NoNewBinding
  BY <1>4 DEF EndPass, NoPass, NoNewBinding, Binding, BindStages, TypeOK
<1>5. ASSUME UNCHANGED rc PROVE NoNewBinding
  BY <1>5 DEF NoNewBinding
<1>6. ASSUME NEW c \in Claims, NEW p, Goto(c, p), p \in Binding => rc[c].pc \in Binding
      PROVE  NoNewBinding
  BY <1>6, GotoFields DEF NoNewBinding
<1>7. ASSUME NEW m, rc' = Outdate(m, rc) PROVE NoNewBinding
  BY <1>7, OutdatePasses DEF NoNewBinding, TypeOK
<1>8. ASSUME NEW c \in Claims, NEW m, NEW p, rc' = [Outdate(m, rc) EXCEPT ![c].pc = p],
             p \in Binding => rc[c].pc \in Binding
      PROVE  NoNewBinding
  <2> DEFINE x == Outdate(m, rc)
             s == [x[c] EXCEPT !.pc = p]
  <2>1. x \in [Claims -> Passes] /\ \A d \in Claims : x[d].pc = rc[d].pc /\ x[d].obj = rc[d].obj
    BY OutdatePasses DEF TypeOK
  <2>2. s.pc = p /\ s.obj = rc[c].obj
    BY <2>1, x[c] \in Passes DEF Passes
  <2>3. rc' = [x EXCEPT ![c] = s]
    BY <1>8
  <2> HIDE DEF x, s
  <2>4. \A d \in Claims : rc'[d] = IF d = c THEN s ELSE x[d]
    BY <2>1, <2>3
  <2> QED BY <1>8, <2>1, <2>2, <2>4 DEF NoNewBinding
<1>9. ASSUME NEW c \in Claims, NEW o, NEW r, PatchStatus(c, o, r) PROVE
          /\ NoNewBinding
          /\ \A d \in Claims \ {c} : SameBinding(claim[d], claim'[d])
          /\ SameBinding(claim[c], o) => Alike
  <2>1. NoNewBinding
    BY <1>4, <1>9 DEF PatchStatus, FailCall
  <2>2. claim' = [claim EXCEPT ![c] = o] \/ UNCHANGED claim
    BY <1>9 DEF PatchStatus, WriteClaim, FailCall, NoWrite
  <2>3. \A d \in Claims : claim'[d] = claim[d] \/ (d = c /\ claim'[d] = o)
    BY <2>2 DEF TypeOK
  <2> QED BY <1>1, <2>1, <2>3, SameBindings
<1>10. ASSUME NEW c \in Claims, Pick(c) PROVE Alike /\ NoNewBinding
  <2>1. Alike
    BY <1>2, <1>10 DEF Pick, NoWrite
  <2>2. ASSUME NEW m, rc' = [rc EXCEPT ![c].pc = "bindFin", ![c].tgt = m]
        PROVE  NoNewBinding
    <3> DEFINE s == [rc[c] EXCEPT !.pc = "bindFin", !.tgt = m]
    <3>1. s.obj = rc[c].obj /\ rc[c].pc \in Binding
      BY <1>10, rc[c] \in Passes DEF Passes, TypeOK, Pick, Binding
    <3>2. rc' = [rc EXCEPT ![c] = s]
      BY <2>2
    <3> HIDE DEF s
    <3>3. \A d \in Claims : rc'[d] = IF d = c THEN s ELSE rc[d]
      BY <3>2 DEF TypeOK
    <3> QED BY <3>1, <3>3 DEF NoNewBinding
  <2>3. Goto(c, "waitFin") => NoNewBinding
    BY <1>6 DEF Binding, BindStages
  <2> QED BY <1>10, <2>1, <2>2, <2>3 DEF Pick
<1>11. ASSUME NEW c \in Claims, EnsureFinalizer(c) PROVE Alike /\ NoNewBinding
  <2>1. AfterFin[rc[c].pc] \in Binding => rc[c].pc \in Binding
    BY <1>11 DEF EnsureFinalizer, AfterFin, Binding, BindStages
  <2>2. NoNewBinding
    BY <1>4, <1>6, <1>11, <2>1 DEF EnsureFinalizer, FailCall
  <2>3. SameBinding(claim[c], [claim[c] EXCEPT !.fin = TRUE])
    BY <1>1, SameBindings
  <2>4. Alike
    BY <1>2, <1>3, <1>11, <2>3 DEF EnsureFinalizer, FailCall, NoWrite
  <2> QED BY <2>2, <2>4
<1>12. ASSUME NEW c \in Claims, BindGet(c) PROVE Alike /\ NoNewBinding
  <2>1. Alike
    BY <1>2, <1>12 DEF BindGet, FailCall, NoWrite
  <2>2. ASSUME rc' = [rc EXCEPT ![c].pc = "bindPatch", ![c].fresh = TRUE]
        PROVE  NoNewBinding
    <3> DEFINE s == [rc[c] EXCEPT !.pc = "bindPatch", !.fresh = TRUE]
    <3>1. s.obj = rc[c].obj /\ rc[c].pc \in Binding
      BY <1>12, rc[c] \in Passes DEF Passes, TypeOK, BindGet, Binding, BindStages
    <3>2. rc' = [rc EXCEPT ![c] = s]
      BY <2>2
    <3> HIDE DEF s
    <3>3. \A d \in Claims : rc'[d] = IF d = c THEN s ELSE rc[d]
      BY <3>2 DEF TypeOK
    <3> QED BY <3>1, <3>3 DEF NoNewBinding
  <2> QED BY <1>4, <1>12, <2>1, <2>2 DEF BindGet, FailCall
<1>13. ASSUME NEW c \in Claims, BindPatch(c) PROVE Alike /\ NoNewBinding
  <2>1. Alike
    BY <1>2, <1>13 DEF BindPatch, FailCall, NoWrite
  <2>2. rc[c].pc \in Binding
    BY <1>13 DEF BindPatch, Binding, BindStages
  <2>3. EndPass(c) \/ rc' = [Outdate(rc[c].tgt, rc) EXCEPT ![c].pc = "bindStatus"]
    BY <1>13 DEF BindPatch, FailCall
  <2> QED BY <1>4, <1>8, <2>1, <2>2, <2>3
<1>14. ASSUME NEW c \in Claims, BindStatus(c)
       PROVE  /\ NoNewBinding
              /\ \A d \in Claims \ {c} : SameBinding(claim[d], claim'[d])
  BY <1>9, <1>14 DEF BindStatus
<1>15. ASSUME NEW c \in Claims, HoldStatus(c) \/ WaitStatus(c) \/ FailStatus(c)
                                \/ ReleaseStatus(c)
       PROVE  Alike /\ NoNewBinding
  <2>1. PICK p \in Phases : \E r : PatchStatus(c, [claim[c] EXCEPT !.phase = p], r)
    BY <1>15 DEF HoldStatus, WaitStatus, FailStatus, ReleaseStatus, Phases
  <2>2. SameBinding(claim[c], [claim[c] EXCEPT !.phase = p])
    BY <1>1, SameBindings
  <2> QED BY <1>9, <2>1, <2>2
<1>16. ASSUME NEW c \in Claims, ReleaseDelete(c) PROVE Alike /\ NoNewBinding
  <2>1. Alike
    BY <1>2, <1>16 DEF ReleaseDelete, NoWrite
  <2>2. "relStatus" \notin Binding /\ "relLetGo" \notin Binding
    BY DEF Binding, BindStages
  <2>3. \/ rc' = [Outdate(rc[c].tgt, rc) EXCEPT ![c].pc = "relStatus"]
        \/ Goto(c, "relStatus") \/ Goto(c, "relLetGo")
    BY <1>16 DEF ReleaseDelete
  <2> QED BY <1>6, <1>8, <2>1, <2>2, <2>3
<1>17. ASSUME NEW c \in Claims, RemoveFinalizer(c) \/ DeleteExpired(c) \/ Abort(c)
       PROVE  Alike /\ NoNewBinding
  <2>1. NoNewBinding
    BY <1>4, <1>17 DEF RemoveFinalizer, DeleteExpired, Abort, FailCall
  <2>2. SameBinding(claim[c], WithoutFinalizer(claim[c]))
        /\ SameBinding(claim[c], Deleted(claim[c]))
    BY <1>1, SameBindings
  <2>3. Alike
    BY <1>2, <1>3, <1>17, <2>2 DEF RemoveFinalizer, DeleteExpired, Abort, FailCall, NoWrite
  <2> QED BY <2>1, <2>3
<1>18. ASSUME NEW c \in Claims, Deliver(c) \/ CreateClaim(c) \/ DeleteClaim(c)
       PROVE  Alike /\ NoNewBinding
  <2>1. NoNewBinding
    BY <1>5, <1>18 DEF Deliver, CreateClaim, DeleteClaim
  <2>2. CASE Deliver(c)
    BY <1>2, <2>1, <2>2 DEF Deliver
  <2>3. CASE DeleteClaim(c)
    <3>1. SameBinding(claim[c], Deleted(claim[c]))
      BY <1>1, SameBindings
    <3> QED BY <1>3, <2>1, <2>3, <3>1 DEF DeleteClaim
  <2>4. CASE CreateClaim(c)
    <3> DEFINE o == [NoClaim EXCEPT !.uid = lives[c] + 1]
    <3>1. WriteClaim(c, o, FALSE) /\ claim[c].uid = 0
      BY <2>4 DEF CreateClaim
    <3>2. o.ref = None
      BY DEF NoClaim
    <3> HIDE DEF o
    <3>3. SameBinding(claim[c], o)
      BY <1>1, <3>1, <3>2 DEF SameBinding
    <3> QED BY <1>3, <2>1, <3>1, <3>3
  <2> QED BY <1>18, <2>2, <2>3, <2>4
<1>19. ASSUME NEW m \in Members,
              CreateMember(m) \/ ReportReady(m) \/ DeleteMember(m)
              \/ CollectGarbage(m) \/ FinishMember(m)
       PROVE  Alike /\ NoNewBinding
  <2>1. UNCHANGED claim /\ rc' = Outdate(m, rc)
    BY <1>19 DEF CreateMember, ReportReady, DeleteMember, CollectGarbage,
                 FinishMember, SetVm, NoWrite
  <2> QED BY <1>2, <1>7, <2>1
<1>20. CASE Tick \/ UNCHANGED vars
  BY <1>2, <1>5, <1>20 DEF Tick, vars
<1>21. ASSUME NEW c \in Claims, Reconcile(c) PROVE Alike
  BY <1>2, <1>21 DEF Reconcile, NoWrite
<1> HIDE DEF Alike
<1>22. Alike => \A c \in Claims : BindStatus(c) \/ SameBinding(claim[c], claim'[c])
  BY DEF Alike
<1> QED
  BY <1>10, <1>11, <1>12, <1>13, <1>14, <1>15, <1>16, <1>17, <1>18, <1>19, <1>20,
     <1>21, <1>22 DEF Next, Pass

\* Claims are never rebound and nothing extends a deadline, whatever happens to
\* the member, except by a pass that was handed the claim as it was before its
\* bind: for any cache lag and any failures (bind and patch_status in claim.rs).
THEOREM NeverRebound == Spec => ReboundOnlyIfStale
<1>1. Init => HandedUnbound
  BY DEF Init, HandedUnbound, NoPass, NoClaim
<1>2. TypeOK /\ HandedUnbound /\ [Next]_vars => HandedUnbound'
  <2> SUFFICES ASSUME TypeOK, HandedUnbound, [Next]_vars, NEW c \in Claims
               PROVE  /\ rc'[c].pc \in Binding => rc'[c].obj.ref = None
                      /\ claim'[c].uid = 0 => claim'[c].ref = None
    BY DEF HandedUnbound
  <2>1. claim'[c].uid = 0 => claim'[c].ref = None
    <3>1. CASE BindStatus(c)
      <4> DEFINE o == [claim[c] EXCEPT !.phase = "Bound", !.ref = rc[c].tgt,
                                       !.exp = expiry(rc[c].at)]
      <4>1. \/ claim[c].uid # 0 /\ claim' = [claim EXCEPT ![c] = o]
            \/ UNCHANGED claim
        BY <3>1 DEF BindStatus, PatchStatus, WriteClaim, FailCall, NoWrite
      <4>2. o.uid = claim[c].uid
        BY claim[c] \in ClaimObjects DEF ClaimObjects, TypeOK
      <4> HIDE DEF o
      <4> QED BY <4>1, <4>2 DEF HandedUnbound, TypeOK
    <3>2. CASE SameBinding(claim[c], claim'[c])
      BY <3>2 DEF SameBinding, HandedUnbound
    <3> QED BY <3>1, <3>2, BindingStep
  <2>2. rc'[c].pc \in Binding => rc'[c].obj.ref = None
    <3>1. CASE NoNewBinding
      BY <3>1 DEF NoNewBinding, HandedUnbound
    <3>2. ASSUME NEW d \in Claims, Reconcile(d)
          PROVE  rc'[c].pc \in Binding => rc'[c].obj.ref = None
      <4> DEFINE s == [pc |-> next_step(seen[d], seen[d].ref # None /\ Exists(seen[d].ref), now),
                       obj |-> seen[d], tgt |-> seen[d].ref, at |-> now, fresh |-> FALSE]
      <4>1. rc' = [rc EXCEPT ![d] = s]
        BY <3>2 DEF Reconcile
      <4>2. s.pc \in Binding => s.obj.ref = None
        BY DEF next_step, Binding, BindStages
      <4> HIDE DEF s
      <4>3. rc'[c] = IF c = d THEN s ELSE rc[c]
        BY <4>1 DEF TypeOK
      <4> QED BY <4>2, <4>3 DEF HandedUnbound
    <3> QED BY <3>1, <3>2, BindingStep
  <2> QED BY <2>1, <2>2
<1>3. ASSUME TypeOK, HandedUnbound, [Next]_vars
      PROVE  [\A c \in Claims :
                 /\ claim[c].ref # None /\ claim'[c].uid = claim[c].uid
                 /\ <<claim'[c].ref, claim'[c].exp>> # <<claim[c].ref, claim[c].exp>>
                 => rc[c].obj.ref = None]_vars
  <2> SUFFICES ASSUME NEW c \in Claims, claim[c].ref # None, claim'[c].uid = claim[c].uid,
                      <<claim'[c].ref, claim'[c].exp>> # <<claim[c].ref, claim[c].exp>>
               PROVE  rc[c].obj.ref = None
    OBVIOUS
  <2>1. ~SameBinding(claim[c], claim'[c])
    BY DEF SameBinding
  <2>2. BindStatus(c)
    BY <1>3, <2>1, BindingStep
  <2>3. rc[c].pc \in Binding
    BY <2>2 DEF BindStatus, Binding, BindStages
  <2> QED BY <1>3, <2>3 DEF HandedUnbound
<1> QED BY <1>1, <1>2, <1>3, TypeInvariant, PTL DEF Spec, ReboundOnlyIfStale
=============================================================================
