------------------------ MODULE ProxmoxMachineProofs ------------------------
(***************************************************************************)
(* ProxmoxMachine implements MachineLifecycle, for any number of VMIDs, of *)
(* creations of the machine, of failed calls and of changes by users.      *)
(*                                                                         *)
(* What is promised is that the machine goes only after its VM and seed.   *)
(* That rests on what is held having a machine under the finalizer, or a   *)
(* pass that will find the machine gone and clean up (Cared); on passes    *)
(* past the finalizer having one too (Witnessed, of InfraMachineProofs);   *)
(* and on a machine having one VM at most (Lone), for the finalizer        *)
(* removes one.                                                            *)
(*                                                                         *)
(* And that the VMs of others are left alone, because a pass works on no   *)
(* VM whose marker it has not read or written (Marked), unless its VMID    *)
(* went to somebody else since then.                                       *)
(***************************************************************************)
EXTENDS ProxmoxMachine, InfraMachineProofs

Lifecycle == INSTANCE MachineLifecycle WITH
    Machines <- Uids, Resources <- Resources,
    machine <- [u \in Uids |-> MachineOf(u)], held <- Holdings

\* The stages between the finalizer and the end of a pass for a live machine.
Working == {"allocate", "recordId", "clone", "configure", "power", "providerId", "record",
            "failed"}

\* The stages in which a pass removes what there is.
Removing == {"finVm", "finStop", "finDelete", "finSeed"}

IsOurs(v, u) == IsVm(v) /\ vms[v].uid = u

Lone ==
    /\ \A u \in Uids : \A v, w \in Vmids : IsOurs(v, u) /\ IsOurs(w, u) => v = w
    /\ pc \in {"recordId", "clone"} => \A v \in Vmids : ~IsOurs(v, pass.snap.uid)

\* What the removal leaves, stage by stage.
Removed ==
    /\ pc \in {"finStop", "finDelete"} =>
          \A v \in Vmids : IsOurs(v, pass.snap.uid) => v = pass.vmid
    /\ pc \in {"finSeed", "finRemove"} => \A v \in Vmids : ~IsOurs(v, pass.snap.uid)
    /\ pc = "finRemove" => pass.snap.uid \notin backend.seeds

\* A pass removes what it made because the machine is being deleted or is gone.
Routes ==
    /\ pc \in Removing \cup {"finRemove"} => pass.gone \/ pass.snap.life = "deleting"
    /\ pass.gone => pc \in Removing
    /\ pc \in Working \cup {"finalizer"} => pass.snap.life = "live"

\* What is held has a machine under the finalizer, or a pass that will clean up.
Cared ==
    ~Excused => \A u \in Uids : Held(u) # {} =>
        \/ Owned(u)
        \/ /\ Noticed(u) /\ pass.snap.uid = u
           /\ pc \in Working \/ (pass.gone /\ pc \in Removing)

Inv ==
    /\ TypeOK /\ Lone /\ Removed /\ Routes
    /\ History /\ Current /\ Witnessed(Working) /\ Cared

-----------------------------------------------------------------------------
\* Types.

Backends == [vms: [Vmids -> VmRecords], seeds: SUBSET Uids]

\* The records a machine starts with and those its updates leave.
LEMMA ObjectTypes ==
    ASSUME NEW o \in Objects
    PROVE  /\ NoObject \in Objects /\ \A u \in Uids : Created(NoObject, u) \in Objects
           /\ \A b \in BOOLEAN : [o EXCEPT !.fin = b] \in Objects
           /\ \A l \in Lives : [o EXCEPT !.life = l] \in Objects
           /\ FinalizerRemoved(o) \in Objects
           /\ [o EXCEPT !.ver = @ + 1, !.gen = @ + 1] \in Objects
           /\ \A v \in Vmids \cup {NoVM}, n \in Nat :
                /\ [o EXCEPT !.ref = v, !.seen = n] \in Objects
                /\ [o EXCEPT !.pid = v, !.gen = n] \in Objects
<1>1. 1 \in Uids
  BY BoundsAssumption DEF Uids
<1> HIDE DEF Uids
<1>2. NoObject \in Objects /\ \A u \in Uids : Created(NoObject, u) \in Objects
  BY <1>1 DEF NoObject, Created, Objects, Lives
<1>3. FinalizerRemoved(o) \in Objects
  BY DEF FinalizerRemoved, Objects, Lives
<1>4. /\ \A b \in BOOLEAN : [o EXCEPT !.fin = b] \in Objects
      /\ \A l \in Lives : [o EXCEPT !.life = l] \in Objects
  BY DEF Objects
<1>5. [o EXCEPT !.ver = @ + 1, !.gen = @ + 1] \in Objects
  <2>1. o.ver + 1 \in Nat /\ o.gen + 1 \in Nat
    BY DEF Objects
  <2> QED BY <2>1 DEF Objects
<1>6. \A v \in Vmids \cup {NoVM}, n \in Nat :
         /\ [o EXCEPT !.ref = v, !.seen = n] \in Objects
         /\ [o EXCEPT !.pid = v, !.gen = n] \in Objects
  BY DEF Objects
<1> QED BY <1>2, <1>3, <1>4, <1>5, <1>6

\* What a pass knows.
LEMMA PassTypes ==
    ASSUME NEW p \in Passes
    PROVE  /\ NoPass \in Passes
           /\ \A o \in Objects : [NoPass EXCEPT !.snap = o] \in Passes
           /\ \A v \in Vmids \cup {NoVM} :
                [p EXCEPT !.vmid = v] \in Passes
                /\ [p EXCEPT !.vmid = v, !.gone = TRUE] \in Passes
                /\ [p EXCEPT !.vmid = v, !.reused = FALSE] \in Passes
           /\ \A b \in BOOLEAN : [p EXCEPT !.reused = b] \in Passes
<1>1. NoObject \in Objects
  BY BoundsAssumption DEF NoObject, Objects, Lives, Uids
<1> QED BY <1>1 DEF Passes, NoPass

\* What the updates of the backend leave.
LEMMA BackendTypes ==
    ASSUME NEW b \in Backends, NEW v, NEW r \in VmRecords
    PROVE  /\ [b EXCEPT !.vms[v] = r] \in Backends
           /\ [b EXCEPT !.vms[v] = r].vms = [b.vms EXCEPT ![v] = r]
           /\ [b EXCEPT !.vms[v] = r].seeds = b.seeds
           /\ \A s \in SUBSET Uids : /\ [b EXCEPT !.seeds = s] \in Backends
                                     /\ [b EXCEPT !.seeds = s].vms = b.vms
                                     /\ [b EXCEPT !.seeds = s].seeds = s
<1> HIDE DEF VmRecords, Vmids, Uids
<1> QED BY DEF Backends

\* Every step keeps the types.
LEMMA TypeStep ==
    ASSUME TypeOK, [Next]_vars PROVE TypeOK'
<1>1. /\ obj \in Objects /\ cache \in Objects /\ backend \in Backends /\ pass \in Passes
      /\ pass.snap \in Objects /\ pass.vmid \in Vmids \cup {NoVM}
      /\ pass.snap.ref \in Vmids \cup {NoVM} /\ pass.snap.uid \in Uids
      /\ pass.snap.ver \in Nat /\ pass.snap.gen \in Nat /\ pass.snap.seen \in Nat
  BY DEF TypeOK, Backends, Passes, Objects
<1>2. /\ Cloned \in VmRecords /\ Free \in VmRecords /\ [Free EXCEPT !.at = "vm"] \in VmRecords
  BY <1>1 DEF Cloned, Free, VmRecords, Foreign
<1>3. {"idle", "connect", "finalizer", "allocate", "recordId", "clone", "configure",
       "power", "providerId", "record", "failed", "finVm", "finStop", "finDelete", "finSeed",
       "finRemove"} \subseteq Stages
  BY DEF Stages
<1>4. ASSUME obj' \in Objects, cache' \in Objects, backend' \in Backends, provider' \in BOOLEAN,
             pc' \in Stages, pass' \in Passes,
             \/ UNCHANGED loss \/ loss' = loss \cup Namesake
             \/ loss' = loss \cup {"noticed"} \/ loss' = loss \cup {"forced"},
             UNCHANGED faults \/ Fail, UNCHANGED changes \/ Change
      PROVE  TypeOK'
  <2>1. faults' \in 0..MaxFaults /\ changes' \in 0..MaxChanges
    BY <1>4, BoundsAssumption DEF Fail, Change, TypeOK
  <2>2. loss' \subseteq {"forced", "noticed", "namesake"}
    BY <1>4 DEF Namesake, TypeOK
  <2> QED BY <1>4, <2>1, <2>2 DEF TypeOK, Backends, Passes
<1>5. provider \in BOOLEAN /\ pc \in Stages
  BY DEF TypeOK
<1> HIDE DEF Stages
<1>6. CASE Trigger
  BY <1>1, <1>3, <1>4, <1>5, <1>6, PassTypes DEF Trigger, StartPass, KeepApi, Keep
<1>7. CASE Connect
  BY <1>1, <1>3, <1>4, <1>5, <1>7, PassTypes DEF Connect, Goto, End, EndPass, KeepApi, Keep
<1>8. CASE AddFinalizer
  BY <1>1, <1>3, <1>4, <1>5, <1>8, PassTypes, ObjectTypes
     DEF AddFinalizer, EnsureFinalizer, Goto, EndPass, Keep
<1>9. CASE allocate_vmid
  <2>1. find_ours(pass.snap.ref) \subseteq Vmids /\ fresh_vmid(pass.snap.ref) \subseteq Vmids
    BY DEF find_ours, fresh_vmid, next_id, IsFree
  <2> QED BY <1>1, <1>3, <1>4, <1>5, <1>9, <2>1, PassTypes DEF allocate_vmid, Goto, KeepApi, Keep
<1>10. CASE record_vmid
  <2>1. Status(pass.vmid, pass.snap.seen) \in Objects
    BY <1>1, ObjectTypes DEF Status
  <2> QED BY <1>1, <1>3, <1>4, <1>5, <1>10, <2>1 DEF record_vmid, PatchMachine, ToStage, Keep
<1>11. CASE clone_from_template
  <2>1. [backend EXCEPT !.vms[pass.vmid] = Cloned] \in Backends
    BY <1>1, <1>2, BackendTypes
  <2> QED BY <1>1, <1>3, <1>4, <1>5, <1>11, <2>1 DEF clone_from_template, Goto, KeepApi, Keep
<1>12. ASSUME NEW stage, NEW made \in Backends, NEW next \in Stages, VmCall(stage, made, next)
       PROVE  TypeOK'
  <2>1. [backend EXCEPT !.seeds = made.seeds] \in Backends
    BY <1>1 DEF Backends
  <2> QED BY <1>1, <1>3, <1>4, <1>5, <1>12, <2>1 DEF VmCall, Goto, KeepApi, Keep
<1>13. CASE configure
  <2>1. [backend EXCEPT !.seeds = @ \cup {pass.snap.uid},
                        !.vms[pass.vmid].conf = pass.snap.ver] \in Backends
    <3> DEFINE r == [vms[pass.vmid] EXCEPT !.conf = pass.snap.ver]
               b == [backend EXCEPT !.seeds = @ \cup {pass.snap.uid}]
    <3>1. b \in Backends /\ b.vms = vms
      BY <1>1, BackendTypes DEF Backends, vms
    <3>2. pass.vmid \in Vmids => r \in VmRecords
      BY <1>1 DEF Backends, VmRecords, vms
    <3> HIDE DEF r, b, VmRecords
    <3>3. [b EXCEPT !.vms[pass.vmid] = r] \in Backends
      BY <3>1, <3>2 DEF Backends
    <3> QED BY <1>1, <3>3 DEF Backends, r, b, vms
  <2> QED BY <1>3, <1>12, <1>13, <2>1 DEF configure
<1>14. CASE ensure_power
  <2>1. [backend EXCEPT !.vms[pass.vmid].on = TRUE] \in Backends
    BY <1>1 DEF Backends, VmRecords
  <2> QED BY <1>3, <1>12, <1>14, <2>1 DEF ensure_power
<1>15. CASE patch_provider_id
  <2> DEFINE o == [obj EXCEPT !.pid = pass.vmid,
                              !.gen = IF obj.pid = pass.vmid THEN @ ELSE @ + 1]
  <2>1. o \in Objects
    <3>1. (IF obj.pid = pass.vmid THEN obj.gen ELSE obj.gen + 1) \in Nat
      BY <1>1 DEF Objects
    <3> QED BY <1>1, <3>1, ObjectTypes
  <2>2. CASE pass.snap.pid = pass.vmid /\ Goto("record") /\ UNCHANGED <<obj, faults>>
    BY <1>1, <1>3, <1>4, <1>5, <1>15, <2>2 DEF patch_provider_id, Goto, Keep
  <2>3. CASE PatchMachine(o, ToStage("record"), End, gone_or(pass.vmid))
    <3> HIDE DEF o
    <3> QED
      BY <1>1, <1>3, <1>4, <1>5, <1>15, <2>1, <2>3, PassTypes
         DEF patch_provider_id, PatchMachine, ToStage, End, EndPass, gone_or, Keep
  <2> QED BY <1>15, <2>2, <2>3 DEF patch_provider_id
<1>16. CASE patch_status
  <2>1. build_status \in Objects /\ failure_status \in Objects
    BY <1>1, ObjectTypes DEF build_status, failure_status, Status
  <2> QED
    BY <1>1, <1>3, <1>4, <1>5, <1>16, <2>1, PassTypes
       DEF patch_status, PatchMachine, End, EndPass, gone_or, Keep
<1>17. CASE finalize_find
  <2>1. /\ UNCHANGED <<obj, cache, backend, provider, loss, changes>> /\ (UNCHANGED faults \/ Fail)
        /\ pc' \in {"finStop", "finSeed", "idle"}
        /\ \/ pass' = pass \/ pass' = NoPass
           \/ \E v \in Vmids : pass' = [pass EXCEPT !.vmid = v, !.reused = FALSE]
    BY <1>17 DEF finalize_find, find_ours, ToStage, End, EndPass, KeepApi, Keep
  <2>2. pass' \in Passes
    BY <1>1, <2>1, PassTypes
  <2> QED BY <1>1, <1>3, <1>4, <1>5, <2>1, <2>2
<1>28. ASSUME NEW stage, NEW left \in Backends, NEW next \in Stages, FinalizeCall(stage, left, next)
       PROVE  TypeOK'
  BY <1>1, <1>3, <1>4, <1>5, <1>28, PassTypes
     DEF FinalizeCall, ToStage, End, EndPass, KeepApi, Keep
<1>29. CASE finalize_stop \/ finalize_delete
  <2>1. /\ [backend EXCEPT !.vms[pass.vmid].on = FALSE] \in Backends
        /\ [backend EXCEPT !.vms[pass.vmid] = Free] \in Backends
    <3>1. [backend EXCEPT !.vms[pass.vmid].on = FALSE] \in Backends
      BY <1>1 DEF Backends, VmRecords
    <3> QED BY <1>1, <1>2, <3>1, BackendTypes
  <2> QED BY <1>3, <1>28, <1>29, <2>1 DEF finalize_stop, finalize_delete
<1>18. CASE finalize_seed
  <2>1. [backend EXCEPT !.seeds = @ \ {pass.snap.uid}] \in Backends
    BY <1>1 DEF Backends
  <2> QED
    BY <1>1, <1>3, <1>4, <1>5, <1>18, <2>1, PassTypes
       DEF finalize_seed, ToStage, End, EndPass, KeepApi, Keep
<1>19. CASE DropFinalizer
  BY <1>1, <1>3, <1>4, <1>5, <1>19, PassTypes, ObjectTypes
     DEF DropFinalizer, RemoveFinalizer, EndPass, Keep
<1>20. CASE Stop \/ Sync
  BY <1>1, <1>3, <1>4, <1>5, <1>20, PassTypes DEF Stop, Crash, Sync, EndPass, KeepApi, Keep
<1>21. CASE CreateAgain
  <2>1. obj.uid + 1 \in Uids
    BY <1>1, <1>21, BoundsAssumption DEF CreateAgain, Create, Objects, Uids
  <2>2. Created(NoObject, obj.uid + 1) \in Objects
    BY <1>1, <2>1, ObjectTypes
  <2> QED BY <1>1, <1>4, <1>5, <1>21, <2>2 DEF CreateAgain, Create, OnlyWorld
<1>22. CASE Delete
  <2>1. (IF obj.fin THEN "deleting" ELSE "absent") \in Lives
    BY DEF Lives
  <2> QED BY <1>1, <1>4, <1>5, <1>22, <2>1, ObjectTypes DEF Delete, OnlyWorld
<1>23. CASE TakeFinalizerOff
  BY <1>1, <1>4, <1>5, <1>23, ObjectTypes DEF TakeFinalizerOff, RemoveByHand, OnlyWorld
<1>24. CASE Edit
  BY <1>1, <1>4, <1>5, <1>24, ObjectTypes DEF Edit, OnlyWorld
<1>25. CASE ForeignVm \/ LoseVm
  <2>2. pass' \in Passes
    <3>1. CASE ForeignVm
      <4>1. PICK b \in BOOLEAN : pass' = [pass EXCEPT !.reused = b]
        BY <1>1, <3>1 DEF ForeignVm, Passes
      <4> QED BY <1>1, <4>1, PassTypes
    <3>2. CASE LoseVm
      BY <1>1, <3>2 DEF LoseVm, OnlyWorld
    <3> QED BY <1>25, <3>1, <3>2
  <2>1. \A v : /\ [backend EXCEPT !.vms[v] = Free] \in Backends
               /\ [backend EXCEPT !.vms[v] = [Free EXCEPT !.at = "vm"]] \in Backends
    BY <1>1, <1>2, BackendTypes
  <2> QED BY <1>1, <1>4, <1>5, <1>25, <2>1, <2>2 DEF ForeignVm, LoseVm, OnlyWorld
<1>26. CASE ProviderChange
  BY <1>1, <1>4, <1>5, <1>26 DEF ProviderChange, OnlyWorld
<1>27. CASE UNCHANGED vars
  BY <1>27 DEF vars, TypeOK
<1> QED
  BY <1>6, <1>7, <1>8, <1>9, <1>10, <1>11, <1>13, <1>14, <1>15, <1>16, <1>17, <1>18,
     <1>19, <1>20, <1>21, <1>22, <1>23, <1>24, <1>25, <1>26, <1>27, <1>29 DEF Next, Pass, World

-----------------------------------------------------------------------------
\* The backend.

FewerVms == \A v \in Vmids, u \in Uids : IsOurs(v, u)' => IsOurs(v, u)
Fewer == FewerVms /\ backend'.seeds \subseteq backend.seeds

\* The two calls that make something, for the machine of the pass.
Makes ==
    /\ pc \in {"clone", "configure"} /\ pc' \in Working \ {"allocate", "recordId", "clone"}
    /\ UNCHANGED <<obj, cache, pass, loss>> /\ (UNCHANGED faults \/ Fail)
    /\ \A v \in Vmids, u \in Uids : IsOurs(v, u)' =>
          IsOurs(v, u) \/ (pc = "clone" /\ v = pass.vmid /\ u = pass.snap.uid)
    /\ backend'.seeds \subseteq backend.seeds \cup {pass.snap.uid}

\* A VMID whose VM is changed, freed or taken by somebody else is nobody's more
\* than before.
LEMMA FewerOn ==
    ASSUME TypeOK, NEW w, NEW r \in VmRecords, vms' = [vms EXCEPT ![w] = r],
           r.at = "free" \/ r.uid = Foreign \/ (w \in Vmids /\ r.at = vms[w].at /\ r.uid = vms[w].uid)
    PROVE  FewerVms
<1>1. vms \in [Vmids -> VmRecords] /\ Foreign \notin Uids
  BY DEF TypeOK, vms, Foreign, Uids
<1> SUFFICES ASSUME NEW v \in Vmids, NEW u \in Uids, IsOurs(v, u)' PROVE IsOurs(v, u)
  BY DEF FewerVms
<1>2. vms'[v].at = "vm" /\ vms'[v].uid = u
  BY DEF IsOurs, IsVm
<1>3. vms'[v] = IF v = w THEN r ELSE vms[v]
  BY <1>1
<1> QED BY <1>1, <1>2, <1>3 DEF IsOurs, IsVm

\* What a step does to the backend.
LEMMA BackendStep ==
    ASSUME TypeOK, [Next]_vars PROVE Fewer \/ Makes
<1>1. backend \in Backends /\ pass.snap.uid \in Uids /\ vms \in [Vmids -> VmRecords]
      /\ pass.snap.ver \in Nat
  BY DEF TypeOK, Passes, Backends, Objects, vms
<1>2. UNCHANGED backend => Fewer
  BY DEF Fewer, FewerVms, IsOurs, IsVm, vms
<1>3. /\ Free \in VmRecords /\ Free.at = "free"
      /\ [Free EXCEPT !.at = "vm"] \in VmRecords /\ [Free EXCEPT !.at = "vm"].uid = Foreign
      /\ Cloned \in VmRecords /\ Cloned.uid = pass.snap.uid
  BY <1>1 DEF Free, Cloned, VmRecords, Foreign
<1>4. ASSUME NEW w, NEW r \in VmRecords, backend' = [backend EXCEPT !.vms[w] = r]
      PROVE  vms' = [vms EXCEPT ![w] = r] /\ backend'.seeds = backend.seeds
  BY <1>1, <1>4, BackendTypes DEF vms
<1> HIDE DEF VmRecords, Free, Cloned
<1>5. CASE finalize_delete
  <2>1. UNCHANGED backend \/ \E w : backend' = [backend EXCEPT !.vms[w] = Free]
    BY <1>5 DEF finalize_delete, FinalizeCall
  <2> QED BY <1>2, <1>3, <1>4, <2>1, FewerOn DEF Fewer
<1>13. CASE finalize_stop
  <2> DEFINE r == [vms[pass.vmid] EXCEPT !.on = FALSE]
  <2>1. UNCHANGED backend \/ (IsVm(pass.vmid) /\ backend' = [backend EXCEPT !.vms[pass.vmid] = r])
    BY <1>13 DEF finalize_stop, FinalizeCall, vms
  <2>2. IsVm(pass.vmid) => pass.vmid \in Vmids /\ r \in VmRecords /\ r.at = vms[pass.vmid].at
                           /\ r.uid = vms[pass.vmid].uid
    BY <1>1 DEF IsVm, VmRecords
  <2> HIDE DEF r
  <2>3. CASE IsVm(pass.vmid) /\ backend' = [backend EXCEPT !.vms[pass.vmid] = r]
    <3>1. vms' = [vms EXCEPT ![pass.vmid] = r] /\ backend'.seeds = backend.seeds
      BY <1>4, <2>2, <2>3
    <3> QED BY <2>2, <2>3, <3>1, FewerOn DEF Fewer
  <2> QED BY <1>2, <2>1, <2>3
<1>6. CASE ForeignVm
  <2> DEFINE r == [Free EXCEPT !.at = "vm"]
  <2>1. PICK w : backend' = [backend EXCEPT !.vms[w] = r]
    BY <1>6 DEF ForeignVm
  <2>2. r \in VmRecords /\ r.uid = Foreign
    BY <1>3
  <2> HIDE DEF r
  <2>3. vms' = [vms EXCEPT ![w] = r] /\ backend'.seeds = backend.seeds
    BY <1>4, <2>1, <2>2
  <2> QED BY <2>2, <2>3, FewerOn DEF Fewer
<1>7. CASE LoseVm
  BY <1>3, <1>4, <1>7, FewerOn DEF LoseVm, Fewer
<1>8. CASE finalize_seed
  <2>1. UNCHANGED backend \/ backend' = [backend EXCEPT !.seeds = @ \ {pass.snap.uid}]
    BY <1>8 DEF finalize_seed
  <2>2. backend'.vms = backend.vms /\ backend'.seeds \subseteq backend.seeds
    BY <1>1, <2>1 DEF Backends
  <2> QED BY <2>2 DEF Fewer, FewerVms, IsOurs, IsVm, vms
<1>9. CASE ensure_power
  <2> DEFINE r == [vms[pass.vmid] EXCEPT !.on = TRUE]
  <2>1. UNCHANGED backend \/ (IsVm(pass.vmid) /\ backend' = [backend EXCEPT !.vms[pass.vmid] = r])
        \/ backend' = [backend EXCEPT !.seeds = [backend EXCEPT !.vms[pass.vmid].on = TRUE].seeds]
    BY <1>9 DEF ensure_power, VmCall, vms
  <2>2. [backend EXCEPT !.vms[pass.vmid].on = TRUE].seeds = backend.seeds
        /\ [backend EXCEPT !.seeds = backend.seeds] = backend
    BY <1>1 DEF Backends
  <2>3. IsVm(pass.vmid) => pass.vmid \in Vmids /\ r \in VmRecords /\ r.at = vms[pass.vmid].at
                           /\ r.uid = vms[pass.vmid].uid
    BY <1>1 DEF IsVm, VmRecords
  <2> HIDE DEF r
  <2>4. CASE IsVm(pass.vmid) /\ backend' = [backend EXCEPT !.vms[pass.vmid] = r]
    <3>1. vms' = [vms EXCEPT ![pass.vmid] = r] /\ backend'.seeds = backend.seeds
      BY <1>4, <2>3, <2>4
    <3> QED BY <2>3, <2>4, <3>1, FewerOn DEF Fewer
  <2> QED BY <1>2, <2>1, <2>2, <2>4
<1>10. CASE configure
  <2> DEFINE r == [vms[pass.vmid] EXCEPT !.conf = pass.snap.ver]
             b == [backend EXCEPT !.seeds = @ \cup {pass.snap.uid}]
             made == [backend EXCEPT !.seeds = @ \cup {pass.snap.uid},
                                     !.vms[pass.vmid].conf = pass.snap.ver]
  <2>1. b \in Backends /\ b.vms = vms /\ b.seeds = backend.seeds \cup {pass.snap.uid}
    BY <1>1 DEF Backends, vms
  <2>2. IsVm(pass.vmid) => pass.vmid \in Vmids /\ r \in VmRecords /\ r.at = vms[pass.vmid].at
                           /\ r.uid = vms[pass.vmid].uid
    BY <1>1 DEF IsVm, VmRecords
  <2>3. made = [b EXCEPT !.vms[pass.vmid] = r]
    BY <1>1 DEF Backends, vms
  <2>4. /\ pc = "configure" /\ pc' \in {"power", "failed"}
        /\ UNCHANGED <<obj, cache, pass, loss>> /\ (UNCHANGED faults \/ Fail)
        /\ \/ UNCHANGED backend
           \/ IsVm(pass.vmid) /\ (backend' = made \/ backend' = [backend EXCEPT !.seeds = made.seeds])
    BY <1>10 DEF configure, VmCall, Goto, KeepApi
  <2> HIDE DEF r, b, made
  <2>5. IsVm(pass.vmid) => made.vms = [vms EXCEPT ![pass.vmid] = r] /\ made.seeds = b.seeds
    BY <2>1, <2>2, <2>3, BackendTypes
  <2>6. ASSUME backend' = [backend EXCEPT !.seeds = made.seeds], IsVm(pass.vmid)
        PROVE  backend'.vms = backend.vms /\ backend'.seeds = b.seeds
    BY <1>1, <2>5, <2>6 DEF Backends
  <2>7. FewerVms /\ backend'.seeds \subseteq backend.seeds \cup {pass.snap.uid}
    <3>1. CASE UNCHANGED backend
      BY <1>2, <3>1 DEF Fewer
    <3>2. CASE IsVm(pass.vmid) /\ backend' = made
      BY <2>1, <2>2, <2>5, <3>2, FewerOn DEF vms
    <3>3. CASE IsVm(pass.vmid) /\ backend' = [backend EXCEPT !.seeds = made.seeds]
      BY <2>1, <2>6, <3>3 DEF FewerVms, IsOurs, IsVm, vms
    <3> QED BY <2>4, <3>1, <3>2, <3>3
  <2> QED BY <2>4, <2>7 DEF Makes, FewerVms, Working
<1>11. CASE clone_from_template
  <2>1. /\ pc = "clone" /\ pc' \in {"configure", "failed"}
        /\ UNCHANGED <<obj, cache, pass, loss>> /\ (UNCHANGED faults \/ Fail)
        /\ UNCHANGED backend \/ backend' = [backend EXCEPT !.vms[pass.vmid] = Cloned]
    BY <1>11 DEF clone_from_template, Goto, KeepApi
  <2>2. ASSUME backend' = [backend EXCEPT !.vms[pass.vmid] = Cloned],
               NEW v \in Vmids, NEW u \in Uids, IsOurs(v, u)'
        PROVE  IsOurs(v, u) \/ (v = pass.vmid /\ u = pass.snap.uid)
    <3>1. vms' = [vms EXCEPT ![pass.vmid] = Cloned] /\ vms'[v].at = "vm" /\ vms'[v].uid = u
      BY <1>3, <1>4, <2>2 DEF IsOurs, IsVm
    <3> QED BY <1>1, <1>3, <3>1 DEF IsOurs, IsVm
  <2>3. backend'.seeds = backend.seeds
    BY <1>3, <1>4, <2>1
  <2>4. UNCHANGED backend => \A v \in Vmids, u \in Uids : IsOurs(v, u)' => IsOurs(v, u)
    BY DEF IsOurs, IsVm, vms
  <2> QED BY <2>1, <2>2, <2>3, <2>4 DEF Makes, Working
<1>12. CASE \/ Trigger \/ Connect \/ AddFinalizer \/ allocate_vmid \/ record_vmid
            \/ patch_provider_id \/ patch_status \/ finalize_find \/ DropFinalizer \/ Stop \/ Sync
            \/ CreateAgain \/ Delete \/ TakeFinalizerOff \/ Edit \/ ProviderChange
            \/ UNCHANGED vars
  <2>1. UNCHANGED backend
    BY <1>12 DEF Trigger, StartPass, Connect, AddFinalizer, EnsureFinalizer, allocate_vmid,
       record_vmid, patch_provider_id, patch_status, finalize_find, DropFinalizer, RemoveFinalizer, Stop,
       Crash, Sync, CreateAgain, Create, Delete, TakeFinalizerOff, RemoveByHand, Edit,
       ProviderChange, vars
  <2> QED BY <1>2, <2>1
<1> QED
  BY <1>5, <1>6, <1>7, <1>8, <1>9, <1>10, <1>11, <1>12, <1>13 DEF Next, Pass, World

-----------------------------------------------------------------------------
\* The pass.

\* Where a pass goes from a stage, and what it keeps of what it was handed.
Kept == pass'.snap = pass.snap /\ pass'.gone = pass.gone
Moves ==
    \/ pc' = "idle" /\ pass' = NoPass
    \/ pc' = pc /\ Kept /\ pass'.vmid = pass.vmid
    \/ /\ pc = "idle" /\ pc' = "connect" /\ cache.life # "absent"
       /\ pass' = [NoPass EXCEPT !.snap = cache] /\ UNCHANGED <<obj, cache, backend, loss, faults>>
    \/ pc = "connect" /\ pc' = "finVm" /\ pass' = pass /\ pass.snap.life = "deleting"
    \/ pc = "connect" /\ pc' = "finalizer" /\ pass' = pass /\ pass.snap.life # "deleting"
    \/ pc = "finalizer" /\ pc' = "allocate" /\ pass' = pass
    \/ /\ pc \in Working /\ pc' \in Working \ {"allocate"}
       /\ Kept
    \/ pc \in Working /\ pc' = "finVm" /\ pass'.snap = pass.snap /\ pass'.gone
    \/ /\ pc = "finVm" /\ pc' = "finStop" /\ Kept /\ UNCHANGED backend
       /\ pass'.vmid \in Vmids /\ IsOurs(pass'.vmid, pass.snap.uid)
    \/ /\ pc = "finVm" /\ pc' = "finSeed" /\ pass' = pass
       /\ \A v \in Vmids : ~IsOurs(v, pass.snap.uid)
    \/ pc = "finStop" /\ pc' = "finDelete" /\ pass' = pass
    \/ pc = "finDelete" /\ pc' = "finSeed" /\ pass' = pass /\ ~IsVm(pass.vmid)'
    \/ /\ pc = "finSeed" /\ pc' = "finRemove" /\ pass' = pass /\ ~pass.gone
       /\ pass.snap.uid \notin backend'.seeds

\* Every step moves the pass along one of these, if at all.
LEMMA PassMoves ==
    ASSUME TypeOK, [Next]_vars PROVE Moves
<1>1. \A v : /\ [pass EXCEPT !.vmid = v].snap = pass.snap
             /\ [pass EXCEPT !.vmid = v].gone = pass.gone
             /\ [pass EXCEPT !.vmid = v, !.gone = TRUE].snap = pass.snap
             /\ [pass EXCEPT !.vmid = v, !.gone = TRUE].gone
             /\ [pass EXCEPT !.vmid = v, !.reused = FALSE].snap = pass.snap
             /\ [pass EXCEPT !.vmid = v, !.reused = FALSE].gone = pass.gone
             /\ [pass EXCEPT !.vmid = v, !.reused = FALSE].vmid = v
  BY DEF TypeOK, Passes
<1>2. CASE Trigger
  BY <1>2 DEF Trigger, StartPass, KeepApi, Moves
<1>3. CASE Connect
  BY <1>3 DEF Connect, Goto, End, EndPass, Moves
<1>4. CASE AddFinalizer
  BY <1>4 DEF AddFinalizer, EnsureFinalizer, Goto, EndPass, Moves
<1>5. CASE allocate_vmid
  <2>1. /\ pc = "allocate" /\ pc' \in Working \ {"allocate"}
        /\ pass' = pass \/ \E v : pass' = [pass EXCEPT !.vmid = v]
    BY <1>5 DEF allocate_vmid, Goto, Working
  <2> QED BY <1>1, <2>1 DEF Moves, Kept, Working
<1>6. CASE record_vmid
  <2>1. pc = "recordId" /\ pc' \in {"clone", "failed"} /\ pass' = pass
    BY <1>6 DEF record_vmid, PatchMachine, ToStage
  <2> QED BY <2>1 DEF Moves, Kept, Working
<1>7. CASE clone_from_template \/ configure \/ ensure_power
  <2>1. pc \in {"clone", "configure", "power"} /\ pass' = pass
        /\ pc' \in {"configure", "power", "providerId", "failed"}
    BY <1>7 DEF clone_from_template, configure, ensure_power, VmCall, Goto
  <2> QED BY <2>1 DEF Moves, Kept, Working
<1>8. CASE patch_provider_id \/ patch_status
  <2>1. /\ pc \in {"providerId", "record", "failed"}
        /\ \/ pc' = "record" /\ pass' = pass
           \/ pc' = "idle" /\ pass' = NoPass
           \/ \E v : pc' = "finVm" /\ pass' = [pass EXCEPT !.vmid = v, !.gone = TRUE]
    BY <1>8 DEF patch_provider_id, patch_status, PatchMachine, ToStage, Goto, End, EndPass, gone_or
  <2> QED BY <1>1, <2>1 DEF Moves, Kept, Working
<1>9. CASE finalize_stop \/ DropFinalizer
  BY <1>9 DEF finalize_stop, FinalizeCall, DropFinalizer, RemoveFinalizer, ToStage, End, EndPass,
     Moves
<1>11. CASE finalize_find
  <2>1. PICK recorded :
          /\ pc = "finVm" /\ UNCHANGED backend
          /\ \/ \E v \in find_ours(recorded) :
                   pc' = "finStop" /\ pass' = [pass EXCEPT !.vmid = v, !.reused = FALSE]
             \/ find_ours(recorded) = {} /\ pc' = "finSeed" /\ pass' = pass
             \/ pc' = "idle" /\ pass' = NoPass
    BY <1>11 DEF finalize_find, ToStage, End, EndPass
  <2>2. ASSUME NEW v \in find_ours(recorded), pc' = "finStop",
               pass' = [pass EXCEPT !.vmid = v, !.reused = FALSE]
        PROVE  Moves
    <3>1. v \in Vmids /\ IsOurs(v, pass.snap.uid)
      BY <2>2 DEF find_ours, IsOurs
    <3> QED BY <1>1, <2>1, <2>2, <3>1 DEF Moves, Kept
  <2>3. find_ours(recorded) = {} => \A v \in Vmids : ~IsOurs(v, pass.snap.uid)
    BY DEF find_ours, IsOurs
  <2> QED BY <2>1, <2>2, <2>3 DEF Moves
<1>12. CASE finalize_delete
  <2>1. /\ pc = "finDelete"
        /\ \/ pc' = "idle" /\ pass' = NoPass
           \/ /\ pc' = "finSeed" /\ pass' = pass
              /\ backend' = IF IsVm(pass.vmid) THEN [backend EXCEPT !.vms[pass.vmid] = Free] ELSE backend
    BY <1>12 DEF finalize_delete, FinalizeCall, ToStage, End, EndPass
  <2>2. backend \in Backends /\ vms \in [Vmids -> VmRecords] /\ Free \in VmRecords /\ Free.at = "free"
    BY DEF TypeOK, Backends, vms, Free, VmRecords, Foreign
  <2> HIDE DEF Free
  <2>3. ASSUME pass' = pass, IsVm(pass.vmid), backend' = [backend EXCEPT !.vms[pass.vmid] = Free]
        PROVE  ~IsVm(pass.vmid)'
    <3>1. vms' = [vms EXCEPT ![pass.vmid] = Free]
      BY <2>2, <2>3, BackendTypes DEF vms
    <3> QED BY <2>2, <2>3, <3>1 DEF IsVm
  <2>4. ASSUME pass' = pass, ~IsVm(pass.vmid), backend' = backend PROVE ~IsVm(pass.vmid)'
    BY <2>4 DEF IsVm, vms
  <2> QED BY <2>1, <2>3, <2>4 DEF Moves
<1>13. CASE finalize_seed
  <2>1. backend \in Backends
    BY DEF TypeOK, Backends
  <2> QED BY <1>13, <2>1 DEF finalize_seed, ToStage, End, EndPass, Moves, Backends
<1>14. CASE ForeignVm
  BY <1>14 DEF ForeignVm, TypeOK, Passes, Moves, Kept
<1>10. CASE \/ Stop \/ Sync \/ CreateAgain \/ Delete \/ TakeFinalizerOff \/ Edit \/ LoseVm
            \/ ProviderChange \/ UNCHANGED vars
  BY <1>10 DEF Stop, Crash, EndPass, Sync, CreateAgain, Create, Delete,
     TakeFinalizerOff, RemoveByHand, Edit, LoseVm, ProviderChange, OnlyWorld, vars, Moves, Kept
<1> QED
  BY <1>2, <1>3, <1>4, <1>5, <1>6, <1>7, <1>8, <1>9, <1>10, <1>11, <1>12, <1>13, <1>14
     DEF Next, Pass, World

\* The route of a pass is settled by what it was handed, or by the machine's end.
LEMMA RoutesStep ==
    ASSUME TypeOK, Routes, History, [Next]_vars PROVE Routes'
<1>1. Moves
  BY PassMoves
<1>2. ~NoPass.gone /\ [NoPass EXCEPT !.snap = cache].gone = FALSE
  BY DEF NoPass
<1>3. pass.snap.life \in Lives /\ (pc # "idle" => pass.snap.life # "absent")
  BY DEF TypeOK, Passes, Objects, History
<1> QED BY <1>1, <1>2, <1>3 DEF Moves, Kept, Routes, Working, Removing, Lives

\* A machine has one VM at most: a clone is asked for only when none was found.
LEMMA LoneStep ==
    ASSUME TypeOK, Lone, [Next]_vars PROVE Lone'
<1>1. pass.snap.uid \in Uids
  BY DEF TypeOK, Passes, Objects
<1>2. ASSUME NEW u \in Uids, NEW v \in Vmids, NEW w \in Vmids, IsOurs(v, u)', IsOurs(w, u)'
      PROVE  v = w
  BY <1>1, <1>2, BackendStep DEF Lone, Fewer, FewerVms, Makes
<1>3. ASSUME pc' \in {"recordId", "clone"}, NEW v \in Vmids
      PROVE  ~IsOurs(v, pass.snap.uid)'
  <2>1. CASE allocate_vmid
    <3>1. find_ours(pass.snap.ref) = {} /\ UNCHANGED backend
          /\ pass'.snap = pass.snap
      BY <1>3, <2>1 DEF allocate_vmid, Goto, TypeOK, Passes
    <3>2. ~IsOurs(v, pass.snap.uid)
      BY <3>1 DEF find_ours, IsOurs
    <3> QED BY <3>1, <3>2 DEF IsOurs, IsVm, vms
  <2>2. CASE ~allocate_vmid
    <3>1. pc \in {"recordId", "clone"} /\ pass'.snap = pass.snap
      <4>1. CASE record_vmid
        BY <1>3, <4>1 DEF record_vmid, PatchMachine, ToStage
      <4>2. CASE ~record_vmid /\ Pass
        BY <1>3, <2>2, <4>2 DEF Pass, Connect, AddFinalizer, EnsureFinalizer,
           clone_from_template, configure, ensure_power, VmCall, patch_provider_id,
           patch_status, PatchMachine, finalize_find, finalize_stop, finalize_delete, FinalizeCall,
           finalize_seed, DropFinalizer, RemoveFinalizer, Goto, ToStage, End, EndPass, gone_or
      <4>3. CASE Trigger \/ Stop
        BY <1>3, <4>3 DEF Trigger, StartPass, Stop, Crash, EndPass
      <4>4. CASE Sync \/ World \/ UNCHANGED vars
        BY <1>3, <4>4 DEF Sync, World, CreateAgain, Create, Delete, TakeFinalizerOff,
           RemoveByHand, Edit, ForeignVm, LoseVm, ProviderChange, OnlyWorld, vars, TypeOK, Passes
      <4> QED BY <4>1, <4>2, <4>3, <4>4 DEF Next
    <3>2. Fewer
      BY <1>3, BackendStep DEF Makes, Working
    <3> QED BY <1>1, <3>1, <3>2 DEF Lone, Fewer, FewerVms
  <2> QED BY <2>1, <2>2
<1> QED BY <1>2, <1>3 DEF Lone

\* The finalizer goes on only after VM and seed are gone, and nobody makes them
\* again meanwhile.
LEMMA RemovedStep ==
    ASSUME TypeOK, Lone, Removed, Routes, [Next]_vars PROVE Removed'
<1>1. pass.snap.uid \in Uids /\ Moves
  BY PassMoves DEF TypeOK, Passes, Objects
<1>2. ASSUME pc' \in {"finStop", "finDelete", "finSeed", "finRemove"}
      PROVE  pass'.snap = pass.snap /\ Fewer
  BY <1>1, <1>2, BackendStep DEF Moves, Kept, Makes, Working
<1>3. ASSUME pc' \in {"finStop", "finDelete"}, NEW v \in Vmids, IsOurs(v, pass.snap.uid)'
      PROVE  v = pass'.vmid
  <2>1. IsOurs(v, pass.snap.uid)
    BY <1>1, <1>2, <1>3 DEF Fewer, FewerVms
  <2>2. \/ pc' = pc /\ pass'.vmid = pass.vmid
        \/ pc = "finStop" /\ pass' = pass
        \/ pass'.vmid \in Vmids /\ IsOurs(pass'.vmid, pass.snap.uid)
    BY <1>1, <1>3 DEF Moves, Working
  <2>3. CASE pass'.vmid \in Vmids /\ IsOurs(pass'.vmid, pass.snap.uid)
    BY <1>1, <2>1, <2>3 DEF Lone
  <2> QED BY <1>3, <2>1, <2>2, <2>3 DEF Removed
<1>4. ASSUME pc' \in {"finSeed", "finRemove"}, NEW v \in Vmids PROVE ~IsOurs(v, pass.snap.uid)'
  <2> SUFFICES ASSUME IsOurs(v, pass.snap.uid)' PROVE FALSE
    OBVIOUS
  <2>1. IsOurs(v, pass.snap.uid)
    BY <1>1, <1>2, <1>4 DEF Fewer, FewerVms
  <2>2. \/ pc \in {"finSeed", "finRemove"} \/ \A w \in Vmids : ~IsOurs(w, pass.snap.uid)
        \/ pc = "finDelete" /\ pass' = pass /\ ~IsVm(pass.vmid)'
    BY <1>1, <1>4 DEF Moves, Working
  <2>3. CASE pc = "finDelete" /\ pass' = pass /\ ~IsVm(pass.vmid)'
    <3>1. v = pass.vmid
      BY <2>1, <2>3 DEF Removed
    <3> QED BY <2>3, <3>1 DEF IsOurs
  <2> QED BY <2>1, <2>2, <2>3 DEF Removed
<1>5. ASSUME pc' = "finRemove" PROVE pass'.snap.uid \notin backend'.seeds
  <2>1. pc = "finRemove" \/ pass.snap.uid \notin backend'.seeds
    BY <1>1, <1>5 DEF Moves, Working
  <2> QED BY <1>2, <1>5, <2>1 DEF Removed, Fewer
<1> QED BY <1>3, <1>4, <1>5 DEF Removed
-----------------------------------------------------------------------------
\* The machine, as the API server holds it and as passes are handed it.

\* Every step changes the machine in one of these ways, if at all.
LEMMA MachineMoves ==
    ASSUME TypeOK, [Next]_vars PROVE ApiMoves(Working)
<1>1. obj \in Objects
  BY DEF TypeOK
<1>2. /\ \A v, n : LET o == [obj EXCEPT !.ref = v, !.seen = n]
                   IN o.life = obj.life /\ o.uid = obj.uid /\ o.fin = obj.fin
      /\ \A v, n : LET o == [obj EXCEPT !.pid = v, !.gen = n]
                   IN o.life = obj.life /\ o.uid = obj.uid /\ o.fin = obj.fin
      /\ LET o == [obj EXCEPT !.ver = @ + 1, !.gen = @ + 1]
         IN o.life = obj.life /\ o.uid = obj.uid /\ o.fin = obj.fin
      /\ LET o == [obj EXCEPT !.fin = TRUE] IN o.life = obj.life /\ o.uid = obj.uid /\ o.fin
      /\ \A l : LET o == [obj EXCEPT !.life = l]
                IN o.life = l /\ o.uid = obj.uid /\ o.fin = obj.fin
      /\ LET o == FinalizerRemoved(obj)
         IN /\ o.life = (IF obj.life = "deleting" THEN "absent" ELSE obj.life)
            /\ o.uid = obj.uid /\ ~o.fin
      /\ LET o == Created(NoObject, obj.uid + 1)
         IN o.life = "live" /\ o.uid = obj.uid + 1 /\ ~o.fin
  BY <1>1 DEF Objects, FinalizerRemoved, Created, NoObject
<1>3. CASE AddFinalizer
  BY <1>2, <1>3 DEF AddFinalizer, EnsureFinalizer, Goto, EndPass, ApiMoves
<1>4. CASE record_vmid \/ patch_provider_id \/ patch_status
  <2>1. UNCHANGED cache /\ loss \subseteq loss'
        /\ \/ UNCHANGED <<obj, loss>>
           \/ \E v, n : \/ obj' = [obj EXCEPT !.ref = v, !.seen = n]
                        \/ obj' = [obj EXCEPT !.pid = v, !.gen = n]
    BY <1>4 DEF record_vmid, patch_provider_id, patch_status, PatchMachine, Goto, Status,
       build_status, failure_status
  <2>2. UNCHANGED <<obj, loss>>
        \/ (obj'.life = obj.life /\ obj'.uid = obj.uid /\ obj'.fin = obj.fin)
    <3>1. CASE UNCHANGED <<obj, loss>>
      BY <3>1
    <3>2. ASSUME NEW v, NEW n, obj' = [obj EXCEPT !.ref = v, !.seen = n]
                               \/ obj' = [obj EXCEPT !.pid = v, !.gen = n]
          PROVE  obj'.life = obj.life /\ obj'.uid = obj.uid /\ obj'.fin = obj.fin
      BY <1>1, <3>2 DEF Objects
    <3> QED BY <2>1, <3>1, <3>2
  <2> QED BY <2>1, <2>2 DEF ApiMoves
<1>5. CASE DropFinalizer
  BY <1>2, <1>5 DEF DropFinalizer, RemoveFinalizer, EndPass, ApiMoves
<1>6. CASE CreateAgain
  BY <1>2, <1>6 DEF CreateAgain, Create, OnlyWorld, ApiMoves
<1>7. CASE Delete
  BY <1>2, <1>7 DEF Delete, OnlyWorld, ApiMoves
<1>8. CASE TakeFinalizerOff
  <2>1. /\ UNCHANGED <<cache, pc, pass>> /\ obj.life = "deleting" /\ obj' = FinalizerRemoved(obj)
        /\ loss \subseteq loss' /\ ("forced" \in loss' \/ ("noticed" \in loss' /\ pc \in Working))
    BY <1>8 DEF TakeFinalizerOff, RemoveByHand, OnlyWorld, Working
  <2> QED BY <1>2, <2>1 DEF ApiMoves
<1>9. CASE Edit
  BY <1>2, <1>9 DEF Edit, OnlyWorld, ApiMoves
<1>10. CASE Sync
  BY <1>10 DEF Sync, ApiMoves
<1>11. CASE \/ Trigger \/ Connect \/ allocate_vmid \/ clone_from_template \/ configure
            \/ ensure_power \/ finalize_find \/ finalize_stop \/ finalize_delete \/ finalize_seed
            \/ Stop \/ ForeignVm \/ LoseVm \/ ProviderChange \/ UNCHANGED vars
  <2>1. UNCHANGED <<obj, cache, loss>>
    BY <1>11 DEF Trigger, StartPass, Connect, allocate_vmid, clone_from_template, configure,
       ensure_power, VmCall, finalize_find, finalize_stop, finalize_delete, FinalizeCall,
       finalize_seed, Stop, Crash, ForeignVm, LoseVm,
       ProviderChange, Goto, End, KeepApi, OnlyWorld, vars
  <2> QED BY <2>1 DEF ApiMoves
<1> QED
  BY <1>3, <1>4, <1>5, <1>6, <1>7, <1>8, <1>9, <1>10, <1>11 DEF Next, Pass, World

\* A call failed, or none did.
LEMMA CallsFail ==
    ASSUME TypeOK, [Next]_vars PROVE FaultMoves
<1>1. CASE Pass
  BY <1>1 DEF Pass, Connect, AddFinalizer, EnsureFinalizer, allocate_vmid, record_vmid,
     clone_from_template, configure, ensure_power, VmCall, patch_provider_id, patch_status,
     PatchMachine, finalize_find, finalize_stop, finalize_delete, FinalizeCall, finalize_seed,
     DropFinalizer, RemoveFinalizer, FaultMoves
<1>2. CASE Trigger \/ Stop \/ Sync \/ World \/ UNCHANGED vars
  BY <1>2 DEF Trigger, StartPass, Stop, Crash, Sync, World, CreateAgain, Create, Delete,
     TakeFinalizerOff, RemoveByHand, Edit, ForeignVm, LoseVm, ProviderChange, OnlyWorld, vars,
     FaultMoves
<1> QED BY <1>1, <1>2 DEF Next

\* What the pass of one step has to do with that of the next.
LEMMA PassCopies ==
    ASSUME TypeOK, Routes, [Next]_vars PROVE SnapMoves /\ Enters(Working)
<1>1. [NoPass EXCEPT !.snap = cache].snap = cache
  BY DEF NoPass
<1>2. SnapMoves
  BY <1>1, PassMoves DEF Moves, Kept, Working, SnapMoves
<1>3. ASSUME pc' \in Working, pc \notin Working
      PROVE  /\ pc = "finalizer" /\ pc' # "idle" /\ pass.snap.life = "live"
             /\ \/ pass.snap.fin
                \/ obj'.life # "absent" /\ obj'.uid = obj.uid /\ obj'.fin /\ loss' = loss \cup Namesake
  <2>1. pc = "finalizer" /\ pc' # "finalizer" /\ pc' # "idle"
    BY <1>3, PassMoves DEF Moves, Working
  <2>2. AddFinalizer
    BY <2>1 DEF Next, Trigger, StartPass, Pass, Connect, allocate_vmid, record_vmid,
       clone_from_template, configure, ensure_power, VmCall, patch_provider_id, patch_status,
       finalize_find, finalize_stop, finalize_delete, FinalizeCall, finalize_seed, DropFinalizer,
       RemoveFinalizer, Stop, Crash, EndPass, Sync, World, CreateAgain, Create, Delete, TakeFinalizerOff, RemoveByHand, Edit, ForeignVm,
       LoseVm, ProviderChange, OnlyWorld, vars
  <2>3. \/ pass.snap.fin
        \/ obj' = [obj EXCEPT !.fin = TRUE] /\ loss' = loss \cup Namesake /\ obj.life # "absent"
    BY <2>1, <2>2 DEF AddFinalizer, EnsureFinalizer, EndPass
  <2> QED BY <2>1, <2>3 DEF Routes, TypeOK, Objects
<1> QED BY <1>2, <1>3 DEF Enters, Working

\* The types of the copies.
LEMMA CopyTypes ==
    ASSUME TypeOK PROVE Copies
BY BoundsAssumption DEF TypeOK, Passes, Copies, Objects

\* Every step is as InfraMachineProofs has it.
LEMMA CommonStep ==
    ASSUME TypeOK, Routes, [Next]_vars
    PROVE  /\ Copies /\ Copies' /\ ApiMoves(Working) /\ SnapMoves /\ FaultMoves /\ Enters(Working)
           /\ pc = "finRemove" => pass.snap.life = "deleting"
<1>1. Copies'
  BY TypeStep, BoundsAssumption DEF TypeOK, Passes, Copies, Objects
<1>2. pc = "finRemove" => pass.snap.life = "deleting"
  BY DEF Routes, Removing
<1> QED BY <1>1, <1>2, CopyTypes, MachineMoves, CallsFail, PassCopies

-----------------------------------------------------------------------------
\* What is held.

\* How a pass ends.
LEMMA Endings ==
    ASSUME TypeOK, [Next]_vars, pc \in Working \cup Removing, pc' = "idle", ~Fail
    PROVE  \/ pc \in Working /\ obj.life # "absent" /\ loss' = loss \cup Namesake
           \/ pc = "finSeed" /\ pass.gone /\ UNCHANGED loss /\ pass.snap.uid \notin backend'.seeds
<1>1. backend \in Backends
  BY DEF TypeOK, Backends
<1>2. CASE record_vmid \/ patch_provider_id \/ patch_status
  BY <1>2 DEF record_vmid, patch_provider_id, patch_status, PatchMachine, Goto, ToStage, End,
     EndPass, gone_or, Working
<1>3. CASE allocate_vmid \/ clone_from_template \/ configure \/ ensure_power
  BY <1>3 DEF allocate_vmid, needs_configure, clone_from_template, configure, ensure_power, VmCall, Goto
<1>4. CASE finalize_find \/ finalize_stop \/ finalize_delete
  BY <1>4 DEF finalize_find, finalize_stop, finalize_delete, FinalizeCall, ToStage
<1>5. CASE finalize_seed
  BY <1>1, <1>5 DEF finalize_seed, ToStage, Backends
<1>6. CASE Connect \/ AddFinalizer \/ DropFinalizer \/ Trigger \/ Stop
  BY <1>6 DEF Connect, AddFinalizer, EnsureFinalizer, DropFinalizer, RemoveFinalizer, Trigger,
     StartPass, Stop, Crash, Working, Removing
<1>7. CASE Sync \/ World \/ UNCHANGED vars
  BY <1>7 DEF Sync, World, CreateAgain, Create, Delete, TakeFinalizerOff, RemoveByHand, Edit,
     ForeignVm, LoseVm, ProviderChange, OnlyWorld, vars, Working, Removing
<1> QED BY <1>2, <1>3, <1>4, <1>5, <1>6, <1>7 DEF Next, Pass

\* Something is held for u when it has a VM or a seed.
LEMMA Holds ==
    ASSUME NEW u \in Uids
    PROVE  /\ Held(u) # {} <=> (u \in backend.seeds \/ \E v \in Vmids : IsOurs(v, u))
           /\ Held(u)' # {} <=> (u \in backend'.seeds \/ \E v \in Vmids : IsOurs(v, u)')
           /\ Held(u) \subseteq Resources /\ Held(u)' \subseteq Resources
<1>1. ASSUME NEW x \in Held(u)
      PROVE  (u \in backend.seeds \/ \E v \in Vmids : IsOurs(v, u)) /\ x \in Resources
  BY <1>1 DEF Held, IsOurs, Resources
<1>2. ASSUME u \in backend.seeds PROVE <<"seed", u>> \in Held(u)
  BY <1>2 DEF Held
<1>3. ASSUME NEW v \in Vmids, IsOurs(v, u) PROVE <<"vm", v>> \in Held(u)
  BY <1>3 DEF Held, IsOurs
<1>4. ASSUME NEW x \in Held(u)'
      PROVE  (u \in backend'.seeds \/ \E v \in Vmids : IsOurs(v, u)') /\ x \in Resources
  BY <1>4 DEF Held, IsOurs, Resources
<1>5. ASSUME u \in backend'.seeds PROVE <<"seed", u>> \in Held(u)'
  BY <1>5 DEF Held
<1>6. ASSUME NEW v \in Vmids, IsOurs(v, u)' PROVE <<"vm", v>> \in Held(u)'
  BY <1>6 DEF Held, IsOurs
<1> HIDE DEF Held, IsOurs, Resources
<1> QED BY <1>1, <1>2, <1>3, <1>4, <1>5, <1>6

\* What is held stays somebody's: the machine's under the finalizer, or the pass's
\* that will find the machine gone.
LEMMA CaredStep ==
    ASSUME Inv, [Next]_vars PROVE Cared'
<1> USE DEF Inv
<1> SUFFICES ASSUME ~Excused', NEW u \in Uids, Held(u)' # {}
             PROVE  \/ Owned(u)'
                    \/ /\ Noticed(u)' /\ pass'.snap.uid = u
                       /\ pc' \in Working \/ (pass'.gone /\ pc' \in Removing)
  BY DEF Cared
<1>1. /\ ~Excused /\ loss' \subseteq {"noticed", "setup"}
      /\ loss' = loss \cup Namesake => obj.uid = pass.snap.uid
      /\ "noticed" \in loss' => ~Fail
  BY CommonStep, Unexcused
<1>2. pass.snap.uid \in Uids /\ obj.uid \in Uids /\ u \in Nat /\ obj.uid \in Nat
  BY DEF TypeOK, Passes, Objects, Uids
<1>3. CASE Makes
  <2>1. /\ pc \in Working /\ pc' \in Working /\ UNCHANGED <<obj, pass, loss>>
        /\ Held(u) # {} \/ u = pass.snap.uid
    BY <1>3, Holds DEF Makes, Working
  <2>2. Owned(u) \/ (Noticed(u) /\ pass.snap.uid = u)
    BY <1>1, <2>1 DEF Witnessed, Cared
  <2> QED BY <2>1, <2>2 DEF Owned, Noticed
<1>4. CASE Fewer
  <2>1. Held(u) # {}
    BY <1>4, Holds DEF Fewer, FewerVms
  <2>2. CASE Owned(u)
    <3>1. ~(pc = "finRemove" /\ u = pass.snap.uid)
      BY <2>1, Holds DEF Removed
    <3>2. (Owned(u) \/ Noticed(u))'
      BY <1>2, <2>2, <3>1, CommonStep, KeptStep DEF Owned
    <3>3. ASSUME ~Owned(u)' PROVE UNCHANGED <<pc, pass>> /\ pc \in Working
      BY <1>1, <2>2, <3>1, <3>3, MachineMoves DEF ApiMoves, Owned
    <3>4. pc \in Working => pass.snap.uid = u
      BY <1>1, <2>2 DEF Current, Owned, Working
    <3> QED BY <3>2, <3>3, <3>4
  <2>3. CASE ~Owned(u)
    <3>1. /\ Noticed(u) /\ pass.snap.uid = u
          /\ pc \in Working \/ (pass.gone /\ pc \in Removing)
      BY <1>1, <2>1, <2>3 DEF Cared
    <3>2. u <= obj.uid
      BY <3>1 DEF History, Older, Working, Removing
    <3>3. loss \subseteq loss' /\ ~Fail
      BY <1>1, <3>1, MachineMoves DEF ApiMoves, Noticed
    <3>4. Noticed(u)'
      BY <1>2, <3>1, <3>2, <3>3, MachineMoves DEF ApiMoves, Noticed
    <3>5. pc' # "idle"
      <4> SUFFICES ASSUME pc' = "idle" PROVE FALSE
        OBVIOUS
      <4>1. \/ obj.life # "absent" /\ loss' = loss \cup Namesake
            \/ pc = "finSeed" /\ pass.snap.uid \notin backend'.seeds
        BY <3>1, <3>3, Endings
      <4>2. CASE obj.life # "absent" /\ loss' = loss \cup Namesake
        BY <1>1, <3>1, <4>2 DEF Noticed
      <4>3. CASE pc = "finSeed" /\ pass.snap.uid \notin backend'.seeds
        <5>1. \A v \in Vmids : ~IsOurs(v, u)
          BY <3>1, <4>3 DEF Removed
        <5> QED BY <1>4, <3>1, <4>3, <5>1, Holds DEF Fewer, FewerVms
      <4> QED BY <4>1, <4>2, <4>3
    <3>6. /\ pass'.snap.uid = u
          /\ pc' \in Working \/ (pass'.gone /\ pc' \in Removing)
      BY <3>1, <3>5, PassMoves DEF Moves, Kept, Working, Removing
    <3> QED BY <3>4, <3>6
  <2> QED BY <2>2, <2>3
<1> QED BY <1>3, <1>4, BackendStep

\* The invariant holds at first,
LEMMA Initially ==
    ASSUME Init PROVE Inv
<1>1. obj \in Objects /\ NoPass \in Passes /\ NoObject \in Objects /\ obj.life = "live"
      /\ ~obj.fin
  <2>1. 1 \in Uids /\ NoObject \in Objects
    BY BoundsAssumption DEF Uids, NoObject, Objects, Lives
  <2> QED BY <2>1, ObjectTypes, PassTypes DEF Init, NoPass, Passes, Created, NoObject
<1>2. backend = [vms |-> [v \in Vmids |-> Free], seeds |-> {}] /\ Free \in VmRecords
  BY DEF Init, Free, VmRecords, Foreign
<1>3. TypeOK
  BY <1>1, <1>2, BoundsAssumption DEF Init, TypeOK, Passes, Stages
<1>4. \A v \in Vmids : \A u : ~IsOurs(v, u)
  BY <1>2 DEF IsOurs, IsVm, vms, Free
<1>5. Lone /\ Removed /\ Routes /\ History /\ Current /\ Witnessed(Working)
  BY <1>1, <1>3, <1>4 DEF Init, NoPass, Lone, Removed, Routes, Working, Removing, History, Older,
     Current, Witnessed, Witness, TypeOK, Objects, Uids
<1>6. Cared
  BY <1>2, <1>4, Holds DEF Cared
<1> QED BY <1>3, <1>5, <1>6 DEF Inv

\* and every step keeps it.
LEMMA Preserved ==
    ASSUME Inv, [Next]_vars PROVE Inv'
BY TypeStep, LoneStep, RemovedStep, RoutesStep, CommonStep, HistoryStep, CurrentStep, WitnessStep,
   CaredStep DEF Inv

LEMMA Inductive == Spec => []Inv
<1>1. Init => Inv
  BY Initially
<1>2. Inv /\ [Next]_vars => Inv'
  BY Preserved
<1> QED BY <1>1, <1>2, PTL DEF Spec
-----------------------------------------------------------------------------
\* The refinement.

\* What is held for a machine that is gone is nothing.
LEMMA GoneHoldsNothing ==
    ASSUME Inv, NEW u \in Uids, MachineOf(u) = "absent" PROVE Holdings[u] = {}
<1>1. ASSUME Excused PROVE Holdings[u] = {}
  BY <1>1 DEF Holdings
<1>2. ASSUME ~Excused PROVE Held(u) = {}
  <2>1. ~Owned(u)
    BY DEF Owned, MachineOf, Inv, TypeOK, Objects, Lives
  <2>2. ~(pass.snap.uid = u /\ (pc \in Working \/ pc \in Removing))
    BY DEF MachineOf, Working, Removing
  <2> QED BY <1>2, <2>1, <2>2 DEF Inv, Cared
<1> QED BY <1>1, <1>2 DEF Holdings

\* Every step is one of the lifecycle's for each machine: what is made is made
\* while the machine is there, and the machine goes when nothing is left.
LEMMA RefinedStep ==
    ASSUME Inv, Inv', [Next]_vars, NEW u \in Uids
    PROVE  LET m == MachineOf(u)  h == Holdings[u]
           IN \/ m = "absent" /\ m' # "absent" /\ h' = h
              \/ m = "live" /\ m' = "deleting" /\ h' = h
              \/ m' = "absent" /\ h' = {}
              \/ m # "absent" /\ m' = m /\ h' \subseteq Resources
<1> DEFINE m == MachineOf(u)  h == Holdings[u]
<1>1. /\ m \in Lives /\ m' \in Lives
      /\ m = "live" /\ m' = "deleting" => UNCHANGED <<loss, faults, backend>>
      /\ ~(m = "deleting" /\ m' = "live")
  BY CommonStep, LifeStep DEF Inv, History, Older
<1>2. h = (IF Excused THEN {} ELSE Held(u)) /\ h' = (IF Excused' THEN {} ELSE Held(u)')
  BY DEF Holdings
<1>3. CASE m' = "absent"
  <2>1. h' = {}
    <3>1. ASSUME ~Excused' PROVE Held(u)' = {}
      <4>1. ~Owned(u)'
        BY <1>3 DEF Owned, MachineOf, Inv, TypeOK, Objects, Lives
      <4>2. ~(pass'.snap.uid = u /\ (pc' \in Working \/ pc' \in Removing))
        BY <1>3 DEF MachineOf, Working, Removing
      <4> QED BY <3>1, <4>1, <4>2 DEF Inv, Cared
    <3> QED BY <1>2, <3>1
  <2> QED BY <1>3, <2>1
<1>4. CASE m # "absent" /\ m' = m
  <2>1. h' \subseteq Resources
    BY <1>2, Holds
  <2> QED BY <1>4, <2>1
<1>5. CASE m = "absent" /\ m' # "absent"
  <2>1. h = {}
    BY <1>5, GoneHoldsNothing
  <2>2. ~Makes
    BY <1>5 DEF Makes, MachineOf, Working
  <2>3. Fewer
    BY <2>2, BackendStep DEF Inv
  <2>4. ASSUME ~Excused' PROVE Held(u)' = {}
    <3>1. Held(u) = {}
      BY <1>2, <2>1, <2>4, CommonStep, Unexcused DEF Inv
    <3> QED BY <2>3, <3>1, Holds DEF Fewer, FewerVms
  <2> QED BY <1>2, <1>5, <2>1, <2>4
<1>6. CASE m = "live" /\ m' = "deleting"
  <2>1. h' = h
    BY <1>1, <1>6 DEF Holdings, Excused, Held, IsVm, vms
  <2> QED BY <1>6, <2>1
<1> QED BY <1>1, <1>3, <1>4, <1>5, <1>6 DEF Lives

\* At first the machine is there and nothing is held for it.
LEMMA StartsEmpty ==
    ASSUME Init
    PROVE  obj.life = "live" /\ obj.uid = 1 /\ pc = "idle" /\ Holdings = [u \in Uids |-> {}]
<1>1. obj.life = "live" /\ obj.uid = 1 /\ pc = "idle"
  BY DEF Init, Created, NoObject
<1>2. backend = [vms |-> [v \in Vmids |-> Free], seeds |-> {}]
  BY DEF Init
<1>3. \A v \in Vmids : \A u : ~IsOurs(v, u)
  BY <1>2 DEF IsOurs, IsVm, vms, Free
<1>4. \A u \in Uids : Held(u) = {}
  BY <1>2, <1>3, Holds
<1>5. Holdings = [u \in Uids |-> {}]
  BY <1>4 DEF Holdings
<1> QED BY <1>1, <1>5

\* proxmoxmachine.rs keeps the promise of an infrastructure CR: VM and seed are
\* made for a machine only while it is there, and it goes only when neither is
\* left - unless a finalizer is taken off by hand while nobody looks, or while a
\* pass looks that fails, or a pass writes to a machine of the same name that was
\* created in place of its own.
THEOREM ProxmoxLifecycle == Spec => Lifecycle!Spec
<1>1. Init => Lifecycle!Init
  BY StartsEmpty DEF Lifecycle!Init, MachineOf
<1>2. Inv /\ Inv' /\ [Next]_vars => [Lifecycle!Next]_(Lifecycle!lifecycle)
  <2> SUFFICES ASSUME Inv, Inv', [Next]_vars PROVE Lifecycle!Next
    OBVIOUS
  <2> SUFFICES ASSUME NEW u \in Uids
               PROVE  \/ Lifecycle!Appear(u) \/ Lifecycle!Delete(u) \/ Lifecycle!Vanish(u)
                      \/ Lifecycle!Use(u) \/ Lifecycle!Release(u)
    BY DEF Lifecycle!Next
  <2> QED
    BY RefinedStep DEF Lifecycle!Appear, Lifecycle!Delete, Lifecycle!Vanish, Lifecycle!Use
<1> QED BY <1>1, <1>2, Inductive, PTL DEF Spec, Lifecycle!Spec
-----------------------------------------------------------------------------
\* The VMs of others.

\* The VM a pass configures and starts, or stops and deletes, if it is there, is the
\* machine's own, unless its VMID went to somebody else under the pass.
Marked ==
    pc \in Trusting /\ IsVm(pass.vmid) /\ ~pass.reused => vms[pass.vmid].uid = pass.snap.uid

\* The marker was read before, or written by the clone.
LEMMA MarkedStep ==
    ASSUME TypeOK, Marked, [Next]_vars PROVE Marked'
<1>1. backend \in Backends /\ vms \in [Vmids -> VmRecords] /\ pass \in Passes /\ Free \in VmRecords
      /\ pass.snap.uid \in Uids /\ pass.snap.ver \in Nat /\ Cloned \in VmRecords
  BY DEF TypeOK, Backends, Passes, vms, Free, Cloned, VmRecords, Foreign, Objects
<1> SUFFICES ASSUME pc' \in Trusting, IsVm(pass.vmid)', ~pass'.reused
             PROVE  vms'[pass'.vmid].uid = pass'.snap.uid
  BY DEF Marked
<1>2. pass'.vmid \in Vmids /\ vms'[pass'.vmid].at = "vm"
  BY DEF IsVm
<1>3. CASE allocate_vmid
  <2>1. PICK v \in find_ours(pass.snap.ref) : pass' = [pass EXCEPT !.vmid = v] /\ UNCHANGED backend
    BY <1>3 DEF allocate_vmid, Goto, Trusting
  <2>2. vms[v].uid = pass.snap.uid
    BY <2>1 DEF find_ours
  <2> QED BY <1>1, <2>1, <2>2 DEF Passes, vms
<1>4. CASE clone_from_template
  <2>1. pass' = pass /\ backend' = [backend EXCEPT !.vms[pass.vmid] = Cloned]
    BY <1>4 DEF clone_from_template, Goto, Trusting
  <2>2. vms' = [vms EXCEPT ![pass.vmid] = Cloned]
    BY <1>1, <2>1, BackendTypes DEF vms
  <2>3. vms'[pass'.vmid] = Cloned
    BY <1>1, <1>2, <2>1, <2>2
  <2> QED BY <2>1, <2>3 DEF Cloned
<1>5. CASE configure
  <2>1. pass' = pass /\ pc = "configure" /\ IsVm(pass.vmid)
        /\ backend' = [backend EXCEPT !.seeds = @ \cup {pass.snap.uid},
                                      !.vms[pass.vmid].conf = pass.snap.ver]
    BY <1>5 DEF configure, VmCall, Goto, Trusting
  <2>2. vms'[pass.vmid].uid = vms[pass.vmid].uid
    <3> DEFINE r == [vms[pass.vmid] EXCEPT !.conf = pass.snap.ver]
               b == [backend EXCEPT !.seeds = @ \cup {pass.snap.uid}]
    <3>1. b \in Backends /\ b.vms = vms
      BY <1>1 DEF Backends, vms
    <3>2. r \in VmRecords /\ r.uid = vms[pass.vmid].uid
      BY <1>1, <2>1 DEF VmRecords, IsVm
    <3>3. backend' = [b EXCEPT !.vms[pass.vmid] = r]
      BY <1>1, <2>1 DEF Backends, vms
    <3> HIDE DEF r, b
    <3>4. vms' = [vms EXCEPT ![pass.vmid] = r]
      BY <3>1, <3>2, <3>3, BackendTypes DEF vms
    <3> QED BY <1>1, <2>1, <3>2, <3>4 DEF IsVm
  <2> QED BY <2>1, <2>2 DEF Marked, Trusting
<1>11. CASE finalize_find
  <2>1. PICK recorded : \E v \in find_ours(recorded) :
          pass' = [pass EXCEPT !.vmid = v, !.reused = FALSE] /\ UNCHANGED backend
    BY <1>11 DEF finalize_find, ToStage, End, EndPass, Trusting
  <2>2. PICK v \in find_ours(recorded) :
          pass' = [pass EXCEPT !.vmid = v, !.reused = FALSE] /\ UNCHANGED backend
    BY <2>1
  <2>3. vms[v].uid = pass.snap.uid
    BY <2>2 DEF find_ours
  <2> QED BY <1>1, <2>2, <2>3 DEF Passes, vms
<1>12. CASE finalize_stop
  <2> DEFINE r == [vms[pass.vmid] EXCEPT !.on = FALSE]
  <2>1. /\ pass' = pass /\ pc = "finStop"
        /\ backend' = IF IsVm(pass.vmid) THEN [backend EXCEPT !.vms[pass.vmid] = r] ELSE backend
    BY <1>12 DEF finalize_stop, FinalizeCall, ToStage, End, EndPass, Trusting, vms
  <2>2. CASE IsVm(pass.vmid)
    <3>1. r \in VmRecords /\ r.uid = vms[pass.vmid].uid
      BY <1>1, <2>2 DEF VmRecords, IsVm
    <3> HIDE DEF r
    <3>2. vms' = [vms EXCEPT ![pass.vmid] = r]
      BY <1>1, <2>1, <2>2, <3>1, BackendTypes DEF vms
    <3> QED BY <1>1, <2>1, <2>2, <3>1, <3>2 DEF Marked, IsVm, Trusting
  <2>3. CASE ~IsVm(pass.vmid)
    BY <2>1, <2>3 DEF IsVm, vms
  <2> QED BY <2>2, <2>3
<1>6. CASE Pass /\ ~allocate_vmid /\ ~clone_from_template /\ ~configure /\ ~finalize_find
           /\ ~finalize_stop
  BY <1>6 DEF Pass, Connect, AddFinalizer, EnsureFinalizer, record_vmid, ensure_power, VmCall,
     patch_provider_id, patch_status, PatchMachine, finalize_delete, FinalizeCall, finalize_seed,
     DropFinalizer, RemoveFinalizer, Goto, ToStage, End, EndPass, gone_or, Trusting
<1>7. CASE Trigger \/ Stop
  BY <1>7 DEF Trigger, StartPass, Stop, Crash, EndPass, Trusting
<1>8. CASE ForeignVm
  <2> DEFINE r == [Free EXCEPT !.at = "vm"]
  <2>1. PICK v \in next_id :
          /\ backend' = [backend EXCEPT !.vms[v] = r]
          /\ pass' = [pass EXCEPT !.reused = @ \/ (v = pass.vmid /\ pc \in Trusting)]
    BY <1>8 DEF ForeignVm
  <2>2. /\ UNCHANGED pc /\ pass'.snap = pass.snap /\ pass'.vmid = pass.vmid /\ ~pass.reused
        /\ v # pass.vmid /\ r \in VmRecords
    BY <1>1, <1>8, <2>1 DEF ForeignVm, Passes, Free, VmRecords, Foreign
  <2> HIDE DEF r
  <2>3. vms' = [vms EXCEPT ![v] = r]
    BY <1>1, <2>1, <2>2, BackendTypes DEF vms
  <2>4. vms'[pass.vmid] = vms[pass.vmid]
    BY <1>1, <1>2, <2>2, <2>3
  <2> QED BY <1>2, <2>2, <2>4 DEF Marked, IsVm
<1>9. CASE LoseVm
  <2>1. UNCHANGED <<pc, pass>> /\ backend' = [backend EXCEPT !.vms[obj.ref] = Free]
    BY <1>9 DEF LoseVm, OnlyWorld
  <2>2. vms' = [vms EXCEPT ![obj.ref] = Free] /\ Free.at = "free"
    BY <1>1, <2>1, BackendTypes DEF vms, Free
  <2> HIDE DEF Free
  <2>3. vms'[pass.vmid] = vms[pass.vmid]
    BY <1>1, <1>2, <2>1, <2>2
  <2> QED BY <1>2, <2>1, <2>3 DEF Marked, IsVm
<1>10. CASE Sync \/ CreateAgain \/ Delete \/ TakeFinalizerOff \/ Edit \/ ProviderChange \/ UNCHANGED vars
  <2>1. UNCHANGED <<pc, pass, backend>>
    BY <1>10 DEF Sync, CreateAgain, Create, Delete, TakeFinalizerOff, RemoveByHand, Edit,
       ProviderChange, OnlyWorld, vars
  <2> QED BY <1>2, <2>1 DEF Marked, IsVm, vms
<1> QED BY <1>3, <1>4, <1>5, <1>6, <1>7, <1>8, <1>9, <1>10, <1>11, <1>12
     DEF Next, World

\* The provider's own steps leave the VMs of others alone.
LEMMA ForeignStep ==
    ASSUME TypeOK, Marked, [Next]_vars, ProviderStep PROVE ForeignKept
<1>1. backend \in Backends /\ vms \in [Vmids -> VmRecords] /\ pass.snap.uid \in Uids
      /\ Free \in VmRecords /\ Cloned \in VmRecords /\ Foreign \notin Uids /\ changes \in Nat
      /\ pass.snap.ver \in Nat
  BY DEF TypeOK, Passes, Backends, vms, Objects, Uids, Foreign, Free, Cloned, VmRecords
<1>2. ASSUME NEW w, NEW r \in VmRecords, vms' = [vms EXCEPT ![w] = r],
             w \in Vmids => ~(IsVm(w) /\ vms[w].uid = Foreign) \/ (w = pass.vmid /\ pass.reused)
      PROVE  ForeignKept
  <2> SUFFICES ASSUME NEW v \in Vmids, IsVm(v), vms[v].uid = Foreign
               PROVE  vms'[v] = vms[v] \/ (v = pass.vmid /\ pass.reused)
    BY DEF ForeignKept
  <2> QED BY <1>1, <1>2
<1>3. ASSUME NEW w, NEW r \in VmRecords, backend' = [backend EXCEPT !.vms[w] = r]
      PROVE  vms' = [vms EXCEPT ![w] = r]
  BY <1>1, <1>3, BackendTypes DEF vms
<1>4. vms' = vms => ForeignKept
  BY DEF ForeignKept
<1> HIDE DEF VmRecords, Free, Cloned
<1>12. IsVm(pass.vmid) /\ pc \in Trusting => vms[pass.vmid].uid = pass.snap.uid \/ pass.reused
  BY DEF Marked
<1>5. CASE finalize_delete
  <2>1. UNCHANGED backend \/ (IsVm(pass.vmid) /\ backend' = [backend EXCEPT !.vms[pass.vmid] = Free])
    BY <1>5 DEF finalize_delete, FinalizeCall
  <2>2. pc \in Trusting
    BY <1>5 DEF finalize_delete, FinalizeCall, Trusting
  <2>3. CASE UNCHANGED backend
    BY <1>4, <2>3 DEF vms
  <2>4. CASE IsVm(pass.vmid) /\ backend' = [backend EXCEPT !.vms[pass.vmid] = Free]
    BY <1>1, <1>2, <1>3, <1>12, <2>2, <2>4
  <2> QED BY <2>1, <2>3, <2>4
<1>13. CASE finalize_stop
  <2> DEFINE r == [vms[pass.vmid] EXCEPT !.on = FALSE]
  <2>1. UNCHANGED backend \/ (IsVm(pass.vmid) /\ backend' = [backend EXCEPT !.vms[pass.vmid] = r])
    BY <1>13 DEF finalize_stop, FinalizeCall, vms
  <2>2. pc \in Trusting /\ (IsVm(pass.vmid) => r \in VmRecords)
    BY <1>1, <1>13 DEF finalize_stop, FinalizeCall, Trusting, IsVm, VmRecords
  <2> HIDE DEF r
  <2>3. CASE UNCHANGED backend
    BY <1>4, <2>3 DEF vms
  <2>4. CASE IsVm(pass.vmid) /\ backend' = [backend EXCEPT !.vms[pass.vmid] = r]
    BY <1>1, <1>2, <1>3, <1>12, <2>2, <2>4
  <2> QED BY <2>1, <2>3, <2>4
<1>6. CASE clone_from_template
  <2>1. CASE UNCHANGED backend
    BY <1>4, <2>1 DEF vms
  <2>2. CASE IsFree(pass.vmid) /\ backend' = [backend EXCEPT !.vms[pass.vmid] = Cloned]
    <3>1. ~IsVm(pass.vmid)
      BY <2>2 DEF IsFree, IsVm
    <3> QED BY <1>1, <1>2, <1>3, <2>2, <3>1
  <2> QED BY <1>6, <2>1, <2>2 DEF clone_from_template
<1>7. CASE ensure_power
  <2> DEFINE r == [vms[pass.vmid] EXCEPT !.on = TRUE]
  <2>1. UNCHANGED backend \/ (IsVm(pass.vmid) /\ backend' = [backend EXCEPT !.vms[pass.vmid] = r])
        \/ backend' = [backend EXCEPT !.seeds = [backend EXCEPT !.vms[pass.vmid].on = TRUE].seeds]
    BY <1>7 DEF ensure_power, VmCall, vms
  <2>2. [backend EXCEPT !.vms[pass.vmid].on = TRUE].seeds = backend.seeds
        /\ [backend EXCEPT !.seeds = backend.seeds] = backend
    BY <1>1 DEF Backends
  <2>3. IsVm(pass.vmid) =>
            r \in VmRecords /\ (vms[pass.vmid].uid = pass.snap.uid \/ pass.reused)
    BY <1>1, <1>7, <1>12 DEF IsVm, VmRecords, Trusting, ensure_power, VmCall
  <2> HIDE DEF r
  <2>4. CASE UNCHANGED backend
    BY <1>4, <2>4 DEF vms
  <2>5. CASE IsVm(pass.vmid) /\ backend' = [backend EXCEPT !.vms[pass.vmid] = r]
    BY <1>1, <1>2, <1>3, <2>3, <2>5
  <2> QED BY <2>1, <2>2, <2>4, <2>5
<1>8. CASE configure
  <2> DEFINE r == [vms[pass.vmid] EXCEPT !.conf = pass.snap.ver]
             b == [backend EXCEPT !.seeds = @ \cup {pass.snap.uid}]
             made == [backend EXCEPT !.seeds = @ \cup {pass.snap.uid},
                                     !.vms[pass.vmid].conf = pass.snap.ver]
  <2>1. b \in Backends /\ b.vms = vms
    BY <1>1 DEF Backends, vms
  <2>2. IsVm(pass.vmid) =>
            r \in VmRecords /\ (vms[pass.vmid].uid = pass.snap.uid \/ pass.reused)
    BY <1>1, <1>8, <1>12 DEF IsVm, VmRecords, Trusting, configure, VmCall
  <2>3. made = [b EXCEPT !.vms[pass.vmid] = r]
    BY <1>1 DEF Backends, vms
  <2>4. \/ UNCHANGED backend
        \/ IsVm(pass.vmid) /\ (backend' = made \/ backend' = [backend EXCEPT !.seeds = made.seeds])
    BY <1>8 DEF configure, VmCall
  <2> HIDE DEF r, b, made
  <2>5. IsVm(pass.vmid) /\ backend' = made => vms' = [vms EXCEPT ![pass.vmid] = r]
    BY <2>1, <2>2, <2>3, BackendTypes DEF vms
  <2>6. backend' = [backend EXCEPT !.seeds = made.seeds] => vms' = vms
    BY <1>1 DEF Backends, vms
  <2> QED BY <1>1, <1>2, <1>4, <2>2, <2>4, <2>5, <2>6 DEF vms
<1>9. CASE finalize_seed
  <2>1. vms' = vms
    BY <1>1, <1>9 DEF finalize_seed, Backends, vms
  <2> QED BY <1>4, <2>1
<1>10. CASE ForeignVm \/ LoseVm
  BY <1>1, <1>10 DEF ForeignVm, LoseVm, Change, ProviderStep
<1>11. CASE \/ Trigger \/ Connect \/ AddFinalizer \/ allocate_vmid \/ record_vmid
            \/ patch_provider_id \/ patch_status \/ finalize_find \/ DropFinalizer \/ Stop \/ Sync
            \/ CreateAgain \/ Delete \/ TakeFinalizerOff \/ Edit \/ ProviderChange
            \/ UNCHANGED vars
  <2>1. UNCHANGED backend
    BY <1>11 DEF Trigger, StartPass, Connect, AddFinalizer, EnsureFinalizer, allocate_vmid,
       record_vmid, patch_provider_id, patch_status, finalize_find, DropFinalizer, RemoveFinalizer, Stop,
       Crash, Sync, CreateAgain, Create, Delete, TakeFinalizerOff, RemoveByHand, Edit,
       ProviderChange, vars
  <2> QED BY <1>4, <2>1 DEF vms
<1> QED
  BY <1>5, <1>6, <1>7, <1>8, <1>9, <1>10, <1>11, <1>13 DEF Next, Pass, World

\* Whatever VMIDs others take between nextid and the clone, and whatever they name
\* their VMs, the reconciler changes a VM without a machine's marker in one case only:
\* the VM the pass looked at (find_ours, proxmoxmachine.rs) was removed under it, and
\* its VMID went to somebody else before the pass named it in its calls.
THEOREM ProxmoxForeignSpared == Spec => [][ProviderStep => ForeignKept]_vars
<1>1. Init => Marked
  BY DEF Init, Marked, Trusting
<1>2. Inv /\ Marked /\ [Next]_vars => Marked'
  BY MarkedStep DEF Inv
<1>3. Inv /\ Marked /\ [Next]_vars => [ProviderStep => ForeignKept]_vars
  BY ForeignStep DEF Inv
<1> QED BY <1>1, <1>2, <1>3, Inductive, PTL DEF Spec
=============================================================================
