------------------------ MODULE VSphereMachineProofs ------------------------
(***************************************************************************)
(* VSphereMachine implements MachineLifecycle, and destroys no VM that it  *)
(* does not take for its machine's, for any number of VMs, of creations of *)
(* the machine, of failed calls and of changes by users and                *)
(* administrators.                                                         *)
(*                                                                         *)
(* It may take a VM below the machine's folder for the clone that was just *)
(* made: that one is looked up by its name, in the folder and below.  The  *)
(* folder itself holds one VM of the name at most (OneVm), so otherwise    *)
(* the one found is the clone (Own), and with the recorded one goes all    *)
(* that a machine has (Removed).                                           *)
(*                                                                         *)
(* A pass decides from the live machine, not from the cached one, and      *)
(* writes to it last: while it runs nobody else writes a vmRef (Followed). *)
(* What is held has a machine under the finalizer, or a pass that will     *)
(* find the machine gone and knows its only clone (Cared, Tracked).  A     *)
(* clone whose task outlives its pass comes for a machine under the        *)
(* finalizer, or is left to the administrator (Late).                      *)
(***************************************************************************)
EXTENDS VSphereMachine, InfraMachineProofs

Lifecycle == INSTANCE MachineLifecycle WITH
    Machines <- Uids, Resources <- Resources,
    machine <- [u \in Uids |-> MachineOf(u)], held <- Holdings

\* The stages in which a pass has no copy of the live machine.
Reading == {"idle", "read"}

\* The stages past the finalizer: those of a machine that gets its VM, and those of
\* one that has it.
Making == {"search", "reclaim", "clone", "lookup", "finish", "rollback", "record", "compensate"}
Observing == {"observe", "adopt", "adopting", "observed"}
Working == {"connect", "failed"} \cup Making \cup Observing

Removing == {"finProvider", "finVm", "finSearch", "finClean", "finRemove"}

\* The stages at which a pass will find a machine gone, and destroy its clone.
Noticing == {"clone", "lookup", "finish", "record"}

-----------------------------------------------------------------------------
\* The invariant, part by part.

\* What is below the machine's folder is of others, and one folder holds one VM of
\* a name.
OneVm ==
    /\ \A m \in Morefs : vms[m].at = "below" => vms[m].uid = Foreign
    /\ \A m, n \in Morefs : vms[m].at = "folder" /\ vms[n].at = "folder" => m = n

\* A reference that is known is to a clone, or to what was taken for one.
Ours(m) == m = NoVM \/ (vms[m].at # "unused" /\ (vms[m].uid # Foreign \/ Mistaken(m)))
Recorded ==
    /\ Ours(obj.ref)
    /\ IF pc \in Reading THEN pass.ref = NoVM ELSE Ours(pass.snap.ref) /\ Ours(pass.ref)

\* A machine is provisioned when it records a VM.
Paired ==
    /\ obj.prov <=> obj.ref # NoVM
    /\ pc \notin Reading => (pass.snap.prov <=> pass.snap.ref # NoVM)

\* A pass writes to the machine when it ends, and nobody else writes a vmRef.
Followed ==
    pc \notin Reading =>
        IF obj.uid = pass.snap.uid THEN obj.ref = pass.snap.ref ELSE obj.ref = NoVM

\* What is recorded, or about to be, carries the marker.
OwnRef(x) == x.ref # NoVM => vms[x.ref].uid = x.uid \/ Mistaken(x.ref)
Own ==
    /\ "namesake" \notin loss => OwnRef(obj) /\ (pc \notin Reading => OwnRef(pass.snap))
    /\ pc \in {"finish", "rollback", "record", "adopting"} =>
          pass.ref # NoVM /\ (vms[pass.ref].uid = pass.snap.uid \/ Mistaken(pass.ref))
    /\ pc = "lookup" => OwnVMs(pass.snap.uid) # {}

\* What a stage tells of the machine the pass decided from.
Routes ==
    /\ pc \in Removing => pass.snap.life = "deleting"
    /\ pc \in Working \cup {"finalizer"} => pass.snap.life = "live"
    /\ pc \in Making \cup {"finSearch", "finClean"} => pass.snap.ref = NoVM
    /\ pc \in Observing => pass.snap.prov
    /\ pc = "finVm" => pass.ref = pass.snap.ref /\ pass.ref # NoVM
    /\ pc = "compensate" => ~(obj.uid = pass.snap.uid /\ obj.life # "absent")
    /\ pass.made => pc \notin Reading /\ pass.snap.ref = NoVM

Ages ==
    /\ pc \notin Reading => Older(pass.snap, obj) /\ pass.snap.life # "absent"
    /\ obj.life = "deleting" => obj.fin

\* A clone was given up on for a machine under the finalizer, or one that is gone.
Late ==
    /\ late # {} => faults > 0
    /\ ~Excused => \A u \in late : u <= obj.uid /\ (obj.uid = u /\ obj.life # "absent" => obj.fin)

\* A pass decides from the live machine, and so knows the one that has the finalizer.
Known == ~Excused /\ obj.fin /\ pc \notin Reading => pass.snap.uid = obj.uid
Guarded ==
    ~Excused /\ pc \notin Reading =>
        /\ Witness(pass.snap)
        /\ pc \in Working => Owned(pass.snap.uid) \/ Noticed(pass.snap.uid)

\* A pass in which nothing failed knows every clone of its machine.
Tracked ==
    faults = 0 =>
        /\ pc = "reclaim" => OwnVMs(pass.snap.uid) \subseteq pass.todo
        /\ pc = "clone" => OwnVMs(pass.snap.uid) = {}
        /\ pc \in {"finish", "record"} /\ "mistaken" \notin loss
              => OwnVMs(pass.snap.uid) \subseteq {pass.ref}

\* What the removal leaves, stage by stage.
Removed ==
    ~Excused =>
        /\ pc = "finClean" => OwnVMs(pass.snap.uid) \subseteq pass.todo
        /\ pc = "finRemove" => OwnVMs(pass.snap.uid) = {}

\* A clone has a machine under the finalizer, or a pass that will find its machine
\* gone and destroy it.
CaredFor(u) ==
    \/ Owned(u)
    \/ /\ Noticed(u) /\ pass.snap.uid = u
       /\ \/ pc \in {"lookup", "finish", "record"}
          \/ pc = "compensate" /\ OwnVMs(u) \subseteq {pass.ref}
Cared == ~Excused => \A u \in Uids : OwnVMs(u) # {} => CaredFor(u)

Inv ==
    /\ TypeOK /\ OneVm /\ Recorded /\ Paired /\ Followed /\ Own /\ Routes /\ Ages /\ Late
    /\ Known /\ Guarded /\ Tracked /\ Removed /\ Cared

-----------------------------------------------------------------------------
\* Types.

Backends == [vms: [Morefs -> VmRecords], late: SUBSET Uids]
PassRecords == [snap: Objects, ref: Morefs \cup {NoVM}, todo: SUBSET Morefs, made: BOOLEAN]

\* The records a machine starts with and those its updates leave.
LEMMA ObjectTypes ==
    ASSUME NEW o \in Objects
    PROVE  /\ NoObject \in Objects /\ \A u \in Uids : Created(NoObject, u) \in Objects
           /\ \A b \in BOOLEAN : [o EXCEPT !.fin = b] \in Objects
           /\ \A l \in Lives : [o EXCEPT !.life = l] \in Objects
           /\ FinalizerRemoved(o) \in Objects
           /\ \A p, r \in BOOLEAN, m \in Morefs \cup {NoVM} :
                [o EXCEPT !.prov = p, !.ref = m, !.ready = r] \in Objects
<1>1. 1 \in Uids
  BY BoundsAssumption DEF Uids
<1> HIDE DEF Uids, Morefs
<1>2. NoObject \in Objects /\ \A u \in Uids : Created(NoObject, u) \in Objects
  BY <1>1 DEF NoObject, Created, Objects, Lives
<1>3. FinalizerRemoved(o) \in Objects
  BY DEF FinalizerRemoved, Objects, Lives
<1>4. /\ \A b \in BOOLEAN : [o EXCEPT !.fin = b] \in Objects
      /\ \A l \in Lives : [o EXCEPT !.life = l] \in Objects
  BY DEF Objects
<1>5. \A p, r \in BOOLEAN, m \in Morefs \cup {NoVM} :
         [o EXCEPT !.prov = p, !.ref = m, !.ready = r] \in Objects
  BY DEF Objects
<1> QED BY <1>2, <1>3, <1>4, <1>5

\* What a pass knows.
LEMMA PassTypes ==
    ASSUME NEW p \in PassRecords
    PROVE  /\ NoPass \in PassRecords
           /\ \A o \in Objects : /\ [NoPass EXCEPT !.snap = o] \in PassRecords
                                 /\ [p EXCEPT !.snap = o] \in PassRecords
           /\ \A m \in Morefs \cup {NoVM} : [p EXCEPT !.ref = m] \in PassRecords
           /\ \A S \in SUBSET Morefs : /\ [p EXCEPT !.todo = S] \in PassRecords
                                       /\ [p EXCEPT !.todo = S, !.made = TRUE] \in PassRecords
           /\ [p EXCEPT !.made = TRUE] \in PassRecords
<1>1. NoObject \in Objects
  BY BoundsAssumption DEF NoObject, Objects, Lives, Uids
<1> HIDE DEF Morefs
<1> QED BY <1>1 DEF PassRecords, NoPass

\* What the updates of vCenter's inventory leave.
LEMMA BackendTypes ==
    ASSUME NEW b \in Backends, NEW m, NEW r \in VmRecords
    PROVE  /\ [b EXCEPT !.vms[m] = r] \in Backends
           /\ [b EXCEPT !.vms[m] = r].vms = [b.vms EXCEPT ![m] = r]
           /\ [b EXCEPT !.vms[m] = r].late = b.late
           /\ \A s \in SUBSET Uids : /\ [b EXCEPT !.late = s] \in Backends
                                     /\ [b EXCEPT !.late = s].vms = b.vms
                                     /\ [b EXCEPT !.late = s].late = s
<1> HIDE DEF VmRecords, Morefs, Uids
<1> QED BY DEF Backends

-----------------------------------------------------------------------------
\* The VMs of the machine's name.

Same == \A n \in Morefs : vms'[n] = vms[n]

\* One of them goes, one is added, one is registered anew.
Freed(m) ==
    /\ There(m) /\ vms'[m].at = "gone" /\ vms'[m].uid = vms[m].uid
    /\ \A n \in Morefs \ {m} : vms'[n] = vms[n]
Added(m) ==
    /\ vms[m].at = "unused" /\ vms'[m].at \in {"folder", "below"}
    /\ vms'[m].at = "below" => vms'[m].uid = Foreign
    /\ vms'[m].at = "folder" => \A n \in Morefs : vms[n].at # "folder"
    /\ \A n \in Morefs \ {m} : vms'[n] = vms[n]
Renamed(m, k) ==
    /\ There(m) /\ vms'[m].at = "gone" /\ vms'[m].uid = vms[m].uid
    /\ vms[k].at = "unused" /\ vms'[k] = vms[m]
    /\ \A n \in Morefs \ {m, k} : vms'[n] = vms[n]

\* destroy_vm frees the VM, if it is there.
LEMMA Destroys ==
    ASSUME backend \in Backends, NEW m, destroy_vm(m)
    PROVE  /\ backend' \in Backends /\ late' = late
           /\ IF m \in Morefs /\ There(m) THEN Freed(m) ELSE Same
<1>1. CASE m \in Morefs /\ There(m)
  <2> DEFINE r == [vms[m] EXCEPT !.at = "gone"]
  <2>1. r \in VmRecords /\ vms \in [Morefs -> VmRecords] /\ r.at = "gone" /\ r.uid = vms[m].uid
    BY <1>1 DEF Backends, VmRecords, vms
  <2>2. backend' = [backend EXCEPT !.vms[m] = r]
    BY <1>1 DEF destroy_vm, vms
  <2> HIDE DEF r
  <2>3. backend' \in Backends /\ vms' = [vms EXCEPT ![m] = r] /\ late' = late
    BY <2>1, <2>2, BackendTypes DEF vms, late
  <2> QED BY <1>1, <2>1, <2>3 DEF Freed
<1>2. CASE m \in Morefs /\ ~There(m)
  BY <1>2 DEF destroy_vm, Same, vms, late
<1>3. CASE m \notin Morefs
  <2>1. backend' = backend
    BY <1>3 DEF destroy_vm, Backends
  <2> QED BY <1>3, <2>1 DEF Same, vms, late
<1> QED BY <1>1, <1>2, <1>3

\* A VM gets a reference nobody had.
LEMMA Adds ==
    ASSUME backend \in Backends, NEW b \in Backends, b.vms = vms, Unused,
           NEW where \in {"folder", "below"}, NEW u \in Uids \cup {Foreign},
           backend' = AddVm(b, where, u)
    PROVE  /\ backend' \in Backends /\ late' = b.late
           /\ \E m \in Morefs :
                /\ vms[m].at = "unused" /\ vms'[m].at = where /\ vms'[m].uid = u
                /\ \A n \in Morefs \ {m} : vms'[n] = vms[n]
<1> DEFINE m == NewMoref  r == [at |-> where, uid |-> u]
<1>1. m \in Morefs /\ vms[m].at = "unused"
  BY DEF NewMoref, Unused
<1>2. r \in VmRecords /\ vms \in [Morefs -> VmRecords]
  BY DEF VmRecords, Backends, vms
<1>3. backend' = [b EXCEPT !.vms[m] = r]
  BY DEF AddVm
<1> HIDE DEF m
<1>4. backend' \in Backends /\ vms' = [vms EXCEPT ![m] = r] /\ late' = b.late
  BY <1>2, <1>3, BackendTypes DEF vms, late
<1> QED BY <1>1, <1>2, <1>4

\* Why a VM goes: it is the pass's to destroy, or somebody else takes it away.
ByOthers(m) ==
    /\ m = obj.ref \/ vms[m].uid = Foreign
    /\ changes' # changes /\ UNCHANGED <<obj, pc, pass, loss, faults, late>>
Doomed(m) ==
    \/ pc \in {"reclaim", "finClean"} /\ vms[m].uid = pass.snap.uid
    \/ pc \in {"rollback", "compensate", "finVm"} /\ m = pass.ref
    \/ ByOthers(m)

\* Where a VM comes from: the pass, a pass that gave up on it, or somebody else.
Cloned(u) ==
    /\ pc = "clone" /\ pc' = "lookup" /\ u = pass.snap.uid
    /\ UNCHANGED <<obj, pass, loss, faults, late>>
Outlived(u) ==
    /\ u \in late /\ UNCHANGED <<obj, pc, pass, faults>>
    /\ obj.life # "live" \/ obj.uid # u => "late" \in loss'
Origin(u) == Cloned(u) \/ Outlived(u) \/ u = Foreign

\* What a step may do to the VMs, and to the clones that were given up on.
VmMoves ==
    \/ Same
    \/ \E m \in Morefs : Freed(m) /\ Doomed(m)
    \/ \E m \in Morefs : Added(m) /\ Origin(vms'[m].uid)
    \/ \E m, k \in Morefs : Renamed(m, k) /\ ByOthers(m)
LateMoves ==
    \/ late' \subseteq late
    \/ /\ pc = "clone" /\ pc' = "failed" /\ Fail /\ late' = late \cup {pass.snap.uid}
       /\ UNCHANGED <<obj, pass, loss>>

\* Every step does so.
LEMMA VmStep ==
    ASSUME TypeOK, [Next]_vars
    PROVE  backend' \in Backends /\ VmMoves /\ LateMoves
<1>1. /\ backend \in Backends /\ vms \in [Morefs -> VmRecords] /\ late \in SUBSET Uids
      /\ pass.snap.uid \in Uids /\ changes \in Nat
  BY BoundsAssumption DEF TypeOK, Backends, Objects, vms, late
<1>2. UNCHANGED backend => backend' \in Backends /\ VmMoves /\ LateMoves
  BY <1>1 DEF VmMoves, LateMoves, Same, vms, late
<1>3. ASSUME NEW m, destroy_vm(m), m \in Morefs /\ There(m) => Doomed(m)
      PROVE  backend' \in Backends /\ VmMoves /\ LateMoves
  <2>1. backend' \in Backends /\ late' = late /\ IF m \in Morefs /\ There(m) THEN Freed(m) ELSE Same
    BY <1>1, <1>3, Destroys
  <2> QED BY <1>3, <2>1 DEF VmMoves, LateMoves
<1>4. CASE reclaim_or_refuse \/ finalize_unrecorded
  <2>1. \/ UNCHANGED backend
        \/ \E m : /\ pc \in {"reclaim", "finClean"} /\ IsOwn(m) /\ destroy_vm(m)
    BY <1>4 DEF reclaim_or_refuse, finalize_unrecorded
  <2> QED BY <1>2, <1>3, <2>1 DEF IsOwn, Doomed
<1>5. CASE roll_back_clone \/ compensate_gone \/ finalize_vm
  <2>1. \/ UNCHANGED backend
        \/ pc \in {"rollback", "compensate", "finVm"} /\ destroy_vm(pass.ref)
    BY <1>5 DEF roll_back_clone, compensate_gone, finalize_vm
  <2> QED BY <1>2, <1>3, <2>1 DEF Doomed
<1>6. ASSUME CanAdd, NEW b \in Backends, b.vms = vms, NEW u \in Uids \cup {Foreign},
             backend' = AddVm(b, "folder", u), Origin(u), b.late \subseteq late
      PROVE  backend' \in Backends /\ VmMoves /\ LateMoves
  <2>1. \A n \in Morefs : vms[n].at # "folder"
    BY <1>6 DEF CanAdd, find_vms_named
  <2>2. /\ backend' \in Backends /\ late' = b.late
        /\ \E m \in Morefs :
             /\ vms[m].at = "unused" /\ vms'[m].at = "folder" /\ vms'[m].uid = u
             /\ \A n \in Morefs \ {m} : vms'[n] = vms[n]
    BY <1>1, <1>6, Adds DEF CanAdd
  <2>3. \E m \in Morefs : Added(m) /\ Origin(vms'[m].uid)
    BY <1>6, <2>1, <2>2 DEF Added
  <2> QED BY <1>6, <2>2, <2>3 DEF VmMoves, LateMoves
<1>7. CASE clone_vm
  <2>1. CASE /\ CanAdd /\ backend' = AddVm(backend, "folder", pass.snap.uid)
              /\ Goto("lookup") /\ UNCHANGED faults
    <3>1. late' = late
      BY <1>1, <2>1, Adds DEF CanAdd, late, vms
    <3>2. Origin(pass.snap.uid)
      BY <1>7, <2>1, <3>1 DEF clone_vm, Goto, KeepApi, Origin, Cloned
    <3> QED BY <1>1, <1>6, <2>1, <3>2 DEF vms, late
  <2>2. CASE Fail /\ Goto("failed") /\ backend' = [backend EXCEPT !.late = @ \cup {pass.snap.uid}]
    <3>1. pc = "clone" /\ pc' = "failed" /\ UNCHANGED <<obj, pass, loss>>
      BY <1>7, <2>2 DEF clone_vm, Goto, KeepApi
    <3>2. backend' \in Backends /\ vms' = vms /\ late' = late \cup {pass.snap.uid}
      BY <1>1, <2>2 DEF Backends, vms, late
    <3> QED BY <2>2, <3>1, <3>2 DEF VmMoves, LateMoves, Same
  <2> QED BY <1>2, <1>7, <2>1, <2>2 DEF clone_vm
<1>8. CASE LateClone
  <2>1. PICK u \in late :
          \/ /\ CanAdd /\ backend' = AddVm([backend EXCEPT !.late = @ \ {u}], "folder", u)
             /\ loss' = loss \cup IF obj.life # "live" \/ obj.uid # u THEN {"late"} ELSE {}
          \/ backend' = [backend EXCEPT !.late = @ \ {u}]
    BY <1>8 DEF LateClone
  <2> DEFINE b == [backend EXCEPT !.late = @ \ {u}]
  <2>2. b \in Backends /\ b.vms = vms /\ b.late \subseteq late /\ u \in Uids
    BY <1>1 DEF Backends, vms, late
  <2> HIDE DEF b
  <2>3. UNCHANGED <<obj, pc, pass, faults>>
    BY <1>8 DEF LateClone, KeepApi
  <2>4. CASE CanAdd /\ backend' = AddVm(b, "folder", u)
             /\ loss' = loss \cup IF obj.life # "live" \/ obj.uid # u THEN {"late"} ELSE {}
    <3>1. Origin(u)
      BY <2>3, <2>4 DEF Origin, Outlived
    <3> QED BY <1>6, <2>2, <2>4, <3>1
  <2>5. CASE backend' = b
    BY <2>2, <2>5 DEF VmMoves, LateMoves, Same, vms, late
  <2> QED BY <2>1, <2>4, <2>5 DEF b
<1>9. CASE ForeignVm
  <2>1. CASE CanAdd /\ backend' = AddVm(backend, "folder", Foreign)
    BY <1>1, <1>6, <2>1 DEF Origin, vms, late
  <2>2. CASE Unused /\ backend' = AddVm(backend, "below", Foreign)
    <3>1. /\ backend' \in Backends /\ late' = late
          /\ \E m \in Morefs :
               /\ vms[m].at = "unused" /\ vms'[m].at = "below" /\ vms'[m].uid = Foreign
               /\ \A n \in Morefs \ {m} : vms'[n] = vms[n]
      BY <1>1, <2>2, Adds DEF vms, late
    <3>2. \E m \in Morefs : Added(m) /\ Origin(vms'[m].uid)
      BY <3>1 DEF Added, Origin
    <3> QED BY <3>1, <3>2 DEF VmMoves, LateMoves
  <2> QED BY <1>9, <2>1, <2>2 DEF ForeignVm
<1>10. CASE Unregister
  <2>1. PICK m \in Morefs :
          /\ There(m) /\ (m = obj.ref \/ vms[m].uid = Foreign)
          /\ \/ backend' = [backend EXCEPT !.vms[m].at = "gone"]
             \/ Unused /\ backend' = [backend EXCEPT !.vms[m].at = "gone", !.vms[NewMoref] = vms[m]]
    BY <1>10 DEF Unregister
  <2> DEFINE b == [backend EXCEPT !.vms[m].at = "gone"]
             r == [vms[m] EXCEPT !.at = "gone"]
  <2>2. changes' # changes /\ UNCHANGED <<obj, pc, pass, loss, faults>>
    BY <1>1, <1>10 DEF Unregister, Change, OnlyWorld
  <2>3. r \in VmRecords /\ r.at = "gone" /\ r.uid = vms[m].uid /\ b = [backend EXCEPT !.vms[m] = r]
    BY <1>1 DEF VmRecords, vms
  <2>4. b \in Backends /\ b.vms = [vms EXCEPT ![m] = r] /\ b.late = late
    <3> HIDE DEF r, b
    <3> QED BY <1>1, <2>3, BackendTypes DEF vms, late
  <2>5. CASE backend' = b
    <3> HIDE DEF r, b
    <3>1. Freed(m) /\ late' = late
      BY <1>1, <2>1, <2>3, <2>4, <2>5 DEF Freed, vms, late
    <3> QED BY <2>1, <2>2, <2>4, <2>5, <3>1 DEF VmMoves, LateMoves, Doomed, ByOthers
  <2>6. CASE Unused /\ backend' = [backend EXCEPT !.vms[m].at = "gone", !.vms[NewMoref] = vms[m]]
    <3> DEFINE k == NewMoref
    <3>1. k \in Morefs /\ vms[k].at = "unused" /\ k # m
      BY <2>1, <2>6 DEF NewMoref, Unused, There
    <3>2. backend' = [b EXCEPT !.vms[k] = vms[m]]
      BY <2>6
    <3> HIDE DEF r, b, k
    <3>3. backend' \in Backends /\ vms' = [b.vms EXCEPT ![k] = vms[m]] /\ late' = b.late
      <4>1. vms[m] \in VmRecords
        BY <1>1
      <4>2. ASSUME NEW a \in Backends, NEW n, NEW q \in VmRecords,
                   backend' = [a EXCEPT !.vms[n] = q]
            PROVE  backend' \in Backends /\ vms' = [a.vms EXCEPT ![n] = q] /\ late' = a.late
        <5>1. /\ [a EXCEPT !.vms[n] = q] \in Backends
              /\ [a EXCEPT !.vms[n] = q].vms = [a.vms EXCEPT ![n] = q]
              /\ [a EXCEPT !.vms[n] = q].late = a.late
          BY DEF Backends
        <5> QED BY <4>2, <5>1 DEF vms, late
      <4> QED BY <2>4, <3>2, <4>1, <4>2
    <3>4. Renamed(m, k)
      BY <1>1, <2>1, <2>3, <2>4, <3>1, <3>3 DEF Renamed
    <3> QED BY <2>1, <2>2, <2>4, <3>1, <3>3, <3>4 DEF VmMoves, LateMoves, ByOthers
  <2> QED BY <2>1, <2>5, <2>6
<1>11. CASE \/ Trigger \/ Read \/ AddFinalizer \/ Connect \/ Search \/ Lookup \/ finish_clone
            \/ patch_status_success \/ patch_status_failed \/ refresh_power_state
            \/ status_with_observed_state \/ find_own_clone \/ status_adopting \/ finalize
            \/ FinalizeSearch \/ DropFinalizer \/ Stop \/ Sync \/ CreateAgain \/ Delete
            \/ TakeFinalizerOff \/ ProviderChange \/ UNCHANGED vars
  <2>1. UNCHANGED backend
    BY <1>11 DEF Trigger, StartPass, Read, AddFinalizer, EnsureFinalizer, Connect, Search, Lookup,
       finish_clone, patch_status_success, patch_status_failed, Patch, refresh_power_state,
       status_with_observed_state, find_own_clone, status_adopting, finalize, FinalizeSearch,
       DropFinalizer, RemoveFinalizer, Stop, Crash, Sync, CreateAgain, Create, Delete,
       TakeFinalizerOff, RemoveByHand, ProviderChange, vars
  <2> QED BY <1>2, <2>1
<1> QED
  BY <1>4, <1>5, <1>7, <1>8, <1>9, <1>10, <1>11 DEF Next, Pass, World
-----------------------------------------------------------------------------

\* Every step keeps the types.
LEMMA TypeStep ==
    ASSUME TypeOK, [Next]_vars PROVE TypeOK'
<1>1. /\ obj \in Objects /\ cache \in Objects /\ pass \in PassRecords
      /\ pass.snap \in Objects /\ pass.ref \in Morefs \cup {NoVM} /\ NoVM \in Morefs \cup {NoVM}
      /\ pass.snap.ref \in Morefs \cup {NoVM} /\ pass.snap.prov \in BOOLEAN
      /\ pass.snap.ready \in BOOLEAN /\ pass.todo \in SUBSET Morefs
      /\ find_vms_named \in SUBSET Morefs /\ find_vm_moref_by_name \in SUBSET Morefs
      /\ OwnClones \in SUBSET Morefs
  BY DEF TypeOK, PassRecords, Objects, find_vms_named, find_vm_moref_by_name, OwnClones
<1>2. \A m : pass.todo \ {m} \in SUBSET Morefs
  BY <1>1
<1>3. {"idle", "read", "finalizer", "connect", "search", "reclaim", "clone", "lookup", "finish",
       "rollback", "record", "failed", "compensate", "observe", "adopt", "adopting", "observed",
       "finProvider", "finVm", "finSearch", "finClean", "finRemove"} \subseteq Stages
  BY DEF Stages
<1>4. ASSUME obj' \in Objects, cache' \in Objects, provider' \in BOOLEAN,
             pc' \in Stages, pass' \in PassRecords,
             \/ UNCHANGED loss \/ loss' = loss \cup Namesake
             \/ \E x \in {"provider", "late", "forced", "noticed", "moved", "mistaken"} :
                  loss' = loss \cup {x},
             UNCHANGED faults \/ Fail, UNCHANGED changes \/ Change
      PROVE  TypeOK'
  <2>1. faults' \in 0..MaxFaults /\ changes' \in 0..MaxChanges
    BY <1>4, BoundsAssumption DEF Fail, Change, TypeOK
  <2>2. loss' \subseteq {"provider", "late", "forced", "noticed", "namesake", "moved", "mistaken"}
    BY <1>4 DEF Namesake, TypeOK
  <2>3. backend' \in Backends
    BY VmStep
  <2> QED BY <1>4, <2>1, <2>2, <2>3 DEF TypeOK, Backends, PassRecords
<1>5. provider \in BOOLEAN /\ pc \in Stages
  BY DEF TypeOK
<1>6. \A p, r \in BOOLEAN, m \in Morefs \cup {NoVM} :
         [obj EXCEPT !.prov = p, !.ref = m, !.ready = r] \in Objects
  BY <1>1, ObjectTypes
<1> HIDE DEF Stages, Morefs
<1>7. CASE Trigger \/ Stop \/ Sync
  BY <1>1, <1>3, <1>4, <1>5, <1>7, PassTypes
     DEF Trigger, StartPass, Stop, Crash, Sync, EndPass, KeepApi, Keep
<1>8. CASE Read
  <2>1. live_base(pass.snap, obj) \in Objects
    BY <1>1, ObjectTypes DEF live_base
  <2>2. /\ UNCHANGED <<obj, cache, provider, loss, changes>> /\ (UNCHANGED faults \/ Fail)
        /\ \/ pc' = "idle" /\ pass' = NoPass
           \/ /\ pc' \in {"finProvider", "finalizer"}
              /\ pass' = [pass EXCEPT !.snap = live_base(pass.snap, obj)]
    BY <1>8 DEF Read, End, EndPass, KeepApi, Keep
  <2> QED BY <1>1, <1>3, <1>4, <1>5, <2>1, <2>2, PassTypes
<1>9. CASE AddFinalizer \/ DropFinalizer
  BY <1>1, <1>3, <1>4, <1>5, <1>9, PassTypes, ObjectTypes
     DEF AddFinalizer, EnsureFinalizer, DropFinalizer, RemoveFinalizer, Goto, EndPass, Keep
<1>10. CASE Connect \/ Search \/ FinalizeSearch
  <2>1. /\ UNCHANGED <<obj, cache, provider, loss, changes>> /\ (UNCHANGED faults \/ Fail)
        /\ pc' \in {"observe", "record", "search", "failed", "reclaim", "finClean", "idle"}
        /\ \/ pass' = pass \/ pass' = NoPass
           \/ pass' = [pass EXCEPT !.ref = pass.snap.ref] \/ pass' = [pass EXCEPT !.made = TRUE]
           \/ pass' = [pass EXCEPT !.todo = find_vms_named, !.made = TRUE]
           \/ pass' = [pass EXCEPT !.todo = find_vms_named]
    BY <1>10 DEF Connect, Search, FinalizeSearch, route, Goto, End, EndPass, KeepApi, Keep
  <2> QED BY <1>1, <1>3, <1>4, <1>5, <2>1, PassTypes
<1>22. CASE Lookup
  <2>1. /\ UNCHANGED <<obj, cache, provider, changes>> /\ (UNCHANGED faults \/ Fail)
        /\ UNCHANGED loss \/ loss' = loss \cup {"mistaken"}
        /\ pc' \in {"finish", "failed"}
        /\ pass' = pass \/ \E m \in Morefs : pass' = [pass EXCEPT !.ref = m]
    BY <1>22 DEF Lookup, find_vm_moref_by_name, Goto, KeepApi, Keep
  <2>2. pass' \in PassRecords
    BY <1>1, <2>1, PassTypes
  <2>3. obj' \in Objects /\ cache' \in Objects /\ provider' \in BOOLEAN /\ pc' \in Stages
    BY <1>1, <1>3, <1>5, <2>1
  <2> QED BY <1>4, <2>1, <2>2, <2>3
<1>11. CASE reclaim_or_refuse \/ finalize_unrecorded
  <2>1. /\ UNCHANGED <<obj, cache, provider, loss, changes>> /\ (UNCHANGED faults \/ Fail)
        /\ pc' \in {pc, "clone", "failed", "finRemove", "idle"}
        /\ \/ pass' = pass \/ pass' = NoPass
           \/ \E m : pass' = [pass EXCEPT !.todo = pass.todo \ {m}]
    BY <1>11 DEF reclaim_or_refuse, finalize_unrecorded, Goto, End, EndPass, KeepApi, Keep
  <2> QED BY <1>1, <1>2, <1>3, <1>4, <1>5, <2>1, PassTypes
<1>12. CASE clone_vm \/ finish_clone \/ roll_back_clone \/ compensate_gone \/ refresh_power_state
  <2>1. /\ UNCHANGED <<obj, cache, provider, loss, changes>> /\ (UNCHANGED faults \/ Fail)
        /\ pc' \in {"lookup", "failed", "record", "rollback", "observed", "adopt", "idle"}
        /\ pass' = pass \/ pass' = NoPass \/ pass' = [pass EXCEPT !.ref = NoVM]
    BY <1>12 DEF clone_vm, finish_clone, roll_back_clone, compensate_gone, refresh_power_state,
       Goto, End, EndPass, KeepApi, Keep
  <2> QED BY <1>1, <1>3, <1>4, <1>5, <2>1, PassTypes
<1>13. CASE \/ patch_status_success \/ patch_status_failed \/ status_with_observed_state
            \/ status_adopting
  <2>1. /\ UNCHANGED <<cache, provider, changes>> /\ (UNCHANGED faults \/ Fail)
        /\ \/ UNCHANGED obj
           \/ \E p, r \in BOOLEAN, m \in Morefs \cup {NoVM} :
                obj' = [obj EXCEPT !.prov = p, !.ref = m, !.ready = r]
    <3>1. CASE patch_status_success
      BY <1>1, <3>1 DEF patch_status_success, Patch, PatchMachine, Keep
    <3>2. CASE patch_status_failed
      BY <1>1, <3>2 DEF patch_status_failed, Patch, PatchMachine, Keep
    <3>3. CASE status_with_observed_state
      BY <1>1, <3>3 DEF status_with_observed_state, Patch, PatchMachine, Keep
    <3>4. CASE status_adopting
      BY <1>1, <3>4 DEF status_adopting, Patch, PatchMachine, Keep
    <3> QED BY <1>13, <3>1, <3>2, <3>3, <3>4
  <2>2. /\ UNCHANGED loss \/ loss' = loss \cup Namesake
        /\ pc' \in {"idle", "compensate"}
        /\ pass' = pass \/ pass' = NoPass \/ pass' = [pass EXCEPT !.ref = pass.snap.ref]
    BY <1>13 DEF patch_status_success, patch_status_failed, status_with_observed_state,
       status_adopting, Patch, PatchMachine, Compensate, End, EndPass
  <2>3. obj' \in Objects
    <3>1. ASSUME NEW p \in BOOLEAN, NEW r \in BOOLEAN, NEW m \in Morefs \cup {NoVM},
                 obj' = [obj EXCEPT !.prov = p, !.ref = m, !.ready = r]
          PROVE  obj' \in Objects
      BY <1>6, <3>1, Zenon
    <3> QED BY <1>1, <2>1, <3>1, Zenon
  <2>4. pass' \in PassRecords
    BY <1>1, <2>2, PassTypes
  <2>5. pc' \in Stages /\ cache' \in Objects /\ provider' \in BOOLEAN
    BY <1>1, <1>3, <1>5, <2>1, <2>2
  <2> QED BY <1>4, <2>1, <2>2, <2>3, <2>4, <2>5
<1>14. CASE find_own_clone
  <2>1. /\ UNCHANGED <<obj, cache, provider, loss, changes>> /\ (UNCHANGED faults \/ Fail)
        /\ pc' \in {"adopting", "failed"}
        /\ pass' = pass \/ \E m \in OwnClones : pass' = [pass EXCEPT !.ref = m]
    BY <1>14 DEF find_own_clone, KeepApi, Keep
  <2>2. pass' \in PassRecords
    BY <1>1, <2>1, PassTypes
  <2>3. pc' \in Stages
    BY <1>3, <2>1
  <2> QED BY <1>1, <1>4, <1>5, <2>1, <2>2, <2>3
<1>15. CASE finalize \/ finalize_vm
  BY <1>1, <1>3, <1>4, <1>5, <1>15, PassTypes
     DEF finalize, finalize_vm, End, EndPass, KeepApi, Keep
<1>16. CASE LateClone
  BY <1>1, <1>4, <1>5, <1>16 DEF LateClone, KeepApi, Keep
<1>17. CASE CreateAgain
  <2>1. obj.uid + 1 \in Uids
    BY <1>1, <1>17, BoundsAssumption DEF CreateAgain, Create, Objects, Uids
  <2>2. Created(NoObject, obj.uid + 1) \in Objects
    BY <1>1, <2>1, ObjectTypes
  <2> QED BY <1>1, <1>4, <1>5, <1>17, <2>2 DEF CreateAgain, Create, OnlyWorld
<1>18. CASE Delete
  <2>1. (IF obj.fin THEN "deleting" ELSE "absent") \in Lives
    BY DEF Lives
  <2> QED BY <1>1, <1>4, <1>5, <1>18, <2>1, ObjectTypes DEF Delete, OnlyWorld
<1>19. CASE TakeFinalizerOff
  BY <1>1, <1>4, <1>5, <1>19, ObjectTypes DEF TakeFinalizerOff, RemoveByHand, OnlyWorld
<1>20. CASE ForeignVm \/ Unregister \/ ProviderChange
  BY <1>1, <1>4, <1>5, <1>20 DEF ForeignVm, Unregister, ProviderChange, OnlyWorld
<1>21. CASE UNCHANGED vars
  BY <1>21 DEF vars, TypeOK
<1> QED
  BY <1>7, <1>8, <1>9, <1>10, <1>11, <1>12, <1>13, <1>14, <1>15, <1>16, <1>17, <1>18,
     <1>19, <1>20, <1>21, <1>22 DEF Next, Pass, World
-----------------------------------------------------------------------------
\* The pass.

\* The pass goes on from one stage to another, with what it knows or with another VM.
Goes(from, to) == pc = from /\ pc' = to /\ UNCHANGED <<obj, pass>>
GoesWith(from, to, m) ==
    /\ pc = from /\ pc' = to /\ UNCHANGED obj
    /\ pass'.snap = pass.snap /\ pass'.made = pass.made /\ pass'.ref = m

Starts ==
    /\ pc = "idle" /\ pc' = "read" /\ pass'.ref = NoVM /\ ~pass'.made
    /\ UNCHANGED <<obj, cache, backend, loss, faults>>

Reads ==
    /\ pc = "read" /\ pass'.snap = obj /\ pass'.ref = pass.ref /\ pass'.made = pass.made
    /\ \/ pc' = "finProvider" /\ obj.life = "deleting"
       \/ pc' = "finalizer" /\ obj.life = "live"
    /\ UNCHANGED <<obj, cache, backend, loss, faults>>

\* The VMs of the name are listed, and taken one by one.
Lists(from, to) ==
    /\ pc = from /\ pc' = to /\ UNCHANGED <<obj, backend>>
    /\ pass'.snap = pass.snap /\ pass'.ref = pass.ref /\ pass'.todo = find_vms_named
Takes(stage) ==
    /\ pc = stage /\ pc' = stage /\ UNCHANGED <<obj, loss>>
    /\ pass'.snap = pass.snap /\ pass'.made = pass.made /\ pass'.ref = pass.ref
    /\ \E m \in pass.todo : pass'.todo = pass.todo \ {m} /\ (IsOwn(m) => ~There(m)')

\* Where the pass of a live machine goes from a stage.
LiveMoves ==
    \/ pc = "finalizer" /\ pc' = "connect" /\ UNCHANGED pass
    \/ GoesWith("connect", route(pass.snap), pass.snap.ref)
    \/ \E from \in {"connect", "reclaim", "clone", "lookup", "observe", "adopt"} :
         Goes(from, "failed") /\ (from = "lookup" => Fail \/ find_vm_moref_by_name = {})
    \/ Lists("search", "reclaim")
    \/ pc = "search" /\ pc' = "failed" /\ UNCHANGED obj /\ pass'.snap = pass.snap /\ pass'.ref = pass.ref
    \/ Takes("reclaim")
    \/ Goes("reclaim", "clone") /\ pass.todo = {} /\ UNCHANGED backend
    \/ Goes("clone", "lookup") /\ (OwnVMs(pass.snap.uid) # {})'
    \/ \E m \in find_vm_moref_by_name :
         /\ GoesWith("lookup", "finish", m) /\ UNCHANGED backend
         /\ loss' = loss \cup IF IsOwn(m) THEN {} ELSE {"mistaken"}
    \/ Goes("finish", "record") /\ UNCHANGED backend
    \/ Goes("finish", "rollback") /\ (Fail \/ ~There(pass.ref)) /\ UNCHANGED backend
    \/ GoesWith("rollback", "failed", NoVM)
    \/ Goes("record", "compensate") /\ obj.life = "absent" /\ UNCHANGED backend
    \/ GoesWith("failed", "compensate", pass.snap.ref) /\ obj.life = "absent" /\ pass.made
    \/ Goes("observe", "observed") \/ Goes("observe", "adopt")
    \/ \E m \in OwnClones : GoesWith("adopt", "adopting", m) /\ UNCHANGED backend

\* And that of a deleted one.
RemovingMoves ==
    \/ GoesWith("finProvider", "finVm", pass.snap.ref) /\ pass.snap.ref # NoVM
    \/ GoesWith("finProvider", "finSearch", pass.snap.ref) /\ pass.snap.ref = NoVM
    \/ Goes("finProvider", "finRemove") /\ "provider" \in loss'
    \/ Goes("finVm", "finRemove") /\ (There(pass.ref) \/ "moved" \in loss')
       /\ (pass.ref \in Morefs => ~There(pass.ref)')
    \/ Lists("finSearch", "finClean")
    \/ Takes("finClean")
    \/ Goes("finClean", "finRemove") /\ pass.todo = {} /\ UNCHANGED backend

Moves ==
    \/ pc' = "idle" /\ pass' = NoPass
    \/ UNCHANGED <<pc, pass>>
    \/ Starts \/ Reads \/ LiveMoves \/ RemovingMoves

\* A destroyed VM is not there.
LEMMA Destroyed ==
    ASSUME backend \in Backends, NEW m \in Morefs, destroy_vm(m) PROVE ~There(m)'
<1>1. IF There(m) THEN Freed(m) ELSE Same
  BY Destroys
<1> QED BY <1>1 DEF Freed, Same, There

\* Every step moves the pass along one of these, if at all.
LEMMA PassMoves ==
    ASSUME TypeOK, [Next]_vars PROVE Moves
<1>1. backend \in Backends /\ pass \in PassRecords /\ pass.todo \subseteq Morefs
      /\ pass.snap.uid \in Uids
  BY DEF TypeOK, Backends, PassRecords, Objects
<1>2. /\ \A m : pass' = [pass EXCEPT !.ref = m] =>
                  pass'.snap = pass.snap /\ pass'.made = pass.made /\ pass'.ref = m
      /\ \A o : pass' = [pass EXCEPT !.snap = o] =>
                  pass'.snap = o /\ pass'.made = pass.made /\ pass'.ref = pass.ref
      /\ \A t : pass' = [pass EXCEPT !.todo = t] =>
                  /\ pass'.snap = pass.snap /\ pass'.made = pass.made
                  /\ pass'.ref = pass.ref /\ pass'.todo = t
      /\ \A t : pass' = [pass EXCEPT !.todo = t, !.made = TRUE] =>
                  pass'.snap = pass.snap /\ pass'.ref = pass.ref /\ pass'.todo = t
      /\ pass' = [pass EXCEPT !.made = TRUE] => pass'.snap = pass.snap /\ pass'.ref = pass.ref
  BY <1>1 DEF PassRecords
<1> USE DEF Moves
<1>3. CASE Trigger
  <2>1. ~[NoPass EXCEPT !.snap = cache].made /\ [NoPass EXCEPT !.snap = cache].ref = NoVM
    BY DEF NoPass
  <2> QED BY <1>3, <2>1 DEF Trigger, StartPass, KeepApi, Starts
<1>4. CASE Read
  <2>1. live_base(pass.snap, obj).life # "absent" => live_base(pass.snap, obj) = obj
    BY DEF live_base, NoObject
  <2>2. obj.life \in Lives
    BY DEF TypeOK, Objects
  <2>3. \/ pc' = "idle" /\ pass' = NoPass
        \/ /\ pc = "read" /\ pass' = [pass EXCEPT !.snap = obj]
           /\ \/ pc' = "finProvider" /\ obj.life = "deleting"
              \/ pc' = "finalizer" /\ obj.life = "live"
           /\ UNCHANGED <<obj, cache, backend, loss, faults>>
    BY <1>4, <2>1, <2>2 DEF Read, End, EndPass, KeepApi, Lives
  <2> QED BY <1>2, <2>3 DEF Reads
<1>5. CASE AddFinalizer
  BY <1>5 DEF AddFinalizer, EnsureFinalizer, Goto, EndPass, LiveMoves
<1>6. CASE Connect
  <2>1. /\ pc = "connect" /\ UNCHANGED obj
        /\ \/ pc' = route(pass.snap) /\ pass' = [pass EXCEPT !.ref = pass.snap.ref]
           \/ pc' = "failed" /\ UNCHANGED pass
    BY <1>6 DEF Connect, KeepApi
  <2> QED BY <1>2, <2>1 DEF LiveMoves, Goes, GoesWith
<1>7. CASE Search
  <2>1. /\ pc = "search" /\ UNCHANGED <<obj, backend>>
        /\ \/ pc' = "reclaim" /\ pass' = [pass EXCEPT !.todo = find_vms_named, !.made = TRUE]
           \/ pc' = "failed" /\ pass' = [pass EXCEPT !.made = TRUE]
    BY <1>7 DEF Search, KeepApi
  <2> QED BY <1>2, <2>1 DEF LiveMoves, Lists
<1>8. CASE reclaim_or_refuse
  <2>1. \/ Goes("reclaim", "clone") /\ pass.todo = {} /\ UNCHANGED backend
        \/ Goes("reclaim", "failed")
        \/ /\ pc = "reclaim" /\ pc' = "reclaim" /\ UNCHANGED <<obj, loss>>
           /\ \E m \in pass.todo : destroy_vm(m) /\ pass' = [pass EXCEPT !.todo = pass.todo \ {m}]
    BY <1>8 DEF reclaim_or_refuse, Goto, KeepApi, Goes
  <2>2. ASSUME NEW m \in pass.todo, pc = "reclaim", pc' = "reclaim", UNCHANGED <<obj, loss>>,
               destroy_vm(m), pass' = [pass EXCEPT !.todo = pass.todo \ {m}]
        PROVE  Takes("reclaim")
    BY <1>1, <1>2, <2>2, Destroyed DEF Takes
  <2> QED BY <2>1, <2>2 DEF LiveMoves
<1>9. CASE clone_vm
  <2>1. CASE CanAdd /\ backend' = AddVm(backend, "folder", pass.snap.uid) /\ Goto("lookup")
    <3>1. PICK m \in Morefs : vms'[m].at = "folder" /\ vms'[m].uid = pass.snap.uid
      BY <1>1, <2>1, Adds DEF CanAdd, vms
    <3>2. Goes("clone", "lookup")
      BY <1>9, <2>1 DEF clone_vm, Goto, KeepApi, Goes
    <3>3. m \in OwnVMs(pass.snap.uid)'
      BY <3>1, <3>2 DEF OwnVMs, There, Goes
    <3> QED BY <3>2, <3>3 DEF LiveMoves
  <2>2. CASE Goto("failed")
    BY <1>9, <2>2 DEF clone_vm, Goto, KeepApi, Goes, LiveMoves
  <2> QED BY <1>9, <2>1, <2>2 DEF clone_vm
<1>10. CASE Lookup
  <2>1. /\ pc = "lookup" /\ UNCHANGED <<obj, backend>>
        /\ \/ \E m \in find_vm_moref_by_name :
                /\ pc' = "finish" /\ pass' = [pass EXCEPT !.ref = m]
                /\ loss' = loss \cup IF IsOwn(m) THEN {} ELSE {"mistaken"}
           \/ pc' = "failed" /\ UNCHANGED pass /\ (Fail \/ find_vm_moref_by_name = {})
    BY <1>10 DEF Lookup, Goto, KeepApi
  <2> QED BY <1>2, <2>1 DEF LiveMoves, Goes, GoesWith
<1>11. CASE finish_clone
  BY <1>11 DEF finish_clone, Goto, KeepApi, LiveMoves, Goes
<1>12. CASE roll_back_clone
  <2>1. pc = "rollback" /\ pc' = "failed" /\ UNCHANGED obj /\ pass' = [pass EXCEPT !.ref = NoVM]
    BY <1>12 DEF roll_back_clone, KeepApi
  <2> QED BY <1>2, <2>1 DEF LiveMoves, GoesWith
<1>13. CASE patch_status_success
  BY <1>13 DEF patch_status_success, Patch, PatchMachine, Compensate, End, EndPass, LiveMoves, Goes
<1>14. CASE patch_status_failed
  <2>1. \/ pc' = "idle" /\ pass' = NoPass
        \/ /\ pc = "failed" /\ pc' = "compensate" /\ UNCHANGED obj /\ obj.life = "absent" /\ pass.made
           /\ pass' = [pass EXCEPT !.ref = pass.snap.ref]
    BY <1>14 DEF patch_status_failed, Patch, PatchMachine, End, EndPass
  <2> QED BY <1>2, <2>1 DEF LiveMoves, GoesWith
<1>15. CASE compensate_gone \/ status_with_observed_state \/ status_adopting
  BY <1>15 DEF compensate_gone, status_with_observed_state, status_adopting, Patch,
     PatchMachine, End, EndPass
<1>16. CASE refresh_power_state
  BY <1>16 DEF refresh_power_state, Goto, End, EndPass, KeepApi, LiveMoves, Goes
<1>17. CASE find_own_clone
  <2>1. /\ pc = "adopt" /\ UNCHANGED <<obj, backend>>
        /\ \/ \E m \in OwnClones : pc' = "adopting" /\ pass' = [pass EXCEPT !.ref = m]
           \/ pc' = "failed" /\ UNCHANGED pass
    BY <1>17 DEF find_own_clone, KeepApi
  <2> QED BY <1>2, <2>1 DEF LiveMoves, Goes, GoesWith
<1>18. CASE finalize
  <2>1. \/ pc' = "idle" /\ pass' = NoPass
        \/ /\ pc = "finProvider" /\ UNCHANGED obj
           /\ \/ /\ pc' = IF pass.snap.ref # NoVM THEN "finVm" ELSE "finSearch"
                 /\ pass' = [pass EXCEPT !.ref = pass.snap.ref]
              \/ pc' = "finRemove" /\ UNCHANGED pass /\ "provider" \in loss'
    BY <1>18 DEF finalize, End, EndPass, KeepApi
  <2> QED BY <1>2, <2>1 DEF RemovingMoves, Goes, GoesWith
<1>19. CASE finalize_vm
  BY <1>1, <1>19, Destroyed DEF finalize_vm, End, EndPass, KeepApi, RemovingMoves, Goes
<1>20. CASE FinalizeSearch
  <2>1. \/ pc' = "idle" /\ pass' = NoPass
        \/ /\ pc = "finSearch" /\ pc' = "finClean" /\ UNCHANGED <<obj, backend>>
           /\ pass' = [pass EXCEPT !.todo = find_vms_named]
    BY <1>20 DEF FinalizeSearch, End, EndPass, KeepApi
  <2> QED BY <1>2, <2>1 DEF RemovingMoves, Lists
<1>21. CASE finalize_unrecorded
  <2>1. \/ Goes("finClean", "finRemove") /\ pass.todo = {} /\ UNCHANGED backend
        \/ pc' = "idle" /\ pass' = NoPass
        \/ /\ pc = "finClean" /\ pc' = "finClean" /\ UNCHANGED <<obj, loss>>
           /\ \E m \in pass.todo : /\ IsOwn(m) => destroy_vm(m)
                                   /\ pass' = [pass EXCEPT !.todo = pass.todo \ {m}]
    BY <1>21 DEF finalize_unrecorded, Goto, End, EndPass, KeepApi, Goes
  <2>2. ASSUME NEW m \in pass.todo, pc = "finClean", pc' = "finClean", UNCHANGED <<obj, loss>>,
               IsOwn(m) => destroy_vm(m), pass' = [pass EXCEPT !.todo = pass.todo \ {m}]
        PROVE  Takes("finClean")
    BY <1>1, <1>2, <2>2, Destroyed DEF Takes
  <2> QED BY <2>1, <2>2 DEF RemovingMoves
<1>22. CASE DropFinalizer \/ Stop
  BY <1>22 DEF DropFinalizer, RemoveFinalizer, Stop, Crash, EndPass
<1>23. CASE Sync \/ LateClone \/ World \/ UNCHANGED vars
  BY <1>23 DEF Sync, LateClone, World, CreateAgain, Create, Delete, TakeFinalizerOff,
     RemoveByHand, ForeignVm, Unregister, ProviderChange, OnlyWorld, vars
<1> QED
  BY <1>3, <1>4, <1>5, <1>6, <1>7, <1>8, <1>9, <1>10, <1>11, <1>12, <1>13, <1>14, <1>15, <1>16,
     <1>17, <1>18, <1>19, <1>20, <1>21, <1>22, <1>23 DEF Next, Pass
-----------------------------------------------------------------------------
\* The machine, as the API server holds it.

\* Every step changes the machine in one of these ways, if at all.
LEMMA MachineMoves ==
    ASSUME TypeOK, [Next]_vars PROVE ApiMoves(Noticing)
<1>1. obj \in Objects
  BY DEF TypeOK
<1>2. /\ LET o == [obj EXCEPT !.fin = TRUE] IN o.life = obj.life /\ o.uid = obj.uid /\ o.fin
      /\ \A l : LET o == [obj EXCEPT !.life = l]
                IN o.life = l /\ o.uid = obj.uid /\ o.fin = obj.fin
      /\ LET o == FinalizerRemoved(obj)
         IN /\ o.life = (IF obj.life = "deleting" THEN "absent" ELSE obj.life)
            /\ o.uid = obj.uid /\ ~o.fin
      /\ LET o == Created(NoObject, obj.uid + 1)
         IN o.life = "live" /\ o.uid = obj.uid + 1 /\ ~o.fin
  BY <1>1 DEF Objects, FinalizerRemoved, Created, NoObject
<1>3. CASE AddFinalizer
  BY <1>2, <1>3 DEF AddFinalizer, EnsureFinalizer, Goto, EndPass, ApiMoves
<1>4. CASE \/ patch_status_success \/ patch_status_failed \/ status_with_observed_state
           \/ status_adopting
  <2>1. /\ UNCHANGED cache /\ loss \subseteq loss'
        /\ \/ UNCHANGED obj
           \/ \E p, m, r : obj' = [obj EXCEPT !.prov = p, !.ref = m, !.ready = r]
    BY <1>4 DEF patch_status_success, patch_status_failed, status_with_observed_state,
       status_adopting, Patch, PatchMachine
  <2>2. ASSUME NEW p, NEW m, NEW r, obj' = [obj EXCEPT !.prov = p, !.ref = m, !.ready = r]
        PROVE  obj'.life = obj.life /\ obj'.uid = obj.uid /\ obj'.fin = obj.fin
    BY <1>1, <2>2 DEF Objects
  <2> QED BY <2>1, <2>2 DEF ApiMoves
<1>5. CASE DropFinalizer
  BY <1>2, <1>5 DEF DropFinalizer, RemoveFinalizer, EndPass, ApiMoves
<1>6. CASE CreateAgain
  BY <1>2, <1>6 DEF CreateAgain, Create, OnlyWorld, ApiMoves
<1>7. CASE Delete
  BY <1>2, <1>7 DEF Delete, OnlyWorld, ApiMoves
<1>8. CASE TakeFinalizerOff
  <2>1. /\ UNCHANGED <<cache, pc, pass>> /\ obj.life = "deleting" /\ obj' = FinalizerRemoved(obj)
        /\ loss \subseteq loss' /\ ("forced" \in loss' \/ ("noticed" \in loss' /\ pc \in Noticing))
    BY <1>8 DEF TakeFinalizerOff, RemoveByHand, OnlyWorld, Noticing
  <2> QED BY <1>2, <2>1 DEF ApiMoves
<1>9. CASE Sync
  BY <1>9 DEF Sync, ApiMoves
<1>10. CASE \/ Trigger \/ Read \/ Connect \/ Search \/ reclaim_or_refuse \/ clone_vm \/ Lookup
            \/ finish_clone \/ roll_back_clone \/ compensate_gone \/ refresh_power_state
            \/ find_own_clone \/ finalize \/ finalize_vm \/ FinalizeSearch \/ finalize_unrecorded
            \/ Stop \/ LateClone \/ ForeignVm \/ Unregister \/ ProviderChange \/ UNCHANGED vars
  <2>1. UNCHANGED <<obj, cache>> /\ loss \subseteq loss'
    BY <1>10 DEF Trigger, StartPass, Read, Connect, Search, reclaim_or_refuse, clone_vm, Lookup,
       finish_clone, roll_back_clone, compensate_gone, refresh_power_state, find_own_clone,
       finalize, finalize_vm, FinalizeSearch, finalize_unrecorded, Stop, Crash, LateClone,
       ForeignVm, Unregister, ProviderChange, Goto, End, EndPass, KeepApi, OnlyWorld, vars
  <2> QED BY <2>1 DEF ApiMoves
<1> QED
  BY <1>3, <1>4, <1>5, <1>6, <1>7, <1>8, <1>9, <1>10 DEF Next, Pass, World

\* A call failed, or none did.
LEMMA CallsFail ==
    ASSUME [Next]_vars PROVE FaultMoves
<1>1. CASE Pass
  BY <1>1 DEF Pass, Read, AddFinalizer, EnsureFinalizer, Connect, Search, reclaim_or_refuse,
     clone_vm, Lookup, finish_clone, roll_back_clone, patch_status_success, patch_status_failed,
     compensate_gone, refresh_power_state, status_with_observed_state, find_own_clone,
     status_adopting, finalize, finalize_vm, FinalizeSearch, finalize_unrecorded, DropFinalizer,
     RemoveFinalizer, Patch, PatchMachine, FaultMoves
<1>2. CASE Trigger \/ Stop \/ Sync \/ LateClone \/ World \/ UNCHANGED vars
  BY <1>2 DEF Trigger, StartPass, Stop, Crash, Sync, LateClone, World, CreateAgain, Create,
     Delete, TakeFinalizerOff, RemoveByHand, ForeignVm, Unregister, ProviderChange, OnlyWorld,
     vars, FaultMoves
<1> QED BY <1>1, <1>2 DEF Next

\* What a step writes to the machine's vmRef, and whether it is provisioned.
RefMoves ==
    \/ obj'.ref = obj.ref /\ obj'.prov = obj.prov /\ obj'.uid = obj.uid
    \/ /\ obj.life = "absent" /\ obj'.uid = obj.uid + 1 /\ obj'.ref = NoVM /\ ~obj'.prov
       /\ UNCHANGED <<pc, pass>>
    \/ /\ pc' = "idle" /\ loss' = loss \cup Namesake /\ obj'.uid = obj.uid
       /\ \/ pc = "record" /\ obj'.prov /\ obj'.ref = pass.ref
          \/ pc = "adopting" /\ obj'.prov = pass.snap.prov /\ obj'.ref = pass.ref
          \/ pc \in {"failed", "observed"} /\ obj'.prov = pass.snap.prov /\ obj'.ref = pass.snap.ref

\* Every step does so.
LEMMA RefStep ==
    ASSUME TypeOK, [Next]_vars PROVE RefMoves
<1>1. obj \in Objects
  BY DEF TypeOK
<1> USE DEF RefMoves
<1>2. UNCHANGED obj => RefMoves
  OBVIOUS
<1>3. CASE patch_status_success
  <2>1. \/ UNCHANGED obj
        \/ /\ pc = "record" /\ pc' = "idle" /\ loss' = loss \cup Namesake
           /\ obj' = [obj EXCEPT !.prov = TRUE, !.ref = pass.ref, !.ready = TRUE]
    BY <1>3 DEF patch_status_success, Patch, PatchMachine, End, EndPass
  <2> QED BY <1>1, <2>1 DEF Objects
<1>4. CASE patch_status_failed
  <2>1. \/ UNCHANGED obj
        \/ /\ pc = "failed" /\ pc' = "idle" /\ loss' = loss \cup Namesake
           /\ obj' = [obj EXCEPT !.prov = pass.snap.prov, !.ref = pass.snap.ref, !.ready = FALSE]
    BY <1>4 DEF patch_status_failed, Patch, PatchMachine, End, EndPass
  <2> QED BY <1>1, <2>1 DEF Objects
<1>5. CASE status_with_observed_state
  <2>1. \/ UNCHANGED obj
        \/ /\ pc = "observed" /\ pc' = "idle" /\ loss' = loss \cup Namesake
           /\ obj' = [obj EXCEPT !.prov = pass.snap.prov, !.ref = pass.snap.ref, !.ready = TRUE]
    BY <1>5 DEF status_with_observed_state, Patch, PatchMachine, End, EndPass
  <2> QED BY <1>1, <2>1 DEF Objects
<1>6. CASE status_adopting
  <2>1. \/ UNCHANGED obj
        \/ /\ pc = "adopting" /\ pc' = "idle" /\ loss' = loss \cup Namesake
           /\ obj' = [obj EXCEPT !.prov = pass.snap.prov, !.ref = pass.ref, !.ready = pass.snap.ready]
    BY <1>6 DEF status_adopting, Patch, PatchMachine, End, EndPass
  <2> QED BY <1>1, <2>1 DEF Objects
<1>7. CASE AddFinalizer \/ DropFinalizer \/ Delete \/ TakeFinalizerOff
  <2>1. \/ UNCHANGED obj \/ obj' = FinalizerRemoved(obj)
        \/ \E x : obj' = [obj EXCEPT !.fin = x] \/ obj' = [obj EXCEPT !.life = x]
    BY <1>7 DEF AddFinalizer, EnsureFinalizer, DropFinalizer, RemoveFinalizer, Delete,
       TakeFinalizerOff, RemoveByHand
  <2>2. ASSUME NEW x, \/ obj' = FinalizerRemoved(obj)
                      \/ obj' = [obj EXCEPT !.fin = x] \/ obj' = [obj EXCEPT !.life = x]
        PROVE  obj'.ref = obj.ref /\ obj'.prov = obj.prov /\ obj'.uid = obj.uid
    BY <1>1, <2>2 DEF Objects, FinalizerRemoved
  <2> QED BY <2>1, <2>2
<1>8. CASE CreateAgain
  BY <1>8 DEF CreateAgain, Create, Created, NoObject, OnlyWorld
<1>9. CASE \/ Trigger \/ Read \/ Connect \/ Search \/ reclaim_or_refuse \/ clone_vm \/ Lookup
            \/ finish_clone \/ roll_back_clone \/ compensate_gone \/ refresh_power_state
            \/ find_own_clone \/ finalize \/ finalize_vm \/ FinalizeSearch \/ finalize_unrecorded
            \/ Stop \/ Sync \/ LateClone \/ ForeignVm \/ Unregister \/ ProviderChange
            \/ UNCHANGED vars
  <2>1. UNCHANGED obj
    BY <1>9 DEF Trigger, StartPass, Read, Connect, Search, reclaim_or_refuse, clone_vm, Lookup,
       finish_clone, roll_back_clone, compensate_gone, refresh_power_state, find_own_clone,
       finalize, finalize_vm, FinalizeSearch, finalize_unrecorded, Stop, Crash, Sync, LateClone,
       ForeignVm, Unregister, ProviderChange, KeepApi, vars
  <2> QED BY <1>2, <2>1
<1> QED
  BY <1>3, <1>4, <1>5, <1>6, <1>7, <1>8, <1>9 DEF Next, Pass, World

\* How a pass ends that has a VM, unless it fails.
LEMMA Endings ==
    ASSUME TypeOK, [Next]_vars, pc \in {"lookup", "finish", "record", "compensate"},
           pc' = "idle", ~Fail
    PROVE  \/ pc = "record" /\ obj.life # "absent" /\ loss' = loss \cup Namesake
           \/ pc = "compensate" /\ \A m \in Morefs : m = pass.ref => ~There(m)'
<1>1. backend \in Backends
  BY DEF TypeOK, Backends
<1>2. CASE patch_status_success
  BY <1>2 DEF patch_status_success, Patch, PatchMachine, Compensate
<1>3. CASE compensate_gone
  <2>1. pc = "compensate" /\ (pass.ref = NoVM \/ destroy_vm(pass.ref))
    BY <1>3 DEF compensate_gone
  <2>2. NoVM \notin Morefs
    BY DEF NoVM, Morefs
  <2> QED BY <1>1, <2>1, <2>2, Destroyed
<1>4. CASE Pass /\ ~patch_status_success /\ ~compensate_gone
  BY <1>4 DEF Pass, Read, AddFinalizer, EnsureFinalizer, Connect, Search, reclaim_or_refuse,
     clone_vm, Lookup, finish_clone, roll_back_clone, patch_status_failed,
     refresh_power_state, status_with_observed_state, find_own_clone,
     status_adopting, finalize, finalize_vm, FinalizeSearch, finalize_unrecorded, DropFinalizer,
     RemoveFinalizer, Goto
<1>5. CASE Trigger \/ Stop \/ Sync \/ LateClone \/ World \/ UNCHANGED vars
  BY <1>5 DEF Trigger, StartPass, Stop, Crash, Sync, LateClone, World, CreateAgain, Create,
     Delete, TakeFinalizerOff, RemoveByHand, ForeignVm, Unregister, ProviderChange, OnlyWorld, vars
<1> QED BY <1>2, <1>3, <1>4, <1>5 DEF Next

\* The finalizer comes before the work.
LEMMA EntersWorking ==
    ASSUME TypeOK, Routes, [Next]_vars PROVE Enters(Working)
<1>1. Moves
  BY PassMoves
<1>2. ASSUME pc' \in Working, pc \notin Working
      PROVE  pc = "finalizer" /\ pc' = "connect" /\ pass.snap.life = "live"
  BY <1>1, <1>2 DEF Moves, Starts, Reads, LiveMoves, RemovingMoves, Goes, GoesWith, Lists, Takes,
     route, Working, Making, Observing, Routes
<1>3. ASSUME pc = "finalizer", pc' = "connect"
      PROVE  \/ pass.snap.fin
             \/ obj'.life # "absent" /\ obj'.uid = obj.uid /\ obj'.fin /\ loss' = loss \cup Namesake
  <2>1. AddFinalizer
    BY <1>3 DEF Next, Trigger, StartPass, Pass, Read, Connect, Search, reclaim_or_refuse,
       clone_vm, Lookup, finish_clone, roll_back_clone, patch_status_success, patch_status_failed,
       compensate_gone, refresh_power_state, status_with_observed_state, find_own_clone,
       status_adopting, finalize, finalize_vm, FinalizeSearch, finalize_unrecorded, DropFinalizer,
       RemoveFinalizer, Stop, Crash, EndPass, Sync, LateClone, World, CreateAgain, Create, Delete,
       TakeFinalizerOff, RemoveByHand, ForeignVm, Unregister, ProviderChange, OnlyWorld, vars
  <2>2. \/ pass.snap.fin
        \/ obj' = [obj EXCEPT !.fin = TRUE] /\ loss' = loss \cup Namesake /\ obj.life # "absent"
    BY <1>3, <2>1 DEF AddFinalizer, EnsureFinalizer, EndPass
  <2> QED BY <2>2 DEF TypeOK, Objects
<1> QED BY <1>2, <1>3 DEF Enters, Working, Making, Observing

\* All that is known of a step.
Moved ==
    /\ Copies /\ Copies' /\ Moves /\ VmMoves /\ LateMoves /\ RefMoves
    /\ ApiMoves(Noticing) /\ FaultMoves /\ Enters(Working)

\* It holds of every step from a state of the invariant.
LEMMA EveryStep ==
    ASSUME Inv, [Next]_vars PROVE TypeOK' /\ Moved
<1>1. TypeOK /\ TypeOK'
  BY TypeStep DEF Inv
<1>2. Copies /\ Copies'
  BY <1>1, BoundsAssumption DEF TypeOK, Copies, Objects
<1> QED
  BY <1>1, <1>2, PassMoves, VmStep, RefStep, MachineMoves, CallsFail, EntersWorking DEF Inv, Moved
-----------------------------------------------------------------------------
\* The VMs, the records of them, and the pass.

\* A VM that was there keeps its marker, and stays out of the folder.
LEMMA Lasting ==
    ASSUME VmMoves, NEW m \in Morefs, vms[m].at # "unused"
    PROVE  /\ vms'[m].at # "unused" /\ vms'[m].uid = vms[m].uid
           /\ vms'[m].at = "folder" => vms[m].at = "folder"
BY DEF VmMoves, Same, Freed, Added, Renamed, There

\* What was taken for a clone stays so.
LEMMA StillMistaken ==
    ASSUME VmMoves, loss \subseteq loss', NEW m \in Morefs, vms[m].at # "unused", Mistaken(m)
    PROVE  Mistaken(m)'
BY Lasting DEF Mistaken

\* The clone that was just made is in the folder; another that is found below it is
\* somebody else's.
LEMMA TakenFor ==
    ASSUME OneVm, NEW u \in Uids, OwnVMs(u) # {}, NEW n \in find_vm_moref_by_name, vms[n].uid # u
    PROVE  vms[n].uid = Foreign /\ vms[n].at = "below"
<1>1. PICK m \in Morefs : There(m) /\ vms[m].uid = u
  BY DEF OwnVMs
<1>2. u # Foreign /\ n \in Morefs /\ There(n)
  BY DEF Uids, Foreign, find_vm_moref_by_name
<1>3. vms[m].at = "folder" /\ vms[n].at # "folder"
  BY <1>1, <1>2 DEF OneVm, There
<1> QED BY <1>2, <1>3 DEF OneVm, There

\* A name is free before another VM gets it.
LEMMA OneVmStep ==
    ASSUME OneVm, VmMoves PROVE OneVm'
<1>1. CASE Same
  BY <1>1 DEF OneVm, Same, There
<1>2. ASSUME NEW m \in Morefs, Freed(m) PROVE OneVm'
  BY <1>2 DEF OneVm, Freed, There
<1>3. ASSUME NEW m \in Morefs, Added(m) PROVE OneVm'
  BY <1>3 DEF OneVm, Added, There
<1>4. ASSUME NEW m \in Morefs, NEW k \in Morefs, Renamed(m, k) PROVE OneVm'
  BY <1>4 DEF OneVm, Renamed, There
<1> QED BY <1>1, <1>2, <1>3, <1>4 DEF VmMoves

\* A machine gets another clone only by one of these.
Gains(u) ==
    \/ Cloned(u) \/ Outlived(u)
    \/ \E m \in OwnVMs(u) : m = obj.ref /\ ByOthers(m)

\* Its clones are among those it had, otherwise.
LEMMA OwnMoves ==
    ASSUME VmMoves, NEW u \in Uids PROVE OwnVMs(u)' \subseteq OwnVMs(u) \/ Gains(u)
<1>1. u # Foreign
  BY DEF Uids, Foreign
<1>2. CASE Same
  BY <1>2 DEF OwnVMs, Same, There
<1>3. ASSUME NEW m \in Morefs, Freed(m) PROVE OwnVMs(u)' \subseteq OwnVMs(u)
  BY <1>3 DEF OwnVMs, Freed, There
<1>4. ASSUME NEW m \in Morefs, Added(m), Origin(vms'[m].uid)
      PROVE  OwnVMs(u)' \subseteq OwnVMs(u) \/ Gains(u)
  <2>1. CASE vms'[m].uid = u
    BY <1>1, <1>4, <2>1 DEF Origin, Gains
  <2>2. CASE vms'[m].uid # u
    BY <1>4, <2>2 DEF OwnVMs, Added, There
  <2> QED BY <2>1, <2>2
<1>5. ASSUME NEW m \in Morefs, NEW k \in Morefs, Renamed(m, k), ByOthers(m)
      PROVE  OwnVMs(u)' \subseteq OwnVMs(u) \/ Gains(u)
  <2>1. CASE vms[m].uid = u
    BY <1>1, <1>5, <2>1 DEF Renamed, ByOthers, Gains, OwnVMs
  <2>2. CASE vms[m].uid # u
    BY <1>5, <2>2 DEF OwnVMs, Renamed, There
  <2> QED BY <2>1, <2>2
<1> QED BY <1>2, <1>3, <1>4, <1>5 DEF VmMoves

\* A pass keeps the machine it decided from, once it has read it.
LEMMA SnapKept ==
    ASSUME Moves, pc' \notin Reading
    PROVE  \/ pc \notin Reading /\ pass'.snap = pass.snap
           \/ Reads
BY DEF Moves, Starts, LiveMoves, RemovingMoves, Goes, GoesWith, Lists, Takes, Reading

\* The machine a pass decided from only gets older.
LEMMA AgesStep ==
    ASSUME Ages, Moved PROVE Ages'
<1>1. obj.uid \in Nat /\ pass.snap.uid \in Nat
  BY DEF Moved, Copies, Uids
<1>2. obj'.life = "deleting" => obj'.fin
  BY DEF Moved, ApiMoves, Ages
<1>3. ASSUME pc' \notin Reading PROVE Older(pass'.snap, obj') /\ pass'.snap.life # "absent"
  <2>1. CASE pc \notin Reading /\ pass'.snap = pass.snap
    BY <1>1, <2>1, OlderStep DEF Moved, Ages
  <2>2. CASE Reads
    BY <1>1, <2>2 DEF Reads, Older
  <2> QED BY <1>3, <2>1, <2>2, SnapKept DEF Moved
<1> QED BY <1>2, <1>3 DEF Ages, Older

\* The route of a pass is settled by the machine it read.
LEMMA RoutesStep ==
    ASSUME Routes, Paired, Ages, TypeOK, Moved PROVE Routes'
<1>1. Moves
  BY DEF Moved
<1>2. ~NoPass.made
  BY DEF NoPass
<1>3. pc' = "compensate" => ~(obj'.uid = pass'.snap.uid /\ obj'.life # "absent")
  <2> SUFFICES ASSUME pc' = "compensate"
               PROVE  ~(obj'.uid = pass'.snap.uid /\ obj'.life # "absent")
    OBVIOUS
  <2>1. \/ pc = "compensate" /\ UNCHANGED pass
        \/ pass'.snap = pass.snap /\ obj.life = "absent" /\ UNCHANGED obj
    BY <1>1 DEF Moves, Starts, Reads, LiveMoves, RemovingMoves, Goes, GoesWith, Lists, Takes, route
  <2>2. CASE pc = "compensate" /\ UNCHANGED pass
    <3>1. pass.snap.uid <= obj.uid /\ obj.uid \in Nat /\ pass.snap.uid \in Nat
      BY <2>2 DEF Ages, Older, Reading, Moved, Copies, Uids
    <3> QED BY <2>2, <3>1 DEF Routes, Moved, ApiMoves
  <2> QED BY <2>1, <2>2
<1>4. /\ pc' \in Removing => pass'.snap.life = "deleting"
      /\ pc' \in Working \cup {"finalizer"} => pass'.snap.life = "live"
  BY <1>1 DEF Moves, Starts, Reads, LiveMoves, RemovingMoves, Goes, GoesWith, Lists, Takes, route,
     Routes, Removing, Working, Making, Observing
<1>5. /\ pc' \in Making \cup {"finSearch", "finClean"} => pass'.snap.ref = NoVM
      /\ pc' \in Observing => pass'.snap.prov
      /\ pc' = "finVm" => pass'.ref = pass'.snap.ref /\ pass'.ref # NoVM
  BY <1>1 DEF Moves, Starts, Reads, LiveMoves, RemovingMoves, Goes, GoesWith, Lists, Takes, route,
     Routes, Paired, Reading, Making, Observing
<1>6. pass'.made => pc' \notin Reading /\ pass'.snap.ref = NoVM
  BY <1>1, <1>2 DEF Moves, Starts, Reads, LiveMoves, RemovingMoves, Goes, GoesWith, Lists, Takes,
     route, Routes, Reading, Making
<1> QED BY <1>3, <1>4, <1>5, <1>6 DEF Routes

\* Both are written at once.
LEMMA PairedStep ==
    ASSUME Paired, Own, Routes, Moved PROVE Paired'
<1>1. obj'.prov <=> obj'.ref # NoVM
  BY DEF Moved, RefMoves, Paired, Own, Routes, Reading, Observing
<1>2. ASSUME pc' \notin Reading PROVE pass'.snap.prov <=> pass'.snap.ref # NoVM
  BY <1>2, SnapKept DEF Moved, Reads, Paired
<1> QED BY <1>1, <1>2 DEF Paired

\* Only the pass that read the machine writes what it records.
LEMMA FollowedStep ==
    ASSUME Followed, Ages, TypeOK, Moved PROVE Followed'
<1> SUFFICES ASSUME pc' \notin Reading
             PROVE  IF obj'.uid = pass'.snap.uid THEN obj'.ref = pass'.snap.ref ELSE obj'.ref = NoVM
  BY DEF Followed
<1>1. CASE Reads
  BY <1>1 DEF Reads
<1>2. CASE pc \notin Reading /\ pass'.snap = pass.snap
  <2>1. pass.snap.uid <= obj.uid /\ obj.uid \in Nat /\ pass.snap.uid \in Nat
    BY <1>2 DEF Ages, Older, Moved, Copies, Uids
  <2>2. CASE obj'.ref = obj.ref /\ obj'.uid = obj.uid
    BY <1>2, <2>2 DEF Followed
  <2>3. CASE obj'.uid = obj.uid + 1 /\ obj'.ref = NoVM
    BY <1>2, <2>1, <2>3
  <2> QED BY <2>2, <2>3 DEF Moved, RefMoves, Reading
<1> QED BY <1>1, <1>2, SnapKept DEF Moved

\* References are to clones: a pass takes them from the machine, by marker, or by the
\* name nobody else has.
LEMMA RecordedStep ==
    ASSUME Inv, TypeOK', Moved PROVE Recorded'
<1> DEFINE Still(m) ==
        \/ m = NoVM
        \/ /\ vms'[m].at # "unused"
           /\ vms'[m].uid # Foreign \/ ("mistaken" \in loss' /\ vms'[m].at # "folder")
<1>0. VmMoves /\ loss \subseteq loss'
  BY DEF Moved, ApiMoves
<1>1. ASSUME NEW m \in Morefs \cup {NoVM}, Ours(m) PROVE Still(m)
  BY <1>0, <1>1, Lasting, StillMistaken DEF Ours, Mistaken
<1>2. /\ obj.ref \in Morefs \cup {NoVM} /\ pass.ref \in Morefs \cup {NoVM}
      /\ pass.snap.ref \in Morefs \cup {NoVM} /\ pass.snap.uid \in Uids /\ pass.snap.uid # Foreign
  BY DEF Inv, TypeOK, Objects, Uids, Foreign
<1>3. /\ Ours(NoVM) /\ Ours(obj.ref) /\ Ours(pass.ref)
      /\ pc \in Reading => pass.ref = NoVM
      /\ pc \notin Reading => Ours(pass.snap.ref)
  BY DEF Ours, Inv, Recorded
<1>4. Still(obj'.ref)
  <2>1. \/ obj'.ref \in {obj.ref, NoVM}
        \/ pc \notin Reading /\ obj'.ref \in {pass.ref, pass.snap.ref}
    BY DEF Moved, RefMoves, Reading
  <2> HIDE DEF Still
  <2> QED BY <1>1, <1>2, <1>3, <2>1
<1>5. ASSUME pc' \notin Reading PROVE Still(pass'.snap.ref)
  <2>1. CASE Reads
    <3>1. pass'.snap.ref = obj'.ref
      BY <2>1 DEF Reads
    <3> HIDE DEF Still
    <3> QED BY <1>4, <3>1
  <2>2. CASE pc \notin Reading /\ pass'.snap = pass.snap
    <3> HIDE DEF Still
    <3> QED BY <1>1, <1>2, <1>3, <2>2
  <2> QED BY <1>5, <2>1, <2>2, SnapKept DEF Moved
<1>6. ASSUME pc' \notin Reading PROVE Still(pass'.ref)
  <2>1. \/ pass'.ref \in {pass.ref, NoVM} \/ (pass'.ref = pass.snap.ref /\ pc \notin Reading)
        \/ /\ pc = "lookup" /\ pass'.ref \in find_vm_moref_by_name /\ UNCHANGED backend
           /\ IsOwn(pass'.ref) \/ "mistaken" \in loss'
        \/ pc = "adopt" /\ pass'.ref \in OwnClones
    BY <1>6 DEF Moved, Moves, Starts, Reads, LiveMoves, RemovingMoves, Goes, GoesWith, Lists,
       Takes, Reading
  <2>2. CASE /\ pc = "lookup" /\ pass'.ref \in find_vm_moref_by_name /\ UNCHANGED backend
             /\ IsOwn(pass'.ref) \/ "mistaken" \in loss'
    <3>1. PICK n \in Morefs : n = pass'.ref /\ There(n) /\ n \in find_vm_moref_by_name
      BY <2>2 DEF find_vm_moref_by_name
    <3>2. vms'[n] = vms[n] /\ OwnVMs(pass.snap.uid) # {}
      BY <2>2 DEF vms, Inv, Own
    <3>3. CASE IsOwn(n)
      BY <1>2, <3>1, <3>2, <3>3 DEF IsOwn, There
    <3>4. CASE ~IsOwn(n)
      <4>1. vms[n].uid = Foreign /\ vms[n].at = "below"
        BY <1>2, <3>1, <3>2, <3>4, TakenFor DEF Inv, IsOwn
      <4>2. "mistaken" \in loss'
        BY <2>2, <3>1, <3>4
      <4> QED BY <3>1, <3>2, <4>1, <4>2
    <3> QED BY <3>3, <3>4
  <2>3. CASE pc = "adopt" /\ pass'.ref \in OwnClones
    <3>1. PICK m \in Morefs : m = pass'.ref /\ Ours(m)
      BY <1>2, <2>3 DEF OwnClones, IsOwn, find_vms_named, Ours
    <3> HIDE DEF Still
    <3> QED BY <1>1, <3>1
  <2>4. CASE pass'.ref \in {pass.ref, NoVM} \/ (pass'.ref = pass.snap.ref /\ pc \notin Reading)
    <3> HIDE DEF Still
    <3> QED BY <1>1, <1>2, <1>3, <2>4
  <2> QED BY <2>1, <2>2, <2>3, <2>4
<1>7. pc' \in Reading => pass'.ref = NoVM
  <2>1. NoPass.ref = NoVM
    BY DEF NoPass
  <2> QED
    BY <1>3, <2>1 DEF Moved, Moves, Starts, Reads, LiveMoves, RemovingMoves, Goes, GoesWith, Lists,
       Takes, route, Reading
<1> QED BY <1>4, <1>5, <1>6, <1>7 DEF Recorded, Ours, Mistaken

\* Nothing is recorded of a machine whose VM is being made, or that never got one.
LEMMA Unrecorded ==
    ASSUME Routes, Followed, pc \in Making \cup {"finSearch", "finClean"}
    PROVE  obj.ref = NoVM /\ NoVM \notin Morefs
BY DEF Routes, Followed, Making, Reading, NoVM, Morefs

\* A clone that was made stays until it is recorded, or the pass destroys it.
LEMMA LookupStep ==
    ASSUME Inv, Moved, pc' = "lookup" PROVE OwnVMs(pass.snap.uid)' # {}
<1>1. CASE pc = "lookup" /\ UNCHANGED pass
  <2>1. PICK m \in Morefs : There(m) /\ vms[m].uid = pass.snap.uid
    BY <1>1 DEF Inv, Own, OwnVMs
  <2>2. pass.snap.uid # Foreign /\ obj.ref = NoVM /\ NoVM \notin Morefs
    BY <1>1, Unrecorded DEF Inv, TypeOK, Objects, Uids, Foreign, Making
  <2>3. vms'[m] = vms[m]
    <3>1. \A n \in Morefs : Freed(n) /\ Doomed(n) => n # m
      BY <1>1, <2>1, <2>2 DEF Doomed, ByOthers
    <3>2. \A n, k \in Morefs : Renamed(n, k) /\ ByOthers(n) => n # m /\ k # m
      BY <2>1, <2>2 DEF ByOthers, Renamed, There
    <3>3. \A n \in Morefs : Added(n) => n # m
      BY <2>1 DEF Added, There
    <3> QED BY <3>1, <3>2, <3>3 DEF Moved, VmMoves, Same, Freed, Renamed, Added
  <2>4. m \in OwnVMs(pass.snap.uid)'
    BY <1>1, <2>1, <2>3 DEF OwnVMs, There
  <2> QED BY <2>4
<1>2. CASE ~(pc = "lookup" /\ UNCHANGED pass)
  BY <1>2 DEF Moved, Moves, Starts, Reads, LiveMoves, RemovingMoves, Goes, GoesWith, Lists, Takes, route
<1> QED BY <1>1, <1>2

\* Status is written only with a clone that carries the machine's marker, unless it is
\* written to a namesake.
LEMMA OwnStep ==
    ASSUME Inv, TypeOK', Moved PROVE Own'
<1>0. VmMoves /\ loss \subseteq loss'
  BY DEF Moved, ApiMoves
<1>1. ASSUME NEW m \in Morefs \cup {NoVM}, Ours(m), m # NoVM
      PROVE  vms'[m].uid = vms[m].uid /\ (Mistaken(m) => Mistaken(m)')
  BY <1>0, <1>1, Lasting, StillMistaken DEF Ours, Mistaken
<1>2. /\ obj.ref \in Morefs \cup {NoVM} /\ pass.ref \in Morefs \cup {NoVM}
      /\ pass.snap.ref \in Morefs \cup {NoVM}
      /\ Ours(obj.ref) /\ (pc \notin Reading => Ours(pass.snap.ref) /\ Ours(pass.ref))
  BY DEF Inv, TypeOK, Objects, Recorded
<1>3. ASSUME "namesake" \notin loss' PROVE OwnRef(obj)'
  <2>1. "namesake" \notin loss /\ (loss' = loss \cup Namesake => obj.uid = pass.snap.uid)
    BY <1>3 DEF Moved, ApiMoves, Namesake
  <2> SUFFICES ASSUME obj'.ref # NoVM PROVE vms'[obj'.ref].uid = obj'.uid \/ Mistaken(obj.ref)'
    BY DEF OwnRef
  <2>2. CASE obj'.ref = obj.ref /\ obj'.uid = obj.uid
    BY <1>1, <1>2, <2>1, <2>2 DEF Inv, Own, OwnRef
  <2>3. CASE /\ pc \in {"record", "adopting"} /\ obj'.ref = pass.ref
             /\ loss' = loss \cup Namesake /\ obj'.uid = obj.uid
    BY <1>1, <1>2, <2>1, <2>3 DEF Inv, Own, Reading
  <2>4. CASE /\ pc \in {"failed", "observed"} /\ obj'.ref = pass.snap.ref
             /\ loss' = loss \cup Namesake /\ obj'.uid = obj.uid
    BY <1>1, <1>2, <2>1, <2>4 DEF Inv, Own, OwnRef, Reading
  <2> QED BY <2>2, <2>3, <2>4 DEF Moved, RefMoves
<1>4. ASSUME "namesake" \notin loss', pc' \notin Reading PROVE OwnRef(pass.snap)'
  <2>1. CASE Reads
    BY <1>3, <1>4, <2>1 DEF Reads, OwnRef
  <2>2. CASE pc \notin Reading /\ pass'.snap = pass.snap
    <3>1. OwnRef(pass.snap)
      BY <1>4, <2>2 DEF Inv, Own, Moved, ApiMoves
    <3> QED BY <1>1, <1>2, <2>2, <3>1 DEF OwnRef
  <2> QED BY <1>4, <2>1, <2>2, SnapKept DEF Moved
<1>5. ASSUME pc' \in {"finish", "rollback", "record", "adopting"}
      PROVE  pass'.ref # NoVM /\ (vms'[pass'.ref].uid = pass'.snap.uid \/ Mistaken(pass.ref)')
  <2>1. \/ pc \in {"finish", "rollback", "record", "adopting"} /\ UNCHANGED pass
        \/ /\ pc = "lookup" /\ pass'.ref \in find_vm_moref_by_name /\ pass'.snap = pass.snap
           /\ UNCHANGED backend /\ (IsOwn(pass'.ref) \/ "mistaken" \in loss')
        \/ pc = "adopt" /\ pass'.ref \in OwnClones /\ pass'.snap = pass.snap /\ UNCHANGED backend
    BY <1>5 DEF Moved, Moves, Starts, Reads, LiveMoves, RemovingMoves, Goes, GoesWith, Lists, Takes,
       route, Inv, Paired, Reading
  <2>2. NoVM \notin Morefs
    BY DEF NoVM, Morefs
  <2>3. CASE pc \in {"finish", "rollback", "record", "adopting"} /\ UNCHANGED pass
    BY <1>1, <1>2, <2>3 DEF Inv, Own, Reading
  <2>4. CASE /\ pc = "lookup" /\ pass'.ref \in find_vm_moref_by_name /\ pass'.snap = pass.snap
             /\ UNCHANGED backend /\ (IsOwn(pass'.ref) \/ "mistaken" \in loss')
    <3>1. /\ pass'.ref \in Morefs /\ OwnVMs(pass.snap.uid) # {} /\ pass.snap.uid \in Uids
          /\ UNCHANGED vms
      BY <2>4 DEF find_vm_moref_by_name, vms, Inv, Own, TypeOK, Objects
    <3>2. CASE ~IsOwn(pass'.ref)
      <4>1. vms[pass'.ref].uid = Foreign /\ vms[pass'.ref].at = "below"
        BY <2>4, <3>1, <3>2, TakenFor DEF Inv, IsOwn
      <4> QED BY <2>2, <2>4, <3>1, <3>2, <4>1 DEF Mistaken
    <3> QED BY <2>2, <2>4, <3>1, <3>2 DEF IsOwn
  <2>5. CASE pc = "adopt" /\ pass'.ref \in OwnClones /\ pass'.snap = pass.snap /\ UNCHANGED backend
    BY <2>2, <2>5 DEF OwnClones, find_vms_named, IsOwn, vms
  <2> QED BY <2>1, <2>3, <2>4, <2>5
<1> QED BY <1>3, <1>4, <1>5, LookupStep DEF Own
-----------------------------------------------------------------------------
\* Under the finalizer.

\* A clone is given up on by a pass past the finalizer.
LEMMA LateStep ==
    ASSUME Inv, TypeOK', Moved PROVE Late'
<1>1. faults \in Nat /\ faults' \in Nat /\ faults <= faults' /\ (Fail => faults' > 0)
  BY DEF Moved, Copies, FaultMoves, Fail
<1>2. late' # {} => faults' > 0
  BY <1>1 DEF Moved, LateMoves, Inv, Late
<1> SUFFICES ASSUME ~Excused', NEW u \in late'
             PROVE  u <= obj'.uid /\ (obj'.uid = u /\ obj'.life # "absent" => obj'.fin)
  BY <1>2 DEF Late
<1>3. ~Excused /\ (loss' = loss \cup Namesake => obj.uid = pass.snap.uid)
  BY Unexcused DEF Moved
<1>4. u \in Nat /\ obj.uid \in Nat /\ obj.life \in Lives /\ pass.snap.uid \in Nat
  BY DEF Moved, Copies, Uids, TypeOK, late
<1>5. CASE u \in late
  <2>1. u <= obj.uid /\ (obj.uid = u /\ obj.life # "absent" => obj.fin)
    BY <1>3, <1>5 DEF Inv, Late
  <2>2. pc = "finRemove" /\ obj.uid = pass.snap.uid => obj.life # "live"
    BY DEF Inv, Routes, Ages, Older, Removing, Reading
  <2> QED BY <1>3, <1>4, <2>1, <2>2 DEF Moved, ApiMoves, Lives
<1>6. CASE u \notin late
  <2>1. pc = "clone" /\ UNCHANGED obj /\ u = pass.snap.uid
    BY <1>6 DEF Moved, LateMoves
  <2>2. Owned(u) \/ Noticed(u)
    BY <1>3, <2>1 DEF Inv, Guarded, Reading, Working, Making
  <2>3. u <= obj.uid
    BY <2>1 DEF Inv, Ages, Older, Reading
  <2> QED BY <2>1, <2>2, <2>3 DEF Owned, Noticed
<1> QED BY <1>5, <1>6

\* A pass that puts the finalizer on has read the machine.
LEMMA KnownStep ==
    ASSUME Known, Moved PROVE Known'
<1> SUFFICES ASSUME ~Excused', obj'.fin, pc' \notin Reading PROVE pass'.snap.uid = obj'.uid
  BY DEF Known
<1>1. ~Excused /\ (loss' = loss \cup Namesake => obj.uid = pass.snap.uid)
  BY Unexcused DEF Moved
<1>2. CASE Reads
  BY <1>2 DEF Reads
<1>3. CASE pc \notin Reading /\ pass'.snap = pass.snap
  BY <1>1, <1>3 DEF Known, Moved, ApiMoves
<1> QED BY <1>2, <1>3, SnapKept DEF Moved

\* A pass past the finalizer keeps its machine, or will find it gone.
LEMMA GuardedStep ==
    ASSUME Inv, Moved PROVE Guarded'
<1> SUFFICES ASSUME ~Excused', pc' \notin Reading
             PROVE  /\ Witness(pass.snap)'
                    /\ pc' \in Working => (Owned(pass.snap.uid) \/ Noticed(pass.snap.uid))'
  BY DEF Guarded
<1>1. ~Excused /\ (loss' = loss \cup Namesake => obj.uid = pass.snap.uid)
  BY Unexcused DEF Moved
<1>2. CASE Reads
  BY <1>2 DEF Reads, Witness, Owned, Working, Making, Observing
<1>3. CASE pc \notin Reading /\ pass'.snap = pass.snap
  <2>1. pass.snap.uid \in Uids /\ pass.snap.uid <= obj.uid
    BY <1>3 DEF Moved, Copies, Inv, Ages, Older
  <2>2. ASSUME Owned(pass.snap.uid) \/ Noticed(pass.snap.uid)
        PROVE  (Owned(pass.snap.uid) \/ Noticed(pass.snap.uid))'
    BY <1>3, <2>1, <2>2, KeptStep DEF Moved, Owned, Noticed, Reading
  <2>3. Witness(pass.snap)'
    BY <1>1, <1>3, <2>2 DEF Inv, Guarded, Witness
  <2>4. ASSUME pc' \in Working PROVE (Owned(pass.snap.uid) \/ Noticed(pass.snap.uid))'
    <3>1. CASE Owned(pass.snap.uid) \/ Noticed(pass.snap.uid)
      BY <2>2, <3>1
    <3>2. CASE ~(Owned(pass.snap.uid) \/ Noticed(pass.snap.uid))
      <4>1. obj'.life # "absent" /\ obj'.uid = obj.uid /\ obj'.fin /\ loss' = loss \cup Namesake
        BY <1>1, <1>3, <2>4, <3>2 DEF Inv, Guarded, Witness, Moved, Enters
      <4> QED BY <1>1, <1>3, <4>1 DEF Owned
    <3> QED BY <3>1, <3>2
  <2> QED BY <2>3, <2>4
<1> QED BY <1>2, <1>3, SnapKept DEF Moved
-----------------------------------------------------------------------------
\* The clones of a machine.

\* While a VM is being made and nothing failed, only the pass's own clone comes.
LEMMA SteadyMaking ==
    ASSUME Inv, Moved, faults = 0, pc \in Making, NEW u \in Uids, u = pass.snap.uid
    PROVE  OwnVMs(u)' \subseteq OwnVMs(u) \/ pc' = "lookup"
<1>1. ~Outlived(u)
  BY DEF Outlived, Inv, Late
<1>2. ~\E m \in OwnVMs(u) : m = obj.ref
  BY Unrecorded DEF Inv, OwnVMs
<1> QED BY <1>1, <1>2, OwnMoves DEF Moved, Gains, Cloned

\* While the VMs of a deleted machine are removed, none comes.
LEMMA SteadyRemoving ==
    ASSUME Inv, Moved, ~Excused', pc \in {"finSearch", "finClean", "finRemove"},
           NEW u \in Uids, u = pass.snap.uid
    PROVE  OwnVMs(u)' \subseteq OwnVMs(u)
<1>1. ~Excused /\ loss' \subseteq {"noticed", "setup"}
  BY Unexcused DEF Moved
<1>2. ~Outlived(u)
  <2>1. obj.life # "live" \/ obj.uid # u
    BY DEF Inv, Routes, Ages, Older, Removing, Reading
  <2> QED BY <1>1, <2>1 DEF Outlived
<1>3. ~\E m \in OwnVMs(u) : m = obj.ref
  BY <1>1, Unrecorded DEF Inv, OwnVMs, Removed
<1> QED BY <1>2, <1>3, OwnMoves DEF Moved, Gains, Cloned

\* What is listed is every VM there is; a pass lists before it clones, and looks the
\* clone up by the name nobody else has.
LEMMA TrackedStep ==
    ASSUME Inv, TypeOK', Moved PROVE Tracked'
<1> SUFFICES ASSUME faults' = 0
             PROVE  /\ pc' = "reclaim" => OwnVMs(pass.snap.uid)' \subseteq pass'.todo
                    /\ pc' = "clone" => OwnVMs(pass.snap.uid)' = {}
                    /\ pc' \in {"finish", "record"} /\ "mistaken" \notin loss'
                          => OwnVMs(pass.snap.uid)' \subseteq {pass'.ref}
  BY DEF Tracked
<1>1. faults = 0
  BY DEF Moved, FaultMoves, Fail, Copies
<1>2. ASSUME pc' \in {"reclaim", "clone", "finish", "record"}
      PROVE  pc \in Making /\ pass'.snap = pass.snap
  BY <1>2 DEF Moved, Moves, Starts, Reads, LiveMoves, RemovingMoves, Goes, GoesWith, Lists, Takes,
     route, Inv, Paired, Reading, Making
<1>3. PICK u \in Uids : u = pass.snap.uid
  BY DEF Moved, Copies
<1>4. ASSUME pc' \in {"reclaim", "clone", "finish", "record"}
      PROVE  OwnVMs(u)' \subseteq OwnVMs(u) /\ OwnVMs(pass.snap.uid)' = OwnVMs(u)'
             /\ OwnVMs(pass.snap.uid) = OwnVMs(u)
  <2>1. OwnVMs(u)' \subseteq OwnVMs(u)
    BY <1>1, <1>2, <1>3, <1>4, SteadyMaking
  <2> QED BY <1>2, <1>3, <1>4, <2>1 DEF OwnVMs
<1>5. ASSUME pc' = "reclaim" PROVE OwnVMs(u)' \subseteq pass'.todo
  <2>1. \/ Lists("search", "reclaim") \/ Takes("reclaim") \/ (pc = "reclaim" /\ UNCHANGED pass)
    BY <1>5 DEF Moved, Moves, Starts, Reads, LiveMoves, RemovingMoves, Goes, GoesWith, Lists, Takes,
       route
  <2>2. CASE Lists("search", "reclaim")
    <3>1. OwnVMs(u) \subseteq find_vms_named
      BY DEF OwnVMs, There, find_vms_named, Inv, OneVm, Uids, Foreign
    <3> QED BY <1>4, <1>5, <2>2, <3>1 DEF Lists
  <2>3. CASE Takes("reclaim")
    <3>1. PICK m \in pass.todo : pass'.todo = pass.todo \ {m} /\ (IsOwn(m) => ~There(m)')
      BY <2>3 DEF Takes
    <3>2. OwnVMs(u) \subseteq pass.todo
      BY <1>1, <1>3, <2>3 DEF Inv, Tracked, Takes
    <3>3. m \notin OwnVMs(u)'
      <4>1. m \in OwnVMs(u) => IsOwn(m)
        BY <1>3 DEF OwnVMs, IsOwn
      <4> QED BY <1>4, <1>5, <3>1, <4>1 DEF OwnVMs
    <3> QED BY <1>4, <1>5, <3>1, <3>2, <3>3
  <2>4. CASE pc = "reclaim" /\ UNCHANGED pass
    BY <1>1, <1>3, <1>4, <1>5, <2>4 DEF Inv, Tracked
  <2> QED BY <2>1, <2>2, <2>3, <2>4
<1>6. ASSUME pc' = "clone" PROVE OwnVMs(u)' = {}
  <2>1. pc = "clone" \/ (pc = "reclaim" /\ pass.todo = {})
    BY <1>6 DEF Moved, Moves, Starts, Reads, LiveMoves, RemovingMoves, Goes, GoesWith, Lists, Takes,
       route
  <2> QED BY <1>1, <1>3, <1>4, <1>6, <2>1 DEF Inv, Tracked
<1>7. ASSUME pc' \in {"finish", "record"}, "mistaken" \notin loss'
      PROVE  OwnVMs(u)' \subseteq {pass'.ref}
  <2>1. \/ pc = "lookup" /\ pass'.ref \in find_vm_moref_by_name /\ IsOwn(pass'.ref)
        \/ pc \in {"finish", "record"} /\ UNCHANGED pass
    BY <1>7 DEF Moved, Moves, Starts, Reads, LiveMoves, RemovingMoves, Goes, GoesWith, Lists, Takes,
       route, Inv, Paired, Reading
  <2>2. CASE pc = "lookup" /\ pass'.ref \in find_vm_moref_by_name /\ IsOwn(pass'.ref)
    <3>1. OwnVMs(u) \subseteq {pass'.ref}
      BY <1>3, <2>2 DEF OwnVMs, find_vm_moref_by_name, IsOwn, There, Inv, OneVm, Uids, Foreign
    <3> QED BY <1>4, <1>7, <3>1
  <2>3. CASE pc \in {"finish", "record"} /\ UNCHANGED pass
    <3>1. "mistaken" \notin loss
      BY <1>7 DEF Moved, ApiMoves
    <3> QED BY <1>1, <1>3, <1>4, <1>7, <2>3, <3>1 DEF Inv, Tracked
  <2> QED BY <2>1, <2>2, <2>3
<1> QED BY <1>4, <1>5, <1>6, <1>7

\* The finalizer goes only after every clone.
LEMMA RemovedStep ==
    ASSUME Inv, TypeOK', Moved PROVE Removed'
<1> SUFFICES ASSUME ~Excused'
             PROVE  /\ pc' = "finClean" => OwnVMs(pass.snap.uid)' \subseteq pass'.todo
                    /\ pc' = "finRemove" => OwnVMs(pass.snap.uid)' = {}
  BY DEF Removed
<1>1. ~Excused /\ loss' \subseteq {"noticed", "setup"}
  BY Unexcused DEF Moved
<1>2. PICK u \in Uids : u = pass.snap.uid
  BY DEF Moved, Copies
<1>3. ASSUME pc' \in {"finClean", "finRemove"}
      PROVE  pass'.snap = pass.snap /\ OwnVMs(pass.snap.uid)' = OwnVMs(u)'
             /\ OwnVMs(pass.snap.uid) = OwnVMs(u)
  <2>1. pass'.snap = pass.snap
    BY <1>3 DEF Moved, Moves, Starts, Reads, LiveMoves, RemovingMoves, Goes, GoesWith, Lists, Takes,
       route
  <2> QED BY <1>2, <2>1 DEF OwnVMs
<1>4. ASSUME pc' = "finClean" PROVE OwnVMs(u)' \subseteq pass'.todo
  <2>1. \/ Lists("finSearch", "finClean") \/ Takes("finClean") \/ (pc = "finClean" /\ UNCHANGED pass)
    BY <1>4 DEF Moved, Moves, Starts, Reads, LiveMoves, RemovingMoves, Goes, GoesWith, Lists, Takes,
       route
  <2>2. OwnVMs(u)' \subseteq OwnVMs(u)
    BY <1>2, <2>1, SteadyRemoving DEF Lists, Takes
  <2>3. CASE Lists("finSearch", "finClean")
    <3>1. OwnVMs(u) \subseteq find_vms_named
      BY DEF OwnVMs, There, find_vms_named, Inv, OneVm, Uids, Foreign
    <3> QED BY <2>2, <2>3, <3>1 DEF Lists
  <2>4. CASE Takes("finClean")
    <3>1. PICK m \in pass.todo : pass'.todo = pass.todo \ {m} /\ (IsOwn(m) => ~There(m)')
      BY <2>4 DEF Takes
    <3>2. OwnVMs(u) \subseteq pass.todo
      BY <1>1, <1>2, <2>4 DEF Inv, Removed, Takes
    <3>3. m \notin OwnVMs(u)'
      <4>1. m \in OwnVMs(u) => IsOwn(m)
        BY <1>2 DEF OwnVMs, IsOwn
      <4> QED BY <2>2, <3>1, <4>1 DEF OwnVMs
    <3> QED BY <2>2, <3>1, <3>2, <3>3
  <2>5. CASE pc = "finClean" /\ UNCHANGED pass
    BY <1>1, <1>2, <2>2, <2>5 DEF Inv, Removed
  <2> QED BY <2>1, <2>3, <2>4, <2>5
<1>5. ASSUME pc' = "finRemove" PROVE OwnVMs(u)' = {}
  <2>1. \/ pc = "finRemove"
        \/ pc = "finClean" /\ pass.todo = {}
        \/ /\ pc = "finVm" /\ UNCHANGED pass /\ There(pass.ref)
           /\ pass.ref \in Morefs => ~There(pass.ref)'
    BY <1>1, <1>5 DEF Moved, Moves, Starts, Reads, LiveMoves, RemovingMoves, Goes, GoesWith, Lists,
       Takes, route
  <2>2. CASE pc = "finRemove" \/ (pc = "finClean" /\ pass.todo = {})
    <3>1. OwnVMs(u)' \subseteq OwnVMs(u)
      BY <1>2, <2>2, SteadyRemoving
    <3> QED BY <1>1, <1>2, <2>2, <3>1 DEF Inv, Removed
  <2>3. CASE pc = "finVm" /\ UNCHANGED pass /\ There(pass.ref)
             /\ (pass.ref \in Morefs => ~There(pass.ref)')
    <3>1. PICK m \in Morefs : m = pass.ref
      BY <2>3 DEF Inv, TypeOK, Routes
    <3>2. There(m) /\ ~There(m)' /\ \A n \in OwnVMs(u) : n = m
      <4>1. pass.ref = pass.snap.ref /\ pass.ref # NoVM /\ pc \notin Reading
        BY <2>3 DEF Inv, Routes, Reading
      <4>2. vms[m].uid = u
        BY <1>1, <1>2, <3>1, <4>1 DEF Inv, Own, OwnRef, Mistaken, Excused
      <4> QED BY <2>3, <3>1, <4>2 DEF There, OwnVMs, Inv, OneVm, Uids, Foreign
    <3>3. Freed(m)
      <4>1. ~Same /\ ~\E n \in Morefs : Added(n)
        BY <3>2 DEF Same, Added, There
      <4>2. ~\E n, k \in Morefs : Renamed(n, k) /\ ByOthers(n)
        BY <1>5, <2>3 DEF ByOthers
      <4>3. PICK n \in Morefs : Freed(n)
        BY <4>1, <4>2 DEF Moved, VmMoves
      <4> QED BY <3>2, <4>3 DEF Freed, There
    <3> QED BY <3>2, <3>3 DEF Freed, OwnVMs, There
  <2> QED BY <2>1, <2>2, <2>3
<1> QED BY <1>3, <1>4, <1>5

\* A pass that will find the machine gone takes its clone along until it destroys it.
LEMMA NoticedStep ==
    ASSUME Inv, [Next]_vars, Moved, ~Excused', NEW u \in Uids, OwnVMs(u)' \subseteq OwnVMs(u),
           OwnVMs(u)' # {}, ~Owned(u), CaredFor(u)
    PROVE  CaredFor(u)'
<1>1. /\ Noticed(u) /\ pass.snap.uid = u
      /\ \/ pc \in {"lookup", "finish", "record"}
         \/ pc = "compensate" /\ OwnVMs(u) \subseteq {pass.ref}
  BY DEF CaredFor
<1>2. /\ loss \subseteq loss' /\ "noticed" \in loss' /\ faults = 0 /\ ~Fail
      /\ loss' = loss \cup Namesake => obj.uid = pass.snap.uid
  BY <1>1, Unexcused DEF Moved, Noticed
<1>3. u <= obj.uid /\ pc \notin Reading
  BY <1>1 DEF Inv, Ages, Older, Reading
<1>4. (Owned(u) \/ Noticed(u))'
  BY <1>1, <1>3, KeptStep DEF Moved
<1>5. pc' # "idle"
  <2> SUFFICES ASSUME pc' = "idle" PROVE FALSE
    OBVIOUS
  <2>1. CASE pc = "record" /\ obj.life # "absent" /\ loss' = loss \cup Namesake
    BY <1>1, <1>2, <2>1 DEF Noticed
  <2>2. CASE pc = "compensate" /\ \A m \in Morefs : m = pass.ref => ~There(m)'
    <3>1. PICK m \in OwnVMs(u)' : TRUE
      OBVIOUS
    <3>2. m \in Morefs /\ There(m)'
      BY <3>1 DEF OwnVMs
    <3>3. m = pass.ref
      BY <1>1, <2>2, <3>1
    <3> QED BY <2>2, <3>2, <3>3
  <2> QED BY <1>1, <1>2, <2>1, <2>2, Endings DEF Inv
<1>6. \/ UNCHANGED <<pc, pass>>
      \/ pc = "lookup" /\ pc' = "finish" /\ pass'.snap = pass.snap
      \/ pc = "lookup" /\ find_vm_moref_by_name = {}
      \/ pc = "finish" /\ pc' = "record" /\ UNCHANGED pass
      \/ pc = "finish" /\ ~There(pass.ref)
      \/ pc = "record" /\ pc' = "compensate" /\ UNCHANGED pass
  BY <1>1, <1>2, <1>5 DEF Moved, Moves, Starts, Reads, LiveMoves, RemovingMoves, Goes, GoesWith, Lists,
     Takes, route
<1>7. pc \in {"finish", "record"} => OwnVMs(u) \subseteq {pass.ref}
  <2>1. "mistaken" \notin loss
    BY <1>2 DEF Excused
  <2> QED BY <1>1, <1>2, <2>1 DEF Inv, Tracked
<1>8. CASE pc = "lookup" /\ find_vm_moref_by_name = {}
  BY <1>8 DEF OwnVMs, find_vm_moref_by_name
<1>9. CASE pc = "finish" /\ ~There(pass.ref)
  BY <1>7, <1>9 DEF OwnVMs
<1>10. CASE UNCHANGED <<pc, pass>>
  BY <1>1, <1>4, <1>10 DEF CaredFor
<1>11. CASE \/ pc = "lookup" /\ pc' = "finish" /\ pass'.snap = pass.snap
            \/ pc = "finish" /\ pc' = "record" /\ UNCHANGED pass
  BY <1>1, <1>4, <1>11 DEF CaredFor
<1>12. CASE pc = "record" /\ pc' = "compensate" /\ UNCHANGED pass
  BY <1>1, <1>4, <1>7, <1>12 DEF CaredFor
<1> QED BY <1>6, <1>8, <1>9, <1>10, <1>11, <1>12

\* A clone stays somebody's: the machine's under the finalizer, or the pass's that will
\* find the machine gone.
LEMMA CaredStep ==
    ASSUME Inv, [Next]_vars, TypeOK', Moved PROVE Cared'
<1> SUFFICES ASSUME ~Excused', NEW u \in Uids, OwnVMs(u)' # {} PROVE CaredFor(u)'
  BY DEF Cared
<1>1. /\ ~Excused /\ loss' \subseteq {"noticed", "setup"}
      /\ "noticed" \in loss' => faults = 0
  BY Unexcused DEF Moved
<1>2. CASE Cloned(u)
  <2>1. Owned(u) \/ Noticed(u)
    BY <1>1, <1>2 DEF Cloned, Inv, Guarded, Reading, Working, Making
  <2> QED BY <1>2, <2>1 DEF Cloned, CaredFor, Owned, Noticed
<1>3. CASE Outlived(u)
  <2>1. obj.life = "live" /\ obj.uid = u /\ u \in late /\ UNCHANGED obj
    BY <1>1, <1>3 DEF Outlived
  <2> QED BY <1>1, <2>1 DEF Inv, Late, CaredFor, Owned
<1>4. ASSUME NEW m \in OwnVMs(u), m = obj.ref, ByOthers(m) PROVE CaredFor(u)'
  <2>1. CaredFor(u) /\ UNCHANGED <<obj, pc, pass, loss>>
    BY <1>1, <1>4 DEF Inv, Cared, ByOthers
  <2>2. pc \notin {"lookup", "finish", "record", "compensate"}
    BY <1>4, Unrecorded DEF Inv, OwnVMs, Making
  <2> QED BY <2>1, <2>2 DEF CaredFor, Owned
<1>5. CASE OwnVMs(u)' \subseteq OwnVMs(u)
  <2>1. CaredFor(u) /\ OwnVMs(u) # {}
    BY <1>1, <1>5 DEF Inv, Cared
  <2>2. CASE Owned(u)
    <3>1. obj.fin /\ obj.uid = u /\ u <= obj.uid
      BY <2>2 DEF Owned, Uids
    <3>2. ~(pc = "finRemove" /\ u = pass.snap.uid)
      BY <1>1, <2>1 DEF Inv, Removed
    <3>3. (Owned(u) \/ Noticed(u))'
      BY <2>2, <3>1, <3>2, KeptStep DEF Moved
    <3>4. ASSUME ~Owned(u)' PROVE UNCHANGED <<pc, pass>> /\ pc \in Noticing /\ "noticed" \in loss'
      BY <1>1, <2>2, <3>2, <3>4, Unexcused DEF Moved, ApiMoves, Owned
    <3>5. pc \in Noticing => pass.snap.uid = u
      BY <1>1, <3>1 DEF Inv, Known, Noticing, Reading
    <3>6. ~Owned(u)' => pc # "clone"
      BY <1>1, <2>1, <3>4, <3>5 DEF Inv, Tracked
    <3> QED BY <3>3, <3>4, <3>5, <3>6 DEF CaredFor, Noticing
  <2>3. CASE ~Owned(u)
    BY <1>5, <2>1, <2>3, NoticedStep
  <2> QED BY <2>2, <2>3
<1> QED BY <1>2, <1>3, <1>4, <1>5, OwnMoves DEF Moved, Gains

\* The invariant holds at first,
LEMMA Initially ==
    ASSUME Init PROVE Inv
<1>1. /\ obj \in Objects /\ NoPass \in PassRecords /\ NoObject \in Objects
      /\ obj.life = "live" /\ ~obj.fin /\ obj.ref = NoVM /\ ~obj.prov
  <2>1. 1 \in Uids /\ NoObject \in Objects
    BY BoundsAssumption DEF Uids, NoObject, Objects, Lives
  <2> QED BY <2>1, ObjectTypes, PassTypes DEF Init, NoPass, PassRecords, Created, NoObject
<1>2. /\ vms = [m \in Morefs |-> [at |-> "unused", uid |-> Foreign]] /\ late = {}
      /\ backend \in Backends
  BY DEF Init, vms, late, Backends, VmRecords, Foreign
<1>3. TypeOK
  BY <1>1, <1>2, BoundsAssumption DEF Init, TypeOK, PassRecords, Backends, Stages
<1>4. \A m \in Morefs : vms[m].at = "unused"
  BY <1>2
<1>5. \A u : OwnVMs(u) = {}
  BY <1>4 DEF OwnVMs, There
<1>6. pc = "idle" /\ pass = NoPass /\ ~NoPass.made /\ NoPass.ref = NoVM
  BY DEF Init, NoPass
<1>7. OneVm /\ Recorded /\ Paired /\ Followed /\ Own
  BY <1>1, <1>4, <1>6 DEF OneVm, There, Recorded, Ours, Paired, Followed, Own, OwnRef, Reading
<1>8. Routes /\ Ages /\ Late /\ Known /\ Guarded /\ Tracked /\ Removed /\ Cared
  BY <1>1, <1>2, <1>5, <1>6 DEF Routes, Removing, Working, Making, Observing, Reading, Ages, Late,
     Known, Guarded, Tracked, Removed, Cared
<1> QED BY <1>3, <1>7, <1>8 DEF Inv

\* and every step keeps it.
LEMMA Preserved ==
    ASSUME Inv, [Next]_vars PROVE Inv'
<1>1. TypeOK' /\ Moved
  BY EveryStep
<1>2. OneVm' /\ Ages' /\ Routes' /\ Paired' /\ Followed' /\ Known'
  BY <1>1, OneVmStep, AgesStep, RoutesStep, PairedStep, FollowedStep, KnownStep DEF Inv, Moved
<1>3. Recorded' /\ Own' /\ Late' /\ Guarded' /\ Tracked' /\ Removed' /\ Cared'
  BY <1>1, RecordedStep, OwnStep, LateStep, GuardedStep, TrackedStep, RemovedStep, CaredStep
<1> QED BY <1>1, <1>2, <1>3 DEF Inv

LEMMA Inductive == Spec => []Inv
<1>1. Init => Inv
  BY Initially
<1>2. Inv /\ [Next]_vars => Inv'
  BY Preserved
<1> QED BY <1>1, <1>2, PTL DEF Spec
-----------------------------------------------------------------------------
\* The refinement.

\* What is held for u is its clones, unless they are left to the administrator.
LEMMA Holds ==
    ASSUME NEW u \in Uids
    PROVE  /\ Holdings[u] = {} <=> (Excused \/ OwnVMs(u) = {})
           /\ Holdings'[u] = {} <=> (Excused' \/ OwnVMs(u)' = {})
           /\ Holdings'[u] \subseteq Resources
<1>1. ASSUME NEW S PROVE {"vm"} \X S = {} <=> S = {}
  <2>1. ASSUME NEW m \in S PROVE <<"vm", m>> \in {"vm"} \X S
    OBVIOUS
  <2> QED BY <2>1
<1>2. OwnVMs(u)' \subseteq Morefs
  BY DEF OwnVMs
<1>3. /\ Holdings[u] = IF Excused THEN {} ELSE {"vm"} \X OwnVMs(u)
      /\ Holdings'[u] = IF Excused' THEN {} ELSE {"vm"} \X OwnVMs(u)'
  BY DEF Holdings
<1>4. Holdings'[u] \subseteq Resources
  BY <1>2, <1>3 DEF Resources
<1> QED BY <1>1, <1>3, <1>4

\* What is held for a machine that is gone is nothing.
LEMMA GoneHoldsNothing ==
    ASSUME Inv, NEW u \in Uids, MachineOf(u) = "absent" PROVE Excused \/ OwnVMs(u) = {}
<1>1. ~Owned(u)
  BY DEF Owned, MachineOf, Inv, TypeOK, Objects, Lives
<1>2. ~(pass.snap.uid = u /\ pc \in {"lookup", "finish", "record", "compensate"})
  BY DEF MachineOf
<1> QED BY <1>1, <1>2 DEF Inv, Cared, CaredFor

\* Every step is one of the lifecycle's for each machine: a clone comes while the
\* machine is there, and the machine goes when none is left.
LEMMA RefinedStep ==
    ASSUME Inv, Inv', [Next]_vars, NEW u \in Uids
    PROVE  LET m == MachineOf(u)  h == Holdings[u]
           IN \/ m = "absent" /\ m' # "absent" /\ h' = h
              \/ m = "live" /\ m' = "deleting" /\ h' = h
              \/ m' = "absent" /\ h' = {}
              \/ m # "absent" /\ m' = m /\ h' \subseteq Resources
<1> DEFINE m == MachineOf(u)  h == Holdings[u]
<1>1. Moved
  BY EveryStep
<1>2. /\ m \in Lives /\ m' \in Lives
      /\ m = "live" /\ m' = "deleting" => UNCHANGED <<loss, faults, backend>>
      /\ ~(m = "deleting" /\ m' = "live")
  <2>1. pc \notin {"idle", "read"} => pass.snap.uid <= obj.uid
    BY DEF Inv, Ages, Older, Reading
  <2> QED BY <1>1, <2>1, LifeStep DEF Moved
<1>3. CASE m' = "absent"
  <2>1. (Excused \/ OwnVMs(u) = {})'
    <3>1. ~Owned(u)'
      BY <1>3 DEF Owned, MachineOf, Inv, TypeOK, Objects, Lives
    <3>2. ~(pass'.snap.uid = u /\ pc' \in {"lookup", "finish", "record", "compensate"})
      BY <1>3 DEF MachineOf
    <3> QED BY <3>1, <3>2 DEF Inv, Cared, CaredFor
  <2> QED BY <1>3, <2>1, Holds
<1>4. CASE m # "absent" /\ m' = m
  BY <1>4, Holds
<1>5. CASE m = "absent" /\ m' # "absent"
  <2>1. Excused \/ OwnVMs(u) = {}
    BY <1>5, GoneHoldsNothing
  <2>2. ASSUME ~Excused' PROVE OwnVMs(u)' = {}
    <3>1. ~Excused /\ loss' \subseteq {"noticed", "setup"}
      BY <1>1, <2>2, Unexcused DEF Moved
    <3>2. ~Cloned(u)
      BY <1>5 DEF Cloned, MachineOf
    <3>3. ~Outlived(u)
      BY <1>5, <3>1 DEF Outlived, MachineOf
    <3> QED BY <1>1, <2>1, <3>1, <3>2, <3>3, OwnMoves DEF Moved, Gains
  <2> QED BY <1>5, <2>1, <2>2, Holds
<1>6. CASE m = "live" /\ m' = "deleting"
  <2>1. h' = h
    BY <1>2, <1>6 DEF Holdings, Excused, OwnVMs, There, vms
  <2> QED BY <1>6, <2>1
<1> QED BY <1>2, <1>3, <1>4, <1>5, <1>6 DEF Lives

\* At first the machine is there and nothing is held for it.
LEMMA StartsEmpty ==
    ASSUME Init
    PROVE  obj.life = "live" /\ obj.uid = 1 /\ pc = "idle" /\ Holdings = [u \in Uids |-> {}]
<1>1. obj.life = "live" /\ obj.uid = 1 /\ pc = "idle"
  BY DEF Init, Created, NoObject
<1>2. \A m \in Morefs : vms[m].at = "unused"
  BY DEF Init, vms
<1>3. \A u \in Uids : OwnVMs(u) = {}
  BY <1>2 DEF OwnVMs, There
<1>4. \A u \in Uids : Holdings[u] = {}
  BY <1>3, Holds
<1>5. Holdings = [u \in Uids |-> {}]
  BY <1>4 DEF Holdings
<1> QED BY <1>1, <1>5

\* vspheremachine.rs keeps the promise of an infrastructure CR: a VM is cloned for a
\* machine only while it is there, and the machine goes only when none of its clones is
\* left - unless one of the reasons in Excused leaves a clone to the administrator.
\* One of them is that a VM in a folder below was taken for the clone just made, which
\* is looked up by its name.
THEOREM VSphereLifecycle == Spec => Lifecycle!Spec
<1>1. Init => Lifecycle!Init
  BY StartsEmpty DEF Lifecycle!Init, MachineOf
<1>2. Inv /\ Inv' /\ [Next]_vars => [Lifecycle!Next]_(Lifecycle!lifecycle)
  <2> SUFFICES ASSUME Inv, Inv', [Next]_vars PROVE Lifecycle!Next
    OBVIOUS
  <2> SUFFICES ASSUME NEW u \in Uids
               PROVE  \/ Lifecycle!Appear(u) \/ Lifecycle!Delete(u) \/ Lifecycle!Vanish(u)
                      \/ Lifecycle!Use(u) \/ Lifecycle!Release(u)
    BY DEF Lifecycle!Next
  <2> QED
    BY RefinedStep DEF Lifecycle!Appear, Lifecycle!Delete, Lifecycle!Vanish, Lifecycle!Use
<1> QED BY <1>1, <1>2, Inductive, PTL DEF Spec, Lifecycle!Spec
-----------------------------------------------------------------------------
\* The VMs of others, and the recorded ones.

\* What the provider destroys is a clone, or was taken for one, and no live machine
\* records it.
LEMMA SparedStep ==
    ASSUME Inv, [Next]_vars, ProviderStep PROVE ForeignKept /\ RecordedKept
<1>1. VmMoves
  BY VmStep DEF Inv
<1>2. pass.snap.uid \in Uids /\ pass.snap.uid # Foreign
  BY DEF Inv, TypeOK, Objects, Uids, Foreign
<1>3. ASSUME NEW m \in Morefs, There(m), ~There(m)'
      PROVE  /\ vms[m].uid = Foreign => Mistaken(m) /\ m = pass.ref
             /\ ~(obj.life = "live" /\ obj.ref = m)
  <2>1. Freed(m) /\ Doomed(m)
    BY <1>1, <1>3 DEF VmMoves, Same, Freed, Added, Renamed, ByOthers, ProviderStep, There
  <2>2. CASE pc \in {"reclaim", "finClean"} /\ vms[m].uid = pass.snap.uid
    BY <1>2, <2>2, Unrecorded DEF Inv, Making
  <2>3. CASE pc \in {"rollback", "compensate"} /\ m = pass.ref
    <3>1. Ours(m) /\ m # NoVM
      BY <2>3 DEF Inv, Recorded, Reading, NoVM, Morefs
    <3> QED BY <2>3, <3>1, Unrecorded DEF Inv, Making, Ours
  <2>4. CASE pc = "finVm" /\ m = pass.ref
    <3>1. Ours(m) /\ m # NoVM
      BY <2>4 DEF Inv, Recorded, Reading, NoVM, Morefs
    <3>2. pass.snap.life = "deleting"
      BY <2>4 DEF Inv, Routes, Removing
    <3> QED BY <2>4, <3>1, <3>2 DEF Inv, Ours, Followed, Ages, Older, Reading
  <2> QED BY <2>1, <2>2, <2>3, <2>4 DEF Doomed, ByOthers, ProviderStep
<1> QED BY <1>3 DEF ForeignKept, RecordedKept

\* Whatever VMs of its name others have in the machine's folder and below, and however
\* often the machine is created again, the reconciler destroys no VM without a marker
\* (vspheremachine.rs: reclaim_or_refuse, roll_back_clone, compensate, finalize) but one
\* below the folder that the lookup by name (vim.rs: find_vm_moref_by_name) took for the
\* clone; and not the VM that a live machine records.
THEOREM VSphereSpared == Spec => [][ProviderStep => ForeignKept /\ RecordedKept]_vars
<1>1. Inv /\ [Next]_vars => [ProviderStep => ForeignKept /\ RecordedKept]_vars
  BY SparedStep
<1> QED BY <1>1, Inductive, PTL DEF Spec

\* What a machine records is its own clone, whether its status was written after a clone
\* or an adoption (patch_status_success, status_adopting) - unless a patch, which goes by
\* name, reached its namesake, or it is a VM of others, not of the machine's folder, that
\* the lookup by name took for the clone.
THEOREM VSphereRecordedIsOwn == Spec => []RecordedIsOwn
<1>1. Inv => RecordedIsOwn
  BY DEF Inv, Own, OwnRef, RecordedIsOwn
<1> QED BY <1>1, Inductive, PTL
=============================================================================
