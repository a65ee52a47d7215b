--------------------------- MODULE MachineProofs ---------------------------
(***************************************************************************)
(* What MCMachines checks on a small instance, for any number of creations *)
(* of the machine, of VMs, of failed calls and of changes by users and on  *)
(* the hosts: the two providers that work on hosts, LibvirtMachine and     *)
(* CloudHypervisorMachine, here, and from these, VSphereMachineProofs and  *)
(* ProxmoxMachineProofs the theorems on all four.                          *)
(*                                                                         *)
(* For libvirt, as for Proxmox, what is held has a machine under the       *)
(* finalizer, or a pass that will find the machine gone and clean up       *)
(* (DomainCared).  Domain, disks and seed are found by name, whoever they  *)
(* were made for: a domain must be owned exactly while it is there         *)
(* (DomainStanding), and nothing of the name is left when the finalizer    *)
(* goes (DomainRemoved).                                                   *)
(***************************************************************************)
EXTENDS MCMachines, InfraMachineProofs

\* What the module shares with the others.
LEMMA LvNames ==
    /\ L!Uids = Uids /\ L!Lives = Lives /\ L!Namesake = Namesake
    /\ L!Fail <=> Fail
    /\ L!Change <=> Change
    /\ L!Excused <=> Excused
    /\ \A u : L!MachineOf(u) = MachineOf(u)
    /\ \A o : L!FinalizerRemoved(o) = FinalizerRemoved(o)
    /\ \A o, u : L!Created(o, u) = Created(o, u)
BY DEF L!Uids, Uids, L!Lives, Lives, L!Namesake, Namesake, L!Fail, Fail, L!Change, Change,
   L!Excused, Excused, L!MachineOf, MachineOf, L!FinalizerRemoved, FinalizerRemoved, L!Created,
   Created


LvLifecycle == INSTANCE MachineLifecycle WITH
    Machines <- Uids, Resources <- L!Resources,
    machine <- [u \in Uids |-> MachineOf(u)], held <- L!Holdings

\* The stages between the finalizer and the end of a pass for a live machine.
Provisioning == {"disk", "define", "seed", "upload", "attach", "power", "record", "failed"}

Cleaning == {"destroy", "undefine", "volumes"}

\* A domain has an owner; the stages after the definition have a domain.
DomainStanding ==
    /\ L!domain.run = "none" <=> L!domain.uid = L!NoOwner
    /\ pc \in {"seed", "upload", "attach", "power"} => L!domain.run # "none"

\* What the removal leaves, stage by stage.
DomainRemoved ==
    /\ pc \in {"volumes", "finRemove"} => L!domain.run = "none"
    /\ pc = "finRemove" => "pool" \in loss \/ (L!disk = L!NoOwner /\ L!seed.uid = L!NoOwner)

\* A pass removes what it made because the machine is being deleted or is gone.
DomainRoutes ==
    /\ pc \in Cleaning \cup {"finRemove"} => pass.gone \/ pass.snap.life = "deleting"
    /\ pass.gone => pc \in Cleaning
    /\ pc \in Provisioning \cup {"finalizer"} => pass.snap.life = "live"

\* What is held has a machine under the finalizer, or a pass that will clean up.
DomainCared ==
    ~Excused => \A u \in Uids : u \in {L!domain.uid, L!disk, L!seed.uid} =>
        \/ Owned(u)
        \/ /\ Noticed(u) /\ pass.snap.uid = u
           /\ pc \in Provisioning \/ (pass.gone /\ pc \in Cleaning)

DomainInv ==
    /\ L!TypeOK /\ DomainStanding /\ DomainRemoved /\ DomainRoutes
    /\ History /\ Current /\ Witnessed(Provisioning) /\ DomainCared

-----------------------------------------------------------------------------
\* Types.

PassRecords == [snap: L!Objects, gone: BOOLEAN]
Seeds == [uid: L!Owners, full: BOOLEAN]
Domains == [uid: L!Owners, run: {"none", "off", "on"}, seed: BOOLEAN]

\* The records a machine starts with and those its updates leave.
LEMMA ObjectTypes ==
    ASSUME NEW o \in L!Objects
    PROVE  /\ L!NoObject \in L!Objects /\ \A u \in Uids : Created(L!NoObject, u) \in L!Objects
           /\ \A b \in BOOLEAN : [o EXCEPT !.fin = b] \in L!Objects
           /\ \A l \in Lives : [o EXCEPT !.life = l] \in L!Objects
           /\ FinalizerRemoved(o) \in L!Objects
           /\ [o EXCEPT !.on = ~@] \in L!Objects
           /\ \A a, b \in BOOLEAN : [o EXCEPT !.prov = a, !.ready = b] \in L!Objects
<1>1. 1 \in Uids
  BY BoundsAssumption DEF Uids, L!Uids
<1> HIDE DEF Uids
<1> QED BY LvNames, <1>1 DEF L!NoObject, Created, L!Created, L!Objects, Lives, L!Lives,
   FinalizerRemoved, L!FinalizerRemoved

\* What a pass knows.
LEMMA PassTypes ==
    ASSUME NEW p \in PassRecords
    PROVE  /\ L!NoPass \in PassRecords
           /\ \A o \in L!Objects : [L!NoPass EXCEPT !.snap = o] \in PassRecords
           /\ [p EXCEPT !.gone = TRUE] \in PassRecords
<1>1. L!NoObject \in L!Objects
  BY BoundsAssumption DEF L!NoObject, L!Objects, Lives, L!Lives, Uids, L!Uids
<1> QED BY <1>1 DEF PassRecords, L!NoPass

\* What the updates of the host leave.
LEMMA HostTypes ==
    ASSUME NEW b \in L!Hosts, NEW d \in L!Owners, NEW s \in Seeds, NEW m \in Domains, NEW p \in BOOLEAN
    PROVE  /\ [b EXCEPT !.pool = p] \in L!Hosts /\ [b EXCEPT !.image = p] \in L!Hosts
           /\ [b EXCEPT !.disk = d] \in L!Hosts /\ [b EXCEPT !.seed = s] \in L!Hosts
           /\ [b EXCEPT !.domain = m] \in L!Hosts
           /\ b.seed \in Seeds /\ b.domain \in Domains /\ b.disk \in L!Owners
BY DEF L!Hosts, Seeds, Domains

\* What a step may do to the host, by the parts that have an owner.
HostMoves ==
    /\ backend' \in L!Hosts
    /\ \/ UNCHANGED <<L!domain, L!disk, L!seed>>
       \/ /\ pc = "disk" /\ pc' \in {"define", "failed"} /\ UNCHANGED <<obj, cache, pass, loss, L!domain, L!seed>>
          /\ L!disk' \in {L!disk, pass.snap.uid}
       \/ /\ pc = "define" /\ pc' \in {"seed", "failed"} /\ UNCHANGED <<obj, cache, pass, loss, L!disk, L!seed>>
          /\ L!domain'.run # "none"
          /\ L!domain'.uid = IF L!domain.run = "none" THEN pass.snap.uid ELSE L!domain.uid
       \/ /\ pc = "seed" /\ pc' \in {"upload", "failed"} /\ UNCHANGED <<obj, cache, pass, loss, L!domain, L!disk>>
          /\ L!seed'.uid = pass.snap.uid
       \/ pc = "upload" /\ pc' \in {"attach", "failed"} /\ UNCHANGED <<L!domain, L!disk>> /\ L!seed'.uid = L!seed.uid
       \/ /\ pc \in {"attach", "power"} /\ pc' \in {"power", "record", "failed"} /\ UNCHANGED <<L!disk, L!seed>>
          /\ L!domain'.uid = L!domain.uid /\ (L!domain'.run = L!domain.run \/ L!domain'.run # "none")
       \/ /\ L!domain.run # "none" /\ L!domain'.run # "none" /\ UNCHANGED <<L!disk, L!seed>>
          /\ L!domain'.uid = L!domain.uid
          /\ UNCHANGED pc \/ (pc = "destroy" /\ pc' \in {"undefine", "idle"})
       \/ /\ pc = "undefine" /\ pc' \in {"volumes", "idle"} /\ L!domain' = L!NoDomain /\ UNCHANGED <<L!disk, L!seed>>
       \/ /\ pc = "volumes" /\ pc' \in {"volumes", "idle"} /\ UNCHANGED L!domain
          /\ \/ L!disk' = L!NoOwner /\ UNCHANGED L!seed
             \/ L!seed' = L!NoSeed /\ UNCHANGED L!disk

\* Every step changes the host in one of these ways, if at all.
LEMMA DomainHost ==
    ASSUME L!TypeOK, [L!Next]_(L!vars) PROVE HostMoves
<1>1. /\ backend \in L!Hosts /\ pass.snap.uid \in L!Owners /\ pass.snap.on \in BOOLEAN
      /\ L!domain \in Domains /\ L!seed \in Seeds /\ L!disk \in L!Owners
  BY DEF L!TypeOK, L!Objects, L!Owners, L!domain, L!seed, L!disk, L!Hosts, Domains, Seeds
<1>2. UNCHANGED backend => HostMoves
  BY <1>1 DEF HostMoves, L!domain, L!disk, L!seed
<1>3. CASE L!ensure_disks
  <2> DEFINE d == IF L!disk = L!NoOwner THEN pass.snap.uid ELSE L!disk
  <2>1. /\ pc = "disk" /\ pc' \in {"define", "failed"} /\ UNCHANGED <<obj, cache, pass, loss>>
        /\ UNCHANGED backend \/ backend' = [backend EXCEPT !.disk = d]
    BY <1>3 DEF L!ensure_disks, L!Call, L!Goto, L!KeepApi, L!disk
  <2>2. d \in {L!disk, pass.snap.uid} /\ d \in L!Owners
    BY <1>1
  <2> HIDE DEF d
  <2>3. CASE backend' = [backend EXCEPT !.disk = d]
    <3>1. backend' \in L!Hosts /\ L!disk' = d /\ UNCHANGED <<L!domain, L!seed>>
      BY <1>1, <2>2, <2>3 DEF L!Hosts, L!disk, L!domain, L!seed
    <3> QED BY <2>1, <2>2, <3>1 DEF HostMoves
  <2> QED BY <1>2, <2>1, <2>3
<1>4. CASE L!define_domain
  <2> DEFINE m == IF L!domain.run = "none" THEN [uid |-> pass.snap.uid, run |-> "off", seed |-> FALSE]
                  ELSE [L!domain EXCEPT !.seed = FALSE]
  <2>1. /\ pc = "define" /\ pc' \in {"seed", "failed"} /\ UNCHANGED <<obj, cache, pass, loss>>
        /\ UNCHANGED backend \/ backend' = [backend EXCEPT !.domain = m]
    BY <1>4 DEF L!define_domain, L!Call, L!Goto, L!KeepApi, L!domain
  <2>2. /\ m \in Domains /\ m.run # "none"
        /\ m.uid = IF L!domain.run = "none" THEN pass.snap.uid ELSE L!domain.uid
    BY <1>1 DEF Domains
  <2> HIDE DEF m
  <2>3. CASE backend' = [backend EXCEPT !.domain = m]
    <3>1. backend' \in L!Hosts /\ L!domain' = m /\ UNCHANGED <<L!disk, L!seed>>
      BY <1>1, <2>2, <2>3 DEF L!Hosts, L!disk, L!domain, L!seed, Domains
    <3> QED BY <2>1, <2>2, <3>1 DEF HostMoves
  <2> QED BY <1>2, <2>1, <2>3
<1>5. CASE L!ensure_seed
  <2> DEFINE s == [L!seed EXCEPT !.uid = pass.snap.uid]
  <2>1. /\ pc = "seed" /\ UNCHANGED <<obj, cache, pass, loss>>
        /\ UNCHANGED backend \/ (backend' = [backend EXCEPT !.seed = s] /\ pc' \in {"upload", "failed"})
    BY <1>5 DEF L!ensure_seed, L!Call, L!Goto, L!KeepApi, L!seed
  <2>2. s \in Seeds /\ s.uid = pass.snap.uid
    BY <1>1 DEF Seeds
  <2> HIDE DEF s
  <2>3. CASE backend' = [backend EXCEPT !.seed = s] /\ pc' \in {"upload", "failed"}
    <3>1. backend' \in L!Hosts /\ L!seed' = s /\ UNCHANGED <<L!disk, L!domain>>
      BY <1>1, <2>2, <2>3 DEF L!Hosts, L!disk, L!domain, L!seed, Seeds
    <3> QED BY <2>1, <2>2, <2>3, <3>1 DEF HostMoves
  <2> QED BY <1>2, <2>1, <2>3
<1>6. CASE L!upload_volume
  <2> DEFINE s == [L!seed EXCEPT !.full = TRUE]
  <2>1. /\ pc = "upload" /\ pc' \in {"attach", "failed"}
        /\ UNCHANGED backend \/ backend' = [backend EXCEPT !.seed = s]
    BY <1>6 DEF L!upload_volume, L!Call, L!Goto, L!seed
  <2>2. s \in Seeds /\ s.uid = L!seed.uid
    BY <1>1 DEF Seeds
  <2> HIDE DEF s
  <2>3. CASE backend' = [backend EXCEPT !.seed = s]
    <3>1. backend' \in L!Hosts /\ L!seed' = s /\ UNCHANGED <<L!disk, L!domain>>
      BY <1>1, <2>2, <2>3 DEF L!Hosts, L!disk, L!domain, L!seed, Seeds
    <3> QED BY <2>1, <2>2, <3>1 DEF HostMoves
  <2> QED BY <1>2, <2>1, <2>3
<1>7. CASE L!attach_seed \/ L!converge_power
  <2>1. PICK m \in {[L!domain EXCEPT !.seed = TRUE],
                     [L!domain EXCEPT !.run = IF pass.snap.on THEN "on" ELSE "off"]} :
           /\ pc \in {"attach", "power"} /\ pc' \in {"power", "record", "failed"}
           /\ UNCHANGED backend \/ backend' = [backend EXCEPT !.domain = m]
    BY <1>7 DEF L!attach_seed, L!converge_power, L!Call, L!Goto, L!domain
  <2>2. m \in Domains /\ m.uid = L!domain.uid /\ (m.run = L!domain.run \/ m.run # "none")
    BY <1>1 DEF Domains
  <2>3. CASE backend' = [backend EXCEPT !.domain = m]
    <3>1. backend' \in L!Hosts /\ L!domain' = m /\ UNCHANGED <<L!disk, L!seed>>
      BY <1>1, <2>2, <2>3 DEF L!Hosts, L!disk, L!domain, L!seed, Domains
    <3> QED BY <2>1, <2>2, <3>1 DEF HostMoves
  <2> QED BY <1>2, <2>1, <2>3
<1>8. ASSUME L!domain.run # "none", backend' = [backend EXCEPT !.domain.run = "off"],
             UNCHANGED pc \/ (pc = "destroy" /\ pc' \in {"undefine", "idle"})
      PROVE  HostMoves
  <2> DEFINE m == [L!domain EXCEPT !.run = "off"]
  <2>1. backend' = [backend EXCEPT !.domain = m]
    BY <1>8 DEF L!domain
  <2>2. m \in Domains /\ m.uid = L!domain.uid /\ m.run # "none"
    BY <1>1 DEF Domains
  <2> HIDE DEF m
  <2>3. backend' \in L!Hosts /\ L!domain' = m /\ UNCHANGED <<L!disk, L!seed>>
    BY <1>1, <2>1, <2>2 DEF L!Hosts, L!disk, L!domain, L!seed, Domains
  <2> QED BY <1>8, <2>2, <2>3 DEF HostMoves
<1>9. CASE L!destroy_domain
  <2>1. \/ UNCHANGED backend
        \/ /\ L!domain.run # "none" /\ backend' = [backend EXCEPT !.domain.run = "off"]
           /\ pc = "destroy" /\ pc' \in {"undefine", "idle"}
    BY <1>9 DEF L!destroy_domain, L!Clean, L!Goto, L!End, L!EndPass
  <2> QED BY <1>2, <1>8, <2>1
<1>10. CASE L!undefine_domain
  <2>1. /\ pc = "undefine" /\ pc' \in {"volumes", "idle"}
        /\ UNCHANGED backend \/ backend' = [backend EXCEPT !.domain = L!NoDomain]
    BY <1>10 DEF L!undefine_domain, L!Clean, L!Goto, L!End, L!EndPass
  <2>2. L!NoDomain \in Domains
    BY DEF L!NoDomain, Domains, L!Owners
  <2> HIDE DEF L!NoDomain
  <2>3. CASE backend' = [backend EXCEPT !.domain = L!NoDomain]
    <3>1. backend' \in L!Hosts /\ L!domain' = L!NoDomain /\ UNCHANGED <<L!disk, L!seed>>
      BY <1>1, <2>2, <2>3 DEF L!Hosts, L!disk, L!domain, L!seed, Domains
    <3> QED BY <2>1, <3>1 DEF HostMoves
  <2> QED BY <1>2, <2>1, <2>3
<1>11. CASE L!delete_volumes
  <2>1. /\ pc = "volumes"
        /\ \/ UNCHANGED backend
           \/ /\ pc' \in {"volumes", "idle"}
              /\ \/ backend' = [backend EXCEPT !.disk = L!NoOwner]
                 \/ backend' = [backend EXCEPT !.seed = L!NoSeed]
    BY <1>11 DEF L!delete_volumes, L!Clean, L!Goto, L!End, L!EndPass
  <2>2. L!NoSeed \in Seeds /\ L!NoOwner \in L!Owners
    BY DEF L!NoSeed, Seeds, L!Owners
  <2> HIDE DEF L!NoSeed
  <2>3. CASE pc' \in {"volumes", "idle"} /\ backend' = [backend EXCEPT !.disk = L!NoOwner]
    <3>1. backend' \in L!Hosts /\ L!disk' = L!NoOwner /\ UNCHANGED <<L!domain, L!seed>>
      BY <1>1, <2>2, <2>3 DEF L!Hosts, L!disk, L!domain, L!seed
    <3> QED BY <2>1, <2>3, <3>1 DEF HostMoves
  <2>4. CASE pc' \in {"volumes", "idle"} /\ backend' = [backend EXCEPT !.seed = L!NoSeed]
    <3>1. backend' \in L!Hosts /\ L!seed' = L!NoSeed /\ UNCHANGED <<L!domain, L!disk>>
      BY <1>1, <2>2, <2>4 DEF L!Hosts, L!disk, L!domain, L!seed, Seeds
    <3> QED BY <2>1, <2>4, <3>1 DEF HostMoves
  <2> QED BY <1>2, <2>1, <2>3, <2>4
<1>12. CASE L!HostChange
  <2>1. UNCHANGED pc
    BY <1>12 DEF L!HostChange, L!OnlyWorld
  <2>2. CASE backend' = [backend EXCEPT !.pool = ~@] \/ backend' = [backend EXCEPT !.image = ~@]
    <3>1. backend' \in L!Hosts /\ UNCHANGED <<L!domain, L!disk, L!seed>>
      BY <1>1, <2>2 DEF L!Hosts, L!disk, L!domain, L!seed
    <3> QED BY <3>1 DEF HostMoves
  <2>3. CASE L!domain.run = "on" /\ backend' = [backend EXCEPT !.domain.run = "off"]
    BY <1>8, <2>1, <2>3
  <2> QED BY <1>12, <2>2, <2>3 DEF L!HostChange
<1>13. CASE \/ L!Trigger \/ L!Connect \/ L!AddFinalizer \/ L!patch_status \/ L!DropFinalizer \/ L!Stop \/ L!Sync
            \/ L!CreateAgain \/ L!Delete \/ L!TakeFinalizerOff \/ L!SetPower \/ L!ProviderChange
            \/ UNCHANGED L!vars
  <2>1. UNCHANGED backend
    BY <1>13 DEF L!Trigger, L!StartPass, L!Connect, L!AddFinalizer, L!EnsureFinalizer,
       L!patch_status, L!Patch, L!DropFinalizer, L!RemoveFinalizer, L!Stop, L!Crash, L!Sync,
       L!CreateAgain, L!Create, L!Delete, L!TakeFinalizerOff, L!RemoveByHand, L!SetPower,
       L!ProviderChange, L!vars
  <2> QED BY <1>2, <2>1
<1> QED
  BY <1>3, <1>4, <1>5, <1>6, <1>7, <1>9, <1>10, <1>11, <1>12, <1>13 DEF L!Next, L!Pass, L!World
\* Every step keeps the types.
LEMMA DomainTypes ==
    ASSUME L!TypeOK, [L!Next]_(L!vars) PROVE L!TypeOK'
<1>1. /\ obj \in L!Objects /\ cache \in L!Objects /\ pass \in PassRecords /\ pass.snap \in L!Objects
      /\ pass.snap.on \in BOOLEAN /\ pass.snap.prov \in BOOLEAN
      /\ provider \in BOOLEAN /\ pc \in L!Stages /\ backend' \in L!Hosts
  BY DomainHost DEF L!TypeOK, PassRecords, L!Objects, HostMoves
<1>2. {"idle", "connect", "finalizer", "disk", "define", "seed", "upload", "attach", "power",
       "record", "failed", "destroy", "undefine", "volumes", "finRemove"} \subseteq L!Stages
  BY DEF L!Stages
<1>3. ASSUME obj' \in L!Objects, cache' \in L!Objects, provider' \in BOOLEAN, pc' \in L!Stages,
             pass' \in PassRecords,
             \/ UNCHANGED loss \/ loss' = loss \cup Namesake
             \/ loss' \in {loss \cup {"noticed"}, loss \cup {"forced"}, loss \cup {"pool"}, loss \cup {}},
             UNCHANGED faults \/ Fail, UNCHANGED changes \/ Change
      PROVE  L!TypeOK'
  <2>1. faults' \in 0..MaxFaults /\ changes' \in 0..MaxChanges
    BY <1>3, BoundsAssumption DEF Fail, L!Fail, Change, L!Change, L!TypeOK
  <2>2. loss' \subseteq {"pool", "forced", "noticed", "namesake"}
    BY <1>3 DEF Namesake, L!Namesake, L!TypeOK
  <2> QED BY <1>1, <1>3, <2>1, <2>2 DEF L!TypeOK, PassRecords
<1> HIDE DEF L!Stages
<1>4. CASE L!Trigger
  BY <1>1, <1>2, <1>3, <1>4, PassTypes DEF L!Trigger, L!StartPass, L!KeepApi, L!Keep
<1>5. CASE L!Connect
  BY LvNames, <1>1, <1>2, <1>3, <1>5, PassTypes DEF L!Connect, L!Goto, L!End, L!EndPass,
     L!KeepApi, L!Keep
<1>6. CASE L!AddFinalizer
  BY LvNames, <1>1, <1>2, <1>3, <1>6, PassTypes, ObjectTypes DEF L!AddFinalizer,
     L!EnsureFinalizer, L!Goto, L!EndPass, L!Keep
<1>7. CASE L!ensure_disks \/ L!define_domain \/ L!ensure_seed \/ L!upload_volume \/ L!attach_seed \/ L!converge_power
  <2>1. /\ UNCHANGED <<obj, cache, provider, pass, loss, changes>> /\ (UNCHANGED faults \/ Fail)
        /\ pc' \in {"define", "seed", "upload", "attach", "power", "record", "failed"}
    BY LvNames, <1>7 DEF L!ensure_disks, L!define_domain, L!ensure_seed, L!upload_volume,
       L!attach_seed, L!converge_power, L!Call, L!Goto, L!KeepApi, L!Keep
  <2> QED BY <1>1, <1>2, <1>3, <2>1
<1>8. CASE L!patch_status
  <2>1. L!build_status \in L!Objects /\ L!failure_status \in L!Objects
    BY <1>1, ObjectTypes DEF L!build_status, L!failure_status
  <2> QED
    BY LvNames, <1>1, <1>2, <1>3, <1>8, <2>1, PassTypes
       DEF L!patch_status, L!Patch, L!PatchMachine, L!End, L!EndPass, L!gone_or, L!Keep
<1>9. CASE L!destroy_domain \/ L!undefine_domain \/ L!delete_volumes
  <2>1. /\ UNCHANGED <<obj, cache, provider, changes>> /\ (UNCHANGED faults \/ Fail)
        /\ UNCHANGED loss \/ loss' \in {loss \cup {"pool"}, loss \cup {}}
        /\ pc' \in {"undefine", "volumes", "idle", "finRemove"} /\ pass' \in {pass, L!NoPass}
    BY LvNames, <1>9 DEF L!destroy_domain, L!undefine_domain, L!delete_volumes, L!Clean,
       L!Cleaned, L!Goto, L!End, L!EndPass, L!KeepApi, L!Keep
  <2> QED BY <1>1, <1>2, <1>3, <2>1, PassTypes
<1>10. CASE L!DropFinalizer
  BY LvNames, <1>1, <1>2, <1>3, <1>10, PassTypes, ObjectTypes DEF L!DropFinalizer,
     L!RemoveFinalizer, L!EndPass, L!Keep
<1>11. CASE L!Stop \/ L!Sync
  BY LvNames, <1>1, <1>2, <1>3, <1>11, PassTypes DEF L!Stop, L!Crash, L!Sync, L!EndPass,
     L!KeepApi, L!Keep
<1>12. CASE L!CreateAgain
  <2>1. obj.uid + 1 \in Uids
    BY <1>1, <1>12, BoundsAssumption DEF L!CreateAgain, L!Create, L!Objects, Uids, L!Uids
  <2>2. Created(L!NoObject, obj.uid + 1) \in L!Objects
    BY <1>1, <2>1, ObjectTypes
  <2> QED BY LvNames, <1>1, <1>3, <1>12, <2>2 DEF L!CreateAgain, L!Create, L!OnlyWorld
<1>13. CASE L!Delete
  <2>1. (IF obj.fin THEN "deleting" ELSE "absent") \in Lives
    BY DEF Lives, L!Lives
  <2> QED BY LvNames, <1>1, <1>3, <1>13, <2>1, ObjectTypes DEF L!Delete, L!OnlyWorld
<1>14. CASE L!TakeFinalizerOff
  BY LvNames, <1>1, <1>3, <1>14, ObjectTypes DEF L!TakeFinalizerOff, L!RemoveByHand, L!OnlyWorld
<1>15. CASE L!SetPower
  BY LvNames, <1>1, <1>3, <1>15, ObjectTypes DEF L!SetPower, L!OnlyWorld
<1>16. CASE L!HostChange
  BY LvNames, <1>1, <1>3, <1>16 DEF L!HostChange, L!OnlyWorld
<1>17. CASE L!ProviderChange
  BY LvNames, <1>1, <1>3, <1>17 DEF L!ProviderChange, L!OnlyWorld
<1>18. CASE UNCHANGED L!vars
  BY <1>18 DEF L!vars, L!TypeOK
<1> QED
  BY <1>4, <1>5, <1>6, <1>7, <1>8, <1>9, <1>10, <1>11, <1>12, <1>13, <1>14, <1>15, <1>16, <1>17,
     <1>18 DEF L!Next, L!Pass, L!World

-----------------------------------------------------------------------------
\* The pass.

\* Where a pass goes from a stage, and what it keeps of what it was handed.
DomainPass ==
    \/ pc' = "idle" /\ pass' = L!NoPass
    \/ pc' = pc /\ pass' = pass
    \/ /\ pc = "idle" /\ pc' = "connect" /\ cache.life # "absent"
       /\ pass' = [L!NoPass EXCEPT !.snap = cache] /\ UNCHANGED <<obj, cache>>
    \/ pc = "connect" /\ pc' = "destroy" /\ pass' = pass /\ pass.snap.life = "deleting"
    \/ pc = "connect" /\ pc' = "finalizer" /\ pass' = pass /\ pass.snap.life # "deleting"
    \/ pc = "finalizer" /\ pc' = "disk" /\ pass' = pass
    \/ pc \in Provisioning /\ pc' \in Provisioning \ {"disk"} /\ pass' = pass
    \/ pc \in Provisioning /\ pc' = "destroy" /\ pass'.snap = pass.snap /\ pass'.gone
    \/ pc = "destroy" /\ pc' \in {"undefine", "volumes"} /\ pass' = pass
    \/ pc = "undefine" /\ pc' = "volumes" /\ pass' = pass
    \/ pc = "volumes" /\ pc' = "finRemove" /\ pass' = pass /\ ~pass.gone

\* Every step moves the pass along one of these, if at all.
LEMMA DomainPassMoves ==
    ASSUME L!TypeOK, [L!Next]_(L!vars) PROVE DomainPass
<1>1. [pass EXCEPT !.gone = TRUE].snap = pass.snap /\ [pass EXCEPT !.gone = TRUE].gone
  BY DEF L!TypeOK
<1>2. CASE L!Trigger
  BY <1>2 DEF L!Trigger, L!StartPass, L!KeepApi, DomainPass
<1>3. CASE L!Connect
  BY <1>3 DEF L!Connect, L!Goto, L!End, L!EndPass, DomainPass
<1>4. CASE L!AddFinalizer
  BY <1>4 DEF L!AddFinalizer, L!EnsureFinalizer, L!Goto, L!EndPass, DomainPass
<1>5. CASE L!ensure_disks \/ L!define_domain \/ L!ensure_seed \/ L!upload_volume \/ L!attach_seed \/ L!converge_power
  <2>1. /\ pc \in Provisioning /\ pass' = pass
        /\ pc' \in {"define", "seed", "upload", "attach", "power", "record", "failed"}
    BY <1>5 DEF L!ensure_disks, L!define_domain, L!ensure_seed, L!upload_volume, L!attach_seed,
       L!converge_power, L!Call, L!Goto, Provisioning
  <2> QED BY <2>1 DEF DomainPass, Provisioning
<1>6. CASE L!patch_status
  <2>1. /\ pc \in {"record", "failed"}
        /\ \/ pc' = "idle" /\ pass' = L!NoPass
           \/ pc' = "destroy" /\ pass' = [pass EXCEPT !.gone = TRUE]
    BY <1>6 DEF L!patch_status, L!Patch, L!PatchMachine, L!End, L!EndPass, L!gone_or
  <2> QED BY <1>1, <2>1 DEF DomainPass, Provisioning
<1>7. CASE L!destroy_domain \/ L!undefine_domain \/ L!delete_volumes \/ L!DropFinalizer
  BY <1>7 DEF L!destroy_domain, L!undefine_domain, L!delete_volumes, L!Clean, L!Cleaned,
     L!DropFinalizer, L!RemoveFinalizer, L!Goto, L!End, L!EndPass, DomainPass
<1>8. CASE L!Stop \/ L!Sync \/ L!World \/ UNCHANGED L!vars
  BY <1>8 DEF L!Stop, L!Crash, L!EndPass, L!Sync, L!World, L!CreateAgain, L!Create, L!Delete,
     L!TakeFinalizerOff, L!RemoveByHand, L!SetPower, L!HostChange, L!ProviderChange, L!OnlyWorld,
     L!vars, DomainPass
<1> QED BY <1>2, <1>3, <1>4, <1>5, <1>6, <1>7, <1>8 DEF L!Next, L!Pass

\* The route of a pass is settled by what it was handed, or by the machine's end.
LEMMA RoutesStep ==
    ASSUME L!TypeOK, DomainRoutes, History, [L!Next]_(L!vars) PROVE DomainRoutes'
<1>1. DomainPass
  BY DomainPassMoves
<1>2. ~L!NoPass.gone /\ [L!NoPass EXCEPT !.snap = cache].gone = FALSE
  BY DEF L!NoPass
<1>3. pass.snap.life \in Lives /\ (pc # "idle" => pass.snap.life # "absent")
  BY LvNames DEF L!TypeOK, L!Objects, History
<1> QED BY <1>1, <1>2, <1>3 DEF DomainPass, DomainRoutes, Provisioning, Cleaning, Lives, L!Lives

\* A step that leaves its stage is one of that stage.
LEMMA Leaves ==
    ASSUME [L!Next]_(L!vars), pc' # pc, pc' # "idle"
    PROVE  /\ pc = "define" => L!define_domain
           /\ pc = "seed" => L!ensure_seed
           /\ pc = "upload" => L!upload_volume
           /\ pc = "attach" => L!attach_seed
           /\ pc = "destroy" => L!destroy_domain
           /\ pc = "undefine" => L!undefine_domain
           /\ pc = "volumes" => L!delete_volumes
<1>1. CASE L!Trigger \/ L!Stop \/ L!Sync \/ L!World \/ UNCHANGED L!vars
  BY <1>1 DEF L!Trigger, L!StartPass, L!Stop, L!Crash, L!EndPass, L!Sync, L!World, L!CreateAgain,
     L!Create, L!Delete, L!TakeFinalizerOff, L!RemoveByHand, L!SetPower, L!HostChange,
     L!ProviderChange, L!OnlyWorld, L!vars
<1>2. CASE L!Pass
  BY <1>2 DEF L!Pass, L!Connect, L!AddFinalizer, L!EnsureFinalizer, L!ensure_disks,
     L!define_domain, L!ensure_seed, L!upload_volume, L!attach_seed, L!converge_power, L!Call,
     L!patch_status, L!destroy_domain, L!undefine_domain, L!delete_volumes, L!Clean,
     L!DropFinalizer, L!RemoveFinalizer
<1> QED BY <1>1, <1>2 DEF L!Next

\* A domain has an owner, and stays while the pass works on it.
LEMMA StandingStep ==
    ASSUME L!TypeOK, DomainStanding, DomainRemoved, [L!Next]_(L!vars) PROVE DomainStanding'
<1>1. pass.snap.uid # L!NoOwner /\ L!NoDomain.run = "none" /\ L!NoDomain.uid = L!NoOwner /\ L!NoSeed.uid = L!NoOwner
  BY DEF L!TypeOK, L!Objects, Uids, L!Uids, L!NoOwner, L!NoDomain, L!NoSeed
<1> HIDE DEF L!NoOwner, L!NoDomain, L!NoSeed
<1>2. L!domain'.run = "none" <=> L!domain'.uid = L!NoOwner
  BY <1>1, DomainHost DEF HostMoves, DomainStanding
<1>3. ASSUME pc' \in {"seed", "upload", "attach", "power"} PROVE L!domain'.run # "none"
  <2>1. CASE pc \in {"seed", "upload", "attach", "power"}
    BY <1>3, <2>1, DomainHost DEF HostMoves, DomainStanding
  <2>2. CASE pc = "define"
    <3> DEFINE m == IF L!domain.run = "none" THEN [uid |-> pass.snap.uid, run |-> "off", seed |-> FALSE]
                    ELSE [L!domain EXCEPT !.seed = FALSE]
    <3>1. L!define_domain
      BY <1>3, <2>2, Leaves
    <3>2. backend' = [backend EXCEPT !.domain = m]
      BY <1>3, <2>2, <3>1 DEF L!define_domain, L!Call, L!Goto, L!domain
    <3>3. L!domain \in Domains /\ m.run # "none"
      BY DEF L!TypeOK, L!Hosts, L!domain, Domains
    <3> HIDE DEF m
    <3> QED BY <3>2, <3>3 DEF L!TypeOK, L!Hosts, L!domain
  <2>3. pc \in {"seed", "upload", "attach", "power", "define"}
    <3>1. CASE L!Pass
      BY <1>3, <3>1 DEF L!Pass, L!Connect, L!AddFinalizer, L!EnsureFinalizer, L!ensure_disks,
         L!define_domain, L!ensure_seed, L!upload_volume, L!attach_seed, L!converge_power, L!Call,
         L!patch_status, L!Patch, L!PatchMachine, L!gone_or, L!Goto, L!destroy_domain,
         L!undefine_domain, L!delete_volumes, L!Clean, L!Cleaned, L!DropFinalizer,
         L!RemoveFinalizer, L!End, L!EndPass
    <3>2. CASE L!Trigger \/ L!Stop \/ L!Sync \/ L!World \/ UNCHANGED L!vars
      BY <1>3, <3>2 DEF L!Trigger, L!StartPass, L!Stop, L!Crash, L!EndPass, L!Sync, L!World,
         L!CreateAgain, L!Create, L!Delete, L!TakeFinalizerOff, L!RemoveByHand, L!SetPower,
         L!HostChange, L!ProviderChange, L!OnlyWorld, L!vars
    <3> QED BY <3>1, <3>2 DEF L!Next
  <2> QED BY <2>1, <2>2, <2>3
<1> QED BY <1>2, <1>3 DEF DomainStanding

\* The finalizer goes on only after everything of the machine's name is gone, and
\* nobody makes it again meanwhile.
LEMMA RemovedStep ==
    ASSUME L!TypeOK, DomainStanding, DomainRemoved, [L!Next]_(L!vars) PROVE DomainRemoved'
<1>1. L!NoDomain.run = "none" /\ L!NoSeed.uid = L!NoOwner
  BY DEF L!NoDomain, L!NoSeed
<1>2. ASSUME pc' \in {"volumes", "finRemove"} PROVE L!domain'.run = "none"
  <2>1. pc \in {"destroy", "undefine", "volumes", "finRemove"}
    BY <1>2, DomainPassMoves DEF DomainPass, Provisioning
  <2>2. CASE pc \in {"volumes", "finRemove"}
    BY <1>2, <2>2, DomainHost DEF HostMoves, DomainRemoved
  <2>3. CASE pc = "destroy"
    <3>1. L!destroy_domain
      BY <1>2, <2>3, Leaves
    <3>2. L!domain.run = "none" /\ UNCHANGED backend
      BY <1>2, <3>1 DEF L!destroy_domain, L!Clean, L!Goto, L!End, L!EndPass
    <3> QED BY <3>2 DEF L!domain
  <2>4. CASE pc = "undefine"
    <3>1. L!undefine_domain
      BY <1>2, <2>4, Leaves
    <3>2. backend' = [backend EXCEPT !.domain = L!NoDomain]
      BY <1>2, <3>1 DEF L!undefine_domain, L!Clean, L!Goto, L!End, L!EndPass
    <3> QED BY <1>1, <3>2 DEF L!domain, L!TypeOK, L!Hosts
  <2> QED BY <2>1, <2>2, <2>3, <2>4
<1>3. ASSUME pc' = "finRemove" PROVE "pool" \in loss' \/ (L!disk' = L!NoOwner /\ L!seed'.uid = L!NoOwner)
  <2>1. CASE pc = "finRemove"
    <3>1. UNCHANGED <<L!disk, L!seed>>
      BY <1>3, <2>1, DomainHost DEF HostMoves
    <3>2. loss \subseteq loss'
      <4>1. CASE L!Trigger \/ L!Pass \/ L!Stop
        BY <1>3, <2>1, <4>1 DEF L!Trigger, L!StartPass, L!Stop, L!Crash, L!EndPass, L!Pass,
           L!Connect, L!AddFinalizer, L!EnsureFinalizer, L!ensure_disks, L!define_domain,
           L!ensure_seed, L!upload_volume, L!attach_seed, L!converge_power, L!Call,
           L!patch_status, L!destroy_domain, L!undefine_domain, L!delete_volumes, L!Clean,
           L!DropFinalizer, L!RemoveFinalizer
      <4>2. CASE L!Sync \/ L!World \/ UNCHANGED L!vars
        BY <4>2 DEF L!Sync, L!World, L!CreateAgain, L!Create, L!Delete, L!TakeFinalizerOff,
           L!RemoveByHand, L!SetPower, L!HostChange, L!ProviderChange, L!vars
      <4> QED BY <4>1, <4>2 DEF L!Next
    <3> QED BY <2>1, <3>1, <3>2 DEF DomainRemoved
  <2>2. CASE pc # "finRemove"
    <3>1. pc = "volumes"
      BY <1>3, <2>2, DomainPassMoves DEF DomainPass, Provisioning
    <3>2. L!delete_volumes
      BY <1>3, <3>1, Leaves
    <3>3. UNCHANGED backend /\ ("pool" \in loss' \/ (L!disk = L!NoOwner /\ L!seed.uid = L!NoOwner))
      BY <1>3, <3>2 DEF L!delete_volumes, L!Clean, L!Goto, L!End, L!EndPass
    <3> QED BY <3>3 DEF L!disk, L!seed
  <2> QED BY <2>1, <2>2
<1> QED BY <1>2, <1>3 DEF DomainRemoved
-----------------------------------------------------------------------------
\* The machine, as the API server holds it and as passes are handed it.

\* Every step changes the machine as InfraMachineProofs has it.
LEMMA MachineMoves ==
    ASSUME L!TypeOK, [L!Next]_(L!vars) PROVE ApiMoves(Provisioning)
<1>1. obj \in L!Objects
  BY DEF L!TypeOK
<1>2. /\ \A a, b : LET o == [obj EXCEPT !.prov = a, !.ready = b]
                   IN o.life = obj.life /\ o.uid = obj.uid /\ o.fin = obj.fin
      /\ LET o == [obj EXCEPT !.on = ~@]
         IN o.life = obj.life /\ o.uid = obj.uid /\ o.fin = obj.fin
      /\ LET o == [obj EXCEPT !.fin = TRUE] IN o.life = obj.life /\ o.uid = obj.uid /\ o.fin
      /\ \A l : LET o == [obj EXCEPT !.life = l]
                IN o.life = l /\ o.uid = obj.uid /\ o.fin = obj.fin
      /\ LET o == FinalizerRemoved(obj)
         IN /\ o.life = (IF obj.life = "deleting" THEN "absent" ELSE obj.life)
            /\ o.uid = obj.uid /\ ~o.fin
      /\ LET o == Created(L!NoObject, obj.uid + 1)
         IN o.life = "live" /\ o.uid = obj.uid + 1 /\ ~o.fin
  BY <1>1 DEF L!Objects, FinalizerRemoved, L!FinalizerRemoved, Created, L!Created, L!NoObject
<1>3. CASE L!AddFinalizer
  BY LvNames, <1>2, <1>3 DEF L!AddFinalizer, L!EnsureFinalizer, L!Goto, L!EndPass, ApiMoves
<1>4. CASE L!patch_status
  <2>1. UNCHANGED cache /\ loss \subseteq loss'
        /\ \/ UNCHANGED <<obj, loss>>
           \/ \E a, b : obj' = [obj EXCEPT !.prov = a, !.ready = b]
    BY <1>4 DEF L!patch_status, L!Patch, L!PatchMachine, L!build_status, L!failure_status
  <2>2. UNCHANGED <<obj, loss>>
        \/ (obj'.life = obj.life /\ obj'.uid = obj.uid /\ obj'.fin = obj.fin)
    <3>1. ASSUME NEW a, NEW b, obj' = [obj EXCEPT !.prov = a, !.ready = b]
          PROVE  obj'.life = obj.life /\ obj'.uid = obj.uid /\ obj'.fin = obj.fin
      BY <1>1, <3>1 DEF L!Objects
    <3> QED BY <2>1, <3>1
  <2> QED BY <2>1, <2>2 DEF ApiMoves
<1>5. CASE L!DropFinalizer
  BY LvNames, <1>2, <1>5 DEF L!DropFinalizer, L!RemoveFinalizer, L!EndPass, ApiMoves
<1>6. CASE L!CreateAgain
  BY LvNames, <1>2, <1>6 DEF L!CreateAgain, L!Create, L!OnlyWorld, ApiMoves
<1>7. CASE L!Delete
  BY <1>2, <1>7 DEF L!Delete, L!OnlyWorld, ApiMoves
<1>8. CASE L!TakeFinalizerOff
  <2>1. /\ UNCHANGED <<cache, pc, pass>> /\ obj.life = "deleting" /\ obj' = FinalizerRemoved(obj)
        /\ loss \subseteq loss' /\ ("forced" \in loss' \/ ("noticed" \in loss' /\ pc \in Provisioning))
    BY LvNames, <1>8 DEF L!TakeFinalizerOff, L!RemoveByHand, L!OnlyWorld, Provisioning
  <2> QED BY <1>2, <2>1 DEF ApiMoves
<1>9. CASE L!SetPower
  BY <1>2, <1>9 DEF L!SetPower, L!OnlyWorld, ApiMoves
<1>10. CASE L!Sync
  BY <1>10 DEF L!Sync, ApiMoves
<1>11. CASE \/ L!Trigger \/ L!Connect \/ L!ensure_disks \/ L!define_domain \/ L!ensure_seed \/ L!upload_volume
            \/ L!attach_seed \/ L!converge_power \/ L!destroy_domain \/ L!undefine_domain \/ L!delete_volumes
            \/ L!Stop \/ L!HostChange \/ L!ProviderChange \/ UNCHANGED L!vars
  <2>1. UNCHANGED <<obj, cache>> /\ loss \subseteq loss'
    BY <1>11 DEF L!Trigger, L!StartPass, L!Connect, L!ensure_disks, L!define_domain,
       L!ensure_seed, L!upload_volume, L!attach_seed, L!converge_power, L!Call, L!destroy_domain,
       L!undefine_domain, L!delete_volumes, L!Clean, L!Stop, L!Crash, L!HostChange,
       L!ProviderChange, L!Goto, L!End, L!KeepApi, L!OnlyWorld, L!vars
  <2> QED BY <2>1 DEF ApiMoves
<1> QED
  BY <1>3, <1>4, <1>5, <1>6, <1>7, <1>8, <1>9, <1>10, <1>11 DEF L!Next, L!Pass, L!World

\* A call failed, or none did.
LEMMA CallsFail ==
    ASSUME L!TypeOK, [L!Next]_(L!vars) PROVE FaultMoves
<1>1. CASE L!Pass
  BY LvNames, <1>1 DEF L!Pass, L!Connect, L!AddFinalizer, L!EnsureFinalizer, L!ensure_disks,
     L!define_domain, L!ensure_seed, L!upload_volume, L!attach_seed, L!converge_power, L!Call,
     L!patch_status, L!Patch, L!PatchMachine, L!destroy_domain, L!undefine_domain,
     L!delete_volumes, L!Clean, L!DropFinalizer, L!RemoveFinalizer, FaultMoves
<1>2. CASE L!Trigger \/ L!Stop \/ L!Sync \/ L!World \/ UNCHANGED L!vars
  BY LvNames, <1>2 DEF L!Trigger, L!StartPass, L!Stop, L!Crash, L!Sync, L!World, L!CreateAgain,
     L!Create, L!Delete, L!TakeFinalizerOff, L!RemoveByHand, L!SetPower, L!HostChange,
     L!ProviderChange, L!OnlyWorld, L!vars, FaultMoves
<1> QED BY <1>1, <1>2 DEF L!Next

\* What the pass of one step has to do with that of the next.
LEMMA PassCopies ==
    ASSUME L!TypeOK, DomainRoutes, [L!Next]_(L!vars) PROVE SnapMoves /\ Enters(Provisioning)
<1>1. [L!NoPass EXCEPT !.snap = cache].snap = cache
  BY DEF L!NoPass
<1>2. SnapMoves
  BY <1>1, DomainPassMoves DEF DomainPass, Provisioning, SnapMoves
<1>3. ASSUME pc' \in Provisioning, pc \notin Provisioning
      PROVE  /\ pc = "finalizer" /\ pc' # "idle" /\ pass.snap.life = "live"
             /\ \/ pass.snap.fin
                \/ obj'.life # "absent" /\ obj'.uid = obj.uid /\ obj'.fin /\ loss' = loss \cup Namesake
  <2>1. pc = "finalizer" /\ pc' # "finalizer" /\ pc' # "idle"
    BY <1>3, DomainPassMoves DEF DomainPass, Provisioning
  <2>2. L!AddFinalizer
    BY <2>1 DEF L!Next, L!Trigger, L!StartPass, L!Pass, L!Connect, L!ensure_disks,
       L!define_domain, L!ensure_seed, L!upload_volume, L!attach_seed, L!converge_power, L!Call,
       L!patch_status, L!destroy_domain, L!undefine_domain, L!delete_volumes, L!Clean,
       L!DropFinalizer, L!RemoveFinalizer, L!Stop, L!Crash, L!EndPass, L!Sync, L!World,
       L!CreateAgain, L!Create, L!Delete, L!TakeFinalizerOff, L!RemoveByHand, L!SetPower,
       L!HostChange, L!ProviderChange, L!OnlyWorld, L!vars
  <2>3. \/ pass.snap.fin
        \/ obj' = [obj EXCEPT !.fin = TRUE] /\ loss' = loss \cup Namesake /\ obj.life # "absent"
    BY LvNames, <2>1, <2>2 DEF L!AddFinalizer, L!EnsureFinalizer, L!EndPass
  <2> QED BY <2>1, <2>3 DEF DomainRoutes, L!TypeOK, L!Objects
<1> QED BY <1>2, <1>3 DEF Enters, Provisioning

\* Every step is as InfraMachineProofs has it.
LEMMA DomainCommon ==
    ASSUME L!TypeOK, DomainRoutes, [L!Next]_(L!vars)
    PROVE  /\ Copies /\ Copies' /\ ApiMoves(Provisioning) /\ SnapMoves /\ FaultMoves /\ Enters(Provisioning)
           /\ pc = "finRemove" => pass.snap.life = "deleting"
<1>1. Copies /\ Copies'
  BY LvNames, DomainTypes, BoundsAssumption DEF L!TypeOK, Copies, L!Objects
<1>2. pc = "finRemove" => pass.snap.life = "deleting"
  BY DEF DomainRoutes, Cleaning
<1> QED BY <1>1, <1>2, MachineMoves, CallsFail, PassCopies

-----------------------------------------------------------------------------
\* What is held.

Owning == {L!domain.uid, L!disk, L!seed.uid}

\* A step makes something for the machine of its pass only.
LEMMA DomainMakes ==
    ASSUME L!TypeOK, DomainStanding, [L!Next]_(L!vars), NEW u \in Uids, u \in Owning', u \notin Owning
    PROVE  /\ u = pass.snap.uid /\ pc \in Provisioning /\ pc' \in Provisioning
           /\ UNCHANGED <<obj, cache, pass, loss>>
<1>1. L!NoOwner \notin Uids /\ L!NoDomain.uid = L!NoOwner /\ L!NoSeed.uid = L!NoOwner
  BY DEF L!NoOwner, L!NoDomain, L!NoSeed, Uids, L!Uids
<1> HIDE DEF L!NoOwner, L!NoDomain, L!NoSeed
<1> QED BY <1>1, DomainHost DEF HostMoves, Owning, Provisioning

\* How a pass ends.
LEMMA Endings ==
    ASSUME L!TypeOK, [L!Next]_(L!vars), pc \in Provisioning \cup Cleaning, pc' = "idle", ~Fail
    PROVE  \/ pc \in Provisioning /\ obj.life # "absent" /\ loss' = loss \cup Namesake
           \/ /\ pc = "volumes" /\ UNCHANGED backend
              /\ "pool" \in loss' \/ (L!disk = L!NoOwner /\ L!seed.uid = L!NoOwner)
<1>1. CASE L!patch_status
  BY LvNames, <1>1 DEF L!patch_status, L!Patch, L!PatchMachine, L!End, L!EndPass, L!gone_or,
     Provisioning
<1>2. CASE L!ensure_disks \/ L!define_domain \/ L!ensure_seed \/ L!upload_volume \/ L!attach_seed \/ L!converge_power
  BY <1>2 DEF L!ensure_disks, L!define_domain, L!ensure_seed, L!upload_volume, L!attach_seed,
     L!converge_power, L!Call, L!Goto
<1>3. CASE L!destroy_domain \/ L!undefine_domain \/ L!delete_volumes
  BY LvNames, <1>3 DEF L!destroy_domain, L!undefine_domain, L!delete_volumes, L!Clean, L!Goto
<1>4. CASE L!Connect \/ L!AddFinalizer \/ L!DropFinalizer \/ L!Trigger \/ L!Stop
  BY LvNames, <1>4 DEF L!Connect, L!AddFinalizer, L!EnsureFinalizer, L!DropFinalizer,
     L!RemoveFinalizer, L!Trigger, L!StartPass, L!Stop, L!Crash, Provisioning, Cleaning
<1>5. CASE L!Sync \/ L!World \/ UNCHANGED L!vars
  BY <1>5 DEF L!Sync, L!World, L!CreateAgain, L!Create, L!Delete, L!TakeFinalizerOff,
     L!RemoveByHand, L!SetPower, L!HostChange, L!ProviderChange, L!OnlyWorld, L!vars,
     Provisioning, Cleaning
<1> QED BY <1>1, <1>2, <1>3, <1>4, <1>5 DEF L!Next, L!Pass

\* What is held stays somebody's: the machine's under the finalizer, or the pass's
\* that will find the machine gone.
LEMMA CaredStep ==
    ASSUME DomainInv, [L!Next]_(L!vars) PROVE DomainCared'
<1> USE DEF DomainInv
<1> SUFFICES ASSUME ~Excused', NEW u \in Uids, u \in Owning'
             PROVE  \/ Owned(u)'
                    \/ /\ Noticed(u)' /\ pass'.snap.uid = u
                       /\ pc' \in Provisioning \/ (pass'.gone /\ pc' \in Cleaning)
  BY DEF DomainCared, Owning
<1>1. /\ ~Excused /\ loss' \subseteq {"noticed", "setup"} /\ loss \subseteq loss'
      /\ loss' = loss \cup Namesake => obj.uid = pass.snap.uid
      /\ "noticed" \in loss' => ~Fail
  BY DomainCommon, Unexcused
<1>2. pass.snap.uid \in Uids /\ obj.uid \in Uids /\ u \in Nat /\ obj.uid \in Nat /\ L!NoOwner \notin Uids
  BY DEF L!TypeOK, L!Objects, Uids, L!Uids, L!NoOwner
<1>3. CASE u \notin Owning
  <2>1. u = pass.snap.uid /\ pc \in Provisioning /\ pc' \in Provisioning /\ UNCHANGED <<obj, pass, loss>>
    BY <1>3, DomainMakes
  <2>2. Owned(u) \/ Noticed(u)
    BY <1>1, <2>1 DEF Witnessed
  <2> QED BY <2>1, <2>2 DEF Owned, Noticed
<1>4. CASE u \in Owning /\ Owned(u)
  <2>1. ~(pc = "finRemove" /\ u = pass.snap.uid)
    BY <1>1, <1>2, <1>4 DEF DomainRemoved, DomainStanding, Owning
  <2>2. (Owned(u) \/ Noticed(u))'
    BY <1>2, <1>4, <2>1, DomainCommon, KeptStep DEF Owned
  <2>3. ASSUME ~Owned(u)' PROVE UNCHANGED <<pc, pass>> /\ pc \in Provisioning
    BY <1>1, <1>4, <2>1, <2>3, MachineMoves DEF ApiMoves, Owned
  <2>4. pc \in Provisioning => pass.snap.uid = u
    BY <1>1, <1>4 DEF Current, Owned, Provisioning
  <2> QED BY <2>2, <2>3, <2>4
<1>5. CASE u \in Owning /\ ~Owned(u)
  <2>1. /\ Noticed(u) /\ pass.snap.uid = u
        /\ pc \in Provisioning \/ (pass.gone /\ pc \in Cleaning)
    BY <1>1, <1>5 DEF DomainCared, Owning
  <2>2. u <= obj.uid
    BY <2>1 DEF History, Older, Provisioning, Cleaning
  <2>3. ~Fail /\ "pool" \notin loss'
    BY <1>1, <2>1 DEF Noticed
  <2>4. Noticed(u)'
    BY <1>1, <1>2, <2>1, <2>2, MachineMoves DEF ApiMoves, Noticed
  <2>5. pc' # "idle"
    <3> SUFFICES ASSUME pc' = "idle" PROVE FALSE
      OBVIOUS
    <3>1. \/ obj.life # "absent" /\ loss' = loss \cup Namesake
          \/ pc = "volumes" /\ L!disk = L!NoOwner /\ L!seed.uid = L!NoOwner
      BY <2>1, <2>3, Endings
    <3>2. CASE obj.life # "absent" /\ loss' = loss \cup Namesake
      BY <1>1, <2>1, <3>2 DEF Noticed
    <3>3. CASE pc = "volumes" /\ L!disk = L!NoOwner /\ L!seed.uid = L!NoOwner
      BY <1>2, <1>5, <3>3 DEF DomainRemoved, DomainStanding, Owning
    <3> QED BY <3>1, <3>2, <3>3
  <2>6. /\ pass'.snap.uid = u
        /\ pc' \in Provisioning \/ (pass'.gone /\ pc' \in Cleaning)
    BY <2>1, <2>5, DomainPassMoves DEF DomainPass, Provisioning, Cleaning
  <2> QED BY <2>4, <2>6
<1> QED BY <1>3, <1>4, <1>5

\* The invariant holds at first,
LEMMA DomainInitially ==
    ASSUME L!Init PROVE DomainInv
<1>1. obj \in L!Objects /\ L!NoPass \in PassRecords /\ L!NoObject \in L!Objects /\ obj.life = "live"
      /\ ~obj.fin
  <2>1. 1 \in Uids /\ L!NoObject \in L!Objects
    BY BoundsAssumption DEF Uids, L!Uids, L!NoObject, L!Objects, Lives, L!Lives
  <2> QED BY <2>1, ObjectTypes, PassTypes DEF L!Init, L!NoPass, PassRecords, Created, L!Created,
     L!NoObject
<1>2. /\ backend \in L!Hosts /\ L!domain.uid = L!NoOwner /\ L!domain.run = "none"
      /\ L!disk = L!NoOwner /\ L!seed.uid = L!NoOwner /\ L!NoOwner \notin Uids
  BY DEF L!Init, L!Hosts, L!NoSeed, L!NoDomain, L!Owners, L!NoOwner, L!domain, L!disk, L!seed,
     Uids, L!Uids
<1>3. L!TypeOK
  BY <1>1, <1>2, BoundsAssumption DEF L!Init, L!TypeOK, PassRecords, L!Stages
<1>4. DomainStanding /\ DomainRemoved /\ DomainRoutes /\ History /\ Current /\ Witnessed(Provisioning) /\ DomainCared
  BY <1>1, <1>2, <1>3 DEF L!Init, L!NoPass, DomainStanding, DomainRemoved, DomainRoutes,
     Provisioning, Cleaning, History, Older, Current, Witnessed, Witness, DomainCared, L!TypeOK,
     L!Objects, Uids, L!Uids
<1> QED BY <1>3, <1>4 DEF DomainInv

\* and every step keeps it.
LEMMA DomainPreserved ==
    ASSUME DomainInv, [L!Next]_(L!vars) PROVE DomainInv'
BY DomainTypes, StandingStep, RemovedStep, RoutesStep, DomainCommon, HistoryStep, CurrentStep,
   WitnessStep, CaredStep DEF DomainInv

LEMMA DomainInductive == L!Spec => []DomainInv
<1>1. L!Init => DomainInv
  BY DomainInitially
<1>2. DomainInv /\ [L!Next]_(L!vars) => DomainInv'
  BY DomainPreserved
<1> QED BY <1>1, <1>2, PTL DEF L!Spec

-----------------------------------------------------------------------------
\* The refinement.

\* Something is held for u when it owns something.
LEMMA DomainHolds ==
    ASSUME NEW u \in Uids
    PROVE  /\ L!Held(u) = {} <=> u \notin Owning
           /\ L!Held(u) \subseteq L!Kinds
<1>1. /\ "domain" \in L!Held(u) <=> u = L!domain.uid
      /\ "disk" \in L!Held(u) <=> u = L!disk
      /\ "seed" \in L!Held(u) <=> u = L!seed.uid
      /\ L!Held(u) \subseteq {"domain", "disk", "seed"}
  BY DEF L!Held, L!Kinds
<1> HIDE DEF L!Held
<1> QED BY <1>1 DEF Owning, L!Kinds

\* What is held for a machine that is gone is nothing.
LEMMA DomainGone ==
    ASSUME DomainInv, NEW u \in Uids, MachineOf(u) = "absent"
    PROVE  L!Holdings[u] = {} /\ (~Excused => u \notin Owning)
<1>1. ASSUME ~Excused PROVE u \notin Owning
  <2>1. ~Owned(u)
    BY DEF Owned, MachineOf, DomainInv, L!TypeOK, L!Objects, Lives, L!Lives
  <2>2. ~(pass.snap.uid = u /\ (pc \in Provisioning \/ pc \in Cleaning))
    BY DEF MachineOf, Provisioning, Cleaning
  <2> QED BY <1>1, <2>1, <2>2 DEF DomainInv, DomainCared, Owning
<1>2. ~Excused => L!Held(u) = {}
  BY <1>1, DomainHolds
<1> HIDE DEF L!Held
<1> QED BY LvNames, <1>1, <1>2 DEF L!Holdings
\* Every step is one of the lifecycle's for each machine: what is made is made
\* while the machine is there, and the machine goes when nothing is left.
LEMMA DomainRefines ==
    ASSUME DomainInv, DomainInv', [L!Next]_(L!vars), NEW u \in Uids
    PROVE  LET m == MachineOf(u)  h == L!Holdings[u]
           IN \/ m = "absent" /\ m' # "absent" /\ h' = h
              \/ m = "live" /\ m' = "deleting" /\ h' = h
              \/ m' = "absent" /\ h' = {}
              \/ m # "absent" /\ m' = m /\ h' \subseteq L!Resources
<1> DEFINE m == MachineOf(u)  h == L!Holdings[u]
<1>1. /\ m \in Lives /\ m' \in Lives
      /\ m = "live" /\ m' = "deleting" => UNCHANGED <<loss, faults, backend>>
      /\ ~(m = "deleting" /\ m' = "live")
  BY DomainCommon, LifeStep DEF DomainInv, History, Older
<1>2. h' = (IF Excused' THEN {} ELSE L!Held(u)' \X {u})
  BY LvNames DEF L!Holdings, L!Excused, Excused
<1>3. /\ L!Held(u)' = {} <=> u \notin Owning'
      /\ L!Held(u)' \subseteq L!Kinds
  <2>1. /\ "domain" \in L!Held(u)' <=> u = L!domain'.uid
        /\ "disk" \in L!Held(u)' <=> u = L!disk'
        /\ "seed" \in L!Held(u)' <=> u = L!seed'.uid
        /\ L!Held(u)' \subseteq {"domain", "disk", "seed"}
    BY DEF L!Held, L!Kinds
  <2> HIDE DEF L!Held
  <2> QED BY <2>1 DEF Owning, L!Kinds
<1>4. (Excused' \/ u \notin Owning') => h' = {}
  BY <1>2, <1>3
<1>5. CASE m' = "absent"
  <2>1. ASSUME ~Excused' PROVE u \notin Owning'
    <3>1. ~Owned(u)'
      BY <1>5 DEF Owned, MachineOf, DomainInv, L!TypeOK, L!Objects, Lives, L!Lives
    <3>2. ~(pass'.snap.uid = u /\ (pc' \in Provisioning \/ pc' \in Cleaning))
      BY <1>5 DEF MachineOf, Provisioning, Cleaning
    <3> QED BY <2>1, <3>1, <3>2 DEF DomainInv, DomainCared, Owning
  <2> QED BY <1>4, <1>5, <2>1
<1>6. CASE m # "absent" /\ m' = m
  <2>1. h' \subseteq L!Resources
    BY LvNames, <1>2, <1>3 DEF L!Resources
  <2> QED BY <1>6, <2>1
<1>7. CASE m = "absent" /\ m' # "absent"
  <2>1. h = {}
    BY <1>7, DomainGone
  <2>2. ASSUME ~Excused' PROVE u \notin Owning'
    <3>1. ~Excused
      BY <2>2, DomainCommon, Unexcused DEF DomainInv
    <3>2. u \notin Owning
      BY <1>7, <3>1, DomainGone
    <3>3. ~(UNCHANGED <<obj, pass>> /\ pc \in Provisioning /\ pc' \in Provisioning)
      BY <1>7 DEF MachineOf, Provisioning
    <3> QED BY <3>2, <3>3, DomainMakes DEF DomainInv
  <2> QED BY <1>4, <1>7, <2>1, <2>2
<1>8. CASE m = "live" /\ m' = "deleting"
  <2>1. h' = h
    BY <1>1, <1>8 DEF L!Holdings, Excused, L!Excused, L!Held, L!domain, L!disk, L!seed
  <2> QED BY <1>8, <2>1
<1> QED BY <1>1, <1>5, <1>6, <1>7, <1>8 DEF Lives, L!Lives

\* At first the machine is there and nothing is held for it.
LEMMA DomainStart ==
    ASSUME L!Init
    PROVE  obj.life = "live" /\ obj.uid = 1 /\ pc = "idle" /\ L!Holdings = [u \in Uids |-> {}]
<1>1. obj.life = "live" /\ obj.uid = 1 /\ pc = "idle"
  BY DEF L!Init, Created, L!Created, L!NoObject
<1>2. L!domain.uid = L!NoOwner /\ L!disk = L!NoOwner /\ L!seed.uid = L!NoOwner /\ L!NoOwner \notin Uids
  BY DEF L!Init, L!NoSeed, L!NoDomain, L!NoOwner, L!domain, L!disk, L!seed, Uids, L!Uids
<1>3. \A u \in Uids : L!Held(u) = {}
  BY <1>2, DomainHolds DEF Owning
<1>4. L!Holdings = [u \in Uids |-> {}]
  BY LvNames, <1>3 DEF L!Holdings
<1> QED BY <1>1, <1>4

\* libvirtmachine.rs keeps the promise of an infrastructure CR, though it finds
\* everything by the machine's name: domain, disks and seed are made for a machine
\* only while it is there, and it goes only when none of them is left - unless the
\* pool is away when it is deleted, a finalizer is taken off by hand while nobody
\* looks, or while a pass looks that fails, or a pass writes to a machine of the
\* same name that was created in place of its own.
THEOREM LibvirtLifecycle == L!Spec => LvLifecycle!Spec
<1>1. L!Init => LvLifecycle!Init
  BY DomainStart DEF LvLifecycle!Init, MachineOf
<1>2. DomainInv /\ DomainInv' /\ [L!Next]_(L!vars) => [LvLifecycle!Next]_(LvLifecycle!lifecycle)
  <2> SUFFICES ASSUME DomainInv, DomainInv', [L!Next]_(L!vars) PROVE LvLifecycle!Next
    OBVIOUS
  <2> SUFFICES ASSUME NEW u \in Uids
               PROVE  \/ LvLifecycle!Appear(u) \/ LvLifecycle!Delete(u) \/ LvLifecycle!Vanish(u)
                      \/ LvLifecycle!Use(u) \/ LvLifecycle!Release(u)
    BY DEF LvLifecycle!Next
  <2> QED
    BY DomainRefines DEF LvLifecycle!Appear, LvLifecycle!Delete, LvLifecycle!Vanish, LvLifecycle!Use
<1> QED BY <1>1, <1>2, DomainInductive, PTL DEF L!Spec, LvLifecycle!Spec
-----------------------------------------------------------------------------
(***************************************************************************)
(* CloudHypervisorMachine implements MachineLifecycle as well.  Files are  *)
(* named after the machine, units and vTPM after a guest uid that the next *)
(* machine gets again, and a pass that finds its machine gone takes        *)
(* nothing back.  So what is there must have a machine under the finalizer *)
(* (GuestCared) that records the guest uid (UidRecorded), because without  *)
(* the record the finalizer goes and nothing is removed.                   *)
(*                                                                         *)
(* A guest also runs on the vTPM of its machine, and a complete one: who   *)
(* starts one has seen the EK files, and when these are there the state is *)
(* on its way or its loss is known (Manufactured).                         *)
(***************************************************************************)

GuestLifecycle == INSTANCE MachineLifecycle WITH
    Machines <- Uids, Resources <- C!Resources,
    machine <- [u \in Uids |-> MachineOf(u)], held <- C!Holdings

\* The stages of a pass for a live machine, without and with the finalizer's; and
\* those of a pass for a deleted one.
Converging == {"prepare", "tpm", "vmm", "boot", "powerOff", "stopTpm", "record", "failed"}
Reconciling == Converging \cup {"hostUid"}
Tearing == {"finalize", "teardownTpm", "teardownFiles", "finRemove"}

\* Whose files, keys, vTPM and units there are.
Using == backend.files \cup backend.ek
            \cup {backend.tpm.uid, backend.swtpm.uid, backend.vmm.uid}

\* Units and vTPM have an owner while they are there, and a complete vTPM its keys.
UnitsNamed ==
    /\ backend.vmm.st = "none" <=> backend.vmm.uid = C!NoOwner
    /\ backend.swtpm.st = "none" <=> backend.swtpm.uid = C!NoOwner
    /\ backend.setup = "running" \/ backend.tpm.full => backend.tpm.uid # C!NoOwner
    /\ backend.tpm.full => backend.tpm.uid \in backend.ek

\* A pass is one for a live or a deleted machine, and works on one with a guest uid.
PassRoutes ==
    /\ pc \in Tearing => pass.snap.life = "deleting"
    /\ pc \in Reconciling \cup {"finalizer"} => pass.snap.life = "live"
    /\ pc \in Converging \cup {"teardownTpm", "teardownFiles"} => pass.snap.huid

\* What the teardown leaves, stage by stage.
TornDown ==
    /\ pc \in {"teardownTpm", "teardownFiles"} => backend.vmm = C!NoUnit
    /\ pc = "teardownFiles" => backend.swtpm = C!NoUnit /\ backend.setup = "none"
    /\ pc = "finRemove" => Excused \/ pass.snap.uid \notin Using

\* Nothing was made for a machine that store and pass have not seen yet.
MadeBefore ==
    \A u \in Uids : u \in Using => u <= cache.uid /\ (pc # "idle" => u <= pass.snap.uid)

\* A newer copy of a machine has the guest uid an older one has.
Recalls(x, y) == x.huid /\ x.uid = y.uid => y.huid

\* No copy of a machine for which something was made is without its guest uid.
UidRecorded ==
    ~Excused =>
        /\ Recalls(cache, obj) /\ (cache.uid \in Using => cache.huid) /\ (obj.uid \in Using => obj.huid)
        /\ pc # "idle" => /\ Recalls(pass.snap, cache) /\ Recalls(pass.snap, obj)
                          /\ pass.snap.uid \in Using => pass.snap.huid

\* What is there has a machine under the finalizer.
GuestCared == ~Excused => \A u \in Uids : u \in Using => Owned(u)

\* No copy of the machine of uid u is live.
Live(x, u) == x.life = "live" /\ x.uid = u
Leaving(u) == ~Live(obj, u) /\ ~Live(cache, u) /\ (pc # "idle" => ~Live(pass.snap, u))

Whole == backend.tpm.full \/ "setup" \in loss

\* With its keys there a vTPM is whole, or being made, or of a machine that goes;
\* and whoever runs one runs a whole one.
Manufactured ==
    ~Excused =>
        /\ backend.tpm.uid \in backend.ek =>
              Whole \/ backend.setup = "running" \/ Leaving(backend.tpm.uid)
        /\ backend.swtpm.st # "none" =>
              /\ backend.swtpm.uid \in backend.ek /\ backend.setup # "running"
              /\ backend.tpm.uid # C!NoOwner /\ Whole

GuestInv ==
    /\ C!TypeOK /\ UnitsNamed /\ PassRoutes /\ TornDown /\ MadeBefore
    /\ History /\ Current /\ Witnessed(Reconciling) /\ UidRecorded /\ GuestCared /\ Manufactured

-----------------------------------------------------------------------------
\* What the module shares with the others.
LEMMA ChNames ==
    /\ C!Uids = Uids /\ C!Lives = Lives /\ C!Namesake = Namesake
    /\ C!Fail <=> Fail
    /\ C!Excused <=> Excused
    /\ \A u : C!MachineOf(u) = MachineOf(u)
BY DEF C!Uids, Uids, C!Lives, Lives, C!Namesake, Namesake, C!Fail, Fail, C!Excused, Excused,
   C!MachineOf, MachineOf

\* The records of the module.
ChPasses == [snap: C!Objects, running: BOOLEAN]
Vtpms == [uid: C!Owners, full: BOOLEAN]
SwtpmUnits == [uid: C!Owners, st: {"none", "run", "failed"}]
VmmUnits == [uid: C!Owners, st: {"none", "up", "run", "failed"}]

LEMMA ChObjects ==
    ASSUME NEW o \in C!Objects
    PROVE  /\ C!NoObject \in C!Objects /\ \A u \in Uids : C!Created(C!NoObject, u) \in C!Objects
           /\ [o EXCEPT !.fin = TRUE] \in C!Objects /\ C!FinalizerRemoved(o) \in C!Objects
           /\ \A l \in Lives : [o EXCEPT !.life = l] \in C!Objects
           /\ \A a \in BOOLEAN : [o EXCEPT !.huid = a] \in C!Objects
           /\ [o EXCEPT !.on = ~@] \in C!Objects /\ [o EXCEPT !.plans = ~@] \in C!Objects
           /\ \A a, b \in BOOLEAN : [o EXCEPT !.huid = a, !.ready = b] \in C!Objects
<1>1. 1 \in Uids /\ C!Uids = Uids /\ C!Lives = Lives
  BY BoundsAssumption, ChNames DEF Uids
<1> HIDE DEF Uids
<1> QED BY <1>1 DEF C!NoObject, C!Created, C!Objects, Lives, C!FinalizerRemoved

LEMMA ChPassRecords ==
    ASSUME NEW p \in ChPasses
    PROVE  /\ C!NoPass \in ChPasses
           /\ \A o \in C!Objects : [C!NoPass EXCEPT !.snap = o] \in ChPasses
           /\ [p EXCEPT !.running = TRUE] \in ChPasses
           /\ [p EXCEPT !.running = TRUE].snap = p.snap
<1>1. C!NoObject \in C!Objects
  BY BoundsAssumption DEF C!NoObject, C!Objects, C!Lives, C!Uids
<1> QED BY <1>1 DEF ChPasses, C!NoPass

-----------------------------------------------------------------------------
\* The host.

Becomes(files, ek, tpm, setup, swtpm, vmm) ==
    /\ backend'.files = files /\ backend'.ek = ek /\ backend'.tpm = tpm
    /\ backend'.setup = setup /\ backend'.swtpm = swtpm /\ backend'.vmm = vmm

\* What a pass makes for its machine.
Making ==
    /\ pc \in Converging /\ pc' \in Converging /\ UNCHANGED <<obj, cache, pass, loss>>
    /\ \/ Becomes(backend.files \cup {pass.snap.uid}, backend.ek, backend.tpm, backend.setup,
                  backend.swtpm, backend.vmm)
       \/ /\ pass.snap.uid \notin backend.ek /\ backend.setup = "none"
          /\ Becomes(backend.files, backend.ek, [uid |-> pass.snap.uid, full |-> FALSE], "running",
                     backend.swtpm, backend.vmm)
       \/ /\ pass.snap.uid \in backend.ek /\ backend.setup # "running"
          /\ backend.swtpm.st = "none" /\ backend.tpm.uid # C!NoOwner
          /\ Becomes(backend.files, backend.ek, backend.tpm, backend.setup,
                     [uid |-> pass.snap.uid, st |-> "run"], backend.vmm)
       \/ Becomes(backend.files, backend.ek, backend.tpm, backend.setup, backend.swtpm,
                  [uid |-> pass.snap.uid, st |-> "up"])

\* What a pass stops and removes.
Removing ==
    \/ /\ pc \in {"vmm", "powerOff", "finalize"}
       /\ Becomes(backend.files, backend.ek, backend.tpm, backend.setup, backend.swtpm, C!NoUnit)
    \/ /\ pc = "tpm"
       /\ Becomes(backend.files, backend.ek, backend.tpm, backend.setup, C!NoUnit, backend.vmm)
    \/ /\ pc = "teardownTpm" \/ (pc = "stopTpm" /\ C!HalfMade \subseteq loss')
       /\ Becomes(backend.files, backend.ek, backend.tpm, "none", C!NoUnit, backend.vmm)
    \/ /\ pc = "teardownFiles"
       /\ Becomes(backend.files \ {pass.snap.uid}, backend.ek \ {pass.snap.uid}, C!NoTpm,
                  backend.setup, backend.swtpm, backend.vmm)

\* What becomes of units.
Running ==
    \/ /\ backend.vmm.st # "none"
       /\ \E s \in {"up", "run", "failed"} :
             Becomes(backend.files, backend.ek, backend.tpm, backend.setup, backend.swtpm,
                     [uid |-> backend.vmm.uid, st |-> s])
    \/ /\ backend.swtpm.st # "none"
       /\ Becomes(backend.files, backend.ek, backend.tpm, backend.setup,
                  [uid |-> backend.swtpm.uid, st |-> "failed"], backend.vmm)
    \/ /\ backend.setup = "running" /\ C!HalfMade \subseteq loss'
       /\ Becomes(backend.files, backend.ek, backend.tpm, "failed", backend.swtpm, backend.vmm)
    \/ /\ backend.setup = "running" /\ backend.tpm.uid \notin backend.ek
       /\ Becomes(backend.files, backend.ek \cup {backend.tpm.uid}, backend.tpm, backend.setup,
                  backend.swtpm, backend.vmm)
    \/ /\ backend.setup = "running" /\ backend.tpm.uid \in backend.ek
       /\ \E t \in Vtpms : /\ t.uid = backend.tpm.uid /\ t.full
                          /\ Becomes(backend.files, backend.ek, t, "none", backend.swtpm, backend.vmm)
    \/ /\ backend.setup = "failed"
       /\ Becomes(backend.files, backend.ek, backend.tpm, "none", backend.swtpm, backend.vmm)
    \/ /\ C!HalfMade \subseteq loss'
       /\ Becomes(backend.files, backend.ek, backend.tpm, "none", C!NoUnit, C!NoUnit)

HostMoved == UNCHANGED backend \/ Making \/ Removing \/ Running

\* The fields of a host.
LEMMA HostFields ==
    ASSUME NEW b \in C!Hosts
    PROVE  /\ b.files \in SUBSET Uids /\ b.ek \in SUBSET Uids /\ b.tpm \in Vtpms
           /\ b.setup \in {"none", "running", "failed"} /\ b.swtpm \in SwtpmUnits /\ b.vmm \in VmmUnits
           /\ \A f \in SUBSET Uids : f \in SUBSET C!Uids
BY ChNames DEF C!Hosts, Vtpms, SwtpmUnits, VmmUnits

\* What the updates of a host do to its fields.
LEMMA HostUpdates ==
    ASSUME backend \in C!Hosts, NEW f \in SUBSET Uids, NEW e \in SUBSET Uids, NEW t \in Vtpms,
           NEW s \in {"none", "running", "failed"}, NEW w \in SwtpmUnits, NEW v \in VmmUnits
    PROVE  LET b == backend IN
           /\ backend' = [b EXCEPT !.files = f] =>
                 backend' \in C!Hosts /\ Becomes(f, b.ek, b.tpm, b.setup, b.swtpm, b.vmm)
           /\ backend' = [b EXCEPT !.ek = f] =>
                 backend' \in C!Hosts /\ Becomes(b.files, f, b.tpm, b.setup, b.swtpm, b.vmm)
           /\ backend' = [b EXCEPT !.tpm = t, !.setup = s] =>
                 backend' \in C!Hosts /\ Becomes(b.files, b.ek, t, s, b.swtpm, b.vmm)
           /\ backend' = [b EXCEPT !.swtpm = w] =>
                 backend' \in C!Hosts /\ Becomes(b.files, b.ek, b.tpm, b.setup, w, b.vmm)
           /\ backend' = [b EXCEPT !.vmm = v] =>
                 backend' \in C!Hosts /\ Becomes(b.files, b.ek, b.tpm, b.setup, b.swtpm, v)
           /\ backend' = [b EXCEPT !.setup = s] =>
                 backend' \in C!Hosts /\ Becomes(b.files, b.ek, b.tpm, s, b.swtpm, b.vmm)
           /\ backend' = [b EXCEPT !.swtpm = w, !.setup = s] =>
                 backend' \in C!Hosts /\ Becomes(b.files, b.ek, b.tpm, s, w, b.vmm)
           /\ backend' = [b EXCEPT !.setup = s, !.swtpm = w, !.vmm = v] =>
                 backend' \in C!Hosts /\ Becomes(b.files, b.ek, b.tpm, s, w, v)
           /\ backend' = [b EXCEPT !.files = f, !.ek = e, !.tpm = t] =>
                 backend' \in C!Hosts /\ Becomes(f, e, t, b.setup, b.swtpm, b.vmm)
<1>1. f \in SUBSET C!Uids /\ e \in SUBSET C!Uids
  BY ChNames
<1>2. t \in [uid: C!Owners, full: BOOLEAN] /\ w \in [uid: C!Owners, st: {"none", "run", "failed"}]
        /\ v \in [uid: C!Owners, st: {"none", "up", "run", "failed"}]
  BY DEF Vtpms, SwtpmUnits, VmmUnits
<1>3. ASSUME backend' = [backend EXCEPT !.files = f]
      PROVE  backend' \in C!Hosts /\ Becomes(f, backend.ek, backend.tpm, backend.setup, backend.swtpm, backend.vmm)
  BY <1>1, <1>3 DEF C!Hosts, Becomes
<1>4. ASSUME backend' = [backend EXCEPT !.ek = f]
      PROVE  backend' \in C!Hosts /\ Becomes(backend.files, f, backend.tpm, backend.setup, backend.swtpm, backend.vmm)
  BY <1>1, <1>4 DEF C!Hosts, Becomes
<1>5. ASSUME backend' = [backend EXCEPT !.tpm = t, !.setup = s]
      PROVE  backend' \in C!Hosts /\ Becomes(backend.files, backend.ek, t, s, backend.swtpm, backend.vmm)
  BY <1>2, <1>5 DEF C!Hosts, Becomes
<1>6. ASSUME backend' = [backend EXCEPT !.swtpm = w]
      PROVE  backend' \in C!Hosts /\ Becomes(backend.files, backend.ek, backend.tpm, backend.setup, w, backend.vmm)
  BY <1>2, <1>6 DEF C!Hosts, Becomes
<1>7. ASSUME backend' = [backend EXCEPT !.vmm = v]
      PROVE  backend' \in C!Hosts /\ Becomes(backend.files, backend.ek, backend.tpm, backend.setup, backend.swtpm, v)
  BY <1>2, <1>7 DEF C!Hosts, Becomes
<1>8. ASSUME backend' = [backend EXCEPT !.setup = s]
      PROVE  backend' \in C!Hosts /\ Becomes(backend.files, backend.ek, backend.tpm, s, backend.swtpm, backend.vmm)
  BY <1>8 DEF C!Hosts, Becomes
<1>9. ASSUME backend' = [backend EXCEPT !.swtpm = w, !.setup = s]
      PROVE  backend' \in C!Hosts /\ Becomes(backend.files, backend.ek, backend.tpm, s, w, backend.vmm)
  BY <1>2, <1>9 DEF C!Hosts, Becomes
<1>10. ASSUME backend' = [backend EXCEPT !.setup = s, !.swtpm = w, !.vmm = v]
       PROVE  backend' \in C!Hosts /\ Becomes(backend.files, backend.ek, backend.tpm, s, w, v)
  BY <1>2, <1>10 DEF C!Hosts, Becomes
<1>11. ASSUME backend' = [backend EXCEPT !.files = f, !.ek = e, !.tpm = t]
       PROVE  backend' \in C!Hosts /\ Becomes(f, e, t, backend.setup, backend.swtpm, backend.vmm)
  BY <1>1, <1>2, <1>11 DEF C!Hosts, Becomes
<1> QED BY <1>3, <1>4, <1>5, <1>6, <1>7, <1>8, <1>9, <1>10, <1>11

\* Every step changes the host in one of these ways, if at all.
LEMMA HostChanges ==
    ASSUME C!TypeOK, UnitsNamed, [C!Next]_(C!vars) PROVE backend' \in C!Hosts /\ HostMoved
<1>1. /\ backend \in C!Hosts /\ pass.snap.uid \in Uids
      /\ backend.files \in SUBSET Uids /\ backend.ek \in SUBSET Uids /\ backend.tpm \in Vtpms
      /\ backend.setup \in {"none", "running", "failed"}
      /\ backend.swtpm \in SwtpmUnits /\ backend.vmm \in VmmUnits
  BY HostFields, ChNames DEF C!TypeOK, C!Objects
<1>2. /\ C!NoTpm \in Vtpms /\ C!NoUnit \in SwtpmUnits /\ C!NoUnit \in VmmUnits
      /\ C!Unit("run") \in SwtpmUnits /\ C!Unit("run") = [uid |-> pass.snap.uid, st |-> "run"]
      /\ C!Unit("up") \in VmmUnits /\ C!Unit("up") = [uid |-> pass.snap.uid, st |-> "up"]
      /\ [uid |-> pass.snap.uid, full |-> FALSE] \in Vtpms
      /\ \A s \in {"up", "run", "failed"} : [uid |-> backend.vmm.uid, st |-> s] \in VmmUnits
      /\ [uid |-> backend.swtpm.uid, st |-> "failed"] \in SwtpmUnits
  BY <1>1, ChNames DEF C!NoTpm, C!NoUnit, C!Unit, Vtpms, SwtpmUnits, VmmUnits, C!Owners, C!NoOwner
<1>3. UNCHANGED backend => backend' \in C!Hosts /\ HostMoved
  BY <1>1 DEF HostMoved
<1>4. CASE C!prepare_dirs
  <2>1. /\ pc \in Converging /\ pc' \in Converging /\ UNCHANGED <<obj, cache, pass, loss>>
        /\ UNCHANGED backend \/ backend' = [backend EXCEPT !.files = backend.files \cup {pass.snap.uid}]
    BY <1>4 DEF C!prepare_dirs, C!Call, C!CallLosing, C!KeepApi, Converging
  <2>2. backend.files \cup {pass.snap.uid} \in SUBSET Uids
    BY <1>1
  <2> QED BY <1>1, <1>2, <1>3, <2>1, <2>2, HostUpdates DEF HostMoved, Making
<1>5. CASE C!ensure_tpm
  <2>1. pc = "tpm" /\ pc' \in {"failed", "record", "vmm"} /\ UNCHANGED <<obj, cache, pass, loss>>
    BY <1>5 DEF C!ensure_tpm, C!Call, C!CallLosing, C!KeepApi
  <2>2. \/ UNCHANGED backend
        \/ /\ pass.snap.uid \notin backend.ek /\ backend.setup = "none"
           /\ backend' = [backend EXCEPT !.tpm = [uid |-> pass.snap.uid, full |-> FALSE], !.setup = "running"]
        \/ backend' = [backend EXCEPT !.swtpm = C!NoUnit]
        \/ /\ pass.snap.uid \in backend.ek /\ backend.setup # "running"
           /\ backend.swtpm.st = "none" /\ backend.tpm.uid # C!NoOwner
           /\ backend' = [backend EXCEPT !.swtpm = C!Unit("run")]
    BY <1>5 DEF C!ensure_tpm, C!tpm_manufactured, C!Call, C!CallLosing
  <2>3. CASE /\ pass.snap.uid \notin backend.ek /\ backend.setup = "none"
             /\ backend' = [backend EXCEPT !.tpm = [uid |-> pass.snap.uid, full |-> FALSE], !.setup = "running"]
    BY <1>1, <1>2, <2>1, <2>3, HostUpdates DEF HostMoved, Making, Converging
  <2>4. CASE backend' = [backend EXCEPT !.swtpm = C!NoUnit]
    BY <1>1, <1>2, <2>1, <2>4, HostUpdates DEF HostMoved, Removing
  <2>5. CASE /\ pass.snap.uid \in backend.ek /\ backend.setup # "running"
             /\ backend.swtpm.st = "none" /\ backend.tpm.uid # C!NoOwner
             /\ backend' = [backend EXCEPT !.swtpm = C!Unit("run")]
    BY <1>1, <1>2, <2>1, <2>5, HostUpdates DEF HostMoved, Making, Converging
  <2> QED BY <1>3, <2>2, <2>3, <2>4, <2>5
<1>6. CASE C!start_vmm
  <2>1. pc = "vmm" /\ pc' \in {"failed", "record", "boot"} /\ UNCHANGED <<obj, cache, pass, loss>>
    BY <1>6 DEF C!start_vmm, C!Call, C!CallLosing, C!KeepApi
  <2>2. \/ UNCHANGED backend \/ backend' = [backend EXCEPT !.vmm = C!Unit("up")]
        \/ backend' = [backend EXCEPT !.vmm = C!NoUnit]
    BY <1>6 DEF C!start_vmm, C!Call, C!CallLosing
  <2>3. CASE backend' = [backend EXCEPT !.vmm = C!Unit("up")]
    BY <1>1, <1>2, <2>1, <2>3, HostUpdates DEF HostMoved, Making, Converging
  <2>4. CASE backend' = [backend EXCEPT !.vmm = C!NoUnit]
    BY <1>1, <1>2, <2>1, <2>4, HostUpdates DEF HostMoved, Removing
  <2> QED BY <1>3, <2>2, <2>3, <2>4
<1>7. ASSUME NEW s \in {"up", "run", "failed"}, backend.vmm.st # "none",
             backend' = [backend EXCEPT !.vmm.st = s]
      PROVE  backend' \in C!Hosts /\ HostMoved
  <2>1. [backend.vmm EXCEPT !.st = s] = [uid |-> backend.vmm.uid, st |-> s]
    BY <1>1 DEF VmmUnits
  <2>2. backend' = [backend EXCEPT !.vmm = [uid |-> backend.vmm.uid, st |-> s]]
    BY <1>7, <2>1
  <2>3. backend' \in C!Hosts /\ Becomes(backend.files, backend.ek, backend.tpm, backend.setup,
                                         backend.swtpm, [uid |-> backend.vmm.uid, st |-> s])
    BY <1>1, <1>2, <2>2, HostUpdates
  <2> QED BY <1>7, <2>3 DEF HostMoved, Running
<1>8. CASE C!boot
  <2>1. \/ UNCHANGED backend
        \/ backend.vmm.st # "none" /\ backend' = [backend EXCEPT !.vmm.st = "run"]
    BY <1>8 DEF C!boot
  <2> QED BY <1>3, <1>7, <2>1
<1>9. CASE C!power_off
  <2>1. \/ UNCHANGED backend
        \/ pc = "powerOff" /\ backend' = [backend EXCEPT !.vmm = C!NoUnit]
        \/ /\ pc = "stopTpm" /\ C!HalfMade \subseteq loss'
           /\ backend' = [backend EXCEPT !.swtpm = C!NoUnit, !.setup = "none"]
    BY <1>9 DEF C!power_off, C!Call, C!CallLosing
  <2>2. CASE pc = "powerOff" /\ backend' = [backend EXCEPT !.vmm = C!NoUnit]
    BY <1>1, <1>2, <2>2, HostUpdates DEF HostMoved, Removing
  <2>3. CASE /\ pc = "stopTpm" /\ C!HalfMade \subseteq loss'
             /\ backend' = [backend EXCEPT !.swtpm = C!NoUnit, !.setup = "none"]
    BY <1>1, <1>2, <2>3, HostUpdates DEF HostMoved, Removing
  <2> QED BY <1>3, <2>1, <2>2, <2>3
<1>10. CASE C!finalize
  <2>1. pc = "finalize" /\ (UNCHANGED backend \/ backend' = [backend EXCEPT !.vmm = C!NoUnit])
    BY <1>10 DEF C!finalize, C!Clean
  <2> QED BY <1>1, <1>2, <1>3, <2>1, HostUpdates DEF HostMoved, Removing
<1>11. CASE C!teardown
  <2>1. \/ UNCHANGED backend
        \/ pc = "teardownTpm" /\ backend' = [backend EXCEPT !.swtpm = C!NoUnit, !.setup = "none"]
        \/ /\ pc = "teardownFiles"
           /\ backend' = [backend EXCEPT !.files = backend.files \ {pass.snap.uid},
                                         !.ek = backend.ek \ {pass.snap.uid}, !.tpm = C!NoTpm]
    BY <1>11 DEF C!teardown, C!Clean
  <2>2. CASE pc = "teardownTpm" /\ backend' = [backend EXCEPT !.swtpm = C!NoUnit, !.setup = "none"]
    BY <1>1, <1>2, <2>2, HostUpdates DEF HostMoved, Removing
  <2>3. CASE /\ pc = "teardownFiles"
             /\ backend' = [backend EXCEPT !.files = backend.files \ {pass.snap.uid},
                                           !.ek = backend.ek \ {pass.snap.uid}, !.tpm = C!NoTpm]
    <3>1. backend.files \ {pass.snap.uid} \in SUBSET Uids /\ backend.ek \ {pass.snap.uid} \in SUBSET Uids
      BY <1>1
    <3> QED BY <1>1, <1>2, <2>3, <3>1, HostUpdates DEF HostMoved, Removing
  <2> QED BY <1>3, <2>1, <2>2, <2>3
<1>12. CASE C!SwtpmSetup
  <2>1. CASE backend.tpm.uid \notin backend.ek
    <3>1. backend.setup = "running" /\ backend' = [backend EXCEPT !.ek = backend.ek \cup {backend.tpm.uid}]
      BY <1>12, <2>1 DEF C!SwtpmSetup, C!Setup
    <3>2. backend.ek \cup {backend.tpm.uid} \in SUBSET Uids
      BY <1>1, <3>1, ChNames DEF UnitsNamed, Vtpms, C!Owners
    <3> QED BY <1>1, <1>2, <2>1, <3>1, <3>2, HostUpdates DEF HostMoved, Running
  <2>2. CASE backend.tpm.uid \in backend.ek
    <3>1. backend.setup = "running" /\ backend' = [backend EXCEPT !.tpm.full = TRUE, !.setup = "none"]
      BY <1>12, <2>2 DEF C!SwtpmSetup, C!Setup
    <3> DEFINE t == [backend.tpm EXCEPT !.full = TRUE]
    <3>2. t \in Vtpms /\ t.uid = backend.tpm.uid /\ t.full
      BY <1>1 DEF Vtpms
    <3>3. backend' = [backend EXCEPT !.tpm = t, !.setup = "none"]
      BY <3>1
    <3> HIDE DEF t
    <3>4. backend' \in C!Hosts /\ Becomes(backend.files, backend.ek, t, "none", backend.swtpm, backend.vmm)
      BY <1>1, <1>2, <3>2, <3>3, HostUpdates
    <3> QED BY <2>2, <3>1, <3>2, <3>4 DEF HostMoved, Running
  <2> QED BY <2>1, <2>2
<1>13. CASE C!GuestShutsDown
  BY <1>7, <1>13 DEF C!GuestShutsDown
<1>14. CASE C!UnitFails
  <2>1. C!HalfMade \subseteq loss'
    BY <1>14 DEF C!UnitFails
  <2>2. CASE backend.setup = "running" /\ backend' = [backend EXCEPT !.setup = "failed"]
    BY <1>1, <1>2, <2>1, <2>2, HostUpdates DEF HostMoved, Running
  <2>3. CASE backend.swtpm.st = "run" /\ backend' = [backend EXCEPT !.swtpm.st = "failed"]
    <3>1. [backend.swtpm EXCEPT !.st = "failed"] = [uid |-> backend.swtpm.uid, st |-> "failed"]
      BY <1>1 DEF SwtpmUnits
    <3>2. backend' = [backend EXCEPT !.swtpm = [uid |-> backend.swtpm.uid, st |-> "failed"]]
      BY <2>3, <3>1
    <3>3. backend' \in C!Hosts /\ Becomes(backend.files, backend.ek, backend.tpm, backend.setup,
                                           [uid |-> backend.swtpm.uid, st |-> "failed"], backend.vmm)
      BY <1>1, <1>2, <3>2, HostUpdates
    <3> QED BY <2>3, <3>3 DEF HostMoved, Running
  <2>4. CASE backend.vmm.st \in {"up", "run"} /\ backend' = [backend EXCEPT !.vmm.st = "failed"]
    BY <1>7, <2>4
  <2>5. CASE backend' = [backend EXCEPT !.setup = "none", !.swtpm = C!NoUnit, !.vmm = C!NoUnit]
    BY <1>1, <1>2, <2>1, <2>5, HostUpdates DEF HostMoved, Running
  <2> QED BY <1>14, <2>2, <2>3, <2>4, <2>5 DEF C!UnitFails
<1>15. CASE C!ResetFailed
  BY <1>1, <1>2, <1>15, HostUpdates DEF C!ResetFailed, HostMoved, Running
<1>16. CASE \/ C!Trigger \/ C!AddFinalizer \/ C!reconcile \/ C!patch_status \/ C!DropFinalizer
            \/ C!Stop \/ C!Sync \/ C!World \/ UNCHANGED C!vars
  <2>1. UNCHANGED backend
    BY <1>16 DEF C!Trigger, C!StartPass, C!AddFinalizer, C!EnsureFinalizer, C!reconcile,
       C!patch_status, C!DropFinalizer, C!RemoveFinalizer, C!Stop, C!Crash, C!Sync, C!World,
       C!CreateAgain, C!Create, C!Delete, C!TakeFinalizerOff, C!RemoveByHand, C!Edit, C!vars
  <2> QED BY <1>3, <2>1
<1> QED
  BY <1>4, <1>5, <1>6, <1>8, <1>9, <1>10, <1>11, <1>12, <1>13, <1>14, <1>15, <1>16 DEF C!Next,
     C!Pass

-----------------------------------------------------------------------------
\* The pass and the machine.

\* Where a pass goes from a stage, and what a teardown has done by then.
Advances ==
    \/ pc' = "idle" /\ pass' = C!NoPass
    \/ pc' = pc /\ pass' = pass
    \/ /\ pc = "idle" /\ cache.life # "absent" /\ UNCHANGED <<obj, cache>>
       /\ pc' = (IF cache.life = "deleting" THEN "finalize" ELSE "finalizer")
       /\ pass' = [C!NoPass EXCEPT !.snap = cache]
    \/ pc = "finalizer" /\ pc' = "hostUid" /\ pass' = pass
    \/ pc = "hostUid" /\ pc' \in Converging /\ pass' = pass /\ pass.snap.huid
    \/ pc \in Converging /\ pc' \in Converging /\ pass'.snap = pass.snap
    \/ /\ pc = "finalize" /\ pc' = "teardownTpm" /\ pass' = pass
       /\ pass.snap.huid /\ backend' = [backend EXCEPT !.vmm = C!NoUnit]
    \/ /\ pc = "finalize" /\ pc' = "finRemove" /\ pass' = pass
       /\ "unplanned" \in loss' \/ (~pass.snap.huid /\ UNCHANGED backend)
    \/ /\ pc = "teardownTpm" /\ pc' = "teardownFiles" /\ pass' = pass
       /\ backend' = [backend EXCEPT !.swtpm = C!NoUnit, !.setup = "none"]
    \/ /\ pc = "teardownFiles" /\ pc' = "finRemove" /\ pass' = pass
       /\ backend' = [backend EXCEPT !.files = backend.files \ {pass.snap.uid},
                                     !.ek = backend.ek \ {pass.snap.uid}, !.tpm = C!NoTpm]

\* Every step moves the pass along one of these, if at all.
LEMMA PassAdvances ==
    ASSUME C!TypeOK, [C!Next]_(C!vars) PROVE Advances
<1>1. CASE C!Trigger
  BY <1>1 DEF C!Trigger, C!StartPass, C!KeepApi, Advances
<1>2. CASE C!AddFinalizer
  BY <1>2 DEF C!AddFinalizer, C!EnsureFinalizer, C!Goto, C!EndPass, Advances
<1>3. CASE C!reconcile
  <2>1. \/ pc' = "idle" /\ pass' = C!NoPass
        \/ pc = "hostUid" /\ pc' \in {"failed", "prepare", "powerOff"} /\ pass' = pass /\ pass.snap.huid
    BY <1>3 DEF C!reconcile, C!PatchMachine, C!End, C!EndPass, C!Goto
  <2> QED BY <2>1 DEF Advances, Converging
<1>4. CASE C!prepare_dirs \/ C!ensure_tpm \/ C!start_vmm \/ C!power_off
  <2>1. /\ pc \in Converging /\ pass' = pass
        /\ pc' \in {"tpm", "failed", "record", "vmm", "boot", "stopTpm"}
    BY <1>4 DEF C!prepare_dirs, C!ensure_tpm, C!start_vmm, C!power_off, C!Call, C!CallLosing,
       Converging
  <2> QED BY <2>1 DEF Advances, Converging
<1>5. CASE C!boot
  <2>1. /\ pc \in Converging /\ pc' \in {"record", "failed"}
        /\ pass' \in {pass, [pass EXCEPT !.running = TRUE]}
    BY <1>5 DEF C!boot, C!Goto, Converging
  <2>2. [pass EXCEPT !.running = TRUE].snap = pass.snap
    BY DEF C!TypeOK
  <2> QED BY <2>1, <2>2 DEF Advances, Converging
<1>6. CASE C!patch_status
  BY <1>6 DEF C!patch_status, C!PatchMachine, C!End, C!EndPass, Advances
<1>7. CASE C!finalize
  BY <1>7 DEF C!finalize, C!Clean, C!End, C!EndPass, Advances
<1>8. CASE C!teardown
  BY <1>8 DEF C!teardown, C!Clean, C!End, C!EndPass, Advances
<1>9. CASE C!DropFinalizer \/ C!Stop
  BY <1>9 DEF C!DropFinalizer, C!RemoveFinalizer, C!Stop, C!Crash, C!EndPass, Advances
<1>10. CASE \/ C!Sync \/ C!SwtpmSetup \/ C!GuestShutsDown \/ C!UnitFails \/ C!ResetFailed
            \/ C!World \/ UNCHANGED C!vars
  <2>1. UNCHANGED <<pc, pass>>
    BY <1>10 DEF C!Sync, C!SwtpmSetup, C!GuestShutsDown, C!UnitFails, C!ResetFailed, C!HostOnly,
       C!World, C!CreateAgain, C!Create, C!Delete, C!TakeFinalizerOff, C!RemoveByHand, C!Edit,
       C!OnlyWorld, C!vars
  <2> QED BY <2>1 DEF Advances
<1> QED
  BY <1>1, <1>2, <1>3, <1>4, <1>5, <1>6, <1>7, <1>8, <1>9, <1>10 DEF C!Next, C!Pass

\* The guest uid a machine records.
HuidMoves ==
    obj'.uid = obj.uid + 1 \/ (obj'.uid = obj.uid /\ (obj.huid => obj'.huid))

\* What a step does to the machine.
LEMMA ChMachineMoves ==
    ASSUME C!TypeOK, PassRoutes, [C!Next]_(C!vars) PROVE ApiMoves(Reconciling) /\ HuidMoves
<1>1. /\ obj \in C!Objects /\ obj.life \in Lives /\ C!Namesake = Namesake
  BY ChNames DEF C!TypeOK, C!Objects
<1>2. /\ FinalizerRemoved(obj).life = (IF obj.life = "deleting" THEN "absent" ELSE obj.life)
      /\ FinalizerRemoved(obj).uid = obj.uid /\ ~FinalizerRemoved(obj).fin
      /\ FinalizerRemoved(obj).huid = obj.huid
      /\ C!FinalizerRemoved(obj) = FinalizerRemoved(obj)
  BY <1>1 DEF FinalizerRemoved, C!FinalizerRemoved, C!Objects
<1>3. ASSUME UNCHANGED <<obj, cache>>, loss \subseteq loss' PROVE ApiMoves(Reconciling) /\ HuidMoves
  BY <1>3 DEF ApiMoves, HuidMoves
<1>4. CASE C!AddFinalizer
  <2>1. CASE UNCHANGED obj
    BY <1>3, <1>4, <2>1 DEF C!AddFinalizer, C!EnsureFinalizer, C!Goto
  <2>2. CASE /\ pc = "finalizer" /\ pc' = "hostUid" /\ UNCHANGED cache /\ loss' = loss \cup Namesake
             /\ obj.life # "absent" /\ obj' = [obj EXCEPT !.fin = TRUE]
    <3>1. obj'.life = obj.life /\ obj'.uid = obj.uid /\ obj'.fin /\ obj'.huid = obj.huid
      BY <1>1, <2>2 DEF C!Objects
    <3> QED BY <2>2, <3>1 DEF ApiMoves, HuidMoves
  <2> QED BY <1>1, <1>4, <2>1, <2>2 DEF C!AddFinalizer, C!EnsureFinalizer
<1>5. CASE C!reconcile \/ C!patch_status
  <2>1. /\ UNCHANGED cache /\ loss \subseteq loss'
        /\ \/ UNCHANGED obj
           \/ obj' = [obj EXCEPT !.huid = TRUE]
           \/ pc \in {"record", "failed"} /\ obj' = [obj EXCEPT !.huid = pass.snap.huid, !.ready = pass.running]
           \/ pc \in {"record", "failed"} /\ obj' = [obj EXCEPT !.huid = pass.snap.huid, !.ready = FALSE]
    BY <1>5 DEF C!reconcile, C!patch_status, C!PatchMachine, C!Goto
  <2>2. pc \in {"record", "failed"} => pass.snap.huid /\ pass.snap.huid \in BOOLEAN
    BY DEF PassRoutes, Converging, C!TypeOK, C!Objects
  <2>3. CASE UNCHANGED obj
    BY <1>3, <2>1, <2>3
  <2>4. CASE ~UNCHANGED obj
    <3>1. obj'.life = obj.life /\ obj'.uid = obj.uid /\ obj'.fin = obj.fin /\ obj'.huid
      BY <1>1, <2>1, <2>2, <2>4 DEF C!Objects
    <3> QED BY <2>1, <3>1 DEF ApiMoves, HuidMoves
  <2> QED BY <2>3, <2>4
<1>6. CASE C!DropFinalizer
  <2>1. \/ UNCHANGED obj /\ loss \subseteq loss'
        \/ /\ pc = "finRemove" /\ pc' = "idle" /\ obj' = C!FinalizerRemoved(obj)
           /\ loss' = loss \cup Namesake
    BY <1>1, <1>6 DEF C!DropFinalizer, C!RemoveFinalizer, C!EndPass
  <2>2. UNCHANGED cache
    BY <1>6 DEF C!DropFinalizer, C!RemoveFinalizer
  <2> QED BY <1>2, <1>3, <2>1, <2>2 DEF ApiMoves, HuidMoves
<1>7. CASE C!CreateAgain
  <2>1. obj'.life = "live" /\ obj'.uid = obj.uid + 1 /\ ~obj'.fin
    BY <1>7 DEF C!CreateAgain, C!Create, C!Created, C!NoObject
  <2>2. UNCHANGED <<cache, pc, pass, loss>> /\ obj.life = "absent"
    BY <1>7 DEF C!CreateAgain, C!Create, C!OnlyWorld
  <2> QED BY <2>1, <2>2 DEF ApiMoves, HuidMoves
<1>8. CASE C!Delete
  <2>1. UNCHANGED <<cache, pc, pass, loss, faults, backend>> /\ obj.life = "live"
          /\ obj' = [obj EXCEPT !.life = IF obj.fin THEN "deleting" ELSE "absent"]
    BY <1>8 DEF C!Delete, C!OnlyWorld
  <2>2. /\ obj'.life = (IF obj.fin THEN "deleting" ELSE "absent")
        /\ obj'.uid = obj.uid /\ obj'.fin = obj.fin /\ obj'.huid = obj.huid
    BY <1>1, <2>1 DEF C!Objects
  <2> QED BY <2>1, <2>2 DEF ApiMoves, HuidMoves
<1>9. CASE C!TakeFinalizerOff
  <2>1. /\ UNCHANGED <<cache, pc, pass>> /\ obj.life = "deleting" /\ obj' = C!FinalizerRemoved(obj)
        /\ loss \subseteq loss' /\ "forced" \in loss'
    BY <1>9 DEF C!TakeFinalizerOff, C!RemoveByHand, C!OnlyWorld
  <2> QED BY <1>2, <2>1 DEF ApiMoves, HuidMoves
<1>10. CASE C!Edit
  <2>1. /\ UNCHANGED <<cache, loss>>
        /\ obj' \in {[obj EXCEPT !.on = ~@], [obj EXCEPT !.plans = ~@]}
    BY <1>10 DEF C!Edit, C!OnlyWorld
  <2>2. obj'.life = obj.life /\ obj'.uid = obj.uid /\ obj'.fin = obj.fin /\ obj'.huid = obj.huid
    BY <1>1, <2>1 DEF C!Objects
  <2> QED BY <2>1, <2>2 DEF ApiMoves, HuidMoves
<1>11. CASE C!Sync
  BY <1>11 DEF C!Sync, ApiMoves, HuidMoves
<1>12. CASE \/ C!Trigger \/ C!prepare_dirs \/ C!ensure_tpm \/ C!start_vmm \/ C!boot \/ C!power_off
            \/ C!finalize \/ C!teardown \/ C!Stop \/ C!SwtpmSetup \/ C!GuestShutsDown
            \/ C!UnitFails \/ C!ResetFailed \/ UNCHANGED C!vars
  <2>1. UNCHANGED <<obj, cache>> /\ loss \subseteq loss'
    BY <1>12 DEF C!Trigger, C!StartPass, C!prepare_dirs, C!ensure_tpm, C!start_vmm, C!boot,
       C!power_off, C!Call, C!CallLosing, C!finalize, C!teardown, C!Clean, C!Stop, C!Crash,
       C!SwtpmSetup, C!GuestShutsDown, C!UnitFails, C!ResetFailed, C!HostOnly, C!Goto,
       C!KeepApi, C!vars
  <2> QED BY <1>3, <2>1
<1> QED
  BY <1>4, <1>5, <1>6, <1>7, <1>8, <1>9, <1>10, <1>11, <1>12 DEF C!Next, C!Pass, C!World

\* Every step keeps the types.
LEMMA ChTypes ==
    ASSUME C!TypeOK, UnitsNamed, [C!Next]_(C!vars) PROVE C!TypeOK'
<1>1. /\ obj \in C!Objects /\ cache \in C!Objects /\ pass \in ChPasses /\ pass.snap \in C!Objects
      /\ pass.snap.huid \in BOOLEAN /\ pass.running \in BOOLEAN
      /\ provider \in BOOLEAN /\ pc \in C!Stages /\ backend' \in C!Hosts
  BY HostChanges DEF C!TypeOK, ChPasses, C!Objects
<1>2. {"idle", "finalizer", "hostUid", "prepare", "tpm", "vmm", "boot", "powerOff", "stopTpm", "record",
       "failed", "finalize", "teardownTpm", "teardownFiles", "finRemove"} \subseteq C!Stages
  BY DEF C!Stages
<1>3. ASSUME obj' \in C!Objects, cache' \in C!Objects, provider' \in BOOLEAN, pc' \in C!Stages,
             pass' \in ChPasses,
             \/ UNCHANGED loss \/ loss' = loss \cup C!Namesake \/ loss' = loss \cup C!HalfMade
             \/ loss' \in {loss \cup {"forced"}, loss \cup {"unplanned"}, loss \cup {}},
             UNCHANGED faults \/ C!Fail, UNCHANGED changes \/ C!Change
      PROVE  C!TypeOK'
  <2>1. faults' \in 0..MaxFaults /\ changes' \in 0..MaxChanges
    BY <1>3, BoundsAssumption DEF C!Fail, C!Change, C!TypeOK
  <2>2. loss' \subseteq {"forced", "namesake", "unplanned", "setup"}
    BY <1>3 DEF C!Namesake, C!HalfMade, C!TypeOK
  <2> QED BY <1>1, <1>3, <2>1, <2>2 DEF C!TypeOK, ChPasses
<1> HIDE DEF C!Stages
<1>4. CASE C!Trigger
  BY <1>1, <1>2, <1>3, <1>4, ChPassRecords DEF C!Trigger, C!StartPass, C!KeepApi, C!Keep
<1>5. CASE C!AddFinalizer
  BY <1>1, <1>2, <1>3, <1>5, ChPassRecords, ChObjects
     DEF C!AddFinalizer, C!EnsureFinalizer, C!Goto, C!EndPass, C!Keep
<1>6. CASE C!reconcile
  <2>1. /\ UNCHANGED <<cache, provider, changes>> /\ obj' \in {obj, [obj EXCEPT !.huid = TRUE]}
        /\ pc' \in {"idle", "failed", "prepare", "powerOff"} /\ pass' \in {pass, C!NoPass}
        /\ UNCHANGED loss \/ loss' = loss \cup C!Namesake
        /\ UNCHANGED faults \/ C!Fail
    BY <1>6 DEF C!reconcile, C!PatchMachine, C!End, C!EndPass, C!Goto, C!Keep
  <2> QED BY <1>1, <1>2, <1>3, <2>1, ChPassRecords, ChObjects
<1>7. CASE C!prepare_dirs \/ C!ensure_tpm \/ C!start_vmm \/ C!power_off
  <2>1. /\ UNCHANGED <<obj, cache, provider, pass, changes>> /\ (UNCHANGED faults \/ C!Fail)
        /\ loss' = loss \cup {} \/ loss' = loss \cup C!HalfMade
        /\ pc' \in {"tpm", "failed", "record", "vmm", "boot", "stopTpm"}
    BY <1>7 DEF C!prepare_dirs, C!ensure_tpm, C!start_vmm, C!power_off, C!Call, C!CallLosing,
       C!KeepApi, C!Keep
  <2> QED BY <1>1, <1>2, <1>3, <2>1
<1>8. CASE C!boot
  <2>1. /\ UNCHANGED <<obj, cache, provider, loss, changes>> /\ (UNCHANGED faults \/ C!Fail)
        /\ pc' \in {"record", "failed"} /\ pass' \in {pass, [pass EXCEPT !.running = TRUE]}
    BY <1>8 DEF C!boot, C!Goto, C!KeepApi, C!Keep
  <2> QED BY <1>1, <1>2, <1>3, <2>1, ChPassRecords
<1>9. CASE C!patch_status
  <2>1. /\ UNCHANGED <<cache, provider, changes>> /\ pc' = "idle" /\ pass' = C!NoPass
        /\ obj' \in {obj, [obj EXCEPT !.huid = pass.snap.huid, !.ready = pass.running],
                     [obj EXCEPT !.huid = pass.snap.huid, !.ready = FALSE]}
        /\ UNCHANGED loss \/ loss' = loss \cup C!Namesake
        /\ UNCHANGED faults \/ C!Fail
    BY <1>9 DEF C!patch_status, C!PatchMachine, C!End, C!EndPass, C!Keep
  <2> QED BY <1>1, <1>2, <1>3, <2>1, ChPassRecords, ChObjects
<1>10. CASE C!finalize \/ C!teardown
  <2>1. /\ UNCHANGED <<obj, cache, provider, changes>> /\ (UNCHANGED faults \/ C!Fail)
        /\ UNCHANGED loss \/ loss' = loss \cup {"unplanned"}
        /\ pc' \in {"idle", "finRemove", "teardownTpm", "teardownFiles"} /\ pass' \in {pass, C!NoPass}
    BY <1>10 DEF C!finalize, C!teardown, C!Clean, C!End, C!EndPass, C!KeepApi, C!Keep
  <2> QED BY <1>1, <1>2, <1>3, <2>1, ChPassRecords
<1>11. CASE C!DropFinalizer
  BY <1>1, <1>2, <1>3, <1>11, ChPassRecords, ChObjects
     DEF C!DropFinalizer, C!RemoveFinalizer, C!EndPass, C!Keep
<1>12. CASE C!Stop \/ C!Sync
  BY <1>1, <1>2, <1>3, <1>12, ChPassRecords
     DEF C!Stop, C!Crash, C!Sync, C!EndPass, C!KeepApi, C!Keep
<1>13. CASE C!SwtpmSetup \/ C!GuestShutsDown \/ C!UnitFails \/ C!ResetFailed
  <2>1. /\ UNCHANGED <<obj, cache, pc, pass, provider, changes>> /\ (UNCHANGED faults \/ C!Fail)
        /\ UNCHANGED loss \/ loss' = loss \cup C!HalfMade
    BY <1>13 DEF C!SwtpmSetup, C!GuestShutsDown, C!UnitFails, C!ResetFailed, C!HostOnly, C!Keep
  <2> QED BY <1>1, <1>3, <2>1
<1>14. CASE C!CreateAgain
  <2>1. obj.uid + 1 \in Uids
    BY <1>1, <1>14, BoundsAssumption DEF C!CreateAgain, C!Create, C!Objects, C!Uids, Uids
  <2>2. C!Created(C!NoObject, obj.uid + 1) \in C!Objects
    BY <1>1, <2>1, ChObjects
  <2> QED BY <1>1, <1>3, <1>14, <2>2 DEF C!CreateAgain, C!Create, C!OnlyWorld
<1>15. CASE C!Delete
  <2>1. (IF obj.fin THEN "deleting" ELSE "absent") \in Lives
    BY DEF Lives
  <2> QED BY <1>1, <1>3, <1>15, <2>1, ChObjects DEF C!Delete, C!OnlyWorld
<1>16. CASE C!TakeFinalizerOff
  BY <1>1, <1>3, <1>16, ChObjects DEF C!TakeFinalizerOff, C!RemoveByHand, C!OnlyWorld
<1>17. CASE C!Edit
  BY <1>1, <1>3, <1>17, ChObjects DEF C!Edit, C!OnlyWorld
<1>18. CASE UNCHANGED C!vars
  BY <1>18 DEF C!vars, C!TypeOK
<1> QED
  BY <1>4, <1>5, <1>6, <1>7, <1>8, <1>9, <1>10, <1>11, <1>12, <1>13, <1>14, <1>15, <1>16, <1>17,
     <1>18 DEF C!Next, C!Pass, C!World

\* A call failed, or none did.
LEMMA ChCallsFail ==
    ASSUME C!TypeOK, [C!Next]_(C!vars) PROVE FaultMoves
<1>1. CASE C!Pass
  BY <1>1, ChNames DEF C!Pass, C!AddFinalizer, C!EnsureFinalizer, C!reconcile, C!PatchMachine,
     C!prepare_dirs, C!ensure_tpm, C!start_vmm, C!power_off, C!Call, C!CallLosing, C!boot,
     C!patch_status, C!finalize, C!teardown, C!Clean, C!DropFinalizer, C!RemoveFinalizer,
     FaultMoves
<1>2. CASE ~C!Pass
  BY <1>2, ChNames DEF C!Next, C!Trigger, C!StartPass, C!Stop, C!Crash, C!Sync, C!SwtpmSetup,
     C!GuestShutsDown, C!UnitFails, C!ResetFailed, C!World, C!CreateAgain, C!Create, C!Delete,
     C!TakeFinalizerOff, C!RemoveByHand, C!Edit, C!OnlyWorld, C!vars, FaultMoves
<1> QED BY <1>1, <1>2

\* The route of a pass is settled by what it was handed.
LEMMA ChRoutes ==
    ASSUME C!TypeOK, PassRoutes, History, [C!Next]_(C!vars) PROVE PassRoutes'
<1>1. Advances
  BY PassAdvances
<1>2. [C!NoPass EXCEPT !.snap = cache].snap = cache
  BY DEF C!NoPass
<1>3. cache.life \in Lives
  BY ChNames DEF C!TypeOK, C!Objects
<1> QED BY <1>1, <1>2, <1>3 DEF Advances, PassRoutes, Reconciling, Converging, Tearing, Lives

\* What the pass of one step has to do with that of the next.
LEMMA ChCopies ==
    ASSUME C!TypeOK, PassRoutes, [C!Next]_(C!vars) PROVE SnapMoves /\ Enters(Reconciling)
<1>1. [C!NoPass EXCEPT !.snap = cache].snap = cache
  BY DEF C!NoPass
<1>2. SnapMoves
  BY <1>1, PassAdvances DEF Advances, Converging, SnapMoves
<1>3. ASSUME pc' \in Reconciling, pc \notin Reconciling
      PROVE  /\ pc = "finalizer" /\ pc' # "idle" /\ pass.snap.life = "live"
             /\ \/ pass.snap.fin
                \/ obj'.life # "absent" /\ obj'.uid = obj.uid /\ obj'.fin /\ loss' = loss \cup Namesake
  <2>1. pc = "finalizer" /\ pc' = "hostUid"
    BY <1>3, PassAdvances DEF Advances, Reconciling, Converging
  <2>2. C!AddFinalizer
    BY <2>1 DEF C!Next, C!Trigger, C!StartPass, C!Pass, C!reconcile, C!prepare_dirs, C!ensure_tpm,
       C!start_vmm, C!boot, C!power_off, C!Call, C!patch_status, C!finalize, C!teardown,
       C!DropFinalizer, C!RemoveFinalizer, C!Stop, C!Crash, C!EndPass, C!Sync, C!SwtpmSetup,
       C!GuestShutsDown, C!UnitFails, C!ResetFailed, C!HostOnly, C!World, C!CreateAgain,
       C!Create, C!Delete, C!TakeFinalizerOff, C!RemoveByHand, C!Edit, C!OnlyWorld, C!vars
  <2>3. \/ pass.snap.fin
        \/ obj' = [obj EXCEPT !.fin = TRUE] /\ loss' = loss \cup Namesake /\ obj.life # "absent"
    BY <2>1, <2>2, ChNames DEF C!AddFinalizer, C!EnsureFinalizer, C!EndPass
  <2> QED BY <2>1, <2>3 DEF PassRoutes, C!TypeOK, C!Objects
<1>4. ~("idle" \in Reconciling)
  BY DEF Reconciling, Converging
<1> QED BY <1>2, <1>3, <1>4 DEF Enters

\* Every step is as InfraMachineProofs has it.
LEMMA ChCommon ==
    ASSUME C!TypeOK, UnitsNamed, PassRoutes, [C!Next]_(C!vars)
    PROVE  /\ Copies /\ Copies' /\ ApiMoves(Reconciling) /\ SnapMoves /\ FaultMoves
           /\ Enters(Reconciling) /\ (pc = "finRemove" => pass.snap.life = "deleting")
<1>1. Copies /\ Copies'
  BY ChTypes, ChNames, BoundsAssumption DEF C!TypeOK, Copies, C!Objects
<1>2. pc = "finRemove" => pass.snap.life = "deleting"
  BY DEF PassRoutes, Tearing
<1> QED BY <1>1, <1>2, ChMachineMoves, ChCallsFail, ChCopies

-----------------------------------------------------------------------------
\* What is made and removed.

\* The types of what the steps below compare.
LEMMA ChNumbers ==
    ASSUME C!TypeOK
    PROVE  /\ obj.uid \in Uids /\ cache.uid \in Uids /\ pass.snap.uid \in Uids
           /\ \A u \in Uids : u \in Nat /\ u # C!NoOwner
           /\ backend.files \subseteq Uids /\ backend.ek \subseteq Uids
           /\ backend.tpm.uid \in Uids \cup {C!NoOwner}
           /\ backend.swtpm.uid \in Uids \cup {C!NoOwner} /\ backend.vmm.uid \in Uids \cup {C!NoOwner}
           /\ "noticed" \notin loss
<1>1. C!Uids = Uids /\ C!Owners = Uids \cup {C!NoOwner}
  BY ChNames DEF C!Owners
<1>2. \A u \in Uids : u \in Nat /\ u # C!NoOwner
  BY DEF Uids, C!NoOwner
<1> QED BY <1>1, <1>2 DEF C!TypeOK, C!Objects, C!Hosts

\* Units and vTPM keep their owners.
LEMMA UnitsStep ==
    ASSUME C!TypeOK, UnitsNamed, TornDown, [C!Next]_(C!vars) PROVE UnitsNamed'
<1>1. HostMoved
  BY HostChanges
<1>2. /\ pass.snap.uid # C!NoOwner /\ C!NoUnit.uid = C!NoOwner /\ C!NoUnit.st = "none"
      /\ C!NoTpm.uid = C!NoOwner /\ C!NoTpm.full = FALSE
  BY ChNumbers DEF C!NoUnit, C!NoTpm
<1> HIDE DEF C!NoUnit, C!NoTpm, C!NoOwner
<1>3. CASE UNCHANGED backend
  BY <1>3 DEF UnitsNamed
<1>4. CASE Making
  BY <1>2, <1>4 DEF Making, Becomes, UnitsNamed
<1>5. CASE Removing
  BY <1>2, <1>5 DEF Removing, Becomes, UnitsNamed, TornDown
<1>6. CASE Running
  BY <1>2, <1>6 DEF Running, Becomes, UnitsNamed
<1> QED BY <1>1, <1>3, <1>4, <1>5, <1>6 DEF HostMoved

\* A step makes something for the machine of its pass only.
LEMMA ChMakes ==
    ASSUME C!TypeOK, UnitsNamed, [C!Next]_(C!vars), NEW u \in Uids, u \in Using', u \notin Using
    PROVE  /\ u = pass.snap.uid /\ pc \in Converging /\ pc' \in Converging
           /\ UNCHANGED <<obj, cache, pass, loss>>
<1>1. HostMoved
  BY HostChanges
<1>2. u # C!NoOwner /\ C!NoUnit.uid = C!NoOwner /\ C!NoTpm.uid = C!NoOwner
  BY ChNumbers DEF C!NoUnit, C!NoTpm
<1> HIDE DEF C!NoUnit, C!NoTpm, C!NoOwner
<1>3. CASE UNCHANGED backend
  BY <1>3 DEF Using
<1>4. CASE Making
  BY <1>2, <1>4 DEF Making, Becomes, Using
<1>5. CASE Removing
  BY <1>2, <1>5 DEF Removing, Becomes, Using
<1>6. CASE Running
  BY <1>2, <1>6 DEF Running, Becomes, Using
<1> QED BY <1>1, <1>3, <1>4, <1>5, <1>6 DEF HostMoved

\* What excuses does so for good.
LEMMA ChUnexcused ==
    ASSUME C!TypeOK, UnitsNamed, PassRoutes, [C!Next]_(C!vars), ~Excused'
    PROVE  /\ ~Excused /\ loss \subseteq loss' /\ "unplanned" \notin loss'
           /\ loss' = loss \cup Namesake => obj.uid = pass.snap.uid
BY ChCommon, Unexcused

\* The teardown leaves nothing behind that somebody could make again meanwhile.
LEMMA TornDownStep ==
    ASSUME C!TypeOK, UnitsNamed, PassRoutes, TornDown, UidRecorded, [C!Next]_(C!vars)
    PROVE  TornDown'
<1>1. HostMoved /\ Advances /\ backend \in C!Hosts
  BY HostChanges, PassAdvances DEF C!TypeOK
<1>2. /\ C!NoUnit.uid = C!NoOwner /\ C!NoUnit.st = "none" /\ C!NoTpm.uid = C!NoOwner
      /\ pass.snap.uid # C!NoOwner /\ pass.snap.uid \in Uids
  BY ChNumbers DEF C!NoUnit, C!NoTpm
<1> HIDE DEF C!NoUnit, C!NoTpm, C!NoOwner
<1>3. ASSUME pc' = pc, pc \in {"teardownTpm", "teardownFiles"}
      PROVE  /\ backend'.vmm = C!NoUnit
             /\ pc = "teardownFiles" => backend'.swtpm = C!NoUnit /\ backend'.setup = "none"
  <2>1. CASE UNCHANGED backend
    BY <1>3, <2>1 DEF TornDown
  <2>2. CASE Removing
    BY <1>3, <2>2 DEF Removing, Becomes, TornDown
  <2>3. CASE Running
    BY <1>2, <1>3, <2>3 DEF Running, Becomes, TornDown
  <2> QED BY <1>1, <1>3, <2>1, <2>2, <2>3 DEF HostMoved, Making, Converging
<1>4. ASSUME pc' = "teardownTpm" PROVE backend'.vmm = C!NoUnit
  <2>1. CASE pc = "finalize" /\ backend' = [backend EXCEPT !.vmm = C!NoUnit]
    BY <1>1, <2>1 DEF C!Hosts
  <2> QED BY <1>1, <1>3, <1>4, <2>1 DEF Advances, Converging
<1>5. ASSUME pc' = "teardownFiles"
      PROVE  backend'.vmm = C!NoUnit /\ backend'.swtpm = C!NoUnit /\ backend'.setup = "none"
  <2>1. CASE pc = "teardownTpm" /\ backend' = [backend EXCEPT !.swtpm = C!NoUnit, !.setup = "none"]
    BY <1>1, <2>1 DEF C!Hosts, TornDown
  <2> QED BY <1>1, <1>3, <1>5, <2>1 DEF Advances, Converging
<1>6. ASSUME pc' = "finRemove", ~Excused' PROVE pass'.snap.uid \notin Using'
  <2>1. ~Excused /\ "unplanned" \notin loss'
    BY <1>6, ChUnexcused
  <2>2. CASE pc = "finRemove" /\ pass' = pass
    <3>1. pass.snap.uid \notin Using /\ pc \notin Converging
      BY <2>1, <2>2 DEF TornDown, Converging
    <3> QED BY <1>2, <2>2, <3>1, ChMakes
  <2>3. CASE pc = "finalize" /\ pass' = pass /\ ~pass.snap.huid /\ UNCHANGED backend
    BY <2>1, <2>3 DEF UidRecorded, Using
  <2>4. CASE /\ pc = "teardownFiles" /\ pass' = pass
             /\ backend' = [backend EXCEPT !.files = backend.files \ {pass.snap.uid},
                                           !.ek = backend.ek \ {pass.snap.uid}, !.tpm = C!NoTpm]
    <3>1. /\ backend'.files = backend.files \ {pass.snap.uid} /\ backend'.ek = backend.ek \ {pass.snap.uid}
          /\ backend'.tpm = C!NoTpm /\ backend'.swtpm = C!NoUnit /\ backend'.vmm = C!NoUnit
      BY <1>1, <2>4 DEF C!Hosts, TornDown
    <3> QED BY <1>2, <2>4, <3>1 DEF Using
  <2> QED BY <1>1, <1>6, <2>1, <2>2, <2>3, <2>4 DEF Advances, Converging
<1> QED BY <1>4, <1>5, <1>6 DEF TornDown

\* Store and pass know every machine for which something is made.
LEMMA MadeBeforeStep ==
    ASSUME C!TypeOK, UnitsNamed, PassRoutes, MadeBefore, History, [C!Next]_(C!vars)
    PROVE  MadeBefore'
<1> SUFFICES ASSUME NEW u \in Uids, u \in Using'
             PROVE  u <= cache'.uid /\ (pc' # "idle" => u <= pass'.snap.uid)
  BY DEF MadeBefore, Uids
<1>1. obj.uid \in Nat /\ cache.uid \in Nat /\ pass.snap.uid \in Nat /\ u \in Nat
  BY ChNumbers
<1>2. CASE u \notin Using
  <2>1. u = pass.snap.uid /\ pc # "idle" /\ UNCHANGED <<cache, pass>>
    BY <1>2, ChMakes DEF Converging
  <2> QED BY <1>1, <2>1 DEF History, Older
<1>3. CASE u \in Using
  <2>1. u <= cache.uid /\ (pc # "idle" => u <= pass.snap.uid)
    BY <1>3 DEF MadeBefore
  <2>2. cache' = cache \/ cache' = obj
    BY ChMachineMoves DEF ApiMoves
  <2>3. u <= cache'.uid
    BY <1>1, <2>1, <2>2 DEF History, Older
  <2> QED BY <2>1, <2>3, ChCopies DEF SnapMoves
<1> QED BY <1>2, <1>3

\* Nobody takes the record of a guest uid back.
LEMMA UidRecordedStep ==
    ASSUME C!TypeOK, UnitsNamed, PassRoutes, MadeBefore, History, UidRecorded, [C!Next]_(C!vars)
    PROVE  UidRecorded'
<1> SUFFICES ASSUME ~Excused'
             PROVE  /\ Recalls(cache', obj') /\ (cache'.uid \in Using' => cache'.huid)
                    /\ obj'.uid \in Using' => obj'.huid
                    /\ pc' # "idle" => /\ Recalls(pass'.snap, cache') /\ Recalls(pass'.snap, obj')
                                       /\ pass'.snap.uid \in Using' => pass'.snap.huid
  BY DEF UidRecorded, Recalls
<1>1. ~Excused
  BY ChUnexcused
<1>2. /\ obj.uid \in Uids /\ cache.uid \in Uids /\ pass.snap.uid \in Uids
      /\ obj.uid \in Nat /\ cache.uid \in Nat /\ pass.snap.uid \in Nat
  BY ChNumbers
<1>3. cache.uid <= obj.uid /\ (pc # "idle" => pass.snap.uid <= obj.uid /\ pass.snap.uid <= cache.uid)
  BY DEF History, Older
<1>4. HuidMoves /\ SnapMoves /\ ApiMoves(Reconciling)
  BY ChMachineMoves, ChCopies
<1>5. ASSUME NEW x, x.uid \in Nat, x.uid <= obj.uid, Recalls(x, obj) PROVE Recalls(x, obj')
  BY <1>2, <1>4, <1>5 DEF Recalls, HuidMoves
<1>6. Recalls(cache, cache) /\ Recalls(obj, obj)
  BY DEF Recalls
<1>7. cache' = cache \/ (cache' = obj /\ UNCHANGED <<obj, pc>>)
  BY <1>4 DEF ApiMoves
<1>8. Recalls(cache', obj')
  BY <1>1, <1>2, <1>3, <1>5, <1>6, <1>7 DEF UidRecorded
<1>9. ASSUME pc' # "idle" PROVE Recalls(pass'.snap, cache') /\ Recalls(pass'.snap, obj')
  <2>1. CASE pc # "idle" /\ pass'.snap = pass.snap
    BY <1>1, <1>2, <1>3, <1>5, <1>7, <2>1 DEF UidRecorded
  <2>2. CASE pass'.snap = cache /\ UNCHANGED <<obj, cache>>
    BY <1>1, <1>6, <2>2 DEF UidRecorded
  <2> QED BY <1>4, <1>9, <2>1, <2>2 DEF SnapMoves
<1>10. CASE \E u \in Uids : u \in Using' /\ u \notin Using
  <2>1. PICK u \in Uids : u \in Using' /\ u \notin Using
    BY <1>10
  <2>2. /\ u = pass.snap.uid /\ pc \in Converging /\ pc # "idle" /\ pc' # "idle"
        /\ UNCHANGED <<obj, cache, pass, loss>>
    BY <2>1, ChMakes DEF Converging
  <2>3. pass.snap.huid
    BY <2>2 DEF PassRoutes
  <2>4. \A v \in Uids : v \in Using' => v \in Using \/ v = pass.snap.uid
    BY ChMakes
  <2> QED BY <1>1, <1>2, <1>8, <1>9, <2>2, <2>3, <2>4 DEF UidRecorded, Recalls
<1>11. CASE \A u \in Uids : u \in Using' => u \in Using
  <2>1. cache.uid \in Using => cache.huid
    BY <1>1 DEF UidRecorded
  <2>2. obj.uid \in Using => obj.huid
    BY <1>1 DEF UidRecorded
  <2>3. cache'.uid \in Using' => cache'.huid
    BY <1>2, <1>7, <1>11, <2>1, <2>2
  <2>4. obj'.uid \in Using' => obj'.huid
    <3>1. CASE obj'.uid = obj.uid
      BY <1>2, <1>4, <1>11, <2>2, <3>1 DEF HuidMoves
    <3>2. CASE obj'.uid = obj.uid + 1
      <4>1. obj'.uid \in Uids
        BY ChTypes, ChNumbers, ChNames DEF C!TypeOK, C!Objects
      <4>2. obj'.uid \notin Using
        <5>1. obj.uid \in Nat /\ cache.uid \in Nat /\ ~(obj.uid + 1 <= cache.uid)
          BY <1>2, <1>3
        <5> QED BY <3>2, <4>1, <5>1 DEF MadeBefore
      <4> QED BY <1>11, <4>1, <4>2
    <3> QED BY <1>4, <3>1, <3>2 DEF HuidMoves
  <2>5. ASSUME pc' # "idle" PROVE pass'.snap.uid \in Using' => pass'.snap.huid
    <3>1. CASE pc # "idle" /\ pass'.snap = pass.snap
      BY <1>1, <1>2, <1>11, <3>1 DEF UidRecorded
    <3>2. CASE pass'.snap = cache
      BY <1>2, <1>11, <2>1, <3>2
    <3> QED BY <1>4, <2>5, <3>1, <3>2 DEF SnapMoves
  <2> QED BY <1>8, <1>9, <2>3, <2>4, <2>5
<1> QED BY <1>10, <1>11

\* What is there keeps its machine: the finalizer goes only from one that has nothing.
LEMMA GuestCaredStep ==
    ASSUME GuestInv, [C!Next]_(C!vars) PROVE GuestCared'
<1> USE DEF GuestInv
<1> SUFFICES ASSUME ~Excused', NEW u \in Uids, u \in Using' PROVE Owned(u)'
  BY DEF GuestCared, Uids
<1>1. ~Excused
  BY ChUnexcused
<1>2. ~Noticed(u) /\ ~Noticed(u)' /\ ~Noticed(pass.snap.uid)
  BY ChNumbers, ChTypes DEF Noticed, C!TypeOK
<1>3. CASE u \notin Using
  <2>1. u = pass.snap.uid /\ pc \in Reconciling /\ UNCHANGED <<obj, pass, loss>>
    BY <1>3, ChMakes DEF Reconciling
  <2>2. Owned(u)
    BY <1>1, <1>2, <2>1 DEF Witnessed
  <2> QED BY <2>1, <2>2 DEF Owned
<1>4. CASE u \in Using
  <2>1. Owned(u)
    BY <1>1, <1>4 DEF GuestCared
  <2>2. ~(pc = "finRemove" /\ u = pass.snap.uid)
    BY <1>1, <1>4 DEF TornDown
  <2>3. u <= obj.uid
    BY <2>1, ChNumbers DEF Owned
  <2> QED BY <1>2, <2>1, <2>2, <2>3, ChCommon, KeptStep
<1> QED BY <1>3, <1>4

-----------------------------------------------------------------------------
\* The vTPM.

\* While nothing excuses, everything is of one machine, and passes are for it.
LEMMA OneMachine ==
    ASSUME GuestInv, ~Excused, NEW u \in Uids, u \in Using
    PROVE  /\ u = obj.uid /\ u = cache.uid /\ u <= obj.uid
           /\ pc # "idle" => pass.snap.uid = u
<1>1. Owned(u)
  BY DEF GuestInv, GuestCared
<1> QED BY <1>1, ChNumbers DEF GuestInv, Owned, Current

\* The machine of uid u has gone after the step.
Left(u) == ~Live(obj', u) /\ ~Live(cache', u) /\ (pc' # "idle" => ~Live(pass'.snap, u))

\* A machine that goes does not come back.
LEMMA LeavingStep ==
    ASSUME GuestInv, [C!Next]_(C!vars), NEW u \in Uids, u <= obj.uid, Leaving(u) PROVE Left(u)
<1>1. obj.uid \in Nat /\ u \in Nat
  BY ChNumbers DEF GuestInv
<1>2. SnapMoves /\ ApiMoves(Reconciling)
  BY ChMachineMoves, ChCopies DEF GuestInv
<1>3. ~Live(obj', u)
  BY <1>1, <1>2 DEF ApiMoves, Leaving, Live
<1>4. ~Live(cache', u)
  BY <1>2 DEF ApiMoves, Leaving, Live
<1>5. pc' # "idle" => ~Live(pass'.snap, u)
  BY <1>2 DEF SnapMoves, Leaving, Live
<1> QED BY <1>3, <1>4, <1>5 DEF Left

\* A vTPM with keys is whole or becomes so; and only a whole one is run.
LEMMA ManufacturedStep ==
    ASSUME GuestInv, [C!Next]_(C!vars) PROVE Manufactured'
<1> USE DEF GuestInv
<1> DEFINE tpm == backend.tpm  ek == backend.ek  swtpm == backend.swtpm  setup == backend.setup
           tpm2 == backend'.tpm  ek2 == backend'.ek  swtpm2 == backend'.swtpm  setup2 == backend'.setup
           Whole2 == tpm2.full \/ "setup" \in loss'
<1> SUFFICES ASSUME ~Excused'
             PROVE  /\ tpm2.uid \in ek2 => Whole2 \/ setup2 = "running" \/ Left(tpm2.uid)
                    /\ swtpm2.st # "none" => /\ swtpm2.uid \in ek2 /\ setup2 # "running"
                                             /\ tpm2.uid # C!NoOwner /\ Whole2
  BY DEF Manufactured, Whole, Leaving, Left, Live
<1>1. ~Excused /\ loss \subseteq loss'
  BY ChUnexcused
<1>2. /\ HostMoved
      /\ tpm.uid \in ek => tpm.full \/ "setup" \in loss \/ setup = "running" \/ Leaving(tpm.uid)
      /\ swtpm.st # "none" => /\ swtpm.uid \in ek /\ setup # "running"
                              /\ tpm.uid # C!NoOwner /\ (tpm.full \/ "setup" \in loss)
  BY <1>1, HostChanges DEF Manufactured, Whole
<1>3. /\ ek \subseteq Uids /\ tpm.uid \in Uids \cup {C!NoOwner} /\ swtpm.uid \in Uids \cup {C!NoOwner}
      /\ C!NoOwner \notin Uids
  BY ChNumbers
<1>4. /\ tpm.uid \in Using /\ swtpm.uid \in Using
      /\ C!NoUnit.st = "none" /\ C!NoTpm.uid = C!NoOwner
      /\ swtpm.st # "none" => swtpm.uid \in Uids
  BY <1>3 DEF Using, C!NoUnit, C!NoTpm, UnitsNamed
<1>5. tpm.uid \in ek /\ Leaving(tpm.uid) => Left(tpm.uid)
  <2> SUFFICES ASSUME tpm.uid \in ek, Leaving(tpm.uid) PROVE Left(tpm.uid)
    OBVIOUS
  <2>1. tpm.uid \in Uids
    BY <1>3
  <2>2. tpm.uid <= obj.uid
    BY <1>1, <1>4, <2>1, OneMachine
  <2> QED BY <2>1, <2>2, LeavingStep
<1>6. tpm.uid \in ek /\ setup = "running" /\ C!HalfMade \subseteq loss' => "setup" \in loss'
  BY DEF C!HalfMade, C!Setup
<1> HIDE DEF C!NoUnit, C!NoTpm, C!NoOwner
<1>7. CASE UNCHANGED backend
  BY <1>1, <1>2, <1>5, <1>7
<1>8. CASE Making
  <2>1. pc # "idle" /\ pc \in Reconciling
    BY <1>8 DEF Making, Converging, Reconciling
  <2>2. swtpm.st # "none" => swtpm.uid = pass.snap.uid
    BY <1>1, <1>4, <2>1, OneMachine
  <2>3. tpm.uid # C!NoOwner => tpm.uid = pass.snap.uid
    BY <1>1, <1>3, <1>4, <2>1, OneMachine
  <2>4. ~Leaving(pass.snap.uid)
    BY <2>1 DEF PassRoutes, Leaving, Live
  <2>5. CASE UNCHANGED <<backend.ek, backend.tpm, backend.setup, backend.swtpm>>
    BY <1>1, <1>2, <1>5, <2>5
  <2>6. CASE /\ pass.snap.uid \notin ek
             /\ Becomes(backend.files, ek, [uid |-> pass.snap.uid, full |-> FALSE], "running",
                        swtpm, backend.vmm)
    BY <1>2, <2>2, <2>6 DEF Becomes
  <2>7. CASE /\ pass.snap.uid \in ek /\ setup # "running" /\ tpm.uid # C!NoOwner
             /\ Becomes(backend.files, ek, tpm, setup, [uid |-> pass.snap.uid, st |-> "run"], backend.vmm)
    BY <1>1, <1>2, <2>3, <2>4, <2>7 DEF Becomes
  <2> QED BY <1>8, <2>5, <2>6, <2>7 DEF Making, Becomes
<1>9. CASE Removing
  <2>1. CASE pc \in {"vmm", "powerOff", "finalize", "tpm"}
    BY <1>1, <1>2, <1>4, <1>5, <1>9, <2>1 DEF Removing, Becomes
  <2>2. CASE pc = "stopTpm"
    BY <1>1, <1>2, <1>4, <1>5, <1>6, <1>9, <2>2 DEF Removing, Becomes
  <2>3. CASE pc = "teardownTpm"
    <3>1. ASSUME tpm.uid \in ek PROVE Leaving(tpm.uid)
      <4>1. tpm.uid = obj.uid /\ tpm.uid = cache.uid /\ pass.snap.uid = tpm.uid
        BY <1>1, <1>3, <1>4, <2>3, <3>1, OneMachine
      <4>2. pass.snap.life = "deleting" /\ obj.life # "live" /\ cache.life # "live"
        BY <2>3, <4>1 DEF PassRoutes, Tearing, History, Older
      <4> QED BY <4>2 DEF Leaving, Live
    <3> QED BY <1>1, <1>2, <1>4, <1>5, <1>9, <2>3, <3>1 DEF Removing, Becomes
  <2>4. CASE pc = "teardownFiles"
    BY <1>3, <1>4, <1>9, <2>4 DEF Removing, Becomes, TornDown
  <2> QED BY <1>9, <2>1, <2>2, <2>3, <2>4 DEF Removing
<1>10. CASE Running
  BY <1>1, <1>2, <1>3, <1>4, <1>5, <1>6, <1>10 DEF Running, Becomes
<1> QED BY <1>2, <1>7, <1>8, <1>9, <1>10 DEF HostMoved

\* The invariant holds at first,
LEMMA GuestInitially ==
    ASSUME C!Init PROVE GuestInv
<1>1. 1 \in Uids /\ C!NoObject \in C!Objects
  BY BoundsAssumption, ChNames DEF Uids, C!NoObject, C!Objects, C!Lives
<1>2. /\ obj \in C!Objects /\ cache = obj /\ C!NoPass \in ChPasses
      /\ obj.life = "live" /\ ~obj.fin /\ obj.uid = 1
  BY <1>1, ChObjects DEF C!Init, ChPasses, C!NoPass, C!Created, C!NoObject
<1>3. /\ backend \in C!Hosts /\ backend.files = {} /\ backend.ek = {} /\ ~backend.tpm.full
      /\ backend.tpm.uid = C!NoOwner /\ backend.swtpm.uid = C!NoOwner /\ backend.vmm.uid = C!NoOwner
      /\ backend.vmm.st = "none" /\ backend.swtpm.st = "none" /\ backend.setup = "none"
  BY DEF C!Init, C!Hosts, C!NoTpm, C!NoUnit, C!Owners
<1>4. C!TypeOK
  BY <1>2, <1>3, BoundsAssumption DEF C!Init, C!TypeOK, ChPasses, C!Stages
<1>5. Using = {C!NoOwner} /\ \A u \in Uids : u \notin Using
  BY <1>3, <1>4, ChNumbers DEF Using
<1>6. UnitsNamed /\ PassRoutes /\ TornDown /\ MadeBefore /\ GuestCared
  BY <1>3, <1>5 DEF C!Init, UnitsNamed, PassRoutes, TornDown, MadeBefore, GuestCared,
     Reconciling, Converging, Tearing
<1>7. History /\ Current /\ Witnessed(Reconciling)
  BY <1>2 DEF C!Init, History, Older, Current, Witnessed, Witness, Reconciling, Converging
<1>8. UidRecorded /\ Manufactured
  BY <1>1, <1>2, <1>3, <1>5 DEF C!Init, UidRecorded, Recalls, Manufactured
<1> QED BY <1>4, <1>6, <1>7, <1>8 DEF GuestInv

\* and every step keeps it.
LEMMA GuestPreserved ==
    ASSUME GuestInv, [C!Next]_(C!vars) PROVE GuestInv'
<1>1. C!TypeOK' /\ UnitsNamed' /\ PassRoutes' /\ TornDown' /\ MadeBefore'
  BY ChTypes, UnitsStep, ChRoutes, TornDownStep, MadeBeforeStep DEF GuestInv
<1>2. History' /\ Current' /\ Witnessed(Reconciling)'
  BY ChCommon, HistoryStep, CurrentStep, WitnessStep DEF GuestInv
<1>3. UidRecorded' /\ GuestCared' /\ Manufactured'
  BY UidRecordedStep, GuestCaredStep, ManufacturedStep DEF GuestInv
<1> QED BY <1>1, <1>2, <1>3 DEF GuestInv

LEMMA GuestInductive == C!Spec => []GuestInv
<1>1. C!Init => GuestInv
  BY GuestInitially
<1>2. GuestInv /\ [C!Next]_(C!vars) => GuestInv'
  BY GuestPreserved
<1> QED BY <1>1, <1>2, PTL DEF C!Spec

-----------------------------------------------------------------------------
\* What is held for a machine, and in the step after.
LEMMA GuestHolds ==
    ASSUME NEW u \in Uids
    PROVE  /\ (C!Held(u) = {}) <=> (u \notin Using)
           /\ C!Held(u) \subseteq C!Kinds
<1>1. /\ "files" \in C!Held(u) <=> u \in backend.files
      /\ "ek" \in C!Held(u) <=> u \in backend.ek
      /\ "tpm" \in C!Held(u) <=> u = backend.tpm.uid
      /\ "swtpm" \in C!Held(u) <=> u = backend.swtpm.uid
      /\ "vmm" \in C!Held(u) <=> u = backend.vmm.uid
      /\ C!Held(u) \subseteq {"files", "ek", "tpm", "swtpm", "vmm"}
  BY DEF C!Held, C!Kinds
<1> HIDE DEF C!Held
<1> QED BY <1>1 DEF Using, C!Kinds

LEMMA GuestHoldsNext ==
    ASSUME NEW u \in Uids
    PROVE  /\ (C!Held(u)' = {}) <=> (u \notin Using')
           /\ C!Held(u)' \subseteq C!Kinds
<1>1. /\ "files" \in C!Held(u)' <=> u \in backend'.files
      /\ "ek" \in C!Held(u)' <=> u \in backend'.ek
      /\ "tpm" \in C!Held(u)' <=> u = backend'.tpm.uid
      /\ "swtpm" \in C!Held(u)' <=> u = backend'.swtpm.uid
      /\ "vmm" \in C!Held(u)' <=> u = backend'.vmm.uid
      /\ C!Held(u)' \subseteq {"files", "ek", "tpm", "swtpm", "vmm"}
  BY DEF C!Held, C!Kinds
<1> HIDE DEF C!Held
<1> QED BY <1>1 DEF Using, C!Kinds

\* What is held for a machine that is gone is nothing.
LEMMA GuestGone ==
    ASSUME GuestInv, NEW u \in Uids, MachineOf(u) = "absent"
    PROVE  C!Holdings[u] = {} /\ (~Excused => u \notin Using)
<1>1. ~Owned(u)
  BY DEF Owned, MachineOf
<1>2. ~Excused => u \notin Using
  BY <1>1 DEF GuestInv, GuestCared
<1>3. ~Excused => C!Held(u) = {}
  BY <1>2, GuestHolds
<1> HIDE DEF C!Held
<1> QED BY <1>2, <1>3, ChNames DEF C!Holdings

\* Every step is one of the lifecycle's for each machine.
LEMMA GuestRefines ==
    ASSUME GuestInv, GuestInv', [C!Next]_(C!vars), NEW u \in Uids
    PROVE  LET m == MachineOf(u)  h == C!Holdings[u]
           IN \/ m = "absent" /\ m' # "absent" /\ h' = h
              \/ m = "live" /\ m' = "deleting" /\ h' = h
              \/ m' = "absent" /\ h' = {}
              \/ m # "absent" /\ m' = m /\ h' \subseteq C!Resources
<1> DEFINE m == MachineOf(u)  h == C!Holdings[u]
<1>1. /\ m \in Lives /\ m' \in Lives
      /\ m = "live" /\ m' = "deleting" => UNCHANGED <<loss, faults, backend>>
      /\ ~(m = "deleting" /\ m' = "live")
  BY ChCommon, LifeStep DEF GuestInv, History, Older
<1>2. h' = (IF Excused' THEN {} ELSE C!Held(u)' \X {u})
  BY ChNames DEF C!Holdings, C!Excused, Excused
<1>3. (Excused' \/ u \notin Using') => h' = {}
  BY <1>2, GuestHoldsNext
<1>4. CASE m' = "absent"
  <2>1. ~Owned(u)'
    BY <1>4 DEF Owned, MachineOf
  <2>2. ~Excused' => u \notin Using'
    BY <2>1 DEF GuestInv, GuestCared
  <2> QED BY <1>3, <1>4, <2>2
<1>5. CASE m # "absent" /\ m' = m
  <2>1. h' \subseteq C!Resources
    BY <1>2, GuestHoldsNext, ChNames DEF C!Resources
  <2> QED BY <1>5, <2>1
<1>6. CASE m = "absent" /\ m' # "absent"
  <2>1. h = {}
    BY <1>6, GuestGone
  <2>2. ASSUME ~Excused' PROVE u \notin Using'
    <3>1. u \notin Using
      BY <1>6, <2>2, ChUnexcused, GuestGone DEF GuestInv
    <3>2. ~(u = pass.snap.uid /\ pc \in Converging)
      BY <1>6 DEF MachineOf, Converging
    <3> QED BY <3>1, <3>2, ChMakes DEF GuestInv
  <2> QED BY <1>3, <1>6, <2>1, <2>2
<1>7. CASE m = "live" /\ m' = "deleting"
  <2>1. h' = h
    BY <1>1, <1>7 DEF C!Holdings, C!Excused, C!Held
  <2> QED BY <1>7, <2>1
<1> QED BY <1>1, <1>4, <1>5, <1>6, <1>7 DEF Lives

\* At first the machine is there and nothing is held for it.
LEMMA GuestStart ==
    ASSUME C!Init
    PROVE  obj.life = "live" /\ obj.uid = 1 /\ pc = "idle" /\ C!Holdings = [u \in Uids |-> {}]
<1>1. obj.life = "live" /\ obj.uid = 1 /\ pc = "idle"
  BY DEF C!Init, C!Created, C!NoObject
<1>2. Using = {C!NoOwner} /\ C!NoOwner \notin Uids
  BY DEF C!Init, C!NoTpm, C!NoUnit, C!NoOwner, Using, Uids
<1>3. \A u \in Uids : C!Held(u) = {}
  BY <1>2, GuestHolds
<1>4. C!Holdings = [u \in Uids |-> {}]
  BY <1>3, ChNames DEF C!Holdings
<1> QED BY <1>1, <1>4

\* The Cloud Hypervisor provider keeps the promise of an infrastructure CR as well
\* (reconciler.rs, machine.rs): files, keys, vTPM and units are made for a machine
\* only while it is there, and it goes only when none of them is left, though units
\* and vTPM are named after a guest uid that another machine gets again - unless its
\* spec could not be planned any more when it was deleted, its finalizer was taken off
\* by hand, or a pass wrote to a machine of the same name created in place of its own.
THEOREM CloudHypervisorLifecycle == C!Spec => GuestLifecycle!Spec
<1>1. C!Init => GuestLifecycle!Init
  BY GuestStart DEF GuestLifecycle!Init, MachineOf
<1>2. GuestInv /\ GuestInv' /\ [C!Next]_(C!vars) => [GuestLifecycle!Next]_(GuestLifecycle!lifecycle)
  <2> SUFFICES ASSUME GuestInv, GuestInv', [C!Next]_(C!vars) PROVE GuestLifecycle!Next
    OBVIOUS
  <2> SUFFICES ASSUME NEW u \in Uids
               PROVE  \/ GuestLifecycle!Appear(u) \/ GuestLifecycle!Delete(u) \/ GuestLifecycle!Vanish(u)
                      \/ GuestLifecycle!Use(u) \/ GuestLifecycle!Release(u)
    BY DEF GuestLifecycle!Next
  <2> QED BY GuestRefines DEF GuestLifecycle!Appear, GuestLifecycle!Delete, GuestLifecycle!Vanish,
     GuestLifecycle!Use
<1> QED BY <1>1, <1>2, GuestInductive, PTL DEF C!Spec, GuestLifecycle!Spec

\* The vTPM of a live machine is not replaced by one of its passes or removed.
LEMMA TpmStays ==
    ASSUME GuestInv, [C!Next]_(C!vars), obj.life = "live", backend.tpm.full,
           backend.tpm.uid = obj.uid
    PROVE  backend'.tpm = backend.tpm
<1>1. HostMoved
  BY HostChanges DEF GuestInv
<1>2. obj.uid \in Uids /\ obj.uid \in backend.ek /\ obj.uid \in Using
  BY ChNumbers DEF GuestInv, UnitsNamed, Using
<1>3. ASSUME pc # "idle" PROVE pass.snap.uid = obj.uid
  BY <1>2, <1>3, ChNumbers DEF GuestInv, MadeBefore, History, Older
<1>4. CASE UNCHANGED backend
  BY <1>4
<1>5. CASE Making
  BY <1>2, <1>3, <1>5 DEF Making, Becomes, Converging
<1>6. CASE Removing
  <2>1. pc # "teardownFiles"
    BY <1>3 DEF GuestInv, PassRoutes, Tearing, History, Older
  <2> QED BY <1>6, <2>1 DEF Removing, Becomes
<1>7. CASE Running
  <2>1. backend.tpm \in Vtpms
    BY HostFields DEF GuestInv, C!TypeOK
  <2>2. ASSUME NEW t \in Vtpms, t.uid = backend.tpm.uid, t.full PROVE t = backend.tpm
    BY <2>1, <2>2 DEF Vtpms
  <2> QED BY <1>7, <2>2 DEF Running, Becomes
<1> QED BY <1>1, <1>4, <1>5, <1>6, <1>7 DEF HostMoved

\* Units and vTPM that are there have one owner, the machine.
LEMMA OwnTpm ==
    ASSUME GuestInv PROVE C!GuestTpmIsOwn
<1> SUFFICES ASSUME C!GuestOnTpm, ~Excused
             PROVE  /\ backend.tpm.uid = backend.vmm.uid /\ backend.swtpm.uid = backend.vmm.uid
                    /\ backend.tpm.full \/ "setup" \in loss
  BY ChNames DEF C!GuestTpmIsOwn
<1>1. /\ backend.vmm.uid # C!NoOwner /\ backend.swtpm.uid # C!NoOwner
      /\ backend.tpm.uid # C!NoOwner /\ Whole
  BY DEF GuestInv, UnitsNamed, Manufactured, C!GuestOnTpm
<1>2. /\ backend.vmm.uid \in Uids /\ backend.swtpm.uid \in Uids /\ backend.tpm.uid \in Uids
  BY <1>1, ChNumbers DEF GuestInv
<1>3. Owned(backend.vmm.uid) /\ Owned(backend.swtpm.uid) /\ Owned(backend.tpm.uid)
  BY <1>2 DEF GuestInv, GuestCared, Using
<1> QED BY <1>1, <1>3 DEF Owned, Whole

\* A guest runs on the vTPM made for its machine, and on a complete one unless its
\* manufacture was stopped after the EK files were written: whose name units and state
\* bear tells nothing, and whether there is one only the EK files do
\* (reconciler.rs ensure_tpm, hostfs.rs tpm_manufactured).  And neither a pass nor
\* swtpm_setup replaces the complete vTPM of a live machine.
THEOREM GuestTpms == C!Spec => []C!GuestTpmIsOwn /\ [][C!TpmKept]_(C!vars)
<1>1. GuestInv => C!GuestTpmIsOwn
  BY OwnTpm
<1>2. GuestInv /\ [C!Next]_(C!vars) => [C!TpmKept]_(C!vars)
  BY TpmStays DEF C!TpmKept
<1> QED BY <1>1, <1>2, GuestInductive, PTL DEF C!Spec

-----------------------------------------------------------------------------
(***************************************************************************)
(* All four providers, as MCMachines follows them: what TLC checks there   *)
(* on a small instance.  The proofs of VSphereMachine and ProxmoxMachine   *)
(* are in modules of their own.                                            *)
(***************************************************************************)

VX == INSTANCE VSphereMachineProofs WITH
        MaxVMs <- MaxMorefs, MaxFaults <- VSphereFaults
PX == INSTANCE ProxmoxMachineProofs WITH MaxVMs <- MaxVmids, MaxChanges <- ProxmoxChanges

\* The invariant of the provider that is followed.
FollowedInv ==
    \/ IsV /\ VX!Inv
    \/ IsL /\ DomainInv
    \/ IsP /\ PX!Inv /\ PX!Marked
    \/ IsC /\ GuestInv

\* The module of vSphere and its proofs speak of one system.
LEMMA VSphereSame ==
    /\ V!Init => VX!Init
    /\ [V!Next]_(V!vars) => [VX!Next]_(VX!vars)
BY DEF
   V!Foreign, VX!Foreign, V!Morefs, VX!Morefs, V!NoVM, VX!NoVM, V!vms, VX!vms, V!late, VX!late,
   V!NoObject, VX!NoObject, V!NoPass, VX!NoPass, V!End, VX!End, V!Init, VX!Init, V!There,
   VX!There, V!find_vms_named, VX!find_vms_named, V!find_vm_moref_by_name,
   VX!find_vm_moref_by_name, V!destroy_vm, VX!destroy_vm, V!Unused, VX!Unused, V!NewMoref,
   VX!NewMoref, V!CanAdd, VX!CanAdd, V!AddVm, VX!AddVm, V!Trigger, VX!Trigger, V!live_base,
   VX!live_base, V!Read, VX!Read, V!AddFinalizer, VX!AddFinalizer, V!route, VX!route, V!Connect,
   VX!Connect, V!Search, VX!Search, V!IsOwn, VX!IsOwn, V!reclaim_or_refuse,
   VX!reclaim_or_refuse, V!clone_vm, VX!clone_vm, V!Lookup, VX!Lookup, V!finish_clone,
   VX!finish_clone, V!roll_back_clone, VX!roll_back_clone, V!Patch, VX!Patch, V!Compensate,
   VX!Compensate, V!patch_status_success, VX!patch_status_success, V!patch_status_failed,
   VX!patch_status_failed, V!compensate_gone, VX!compensate_gone, V!refresh_power_state,
   VX!refresh_power_state, V!status_with_observed_state, VX!status_with_observed_state,
   V!OwnClones, VX!OwnClones, V!find_own_clone, VX!find_own_clone, V!status_adopting,
   VX!status_adopting, V!finalize, VX!finalize, V!finalize_vm, VX!finalize_vm, V!FinalizeSearch,
   VX!FinalizeSearch, V!finalize_unrecorded, VX!finalize_unrecorded, V!DropFinalizer,
   VX!DropFinalizer, V!Stop, VX!Stop, V!LateClone, VX!LateClone, V!CreateAgain, VX!CreateAgain,
   V!TakeFinalizerOff, VX!TakeFinalizerOff, V!ForeignVm, VX!ForeignVm, V!Unregister,
   VX!Unregister, V!Pass, VX!Pass, V!World, VX!World, V!Next, VX!Next, V!vars, VX!vars, V!Uids,
   VX!Uids, V!Created, VX!Created, V!Keep, VX!Keep, V!KeepApi, VX!KeepApi, V!OnlyWorld,
   VX!OnlyWorld, V!Fail, VX!Fail, V!Goto, VX!Goto, V!EndPass, VX!EndPass, V!StartPass,
   VX!StartPass, V!Namesake, VX!Namesake, V!EnsureFinalizer, VX!EnsureFinalizer,
   V!FinalizerRemoved, VX!FinalizerRemoved, V!RemoveFinalizer, VX!RemoveFinalizer,
   V!PatchMachine, VX!PatchMachine, V!Crash, VX!Crash, V!Sync, VX!Sync, V!Change, VX!Change,
   V!Create, VX!Create, V!Delete, VX!Delete, V!RemoveByHand, VX!RemoveByHand, V!ProviderChange,
   VX!ProviderChange

\* The module of Proxmox and its proofs speak of one system.
LEMMA ProxmoxSame ==
    /\ P!Init => PX!Init
    /\ [P!Next]_(P!vars) => [PX!Next]_(PX!vars)
BY DEF
   P!Vmids, PX!Vmids, P!NoVM, PX!NoVM, P!Foreign, PX!Foreign, P!vms, PX!vms, P!NoObject,
   PX!NoObject, P!NoPass, PX!NoPass, P!Free, PX!Free, P!End, PX!End, P!Init, PX!Init, P!IsVm,
   PX!IsVm, P!IsFree, PX!IsFree, P!Trigger, PX!Trigger, P!Connect, PX!Connect, P!AddFinalizer,
   PX!AddFinalizer, P!find_ours_by_record, PX!find_ours_by_record, P!find_ours, PX!find_ours,
   P!needs_configure, PX!needs_configure, P!next_id, PX!next_id, P!fresh_vmid, PX!fresh_vmid,
   P!allocate_vmid, PX!allocate_vmid, P!ToStage, PX!ToStage, P!Status, PX!Status, P!record_vmid,
   PX!record_vmid, P!Cloned, PX!Cloned, P!clone_from_template, PX!clone_from_template, P!VmCall,
   PX!VmCall, P!configure, PX!configure, P!ensure_power, PX!ensure_power, P!gone_or, PX!gone_or,
   P!patch_provider_id, PX!patch_provider_id, P!build_status, PX!build_status, P!failure_status,
   PX!failure_status, P!patch_status, PX!patch_status, P!finalize_find, PX!finalize_find,
   P!FinalizeCall, PX!FinalizeCall, P!finalize_stop, PX!finalize_stop, P!finalize_delete,
   PX!finalize_delete, P!Trusting, PX!Trusting,
   P!finalize_seed_skipped, PX!finalize_seed_skipped, P!finalize_seed, PX!finalize_seed,
   P!DropFinalizer, PX!DropFinalizer, P!Stop, PX!Stop, P!CreateAgain, PX!CreateAgain,
   P!TakeFinalizerOff, PX!TakeFinalizerOff, P!Edit, PX!Edit, P!ForeignVm, PX!ForeignVm,
   P!LoseVm, PX!LoseVm, P!Pass, PX!Pass, P!World, PX!World, P!Next, PX!Next, P!vars, PX!vars,
   P!Uids, PX!Uids, P!Created, PX!Created, P!Keep, PX!Keep, P!KeepApi, PX!KeepApi, P!OnlyWorld,
   PX!OnlyWorld, P!Fail, PX!Fail, P!Goto, PX!Goto, P!EndPass, PX!EndPass, P!StartPass,
   PX!StartPass, P!Namesake, PX!Namesake, P!EnsureFinalizer, PX!EnsureFinalizer,
   P!FinalizerRemoved, PX!FinalizerRemoved, P!RemoveFinalizer, PX!RemoveFinalizer,
   P!PatchMachine, PX!PatchMachine, P!Crash, PX!Crash, P!Sync, PX!Sync, P!Change, PX!Change,
   P!Create, PX!Create, P!Delete, PX!Delete, P!RemoveByHand, PX!RemoveByHand, P!ProviderChange,
   PX!ProviderChange

\* The bounds under which the two modules are instantiated.
LEMMA InstanceBounds ==
    /\ MaxUid \in Nat \ {0} /\ VSphereFaults \in Nat /\ MaxChanges \in Nat
    /\ MaxFaults \in Nat /\ ProxmoxChanges \in Nat
BY BoundsAssumption, MachinesAssumption

\* What is said of machine and holdings there is said of the same ones here.
LEMMA SameViews ==
    /\ VX!Uids = Uids /\ PX!Uids = Uids /\ V!Resources = VX!Resources /\ P!Resources = PX!Resources
    /\ VX!Holdings = V!Holdings /\ PX!Holdings = P!Holdings
    /\ \A u : VX!MachineOf(u) = MachineOf(u) /\ PX!MachineOf(u) = MachineOf(u)
<1>1. /\ VX!Uids = Uids /\ PX!Uids = Uids /\ V!Resources = VX!Resources /\ P!Resources = PX!Resources
      /\ \A u : VX!MachineOf(u) = MachineOf(u) /\ PX!MachineOf(u) = MachineOf(u)
  BY DEF VX!Uids, PX!Uids, Uids, P!Uids, V!Resources, VX!Resources, V!Morefs, VX!Morefs,
     P!Resources, PX!Resources, P!Vmids, PX!Vmids, VX!MachineOf, PX!MachineOf, MachineOf
<1>2. VX!Holdings = V!Holdings
  BY DEF VX!Holdings, V!Holdings, VX!Uids, V!Uids, VX!Excused, V!Excused, VX!OwnVMs, V!OwnVMs,
     VX!Morefs, V!Morefs, VX!There, V!There, VX!vms, V!vms
<1>3. PX!Holdings = P!Holdings
  BY DEF PX!Holdings, P!Holdings, PX!Uids, P!Uids, PX!Excused, P!Excused, PX!Held, P!Held, PX!Vmids,
     P!Vmids, PX!IsVm, P!IsVm, PX!vms, P!vms
<1> QED BY <1>1, <1>2, <1>3

\* A step is one of the provider that is followed.
LEMMA FollowedStep ==
    ASSUME [Next]_allvars
    PROVE  /\ which' = which
           /\ IsV => [VX!Next]_(VX!vars)
           /\ IsL => [L!Next]_(L!vars)
           /\ IsP => [PX!Next]_(PX!vars)
           /\ IsC => [C!Next]_(C!vars)
<1>1. CASE Next
  BY <1>1, VSphereSame, ProxmoxSame DEF Next, IsV, IsL, IsP, IsC
<1>2. CASE UNCHANGED allvars
  BY <1>2 DEF allvars, vars, VX!vars, PX!vars, L!vars, C!vars
<1> QED BY <1>1, <1>2

\* The invariant.
LEMMA FollowedInductive == Spec => []FollowedInv
<1>1. Init => FollowedInv
  <2>1. PX!Init => PX!Marked
    BY DEF PX!Init, PX!Marked, PX!Trusting
  <2> QED
    BY InstanceBounds, <2>1, VSphereSame, ProxmoxSame, VX!Initially, PX!Initially,
       DomainInitially, GuestInitially DEF Init, FollowedInv
<1>2. FollowedInv /\ [Next]_allvars => FollowedInv'
  <2> SUFFICES ASSUME FollowedInv, [Next]_allvars PROVE FollowedInv'
    OBVIOUS
  <2>1. CASE IsV /\ VX!Inv
    <3>1. VX!Inv'
      BY InstanceBounds, <2>1, FollowedStep, VX!Preserved
    <3> QED BY <2>1, <3>1, FollowedStep DEF FollowedInv, IsV
  <2>2. CASE IsL /\ DomainInv
    BY <2>2, FollowedStep, DomainPreserved DEF FollowedInv, IsL
  <2>3. CASE IsP /\ PX!Inv /\ PX!Marked
    <3>1. PX!Inv' /\ PX!Marked'
      BY InstanceBounds, <2>3, FollowedStep, PX!Preserved, PX!MarkedStep DEF PX!Inv
    <3> QED BY <2>3, <3>1, FollowedStep DEF FollowedInv, IsP
  <2>4. CASE IsC /\ GuestInv
    BY <2>4, FollowedStep, GuestPreserved DEF FollowedInv, IsC
  <2> QED BY <2>1, <2>2, <2>3, <2>4 DEF FollowedInv
<1> QED BY <1>1, <1>2, PTL DEF Spec

\* What is held is what the provider that is followed holds.
LEMMA FollowedHoldings ==
    /\ IsV => Holdings = VX!Holdings
    /\ IsL => Holdings = L!Holdings
    /\ IsP => Holdings = PX!Holdings
    /\ IsC => Holdings = C!Holdings
BY SameViews DEF Holdings, IsV, IsL, IsP, IsC

\* So it is after a step.
LEMMA FollowedHoldingsNext ==
    /\ IsV' => Holdings' = VX!Holdings'
    /\ IsL' => Holdings' = L!Holdings'
    /\ IsP' => Holdings' = PX!Holdings'
    /\ IsC' => Holdings' = C!Holdings'
BY DEF Holdings, IsV, IsL, IsP, IsC, VX!Holdings, V!Holdings, VX!Uids, V!Uids, VX!Excused,
   V!Excused, VX!OwnVMs, V!OwnVMs, VX!Morefs, V!Morefs, VX!There, V!There, VX!vms, V!vms,
   PX!Holdings, P!Holdings, PX!Uids, P!Uids, PX!Excused, P!Excused, PX!Held, P!Held, PX!Vmids,
   P!Vmids, PX!IsVm, P!IsVm, PX!vms, P!vms

\* Every step is one of the lifecycle's for each machine, whichever provider has it.
LEMMA FollowedRefines ==
    ASSUME FollowedInv, FollowedInv', [Next]_allvars, NEW u \in Uids
    PROVE  LET m == MachineOf(u)  h == Holdings[u]
           IN \/ m = "absent" /\ m' # "absent" /\ h' = h
              \/ m = "live" /\ m' = "deleting" /\ h' = h
              \/ m' = "absent" /\ h' = {}
              \/ m # "absent" /\ m' = m /\ h' \subseteq AllResources
<1>1. which' = which
  BY FollowedStep
<1>2. CASE IsV
  <2>1. /\ VX!Inv /\ VX!Inv' /\ [VX!Next]_(VX!vars) /\ u \in VX!Uids
        /\ Holdings = VX!Holdings /\ Holdings' = VX!Holdings'
    BY <1>1, <1>2, FollowedStep, FollowedHoldings, FollowedHoldingsNext, SameViews
       DEF FollowedInv, IsV, IsL, IsP, IsC
  <2>2. VX!MachineOf(u) = MachineOf(u) /\ VX!MachineOf(u)' = MachineOf(u)'
    BY DEF VX!MachineOf, MachineOf
  <2>3. VX!Resources \subseteq AllResources
    BY SameViews DEF AllResources
  <2> QED BY InstanceBounds, <2>1, <2>2, <2>3, VX!RefinedStep
<1>3. CASE IsL
  <2>1. /\ DomainInv /\ DomainInv' /\ [L!Next]_(L!vars)
        /\ Holdings = L!Holdings /\ Holdings' = L!Holdings'
    BY <1>1, <1>3, FollowedStep, FollowedHoldings, FollowedHoldingsNext
       DEF FollowedInv, IsV, IsL, IsP, IsC
  <2>2. L!Resources \subseteq AllResources
    BY DEF AllResources
  <2> QED BY <2>1, <2>2, DomainRefines
<1>4. CASE IsP
  <2>1. /\ PX!Inv /\ PX!Inv' /\ [PX!Next]_(PX!vars) /\ u \in PX!Uids
        /\ Holdings = PX!Holdings /\ Holdings' = PX!Holdings'
    BY <1>1, <1>4, FollowedStep, FollowedHoldings, FollowedHoldingsNext, SameViews
       DEF FollowedInv, IsV, IsL, IsP, IsC
  <2>2. PX!MachineOf(u) = MachineOf(u) /\ PX!MachineOf(u)' = MachineOf(u)'
    BY DEF PX!MachineOf, MachineOf
  <2>3. PX!Resources \subseteq AllResources
    BY SameViews DEF AllResources
  <2> QED BY InstanceBounds, <2>1, <2>2, <2>3, PX!RefinedStep
<1>5. CASE IsC
  <2>1. /\ GuestInv /\ GuestInv' /\ [C!Next]_(C!vars)
        /\ Holdings = C!Holdings /\ Holdings' = C!Holdings'
    BY <1>1, <1>5, FollowedStep, FollowedHoldings, FollowedHoldingsNext
       DEF FollowedInv, IsV, IsL, IsP, IsC
  <2>2. C!Resources \subseteq AllResources
    BY DEF AllResources
  <2> QED BY <2>1, <2>2, GuestRefines
<1> QED BY <1>2, <1>3, <1>4, <1>5 DEF FollowedInv

\* All four reconcilers (vspheremachine.rs, libvirtmachine.rs, proxmoxmachine.rs and
\* reconciler.rs of Cloud Hypervisor) keep the one promise of an infrastructure CR, as
\* the run of MCMachines checks it on a small instance: what is made is made while the
\* machine is there, and it goes only after the last of it, or with a known excuse.
THEOREM EveryLifecycle == Spec => ImplementsLifecycle
<1>1. Init => Lifecycle!Init
  <2> SUFFICES ASSUME Init PROVE Lifecycle!Init
    OBVIOUS
  <2>1. obj.life = "live" /\ obj.uid = 1 /\ pc = "idle" /\ Holdings = [u \in Uids |-> {}]
    <3>1. CASE IsV /\ V!Init
      BY InstanceBounds, <3>1, VSphereSame, VX!StartsEmpty, FollowedHoldings, SameViews
    <3>2. CASE IsL /\ L!Init
      BY <3>2, DomainStart, FollowedHoldings
    <3>3. CASE IsP /\ P!Init
      BY InstanceBounds, <3>3, ProxmoxSame, PX!StartsEmpty, FollowedHoldings, SameViews
    <3>4. CASE IsC /\ C!Init
      BY <3>4, GuestStart, FollowedHoldings
    <3> QED BY <3>1, <3>2, <3>3, <3>4 DEF Init
  <2> QED BY <2>1 DEF Lifecycle!Init, MachineOf
<1>2. FollowedInv /\ FollowedInv' /\ [Next]_allvars => [Lifecycle!Next]_(Lifecycle!lifecycle)
  <2> SUFFICES ASSUME FollowedInv, FollowedInv', [Next]_allvars PROVE Lifecycle!Next
    OBVIOUS
  <2> SUFFICES ASSUME NEW u \in Uids
               PROVE  \/ Lifecycle!Appear(u) \/ Lifecycle!Delete(u) \/ Lifecycle!Vanish(u)
                      \/ Lifecycle!Use(u) \/ Lifecycle!Release(u)
    BY DEF Lifecycle!Next
  <2> QED BY FollowedRefines DEF Lifecycle!Appear, Lifecycle!Delete, Lifecycle!Vanish, Lifecycle!Use
<1> QED BY <1>1, <1>2, FollowedInductive, PTL DEF Spec, ImplementsLifecycle, Lifecycle!Spec

\* The provider's steps spare the VMs of others and what a live machine uses.
LEMMA FollowedSpares ==
    ASSUME FollowedInv, [Next]_allvars, ProviderStep
    PROVE  /\ IsV => V!ForeignKept /\ V!RecordedKept
           /\ IsP => P!ForeignKept
           /\ IsC => C!TpmKept
<1>1. ASSUME IsV PROVE V!ForeignKept /\ V!RecordedKept
  <2>1. VX!Inv /\ [VX!Next]_(VX!vars) /\ VX!ProviderStep
    BY <1>1, FollowedStep DEF FollowedInv, IsV, IsL, IsP, IsC, ProviderStep, VX!ProviderStep
  <2>2. VX!ForeignKept /\ VX!RecordedKept
    BY InstanceBounds, <2>1, VX!SparedStep
  <2> QED
    BY <2>2 DEF VX!ForeignKept, VX!RecordedKept, V!ForeignKept, V!RecordedKept, VX!Morefs, V!Morefs,
       VX!vms, V!vms, VX!There, V!There, VX!Foreign, V!Foreign, VX!Mistaken, V!Mistaken
<1>2. ASSUME IsP PROVE P!ForeignKept
  <2>1. PX!Inv /\ PX!Marked /\ [PX!Next]_(PX!vars) /\ PX!ProviderStep
    BY <1>2, FollowedStep DEF FollowedInv, IsV, IsL, IsP, IsC, ProviderStep, PX!ProviderStep
  <2>2. PX!ForeignKept
    BY InstanceBounds, <2>1, PX!ForeignStep DEF PX!Inv
  <2> QED
    BY <2>2 DEF PX!ForeignKept, P!ForeignKept, PX!Vmids, P!Vmids, PX!IsVm, P!IsVm, PX!vms, P!vms,
       PX!Foreign, P!Foreign
<1>3. ASSUME IsC PROVE C!TpmKept
  <2>1. GuestInv /\ [C!Next]_(C!vars)
    BY <1>3, FollowedStep DEF FollowedInv, IsV, IsL, IsP, IsC
  <2> QED BY <2>1, TpmStays DEF C!TpmKept
<1> QED BY <1>1, <1>2, <1>3

\* A VM that does not carry a machine's marker is destroyed (vSphere) or changed
\* (Proxmox) in two cases only: vSphere's lookup after the clone goes by name, below the
\* folder too, and took another's VM for the clone; a VM of Proxmox was removed under a
\* pass, and its VMID given to another's, between the look at its marker and the calls.
THEOREM EveryForeignSpared == Spec => ForeignSpared
<1>1. FollowedInv /\ [Next]_allvars
        => [ProviderStep => /\ IsV => V!ForeignKept
                            /\ IsP => P!ForeignKept]_allvars
  BY FollowedSpares
<1> QED BY <1>1, FollowedInductive, PTL DEF Spec, ForeignSpared

\* The VM a live machine records is not destroyed, though passes are handed copies that
\* predate the record (live_base), and the complete vTPM of a live machine is not made
\* again (ensure_tpm).
THEOREM EveryRecordedSpared == Spec => RecordedSpared
<1>1. FollowedInv /\ [Next]_allvars
        => [ProviderStep => /\ IsV => V!RecordedKept
                            /\ IsC => C!TpmKept]_allvars
  BY FollowedSpares
<1> QED BY <1>1, FollowedInductive, PTL DEF Spec, RecordedSpared

\* What a machine uses is its own: the VM its status records (patch_status_success,
\* status_adopting), or one below its folder that the lookup by name took for the
\* clone; the vTPM its guest runs on (ensure_tpm).
THEOREM EveryOwnOnly == Spec => []OwnOnly
<1>1. FollowedInv => OwnOnly
  <2> SUFFICES ASSUME FollowedInv PROVE OwnOnly
    OBVIOUS
  <2>1. CASE IsV /\ VX!Inv
    <3>1. V!TypeOK
      BY <2>1 DEF VX!Inv, VX!TypeOK, V!TypeOK, VX!Objects, V!Objects,
         VX!VmRecords, V!VmRecords, VX!Stages, V!Stages, VX!Uids, V!Uids, VX!Lives, V!Lives,
         VX!Morefs, V!Morefs, VX!NoVM, V!NoVM, VX!Foreign, V!Foreign
    <3>2. V!RecordedIsOwn
      BY <2>1 DEF VX!Inv, VX!Own, VX!OwnRef, V!RecordedIsOwn, VX!vms, V!vms, VX!NoVM, V!NoVM,
         VX!Mistaken, V!Mistaken, VX!Foreign, V!Foreign
    <3> QED BY <2>1, <3>1, <3>2 DEF OwnOnly, TypeOK, IsV, IsC
  <2>2. CASE IsL /\ DomainInv
    BY <2>2 DEF DomainInv, OwnOnly, TypeOK, IsV, IsL, IsC
  <2>3. CASE IsP /\ PX!Inv
    <3>1. P!TypeOK
      BY <2>3 DEF PX!Inv, PX!TypeOK, P!TypeOK, PX!Objects, P!Objects,
         PX!Stages, P!Stages, PX!Passes, P!Passes, PX!Uids, P!Uids, PX!Lives, P!Lives,
         PX!Vmids, P!Vmids, PX!NoVM, P!NoVM, PX!Foreign, P!Foreign, PX!VmRecords, P!VmRecords
    <3> QED BY <2>3, <3>1 DEF OwnOnly, TypeOK, IsV, IsP, IsC
  <2>4. CASE IsC /\ GuestInv
    <3>1. C!GuestTpmIsOwn
      BY <2>4, OwnTpm
    <3> QED BY <2>4, <3>1 DEF GuestInv, OwnOnly, TypeOK, IsV, IsC
  <2> QED BY <2>1, <2>2, <2>3, <2>4 DEF FollowedInv
<1> QED BY <1>1, FollowedInductive, PTL
=============================================================================
