------------------------- MODULE ProviderInventory --------------------------
(***************************************************************************)
(* What a Provider advertises: the four provider reconcilers look at their *)
(* backend and publish the failure domains the scheduler places onto, the  *)
(* classes each of them serves, and two conditions.                        *)
(*                                                                         *)
(* One Provider is followed while its spec, its Secret and its backend     *)
(* change.  A pass reads the credentials, lists the zones and looks at     *)
(* them one by one, so the backend may change under it; every status that  *)
(* differs from the one before wakes the controller again.                 *)
(***************************************************************************)
EXTENDS Integers, Sequences, FiniteSets

CONSTANTS
    Zones,          \* clusters (vSphere), nodes (Proxmox); a host is one zone
    Home,           \* the zone of a backend that is one host
    StorageClasses, NetworkClasses,   \* that the Provider declares
    Target,         \* class -> [zones: zone -> target, default: target or None]
    Things,         \* what a zone may have to offer: the targets
    Names,          \* that the domains of two zones may be given
    Figures,        \* of a Cloud Hypervisor host: [host, huge, budget], some Unknown
    MaxEdits, MaxFaults

VARIABLES
    kind,       \* the backend of the Provider
    spec,       \* [paused, names: zone -> override or None]
    world,      \* [secret, up, inv: zone -> things, figures]
    status,     \* of the Provider
    seen,       \* the conditions in the controller's store
    woken,      \* a change of the Provider waits for a pass
    now,        \* the clock, as far as two stamps can be told apart
    pass,       \* the pass under way
    edits, faults

vars == <<kind, spec, world, status, seen, woken, now, pass, edits, faults>>

Kinds == {"vsphere", "libvirt", "proxmox", "cloudhv"}
None == "none"
Unknown == -1
Classes == StorageClasses \cup NetworkClasses

ZonesOf(k) == IF k \in {"libvirt", "cloudhv"} THEN {Home} ELSE Zones

\* A zone that is not there (a removed cluster, a node that is offline).
Gone == {"gone"}

Conditions == [{"Reachable", "Ready"} -> [st: {None, "True", "False"}, at: 0..1]]
NoConditions == [c \in {"Reachable", "Ready"} |-> [st |-> None, at |-> 0]]
Domains == [zone: Zones, name: Names \cup Zones, classes: SUBSET Classes, capacity: Int]
NoPass == [pc |-> "idle", base |-> NoConditions, left |-> {}, domains |-> {}, reason |-> None]

TypeOK ==
    /\ kind \in Kinds
    /\ spec.paused \in BOOLEAN /\ spec.names \in [Zones -> Names \cup {None}]
    /\ world.secret \in BOOLEAN /\ world.up \in BOOLEAN
    /\ \A z \in Zones : world.inv[z] \subseteq Things \/ world.inv[z] = Gone
    /\ status.conditions \in Conditions /\ status.domains \in SUBSET Domains
    /\ seen \in Conditions /\ woken \in BOOLEAN /\ now \in 0..1
    /\ pass.pc \in {"idle", "creds", "probe", "patch"} /\ pass.base \in Conditions
    /\ pass.left \subseteq Zones /\ pass.domains \in SUBSET Domains
    /\ edits \in 0..MaxEdits /\ faults \in 0..MaxFaults

Init ==
    /\ kind \in Kinds
    /\ spec = [paused |-> FALSE, names |-> [z \in Zones |-> None]]
    /\ world \in [secret: {kind # "cloudhv"}, up: {TRUE}, inv: {[z \in Zones |-> Things]},
                  figures: IF kind = "cloudhv" THEN Figures
                           ELSE [host: {Unknown}, huge: {Unknown}, budget: {Unknown}]]
    /\ status = [conditions |-> NoConditions, domains |-> {}]
    /\ seen = NoConditions /\ woken = TRUE /\ now = 0 /\ pass = NoPass
    /\ edits = 0 /\ faults = 0

-----------------------------------------------------------------------------
(* The parts of a status.                                                  *)

target_for_default(c, zone) == Target[c].default

\* The target of exactly this zone, or the default.
target_for(c, zone) ==
    IF zone \in DOMAIN Target[c].zones THEN Target[c].zones[zone] ELSE Target[c].default

\* vSphere.  A target under a key that the backend does not look up counts as
\* none.
storage_class_reachable(c, zone) == target_for(c, zone) \in world.inv[zone]
network_class_reachable(c, zone) == target_for(c, zone) \in world.inv[zone]

compute_failure_domain_attributes(zone) ==
    {c \in StorageClasses : storage_class_reachable(c, zone)}
        \cup {c \in NetworkClasses : network_class_reachable(c, zone)}

\* The other backends have no zones to match a target with.
partition_declared(zone) == {c \in Classes : Target[c].default \in world.inv[zone]}
storage_check(c, zone) == Target[c].default \in world.inv[zone]
network_check(c, zone) == Target[c].default \in world.inv[zone]
host_class(c) == Target[c].default

ClassesAt(zone) ==
    CASE kind = "vsphere" -> compute_failure_domain_attributes(zone)
      [] kind = "libvirt" -> partition_declared(zone)
      [] kind = "proxmox" -> {c \in StorageClasses : storage_check(c, zone)}
                                \cup {c \in NetworkClasses : network_check(c, zone)}
      [] kind = "cloudhv" -> {c \in Classes : host_class(c) \in world.inv[zone]}

min_known(a, b) == IF a = Unknown THEN b ELSE IF b = Unknown \/ a <= b THEN a ELSE b

guest_capacity_of_host(f) ==
    IF f.host = Unknown THEN f.budget ELSE min_known(f.host, f.budget)

\* Memory reserved as hugepages is not there for guests.
guest_capacity(f) ==
    LET huge == IF f.huge = Unknown THEN 0 ELSE f.huge
        host == IF f.host = Unknown THEN Unknown
                ELSE IF f.host < huge THEN 0 ELSE f.host - huge
    IN min_known(host, f.budget)

build_failure_domain(zone) ==
    [zone |-> zone,
     name |-> IF kind = "vsphere" /\ spec.names[zone] # None THEN spec.names[zone] ELSE zone,
     classes |-> ClassesAt(zone),
     capacity |-> IF kind = "cloudhv" THEN guest_capacity(world.figures) ELSE Unknown]

names_clash_ignored(ds) == FALSE
names_clash(ds) == \E d, e \in ds : d # e /\ d.name = e.name

set_condition_restamped(cs, type, st) == [cs EXCEPT ![type] = [st |-> st, at |-> now]]

\* The time of a condition is that of its last change.
set_condition(cs, type, st) ==
    IF cs[type].st = st THEN cs ELSE [cs EXCEPT ![type] = [st |-> st, at |-> now]]

\* libvirt and Proxmox build the conditions anew; the others start from what is
\* published.
Base == IF kind \in {"vsphere", "cloudhv"} THEN pass.base ELSE NoConditions
Set(reachable, ready) ==
    LET cs == IF reachable = None THEN Base ELSE set_condition(Base, "Reachable", reachable)
    IN set_condition(cs, "Ready", ready)

Status(ready, ds) == [conditions |-> Set("True", IF ready THEN "True" ELSE "False"), domains |-> ds]

\* Which classes are missing makes no vSphere Provider unready; for Proxmox only
\* one that no node serves does; for a single host any does.
vsphere_status(ds) == Status(TRUE, ds)
libvirt_status(ds) == Status(\A d \in ds : d.classes = Classes, ds)
proxmox_status(ds) == Status(\A c \in Classes : \E d \in ds : c \in d.classes, ds)
cloudhv_status(ds) == Status(\A d \in ds : d.classes = Classes, ds)

compute_status(ds) ==
    CASE kind = "vsphere" -> vsphere_status(ds)
      [] kind = "libvirt" -> libvirt_status(ds)
      [] kind = "proxmox" -> proxmox_status(ds)
      [] kind = "cloudhv" -> cloudhv_status(ds)

NotReady(reachable) == [conditions |-> Set(reachable, "False"), domains |-> {}]

\* The domains are left out of the patch ("the SSA merge will keep whatever the
\* previous successful reconcile wrote"); they were applied by the same field
\* manager, so the API server drops them.  A walk that failed says nothing of
\* reachability.
patch_status_failed(reason) == NotReady(IF reason = "InventoryFailed" THEN None ELSE "False")

libvirt_failed_status_kept == [NotReady("False") EXCEPT !.domains = status.domains]
libvirt_failed_status == NotReady("False")
proxmox_failed_status == NotReady("False")

\* A host that cannot run guests stays reachable.
cloudhv_not_ready == NotReady("True")

FailedStatus(reason) ==
    CASE kind = "vsphere" -> patch_status_failed(reason)
      [] kind = "libvirt" -> libvirt_failed_status
      [] kind = "proxmox" -> proxmox_failed_status
      [] kind = "cloudhv" -> cloudhv_not_ready

-----------------------------------------------------------------------------
(* A pass.                                                                 *)

Keep == UNCHANGED <<kind, spec, world, now, edits>>
Fail == faults < MaxFaults /\ faults' = faults + 1
To(p) == pass' = p /\ UNCHANGED <<status, seen, woken>> /\ Keep

\* A paused Provider is left as it is, by all but Cloud Hypervisor's host.  A pass
\* that is handed an older copy counts as a fault: passes are seconds apart.
Begin ==
    /\ pass.pc = "idle" /\ woken' = FALSE
    /\ \/ seen = status.conditions /\ UNCHANGED faults
       \/ seen # status.conditions /\ Fail
    /\ pass' = IF spec.paused /\ kind # "cloudhv" THEN pass
               ELSE [NoPass EXCEPT !.pc = "creds", !.base = seen]
    /\ UNCHANGED <<status, seen>> /\ Keep

Refuse(reason) == To([pass EXCEPT !.pc = "patch", !.domains = {}, !.reason = reason])

\* read_credentials, then the connection: the reason when one of them fails.  A
\* Cloud Hypervisor host reads no Secret, and refuses a Provider that names one.
ConnectReason == IF ~world.secret THEN "SecretMissing" ELSE IF ~world.up THEN "ConnectFailed" ELSE None
HostReason == IF world.secret \/ ~world.up THEN "HostNotReady" ELSE None

Connect(reason) ==
    /\ pass.pc = "creds"
    /\ \/ /\ UNCHANGED faults
          /\ IF reason # None THEN Refuse(reason)
             ELSE To([pass EXCEPT !.pc = "probe", !.left = {z \in ZonesOf(kind) : world.inv[z] # Gone}])
       \/ kind # "cloudhv" /\ Fail /\ Refuse("ConnectFailed")

vsphere_connect == kind = "vsphere" /\ Connect(ConnectReason)
libvirt_connect == kind = "libvirt" /\ Connect(ConnectReason)
proxmox_connect == kind = "proxmox" /\ Connect(ConnectReason)
gather_facts == kind = "cloudhv" /\ Connect(HostReason)

\* One zone is looked at; any call that fails ends the walk.
discover_inventory ==
    /\ pass.pc = "probe"
    /\ LET err == IF kind = "vsphere" THEN "InventoryFailed" ELSE "ConnectFailed" IN
       \/ /\ UNCHANGED faults
          /\ \E z \in pass.left :
                IF kind # "cloudhv" /\ (world.inv[z] = Gone \/ ~world.up) THEN Refuse(err)
                ELSE To([pass EXCEPT !.left = @ \ {z}, !.domains = @ \cup {build_failure_domain(z)}])
       \/ kind # "cloudhv" /\ pass.left # {} /\ Fail /\ Refuse(err)
       \/ /\ pass.left = {} /\ UNCHANGED faults
          /\ IF kind = "vsphere" /\ names_clash(pass.domains) THEN Refuse(err)
             ELSE IF kind = "proxmox" /\ pass.domains = {} THEN Refuse(err)
             ELSE To([pass EXCEPT !.pc = "patch"])

\* The object changes only when the status differs; that wakes the controller.
patch_status ==
    LET st == IF pass.reason = None THEN compute_status(pass.domains) ELSE FailedStatus(pass.reason) IN
    /\ pass.pc = "patch" /\ pass' = NoPass /\ Keep
    /\ \/ status' = st /\ woken' = (woken \/ st # status) /\ UNCHANGED <<seen, faults>>
       \/ Fail /\ UNCHANGED <<status, seen, woken>>

Pass ==
    \/ Begin \/ vsphere_connect \/ libvirt_connect \/ proxmox_connect \/ gather_facts
    \/ discover_inventory \/ patch_status

-----------------------------------------------------------------------------
(* What happens around it.                                                 *)

Same == UNCHANGED <<kind, status, seen, pass, faults>>

EditSpec ==
    /\ edits < MaxEdits /\ edits' = edits + 1 /\ woken' = TRUE
    /\ \/ spec' = [spec EXCEPT !.paused = ~@]
       \/ kind = "vsphere" /\ \E ns \in [Zones -> Names \cup {None}] :
             ns # spec.names /\ spec' = [spec EXCEPT !.names = ns]
    /\ UNCHANGED <<world, now>> /\ Same

EditWorld ==
    /\ edits < MaxEdits /\ edits' = edits + 1
    /\ \/ \E x \in BOOLEAN : x # world.up /\ world' = [world EXCEPT !.up = x]
       \/ \E x \in BOOLEAN : x # world.secret /\ world' = [world EXCEPT !.secret = x]
       \/ \E z \in ZonesOf(kind), ts \in SUBSET Things \cup {Gone} :
             /\ ts # world.inv[z] /\ (ts = Gone => kind \in {"vsphere", "proxmox"})
             /\ world' = [world EXCEPT !.inv[z] = ts]
    /\ UNCHANGED <<spec, woken, now>> /\ Same

Tick ==
    /\ now' = 1 - now
    /\ UNCHANGED <<spec, world, woken, edits>> /\ Same

Sync ==
    /\ seen # status.conditions /\ seen' = status.conditions
    /\ UNCHANGED <<kind, spec, world, status, woken, now, pass, edits, faults>>

Next == Pass \/ EditSpec \/ EditWorld \/ Tick \/ Sync

\* Passes are repeated at intervals, woken or not; the store catches up.
Fairness == WF_vars(Pass) /\ WF_vars(Sync)

Spec == Init /\ [][Next]_vars /\ Fairness
-----------------------------------------------------------------------------
(* Properties.                                                             *)

\* The scheduler and the image controllers know a domain by its name; a host's
\* capacity is within its budget and what is not set aside; and a libvirt or Proxmox
\* Provider that could not be looked at advertises no domain ("advertising domains
\* we could not verify would be worse than advertising none", libvirt provider.rs).
\* Nothing is said of a vSphere Provider that could not be looked at: the code drops
\* its domains where its comment says that it "preserves any previously-known
\* failure domains".
DomainsSound ==
    /\ \A d, e \in status.domains : d.name = e.name => d = e
    /\ kind # "vsphere" /\ status.conditions["Reachable"].st # "True" => status.domains = {}
    /\ \A d \in status.domains :
          d.capacity # Unknown =>
             /\ world.figures.budget # Unknown => d.capacity <= world.figures.budget
             /\ (world.figures.host # Unknown /\ world.figures.huge # Unknown /\ d.capacity # 0)
                   => d.capacity + world.figures.huge <= world.figures.host

\* What is there for a class in a zone, said without the reconcilers' helpers.
Served(c, z) ==
    \/ kind = "vsphere" /\ z \in DOMAIN Target[c].zones /\ Target[c].zones[z] \in world.inv[z]
    \/ (kind = "vsphere" => z \notin DOMAIN Target[c].zones) /\ Target[c].default \in world.inv[z]
Visible == world.up /\ world.secret = (kind # "cloudhv")

\* Once the Provider and its backend stay as they are, the status comes to say
\* what is there - a class in a domain exactly when the zone has its target - and
\* when nobody can look it is not ready and, vSphere aside (see DomainsSound), names
\* no domain.  The controllers of vSphere and Cloud Hypervisor also come to rest.
\* Those of libvirt and Proxmox do not: they stamp the conditions anew in every
\* pass, and each such status wakes them again; of them only the status is asked.
NamesClash ==
    kind = "vsphere" /\ \E y, z \in Zones : y # z /\ spec.names[y] = spec.names[z] /\ spec.names[y] # None
Settled ==
    \/ spec.paused /\ kind # "cloudhv"
    \/ /\ ~Visible /\ status.conditions["Ready"].st = "False"
       /\ kind # "vsphere" => status.domains = {}
    \/ NamesClash /\ status.conditions["Ready"].st = "False"
    \/ /\ Visible /\ {d.zone : d \in status.domains} = {z \in ZonesOf(kind) : world.inv[z] # Gone}
       /\ \A d \in status.domains : d.classes = {c \in Classes : Served(c, d.zone)}
AtRest == Settled /\ (kind \in {"vsphere", "cloudhv"} => ~woken)
InventoryFollows == <>[]AtRest
=============================================================================
