----------------------------- MODULE InfraBuild -----------------------------
(***************************************************************************)
(* From a scheduled VirtualMachine to the machine object of its backend    *)
(* (controller: infra.rs): which parts of the VM, its class, its image and *)
(* its Provider end up in the machine, and when none is built.             *)
(*                                                                         *)
(* One VirtualMachine is built over and over while its image's status, the *)
(* Provider's classes and the VM itself are edited.                        *)
(***************************************************************************)
EXTENDS Integers, Sequences, FiniteSets

CONSTANTS
    Zones,          \* failure domains
    Refs,           \* what an image may resolve to in a zone, or for a whole Provider
    Numeric,        \* the ones that read as a number
    MaxEdits

VARIABLES
    backend,        \* the kind of the Provider the scheduler chose
    in,             \* the VM, its class and image and the Provider, as a pass reads them
    machine,        \* the machine object that was applied last
    edits

vars == <<backend, in, machine, edits>>

None == "none"
NoStatic == [address |-> None, gateway |-> None]
Kinds == {"vsphere", "libvirt", "cloud-hypervisor", "proxmox"}

-----------------------------------------------------------------------------
(* The pieces.                                                             *)

\* The classes of Provider that the controller has a builder for.
from_provider_class(class) == class \in Kinds

resolve_any_ref(image, zone) ==
    IF \E z \in DOMAIN image.zones : image.zones[z] # None
    THEN image.zones[CHOOSE z \in DOMAIN image.zones : image.zones[z] # None] ELSE image.top

\* The row of the zone decides, even one that is not resolved yet; without one,
\* what holds for the whole Provider.
resolve_template_ref(image, zone) ==
    IF zone \in DOMAIN image.zones THEN image.zones[zone] ELSE image.top

\* The VM's size for the disk of that name, or the class's.
merge_disk_size_override(disk, over) == IF disk.name \in DOMAIN over THEN over[disk.name] ELSE disk.size

\* A zone of its own for vSphere; the default for backends without zones.
subnet_for(k, net, zone) ==
    IF k = "vsphere" /\ zone \in net.zones THEN "zone" ELSE IF net.default THEN "default" ELSE None

merge_zone_first(static, subnet) ==
    IF static = NoStatic THEN NoStatic
    ELSE [address |-> static.address, gateway |-> IF subnet # None THEN subnet ELSE static.gateway]

\* The address is only ever the VM's own; what it leaves out is the zone's.
merge_ipam_override(static, subnet) ==
    IF static = NoStatic THEN NoStatic
    ELSE [address |-> static.address, gateway |-> IF static.gateway # None THEN static.gateway ELSE subnet]

\* A guest without a vTPM is never waited for.
first_boot_sealing_for(class, image) == class.tpm /\ image.seals

\* Backends with install media boot an image that installs itself from them.
boot_source_kind(image) == IF image.immediate THEN "backing" ELSE "media"

-----------------------------------------------------------------------------
(* The builders.                                                           *)

\* The cross-field rules of a Proxmox machine: names that differ, a tag in range.
validate(class, net) ==
    /\ \A i, j \in 2..Len(class.disks) : i # j => class.disks[i].name # class.disks[j].name
    /\ net.vlan # "range"

\* What all builders take over alike: the disks and NICs of the class in its
\* order, sizes and addresses of the VM.
Machine(k, x, boot) ==
    [template |-> resolve_template_ref(x.image, x.zone), boot |-> boot,
     disks |-> [i \in 1..Len(x.class.disks) |-> merge_disk_size_override(x.class.disks[i], x.vm.sizes)],
     ipam |-> [n \in DOMAIN x.vm.static |-> merge_ipam_override(x.vm.static[n], subnet_for(k, x.net, x.zone))],
     sealing |-> first_boot_sealing_for(x.class, x.image),
     tpm |-> x.class.tpm]

Unresolved(x) == resolve_template_ref(x.image, x.zone) = None

\* A builder: what stops it, in the order in which it looks, and what it makes.
build_vsphere_machine(x) ==
    [errors |-> <<<<"MissingFdRaw", ~({"datacenter", "cluster"} \subseteq x.raw)>>,
                  <<"UnresolvedClass", x.class.disks = <<>>>>,
                  <<"MissingResolvedImageRef", Unresolved(x)>>>>,
     machine |-> Machine("vsphere", x, "clone")]

build_libvirt_machine(x) ==
    [errors |-> <<<<"UnresolvedClass", x.class.disks = <<>>>>,
                  <<"MissingResolvedImageRef", Unresolved(x)>>>>,
     machine |-> Machine("libvirt", x, boot_source_kind(x.image))]

\* One disk only.
build_cloud_hypervisor_machine(x) ==
    [errors |-> <<<<"UnresolvedClass", x.class.disks = <<>>>>,
                  <<"Unsupported", Len(x.class.disks) > 1>>,
                  <<"MissingResolvedImageRef", Unresolved(x)>>>>,
     machine |-> Machine("cloud-hypervisor", x, boot_source_kind(x.image))]

\* A template is a number, user data needs a seed storage; no first-boot sealing.
build_proxmox_machine(x) ==
    [errors |-> <<<<"MissingFdRaw", "node" \notin x.raw>>,
                  <<"UnresolvedClass", x.class.disks = <<>>>>,
                  <<"MissingResolvedImageRef", Unresolved(x)>>,
                  <<"InvalidTemplateVmid", resolve_template_ref(x.image, x.zone) \notin Numeric>>,
                  <<"InvalidVlan", x.net.vlan = "word">>,
                  <<"UnresolvedClass", x.vm.userData /\ ~x.net.seed>>,
                  <<"InvalidSpec", ~validate(x.class, x.net)>>>>,
     machine |-> [Machine("proxmox", x, "clone") EXCEPT !.sealing = FALSE]]

Built(k, x) ==
    CASE k = "vsphere" -> build_vsphere_machine(x)
      [] k = "libvirt" -> build_libvirt_machine(x)
      [] k = "cloud-hypervisor" -> build_cloud_hypervisor_machine(x)
      [] k = "proxmox" -> build_proxmox_machine(x)

Failed(k, x) == {i \in 1..Len(Built(k, x).errors) : Built(k, x).errors[i][2]}

-----------------------------------------------------------------------------
(* The inputs: what the API server admits.                                 *)

Images == [zones: UNION {[zs -> Refs \cup {None}] : zs \in SUBSET Zones}, top: Refs \cup {None},
           seals: {TRUE}, immediate: BOOLEAN]
Disk(n, s) == [name |-> n, size |-> s]
Classes == [disks: {<<Disk("os", 2)>>, <<Disk("os", 2), Disk("data", 1)>>}, tpm: BOOLEAN]
Machines == [sizes: {<<>>, [n \in {"data"} |-> 3]}, userData: BOOLEAN,
             static: {[n \in {"eth0"} |-> NoStatic],
                      [n \in {"eth0"} |-> [address |-> "mine", gateway |-> None]],
                      [n \in {"eth0"} |-> [address |-> "mine", gateway |-> "own"]]}]
Nets == [zones: {{}, Zones}, default: BOOLEAN, vlan: {"none", "tag", "word", "range"}, seed: BOOLEAN]

Plain ==
    [image |-> [zones |-> <<>>, top |-> CHOOSE r \in Numeric : TRUE, seals |-> TRUE, immediate |-> TRUE],
     class |-> [disks |-> <<Disk("os", 2)>>, tpm |-> TRUE],
     vm |-> [sizes |-> <<>>, userData |-> FALSE, static |-> [n \in {"eth0"} |-> NoStatic]],
     net |-> [zones |-> {}, default |-> TRUE, vlan |-> "none", seed |-> FALSE],
     zone |-> CHOOSE z \in Zones : TRUE, raw |-> {"datacenter", "cluster", "node"}]

NoMachine == [template |-> None]

Init == backend \in Kinds /\ in = Plain /\ machine = NoMachine /\ edits = 0

\* A pass builds the machine, or reports why not and leaves the one there is.
Build ==
    /\ from_provider_class(backend)
    /\ machine' = IF Failed(backend, in) = {} THEN Built(backend, in).machine ELSE machine
    /\ UNCHANGED <<backend, in, edits>>

Edit ==
    /\ edits < MaxEdits /\ edits' = edits + 1
    /\ \/ \E i \in Images : in' = [in EXCEPT !.image = i]
       \/ \E c \in Classes : in' = [in EXCEPT !.class = c]
       \/ \E v \in Machines : in' = [in EXCEPT !.vm = v]
       \/ \E n \in Nets : in' = [in EXCEPT !.net = n]
       \/ \E z \in Zones, raw \in {{}, {"node"}} : in' = [in EXCEPT !.zone = z, !.raw = raw]
    /\ UNCHANGED <<backend, machine>>

Next == Build \/ Edit

Spec == Init /\ [][Next]_vars /\ WF_vars(Build)
-----------------------------------------------------------------------------
(* Properties.                                                             *)

\* What is built is what the class promises and the VM asks for: every disk, at
\* the VM's size where it gives one, its own address, and its own gateway where
\* it gives one; from the template of its own zone where the image has a row
\* for that zone, and never an unresolved one; and a machine without a vTPM
\* does not wait for a sealing.
AsAsked ==
    Build /\ Failed(backend, in) = {} =>
         /\ Len(machine'.disks) = Len(in.class.disks)
         /\ \A i \in 1..Len(in.class.disks) : \A n \in DOMAIN in.vm.sizes :
               in.class.disks[i].name = n => machine'.disks[i] = in.vm.sizes[n]
         /\ \A n \in DOMAIN in.vm.static :
               LET s == in.vm.static[n] IN
               /\ machine'.ipam[n].address = s.address
               /\ s.gateway # None => machine'.ipam[n].gateway = s.gateway
         /\ machine'.template # None
         /\ in.zone \in DOMAIN in.image.zones => machine'.template = in.image.zones[in.zone]
         /\ machine'.sealing => machine'.tpm
BuiltAsAsked == [][AsAsked]_vars
=============================================================================
