-------------------------- MODULE MCVirtualMachine --------------------------
(* The decisions of VirtualMachine's runs: two placements on one kind of   *)
(* backend, one on another kind, one on a class without a builder.         *)
EXTENDS VirtualMachine

BackendOf == [p \in Placements |->
    CASE p \in {"p1", "p2"} -> "vsphere" [] p = "p3" -> "libvirt" [] p = "p4" -> NoKind]
=============================================================================
