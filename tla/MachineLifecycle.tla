-------------------------- MODULE MachineLifecycle --------------------------
(***************************************************************************)
(* What every provider promises of an infrastructure CR and the backend    *)
(* resources made for it: they are made only while the CR is there, and    *)
(* the CR goes only once none of them is left.  The machine reconcilers    *)
(* of the providers are each shown to implement this.                      *)
(***************************************************************************)
CONSTANTS
    Machines,       \* the infrastructure CRs; one created again is another
    Resources       \* VMs, domains, volumes, directories of the backend

VARIABLES
    machine,    \* machine[m]: "absent", "live" or "deleting"
    held        \* held[m]: the resources made for m that are still there

lifecycle == <<machine, held>>

Init == /\ machine \in [Machines -> {"absent", "live"}]
        /\ held = [m \in Machines |-> {}]

\* The provider may see a CR for the first time when it is deleted already.
Appear(m) == machine[m] = "absent" /\ machine'[m] # "absent" /\ held'[m] = held[m]

Delete(m) == machine[m] = "live" /\ machine'[m] = "deleting" /\ held'[m] = held[m]

Vanish(m) == machine'[m] = "absent" /\ held'[m] = {}

\* While the CR is there, resources are made, replaced and given up.
Use(m) == machine[m] # "absent" /\ machine'[m] = machine[m] /\ held'[m] \subseteq Resources

Release(m) == machine'[m] = machine[m] /\ held'[m] \subseteq held[m]

\* One step of the system may concern several machines.
Next == \A m \in Machines : Appear(m) \/ Delete(m) \/ Vanish(m) \/ Use(m) \/ Release(m)

Spec == Init /\ [][Next]_lifecycle
=============================================================================
