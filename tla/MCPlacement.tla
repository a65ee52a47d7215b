---------------------------- MODULE MCPlacement -----------------------------
(***************************************************************************)
(* One VirtualMachine in two configurations, each in behaviours of its     *)
(* own: "cascade", the one the constants give, with a store that lags,     *)
(* failing calls and kinds that cannot be looked up; and "placing", with   *)
(* every decision and migration policy, a current store and no failure.    *)
(***************************************************************************)
EXTENDS VirtualMachine

VARIABLE which

\* Two placements on one kind of backend, one on another, one on a class without a
\* builder.
OnBackends == [p \in Placements |->
    CASE p \in {"p1", "p2"} -> "vsphere" [] p = "p3" -> "libvirt" [] p = "p4" -> NoKind]

Placing == INSTANCE VirtualMachine WITH
    Answers <- Placements \cup {Refused, NoPlacement},
    Policies <- {"Never", "Manual", "Automatic"}, Outages <- {{}},
    Changes <- {"world", "approve", "vanish", "delete"}, Lag <- FALSE, MaxFaults <- 0

allvars == <<which, vars>>
IsCascade == which = "cascade"
IsPlacing == which = "placing"

\* The decision of the cascade starts with one backend; a change makes it the other's.
EitherInit == \/ IsCascade /\ Init /\ \A v \in VMs : world[v] = "p1"
              \/ IsPlacing /\ Placing!Init

EitherNext == /\ UNCHANGED which
              /\ \/ IsCascade /\ Next
                 \/ IsPlacing /\ Placing!Next

\* The fairness of FairSpec.
Steps(v) == UNCHANGED which /\ ((IsCascade /\ Step(v)) \/ (IsPlacing /\ Placing!Step(v)))
Backends(v, k) == UNCHANGED which /\ Backend(v, k)
Fairness ==
    /\ WF_allvars(Deliver /\ UNCHANGED which)
    /\ \A v \in VMs : WF_allvars(Steps(v)) /\ \A k \in Kinds : WF_allvars(Backends(v, k))

EitherSpec == EitherInit /\ [][EitherNext]_allvars /\ Fairness
-----------------------------------------------------------------------------
\* Whatever the scheduler answers and users approve, an infra CR is where the status
\* of its VM records it, as long as the store is current and no call is lost: a
\* drifting VM is never applied twice.
RecordedWhenCurrent == IsPlacing => Placing!TypeOK /\ PlacementRecorded
=============================================================================
