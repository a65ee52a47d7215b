-------------------------- MODULE AddressConflict --------------------------
(***************************************************************************)
(* Duplicate static addresses (address_conflict.rs): which VirtualMachines *)
(* are blocked because another one reserves an address they declare.       *)
(*                                                                         *)
(* A VM is [born, declared, held]: its creation time and two sets of       *)
(* claims.  A claim is [net, address]; net is AnyNet when the VMClass of   *)
(* the claimant cannot be resolved.  vms maps the names of the VMs, which  *)
(* are numbers and so have an order, to the VMs.                           *)
(***************************************************************************)
EXTENDS Integers, FiniteSets

CONSTANT AnyNet

Matches(c, d) ==
    c.address = d.address /\ (c.net = d.net \/ AnyNet \in {c.net, d.net})

\* Oldest first, then by name.
Older(vms, v, w) ==
    \/ vms[v].born < vms[w].born
    \/ vms[v].born = vms[w].born /\ v < w

\* The n-th VM in that order has n - 1 before it.
Nth(vms, n) ==
    CHOOSE v \in DOMAIN vms : Cardinality({w \in DOMAIN vms : Older(vms, w, v)}) = n - 1

\* Reservations are pairs <<claim, owner>>.
TakenFrom(reserved, v, claims) ==
    {c \in claims : \E r \in reserved : r[2] # v /\ Matches(r[1], c)}

Nothing == [reserved |-> {}, blocked |-> {}]

ReserveHeld_forgotten(state, v, vm) == state

\* A held claim is never reassigned; the older of two holders keeps it.
ReserveHeld(state, v, vm) ==
    LET taken == TakenFrom(state.reserved, v, vm.held)
    IN  [reserved |-> state.reserved \cup ((vm.held \ taken) \X {v}),
         blocked |-> state.blocked \cup (IF taken = {} THEN {} ELSE {v})]

ReserveDeclared_even_if_blocked(state, v, vm) ==
    LET taken == TakenFrom(state.reserved, v, vm.declared)
    IN  [reserved |-> state.reserved \cup ((vm.declared \ taken) \X {v}),
         blocked |-> state.blocked \cup (IF taken = {} THEN {} ELSE {v})]

ReserveDeclared_held_only(state, v, vm) ==
    IF TakenFrom(state.reserved, v, vm.declared) = {} THEN state
    ELSE [state EXCEPT !.blocked = @ \cup {v}]

\* A VM reserves what it declares only if nothing of it is reserved.
ReserveDeclared(state, v, vm) ==
    IF v \in state.blocked THEN state
    ELSE IF TakenFrom(state.reserved, v, vm.declared) = {}
    THEN [state EXCEPT !.reserved = @ \cup (vm.declared \X {v})]
    ELSE [state EXCEPT !.blocked = @ \cup {v}]

\* The only member of a set; TLC evaluates once what is bound this way.
The(S) == CHOOSE x \in S : TRUE

HeldTurn(vms, state, v) == The({ReserveHeld(s, v, vms[v]) : s \in {state}})

DeclaredTurn(vms, state, v) == The({ReserveDeclared(s, v, vms[v]) : s \in {state}})

\* A sweep over the VMs, oldest first: what is reserved and who is blocked after n
\* of them.  The first is over held claims.
HeldSweep(vms) ==
    LET sweep[n \in 0..Cardinality(DOMAIN vms)] ==
            IF n = 0 THEN Nothing ELSE HeldTurn(vms, sweep[n - 1], Nth(vms, n))
    IN  sweep

\* The second is over declared claims.
DeclaredSweep(vms, start) ==
    LET sweep[n \in 0..Cardinality(DOMAIN vms)] ==
            IF n = 0 THEN start ELSE DeclaredTurn(vms, sweep[n - 1], Nth(vms, n))
    IN  sweep

Sweeps_declared_only(vms) == DeclaredSweep(vms, Nothing)[Cardinality(DOMAIN vms)]

Sweeps(vms) ==
    LET all == Cardinality(DOMAIN vms)
    IN  DeclaredSweep(vms, HeldSweep(vms)[all])[all]

Restricted(vms, S) == [v \in S |-> vms[v]]

\* VM me is blocked, judged among itself and its contenders.
find_duplicate_address(me, contenders, vms) ==
    me \in Sweeps(Restricted(vms, contenders \cup {me})).blocked

AddressesOf(vm) == {c.address : c \in vm.declared \cup vm.held}

Sharing(vms, S) ==
    {w \in DOMAIN vms : \E v \in S : AddressesOf(vms[v]) \cap AddressesOf(vms[w]) # {}}

contending_vms_direct(me, vms) == Sharing(vms, {me}) \ {me}

\* Everyone who shares an address with me, or with someone who does, and so on: they
\* are in every set that has me and all who share an address with one of its members.
contending_vms(me, vms) ==
    {w \in DOMAIN vms \ {me} :
        \A S \in SUBSET DOMAIN vms : me \in S /\ Sharing(vms, S) \subseteq S => w \in S}

\* A VM that declares no static address is never checked, and one without
\* contenders is free.
duplicate_address(me, vms) ==
    /\ vms[me].declared # {}
    /\ \E contenders \in {contending_vms(me, vms)} :
         contenders # {} /\ find_duplicate_address(me, contenders, vms)
=============================================================================
