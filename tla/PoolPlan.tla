------------------------------ MODULE PoolPlan ------------------------------
(***************************************************************************)
(* The planner of a VirtualMachinePool (pool_plan.rs): which members to    *)
(* create and to delete, given a snapshot of the pool's members.           *)
(*                                                                         *)
(* A snapshot v maps the name of every member to its MemberView; names are *)
(* numbers, so that they have an order.  An Option is a set of at most one *)
(* element, and NoAddress stands for a member without a static address.    *)
(***************************************************************************)
EXTENDS Integers, Sequences, FiniteSets

CONSTANT NoAddress

Monus(a, b) == IF a > b THEN a - b ELSE 0

Least(a, b) == IF a < b THEN a ELSE b

-----------------------------------------------------------------------------
\* addressing.pool: addresses are 0 .. 2^width - 1 (width is 32 in the code).

AddressRange(lo, hi) == [lo |-> lo, hi |-> hi]

parse_cidr_past_its_end(e, width) ==
    CASE e.kind = "cidr" ->
            IF e.prefix > width THEN {}
            ELSE LET size == 2 ^ (width - e.prefix)
                     base == (e.addr \div size) * size
                 IN  {AddressRange(base, base + size)}
      [] e.kind = "range" -> {AddressRange(e.lo, e.hi)}
      [] e.kind = "single" -> {AddressRange(e.addr, e.addr)}

\* One entry of the address list: a CIDR block, a range or a single address.
\* The block an address lies in starts at the address with its host bits
\* cleared; a prefix longer than an address is an error, the empty set.
parse_address_pool_entry(e, width) ==
    CASE e.kind = "cidr" ->
            IF e.prefix > width THEN {}
            ELSE LET size == 2 ^ (width - e.prefix)
                     base == (e.addr \div size) * size
                 IN  {AddressRange(base, base + size - 1)}
      [] e.kind = "range" -> {AddressRange(e.lo, e.hi)}
      [] e.kind = "single" -> {AddressRange(e.addr, e.addr)}

\* What may be drawn: a place in the list, and an address there that is not in use.
\* A range that is upside down has none.
Draws(ranges, used) ==
    {d \in UNION {{i} \X (ranges[i].lo .. ranges[i].hi) : i \in DOMAIN ranges} :
        d[2] \notin used}

\* In list order, each range low to high.
DrawnBefore(c, d) == c[1] < d[1] \/ (c[1] = d[1] /\ c[2] < d[2])

\* The addresses to draw from: the n-th is drawn after n - 1 others.
FreeAddresses(ranges, used) ==
    LET draws == Draws(ranges, used)
    IN  [n \in 1..Cardinality(draws) |->
            (CHOOSE d \in draws : Cardinality({c \in draws : DrawnBefore(c, d)}) = n - 1)[2]]

-----------------------------------------------------------------------------
\* How many: passes 3 to 6 of plan, on the sizes of the groups they look at.

Sizing_claims_not_counted(in, fresh, stale, provisioning, claimed) ==
    LET freshKept == Least(fresh, in.warm)
        staleKept == Least(stale, Monus(in.warm, freshKept))
        wanted == Monus(Monus(in.warm, freshKept), provisioning)
        toCreate == Least(wanted, Monus(in.surge, provisioning))
        room == Monus(in.max, provisioning + freshKept + staleKept)
    IN  [freshKept |-> freshKept, staleKept |-> staleKept,
         create |-> Least(toCreate, room), blocked |-> Monus(toCreate, room)]

Sizing_no_surge_limit(in, fresh, stale, provisioning, claimed) ==
    LET freshKept == Least(fresh, in.warm)
        staleKept == Least(stale, Monus(in.warm, freshKept))
        wanted == Monus(Monus(in.warm, freshKept), provisioning)
        room == Monus(in.max, claimed + provisioning + freshKept + staleKept)
    IN  [freshKept |-> freshKept, staleKept |-> staleKept,
         create |-> Least(wanted, room), blocked |-> Monus(wanted, room)]

Sizing_stale_counted(in, fresh, stale, provisioning, claimed) ==
    LET freshKept == Least(fresh, in.warm)
        staleKept == Least(stale, Monus(in.warm, freshKept))
        wanted == Monus(Monus(in.warm, freshKept + staleKept), provisioning)
        toCreate == Least(wanted, Monus(in.surge, provisioning))
        room == Monus(in.max, claimed + provisioning + freshKept + staleKept)
    IN  [freshKept |-> freshKept, staleKept |-> staleKept,
         create |-> Least(toCreate, room), blocked |-> Monus(toCreate, room)]

Sizing_stale_dropped(in, fresh, stale, provisioning, claimed) ==
    LET freshKept == Least(fresh, in.warm)
        wanted == Monus(Monus(in.warm, freshKept), provisioning)
        toCreate == Least(wanted, Monus(in.surge, provisioning))
        room == Monus(in.max, claimed + provisioning + freshKept)
    IN  [freshKept |-> freshKept, staleKept |-> 0,
         create |-> Least(toCreate, room), blocked |-> Monus(toCreate, room)]

Sizing_provisioning_not_wanted(in, fresh, stale, provisioning, claimed) ==
    LET freshKept == Least(fresh, in.warm)
        staleKept == Least(stale, Monus(in.warm, freshKept))
        toCreate == Least(Monus(in.warm, freshKept), Monus(in.surge, provisioning))
        room == Monus(in.max, claimed + provisioning + freshKept + staleKept)
    IN  [freshKept |-> freshKept, staleKept |-> staleKept,
         create |-> Least(toCreate, room), blocked |-> Monus(toCreate, room)]

\* Stale members are kept while they are needed to cover warm_replicas; when
\* max_replicas leaves no room for their replacements they are traded one for
\* one.
Sizing(in, fresh, stale, provisioning, claimed) ==
    LET freshKept == Least(fresh, in.warm)
        needed == Least(stale, Monus(in.warm, freshKept))
        wanted == Monus(Monus(in.warm, freshKept), provisioning)
        toCreate == Least(wanted, Monus(in.surge, provisioning))
        Room(kept) == Monus(in.max, claimed + provisioning + freshKept + kept)
        trade == Least(Monus(toCreate, Room(needed)), needed)
        room == Room(needed - trade)
    IN  [freshKept |-> freshKept, staleKept |-> needed - trade,
         create |-> Least(toCreate, room), blocked |-> Monus(toCreate, room)]

-----------------------------------------------------------------------------
InPhase(v, phase) == {m \in DOMAIN v : v[m].phase = phase}

Poisoned_never(in, v) == {}

\* Provisioning longer than the timeout: poisoned.
Poisoned(in, v) == {m \in InPhase(v, "Provisioning") : v[m].age > in.timeout}

\* Ready, but from another image revision or idle for too long.
Stale(in, v) ==
    {m \in InPhase(v, "Ready") :
        \/ in.recycle /\ v[m].revision # in.revision
        \/ \E limit \in in.maxIdle : v[m].readyFor > limit}

\* The n members of S that come first: oldest first, then by name.
Before(v, m, n) == v[m].age > v[n].age \/ (v[m].age = v[n].age /\ m < n)

Oldest(v, S, n) ==
    {m \in S : Cardinality({k \in S : Before(v, k, m)}) < n}

UsedAddresses_of_living(v) ==
    {v[m].address : m \in {n \in DOMAIN v : v[n].phase # "Deleting"}} \ {NoAddress}

\* Every member that still exists holds its address, a deleting one included.
UsedAddresses(v) == {v[m].address : m \in DOMAIN v} \ {NoAddress}

\* What to delete, and the addresses of the members to create.
plan(in, v) ==
    LET provisioning == InPhase(v, "Provisioning") \ Poisoned(in, v)
        stale == Stale(in, v)
        fresh == InPhase(v, "Ready") \ stale
        size == Sizing(in, Cardinality(fresh), Cardinality(stale),
                       Cardinality(provisioning), Cardinality(InPhase(v, "Claimed")))
        free == FreeAddresses(in.ranges, UsedAddresses(v))
        granted == Least(size.create, Len(free))
    IN  [delete |-> Poisoned(in, v)
                    \cup Oldest(v, fresh, Cardinality(fresh) - size.freshKept)
                    \cup Oldest(v, stale, Cardinality(stale) - size.staleKept),
         create |-> IF in.ranges = <<>>
                    THEN [i \in 1..size.create |-> NoAddress]
                    ELSE SubSeq(free, 1, granted),
         blockedOnCapacity |-> size.blocked,
         blockedOnAddresses |-> IF in.ranges = <<>> THEN 0
                                ELSE size.create - granted]
=============================================================================
