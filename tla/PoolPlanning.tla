---------------------------- MODULE PoolPlanning ----------------------------
(***************************************************************************)
(* plan over every small snapshot: what one plan may do, and that a plan   *)
(* applied in full leaves nothing for the next one to do at that moment.   *)
(***************************************************************************)
EXTENDS PoolPlan

CONSTANTS
    MaxMembers,      \* bound on the members of the snapshot
    MaxWarm, MaxMax, MaxSurges,  \* bounds on the spec's sizes
    Timeout, Limit,  \* provisioning and idle limits
    Lists            \* address lists, as sequences of ranges

VARIABLES
    in,     \* the pool's inputs
    v,      \* the snapshot
    next    \* the plan for it

vars == <<in, v, next>>

View(phase, age, readyFor, revision) ==
    [phase |-> phase, age |-> age, readyFor |-> readyFor, revision |-> revision,
     address |-> NoAddress]

\* A member of every phase, on either side of every limit the planner tests.
Views ==
    {View("Provisioning", Timeout, 0, 1), View("Provisioning", Timeout + 1, 0, 1),
     View("Ready", 1, Limit, 1), View("Ready", 2, Limit + 1, 1), View("Ready", 1, 0, 2),
     View("Claimed", 1, 0, 1), View("Deleting", 1, 0, 1)}

\* Members hold the first addresses of the first range, if there is one.
Snapshots(lists) ==
    UNION {{[m \in 1..n |-> [f[m] EXCEPT !.address =
                IF lists = <<>> THEN NoAddress ELSE lists[1].lo + m - 1]] :
            f \in [1..n -> Views]} : n \in 0..MaxMembers}

Alive == {m \in DOMAIN v : v[m].phase # "Deleting"}

\* A pool within its ceiling, as Pool's AliveWithinMax says it is until an edit
\* lowers maxReplicas.
Init ==
    /\ in \in [warm: 0..MaxWarm, max: 0..MaxMax, surge: 0..MaxSurges,
               timeout: {Timeout}, maxIdle: {{}, {Limit}}, recycle: BOOLEAN,
               revision: {1}, ranges: Lists]
    /\ v \in Snapshots(in.ranges)
    /\ Cardinality(Alive) <= in.max
    /\ next = plan(in, v)

\* The plan applied: deletes get a deletionTimestamp, creates start out.
Applied(p) ==
    [m \in 1..(Cardinality(DOMAIN v) + Len(p.create)) |->
        IF m \in p.delete THEN [v[m] EXCEPT !.phase = "Deleting"]
        ELSE IF m \in DOMAIN v THEN v[m]
        ELSE [View("Provisioning", 0, 0, in.revision) EXCEPT
                !.address = p.create[m - Cardinality(DOMAIN v)]]]

ApplyPlan ==
    /\ next.delete # {} \/ next.create # <<>>
    /\ v' = Applied(next)
    /\ next' = plan(in, v')
    /\ UNCHANGED in

Next == ApplyPlan

Spec == Init /\ [][Next]_vars

-----------------------------------------------------------------------------
Kept == Alive \ next.delete
ReadyOf(S) == {m \in S : v[m].phase = "Ready"}

\* Invariants 3 and 4 of pool_plan.rs: a plan that creates stays within
\* maxReplicas, and the installs it leaves running within maxSurge.
PlanWithinLimits ==
    next.create # <<>> =>
        /\ Cardinality(Kept) + Len(next.create) <= in.max
        /\ Cardinality(InPhase(v, "Provisioning") \ next.delete) + Len(next.create)
              <= in.surge

\* Invariant 5 of pool_plan.rs: a plan leaves as many members claimable as
\* there were, up to warmReplicas, unless maxReplicas leaves no other room for
\* the replacements: then it uses that room to the last member.
WarmCovered ==
    \/ Cardinality(ReadyOf(Kept)) >= Least(in.warm, Cardinality(ReadyOf(Alive)))
    \/ Cardinality(Kept) + Len(next.create) + next.blockedOnAddresses >= in.max

\* A plan applied in full settles: planning again at once changes nothing, so
\* a pass never undoes or repeats what the one before it did.
NothingMore == next'.delete = {} /\ next'.create = <<>>
PlanSettles == [][NothingMore]_vars
=============================================================================
