------------------------------- MODULE Leader -------------------------------
(***************************************************************************)
(* Leader election on a Lease (leader.rs), the readiness it drives         *)
(* (health.rs), and the process around both (app.rs): wait for the lease,  *)
(* run the controllers, renew, exit when the renewer returns.              *)
(*                                                                         *)
(* The age of the lease counts the time since its renewTime; ages saturate *)
(* one past LeaseDuration.  A call's flight is folded into the wait before *)
(* it: what is read may be stale when the process acts on it.              *)
(***************************************************************************)
EXTENDS Integers, FiniteSets

CONSTANTS
    Procs,          \* the replicas, each with its own identity
    Nobody,         \* no holderIdentity
    LeaseDuration,
    Faults,         \* the faults that may happen
    MaxFaults       \* bound on them

FaultKinds == {"crash", "acquire", "renew", "reread", "delete"}

ASSUME LeaderAssumption ==
    /\ Nobody \notin Procs
    /\ LeaseDuration \in Nat \ {0} /\ MaxFaults \in Nat
    /\ Faults \subseteq FaultKinds

VARIABLES
    lease,     \* the Lease; applied: the last takeover set its transitions
    pc,        \* where each replica is
    seen,      \* the lease it read, and the action decided on it
    isLeader,  \* its readiness: it became leader
    started,   \* its readiness: its controllers have started
    readAge,   \* its readiness: the age of its last lease read
    faults,    \* faults so far
    calm       \* so far replicas acted in time, and only renewals failed

vars == <<lease, pc, seen, isLeader, started, readAge, faults, calm>>

Ages == 0..(LeaseDuration + 1)
Older(age) == IF age > LeaseDuration THEN age ELSE age + 1
Never == -1

Leases == [exists: BOOLEAN, holder: Procs \cup {Nobody}, age: Ages,
           transitions: Nat, applied: BOOLEAN]

NoLease == [exists |-> FALSE, holder |-> Nobody, age |-> 0, transitions |-> 0,
            applied |-> FALSE]

Actions == {"AcquireNew", "Renew", "Wait", "TakeOver"}

NotSeen == [action |-> "Wait", found |-> FALSE, transitions |-> 0]

TypeOK ==
    /\ lease \in Leases
    /\ pc \in [Procs -> {"down", "waiting", "acting", "leading", "rereading"}]
    /\ seen \in [Procs -> [action: Actions, found: BOOLEAN, transitions: Nat]]
    /\ isLeader \in [Procs -> BOOLEAN] /\ started \in [Procs -> BOOLEAN]
    /\ readAge \in [Procs -> Ages \cup {Never}]
    /\ faults \in 0..MaxFaults /\ calm \in BOOLEAN

Init ==
    /\ lease = NoLease
    /\ pc = [p \in Procs |-> "down"]
    /\ seen = [p \in Procs |-> NotSeen]
    /\ isLeader = [p \in Procs |-> FALSE] /\ started = isLeader
    /\ readAge = [p \in Procs |-> Never]
    /\ faults = 0 /\ calm = TRUE

Leading(p) == pc[p] \in {"leading", "rereading"}

-----------------------------------------------------------------------------
decide_action_early(p) ==
    CASE ~lease.exists \/ lease.holder = Nobody -> "AcquireNew"
      [] lease.exists /\ lease.holder = p -> "Renew"
      [] lease.exists /\ lease.holder \notin {p, Nobody} ->
            IF lease.age < LeaseDuration THEN "Wait" ELSE "TakeOver"

decide_action_never_taking_over(p) ==
    CASE ~lease.exists \/ lease.holder = Nobody -> "AcquireNew"
      [] lease.exists /\ lease.holder = p -> "Renew"
      [] lease.exists /\ lease.holder \notin {p, Nobody} -> "Wait"

\* A lease renewed exactly LeaseDuration ago is still alive.
decide_action(p) ==
    CASE ~lease.exists \/ lease.holder = Nobody -> "AcquireNew"
      [] lease.exists /\ lease.holder = p -> "Renew"
      [] lease.exists /\ lease.holder \notin {p, Nobody} ->
            IF lease.age <= LeaseDuration THEN "Wait" ELSE "TakeOver"

\* The Deployment starts the process.
Start(p) ==
    /\ pc[p] = "down"
    /\ pc' = [pc EXCEPT ![p] = "waiting"]
    /\ UNCHANGED <<lease, seen, isLeader, started, readAge, faults, calm>>

\* The process ends, and its memory with it.
Exit(p) ==
    /\ pc' = [pc EXCEPT ![p] = "down"]
    /\ seen' = [seen EXCEPT ![p] = NotSeen]
    /\ isLeader' = [isLeader EXCEPT ![p] = FALSE]
    /\ started' = [started EXCEPT ![p] = FALSE]
    /\ readAge' = [readAge EXCEPT ![p] = Never]

\* acquire_or_wait reads the lease and decides; a failed read is retried.
ReadLease(p) ==
    /\ pc[p] = "waiting"
    /\ readAge' = [readAge EXCEPT ![p] = 0]
    /\ \/ decide_action(p) = "Wait" /\ UNCHANGED <<pc, seen>>
       \/ /\ decide_action(p) # "Wait"
          /\ pc' = [pc EXCEPT ![p] = "acting"]
          /\ seen' = [seen EXCEPT ![p] =
                        [action |-> decide_action(p), found |-> lease.exists,
                         transitions |-> lease.transitions]]
    /\ UNCHANGED <<lease, isLeader, started, faults, calm>>

BecomeLeader(p) ==
    /\ pc' = [pc EXCEPT ![p] = "leading"]
    /\ seen' = [seen EXCEPT ![p] = NotSeen]
    /\ isLeader' = [isLeader EXCEPT ![p] = TRUE]
    /\ UNCHANGED started
    /\ readAge' = [readAge EXCEPT ![p] = 0]

Created(p) == [exists |-> TRUE, holder |-> p, age |-> 0, transitions |-> 1,
               applied |-> FALSE]

CreateLease_over_another(p) ==
    /\ pc[p] = "acting"
    /\ seen[p].action = "AcquireNew" /\ ~seen[p].found
    /\ lease' = Created(p)
    /\ BecomeLeader(p)
    /\ UNCHANGED <<faults, calm>>

\* There was no lease: create it.  Somebody else was first: the error ends the
\* process.
CreateLease(p) ==
    /\ pc[p] = "acting"
    /\ seen[p].action = "AcquireNew" /\ ~seen[p].found
    /\ \/ ~lease.exists /\ lease' = Created(p) /\ BecomeLeader(p)
       \/ lease.exists /\ Exit(p) /\ UNCHANGED lease
    /\ UNCHANGED <<faults, calm>>

TakenOver_counting_down(p) ==
    [exists |-> TRUE, holder |-> p, age |-> 0,
     transitions |-> seen[p].transitions - 1, applied |-> TRUE]

TakenOver(p) ==
    [exists |-> TRUE, holder |-> p, age |-> 0,
     transitions |-> seen[p].transitions + 1, applied |-> TRUE]

\* A forced server-side apply over whatever the lease says by now.
patch_take_over(p) ==
    /\ pc[p] = "acting"
    /\ seen[p].action = "TakeOver" \/ (seen[p].action = "AcquireNew" /\ seen[p].found)
    /\ lease' = TakenOver(p)
    /\ BecomeLeader(p)
    /\ UNCHANGED <<faults, calm>>

\* renew_once applies renewTime and holderIdentity, by force.  Fields that the
\* same manager applied before and leaves out now are removed: leaseTransitions
\* after a takeover.
Renewed(p) ==
    [exists |-> TRUE, holder |-> p, age |-> 0,
     transitions |-> IF lease.applied THEN 0 ELSE lease.transitions,
     applied |-> FALSE]

\* The lease names this replica, from before a restart: renew, and lead.
RenewToLead(p) ==
    /\ pc[p] = "acting" /\ seen[p].action = "Renew"
    /\ lease' = Renewed(p)
    /\ BecomeLeader(p)
    /\ UNCHANGED <<faults, calm>>

\* The elected replica starts its controllers.
StartControllers(p) ==
    /\ Leading(p) /\ ~started[p]
    /\ started' = [started EXCEPT ![p] = TRUE]
    /\ UNCHANGED <<lease, pc, seen, isLeader, readAge, faults, calm>>

\* One turn of renew_forever.
RenewOnce(p) ==
    /\ pc[p] = "leading"
    /\ lease' = Renewed(p)
    /\ readAge' = [readAge EXCEPT ![p] = 0]
    /\ UNCHANGED <<pc, seen, isLeader, started, faults, calm>>

\* After a failed renewal the lease is read again: keep leading, or exit.
Reread(p) ==
    /\ pc[p] = "rereading"
    /\ \/ /\ decide_action(p) = "Renew"
          /\ pc' = [pc EXCEPT ![p] = "leading"]
          /\ UNCHANGED <<seen, isLeader, started, readAge>>
       \/ decide_action(p) # "Renew" /\ Exit(p)
    /\ UNCHANGED <<lease, faults, calm>>

-----------------------------------------------------------------------------
Fault(kind) ==
    /\ kind \in Faults /\ faults < MaxFaults /\ faults' = faults + 1
    /\ calm' = (calm /\ kind = "renew")

RenewFails(p) ==
    /\ Fault("renew")
    /\ pc[p] = "leading"
    /\ pc' = [pc EXCEPT ![p] = "rereading"]
    /\ UNCHANGED <<lease, seen, isLeader, started, readAge>>

\* A failed CREATE or PATCH, or a failed re-read, ends the process.
AcquireFails(p) == Fault("acquire") /\ pc[p] = "acting" /\ Exit(p) /\ UNCHANGED lease

RereadFails(p) == Fault("reread") /\ pc[p] = "rereading" /\ Exit(p) /\ UNCHANGED lease

Crash(p) == Fault("crash") /\ pc[p] # "down" /\ Exit(p) /\ UNCHANGED lease

DeleteLease ==
    /\ Fault("delete")
    /\ lease.exists
    /\ lease' = NoLease
    /\ UNCHANGED <<pc, seen, isLeader, started, readAge>>

\* In time: no call is under way, and no leader is about to lose its lease.
InTime ==
    \A p \in Procs : pc[p] # "acting" /\ (Leading(p) => lease.age < LeaseDuration)

Tick ==
    /\ calm' = (calm /\ InTime)
    /\ lease' = [exists |-> lease.exists, holder |-> lease.holder,
                 age |-> IF lease.exists THEN Older(lease.age) ELSE lease.age,
                 transitions |-> lease.transitions, applied |-> lease.applied]
    /\ readAge' = [p \in Procs |-> IF readAge[p] = Never THEN Never ELSE Older(readAge[p])]
    /\ UNCHANGED <<pc, seen, isLeader, started, faults>>

Work(p) ==
    \/ ReadLease(p) \/ CreateLease(p) \/ patch_take_over(p) \/ RenewToLead(p)
    \/ StartControllers(p) \/ RenewOnce(p) \/ Reread(p)

Next ==
    \/ \E p \in Procs : \/ Start(p) \/ Work(p)
                        \/ RenewFails(p) \/ AcquireFails(p) \/ RereadFails(p) \/ Crash(p)
    \/ DeleteLease \/ Tick

Spec == Init /\ [][Next]_vars

\* A running process goes on and time passes; nothing promises that a process
\* that ended is started again.
FairSpec == Spec /\ WF_vars(Tick) /\ \A p \in Procs : WF_vars(Work(p))

-----------------------------------------------------------------------------
\* What /readyz answers.
evaluate(p) ==
    CASE isLeader[p] -> IF started[p] THEN "leader" ELSE "starting"
      [] ~isLeader[p] /\ readAge[p] = Never -> "starting"
      [] ~isLeader[p] /\ readAge[p] # Never ->
            IF readAge[p] <= LeaseDuration THEN "standby" ELSE "unreachable"

OneLeader == \A p, q \in Procs : Leading(p) /\ Leading(q) => p = q

\* Only the elected leader runs reconcilers (leader.rs): as long as replicas act
\* in time and none ended, no two lead, whichever found no lease first and
\* however renewals fail.
OneLeaderWhileCalm == calm => OneLeader

\* A replica whose /readyz says leader holds the lease (while calm), and one that
\* is past its election never says standby (ADR-0093).
ReadyzTruthful ==
    \A p \in Procs :
        /\ evaluate(p) = "leader" => Leading(p) /\ (calm => lease.holder = p)
        /\ evaluate(p) \in {"standby", "unreachable"} => ~Leading(p)

\* Failover: while some replica runs, again and again one leads, whatever
\* crashed before.
LeaderEmerges ==
    []<>(\/ \E p \in Procs : Leading(p)
         \/ \A p \in Procs : pc[p] = "down")

\* A leader that lost the lease to another one stops (renew_forever's comment):
\* two leaders do not stay.
LossNoticed == []<>OneLeader
=============================================================================
