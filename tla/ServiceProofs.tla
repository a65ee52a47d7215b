---------------------------- MODULE ServiceProofs ----------------------------
(***************************************************************************)
(* What is proved about the parts that machines rest on: which replica     *)
(* works (Leader), under which uid a guest runs (HostUids), and from which *)
(* image it boots (ImageBuild, HostImageCache, LibvirtImage,               *)
(* VSphereImage).                                                          *)
(*                                                                         *)
(* Each section is about one module, in behaviours of that module alone:   *)
(* constants and variables that several of them declare under one name     *)
(* share nothing but the name.                                             *)
(***************************************************************************)
EXTENDS Leader, TLAPS

CONSTANTS
    Machines, UidCount, MaxCrashes,                         \* HostUids
    Specs, MaxBuilds,                                       \* ImageBuild
    Images, Files, First, Keep,                             \* HostImageCache
    Pools,                                                  \* LibvirtImage
    Providers, Imported, LateStores, MaxRequests,           \* VSphereImage
    Sources, MaxChanges                                     \* several of these

VARIABLES
    api, given, unit, crashes,                              \* HostUids
    machine,                                                \* HostImageCache
    obj, cache, backend, jobs, pods, provider, pass, ghost, changes
-----------------------------------------------------------------------------
(***************************************************************************)
(* Leader.  While replicas keep to the timing the lease relies on, and     *)
(* none ends, any number of replicas elect one leader.  After that two may *)
(* lead, and stay (run LeaderLoss).                                        *)
(***************************************************************************)

\* A leader holds a lease that has not run out, and the holder of a lease leads:
\* so whoever is about to act found no lease, and has to create it.
Elected ==
    /\ \A p \in Procs : Leading(p) => /\ lease.exists /\ lease.holder = p
                                      /\ lease.age <= LeaseDuration
    /\ lease.exists => lease.holder \in Procs /\ Leading(lease.holder)
    /\ \A p \in Procs : pc[p] = "acting" =>
                            seen[p].action = "AcquireNew" /\ ~seen[p].found

\* What a replica remembers is well typed.
MemoryOK ==
    /\ pc \in [Procs -> {"down", "waiting", "acting", "leading", "rereading"}]
    /\ seen \in [Procs -> [action: Actions, found: BOOLEAN, transitions: Nat]]
    /\ isLeader \in [Procs -> BOOLEAN] /\ started \in [Procs -> BOOLEAN]
    /\ readAge \in [Procs -> Ages \cup {Never}]

HistoryOK == faults \in 0..MaxFaults /\ calm \in BOOLEAN

\* decide_action answers with a LeaseAction: Renew exactly for the holder.
LEMMA Decision ==
    ASSUME TypeOK, NEW p \in Procs
    PROVE  /\ decide_action(p) \in Actions
           /\ decide_action(p) = "Renew" <=> lease.exists /\ lease.holder = p
           /\ decide_action(p) = "AcquireNew" <=> ~lease.exists \/ lease.holder = Nobody
           /\ decide_action(p) = "TakeOver" => lease.exists /\ lease.age > LeaseDuration
<1>1. lease.exists \in BOOLEAN /\ lease.holder \in Procs \cup {Nobody}
      /\ lease.age \in Nat /\ LeaseDuration \in Nat
  BY LeaderAssumption DEF TypeOK, Leases, Ages
<1>2. p # Nobody
  BY LeaderAssumption
<1>3. CASE ~lease.exists \/ lease.holder = Nobody
  BY <1>2, <1>3 DEF decide_action, Actions
<1>4. CASE lease.exists /\ lease.holder = p
  BY <1>2, <1>4 DEF decide_action, Actions
<1>5. CASE lease.exists /\ lease.holder \notin {p, Nobody}
  <2>1. decide_action(p) = IF lease.age <= LeaseDuration THEN "Wait" ELSE "TakeOver"
    BY <1>5 DEF decide_action
  <2> QED BY <1>1, <1>5, <2>1 DEF Actions
<1> QED BY <1>1, <1>3, <1>4, <1>5

\* Ending and becoming leader leave a replica's memory well typed.
LEMMA MemoryStep ==
    ASSUME TypeOK, NEW p \in Procs, Exit(p) \/ BecomeLeader(p)
    PROVE  MemoryOK'
<1>1. NotSeen \in [action: Actions, found: BOOLEAN, transitions: Nat] /\ 0 \in Ages
  BY LeaderAssumption DEF NotSeen, Actions, Ages
<1>2. seen' = [seen EXCEPT ![p] = NotSeen]
  BY DEF Exit, BecomeLeader
<1>3. seen' \in [Procs -> [action: Actions, found: BOOLEAN, transitions: Nat]]
  BY <1>1, <1>2 DEF TypeOK
<1>4. CASE Exit(p)
  BY <1>3, <1>4 DEF TypeOK, MemoryOK, Exit
<1>5. CASE BecomeLeader(p)
  BY <1>1, <1>3, <1>5 DEF TypeOK, MemoryOK, BecomeLeader
<1> QED BY <1>4, <1>5

\* Every step keeps the types.
LEMMA TypeStep == TypeOK /\ [Next]_vars => TypeOK'
<1> SUFFICES ASSUME TypeOK, [Next]_vars PROVE TypeOK'
  OBVIOUS
<1>a. lease \in Leases /\ MemoryOK /\ HistoryOK
  BY DEF TypeOK, MemoryOK, HistoryOK
<1>b. lease' \in Leases /\ MemoryOK' /\ HistoryOK' => TypeOK'
  BY DEF TypeOK, MemoryOK, HistoryOK
<1>f. UNCHANGED <<faults, calm>> => HistoryOK'
  BY <1>a DEF HistoryOK
<1>c. ASSUME NEW p \in Procs
      PROVE  Created(p) \in Leases /\ TakenOver(p) \in Leases /\ Renewed(p) \in Leases
  <2>1. seen[p].transitions \in Nat /\ lease.transitions \in Nat /\ 0 \in Ages
    BY LeaderAssumption DEF TypeOK, Leases, Ages
  <2> QED BY <2>1 DEF Created, TakenOver, Renewed, Leases
<1>d. NoLease \in Leases
  BY LeaderAssumption DEF NoLease, Leases, Ages
<1>e. \A kind : Fault(kind) => HistoryOK'
  BY <1>a, LeaderAssumption DEF Fault, HistoryOK
<1>1. ASSUME NEW p \in Procs, Start(p) PROVE TypeOK'
  BY <1>1 DEF Start, TypeOK
<1>2. ASSUME NEW p \in Procs, Work(p) PROVE TypeOK'
  <2>1. ASSUME ReadLease(p) PROVE TypeOK'
    <3> DEFINE s == [action |-> decide_action(p), found |-> lease.exists,
                     transitions |-> lease.transitions]
    <3>1. s \in [action: Actions, found: BOOLEAN, transitions: Nat]
      BY Decision DEF TypeOK, Leases
    <3>2. 0 \in Ages
      BY LeaderAssumption DEF Ages
    <3>3. UNCHANGED seen \/ seen' = [seen EXCEPT ![p] = s]
      BY <2>1 DEF ReadLease
    <3>4. UNCHANGED pc \/ pc' = [pc EXCEPT ![p] = "acting"]
      BY <2>1 DEF ReadLease
    <3> HIDE DEF s
    <3>5. seen' \in [Procs -> [action: Actions, found: BOOLEAN, transitions: Nat]]
      BY <1>a, <3>1, <3>3 DEF MemoryOK
    <3>6. MemoryOK'
      BY <1>a, <2>1, <3>2, <3>4, <3>5 DEF ReadLease, MemoryOK
    <3> QED BY <1>a, <1>b, <1>f, <2>1, <3>6 DEF ReadLease
  <2>2. ASSUME CreateLease(p) PROVE TypeOK'
    BY <1>a, <1>b, <1>f, <1>c, <2>2, MemoryStep DEF CreateLease
  <2>3. ASSUME patch_take_over(p) PROVE TypeOK'
    BY <1>a, <1>b, <1>f, <1>c, <2>3, MemoryStep DEF patch_take_over
  <2>4. ASSUME RenewToLead(p) PROVE TypeOK'
    BY <1>a, <1>b, <1>f, <1>c, <2>4, MemoryStep DEF RenewToLead
  <2>5. ASSUME RenewOnce(p) PROVE TypeOK'
    <3>1. 0 \in Ages
      BY LeaderAssumption DEF Ages
    <3>2. MemoryOK'
      BY <1>a, <2>5, <3>1 DEF RenewOnce, MemoryOK
    <3> QED BY <1>a, <1>b, <1>f, <1>c, <2>5, <3>2 DEF RenewOnce
  <2>6. ASSUME Reread(p) PROVE TypeOK'
    <3>1. CASE decide_action(p) = "Renew"
      <4>1. MemoryOK'
        BY <1>a, <2>6, <3>1 DEF Reread, MemoryOK
      <4> QED BY <1>a, <1>b, <1>f, <2>6, <4>1 DEF Reread
    <3>2. CASE decide_action(p) # "Renew"
      BY <1>a, <1>b, <1>f, <2>6, <3>2, MemoryStep DEF Reread
    <3> QED BY <3>1, <3>2
  <2>7. ASSUME StartControllers(p) PROVE TypeOK'
    BY <1>a, <1>b, <1>f, <2>7 DEF StartControllers, MemoryOK
  <2> QED BY <1>2, <2>1, <2>2, <2>3, <2>4, <2>5, <2>6, <2>7 DEF Work
<1>3. ASSUME NEW p \in Procs, RenewFails(p) PROVE TypeOK'
  <2>1. MemoryOK'
    BY <1>a, <1>3 DEF RenewFails, MemoryOK
  <2> QED BY <1>a, <1>b, <1>e, <1>3, <2>1 DEF RenewFails
<1>4. ASSUME NEW p \in Procs, AcquireFails(p) \/ RereadFails(p) \/ Crash(p) PROVE TypeOK'
  BY <1>a, <1>b, <1>e, <1>4, MemoryStep DEF AcquireFails, RereadFails, Crash
<1>5. ASSUME DeleteLease PROVE TypeOK'
  BY <1>a, <1>b, <1>d, <1>e, <1>5 DEF DeleteLease, MemoryOK
<1>6. ASSUME Tick PROVE TypeOK'
  <2>1. \A a \in Ages : Older(a) \in Ages
    BY LeaderAssumption DEF Ages, Older
  <2>2. lease' \in Leases
    BY <1>a, <1>6, <2>1 DEF Tick, Leases
  <2>3. readAge' \in [Procs -> Ages \cup {Never}]
    BY <1>a, <1>6, <2>1 DEF Tick, MemoryOK
  <2> QED BY <1>a, <1>b, <1>6, <2>2, <2>3 DEF Tick, MemoryOK, HistoryOK
<1>7. ASSUME UNCHANGED vars PROVE TypeOK'
  BY <1>7 DEF vars, TypeOK
<1> QED BY <1>1, <1>2, <1>3, <1>4, <1>5, <1>6, <1>7 DEF Next

\* Type correctness of the election, for any number of replicas and faults.
THEOREM LeaderTypes == Spec => []TypeOK
<1>1. Init => TypeOK
  BY LeaderAssumption DEF Init, TypeOK, Leases, NoLease, NotSeen, Actions, Ages, Never
<1> QED BY <1>1, TypeStep, PTL DEF Spec

\* A step after which all is still calm keeps Elected: nobody takes over and
\* nobody who leads ends.
LEMMA ElectedStep == calm' /\ TypeOK /\ Elected /\ [Next]_vars => Elected'
<1> SUFFICES ASSUME calm', TypeOK, Elected, [Next]_vars PROVE Elected'
  OBVIOUS
<1>a. /\ lease.exists \in BOOLEAN /\ lease.holder \in Procs \cup {Nobody}
      /\ lease.age \in Nat /\ LeaseDuration \in Nat /\ 0 <= LeaseDuration
  BY LeaderAssumption DEF TypeOK, Leases, Ages
<1>b. \A p \in Procs : decide_action(p) # "Wait" =>
          decide_action(p) = "Renew" \/ (decide_action(p) = "AcquireNew" /\ ~lease.exists)
  <2> SUFFICES ASSUME NEW p \in Procs, decide_action(p) # "Wait"
               PROVE  decide_action(p) = "Renew"
                      \/ (decide_action(p) = "AcquireNew" /\ ~lease.exists)
    OBVIOUS
  <2>1. decide_action(p) # "TakeOver"
    BY <1>a, Decision DEF Elected
  <2>2. decide_action(p) = "AcquireNew" => ~lease.exists
    BY <1>a, Decision, LeaderAssumption DEF Elected
  <2> QED BY <2>1, <2>2, Decision DEF Actions
<1>c. \A kind : Fault(kind) => kind = "renew"
  BY DEF Fault
<1>1. ASSUME NEW p \in Procs, Start(p) PROVE Elected'
  BY <1>1 DEF Start, Elected, Leading, TypeOK
<1>2. ASSUME NEW p \in Procs, ReadLease(p) PROVE Elected'
  <2>1. ~Leading(p)
    BY <1>2 DEF ReadLease, Leading
  <2>2. decide_action(p) # "Renew"
    BY <2>1, Decision DEF Elected
  <2>3. CASE decide_action(p) = "Wait"
    BY <1>2, <2>3 DEF ReadLease, Elected, Leading
  <2>4. CASE decide_action(p) # "Wait"
    <3>1. decide_action(p) = "AcquireNew" /\ ~lease.exists
      BY <1>b, <2>2, <2>4
    <3>2. /\ pc' = [pc EXCEPT ![p] = "acting"]
          /\ seen' = [seen EXCEPT ![p] =
                        [action |-> decide_action(p), found |-> lease.exists,
                         transitions |-> lease.transitions]]
      BY <1>2, <2>4 DEF ReadLease
    <3>3. seen'[p].action = "AcquireNew" /\ ~seen'[p].found
      BY <3>1, <3>2 DEF TypeOK
    <3>4. \A q \in Procs : q # p => seen'[q] = seen[q] /\ pc'[q] = pc[q]
      BY <3>2 DEF TypeOK
    <3>5. ~Leading(p)' /\ \A q \in Procs : Leading(q)' => Leading(q)
      BY <3>2, <3>4 DEF Leading, TypeOK
    <3>6. lease' = lease
      BY <1>2 DEF ReadLease
    <3> QED BY <3>1, <3>3, <3>4, <3>5, <3>6 DEF Elected
  <2> QED BY <2>3, <2>4
<1>3. ASSUME NEW p \in Procs, CreateLease(p) PROVE Elected'
  <2>1. CASE ~lease.exists
    <3>1. \A q \in Procs : ~Leading(q)
      BY <2>1 DEF Elected
    <3>2. lease' = Created(p) /\ BecomeLeader(p)
      BY <1>3, <2>1 DEF CreateLease
    <3>3. lease'.exists /\ lease'.holder = p /\ lease'.age = 0
      BY <3>2 DEF Created
    <3>4. Leading(p)' /\ \A q \in Procs : q # p => ~Leading(q)'
      BY <3>1, <3>2 DEF BecomeLeader, Leading, TypeOK
    <3>5. \A q \in Procs : pc'[q] = "acting" => pc[q] = "acting" /\ seen'[q] = seen[q]
      BY <3>2 DEF BecomeLeader, TypeOK
    <3> QED BY <1>a, <3>3, <3>4, <3>5 DEF Elected
  <2>2. CASE lease.exists
    <3>1. lease' = lease /\ Exit(p)
      BY <1>3, <2>2 DEF CreateLease
    <3>2. ~Leading(p)
      BY <1>3 DEF CreateLease, Leading
    <3>3. \A q \in Procs : Leading(q)' <=> Leading(q)
      BY <3>1, <3>2 DEF Exit, Leading, TypeOK
    <3>4. \A q \in Procs : pc'[q] = "acting" => pc[q] = "acting" /\ seen'[q] = seen[q]
      BY <3>1 DEF Exit, TypeOK
    <3> QED BY <3>1, <3>3, <3>4 DEF Elected
  <2> QED BY <1>a, <2>1, <2>2
<1>4. ASSUME NEW p \in Procs, patch_take_over(p) \/ RenewToLead(p) PROVE Elected'
  BY <1>4 DEF patch_take_over, RenewToLead, Elected
<1>5. ASSUME NEW p \in Procs, RenewOnce(p) PROVE Elected'
  <2>1. Leading(p) /\ lease.exists /\ lease.holder = p
    BY <1>5 DEF RenewOnce, Leading, Elected
  <2>2. lease'.exists /\ lease'.holder = p /\ lease'.age = 0
    BY <1>5 DEF RenewOnce, Renewed
  <2>3. UNCHANGED <<pc, seen>>
    BY <1>5 DEF RenewOnce
  <2> QED BY <1>a, <2>1, <2>2, <2>3 DEF Elected, Leading
<1>6. ASSUME NEW p \in Procs, Reread(p) PROVE Elected'
  <2>1. Leading(p)
    BY <1>6 DEF Reread, Leading
  <2>2. decide_action(p) = "Renew"
    BY <2>1, Decision DEF Elected
  <2>3. UNCHANGED <<lease, seen>> /\ pc' = [pc EXCEPT ![p] = "leading"]
    BY <1>6, <2>2 DEF Reread
  <2>4. \A q \in Procs : /\ Leading(q)' <=> Leading(q)
                         /\ pc'[q] = "acting" => pc[q] = "acting"
    BY <2>1, <2>3 DEF Leading, TypeOK
  <2> QED BY <2>3, <2>4 DEF Elected
<1>7. ASSUME NEW p \in Procs, RenewFails(p) PROVE Elected'
  <2>1. UNCHANGED <<lease, seen>> /\ pc' = [pc EXCEPT ![p] = "rereading"] /\ pc[p] = "leading"
    BY <1>7 DEF RenewFails
  <2>2. \A q \in Procs : /\ Leading(q)' <=> Leading(q)
                         /\ pc'[q] = "acting" => pc[q] = "acting"
    BY <2>1 DEF Leading, TypeOK
  <2> QED BY <2>1, <2>2 DEF Elected
<1>8. ASSUME NEW p \in Procs, AcquireFails(p) \/ RereadFails(p) \/ Crash(p) PROVE FALSE
  BY <1>c, <1>8 DEF AcquireFails, RereadFails, Crash
<1>9. ASSUME DeleteLease PROVE FALSE
  BY <1>c, <1>9 DEF DeleteLease
<1>10. ASSUME Tick PROVE Elected'
  <2>1. \A p \in Procs : Leading(p) => lease.age < LeaseDuration
    BY <1>10 DEF Tick, InTime
  <2>2. UNCHANGED <<pc, seen>>
    BY <1>10 DEF Tick
  <2>3. /\ lease'.exists = lease.exists /\ lease'.holder = lease.holder
        /\ lease.exists => lease'.age = Older(lease.age)
    BY <1>10 DEF Tick
  <2>4. lease.age < LeaseDuration => Older(lease.age) <= LeaseDuration
    BY <1>a DEF Older
  <2> QED BY <2>1, <2>2, <2>3, <2>4 DEF Elected, Leading
<1>11. ASSUME NEW p \in Procs, StartControllers(p) PROVE Elected'
  BY <1>11 DEF StartControllers, Elected, Leading
<1>12. ASSUME UNCHANGED vars PROVE Elected'
  BY <1>12 DEF vars, Elected, Leading
<1> QED BY <1>1, <1>2, <1>3, <1>4, <1>5, <1>6, <1>7, <1>8, <1>9, <1>10, <1>11, <1>12
        DEF Next, Work

\* What was calm after a step was calm before it.
LEMMA CalmBefore == TypeOK /\ [Next]_vars /\ calm' => calm
<1> SUFFICES ASSUME [Next]_vars, calm' PROVE calm
  OBVIOUS
<1>1. \A kind : Fault(kind) => calm
  BY DEF Fault
<1> QED
  BY <1>1 DEF Next, vars, Start, Work, ReadLease, CreateLease, patch_take_over, RenewToLead,
     StartControllers, RenewOnce, Reread, RenewFails, AcquireFails, RereadFails, Crash,
     DeleteLease, Tick

\* Any number of replicas have one leader while they act in time and none ends.
THEOREM CalmElection == Spec => []OneLeaderWhileCalm
<1> DEFINE Inv == TypeOK /\ (calm => Elected)
<1>1. Init => Inv
  BY LeaderAssumption
     DEF Init, TypeOK, Leases, NoLease, NotSeen, Actions, Ages, Never, Elected, Leading
<1>2. Inv /\ [Next]_vars => Inv'
  BY TypeStep, ElectedStep, CalmBefore
<1>3. Inv => OneLeaderWhileCalm
  BY DEF Elected, OneLeader, OneLeaderWhileCalm
<1> QED BY <1>1, <1>2, <1>3, PTL DEF Spec

\* The readiness flag of a replica is set exactly while it leads.
FlagTrue == \A p \in Procs : isLeader[p] <=> Leading(p)

\* The flag is set where a replica becomes leader and cleared where one ends, and
\* no other step moves a replica into or out of the stages of a leader.
LEMMA FlagStep == TypeOK /\ FlagTrue /\ [Next]_vars => FlagTrue'
<1> SUFFICES ASSUME TypeOK, FlagTrue, [Next]_vars PROVE FlagTrue'
  OBVIOUS
<1>a. ASSUME NEW p \in Procs, Exit(p) \/ BecomeLeader(p) PROVE FlagTrue'
  BY <1>a DEF Exit, BecomeLeader, FlagTrue, Leading, TypeOK
<1>b. ASSUME UNCHANGED isLeader, NEW p \in Procs, NEW stage, pc' = [pc EXCEPT ![p] = stage],
             pc[p] \in {"leading", "rereading"} <=> stage \in {"leading", "rereading"}
      PROVE  FlagTrue'
  BY <1>b DEF FlagTrue, Leading, TypeOK
<1>c. ASSUME UNCHANGED <<pc, isLeader>> PROVE FlagTrue'
  BY <1>c DEF FlagTrue, Leading
<1>1. ASSUME NEW p \in Procs, Start(p) PROVE FlagTrue'
  BY <1>1, <1>b DEF Start
<1>2. ASSUME NEW p \in Procs, ReadLease(p) PROVE FlagTrue'
  BY <1>2, <1>b, <1>c DEF ReadLease
<1>3. ASSUME NEW p \in Procs, CreateLease(p) \/ patch_take_over(p) \/ RenewToLead(p)
      PROVE  FlagTrue'
  BY <1>3, <1>a DEF CreateLease, patch_take_over, RenewToLead
<1>4. ASSUME NEW p \in Procs, StartControllers(p) \/ RenewOnce(p) PROVE FlagTrue'
  BY <1>4, <1>c DEF StartControllers, RenewOnce
<1>5. ASSUME NEW p \in Procs, Reread(p) PROVE FlagTrue'
  BY <1>5, <1>a, <1>b DEF Reread
<1>6. ASSUME NEW p \in Procs, RenewFails(p) PROVE FlagTrue'
  BY <1>6, <1>b DEF RenewFails
<1>7. ASSUME NEW p \in Procs, AcquireFails(p) \/ RereadFails(p) \/ Crash(p) PROVE FlagTrue'
  BY <1>7, <1>a DEF AcquireFails, RereadFails, Crash
<1>8. ASSUME DeleteLease \/ Tick \/ UNCHANGED vars PROVE FlagTrue'
  BY <1>8, <1>c DEF DeleteLease, Tick, vars
<1> QED BY <1>1, <1>2, <1>3, <1>4, <1>5, <1>6, <1>7, <1>8 DEF Next, Work

\* /readyz says "leader" only of a replica that leads, and that holds the lease as
\* long as all is calm, and "standby" or "unreachable" of none that leads.
THEOREM TruthfulReadiness == Spec => []ReadyzTruthful
<1> DEFINE Inv == TypeOK /\ (calm => Elected) /\ FlagTrue
<1>1. Init => Inv
  BY LeaderAssumption
     DEF Init, TypeOK, Leases, NoLease, NotSeen, Actions, Ages, Never, Elected, Leading, FlagTrue
<1>2. Inv /\ [Next]_vars => Inv'
  BY TypeStep, ElectedStep, CalmBefore, FlagStep
<1>3. Inv => ReadyzTruthful
  <2> SUFFICES ASSUME Inv, NEW p \in Procs
               PROVE  /\ evaluate(p) = "leader" => Leading(p) /\ (calm => lease.holder = p)
                      /\ evaluate(p) \in {"standby", "unreachable"} => ~Leading(p)
    BY DEF ReadyzTruthful
  <2>1. CASE isLeader[p]
    BY <2>1 DEF evaluate, FlagTrue, Elected
  <2>2. CASE ~isLeader[p]
    BY <2>2 DEF evaluate, FlagTrue
  <2> QED BY <2>1, <2>2
<1> QED BY <1>1, <1>2, <1>3, PTL DEF Spec
-----------------------------------------------------------------------------
(***************************************************************************)
(* HostUids.  No uid is given to two machines, however their passes        *)
(* interleave and however far the store lags: what a list does not show    *)
(* yet is still in the ledger.                                             *)
(***************************************************************************)

Uids == INSTANCE HostUids

\* What is assumed of the range of uids and of the machines' names.
UidAssumption == UidCount \in Nat /\ MaxCrashes \in Nat /\ Uids!Nobody \notin Machines

\* The machine is being deleted, or it is gone.
Deleted(m) == api[m].life \in {"deleting", "absent"}

\* A uid on its way to the status is in the ledger.
Granted ==
    \A m \in Machines : pc[m] = "patch" => pass[m].huid # Uids!NoUid /\ given[m] = pass[m].huid

\* What is in the ledger is given to one machine, and recorded by no other.
GivenOnce ==
    \A m, n \in Machines :
        m # n /\ given[m] # Uids!NoUid =>
            given[n] # given[m] /\ (Uids!Exists(api[n]) => api[n].huid # given[m])

\* What another machine recorded since the pass listed is still in the ledger.
Listed ==
    \A m, n \in Machines :
        m # n /\ pc[m] = "assign" /\ Uids!Exists(api[n]) /\ api[n].huid # Uids!NoUid =>
            api[n].huid \in pass[m].used \/ given[n] = api[n].huid

\* A recorded uid is in the ledger, or the store shows it and no pass asks for one.
Remembered ==
    \A m \in Machines :
        Uids!Exists(api[m]) /\ api[m].huid # Uids!NoUid /\ given[m] # api[m].huid =>
            cache[m].huid = api[m].huid /\ pc[m] \notin {"list", "assign", "patch"}

\* What the store and the passes show of a uid is what the machine records.
Shown ==
    \A m \in Machines :
        /\ api[m].life = "new" => api[m].huid = Uids!NoUid
        /\ cache[m].huid \in {Uids!NoUid, api[m].huid}
        /\ pc[m] \in {"converge", "finalize", "remove"} =>
             pass[m].huid \in {Uids!NoUid, api[m].huid}
        /\ pc[m] = "converge" => pass[m].huid # Uids!NoUid

\* A machine that is finalized is deleted, and one whose uid is released is gone.
Finalized ==
    \A m \in Machines :
        /\ cache[m].life = "deleting" => Deleted(m)
        /\ pc[m] \in {"finalize", "remove"} => Deleted(m)
        /\ pc[m] = "release" => api[m].life = "absent"

\* The inductive invariant.
UidInv ==
    /\ Uids!TypeOK /\ Granted /\ GivenOnce /\ Listed /\ Remembered /\ Shown /\ Finalized
    /\ Uids!UidsDistinct /\ Uids!UnitIsOwn

\* Nobody has a uid at first.
LEMMA UidInit == ASSUME UidAssumption, Uids!Init PROVE UidInv
<1>1. Uids!NoUid \notin Uids!HostUids
  BY DEF UidAssumption, Uids!HostUids, Uids!NoUid
<1>2. Uids!TypeOK
  BY DEF Uids!Init, Uids!TypeOK, UidAssumption, Uids!Objects, Uids!NoPass
<1>3. Granted /\ GivenOnce /\ Listed /\ Remembered /\ Shown /\ Finalized
  BY DEF Uids!Init, Granted, GivenOnce, Listed, Remembered, Shown, Finalized, Uids!Exists, Deleted,
         Uids!NoPass
<1>4. Uids!UidsDistinct /\ Uids!UnitIsOwn
  BY DEF Uids!Init, Uids!UidsDistinct, Uids!UnitIsOwn, Uids!Exists
<1> QED BY <1>2, <1>3, <1>4 DEF UidInv

\* What allocate_host_uid finds is of the range, and not used.
LEMMA Allocated ==
    ASSUME NEW used, NEW h \in Uids!allocate_host_uid(used)
    PROVE h \in Uids!HostUids /\ h \notin used
BY DEF Uids!allocate_host_uid

\* The types.
LEMMA UidTypeStep == ASSUME UidAssumption, Uids!TypeOK, [Uids!Next]_(Uids!vars) PROVE Uids!TypeOK'
<1> USE DEF Uids!TypeOK
<1>1. Uids!NoUid \notin Uids!HostUids
            /\ Uids!NoPass \in [huid: Uids!HostUids \cup {Uids!NoUid}, used: SUBSET Uids!HostUids]
  BY DEF UidAssumption, Uids!HostUids, Uids!NoUid, Uids!NoPass
<1>2. ASSUME Uids!Fail PROVE crashes' \in 0..MaxCrashes
  BY <1>2 DEF Uids!Fail, UidAssumption
<1>3. ASSUME NEW m \in Machines, Uids!reconcile(m) PROVE Uids!TypeOK'
  BY <1>3 DEF Uids!reconcile, Uids!At, Uids!Goto, Uids!Objects
<1>4. ASSUME NEW m \in Machines, Uids!used_host_uids(m) PROVE Uids!TypeOK'
  <2>1. {api[n].huid : n \in {n \in Machines \ {m} : Uids!Exists(api[n])}} \ {Uids!NoUid} \subseteq Uids!HostUids
    BY DEF Uids!Objects
  <2> QED BY <1>4, <2>1 DEF Uids!used_host_uids, Uids!At, Uids!Goto
<1>5. ASSUME NEW m \in Machines, Uids!Assign(m) PROVE Uids!TypeOK'
  <2>1. CASE \E h \in Uids!assign(m) : /\ given' = [given EXCEPT ![m] = h] /\ Uids!Goto(m, "patch")
                                       /\ pass' = [pass EXCEPT ![m].huid = h]
    <3>1. Uids!assign(m) \subseteq Uids!HostUids
      BY Allocated, Zenon DEF Uids!assign
    <3> QED BY <1>5, <2>1, <3>1 DEF Uids!Assign, Uids!Goto
  <2>2. CASE Uids!End(m) /\ UNCHANGED given
    BY <1>1, <1>5, <2>2 DEF Uids!Assign, Uids!End
  <2> QED BY <1>5, <2>1, <2>2 DEF Uids!Assign
<1>6. ASSUME NEW m \in Machines, Uids!RecordUid(m) PROVE Uids!TypeOK'
  <2>1. api' \in [Machines -> Uids!Objects]
    BY <1>6 DEF Uids!RecordUid, Uids!Objects
  <2>2. crashes' \in 0..MaxCrashes
    BY <1>2, <1>6 DEF Uids!RecordUid
  <2> QED BY <1>1, <1>6, <2>1, <2>2 DEF Uids!RecordUid, Uids!End
<1>7. ASSUME NEW m \in Machines, Uids!converge(m) PROVE Uids!TypeOK'
  BY <1>1, <1>7 DEF Uids!converge, Uids!End
<1>8. ASSUME NEW m \in Machines, Uids!finalize(m) PROVE Uids!TypeOK'
  BY <1>8 DEF Uids!finalize, Uids!Goto
<1>9. ASSUME NEW m \in Machines, Uids!RemoveFinalizer(m) PROVE Uids!TypeOK'
  <2>1. api' \in [Machines -> Uids!Objects]
    BY <1>9 DEF Uids!RemoveFinalizer, Uids!Objects
  <2>2. crashes' \in 0..MaxCrashes
    BY <1>2, <1>9 DEF Uids!RemoveFinalizer
  <2>3. (Uids!Goto(m, "release") /\ UNCHANGED pass) \/ Uids!End(m)
    BY <1>9 DEF Uids!RemoveFinalizer
  <2>4. pc' \in [Machines -> {"idle", "list", "assign", "patch", "converge", "finalize",
                             "remove", "release"}]
    BY <2>3 DEF Uids!Goto, Uids!End
  <2>5. pass' \in [Machines -> [huid: Uids!HostUids \cup {Uids!NoUid}, used: SUBSET Uids!HostUids]]
    BY <1>1, <2>3 DEF Uids!End
  <2> QED BY <1>9, <2>1, <2>2, <2>4, <2>5 DEF Uids!RemoveFinalizer
<1>10. ASSUME NEW m \in Machines, Uids!release(m) PROVE Uids!TypeOK'
  BY <1>1, <1>10 DEF Uids!release, Uids!End
<1>11. ASSUME NEW m \in Machines, Uids!Create(m) \/ Uids!Delete(m) \/ Uids!Sync(m)
       PROVE Uids!TypeOK'
  <2>1. CASE Uids!Create(m) \/ Uids!Delete(m)
    <3>1. PICK l \in {"live", "deleting"} : api' = [api EXCEPT ![m].life = l]
      BY <2>1 DEF Uids!Create, Uids!Delete
    <3>2. api' \in [Machines -> Uids!Objects]
      BY <3>1 DEF Uids!Objects
    <3> QED BY <2>1, <3>2 DEF Uids!Create, Uids!Delete
  <2>2. CASE Uids!Sync(m)
    BY <2>2 DEF Uids!Sync
  <2> QED BY <1>11, <2>1, <2>2
<1>12. ASSUME Uids!Restart PROVE Uids!TypeOK'
  <2>1. crashes' \in 0..MaxCrashes
    BY <1>2, <1>12 DEF Uids!Restart
  <2>2. [life |-> "absent", huid |-> Uids!NoUid] \in Uids!Objects
    BY DEF Uids!Objects
  <2> QED BY <1>1, <1>12, <2>1, <2>2 DEF Uids!Restart
<1>13. CASE UNCHANGED Uids!vars
  BY <1>13 DEF Uids!vars
<1> QED BY <1>3, <1>4, <1>5, <1>6, <1>7, <1>8, <1>9, <1>10, <1>11, <1>12, <1>13
            DEF Uids!Next, Uids!Pass

UidParts == Granted /\ GivenOnce /\ Listed /\ Remembered /\ Shown /\ Finalized /\ Uids!UidsDistinct
      /\ Uids!UnitIsOwn

\* Every step preserves the invariant, part by part.
LEMMA UidPartsStep == ASSUME UidAssumption, UidInv, [Uids!Next]_(Uids!vars) PROVE UidParts'
<1> USE DEF UidInv, Uids!TypeOK
<1>0. Uids!TypeOK'
  BY UidTypeStep
<1>1. Uids!NoUid \notin Uids!HostUids /\ \A m \in Machines : m # Uids!Nobody
  BY DEF UidAssumption, Uids!HostUids, Uids!NoUid
<1>3. ASSUME NEW m \in Machines, Uids!reconcile(m) PROVE UidParts'
  <2>1. Uids!Exists(api[m]) \/ cache[m].life = "deleting"
    BY <1>3 DEF Uids!reconcile
  <2> QED BY <1>3, <2>1 DEF Uids!reconcile, Uids!At, Uids!Goto, Uids!Objects, Uids!Exists, Deleted,
                            UidParts, Granted, GivenOnce, Listed, Remembered, Shown, Finalized,
                            Uids!UidsDistinct, Uids!UnitIsOwn
<1>4. ASSUME NEW m \in Machines, Uids!used_host_uids(m) PROVE UidParts'
  <2>1. \A n \in Machines : n # m /\ Uids!Exists(api[n]) /\ api[n].huid # Uids!NoUid =>
              api[n].huid \in pass'[m].used
    BY <1>4 DEF Uids!used_host_uids
  <2> QED BY <1>4, <2>1 DEF Uids!used_host_uids, Uids!At, Uids!Goto, Uids!Exists, Deleted,
                            UidParts, Granted, GivenOnce, Listed, Remembered, Shown, Finalized,
                            Uids!UidsDistinct, Uids!UnitIsOwn
<1>5. ASSUME NEW m \in Machines, Uids!Assign(m) PROVE UidParts'
  <2>1. CASE \E h \in Uids!assign(m) : /\ given' = [given EXCEPT ![m] = h] /\ Uids!Goto(m, "patch")
                                       /\ pass' = [pass EXCEPT ![m].huid = h]
    <3>1. PICK h \in Uids!assign(m) : /\ given' = [given EXCEPT ![m] = h] /\ Uids!Goto(m, "patch")
                                      /\ pass' = [pass EXCEPT ![m].huid = h]
      BY <2>1
    <3>2. h \in Uids!HostUids /\ (given[m] = h \/ (given[m] = Uids!NoUid /\ h \notin pass[m].used
                /\ \A n \in Machines : h # given[n]))
      <4>1. CASE given[m] # Uids!NoUid
        BY <4>1 DEF Uids!assign
      <4>2. CASE given[m] = Uids!NoUid
        <5>1. h \in Uids!allocate_host_uid(pass[m].used \cup {given[n] : n \in Machines})
          BY <4>2 DEF Uids!assign
        <5>2. h \in Uids!HostUids /\ h \notin pass[m].used \cup {given[n] : n \in Machines}
          BY <5>1, Allocated
        <5> QED BY <4>2, <5>2
      <4> QED BY <4>1, <4>2
    <3>3. \A n \in Machines : n # m => given[n] # h /\ (Uids!Exists(api[n]) => api[n].huid # h)
      BY <1>1, <1>5, <3>2 DEF Uids!Assign, Uids!At, GivenOnce, Listed
    <3> QED BY <1>1, <1>5, <3>1, <3>2, <3>3 DEF Uids!Assign, Uids!At, Uids!Goto, Uids!Exists,
                                                Deleted, UidParts, Granted, GivenOnce, Listed,
                                                Remembered, Shown, Finalized, Uids!UidsDistinct,
                                                Uids!UnitIsOwn
  <2>2. CASE Uids!End(m) /\ UNCHANGED given
    BY <1>5, <2>2 DEF Uids!Assign, Uids!End, Uids!NoPass, Uids!Exists, Deleted, UidParts, Granted,
                      GivenOnce, Listed, Remembered, Shown, Finalized, Uids!UidsDistinct,
                      Uids!UnitIsOwn
  <2> QED BY <1>5, <2>1, <2>2 DEF Uids!Assign
<1>6. ASSUME NEW m \in Machines, Uids!RecordUid(m) PROVE UidParts'
  <2>1. /\ UNCHANGED <<cache, given, unit>> /\ pc[m] = "patch" /\ pc'[m] = "idle"
        /\ \A n \in Machines : n # m => pc'[n] = pc[n] /\ pass'[n] = pass[n]
    BY <1>6 DEF Uids!RecordUid, Uids!At, Uids!End
  <2>2. CASE UNCHANGED api
    <3>1. Granted'
      BY <1>0, <2>1, <2>2 DEF Granted
    <3>2. GivenOnce'
      BY <1>0, <2>1, <2>2 DEF Uids!Exists, GivenOnce
    <3>3. Listed'
      BY <1>0, <2>1, <2>2 DEF Uids!Exists, Listed
    <3>4. Remembered'
      BY <1>0, <2>1, <2>2 DEF Uids!Exists, Remembered
    <3>5. Shown'
      BY <1>0, <2>1, <2>2 DEF Shown
    <3>6. Finalized'
      BY <1>0, <2>1, <2>2 DEF Deleted, Finalized
    <3>7. Uids!UidsDistinct'
      BY <1>0, <2>1, <2>2 DEF Uids!Exists, Uids!UidsDistinct
    <3>8. Uids!UnitIsOwn'
      BY <1>0, <2>1, <2>2 DEF Uids!UnitIsOwn
    <3> QED BY <3>1, <3>2, <3>3, <3>4, <3>5, <3>6, <3>7, <3>8 DEF UidParts
  <2>3. CASE Uids!Exists(api[m]) /\ api' = [api EXCEPT ![m].huid = pass[m].huid]
    <3>1. /\ api'[m].huid = given[m] /\ api'[m].life = api[m].life /\ given[m] # Uids!NoUid
          /\ \A n \in Machines : n # m => api'[n] = api[n]
      BY <2>1, <2>3 DEF Granted, Uids!Objects
    <3>2. api[m].huid # Uids!NoUid => api'[m] = api[m] /\ api'[m].huid = api[m].huid
      BY <2>1, <2>3, <3>1 DEF Remembered, Uids!Objects
    <3>30. Granted'
      BY <1>0, <1>1, <2>1, <2>3, <3>1, <3>2 DEF Granted
    <3>31. GivenOnce'
      BY <1>0, <1>1, <2>1, <2>3, <3>1, <3>2 DEF Uids!Exists, GivenOnce
    <3>32. Listed'
      BY <1>0, <1>1, <2>1, <2>3, <3>1, <3>2 DEF Uids!Exists, Listed
    <3>33. Remembered'
      BY <1>0, <1>1, <2>1, <2>3, <3>1, <3>2 DEF Uids!Exists, Remembered
    <3>34. Shown'
      BY <1>0, <1>1, <2>1, <2>3, <3>1, <3>2 DEF Uids!Exists, Shown
    <3>35. Finalized'
      BY <1>0, <1>1, <2>1, <2>3, <3>1, <3>2 DEF Deleted, Finalized
    <3>36. Uids!UidsDistinct'
      BY <1>0, <1>1, <2>1, <2>3, <3>1, <3>2 DEF Uids!Exists, GivenOnce, Uids!UidsDistinct
    <3>37. Uids!UnitIsOwn'
      BY <1>0, <1>1, <2>1, <2>3, <3>1, <3>2 DEF Uids!UnitIsOwn
    <3> QED BY <3>30, <3>31, <3>32, <3>33, <3>34, <3>35, <3>36, <3>37 DEF UidParts
  <2> QED BY <1>6, <2>2, <2>3 DEF Uids!RecordUid
<1>7. ASSUME NEW m \in Machines, Uids!converge(m) PROVE UidParts'
  BY <1>1, <1>7 DEF Uids!converge, Uids!At, Uids!End, Uids!NoPass, Uids!Exists, Deleted, UidParts,
                    Granted, GivenOnce, Listed, Remembered, Shown, Finalized, Uids!UidsDistinct,
                    Uids!UnitIsOwn
<1>8. ASSUME NEW m \in Machines, Uids!finalize(m) PROVE UidParts'
  BY <1>1, <1>8 DEF Uids!finalize, Uids!At, Uids!Goto, Uids!Exists, Deleted, UidParts, Granted,
                    GivenOnce, Listed, Remembered, Shown, Finalized, Uids!UidsDistinct,
                    Uids!UnitIsOwn
<1>9. ASSUME NEW m \in Machines, Uids!RemoveFinalizer(m) PROVE UidParts'
  <2>1. /\ UNCHANGED <<cache, given, unit>> /\ pc[m] = "remove" /\ pc'[m] \in {"idle", "release"}
        /\ \A n \in Machines : n # m => pc'[n] = pc[n] /\ pass'[n] = pass[n]
    BY <1>9 DEF Uids!RemoveFinalizer, Uids!At, Uids!Goto, Uids!End
  <2>2. CASE UNCHANGED api /\ pc'[m] = "idle"
    <3>1. Granted'
      BY <1>0, <2>1, <2>2 DEF Granted
    <3>2. GivenOnce'
      BY <1>0, <2>1, <2>2 DEF Uids!Exists, GivenOnce
    <3>3. Listed'
      BY <1>0, <2>1, <2>2 DEF Uids!Exists, Listed
    <3>4. Remembered'
      BY <1>0, <2>1, <2>2 DEF Uids!Exists, Remembered
    <3>5. Shown'
      BY <1>0, <2>1, <2>2 DEF Shown
    <3>6. Finalized'
      BY <1>0, <2>1, <2>2 DEF Deleted, Finalized
    <3>7. Uids!UidsDistinct'
      BY <1>0, <2>1, <2>2 DEF Uids!Exists, Uids!UidsDistinct
    <3>8. Uids!UnitIsOwn'
      BY <1>0, <2>1, <2>2 DEF Uids!UnitIsOwn
    <3> QED BY <3>1, <3>2, <3>3, <3>4, <3>5, <3>6, <3>7, <3>8 DEF UidParts
  <2>3. CASE api' = [api EXCEPT ![m].life = "absent"]
    <3>1. /\ api'[m].life = "absent" /\ api'[m].huid = api[m].huid
          /\ \A n \in Machines : n # m => api'[n] = api[n]
      BY <2>3 DEF Uids!Objects
    <3>30. Granted'
      BY <1>0, <2>1, <3>1 DEF Granted
    <3>31. GivenOnce'
      BY <1>0, <2>1, <3>1 DEF Uids!Exists, GivenOnce
    <3>32. Listed'
      BY <1>0, <2>1, <3>1 DEF Uids!Exists, Listed
    <3>33. Remembered'
      BY <1>0, <2>1, <3>1 DEF Uids!Exists, Remembered
    <3>34. Shown'
      BY <1>0, <2>1, <3>1 DEF Shown
    <3>35. Finalized'
      BY <1>0, <2>1, <3>1 DEF Deleted, Finalized
    <3>36. Uids!UidsDistinct'
      BY <1>0, <2>1, <3>1 DEF Uids!Exists, Uids!UidsDistinct
    <3>37. Uids!UnitIsOwn'
      BY <1>0, <2>1, <3>1 DEF Uids!UnitIsOwn
    <3> QED BY <3>30, <3>31, <3>32, <3>33, <3>34, <3>35, <3>36, <3>37 DEF UidParts
  <2> QED BY <1>9, <2>2, <2>3 DEF Uids!RemoveFinalizer, Uids!End
<1>10. ASSUME NEW m \in Machines, Uids!release(m) PROVE UidParts'
  BY <1>10 DEF Uids!release, Uids!At, Uids!End, Uids!NoPass, Uids!Exists, Deleted, UidParts,
               Granted, GivenOnce, Listed, Remembered, Shown, Finalized, Uids!UidsDistinct,
               Uids!UnitIsOwn
<1>11. ASSUME NEW m \in Machines, Uids!Create(m) \/ Uids!Delete(m) \/ Uids!Sync(m) PROVE UidParts'
  <2>1. CASE Uids!Create(m) \/ Uids!Delete(m)
    <3>1. PICK l \in {"live", "deleting"} :
              /\ api' = [api EXCEPT ![m].life = l]
              /\ l = "live" <=> api[m].life = "new"
              /\ l = "deleting" <=> api[m].life = "live"
      BY <2>1 DEF Uids!Create, Uids!Delete
    <3>2. /\ api'[m].life = l /\ api'[m].huid = api[m].huid
          /\ \A n \in Machines : n # m => api'[n] = api[n]
          /\ UNCHANGED <<cache, pc, pass, given, unit>>
      BY <2>1, <3>1 DEF Uids!Create, Uids!Delete, Uids!Objects
    <3>30. Granted'
      BY <1>0, <3>1, <3>2 DEF Granted
    <3>31. GivenOnce'
      BY <1>0, <3>1, <3>2 DEF Uids!Exists, Shown, GivenOnce
    <3>32. Listed'
      BY <1>0, <3>1, <3>2 DEF Uids!Exists, Shown, Listed
    <3>33. Remembered'
      BY <1>0, <3>1, <3>2 DEF Uids!Exists, Shown, Remembered
    <3>34. Shown'
      BY <1>0, <3>1, <3>2 DEF Shown
    <3>35. Finalized'
      BY <1>0, <3>1, <3>2 DEF Deleted, Finalized
    <3>36. Uids!UidsDistinct'
      BY <1>0, <3>1, <3>2 DEF Uids!Exists, Shown, Uids!UidsDistinct
    <3>37. Uids!UnitIsOwn'
      BY <1>0, <3>1, <3>2 DEF Uids!UnitIsOwn
    <3> QED BY <3>30, <3>31, <3>32, <3>33, <3>34, <3>35, <3>36, <3>37 DEF UidParts
  <2>2. CASE Uids!Sync(m)
    <3>1. /\ cache'[m] = api[m] /\ \A n \in Machines : n # m => cache'[n] = cache[n]
          /\ UNCHANGED <<api, pc, pass, given, unit>>
      BY <2>2 DEF Uids!Sync
    <3>30. Granted'
      BY <1>0, <3>1 DEF Granted
    <3>31. GivenOnce'
      BY <1>0, <3>1 DEF Uids!Exists, GivenOnce
    <3>32. Listed'
      BY <1>0, <3>1 DEF Uids!Exists, Listed
    <3>33. Remembered'
      BY <1>0, <3>1 DEF Uids!Exists, Remembered
    <3>34. Shown'
      BY <1>0, <3>1 DEF Shown
    <3>35. Finalized'
      BY <1>0, <3>1 DEF Deleted, Finalized
    <3>36. Uids!UidsDistinct'
      BY <1>0, <3>1 DEF Uids!Exists, Uids!UidsDistinct
    <3>37. Uids!UnitIsOwn'
      BY <1>0, <3>1 DEF Uids!UnitIsOwn
    <3> QED BY <3>30, <3>31, <3>32, <3>33, <3>34, <3>35, <3>36, <3>37 DEF UidParts
  <2> QED BY <1>11, <2>1, <2>2
<1>12. ASSUME Uids!Restart PROVE UidParts'
  BY <1>12 DEF Uids!Restart, Uids!NoPass, Uids!Exists, Deleted, UidParts, Granted, GivenOnce,
               Listed, Remembered, Shown, Finalized, Uids!UidsDistinct, Uids!UnitIsOwn
<1>13. CASE UNCHANGED Uids!vars
  BY <1>13 DEF Uids!vars, Uids!Exists, Deleted, UidParts, Granted, GivenOnce, Listed, Remembered,
               Shown, Finalized, Uids!UidsDistinct, Uids!UnitIsOwn
<1> QED BY <1>3, <1>4, <1>5, <1>6, <1>7, <1>8, <1>9, <1>10, <1>11, <1>12, <1>13
            DEF Uids!Next, Uids!Pass

\* Inv is inductive.
LEMMA UidInductive == ASSUME UidAssumption PROVE Uids!Spec => []UidInv
<1>1. Uids!Init => UidInv
  BY UidInit
<1>2. UidInv /\ [Uids!Next]_(Uids!vars) => UidInv'
  BY UidTypeStep, UidPartsStep DEF UidInv, UidParts
<1> QED BY <1>1, <1>2, PTL DEF Uids!Spec

\* Machines that exist have different uids, a uid's unit runs for the machine that records
\* it, and a recorded uid stays (used_host_uids, assign, release of the provider's host
\* ledger): for every number of machines, uids and crashes, whatever order their passes,
\* the store and restarts come in.
THEOREM UidsNeverShared ==
    ASSUME UidAssumption
    PROVE  Uids!Spec => [](Uids!UidsDistinct /\ Uids!UnitIsOwn) /\ [][Uids!UidStays]_(Uids!vars)
<1>1. UidInv => Uids!UidsDistinct /\ Uids!UnitIsOwn
  BY DEF UidInv
<1>2. UidInv /\ [Uids!Next]_(Uids!vars) => [Uids!UidStays]_(Uids!vars)
  <2> SUFFICES ASSUME UidInv, Uids!Next PROVE Uids!UidStays
    BY DEF Uids!vars
  <2> USE DEF UidInv, Uids!TypeOK
  <2>1. ASSUME NEW m \in Machines, Uids!RecordUid(m) PROVE Uids!UidStays
    <3>1. CASE UNCHANGED api
      BY <3>1 DEF Uids!UidStays
    <3>2. CASE Uids!Exists(api[m]) /\ api' = [api EXCEPT ![m].huid = pass[m].huid]
      <4>1. api[m].huid # Uids!NoUid => pass[m].huid = api[m].huid
        BY <2>1, <3>2 DEF Uids!RecordUid, Uids!At, Granted, Remembered
      <4> QED BY <3>2, <4>1 DEF Uids!UidStays, Uids!Objects
    <3> QED BY <2>1, <3>1, <3>2 DEF Uids!RecordUid
  <2>2. ASSUME NEW m \in Machines, Uids!RemoveFinalizer(m) \/ Uids!Create(m) \/ Uids!Delete(m)
        PROVE Uids!UidStays
    <3>1. UNCHANGED api
                \/ \E l \in {"live", "deleting", "absent"} : api' = [api EXCEPT ![m].life = l]
      BY <2>2 DEF Uids!RemoveFinalizer, Uids!Create, Uids!Delete
    <3>2. ASSUME NEW l, api' = [api EXCEPT ![m].life = l], NEW n \in Machines
          PROVE  api'[n].huid = api[n].huid
      BY <3>2 DEF Uids!Objects
    <3>3. \A n \in Machines : api'[n].huid = api[n].huid
      BY <3>1, <3>2
    <3> QED BY <3>3 DEF Uids!UidStays
  <2>3. CASE UNCHANGED api
    BY <2>3 DEF Uids!UidStays
  <2>4. ASSUME NEW m \in Machines,
               \/ Uids!reconcile(m) \/ Uids!used_host_uids(m) \/ Uids!Assign(m) \/ Uids!converge(m)
                                   \/ Uids!finalize(m) \/ Uids!release(m) \/ Uids!Sync(m)
        PROVE  UNCHANGED api
    BY <2>4 DEF Uids!reconcile, Uids!used_host_uids, Uids!Assign, Uids!converge, Uids!finalize,
                Uids!release, Uids!Sync
  <2>5. Uids!Restart => UNCHANGED api
    BY DEF Uids!Restart
  <2> QED BY <2>1, <2>2, <2>3, <2>4, <2>5 DEF Uids!Next, Uids!Pass
<1> QED BY <1>1, <1>2, UidInductive, PTL DEF Uids!Spec

\* No pass stops the unit of a machine that nobody deleted (finalize, converge), but the
\* late teardown of a machine that is gone: while a machine is there, the uid it is torn
\* down by is given to nobody else.
THEOREM UnitsSpared ==
    ASSUME UidAssumption PROVE Uids!Spec => [][Uids!UnitStays]_(Uids!vars)
<1>1. UidInv /\ [Uids!Next]_(Uids!vars) => [Uids!UnitStays]_(Uids!vars)
  <2> SUFFICES ASSUME UidInv, Uids!Next PROVE Uids!UnitStays
    BY DEF Uids!vars
  <2> USE DEF UidInv, Uids!TypeOK
  <2>1. ASSUME NEW k \in Machines, Uids!finalize(k), NEW h \in Uids!HostUids, NEW m \in Machines,
               unit[h] = m, api[m].life = "live"
        PROVE  unit'[h] = m \/ Uids!LateTeardown(h)
    <3>1. /\ pc[k] = "finalize" /\ api[k].life \in {"deleting", "absent"}
          /\ pass[k].huid \in {Uids!NoUid, api[k].huid}
      BY <2>1 DEF Uids!finalize, Uids!At, Finalized, Deleted, Shown
    <3>2. k # m /\ api[m].huid = h /\ h # Uids!NoUid
      BY <2>1, <3>1 DEF Uids!UnitIsOwn, UidAssumption, Uids!HostUids, Uids!NoUid
    <3>3. CASE Uids!Exists(api[k])
      <4>1. api[k].huid # h
        BY <3>2, <3>3, <2>1 DEF Uids!UidsDistinct, Uids!Exists
      <4> QED BY <2>1, <3>1, <3>2, <4>1 DEF Uids!finalize
    <3>4. CASE ~Uids!Exists(api[k])
      <4>1. CASE pass[k].huid = h
        BY <3>1, <3>4, <4>1 DEF Uids!LateTeardown
      <4>2. CASE pass[k].huid # h
        BY <2>1, <4>2 DEF Uids!finalize
      <4> QED BY <4>1, <4>2
    <3> QED BY <3>3, <3>4
  <2>2. ASSUME NEW k \in Machines, Uids!converge(k), NEW h \in Uids!HostUids, NEW m \in Machines,
               unit[h] = m
        PROVE  unit'[h] = m
    BY <2>2 DEF Uids!converge, UidAssumption
  <2>3. ASSUME NEW m \in Machines,
               \/ Uids!reconcile(m) \/ Uids!used_host_uids(m) \/ Uids!Assign(m) \/ Uids!RecordUid(m)
                                   \/ Uids!RemoveFinalizer(m) \/ Uids!release(m)
                                   \/ Uids!Create(m) \/ Uids!Delete(m) \/ Uids!Sync(m)
        PROVE  UNCHANGED unit
    BY <2>3 DEF Uids!reconcile, Uids!used_host_uids, Uids!Assign, Uids!RecordUid,
                Uids!RemoveFinalizer, Uids!release, Uids!Create,
                Uids!Delete, Uids!Sync
  <2>4. Uids!Restart => UNCHANGED unit
    BY DEF Uids!Restart
  <2> QED BY <2>1, <2>2, <2>3, <2>4 DEF Uids!Next, Uids!Pass, Uids!UnitStays
<1> QED BY <1>1, UidInductive, PTL DEF Uids!Spec

-----------------------------------------------------------------------------
(***************************************************************************)
(* ImageBuild.  What is published is the build that was made for the       *)
(* image, by the time anybody reads it: the pass reports the OSArtifact it *)
(* saw, and a Job works on the build that owns it.                         *)
(***************************************************************************)

Build == INSTANCE ImageBuild

\* What is assumed of the constants: some spec, and bounds.
BuildAssumption ==
    /\ Specs \subseteq Build!SpecType /\ Specs # {}
    /\ MaxBuilds \in Nat /\ MaxFaults \in Nat /\ MaxChanges \in Nat

\* The types of the pass and of what is remembered about builds.
BuildStages == {"idle", "live", "volume", "delete", "apply", "prelay", "push", "patch"}
Imgs == [uid: Build!Uids, spec: Specs]
BuildPasses == [img: Imgs, live: Build!Artifacts, status: Build!Statuses]
Ghosts == [1..MaxBuilds -> [ref: Nat, seal: BOOLEAN, owner: Build!Uids, blind: BOOLEAN]]

\* The type invariant, with the image's uid in step with the changes.
BuildTypes ==
    /\ obj \in [uid: Build!Uids, spec: Specs, status: Build!Statuses] /\ obj.uid <= changes + 1
    /\ cache \in Imgs
    /\ backend \in [art: Build!Artifacts, vol: Build!Volumes, next: 1..MaxBuilds + 1]
    /\ jobs \in [Build!Kinds -> Build!Jobs] /\ \A k \in Build!Kinds : jobs[k] # Build!NoJob =>
         jobs[k].phase # "none"
    /\ pc \in BuildStages /\ pass \in BuildPasses /\ ghost \in Ghosts
    /\ faults \in 0..MaxFaults /\ changes \in 0..MaxChanges

\* The blank values are of their types.
LEMMA BuildConstants ==
    ASSUME BuildAssumption
    PROVE  /\ Build!NoArtifact \in Build!Artifacts /\ Build!NoVolume \in Build!Volumes
                /\ Build!NoJob \in Build!Jobs
           /\ Build!Pending \in Build!Statuses /\ Build!NoPush \in Build!Pushes
                /\ Build!NoPass \in BuildPasses
           /\ Build!NoArtifact.uid = 0 /\ 0 \in Build!Builds
<1>1. 0 \in Build!Builds /\ 0 \in Build!Uids /\ 0 \in Nat
  BY DEF BuildAssumption, Build!Builds, Build!Uids
<1>2. Build!NoPush \in Build!Pushes
  BY <1>1 DEF Build!NoPush, Build!Pushes, Build!Files
<1>3. Build!Pending \in Build!Statuses
  BY <1>1, <1>2 DEF Build!Pending, Build!Statuses, Build!Phases, Build!Files
<1>4. Build!NoArtifact \in Build!Artifacts /\ Build!NoVolume \in Build!Volumes
            /\ Build!NoJob \in Build!Jobs /\ Build!NoArtifact.uid = 0
  BY <1>1 DEF Build!NoArtifact, Build!Artifacts, Build!NoVolume, Build!Volumes, Build!NoJob,
              Build!Jobs, Build!Files
<1>5. (CHOOSE s \in Specs : TRUE) \in Specs
  BY DEF BuildAssumption
<1>6. Build!NoPass \in BuildPasses
  BY <1>1, <1>3, <1>4, <1>5 DEF Build!NoPass, BuildPasses, Imgs
<1> QED BY <1>1, <1>2, <1>3, <1>4, <1>6

\* What a pass may find of a Job, and do about it.
JobMoved(k, file) ==
    UNCHANGED jobs \/ Build!Create(k, file) \/ Build!Remove(k)

\* A Job that is there is running, failed, done, or cannot be read.
LEMMA Outcomes ==
    ASSUME BuildTypes, NEW k \in Build!Kinds, jobs[k] # Build!NoJob
    PROVE  Build!prelay_outcome(jobs[k]) \in {"running", "failed", "done", "unread"}
<1>1. jobs[k].phase \in {"running", "succeeded", "failed"}
  BY DEF BuildTypes, Build!Jobs
<1> QED BY <1>1 DEF Build!prelay_outcome

\* What reconcile_prelay does: to the Job, and to the pass.
LEMMA PrelayMoves ==
    ASSUME BuildTypes, Build!reconcile_prelay
    PROVE  /\ JobMoved("prelay", "raw") /\ (UNCHANGED faults \/ Build!Fail)
           /\ \/ Build!Publish([pass.status EXCEPT !.phase = "building", !.file = "none"])
              \/ Build!Publish([pass.status EXCEPT !.phase = "failed", !.file = "none"])
              \/ /\ pc' = Build!After([pass.status EXCEPT !.file = "prelaid"])
                 /\ pass' = [pass EXCEPT !.status = [pass.status EXCEPT !.file = "prelaid"]]
              \/ Build!End
<1>1. jobs["prelay"] # Build!NoJob =>
          Build!prelay_outcome(jobs["prelay"]) \in {"running", "failed", "done", "unread"}
  BY Outcomes DEF Build!Kinds
<1> QED BY <1>1 DEF Build!reconcile_prelay, Build!JobStep, Build!FailPass, JobMoved

\* What reconcile_push does: it reports a push only from the Job of this build.
LEMMA PushMoves ==
    ASSUME BuildTypes, Build!reconcile_push
    PROVE  /\ JobMoved("push", pass.status.file) /\ (UNCHANGED faults \/ Build!Fail)
           /\ \/ Build!Publish([pass.status EXCEPT !.oci = [Build!NoPush EXCEPT !.phase = "pushing"]])
              \/ Build!Publish([pass.status EXCEPT !.oci = [Build!NoPush EXCEPT !.phase = "failed"]])
              \/ /\ jobs["push"].phase = "succeeded" /\ jobs["push"].owner = pass.status.build
                 /\ Build!Publish([pass.status EXCEPT !.oci = [phase |-> "ready",
                                                               build |-> jobs["push"].done,
                                                         file |-> jobs["push"].file]])
              \/ Build!End
<1>1. jobs["push"] # Build!NoJob =>
          Build!prelay_outcome(jobs["push"]) \in {"running", "failed", "done", "unread"}
  BY Outcomes DEF Build!Kinds
<1>2. Build!prelay_outcome(jobs["push"]) = "done" => jobs["push"].phase = "succeeded"
  BY DEF Build!prelay_outcome, BuildTypes, Build!Jobs, Build!Kinds
<1> QED BY <1>1, <1>2 DEF Build!reconcile_push, Build!JobStep, Build!FailPass, JobMoved,
                          Build!job_of_this_build, Build!owner_uid_matches

\* What the stages do to the pass.
LEMMA BuildPassMoves ==
    ASSUME BuildAssumption, BuildTypes,
           \/ Build!reconcile \/ Build!GetArtifact \/ Build!GetVolume \/ Build!DeleteForRebuild
                \/ Build!Apply
           \/ Build!reconcile_prelay \/ Build!reconcile_push \/ Build!patch_vmimage_status
    PROVE  pc' \in BuildStages /\ pass' \in BuildPasses
<1> USE DEF BuildTypes, BuildPasses, BuildStages
<1>1. Build!NoPass \in BuildPasses /\ Build!Pending \in Build!Statuses
            /\ Build!NoArtifact \in Build!Artifacts
  BY BuildConstants
<1>2. Build!End => pc' \in BuildStages /\ pass' \in BuildPasses
  BY <1>1 DEF Build!End
<1>3. \A st \in Build!Statuses : Build!Publish(st) => pc' \in BuildStages /\ pass' \in BuildPasses
  BY DEF Build!Publish
<1>4. CASE Build!reconcile
  <2>1. pass' = [Build!NoPass EXCEPT !.img = cache]
              \/ pass' = [[Build!NoPass EXCEPT !.img = cache] EXCEPT !.status.phase = "failed"]
    BY <1>4 DEF Build!reconcile
  <2>2. [Build!NoPass EXCEPT !.img = cache] \in BuildPasses
    BY <1>1
  <2>3. [[Build!NoPass EXCEPT !.img = cache] EXCEPT !.status.phase = "failed"] \in BuildPasses
    BY <2>2 DEF Build!Statuses, Build!Phases
  <2>4. pc' \in BuildStages
    BY <1>4 DEF Build!reconcile
  <2> QED BY <2>1, <2>2, <2>3, <2>4
<1>5. CASE Build!GetArtifact
  <2>1. Build!art \in Build!Artifacts
    BY DEF Build!art
  <2> QED BY <1>2, <1>5, <2>1 DEF Build!GetArtifact, Build!FailPass
<1>6. CASE Build!GetVolume
  <2>1. (pc' \in {"apply", "delete"} /\ UNCHANGED pass) \/ Build!Publish(Build!Pending) \/ Build!End
    BY <1>6 DEF Build!GetVolume, Build!FailPass
  <2> QED BY <1>1, <1>2, <1>3, <2>1
<1>7. CASE Build!DeleteForRebuild
  BY <1>1, <1>2, <1>3, <1>7 DEF Build!DeleteForRebuild, Build!FailPass
<1>8. CASE Build!Apply
  <2>1. /\ [Build!Pending EXCEPT !.phase = "failed"] \in Build!Statuses
        /\ Build!BuildStatus(pass.live) \in Build!Statuses
    <3>1. Build!map_kairos_phase(pass.live.phase) \in Build!Phases
      BY DEF Build!map_kairos_phase, Build!Phases
    <3>2. pass.live.uid \in Build!Builds /\ Build!spec.seal \in BOOLEAN
      BY DEF Build!Artifacts, Build!spec, Imgs, BuildAssumption, Build!SpecType
    <3>3. Build!NoPush \in Build!Pushes
      BY BuildConstants
    <3>4. Build!compute_build_artifact_status(pass.live) \in Build!Statuses
      BY <3>1, <3>2, <3>3 DEF Build!compute_build_artifact_status, Build!Statuses, Build!Files
    <3>5. \A st \in Build!Statuses : Build!apply_refusal(st) \in Build!Statuses
      BY DEF Build!apply_refusal, Build!Statuses, Build!Phases, Build!Files
    <3> QED BY <1>1, <3>4, <3>5 DEF Build!BuildStatus, Build!Statuses, Build!Phases
  <2>2. \A st : Build!After(st) \in BuildStages
    BY DEF Build!After
  <2> QED BY <1>2, <1>3, <1>8, <2>1, <2>2 DEF Build!Apply, Build!FailPass
<1>9. CASE Build!reconcile_prelay
  <2>1. \A ph \in Build!Phases : \A f \in Build!Files : [pass.status EXCEPT !.phase = ph,
                                                         !.file = f] \in Build!Statuses
    BY DEF Build!Statuses
  <2>2. \A f \in Build!Files : [pass.status EXCEPT !.file = f] \in Build!Statuses
    BY DEF Build!Statuses
  <2>3. \A st : Build!After(st) \in BuildStages
    BY DEF Build!After
  <2>4. \/ \E st \in Build!Statuses : Build!Publish(st)
        \/ \E st \in Build!Statuses : pc' = Build!After(st) /\ pass' = [pass EXCEPT !.status = st]
        \/ Build!End
    BY <1>9, <2>1, <2>2, PrelayMoves DEF Build!Phases, Build!Files
  <2> QED BY <1>2, <1>3, <2>3, <2>4
<1>10. CASE Build!reconcile_push
  <2>1. \A o \in Build!Pushes : [pass.status EXCEPT !.oci = o] \in Build!Statuses
    BY DEF Build!Statuses
  <2>2. /\ [Build!NoPush EXCEPT !.phase = "pushing"] \in Build!Pushes
             /\ [Build!NoPush EXCEPT !.phase = "failed"] \in Build!Pushes
        /\ \A b \in Build!Builds, f \in Build!Files : [phase |-> "ready", build |-> b,
                                                       file |-> f] \in Build!Pushes
    BY BuildConstants DEF Build!Pushes
  <2>3. jobs["push"].done \in Build!Builds /\ jobs["push"].file \in Build!Files
    BY DEF Build!Jobs, Build!Kinds
  <2>4. (\E st \in Build!Statuses : Build!Publish(st)) \/ Build!End
    BY <1>10, <2>1, <2>2, <2>3, PushMoves
  <2> QED BY <1>2, <1>3, <2>4
<1>11. CASE Build!patch_vmimage_status
  BY <1>2, <1>11 DEF Build!patch_vmimage_status
<1> QED BY <1>4, <1>5, <1>6, <1>7, <1>8, <1>9, <1>10, <1>11

\* The steps of a pass.
PassStep ==
    \/ Build!reconcile \/ Build!GetArtifact \/ Build!GetVolume \/ Build!DeleteForRebuild
         \/ Build!Apply
    \/ Build!reconcile_prelay \/ Build!reconcile_push \/ Build!patch_vmimage_status

\* The types of the Jobs.
JobsOK == jobs \in [Build!Kinds -> Build!Jobs] /\ \A k \in Build!Kinds : jobs[k] # Build!NoJob =>
      jobs[k].phase # "none"

\* A pass leaves the Jobs well typed.
LEMMA JobsMove ==
    ASSUME BuildAssumption, BuildTypes, NEW k \in Build!Kinds, NEW f \in Build!Files, JobMoved(k, f)
    PROVE  JobsOK'
<1> USE DEF BuildTypes
<1>1. Build!NoJob \in Build!Jobs
  BY BuildConstants
<1>2. CASE UNCHANGED jobs
  BY <1>2 DEF JobsOK
<1>3. CASE Build!Create(k, f)
  <2>1. [Build!NoJob EXCEPT !.owner = pass.status.build, !.phase = "running",
         !.file = f] \in Build!Jobs
    BY <1>1 DEF Build!Jobs, BuildPasses, Build!Statuses
  <2> QED BY <1>1, <1>3, <2>1 DEF Build!Create, JobsOK, Build!NoJob
<1>4. CASE Build!Remove(k)
  BY <1>1, <1>4 DEF Build!Remove, JobsOK
<1> QED BY <1>2, <1>3, <1>4 DEF JobMoved

\* What the pass does to the rest.
LEMMA PassTypes == ASSUME BuildAssumption, BuildTypes, PassStep PROVE BuildTypes'
<1> USE DEF BuildTypes
<1>1. pc' \in BuildStages /\ pass' \in BuildPasses
  BY BuildPassMoves DEF PassStep
<1>2. Build!Fail => faults' \in 0..MaxFaults
  BY DEF Build!Fail, BuildAssumption
<1>3. CASE Build!reconcile \/ Build!GetArtifact \/ Build!GetVolume
  BY <1>1, <1>2, <1>3 DEF Build!reconcile, Build!GetArtifact, Build!GetVolume, Build!Reads,
                          Build!KeepWorld, Build!FailPass
<1>4. CASE Build!DeleteForRebuild
  <2>1. backend' \in [art: Build!Artifacts, vol: Build!Volumes, next: 1..MaxBuilds + 1]
    <3>1. [backend EXCEPT !.art.going = TRUE] \in [art: Build!Artifacts, vol: Build!Volumes,
                                                   next: 1..MaxBuilds + 1]
      BY DEF Build!Artifacts
    <3> QED BY <1>4, <3>1 DEF Build!DeleteForRebuild
  <2> QED BY <1>1, <1>2, <1>4, <2>1 DEF Build!DeleteForRebuild, Build!KeepWorld, Build!FailPass
<1>5. CASE Build!Apply
  <2>1. backend.next \in Nat /\ Build!spec.ref \in Nat /\ Build!spec.seal \in BOOLEAN
              /\ pass.img.uid \in Build!Uids
    BY DEF BuildAssumption, Build!spec, BuildPasses, Imgs, Build!SpecType
  <2>2. /\ (Build!art = Build!NoArtifact => backend.next <= MaxBuilds)
        => Build!desired_os_artifact \in [art: Build!Artifacts, vol: Build!Volumes,
                                          next: 1..MaxBuilds + 1]
    <3>1. CASE Build!art = Build!NoArtifact
      <4> SUFFICES ASSUME backend.next <= MaxBuilds
                   PROVE  Build!desired_os_artifact \in [art: Build!Artifacts, vol: Build!Volumes,
                                                         next: 1..MaxBuilds + 1]
        BY <3>1
      <4>1. [uid |-> backend.next, owner |-> pass.img.uid, ref |-> Build!spec.ref,
             seal |-> Build!spec.seal, phase |-> "none", going |-> FALSE] \in Build!Artifacts
        BY <2>1 DEF Build!Artifacts, Build!Builds, BuildAssumption
      <4>2. backend.next + 1 \in 1..MaxBuilds + 1
        BY <2>1 DEF BuildAssumption
      <4> QED BY <3>1, <4>1, <4>2 DEF Build!desired_os_artifact
    <3>2. CASE Build!art # Build!NoArtifact
      BY <2>1, <3>2 DEF Build!desired_os_artifact, Build!Artifacts
    <3> QED BY <3>1, <3>2
  <2>3. backend' \in [art: Build!Artifacts, vol: Build!Volumes, next: 1..MaxBuilds + 1]
    BY <1>5, <2>2 DEF Build!Apply
  <2>4. ghost' \in Ghosts
    <3>1. (pass.live # Build!NoArtifact) \in BOOLEAN
      OBVIOUS
    <3>2. [ghost EXCEPT ![backend.next].blind = pass.live # Build!NoArtifact] \in Ghosts
      BY <3>1 DEF Ghosts
    <3> QED BY <1>5, <3>2 DEF Build!Apply
  <2> QED BY <1>1, <1>2, <1>5, <2>3, <2>4 DEF Build!Apply, Build!FailPass
<1>6. CASE Build!reconcile_prelay
  <2>1. JobsOK' /\ (UNCHANGED faults \/ Build!Fail)
    BY <1>6, PrelayMoves, JobsMove DEF Build!Kinds, Build!Files
  <2> QED BY <1>1, <1>2, <1>6, <2>1 DEF Build!reconcile_prelay, Build!KeepWorld, JobsOK
<1>7. CASE Build!reconcile_push
  <2>1. pass.status.file \in Build!Files
    BY DEF BuildPasses, Build!Statuses
  <2>2. JobsOK' /\ (UNCHANGED faults \/ Build!Fail)
    BY <1>7, <2>1, PushMoves, JobsMove DEF Build!Kinds
  <2> QED BY <1>1, <1>2, <1>7, <2>2 DEF Build!reconcile_push, Build!KeepWorld, JobsOK
<1>8. CASE Build!patch_vmimage_status
  <2>1. obj' \in [uid: Build!Uids, spec: Specs, status: Build!Statuses] /\ obj'.uid = obj.uid
    BY <1>8 DEF Build!patch_vmimage_status, BuildPasses
  <2> QED BY <1>1, <1>2, <1>8, <2>1 DEF Build!patch_vmimage_status, Build!KeepWorld
<1> QED BY <1>3, <1>4, <1>5, <1>6, <1>7, <1>8 DEF PassStep

\* What everybody else does.
LEMMA WorldTypes ==
    ASSUME BuildAssumption, BuildTypes,
           \/ Build!World \/ Build!Crash \/ Build!Sync \/ Build!SpecChange \/ Build!Recreate
                \/ Build!NodeReplaced
           \/ \E k \in Build!Kinds : Build!PodGone(k)
    PROVE  BuildTypes'
<1> USE DEF BuildTypes
<1>1. Build!NoPass \in BuildPasses /\ Build!NoArtifact \in Build!Artifacts
            /\ Build!NoVolume \in Build!Volumes /\ Build!NoJob \in Build!Jobs
  BY BuildConstants
<1>2. Build!Fail => faults' \in 0..MaxFaults
  BY DEF Build!Fail, BuildAssumption
<1>3. Build!Change => changes' \in 0..MaxChanges /\ changes' = changes + 1
  BY DEF Build!Change, BuildAssumption
<1>4. CASE Build!Crash
  BY <1>1, <1>2, <1>4 DEF Build!Crash, Build!FailPass, Build!End, Build!Reads, Build!KeepWorld,
                          BuildStages
<1>5. CASE Build!Sync
  BY <1>5 DEF Build!Sync, Imgs
<1>6. CASE Build!SpecChange
  <2>1. obj' \in [uid: Build!Uids, spec: Specs, status: Build!Statuses] /\ obj'.uid = obj.uid
    BY <1>6 DEF Build!SpecChange
  <2> QED BY <1>3, <1>6, <2>1 DEF Build!SpecChange, Build!OnlyWorld, Build!Uids
<1>7. CASE Build!Recreate
  <2>1. changes < MaxChanges
    BY <1>7 DEF Build!Recreate, Build!Change
  <2>2. obj.uid + 1 \in Build!Uids /\ obj.uid + 1 <= changes + 2
    BY <2>1 DEF Build!Uids, BuildAssumption
  <2>3. obj' \in [uid: Build!Uids, spec: Specs, status: Build!Statuses] /\ obj'.uid = obj.uid + 1
    BY <1>7, <2>2, BuildConstants DEF Build!Recreate
  <2>4. changes' \in 0..MaxChanges /\ obj'.uid <= changes' + 1
    BY <1>3, <1>7, <2>2, <2>3 DEF Build!Recreate
  <2> QED BY <1>7, <2>3, <2>4 DEF Build!Recreate, Build!OnlyWorld
<1>8. CASE Build!NodeReplaced
  <2>1. backend' \in [art: Build!Artifacts, vol: Build!Volumes, next: 1..MaxBuilds + 1]
    BY <1>8 DEF Build!NodeReplaced, Build!Volumes
  <2> QED BY <1>3, <1>8, <2>1 DEF Build!NodeReplaced, Build!OnlyWorld, Build!Uids
<1>9. ASSUME NEW k \in Build!Kinds, Build!PodGone(k) PROVE BuildTypes'
  <2>1. jobs[k].pod
    BY <1>9 DEF Build!PodGone
  <2>2. [jobs[k] EXCEPT !.pod = FALSE] \in Build!Jobs
              /\ [jobs[k] EXCEPT !.pod = FALSE].phase = jobs[k].phase
    BY DEF Build!Jobs
  <2>3. jobs[k] # Build!NoJob
    BY <2>1 DEF Build!NoJob
  <2>4. jobs' = [jobs EXCEPT ![k] = [jobs[k] EXCEPT !.pod = FALSE]]
    BY <1>9 DEF Build!PodGone
  <2>5. JobsOK'
    BY <2>2, <2>3, <2>4 DEF JobsOK
  <2> QED BY <1>3, <1>9, <2>5 DEF Build!PodGone, Build!OnlyWorld, JobsOK, Build!Uids
<1>10. ASSUME NEW k \in Build!Kinds, Build!JobRuns(k) PROVE BuildTypes'
  <2>1. JobsOK'
    <3>1. PICK j \in Build!Jobs : jobs' = [jobs EXCEPT ![k] = j] /\ j.phase # "none"
      <4>1. /\ [jobs[k] EXCEPT !.phase = "succeeded", !.pod = TRUE,
                !.done = Build!vol.holds] \in Build!Jobs
            /\ [jobs[k] EXCEPT !.phase = "failed"] \in Build!Jobs
        BY DEF Build!Jobs, Build!vol, Build!Volumes
      <4> QED BY <1>10, <4>1 DEF Build!JobRuns, Build!Jobs
    <3> QED BY <3>1 DEF JobsOK
  <2> QED BY <1>2, <1>10, <2>1 DEF Build!JobRuns, Build!KeepPass, JobsOK
<1>11. CASE Build!KairosStarts
  <2>1. Build!art \in Build!Artifacts /\ Build!vol \in Build!Volumes
              /\ Build!art.uid \in Build!Builds
    BY DEF Build!art, Build!vol, Build!Artifacts
  <2>2. [Build!NoVolume EXCEPT !.owner = Build!art.uid] \in Build!Volumes
    BY <1>1, <2>1 DEF Build!Volumes
  <2>3. backend' \in [art: Build!Artifacts, vol: Build!Volumes, next: 1..MaxBuilds + 1]
    BY <1>11, <2>1, <2>2 DEF Build!KairosStarts, Build!Artifacts
  <2>4. ghost' \in Ghosts
    BY <1>11, <2>1 DEF Build!KairosStarts, Ghosts, Build!Artifacts
  <2> QED BY <1>11, <2>3, <2>4 DEF Build!KairosStarts, Build!KeepPass
<1>12. CASE Build!KairosBuilds
  <2>1. Build!art.uid \in Build!Builds
    BY DEF Build!art, Build!Artifacts
  <2>2. backend' \in [art: Build!Artifacts, vol: Build!Volumes, next: 1..MaxBuilds + 1]
    <3>1. [backend EXCEPT !.art.phase = "ready",
           !.vol.holds = Build!art.uid] \in [art: Build!Artifacts, vol: Build!Volumes,
                                             next: 1..MaxBuilds + 1]
      BY <2>1 DEF Build!Artifacts, Build!Volumes
    <3>2. [backend EXCEPT !.art.phase = "error"] \in [art: Build!Artifacts, vol: Build!Volumes,
                                                      next: 1..MaxBuilds + 1]
      BY DEF Build!Artifacts
    <3> QED BY <1>12, <3>1, <3>2 DEF Build!KairosBuilds
  <2> QED BY <1>2, <1>12, <2>2 DEF Build!KairosBuilds, Build!KeepPass
<1>13. CASE Build!Collect
  <2>1. backend' \in [art: Build!Artifacts, vol: Build!Volumes, next: 1..MaxBuilds + 1]
    <3>1. [backend EXCEPT !.vol.going = TRUE] \in [art: Build!Artifacts, vol: Build!Volumes,
                                                   next: 1..MaxBuilds + 1]
      BY DEF Build!Volumes
    <3>2. /\ [backend EXCEPT !.vol = Build!NoVolume] \in [art: Build!Artifacts, vol: Build!Volumes,
                                                          next: 1..MaxBuilds + 1]
          /\ [backend EXCEPT !.art = Build!NoArtifact] \in [art: Build!Artifacts,
                                                            vol: Build!Volumes,
                                                                  next: 1..MaxBuilds + 1]
      BY <1>1
    <3> QED BY <1>13, <3>1, <3>2 DEF Build!Collect
  <2>2. JobsOK'
    BY <1>1, <1>13 DEF Build!Collect, Build!Remove, JobsOK
  <2> QED BY <1>13, <2>1, <2>2 DEF Build!Collect, Build!KeepPass, JobsOK
<1>14. CASE Build!CollectArtifact
  <2>1. ((Build!vol.owner = Build!art.uid) \/ Build!vol.going) \in BOOLEAN
    BY DEF Build!vol, Build!Volumes
  <2>2. backend' \in [art: Build!Artifacts, vol: Build!Volumes, next: 1..MaxBuilds + 1]
    BY <1>1, <1>14, <2>1 DEF Build!CollectArtifact, Build!Volumes
  <2> QED BY <1>14, <2>2 DEF Build!CollectArtifact, Build!KeepPass
<1> QED BY <1>4, <1>5, <1>6, <1>7, <1>8, <1>9, <1>10, <1>11, <1>12, <1>13, <1>14 DEF Build!World

-----------------------------------------------------------------------------
\* A build that has begun: kairos does not begin it again.
Begun(b) == b \in 1..MaxBuilds /\ b < backend.next /\ (Build!art.uid = b =>
      Build!art.phase # "none")

\* A begun build is what its OSArtifact says.
Made(a) == Begun(a.uid) /\ ghost[a.uid].ref = a.ref /\ ghost[a.uid].owner = a.owner

\* OSArtifacts are numbered as they are made.
Numbered == Build!art = Build!NoArtifact \/ (Build!art.uid # 0 /\ Build!art.uid < backend.next)

\* The pass holds the OSArtifact it looked up.
Looking == pc \in {"volume", "delete", "apply"}

\* Only a pass makes an OSArtifact: the one that is there is the one it saw.
SameArtifact ==
    Looking /\ Build!art # Build!NoArtifact =>
        /\ pass.live # Build!NoArtifact /\ pass.live.uid = Build!art.uid
             /\ pass.live.ref = Build!art.ref
        /\ pass.live.owner = Build!art.owner

\* What the gate let through.
Gated ==
    pc = "apply" =>
        IF pass.live = Build!NoArtifact THEN Build!vol = Build!NoVolume
        ELSE pass.live.ref = Build!spec.ref /\ pass.live.owner = pass.img.uid

\* An OSArtifact whose build began, there or in the eyes of the pass, is what was built;
\* and what the pass is about to report ready was built for this image.
ReportedBuild ==
    /\ Build!art # Build!NoArtifact /\ Build!art.phase # "none" => Made(Build!art)
    /\ Looking /\ pass.live # Build!NoArtifact /\ pass.live.phase # "none" => Made(pass.live)
    /\ pc \in {"prelay", "push", "patch"} /\ pass.status.phase = "ready" =>
          /\ Begun(pass.status.build) /\ ghost[pass.status.build].ref = Build!spec.ref
          /\ ghost[pass.status.build].owner = pass.img.uid

\* What is pushed, or being pushed, is the build it is pushed for.
Pushed ==
    /\ \A k \in Build!Kinds : jobs[k].phase = "succeeded" => jobs[k].done = jobs[k].owner
    /\ pc \in {"prelay", "push"} => pass.status.oci = Build!NoPush
    /\ Build!PushedIsTheBuild

\* The volume is of the OSArtifact that is there, unless that was made without sight
\* of the volume.
VolumeOwned ==
    Build!vol # Build!NoVolume =>
        /\ ~Build!vol.going => Build!art # Build!NoArtifact /\ Build!vol.owner = Build!art.uid
        /\ Build!art # Build!NoArtifact /\ ~ghost[Build!art.uid].blind =>
             Build!vol.owner = Build!art.uid

\* The inductive invariant.
BuildInv == BuildTypes /\ Numbered /\ SameArtifact /\ Gated /\ ReportedBuild /\ Pushed
      /\ VolumeOwned

\* Nothing is built at first.
LEMMA BuildInit == ASSUME BuildAssumption, Build!Init PROVE BuildInv
<1>1. BuildTypes
  <2>1. obj \in [uid: Build!Uids, spec: Specs, status: Build!Statuses] /\ obj.uid = 1
    BY BuildConstants DEF Build!Init, Build!Uids, BuildAssumption
  <2>2. cache \in Imgs
    BY <2>1 DEF Build!Init, Imgs
  <2>3. backend \in [art: Build!Artifacts, vol: Build!Volumes, next: 1..MaxBuilds + 1]
    BY BuildConstants DEF Build!Init, BuildAssumption
  <2>4. jobs \in [Build!Kinds -> Build!Jobs] /\ \A k \in Build!Kinds : jobs[k] # Build!NoJob =>
              jobs[k].phase # "none"
    BY BuildConstants DEF Build!Init
  <2>5. pc \in BuildStages /\ pass \in BuildPasses
    BY BuildConstants DEF Build!Init, BuildStages
  <2>6. ghost \in Ghosts
    BY DEF Build!Init, Ghosts, Build!Uids, BuildAssumption
  <2> QED BY <2>1, <2>2, <2>3, <2>4, <2>5, <2>6 DEF Build!Init, BuildTypes, BuildAssumption
<1>2. Numbered /\ SameArtifact /\ Gated /\ ReportedBuild /\ VolumeOwned
  BY DEF Build!Init, Numbered, SameArtifact, Gated, ReportedBuild, VolumeOwned, Build!art,
         Build!vol, Looking
<1>3. Pushed
  BY DEF Build!Init, Pushed, Build!PushedIsTheBuild, Build!NoJob
<1> QED BY <1>1, <1>2, <1>3 DEF BuildInv

\* All of it but the types.
BuildRest == Numbered /\ SameArtifact /\ Gated /\ ReportedBuild /\ Pushed /\ VolumeOwned

\* A step of a pass that leaves the backend.
LEMMA ReadsKeep ==
    ASSUME BuildAssumption, BuildInv,
           \/ Build!reconcile \/ Build!GetArtifact \/ Build!GetVolume \/ Build!patch_vmimage_status
                \/ Build!Crash
    PROVE  BuildRest'
<1> USE DEF BuildInv, BuildTypes
<1>1. UNCHANGED <<backend, jobs, ghost>>
  BY DEF Build!reconcile, Build!GetArtifact, Build!GetVolume, Build!patch_vmimage_status,
         Build!Crash, Build!Reads, Build!KeepWorld
<1>2. Build!art' = Build!art /\ Build!vol' = Build!vol /\ \A b : Begun(b)' = Begun(b)
  BY <1>1 DEF Build!art, Build!vol, Begun
<1>3. Numbered' /\ VolumeOwned'
  BY <1>1, <1>2 DEF Numbered, VolumeOwned
<1>4. \A a : Made(a)' = Made(a)
  BY <1>1, <1>2 DEF Made
<1>5. CASE Build!End
  BY <1>1, <1>2, <1>3, <1>4, <1>5 DEF Build!End, BuildRest, SameArtifact, Gated, ReportedBuild,
                                      Pushed, Build!PushedIsTheBuild, Looking
<1>6. CASE Build!reconcile
  <2>1. /\ pc' \in {"live", "patch"} /\ pass'.status.oci = Build!NoPush
        /\ pc' = "patch" => pass'.status.phase = "failed"
    <3>1. Build!NoPass \in BuildPasses /\ Build!NoPass.status = Build!Pending
                /\ Build!Pending.oci = Build!NoPush
      BY BuildConstants DEF Build!NoPass, Build!Pending
    <3>2. /\ [Build!NoPass EXCEPT !.img = cache].status = Build!Pending
          /\ [[Build!NoPass EXCEPT !.img = cache] EXCEPT !.status.phase = "failed"].status
             = [Build!Pending EXCEPT !.phase = "failed"]
      BY <3>1 DEF BuildPasses
    <3>3. [Build!Pending EXCEPT !.phase = "failed"].oci = Build!NoPush
                /\ [Build!Pending EXCEPT !.phase = "failed"].phase = "failed"
      BY DEF Build!Pending
    <3> QED BY <1>6, <3>1, <3>2, <3>3 DEF Build!reconcile
  <2> QED BY <1>1, <1>2, <1>3, <1>4, <2>1 DEF BuildRest, SameArtifact, Gated, ReportedBuild,
                                              Pushed, Build!PushedIsTheBuild, Looking, Build!NoPush
<1>7. CASE Build!GetArtifact /\ ~Build!End
  <2>1. pc' = "volume" /\ pass'.live = Build!art
    BY <1>7 DEF Build!GetArtifact, Build!FailPass, BuildPasses
  <2> QED BY <1>1, <1>2, <1>3, <1>4, <2>1 DEF BuildRest, SameArtifact, Gated, ReportedBuild,
                                              Pushed, Build!PushedIsTheBuild, Looking
<1>8. CASE Build!GetVolume /\ ~Build!End
  <2>1. /\ pc = "volume"
        /\ \/ pc' = "delete" /\ UNCHANGED pass
           \/ /\ pc' = "apply" /\ UNCHANGED pass
              /\ \E l : Build!artifact_gate(pass.live, l, Build!vol.going, Build!spec,
                                            pass.img.uid) = "proceed"
           \/ Build!Publish(Build!Pending)
    BY <1>8 DEF Build!GetVolume, Build!FailPass
  <2>2. CASE pc' = "delete" /\ UNCHANGED pass
    BY <1>1, <1>2, <1>3, <1>4, <2>1, <2>2 DEF BuildRest, SameArtifact, Gated, ReportedBuild,
                                              Pushed, Build!PushedIsTheBuild, Looking
  <2>3. CASE /\ pc' = "apply" /\ UNCHANGED pass
             /\ \E l : Build!artifact_gate(pass.live, l, Build!vol.going, Build!spec,
                                           pass.img.uid) = "proceed"
    <3>1. IF pass.live = Build!NoArtifact THEN ~Build!vol.going
          ELSE pass.live.ref = Build!spec.ref /\ pass.live.owner = pass.img.uid
      BY <2>3 DEF Build!artifact_gate, Build!spec_matches, Build!owner_uid_matches
    <3>2. pass.live = Build!NoArtifact => Build!vol = Build!NoVolume
      BY <2>1, <3>1 DEF SameArtifact, VolumeOwned, Looking
    <3>3. Build!spec' = Build!spec
      BY <2>3 DEF Build!spec
    <3>4. Gated'
      BY <1>2, <2>3, <3>1, <3>2, <3>3 DEF Gated
    <3> QED BY <1>1, <1>2, <1>3, <1>4, <2>1, <2>3, <3>4
                DEF BuildRest, SameArtifact, ReportedBuild, Pushed, Build!PushedIsTheBuild, Looking
  <2>4. CASE Build!Publish(Build!Pending)
    <3>1. pc' = "patch" /\ pass'.status = Build!Pending
      BY <2>4 DEF Build!Publish, BuildPasses
    <3>2. Build!Pending.phase = "pending" /\ Build!Pending.oci.phase = "none"
      BY DEF Build!Pending, Build!NoPush
    <3> QED BY <1>1, <1>2, <1>3, <1>4, <3>1, <3>2 DEF BuildRest, SameArtifact, Gated,
                                                      ReportedBuild, Pushed,
                                                      Build!PushedIsTheBuild, Looking
  <2> QED BY <2>1, <2>2, <2>3, <2>4
<1> QED BY <1>5, <1>6, <1>7, <1>8 DEF Build!patch_vmimage_status, Build!Crash, Build!FailPass

\* A step of others that leaves pass, backend and Jobs.
LEMMA UsersKeep ==
    ASSUME BuildInv, Build!Sync \/ Build!SpecChange \/ Build!Recreate \/ UNCHANGED Build!vars
    PROVE  BuildRest'
<1>1. UNCHANGED <<backend, jobs, ghost, pc, pass>>
  BY DEF Build!Sync, Build!SpecChange, Build!Recreate, Build!OnlyWorld, Build!vars
<1> QED BY <1>1 DEF BuildInv, BuildRest, Numbered, SameArtifact, Gated, ReportedBuild, Pushed,
                    Build!PushedIsTheBuild, VolumeOwned,
                   Looking, Made, Begun, Build!art, Build!vol, Build!spec

\* The Jobs of a pass.
LEMMA JobsKeep ==
    ASSUME BuildAssumption, BuildInv, Build!reconcile_prelay \/ Build!reconcile_push
    PROVE  BuildRest'
<1> USE DEF BuildInv, BuildTypes
<1>1. UNCHANGED <<backend, ghost>> /\ pc \in {"prelay", "push"}
  BY DEF Build!reconcile_prelay, Build!reconcile_push, Build!KeepWorld
<1>2. Build!art' = Build!art /\ Build!vol' = Build!vol /\ \A b : Begun(b)' = Begun(b)
  BY <1>1 DEF Build!art, Build!vol, Begun
<1>3. Numbered' /\ VolumeOwned'
  BY <1>1, <1>2 DEF Numbered, VolumeOwned
<1>4. \A a : Made(a)' = Made(a)
  BY <1>1, <1>2 DEF Made
<1>5. \A k \in Build!Kinds : jobs'[k].phase = "succeeded" => jobs'[k].done = jobs'[k].owner
  <2>1. PICK k \in Build!Kinds : \E f : JobMoved(k, f)
    BY PrelayMoves, PushMoves DEF Build!Kinds
  <2>2. Build!NoJob.phase # "succeeded"
    BY DEF Build!NoJob
  <2>3. \A f, b : [Build!NoJob EXCEPT !.owner = b, !.phase = "running",
                   !.file = f].phase # "succeeded"
    BY DEF Build!NoJob
  <2>4. UNCHANGED jobs \/ \E j : jobs' = [jobs EXCEPT ![k] = j] /\ j.phase # "succeeded"
    BY <2>1, <2>2, <2>3 DEF JobMoved, Build!Create, Build!Remove
  <2> QED BY <2>4 DEF Pushed
<1>6. /\ pc' \notin {"idle", "live", "volume", "delete", "apply"} =>
           /\ pc' \in {"prelay", "push", "patch"} /\ pass'.img = pass.img
           /\ pass'.status.build = pass.status.build
           /\ pass'.status.phase = "ready" => pass.status.phase = "ready"
           /\ pc' \in {"prelay", "push"} => pass'.status.oci = Build!NoPush
           /\ pass'.status.oci.phase = "ready" => pass'.status.oci.build = pass.status.build
      /\ pc' \notin {"volume", "delete", "apply"}
  <2>1. pass.status.oci = Build!NoPush /\ Build!NoPush.phase = "none"
              /\ pass.status \in Build!Statuses
    BY <1>1 DEF Pushed, Build!NoPush, BuildPasses
  <2>2. CASE Build!reconcile_prelay
    <3>1. \A st : pc' = Build!After(st) => pc' \in {"prelay", "push", "patch"}
      BY DEF Build!After
    <3>2. \A st \in {[pass.status EXCEPT !.phase = "building", !.file = "none"],
                    [pass.status EXCEPT !.phase = "failed", !.file = "none"],
                    [pass.status EXCEPT !.file = "prelaid"]} :
              /\ st.build = pass.status.build /\ st.oci = Build!NoPush
              /\ st.phase = "ready" => pass.status.phase = "ready"
      BY <2>1 DEF Build!Statuses
    <3>3. \/ Build!End
          \/ \E st \in {[pass.status EXCEPT !.phase = "building", !.file = "none"],
                       [pass.status EXCEPT !.phase = "failed", !.file = "none"],
                       [pass.status EXCEPT !.file = "prelaid"]} :
                 pc' \in {"prelay", "push", "patch"} /\ pass' = [pass EXCEPT !.status = st]
      BY <2>2, <3>1, PrelayMoves DEF Build!Publish
    <3> QED BY <2>1, <3>2, <3>3 DEF Build!End, BuildPasses
  <2>3. CASE Build!reconcile_push
    <3>1. \/ Build!End
          \/ \E o : /\ pc' = "patch"
                         /\ pass' = [pass EXCEPT !.status = [pass.status EXCEPT !.oci = o]]
                    /\ o.phase = "ready" => o.build = pass.status.build
      <4>1. jobs["push"].phase = "succeeded" => jobs["push"].done = jobs["push"].owner
        BY DEF Pushed, Build!Kinds
      <4>2. /\ [Build!NoPush EXCEPT !.phase = "pushing"].phase = "pushing"
            /\ [Build!NoPush EXCEPT !.phase = "failed"].phase = "failed"
        BY DEF Build!NoPush
      <4> DEFINE Oci(o) == pc' = "patch"
            /\ pass' = [pass EXCEPT !.status = [pass.status EXCEPT !.oci = o]]
                 done == [phase |-> "ready", build |-> jobs["push"].done,
                          file |-> jobs["push"].file]
      <4>3. \/ Oci([Build!NoPush EXCEPT !.phase = "pushing"])
            \/ Oci([Build!NoPush EXCEPT !.phase = "failed"])
            \/ Oci(done) /\ jobs["push"].done = pass.status.build
            \/ Build!End
        BY <2>3, <4>1, PushMoves DEF Build!Publish
      <4>4. done.build = jobs["push"].done
        OBVIOUS
      <4> HIDE DEF Oci, done
      <4>5. Build!End \/ \E o : Oci(o) /\ (o.phase = "ready" => o.build = pass.status.build)
        BY <4>2, <4>3, <4>4
      <4> QED BY <4>5 DEF Oci
    <3>2. ASSUME NEW o PROVE /\ [pass.status EXCEPT !.oci = o].oci = o
                             /\ [pass.status EXCEPT !.oci = o].build = pass.status.build
                             /\ [pass.status EXCEPT !.oci = o].phase = pass.status.phase
      BY <2>1 DEF Build!Statuses
    <3>3. ASSUME NEW st PROVE /\ [pass EXCEPT !.status = st].status = st
                              /\ [pass EXCEPT !.status = st].img = pass.img
      BY DEF BuildPasses
    <3>4. CASE Build!End
      BY <3>4 DEF Build!End
    <3>5. CASE ~Build!End
      <4>1. PICK o : /\ pc' = "patch"
                          /\ pass' = [pass EXCEPT !.status = [pass.status EXCEPT !.oci = o]]
                     /\ o.phase = "ready" => o.build = pass.status.build
        BY <3>1, <3>5
      <4> DEFINE st == [pass.status EXCEPT !.oci = o]
      <4>2. st.oci = o /\ st.build = pass.status.build /\ st.phase = pass.status.phase
        BY <3>2
      <4>3. pass' = [pass EXCEPT !.status = st]
        BY <4>1
      <4> HIDE DEF st
      <4>4. pass'.status = st /\ pass'.img = pass.img
        BY <3>3, <4>3
      <4>5. pc' = "patch" /\ (o.phase = "ready" => o.build = pass.status.build)
        BY <4>1
      <4>6. /\ pass'.img = pass.img /\ pass'.status.build = pass.status.build
            /\ pass'.status.phase = pass.status.phase /\ pass'.status.oci = o
        BY <4>2, <4>4
      <4> QED BY <4>5, <4>6
    <3> QED BY <3>4, <3>5
  <2> QED BY <2>2, <2>3
<1>7. pc' \notin {"idle", "live", "volume", "delete", "apply"} => Build!spec' = Build!spec
  BY <1>6 DEF Build!spec
<1> QED BY <1>1, <1>2, <1>3, <1>4, <1>5, <1>6, <1>7
            DEF BuildRest, SameArtifact, Gated, ReportedBuild, Pushed, Build!PushedIsTheBuild,
                Looking

\* What others do to Jobs, OSArtifact and volume.
LEMMA JobsRun ==
    ASSUME BuildInv, NEW k \in Build!Kinds, Build!JobRuns(k) \/ Build!PodGone(k)
    PROVE  BuildRest'
<1> USE DEF BuildInv, BuildTypes
<1>1. UNCHANGED <<backend, ghost, pc, pass>>
  BY DEF Build!JobRuns, Build!PodGone, Build!KeepPass, Build!OnlyWorld
<1>2. \A i \in Build!Kinds : jobs'[i].phase = "succeeded" => jobs'[i].done = jobs'[i].owner
  <2>1. CASE Build!JobRuns(k)
    <3>1. \E j : jobs' = [jobs EXCEPT ![k] = j] /\ (j.phase = "succeeded" => j.done = j.owner)
      <4>1. /\ [jobs[k] EXCEPT !.phase = "succeeded", !.pod = TRUE,
                !.done = Build!vol.holds].done = Build!vol.holds
            /\ [jobs[k] EXCEPT !.phase = "succeeded", !.pod = TRUE,
                !.done = Build!vol.holds].owner = jobs[k].owner
            /\ [jobs[k] EXCEPT !.phase = "failed"].phase = "failed"
        BY DEF Build!Jobs
      <4>2. \/ jobs' = [jobs EXCEPT ![k] = [jobs[k] EXCEPT !.phase = "succeeded", !.pod = TRUE,
                                                         !.done = Build!vol.holds]]
            \/ jobs' = [jobs EXCEPT ![k] = [jobs[k] EXCEPT !.phase = "failed"]]
        BY <2>1 DEF Build!JobRuns
      <4>3. Build!vol.holds = jobs[k].owner
        BY <2>1 DEF Build!JobRuns
      <4> QED BY <4>1, <4>2, <4>3
    <3> QED BY <3>1 DEF Pushed
  <2>2. CASE Build!PodGone(k)
    <3>1. jobs' = [jobs EXCEPT ![k] = [jobs[k] EXCEPT !.pod = FALSE]]
      BY <2>2 DEF Build!PodGone
    <3>2. /\ [jobs[k] EXCEPT !.pod = FALSE].phase = jobs[k].phase
          /\ [jobs[k] EXCEPT !.pod = FALSE].done = jobs[k].done
          /\ [jobs[k] EXCEPT !.pod = FALSE].owner = jobs[k].owner
      BY DEF Build!Jobs
    <3> QED BY <3>1, <3>2 DEF Pushed
  <2> QED BY <2>1, <2>2
<1> QED BY <1>1, <1>2 DEF Numbered, VolumeOwned, Made, Begun, Build!art, Build!vol, Build!spec,
                          BuildRest, SameArtifact, Gated, ReportedBuild, Pushed,
                          Build!PushedIsTheBuild, Looking

\* A step of others that keeps OSArtifact's identity, or takes it.
LEMMA ArtifactKept ==
    ASSUME BuildInv, UNCHANGED <<pc, pass>>, \A k \in Build!Kinds : jobs'[k] \in {jobs[k],
           Build!NoJob},
           backend'.next = backend.next,
           \/ Build!art' = Build!NoArtifact
           \/ /\ Build!art # Build!NoArtifact /\ Build!art' # Build!NoArtifact
                /\ Build!art'.uid = Build!art.uid /\ Build!art'.ref = Build!art.ref
                     /\ Build!art'.owner = Build!art.owner
              /\ Build!art.phase # "none" => Build!art'.phase # "none",
           \A b \in 1..MaxBuilds : Begun(b) =>
               ghost'[b].ref = ghost[b].ref /\ ghost'[b].owner = ghost[b].owner,
           Build!art' # Build!NoArtifact /\ Build!art'.phase # "none" /\ Build!art.phase = "none" =>
               ghost'[Build!art.uid].ref = Build!art.ref
                     /\ ghost'[Build!art.uid].owner = Build!art.owner,
           VolumeOwned', pass.live = Build!NoArtifact /\ Build!art = Build!NoArtifact
                 /\ Build!vol = Build!NoVolume => Build!vol' = Build!NoVolume
    PROVE  BuildRest'
<1> USE DEF BuildInv, BuildTypes
<1>0. Build!art \in Build!Artifacts /\ backend.next \in Nat /\ Build!NoArtifact.uid = 0
            /\ MaxBuilds + 1 >= backend.next
  BY DEF Build!art, Build!NoArtifact
<1>1. Numbered'
  BY <1>0 DEF Numbered
<1>2. ASSUME NEW b, Begun(b) PROVE Begun(b)'
  BY <1>0, <1>2 DEF Begun
<1>3. ASSUME NEW a, Made(a) PROVE Made(a)'
  BY <1>2, <1>3 DEF Made, Begun
<1>4. SameArtifact'
  BY DEF SameArtifact, Looking
<1>5. Gated'
  BY DEF Gated, SameArtifact, Looking, Build!spec
<1>6. Pushed'
  BY DEF Pushed, Build!PushedIsTheBuild, Build!NoJob
<1>7. ReportedBuild'
  <2>1. Build!art' # Build!NoArtifact /\ Build!art'.phase # "none" => Made(Build!art)'
    <3> SUFFICES ASSUME Build!art' # Build!NoArtifact, Build!art'.phase # "none"
                 PROVE Made(Build!art)'
      OBVIOUS
    <3>1. Build!art.uid \in 1..MaxBuilds /\ Build!art.uid < backend.next
      BY <1>0 DEF Numbered, Build!Artifacts, Build!Builds
    <3>2. Begun(Build!art.uid)'
      BY <3>1 DEF Begun
    <3>3. ghost'[Build!art.uid].ref = Build!art.ref /\ ghost'[Build!art.uid].owner = Build!art.owner
      BY <3>1 DEF ReportedBuild, Made
    <3> QED BY <3>2, <3>3 DEF Made
  <2>2. Looking' /\ pass.live # Build!NoArtifact /\ pass.live.phase # "none" => Made(pass.live)'
    BY <1>3 DEF ReportedBuild, Looking
  <2>3. ASSUME pc \in {"prelay", "push", "patch"}, pass.status.phase = "ready"
        PROVE  /\ Begun(pass.status.build)' /\ ghost'[pass.status.build].ref = Build!spec.ref
               /\ ghost'[pass.status.build].owner = pass.img.uid
    <3>1. /\ Begun(pass.status.build) /\ ghost[pass.status.build].ref = Build!spec.ref
          /\ ghost[pass.status.build].owner = pass.img.uid
      BY <2>3 DEF ReportedBuild
    <3> QED BY <1>2, <3>1 DEF Begun
  <2> QED BY <2>1, <2>2, <2>3 DEF ReportedBuild, Build!spec
<1> QED BY <1>1, <1>4, <1>5, <1>6, <1>7 DEF BuildRest

\* kairos, the collector and a node that is replaced.
LEMMA BackendKeeps ==
    ASSUME BuildAssumption, BuildInv,
           Build!KairosStarts \/ Build!KairosBuilds \/ Build!Collect \/ Build!CollectArtifact
                 \/ Build!NodeReplaced
    PROVE  BuildRest'
<1> USE DEF BuildInv, BuildTypes
<1>0. Build!art \in Build!Artifacts /\ Build!vol \in Build!Volumes /\ backend.next \in Nat
            /\ Build!NoArtifact.uid = 0
      /\ Build!NoVolume.going = FALSE
  BY DEF Build!art, Build!vol, Build!NoArtifact, Build!NoVolume
<1>1. CASE Build!KairosStarts
  <2>1. /\ Build!art # Build!NoArtifact /\ Build!art.phase = "none" /\ UNCHANGED <<pc, pass, jobs>>
        /\ backend'.next = backend.next /\ Build!art' = [Build!art EXCEPT !.phase = "building"]
        /\ Build!vol' = IF Build!vol = Build!NoVolume THEN [Build!NoVolume EXCEPT !.owner = Build!art.uid] ELSE Build!vol
        /\ ghost' = [ghost EXCEPT ![Build!art.uid] = [@ EXCEPT !.ref = Build!art.ref,
                                                      !.seal = Build!art.seal,
                                                         !.owner = Build!art.owner]]
    BY <1>1 DEF Build!KairosStarts, Build!KeepPass, Build!art, Build!vol
  <2>2. /\ Build!art'.uid = Build!art.uid /\ Build!art'.ref = Build!art.ref
             /\ Build!art'.owner = Build!art.owner
        /\ Build!art'.phase = "building" /\ Build!art' # Build!NoArtifact
    BY <1>0, <2>1 DEF Build!Artifacts, Build!NoArtifact
  <2>3. Build!art.uid \in 1..MaxBuilds
    BY <1>0, <2>1 DEF Numbered, Build!Artifacts, Build!Builds
  <2>4. /\ \A b \in 1..MaxBuilds : b # Build!art.uid => ghost'[b] = ghost[b]
        /\ ghost'[Build!art.uid].ref = Build!art.ref
             /\ ghost'[Build!art.uid].owner = Build!art.owner
        /\ ghost'[Build!art.uid].blind = ghost[Build!art.uid].blind
    BY <2>1, <2>3 DEF Ghosts
  <2>5. \A b : Begun(b) => b \in 1..MaxBuilds /\ b # Build!art.uid
    BY <2>1 DEF Begun
  <2>6. VolumeOwned'
    <3>1. CASE Build!vol = Build!NoVolume
      <4>1. Build!vol'.owner = Build!art.uid
        BY <2>1, <3>1 DEF Build!NoVolume
      <4> QED BY <2>2, <4>1 DEF VolumeOwned
    <3>2. CASE Build!vol # Build!NoVolume
      BY <2>1, <2>2, <2>4, <3>2 DEF VolumeOwned
    <3> QED BY <3>1, <3>2
  <2> QED BY <2>1, <2>2, <2>4, <2>5, <2>6, ArtifactKept
<1>2. CASE Build!KairosBuilds
  <2>1. /\ Build!art.phase = "building" /\ UNCHANGED <<pc, pass, jobs, ghost>> /\ backend'.next = backend.next
        /\ \/ Build!art' = [Build!art EXCEPT !.phase = "ready"]
             /\ Build!vol' = [Build!vol EXCEPT !.holds = Build!art.uid]
           \/ Build!art' = [Build!art EXCEPT !.phase = "error"] /\ Build!vol' = Build!vol
        /\ Build!vol # Build!NoVolume
    BY <1>2 DEF Build!KairosBuilds, Build!KeepPass, Build!art, Build!vol
  <2>2. /\ Build!art'.uid = Build!art.uid /\ Build!art'.ref = Build!art.ref
             /\ Build!art'.owner = Build!art.owner
        /\ Build!art'.phase # "none" /\ Build!art' # Build!NoArtifact
             /\ Build!art # Build!NoArtifact
    BY <1>0, <2>1 DEF Build!Artifacts, Build!NoArtifact
  <2>3. Build!vol'.owner = Build!vol.owner /\ Build!vol'.going = Build!vol.going
    BY <1>0, <2>1 DEF Build!Volumes
  <2>4. VolumeOwned'
    BY <2>1, <2>2, <2>3 DEF VolumeOwned
  <2> QED BY <2>1, <2>2, <2>4, ArtifactKept
<1>3. CASE Build!Collect
  <2>1. /\ UNCHANGED <<pc, pass, ghost>> /\ backend'.next = backend.next
        /\ \A k \in Build!Kinds : jobs'[k] \in {jobs[k], Build!NoJob}
    BY <1>3 DEF Build!Collect, Build!KeepPass, Build!Remove
  <2>2. \/ Build!art' = Build!art /\ Build!vol # Build!NoVolume
             /\ Build!vol' = [Build!vol EXCEPT !.going = TRUE]
        \/ Build!art' = Build!art /\ Build!vol' = Build!NoVolume
        \/ Build!art' = Build!NoArtifact /\ Build!vol' = Build!vol /\ Build!art.going
             /\ Build!vol.owner # Build!art.uid
        \/ Build!art' = Build!art /\ Build!vol' = Build!vol
    BY <1>3 DEF Build!Collect, Build!art, Build!vol
  <2>3. VolumeOwned'
    <3>1. CASE Build!art' = Build!art /\ Build!vol # Build!NoVolume
                     /\ Build!vol' = [Build!vol EXCEPT !.going = TRUE]
      <4>1. Build!vol'.owner = Build!vol.owner /\ Build!vol'.going = TRUE
        BY <1>0, <3>1 DEF Build!Volumes
      <4> QED BY <2>1, <3>1, <4>1 DEF VolumeOwned
    <3>2. CASE Build!art' = Build!NoArtifact /\ Build!vol' = Build!vol
                     /\ Build!vol.owner # Build!art.uid
      BY <2>1, <3>2 DEF VolumeOwned
    <3> QED BY <2>1, <2>2, <3>1, <3>2 DEF VolumeOwned
  <2> QED BY <2>1, <2>2, <2>3, ArtifactKept
<1>4. CASE Build!CollectArtifact
  <2>1. /\ UNCHANGED <<pc, pass, jobs, ghost>> /\ backend'.next = backend.next
        /\ Build!art # Build!NoArtifact /\ Build!art' = Build!NoArtifact
        /\ Build!vol' = [Build!vol EXCEPT !.going = (Build!vol.owner = Build!art.uid)
             \/ Build!vol.going]
    BY <1>4 DEF Build!CollectArtifact, Build!KeepPass, Build!art, Build!vol
  <2>2. Build!vol'.going = ((Build!vol.owner = Build!art.uid) \/ Build!vol.going)
    BY <1>0, <2>1 DEF Build!Volumes
  <2>3. Build!vol = Build!NoVolume => Build!vol' = Build!vol
    <3> SUFFICES ASSUME Build!vol = Build!NoVolume PROVE Build!vol' = Build!vol
      OBVIOUS
    <3>1. Build!vol.owner = 0 /\ Build!vol.going = FALSE
      BY DEF Build!NoVolume
    <3>2. ((Build!vol.owner = Build!art.uid) \/ Build!vol.going) = FALSE
      BY <2>1, <3>1 DEF Numbered
    <3> QED BY <1>0, <2>1, <3>1, <3>2 DEF Build!Volumes
  <2>4. VolumeOwned'
    BY <2>1, <2>2, <2>3 DEF VolumeOwned
  <2> QED BY <2>1, <2>4, ArtifactKept
<1>5. CASE Build!NodeReplaced
  <2>1. /\ UNCHANGED <<pc, pass, jobs, ghost>> /\ backend'.next = backend.next
        /\ Build!art' = Build!art /\ Build!vol' = [Build!vol EXCEPT !.lost = TRUE]
             /\ Build!vol # Build!NoVolume
    BY <1>5 DEF Build!NodeReplaced, Build!OnlyWorld, Build!art, Build!vol
  <2>2. Build!vol'.owner = Build!vol.owner /\ Build!vol'.going = Build!vol.going
    BY <1>0, <2>1 DEF Build!Volumes
  <2>3. VolumeOwned'
    BY <2>1, <2>2 DEF VolumeOwned
  <2>4. Build!art.phase = "ready"
    BY <1>5 DEF Build!NodeReplaced
  <2>5. Build!art # Build!NoArtifact
    BY <2>4 DEF Build!NoArtifact
  <2> QED BY <2>1, <2>3, <2>5, ArtifactKept
<1> QED BY <1>1, <1>2, <1>3, <1>4, <1>5

\* A pass that deletes the OSArtifact.
LEMMA DeleteKeeps == ASSUME BuildAssumption, BuildInv, Build!DeleteForRebuild PROVE BuildRest'
<1> USE DEF BuildInv, BuildTypes
<1>0. Build!art \in Build!Artifacts
  BY DEF Build!art
<1>1. UNCHANGED <<jobs, ghost>> /\ Build!vol' = Build!vol /\ backend'.next = backend.next
                                     /\ (Build!Publish(Build!Pending) \/ Build!End)
  BY DEF Build!DeleteForRebuild, Build!KeepWorld, Build!FailPass, Build!vol
<1>2. Build!art' = Build!art \/ (Build!art # Build!NoArtifact
            /\ Build!art' = [Build!art EXCEPT !.going = TRUE])
  BY DEF Build!DeleteForRebuild, Build!art
<1>3. /\ Build!art'.uid = Build!art.uid /\ Build!art'.ref = Build!art.ref
           /\ Build!art'.owner = Build!art.owner /\ Build!art'.phase = Build!art.phase
      /\ (Build!art' = Build!NoArtifact <=> Build!art = Build!NoArtifact)
  BY <1>0, <1>2 DEF Build!Artifacts, Build!NoArtifact
<1>4. \A b : Begun(b)' <=> Begun(b)
  BY <1>1, <1>3 DEF Begun
<1>5. Numbered' /\ VolumeOwned'
  BY <1>1, <1>3 DEF Numbered, VolumeOwned
<1>6. Build!art' # Build!NoArtifact /\ Build!art'.phase # "none" => Made(Build!art)'
  BY <1>1, <1>3, <1>4 DEF ReportedBuild, Made
<1>7. /\ pc' \in {"idle", "patch"}
      /\ pc' = "patch" => pass'.status = Build!Pending
  BY <1>1 DEF Build!Publish, Build!End, BuildPasses
<1>8. Build!Pending.phase = "pending" /\ Build!Pending.oci.phase = "none"
  BY DEF Build!Pending, Build!NoPush
<1> QED BY <1>1, <1>5, <1>6, <1>7, <1>8 DEF BuildRest, SameArtifact, Gated, ReportedBuild, Pushed,
                                            Build!PushedIsTheBuild, Looking

\* A pass that applies it: what is reported is the build it saw.
LEMMA ApplyKeeps == ASSUME BuildAssumption, BuildInv, Build!Apply PROVE BuildRest'
<1> USE DEF BuildInv, BuildTypes
<1>0. Build!art \in Build!Artifacts /\ Build!vol \in Build!Volumes /\ backend.next \in Nat
            /\ Build!NoArtifact.uid = 0
      /\ pc = "apply" /\ UNCHANGED jobs /\ pass.live \in Build!Artifacts
  BY DEF Build!art, Build!vol, Build!NoArtifact, Build!Apply, BuildPasses
<1>1. CASE UNCHANGED <<backend, ghost>> /\ (Build!End
                                             \/ Build!Publish([Build!Pending EXCEPT !.phase = "failed"]))
  <2>1. Build!art' = Build!art /\ Build!vol' = Build!vol /\ \A b : Begun(b)' = Begun(b)
    BY <1>1 DEF Build!art, Build!vol, Begun
  <2>2. Numbered' /\ VolumeOwned' /\ \A a : Made(a)' = Made(a)
    BY <1>1, <2>1 DEF Numbered, VolumeOwned, Made
  <2>3. /\ pc' \in {"idle", "patch"}
        /\ pc' = "patch" => pass'.status = [Build!Pending EXCEPT !.phase = "failed"]
    BY <1>1 DEF Build!Publish, Build!End, BuildPasses
  <2>4. [Build!Pending EXCEPT !.phase = "failed"].phase = "failed"
              /\ [Build!Pending EXCEPT !.phase = "failed"].oci.phase = "none"
    BY DEF Build!Pending, Build!NoPush
  <2> QED BY <1>0, <1>1, <2>1, <2>2, <2>3, <2>4 DEF BuildRest, SameArtifact, Gated, ReportedBuild,
                                                    Pushed, Build!PushedIsTheBuild, Looking
<1>2. CASE /\ Build!art = Build!NoArtifact => backend.next <= MaxBuilds
           /\ backend' = Build!desired_os_artifact
           /\ LET status == Build!BuildStatus(pass.live)
              IN  pc' = Build!After(status) /\ pass' = [pass EXCEPT !.status = status]
           /\ ghost' = IF Build!art = Build!NoArtifact
                       THEN [ghost EXCEPT ![backend.next].blind = pass.live # Build!NoArtifact] ELSE ghost
  <2> DEFINE status == Build!BuildStatus(pass.live)
  <2>1. /\ status.build = pass.live.uid /\ status.oci = Build!NoPush
        /\ status.phase = "ready" => pass.live.phase = "ready"
    <3>1. Build!map_kairos_phase(pass.live.phase) = "ready" => pass.live.phase = "ready"
      BY <1>0 DEF Build!map_kairos_phase, Build!Artifacts
    <3> QED BY <3>1 DEF Build!BuildStatus, Build!apply_refusal, Build!compute_build_artifact_status
  <2>2. /\ pc' \in {"patch", "prelay", "push"} /\ pass'.status = status
        /\ pass'.img = pass.img /\ Build!spec' = Build!spec
    <3>1. \A st : Build!After(st) \in {"patch", "prelay", "push"}
      BY DEF Build!After
    <3>2. pass' = [pass EXCEPT !.status = status]
      BY <1>2
    <3> QED BY <1>2, <3>1, <3>2 DEF BuildPasses, Build!spec
  <2> HIDE DEF status
  <2>3. Numbered' /\ VolumeOwned' /\ backend'.next >= backend.next /\ backend'.next \in Nat
        /\ (Build!art # Build!NoArtifact =>
             Build!art'.uid = Build!art.uid /\ Build!art'.phase = Build!art.phase)
        /\ (Build!art = Build!NoArtifact => Build!art'.uid = backend.next)
        /\ (Build!art' # Build!NoArtifact /\ Build!art'.phase # "none" => Made(Build!art)')
        /\ \A b \in 1..MaxBuilds : ghost'[b].ref = ghost[b].ref /\ ghost'[b].owner = ghost[b].owner
    <3>1. CASE Build!art = Build!NoArtifact
      <4>1. /\ backend'.next = backend.next + 1 /\ Build!vol' = Build!vol
            /\ Build!art'.uid = backend.next /\ Build!art'.phase = "none"
        BY <1>2, <3>1 DEF Build!desired_os_artifact, Build!art, Build!vol
      <4>2. backend.next \in 1..MaxBuilds
        BY <1>2, <3>1 DEF BuildAssumption
      <4>3. /\ \A b \in 1..MaxBuilds : ghost'[b].ref = ghost[b].ref
                 /\ ghost'[b].owner = ghost[b].owner
            /\ ghost'[backend.next].blind = (pass.live # Build!NoArtifact)
        BY <1>2, <3>1, <4>2 DEF Ghosts
      <4>4. Numbered'
        BY <4>1, <4>2 DEF Numbered
      <4>5. VolumeOwned'
        <5>1. pass.live = Build!NoArtifact => Build!vol = Build!NoVolume
          BY <1>0 DEF Gated
        <5>2. Build!vol # Build!NoVolume => Build!vol.going
          BY <3>1 DEF VolumeOwned
        <5> QED BY <4>1, <4>3, <5>1, <5>2 DEF VolumeOwned
      <4> QED BY <3>1, <4>1, <4>3, <4>4, <4>5
    <3>2. CASE Build!art # Build!NoArtifact
      <4>1. /\ backend'.next = backend.next /\ Build!vol' = Build!vol
            /\ Build!art' = [Build!art EXCEPT !.ref = Build!spec.ref, !.seal = Build!spec.seal]
                 /\ ghost' = ghost
        BY <1>2, <3>2 DEF Build!desired_os_artifact, Build!art, Build!vol
      <4>2. Build!spec.ref = Build!art.ref
        BY <1>0, <3>2 DEF Gated, SameArtifact, Looking
      <4>3. /\ Build!art'.uid = Build!art.uid /\ Build!art'.phase = Build!art.phase
                 /\ Build!art'.ref = Build!art.ref /\ Build!art'.owner = Build!art.owner
        BY <1>0, <4>1, <4>2 DEF Build!Artifacts
      <4>4. Numbered' /\ VolumeOwned'
        BY <1>0, <3>2, <4>1, <4>3 DEF Numbered, VolumeOwned
      <4>5. Build!art.phase # "none" => Made(Build!art)'
        BY <3>2, <4>1, <4>3 DEF ReportedBuild, Made, Begun
      <4> QED BY <3>2, <4>1, <4>3, <4>4, <4>5
    <3> QED BY <3>1, <3>2
  <2>4. ASSUME NEW b, b = status.build, status.phase = "ready"
        PROVE  Begun(b)' /\ ghost'[b].ref = Build!spec.ref /\ ghost'[b].owner = pass.img.uid
    <3>1. pass.live # Build!NoArtifact /\ pass.live.phase # "none"
      BY <2>1, <2>4 DEF Build!NoArtifact
    <3>2. Made(pass.live) /\ pass.live.ref = Build!spec.ref /\ pass.live.owner = pass.img.uid
      BY <1>0, <3>1 DEF ReportedBuild, Gated, Looking
    <3>3. b = pass.live.uid
      BY <2>1, <2>4
    <3>4. Begun(b) /\ ghost[b].ref = Build!spec.ref /\ ghost[b].owner = pass.img.uid
      BY <3>2, <3>3 DEF Made
    <3>5. Begun(b)'
      BY <1>0, <2>3, <3>4 DEF Begun
    <3> QED BY <2>3, <3>4, <3>5 DEF Begun
  <2>5. Build!NoPush.phase = "none"
    BY DEF Build!NoPush
  <2>6. ReportedBuild'
    <3>1. pass'.status.phase = "ready" =>
              /\ Begun(pass.status.build)' /\ ghost'[pass'.status.build].ref = Build!spec'.ref
              /\ ghost'[pass'.status.build].owner = pass'.img.uid
      BY <2>2, <2>4
    <3> QED BY <2>2, <2>3, <3>1 DEF ReportedBuild, Looking
  <2>7. Pushed'
    BY <1>0, <2>1, <2>2, <2>5 DEF Pushed, Build!PushedIsTheBuild
  <2>8. SameArtifact' /\ Gated'
    BY <2>2 DEF SameArtifact, Gated, Looking
  <2> QED BY <2>3, <2>6, <2>7, <2>8 DEF BuildRest
<1> QED BY <1>1, <1>2 DEF Build!Apply, Build!FailPass

\* The invariant holds of every behaviour.
LEMMA BuildInductive == ASSUME BuildAssumption PROVE Build!Spec => []BuildInv
<1>1. Build!Init => BuildInv
  BY BuildInit
<1>2. BuildInv /\ [Build!Next]_(Build!vars) => BuildInv'
  <2> SUFFICES ASSUME BuildInv, [Build!Next]_(Build!vars) PROVE BuildInv'
    OBVIOUS
  <2>1. BuildTypes'
    <3>1. UNCHANGED Build!vars => BuildTypes'
      BY DEF Build!vars, BuildInv, BuildTypes
    <3> QED BY <3>1, PassTypes, WorldTypes DEF BuildInv, Build!Next, Build!Pass, PassStep
  <2>2. BuildRest'
    BY ReadsKeep, UsersKeep, JobsKeep, JobsRun, BackendKeeps, DeleteKeeps, ApplyKeeps
        DEF Build!Next, Build!Pass, Build!World
  <2> QED BY <2>1, <2>2 DEF BuildInv, BuildRest
<1> QED BY <1>1, <1>2, PTL DEF Build!Spec

\* What a pass publishes as ready was built for this image from the source it names, what
\* it publishes as pushed is that build, and a build works on a volume of its own
\* (compute_build_artifact_status, reconcile_push, the wait for the volume before a
\* rebuild): for every set of specs and every number of builds, faults and changes.
THEOREM PublishedBuilds ==
    ASSUME BuildAssumption
    PROVE  Build!Spec =>
                 [](Build!TypeOK /\ Build!ReadyIsTheBuild /\ Build!PushedIsTheBuild
                       /\ Build!VolumeIsOwn)
<1>1. BuildInv => Build!TypeOK
  BY DEF BuildInv, BuildTypes, Build!TypeOK, Imgs, BuildPasses, BuildStages, Ghosts, BuildAssumption
<1>2. BuildInv => Build!ReadyIsTheBuild /\ Build!PushedIsTheBuild
  BY DEF BuildInv, ReportedBuild, Pushed, Build!ReadyIsTheBuild
<1>3. BuildInv => Build!VolumeIsOwn
  <2>1. Build!NoArtifact.phase = "none"
    BY DEF Build!NoArtifact
  <2> QED BY <2>1 DEF BuildInv, VolumeOwned, Build!VolumeIsOwn
<1> QED BY <1>1, <1>2, <1>3, BuildInductive, PTL

-----------------------------------------------------------------------------
(***************************************************************************)
(* HostImageCache.  A deleted image goes only once its host stopped        *)
(* importing it: the row that says so is written from a pass that stopped  *)
(* the unit, and no later pass starts one.                                 *)
(***************************************************************************)

Host == INSTANCE HostImageCache

\* The types of a pass.
CacheStages == {"idle", "row", "list", "evict", "used", "remove"}
CachePasses == [row: Host!Reasons, ref: Files \cup {Host!NoFile}, used: SUBSET Files]

\* What the proof needs of the types.
CacheTypes ==
    /\ obj \in [Images -> Host!Objects] /\ cache \in [Images -> Host!Objects]
    /\ backend = [files |-> backend.files, unit |-> backend.unit]
    /\ backend.unit \in [Images -> Host!Units]
    /\ pc \in [Images -> CacheStages] /\ pass \in [Images -> CachePasses]
    /\ ghost = [since |-> ghost.since, late |-> ghost.late]

\* The stores may lag behind: what they show deleted is.  A pass that is about to
\* report has something to report.
Lagging ==
    \A i \in Images : /\ cache[i].life # "live" => obj[i].life # "live"
                      /\ pc[i] = "row" => pass[i].row # "none"

\* An image without a row that is deleted was deleted without one.
Unreported ==
    \A i \in Images : /\ obj[i].life # "live" /\ obj[i].row = "none" => i \in ghost.late
                      /\ cache[i].life # "live" /\ cache[i].row = "none" => i \in ghost.late

\* From the first step of its release on an image is not imported: its unit is gone,
\* and no pass can start another, for the store no longer shows it live.
Stopped ==
    \A i \in Images :
        \/ obj[i].row = "released" \/ cache[i].row = "released"
        \/ pc[i] \in {"used", "remove"} \/ (pc[i] = "row" /\ pass[i].row = "released")
        \/ obj[i].life = "absent" /\ i \notin ghost.late
        => cache[i].life # "live" /\ backend.unit[i].state = "absent"

\* The inductive invariant.
CacheInv == CacheTypes /\ Lagging /\ Unreported /\ Stopped

\* Every image begins live, without a row, and not being imported.
LEMMA CacheInit == ASSUME First \in Files, Host!Init PROVE CacheInv
<1>1. obj \in [Images -> Host!Objects]
  BY DEF Host!Init, Host!Objects, Host!Blank, Host!Reasons
<1>2. CacheTypes
  BY <1>1 DEF Host!Init, CacheTypes, Host!Units, Host!NoUnit, Host!NoPass, Host!Reasons,
              CacheStages, CachePasses
<1>3. \A i \in Images : /\ obj[i].life = "live" /\ obj[i].row = "none" /\ cache[i] = obj[i]
                        /\ pc[i] = "idle"
  BY DEF Host!Init, Host!Blank
<1> QED BY <1>2, <1>3 DEF CacheInv, Lagging, Unreported, Stopped

\* A step that touches one image: what its object, its copy in the store, its unit and
\* its pass are afterwards.
Moves(i, o, c, u, q, known) ==
    /\ o \in Host!Objects /\ c \in Host!Objects /\ u \in Host!Units /\ q \in CacheStages
         /\ known \in CachePasses
    /\ obj' = [obj EXCEPT ![i] = o] /\ cache' = [cache EXCEPT ![i] = c]
    /\ backend' = [files |-> backend'.files, unit |-> [backend.unit EXCEPT ![i] = u]]
    /\ pc' = [pc EXCEPT ![i] = q] /\ pass' = [pass EXCEPT ![i] = known]
    /\ ghost' = [since |-> ghost'.since, late |-> ghost'.late]
    /\ \A j \in Images : j \in ghost.late => j \in ghost'.late

\* What the invariant says of that image afterwards.
Fits(i, o, c, u, q, known) ==
    /\ c.life # "live" => o.life # "live"
    /\ q = "row" => known.row # "none"
    /\ o.life # "live" /\ o.row = "none" => i \in ghost'.late
    /\ c.life # "live" /\ c.row = "none" => i \in ghost'.late
    /\ \/ o.row = "released" \/ c.row = "released"
       \/ q \in {"used", "remove"} \/ (q = "row" /\ known.row = "released")
       \/ o.life = "absent" /\ i \notin ghost'.late
       => c.life # "live" /\ u.state = "absent"

\* Such a step preserves the invariant when it does for the image it touches.
LEMMA CacheMoves ==
    ASSUME CacheInv, NEW i \in Images, NEW o, NEW c, NEW u, NEW q, NEW known,
           Moves(i, o, c, u, q, known), Fits(i, o, c, u, q, known)
    PROVE  CacheInv'
<1> USE DEF Moves, Fits
<1>1. backend'.unit = [backend.unit EXCEPT ![i] = u]
  OBVIOUS
<1>2. CacheTypes'
  <2>1. obj' \in [Images -> Host!Objects] /\ cache' \in [Images -> Host!Objects]
    BY DEF CacheInv, CacheTypes
  <2>2. backend'.unit \in [Images -> Host!Units]
    BY <1>1 DEF CacheInv, CacheTypes
  <2>3. pc' \in [Images -> CacheStages] /\ pass' \in [Images -> CachePasses]
    BY DEF CacheInv, CacheTypes
  <2> QED BY <1>1, <2>1, <2>2, <2>3 DEF CacheTypes
<1>3. /\ obj'[i] = o /\ cache'[i] = c /\ backend'.unit[i] = u /\ pc'[i] = q /\ pass'[i] = known
      /\ \A j \in Images \ {i} : /\ obj'[j] = obj[j] /\ cache'[j] = cache[j]
                                 /\ backend'.unit[j] = backend.unit[j]
                                 /\ pc'[j] = pc[j] /\ pass'[j] = pass[j]
  BY <1>1 DEF CacheInv, CacheTypes
<1>4. Lagging'
  BY <1>3 DEF CacheInv, Lagging
<1>5. Unreported'
  BY <1>3 DEF CacheInv, Unreported
<1>6. Stopped'
  BY <1>3 DEF CacheInv, Stopped
<1> QED BY <1>2, <1>4, <1>5, <1>6 DEF CacheInv

\* What stays put stays what it was.
LEMMA CacheStill ==
    ASSUME CacheInv, NEW i \in Images
    PROVE  /\ obj[i] \in Host!Objects /\ cache[i] \in Host!Objects /\ backend.unit[i] \in Host!Units
           /\ pc[i] \in CacheStages /\ pass[i] \in CachePasses
           /\ obj = [obj EXCEPT ![i] = obj[i]] /\ cache = [cache EXCEPT ![i] = cache[i]]
           /\ backend.unit = [backend.unit EXCEPT ![i] = backend.unit[i]]
           /\ backend = [files |-> backend.files, unit |-> backend.unit]
           /\ pc = [pc EXCEPT ![i] = pc[i]] /\ pass = [pass EXCEPT ![i] = pass[i]]
           /\ ghost = [since |-> ghost.since, late |-> ghost.late]
           /\ cache[i].life # "live" => obj[i].life # "live"
           /\ pc[i] = "row" => pass[i].row # "none"
           /\ obj[i].life # "live" /\ obj[i].row = "none" => i \in ghost.late
           /\ cache[i].life # "live" /\ cache[i].row = "none" => i \in ghost.late
           /\ \/ obj[i].row = "released" \/ cache[i].row = "released"
              \/ pc[i] \in {"used", "remove"} \/ (pc[i] = "row" /\ pass[i].row = "released")
              \/ obj[i].life = "absent" /\ i \notin ghost.late
              => cache[i].life # "live" /\ backend.unit[i].state = "absent"
BY DEF CacheInv, CacheTypes, Lagging, Unreported, Stopped

\* The blank values are of their types.
LEMMA CacheBlanks ==
    /\ Host!NoUnit \in Host!Units /\ Host!NoUnit.state = "absent"
    /\ Host!NoPass \in CachePasses /\ Host!NoPass.row = "none"
    /\ CacheStages = {"idle", "row", "list", "evict", "used", "remove"}
    /\ \A k \in CachePasses, r \in Host!Reasons : [k EXCEPT !.row = r] \in CachePasses
         /\ [k EXCEPT !.row = r].row = r
    /\ \A k \in CachePasses, f \in Files \cup {Host!NoFile} :
          [k EXCEPT !.ref = f] \in CachePasses /\ [k EXCEPT !.ref = f].row = k.row
    /\ \A k \in CachePasses, s \in SUBSET Files :
          [k EXCEPT !.used = s] \in CachePasses /\ [k EXCEPT !.used = s].row = k.row
BY DEF Host!NoUnit, Host!Units, Host!NoPass, CachePasses, Host!Reasons, CacheStages

\* A pass for a live image.
LEMMA CacheUrlRow == ASSUME CacheInv, NEW i \in Images, Host!url_row(i) PROVE CacheInv'
<1> DEFINE file == cache[i].pushed
           unitAfter == IF Host!unit(i).state = "failed" THEN Host!NoUnit
                        ELSE IF Host!unit(i).state = "absent" /\ file \notin Host!Cached
                             THEN [state |-> "running", file |-> file] ELSE Host!unit(i)
           row == IF file = Host!NoFile THEN "waiting" ELSE IF file \in Host!Cached THEN "ready" ELSE "importing"
           known == [Host!NoPass EXCEPT !.row = row,
                     !.ref = IF row = "ready" THEN file ELSE Host!NoFile]
<1>1. file \in Files \cup {Host!NoFile}
  BY CacheStill DEF Host!Objects
<1>2. unitAfter \in Host!Units
  BY <1>1, CacheBlanks, CacheStill DEF Host!unit, Host!Units
<1>3. row \in {"waiting", "ready", "importing"}
  OBVIOUS
<1>4. known \in CachePasses /\ known.row = row
  BY <1>1, <1>3 DEF Host!NoPass, CachePasses, Host!Reasons
<1>5. /\ UNCHANGED backend \/ backend' = [backend EXCEPT !.unit[i] = unitAfter]
      /\ pass' = [pass EXCEPT ![i] = known] /\ pc' = [pc EXCEPT ![i] = "row"]
      /\ pc[i] = "idle" /\ cache[i].life = "live" /\ UNCHANGED <<obj, cache, ghost>>
  BY DEF Host!url_row, Host!SetUnit, Host!Knows, Host!Goto, Host!At, Host!KeepWorld
<1> HIDE DEF unitAfter, known, row, file
<1>6. PICK u \in Host!Units : backend' = [files |-> backend'.files,
                                          unit |-> [backend.unit EXCEPT ![i] = u]]
  <2>1. CASE UNCHANGED backend
    BY <2>1, CacheStill
  <2>2. CASE backend' = [backend EXCEPT !.unit[i] = unitAfter]
    BY <1>2, <2>2, CacheStill
  <2> QED BY <1>5, <2>1, <2>2
<1>7. obj[i].row # "released" /\ cache[i].row # "released" /\ (obj[i].life = "absent" =>
            i \in ghost.late)
  BY <1>5, CacheStill
<1> QED
  <2>1. "row" \in CacheStages /\ ghost' = [since |-> ghost'.since, late |-> ghost'.late]
    BY <1>5, CacheStill, CacheBlanks
  <2>2. Moves(i, obj[i], cache[i], u, "row", known)
    BY <1>4, <1>5, <1>6, <2>1, CacheStill DEF Moves
  <2>3. Fits(i, obj[i], cache[i], u, "row", known)
    BY <1>3, <1>4, <1>5, <1>7, CacheStill DEF Fits
  <2> QED BY <2>2, <2>3, CacheMoves

\* The host's row for the image.
LEMMA CachePatchRow == ASSUME CacheInv, NEW i \in Images, Host!patch_row(i) PROVE CacheInv'
<1>1. /\ UNCHANGED <<backend, cache>> /\ pc[i] = "row"
      /\ \/ UNCHANGED obj
         \/ obj' = [obj EXCEPT ![i].row = pass[i].row, ![i].ref = pass[i].ref]
      /\ \/ pc' = [pc EXCEPT ![i] = "list"] /\ UNCHANGED pass
         \/ pc' = [pc EXCEPT ![i] = "idle"] /\ pass' = [pass EXCEPT ![i] = Host!NoPass]
  BY DEF Host!patch_row, Host!At, Host!Goto, Host!End, Host!Knows, Host!FailPass, Host!KeepWorld
<1>2. ghost' = [since |-> ghost'.since, late |-> ghost'.late] /\ ghost'.late = ghost.late
  <2>1. UNCHANGED ghost \/ \E s : ghost' = [ghost EXCEPT !.since = s]
    BY DEF Host!patch_row
  <2> QED BY <2>1, CacheStill
<1>3. PICK o \in Host!Objects : /\ obj' = [obj EXCEPT ![i] = o] /\ o.life = obj[i].life
                                /\ o.row \in {obj[i].row, pass[i].row}
  <2>1. CASE UNCHANGED obj
    BY <2>1, CacheStill
  <2>2. CASE obj' = [obj EXCEPT ![i].row = pass[i].row, ![i].ref = pass[i].ref]
    <3> DEFINE o == [obj[i] EXCEPT !.row = pass[i].row, !.ref = pass[i].ref]
    <3>1. o \in Host!Objects /\ o.life = obj[i].life /\ o.row = pass[i].row
      BY CacheStill DEF Host!Objects, CachePasses
    <3>2. obj' = [obj EXCEPT ![i] = o]
      BY <2>2 DEF CacheInv, CacheTypes
    <3> QED BY <3>1, <3>2
  <2> QED BY <1>1, <2>1, <2>2
<1>4. PICK q \in {"list", "idle"}, known \in CachePasses :
        pc' = [pc EXCEPT ![i] = q] /\ pass' = [pass EXCEPT ![i] = known]
  <2>1. CASE pc' = [pc EXCEPT ![i] = "list"] /\ UNCHANGED pass
    <3>1. pass' = [pass EXCEPT ![i] = pass[i]] /\ pass[i] \in CachePasses
      BY <2>1, CacheStill
    <3> QED BY <2>1, <3>1
  <2>2. CASE pc' = [pc EXCEPT ![i] = "idle"] /\ pass' = [pass EXCEPT ![i] = Host!NoPass]
    BY <2>2, CacheBlanks
  <2> QED BY <1>1, <2>1, <2>2
<1>5. backend' = [files |-> backend'.files, unit |-> [backend.unit EXCEPT ![i] = backend.unit[i]]]
      /\ cache' = [cache EXCEPT ![i] = cache[i]]
  BY <1>1, CacheStill
<1>6. o.life # "live" /\ o.row = "none" => i \in ghost'.late
  BY <1>1, <1>2, <1>3, CacheStill
<1>7. /\ cache[i].life # "live" => o.life # "live"
      /\ cache[i].life # "live" /\ cache[i].row = "none" => i \in ghost'.late
      /\ \/ o.row = "released" \/ cache[i].row = "released"
         \/ o.life = "absent" /\ i \notin ghost'.late
         => cache[i].life # "live" /\ backend.unit[i].state = "absent"
  BY <1>1, <1>2, <1>3, CacheStill
<1>8. q \in CacheStages /\ cache[i] \in Host!Objects /\ backend.unit[i] \in Host!Units
  BY CacheStill, CacheBlanks
<1>9. Moves(i, o, cache[i], backend.unit[i], q, known)
  BY <1>2, <1>3, <1>4, <1>5, <1>8 DEF Moves
<1>10. q # "row" /\ q # "used" /\ q # "remove"
  BY <1>4
<1>11. Fits(i, o, cache[i], backend.unit[i], q, known)
  BY <1>6, <1>7, <1>10 DEF Fits
<1> QED BY <1>9, <1>11, CacheMoves

\* A list of what is referred to.
LEMMA CacheReferences ==
    ASSUME CacheInv, NEW i \in Images, NEW a, NEW b, Host!live_references(i, a, b),
           <<a, b>> \in {<<"list", "evict">>, <<"used", "remove">>}
    PROVE  CacheInv'
<1>1. Host!referenced_files(Files) \in SUBSET Files
  BY DEF Host!referenced_files
<1>2. /\ UNCHANGED <<backend, cache, obj>> /\ pc[i] = a
      /\ \/ /\ pc' = [pc EXCEPT ![i] = b]
            /\ pass' = [pass EXCEPT ![i] = [pass[i] EXCEPT !.used = Host!referenced_files(Files)]]
         \/ pc' = [pc EXCEPT ![i] = "idle"] /\ pass' = [pass EXCEPT ![i] = Host!NoPass]
  BY DEF Host!live_references, Host!At, Host!Goto, Host!End, Host!Knows, Host!FailPass,
         Host!KeepWorld
<1>3. ghost' = [since |-> ghost'.since, late |-> ghost'.late] /\ ghost'.late = ghost.late
  <2>1. UNCHANGED ghost \/ ghost' = [ghost EXCEPT !.since[i] = {}]
    BY DEF Host!live_references
  <2> QED BY <2>1, CacheStill
<1>4. PICK known \in CachePasses : pass' = [pass EXCEPT ![i] = known]
  BY <1>1, <1>2, CacheBlanks, CacheStill
<1>5. PICK q \in {"idle", b} : pc' = [pc EXCEPT ![i] = q]
  BY <1>2
<1>6. /\ q \in CacheStages /\ q # "row" /\ cache[i] \in Host!Objects /\ obj[i] \in Host!Objects
           /\ backend.unit[i] \in Host!Units
      /\ q \in {"used", "remove"} => pc[i] \in {"used", "remove"}
  BY <1>2, CacheStill, CacheBlanks
<1>7. backend' = [files |-> backend'.files, unit |-> [backend.unit EXCEPT ![i] = backend.unit[i]]]
      /\ cache' = [cache EXCEPT ![i] = cache[i]] /\ obj' = [obj EXCEPT ![i] = obj[i]]
  BY <1>2, CacheStill
<1>8. Moves(i, obj[i], cache[i], backend.unit[i], q, known)
  BY <1>3, <1>4, <1>5, <1>6, <1>7 DEF Moves
<1>9. Fits(i, obj[i], cache[i], backend.unit[i], q, known)
  BY <1>3, <1>6, CacheStill DEF Fits
<1> QED BY <1>8, <1>9, CacheMoves

\* Files are removed: by an eviction, or by the release.
LEMMA CacheRemoved ==
    ASSUME CacheInv, NEW i \in Images, NEW f, Host!remove_from_caches(f), UNCHANGED <<obj, cache>>,
           ghost' = [ghost EXCEPT !.since[i] = {}],
           \/ Host!At(i, "evict") /\ Host!End(i)
           \/ Host!At(i, "remove") /\ Host!Goto(i, "row")
                /\ Host!Knows(i, [Host!NoPass EXCEPT !.row = "released"])
    PROVE  CacheInv'
<1>1. backend' = [files |-> backend'.files, unit |-> [backend.unit EXCEPT ![i] = backend.unit[i]]]
  <2>1. \E s : backend' = [backend EXCEPT !.files = s]
    BY DEF Host!remove_from_caches
  <2> QED BY <2>1, CacheStill
<1>2. ghost' = [since |-> ghost'.since, late |-> ghost'.late] /\ ghost'.late = ghost.late
  BY CacheStill
<1>3. cache' = [cache EXCEPT ![i] = cache[i]] /\ obj' = [obj EXCEPT ![i] = obj[i]]
      /\ cache[i] \in Host!Objects /\ obj[i] \in Host!Objects /\ backend.unit[i] \in Host!Units
  BY CacheStill
<1>4. CASE Host!At(i, "evict") /\ Host!End(i)
  <2>1. pc' = [pc EXCEPT ![i] = "idle"] /\ pass' = [pass EXCEPT ![i] = Host!NoPass]
        /\ "idle" \in CacheStages /\ Host!NoPass \in CachePasses
    BY <1>4, CacheBlanks DEF Host!End, Host!Goto, Host!Knows
  <2>2. Moves(i, obj[i], cache[i], backend.unit[i], "idle", Host!NoPass)
    BY <1>1, <1>2, <1>3, <2>1 DEF Moves
  <2>3. Fits(i, obj[i], cache[i], backend.unit[i], "idle", Host!NoPass)
    BY <1>2, CacheStill DEF Fits
  <2> QED BY <2>2, <2>3, CacheMoves
<1>5. CASE Host!At(i, "remove") /\ Host!Goto(i, "row")
                 /\ Host!Knows(i, [Host!NoPass EXCEPT !.row = "released"])
  <2> DEFINE known == [Host!NoPass EXCEPT !.row = "released"]
  <2>1. pc[i] = "remove" /\ pc' = [pc EXCEPT ![i] = "row"] /\ pass' = [pass EXCEPT ![i] = known]
    BY <1>5 DEF Host!At, Host!Goto, Host!Knows
  <2>2. "row" \in CacheStages /\ known \in CachePasses /\ known.row = "released"
    BY CacheBlanks DEF Host!Reasons
  <2> HIDE DEF known
  <2>3. Moves(i, obj[i], cache[i], backend.unit[i], "row", known)
    BY <1>1, <1>2, <1>3, <2>1, <2>2 DEF Moves
  <2>4. Fits(i, obj[i], cache[i], backend.unit[i], "row", known)
    BY <1>2, <2>1, <2>2, CacheStill DEF Fits
  <2> QED BY <2>3, <2>4, CacheMoves
<1> QED BY <1>4, <1>5

\* A release begins by stopping the import.
LEMMA CacheReleaseUnit ==
    ASSUME CacheInv, NEW i \in Images, Host!At(i, "idle"), cache[i].life = "deleting",
           Host!release_unit(i),
           UNCHANGED <<obj, cache, ghost>>
    PROVE  CacheInv'
<1> DEFINE known == [Host!NoPass EXCEPT !.ref = Host!ReleasedFile(cache[i])]
<1>1. Host!ReleasedFile(cache[i]) \in Files \cup {Host!NoFile}
  BY CacheStill DEF Host!ReleasedFile, Host!Objects
<1>2. known \in CachePasses /\ "used" \in CacheStages
  BY <1>1, CacheBlanks
<1>3. /\ backend' = [backend EXCEPT !.unit[i] = Host!NoUnit] /\ pc' = [pc EXCEPT ![i] = "used"]
      /\ pass' = [pass EXCEPT ![i] = known]
  BY DEF Host!release_unit, Host!SetUnit, Host!Goto, Host!Knows
<1>4. backend' = [files |-> backend'.files, unit |-> [backend.unit EXCEPT ![i] = Host!NoUnit]]
  BY <1>3, CacheStill
<1>5. cache' = [cache EXCEPT ![i] = cache[i]] /\ obj' = [obj EXCEPT ![i] = obj[i]]
      /\ cache[i] \in Host!Objects /\ obj[i] \in Host!Objects
           /\ ghost' = [since |-> ghost'.since, late |-> ghost'.late]
  BY CacheStill
<1> HIDE DEF known
<1>6. Moves(i, obj[i], cache[i], Host!NoUnit, "used", known)
  BY <1>2, <1>3, <1>4, <1>5, CacheBlanks DEF Moves
<1>7. Fits(i, obj[i], cache[i], Host!NoUnit, "used", known)
  BY CacheStill, CacheBlanks DEF Fits
<1> QED BY <1>6, <1>7, CacheMoves

\* A unit runs: it was not stopped, so nothing of a release has happened.
LEMMA CacheImportRun == ASSUME CacheInv, NEW i \in Images, Host!import_run(i) PROVE CacheInv'
<1>1. UNCHANGED <<obj, cache, pc, pass, ghost>> /\ backend.unit[i].state = "running"
  BY DEF Host!import_run, Host!unit, Host!KeepWorld
<1>2. [Host!unit(i) EXCEPT !.state = "failed"] \in Host!Units
  BY CacheStill DEF Host!unit, Host!Units
<1>3. PICK u \in Host!Units : backend' = [files |-> backend'.files,
                                          unit |-> [backend.unit EXCEPT ![i] = u]]
  <2>1. \/ \E s : backend' = [backend EXCEPT !.unit[i] = Host!NoUnit, !.files = s]
        \/ backend' = [backend EXCEPT !.unit[i] = [Host!unit(i) EXCEPT !.state = "failed"]]
    BY DEF Host!import_run, Host!SetUnit
  <2> QED BY <1>2, <2>1, CacheStill, CacheBlanks
<1>4. /\ cache' = [cache EXCEPT ![i] = cache[i]] /\ obj' = [obj EXCEPT ![i] = obj[i]]
      /\ pc' = [pc EXCEPT ![i] = pc[i]] /\ pass' = [pass EXCEPT ![i] = pass[i]]
      /\ cache[i] \in Host!Objects /\ obj[i] \in Host!Objects /\ pc[i] \in CacheStages
           /\ pass[i] \in CachePasses
      /\ ghost' = [since |-> ghost'.since, late |-> ghost'.late]
  BY <1>1, CacheStill
<1>5. Moves(i, obj[i], cache[i], u, pc[i], pass[i])
  BY <1>1, <1>3, <1>4 DEF Moves
<1>6. Fits(i, obj[i], cache[i], u, pc[i], pass[i])
  BY <1>1, CacheStill DEF Fits
<1> QED BY <1>5, <1>6, CacheMoves

\* The controller lets a deleted image go.
LEMMA CacheReconcile == ASSUME CacheInv, NEW i \in Images, Host!reconcile_host_cache(i)
                        PROVE CacheInv'
<1> DEFINE o == [obj[i] EXCEPT !.life = "absent", !.fin = FALSE]
<1>1. /\ UNCHANGED <<backend, cache, pc, pass, ghost>>
      /\ cache[i].life = "deleting" /\ cache[i].row \in {"none", "released"}
      /\ obj' = [obj EXCEPT ![i] = [@ EXCEPT !.life = "absent", !.fin = FALSE]]
           /\ obj[i].life # "absent"
  BY DEF Host!reconcile_host_cache, Host!hosts_pending_release, Host!KeepWorld
<1>2. o \in Host!Objects /\ o.life = "absent" /\ o.row = obj[i].row /\ obj' = [obj EXCEPT ![i] = o]
  BY <1>1, CacheStill DEF Host!Objects
<1>3. cache[i].row = "none" => i \in ghost.late
  BY <1>1, CacheStill
<1>4. obj[i].row = "none" => i \in ghost.late
  BY <1>1, CacheStill
<1>5. /\ cache' = [cache EXCEPT ![i] = cache[i]]
      /\ pc' = [pc EXCEPT ![i] = pc[i]] /\ pass' = [pass EXCEPT ![i] = pass[i]]
      /\ cache[i] \in Host!Objects /\ pc[i] \in CacheStages /\ pass[i] \in CachePasses
           /\ backend.unit[i] \in Host!Units
      /\ ghost' = [since |-> ghost'.since, late |-> ghost'.late]
      /\ backend' = [files |-> backend'.files,
                     unit |-> [backend.unit EXCEPT ![i] = backend.unit[i]]]
  BY <1>1, CacheStill
<1> HIDE DEF o
<1>6. Moves(i, o, cache[i], backend.unit[i], pc[i], pass[i])
  BY <1>1, <1>2, <1>5 DEF Moves
<1>7. Fits(i, o, cache[i], backend.unit[i], pc[i], pass[i])
  BY <1>1, <1>2, <1>3, <1>4, CacheStill DEF Fits
<1> QED BY <1>6, <1>7, CacheMoves

\* The store catches up, the user deletes the image, a build is pushed.
LEMMA CacheWorld ==
    ASSUME CacheInv, NEW i \in Images,
           Host!Sync(i) \/ Host!Delete(i) \/ \E f \in Files : Host!Push(i, f)
    PROVE  CacheInv'
<1>1. /\ pc' = [pc EXCEPT ![i] = pc[i]] /\ pass' = [pass EXCEPT ![i] = pass[i]]
      /\ pc[i] \in CacheStages /\ pass[i] \in CachePasses /\ backend.unit[i] \in Host!Units
      /\ cache[i] \in Host!Objects /\ obj[i] \in Host!Objects
      /\ backend' = [files |-> backend'.files,
                     unit |-> [backend.unit EXCEPT ![i] = backend.unit[i]]]
  BY CacheStill DEF Host!Sync, Host!Delete, Host!Push, Host!OnlyWorld
<1>2. CASE Host!Sync(i)
  <2>1. /\ cache' = [cache EXCEPT ![i] = obj[i]] /\ obj' = [obj EXCEPT ![i] = obj[i]]
        /\ UNCHANGED <<ghost, obj>>
    BY <1>2, CacheStill DEF Host!Sync
  <2>2. ghost' = [since |-> ghost'.since, late |-> ghost'.late]
    BY <2>1, CacheStill
  <2>3. Moves(i, obj[i], obj[i], backend.unit[i], pc[i], pass[i])
    BY <1>1, <2>1, <2>2 DEF Moves
  <2>4. Fits(i, obj[i], obj[i], backend.unit[i], pc[i], pass[i])
    BY <2>1, CacheStill DEF Fits
  <2> QED BY <2>3, <2>4, CacheMoves
<1>3. CASE Host!Delete(i)
  <2> DEFINE o == [obj[i] EXCEPT !.life = "deleting"]
  <2>1. /\ obj' = [obj EXCEPT ![i].life = "deleting"] /\ UNCHANGED cache /\ obj[i].life = "live"
        /\ ghost' = [ghost EXCEPT !.late = IF obj[i].row = "none" THEN @ \cup {i} ELSE @]
    BY <1>3 DEF Host!Delete, Host!OnlyWorld
  <2>2. o \in Host!Objects /\ o.life = "deleting" /\ o.row = obj[i].row
              /\ obj' = [obj EXCEPT ![i] = o]
    BY <2>1, CacheStill DEF Host!Objects
  <2>3. /\ ghost' = [since |-> ghost'.since, late |-> ghost'.late]
        /\ \A j \in Images : j \in ghost.late => j \in ghost'.late
        /\ o.row = "none" => i \in ghost'.late
    BY <2>1, <2>2, CacheStill
  <2>4. cache' = [cache EXCEPT ![i] = cache[i]]
    BY <2>1, CacheStill
  <2> HIDE DEF o
  <2>5. Moves(i, o, cache[i], backend.unit[i], pc[i], pass[i])
    BY <1>1, <2>2, <2>3, <2>4 DEF Moves
  <2>6. Fits(i, o, cache[i], backend.unit[i], pc[i], pass[i])
    BY <2>1, <2>2, <2>3, CacheStill DEF Fits
  <2> QED BY <2>5, <2>6, CacheMoves
<1>4. ASSUME NEW f \in Files, Host!Push(i, f) PROVE CacheInv'
  <2> DEFINE o == [obj[i] EXCEPT !.pushed = f]
  <2>1. obj' = [obj EXCEPT ![i].pushed = f] /\ UNCHANGED <<cache, ghost>> /\ obj[i].life = "live"
    BY <1>4 DEF Host!Push, Host!OnlyWorld
  <2>2. o \in Host!Objects /\ o.life = "live" /\ o.row = obj[i].row /\ obj' = [obj EXCEPT ![i] = o]
    BY <2>1, CacheStill DEF Host!Objects
  <2>3. ghost' = [since |-> ghost'.since, late |-> ghost'.late]
              /\ cache' = [cache EXCEPT ![i] = cache[i]]
    BY <2>1, CacheStill
  <2> HIDE DEF o
  <2>4. Moves(i, o, cache[i], backend.unit[i], pc[i], pass[i])
    BY <1>1, <2>1, <2>2, <2>3 DEF Moves
  <2>5. Fits(i, o, cache[i], backend.unit[i], pc[i], pass[i])
    BY <2>1, <2>2, CacheStill DEF Fits
  <2> QED BY <2>4, <2>5, CacheMoves
<1> QED BY <1>2, <1>3, <1>4

\* Machines come and go without touching the images.
LEMMA CacheApart ==
    ASSUME CacheInv, UNCHANGED <<obj, cache, backend, pc, pass>>,
           UNCHANGED ghost \/ \E s : ghost' = [ghost EXCEPT !.since = s]
    PROVE  CacheInv'
<1>1. ghost' = [since |-> ghost'.since, late |-> ghost'.late] /\ ghost'.late = ghost.late
  BY DEF CacheInv, CacheTypes
<1> QED BY <1>1 DEF CacheInv, CacheTypes, Lagging, Unreported, Stopped

\* Every step preserves the invariant.
LEMMA CacheStep == ASSUME CacheInv, [Host!Next]_(Host!vars) PROVE CacheInv'
<1>1. ASSUME NEW i \in Images, Host!HostPass(i) PROVE CacheInv'
  <2>1. CASE Host!url_row(i)
    BY <2>1, CacheUrlRow
  <2>2. CASE Host!patch_row(i)
    BY <2>2, CachePatchRow
  <2>3. CASE Host!evict_unreferenced(i)
    <3>1. CASE Host!live_references(i, "list", "evict")
      BY <3>1, CacheReferences
    <3>2. CASE ~Host!live_references(i, "list", "evict")
      BY <2>3, <3>2, CacheRemoved DEF Host!evict_unreferenced, Host!KeepWorld
    <3> QED BY <3>1, <3>2
  <2>4. CASE Host!release(i)
    <3>1. CASE Host!live_references(i, "used", "remove")
      BY <3>1, CacheReferences
    <3>2. CASE Host!At(i, "idle") /\ cache[i].life = "deleting" /\ Host!release_unit(i)
               /\ UNCHANGED <<obj, ghost, faults>> /\ Host!KeepWorld
      BY <3>2, CacheReleaseUnit DEF Host!KeepWorld
    <3>3. CASE /\ Host!At(i, "remove") /\ Host!remove_from_caches({pass[i].ref} \ pass[i].used)
               /\ Host!Goto(i, "row") /\ Host!Knows(i, [Host!NoPass EXCEPT !.row = "released"])
               /\ ghost' = [ghost EXCEPT !.since[i] = {}]
               /\ UNCHANGED <<obj, faults>> /\ Host!KeepWorld
      BY <3>3, CacheRemoved DEF Host!KeepWorld
    <3> QED BY <2>4, <3>1, <3>2, <3>3 DEF Host!release
  <2> QED BY <1>1, <2>1, <2>2, <2>3, <2>4 DEF Host!HostPass
<1>2. ASSUME NEW i \in Images, Host!MachineCreated(i) PROVE CacheInv'
  BY <1>2, CacheApart DEF Host!MachineCreated, Host!OnlyWorld
<1>3. CASE Host!MachineDeleted
  BY <1>3, CacheApart DEF Host!MachineDeleted, Host!OnlyWorld
<1>4. CASE UNCHANGED Host!vars
  BY <1>4, CacheApart DEF Host!vars
<1> QED BY <1>1, <1>2, <1>3, <1>4, CacheImportRun, CacheReconcile, CacheWorld DEF Host!Next

\* A deleted image goes only once the host stopped importing it (hosts_pending_release),
\* for every number of images, files, faults and changes.
THEOREM ReleasedThenGone ==
    ASSUME First \in Files PROVE Host!Spec => []Host!ReleasedFirst
<1>1. Host!Init => CacheInv
  BY CacheInit
<1>2. CacheInv /\ [Host!Next]_(Host!vars) => CacheInv'
  BY CacheStep
<1>3. CacheInv => Host!ReleasedFirst
  BY DEF CacheInv, Stopped, Host!ReleasedFirst, Host!unit
<1> QED BY <1>1, <1>2, <1>3, PTL DEF Host!Spec

-----------------------------------------------------------------------------
(***************************************************************************)
(* LibvirtImage.  An image is ready only with its volume in every pool     *)
(* that was verified: a Job ends well only with the volume there.          *)
(***************************************************************************)

Libvirt == INSTANCE LibvirtImage

\* What the proof needs of the types.
ImportTypes == backend \in [Pools -> Libvirt!Volumes] /\ jobs \in [Pools -> Libvirt!JobPhases]

\* A Job that succeeded, and a pod that uploads, have the volume.
Uploaded ==
    /\ \A p \in Pools : jobs[p] = "succeeded" => backend[p] # "none"
    /\ \A p \in Pools : p \in pods => backend[p] # "none"

\* While every zone is ready, the pools the pass is done with have the volume.
PoolsReported ==
    /\ pass = [img |-> pass.img, pools |-> pass.pools, left |-> pass.left, zones |-> pass.zones]
    /\ pass.pools \subseteq Pools
    /\ pc = "jobs" =>
          /\ pass.pools # {}
          /\ pass.zones \subseteq {"ready"} => \A p \in pass.pools \ pass.left : backend[p] # "none"

\* The inductive invariant.
VolumeInv == ImportTypes /\ provider \subseteq Pools /\ Uploaded /\ PoolsReported
      /\ Libvirt!ReadyEverywhere

\* Nothing is imported, listed or reported yet.
LEMMA VolumeInit == ASSUME Libvirt!Init PROVE VolumeInv
<1>1. ImportTypes
  BY DEF Libvirt!Init, ImportTypes, Libvirt!Volumes, Libvirt!JobPhases
<1> QED BY <1>1 DEF Libvirt!Init, VolumeInv, Uploaded, PoolsReported, Libvirt!ReadyEverywhere,
                    Libvirt!NoPass

\* An importer only adds volumes, and ends well only with one.
LEMMA ImportKeeps ==
    ASSUME VolumeInv, NEW p \in Pools,
           Libvirt!import_start(p) \/ Libvirt!storage_vol_upload(p) \/ Libvirt!JobExpires(p)
                 \/ Libvirt!VolumeAdded(p)
    PROVE  /\ ImportTypes' /\ Uploaded'
           /\ \A x \in Pools : backend[x] # "none" => backend'[x] # "none"
           /\ UNCHANGED <<provider, pc, pass>>
<1> USE DEF VolumeInv, ImportTypes
<1>1. UNCHANGED <<provider, pc, pass>>
  BY DEF Libvirt!import_start, Libvirt!storage_vol_upload, Libvirt!JobExpires, Libvirt!VolumeAdded,
         Libvirt!KeepPasses, Libvirt!KeepWorld, Libvirt!OnlyWorld
<1>2. /\ backend' \in [Pools -> Libvirt!Volumes]
      /\ \A x \in Pools : backend[x] # "none" => backend'[x] # "none"
  BY DEF Libvirt!import_start, Libvirt!storage_vol_upload, Libvirt!JobExpires, Libvirt!VolumeAdded,
         Libvirt!Volumes
<1>3. ASSUME NEW ok \in BOOLEAN, Libvirt!Ended(p, ok), ok => backend'[p] # "none"
      PROVE  jobs' \in [Pools -> Libvirt!JobPhases] /\ Uploaded'
  <2> DEFINE j == CASE ok /\ Libvirt!Attempt(p) -> "succeeded"
                    [] ~ok /\ jobs[p] = "running" -> "retrying"
                    [] ~ok /\ jobs[p] = "retrying" -> "failed"
                    [] OTHER -> jobs[p]
  <2>1. jobs' = [jobs EXCEPT ![p] = j] /\ pods' = pods \ {p}
    BY <1>3 DEF Libvirt!Ended
  <2>2. j \in Libvirt!JobPhases /\ (j = "succeeded" => ok \/ jobs[p] = "succeeded")
    BY DEF Libvirt!JobPhases, Libvirt!Attempt
  <2> HIDE DEF j
  <2>3. /\ jobs' \in [Pools -> Libvirt!JobPhases] /\ jobs'[p] = j
        /\ \A x \in Pools \ {p} : jobs'[x] = jobs[x]
    BY <2>1, <2>2
  <2> QED BY <1>2, <1>3, <2>1, <2>2, <2>3 DEF Uploaded
<1>4. CASE Libvirt!import_start(p)
  <2>1. CASE ~Libvirt!plan(p) /\ Libvirt!Ended(p, TRUE) /\ UNCHANGED <<backend, faults>>
    BY <1>1, <1>2, <1>3, <2>1 DEF Libvirt!plan
  <2>2. CASE /\ Libvirt!plan(p) /\ backend' = [backend EXCEPT ![p] = "half"]
             /\ pods' = pods \cup {p} /\ UNCHANGED <<jobs, faults>>
    BY <1>1, <1>2, <2>2 DEF Uploaded
  <2>3. CASE Libvirt!Fail /\ Libvirt!Ended(p, FALSE) /\ UNCHANGED backend
    BY <1>1, <1>2, <1>3, <2>3
  <2> QED BY <1>4, <2>1, <2>2, <2>3 DEF Libvirt!import_start
<1>5. CASE Libvirt!storage_vol_upload(p)
  <2>1. CASE backend' = [backend EXCEPT ![p] = "whole"] /\ Libvirt!Ended(p, TRUE)
    <3>1. backend'[p] # "none"
      BY <2>1
    <3> QED BY <1>1, <1>2, <1>3, <2>1, <3>1
  <2>2. CASE Libvirt!Ended(p, FALSE)
    BY <1>1, <1>2, <1>3, <2>2
  <2> QED BY <1>5, <2>1, <2>2 DEF Libvirt!storage_vol_upload
<1>6. CASE Libvirt!JobExpires(p)
  BY <1>1, <1>2, <1>6 DEF Libvirt!JobExpires, Libvirt!JobPhases, Uploaded
<1>7. CASE Libvirt!VolumeAdded(p)
  BY <1>1, <1>2, <1>7 DEF Libvirt!VolumeAdded, Uploaded
<1> QED BY <1>4, <1>5, <1>6, <1>7

\* Volumes that are only added leave what was reported true.
LEMMA ReportsKeep ==
    ASSUME VolumeInv, UNCHANGED <<pc, pass>>, provider' \subseteq Pools, ImportTypes', Uploaded',
           \A x \in Pools : backend[x] # "none" => backend'[x] # "none"
    PROVE  VolumeInv'
BY DEF VolumeInv, PoolsReported, Libvirt!ReadyEverywhere

\* A row is ready only where every pool has the volume.
LEMMA RowReady ==
    ASSUME VolumeInv, NEW row, Libvirt!RowIs(row), UNCHANGED <<backend, jobs, pods, provider>>,
           row = "ready" => pass.pools # {} /\ \A p \in pass.pools : backend[p] # "none"
    PROVE  VolumeInv'
<1>1. /\ pc' = "patch" /\ pass'.zones = {row} /\ pass'.pools = pass.pools
      /\ pass' = [img |-> pass'.img, pools |-> pass'.pools, left |-> pass'.left,
                  zones |-> pass'.zones]
  BY DEF Libvirt!RowIs, Libvirt!NoPass
<1> QED BY <1>1 DEF VolumeInv, ImportTypes, Uploaded, PoolsReported, Libvirt!ReadyEverywhere

\* A pass that begins or ends has nothing to report.
LEMMA NothingReported ==
    ASSUME VolumeInv, UNCHANGED <<backend, jobs, pods, provider>>, pc' \in {"idle", "row"},
           \E image : pass' = [Libvirt!NoPass EXCEPT !.img = image]
    PROVE  VolumeInv'
<1>1. /\ pass'.pools = {}
      /\ pass' = [img |-> pass'.img, pools |-> pass'.pools, left |-> pass'.left,
                  zones |-> pass'.zones]
  BY DEF Libvirt!NoPass
<1> QED BY <1>1 DEF VolumeInv, ImportTypes, Uploaded, PoolsReported, Libvirt!ReadyEverywhere

\* The row of a pass, up to the Jobs.
LEMMA ForProvider == ASSUME VolumeInv, Libvirt!reconcile_for_provider PROVE VolumeInv'
<1>1. UNCHANGED <<backend, jobs, pods, provider>>
  BY DEF Libvirt!reconcile_for_provider, Libvirt!KeepImports, Libvirt!KeepWorld
<1>2. ASSUME NEW row, Libvirt!RowIs(row), row # "ready" PROVE VolumeInv'
  BY <1>1, <1>2, RowReady
<1>3. CASE /\ Libvirt!target_pools # {} /\ pc' = "patch"
           /\ pass' = [Libvirt!NoPass EXCEPT !.pools = Libvirt!target_pools,
                       !.zones = {Libvirt!backing_file_row(Libvirt!target_pools)}]
  <2>1. /\ pass'.zones = {Libvirt!backing_file_row(provider)} /\ pass'.pools = provider
        /\ pass' = [img |-> pass'.img, pools |-> pass'.pools, left |-> pass'.left,
                    zones |-> pass'.zones]
    BY <1>3 DEF Libvirt!NoPass, Libvirt!target_pools
  <2>2. Libvirt!backing_file_row(provider) = "ready" => \A p \in provider : backend[p] # "none"
    BY DEF Libvirt!backing_file_row
  <2> QED BY <1>1, <1>3, <2>1, <2>2
        DEF VolumeInv, ImportTypes, Uploaded, PoolsReported, Libvirt!ReadyEverywhere,
            Libvirt!target_pools
<1>4. CASE Libvirt!target_pools # {} /\ pc' = "jobs"
           /\ pass' = [pass EXCEPT !.pools = Libvirt!target_pools, !.left = Libvirt!target_pools]
  <2>1. /\ pass'.left = provider /\ pass'.pools = provider
        /\ pass' = [img |-> pass'.img, pools |-> pass'.pools, left |-> pass'.left,
                    zones |-> pass'.zones]
    BY <1>4 DEF Libvirt!target_pools, VolumeInv, PoolsReported
  <2> QED BY <1>1, <1>4, <2>1
        DEF VolumeInv, ImportTypes, Uploaded, PoolsReported, Libvirt!ReadyEverywhere,
            Libvirt!target_pools
<1> QED BY <1>2, <1>3, <1>4 DEF Libvirt!reconcile_for_provider

\* A pool's Job: its zone is ready only when it succeeded.
LEMMA EnsureJob == ASSUME VolumeInv, NEW p \in Pools, Libvirt!ensure_import_jobs(p) PROVE VolumeInv'
<1>1. UNCHANGED <<backend, pods, provider, pc>> /\ pc = "jobs" /\ p \in pass.left
  BY DEF Libvirt!ensure_import_jobs, Libvirt!KeepWorld
<1>2. \/ UNCHANGED jobs
      \/ jobs[p] = "none" /\ jobs' = [jobs EXCEPT ![p] = "running"]
  BY DEF Libvirt!ensure_import_jobs
<1>3. PICK z : /\ pass' = [pass EXCEPT !.left = @ \ {p}, !.zones = @ \cup {z}]
               /\ z = "ready" => jobs[p] = "succeeded"
  <2>1. Libvirt!zone_from_job(jobs[p]) = "ready" => jobs[p] = "succeeded"
    BY DEF Libvirt!zone_from_job
  <2> QED BY <2>1 DEF Libvirt!ensure_import_jobs
<1>4. /\ pass'.left = pass.left \ {p} /\ pass'.zones = pass.zones \cup {z}
           /\ pass'.pools = pass.pools
      /\ pass' = [img |-> pass'.img, pools |-> pass'.pools, left |-> pass'.left,
                  zones |-> pass'.zones]
  BY <1>3 DEF VolumeInv, PoolsReported
<1>5. ImportTypes' /\ Uploaded'
  BY <1>1, <1>2 DEF VolumeInv, ImportTypes, Uploaded, Libvirt!JobPhases
<1>6. pass'.zones \subseteq {"ready"} =>
        pass.zones \subseteq {"ready"} /\ backend[p] # "none"
  BY <1>3, <1>4 DEF VolumeInv, Uploaded
<1>7. PoolsReported'
  BY <1>1, <1>4, <1>6 DEF VolumeInv, PoolsReported
<1> QED BY <1>1, <1>5, <1>7 DEF VolumeInv, Libvirt!ReadyEverywhere

\* Every step preserves the invariant.
LEMMA VolumeStep == ASSUME VolumeInv, [Libvirt!Next]_(Libvirt!vars) PROVE VolumeInv'
<1>1. CASE Libvirt!reconcile \/ Libvirt!patch_status \/ Libvirt!Crash
  <2>1. \E image : pass' = [Libvirt!NoPass EXCEPT !.img = image]
    <3>1. Libvirt!NoPass = [Libvirt!NoPass EXCEPT !.img = Libvirt!NoPass.img]
      BY DEF Libvirt!NoPass
    <3> QED BY <1>1, <3>1 DEF Libvirt!reconcile, Libvirt!patch_status, Libvirt!Crash
  <2> QED BY <1>1, <2>1, NothingReported DEF Libvirt!reconcile, Libvirt!patch_status,
                                             Libvirt!Crash, Libvirt!KeepImports, Libvirt!KeepWorld
<1>2. CASE Libvirt!ImportsListed
  <2>1. Libvirt!RowOf(pass.zones) = "ready" => pass.zones \subseteq {"ready"}
    BY DEF Libvirt!RowOf
  <2>2. Libvirt!RowOf(pass.zones) = "ready" =>
              pass.pools # {} /\ \A p \in pass.pools : backend[p] # "none"
    BY <1>2, <2>1 DEF Libvirt!ImportsListed, VolumeInv, PoolsReported
  <2> QED BY <1>2, <2>2, RowReady DEF Libvirt!ImportsListed, Libvirt!KeepImports, Libvirt!KeepWorld
<1>3. CASE Libvirt!Rebuild
  BY <1>3 DEF Libvirt!Rebuild, Libvirt!OnlyWorld, VolumeInv, ImportTypes, Uploaded, PoolsReported,
              Libvirt!ReadyEverywhere, Libvirt!JobPhases
<1>4. ASSUME NEW p \in Pools, Libvirt!Import(p) \/ Libvirt!VolumeAdded(p) PROVE VolumeInv'
  BY <1>4, ImportKeeps, ReportsKeep DEF Libvirt!Import, VolumeInv
<1>5. ASSUME UNCHANGED <<backend, jobs, pods, pc, pass>>, provider' \subseteq Pools PROVE VolumeInv'
  BY <1>5 DEF VolumeInv, ImportTypes, Uploaded, PoolsReported, Libvirt!ReadyEverywhere
<1>6. CASE Libvirt!Sync \/ Libvirt!Built \/ UNCHANGED Libvirt!vars
  BY <1>5, <1>6 DEF Libvirt!Sync, Libvirt!Built, Libvirt!vars, Libvirt!OnlyWorld,
                    Libvirt!KeepImports, VolumeInv
<1>7. ASSUME NEW p \in Pools, Libvirt!PoolVerified(p) PROVE VolumeInv'
  BY <1>5, <1>7 DEF Libvirt!PoolVerified, Libvirt!OnlyWorld, Libvirt!KeepImports, VolumeInv
<1> QED BY <1>1, <1>2, <1>3, <1>4, <1>6, <1>7, ForProvider, EnsureJob DEF Libvirt!Next, Libvirt!Pass

\* An image becomes ready only with its volume in every pool that was verified when its
\* row was put together, for every number of pools, faults and rebuilds.
THEOREM VolumesEverywhere == Libvirt!Spec => []Libvirt!ReadyEverywhere
<1>1. Libvirt!Init => VolumeInv
  BY VolumeInit
<1>2. VolumeInv /\ [Libvirt!Next]_(Libvirt!vars) => VolumeInv'
  BY VolumeStep
<1>3. VolumeInv => Libvirt!ReadyEverywhere
  BY DEF VolumeInv
<1> QED BY <1>1, <1>2, <1>3, PTL DEF Libvirt!Spec

-----------------------------------------------------------------------------
(***************************************************************************)
(* VSphereImage.  One finalizer serves all the workloads, and goes only    *)
(* after the templates that the rows named: a copy of the deleted image    *)
(* names every template that is still to go.                               *)
(***************************************************************************)

VSphere == INSTANCE VSphereImage

\* The types of a pass, and its stages once the image is deleted.
ImageStages == {"idle", "finalizer", "jobs", "create", "status", "mark",
           "clear", "destroy", "cleared", "others", "finRemove"}
Finalizing == {"destroy", "cleared", "others", "finRemove"}
ImagePasses == [img: VSphere!Images, row: VSphere!Rows, all: SUBSET Providers,
                marked: SUBSET Providers]

\* The Providers whose template is still to go.
Owing == {p \in ghost.owed : backend[p] = "template"}

\* A copy of the image says what the image does of what does not change; and a copy
\* from after the deletion names every template that is still to go.
Agrees(x, o, owing) ==
    /\ x \in VSphere!Images
    /\ x.source = o.source /\ x.retain = o.retain /\ x.force = o.force
    /\ x.life # "live" => o.life # "live" /\ \A p \in owing : x.rows[p] = "ready"

\* The parts of the history variable.
Recorded(g) == g = [acted |-> g.acted, over |-> g.over, fresh |-> g.fresh, owed |-> g.owed,
                    requests |-> g.requests]

\* Templates are owed for deleted images banlieue imported and need not keep, by
\* Providers that exist; none of those is being installed.
Owed ==
    /\ Recorded(ghost)
    /\ backend \in [Providers -> {"none", "half", "template"}]
    /\ provider \subseteq Providers
    /\ obj.life = "live" => ghost.owed = {}
    /\ \A p \in ghost.owed : /\ p \in provider /\ backend[p] # "half"
                             /\ obj.source = "url" /\ ~obj.retain
    /\ \A p \in Providers : pods[p] = "install" => backend[p] = "half"
    /\ pods \in [Providers -> {"none", "install"}]
    /\ obj.source = "template" => ~obj.force
    /\ obj.life = "absent" => Owing = {}

\* How far the workload of p got with the finalizer.
Stage(p) ==
    /\ pc[p] # "idle" => Agrees(pass[p].img, obj, Owing)
    /\ pc[p] \in Finalizing => pass[p].img.life = "deleting"
    /\ pc[p] \in {"cleared", "others"} => p \notin Owing
    /\ pc[p] = "finRemove" => Owing = {}

\* The inductive invariant.
TemplateInv ==
    /\ Owed /\ Agrees(obj, obj, Owing)
    /\ cache \in [Providers -> VSphere!Images] /\ pc \in [Providers -> ImageStages]
         /\ pass \in [Providers -> ImagePasses]
    /\ \A p \in Providers : Agrees(cache[p], obj, Owing) /\ Stage(p)

\* What a step other than the deletion does to the image and the templates owed.
Calm ==
    /\ obj' \in VSphere!Images
    /\ obj'.source = obj.source /\ obj'.retain = obj.retain /\ obj'.force = obj.force
    /\ obj.life # "live" => obj'.life # "live"
    /\ obj'.life = "absent" => obj.life = "absent" \/ Owing' = {}
    /\ Recorded(ghost')
    /\ ghost'.owed \subseteq ghost.owed /\ provider' \subseteq provider
    /\ ghost'.owed \subseteq provider'
    /\ backend' \in [Providers -> {"none", "half", "template"}]
    /\ \A q \in ghost'.owed : backend'[q] \in {backend[q], "none"}
    /\ pods' \in [Providers -> {"none", "install"}]
    /\ \A q \in Providers : pods'[q] = "install" => backend'[q] = "half"
    /\ \A q \in Owing' : obj.life = "live" \/ obj'.rows[q] = obj.rows[q]

\* Fewer templates are owed, so copies that agreed do.
LEMMA CalmKeeps ==
    ASSUME TemplateInv, Calm
    PROVE  /\ Owed' /\ Owing' \subseteq Owing /\ Agrees(obj', obj', Owing')
           /\ \A x : Agrees(x, obj, Owing) => Agrees(x, obj', Owing')
<1>1. Owing' \subseteq Owing
  BY DEF Calm, TemplateInv, Owed, Owing
<1>2. Owed'
  <2>1. obj'.life = "live" => ghost'.owed = {}
    BY DEF Calm, TemplateInv, Owed, Agrees, VSphere!Images
  <2>2. \A p \in ghost'.owed : /\ p \in provider' /\ backend'[p] # "half"
                               /\ obj'.source = "url" /\ ~obj'.retain
    BY DEF Calm, TemplateInv, Owed
  <2>3. obj'.life = "absent" => Owing' = {}
    BY <1>1 DEF Calm, TemplateInv, Owed
  <2>4. (obj'.source = "template" => ~obj'.force) /\ provider' \subseteq Providers
    BY DEF Calm, TemplateInv, Owed
  <2> QED BY <2>1, <2>2, <2>3, <2>4 DEF Calm, Owed
<1>3. ASSUME NEW x, Agrees(x, obj, Owing) PROVE Agrees(x, obj', Owing')
  BY <1>1, <1>3 DEF Calm, Agrees
<1>4. Agrees(obj', obj', Owing')
  <2>1. CASE obj.life = "live"
    <3>1. Owing' = {}
      BY <1>1, <2>1 DEF TemplateInv, Owed, Owing
    <3> QED BY <3>1 DEF Calm, Agrees
  <2>2. CASE obj.life # "live"
    <3>1. \A q \in Owing' : obj'.rows[q] = "ready"
      BY <1>1, <2>2 DEF Calm, TemplateInv, Agrees
    <3> QED BY <2>2, <3>1 DEF Calm, Agrees
  <2> QED BY <2>1, <2>2
<1> QED BY <1>1, <1>2, <1>3, <1>4

\* Where a pass is afterwards.
Moved(p, stage, known) ==
    /\ stage \in ImageStages /\ known \in ImagePasses
    /\ pc' = [pc EXCEPT ![p] = stage] /\ pass' = [pass EXCEPT ![p] = known]

\* A step of one workload's pass.
LEMMA PassMoves ==
    ASSUME TemplateInv, Calm, UNCHANGED cache, NEW p \in Providers, NEW stage, NEW known,
           Moved(p, stage, known),
           stage # "idle" => Agrees(known.img, obj, Owing),
           stage \in Finalizing => known.img.life = "deleting",
           stage \in {"cleared", "others"} => p \notin Owing',
           stage = "finRemove" => Owing' = {}
    PROVE  TemplateInv'
<1>1. /\ Owed' /\ Owing' \subseteq Owing /\ Agrees(obj', obj', Owing')
      /\ \A x : Agrees(x, obj, Owing) => Agrees(x, obj', Owing')
  BY CalmKeeps
<1>2. /\ cache' \in [Providers -> VSphere!Images] /\ pc' \in [Providers -> ImageStages]
           /\ pass' \in [Providers -> ImagePasses]
      /\ pc'[p] = stage /\ pass'[p] = known
      /\ \A q \in Providers \ {p} : pc'[q] = pc[q] /\ pass'[q] = pass[q]
  BY DEF TemplateInv, Moved
<1>3. \A q \in Providers : Agrees(cache'[q], obj', Owing')
  BY <1>1 DEF TemplateInv
<1>4. Stage(p)'
  BY <1>1, <1>2 DEF Stage
<1>5. ASSUME NEW q \in Providers \ {p} PROVE Stage(q)'
  <2>1. Stage(q)
    BY DEF TemplateInv
  <2>2. pc'[q] = pc[q] /\ pass'[q] = pass[q]
    BY <1>2
  <2> QED BY <1>1, <2>1, <2>2 DEF Stage
<1> QED BY <1>1, <1>2, <1>3, <1>4, <1>5 DEF TemplateInv

\* A pass that ends, or goes on with the copy it has short of the finalizer.
LEMMA PassGoesOn ==
    ASSUME TemplateInv, Calm, UNCHANGED cache, NEW p \in Providers, NEW stage, NEW known,
           Moved(p, stage, known),
           stage = "idle" \/ (pc[p] # "idle" /\ stage \notin Finalizing /\ known.img = pass[p].img)
    PROVE  TemplateInv'
<1>1. Stage(p)
  BY DEF TemplateInv
<1>2. stage # "idle" => Agrees(known.img, obj, Owing)
  BY <1>1 DEF Stage
<1>3. stage \notin Finalizing /\ stage \notin {"cleared", "others"} /\ stage # "finRemove"
  BY DEF Finalizing
<1> QED BY <1>2, <1>3, PassMoves

\* What a store is shown of the image agrees with it.
LEMMA SeenImage ==
    ASSUME NEW x \in VSphere!Images
    PROVE  /\ VSphere!Seen(x) \in VSphere!Images /\ (x.life = "deleting" => VSphere!Seen(x) = x)
           /\ VSphere!Seen(x).life = x.life /\ VSphere!Seen(x).source = x.source
           /\ VSphere!Seen(x).retain = x.retain /\ VSphere!Seen(x).force = x.force
<1>1. VSphere!Blank.rows \in [Providers -> VSphere!Rows]
  BY DEF VSphere!Blank, VSphere!Rows
<1> QED BY <1>1 DEF VSphere!Seen, VSphere!Images

LEMMA SeenAgrees == ASSUME TemplateInv PROVE Agrees(VSphere!Seen(obj), obj, Owing)
<1>1. /\ obj \in VSphere!Images /\ Agrees(obj, obj, Owing)
      /\ obj.life \in {"live", "absent"} => Owing = {}
  BY DEF TemplateInv, Owed, Owing, Agrees
<1>2. obj.life \in {"live", "absent", "deleting"}
  BY <1>1 DEF VSphere!Images
<1> QED BY <1>1, <1>2, SeenImage DEF Agrees

\* A step apart from the passes.
LEMMA PassesKeep ==
    ASSUME TemplateInv, Calm, UNCHANGED <<pc, pass>>,
           cache' \in [Providers -> VSphere!Images],
           \A q \in Providers : cache'[q] = cache[q] \/ cache'[q] = VSphere!Seen(obj)
    PROVE  TemplateInv'
<1>1. /\ Owed' /\ Owing' \subseteq Owing /\ Agrees(obj', obj', Owing')
      /\ \A x : Agrees(x, obj, Owing) => Agrees(x, obj', Owing')
  BY CalmKeeps
<1>2. \A q \in Providers : Agrees(cache'[q], obj', Owing')
  BY <1>1, SeenAgrees DEF TemplateInv
<1>3. ASSUME NEW q \in Providers PROVE Stage(q)'
  <2>1. Stage(q)
    BY DEF TemplateInv
  <2> QED BY <1>1, <2>1 DEF Stage
<1> QED BY <1>1, <1>2, <1>3 DEF TemplateInv

\* A step that leaves the templates alone, and of the image what the invariant is about.
LEMMA CalmEdit ==
    ASSUME TemplateInv, UNCHANGED <<backend, pods, provider>>, obj' \in VSphere!Images,
           obj'.source = obj.source, obj'.retain = obj.retain, obj'.force = obj.force,
           obj'.life = obj.life, obj'.rows = obj.rows,
           Recorded(ghost'),
           ghost'.owed = ghost.owed
    PROVE  Calm
BY DEF TemplateInv, Owed, Calm, Owing

\* The blank pass, and the parts of a pass that change.
LEMMA PassEdits ==
    /\ VSphere!NoPass \in ImagePasses
    /\ \A k \in ImagePasses, r \in VSphere!Rows, a \in SUBSET Providers :
          /\ [k EXCEPT !.row = r, !.all = a] \in ImagePasses
          /\ [k EXCEPT !.row = r, !.all = a].img = k.img
    /\ \A k \in ImagePasses, m \in SUBSET Providers :
          [k EXCEPT !.marked = m] \in ImagePasses /\ [k EXCEPT !.marked = m].img = k.img
    /\ \A x \in VSphere!Images : [VSphere!NoPass EXCEPT !.img = x] \in ImagePasses
         /\ [VSphere!NoPass EXCEPT !.img = x].img = x
<1>1. VSphere!Blank \in VSphere!Images
  BY DEF VSphere!Blank, VSphere!Images, VSphere!Rows
<1> QED BY <1>1 DEF VSphere!NoPass, ImagePasses, VSphere!Rows

\* Nothing is owed at first, and every copy is the image.
LEMMA TemplateInit ==
    ASSUME Sources \subseteq {"url", "template"}, Imported \in BOOLEAN, VSphere!Init
    PROVE  TemplateInv
<1>1. obj \in VSphere!Images /\ obj.life = "live"
  <2> DEFINE rows == [p \in Providers |-> IF Imported THEN "ready" ELSE "none"]
  <2>1. rows \in [Providers -> VSphere!Rows]
    BY DEF VSphere!Rows
  <2>2. obj \in [life: {"live"}, fin: {Imported}, source: Sources, retain: BOOLEAN,
                force: BOOLEAN, artifact: {"ready"}, request: {FALSE}, handled: {{}}, rows: {rows}]
    BY DEF VSphere!Init
  <2> HIDE DEF rows
  <2> QED BY <2>1, <2>2 DEF VSphere!Images
<1>2. Owed
  BY <1>1 DEF VSphere!Init, Owed, Owing, Recorded
<1>3. Agrees(obj, obj, Owing)
  BY <1>1 DEF Agrees
<1>4. cache \in [Providers -> VSphere!Images] /\ pc \in [Providers -> ImageStages]
            /\ pass \in [Providers -> ImagePasses]
  BY <1>1, PassEdits, SeenImage DEF VSphere!Init, ImageStages
<1>5. \A p \in Providers : cache[p] = VSphere!Seen(obj) /\ pc[p] = "idle"
  BY DEF VSphere!Init
<1>6. Agrees(VSphere!Seen(obj), obj, Owing)
  BY <1>1, SeenImage DEF Agrees
<1> QED BY <1>2, <1>3, <1>4, <1>5, <1>6 DEF TemplateInv, Stage, Finalizing

\* What the invariant says of one workload.
LEMMA ImageHere ==
    ASSUME TemplateInv, NEW p \in Providers
    PROVE  /\ pass[p] \in ImagePasses /\ pass[p].img \in VSphere!Images /\ obj \in VSphere!Images
                /\ cache[p] \in VSphere!Images
           /\ pass = [pass EXCEPT ![p] = pass[p]] /\ provider \in SUBSET Providers
           /\ Recorded(ghost)
           /\ Stage(p) /\ Agrees(cache[p], obj, Owing)
BY DEF TemplateInv, Owed, Agrees, ImagePasses

\* A pass begins.
LEMMA Begins == ASSUME TemplateInv, NEW p \in Providers, VSphere!reconcile(p) PROVE TemplateInv'
<1> DEFINE copy == VSphere!Store(p)
           stage == CASE copy.life = "deleting" -> "destroy"
                      [] copy.life = "live" /\ ~copy.fin -> "finalizer"
                      [] OTHER -> "jobs"
           known == [VSphere!NoPass EXCEPT !.img = copy]
<1>1. Calm
  BY ImageHere, CalmEdit DEF VSphere!reconcile, VSphere!KeepImports, VSphere!KeepWorld
<1>2. copy \in VSphere!Images /\ Agrees(copy, obj, Owing)
  BY ImageHere, SeenAgrees DEF VSphere!Store, Agrees
<1>3. known \in ImagePasses /\ known.img = copy
  BY <1>2, PassEdits
<1>4. /\ stage \in {"destroy", "finalizer", "jobs"} /\ (stage = "destroy" => copy.life = "deleting")
      /\ stage \in ImageStages
  BY DEF ImageStages
<1>5. Moved(p, stage, known) /\ UNCHANGED cache
  BY <1>3, <1>4 DEF VSphere!reconcile, VSphere!Goto, VSphere!Knows, Moved, VSphere!KeepWorld
<1> HIDE DEF stage, known, copy
<1>6. /\ stage \in Finalizing => copy.life = "deleting"
      /\ stage \notin {"cleared", "others"} /\ stage # "finRemove"
  BY <1>4 DEF Finalizing
<1> QED BY <1>1, <1>2, <1>3, <1>5, <1>6, PassMoves

\* The pass of a live image: everything up to the row and the request.
LEMMA Serves ==
    ASSUME TemplateInv, NEW p \in Providers,
           \/ VSphere!ensure_finalizer(p) \/ VSphere!NotServed(p)
                \/ VSphere!compute_template_status(p)
           \/ VSphere!ArtifactPending(p) \/ VSphere!ensure_import_jobs(p)
                \/ VSphere!create_import_job(p)
           \/ VSphere!settle_force_reimport(p) \/ VSphere!clear_force_reimport_patch(p)
                \/ VSphere!Crash(p)
    PROVE  TemplateInv'
<1>1. UNCHANGED <<backend, pods, provider, cache>>
  BY DEF VSphere!ensure_finalizer, VSphere!NotServed, VSphere!compute_template_status,
         VSphere!ArtifactPending, VSphere!ensure_import_jobs,
         VSphere!ForceReimport, VSphere!AdoptJob, VSphere!DeleteJob, VSphere!create_import_job,
               VSphere!settle_force_reimport,
         VSphere!clear_force_reimport_patch, VSphere!Crash, VSphere!KeepImports, VSphere!KeepWorld
<1>2. Recorded(ghost')
      /\ ghost'.owed = ghost.owed
  <2>1. \/ UNCHANGED ghost \/ \E a : ghost' = [ghost EXCEPT !.acted = a]
        \/ \E a : ghost' = [ghost EXCEPT !.over = a]
    BY DEF VSphere!ensure_finalizer, VSphere!NotServed, VSphere!compute_template_status,
           VSphere!ArtifactPending, VSphere!ensure_import_jobs,
           VSphere!ForceReimport, VSphere!AdoptJob, VSphere!create_import_job,
                 VSphere!settle_force_reimport,
           VSphere!clear_force_reimport_patch, VSphere!Crash, VSphere!Acts, VSphere!PassesOver
  <2> QED BY <2>1, ImageHere DEF Recorded
<1>3. /\ obj' \in VSphere!Images /\ obj'.source = obj.source /\ obj'.retain = obj.retain
      /\ obj'.force = obj.force /\ obj'.life = obj.life /\ obj'.rows = obj.rows
  <2>1. \/ UNCHANGED obj \/ obj' = [obj EXCEPT !.fin = TRUE]
        \/ \E h \in SUBSET Providers : obj' = [obj EXCEPT !.handled = h]
        \/ \E h \in SUBSET Providers : obj' = [obj EXCEPT !.request = FALSE, !.handled = h]
    <3>1. obj.handled \cup {p} \subseteq Providers /\ \A m : obj.handled \ m \subseteq Providers
      BY ImageHere DEF VSphere!Images
    <3>2. CASE VSphere!settle_force_reimport(p)
      BY <3>1, <3>2 DEF VSphere!settle_force_reimport, VSphere!mark_force_reimport_handled_patch
    <3>3. CASE VSphere!clear_force_reimport_patch(p)
      BY <3>1, <3>3 DEF VSphere!clear_force_reimport_patch
    <3>4. CASE VSphere!ensure_finalizer(p)
      BY <3>4 DEF VSphere!ensure_finalizer
    <3>5. CASE ~VSphere!settle_force_reimport(p) /\ ~VSphere!clear_force_reimport_patch(p)
                     /\ ~VSphere!ensure_finalizer(p)
      BY <3>5 DEF VSphere!NotServed, VSphere!compute_template_status, VSphere!ArtifactPending,
                  VSphere!ensure_import_jobs, VSphere!create_import_job, VSphere!Crash
    <3> QED BY <3>2, <3>3, <3>4, <3>5
  <2> QED BY <2>1, ImageHere DEF VSphere!Images
<1>4. Calm
  BY <1>1, <1>2, <1>3, CalmEdit
<1>5. pc[p] # "idle"
  BY DEF VSphere!ensure_finalizer, VSphere!NotServed, VSphere!compute_template_status,
         VSphere!ArtifactPending, VSphere!ensure_import_jobs,
         VSphere!list_vsphere_providers, VSphere!create_import_job, VSphere!settle_force_reimport,
         VSphere!clear_force_reimport_patch, VSphere!Crash, VSphere!At
<1>6. ASSUME VSphere!End(p) PROVE TemplateInv'
  <2>1. Moved(p, "idle", VSphere!NoPass)
    BY <1>6, PassEdits DEF VSphere!End, VSphere!Goto, VSphere!Knows, Moved, ImageStages
  <2> QED BY <1>1, <1>4, <2>1, PassGoesOn
<1>7. ASSUME NEW row \in VSphere!Rows, VSphere!HasRow(p, row) PROVE TemplateInv'
  <2> DEFINE known == [pass[p] EXCEPT !.row = row, !.all = provider]
  <2>1. known \in ImagePasses /\ known.img = pass[p].img
    <3>1. pass[p] \in ImagePasses /\ provider \in SUBSET Providers
      BY ImageHere
    <3> QED BY <3>1 DEF ImagePasses
  <2>2. Moved(p, "status", known)
    BY <1>7, <2>1 DEF VSphere!HasRow, VSphere!Goto, VSphere!Knows, Moved, ImageStages
  <2> HIDE DEF known
  <2> QED BY <1>1, <1>4, <1>5, <2>1, <2>2, PassGoesOn DEF Finalizing
<1>8. ASSUME NEW stage \in {"jobs", "create"}, VSphere!Goto(p, stage), UNCHANGED pass
      PROVE TemplateInv'
  <2>1. Moved(p, stage, pass[p])
    BY <1>8, ImageHere DEF VSphere!Goto, Moved, ImageStages
  <2> QED BY <1>1, <1>4, <1>5, <2>1, PassGoesOn DEF Finalizing
<1>9. "listed" \in VSphere!Rows /\ "empty" \in VSphere!Rows /\ "ready" \in VSphere!Rows
  BY DEF VSphere!Rows
<1>10. CASE VSphere!ensure_finalizer(p)
  BY <1>6, <1>8, <1>10 DEF VSphere!ensure_finalizer, VSphere!FailPass
<1>11. CASE VSphere!NotServed(p) \/ VSphere!clear_force_reimport_patch(p) \/ VSphere!Crash(p)
  BY <1>6, <1>11 DEF VSphere!NotServed, VSphere!clear_force_reimport_patch, VSphere!Crash,
                     VSphere!FailPass
<1>12. CASE VSphere!compute_template_status(p) \/ VSphere!ArtifactPending(p)
                  \/ VSphere!create_import_job(p)
  BY <1>7, <1>9, <1>12 DEF VSphere!compute_template_status, VSphere!ArtifactPending,
                           VSphere!create_import_job
<1>13. CASE VSphere!ensure_import_jobs(p)
  BY <1>7, <1>8, <1>9, <1>13 DEF VSphere!ensure_import_jobs, VSphere!ForceReimport,
                                 VSphere!AdoptJob, VSphere!zone_from_job
<1>14. CASE VSphere!settle_force_reimport(p)
  <2> DEFINE marked == IF VSphere!force_reimport_pending_for(pass[p].img,
                                                             p) THEN obj.handled \cup {p}
                       ELSE pass[p].img.handled
  <2>1. marked \in SUBSET Providers
    BY ImageHere DEF VSphere!Images
  <2>2. VSphere!End(p) \/ (VSphere!Goto(p, "clear")
              /\ VSphere!Knows(p, [pass[p] EXCEPT !.marked = marked]))
    BY <1>14 DEF VSphere!settle_force_reimport, VSphere!mark_force_reimport_handled_patch,
                 VSphere!FailPass, VSphere!img
  <2> HIDE DEF marked
  <2>3. CASE VSphere!Goto(p, "clear") /\ VSphere!Knows(p, [pass[p] EXCEPT !.marked = marked])
    <3> DEFINE known == [pass[p] EXCEPT !.marked = marked]
    <3>1. known \in ImagePasses /\ known.img = pass[p].img
      BY <2>1, ImageHere, PassEdits
    <3>2. Moved(p, "clear", known)
      BY <2>3, <3>1 DEF VSphere!Goto, VSphere!Knows, Moved, ImageStages
    <3> HIDE DEF known
    <3> QED BY <1>1, <1>4, <1>5, <3>1, <3>2, PassGoesOn DEF Finalizing
  <2> QED BY <1>6, <2>2, <2>3
<1> QED BY <1>10, <1>11, <1>12, <1>13, <1>14

\* A row: of a live image, or of a deleted one, whose template is no longer owed.
LEMMA WritesRow == ASSUME TemplateInv, NEW p \in Providers, VSphere!patch_vmimage_status(p)
                   PROVE TemplateInv'
<1>1. UNCHANGED <<backend, pods, provider, cache>> /\ pc[p] = "status"
  BY DEF VSphere!patch_vmimage_status, VSphere!KeepImports, VSphere!KeepWorld, VSphere!At
<1>2. Calm
  <2>1. CASE UNCHANGED <<obj, ghost>>
    BY <1>1, <2>1, ImageHere, CalmEdit
  <2>2. CASE /\ obj' = [obj EXCEPT !.rows[p] = pass[p].row]
             /\ ghost' = IF obj.life = "deleting" THEN [ghost EXCEPT !.owed = @ \ {p}] ELSE ghost
             /\ obj.life # "absent"
    <3>1. /\ obj' \in VSphere!Images /\ obj'.source = obj.source /\ obj'.retain = obj.retain
          /\ obj'.force = obj.force /\ obj'.life = obj.life
          /\ \A q \in Providers \ {p} : obj'.rows[q] = obj.rows[q]
      <4>1. obj \in VSphere!Images /\ pass[p].row \in VSphere!Rows
        BY ImageHere DEF ImagePasses
      <4> QED BY <2>2, <4>1 DEF VSphere!Images
    <3>2. /\ Recorded(ghost')
          /\ ghost'.owed \subseteq ghost.owed /\ (obj.life = "live" \/ p \notin ghost'.owed)
      BY <2>2, ImageHere DEF VSphere!Images, Recorded
    <3>3. ghost.owed \subseteq Providers
      BY DEF TemplateInv, Owed
    <3> QED BY <1>1, <2>2, <3>1, <3>2, <3>3 DEF TemplateInv, Owed, Calm, Owing
  <2> QED BY <2>1, <2>2 DEF VSphere!patch_vmimage_status
<1>3. CASE VSphere!End(p)
  <2>1. Moved(p, "idle", VSphere!NoPass)
    BY <1>3, PassEdits DEF VSphere!End, VSphere!Goto, VSphere!Knows, Moved, ImageStages
  <2> QED BY <1>1, <1>2, <2>1, PassGoesOn
<1>4. CASE VSphere!Goto(p, "mark") /\ VSphere!Knows(p, [pass[p] EXCEPT !.row = "none"])
  <2> DEFINE known == [pass[p] EXCEPT !.row = "none"]
  <2>1. known \in ImagePasses /\ known.img = pass[p].img
    BY ImageHere DEF ImagePasses, VSphere!Rows
  <2>2. Moved(p, "mark", known)
    BY <1>4, <2>1 DEF VSphere!Goto, VSphere!Knows, Moved, ImageStages
  <2> HIDE DEF known
  <2> QED BY <1>1, <1>2, <2>1, <2>2, PassGoesOn DEF Finalizing
<1> QED BY <1>3, <1>4 DEF VSphere!patch_vmimage_status, VSphere!FailPass

\* The workload destroys its template: the copy it works from names it.
LEMMA Destroys ==
    ASSUME TemplateInv, NEW p \in Providers, VSphere!finalize(p)
    PROVE  /\ TemplateInv'
           /\ \/ UNCHANGED backend
              \/ ~obj.retain /\ obj.source = "url"
<1>1. UNCHANGED <<obj, pods, ghost, provider, cache>> /\ pc[p] = "destroy"
  BY DEF VSphere!finalize, VSphere!KeepWorld, VSphere!At
<1>2. Stage(p) /\ Agrees(pass[p].img, obj, Owing) /\ pass[p].img.life = "deleting"
  BY <1>1, ImageHere DEF Stage, Finalizing
<1>3. CASE UNCHANGED backend /\ VSphere!End(p)
  <2>1. Moved(p, "idle", VSphere!NoPass)
    BY <1>3, PassEdits DEF VSphere!End, VSphere!Goto, VSphere!Knows, Moved, ImageStages
  <2>2. Calm
    BY <1>1, <1>3, ImageHere, CalmEdit
  <2> QED BY <1>1, <1>3, <2>1, <2>2, PassGoesOn
<1>4. CASE /\ pass[p].img.retain \/ ~VSphere!image_owns_templates(pass[p].img)
           /\ VSphere!Goto(p, "finRemove") /\ UNCHANGED <<backend, pass>>
  <2>1. Moved(p, "finRemove", pass[p])
    BY <1>4, ImageHere DEF VSphere!Goto, Moved, ImageStages
  <2>2. Calm
    BY <1>1, <1>4, ImageHere, CalmEdit
  <2>3. Owing' = {}
    <3>1. obj.retain \/ obj.source # "url"
      BY <1>2, <1>4 DEF Agrees, VSphere!image_owns_templates
    <3> QED BY <1>1, <1>4, <3>1 DEF TemplateInv, Owed, Owing
  <2>4. TemplateInv'
    BY <1>1, <1>2, <2>1, <2>2, <2>3, PassMoves
  <2> QED BY <1>4, <2>4
<1>5. CASE /\ ~pass[p].img.retain /\ VSphere!image_owns_templates(pass[p].img)
           /\ VSphere!destroy_zone_templates(p) /\ UNCHANGED pass
           /\ VSphere!Goto(p, IF pass[p].img.rows[p] = "none" THEN "others" ELSE "cleared")
  <2> DEFINE stage == IF pass[p].img.rows[p] = "none" THEN "others" ELSE "cleared"
  <2>1. ~obj.retain /\ obj.source = "url"
    BY <1>2, <1>5 DEF Agrees, VSphere!image_owns_templates
  <2>2. UNCHANGED backend \/ (backend[p] = "template" /\ backend' = [backend EXCEPT ![p] = "none"])
    BY <1>5 DEF VSphere!destroy_zone_templates
  <2>3. Calm
    <3>1. /\ backend' \in [Providers -> {"none", "half", "template"}]
          /\ \A q \in Providers : backend'[q] = backend[q] \/ (backend[q] = "template"
               /\ backend'[q] = "none")
      BY <2>2 DEF TemplateInv, Owed
    <3>2. ghost.owed \subseteq Providers
      BY DEF TemplateInv, Owed
    <3> QED BY <1>1, <3>1, <3>2, ImageHere DEF TemplateInv, Owed, Calm, Owing
  <2>4. p \notin Owing'
    <3>1. CASE p \in Owing
      <4>1. pass[p].img.rows[p] = "ready" /\ p \in provider /\ backend[p] = "template"
        BY <1>2, <3>1 DEF Agrees, TemplateInv, Owed, Owing
      <4>2. backend' = [backend EXCEPT ![p] = "none"]
        BY <1>5, <4>1 DEF VSphere!destroy_zone_templates, VSphere!img
      <4> QED BY <4>2 DEF TemplateInv, Owed, Owing
    <3>2. CASE p \notin Owing
      BY <2>3, <3>2, CalmKeeps
    <3> QED BY <3>1, <3>2
  <2>5. Moved(p, stage, pass[p])
    BY <1>5, ImageHere DEF VSphere!Goto, Moved, ImageStages
  <2>6. stage # "finRemove"
    OBVIOUS
  <2> HIDE DEF stage
  <2>7. TemplateInv'
    BY <1>1, <1>2, <2>3, <2>4, <2>5, <2>6, PassMoves
  <2> QED BY <2>1, <2>7
<1> QED BY <1>3, <1>4, <1>5 DEF VSphere!finalize, VSphere!FailPass, VSphere!img

\* Its row is emptied once its template is gone.
LEMMA Clears == ASSUME TemplateInv, NEW p \in Providers, VSphere!with_zones_cleared(p)
                PROVE TemplateInv'
<1>1. UNCHANGED <<backend, pods, ghost, provider, cache>> /\ pc[p] = "cleared" /\ UNCHANGED Owing
  BY DEF VSphere!with_zones_cleared, VSphere!KeepImports, VSphere!KeepWorld, VSphere!At, Owing
<1>2. /\ Agrees(pass[p].img, obj, Owing) /\ pass[p].img.life = "deleting" /\ p \notin Owing
  BY <1>1, ImageHere DEF Stage, Finalizing
<1>3. Calm
  <2>1. CASE UNCHANGED obj
    BY <1>1, <2>1, ImageHere, CalmEdit
  <2>2. CASE obj.life # "absent" /\ obj' = [obj EXCEPT !.rows[p] = "empty"]
    <3>1. /\ obj' \in VSphere!Images /\ obj'.source = obj.source /\ obj'.retain = obj.retain
          /\ obj'.force = obj.force /\ obj'.life = obj.life
          /\ \A q \in Providers \ {p} : obj'.rows[q] = obj.rows[q]
      BY <2>2, ImageHere DEF VSphere!Images, VSphere!Rows
    <3>2. Owing' \subseteq Providers \ {p}
      BY <1>1, <1>2 DEF TemplateInv, Owed, Owing
    <3> QED BY <1>1, <2>2, <3>1, <3>2, ImageHere DEF TemplateInv, Owed, Calm
  <2> QED BY <2>1, <2>2 DEF VSphere!with_zones_cleared
<1>4. CASE VSphere!End(p)
  <2>1. Moved(p, "idle", VSphere!NoPass)
    BY <1>4, PassEdits DEF VSphere!End, VSphere!Goto, VSphere!Knows, Moved, ImageStages
  <2> QED BY <1>1, <1>3, <2>1, PassGoesOn
<1>5. CASE VSphere!Goto(p, "others") /\ UNCHANGED pass
  <2>1. Moved(p, "others", pass[p])
    BY <1>5, ImageHere DEF VSphere!Goto, Moved, ImageStages
  <2> QED BY <1>1, <1>2, <1>3, <2>1, PassMoves
<1> QED BY <1>4, <1>5 DEF VSphere!with_zones_cleared, VSphere!FailPass

\* The finalizer may go when no other Provider's zones are listed: then nothing is owed.
LEMMA Waits == ASSUME TemplateInv, NEW p \in Providers, VSphere!OthersDone(p) PROVE TemplateInv'
<1>1. UNCHANGED <<obj, backend, pods, ghost, provider, cache>> /\ pc[p] = "others"
                                                                    /\ UNCHANGED Owing
  BY DEF VSphere!OthersDone, VSphere!KeepImports, VSphere!KeepWorld, VSphere!At, Owing
<1>2. Agrees(pass[p].img, obj, Owing) /\ pass[p].img.life = "deleting" /\ p \notin Owing
  BY <1>1, ImageHere DEF Stage, Finalizing
<1>3. Calm
  BY <1>1, ImageHere, CalmEdit
<1>4. CASE VSphere!End(p)
  <2>1. Moved(p, "idle", VSphere!NoPass)
    BY <1>4, PassEdits DEF VSphere!End, VSphere!Goto, VSphere!Knows, Moved, ImageStages
  <2> QED BY <1>1, <1>3, <2>1, PassGoesOn
<1>5. CASE VSphere!finalizer_can_go(pass[p].img.rows, p) /\ VSphere!Goto(p, "finRemove")
                 /\ UNCHANGED pass
  <2>1. Moved(p, "finRemove", pass[p])
    BY <1>5, ImageHere DEF VSphere!Goto, Moved, ImageStages
  <2>2. ASSUME NEW q \in Owing PROVE FALSE
    <3>1. q \in provider /\ q \in Providers \ {p} /\ pass[p].img.rows[q] = "ready"
      BY <1>2, <2>2 DEF TemplateInv, Owed, Owing, Agrees
    <3> QED BY <1>5, <3>1 DEF VSphere!finalizer_can_go, VSphere!HasZones
  <2>3. Owing' = {}
    BY <1>1, <2>2
  <2> QED BY <1>1, <1>2, <1>3, <2>1, <2>3, PassMoves
<1> QED BY <1>4, <1>5 DEF VSphere!OthersDone, VSphere!FailPass, VSphere!img

\* The image goes.
LEMMA Goes == ASSUME TemplateInv, NEW p \in Providers, VSphere!remove_finalizer(p)
              PROVE TemplateInv'
<1>1. UNCHANGED <<backend, pods, ghost, provider, cache>> /\ pc[p] = "finRemove" /\ VSphere!End(p)
                                                               /\ UNCHANGED Owing
  BY DEF VSphere!remove_finalizer, VSphere!KeepImports, VSphere!KeepWorld, VSphere!At,
         VSphere!FailPass, Owing
<1>2. Owing = {}
  BY <1>1, ImageHere DEF Stage
<1>3. Agrees(pass[p].img, obj, Owing) /\ pass[p].img.life = "deleting"
  BY <1>1, ImageHere DEF Stage, Finalizing
<1>4. obj.life # "live"
  BY <1>3 DEF Agrees
<1>5. Calm
  <2>1. CASE UNCHANGED obj
    BY <1>1, <2>1, ImageHere, CalmEdit
  <2>2. CASE obj' = [obj EXCEPT !.life = "absent", !.fin = FALSE]
    <3>1. /\ obj' \in VSphere!Images /\ obj'.source = obj.source /\ obj'.retain = obj.retain
          /\ obj'.force = obj.force /\ obj'.life = "absent" /\ obj'.rows = obj.rows
      BY <2>2, ImageHere DEF VSphere!Images
    <3> QED BY <1>1, <1>2, <3>1, ImageHere DEF TemplateInv, Owed, Calm
  <2> QED BY <2>1, <2>2 DEF VSphere!remove_finalizer
<1>6. Moved(p, "idle", VSphere!NoPass)
  BY <1>1, PassEdits DEF VSphere!End, VSphere!Goto, VSphere!Knows, Moved, ImageStages
<1> QED BY <1>1, <1>5, <1>6, PassGoesOn

\* The importer: what it replaces is no longer owed, and what it makes never was.
LEMMA Imports ==
    ASSUME TemplateInv, NEW p \in Providers, VSphere!Import(p)
    PROVE  /\ TemplateInv'
           /\ \A q \in Providers : backend[q] = "template" /\ ~obj.force => backend'[q] = "template"
<1>1. UNCHANGED <<obj, pc, pass, provider, cache>>
  BY DEF VSphere!Import, VSphere!import_start, VSphere!import_iso_template, VSphere!PodKilled,
         VSphere!JobGone, VSphere!RetryDue, VSphere!KeepPasses, VSphere!KeepWorld
<1>2. CASE /\ ghost' = [ghost EXCEPT !.owed = @ \ {p}] /\ backend' = [backend EXCEPT ![p] = "half"]
           /\ pods' = [pods EXCEPT ![p] = "install"] /\ (backend[p] = "none" \/ obj.force)
  <2>1. /\ Recorded(ghost')
        /\ ghost'.owed = ghost.owed \ {p}
    BY <1>2, ImageHere DEF Recorded
  <2>2. /\ backend' \in [Providers -> {"none", "half", "template"}] /\ backend'[p] = "half"
        /\ \A q \in Providers \ {p} : backend'[q] = backend[q] /\ pods'[q] = pods[q]
        /\ pods' \in [Providers -> {"none", "install"}]
    BY <1>2 DEF TemplateInv, Owed
  <2>3. ghost.owed \subseteq Providers
    BY DEF TemplateInv, Owed
  <2>4. Calm
    BY <1>1, <2>1, <2>2, <2>3, ImageHere DEF TemplateInv, Owed, Calm
  <2>5. TemplateInv'
    BY <1>1, <2>4, PassesKeep DEF TemplateInv
  <2> QED BY <1>2, <2>2, <2>5
<1>3. CASE /\ pods[p] = "install" /\ backend' = [backend EXCEPT ![p] = "template"]
           /\ pods' = [pods EXCEPT ![p] = "none"] /\ UNCHANGED ghost
  <2>1. p \notin ghost.owed
    BY <1>3 DEF TemplateInv, Owed
  <2>2. /\ backend' \in [Providers -> {"none", "half", "template"}] /\ backend'[p] = "template"
        /\ \A q \in Providers \ {p} : backend'[q] = backend[q] /\ pods'[q] = pods[q]
        /\ pods' \in [Providers -> {"none", "install"}] /\ pods'[p] = "none"
    BY <1>3 DEF TemplateInv, Owed
  <2>3. ghost.owed \subseteq Providers
    BY DEF TemplateInv, Owed
  <2>4. Calm
    BY <1>1, <1>3, <2>1, <2>2, <2>3, ImageHere DEF TemplateInv, Owed, Calm
  <2>5. TemplateInv'
    BY <1>1, <2>4, PassesKeep DEF TemplateInv
  <2> QED BY <2>2, <2>5
<1>4. CASE UNCHANGED <<backend, ghost>> /\ (UNCHANGED pods \/ pods' = [pods EXCEPT ![p] = "none"])
  <2>1. /\ pods' \in [Providers -> {"none", "install"}]
        /\ \A q \in Providers : pods'[q] = "install" => pods[q] = "install"
    BY <1>4 DEF TemplateInv, Owed
  <2>2. Calm
    BY <1>1, <1>4, <2>1, ImageHere DEF TemplateInv, Owed, Calm
  <2>3. TemplateInv'
    BY <1>1, <2>2, PassesKeep DEF TemplateInv
  <2> QED BY <1>4, <2>3
<1>5. CASE VSphere!import_start(p)
  BY <1>2, <1>4, <1>5 DEF VSphere!import_start, VSphere!Fails, VSphere!Succeeds, VSphere!Stop
<1>6. CASE VSphere!import_iso_template(p)
  BY <1>3, <1>4, <1>6 DEF VSphere!import_iso_template, VSphere!Fails, VSphere!Succeeds, VSphere!Stop
<1>7. CASE VSphere!PodKilled(p) \/ VSphere!JobGone(p) \/ VSphere!RetryDue(p)
  BY <1>4, <1>7 DEF VSphere!PodKilled, VSphere!JobGone, VSphere!RetryDue, VSphere!Stop
<1> QED BY <1>5, <1>6, <1>7 DEF VSphere!Import

\* The deletion: every copy is still of a live image, so all of them will be read again.
LEMMA Deletes == ASSUME TemplateInv, VSphere!Delete PROVE TemplateInv'
<1>1. /\ UNCHANGED <<backend, provider, cache, pc, pass, pods>> /\ obj.life = "live"
      /\ obj' = [obj EXCEPT !.life = IF obj.fin THEN "deleting" ELSE "absent"]
  BY DEF VSphere!Delete, VSphere!OnlyWorld
<1>2. ghost.owed = {} /\ Owing = {}
  BY <1>1 DEF TemplateInv, Owed, Owing
<1>3. /\ obj' \in VSphere!Images /\ obj'.source = obj.source /\ obj'.retain = obj.retain
      /\ obj'.force = obj.force /\ obj'.rows = obj.rows /\ obj'.life # "live"
      /\ obj'.life = "absent" => ~obj.fin
  BY <1>1, ImageHere DEF VSphere!Images, TemplateInv, Agrees
<1>4. /\ Recorded(ghost')
      /\ ghost'.owed # {} => obj.fin /\ ~obj.retain /\ obj.source = "url"
      /\ \A p \in ghost'.owed : p \in provider /\ obj.rows[p] = "ready" /\ backend[p] = "template"
  <2>1. CASE UNCHANGED ghost
    BY <1>2, <2>1 DEF TemplateInv, Owed
  <2>2. CASE /\ obj.fin /\ ~obj.retain /\ obj.source = "url"
             /\ ghost' = [ghost EXCEPT !.owed = {p \in provider : obj.rows[p] = "ready"
                  /\ backend[p] = "template"}]
    <3>1. ghost'.owed = {p \in provider : obj.rows[p] = "ready" /\ backend[p] = "template"}
          /\ Recorded(ghost')
      BY <2>2 DEF TemplateInv, Owed, Recorded
    <3> QED BY <2>2, <3>1
  <2> QED BY <2>1, <2>2 DEF VSphere!Delete
<1>5. Owed'
  <2>1. obj'.life = "absent" => Owing' = {}
    BY <1>3, <1>4 DEF Owing
  <2>2. \A p \in ghost'.owed : /\ p \in provider /\ backend[p] # "half"
                               /\ obj'.source = "url" /\ ~obj'.retain
    BY <1>3, <1>4
  <2> QED BY <1>1, <1>3, <1>4, <2>1, <2>2 DEF TemplateInv, Owed
<1>6. Agrees(obj', obj', Owing')
  BY <1>3, <1>4 DEF Agrees, Owing
<1>7. ASSUME NEW x, Agrees(x, obj, Owing) PROVE Agrees(x, obj', Owing') /\ x.life = "live"
  BY <1>1, <1>3, <1>7 DEF Agrees
<1>8. ASSUME NEW p \in Providers PROVE Agrees(cache'[p], obj', Owing') /\ Stage(p)'
  <2>1. Agrees(cache[p], obj, Owing) /\ Stage(p)
    BY DEF TemplateInv
  <2>2. pc[p] # "idle" => Agrees(pass[p].img, obj', Owing') /\ pass[p].img.life = "live"
    BY <1>7, <2>1 DEF Stage
  <2>3. pc[p] \notin Finalizing
    BY <2>1, <2>2 DEF Stage, Finalizing
  <2> QED BY <1>1, <1>7, <2>1, <2>2, <2>3 DEF Stage, Finalizing
<1> QED BY <1>1, <1>5, <1>6, <1>8 DEF TemplateInv

\* Users, administrators and the store.
LEMMA OtherSteps ==
    ASSUME TemplateInv,
           \/ VSphere!Request \/ VSphere!Rebuild \/ VSphere!Built \/ UNCHANGED VSphere!vars
           \/ \E p \in Providers : VSphere!JobExpires(p) \/ VSphere!ProviderDeleted(p)
                \/ VSphere!Sync(p)
    PROVE  TemplateInv' /\ UNCHANGED backend
<1>1. UNCHANGED <<backend, pods, pc, pass>>
  BY DEF VSphere!Request, VSphere!Rebuild, VSphere!Built, VSphere!vars, VSphere!JobExpires,
         VSphere!ProviderDeleted, VSphere!Sync, VSphere!OnlyWorld, VSphere!KeepImports
<1>2. obj \in VSphere!Images /\ cache \in [Providers -> VSphere!Images]
            /\ ghost.owed \subseteq Providers
      /\ Recorded(ghost)
  BY DEF TemplateInv, Agrees, Owed
<1>3. CASE UNCHANGED <<provider, cache>> /\ (VSphere!Request \/ VSphere!Rebuild \/ VSphere!Built)
  <2>1. /\ obj' \in VSphere!Images /\ obj'.source = obj.source /\ obj'.retain = obj.retain
        /\ obj'.force = obj.force /\ obj'.rows = obj.rows /\ obj'.life = obj.life
    BY <1>2, <1>3 DEF VSphere!Images, VSphere!Request, VSphere!Rebuild, VSphere!Built
  <2>2. /\ Recorded(ghost')
        /\ ghost'.owed = ghost.owed
    <3>1. UNCHANGED ghost \/ \E f : ghost' = [ghost EXCEPT !.acted = {}, !.over = {}, !.requests = @ + 1,
                                                          !.fresh = f]
      BY <1>3 DEF VSphere!Request, VSphere!Rebuild, VSphere!Built
    <3> QED BY <1>2, <3>1 DEF Recorded
  <2>3. Calm
    BY <1>1, <1>3, <2>1, <2>2, CalmEdit
  <2> QED BY <1>1, <1>2, <1>3, <2>3, PassesKeep
<1>4. ASSUME NEW p \in Providers, VSphere!ProviderDeleted(p) PROVE TemplateInv'
  <2>1. /\ Recorded(ghost')
        /\ ghost'.owed = ghost.owed \ {p} /\ provider' = provider \ {p} /\ UNCHANGED <<obj, cache>>
    BY <1>2, <1>4 DEF VSphere!ProviderDeleted, VSphere!OnlyWorld, Recorded
  <2>2. Calm
    BY <1>1, <1>2, <2>1 DEF TemplateInv, Owed, Calm
  <2> QED BY <1>1, <1>2, <2>1, <2>2, PassesKeep
<1>5. ASSUME UNCHANGED <<obj, ghost, provider>>, cache' \in [Providers -> VSphere!Images],
             \A q \in Providers : cache'[q] = cache[q] \/ cache'[q] = VSphere!Seen(obj)
      PROVE  TemplateInv'
  <2>1. Calm
    BY <1>1, <1>2, <1>5, CalmEdit
  <2> QED BY <1>1, <1>5, <2>1, PassesKeep
<1>6. CASE \E p \in Providers : VSphere!JobExpires(p) \/ VSphere!Sync(p)
  <2>1. PICK p \in Providers : VSphere!JobExpires(p) \/ VSphere!Sync(p)
    BY <1>6
  <2>2. CASE VSphere!JobExpires(p)
    BY <1>2, <1>5, <2>2 DEF VSphere!JobExpires, VSphere!OnlyWorld
  <2>3. CASE VSphere!Sync(p)
    <3>1. UNCHANGED <<obj, ghost, provider>> /\ cache' = [cache EXCEPT ![p] = VSphere!Seen(obj)]
      BY <2>3 DEF VSphere!Sync
    <3>2. cache' \in [Providers -> VSphere!Images]
                /\ \A q \in Providers : cache'[q] = cache[q] \/ cache'[q] = VSphere!Seen(obj)
      BY <1>2, <3>1, SeenImage
    <3> QED BY <1>1, <1>5, <3>1, <3>2
  <2> QED BY <2>1, <2>2, <2>3
<1>7. CASE UNCHANGED VSphere!vars
  BY <1>2, <1>5, <1>7 DEF VSphere!vars
<1> QED BY <1>1, <1>3, <1>4, <1>6, <1>7 DEF VSphere!Request, VSphere!Rebuild, VSphere!Built,
                                            VSphere!OnlyWorld

\* Every step preserves the invariant and keeps adopted templates.
LEMMA TemplateStep == ASSUME TemplateInv, [VSphere!Next]_(VSphere!vars)
                      PROVE TemplateInv' /\ VSphere!AdoptedKept
<1>1. ASSUME UNCHANGED backend PROVE VSphere!AdoptedKept
  BY <1>1 DEF VSphere!AdoptedKept
<1>2. ASSUME NEW p \in Providers, VSphere!finalize(p) PROVE TemplateInv' /\ VSphere!AdoptedKept
  <2>1. TemplateInv' /\ (UNCHANGED backend \/ (~obj.retain /\ obj.source = "url"))
    BY <1>2, Destroys
  <2> QED BY <1>1, <2>1 DEF VSphere!AdoptedKept
<1>3. ASSUME NEW p \in Providers, VSphere!Import(p) PROVE TemplateInv' /\ VSphere!AdoptedKept
  <2>1. TemplateInv' /\ \A q \in Providers : backend[q] = "template" /\ ~obj.force =>
              backend'[q] = "template"
    BY <1>3, Imports
  <2>2. obj.source = "template" => ~obj.force
    BY DEF TemplateInv, Owed
  <2> QED BY <2>1, <2>2 DEF VSphere!AdoptedKept
<1>4. ASSUME NEW p \in Providers, VSphere!Pass(p) \/ VSphere!Crash(p), ~VSphere!finalize(p)
      PROVE TemplateInv' /\ VSphere!AdoptedKept
  <2>1. TemplateInv'
    BY <1>4, Begins, Serves, WritesRow, Clears, Waits, Goes DEF VSphere!Pass
  <2>2. UNCHANGED backend
    BY <1>4 DEF VSphere!Pass, VSphere!Crash, VSphere!reconcile, VSphere!ensure_finalizer,
                VSphere!NotServed, VSphere!compute_template_status,
                VSphere!ArtifactPending, VSphere!ensure_import_jobs, VSphere!ForceReimport,
                      VSphere!AdoptJob, VSphere!DeleteJob,
                VSphere!create_import_job, VSphere!patch_vmimage_status,
                      VSphere!settle_force_reimport,
                VSphere!clear_force_reimport_patch, VSphere!with_zones_cleared, VSphere!OthersDone,
                      VSphere!remove_finalizer,
                VSphere!KeepImports
  <2> QED BY <1>1, <2>1, <2>2
<1>5. CASE VSphere!Delete
  BY <1>1, <1>5, Deletes DEF VSphere!Delete
<1>6. CASE \/ VSphere!Request \/ VSphere!Rebuild \/ VSphere!Built \/ UNCHANGED VSphere!vars
           \/ \E p \in Providers : VSphere!JobExpires(p) \/ VSphere!ProviderDeleted(p)
                \/ VSphere!Sync(p)
  BY <1>1, <1>6, OtherSteps
<1> QED BY <1>2, <1>3, <1>4, <1>5, <1>6 DEF VSphere!Next, VSphere!World

\* One finalizer for all the workloads: the image goes only after the templates it owes,
\* and what was adopted or is retained stays, for every number of Providers, faults,
\* changes and requests.
THEOREM TemplatesGoFirst ==
    ASSUME Sources \subseteq {"url", "template"}, Imported \in BOOLEAN
    PROVE  VSphere!Spec => []VSphere!RecordedTemplatesGo /\ [][VSphere!AdoptedKept]_(VSphere!vars)
<1>1. VSphere!Init => TemplateInv
  BY TemplateInit
<1>2. TemplateInv /\ [VSphere!Next]_(VSphere!vars) => TemplateInv' /\ VSphere!AdoptedKept
  BY TemplateStep
<1>3. TemplateInv => VSphere!RecordedTemplatesGo
  BY DEF TemplateInv, Owed, Owing, VSphere!RecordedTemplatesGo
<1> QED BY <1>1, <1>2, <1>3, PTL DEF VSphere!Spec
=============================================================================
