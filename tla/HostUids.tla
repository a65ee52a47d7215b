------------------------------ MODULE HostUids ------------------------------
(***************************************************************************)
(* The guest uids of a Cloud Hypervisor host (reconciler.rs, plan.rs).     *)
(*                                                                         *)
(* Each machine gets a uid of the host's range, which names its systemd    *)
(* units.  It is recorded in the machine's status; until every pass can    *)
(* see it there, a ledger of the provider's process remembers it.  Passes  *)
(* of different machines run at the same time, each from a cached object;  *)
(* a new process starts with an empty ledger and a fresh cache.            *)
(***************************************************************************)
EXTENDS Integers, FiniteSets

CONSTANTS
    Machines,
    UidCount,       \* guests.uid_count
    MaxCrashes      \* restarts of the provider, and calls that fail

VARIABLES
    api,        \* the machines at the API server: existence and status.hostUid
    cache,      \* as the provider's store holds them
    pc, pass,   \* the pass of each machine, and what it works from
    given,      \* the ledger
    unit,       \* for whom the unit of a uid runs
    crashes

vars == <<api, cache, pc, pass, given, unit, crashes>>

NoUid == 0
HostUids == 1..UidCount
Nobody == "nobody"
Objects == [life: {"new", "live", "deleting", "absent"}, huid: HostUids \cup {NoUid}]

TypeOK ==
    /\ api \in [Machines -> Objects] /\ cache \in [Machines -> Objects]
    /\ pc \in [Machines -> {"idle", "list", "assign", "patch", "converge", "finalize",
                            "remove", "release"}]
    /\ pass \in [Machines -> [huid: HostUids \cup {NoUid}, used: SUBSET HostUids]]
    /\ given \in [Machines -> HostUids \cup {NoUid}]
    /\ unit \in [HostUids -> Machines \cup {Nobody}]
    /\ crashes \in 0..MaxCrashes

NoPass == [huid |-> NoUid, used |-> {}]

Init ==
    /\ api = [m \in Machines |-> [life |-> "new", huid |-> NoUid]]
    /\ cache = [m \in Machines |-> [life |-> "absent", huid |-> NoUid]]
    /\ pc = [m \in Machines |-> "idle"] /\ pass = [m \in Machines |-> NoPass]
    /\ given = [m \in Machines |-> NoUid]
    /\ unit = [h \in HostUids |-> Nobody] /\ crashes = 0

Exists(o) == o.life \in {"live", "deleting"}

At(m, stage) == pc[m] = stage
Goto(m, stage) == pc' = [pc EXCEPT ![m] = stage]
End(m) == pc' = [pc EXCEPT ![m] = "idle"] /\ pass' = [pass EXCEPT ![m] = NoPass]
Fail == crashes < MaxCrashes /\ crashes' = crashes + 1

-----------------------------------------------------------------------------
(* The pass of a machine.                                                  *)

\* The finalizer is put on before anything else, so the pass of a machine that is
\* gone ends there, unless the cached one is being deleted: that is torn down (once
\* more).
reconcile(m) ==
    /\ At(m, "idle") /\ Exists(cache[m])
    /\ Exists(api[m]) \/ cache[m].life = "deleting"
    /\ Goto(m, IF cache[m].life = "deleting" THEN "finalize"
               ELSE IF cache[m].huid = NoUid THEN "list" ELSE "converge")
    /\ pass' = [pass EXCEPT ![m].huid = cache[m].huid]
    /\ UNCHANGED <<api, cache, given, unit, crashes>>

\* The uids that the other machines record.
used_host_uids(m) ==
    /\ At(m, "list") /\ Goto(m, "assign")
    /\ pass' = [pass EXCEPT ![m].used =
                  {api[n].huid : n \in {n \in Machines \ {m} : Exists(api[n])}} \ {NoUid}]
    /\ UNCHANGED <<api, cache, given, unit, crashes>>

allocate_host_uid(used) ==
    {h \in HostUids \ used : \A i \in HostUids \ used : h <= i}

assign_by_record(m) ==
    IF given[m] # NoUid THEN {given[m]} ELSE allocate_host_uid(pass[m].used)

\* The uid given before, or the lowest that is neither recorded nor given.
assign(m) ==
    IF given[m] # NoUid THEN {given[m]}
    ELSE allocate_host_uid(pass[m].used \cup {given[n] : n \in Machines})

\* A full range is reported, and the pass comes back later.
Assign(m) ==
    /\ At(m, "assign") /\ UNCHANGED <<api, cache, unit, crashes>>
    /\ \/ \E h \in assign(m) :
             /\ given' = [given EXCEPT ![m] = h] /\ Goto(m, "patch")
             /\ pass' = [pass EXCEPT ![m].huid = h]
       \/ assign(m) = {} /\ End(m) /\ UNCHANGED given

\* Recorded before anything is made on the host.  The grant stays in the ledger
\* when the machine is gone.
RecordUid(m) ==
    /\ At(m, "patch") /\ End(m) /\ UNCHANGED <<cache, given, unit>>
    /\ \/ /\ Exists(api[m]) /\ api' = [api EXCEPT ![m].huid = pass[m].huid]
          /\ (UNCHANGED crashes \/ Fail)
       \/ ~Exists(api[m]) /\ UNCHANGED <<api, crashes>>
       \/ Fail /\ UNCHANGED api

\* A unit of the uid that runs is taken for the machine's own.
converge(m) ==
    /\ At(m, "converge") /\ End(m)
    /\ unit' = [unit EXCEPT ![pass[m].huid] = IF @ = Nobody THEN m ELSE @]
    /\ UNCHANGED <<api, cache, given, crashes>>

\* The teardown stops the units of the recorded uid.
finalize(m) ==
    /\ At(m, "finalize")
    /\ unit' = IF pass[m].huid = NoUid THEN unit ELSE [unit EXCEPT ![pass[m].huid] = Nobody]
    /\ Goto(m, "remove") /\ UNCHANGED <<api, cache, pass, given, crashes>>

\* A call that fails may have removed it, and one for a machine that is gone fails;
\* the uid is not released then.
RemoveFinalizer(m) ==
    /\ At(m, "remove") /\ UNCHANGED <<cache, given, unit>>
    /\ \/ /\ Exists(api[m]) /\ api' = [api EXCEPT ![m].life = "absent"]
          /\ \/ Goto(m, "release") /\ UNCHANGED <<pass, crashes>>
             \/ Fail /\ End(m)
       \/ ~Exists(api[m]) /\ End(m) /\ UNCHANGED <<api, crashes>>
       \/ Fail /\ End(m) /\ UNCHANGED api

\* Nothing is left on the host for it.
release(m) ==
    /\ At(m, "release") /\ given' = [given EXCEPT ![m] = NoUid] /\ End(m)
    /\ UNCHANGED <<api, cache, unit, crashes>>

-----------------------------------------------------------------------------
(* Everybody else.                                                         *)

Create(m) ==
    /\ api[m].life = "new" /\ api' = [api EXCEPT ![m].life = "live"]
    /\ UNCHANGED <<cache, pc, pass, given, unit, crashes>>

Delete(m) ==
    /\ api[m].life = "live" /\ api' = [api EXCEPT ![m].life = "deleting"]
    /\ UNCHANGED <<cache, pc, pass, given, unit, crashes>>

Sync(m) ==
    /\ cache[m] # api[m] /\ api[m].life # "new"
    /\ cache' = [cache EXCEPT ![m] = api[m]]
    /\ UNCHANGED <<api, pc, pass, given, unit, crashes>>

\* A new process: no pass, an empty ledger, and the objects listed anew.
Restart ==
    /\ Fail
    /\ pc' = [m \in Machines |-> "idle"] /\ pass' = [m \in Machines |-> NoPass]
    /\ given' = [m \in Machines |-> NoUid]
    /\ cache' = [m \in Machines |-> IF Exists(api[m]) THEN api[m]
                                    ELSE [life |-> "absent", huid |-> NoUid]]
    /\ UNCHANGED <<api, unit>>

Pass(m) ==
    \/ reconcile(m) \/ used_host_uids(m) \/ Assign(m) \/ RecordUid(m) \/ converge(m)
    \/ finalize(m) \/ RemoveFinalizer(m) \/ release(m)

Next ==
    \/ \E m \in Machines : Pass(m) \/ Create(m) \/ Delete(m) \/ Sync(m)
    \/ Restart

\* Passes are run again and again, calls answered, watch events delivered.
Fairness == \A m \in Machines : WF_vars(Pass(m)) /\ WF_vars(Sync(m))

Spec == Init /\ [][Next]_vars /\ Fairness
-----------------------------------------------------------------------------
(* Properties.                                                             *)

\* No two machines of a host share a guest uid: neither passes that list before
\* the other one recorded its uid, nor a stale cache, nor a restart between the
\* grant and the record of it makes one uid be given twice.
UidsDistinct ==
    \A m, n \in Machines :
        m # n /\ Exists(api[m]) /\ Exists(api[n]) /\ api[m].huid # NoUid
            => api[m].huid # api[n].huid

\* What a machine records is what its unit is named after: the record never
\* changes, and units run for nobody else.
UidStays == \A m \in Machines : api[m].huid # NoUid => api'[m].huid = api[m].huid
UidStable == [][UidStays]_vars

UnitIsOwn ==
    \A h \in HostUids : unit[h] # Nobody => api[unit[h]].huid = h

\* Another pass over a machine that is gone, from a cached copy that was being
\* deleted: it tears down the unit of a uid that somebody else may have by now.
LateTeardown(h) == \E n \in Machines : pc[n] = "finalize" /\ pass[n].huid = h /\ ~Exists(api[n])

\* The unit of a machine that nobody deleted is stopped by no pass, its own or
\* another machine's, with the one exception of a late teardown.
UnitStays ==
    \A h \in HostUids, m \in Machines :
        unit[h] = m /\ api[m].life = "live" => unit'[h] = m \/ LateTeardown(h)
UnitSpared == [][UnitStays]_vars

\* With room in the range, a machine gets a uid in the end and its unit starts,
\* unless the ledger still holds the uid of a machine that is gone.
Started(m) ==
    \/ api[m].life # "live"
    \/ \E h \in HostUids : unit[h] = m
    \/ Cardinality({n \in Machines : Exists(api[n])}) > UidCount
    \/ \E n \in Machines : given[n] # NoUid /\ ~Exists(api[n])
MachineGetsUid == \A m \in Machines : api[m].life = "live" ~> Started(m)
=============================================================================
