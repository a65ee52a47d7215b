-------------------------- MODULE OperatorReports ---------------------------
(***************************************************************************)
(* What the operator reports (operator: heartbeat.rs, providerclass.rs and *)
(* publish_status of provider.rs): whether a Provider's process is alive,  *)
(* judged from outside by the age of its Lease, and whether a class can    *)
(* make a workload.  A second is a tick; a pass runs when its timer is due *)
(* or when something that is watched changed.                              *)
(***************************************************************************)
EXTENDS Integers

CONSTANTS
    StaleAfter,     \* --provider-stale-after-secs
    RequeueDefault, \* REQUEUE_DEFAULT_SECS
    Skew,           \* how far ahead the clock of a Provider's host may be
    Specs,          \* the classes a user may write
    MaxStops,       \* how often the process stops, and its Lease is removed
    MaxEdits        \* edits of the class

VARIABLES
    up,             \* the Provider's process renews its Lease
    age,            \* how long ago, by the operator's clock; or no Lease
    heartbeat,      \* status.workload.heartbeat
    told,           \* the Event last published about it
    due,            \* when the next pass runs
    class, role,    \* what the class says, and whether its ClusterRole is there
    readiness,      \* the Ready condition of the class, and for what class
    stops, edits

vars == <<up, age, heartbeat, told, due, class, role, readiness, stops, edits>>

NoLease == 1000
Never == StaleAfter + 2             \* an age beyond which nothing differs
Heartbeats == {"Alive", "Stale", "Absent"}
MinRecheck == 1

\* image: none, incomplete or usable; pod: any other field that shapes a pod.
ClassSpecs == [mode: {"Managed", "External"}, image: {"none", "incomplete", "usable"}, pod: BOOLEAN, paused: BOOLEAN]

Least(a, b) == IF a < b THEN a ELSE b
Most(a, b) == IF a < b THEN b ELSE a

-----------------------------------------------------------------------------
(* The heartbeat.                                                          *)

evaluate(a) ==
    IF a = NoLease THEN [heartbeat |-> "Absent", recheck_in |-> StaleAfter]
    ELSE IF a > StaleAfter THEN [heartbeat |-> "Stale", recheck_in |-> StaleAfter]
    ELSE [heartbeat |-> "Alive", recheck_in |-> StaleAfter - Most(a, 0)]

transition(previous, current) ==
    IF previous = "Stale" THEN IF current = "Alive" THEN "Restored" ELSE "nothing"
    ELSE IF current = "Stale" THEN "WentStale" ELSE "nothing"

requeue_by_default(recheck_in) == Most(RequeueDefault, MinRecheck)

\* Back no later than the heartbeat could go stale, and never at once.
requeue_after(recheck_in) == Most(Least(recheck_in, RequeueDefault), MinRecheck)

missing_image(c) == c.mode = "Managed" /\ c.image = "none"
skipped(c) == missing_image(c) \/ c.paused

\* A class that is paused or lacks an image leaves the heartbeat as it is.
publish_status ==
    IF skipped(class) THEN due' = RequeueDefault /\ UNCHANGED <<heartbeat, told>>
    ELSE LET reading == evaluate(age)
             event == transition(heartbeat, reading.heartbeat)
         IN  /\ heartbeat' = reading.heartbeat
             /\ told' = IF event = "nothing" THEN told ELSE event
             /\ due' = requeue_after(reading.recheck_in)

-----------------------------------------------------------------------------
(* The class.                                                              *)

assess_image_only(c, present) ==
    IF ~present THEN "MissingClusterRole"
    ELSE IF c.image = "incomplete" THEN "InvalidImage" ELSE "Ready"

\* The missing role is reported first.
assess(c, present) ==
    IF ~present THEN "MissingClusterRole"
    ELSE IF c.mode = "External"
         THEN IF c.image # "none" \/ c.pod THEN "PodFieldsOnExternal" ELSE "Ready"
    ELSE IF c.image # "usable" THEN "InvalidImage" ELSE "Ready"

-----------------------------------------------------------------------------
Init ==
    /\ up = FALSE /\ age = NoLease /\ heartbeat = "none" /\ told = "nothing" /\ due = 0
    /\ class \in Specs /\ role \in BOOLEAN
    /\ readiness = [is |-> "none", of |-> class]
    /\ stops = 0 /\ edits = 0

\* By its timer, or early because the Provider, its Deployment or class changed.
ProviderPass ==
    /\ publish_status
    /\ UNCHANGED <<up, age, class, role, readiness, stops, edits>>

ClassPass ==
    /\ readiness' = [is |-> assess(class, role), of |-> class]
    /\ UNCHANGED <<up, age, heartbeat, told, due, class, role, stops, edits>>

\* Time does not pass a timer that is due.
Tick ==
    /\ due > 0 /\ due' = due - 1
    /\ age' = IF age = NoLease THEN age ELSE Least(age + 1, Never)
    /\ UNCHANGED <<up, heartbeat, told, class, role, readiness, stops, edits>>

Renew ==
    /\ up /\ age' \in (-Skew)..0
    /\ UNCHANGED <<up, heartbeat, told, due, class, role, readiness, stops, edits>>

StartProcess ==
    /\ ~up /\ up' = TRUE /\ age' \in (-Skew)..0
    /\ UNCHANGED <<heartbeat, told, due, class, role, readiness, stops, edits>>

StopProcess ==
    /\ up /\ stops < MaxStops /\ stops' = stops + 1 /\ up' = FALSE /\ age' \in {age, NoLease}
    /\ UNCHANGED <<heartbeat, told, due, class, role, readiness, edits>>

\* The class is watched for the Providers that refer to it.
EditClass ==
    /\ edits < MaxEdits /\ edits' = edits + 1
    /\ class' \in Specs \ {class} /\ role' \in BOOLEAN /\ due' = 0
    /\ UNCHANGED <<up, age, heartbeat, told, readiness, stops>>

Next ==
    \/ ProviderPass \/ ClassPass \/ Tick \/ Renew \/ StartProcess \/ StopProcess \/ EditClass

\* Time passes, timers fire and both controllers requeue.
Fairness == WF_vars(due = 0 /\ ProviderPass) /\ WF_vars(ClassPass) /\ WF_vars(Tick)

Spec == Init /\ [][Next]_vars /\ Fairness
-----------------------------------------------------------------------------
(* Properties.                                                             *)

TypeOK ==
    /\ up \in BOOLEAN /\ age \in (-Skew)..Never \cup {NoLease}
    /\ heartbeat \in Heartbeats \cup {"none"} /\ told \in {"nothing", "WentStale", "Restored"}
    /\ due \in 0..Most(RequeueDefault, MinRecheck)
    /\ class \in ClassSpecs /\ readiness.of \in ClassSpecs

\* As long as no pass is due, a heartbeat shown as alive is one, by the clock of
\* the operator: the next pass is timed by what is left of it and not only by
\* the usual interval, and a class served again is looked at without delay.
AliveIsRecent ==
    heartbeat = "Alive" /\ due > 0 /\ age # NoLease /\ ~skipped(class) => age <= StaleAfter

\* The two checks of a class agree: one that is reported usable is one that the
\* Provider controller makes workloads of, but for a pause.
ReadyClassServes == readiness.is = "Ready" => ~missing_image(readiness.of)

\* A process that stops for good is not shown as alive for ever.
Noticed == up \/ heartbeat # "Alive" \/ skipped(class)
DeadIsNoticed == ~up ~> Noticed
=============================================================================
