----------------------------- MODULE MCServices -----------------------------
(***************************************************************************)
(* The parts around the machines and the images, each in behaviours of its *)
(* own: what the controller decides, what the operator and the installers  *)
(* set up, what the providers know of their hosts, guests and backends.    *)
(* `which' says which part is followed; it uses the first of s1 .. s12.    *)
(***************************************************************************)
EXTENDS Integers, Sequences, FiniteSets, TLC

CONSTANTS x1, x2, NoAddress

VARIABLES which, s1, s2, s3, s4, s5, s6, s7, s8, s9, s10, s11, s12

From11 == <<s11, s12>>
From10 == <<s10, From11>>
From9 == <<s9, From10>>
From8 == <<s8, From9>>
From7 == <<s7, From8>>
From5 == <<s5, s6, From7>>
From4 == <<s4, From5>>
From2 == <<s2, s3, From4>>
allvars == <<which, s1, From2>>

Unused11 == s11 = 0 /\ s12 = 0
Unused10 == s10 = 0 /\ Unused11
Unused9 == s9 = 0 /\ Unused10
Unused8 == s8 = 0 /\ Unused9
Unused7 == s7 = 0 /\ Unused8
Unused5 == s5 = 0 /\ s6 = 0 /\ Unused7
Unused4 == s4 = 0 /\ Unused5

Xs == {x1, x2}
Is(w) == which = w
-----------------------------------------------------------------------------
(* The controller's decisions.                                             *)

\* No addressing, and a list that may be too short for the pool.
Addresses(lo, hi) == [lo |-> lo, hi |-> hi]
AddressLists == {<<>>, <<Addresses(1, 3), Addresses(5, 5), Addresses(8, 7)>>}
Planning == INSTANCE PoolPlanning WITH in <- s1, v <- s2, next <- s3,
    MaxMembers <- 3, MaxWarm <- 2, MaxMax <- 3, MaxSurges <- 2, Timeout <- 1, Limit <- 1,
    Lists <- AddressLists

Ask(memory, offers, pool, apart) ==
    [memory |-> memory, cpus |-> 1, offers |-> offers, pool |-> pool, apart |-> apart, label |-> "x"]
Offer(provider, memory, cpus, ratio, overhead, offers, value) ==
    [provider |-> provider, memory |-> memory, cpus |-> cpus, ratio |-> ratio, overhead |-> overhead,
     offers |-> offers, value |-> value]
DomainOffers ==
    "d1" :> Offer("p1", 5, 1, 2, 1, {"a"}, "d1") @@ "d2" :> Offer("p1", 4, 2, 1, 0, {"a", "tpm"}, "d2")
    @@ "d3" :> Offer("p2", 3, 2, 2, 0, {"a"}, "rack")
Ranks == x1 :> [d1 |-> 3, d2 |-> 1, d3 |-> 2] @@ x2 :> [d1 |-> 1, d2 |-> 3, d3 |-> 2]
Placing == INSTANCE Scheduler WITH vm <- s1, world <- s2, pc <- s3, pass <- s4, ghost <- s5, changes <- s6,
    VMs <- Xs, Domains <- {"d1", "d2", "d3"}, Attributes <- DomainOffers, Rank <- Ranks, MaxChanges <- 2,
    Requests <- {Ask(2, {"a"}, "none", "no"), Ask(3, {"a"}, "pool", "no"), Ask(1, {"a", "tpm"}, "pool", "no")}
\* VMs that are to be apart.
Apart == INSTANCE Scheduler WITH vm <- s1, world <- s2, pc <- s3, pass <- s4, ghost <- s5, changes <- s6,
    VMs <- Xs, Domains <- {"d1", "d2", "d3"}, Attributes <- DomainOffers, Rank <- Ranks, MaxChanges <- 1,
    Requests <- {Ask(1, {"a"}, "none", "x"), Ask(1, {"a", "tpm"}, "none", "x")}

Building == INSTANCE InfraBuild WITH backend <- s1, in <- s2, machine <- s3, edits <- s4,
    Zones <- {"z1", "z2"}, Refs <- {"t1", "100"}, Numeric <- {"100"}, MaxEdits <- 1

Aggregating == INSTANCE Aggregates WITH side <- s1, image <- s2, told <- s3, cluster <- s4, domains <- s5,
    cache <- s6, pass <- s7, edits <- s8,
    Providers <- {1, 2}, Labels <- {"a"}, LabelsOf <- <<{"a"}, {}>>, DomainsOf <- <<{"d1"}, {"d2"}>>,
    MaxEdits <- 2
-----------------------------------------------------------------------------
(* The operator and the installers.                                        *)

\* One Provider of two classes, the second of which pins the namespace.
Workload == INSTANCE ProviderWorkload WITH prov <- s1, cache <- s2, class <- s3, objs <- s4, pass <- s5,
    status <- s6, edits <- s7, faults <- s8,
    Providers <- {"p1"}, Home <- [p \in {"p1"} |-> "n1"], Classes <- {"c1", "c2"},
    Pinned <- [c \in {"c1", "c2"} |-> IF c = "c2" THEN "n3" ELSE "unset"], Spaces <- {"n3"}, Uses <- [p \in {"p1"} |-> {"c1", "c2"}],
    MaxEdits <- 1, MaxFaults <- 1

Class(mode, image, pod, paused) == [mode |-> mode, image |-> image, pod |-> pod, paused |-> paused]
Reports == INSTANCE OperatorReports WITH up <- s1, age <- s2, heartbeat <- s3, told <- s4, due <- s5,
    class <- s6, role <- s7, readiness <- s8, stops <- s9, edits <- s10,
    StaleAfter <- 3, RequeueDefault <- 2, Skew <- 1, MaxStops <- 1, MaxEdits <- 1,
    Specs <- {Class("Managed", "usable", FALSE, FALSE), Class("Managed", "none", TRUE, FALSE),
              Class("External", "none", FALSE, FALSE), Class("Managed", "usable", FALSE, TRUE)}

Installing == INSTANCE Install WITH cluster <- s1, established <- s2, todo <- s3, runs <- s4,
    Backends <- {"vsphere"}, Admins <- Xs, MaxRuns <- 2

OnHost == INSTANCE HostInstall WITH disk <- s1, outside <- s2, run <- s3, todo <- s4, last <- s5,
    runs <- s6, stops <- s7,
    Releases <- {"v1"}, Pinned <- "v1", Ranges <- {"r0", "r1"},
    Uids <- [r \in {"r0", "r1"} |-> IF r = "r0" THEN <<>> ELSE <<1>>], MaxRuns <- 3, MaxStops <- 1
-----------------------------------------------------------------------------
(* The providers, and what they talk to.                                   *)

\* With all that makes a guest wait, with the half of it, and with nothing.
Wish(media, tpm, seal) == [media |-> media, tpm |-> tpm, seal |-> seal]
Readiness == INSTANCE GuestReadiness WITH kind <- s1, spec <- s2, guest <- s3, iso <- s4, heard <- s5,
    status <- s6, seen <- s7, late <- s8, pc <- s9, pass <- s10, faults <- s11, reboots <- s12,
    Partitions <- {x1}, Asks <- {Wish(TRUE, TRUE, {x1}), Wish(TRUE, FALSE, {}), Wish(FALSE, TRUE, {x1}),
                                 Wish(FALSE, FALSE, {})}, MaxFaults <- 1, MaxReboots <- 1

Uids == INSTANCE HostUids WITH api <- s1, cache <- s2, pc <- s3, pass <- s4, given <- s5, unit <- s6,
    crashes <- s7,
    Machines <- Xs, UidCount <- 2, MaxCrashes <- 1

\* Each of the figures unknown, and each of them the one that decides; more set aside
\* than there is.
HostFigures == {[host |-> h[1], huge |-> h[2], budget |-> h[3]] :
    h \in {<<-1, -1, -1>>, <<3, 1, -1>>, <<1, 3, 3>>, <<3, -1, 1>>, <<3, 1, 1>>, <<3, 1, 3>>, <<-1, 1, 3>>}}
Inventory == INSTANCE ProviderInventory WITH kind <- s1, spec <- s2, world <- s3, status <- s4, seen <- s5,
    woken <- s6, now <- s7, pass <- s8, edits <- s9, faults <- s10,
    Zones <- {"z1", "z2"}, Home <- "z1", StorageClasses <- {"sc"}, NetworkClasses <- {"nc"},
    Target <- [c \in {"sc", "nc"} |-> [zones |-> [z \in (IF c = "sc" THEN {"z2"} ELSE {}) |-> "t2"],
                                       default |-> "t1"]],
    Things <- {"t1", "t2"}, Names <- {"n1"}, Figures <- HostFigures, MaxEdits <- 1, MaxFaults <- 1

Transport == INSTANCE LibvirtTransport WITH link <- s1, serial <- s2, inbound <- s3, server <- s4,
    call <- s5, plan <- s6, answer <- s7, known <- s8, asks <- s9,
    Bodies <- {<<0>>, <<1, 28>>}, Errors <- {<<42>>, <<1>>}, Chunks <- 2, MaxAsks <- 1

Credential == INSTANCE HostCredential WITH out <- s1, file <- s2, held <- s3, proc <- s4, skew <- s5,
    blocked <- s6,
    First <- 8, Least <- 1, Lifetime <- 10, Skew <- 1, MaxBlocked <- 2
-----------------------------------------------------------------------------
Init ==
    \/ Is("planning") /\ Planning!Init /\ Unused4
    \/ Is("placing") /\ Placing!Init /\ Unused7
    \/ Is("apart") /\ Apart!Init /\ Unused7
    \/ Is("building") /\ Building!Init /\ Unused5
    \/ Is("aggregating") /\ Aggregating!Init /\ Unused9
    \/ Is("workload") /\ Workload!Init /\ Unused9
    \/ Is("reports") /\ Reports!Init /\ Unused11
    \/ Is("installing") /\ Installing!Init /\ Unused5
    \/ Is("host") /\ OnHost!Init /\ Unused8
    \/ Is("readiness") /\ Readiness!Init
    \/ Is("uids") /\ Uids!Init /\ Unused8
    \/ Is("inventory") /\ Inventory!Init /\ Unused11
    \/ Is("transport") /\ Transport!Init /\ Unused10
    \/ Is("credential") /\ Credential!Init /\ Unused7

Next ==
    /\ UNCHANGED which
    /\ \/ Is("planning") /\ Planning!Next /\ UNCHANGED From4
       \/ Is("placing") /\ Placing!Next /\ UNCHANGED From7
       \/ Is("apart") /\ Apart!Next /\ UNCHANGED From7
       \/ Is("building") /\ Building!Next /\ UNCHANGED From5
       \/ Is("aggregating") /\ Aggregating!Next /\ UNCHANGED From9
       \/ Is("workload") /\ Workload!Next /\ UNCHANGED From9
       \/ Is("reports") /\ Reports!Next /\ UNCHANGED From11
       \/ Is("installing") /\ Installing!Next /\ UNCHANGED From5
       \/ Is("host") /\ OnHost!Next /\ UNCHANGED From8
       \/ Is("readiness") /\ Readiness!Next
       \/ Is("uids") /\ Uids!Next /\ UNCHANGED From8
       \/ Is("inventory") /\ Inventory!Next /\ UNCHANGED From11
       \/ Is("transport") /\ Transport!Next /\ UNCHANGED From10
       \/ Is("credential") /\ Credential!Next /\ UNCHANGED From7

-----------------------------------------------------------------------------
(* The fairness of each of the modules a temporal property is about; the   *)
(* parts exclude each other, so one action of one is put together with its *)
(* counterparts in the others.                                             *)

\* The two instances of the scheduler differ in what is asked for, and in no action.
Schedules == which \in {"placing", "apart"}

\* Passes, calls and timers.
Passes(x) ==
    /\ UNCHANGED which
    /\ \/ Schedules /\ (Placing!List(x) \/ Placing!Decide(x)) /\ UNCHANGED From7
       \/ Is("uids") /\ Uids!Pass(x) /\ UNCHANGED From8
       \/ x = x1 /\ \/ Is("aggregating") /\ (Aggregating!BeginImage \/ Aggregating!BeginCluster)
                       /\ UNCHANGED From9
                    \/ Is("workload") /\ Workload!Pass("p1") /\ UNCHANGED From9
                    \/ Is("reports") /\ s5 = 0 /\ Reports!ProviderPass /\ UNCHANGED From11
                    \/ Is("readiness") /\ Readiness!Step
                    \/ Is("inventory") /\ Inventory!Pass /\ UNCHANGED From11
                    \/ Is("transport") /\ (Transport!Receive \/ Transport!ReceiveTimeout) /\ UNCHANGED From10
       \/ x = x2 /\ \/ Is("reports") /\ Reports!ClassPass /\ UNCHANGED From11
                    \/ Is("transport") /\ (Transport!send_stream_data \/ Transport!finish_stream)
                       /\ UNCHANGED From10

\* Events reach the stores, time passes, Leases are renewed.
Syncs(x) ==
    /\ UNCHANGED which
    /\ \/ Schedules /\ Placing!LeaseRenewed(IF x = x1 THEN "p1" ELSE "p2") /\ UNCHANGED From7
       \/ Is("uids") /\ Uids!Sync(x) /\ UNCHANGED From8
       \/ x = x1 /\ \/ Is("aggregating") /\ Aggregating!Sync /\ UNCHANGED From9
                    \/ Is("workload") /\ Workload!Sync("p1") /\ UNCHANGED From9
                    \/ Is("reports") /\ Reports!Tick /\ UNCHANGED From11
                    \/ Is("readiness") /\ Readiness!Sync
                    \/ Is("inventory") /\ Inventory!Sync /\ UNCHANGED From11
       \/ x = x2 /\ Is("readiness") /\ Readiness!Deadline

\* The guest boots, announces itself and comes to answer.
Guest(x) ==
    /\ UNCHANGED which /\ Is("readiness")
    /\ \/ x = x1 /\ Readiness!GuestProgress
       \/ x = x2 /\ Readiness!Announce

\* What is tried again and again succeeds in the end: the status patch of the
\* aggregates, and the search for an EK certificate.
Attempts ==
    /\ UNCHANGED which
    /\ \/ Is("aggregating") /\ (Aggregating!reconcile_image \/ Aggregating!reconcile_cluster) /\ UNCHANGED From9
       \/ Is("readiness") /\ Readiness!Observe /\ s10'.ek = s2.tpm

Fairness ==
    /\ \A x \in Xs : WF_allvars(Passes(x)) /\ WF_allvars(Syncs(x)) /\ WF_allvars(Guest(x))
    /\ WF_allvars(Is("readiness") /\ ~s3.answers /\ Readiness!AnswersChange /\ UNCHANGED which)
    /\ SF_allvars(Attempts)

Spec == Init /\ [][Next]_allvars /\ Fairness
-----------------------------------------------------------------------------
(* Properties.                                                             *)

\* The controller decides within the limits it is given: plans keep a pool between
\* warmReplicas and maxReplicas, placements fit their domains and stay apart, and
\* an aggregate takes no provider's report back.
DecisionsSound ==
    /\ Is("planning") => Planning!PlanWithinLimits /\ Planning!WarmCovered
    /\ Is("placing") => Placing!TypeOK /\ Placing!RoomForAll
    /\ Is("apart") => Apart!RoomForAll /\ Apart!ApartStaysApart
    /\ Is("aggregating") => Aggregating!RowsAreOwn

\* What is set up is whole wherever its installation stopped, and what is reported is
\* so: pods have their identity, hosts their checked files, credentials life left;
\* a uid has one owner, a ready guest all that makes it ready, an answer its call.  Two
\* cases are left out: the medium of a ready guest that a pass from an older copy put
\* back, and the domains of a vSphere Provider that could not be looked at, of which the
\* code and its comment say the opposite.
ServicesSound ==
    /\ Is("workload") => Workload!TypeOK /\ Workload!IdentityBeforePod /\ Workload!NothingLeaks
    /\ Is("reports") => Reports!TypeOK /\ Reports!AliveIsRecent /\ Reports!ReadyClassServes
    /\ Is("installing") => Installing!InstalledIsWhole
    /\ Is("host") => OnHost!HostSound
    /\ Is("readiness") => Readiness!TypeOK /\ Readiness!ReadyIsWhole
    /\ Is("uids") => Uids!TypeOK /\ Uids!UidsDistinct /\ Uids!UnitIsOwn
    /\ Is("inventory") => Inventory!TypeOK /\ Inventory!DomainsSound
    /\ Is("transport") => Transport!TypeOK /\ Transport!SessionSound
    /\ Is("credential") => Credential!CredentialLives

\* No step takes back what others rely on: a guest that was ready, a machine's uid, its
\* running unit, a host's CA, the workload a pass applied; no plan has to be made twice;
\* no machine object differs from what its VM, class and image ask for.  Two steps of the
\* code do, and are excepted where the properties are defined: a libvirt or Cloud
\* Hypervisor pass from a copy older than the report un-readies a guest ("Once
\* `Some(true)`, it stays" holds within one copy only), and another pass over a machine
\* that is gone, from a copy that was being deleted, stops whatever unit has its uid by
\* then.
StepsSound ==
    [][/\ Is("planning") => Planning!NothingMore
       /\ Is("building") => Building!AsAsked
       /\ Is("workload") => Workload!AppliedStays
       /\ Is("host") => OnHost!NothingLost
       /\ Is("readiness") => Readiness!ReadyStays
       /\ Is("uids") => Uids!UidStays /\ Uids!UnitStays]_allvars

AtRest ==
    CASE Schedules -> Placing!Settled
      [] Is("aggregating") -> Aggregating!Followed
      [] Is("workload") -> Workload!AllSettled
      [] Is("inventory") -> Inventory!AtRest
      [] OTHER -> TRUE

\* When nobody edits any more what the controllers keep comes to be as it should, and stays:
\* status says what is there, a Provider has its class's workload and no other class's, and
\* no VM is left without a placement that some domain could take.  The controllers of
\* vSphere and Cloud Hypervisor Providers also stop waking themselves; those of libvirt and
\* Proxmox never do, and only their status is asked.  A pod in a namespace that the class
\* no longer says is excepted: the code leaves it there.
ComesToRest == <>[]AtRest

Waits ==
    CASE Is("uids") -> s1[x1].life = "live"
      [] Is("workload") -> s1["p1"].life = "deleting"
      [] Is("reports") -> ~s1
      [] Is("readiness") -> Readiness!Remembered
      [] Is("transport") -> s5 # Transport!NoCall
      [] OTHER -> FALSE

Helped ==
    CASE Is("uids") -> Uids!Started(x1)
      [] Is("workload") -> s1["p1"].life = "gone"
      [] Is("reports") -> Reports!Noticed
      [] Is("readiness") -> Readiness!Judged
      [] Is("transport") -> s5 = Transport!NoCall
      [] OTHER -> TRUE

\* Nobody waits for ever: a machine gets its uid, a guest a verdict and a call an end;
\* a deleted Provider goes, and a Provider whose process died is no longer shown alive.
\* (The machines are alike: what is checked of x1 holds of x2.)
NobodyWaits == Waits ~> Helped
=============================================================================
