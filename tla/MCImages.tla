------------------------------ MODULE MCImages ------------------------------
(***************************************************************************)
(* Images, from the builder to the backends: each module in behaviours of  *)
(* its own, some of them in several configurations.                        *)
(***************************************************************************)
EXTENDS Integers, Sequences, FiniteSets

CONSTANTS x1, x2

VARIABLES which, obj, cache, backend, jobs, pods, provider, machine, pc, pass, ghost, faults, changes

allvars == <<which, obj, cache, backend, jobs, pods, provider, machine, pc, pass, ghost, faults, changes>>

Ix == {x1, x2}

\* One Provider: imports, requests, calls that fail, and retries; two: what they share.
VImports == INSTANCE VSphereImage WITH Providers <- {x1}, Sources <- {"url"}, Imported <- FALSE,
                LateStores <- {x1}, MaxFaults <- 0, MaxChanges <- 1, MaxRequests <- 1
VDenied == INSTANCE VSphereImage WITH Providers <- {x1}, Sources <- {"url"}, Imported <- TRUE,
                LateStores <- {x1}, MaxFaults <- 1, MaxChanges <- 0, MaxRequests <- 1
VRetries == INSTANCE VSphereImage WITH Providers <- {x1}, Sources <- {"url", "template"}, Imported <- FALSE,
                LateStores <- {x1}, MaxFaults <- 1, MaxChanges <- 1, MaxRequests <- 0
VShared == INSTANCE VSphereImage WITH Providers <- Ix, Sources <- {"url"}, Imported <- TRUE,
                LateStores <- Ix, MaxFaults <- 0, MaxChanges <- 1, MaxRequests <- 0
VRequests == INSTANCE VSphereImage WITH Providers <- Ix, Sources <- {"url", "template"}, Imported <- TRUE,
                LateStores <- {x1}, MaxFaults <- 0, MaxChanges <- 0, MaxRequests <- 1
VRepeated == INSTANCE VSphereImage WITH Providers <- Ix, Sources <- {"url"}, Imported <- TRUE,
                LateStores <- {}, MaxFaults <- 0, MaxChanges <- 0, MaxRequests <- 2

Host == INSTANCE HostImageCache WITH Images <- Ix, Files <- Ix, First <- x1, Keep <- 0,
                MaxFaults <- 0, MaxChanges <- 1

\* Two pools, and one whose Job fails for good.
LPools == INSTANCE LibvirtImage WITH Pools <- Ix, Sources <- {"url", "backing"},
                MaxFaults <- 0, MaxChanges <- 1
LRetries == INSTANCE LibvirtImage WITH Pools <- {x1}, Sources <- {"url", "backing"},
                MaxFaults <- 2, MaxChanges <- 1

Plain == [ref |-> 1, seal |-> FALSE, prelay |-> FALSE, push |-> FALSE, keys |-> TRUE, sealable |-> TRUE,
          prelayable |-> TRUE, registry |-> TRUE]
Published == {[Plain EXCEPT !.prelay = TRUE, !.push = TRUE], [Plain EXCEPT !.ref = 2, !.push = TRUE]}
Refused == {[Plain EXCEPT !.keys = FALSE], [Plain EXCEPT !.seal = TRUE, !.sealable = FALSE],
            [Plain EXCEPT !.prelay = TRUE, !.prelayable = FALSE], [Plain EXCEPT !.push = TRUE, !.registry = FALSE]}

BPublished == INSTANCE ImageBuild WITH Specs <- Published, MaxBuilds <- 2,
                MaxFaults <- 0, MaxChanges <- 1
BRefused == INSTANCE ImageBuild WITH Specs <- Refused, MaxBuilds <- 2,
                MaxFaults <- 1, MaxChanges <- 1

Is(w) == which = w
IsV == which \in {"imports", "denied", "retries", "shared", "requests", "repeated"}
IsL == which \in {"pools", "poolRetries"}
Init ==
    \/ Is("imports") /\ VImports!Init /\ machine = {}
    \/ Is("denied") /\ VDenied!Init /\ machine = {}
    \/ Is("retries") /\ VRetries!Init /\ machine = {}
    \/ Is("shared") /\ VShared!Init /\ machine = {}
    \/ Is("requests") /\ VRequests!Init /\ machine = {}
    \/ Is("repeated") /\ VRepeated!Init /\ machine = {}
    \/ Is("host") /\ Host!Init /\ jobs = {} /\ pods = {} /\ provider = {}
    \/ Is("pools") /\ LPools!Init /\ machine = {} /\ ghost = {}
    \/ Is("poolRetries") /\ LRetries!Init /\ machine = {} /\ ghost = {}
    \/ Is("published") /\ BPublished!Init /\ pods = {} /\ provider = {} /\ machine = {}
    \/ Is("refused") /\ BRefused!Init /\ pods = {} /\ provider = {} /\ machine = {}

OthersV == UNCHANGED <<which, machine>>
OthersH == UNCHANGED <<which, jobs, pods, provider>>
OthersL == UNCHANGED <<which, machine, ghost>>
OthersB == UNCHANGED <<which, machine, pods, provider>>

Next ==
    \/ Is("imports") /\ VImports!Next /\ OthersV
    \/ Is("denied") /\ VDenied!Next /\ OthersV
    \/ Is("retries") /\ VRetries!Next /\ OthersV
    \/ Is("shared") /\ VShared!Next /\ OthersV
    \/ Is("requests") /\ VRequests!Next /\ OthersV
    \/ Is("repeated") /\ VRepeated!Next /\ OthersV
    \/ Is("host") /\ Host!Next /\ OthersH
    \/ Is("pools") /\ LPools!Next /\ OthersL
    \/ Is("poolRetries") /\ LRetries!Next /\ OthersL
    \/ Is("published") /\ BPublished!Next /\ OthersB
    \/ Is("refused") /\ BRefused!Next /\ OthersB

-----------------------------------------------------------------------------
(* The fairness of each of the modules; of each configuration that has it, *)
(* one action is put together with its counterparts in the others.         *)

\* The pass of a workload, a host, a provider or the builder.
Passes(x) ==
    \/ Is("imports") /\ x \in provider /\ VImports!Pass(x) /\ OthersV
    \/ Is("denied") /\ x \in provider /\ VDenied!Pass(x) /\ OthersV
    \/ Is("retries") /\ x \in provider /\ VRetries!Pass(x) /\ OthersV
    \/ Is("shared") /\ x \in provider /\ VShared!Pass(x) /\ OthersV
    \/ Is("requests") /\ x \in provider /\ VRequests!Pass(x) /\ OthersV
    \/ Is("repeated") /\ x \in provider /\ VRepeated!Pass(x) /\ OthersV
    \/ Is("host") /\ Host!HostPass(x) /\ OthersH
    \/ Is("pools") /\ x = x1 /\ LPools!Pass /\ OthersL
    \/ Is("poolRetries") /\ x = x1 /\ LRetries!Pass /\ OthersL
    \/ Is("published") /\ x = x1 /\ BPublished!Pass /\ OthersB
    \/ Is("refused") /\ x = x1 /\ BRefused!Pass /\ OthersB

\* Events reach the stores.
Syncs(x) ==
    \/ Is("imports") /\ x = x1 /\ VImports!Sync(x) /\ OthersV
    \/ Is("denied") /\ x = x1 /\ VDenied!Sync(x) /\ OthersV
    \/ Is("retries") /\ x = x1 /\ VRetries!Sync(x) /\ OthersV
    \/ Is("shared") /\ VShared!Sync(x) /\ OthersV
    \/ Is("requests") /\ VRequests!Sync(x) /\ OthersV
    \/ Is("host") /\ Host!Sync(x) /\ OthersH
    \/ Is("pools") /\ x = x1 /\ LPools!Sync /\ OthersL
    \/ Is("poolRetries") /\ x = x1 /\ LRetries!Sync /\ OthersL
    \/ Is("published") /\ x = x1 /\ BPublished!Sync /\ OthersB
    \/ Is("refused") /\ x = x1 /\ BRefused!Sync /\ OthersB

\* Imports and Jobs run.
Imports(x) ==
    \/ Is("imports") /\ x = x1 /\ VImports!Import(x) /\ OthersV
    \/ Is("denied") /\ x = x1 /\ VDenied!Import(x) /\ OthersV
    \/ Is("retries") /\ x = x1 /\ VRetries!Import(x) /\ OthersV
    \/ Is("shared") /\ VShared!Import(x) /\ OthersV
    \/ Is("requests") /\ VRequests!Import(x) /\ OthersV
    \/ Is("repeated") /\ VRepeated!Import(x) /\ OthersV
    \/ Is("host") /\ Host!import_run(x) /\ OthersH
    \/ Is("pools") /\ LPools!Import(x) /\ OthersL
    \/ Is("poolRetries") /\ x = x1 /\ LRetries!Import(x) /\ OthersL
    \/ Is("published") /\ BPublished!JobRuns(IF x = x1 THEN "prelay" ELSE "push") /\ OthersB
    \/ Is("refused") /\ BRefused!JobRuns(IF x = x1 THEN "prelay" ELSE "push") /\ OthersB

\* Builds end; the controller releases; pools are verified.
Worlds(x) ==
    \/ Is("imports") /\ x = x1 /\ VImports!Built /\ OthersV
    \/ Is("retries") /\ x = x1 /\ VRetries!Built /\ OthersV
    \/ Is("shared") /\ x = x1 /\ VShared!Built /\ OthersV
    \/ Is("host") /\ Host!reconcile_host_cache(x) /\ OthersH
    \/ Is("pools") /\ (LPools!PoolVerified(x) \/ LPools!VolumeAdded(x) \/ LPools!Built) /\ OthersL
    \/ Is("poolRetries") /\ x = x1 /\ (LRetries!PoolVerified(x) \/ LRetries!VolumeAdded(x) \/ LRetries!Built)
       /\ OthersL
    \/ Is("published") /\ x = x1 /\ BPublished!World /\ OthersB
    \/ Is("refused") /\ x = x1 /\ BRefused!World /\ OthersB

Fairness ==
    \A x \in Ix : /\ WF_allvars(Passes(x)) /\ WF_allvars(Syncs(x)) /\ WF_allvars(Imports(x))
                  /\ WF_allvars(Worlds(x))

Spec == Init /\ [][Next]_allvars /\ Fairness
-----------------------------------------------------------------------------
(* Properties.                                                             *)

\* Templates that banlieue did not import or is told to keep stay in vCenter; files
\* that images or machines refer to stay in a host's cache, whichever image's pass
\* evicts or releases.
UsedSpared ==
    [][changes' = changes =>
          /\ Is("imports") => VImports!AdoptedKept
          /\ Is("denied") => VDenied!AdoptedKept
          /\ Is("retries") => VRetries!AdoptedKept
          /\ Is("shared") => VShared!AdoptedKept
          /\ Is("requests") => VRequests!AdoptedKept
          /\ Is("repeated") => VRepeated!AdoptedKept
          /\ Is("host") => Host!InUseKept]_allvars

\* An image goes only after what was made for it: the templates its rows named at
\* its deletion, of all the Providers that share the one finalizer; the import that
\* a host reported.
GoesLast ==
    /\ Is("imports") => VImports!RecordedTemplatesGo
    /\ Is("retries") => VRetries!RecordedTemplatesGo
    /\ Is("shared") => VShared!RecordedTemplatesGo
    /\ Is("host") => Host!ReleasedFirst

\* A request to import again is taken off only once the Job of each Provider was
\* deleted for it.  Except that a Provider that gets to no Job or cannot delete it is
\* marked all the same, and that nothing is said of a request made while a marker, a
\* store or a pass of the one before is left: VSphereImage.
RequestReachesAll ==
    [][Is("imports") \/ Is("denied") \/ Is("requests") \/ Is("repeated") =>
          (obj.request /\ ~obj'.request /\ ghost.fresh
              => provider \subseteq ghost.acted \cup ghost.over)]_allvars

\* What is published is this image's and this source's build, also when an image of
\* the name, or a build of the image, was there before; and it is where it has to be.
PublishedIsBuilt ==
    /\ Is("published") => BPublished!ReadyIsTheBuild /\ BPublished!PushedIsTheBuild
    /\ Is("refused") => BRefused!ReadyIsTheBuild
    /\ Is("pools") => LPools!ReadyEverywhere
    /\ Is("poolRetries") => LRetries!ReadyEverywhere

\* A build that is started because there is none does not use a volume that goes with
\* the build before it.  One that a pass starts blindly, by applying what was there when
\* it looked and is gone by now, may.
VolumeIsOwn ==
    /\ Is("published") => BPublished!VolumeIsOwn
    /\ Is("refused") => BRefused!VolumeIsOwn

Served ==
    CASE Is("imports") -> obj.life # "live" \/ VImports!Served
      [] Is("denied") -> obj.life # "live" \/ VDenied!Served
      [] Is("retries") -> obj.life # "live" \/ VRetries!Served
      [] Is("shared") -> obj.life # "live" \/ VShared!Served
      [] Is("requests") -> obj.life # "live" \/ VRequests!Served
      [] Is("repeated") -> obj.life # "live" \/ VRepeated!Served
      [] Is("pools") -> LPools!Served
      [] Is("poolRetries") -> LRetries!Served
      [] Is("published") -> BPublished!Served
      [] Is("refused") -> BRefused!Served
      [] OTHER -> TRUE

\* An image is built, imported and reported in the end, and a request is taken off,
\* whichever passes, pods and Jobs fail on the way: a Job whose result is gone is
\* started again.  Except a pre-lay Job: when its pod goes before the builder has read
\* the result, the image is never reported (ImageBuild!PrelayUnread).
ImageServed == []<>Served

\* The images of a host are alike.
Life == IF Is("host") THEN obj[x1].life ELSE IF IsV THEN obj.life ELSE "live"

\* A deleted image goes: neither an importing host nor a Provider that was deleted
\* keeps the finalizer, as long as a workload is there to remove it.
DeletedImageGoes == Life = "deleting" ~> (Life = "absent" \/ (IsV /\ provider = {}))
=============================================================================
