--------------------------- MODULE HostImageCache ---------------------------
(***************************************************************************)
(* The images in the caches of a Cloud Hypervisor host (vmimage.rs,        *)
(* import.rs of the provider) and the finalizer the controller holds for   *)
(* them (vmimage.rs of the controller).                                    *)
(*                                                                         *)
(* Two actors work on an image: the host, which pulls the file its build   *)
(* was pushed as, reports a row and evicts what nobody refers to; and the  *)
(* controller, which lets a deleted image go once the host released it.    *)
(* Files are named by digest, so two images may be the same file.  The     *)
(* caches of the storage classes are one here: a file is in all or none.   *)
(***************************************************************************)
EXTENDS Integers, Sequences, FiniteSets

CONSTANTS
    Images, Files,
    First,          \* the file every image is, to begin with
    Keep,           \* registry.keep_unreferenced
    MaxFaults, MaxChanges

VARIABLES
    obj,        \* the VMImages: row of this host, and the digest that was pushed
    cache,      \* as the stores of host and controller hold them
    backend,    \* the host: cached files, and the import unit of each image
    machine,    \* the boot image of the machine on this host
    pc, pass,   \* the host's pass for each image
    ghost,      \* what became referenced since a pass listed, who reported late
    faults, changes

vars == <<obj, cache, backend, machine, pc, pass, ghost, faults, changes>>

NoFile == "none"
Reasons == {"none", "waiting", "importing", "ready", "released"}
Objects == [life: {"live", "deleting", "absent"}, fin: BOOLEAN,
            pushed: Files \cup {NoFile}, row: Reasons, ref: Files \cup {NoFile}]
Units == [state: {"absent", "running", "failed"}, file: Files \cup {NoFile}]
NoUnit == [state |-> "absent", file |-> NoFile]
Blank == [life |-> "absent", fin |-> FALSE, pushed |-> NoFile, row |-> "none", ref |-> NoFile]
NoPass == [row |-> "none", ref |-> NoFile, used |-> {}]

\* The cached files, newest first.
Cached == {backend.files[n] : n \in 1..Len(backend.files)}

TypeOK ==
    /\ obj \in [Images -> Objects] /\ cache \in [Images -> Objects]
    /\ backend.files \in Seq(Files) /\ Len(backend.files) = Cardinality(Cached)
    /\ backend.unit \in [Images -> Units]
    /\ machine \in Files \cup {NoFile}
    /\ pc \in [Images -> {"idle", "row", "list", "evict", "used", "remove"}]
    /\ pass \in [Images -> [row: Reasons, ref: Files \cup {NoFile},
                            used: SUBSET Files]]
    /\ ghost \in [since: [Images -> SUBSET Files], late: SUBSET Images]
    /\ faults \in 0..MaxFaults /\ changes \in 0..MaxChanges

Init ==
    /\ obj = [i \in Images |-> [Blank EXCEPT !.life = "live", !.fin = TRUE, !.pushed = First]]
    /\ cache = obj
    /\ backend = [files |-> <<>>, unit |-> [i \in Images |-> NoUnit]]
    /\ machine = NoFile
    /\ pc = [i \in Images |-> "idle"] /\ pass = [i \in Images |-> NoPass]
    /\ ghost = [since |-> [i \in Images |-> {}], late |-> {}]
    /\ faults = 0 /\ changes = 0

At(i, stage) == pc[i] = stage
Goto(i, stage) == pc' = [pc EXCEPT ![i] = stage]
Knows(i, known) == pass' = [pass EXCEPT ![i] = known]
End(i) == Goto(i, "idle") /\ Knows(i, NoPass)
Fail == faults < MaxFaults /\ faults' = faults + 1
FailPass(i) == Fail /\ End(i)
KeepWorld == UNCHANGED <<cache, machine, changes>>

unit(i) == backend.unit[i]
SetUnit(i, u) == backend' = [backend EXCEPT !.unit[i] = u]

-----------------------------------------------------------------------------
(* The host.                                                               *)

\* A failed unit is reported and cleared, so that the next pass starts another.
url_row(i) ==
    /\ At(i, "idle") /\ cache[i].life = "live" /\ UNCHANGED <<obj, ghost>> /\ KeepWorld
    /\ LET file == cache[i].pushed
           done == file \in Cached
           unitAfter == IF unit(i).state = "failed" THEN NoUnit
                        ELSE IF unit(i).state = "absent" /\ ~done
                             THEN [state |-> "running", file |-> file] ELSE unit(i)
           row == IF file = NoFile THEN "waiting" ELSE IF done THEN "ready" ELSE "importing"
       IN  /\ IF file = NoFile THEN UNCHANGED backend ELSE SetUnit(i, unitAfter)
           /\ Goto(i, "row") /\ UNCHANGED faults
           /\ Knows(i, [NoPass EXCEPT !.row = row, !.ref = IF row = "ready" THEN file ELSE NoFile])

\* What a file's new reference adds to the passes that have listed already.
Since(file) ==
    [j \in Images |-> ghost.since[j] \cup IF pc[j] \in {"evict", "remove"} THEN {file} \ {NoFile} ELSE {}]

patch_row(i) ==
    /\ At(i, "row") /\ UNCHANGED backend /\ KeepWorld
    /\ \/ /\ obj[i].life # "absent"
          /\ obj' = [obj EXCEPT ![i].row = pass[i].row, ![i].ref = pass[i].ref]
          /\ ghost' = [ghost EXCEPT !.since = IF obj[i].ref = pass[i].ref THEN @ ELSE Since(pass[i].ref)]
          /\ \/ /\ IF pass[i].row = "ready" THEN Goto(i, "list") /\ UNCHANGED pass ELSE End(i)
                /\ UNCHANGED faults
             \/ FailPass(i)
       \/ obj[i].life = "absent" /\ End(i) /\ UNCHANGED <<obj, ghost, faults>>
       \/ FailPass(i) /\ UNCHANGED <<obj, ghost>>

referenced_by_images(files) ==
    {f \in files : \E j \in Images : obj[j].life = "live" /\ obj[j].ref = f}

\* What the rows of images that are not being deleted name, and machines boot from.
referenced_files(files) ==
    {f \in files : machine = f \/ \E j \in Images : obj[j].life = "live" /\ obj[j].ref = f}

live_references(i, at, next) ==
    /\ At(i, at) /\ UNCHANGED <<obj, backend>> /\ KeepWorld
    /\ \/ /\ Knows(i, [pass[i] EXCEPT !.used = referenced_files(Files)]) /\ Goto(i, next)
          /\ ghost' = [ghost EXCEPT !.since[i] = {}] /\ UNCHANGED faults
       \/ FailPass(i) /\ UNCHANGED ghost

remove_from_caches(files) ==
    backend' = [backend EXCEPT !.files = SelectSeq(@, LAMBDA f : f \notin files)]

\* Of the files that are not referenced the newest are kept.
eviction_candidates(used) ==
    LET unreferenced == SelectSeq(backend.files, LAMBDA f : f \notin used)
    IN  {unreferenced[n] : n \in (Keep + 1)..Len(unreferenced)}

evict_unreferenced(i) ==
    \/ live_references(i, "list", "evict")
    \/ /\ At(i, "evict") /\ remove_from_caches(eviction_candidates(pass[i].used))
       /\ End(i) /\ ghost' = [ghost EXCEPT !.since[i] = {}]
       /\ UNCHANGED <<obj, faults>> /\ KeepWorld

\* The file the row names, or else the one that would be pulled.
ReleasedFile(image) == IF image.ref # NoFile THEN image.ref ELSE image.pushed

release_unit_kept(i) ==
    /\ Goto(i, "used") /\ Knows(i, [NoPass EXCEPT !.ref = ReleasedFile(cache[i])])
    /\ UNCHANGED backend

\* A deleted image: its import is stopped first.
release_unit(i) ==
    /\ Goto(i, "used") /\ Knows(i, [NoPass EXCEPT !.ref = ReleasedFile(cache[i])])
    /\ SetUnit(i, NoUnit)

\* Its file is removed unless another image or a machine uses it.
release(i) ==
    \/ /\ At(i, "idle") /\ cache[i].life = "deleting" /\ release_unit(i)
       /\ UNCHANGED <<obj, ghost, faults>> /\ KeepWorld
    \/ live_references(i, "used", "remove")
    \/ /\ At(i, "remove") /\ remove_from_caches({pass[i].ref} \ pass[i].used)
       /\ Goto(i, "row") /\ Knows(i, [NoPass EXCEPT !.row = "released"])
       /\ ghost' = [ghost EXCEPT !.since[i] = {}]
       /\ UNCHANGED <<obj, faults>> /\ KeepWorld

\* The unit pulls the file, under another name until it is complete.
import_run(i) ==
    /\ unit(i).state = "running"
    /\ \/ /\ backend' = [backend EXCEPT !.unit[i] = NoUnit,
             !.files = IF unit(i).file \in Cached THEN @ ELSE <<unit(i).file>> \o @]
          /\ UNCHANGED faults
       \/ Fail /\ SetUnit(i, [unit(i) EXCEPT !.state = "failed"])
    /\ UNCHANGED <<obj, pc, pass, ghost>> /\ KeepWorld

-----------------------------------------------------------------------------
(* The controller.                                                         *)

hosts_not_waited_for(image) == FALSE

\* A host that has not reported at all is not waited for.
hosts_pending_release(image) == image.row \notin {"none", "released"}

reconcile_host_cache(i) ==
    /\ cache[i].life = "deleting" /\ cache[i].fin /\ ~hosts_pending_release(cache[i])
    /\ obj[i].life # "absent"
    /\ obj' = [obj EXCEPT ![i] = [@ EXCEPT !.life = "absent", !.fin = FALSE]]
    /\ UNCHANGED <<backend, pc, pass, ghost, faults>> /\ KeepWorld

-----------------------------------------------------------------------------
(* Everybody else.                                                         *)

Change == changes < MaxChanges /\ changes' = changes + 1
OnlyWorld == UNCHANGED <<cache, backend, pc, pass, faults>>

Sync(i) ==
    /\ cache[i] # obj[i] /\ cache' = [cache EXCEPT ![i] = obj[i]]
    /\ UNCHANGED <<obj, backend, machine, pc, pass, ghost, faults, changes>>

Delete(i) ==
    /\ Change /\ obj[i].life = "live" /\ obj' = [obj EXCEPT ![i].life = "deleting"]
    /\ ghost' = [ghost EXCEPT !.late = IF obj[i].row = "none" THEN @ \cup {i} ELSE @]
    /\ UNCHANGED machine /\ OnlyWorld

\* A new build of the image is pushed.
Push(i, file) ==
    /\ Change /\ obj[i].life = "live" /\ obj[i].pushed # file
    /\ obj' = [obj EXCEPT ![i].pushed = file] /\ UNCHANGED <<machine, ghost>> /\ OnlyWorld

\* A machine is scheduled to the host for an image that is ready there.
MachineCreated(i) ==
    /\ machine = NoFile /\ obj[i].life = "live" /\ obj[i].row = "ready"
    /\ machine' = obj[i].ref /\ ghost' = [ghost EXCEPT !.since = Since(machine')]
    /\ UNCHANGED <<obj, changes>> /\ OnlyWorld

MachineDeleted ==
    /\ Change /\ machine # NoFile /\ machine' = NoFile
    /\ UNCHANGED <<obj, ghost>> /\ OnlyWorld

HostPass(i) ==
    \/ url_row(i) \/ patch_row(i) \/ evict_unreferenced(i) \/ release(i)

Next ==
    \/ \E i \in Images :
          \/ HostPass(i) \/ import_run(i) \/ reconcile_host_cache(i) \/ Sync(i)
          \/ Delete(i) \/ MachineCreated(i)
          \/ \E f \in Files : Push(i, f)
    \/ MachineDeleted

Fairness ==
    \A i \in Images : /\ WF_vars(HostPass(i)) /\ WF_vars(import_run(i))
                      /\ WF_vars(reconcile_host_cache(i)) /\ WF_vars(Sync(i))

Spec == Init /\ [][Next]_vars /\ Fairness
-----------------------------------------------------------------------------
(* Properties.                                                             *)

\* A file that images or machines refer to is not removed by a pass, however the
\* passes of other images run in between, unless the reference is younger than the
\* list the pass works from.
InUseKept ==
    \A f \in Cached \ UNION {ghost.since[i] : i \in Images} :
        (machine = f \/ \E j \in Images : obj[j].life = "live" /\ obj[j].ref = f) =>
        \E n \in 1..Len(backend'.files) : backend'.files[n] = f

\* A deleted image goes only when the host has stopped importing it, if the host
\* had reported on it.
ReleasedFirst ==
    \A i \in Images : obj[i].life = "absent" /\ i \notin ghost.late => unit(i).state = "absent"
=============================================================================
