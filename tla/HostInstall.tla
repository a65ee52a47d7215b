---------------------------- MODULE HostInstall -----------------------------
(***************************************************************************)
(* `banlieue host cloud-hypervisor install` (banlieue-host: stages.rs): a  *)
(* machine becomes a Cloud Hypervisor host, stage by stage.  A stage looks *)
(* at what is there and writes what is not, one file at a time, each by a  *)
(* rename; the command is run again, with other flags and other releases,  *)
(* and may stop between any two writes.                                    *)
(***************************************************************************)
EXTENDS Integers, Sequences, FiniteSets, SequencesExt

CONSTANTS
    Releases,       \* of the VMM and its firmware
    Pinned,         \* the one whose digests are compiled in
    Ranges,         \* settings that differ: guest uid ranges
    Uids,           \* range -> its uids, in order; a range may be empty
    MaxRuns, MaxStops

VARIABLES
    disk,           \* what is installed
    outside,        \* what others put there: the provider's binary and kubeconfig
    run,            \* the flags of the command that runs
    todo,           \* its steps that are left
    last,           \* how the last command ended
    runs, stops

vars == <<disk, outside, run, todo, last, runs, stops>>

None == "none"
Stages == {"preflight", "vmm", "host", "tpm", "polkit", "provider", "selftest"}
Artifacts == {"vmm", "remote", "firmware"}
Parts == <<"user", "group", "user link", "group link">>
AllUids == UNION {Range(Uids[r]) : r \in Ranges}
NoRun == [only |-> None, force |-> FALSE, rel |-> None, range |-> None, bytes |-> "none"]

\* files: releases whose artifact is there; the links; the records of a guest
\* uid; the provider's config; swtpm's three files; the CA: its key and its
\* certificate, 0 for none, else the number of the CA they are of.
Blank ==
    [files |-> [a \in Artifacts |-> {}], link |-> [a \in {"vmm", "remote"} |-> None],
     user |-> FALSE, records |-> [u \in AllUids |-> {}],
     config |-> [rel |-> None, range |-> None],
     swtpm |-> {}, ca |-> [cert |-> 0, key |-> 0],
     polkit |-> None, units |-> None, enabled |-> FALSE]

Init ==
    /\ disk = Blank /\ outside = [fit |-> TRUE, binary |-> FALSE, kubeconfig |-> FALSE]
    /\ run = NoRun /\ todo = <<>> /\ last = None /\ runs = 0 /\ stops = 0

-----------------------------------------------------------------------------
(* The steps of a stage.                                                   *)

Do(op, x) == [op |-> op, x |-> x]
Each(op, xs) == [i \in 1..Len(xs) |-> Do(op, xs[i])]

vmm_links_first ==
    Each("link", <<"vmm", "remote">>) \o <<Do("fetch", None)>> \o Each("file", <<"vmm", "remote", "firmware">>)

\* Everything is fetched and verified before anything is placed; the links are
\* last.
vmm ==
    <<Do("fetch", None)>> \o Each("file", <<"vmm", "remote", "firmware">>) \o Each("link", <<"vmm", "remote">>)

host(range) == <<Do("user", None)>> \o Each("records", Uids[range]) \o <<Do("nss", None), Do("config", None)>>

ca_removed_key_first == <<"key", "cert">>
\* `list` is sorted: issuercert.pem goes before signkey.pem.
ca_removed == <<"cert", "key">>

tpm(force) ==
    Each("swtpm", <<"localca", "options", "setup">>)
        \o (IF force THEN Each("uncertify", ca_removed) ELSE <<>>) \o <<Do("ca", None)>>

StageSteps(s, force, range) ==
    CASE s = "preflight" -> <<Do("preflight", None)>>
      [] s = "vmm" -> vmm
      [] s = "host" -> host(range)
      [] s = "tpm" -> tpm(force)
      [] s = "polkit" -> <<Do("polkit", None)>>
      [] s = "provider" -> <<Do("units", None), Do("enable", None)>>
      [] s = "selftest" -> <<Do("selftest", None)>>

plan(only) ==
    IF only # None THEN <<only>>
    ELSE <<"preflight", "vmm", "host", "tpm", "polkit", "provider", "selftest">>

-----------------------------------------------------------------------------
(* What a stage finds.                                                     *)

HasVmm(rel) == disk.link["vmm"] # None /\ rel \in disk.files["firmware"]
HasHost == disk.user /\ disk.config.rel # None

\* The commands the host supplies are there when it is fit.
missing_prerequisites(only, rel) ==
    LET need == CASE only \in {"tpm", "polkit"} -> outside.fit /\ HasHost
                  [] only = "provider" -> HasHost
                  [] only = "selftest" -> HasVmm(rel) /\ HasHost /\ disk.ca.cert # 0 /\ disk.polkit # None
                  [] OTHER -> TRUE
    IN ~need

\* A uid or gid resolves through the link that is named after it.
Resolves(u, part) == {part, part \o " link"} \subseteq disk.records[u]

\* The VMM runs, the firmware is the release's, the first uid resolves, the
\* provider's own checks pass, and a vTPM can be made: the CA has its key.
selftest ==
    /\ disk.link["vmm"] # None /\ run.rel \in disk.files["firmware"]
    /\ Resolves(Head(Uids[run.range]), "user") /\ outside.fit /\ HasHost
    /\ disk.config.rel \in disk.files["firmware"]
    /\ disk.swtpm = {"localca", "options", "setup"}
    /\ disk.ca.cert # 0 /\ disk.ca.cert = disk.ca.key

-----------------------------------------------------------------------------
(* install.                                                                *)

Keep == UNCHANGED <<outside, run, runs, stops>>
End(how) == todo' = <<>> /\ last' = how /\ UNCHANGED disk
Go(d) == disk' = d /\ todo' = Tail(todo) /\ last' = (IF Len(todo) = 1 THEN "ok" ELSE last)

\* The digest a file has to have: the compiled one of the pinned release, whose
\* digest no flag may name; else the flag's, or the published one.
source(rel, given, published) ==
    IF rel = Pinned THEN IF given # None THEN None ELSE "compiled"
    ELSE IF given # None THEN given ELSE published

\* Settings: an empty guest range is refused.
settings_resolve(range) == Uids[range] # <<>>

\* The release: a file without a digest is refused.
release_resolve(rel, given, published) == source(rel, given, published) # None

\* An operator starts the command; --only looks at what the stage builds on.
install ==
    /\ todo = <<>> /\ runs < MaxRuns /\ runs' = runs + 1
    /\ \/ /\ \E rel \in Releases, range \in Ranges, given \in {None, "flag"}, published \in {None, "published"} :
                ~settings_resolve(range) \/ ~release_resolve(rel, given, published)
          /\ todo' = <<>> /\ last' = "setting" /\ run' = NoRun
       \/ \E only \in Stages \cup {None}, force \in BOOLEAN, rel \in Releases, range \in Ranges,
             bytes \in {"good", "bad"} :
          /\ settings_resolve(range)
          /\ \E given \in {None, "flag"}, published \in {None, "published"} : release_resolve(rel, given, published)
          /\ IF only # None /\ missing_prerequisites(only, rel)
             THEN todo' = <<>> /\ last' = "prerequisite" /\ run' = NoRun
             ELSE /\ last' = None
                  /\ run' = [only |-> only, force |-> force, rel |-> rel, range |-> range, bytes |-> bytes]
                  /\ todo' = FlattenSeq([i \in 1..Len(plan(only)) |->
                                            StageSteps(plan(only)[i], force, range)])
    /\ UNCHANGED <<disk, outside, stops>>

\* Only what is not there is fetched, or everything with --force.
fetch_verified ==
    IF run.bytes = "bad" /\ (run.force \/ \E a \in Artifacts : run.rel \notin disk.files[a])
    THEN End("pin") ELSE Go(disk)

\* A uid whose user record is there is passed over.
register_guest_uids(u) ==
    /\ UNCHANGED <<disk, last>>
    /\ todo' = (IF "user" \in disk.records[u] THEN <<>>
                ELSE [i \in 1..4 |-> Do("record", <<u, Parts[i]>>)]) \o Tail(todo)

nss_resolves ==
    IF Resolves(Head(Uids[run.range]), "user") /\ Resolves(Last(Uids[run.range]), "group")
    THEN Go(disk) ELSE End("nss")

\* An existing config keeps all but what it says of the VMM.
refresh_vmm_section(config) == [config EXCEPT !.rel = run.rel]
host_config ==
    Go([disk EXCEPT !.config = IF disk.config.rel = None \/ run.force
                               THEN [rel |-> run.rel, range |-> run.range] ELSE refresh_vmm_section(@)])

\* swtpm_localca makes the CA when its certificate is missing.
create_ca ==
    Go(IF disk.ca.cert = 0 \/ run.force THEN [disk EXCEPT !.ca = [cert |-> runs, key |-> runs]] ELSE disk)

enable_provider_always == Go([disk EXCEPT !.enabled = @ \/ outside.binary])
enable_provider == Go([disk EXCEPT !.enabled = @ \/ (outside.binary /\ outside.kubeconfig)])

\* What the host has to be, changing nothing.
preflight == IF outside.fit THEN Go(disk) ELSE End("unfit")

\* Files and links are written beside and renamed, so a stop leaves the old or
\* the new one.
put(a) == Go([disk EXCEPT !.files[a] = @ \cup {run.rel}])
link(a) == Go([disk EXCEPT !.link[a] = run.rel])
guest_record(u, part) == Go([disk EXCEPT !.records[u] = @ \cup {part}])
swtpm_config(f) ==
    Go(IF "setup" \in disk.swtpm /\ ~run.force THEN disk ELSE [disk EXCEPT !.swtpm = @ \cup {f}])
remove(f) == Go([disk EXCEPT !.ca[f] = 0])

\* The rule and the units are rendered from the flags of this command.
polkit == Go([disk EXCEPT !.polkit = run.range])
provider == Go([disk EXCEPT !.units = run.range])

install_step ==
    /\ todo # <<>> /\ Keep
    /\ LET op == Head(todo).op  x == Head(todo).x IN
       CASE op = "preflight" -> preflight
         [] op = "fetch" -> fetch_verified
         [] op = "file" -> put(x)
         [] op = "link" -> link(x)
         [] op = "user" -> Go([disk EXCEPT !.user = TRUE])
         [] op = "records" -> register_guest_uids(x)
         [] op = "record" -> guest_record(x[1], x[2])
         [] op = "nss" -> nss_resolves
         [] op = "config" -> host_config
         [] op = "swtpm" -> swtpm_config(x)
         [] op = "uncertify" -> remove(x)
         [] op = "ca" -> create_ca
         [] op = "polkit" -> polkit
         [] op = "units" -> provider
         [] op = "enable" -> enable_provider
         [] op = "selftest" -> IF selftest THEN Go(disk) ELSE End("selftest")

\* The command is interrupted, or a write fails.
Stop ==
    /\ todo # <<>> /\ stops < MaxStops /\ stops' = stops + 1
    /\ End("stopped") /\ UNCHANGED <<outside, run, runs>>

\* The administrator places the binary and the credential, or the host loses
\* what makes it fit.
Outside ==
    /\ todo = <<>>
    /\ \E f \in {"fit", "binary", "kubeconfig"} :
          /\ f = "fit" => runs > 0
          /\ outside' = [outside EXCEPT ![f] = f # "fit"] /\ outside' # outside
    /\ UNCHANGED <<disk, run, todo, last, runs, stops>>

Next == install \/ install_step \/ Stop \/ Outside

Spec == Init /\ [][Next]_vars /\ WF_vars(install_step)
-----------------------------------------------------------------------------
(* Properties.                                                             *)

Torn == \E u \in AllUids : disk.records[u] \notin {{}, Range(Parts)}

\* Whatever was interrupted before: a VMM on the path is one whose files were all
\* verified and are all there; every command but one that could not finish leaves
\* a host that passes its own checks, so a stopped install is repaired by running
\* it again - except one that stopped between the four records of a guest uid,
\* which are never completed; and a host that ran through has a provider's config
\* that names the release that was installed.
HostSound ==
    /\ \A a \in {"vmm", "remote"} : disk.link[a] # None =>
          \A b \in Artifacts : disk.link[a] \in disk.files[b]
    /\ last \in {"nss", "selftest"} => Torn \/ ~outside.fit \/ run.only # None
    /\ (last = "ok" /\ run.only = None /\ todo = <<>>) =>
          /\ disk.config.rel = run.rel /\ disk.link["vmm"] = run.rel
          /\ disk.polkit = run.range /\ disk.units = run.range

\* A CA stays the CA the host's guests have their certificates from, unless
\* --force asks for another; bytes that fail their digest change nothing of what
\* is placed; an unfit host is not touched by a whole install; and the provider
\* is enabled only with its binary and its kubeconfig.
NothingLost ==
    /\ (disk.ca.cert # 0 /\ disk'.ca.cert # disk.ca.cert) => run.force
    /\ (todo # <<>> /\ run.bytes = "bad" /\ \E a \in Artifacts : run.rel \notin disk.files[a])
          => disk'.files = disk.files /\ disk'.link = disk.link
    /\ (run.only = None /\ ~outside.fit) => disk' = disk
    /\ (disk'.enabled /\ ~disk.enabled) => outside.binary /\ outside.kubeconfig
HostKept == [][NothingLost]_vars
=============================================================================
