--------------------------- MODULE GuestReadiness ---------------------------
(***************************************************************************)
(* When a provider calls a guest ready: the installed system announced     *)
(* itself, its install medium is off the host, the certificate of its      *)
(* vTPM is recorded and the partitions its image seals at first boot are   *)
(* reported sealed (sealing.rs of the SDK; the guest half of the machine   *)
(* reconcilers of vSphere, libvirt and Cloud Hypervisor).                  *)
(*                                                                         *)
(* What a guest announces does not outlive its boot, and a Cloud           *)
(* Hypervisor guest tells it to the provider's process once a boot, so the *)
(* status is what remembers.  One machine is followed; a pass reads,       *)
(* ejects and writes, and may fail or stop between any two of these.       *)
(***************************************************************************)
EXTENDS Naturals, FiniteSets

CONSTANTS
    Partitions,     \* the partitions an image may seal
    Asks,           \* what a machine may ask for: [media, tpm, seal]
    MaxFaults,      \* calls that fail, restarts, passes from an older copy
    MaxReboots      \* restarts of the guest

VARIABLES
    kind,       \* the provider
    spec,       \* what the machine asks for: a medium, a vTPM, sealing
    guest,      \* the guest: its phase, and what it announced in this boot
    iso,        \* the install medium: in the running VM, in its definition; and
                \* whether a pass from an older copy put it back (a history)
    heard,      \* what the provider's process was told (Cloud Hypervisor)
    status,     \* of the machine
    seen,       \* the status in the controller's store
    late,       \* whether the sealing deadline has passed
    pc, pass,
    faults, reboots

vars == <<kind, spec, guest, iso, heard, status, seen, late, pc, pass, faults, reboots>>

Kinds == {"vsphere", "libvirt", "cloudhv"}
Specs == [media: BOOLEAN, tpm: BOOLEAN, seal: SUBSET Partitions]
Told == [installed: BOOLEAN, sealed: SUBSET Partitions]
Guests == [phase: {"installer", "first boot", "system", "halted"}, told: Told, answers: BOOLEAN]
Media == [live: BOOLEAN, defined: BOOLEAN, back: BOOLEAN]
Statuses == [ready: BOOLEAN, installed: BOOLEAN, detached: {"none", "no", "yes"}, ek: BOOLEAN,
             sealed: SUBSET Partitions, guestReady: {"unset", "false", "timeout", "true"}]
Passes == [snap: Statuses, told: Told, answers: BOOLEAN, detached: {"none", "no", "yes"}, ek: BOOLEAN]

TypeOK ==
    /\ kind \in Kinds /\ spec \in Specs /\ guest \in Guests /\ iso \in Media
    /\ heard \in Told /\ status \in Statuses /\ seen \in Statuses /\ late \in BOOLEAN
    /\ pc \in {"idle", "define", "observe", "eject", "patch", "failed"} /\ pass \in Passes
    /\ faults \in 0..MaxFaults /\ reboots \in 0..MaxReboots

Nothing == [installed |-> FALSE, sealed |-> {}]
NoStatus == [ready |-> FALSE, installed |-> FALSE, detached |-> "none", ek |-> FALSE,
             sealed |-> {}, guestReady |-> "unset"]
NoPass == [snap |-> NoStatus, told |-> Nothing, answers |-> FALSE, detached |-> "none", ek |-> FALSE]

Init ==
    /\ kind \in Kinds /\ spec \in Asks
    /\ guest = [phase |-> IF spec.media THEN "installer" ELSE "first boot",
                told |-> Nothing, answers |-> FALSE]
    /\ iso = [live |-> spec.media, defined |-> spec.media, back |-> FALSE]
    /\ heard = Nothing /\ status = NoStatus /\ seen = NoStatus /\ late = FALSE
    /\ pc = "idle" /\ pass = NoPass /\ faults = 0 /\ reboots = 0

-----------------------------------------------------------------------------
(* sealing.rs.                                                             *)

sticky_sealed_partitions(previous, observed) == previous \cup observed

missing_partitions(sealed) == spec.seal \ sealed

sealing_gate_forgiving(st, sealed) ==
    IF missing_partitions(sealed) = {} THEN "satisfied"
    ELSE IF st.ready /\ late THEN "satisfied" ELSE "pending"

\* The deadline counts from the time the Ready condition became True.
sealing_gate(st, sealed) ==
    IF missing_partitions(sealed) = {} THEN "satisfied"
    ELSE IF st.ready /\ late THEN "timed out" ELSE "pending"

-----------------------------------------------------------------------------
(* The status a pass writes, by provider.  `st` holds what was recorded,   *)
(* the facts of this pass and the new Ready condition.                     *)

\* With nothing to say about the guest, the condition stays as it is.
GuestCondition(st, published, gate, mediaPending, ekPending) ==
    IF ~published THEN st.guestReady
    ELSE IF gate = "timed out" THEN "timeout"
    ELSE IF st.installed /\ gate # "pending" /\ ~mediaPending /\ ~ekPending THEN "true"
    ELSE "false"

\* vCenter answers for every VM that runs.
status_with_observed_state(st) ==
    GuestCondition(st, st.installed \/ pass.answers, sealing_gate(st, st.sealed),
                   st.detached = "no", spec.tpm /\ ~st.ek)

libvirt_build_status(st) ==
    GuestCondition(st, st.installed \/ pass.answers \/ sealing_gate(st, st.sealed) = "timed out",
                   sealing_gate(st, st.sealed), st.detached = "no", spec.tpm /\ ~st.ek)

ch_build_status(st) ==
    GuestCondition(st, spec.media \/ st.installed \/ sealing_gate(st, st.sealed) = "timed out",
                   sealing_gate(st, st.sealed), st.detached = "no", spec.tpm /\ ~st.ek)

sticky_fields_forgotten(prev) ==
    [prev EXCEPT !.ready = TRUE, !.installed = pass.told.installed,
                 !.detached = IF @ = "yes" THEN @ ELSE pass.detached,
                 !.ek = @ \/ pass.ek,
                 !.sealed = sticky_sealed_partitions(@, pass.told.sealed)]

\* What was once observed stays.
sticky_fields(prev) ==
    [prev EXCEPT !.ready = TRUE, !.installed = @ \/ pass.told.installed,
                 !.detached = IF @ = "yes" THEN @ ELSE pass.detached,
                 !.ek = @ \/ pass.ek,
                 !.sealed = sticky_sealed_partitions(@, pass.told.sealed)]

BuildStatus(prev) ==
    LET st == sticky_fields(prev) IN
    [st EXCEPT !.guestReady = CASE kind = "vsphere" -> status_with_observed_state(st)
                                [] kind = "libvirt" -> libvirt_build_status(st)
                                [] kind = "cloudhv" -> ch_build_status(st)]

-----------------------------------------------------------------------------
(* A pass.                                                                 *)

Fail == faults < MaxFaults /\ faults' = faults + 1
KeepGuest == UNCHANGED <<kind, spec, guest, reboots>>

\* vSphere reads the machine anew; the others take the controller's copy.  Passes
\* are seconds apart, so one that is given an older copy counts as a fault.
Begin ==
    /\ pc = "idle"
    /\ \/ (kind = "vsphere" \/ seen = status) /\ UNCHANGED faults
       \/ kind # "vsphere" /\ seen # status /\ Fail
    /\ pass' = [NoPass EXCEPT !.snap = IF kind = "vsphere" THEN status ELSE seen]
    /\ pc' = IF kind = "vsphere" THEN "observe" ELSE "define"
    /\ UNCHANGED <<iso, heard, status, seen, late>> /\ KeepGuest

\* libvirt defines the domain anew on every pass, Cloud Hypervisor plans the VM
\* anew: with the medium unless the pass's copy records it as ejected.
DefineDomain ==
    /\ pc = "define" /\ UNCHANGED <<heard, status, seen, late, pass>> /\ KeepGuest
    /\ \/ /\ LET with == spec.media /\ pass.snap.detached # "yes" IN
             iso' = [iso EXCEPT !.defined = with,
                                !.back = (@ /\ iso.live) \/ (with /\ status.detached = "yes")]
          /\ pc' = "observe" /\ UNCHANGED faults
       \/ Fail /\ pc' = "failed" /\ UNCHANGED iso

\* What the guest's agent answers (libvirt), what a running VM's settings hold
\* (vSphere), or what the guest reported since the process started (Cloud
\* Hypervisor, whose host makes the certificate before the guest starts).
Observation ==
    IF kind = "cloudhv" THEN {[told |-> heard, answers |-> TRUE, ek |-> TRUE]}
    ELSE {[told |-> IF guest.answers THEN guest.told ELSE Nothing, answers |-> guest.answers, ek |-> e]
            : e \in {FALSE, kind = "vsphere" \/ (guest.answers /\ guest.told.installed)}}

Observe ==
    /\ pc = "observe" /\ UNCHANGED <<iso, heard, status, seen, late>> /\ KeepGuest
    /\ \/ /\ \E o \in Observation :
                pass' = [pass EXCEPT !.told = o.told, !.answers = o.answers, !.ek = spec.tpm /\ o.ek]
          /\ pc' = "eject" /\ UNCHANGED faults
       \/ Fail /\ pc' = "failed" /\ UNCHANGED pass

eject_tried_once(installed) ==
    installed /\ (spec.media \/ kind = "vsphere") /\ pass.snap.detached = "none"

\* Due once the installed system announced itself, until it is recorded.
eject_install_media_due(installed) ==
    installed /\ (spec.media \/ kind = "vsphere") /\ pass.snap.detached # "yes"

\* A medium that vSphere cannot eject is reported; the others end the pass.  The
\* sticky flag decides on vSphere, what was observed now on the others.  vSphere
\* asks for the medium of every guest.
settle_install_media ==
    LET installed == IF kind = "vsphere" THEN pass.snap.installed \/ pass.told.installed
                                         ELSE pass.told.installed
        recorded == IF kind = "vsphere" THEN pass.snap.detached
                    ELSE IF ~spec.media THEN "none"
                    ELSE IF pass.snap.detached = "yes" THEN "yes" ELSE "no"
    IN /\ pc = "eject" /\ UNCHANGED <<heard, status, seen, late>> /\ KeepGuest
       /\ \/ /\ eject_install_media_due(installed)
             /\ iso' = [live |-> FALSE, defined |-> FALSE, back |-> FALSE]
             /\ pass' = [pass EXCEPT !.detached = "yes"] /\ pc' = "patch" /\ UNCHANGED faults
          \/ /\ eject_install_media_due(installed) /\ Fail /\ UNCHANGED iso
             /\ pass' = [pass EXCEPT !.detached = "no"]
             /\ pc' = IF kind = "vsphere" THEN "patch" ELSE "failed"
          \/ /\ ~eject_install_media_due(installed) /\ UNCHANGED <<iso, faults>>
             /\ pass' = [pass EXCEPT !.detached = recorded] /\ pc' = "patch"

\* The time of Ready is that of its last change.  The controller's copy, which
\* vSphere does not use, follows later.
Write(st) ==
    /\ status' = st /\ seen' = IF kind = "vsphere" THEN st ELSE seen
    /\ late' = (late /\ status.ready)

\* Cloud Hypervisor and libvirt build on the copy the pass was given.
PatchStatus ==
    /\ pc \in {"patch", "failed"} /\ pc' = "idle" /\ pass' = NoPass
    /\ \/ /\ Write(IF pc = "patch" THEN BuildStatus(pass.snap)
                                   ELSE [pass.snap EXCEPT !.ready = FALSE]) /\ UNCHANGED faults
       \/ Fail /\ UNCHANGED <<status, seen, late>>
    /\ UNCHANGED <<iso, heard>> /\ KeepGuest

\* The provider's process starts anew, and has heard nothing.
Restart ==
    /\ Fail /\ (pc # "idle" \/ heard # Nothing)
    /\ pc' = "idle" /\ pass' = NoPass /\ heard' = Nothing
    /\ UNCHANGED <<iso, status, seen, late>> /\ KeepGuest

-----------------------------------------------------------------------------
(* The guest, the clock and the controller's store.                        *)

KeepProvider == UNCHANGED <<kind, spec, status, seen, pc, pass, faults>>

\* The installer is done and starts the system, which seals its partitions, or
\* halts if it cannot.
GuestProgress ==
    /\ \/ guest.phase = "installer" /\ guest' = [guest EXCEPT !.phase = "first boot"]
       \/ /\ guest.phase = "first boot"
          /\ \/ guest' = [guest EXCEPT !.phase = "system"]
             \/ spec.seal # {} /\ guest' = [guest EXCEPT !.phase = "halted"]
    /\ UNCHANGED <<iso, heard, late, reboots>> /\ KeepProvider

\* The system announces itself and what it sealed, in this or the other order,
\* once a boot.
Announce ==
    /\ guest.phase = "system"
    /\ \E told \in {[guest.told EXCEPT !.installed = TRUE], [guest.told EXCEPT !.sealed = spec.seal]} :
          /\ told # guest.told
          /\ guest' = [guest EXCEPT !.told = told, !.answers = TRUE]
          /\ heard' = IF kind # "cloudhv" THEN heard
                      ELSE [installed |-> heard.installed \/ told.installed,
                            sealed |-> heard.sealed \cup told.sealed]
    /\ UNCHANGED <<iso, late, reboots>> /\ KeepProvider

\* An agent answers before its guest announces itself, and may stop answering;
\* a VM is off for a while.
AnswersChange ==
    /\ kind # "cloudhv"
    /\ \/ ~guest.answers /\ UNCHANGED reboots
       \/ guest.answers /\ reboots < MaxReboots /\ reboots' = reboots + 1
    /\ guest' = [guest EXCEPT !.answers = ~@]
    /\ UNCHANGED <<iso, heard, late>> /\ KeepProvider

\* The VM is powered off and on: it comes back as it is defined.
Reboot ==
    /\ guest.phase = "system" /\ reboots < MaxReboots /\ reboots' = reboots + 1
    /\ guest' = [guest EXCEPT !.told = Nothing, !.answers = FALSE]
    /\ iso' = [iso EXCEPT !.live = iso.defined, !.back = @ /\ iso.defined]
    /\ UNCHANGED <<heard, late>> /\ KeepProvider

Deadline ==
    /\ status.ready /\ ~late /\ late' = TRUE
    /\ UNCHANGED <<guest, iso, heard, reboots>> /\ KeepProvider

Sync ==
    /\ seen # status /\ seen' = status
    /\ UNCHANGED <<kind, spec, guest, iso, heard, status, late, pc, pass, faults, reboots>>

Step == Begin \/ DefineDomain \/ Observe \/ settle_install_media \/ PatchStatus

Next == Step \/ Restart \/ GuestProgress \/ Announce \/ AnswersChange \/ Reboot \/ Deadline \/ Sync

\* Passes are repeated at intervals; the guest makes progress and time passes;
\* an EK certificate that is looked for again and again is found.
Fairness ==
    /\ WF_vars(Step) /\ WF_vars(GuestProgress) /\ WF_vars(Announce) /\ WF_vars(Deadline) /\ WF_vars(Sync)
    /\ WF_vars(~guest.answers /\ AnswersChange)
    /\ SF_vars(Observe /\ pass'.ek = spec.tpm)

Spec == Init /\ [][Next]_vars /\ Fairness
-----------------------------------------------------------------------------
(* Properties.                                                             *)

\* A guest is reported ready only when it is installed, its medium is neither in
\* the VM nor in the definition it is started from, its certificate is recorded
\* and every partition of its image was sealed.  The one exception is a medium that
\* was out and that a libvirt or Cloud Hypervisor pass put back, from a copy of the
\* machine in which it was not recorded as ejected yet.
ReadyIsWhole ==
    status.guestReady = "true" =>
        /\ guest.phase = "system" /\ status.ek = spec.tpm
        /\ iso.live \/ iso.defined => iso.back
        /\ spec.seal \subseteq status.sealed

\* A guest that was reported ready is not reported otherwise ("Once `Some(true)`, it
\* stays", libvirtmachine.rs), and a claim that is bound to it relies on that,
\* except by a libvirt or Cloud Hypervisor pass that works from a copy older than
\* the report.  On vSphere, whose passes read the machine anew, it always stays.
ReadyStays ==
    status.guestReady = "true" =>
        \/ status'.guestReady = "true"
        \/ kind # "vsphere" /\ pass.snap.guestReady # "true"
ReadyKept == [][ReadyStays]_vars

\* A guest that announced itself is reported ready in the end, and one that could
\* not seal is reported to have timed out, unless what a Cloud Hypervisor guest
\* reported in this boot was lost with the process.
Remembered ==
    kind = "cloudhv" => /\ guest.told.installed => heard.installed
                        /\ guest.told.sealed \subseteq heard.sealed
Judged ==
    \/ status.guestReady = "true"
    \/ guest.phase = "halted" /\ status.guestReady = "timeout"
    \/ ~Remembered
VerdictComes == Remembered ~> Judged
=============================================================================
