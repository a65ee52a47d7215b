------------------------ MODULE InfraMachineProofs --------------------------
(***************************************************************************)
(* What the machine reconcilers have in common, as far as the proofs that  *)
(* they implement MachineLifecycle need it: the machine under its          *)
(* finalizer, the copies of it that the store and passes hold, and what    *)
(* becomes of them when the machine is deleted, taken away by hand or      *)
(* created again.                                                          *)
(*                                                                         *)
(* `working` stands for the stages of a pass between the finalizer and its *)
(* end; a provider's module says which they are.                           *)
(***************************************************************************)
EXTENDS InfraMachine, TLAPS

\* What the proofs need of the types of a provider.
Copies ==
    /\ \A x \in {obj, cache, pass.snap} : x.uid \in Uids /\ x.life \in Lives
    /\ faults \in Nat

\* Copy x of the machine is no newer than copy y.
Older(x, y) ==
    /\ x.uid <= y.uid
    /\ x.uid = y.uid /\ x.life = "deleting" => y.life # "live"

History ==
    /\ Older(cache, obj)
    /\ pc # "idle" => Older(pass.snap, cache) /\ Older(pass.snap, obj) /\ pass.snap.life # "absent"
    /\ obj.life = "deleting" => obj.fin

\* Nobody but a pass that was handed the machine puts the finalizer on it, and no
\* older copy is handed out after that.
Current ==
    ~Excused /\ obj.fin => cache.uid = obj.uid /\ (pc # "idle" => pass.snap.uid = obj.uid)

\* The machine of uid u is there, under the finalizer.
Owned(u) == obj.uid = u /\ obj.life # "absent" /\ obj.fin

\* The finalizer was taken off by hand, and the pass will notice.
Noticed(u) == "noticed" \in loss /\ (obj.uid # u \/ obj.life = "absent")

\* A copy under the finalizer is of a machine under the finalizer.
Witness(x) == x.life = "live" /\ x.fin => Owned(x.uid) \/ Noticed(x.uid)

\* So is the machine of a pass past the finalizer.
Witnessed(working) ==
    ~Excused => /\ Witness(cache)
                /\ pc # "idle" => Witness(pass.snap)
                /\ pc \in working => Owned(pass.snap.uid) \/ Noticed(pass.snap.uid)

-----------------------------------------------------------------------------
\* What the steps of a provider have in common.

\* What a step does to the machine.
ApiMoves(working) ==
    \/ UNCHANGED obj /\ (UNCHANGED cache \/ (cache' = obj /\ UNCHANGED pc)) /\ loss \subseteq loss'
    \/ /\ UNCHANGED cache /\ loss \subseteq loss'
       /\ obj'.life = obj.life /\ obj'.uid = obj.uid /\ obj'.fin = obj.fin
    \/ /\ pc = "finalizer" /\ pc' # "idle" /\ UNCHANGED cache /\ loss' = loss \cup Namesake
       /\ obj.life # "absent" /\ obj'.life = obj.life /\ obj'.uid = obj.uid /\ obj'.fin
    \/ /\ pc = "finRemove" /\ pc' = "idle" /\ UNCHANGED cache /\ loss' = loss \cup Namesake
       /\ obj'.life = (IF obj.life = "deleting" THEN "absent" ELSE obj.life)
       /\ obj'.uid = obj.uid /\ ~obj'.fin
    \/ /\ UNCHANGED <<cache, pc, pass, loss>>
       /\ obj.life = "absent" /\ obj'.life = "live" /\ obj'.uid = obj.uid + 1 /\ ~obj'.fin
    \/ /\ UNCHANGED <<cache, pc, pass, loss, faults, backend>> /\ obj.life = "live"
       /\ obj'.life = (IF obj.fin THEN "deleting" ELSE "absent")
       /\ obj'.uid = obj.uid /\ obj'.fin = obj.fin
    \/ /\ UNCHANGED <<cache, pc, pass>> /\ loss \subseteq loss'
       /\ "forced" \in loss' \/ ("noticed" \in loss' /\ pc \in working)
       /\ obj.life = "deleting" /\ obj'.life = "absent" /\ obj'.uid = obj.uid /\ ~obj'.fin

\* The copy a pass works from is the one it was handed.
SnapMoves ==
    pc' # "idle" => \/ pc # "idle" /\ pass'.snap = pass.snap
                    \/ /\ pc = "idle" /\ pass'.snap = cache /\ cache.life # "absent"
                       /\ UNCHANGED <<obj, cache>>

FaultMoves == UNCHANGED faults \/ Fail

\* The finalizer comes before the work, and is taken for granted only when the
\* pass was handed the machine with it.
Enters(working) ==
    pc' \in working =>
        /\ pc # "idle" /\ pc' # "idle"
        /\ \/ pc \in working
           \/ /\ pc = "finalizer" /\ pass.snap.life = "live"
              /\ \/ pass.snap.fin
                 \/ obj'.life # "absent" /\ obj'.uid = obj.uid /\ obj'.fin /\ loss' = loss \cup Namesake

-----------------------------------------------------------------------------

\* What excuses the provider does so for good; while nothing does, no write went to
\* a namesake, and nothing failed if a finalizer was taken off.
LEMMA Unexcused ==
    ASSUME Copies, Copies', NEW W, ApiMoves(W), FaultMoves, ~Excused'
    PROVE  /\ ~Excused /\ loss \subseteq loss' /\ loss' \subseteq {"noticed", "setup"}
           /\ loss' = loss \cup Namesake => obj.uid = pass.snap.uid
           /\ "noticed" \in loss' => faults' = 0 /\ faults = 0 /\ ~Fail
<1>1. loss \subseteq loss' /\ loss' \subseteq {"noticed", "setup"}
  <2>1. loss \subseteq loss'
    BY DEF ApiMoves
  <2> QED BY <2>1 DEF Excused
<1>2. faults \in Nat /\ (faults' = faults \/ Fail) /\ faults' \in Nat
  BY DEF Copies, FaultMoves
<1>3. "noticed" \in loss' => faults' = 0 /\ faults = 0 /\ ~Fail
  BY <1>1, <1>2 DEF Excused, Fail
<1>4. ~Excused
  BY <1>1, <1>2, <1>3 DEF Excused, Fail
<1>5. loss' = loss \cup Namesake => obj.uid = pass.snap.uid
  BY <1>1 DEF Namesake
<1> QED BY <1>1, <1>3, <1>4, <1>5

\* A copy that is no newer than the machine stays so.
LEMMA OlderStep ==
    ASSUME Copies, NEW W, ApiMoves(W), NEW x, x.uid \in Nat, Older(x, obj) PROVE Older(x, obj')
<1>1. obj.uid \in Nat /\ obj.life \in Lives
  BY DEF Copies, Uids
<1> QED BY <1>1 DEF ApiMoves, Older

\* Copies only get older.
LEMMA HistoryStep ==
    ASSUME Copies, Copies', History, NEW W, ApiMoves(W), SnapMoves PROVE History'
<1>1. /\ obj.uid \in Nat /\ cache.uid \in Nat /\ pass.snap.uid \in Nat
      /\ obj.life \in Lives /\ cache.life \in Lives /\ pass.snap.life \in Lives
  BY DEF Copies, Uids
<1>2. ASSUME NEW x, x.uid \in Nat, Older(x, obj) PROVE Older(x, obj')
  BY <1>2, OlderStep
<1>3. obj'.life = "deleting" => obj'.fin
  BY DEF ApiMoves, History
<1>4. cache' = cache \/ (cache' = obj /\ UNCHANGED <<obj, pc>>)
  BY DEF ApiMoves
<1>5. Older(obj, obj) /\ Older(cache, cache)
  BY <1>1 DEF Older
<1>6. Older(cache', obj')
  BY <1>1, <1>2, <1>4, <1>5 DEF History
<1>7. ASSUME pc' # "idle"
      PROVE  Older(pass'.snap, cache') /\ Older(pass'.snap, obj') /\ pass'.snap.life # "absent"
  <2>1. CASE pc # "idle" /\ pass'.snap = pass.snap
    BY <1>1, <1>2, <1>4, <2>1 DEF History
  <2>2. CASE pass'.snap = cache /\ cache.life # "absent" /\ UNCHANGED <<obj, cache>>
    BY <1>5, <2>2 DEF History
  <2> QED BY <1>7, <2>1, <2>2 DEF SnapMoves
<1> QED BY <1>3, <1>6, <1>7 DEF History, Older

\* A machine under the finalizer is the one every copy is of.
LEMMA CurrentStep ==
    ASSUME Copies, Copies', History, Current, NEW W, ApiMoves(W), SnapMoves, FaultMoves
    PROVE  Current'
<1> SUFFICES ASSUME ~Excused', obj'.fin
             PROVE  cache'.uid = obj'.uid /\ (pc' # "idle" => pass'.snap.uid = obj'.uid)
  BY DEF Current
<1>1. ~Excused /\ (loss' = loss \cup Namesake => obj.uid = pass.snap.uid)
  BY Unexcused
<1>2. obj.uid \in Nat /\ cache.uid \in Nat /\ pass.snap.uid \in Nat
  BY DEF Copies, Uids
<1>3. CASE obj.fin /\ obj'.uid = obj.uid
  <2>1. cache.uid = obj.uid /\ (pc # "idle" => pass.snap.uid = obj.uid)
    BY <1>1, <1>3 DEF Current
  <2>2. cache' = cache \/ cache' = obj
    BY DEF ApiMoves
  <2> QED BY <1>3, <2>1, <2>2 DEF SnapMoves
<1>4. CASE /\ pc = "finalizer" /\ pc' # "idle" /\ UNCHANGED cache
           /\ loss' = loss \cup Namesake /\ obj'.uid = obj.uid
  <2>1. cache.uid = obj.uid
    BY <1>1, <1>2, <1>4 DEF History, Older
  <2> QED BY <1>1, <1>4, <2>1 DEF SnapMoves
<1> QED BY <1>3, <1>4 DEF ApiMoves

\* Only the end of a deleted machine's pass takes its finalizer off without a
\* pass that will notice.
LEMMA KeptStep ==
    ASSUME Copies, Copies', NEW W, ApiMoves(W), FaultMoves, ~Excused', NEW u \in Uids,
           u <= obj.uid, Owned(u) \/ Noticed(u)
    PROVE  \/ (Owned(u) \/ Noticed(u))'
           \/ pc = "finRemove" /\ pc' = "idle" /\ Owned(u) /\ u = pass.snap.uid /\ UNCHANGED cache
<1>1. /\ ~Excused /\ loss' \subseteq {"noticed", "setup"} /\ loss \subseteq loss'
      /\ loss' = loss \cup Namesake => obj.uid = pass.snap.uid
  BY Unexcused
<1>2. u \in Nat /\ obj.uid \in Nat
  BY DEF Copies, Uids
<1>3. CASE Noticed(u) /\ ~Owned(u)
  <2>1. obj'.uid # u \/ obj'.life = "absent"
    BY <1>2, <1>3 DEF ApiMoves, Noticed
  <2> QED BY <1>1, <1>3, <2>1 DEF Noticed
<1>4. CASE Owned(u)
  BY <1>1, <1>4 DEF ApiMoves, Owned, Noticed
<1> QED BY <1>3, <1>4

\* Copies under the finalizer, and passes past it, keep their machine.
LEMMA WitnessStep ==
    ASSUME Copies, Copies', History, NEW W, Witnessed(W), ApiMoves(W), SnapMoves, FaultMoves,
           Enters(W), pc = "finRemove" => pass.snap.life = "deleting"
    PROVE  Witnessed(W)'
<1> SUFFICES ASSUME ~Excused'
             PROVE  /\ Witness(cache)' /\ (pc' # "idle" => Witness(pass.snap)')
                    /\ pc' \in W => (Owned(pass.snap.uid) \/ Noticed(pass.snap.uid))'
  BY DEF Witnessed
<1>1. ~Excused /\ (loss' = loss \cup Namesake => obj.uid = pass.snap.uid)
  BY Unexcused
<1>2. /\ cache.uid \in Uids /\ pass.snap.uid \in Uids /\ cache.uid <= obj.uid
      /\ pc # "idle" => pass.snap.uid <= obj.uid
  BY DEF Copies, History, Older
<1>3. Witness(cache)'
  <2>1. CASE cache' = obj /\ UNCHANGED obj
    BY <2>1 DEF Witness, Owned
  <2>2. CASE UNCHANGED cache
    <3> SUFFICES ASSUME cache.life = "live", cache.fin
                 PROVE  (Owned(cache.uid) \/ Noticed(cache.uid))'
      BY <2>2 DEF Witness
    <3>1. Owned(cache.uid) \/ Noticed(cache.uid)
      BY <1>1 DEF Witnessed, Witness
    <3>2. \/ (Owned(cache.uid) \/ Noticed(cache.uid))'
          \/ pc = "finRemove" /\ cache.uid = pass.snap.uid
      BY <1>2, <2>2, <3>1, KeptStep DEF Owned, Noticed
    <3>3. ~(pc = "finRemove" /\ cache.uid = pass.snap.uid)
      BY DEF History, Older
    <3> QED BY <3>2, <3>3
  <2> QED BY <2>1, <2>2 DEF ApiMoves
<1>4. ASSUME pc' # "idle" PROVE Witness(pass.snap)'
  <2>1. CASE pc # "idle" /\ pass'.snap = pass.snap
    <3> SUFFICES ASSUME pass.snap.life = "live", pass.snap.fin
                 PROVE  (Owned(pass.snap.uid) \/ Noticed(pass.snap.uid))'
      BY <2>1 DEF Witness
    <3>1. Owned(pass.snap.uid) \/ Noticed(pass.snap.uid)
      BY <1>1, <2>1 DEF Witnessed, Witness
    <3> QED BY <1>2, <1>4, <2>1, <3>1, KeptStep DEF Owned, Noticed
  <2>2. CASE pass'.snap = cache /\ UNCHANGED cache
    BY <1>3, <2>2 DEF Witness, Owned, Noticed
  <2> QED BY <1>4, <2>1, <2>2 DEF SnapMoves
<1>5. ASSUME pc' \in W PROVE (Owned(pass.snap.uid) \/ Noticed(pass.snap.uid))'
  <2>1. pc # "idle" /\ pc' # "idle" /\ pass'.snap = pass.snap
    BY <1>5 DEF Enters, SnapMoves
  <2>2. CASE Owned(pass.snap.uid) \/ Noticed(pass.snap.uid)
    BY <1>2, <2>1, <2>2, KeptStep DEF Owned, Noticed
  <2>3. CASE ~(Owned(pass.snap.uid) \/ Noticed(pass.snap.uid))
    <3>1. pc \notin W /\ ~(pass.snap.life = "live" /\ pass.snap.fin)
      BY <1>1, <2>1, <2>3 DEF Witnessed, Witness
    <3>2. obj'.life # "absent" /\ obj'.uid = obj.uid /\ obj'.fin /\ loss' = loss \cup Namesake
      BY <1>5, <3>1 DEF Enters
    <3> QED BY <1>1, <2>1, <3>2 DEF Owned
  <2> QED BY <2>2, <2>3
<1> QED BY <1>3, <1>4, <1>5

\* The life of a machine: it is deleted by a step that does nothing else, and does
\* not come back under its uid.
LEMMA LifeStep ==
    ASSUME Copies, Copies', NEW W, ApiMoves(W), NEW u \in Uids,
           pc \notin {"idle", "read"} => pass.snap.uid <= obj.uid
    PROVE  /\ MachineOf(u) \in Lives /\ MachineOf(u)' \in Lives
           /\ MachineOf(u) = "live" /\ MachineOf(u)' = "deleting" => UNCHANGED <<loss, faults, backend>>
           /\ ~(MachineOf(u) = "deleting" /\ MachineOf(u)' = "live")
<1>1. MachineOf(u) \in Lives /\ MachineOf(u)' \in Lives
  BY DEF Copies, Lives, MachineOf
<1>2. obj.uid \in Nat /\ u \in Nat
  BY DEF Copies, Uids
<1>3. ASSUME MachineOf(u) = "live", MachineOf(u)' = "deleting"
      PROVE  UNCHANGED <<loss, faults, backend>>
  <2>1. obj.uid = u /\ obj.life = "live" /\ ~(obj'.uid = u /\ obj'.life = "live")
    BY <1>3 DEF MachineOf
  <2> QED BY <2>1 DEF ApiMoves
<1>4. ASSUME MachineOf(u) = "deleting", MachineOf(u)' = "live" PROVE FALSE
  <2>1. obj'.uid = u /\ obj'.life = "live"
    BY <1>4 DEF MachineOf
  <2>2. ~(obj.uid = u /\ obj.life # "deleting")
    BY <1>2, <1>4, <2>1 DEF MachineOf, ApiMoves
  <2>3. obj.uid + 1 = u
    BY <1>2, <2>1, <2>2 DEF ApiMoves
  <2> QED BY <1>2, <1>4, <2>3 DEF MachineOf
<1> QED BY <1>1, <1>3, <1>4
=============================================================================
