------------------------ MODULE VirtualMachineProofs ------------------------
(***************************************************************************)
(* No guest outlives its VirtualMachine, for any number of VMs, kinds of   *)
(* backends, failed calls and store lag.                                   *)
(*                                                                         *)
(* That an infra CR has its VM is not inductive.  The finalizer holds the  *)
(* VM while a CR exists (Held), the pass that applies a CR does it under   *)
(* the finalizer (Covered), and the pass that removes the finalizer saw    *)
(* every kind absent (Cleared).  Covered needs that a finalizer the store  *)
(* shows on a live VM is really there (StoreTrue), which a removal could   *)
(* break: it happens only when the store is past the VM's deletion         *)
(* (Finalizing, StorePast).                                                *)
(*                                                                         *)
(* Then: the types; that the guests of a paused VM are not deleted         *)
(* (PauseKept, Handed); that a pass applies a guest where the status it    *)
(* was handed records it (Handed); and that no two guests have one         *)
(* address, because the store never shows a VM without the older ones, and *)
(* a VM that sees an older one with its address gets nothing (Exclusive).  *)
(*                                                                         *)
(* The last rests on what the rule of address_conflict.rs decides, which   *)
(* comes first.  The sweeps are recursive functions: that they have the    *)
(* values their definitions say (HeldStep, DeclaredStep), and what is true *)
(* after every turn (HeldTurnSound, DeclaredTurnSound), goes by induction  *)
(* on the number of VMs swept (UpTo), from the least number of a set       *)
(* (LeastNumber).  In the end a VM is blocked exactly if a holder, or an   *)
(* older VM that is not blocked, is in its way (BlockedEquation).  That    *)
(* has one solution, also among the contenders alone (SameAnswers).  From  *)
(* it, what is promised of VMs that come, change and go (AdmissionRule).   *)
(***************************************************************************)
EXTENDS VirtualMachine, TLAPS, FiniteSetTheorems

-----------------------------------------------------------------------------
\* The rule for duplicate addresses.

\* A set of natural numbers that is not empty has a least one.
LEMMA LeastNumber ==
    ASSUME NEW T \in SUBSET Nat, T # {}
    PROVE  \E n \in T : \A m \in T : n <= m
<1> DEFINE R == {p \in Nat \X Nat : p[1] < p[2]}
<1>1. IsWellFoundedOn(R, Nat)
  BY NatLessThanWellFounded, Zenon DEF OpToRel
<1>2. \E n \in T : \A m \in T : <<m, n>> \notin R
  <2> HIDE DEF R
  <2> QED BY <1>1, WFMin
<1>3. \A n, m \in Nat : <<m, n>> \notin R => n <= m
  OBVIOUS
<1> HIDE DEF R
<1> QED BY <1>2, <1>3

\* Induction over 0..N, on the set of numbers that have the property.
LEMMA UpTo ==
    ASSUME NEW N \in Nat, NEW T, 0 \in T,
           \A n \in 1..N : n - 1 \in T => n \in T
    PROVE  0..N \subseteq T
<1> DEFINE U == (0..N) \ T
<1> SUFFICES ASSUME U # {} PROVE FALSE
  OBVIOUS
<1>1. PICK n \in U : \A m \in U : n <= m
  <2>1. U \in SUBSET Nat
    OBVIOUS
  <2> HIDE DEF U
  <2> QED BY <2>1, LeastNumber
<1>2. n \in 1..N /\ n - 1 \in 0..N /\ n - 1 \notin U
  BY <1>1
<1> QED BY <1>1, <1>2

\* f is what becomes of the first value in k steps of g.
Runs(S, first, k, g, f) ==
    /\ f \in [0..k -> S] /\ f[0] = first
    /\ \A n \in 1..k : f[n] = g[<<f[n - 1], n>>]

\* A value can be passed on through N steps.
LEMMA Iterated ==
    ASSUME NEW S, NEW first \in S, NEW N \in Nat, NEW g \in [S \X (1..N) -> S]
    PROVE  \E f : Runs(S, first, N, g, f)
<1> DEFINE Run(k, f) == Runs(S, first, k, g, f)
           T == {k \in 0..N : \E f : Run(k, f)}
<1>1. 0 \in T
  <2>1. Run(0, [n \in 0..0 |-> first])
    BY DEF Runs
  <2> HIDE DEF Run
  <2> QED BY <2>1
<1>2. ASSUME NEW k \in 1..N, k - 1 \in T PROVE k \in T
  <2>1. PICK f : Run(k - 1, f)
    BY <1>2
  <2> DEFINE h == [n \in 0..k |-> IF n = k THEN g[<<f[k - 1], k>>] ELSE f[n]]
  <2>2. g[<<f[k - 1], k>>] \in S
    BY <2>1 DEF Runs
  <2>3. h \in [0..k -> S] /\ h[0] = first
    BY <2>1, <2>2 DEF Runs
  <2>4. ASSUME NEW n \in 1..k PROVE h[n] = g[<<h[n - 1], n>>]
    <3>1. n - 1 \in 0..k /\ n - 1 # k /\ h[n - 1] = f[n - 1]
      OBVIOUS
    <3>2. CASE n = k
      BY <3>1, <3>2
    <3>3. CASE n # k
      <4>1. n \in 1..(k - 1) /\ h[n] = f[n]
        BY <3>3
      <4> QED BY <2>1, <3>1, <4>1 DEF Runs
    <3> QED BY <3>2, <3>3
  <2>5. Run(k, h)
    BY <2>3, <2>4 DEF Runs
  <2> HIDE DEF Run, h
  <2> QED BY <2>5
<1> HIDE DEF T, Run
<1>3. N \in T
  BY <1>1, <1>2, UpTo
<1> QED BY <1>3 DEF T, Run
-----------------------------------------------------------------------------
\* The order of the sweeps.

\* VMs have numbers for names and creation times, and there are finitely many.
IsVms(vms) ==
    /\ IsFiniteSet(DOMAIN vms) /\ DOMAIN vms \subseteq Nat
    /\ \A v \in DOMAIN vms : vms[v].born \in Nat

Before(vms, v) == {w \in DOMAIN vms : Older(vms, w, v)}

\* The n-th VM is the one that n - 1 are older than, and every VM has its turn,
\* the older one first.
LEMMA Turns ==
    ASSUME NEW vms, IsVms(vms)
    PROVE  LET N == Cardinality(DOMAIN vms)
           IN  /\ N \in Nat
               /\ \A n \in 1..N : Nth(vms, n) \in DOMAIN vms
               /\ \A v \in DOMAIN vms : \E n \in 1..N : Nth(vms, n) = v
               /\ \A i, j \in 1..N : Nth(vms, i) = Nth(vms, j) => i = j
               /\ \A i, j \in 1..N : Older(vms, Nth(vms, i), Nth(vms, j)) <=> i < j
<1> DEFINE D == DOMAIN vms
           N == Cardinality(D)
           rank == [v \in D |-> Cardinality(Before(vms, v))]
<1>1. N \in Nat
  BY FS_CardinalityType DEF IsVms
<1>2. /\ \A v \in D : ~Older(vms, v, v)
      /\ \A u, v, w \in D : Older(vms, u, v) /\ Older(vms, v, w) => Older(vms, u, w)
      /\ \A v, w \in D : v = w \/ Older(vms, v, w) \/ Older(vms, w, v)
  BY DEF Older, IsVms
<1>3. \A v \in D : Before(vms, v) \in SUBSET D /\ v \notin Before(vms, v)
  BY <1>2 DEF Before
<1>4. ASSUME NEW v \in D
      PROVE  IsFiniteSet(Before(vms, v)) /\ Cardinality(Before(vms, v)) \in 0..(N - 1)
  <2>1. IsFiniteSet(Before(vms, v)) /\ Cardinality(Before(vms, v)) <= N
        /\ Cardinality(Before(vms, v)) # N
    BY <1>3, FS_Subset DEF IsVms
  <2>2. Cardinality(Before(vms, v)) \in Nat
    BY <2>1, FS_CardinalityType
  <2> QED BY <1>1, <2>1, <2>2
<1>5. ASSUME NEW v \in D, NEW w \in D, Older(vms, v, w) PROVE rank[v] < rank[w]
  <2>1. Before(vms, v) \in SUBSET Before(vms, w) /\ v \in Before(vms, w)
    BY <1>2, <1>5 DEF Before
  <2>2. Before(vms, v) # Before(vms, w)
    BY <1>3, <2>1
  <2>3. /\ Cardinality(Before(vms, v)) <= Cardinality(Before(vms, w))
        /\ Cardinality(Before(vms, v)) # Cardinality(Before(vms, w))
    BY <1>4, <2>1, <2>2, FS_Subset
  <2> QED BY <1>1, <1>4, <2>3
<1>6. rank \in [D -> 0..(N - 1)]
  BY <1>4
<1>7. \A v, w \in D : rank[v] = rank[w] => v = w
  BY <1>1, <1>2, <1>5, <1>6
<1>8. \A k \in 0..(N - 1) : \E v \in D : rank[v] = k
  <2> HIDE DEF rank
  <2>1. rank \in Injection(D, 0..(N - 1))
    BY <1>6, <1>7 DEF Injection, IsInjective
  <2>2. IsFiniteSet(0..(N - 1)) /\ Cardinality(0..(N - 1)) = N
    BY <1>1, FS_Interval
  <2>3. rank \in Surjection(D, 0..(N - 1))
    BY <2>1, <2>2, FS_Injection DEF IsVms
  <2> QED BY <2>3 DEF Surjection
<1>9. ASSUME NEW n \in 1..N PROVE Nth(vms, n) \in D /\ rank[Nth(vms, n)] = n - 1
  <2>1. n - 1 \in 0..(N - 1)
    BY <1>1
  <2>2. \E v \in D : Cardinality({w \in DOMAIN vms : Older(vms, w, v)}) = n - 1
    BY <1>8, <2>1 DEF Before
  <2>3. /\ Nth(vms, n) \in D
        /\ Cardinality({w \in DOMAIN vms : Older(vms, w, Nth(vms, n))}) = n - 1
    BY <2>2, Zenon DEF Nth
  <2> QED BY <2>3 DEF Before
<1>10. ASSUME NEW v \in D PROVE \E n \in 1..N : Nth(vms, n) = v
  <2>1. rank[v] + 1 \in 1..N /\ (rank[v] + 1) - 1 = rank[v]
    BY <1>1, <1>6
  <2>2. rank[Nth(vms, rank[v] + 1)] = rank[v] /\ Nth(vms, rank[v] + 1) \in D
    BY <1>9, <2>1
  <2>3. Nth(vms, rank[v] + 1) = v
    BY <1>7, <2>2
  <2> QED BY <2>1, <2>3
<1>11. ASSUME NEW i \in 1..N, NEW j \in 1..N
       PROVE  /\ Nth(vms, i) = Nth(vms, j) => i = j
              /\ Older(vms, Nth(vms, i), Nth(vms, j)) <=> i < j
  <2> HIDE DEF rank, N
  <2>1. /\ Nth(vms, i) \in D /\ rank[Nth(vms, i)] = i - 1
        /\ Nth(vms, j) \in D /\ rank[Nth(vms, j)] = j - 1
    BY <1>9
  <2>2. Nth(vms, i) = Nth(vms, j) => i - 1 = j - 1
    BY <2>1
  <2>3. /\ Older(vms, Nth(vms, i), Nth(vms, j)) => i - 1 < j - 1
        /\ Older(vms, Nth(vms, j), Nth(vms, i)) => j - 1 < i - 1
    BY <1>5, <2>1
  <2> QED BY <1>1, <1>2, <2>1, <2>2, <2>3
<1> HIDE DEF rank
<1> QED BY <1>1, <1>9, <1>10, <1>11
-----------------------------------------------------------------------------
\* The sweeps.

ClaimsOf(vms) == UNION {vms[v].declared \cup vms[v].held : v \in DOMAIN vms}

States(vms) == [reserved: SUBSET (ClaimsOf(vms) \X DOMAIN vms), blocked: SUBSET DOMAIN vms]

\* The step of either sweep leads from state to state.
LEMMA SweepTypes ==
    ASSUME NEW vms, NEW s \in States(vms), NEW v \in DOMAIN vms
    PROVE  ReserveHeld(s, v, vms[v]) \in States(vms)
           /\ ReserveDeclared(s, v, vms[v]) \in States(vms)
<1>1. vms[v].held \subseteq ClaimsOf(vms) /\ vms[v].declared \subseteq ClaimsOf(vms)
  BY DEF ClaimsOf
<1>2. s.reserved \in SUBSET (ClaimsOf(vms) \X DOMAIN vms) /\ s.blocked \in SUBSET DOMAIN vms
  BY DEF States
<1>3. ReserveHeld(s, v, vms[v]) \in States(vms)
  <2> DEFINE taken == TakenFrom(s.reserved, v, vms[v].held)
  <2>1. s.reserved \cup ((vms[v].held \ taken) \X {v}) \in SUBSET (ClaimsOf(vms) \X DOMAIN vms)
    BY <1>1, <1>2
  <2> HIDE DEF taken
  <2>2. s.blocked \cup (IF taken = {} THEN {} ELSE {v}) \in SUBSET DOMAIN vms
    BY <1>2
  <2> QED BY <2>1, <2>2 DEF ReserveHeld, States, taken
<1>4. ReserveDeclared(s, v, vms[v]) \in States(vms)
  <2>1. s.reserved \cup (vms[v].declared \X {v}) \in SUBSET (ClaimsOf(vms) \X DOMAIN vms)
    BY <1>1, <1>2
  <2>2. [s EXCEPT !.reserved = @ \cup (vms[v].declared \X {v})] \in States(vms)
    BY <1>2, <2>1 DEF States
  <2>3. [s EXCEPT !.blocked = @ \cup {v}] \in States(vms)
    BY <1>2 DEF States
  <2> QED BY <2>2, <2>3 DEF ReserveDeclared
<1> QED BY <1>3, <1>4

\* A turn is one step.
LEMMA TurnSteps ==
    ASSUME NEW vms, NEW t, NEW v
    PROVE  /\ HeldTurn(vms, t, v) = ReserveHeld(t, v, vms[v])
           /\ DeclaredTurn(vms, t, v) = ReserveDeclared(t, v, vms[v])
<1>1. \A x : The({x}) = x
  BY DEF The
<1>2. {ReserveHeld(s, v, vms[v]) : s \in {t}} = {ReserveHeld(t, v, vms[v])}
  BY Zenon
<1>3. {ReserveDeclared(s, v, vms[v]) : s \in {t}} = {ReserveDeclared(t, v, vms[v])}
  BY Zenon
<1> QED BY <1>1, <1>2, <1>3, Zenon DEF HeldTurn, DeclaredTurn

\* The recursion of the first sweep has a solution: one ReserveHeld a turn.
LEMMA HeldStep ==
    ASSUME NEW vms, IsVms(vms), NEW N, N = Cardinality(DOMAIN vms),
           NEW sweep, sweep = HeldSweep(vms)
    PROVE  /\ sweep \in [0..N -> States(vms)] /\ sweep[0] = Nothing
           /\ \A n \in 1..N :
                sweep[n] = ReserveHeld(sweep[n - 1], Nth(vms, n), vms[Nth(vms, n)])
<1> DEFINE S == States(vms)
           Turn(s, n) == ReserveHeld(s, Nth(vms, n), vms[Nth(vms, n)])
           g == [p \in S \X (1..N) |-> Turn(p[1], p[2])]
           Body(f) == [n \in 0..N |->
                          IF n = 0 THEN Nothing ELSE HeldTurn(vms, f[n - 1], Nth(vms, n))]
<1>1. N \in Nat /\ \A n \in 1..N : Nth(vms, n) \in DOMAIN vms
  BY Turns
<1>2. \A s \in S, n \in 1..N : Turn(s, n) \in S
  BY <1>1, SweepTypes
<1>3. Nothing \in S
  BY DEF Nothing, States
<1> HIDE DEF S
<1>4. sweep = CHOOSE h : h = Body(h)
  BY DEF HeldSweep
<1>5. \A f : Body(f) = [n \in 0..N |-> IF n = 0 THEN Nothing ELSE Turn(f[n - 1], n)]
  BY TurnSteps
<1> HIDE DEF Turn, Body
<1>6. g \in [S \X (1..N) -> S] /\ \A s \in S, n \in 1..N : g[<<s, n>>] = Turn(s, n)
  BY <1>2
<1> HIDE DEF g
<1>7. PICK f : f \in [0..N -> S] /\ f[0] = Nothing /\ \A n \in 1..N : f[n] = g[<<f[n - 1], n>>]
  <2>1. PICK f : Runs(S, Nothing, N, g, f)
    BY <1>1, <1>3, <1>6, Iterated
  <2> QED BY <2>1 DEF Runs
<1>8. \A n \in 0..N : f[n] = IF n = 0 THEN Nothing ELSE Turn(f[n - 1], n)
  <2> SUFFICES ASSUME NEW n \in 1..N PROVE f[n] = Turn(f[n - 1], n)
    BY <1>1, <1>7
  <2>1. f[n - 1] \in S
    BY <1>1, <1>7
  <2> QED BY <1>6, <1>7, <2>1
<1>9. f = Body(f)
  BY <1>5, <1>7, <1>8
<1>10. sweep = Body(sweep)
  BY <1>4, <1>9
<1>11. /\ DOMAIN sweep = 0..N /\ sweep[0] = Nothing
       /\ \A n \in 1..N : sweep[n] = Turn(sweep[n - 1], n)
  BY <1>1, <1>5, <1>10
<1>12. sweep = [n \in 0..N |-> sweep[n]]
  BY <1>5, <1>10
<1>13. 0..N \subseteq {n \in 0..N : sweep[n] \in S}
  <2>1. ASSUME NEW n \in 1..N, n - 1 \in {k \in 0..N : sweep[k] \in S}
        PROVE  n \in {k \in 0..N : sweep[k] \in S}
    BY <1>1, <1>2, <1>11, <2>1
  <2>2. 0 \in {n \in 0..N : sweep[n] \in S}
    BY <1>1, <1>3, <1>11
  <2> QED BY <1>1, <2>1, <2>2, UpTo
<1>14. sweep \in [0..N -> S]
  BY <1>12, <1>13
<1> QED BY <1>11, <1>14 DEF S, Turn

\* So has that of the second, wherever it starts.
LEMMA DeclaredStep ==
    ASSUME NEW vms, IsVms(vms), NEW N, N = Cardinality(DOMAIN vms),
           NEW start \in States(vms), NEW sweep, sweep = DeclaredSweep(vms, start)
    PROVE  /\ sweep \in [0..N -> States(vms)] /\ sweep[0] = start
           /\ \A n \in 1..N :
                sweep[n] = ReserveDeclared(sweep[n - 1], Nth(vms, n), vms[Nth(vms, n)])
<1> DEFINE S == States(vms)
           Turn(s, n) == ReserveDeclared(s, Nth(vms, n), vms[Nth(vms, n)])
           g == [p \in S \X (1..N) |-> Turn(p[1], p[2])]
           Body(f) == [n \in 0..N |->
                          IF n = 0 THEN start ELSE DeclaredTurn(vms, f[n - 1], Nth(vms, n))]
<1>1. N \in Nat /\ \A n \in 1..N : Nth(vms, n) \in DOMAIN vms
  BY Turns
<1>2. \A s \in S, n \in 1..N : Turn(s, n) \in S
  BY <1>1, SweepTypes
<1>3. start \in S
  OBVIOUS
<1> HIDE DEF S
<1>4. sweep = CHOOSE h : h = Body(h)
  BY DEF DeclaredSweep
<1>5. \A f : Body(f) = [n \in 0..N |-> IF n = 0 THEN start ELSE Turn(f[n - 1], n)]
  BY TurnSteps
<1> HIDE DEF Turn, Body
<1>6. g \in [S \X (1..N) -> S] /\ \A s \in S, n \in 1..N : g[<<s, n>>] = Turn(s, n)
  BY <1>2
<1> HIDE DEF g
<1>7. PICK f : f \in [0..N -> S] /\ f[0] = start /\ \A n \in 1..N : f[n] = g[<<f[n - 1], n>>]
  <2>1. PICK f : Runs(S, start, N, g, f)
    BY <1>1, <1>3, <1>6, Iterated
  <2> QED BY <2>1 DEF Runs
<1>8. \A n \in 0..N : f[n] = IF n = 0 THEN start ELSE Turn(f[n - 1], n)
  <2> SUFFICES ASSUME NEW n \in 1..N PROVE f[n] = Turn(f[n - 1], n)
    BY <1>1, <1>7
  <2>1. f[n - 1] \in S
    BY <1>1, <1>7
  <2> QED BY <1>6, <1>7, <2>1
<1>9. f = Body(f)
  BY <1>5, <1>7, <1>8
<1>10. sweep = Body(sweep)
  BY <1>4, <1>9
<1>11. /\ DOMAIN sweep = 0..N /\ sweep[0] = start
       /\ \A n \in 1..N : sweep[n] = Turn(sweep[n - 1], n)
  BY <1>1, <1>5, <1>10
<1>12. sweep = [n \in 0..N |-> sweep[n]]
  BY <1>5, <1>10
<1>13. 0..N \subseteq {n \in 0..N : sweep[n] \in S}
  <2>1. ASSUME NEW n \in 1..N, n - 1 \in {k \in 0..N : sweep[k] \in S}
        PROVE  n \in {k \in 0..N : sweep[k] \in S}
    BY <1>1, <1>2, <1>11, <2>1
  <2>2. 0 \in {n \in 0..N : sweep[n] \in S}
    BY <1>1, <1>3, <1>11
  <2> QED BY <1>1, <2>1, <2>2, UpTo
<1>14. sweep \in [0..N -> S]
  BY <1>12, <1>13
<1> QED BY <1>11, <1>14 DEF S, Turn
-----------------------------------------------------------------------------
\* What is true after every turn.

\* Reservations of the first sweep are held claims, and who is blocked in it holds
\* a claim that is reserved by another.
HeldSound(vms, s) ==
    /\ \A r \in s.reserved : r[1] \in vms[r[2]].held
    /\ \A v \in s.blocked : \E r \in s.reserved, c \in vms[v].held :
         r[2] # v /\ Matches(r[1], c)

\* A turn of the first sweep keeps it.
LEMMA HeldTurnSound ==
    ASSUME NEW vms, NEW s \in States(vms), NEW v \in DOMAIN vms, HeldSound(vms, s)
    PROVE  HeldSound(vms, ReserveHeld(s, v, vms[v]))
<1> DEFINE t == ReserveHeld(s, v, vms[v])
           taken == TakenFrom(s.reserved, v, vms[v].held)
<1>1. /\ t.reserved = s.reserved \cup ((vms[v].held \ taken) \X {v})
      /\ t.blocked = s.blocked \cup (IF taken = {} THEN {} ELSE {v})
  BY DEF ReserveHeld
<1>2. taken # {} => \E r \in s.reserved, c \in vms[v].held : r[2] # v /\ Matches(r[1], c)
  BY DEF TakenFrom
<1> HIDE DEF t, taken
<1>3. \A r \in t.reserved : r[1] \in vms[r[2]].held
  BY <1>1 DEF HeldSound
<1>4. \A x \in t.blocked : \E r \in t.reserved, c \in vms[x].held : r[2] # x /\ Matches(r[1], c)
  BY <1>1, <1>2 DEF HeldSound
<1> QED BY <1>3, <1>4 DEF HeldSound, t

\* Reservation r blocks VM v: both hold what it is for, or v declares it and it is of a
\* holder or of a VM that had its turn before v.
Blocks(vms, r, v) ==
    /\ r[2] # v
    /\ \/ r[1] \in vms[r[2]].held /\ \E c \in vms[v].held : Matches(r[1], c)
       \/ /\ r[1] \in vms[r[2]].held \/ Older(vms, r[2], v)
          /\ \E c \in vms[v].declared : Matches(r[1], c)

\* Nothing that is reserved by others is in the way of what v declares.
Clear(vms, s, v) ==
    \A c \in vms[v].declared : /\ <<c, v>> \in s.reserved
                               /\ \A r \in s.reserved : r[2] # v => ~Matches(r[1], c)

\* After n turns of the second sweep.
Swept(vms, s, n) ==
    /\ \A r \in s.reserved : \/ r[1] \in vms[r[2]].held
                             \/ /\ r[1] \in vms[r[2]].declared /\ r[2] \notin s.blocked
                                /\ \E i \in 1..n : Nth(vms, i) = r[2]
    /\ \A v \in s.blocked : \E r \in s.reserved : Blocks(vms, r, v)
    /\ \A i \in 1..n : Nth(vms, i) \in s.blocked \/ Clear(vms, s, Nth(vms, i))

\* The n-th turn of the second sweep adds its VM to what the first n - 1 established.
LEMMA DeclaredTurnSound ==
    ASSUME NEW vms, IsVms(vms), NEW s \in States(vms), NEW n \in 1..Cardinality(DOMAIN vms),
           Swept(vms, s, n - 1)
    PROVE  Swept(vms, ReserveDeclared(s, Nth(vms, n), vms[Nth(vms, n)]), n)
<1> DEFINE N == Cardinality(DOMAIN vms)
           v == Nth(vms, n)
           t == ReserveDeclared(s, v, vms[v])
           taken == TakenFrom(s.reserved, v, vms[v].declared)
<1>1. /\ N \in Nat /\ v \in DOMAIN vms
      /\ \A i \in 1..N : Nth(vms, i) \in DOMAIN vms /\ (Nth(vms, i) = v => i = n)
      /\ \A i \in 1..N : Older(vms, Nth(vms, i), v) <=> i < n
  BY Turns
<1>2. s.reserved \in SUBSET (ClaimsOf(vms) \X DOMAIN vms)
  BY DEF States
<1>3. \A i \in 1..(n - 1) : i \in 1..N /\ i \in 1..n /\ Nth(vms, i) # v /\ Older(vms, Nth(vms, i), v)
  BY <1>1
<1>4. \A i \in 1..n : i = n \/ i \in 1..(n - 1)
  BY <1>1
<1>5. n \in 1..n
  BY <1>1
<1>6. \A c, d : Matches(c, d) => Matches(d, c)
  BY DEF Matches
<1>7. CASE v \in s.blocked
  <2>1. t = s
    BY <1>7 DEF ReserveDeclared
  <2> QED BY <1>3, <1>4, <1>7, <2>1 DEF Swept
<1>8. CASE v \notin s.blocked /\ taken = {}
  <2>1. /\ t.reserved = s.reserved \cup (vms[v].declared \X {v})
        /\ t.blocked = s.blocked
    BY <1>8 DEF ReserveDeclared, States
  <2>2. \A c \in vms[v].declared, r \in s.reserved : r[2] # v => ~Matches(r[1], c)
    BY <1>8 DEF TakenFrom
  <2> HIDE DEF t, taken, v
  <2>3. \A r \in t.reserved : r \in s.reserved \/ (r[2] = v /\ r[1] \in vms[v].declared)
    BY <2>1
  <2>4. ASSUME NEW r \in t.reserved
        PROVE  \/ r[1] \in vms[r[2]].held
               \/ /\ r[1] \in vms[r[2]].declared /\ r[2] \notin t.blocked
                  /\ \E i \in 1..n : Nth(vms, i) = r[2]
    <3>1. CASE r \in s.reserved
      BY <1>3, <2>1, <3>1 DEF Swept
    <3>2. CASE r[2] = v /\ r[1] \in vms[v].declared
      BY <1>5, <1>8, <2>1, <3>2 DEF v
    <3> QED BY <2>3, <3>1, <3>2
  <2>5. \A x \in t.blocked : \E r \in t.reserved : Blocks(vms, r, x)
    BY <2>1 DEF Swept
  <2>6. Clear(vms, t, v)
    <3> SUFFICES ASSUME NEW c \in vms[v].declared
                 PROVE  <<c, v>> \in t.reserved
                        /\ \A r \in t.reserved : r[2] # v => ~Matches(r[1], c)
      BY DEF Clear
    <3> QED BY <2>1, <2>2, <2>3
  <2>7. ASSUME NEW i \in 1..(n - 1), Nth(vms, i) \notin t.blocked
        PROVE  Clear(vms, t, Nth(vms, i))
    <3> DEFINE x == Nth(vms, i)
    <3>1. Clear(vms, s, x) /\ x # v
      BY <1>3, <2>1, <2>7 DEF Swept
    <3> HIDE DEF x
    <3> SUFFICES ASSUME NEW c \in vms[x].declared
                 PROVE  <<c, x>> \in t.reserved
                        /\ \A r \in t.reserved : r[2] # x => ~Matches(r[1], c)
      BY DEF Clear, x
    <3>2. <<c, x>> \in s.reserved /\ \A r \in s.reserved : r[2] # x => ~Matches(r[1], c)
      BY <3>1 DEF Clear
    <3>3. \A d \in vms[v].declared : ~Matches(c, d)
      BY <2>2, <3>1, <3>2
    <3> QED BY <1>6, <2>1, <2>3, <3>2, <3>3
  <2> QED BY <1>4, <2>4, <2>5, <2>6, <2>7 DEF Swept, t, v
<1>9. CASE v \notin s.blocked /\ taken # {}
  <2>1. t.reserved = s.reserved /\ t.blocked = s.blocked \cup {v}
    BY <1>9 DEF ReserveDeclared, States
  <2>2. PICK c \in vms[v].declared, r \in s.reserved : r[2] # v /\ Matches(r[1], c)
    BY <1>9 DEF TakenFrom
  <2> HIDE DEF t, taken
  <2>3. Blocks(vms, r, v)
    BY <1>3, <2>2, Zenon DEF Blocks, Swept
  <2>4. ASSUME NEW q \in s.reserved
        PROVE  \/ q[1] \in vms[q[2]].held
               \/ /\ q[1] \in vms[q[2]].declared /\ q[2] \notin t.blocked
                  /\ \E i \in 1..n : Nth(vms, i) = q[2]
    BY <1>3, <2>1 DEF Swept
  <2>5. \A x \in t.blocked : \E q \in t.reserved : Blocks(vms, q, x)
    BY <2>1, <2>3 DEF Swept
  <2>6. ASSUME NEW i \in 1..(n - 1), Nth(vms, i) \notin t.blocked
        PROVE  Clear(vms, t, Nth(vms, i))
    BY <2>1, <2>6 DEF Swept, Clear
  <2> HIDE DEF v
  <2> QED BY <1>4, <2>1, <2>4, <2>5, <2>6 DEF Swept, t, v
<1> QED BY <1>7, <1>8, <1>9

\* What the two sweeps end with.
LEMMA SweptAll ==
    ASSUME NEW vms, IsVms(vms)
    PROVE  /\ Sweeps(vms) \in States(vms)
           /\ Swept(vms, Sweeps(vms), Cardinality(DOMAIN vms))
<1> DEFINE N == Cardinality(DOMAIN vms)
           held == HeldSweep(vms)
           sweep == DeclaredSweep(vms, held[N])
<1>1. N \in Nat /\ \A n \in 1..N : Nth(vms, n) \in DOMAIN vms
  BY Turns
<1>2. /\ held \in [0..N -> States(vms)] /\ held[0] = Nothing
      /\ \A n \in 1..N : held[n] = ReserveHeld(held[n - 1], Nth(vms, n), vms[Nth(vms, n)])
  BY HeldStep
<1> HIDE DEF held
<1>3. HeldSound(vms, held[N])
  <2> DEFINE T == {n \in 0..N : HeldSound(vms, held[n])}
  <2>1. 0 \in T
    BY <1>1, <1>2 DEF HeldSound, Nothing
  <2>2. ASSUME NEW n \in 1..N, n - 1 \in T PROVE n \in T
    <3>1. n - 1 \in 0..N /\ n \in 0..N /\ HeldSound(vms, held[n - 1])
      BY <1>1, <2>2
    <3>2. HeldSound(vms, held[n])
      BY <1>1, <1>2, <3>1, HeldTurnSound
    <3> QED BY <3>1, <3>2
  <2> HIDE DEF T
  <2>3. N \in T
    BY <1>1, <2>1, <2>2, UpTo
  <2> QED BY <2>3 DEF T
<1>4. held[N] \in States(vms)
  BY <1>1, <1>2
<1>5. /\ sweep \in [0..N -> States(vms)] /\ sweep[0] = held[N]
      /\ \A n \in 1..N : sweep[n] = ReserveDeclared(sweep[n - 1], Nth(vms, n), vms[Nth(vms, n)])
  BY <1>4, DeclaredStep
<1> HIDE DEF sweep
<1>6. Swept(vms, sweep[N], N)
  <2> DEFINE T == {n \in 0..N : Swept(vms, sweep[n], n)}
  <2>1. Swept(vms, sweep[0], 0)
    BY <1>3, <1>5 DEF HeldSound, Swept, Blocks
  <2>2. ASSUME NEW n \in 1..N, n - 1 \in T PROVE n \in T
    <3>1. n - 1 \in 0..N /\ n \in 0..N /\ Swept(vms, sweep[n - 1], n - 1)
      BY <1>1, <2>2
    <3>2. Swept(vms, sweep[n], n)
      BY <1>1, <1>5, <3>1, DeclaredTurnSound
    <3> QED BY <3>1, <3>2
  <2>3. 0 \in T
    BY <1>1, <2>1
  <2> HIDE DEF T
  <2>4. N \in T
    BY <1>1, <2>2, <2>3, UpTo
  <2> QED BY <2>4 DEF T
<1>7. Sweeps(vms) = sweep[N]
  BY DEF Sweeps, held, sweep
<1> QED BY <1>1, <1>5, <1>6, <1>7

\* Of two VMs that declare the same one address, the younger is blocked, if it does
\* not hold it.
LEMMA OldestWins ==
    ASSUME NEW vms, IsVms(vms), NEW v \in DOMAIN vms, NEW w \in DOMAIN vms, NEW c,
           Older(vms, v, w), vms[v].declared = {c}, vms[w].declared = {c},
           vms[v].held \subseteq {c}, vms[w].held = {}
    PROVE  w \in Sweeps(vms).blocked
<1> DEFINE s == Sweeps(vms)
           N == Cardinality(DOMAIN vms)
<1>1. Swept(vms, s, N)
  BY SweptAll
<1>2. PICK i \in 1..N, j \in 1..N : Nth(vms, i) = v /\ Nth(vms, j) = w
  BY Turns
<1>3. ~Older(vms, w, v) /\ v # w /\ Matches(c, c)
  BY DEF Older, Matches, IsVms
<1> HIDE DEF s
<1> SUFFICES ASSUME w \notin s.blocked PROVE FALSE
  BY DEF s
<1>4. \A r \in s.reserved : r[2] # w => ~Matches(r[1], c)
  BY <1>1, <1>2 DEF Swept, Clear
<1>5. CASE v \in s.blocked
  <2>1. PICK r \in s.reserved : Blocks(vms, r, v)
    BY <1>1, <1>5 DEF Swept
  <2>2. Matches(r[1], c) /\ (r[1] \in vms[r[2]].held \/ Older(vms, r[2], v))
    BY <2>1 DEF Blocks
  <2>3. r[2] # w
    BY <1>3, <2>2
  <2> QED BY <1>4, <2>2, <2>3
<1>6. CASE v \notin s.blocked
  <2>1. <<c, v>> \in s.reserved
    BY <1>1, <1>2, <1>6 DEF Swept, Clear
  <2> QED BY <1>3, <1>4, <2>1
<1> QED BY <1>5, <1>6

\* The younger one finds that out by itself: the older is among its contenders.
LEMMA YoungerBlocked ==
    ASSUME NEW vms, IsVms(vms), NEW v \in DOMAIN vms, NEW w \in DOMAIN vms, NEW c,
           Older(vms, v, w), vms[v].declared = {c}, vms[w].declared = {c},
           vms[v].held \subseteq {c}, vms[w].held = {}
    PROVE  duplicate_address(w, vms)
<1> DEFINE contenders == contending_vms(w, vms)
           among == Restricted(vms, contenders \cup {w})
<1>1. v # w
  BY DEF Older, IsVms
<1>2. c.address \in AddressesOf(vms[v]) /\ c.address \in AddressesOf(vms[w])
  BY DEF AddressesOf
<1>3. v \in contenders
  <2> SUFFICES ASSUME NEW S \in SUBSET DOMAIN vms, w \in S, Sharing(vms, S) \subseteq S
               PROVE  v \in S
    BY <1>1 DEF contending_vms
  <2> QED BY <1>2 DEF Sharing
<1>4. contenders \cup {w} \in SUBSET DOMAIN vms
  BY DEF contending_vms
<1> HIDE DEF contenders
<1>5. DOMAIN among = contenders \cup {w} /\ \A x \in contenders \cup {w} : among[x] = vms[x]
  BY DEF Restricted
<1>6. IsFiniteSet(contenders \cup {w})
  BY <1>4, FS_Subset DEF IsVms
<1> HIDE DEF among
<1>7. IsVms(among)
  BY <1>4, <1>5, <1>6 DEF IsVms
<1>8. Older(among, v, w)
  BY <1>3, <1>5 DEF Older
<1>9. w \in Sweeps(among).blocked
  BY <1>3, <1>5, <1>7, <1>8, OldestWins
<1> QED BY <1>3, <1>9 DEF duplicate_address, find_duplicate_address, among, contenders
-----------------------------------------------------------------------------
\* The rule, while no two VMs hold the same address.

Distinct(vms) ==
    \A v, w \in DOMAIN vms : v # w =>
        \A c \in vms[v].held, d \in vms[w].held : ~Matches(c, d)

\* Then all that is held is reserved.
LEMMA HeldReserved ==
    ASSUME NEW vms, IsVms(vms), Distinct(vms), NEW v \in DOMAIN vms, NEW c \in vms[v].held
    PROVE  <<c, v>> \in Sweeps(vms).reserved
<1> DEFINE N == Cardinality(DOMAIN vms)
           held == HeldSweep(vms)
           sweep == DeclaredSweep(vms, held[N])
<1>1. N \in Nat /\ (\A n \in 1..N : Nth(vms, n) \in DOMAIN vms) /\ \E n \in 1..N : Nth(vms, n) = v
  BY Turns
<1>2. /\ held \in [0..N -> States(vms)] /\ held[0] = Nothing
      /\ \A n \in 1..N : held[n] = ReserveHeld(held[n - 1], Nth(vms, n), vms[Nth(vms, n)])
  BY HeldStep
<1> HIDE DEF held
<1>3. PICK m \in 1..N : Nth(vms, m) = v
  BY <1>1
<1>4. <<c, v>> \in held[N].reserved
  <2> DEFINE T == {n \in 0..N : /\ HeldSound(vms, held[n])
                                /\ n >= m => <<c, v>> \in held[n].reserved}
  <2>1. 0 \in T
    BY <1>1, <1>2 DEF HeldSound, Nothing
  <2>2. ASSUME NEW n \in 1..N, n - 1 \in T PROVE n \in T
    <3> DEFINE w == Nth(vms, n)
               s == held[n - 1]
               taken == TakenFrom(s.reserved, w, vms[w].held)
    <3>0. /\ n - 1 \in 0..N /\ n \in 0..N
          /\ HeldSound(vms, s) /\ (n - 1 >= m => <<c, v>> \in s.reserved)
      BY <1>1, <2>2
    <3>1. w \in DOMAIN vms /\ s \in States(vms)
      BY <1>1, <1>2, <3>0
    <3>2. held[n] = ReserveHeld(s, w, vms[w])
      BY <1>2
    <3>3. held[n].reserved = s.reserved \cup ((vms[w].held \ taken) \X {w})
      BY <3>2 DEF ReserveHeld
    <3>4. n = m => c \notin taken
      <4> SUFFICES ASSUME n = m, NEW r \in s.reserved, r[2] # v, Matches(r[1], c) PROVE FALSE
        BY <1>3 DEF TakenFrom
      <4>1. r[2] \in DOMAIN vms /\ r[1] \in vms[r[2]].held
        BY <3>0, <3>1 DEF States, HeldSound
      <4> QED BY <4>1 DEF Distinct
    <3>5. HeldSound(vms, held[n])
      BY <3>0, <3>1, <3>2, HeldTurnSound
    <3> HIDE DEF taken, s
    <3>6. n >= m => <<c, v>> \in held[n].reserved
      BY <1>3, <3>0, <3>3, <3>4
    <3> QED BY <3>0, <3>5, <3>6
  <2> HIDE DEF T
  <2>3. N \in T
    BY <1>1, <2>1, <2>2, UpTo
  <2> QED BY <1>1, <2>3 DEF T
<1>5. held[N] \in States(vms)
  BY <1>1, <1>2
<1>6. /\ sweep \in [0..N -> States(vms)] /\ sweep[0] = held[N]
      /\ \A n \in 1..N : sweep[n] = ReserveDeclared(sweep[n - 1], Nth(vms, n), vms[Nth(vms, n)])
  BY <1>5, DeclaredStep
<1> HIDE DEF sweep
<1>7. <<c, v>> \in sweep[N].reserved
  <2> DEFINE T == {n \in 0..N : <<c, v>> \in sweep[n].reserved}
  <2>1. 0 \in T
    BY <1>1, <1>4, <1>6
  <2>2. ASSUME NEW n \in 1..N, n - 1 \in T PROVE n \in T
    <3>1. n - 1 \in 0..N /\ n \in 0..N /\ <<c, v>> \in sweep[n - 1].reserved
          /\ sweep[n - 1] \in States(vms)
      BY <1>1, <1>6, <2>2
    <3>2. \A s \in States(vms) : \A w, vm : s.reserved \subseteq ReserveDeclared(s, w, vm).reserved
      BY DEF ReserveDeclared, States
    <3>3. sweep[n - 1].reserved \subseteq sweep[n].reserved
      BY <1>6, <3>1, <3>2
    <3> QED BY <3>1, <3>3
  <2> HIDE DEF T
  <2>3. N \in T
    BY <1>1, <2>1, <2>2, UpTo
  <2> QED BY <2>3 DEF T
<1>8. Sweeps(vms) = sweep[N]
  BY DEF Sweeps, held, sweep
<1> QED BY <1>7, <1>8

\* VM w stands in the way of VM v, when those in blocked are blocked.
InTheWay(vms, blocked, w, v) ==
    /\ w # v
    /\ \E c \in vms[v].declared :
         \/ \E d \in vms[w].held : Matches(c, d)
         \/ Older(vms, w, v) /\ w \notin blocked /\ \E d \in vms[w].declared : Matches(c, d)

\* Who is blocked is the solution of an equation: they that have a holder or an older
\* VM that is not blocked in their way.
LEMMA BlockedEquation ==
    ASSUME NEW vms, IsVms(vms), Distinct(vms), NEW v \in DOMAIN vms
    PROVE  LET B == Sweeps(vms).blocked
           IN  v \in B <=> \E w \in DOMAIN vms : InTheWay(vms, B, w, v)
<1> DEFINE s == Sweeps(vms)
           N == Cardinality(DOMAIN vms)
<1>1. Swept(vms, s, N) /\ s \in States(vms)
  BY SweptAll
<1>2. \A w \in DOMAIN vms : \A c \in vms[w].held : <<c, w>> \in s.reserved
  BY HeldReserved
<1>3. \A w \in DOMAIN vms : \E n \in 1..N : Nth(vms, n) = w
  BY Turns
<1>4. \A c, d : Matches(c, d) => Matches(d, c)
  BY DEF Matches
<1> HIDE DEF s
<1>5. \A r \in s.reserved : r[2] \in DOMAIN vms
  BY <1>1 DEF States
<1>6. ASSUME v \in s.blocked PROVE \E w \in DOMAIN vms : InTheWay(vms, s.blocked, w, v)
  <2>1. PICK r \in s.reserved : Blocks(vms, r, v)
    BY <1>1, <1>6 DEF Swept
  <2>2. r[2] \in DOMAIN vms /\ r[2] # v
    BY <1>5, <2>1 DEF Blocks
  <2>3. ~(r[1] \in vms[r[2]].held /\ \E c \in vms[v].held : Matches(r[1], c))
    BY <2>2 DEF Distinct
  <2>4. PICK c \in vms[v].declared : Matches(r[1], c)
    BY <2>1, <2>3 DEF Blocks
  <2>5. r[1] \in vms[r[2]].held \/ Older(vms, r[2], v)
    BY <2>1, <2>3 DEF Blocks
  <2>6. r[1] \in vms[r[2]].held \/ (r[1] \in vms[r[2]].declared /\ r[2] \notin s.blocked)
    BY <1>1 DEF Swept
  <2>7. InTheWay(vms, s.blocked, r[2], v)
    BY <1>4, <2>2, <2>4, <2>5, <2>6 DEF InTheWay
  <2> QED BY <2>2, <2>7
<1>7. ASSUME v \notin s.blocked, NEW w \in DOMAIN vms, InTheWay(vms, s.blocked, w, v) PROVE FALSE
  <2>1. Clear(vms, s, v) /\ (w \notin s.blocked => Clear(vms, s, w))
    BY <1>1, <1>3, <1>7 DEF Swept
  <2>2. \A c \in vms[v].declared : \A d : <<d, w>> \in s.reserved => ~Matches(d, c)
    BY <1>7, <2>1 DEF Clear, InTheWay
  <2>3. w \notin s.blocked => \A d \in vms[w].declared : <<d, w>> \in s.reserved
    BY <2>1 DEF Clear
  <2> QED BY <1>2, <1>4, <1>7, <2>2, <2>3 DEF InTheWay
<1> QED BY <1>6, <1>7 DEF s

\* Whoever shares an address with a VM or with one of its contenders is a contender.
LEMMA Closed ==
    ASSUME NEW vms, NEW me \in DOMAIN vms, NEW S, S = contending_vms(me, vms) \cup {me}
    PROVE  S \subseteq DOMAIN vms /\ Sharing(vms, S) \subseteq S
<1>1. \A w \in S, X \in SUBSET DOMAIN vms : me \in X /\ Sharing(vms, X) \subseteq X => w \in X
  BY DEF contending_vms
<1>2. ASSUME NEW w \in Sharing(vms, S) PROVE w \in S
  <2>1. w \in DOMAIN vms
    BY DEF Sharing
  <2>2. PICK v \in S : AddressesOf(vms[v]) \cap AddressesOf(vms[w]) # {}
    BY DEF Sharing
  <2>3. ASSUME NEW X \in SUBSET DOMAIN vms, me \in X, Sharing(vms, X) \subseteq X PROVE w \in X
    <3>1. v \in X
      BY <1>1, <2>3
    <3>2. w \in Sharing(vms, X)
      BY <2>1, <2>2, <3>1 DEF Sharing
    <3> QED BY <2>3, <3>2
  <2> QED BY <2>1, <2>3 DEF contending_vms
<1> QED BY <1>2 DEF contending_vms

\* Looking only at the VMs that share an address, however indirectly, answers as
\* looking at all of them would.
LEMMA SameAnswers ==
    ASSUME NEW vms, IsVms(vms), Distinct(vms), NEW me \in DOMAIN vms
    PROVE  duplicate_address(me, vms) <=> me \in Sweeps(vms).blocked
<1> DEFINE contenders == contending_vms(me, vms)
           S == contenders \cup {me}
           among == Restricted(vms, S)
           B == Sweeps(vms).blocked
           BS == Sweeps(among).blocked
           N == Cardinality(DOMAIN vms)
<1>1. S \subseteq DOMAIN vms /\ Sharing(vms, S) \subseteq S
  BY Closed
<1> HIDE DEF contenders
<1>2. DOMAIN among = S /\ \A v \in S : among[v] = vms[v]
  BY DEF Restricted
<1>3. IsVms(among) /\ Distinct(among)
  <2>1. IsFiniteSet(S)
    BY <1>1, FS_Subset DEF IsVms
  <2> HIDE DEF among, S
  <2>2. IsVms(among)
    BY <1>1, <1>2, <2>1 DEF IsVms
  <2>3. Distinct(among)
    BY <1>1, <1>2 DEF Distinct
  <2> QED BY <2>2, <2>3
<1> HIDE DEF among, S
<1>4. ASSUME NEW v \in S, NEW w \in DOMAIN vms, NEW X, InTheWay(vms, X, w, v) PROVE w \in S
  <2>1. PICK c \in vms[v].declared, d \in vms[w].declared \cup vms[w].held : Matches(c, d)
    BY <1>4 DEF InTheWay
  <2>2. c.address \in AddressesOf(vms[v]) /\ c.address \in AddressesOf(vms[w])
    BY <2>1 DEF AddressesOf, Matches
  <2>3. w \in Sharing(vms, S)
    BY <2>2 DEF Sharing
  <2> QED BY <1>1, <2>3
<1>5. \A v \in S : v \in B <=> \E w \in DOMAIN vms : InTheWay(vms, B, w, v)
  BY <1>1, BlockedEquation
<1>6. \A v \in S : v \in BS <=> \E w \in S : InTheWay(among, BS, w, v)
  BY <1>2, <1>3, BlockedEquation
<1> HIDE DEF B, BS
<1>7. \A v \in S : v \in B <=> v \in BS
  <2> DEFINE T == {n \in 1..N : Nth(vms, n) \in S /\ ~(Nth(vms, n) \in B <=> Nth(vms, n) \in BS)}
  <2>1. /\ N \in Nat /\ \A v \in DOMAIN vms : \E n \in 1..N : Nth(vms, n) = v
        /\ \A i, j \in 1..N : Older(vms, Nth(vms, i), Nth(vms, j)) => i < j
    BY Turns
  <2>2. SUFFICES ASSUME T # {} PROVE FALSE
    BY <1>1, <2>1
  <2>3. PICK n \in T : \A m \in T : n <= m
    <3>1. T \in SUBSET Nat
      BY <2>1
    <3> HIDE DEF T
    <3> QED BY <2>2, <3>1, LeastNumber
  <2> DEFINE v == Nth(vms, n)
  <2>4. n \in 1..N /\ v \in S /\ ~(v \in B <=> v \in BS)
    BY <2>3
  <2>5. \A w \in S : Older(vms, w, v) => (w \in B <=> w \in BS)
    BY <1>1, <2>1, <2>3, <2>4
  <2> HIDE DEF v, T
  <2>6. ASSUME NEW w \in S PROVE InTheWay(vms, B, w, v) <=> InTheWay(among, BS, w, v)
    <3>1. among[w] = vms[w] /\ among[v] = vms[v] /\ (Older(vms, w, v) <=> Older(among, w, v))
      BY <1>2, <2>4 DEF Older
    <3> QED BY <2>5, <3>1 DEF InTheWay
  <2> QED BY <1>1, <1>4, <1>5, <1>6, <2>4, <2>6
<1>8. me \in S
  BY DEF S
<1>9. me \in B => vms[me].declared # {} /\ contenders # {}
  BY <1>4, <1>5, <1>8 DEF InTheWay, S
<1>10. duplicate_address(me, vms) <=>
          vms[me].declared # {} /\ contenders # {} /\ me \in BS
  BY Zenon DEF duplicate_address, find_duplicate_address, among, S, BS, contenders
<1> QED BY <1>7, <1>8, <1>9, <1>10 DEF B
-----------------------------------------------------------------------------
\* The rule over the life of a set of VMs (AddressAdmission).

Admission(Names, Declarations, MaxBorn, vms) == INSTANCE AddressAdmission WITH VMs <- Names

\* AddressAdmission judges by the same rule.
LEMMA OneRule ==
    ASSUME NEW Names, NEW Declarations, NEW MaxBorn, NEW vms
    PROVE  /\ \A c, d : Admission(Names, Declarations, MaxBorn, vms)!Matches(c, d) <=> Matches(c, d)
           /\ Admission(Names, Declarations, MaxBorn, vms)!Sweeps(vms) = Sweeps(vms)
           /\ \A v : Admission(Names, Declarations, MaxBorn, vms)!duplicate_address(v, vms)
                     <=> duplicate_address(v, vms)
<1>1. \A c, d : Admission(Names, Declarations, MaxBorn, vms)!Matches(c, d) <=> Matches(c, d)
  BY Zenon DEF Matches, Admission!Matches
<1>2. \A x : Admission(Names, Declarations, MaxBorn, vms)!Sweeps(x) = Sweeps(x)
  <2>0. \A x : Admission(Names, Declarations, MaxBorn, vms)!Cardinality(x) = Cardinality(x)
    BY Zenon DEF Cardinality, Admission!Cardinality
  <2>1. \A x, n : Admission(Names, Declarations, MaxBorn, vms)!Nth(x, n) = Nth(x, n)
    BY <2>0, Zenon DEF Nth, Admission!Nth, Older, Admission!Older
  <2>2. \A x, s, v : Admission(Names, Declarations, MaxBorn, vms)!HeldTurn(x, s, v) = HeldTurn(x, s, v)
    BY Zenon DEF HeldTurn, Admission!HeldTurn, ReserveHeld, Admission!ReserveHeld,
     TakenFrom, Admission!TakenFrom, Matches, Admission!Matches, The, Admission!The
  <2>3. \A x, s, v : Admission(Names, Declarations, MaxBorn, vms)!DeclaredTurn(x, s, v)
                       = DeclaredTurn(x, s, v)
    BY Zenon DEF DeclaredTurn, Admission!DeclaredTurn, ReserveDeclared, Admission!ReserveDeclared,
     TakenFrom, Admission!TakenFrom, Matches, Admission!Matches, The, Admission!The
  <2>4. \A x : Admission(Names, Declarations, MaxBorn, vms)!HeldSweep(x) = HeldSweep(x)
    BY <2>0, <2>1, <2>2 DEF HeldSweep, Admission!HeldSweep, Nothing, Admission!Nothing
  <2>5. \A x, s : Admission(Names, Declarations, MaxBorn, vms)!DeclaredSweep(x, s) = DeclaredSweep(x, s)
    BY <2>0, <2>1, <2>3 DEF DeclaredSweep, Admission!DeclaredSweep
  <2> QED BY <2>0, <2>4, <2>5, Zenon DEF Sweeps, Admission!Sweeps
<1>3. \A v : Admission(Names, Declarations, MaxBorn, vms)!duplicate_address(v, vms)
             <=> duplicate_address(v, vms)
  BY <1>2, Zenon DEF duplicate_address, Admission!duplicate_address, find_duplicate_address,
     Admission!find_duplicate_address, contending_vms, Admission!contending_vms, Sharing,
     Admission!Sharing, AddressesOf, Admission!AddressesOf, Restricted, Admission!Restricted
<1> QED BY <1>1, <1>2, <1>3

\* VMs that declare what they may, of which no two hold the same.
Ruled(Declarations, vms) ==
    /\ IsVms(vms) /\ Distinct(vms) /\ vms = [v \in DOMAIN vms |-> vms[v]]
    /\ \A v \in DOMAIN vms :
         vms[v] \in [born: Nat, declared: Declarations, held: Declarations \cup {{}}]

\* Users leave what is held: they create VMs, edit what is declared, and delete.
LEMMA HoldersLeft ==
    ASSUME NEW Declarations, NEW vms, Ruled(Declarations, vms),
           NEW new, new = [v \in DOMAIN new |-> new[v]],
           IsFiniteSet(DOMAIN new), DOMAIN new \subseteq Nat,
           \A v \in DOMAIN new :
              /\ new[v] \in [born: Nat, declared: Declarations, held: Declarations \cup {{}}]
              /\ new[v].held = {} \/ (v \in DOMAIN vms /\ new[v].held = vms[v].held)
    PROVE  Ruled(Declarations, new)
<1>1. IsVms(new)
  BY DEF IsVms
<1>2. Distinct(new)
  BY DEF Distinct, Ruled
<1> QED BY <1>1, <1>2 DEF Ruled

\* A VM that is admitted is given nothing that another one holds.
LEMMA HoldersApart ==
    ASSUME NEW Declarations, NEW vms, Ruled(Declarations, vms), NEW v \in DOMAIN vms,
           ~duplicate_address(v, vms)
    PROVE  Ruled(Declarations, [vms EXCEPT ![v].held = vms[v].declared])
<1> DEFINE new == [vms EXCEPT ![v].held = vms[v].declared]
           B == Sweeps(vms).blocked
<1>1. IsVms(vms) /\ Distinct(vms)
  BY DEF Ruled
<1>2. v \notin B
  BY <1>1, SameAnswers
<1>3. \A w \in DOMAIN vms : ~InTheWay(vms, B, w, v)
  BY <1>1, <1>2, BlockedEquation
<1> HIDE DEF B
<1>4. \A w \in DOMAIN vms : w # v =>
         \A c \in vms[v].declared, d \in vms[w].held : ~Matches(c, d) /\ ~Matches(d, c)
  BY <1>3 DEF InTheWay, Matches
<1>5. vms[v] \in [born: Nat, declared: Declarations, held: Declarations \cup {{}}]
  BY DEF Ruled
<1>6. /\ new[v].born = vms[v].born /\ new[v].declared = vms[v].declared
      /\ new[v].held = vms[v].declared
      /\ new[v] \in [born: Nat, declared: Declarations, held: Declarations \cup {{}}]
  BY <1>5
<1>7. /\ DOMAIN new = DOMAIN vms /\ new = [w \in DOMAIN new |-> new[w]]
      /\ \A w \in DOMAIN vms : w # v => new[w] = vms[w]
  OBVIOUS
<1> HIDE DEF new
<1>8. IsVms(new)
  BY <1>1, <1>6, <1>7 DEF IsVms
<1>9. Distinct(new)
  <2> SUFFICES ASSUME NEW x \in DOMAIN vms, NEW y \in DOMAIN vms, x # y,
                      NEW c \in new[x].held, NEW d \in new[y].held
               PROVE  ~Matches(c, d)
    BY <1>7 DEF Distinct
  <2>1. CASE x = v
    BY <1>4, <1>6, <1>7, <2>1
  <2>2. CASE y = v
    BY <1>4, <1>6, <1>7, <2>2
  <2>3. CASE x # v /\ y # v
    BY <1>1, <1>7, <2>3 DEF Distinct
  <2> QED BY <2>1, <2>2, <2>3
<1>10. \A w \in DOMAIN new :
          new[w] \in [born: Nat, declared: Declarations, held: Declarations \cup {{}}]
  BY <1>6, <1>7 DEF Ruled
<1> QED BY <1>7, <1>8, <1>9, <1>10 DEF Ruled, new

\* What the rule decides then.
LEMMA RuleSound ==
    ASSUME NEW Declarations, NEW vms, Ruled(Declarations, vms)
    PROVE  LET B == Sweeps(vms).blocked
           IN  /\ B \subseteq DOMAIN vms
               /\ \A v \in B : vms[v].declared # {} /\ ~(vms[v].declared \subseteq vms[v].held)
               /\ \A v \in B : \E w \in DOMAIN vms \ {v} :
                    \E c \in vms[v].declared \cup vms[v].held :
                    \E d \in vms[w].held \cup (IF w \in B THEN {} ELSE vms[w].declared) :
                        Matches(c, d)
<1> DEFINE B == Sweeps(vms).blocked
<1>1. IsVms(vms) /\ Distinct(vms)
  BY DEF Ruled
<1>2. B \subseteq DOMAIN vms
  BY <1>1, SweptAll DEF States
<1>3. \A v \in DOMAIN vms : v \in B <=> \E w \in DOMAIN vms : InTheWay(vms, B, w, v)
  BY <1>1, BlockedEquation
<1> HIDE DEF B
<1>4. \A c, d : Matches(c, d) => Matches(d, c)
  BY DEF Matches
<1>5. ASSUME NEW v \in B
      PROVE  /\ vms[v].declared # {} /\ ~(vms[v].declared \subseteq vms[v].held)
             /\ \E w \in DOMAIN vms \ {v} :
                  \E c \in vms[v].declared \cup vms[v].held :
                  \E d \in vms[w].held \cup (IF w \in B THEN {} ELSE vms[w].declared) :
                      Matches(c, d)
  <2>1. PICK w \in DOMAIN vms : InTheWay(vms, B, w, v)
    BY <1>2, <1>3
  <2>2. w # v
    BY <2>1 DEF InTheWay
  <2>3. PICK c \in vms[v].declared :
           \/ \E d \in vms[w].held : Matches(c, d)
           \/ w \notin B /\ \E d \in vms[w].declared : Matches(c, d)
    BY <2>1 DEF InTheWay
  <2>4. c \notin vms[v].held
    <3> SUFFICES ASSUME c \in vms[v].held PROVE FALSE
      OBVIOUS
    <3>1. CASE \E d \in vms[w].held : Matches(c, d)
      BY <1>1, <1>2, <2>2, <3>1 DEF Distinct
    <3>2. CASE w \notin B /\ \E d \in vms[w].declared : Matches(c, d)
      <4>1. InTheWay(vms, B, v, w)
        BY <1>4, <2>2, <3>2 DEF InTheWay
      <4> QED BY <1>2, <1>3, <3>2, <4>1
    <3> QED BY <2>3, <3>1, <3>2
  <2>5. \E d \in vms[w].held \cup (IF w \in B THEN {} ELSE vms[w].declared) : Matches(c, d)
    BY <2>3
  <2> QED BY <2>2, <2>4, <2>5
<1> QED BY <1>2, <1>5 DEF B

\* For any VMs and whatever users create, declare, edit and delete: no two VMs hold
\* matching claims; every VM, judged among those it shares an address with, gets the
\* answer that looking at all VMs gives; a VM that declares only what its guest was
\* given is not blocked; and who is blocked shares a claim with a holder or with a VM
\* that is admitted (find_duplicate_address, contending_vms).
THEOREM AdmissionRule ==
    ASSUME NEW CONSTANT Names, Names \subseteq Nat, NEW CONSTANT Declarations,
           NEW CONSTANT MaxBorn, MaxBorn \in Nat, NEW VARIABLE vms
    PROVE  Admission(Names, Declarations, MaxBorn, vms)!Spec =>
              []( /\ Admission(Names, Declarations, MaxBorn, vms)!HoldersDistinct
                  /\ Admission(Names, Declarations, MaxBorn, vms)!SameAnswer
                  /\ Admission(Names, Declarations, MaxBorn, vms)!IncumbentAdmitted
                  /\ Admission(Names, Declarations, MaxBorn, vms)!BlockedForCause )
<1> DEFINE Types == [born: Nat, declared: Declarations, held: Declarations \cup {{}}]
<1>1. Admission(Names, Declarations, MaxBorn, vms)!Init => Ruled(Declarations, vms)
  <2> SUFFICES ASSUME vms = [v \in {} |-> 0] PROVE Ruled(Declarations, vms)
    BY DEF Admission!Init
  <2>1. DOMAIN vms = {}
    OBVIOUS
  <2> QED BY <2>1, FS_EmptySet DEF Ruled, IsVms, Distinct
<1>2. Ruled(Declarations, vms) /\ [Admission(Names, Declarations, MaxBorn, vms)!Next]_vms
         => Ruled(Declarations, vms)'
  <2> SUFFICES ASSUME Ruled(Declarations, vms),
                      Admission(Names, Declarations, MaxBorn, vms)!Next
               PROVE  Ruled(Declarations, vms')
    BY DEF Ruled, IsVms, Distinct
  <2>1. /\ IsFiniteSet(DOMAIN vms) /\ DOMAIN vms \subseteq Nat
        /\ vms = [v \in DOMAIN vms |-> vms[v]] /\ \A v \in DOMAIN vms : vms[v] \in Types
    BY DEF Ruled, IsVms
  <2>2. ASSUME NEW v \in Names, NEW born \in 0..MaxBorn, NEW claims \in Declarations,
               Admission(Names, Declarations, MaxBorn, vms)!Create(v, born, claims)
        PROVE  Ruled(Declarations, vms')
    <3> DEFINE vm == [born |-> born, declared |-> claims, held |-> {}]
    <3>1. vms' = [w \in DOMAIN vms \cup {v} |-> IF w = v THEN vm ELSE vms[w]]
      BY <2>2 DEF Admission!Create
    <3>2. IsFiniteSet(DOMAIN vms \cup {v}) /\ DOMAIN vms \cup {v} \subseteq Nat
      BY <2>1, FS_AddElement
    <3>3. vm \in Types /\ vm.held = {}
      OBVIOUS
    <3> HIDE DEF vm, Types
    <3>4. \A w \in DOMAIN vms' : /\ vms'[w] \in Types
                                 /\ vms'[w].held = {} \/ (w \in DOMAIN vms /\ vms'[w].held = vms[w].held)
      BY <2>1, <3>1, <3>3
    <3>5. DOMAIN vms' = DOMAIN vms \cup {v} /\ vms' = [w \in DOMAIN vms' |-> vms'[w]]
      BY <3>1
    <3> QED BY <3>2, <3>4, <3>5, HoldersLeft DEF Types
  <2>3. ASSUME NEW v \in DOMAIN vms, NEW claims \in Declarations,
               Admission(Names, Declarations, MaxBorn, vms)!Edit(v, claims)
        PROVE  Ruled(Declarations, vms')
    <3>1. vms' = [vms EXCEPT ![v].declared = claims] /\ vms[v] \in Types
      BY <2>1, <2>3 DEF Admission!Edit
    <3>2. vms'[v] \in Types /\ vms'[v].held = vms[v].held
      BY <3>1
    <3>3. /\ DOMAIN vms' = DOMAIN vms /\ vms' = [w \in DOMAIN vms' |-> vms'[w]]
          /\ \A w \in DOMAIN vms : w # v => vms'[w] = vms[w]
      BY <3>1
    <3> HIDE DEF Types
    <3>4. \A w \in DOMAIN vms' : vms'[w] \in Types /\ vms'[w].held = vms[w].held
      BY <2>1, <3>2, <3>3
    <3> QED BY <2>1, <3>3, <3>4, HoldersLeft DEF Types
  <2>4. ASSUME NEW v \in DOMAIN vms, Admission(Names, Declarations, MaxBorn, vms)!Delete(v)
        PROVE  Ruled(Declarations, vms')
    <3>1. vms' = [w \in DOMAIN vms \ {v} |-> vms[w]]
      BY <2>4 DEF Admission!Delete, Admission!Restricted
    <3>2. IsFiniteSet(DOMAIN vms \ {v})
      BY <2>1, FS_Subset
    <3> HIDE DEF Types
    <3>3. DOMAIN vms' = DOMAIN vms \ {v} /\ vms' = [w \in DOMAIN vms' |-> vms'[w]]
          /\ \A w \in DOMAIN vms' : vms'[w] = vms[w]
      BY <3>1
    <3> QED BY <2>1, <3>2, <3>3, HoldersLeft DEF Types
  <2>5. ASSUME NEW v \in DOMAIN vms, Admission(Names, Declarations, MaxBorn, vms)!Admit(v)
        PROVE  Ruled(Declarations, vms')
    BY <2>5, OneRule, HoldersApart DEF Admission!Admit
  <2> QED BY <2>2, <2>3, <2>4, <2>5 DEF Admission!Next
<1>3. Ruled(Declarations, vms) => Admission(Names, Declarations, MaxBorn, vms)!HoldersDistinct
  <2>1. \A c, d : Admission(Names, Declarations, MaxBorn, vms)!Matches(c, d) <=> Matches(c, d)
    BY OneRule
  <2>2. ASSUME Ruled(Declarations, vms), NEW v \in DOMAIN vms, NEW w \in DOMAIN vms, v # w,
               NEW c \in vms[v].held, NEW d \in vms[w].held
        PROVE  ~Matches(c, d)
    BY <2>2 DEF Ruled, Distinct
  <2> QED BY <2>1, <2>2, Zenon DEF Admission!HoldersDistinct
<1>4. Ruled(Declarations, vms) => Admission(Names, Declarations, MaxBorn, vms)!SameAnswer
  <2> SUFFICES ASSUME Ruled(Declarations, vms)
               PROVE  Admission(Names, Declarations, MaxBorn, vms)!SameAnswer
    OBVIOUS
  <2>1. IsVms(vms) /\ Distinct(vms)
    BY DEF Ruled
  <2>2. \A v \in DOMAIN vms : duplicate_address(v, vms) <=> v \in Sweeps(vms).blocked
    BY <2>1, SameAnswers
  <2>3. /\ Sweeps(vms).blocked \subseteq DOMAIN vms
        /\ \A v \in Sweeps(vms).blocked : vms[v].declared # {}
    BY RuleSound
  <2>4. /\ Admission(Names, Declarations, MaxBorn, vms)!Blocked = Sweeps(vms).blocked
        /\ \A v : Admission(Names, Declarations, MaxBorn, vms)!duplicate_address(v, vms)
                 <=> duplicate_address(v, vms)
    BY OneRule DEF Admission!Blocked
  <2> QED BY <2>2, <2>3, <2>4, Zenon DEF Admission!SameAnswer
<1>5. Ruled(Declarations, vms) => Admission(Names, Declarations, MaxBorn, vms)!IncumbentAdmitted
  <2>1. Admission(Names, Declarations, MaxBorn, vms)!Blocked = Sweeps(vms).blocked
    BY OneRule DEF Admission!Blocked
  <2> QED BY <2>1, RuleSound DEF Admission!IncumbentAdmitted
<1>6. Ruled(Declarations, vms) => Admission(Names, Declarations, MaxBorn, vms)!BlockedForCause
  <2>1. /\ Admission(Names, Declarations, MaxBorn, vms)!Blocked = Sweeps(vms).blocked
        /\ \A c, d : Admission(Names, Declarations, MaxBorn, vms)!Matches(c, d) <=> Matches(c, d)
    BY OneRule DEF Admission!Blocked
  <2> QED BY <2>1, RuleSound DEF Admission!BlockedForCause
<1> QED BY <1>1, <1>2, <1>3, <1>4, <1>5, <1>6, PTL DEF Admission!Spec, Admission!vars

-----------------------------------------------------------------------------

Lives == {"absent", "live", "deleting"}

Types ==
    /\ life \in [VMs -> Lives]
    /\ store.life \in [VMs -> Lives]
    /\ pc \in [VMs -> Stages]
    /\ lookups \in [VMs -> [Kinds -> InfraStates]]

Held ==
    \A v \in VMs : /\ v \in finalized => life[v] # "absent"
                   /\ life[v] = "deleting" => v \in finalized
                   /\ \A k \in Kinds : <<v, k>> \in infra => v \in finalized

Covered == \A v \in VMs : pc[v] \in {"decide", "apply"} => v \in finalized

FinStages == {"finRead", "finDelete", "finRemove"}

Cleared ==
    \A v \in VMs, k \in Kinds :
        /\ pc[v] = "finRemove" => <<v, k>> \notin infra
        /\ lookups[v][k] = "Absent" => pc[v] \in FinStages /\ <<v, k>> \notin infra

StoreTrue ==
    \A v \in VMs : store.life[v] = "live" /\ v \in store.finalized => v \in finalized

StorePast ==
    \A v \in VMs : store.life[v] = "deleting" =>
        \/ life[v] = "deleting" /\ v \in finalized
        \/ v \notin finalized /\ pc[v] # "finalizer"

Finalizing ==
    \A v \in VMs : pc[v] \in FinStages =>
        /\ ~(life[v] = "live" /\ v \in finalized)
        /\ ~(store.life[v] = "live" /\ v \in store.finalized)

Guarded ==
    /\ Types /\ Held /\ Covered /\ Cleared /\ StoreTrue /\ StorePast /\ Finalizing

-----------------------------------------------------------------------------
\* A step that moves no pass, no VM and no finalizer, and adds no infra CR, keeps
\* the invariant: edits of specs, the backends, a new answer of the scheduler.
LEMMA Aside ==
    ASSUME Guarded, UNCHANGED <<life, finalized, store, pc, lookups>>, infra' \subseteq infra
    PROVE  Guarded'
BY DEF Guarded, Types, Held, Covered, Cleared, StoreTrue, StorePast, Finalizing

\* A pass that goes on to a stage outside the cascade, or ends, keeps the
\* invariant, if it goes on to apply only under the finalizer.
LEMMA Onward ==
    ASSUME Guarded, NEW v \in VMs,
           NEW stage \in Stages \ (FinStages \cup {"finalizer"}),
           stage \in {"decide", "apply"} => v \in finalized,
           pc' = [pc EXCEPT ![v] = stage],
           \/ pc[v] \notin FinStages /\ UNCHANGED lookups
           \/ lookups' = [lookups EXCEPT ![v] = Unread],
           UNCHANGED <<life, finalized, store, infra>>
    PROVE  Guarded'
<1>1. Unread \in [Kinds -> InfraStates] /\ \A k \in Kinds : Unread[k] = "Unread"
  BY DEF Unread, InfraStates
<1>2. Types'
  BY <1>1 DEF Guarded, Types
<1>3. Held' /\ StoreTrue'
  BY DEF Guarded, Held, StoreTrue
<1>4. Covered' /\ StorePast' /\ Finalizing'
  BY DEF Guarded, Types, Covered, StorePast, Finalizing, FinStages
<1>5. Cleared'
  <2> SUFFICES ASSUME NEW w \in VMs, NEW k \in Kinds
               PROVE  /\ pc'[w] = "finRemove" => <<w, k>> \notin infra'
                      /\ lookups'[w][k] = "Absent" =>
                            pc'[w] \in FinStages /\ <<w, k>> \notin infra'
    BY DEF Cleared
  <2>1. CASE w = v
    BY <1>1, <2>1 DEF Guarded, Types, Cleared, FinStages
  <2>2. CASE w # v
    BY <2>2 DEF Guarded, Types, Cleared
  <2> QED BY <2>1, <2>2
<1> QED BY <1>2, <1>3, <1>4, <1>5 DEF Guarded

\* Where the checks of a pass lead: never into the cascade.
LEMMA Verdicts ==
    ASSUME NEW v, NEW duplicate
    PROVE  Verdict(v, duplicate) \in Stages \ (FinStages \cup {"finalizer", "decide"})
BY DEF Verdict, Stages, FinStages

\* A pass starts a cascade only when the store shows the deletion, and decides
\* at once only under a finalizer that is really there.
LEMMA ReconcileStep ==
    ASSUME Guarded, NEW v \in VMs, Reconcile(v) PROVE Guarded'
<1> DEFINE stage == CASE store.spec[v].paused -> "paused"
                      [] ~store.spec[v].paused /\ store.life[v] = "deleting" -> "finRead"
                      [] OTHER -> IF v \in store.finalized THEN "decide" ELSE "finalizer"
<1>1. pc' = [pc EXCEPT ![v] = stage] /\ pc[v] = "idle" /\ store.life[v] # "absent"
      /\ UNCHANGED <<life, finalized, store, infra, lookups>>
  BY DEF Reconcile, Goto, Learn, objects
<1>2. \/ stage = "paused"
      \/ stage = "finRead" /\ store.life[v] = "deleting"
      \/ stage = "decide" /\ store.life[v] # "deleting" /\ v \in store.finalized
      \/ stage = "finalizer" /\ store.life[v] # "deleting"
  OBVIOUS
<1> HIDE DEF stage
<1>3. store.life[v] # "deleting" => store.life[v] = "live"
  BY <1>1 DEF Guarded, Types, Lives
<1>4. Types' /\ Held' /\ StoreTrue'
  BY <1>1, <1>2 DEF Guarded, Types, Held, StoreTrue, Stages
<1>5. Covered' /\ StorePast'
  BY <1>1, <1>2, <1>3 DEF Guarded, Types, Covered, StorePast, StoreTrue
<1>6. Finalizing'
  BY <1>1, <1>2, <1>3 DEF Guarded, Types, Finalizing, StorePast, FinStages
<1>7. Cleared'
  BY <1>1, <1>2 DEF Guarded, Types, Cleared, FinStages
<1> QED BY <1>4, <1>5, <1>6, <1>7 DEF Guarded

\* The finalizer is put on a VM that is not on its way out.
LEMMA EnsureStep ==
    ASSUME Guarded, NEW v \in VMs, ensure_finalizer(v) PROVE Guarded'
<1>1. CASE finalized' = finalized \cup {v} /\ Goto(v, "decide")
           /\ (life[v] = "live" \/ v \in finalized) /\ UNCHANGED lookups
  <2>1. pc[v] = "finalizer" /\ pc' = [pc EXCEPT ![v] = "decide"]
        /\ UNCHANGED <<life, store, infra>>
    BY <1>1 DEF ensure_finalizer, Goto
  <2>2. Types' /\ Held' /\ StoreTrue' /\ Covered'
    BY <1>1, <2>1 DEF Guarded, Types, Held, StoreTrue, Covered, Stages
  <2>3. StorePast' /\ Finalizing'
    BY <1>1, <2>1 DEF Guarded, Types, StorePast, Finalizing, FinStages
  <2>4. Cleared'
    BY <1>1, <2>1 DEF Guarded, Types, Cleared, FinStages
  <2> QED BY <2>2, <2>3, <2>4 DEF Guarded
<1>2. CASE EndPass(v) /\ UNCHANGED finalized
  <2>1. pc' = [pc EXCEPT ![v] = "idle"] /\ lookups' = [lookups EXCEPT ![v] = Unread]
        /\ UNCHANGED <<life, finalized, store, infra>>
    BY <1>2 DEF ensure_finalizer, EndPass, Goto
  <2>2. "idle" \in Stages \ (FinStages \cup {"finalizer"})
    BY DEF Stages, FinStages
  <2> QED BY <2>1, <2>2, Onward
<1> QED BY <1>1, <1>2 DEF ensure_finalizer

\* An infra CR is applied only under the finalizer, and by a pass that has seen
\* no kind absent.
LEMMA ApplyStep ==
    ASSUME Guarded, NEW v \in VMs, Apply(v) PROVE Guarded'
<1> DEFINE k == KindOf[pass[v].want]
<1>1. /\ pc[v] = "apply" /\ pc' = [pc EXCEPT ![v] = "mirror"]
      /\ infra' = infra \cup {<<v, k>>}
      /\ UNCHANGED <<life, finalized, store, lookups>>
  BY DEF Apply, Goto, Learn, objects
<1> HIDE DEF k
<1>2. Types' /\ StoreTrue' /\ Covered'
  BY <1>1 DEF Guarded, Types, StoreTrue, Covered, Stages
<1>3. Held'
  BY <1>1 DEF Guarded, Held, Covered
<1>4. StorePast' /\ Finalizing'
  BY <1>1 DEF Guarded, Types, StorePast, Finalizing, FinStages
<1>5. Cleared'
  <2> SUFFICES ASSUME NEW w \in VMs, NEW l \in Kinds
               PROVE  /\ pc'[w] = "finRemove" => <<w, l>> \notin infra'
                      /\ lookups'[w][l] = "Absent" =>
                            pc'[w] \in FinStages /\ <<w, l>> \notin infra'
    BY DEF Cleared
  <2>1. CASE w = v
    BY <1>1, <2>1 DEF Guarded, Types, Cleared, FinStages
  <2>2. CASE w # v
    <3>1. <<w, l>> \in infra' <=> <<w, l>> \in infra
      BY <1>1, <2>2
    <3> QED BY <1>1, <2>2, <3>1 DEF Guarded, Types, Cleared
  <2> QED BY <2>1, <2>2
<1> QED BY <1>2, <1>3, <1>4, <1>5 DEF Guarded

\* A step of the cascade keeps the invariant, if what it notes as absent is
\* absent and it goes on to remove the finalizer only when every kind is.
LEMMA CascadeStep ==
    ASSUME Guarded, NEW v \in VMs, NEW states \in [Kinds -> InfraStates], NEW stage,
           pc[v] \in FinStages, Cascade(v, states, stage),
           stage \in FinStages \cup {"idle"},
           \A k \in Kinds : states[k] = "Absent" => <<v, k>> \notin infra,
           stage = "finRemove" => \A k \in Kinds : states[k] = "Absent",
           UNCHANGED <<life, finalized, store, infra>>
    PROVE  Guarded'
<1>1. CASE stage = "idle"
  <2>1. pc' = [pc EXCEPT ![v] = "idle"] /\ lookups' = [lookups EXCEPT ![v] = Unread]
    BY <1>1 DEF Cascade, EndPass, Goto
  <2>2. "idle" \in Stages \ (FinStages \cup {"finalizer"})
    BY DEF Stages, FinStages
  <2> QED BY <2>1, <2>2, Onward
<1>2. CASE stage # "idle"
  <2>1. /\ stage \in FinStages /\ pc' = [pc EXCEPT ![v] = stage]
        /\ lookups' = [lookups EXCEPT ![v] = states]
    BY <1>2 DEF Cascade, Goto
  <2>2. stage \in Stages /\ stage \notin {"decide", "apply", "finalizer"}
    BY <2>1 DEF FinStages, Stages
  <2>3. Types' /\ Held' /\ StoreTrue' /\ Covered'
    BY <2>1, <2>2 DEF Guarded, Types, Held, StoreTrue, Covered
  <2>4. StorePast' /\ Finalizing'
    BY <2>1, <2>2 DEF Guarded, Types, StorePast, Finalizing
  <2>5. Cleared'
    <3> SUFFICES ASSUME NEW w \in VMs, NEW k \in Kinds
                 PROVE  /\ pc'[w] = "finRemove" => <<w, k>> \notin infra'
                        /\ lookups'[w][k] = "Absent" =>
                              pc'[w] \in FinStages /\ <<w, k>> \notin infra'
      BY DEF Cleared
    <3>1. CASE w = v
      BY <2>1, <3>1 DEF Guarded, Types
    <3>2. CASE w # v
      BY <2>1, <3>2 DEF Guarded, Types, Cleared
    <3> QED BY <3>1, <3>2
  <2> QED BY <2>3, <2>4, <2>5 DEF Guarded
<1> QED BY <1>1, <1>2

\* A lookup: what it notes as absent was absent, and stays so, for nothing is
\* applied while the cascade runs.
LEMMA ReadStep ==
    ASSUME Guarded, NEW v \in VMs, NEW k \in Kinds, pc[v] = "finRead",
           NEW state \in InfraStates, state = "Absent" => <<v, k>> \notin infra,
           Saw(v, k, state), UNCHANGED <<life, finalized, store, infra>>
    PROVE  Guarded'
<1> DEFINE states == [lookups[v] EXCEPT ![k] = state]
<1>1. Cascade(v, states, AfterRead(states))
  BY DEF Saw
<1>2. states \in [Kinds -> InfraStates]
  BY DEF Guarded, Types
<1>3. \A l \in Kinds : states[l] = "Absent" => <<v, l>> \notin infra
  BY DEF Guarded, Types, Cleared
<1> HIDE DEF states
<1>4. AfterRead(states) \in FinStages \cup {"idle"}
  BY DEF AfterRead, FinStages
<1>5. AfterRead(states) = "finRemove" => \A l \in Kinds : states[l] = "Absent"
  BY DEF AfterRead, plan_finalize
<1>6. pc[v] \in FinStages
  BY DEF FinStages
<1> QED BY <1>1, <1>2, <1>3, <1>4, <1>5, <1>6, CascadeStep

\* A DELETE never ends in the removal of the finalizer.
LEMMA DeleteStep ==
    ASSUME Guarded, NEW v \in VMs, NEW k \in Kinds, pc[v] = "finDelete",
           Deleted(v, k), UNCHANGED <<life, finalized, store, infra>>
    PROVE  Guarded'
<1> DEFINE states == [lookups[v] EXCEPT ![k] = "Terminating"]
           stage == IF plan_finalize(states).delete = {} THEN "idle" ELSE "finDelete"
<1>1. Cascade(v, states, stage)
  BY DEF Deleted
<1>2. states \in [Kinds -> InfraStates]
  BY DEF Guarded, Types, InfraStates
<1>3. \A l \in Kinds : states[l] = "Absent" => <<v, l>> \notin infra
  BY DEF Guarded, Types, Cleared
<1>4. stage \in {"idle", "finDelete"}
  OBVIOUS
<1> HIDE DEF states, stage
<1>5. stage \in FinStages \cup {"idle"} /\ stage # "finRemove" /\ pc[v] \in FinStages
  BY <1>4 DEF FinStages
<1> QED BY <1>1, <1>2, <1>3, <1>5, CascadeStep

\* The finalizer comes off a VM without infra CRs, that the store does not show
\* as live under a finalizer.
LEMMA RemoveStep ==
    ASSUME Guarded, NEW v \in VMs, remove_finalizer(v) PROVE Guarded'
<1>1. /\ pc[v] = "finRemove" /\ finalized' = finalized \ {v}
      /\ life' = [life EXCEPT ![v] = IF life[v] = "deleting" THEN "absent" ELSE life[v]]
      /\ pc' = [pc EXCEPT ![v] = "idle"] /\ lookups' = [lookups EXCEPT ![v] = Unread]
      /\ UNCHANGED <<store, infra>>
  BY DEF remove_finalizer, EndPass, Goto
<1>2. Unread \in [Kinds -> InfraStates] /\ \A k \in Kinds : Unread[k] = "Unread"
  BY DEF Unread, InfraStates
<1>3. pc[v] \in FinStages /\ \A k \in Kinds : <<v, k>> \notin infra
  BY <1>1 DEF Guarded, Cleared, FinStages
<1>4. Types'
  BY <1>1, <1>2 DEF Guarded, Types, Lives, Stages
<1>5. Held'
  BY <1>1, <1>3 DEF Guarded, Types, Held, Lives
<1>6. StoreTrue' /\ Covered'
  BY <1>1, <1>3 DEF Guarded, Types, StoreTrue, Covered, Finalizing
<1>7. StorePast' /\ Finalizing'
  BY <1>1, <1>3 DEF Guarded, Types, StorePast, Finalizing, FinStages
<1>8. Cleared'
  <2> SUFFICES ASSUME NEW w \in VMs, NEW k \in Kinds
               PROVE  /\ pc'[w] = "finRemove" => <<w, k>> \notin infra'
                      /\ lookups'[w][k] = "Absent" =>
                            pc'[w] \in FinStages /\ <<w, k>> \notin infra'
    BY DEF Cleared
  <2>1. CASE w = v
    BY <1>1, <1>2, <2>1 DEF Guarded, Types
  <2>2. CASE w # v
    BY <1>1, <2>2 DEF Guarded, Types, Cleared
  <2> QED BY <2>1, <2>2
<1> QED BY <1>4, <1>5, <1>6, <1>7, <1>8 DEF Guarded

\* The steps of a pass.
LEMMA PassStep ==
    ASSUME Guarded, NEW v \in VMs, Step(v) PROVE Guarded'
<1>1. "idle" \in Stages \ (FinStages \cup {"finalizer"})
  BY DEF Stages, FinStages
<1>2. CASE Reconcile(v)
  BY <1>2, ReconcileStep
<1>3. CASE ensure_finalizer(v)
  BY <1>3, EnsureStep
<1>4. CASE Decide(v)
  <2>1. PICK duplicate : Goto(v, Verdict(v, duplicate))
    BY <1>4 DEF Decide
  <2>2. pc[v] = "decide" /\ UNCHANGED <<life, finalized, store, infra, lookups>>
    BY <1>4 DEF Decide, Learn, objects
  <2>3. v \in finalized /\ pc[v] \notin FinStages
    BY <2>2 DEF Guarded, Covered, FinStages
  <2> QED BY <2>1, <2>2, <2>3, Verdicts, Onward DEF Goto
<1>5. CASE patch_status(v)
  BY <1>1, <1>5, Onward DEF patch_status, EndPass, Goto, Stages, FinStages
<1>6. CASE Apply(v)
  BY <1>6, ApplyStep
<1>7. CASE Recreate(v)
  <2>1. "drifted" \in Stages \ (FinStages \cup {"finalizer"})
    BY DEF Stages, FinStages
  <2> QED BY <1>7, <2>1, Onward DEF Recreate, Goto, objects, FinStages
<1>8. CASE StickRead(v)
  <2>1. "stickStatus" \in Stages \ (FinStages \cup {"finalizer"})
    BY DEF Stages, FinStages
  <2>2. pc[v] \notin FinStages /\ UNCHANGED <<life, finalized, store, infra>>
    BY <1>8 DEF StickRead, FinStages, objects
  <2>3. \/ pc' = [pc EXCEPT ![v] = "stickStatus"] /\ UNCHANGED lookups
        \/ pc' = [pc EXCEPT ![v] = "idle"] /\ lookups' = [lookups EXCEPT ![v] = Unread]
    BY <1>8 DEF StickRead, Goto, Learn, EndPass
  <2> QED BY <1>1, <2>1, <2>2, <2>3, Onward
<1>9. CASE BlockRead(v)
  <2>1. {"blockStatus", "blockPower"} \subseteq Stages \ (FinStages \cup {"finalizer"})
    BY DEF Stages, FinStages
  <2>2. pc[v] \notin FinStages /\ UNCHANGED <<life, finalized, store, infra, lookups>>
    BY <1>9 DEF BlockRead, FinStages, Learn, objects
  <2>3. \/ pc' = [pc EXCEPT ![v] = "blockStatus"]
        \/ pc' = [pc EXCEPT ![v] = "blockPower"]
    BY <1>9 DEF BlockRead, Goto
  <2> QED BY <2>1, <2>2, <2>3, Onward
<1>10. CASE BlockPower(v)
  <2>1. "blockStatus" \in Stages \ (FinStages \cup {"finalizer"})
    BY DEF Stages, FinStages
  <2>2. pc[v] \notin FinStages /\ UNCHANGED <<life, finalized, store, infra>>
    BY <1>10 DEF BlockPower, FinStages, objects
  <2>3. \/ pc' = [pc EXCEPT ![v] = "blockStatus"] /\ UNCHANGED lookups
        \/ pc' = [pc EXCEPT ![v] = "idle"] /\ lookups' = [lookups EXCEPT ![v] = Unread]
    BY <1>10 DEF BlockPower, Goto, EndPass
  <2> QED BY <1>1, <2>1, <2>2, <2>3, Onward
<1>11. CASE remove_finalizer(v)
  BY <1>11, RemoveStep
<1>12. ASSUME NEW k \in Kinds, FinRead(v, k) PROVE Guarded'
  <2>1. infra_state(v, k) \in InfraStates
        /\ (infra_state(v, k) = "Absent" => <<v, k>> \notin infra)
    BY DEF infra_state, InfraStates
  <2> QED BY <1>12, <2>1, ReadStep DEF FinRead, objects
<1>13. ASSUME NEW k \in Kinds, FinDelete(v, k) PROVE Guarded'
  BY <1>13, DeleteStep DEF FinDelete, objects
<1> QED
  BY <1>2, <1>3, <1>4, <1>5, <1>6, <1>7, <1>8, <1>9, <1>10, <1>11, <1>12, <1>13 DEF Step

\* Failed calls end the pass or take the cascade on without learning anything.
LEMMA FailureStep ==
    ASSUME Guarded, NEW v \in VMs, Failure(v) PROVE Guarded'
<1>1. {"idle", "noBuilder"} \subseteq Stages \ (FinStages \cup {"finalizer"})
  BY DEF Stages, FinStages
<1>2. CASE Abort(v)
  <2>1. pc' = [pc EXCEPT ![v] = "idle"] /\ lookups' = [lookups EXCEPT ![v] = Unread]
        /\ UNCHANGED <<life, finalized, store, infra>>
    BY <1>2 DEF Abort, EndPass, Goto, objects
  <2> QED BY <1>1, <2>1, Onward
<1>3. CASE BuildFails(v)
  <2>1. pc[v] \notin FinStages /\ pc' = [pc EXCEPT ![v] = "noBuilder"]
        /\ UNCHANGED <<life, finalized, store, infra, lookups>>
    BY <1>3 DEF BuildFails, Goto, objects, FinStages
  <2> QED BY <1>1, <2>1, Onward
<1>4. ASSUME NEW k \in Kinds, LookupFails(v, k) PROVE Guarded'
  BY <1>4, ReadStep DEF LookupFails, objects, InfraStates
<1>5. ASSUME NEW k \in Kinds, DeleteFails(v, k) PROVE Guarded'
  BY <1>5, DeleteStep DEF DeleteFails, objects
<1> QED BY <1>2, <1>3, <1>4, <1>5 DEF Failure

\* Users create, edit and delete VMs; a VM under the finalizer stays.
LEMMA UserStep ==
    ASSUME Guarded, NEW v \in VMs, User(v) PROVE Guarded'
<1>1. ASSUME NEW a, NEW p, Create(v, a, p) PROVE Guarded'
  <2>1. life[v] = "absent" /\ life' = [life EXCEPT ![v] = "live"]
        /\ UNCHANGED <<finalized, infra, store, pc, lookups>>
    BY <1>1 DEF Create, Cluster
  <2>2. v \notin finalized
    BY <2>1 DEF Guarded, Held
  <2>3. Types' /\ Held' /\ Covered' /\ Cleared' /\ StoreTrue'
    BY <2>1, <2>2 DEF Guarded, Types, Held, Covered, Cleared, StoreTrue, Lives
  <2>4. StorePast' /\ Finalizing'
    BY <2>1, <2>2 DEF Guarded, Types, StorePast, Finalizing
  <2> QED BY <2>3, <2>4 DEF Guarded
<1>2. CASE DeleteVm(v)
  <2>1. /\ life[v] = "live" /\ UNCHANGED <<finalized, infra, store, pc, lookups>>
        /\ \/ v \in finalized /\ life' = [life EXCEPT ![v] = "deleting"]
           \/ v \notin finalized /\ life' = [life EXCEPT ![v] = "absent"]
    BY <1>2 DEF DeleteVm, Change, Cluster
  <2>2. Types' /\ Covered' /\ Cleared' /\ StoreTrue'
    BY <2>1 DEF Guarded, Types, Covered, Cleared, StoreTrue, Lives
  <2>3. Held'
    BY <2>1 DEF Guarded, Types, Held
  <2>4. StorePast' /\ Finalizing'
    BY <2>1 DEF Guarded, Types, StorePast, Finalizing
  <2> QED BY <2>2, <2>3, <2>4 DEF Guarded
<1>3. ASSUME NEW a, EditAddress(v, a) PROVE Guarded'
  BY <1>3, Aside DEF EditAddress, Change, Cluster
<1>4. ASSUME NEW p, SetPower(v, p) PROVE Guarded'
  BY <1>4, Aside DEF SetPower, Change, Cluster
<1>5. ASSUME NEW a, Reschedule(v, a) PROVE Guarded'
  BY <1>5, Aside DEF Reschedule, Change, Cluster, objects
<1>6. ASSUME NEW k, Vanish(v, k) PROVE Guarded'
  BY <1>6, Aside DEF Vanish, Change, Cluster, objects
<1>7. CASE Pause(v)
  BY <1>7, Aside DEF Pause, Change, Cluster
<1>8. CASE Approve(v)
  BY <1>8, Aside DEF Approve, Change, Cluster
<1> QED BY <1>1, <1>2, <1>3, <1>4, <1>5, <1>6, <1>7, <1>8 DEF User

\* The store catches up.
LEMMA DeliverStep ==
    ASSUME Guarded, Deliver PROVE Guarded'
<1>1. store'.life = life /\ store'.finalized = finalized
      /\ UNCHANGED <<life, finalized, infra, pc, lookups>>
  BY DEF Deliver, Current, objects
<1>2. Types' /\ Held' /\ Covered' /\ Cleared' /\ StoreTrue'
  BY <1>1 DEF Guarded, Types, Held, Covered, Cleared, StoreTrue
<1>3. StorePast' /\ Finalizing'
  BY <1>1 DEF Guarded, Held, StorePast, Finalizing
<1> QED BY <1>2, <1>3 DEF Guarded

\* Every step keeps the invariant.
LEMMA GuardedStep == Guarded /\ [Next]_vars => Guarded'
<1> SUFFICES ASSUME Guarded, [Next]_vars PROVE Guarded'
  OBVIOUS
<1>1. CASE Deliver
  BY <1>1, DeliverStep
<1>2. ASSUME NEW v \in VMs, Step(v) \/ Failure(v) \/ User(v) PROVE Guarded'
  BY <1>2, PassStep, FailureStep, UserStep
<1>3. ASSUME NEW v \in VMs, NEW k \in Kinds, Backend(v, k) PROVE Guarded'
  BY <1>3, Aside DEF Backend, Provision, Finish, Cluster, objects
<1>4. CASE UNCHANGED vars
  BY <1>4, Aside DEF vars, objects
<1> QED BY <1>1, <1>2, <1>3, <1>4 DEF Next

\* Nothing exists at first.
LEMMA GuardedInit == Init => Guarded
<1> SUFFICES ASSUME Init PROVE Guarded
  OBVIOUS
<1>1. Unread \in [Kinds -> InfraStates] /\ \A k \in Kinds : Unread[k] = "Unread"
  BY DEF Unread, InfraStates
<1>2. store.life = life /\ store.finalized = {}
  BY DEF Init, Current
<1> QED
  BY <1>1, <1>2 DEF Init, Guarded, Types, Held, Covered, Cleared, StoreTrue,
     StorePast, Finalizing, Lives, Stages, FinStages

\* No guest outlives its VirtualMachine: whatever lookups, deletes and passes
\* fail and however far the store is behind, finalize_vm lets a VM go only after
\* the last of its infra CRs, for any number of VMs and kinds.
THEOREM NoDangling == Spec => []NoDanglingInfra
<1>1. Guarded => NoDanglingInfra
  BY DEF Guarded, Held, NoDanglingInfra
<1> QED BY <1>1, GuardedInit, GuardedStep, PTL DEF Spec

-----------------------------------------------------------------------------
\* Types.

\* An infra CR is applied for a placement some builder knows.
Targeted ==
    \A v \in VMs : pc[v] \in {"apply", "mirror"} =>
        pass[v].want \in Placements /\ KindOf[pass[v].want] \in Kinds

WellTyped == TypeOK /\ Targeted

\* The initial records.
LEMMA BlankTypes ==
    /\ NoSpec \in Specs /\ NoStatus \in Statuses /\ NoMachine \in Machines
    /\ NoPass \in Passes /\ Unread \in [Kinds -> InfraStates]
<1>1. (CHOOSE p \in Powers : TRUE) \in Powers /\ (CHOOSE p \in Policies : TRUE) \in Policies
  BY VmAssumption
<1>2. 0 \in 0..MaxClock
  BY VmAssumption
<1>3. NoSpec \in Specs /\ NoSpec.power \in Powers
  BY <1>1, <1>2 DEF NoSpec, Specs
<1>4. NoStatus \in Statuses
  BY DEF NoStatus, Statuses
<1>5. NoMachine \in Machines
  BY <1>3 DEF NoMachine, Machines
<1>6. NoPass \in Passes
  BY <1>3, <1>4 DEF NoPass, Passes
<1>7. Unread \in [Kinds -> InfraStates]
  BY DEF Unread, InfraStates
<1> QED BY <1>3, <1>4, <1>5, <1>6, <1>7

\* A pass that goes to another stage, or ends, and learns something well-typed.
LEMMA PassTypes ==
    ASSUME WellTyped, NEW v \in VMs, NEW stage \in Stages, pc' = [pc EXCEPT ![v] = stage],
           NEW p \in Passes, pass' = [pass EXCEPT ![v] = p],
           NEW states \in [Kinds -> InfraStates], lookups' = [lookups EXCEPT ![v] = states],
           stage \in {"apply", "mirror"} => p.want \in Placements /\ KindOf[p.want] \in Kinds
    PROVE  /\ pc' \in [VMs -> Stages] /\ pass' \in [VMs -> Passes]
           /\ lookups' \in [VMs -> [Kinds -> InfraStates]]
           /\ Targeted'
<1>1. pc \in [VMs -> Stages] /\ pass \in [VMs -> Passes]
      /\ lookups \in [VMs -> [Kinds -> InfraStates]]
  BY DEF WellTyped, TypeOK
<1>2. pc' \in [VMs -> Stages] /\ pass' \in [VMs -> Passes]
      /\ lookups' \in [VMs -> [Kinds -> InfraStates]]
  BY <1>1
<1>3. ASSUME NEW w \in VMs, pc'[w] \in {"apply", "mirror"}
      PROVE  pass'[w].want \in Placements /\ KindOf[pass'[w].want] \in Kinds
  <2>1. CASE w = v
    BY <1>1, <1>3, <2>1
  <2>2. CASE w # v
    BY <1>1, <1>3, <2>2 DEF WellTyped, Targeted
  <2> QED BY <2>1, <2>2
<1> QED BY <1>2, <1>3 DEF Targeted

\* The same for a pass that learns nothing, which ends, or which reads on.
LEMMA StageTypes ==
    ASSUME WellTyped, NEW v \in VMs, NEW stage \in Stages, pc' = [pc EXCEPT ![v] = stage],
           \/ UNCHANGED <<pass, lookups>>
           \/ \E p \in Passes : pass' = [pass EXCEPT ![v] = p] /\ UNCHANGED lookups
                                /\ p.want = pass[v].want
           \/ pass' = [pass EXCEPT ![v] = NoPass] /\ lookups' = [lookups EXCEPT ![v] = Unread]
           \/ \E states \in [Kinds -> InfraStates] :
                UNCHANGED pass /\ lookups' = [lookups EXCEPT ![v] = states],
           stage \in {"apply", "mirror"} =>
              UNCHANGED lookups /\ pass[v].want \in Placements /\ KindOf[pass[v].want] \in Kinds
              /\ pass'[v].want = pass[v].want
    PROVE  /\ pc' \in [VMs -> Stages] /\ pass' \in [VMs -> Passes]
           /\ lookups' \in [VMs -> [Kinds -> InfraStates]]
           /\ Targeted'
<1>1. pass \in [VMs -> Passes] /\ lookups \in [VMs -> [Kinds -> InfraStates]]
  BY DEF WellTyped, TypeOK
<1>2. pass = [pass EXCEPT ![v] = pass[v]] /\ lookups = [lookups EXCEPT ![v] = lookups[v]]
  BY <1>1
<1>3. pass[v] \in Passes /\ lookups[v] \in [Kinds -> InfraStates]
  BY <1>1
<1>4. PICK p \in Passes, states \in [Kinds -> InfraStates] :
         pass' = [pass EXCEPT ![v] = p] /\ lookups' = [lookups EXCEPT ![v] = states]
  BY <1>2, <1>3, BlankTypes
<1>5. pass'[v] = p
  BY <1>1, <1>4
<1> QED BY <1>4, <1>5, PassTypes

\* What a pass writes is a status.
LEMMA WrittenType ==
    ASSUME WellTyped, NEW v \in VMs, pc[v] \in StatusStages
    PROVE  Written(v) \in Statuses
<1> DEFINE t == pass[v].status
<1>1. /\ t \in Statuses /\ pass[v].want \in Placements \cup {NoPlacement}
      /\ pass[v].ready \in BOOLEAN /\ pass[v].spec.address \in Addresses \cup {NoAddress}
  <2>1. pass[v] \in Passes
    BY DEF WellTyped, TypeOK
  <2> QED BY <2>1 DEF Passes, Specs
<1>2. \A u \in Statuses, b \in BOOLEAN : mirror_status_from_infra(u, b) \in Statuses
  BY DEF mirror_status_from_infra, Statuses
<1> HIDE DEF t
<1>3. CASE pc[v] \in {"paused", "refused", "blockStatus"}
  <2>1. Written(v) = [t EXCEPT !.ready = FALSE]
    BY <1>3 DEF Written, t
  <2> QED BY <1>1, <2>1 DEF Statuses
<1>4. CASE pc[v] \in {"unschedulable", "noBuilder"}
  <2>1. Written(v) = [t EXCEPT !.isScheduled = FALSE, !.ready = FALSE]
    BY <1>4 DEF Written, t
  <2> QED BY <1>1, <2>1 DEF Statuses
<1>5. CASE pc[v] = "drifted"
  <2>1. Written(v) = [t EXCEPT !.valid = FALSE, !.ready = FALSE]
    BY <1>5 DEF Written, t
  <2> QED BY <1>1, <2>1 DEF Statuses
<1>6. CASE pc[v] = "stickStatus"
  BY <1>1, <1>2, <1>6 DEF Written, t
<1>7. CASE pc[v] = "mirror"
  <2> DEFINE u == mirror_status_from_infra([t EXCEPT !.isScheduled = TRUE], pass[v].ready)
  <2>1. Written(v) = [u EXCEPT !.scheduled = pass[v].want, !.held = pass[v].spec.address]
    BY <1>7 DEF Written, t
  <2>2. [t EXCEPT !.isScheduled = TRUE] \in Statuses
    BY <1>1 DEF Statuses
  <2>3. u \in Statuses
    BY <1>1, <1>2, <2>2
  <2> HIDE DEF u
  <2> QED BY <1>1, <2>1, <2>3 DEF Statuses
<1> QED BY <1>3, <1>4, <1>5, <1>6, <1>7 DEF StatusStages

\* The stages are stages.
LEMMA StageNames ==
    /\ {"idle", "decide", "drifted", "stickStatus", "blockStatus", "blockPower", "mirror",
        "noBuilder", "finRead", "finDelete", "finRemove"} \subseteq Stages
    /\ {"idle", "decide", "drifted", "stickStatus", "blockStatus", "blockPower",
        "noBuilder", "finRead", "finDelete", "finRemove"} \cap {"apply", "mirror"} = {}
    /\ "mirror" \in Stages
BY DEF Stages

\* The steps of a pass outside the cascade.
LEMMA StepTypes ==
    ASSUME WellTyped, NEW v \in VMs,
           \/ Reconcile(v) \/ ensure_finalizer(v) \/ Decide(v) \/ patch_status(v)
           \/ Apply(v) \/ Recreate(v) \/ StickRead(v) \/ BlockRead(v) \/ BlockPower(v)
    PROVE  WellTyped'
<1>1. CASE Reconcile(v)
  <2> DEFINE stage == CASE store.spec[v].paused -> "paused"
                        [] ~store.spec[v].paused /\ store.life[v] = "deleting" -> "finRead"
                        [] OTHER -> IF v \in store.finalized THEN "decide" ELSE "finalizer"
             p == [NoPass EXCEPT !.spec = store.spec[v], !.status = store.status[v]]
  <2>1. pc' = [pc EXCEPT ![v] = stage] /\ pass' = [pass EXCEPT ![v] = p]
        /\ UNCHANGED <<objects, store, infra, ending, machine, lookups>> /\ Unchanged
    BY <1>1 DEF Reconcile, Goto, Learn
  <2>2. stage \in {"paused", "finRead", "decide", "finalizer"}
    OBVIOUS
  <2>3. p \in Passes
    <3>1. store.spec[v] \in Specs /\ store.status[v] \in Statuses
      BY DEF WellTyped, TypeOK
    <3> QED BY <3>1, BlankTypes DEF Passes
  <2>4. lookups' = [lookups EXCEPT ![v] = lookups[v]] /\ lookups[v] \in [Kinds -> InfraStates]
    BY <2>1 DEF WellTyped, TypeOK
  <2> HIDE DEF stage, p
  <2>5. stage \in Stages /\ stage \notin {"apply", "mirror"}
    BY <2>2 DEF Stages
  <2>6. /\ pc' \in [VMs -> Stages] /\ pass' \in [VMs -> Passes]
        /\ lookups' \in [VMs -> [Kinds -> InfraStates]] /\ Targeted'
    BY <2>1, <2>3, <2>4, <2>5, PassTypes
  <2> QED BY <2>1, <2>6 DEF WellTyped, TypeOK, Unchanged, objects
<1>2. CASE ensure_finalizer(v)
  <2>1. /\ \/ pc' = [pc EXCEPT ![v] = "decide"] /\ UNCHANGED <<pass, lookups>>
           \/ /\ pc' = [pc EXCEPT ![v] = "idle"] /\ pass' = [pass EXCEPT ![v] = NoPass]
              /\ lookups' = [lookups EXCEPT ![v] = Unread]
        /\ finalized' \in {finalized \cup {v}, finalized}
        /\ UNCHANGED <<life, spec, status, store, infra, ending, machine>> /\ Unchanged
    BY <1>2 DEF ensure_finalizer, Goto, EndPass
  <2>2. /\ pc' \in [VMs -> Stages] /\ pass' \in [VMs -> Passes]
        /\ lookups' \in [VMs -> [Kinds -> InfraStates]] /\ Targeted'
    BY <2>1, StageNames, StageTypes
  <2>3. finalized' \subseteq VMs
    BY <2>1 DEF WellTyped, TypeOK
  <2> QED BY <2>1, <2>2, <2>3 DEF WellTyped, TypeOK, Unchanged
<1>3. CASE Decide(v)
  <2> DEFINE want == IF world[v] \in Placements THEN world[v] ELSE NoPlacement
             p == [pass[v] EXCEPT !.want = want]
  <2>1. PICK duplicate : Goto(v, Verdict(v, duplicate))
    BY <1>3 DEF Decide
  <2>2. /\ pass' = [pass EXCEPT ![v] = p]
        /\ UNCHANGED <<objects, store, infra, ending, machine, lookups>> /\ Unchanged
    BY <1>3 DEF Decide, Learn
  <2>3. p \in Passes /\ p.want = want
    <3>1. pass[v] \in Passes
      BY DEF WellTyped, TypeOK
    <3> QED BY <3>1 DEF Passes
  <2>4. Verdict(v, duplicate) \in Stages
    BY Verdicts
  <2>5. Verdict(v, duplicate) \in {"apply", "mirror"} =>
           want \in Placements /\ KindOf[want] \in Kinds
    <3>1. world[v] \in Placements \cup {Refused, NoPlacement}
      BY DEF WellTyped, TypeOK
    <3>2. Verdict(v, duplicate) \in {"apply", "mirror"} =>
             world[v] # Refused /\ world[v] # NoPlacement /\ KindOf[world[v]] # NoKind
      BY DEF Verdict
    <3>3. \A p1 \in Placements : KindOf[p1] \in Kinds \cup {NoKind}
      BY VmAssumption
    <3> QED BY <3>1, <3>2, <3>3
  <2>6. lookups' = [lookups EXCEPT ![v] = lookups[v]] /\ lookups[v] \in [Kinds -> InfraStates]
    BY <2>2 DEF WellTyped, TypeOK
  <2> HIDE DEF p, want
  <2>7. /\ pc' \in [VMs -> Stages] /\ pass' \in [VMs -> Passes]
        /\ lookups' \in [VMs -> [Kinds -> InfraStates]] /\ Targeted'
    BY <2>1, <2>2, <2>3, <2>4, <2>5, <2>6, PassTypes DEF Goto
  <2> QED BY <2>2, <2>7 DEF WellTyped, TypeOK, Unchanged, objects
<1>4. CASE patch_status(v)
  <2>1. /\ pc' = [pc EXCEPT ![v] = "idle"] /\ pass' = [pass EXCEPT ![v] = NoPass]
        /\ lookups' = [lookups EXCEPT ![v] = Unread]
        /\ UNCHANGED <<life, finalized, spec, store, infra, ending, machine>> /\ Unchanged
    BY <1>4 DEF patch_status, EndPass, Goto
  <2>2. /\ pc' \in [VMs -> Stages] /\ pass' \in [VMs -> Passes]
        /\ lookups' \in [VMs -> [Kinds -> InfraStates]] /\ Targeted'
    BY <2>1, StageNames, StageTypes
  <2>3. status' \in [VMs -> Statuses]
    <3>1. Written(v) \in Statuses
      BY <1>4, WrittenType DEF patch_status
    <3>2. status' = [status EXCEPT ![v] = IF life[v] = "absent" THEN status[v] ELSE Written(v)]
      BY <1>4 DEF patch_status
    <3> QED BY <3>1, <3>2 DEF WellTyped, TypeOK
  <2> QED BY <2>1, <2>2, <2>3 DEF WellTyped, TypeOK, Unchanged
<1>5. CASE Apply(v)
  <2> DEFINE k == KindOf[pass[v].want]
             ready == <<v, k>> \in infra /\ machine[<<v, k>>].ready
             o == [at |-> pass[v].want, address |-> pass[v].spec.address,
                   power |-> pass[v].spec.power, ready |-> ready]
             p == [pass[v] EXCEPT !.kind = k, !.ready = ready]
  <2>1. /\ pc[v] = "apply" /\ pc' = [pc EXCEPT ![v] = "mirror"]
        /\ infra' = infra \cup {<<v, k>>} /\ machine' = [machine EXCEPT ![<<v, k>>] = o]
        /\ pass' = [pass EXCEPT ![v] = p]
        /\ UNCHANGED <<objects, store, ending, lookups>> /\ Unchanged
    BY <1>5 DEF Apply, Goto, Learn
  <2>2. pass[v].want \in Placements /\ k \in Kinds
    BY <2>1 DEF WellTyped, Targeted
  <2>3. pass[v] \in Passes /\ pass[v].spec \in Specs
    BY DEF WellTyped, TypeOK, Passes
  <2>4. ready \in BOOLEAN
    <3>1. machine[<<v, k>>] \in Machines
      BY <2>2 DEF WellTyped, TypeOK
    <3> QED BY <3>1 DEF Machines
  <2> HIDE DEF k, ready
  <2>5. o \in Machines
    BY <2>2, <2>3, <2>4 DEF Machines, Specs
  <2>6. p \in Passes /\ p.want = pass[v].want
    BY <2>2, <2>3, <2>4 DEF Passes
  <2> HIDE DEF o, p
  <2>7. /\ pc' \in [VMs -> Stages] /\ pass' \in [VMs -> Passes]
        /\ lookups' \in [VMs -> [Kinds -> InfraStates]] /\ Targeted'
    <3>1. pass'[v] = p
      BY <2>1 DEF WellTyped, TypeOK
    <3>2. KindOf[pass[v].want] \in Kinds
      BY <2>2 DEF k
    <3> QED BY <2>1, <2>2, <2>6, <3>1, <3>2, StageNames, StageTypes
  <2>8. machine' \in [VMs \X Kinds -> Machines]
    BY <2>1, <2>5 DEF WellTyped, TypeOK
  <2>9. infra' \subseteq VMs \X Kinds /\ ending' \subseteq infra'
    BY <2>1, <2>2 DEF WellTyped, TypeOK
  <2> QED BY <2>1, <2>7, <2>8, <2>9 DEF WellTyped, TypeOK, Unchanged, objects
<1>6. CASE Recreate(v)
  <2>1. /\ pc' = [pc EXCEPT ![v] = "drifted"] /\ UNCHANGED <<pass, lookups>>
        /\ UNCHANGED <<objects, store, infra, machine>> /\ Unchanged
        /\ ending' \subseteq ending \cup infra
    BY <1>6 DEF Recreate, Goto
  <2>2. /\ pc' \in [VMs -> Stages] /\ pass' \in [VMs -> Passes]
        /\ lookups' \in [VMs -> [Kinds -> InfraStates]] /\ Targeted'
    BY <2>1, StageNames, StageTypes
  <2> QED BY <2>1, <2>2 DEF WellTyped, TypeOK, Unchanged, objects
<1>7. CASE StickRead(v)
  <2> DEFINE k == KindOf[pass[v].want]
             p == [pass[v] EXCEPT !.ready = machine[<<v, k>>].ready]
  <2>1. /\ \/ /\ pc' = [pc EXCEPT ![v] = "stickStatus"] /\ <<v, k>> \in infra
              /\ pass' = [pass EXCEPT ![v] = p] /\ UNCHANGED lookups
           \/ /\ pc' = [pc EXCEPT ![v] = "idle"] /\ pass' = [pass EXCEPT ![v] = NoPass]
              /\ lookups' = [lookups EXCEPT ![v] = Unread]
        /\ UNCHANGED <<objects, store, infra, ending, machine>> /\ Unchanged
    BY <1>7 DEF StickRead, Goto, Learn, EndPass
  <2>2. <<v, k>> \in infra => p \in Passes /\ p.want = pass[v].want
    <3>1. <<v, k>> \in infra => machine[<<v, k>>].ready \in BOOLEAN
      BY DEF WellTyped, TypeOK, Machines
    <3>2. pass[v] \in Passes
      BY DEF WellTyped, TypeOK
    <3> HIDE DEF k
    <3> QED BY <3>1, <3>2 DEF Passes
  <2> HIDE DEF k, p
  <2>3. /\ pc' \in [VMs -> Stages] /\ pass' \in [VMs -> Passes]
        /\ lookups' \in [VMs -> [Kinds -> InfraStates]] /\ Targeted'
    BY <2>1, <2>2, StageNames, StageTypes
  <2> QED BY <2>1, <2>3 DEF WellTyped, TypeOK, Unchanged, objects
<1>8. CASE BlockRead(v)
  <2>1. /\ \/ UNCHANGED pass
           \/ \E k \in Kinds : pass' = [pass EXCEPT ![v] = [pass[v] EXCEPT !.kind = k]]
        /\ \E stage \in {"blockStatus", "blockPower"} : pc' = [pc EXCEPT ![v] = stage]
        /\ UNCHANGED <<objects, store, infra, ending, machine, lookups>> /\ Unchanged
    BY <1>8 DEF BlockRead, Goto, Learn
  <2>2. \A k \in Kinds : [pass[v] EXCEPT !.kind = k] \in Passes
                         /\ [pass[v] EXCEPT !.kind = k].want = pass[v].want
    <3>1. pass[v] \in Passes
      BY DEF WellTyped, TypeOK
    <3> QED BY <3>1 DEF Passes
  <2>3. /\ pc' \in [VMs -> Stages] /\ pass' \in [VMs -> Passes]
        /\ lookups' \in [VMs -> [Kinds -> InfraStates]] /\ Targeted'
    BY <2>1, <2>2, StageNames, StageTypes
  <2> QED BY <2>1, <2>3 DEF WellTyped, TypeOK, Unchanged, objects
<1>9. CASE BlockPower(v)
  <2> DEFINE vk == <<v, pass[v].kind>>
             o == [machine[vk] EXCEPT !.power = pass[v].spec.power]
  <2>1. /\ \/ /\ pc' = [pc EXCEPT ![v] = "blockStatus"] /\ UNCHANGED <<pass, lookups>>
              /\ vk \in infra /\ machine' = [machine EXCEPT ![vk] = o]
           \/ /\ pc' = [pc EXCEPT ![v] = "idle"] /\ pass' = [pass EXCEPT ![v] = NoPass]
              /\ lookups' = [lookups EXCEPT ![v] = Unread] /\ UNCHANGED machine
        /\ UNCHANGED <<objects, store, infra, ending>> /\ Unchanged
    BY <1>9 DEF BlockPower, Goto, EndPass
  <2>2. vk \in infra => o \in Machines
    <3>1. vk \in infra => machine[vk] \in Machines
      BY DEF WellTyped, TypeOK
    <3>2. pass[v].spec.power \in Powers
      BY DEF WellTyped, TypeOK, Passes, Specs
    <3> HIDE DEF vk
    <3> QED BY <3>1, <3>2 DEF Machines
  <2> HIDE DEF vk, o
  <2>3. machine' \in [VMs \X Kinds -> Machines]
    BY <2>1, <2>2 DEF WellTyped, TypeOK
  <2>4. /\ pc' \in [VMs -> Stages] /\ pass' \in [VMs -> Passes]
        /\ lookups' \in [VMs -> [Kinds -> InfraStates]] /\ Targeted'
    BY <2>1, StageNames, StageTypes
  <2> QED BY <2>1, <2>3, <2>4 DEF WellTyped, TypeOK, Unchanged, objects
<1> QED BY <1>1, <1>2, <1>3, <1>4, <1>5, <1>6, <1>7, <1>8, <1>9
\* The cascade goes to one of its own stages, or ends.
LEMMA CascadeTypes ==
    ASSUME WellTyped, NEW v \in VMs, NEW states \in [Kinds -> InfraStates],
           NEW stage \in FinStages \cup {"idle"}, Cascade(v, states, stage)
    PROVE  /\ pc' \in [VMs -> Stages] /\ pass' \in [VMs -> Passes]
           /\ lookups' \in [VMs -> [Kinds -> InfraStates]]
           /\ Targeted'
<1>1. stage \in Stages /\ stage \notin {"apply", "mirror"}
  BY DEF Stages, FinStages
<1>2. /\ pc' = [pc EXCEPT ![v] = stage]
      /\ \/ pass' = [pass EXCEPT ![v] = NoPass] /\ lookups' = [lookups EXCEPT ![v] = Unread]
         \/ UNCHANGED pass /\ lookups' = [lookups EXCEPT ![v] = states]
  BY DEF Cascade, EndPass, Goto
<1> QED BY <1>1, <1>2, StageTypes

\* A lookup and a DELETE.
LEMMA LookupTypes ==
    ASSUME WellTyped, NEW v \in VMs, NEW k \in Kinds, NEW state \in InfraStates,
           Saw(v, k, state) \/ Deleted(v, k)
    PROVE  /\ pc' \in [VMs -> Stages] /\ pass' \in [VMs -> Passes]
           /\ lookups' \in [VMs -> [Kinds -> InfraStates]]
           /\ Targeted'
<1>1. lookups[v] \in [Kinds -> InfraStates]
  BY DEF WellTyped, TypeOK
<1>2. CASE Saw(v, k, state)
  <2> DEFINE states == [lookups[v] EXCEPT ![k] = state]
  <2>1. Cascade(v, states, AfterRead(states))
    BY <1>2 DEF Saw
  <2>2. states \in [Kinds -> InfraStates]
    BY <1>1
  <2> HIDE DEF states
  <2>3. AfterRead(states) \in FinStages \cup {"idle"}
    BY DEF AfterRead, FinStages
  <2> QED BY <2>1, <2>2, <2>3, CascadeTypes
<1>3. CASE Deleted(v, k)
  <2> DEFINE states == [lookups[v] EXCEPT ![k] = "Terminating"]
             stage == IF plan_finalize(states).delete = {} THEN "idle" ELSE "finDelete"
  <2>1. Cascade(v, states, stage)
    BY <1>3 DEF Deleted
  <2>2. states \in [Kinds -> InfraStates]
    BY <1>1 DEF InfraStates
  <2>3. stage \in FinStages \cup {"idle"}
    BY DEF FinStages
  <2> HIDE DEF states, stage
  <2> QED BY <2>1, <2>2, <2>3, CascadeTypes
<1> QED BY <1>2, <1>3

\* The steps of the cascade.
LEMMA FinalizeTypes ==
    ASSUME WellTyped, NEW v \in VMs,
           remove_finalizer(v) \/ \E k \in Kinds : FinRead(v, k) \/ FinDelete(v, k)
    PROVE  WellTyped'
<1>1. ASSUME NEW k \in Kinds, FinRead(v, k) PROVE WellTyped'
  <2>1. infra_state(v, k) \in InfraStates
    BY DEF infra_state, InfraStates
  <2>2. Saw(v, k, infra_state(v, k)) /\ Unchanged
        /\ UNCHANGED <<objects, store, infra, ending, machine>>
    BY <1>1 DEF FinRead
  <2>3. /\ pc' \in [VMs -> Stages] /\ pass' \in [VMs -> Passes]
        /\ lookups' \in [VMs -> [Kinds -> InfraStates]] /\ Targeted'
    BY <2>1, <2>2, LookupTypes
  <2> QED BY <2>2, <2>3 DEF WellTyped, TypeOK, Unchanged, objects
<1>2. ASSUME NEW k \in Kinds, FinDelete(v, k) PROVE WellTyped'
  <2>1. Deleted(v, k) /\ Unchanged /\ UNCHANGED <<objects, store, infra, machine>>
        /\ ending' \subseteq ending \cup infra
    BY <1>2 DEF FinDelete
  <2>2. "Unread" \in InfraStates
    BY DEF InfraStates
  <2>3. /\ pc' \in [VMs -> Stages] /\ pass' \in [VMs -> Passes]
        /\ lookups' \in [VMs -> [Kinds -> InfraStates]] /\ Targeted'
    BY <2>1, <2>2, LookupTypes
  <2> QED BY <2>1, <2>3 DEF WellTyped, TypeOK, Unchanged, objects
<1>3. CASE remove_finalizer(v)
  <2>1. /\ pc' = [pc EXCEPT ![v] = "idle"] /\ pass' = [pass EXCEPT ![v] = NoPass]
        /\ lookups' = [lookups EXCEPT ![v] = Unread]
    BY <1>3 DEF remove_finalizer, EndPass, Goto
  <2>2. /\ pc' \in [VMs -> Stages] /\ pass' \in [VMs -> Passes]
        /\ lookups' \in [VMs -> [Kinds -> InfraStates]] /\ Targeted'
    BY <2>1, StageNames, StageTypes
  <2>3. /\ finalized' \subseteq VMs /\ life' \in [VMs -> {"absent", "live", "deleting"}]
        /\ status' \in [VMs -> Statuses] /\ spec' \in [VMs -> Specs]
        /\ altered' \subseteq VMs
    BY <1>3, BlankTypes DEF remove_finalizer, WellTyped, TypeOK
  <2>4. UNCHANGED <<store, infra, ending, machine, world, unreadable, clock, changes, faults>>
    BY <1>3 DEF remove_finalizer
  <2> QED BY <2>2, <2>3, <2>4 DEF WellTyped, TypeOK
<1> QED BY <1>1, <1>2, <1>3

\* Failed calls.
LEMMA FailureTypes ==
    ASSUME WellTyped, NEW v \in VMs, Failure(v)
    PROVE  WellTyped'
<1>1. Fault /\ UNCHANGED <<objects, store, infra, ending, machine>>
  BY DEF Failure, Abort, BuildFails, LookupFails, DeleteFails
<1>2. faults' \in 0..MaxFaults
  <2>1. MaxFaults \in Nat /\ faults \in 0..MaxFaults
    BY VmAssumption DEF WellTyped, TypeOK
  <2> QED BY <1>1, <2>1 DEF Fault
<1>3. /\ pc' \in [VMs -> Stages] /\ pass' \in [VMs -> Passes]
      /\ lookups' \in [VMs -> [Kinds -> InfraStates]] /\ Targeted'
  <2>1. CASE Abort(v)
    BY <2>1, StageNames, StageTypes DEF Abort, EndPass, Goto
  <2>2. CASE BuildFails(v)
    BY <2>2, StageNames, StageTypes DEF BuildFails, Goto
  <2>3. {"Unknown", "Unread"} \subseteq InfraStates
    BY DEF InfraStates
  <2>4. ASSUME NEW k \in Kinds, LookupFails(v, k) \/ DeleteFails(v, k)
        PROVE  /\ pc' \in [VMs -> Stages] /\ pass' \in [VMs -> Passes]
               /\ lookups' \in [VMs -> [Kinds -> InfraStates]] /\ Targeted'
    BY <2>3, <2>4, LookupTypes DEF LookupFails, DeleteFails
  <2> QED BY <2>1, <2>2, <2>4 DEF Failure
<1> QED BY <1>1, <1>2, <1>3 DEF WellTyped, TypeOK, Fault, objects

\* Users.
LEMMA UserTypes ==
    ASSUME WellTyped, NEW v \in VMs, User(v)
    PROVE  WellTyped'
<1>1. UNCHANGED <<store, pc, pass, lookups, unreadable, faults, infra, machine>> /\ Targeted'
  <2>1. UNCHANGED <<store, pc, pass, lookups, unreadable, faults, infra, machine>>
    BY DEF User, Create, EditAddress, SetPower, Reschedule, Vanish, Pause, Approve, DeleteVm,
           Change, Cluster
  <2> QED BY <2>1 DEF WellTyped, Targeted
<1>2. changes' \in 0..MaxChanges
  <2>1. MaxChanges \in Nat /\ changes \in 0..MaxChanges
    BY VmAssumption DEF WellTyped, TypeOK
  <2>2. changes' = changes \/ (changes < MaxChanges /\ changes' = changes + 1)
    BY DEF User, Create, EditAddress, SetPower, Reschedule, Vanish, Pause, Approve, DeleteVm,
           Change
  <2> QED BY <2>1, <2>2
<1>3. spec[v] \in Specs
  BY DEF WellTyped, TypeOK
<1>4. ASSUME NEW a \in Addresses \cup {NoAddress}, NEW p \in Policies, Create(v, a, p)
      PROVE  WellTyped'
  <2>1. clock' \in 0..MaxClock
    <3>1. MaxClock \in Nat /\ clock \in 0..MaxClock
      BY VmAssumption DEF WellTyped, TypeOK
    <3> QED BY <1>4, <3>1 DEF Create
  <2> DEFINE s == [NoSpec EXCEPT !.address = a, !.policy = p, !.born = clock']
  <2>2. s \in Specs
    BY <2>1, BlankTypes DEF Specs
  <2>3. spec' = [spec EXCEPT ![v] = s] /\ life' = [life EXCEPT ![v] = "live"]
        /\ UNCHANGED <<finalized, status, ending, world, altered>>
    BY <1>4 DEF Create
  <2> HIDE DEF s
  <2> QED BY <1>1, <1>2, <2>1, <2>2, <2>3 DEF WellTyped, TypeOK
<1>5. ASSUME NEW a \in Addresses \cup {NoAddress}, EditAddress(v, a) PROVE WellTyped'
  <2>1. [spec[v] EXCEPT !.address = a] \in Specs
    BY <1>3 DEF Specs
  <2>2. /\ spec' = [spec EXCEPT ![v] = [spec[v] EXCEPT !.address = a]]
        /\ altered' = altered \cup {v}
        /\ UNCHANGED <<life, finalized, status, ending, world, clock>>
    BY <1>5 DEF EditAddress, Edited, Change
  <2> QED BY <1>1, <1>2, <2>1, <2>2 DEF WellTyped, TypeOK
<1>6. ASSUME NEW p \in Powers, SetPower(v, p) PROVE WellTyped'
  <2>1. [spec[v] EXCEPT !.power = p] \in Specs
    BY <1>3 DEF Specs
  <2>2. /\ spec' = [spec EXCEPT ![v] = [spec[v] EXCEPT !.power = p]]
        /\ UNCHANGED <<life, finalized, status, ending, world, altered, clock>>
    BY <1>6 DEF SetPower, Edited, Change
  <2> QED BY <1>1, <1>2, <2>1, <2>2 DEF WellTyped, TypeOK
<1>7. ASSUME NEW a \in Answers, Reschedule(v, a) PROVE WellTyped'
  <2>1. a \in Placements \cup {Refused, NoPlacement}
    BY VmAssumption
  <2>2. /\ world' = [world EXCEPT ![v] = a]
        /\ UNCHANGED <<objects, ending, altered, clock>>
    BY <1>7 DEF Reschedule, Change
  <2> QED BY <1>1, <1>2, <2>1, <2>2 DEF WellTyped, TypeOK, objects
<1>8. ASSUME NEW k \in Kinds, Vanish(v, k) PROVE WellTyped'
  <2>1. /\ ending' \subseteq ending \cup infra
        /\ UNCHANGED <<objects, world, altered, clock>>
    BY <1>8 DEF Vanish, Change
  <2> QED BY <1>1, <1>2, <2>1 DEF WellTyped, TypeOK, objects
<1>9. CASE Pause(v) \/ Approve(v)
  <2>1. \E s \in {[spec[v] EXCEPT !.paused = TRUE], [spec[v] EXCEPT !.paused = FALSE],
                  [spec[v] EXCEPT !.approved = TRUE]} : spec' = [spec EXCEPT ![v] = s]
    BY <1>9 DEF Pause, Approve, Edited
  <2>2. {[spec[v] EXCEPT !.paused = TRUE], [spec[v] EXCEPT !.paused = FALSE],
         [spec[v] EXCEPT !.approved = TRUE]} \subseteq Specs
    BY <1>3 DEF Specs
  <2>3. spec' \in [VMs -> Specs]
    BY <2>1, <2>2 DEF WellTyped, TypeOK
  <2>4. UNCHANGED <<life, finalized, status, ending, world, altered, clock>>
    BY <1>9 DEF Pause, Approve, Change
  <2> QED BY <1>1, <1>2, <2>3, <2>4 DEF WellTyped, TypeOK
<1>10. CASE DeleteVm(v)
  <2>1. /\ life' \in [VMs -> {"absent", "live", "deleting"}] /\ spec' \in [VMs -> Specs]
        /\ status' \in [VMs -> Statuses] /\ altered' \subseteq VMs
    <3>1. CASE life' = [life EXCEPT ![v] = "deleting"] /\ UNCHANGED <<spec, status, altered>>
      BY <3>1 DEF WellTyped, TypeOK
    <3>2. CASE /\ life' = [life EXCEPT ![v] = "absent"] /\ spec' = [spec EXCEPT ![v] = NoSpec]
               /\ status' = [status EXCEPT ![v] = NoStatus] /\ altered' = altered \cup {v}
      BY <3>2, BlankTypes DEF WellTyped, TypeOK
    <3> QED BY <1>10, <3>1, <3>2 DEF DeleteVm, Edited
  <2>2. UNCHANGED <<finalized, ending, world, clock>>
    BY <1>10 DEF DeleteVm, Change
  <2> QED BY <1>1, <1>2, <2>1, <2>2 DEF WellTyped, TypeOK
<1> QED BY <1>4, <1>5, <1>6, <1>7, <1>8, <1>9, <1>10 DEF User

\* Every step keeps the types.
LEMMA TypeStep == WellTyped /\ [Next]_vars => WellTyped'
<1> SUFFICES ASSUME WellTyped, [Next]_vars PROVE WellTyped'
  OBVIOUS
<1>1. CASE Deliver
  <2>1. /\ store'.life = life /\ store'.finalized = finalized /\ store'.spec = spec
        /\ store'.status = status
        /\ UNCHANGED <<objects, infra, ending, machine, pc, pass, lookups>> /\ Unchanged
    BY <1>1 DEF Deliver, Current
  <2> QED BY <2>1 DEF WellTyped, TypeOK, Targeted, Unchanged, objects
<1>2. ASSUME NEW v \in VMs, Step(v) PROVE WellTyped'
  BY <1>2, StepTypes, FinalizeTypes DEF Step
<1>3. ASSUME NEW v \in VMs, Failure(v) \/ User(v) PROVE WellTyped'
  BY <1>3, FailureTypes, UserTypes
<1>4. ASSUME NEW v \in VMs, NEW k \in Kinds, Backend(v, k) PROVE WellTyped'
  <2>1. CASE Provision(v, k)
    <3> DEFINE o == [machine[<<v, k>>] EXCEPT !.ready = TRUE]
    <3>0. machine[<<v, k>>] \in Machines
      BY DEF WellTyped, TypeOK
    <3>1. o \in Machines
      BY <3>0 DEF Machines
    <3>2. machine' = [machine EXCEPT ![<<v, k>>] = o]
          /\ UNCHANGED <<objects, infra, ending>> /\ Cluster /\ Unchanged
      BY <2>1 DEF Provision
    <3> HIDE DEF o
    <3> QED BY <3>1, <3>2 DEF WellTyped, TypeOK, Targeted, Unchanged, Cluster, objects
  <2>2. CASE Finish(v, k)
    BY <2>2, BlankTypes DEF Finish, WellTyped, TypeOK, Targeted, Unchanged, Cluster, objects
  <2> QED BY <1>4, <2>1, <2>2 DEF Backend
<1>5. CASE UNCHANGED vars
  BY <1>5 DEF vars, objects, WellTyped, TypeOK, Targeted
<1> QED BY <1>1, <1>2, <1>3, <1>4, <1>5 DEF Next

\* The initial state is well-typed.
LEMMA TypeInit == Init => WellTyped
<1> SUFFICES ASSUME Init PROVE WellTyped
  OBVIOUS
<1>1. /\ store.life = life /\ store.finalized = finalized /\ store.spec = spec
      /\ store.status = status
  BY DEF Init, Current
<1>2. 0 \in 0..MaxClock /\ 0 \in 0..MaxChanges /\ 0 \in 0..MaxFaults
  BY VmAssumption
<1>3. world \in [VMs -> Placements \cup {Refused, NoPlacement}] /\ unreadable \subseteq Kinds
  BY VmAssumption DEF Init
<1>4. "idle" \in Stages
  BY StageNames
<1>5. TypeOK
  BY <1>1, <1>2, <1>3, <1>4, BlankTypes DEF Init, TypeOK
<1> QED BY <1>5 DEF Init, WellTyped, Targeted

\* VMs, infra CRs, the store and the passes stay well-typed, and no infra CR is of a
\* kind without a builder.
THEOREM VmTypes == Spec => []TypeOK
<1>1. WellTyped => TypeOK
  BY DEF WellTyped
<1> QED BY <1>1, TypeInit, TypeStep, PTL DEF Spec
-----------------------------------------------------------------------------
\* A VM that is paused and being deleted keeps its guests.

\* A cascade runs on a VM that is not paused, and the store is not behind on that:
\* a VM being deleted is unpaused, never paused.
PauseKept ==
    \A v \in VMs :
        /\ pc[v] \in FinStages /\ life[v] = "deleting" => ~spec[v].paused
        /\ store.life[v] = "deleting" /\ life[v] = "deleting" /\ ~store.spec[v].paused
           => ~spec[v].paused

\* A step that touches no VM and starts no cascade.
LEMMA PauseAside ==
    ASSUME PauseKept, UNCHANGED <<life, spec, store>>,
           \A v \in VMs : pc'[v] \in FinStages => pc[v] \in FinStages
    PROVE  PauseKept'
BY DEF PauseKept

\* A pass that does not start a cascade.
LEMMA PauseOnward ==
    ASSUME PauseKept, TypeOK, UNCHANGED <<life, spec, store>>, NEW v \in VMs, NEW stage,
           pc' = [pc EXCEPT ![v] = stage], stage \notin FinStages \/ pc[v] \in FinStages
    PROVE  PauseKept'
<1>1. \A w \in VMs : pc'[w] = IF w = v THEN stage ELSE pc[w]
  BY DEF TypeOK
<1> QED BY <1>1, PauseAside

\* An edit of a spec.
LEMMA PauseEdit ==
    ASSUME PauseKept, TypeOK, UNCHANGED <<life, store, pc>>, NEW v \in VMs, NEW s,
           spec' = [spec EXCEPT ![v] = s],
           life[v] # "deleting" \/ s.paused = FALSE \/ s.paused = spec[v].paused
    PROVE  PauseKept'
<1>1. \A w \in VMs : spec'[w] = IF w = v THEN s ELSE spec[w]
  BY DEF TypeOK
<1> QED BY <1>1 DEF PauseKept

\* Every step keeps it.
LEMMA PauseStep ==
    ASSUME Guarded, TypeOK, PauseKept, [Next]_vars
    PROVE  PauseKept'
<1>1. CASE Deliver
  BY <1>1 DEF Deliver, Current, objects, PauseKept
<1>2. ASSUME NEW v \in VMs, Step(v) PROVE PauseKept'
  <2>1. CASE Reconcile(v)
    <3> DEFINE stage == CASE store.spec[v].paused -> "paused"
                          [] ~store.spec[v].paused /\ store.life[v] = "deleting" -> "finRead"
                          [] OTHER -> IF v \in store.finalized THEN "decide" ELSE "finalizer"
    <3>1. pc' = [pc EXCEPT ![v] = stage] /\ UNCHANGED <<life, spec, store>>
      BY <2>1 DEF Reconcile, Goto, objects
    <3>2. stage \in FinStages => store.life[v] = "deleting" /\ ~store.spec[v].paused
      BY DEF FinStages
    <3> HIDE DEF stage
    <3>3. \A w \in VMs : pc'[w] = IF w = v THEN stage ELSE pc[w]
      BY <3>1 DEF TypeOK
    <3> QED BY <3>1, <3>2, <3>3 DEF PauseKept
  <2>2. CASE ensure_finalizer(v)
    BY <2>2, PauseOnward DEF ensure_finalizer, EndPass, Goto, FinStages
  <2>3. CASE Decide(v)
    <3>1. PICK duplicate : Goto(v, Verdict(v, duplicate))
      BY <2>3 DEF Decide
    <3>2. UNCHANGED <<life, spec, store>>
      BY <2>3 DEF Decide, objects
    <3> QED BY <3>1, <3>2, Verdicts, PauseOnward DEF Goto
  <2>4. CASE patch_status(v)
    BY <2>4, PauseOnward DEF patch_status, EndPass, Goto, FinStages
  <2>5. CASE Apply(v)
    BY <2>5, PauseOnward DEF Apply, Goto, objects, FinStages
  <2>6. CASE Recreate(v)
    BY <2>6, PauseOnward DEF Recreate, Goto, objects, FinStages
  <2>7. CASE StickRead(v)
    BY <2>7, PauseOnward DEF StickRead, EndPass, Goto, objects, FinStages
  <2>8. CASE BlockRead(v)
    BY <2>8, PauseOnward DEF BlockRead, Goto, objects, FinStages
  <2>9. CASE BlockPower(v)
    BY <2>9, PauseOnward DEF BlockPower, EndPass, Goto, objects, FinStages
  <2>10. CASE remove_finalizer(v)
    <3>1. /\ life' = [life EXCEPT ![v] = IF life[v] = "deleting" THEN "absent" ELSE life[v]]
          /\ spec' = [spec EXCEPT ![v] = IF life[v] = "deleting" THEN NoSpec ELSE spec[v]]
          /\ pc' = [pc EXCEPT ![v] = "idle"] /\ store' = store
      BY <2>10 DEF remove_finalizer, EndPass, Goto
    <3>2. ASSUME NEW w \in VMs, life'[w] = "deleting"
          PROVE  life[w] = "deleting" /\ spec'[w] = spec[w] /\ pc'[w] = pc[w]
      BY <3>1, <3>2 DEF TypeOK
    <3> QED BY <3>1, <3>2 DEF PauseKept
  <2>11. ASSUME NEW k \in Kinds, FinRead(v, k) \/ FinDelete(v, k) PROVE PauseKept'
    <3>1. /\ pc[v] \in FinStages /\ UNCHANGED <<life, spec, store>>
          /\ \E stage : pc' = [pc EXCEPT ![v] = stage]
      BY <2>11 DEF FinRead, FinDelete, Saw, Deleted, Cascade, EndPass, Goto, objects, FinStages
    <3> QED BY <3>1, PauseOnward
  <2> QED BY <1>2, <2>1, <2>2, <2>3, <2>4, <2>5, <2>6, <2>7, <2>8, <2>9, <2>10, <2>11 DEF Step
<1>3. ASSUME NEW v \in VMs, Failure(v) PROVE PauseKept'
  <2>1. CASE Abort(v)
    BY <2>1, PauseOnward DEF Abort, EndPass, Goto, objects, FinStages
  <2>2. CASE BuildFails(v)
    BY <2>2, PauseOnward DEF BuildFails, Goto, objects, FinStages
  <2>3. ASSUME NEW k \in Kinds, LookupFails(v, k) \/ DeleteFails(v, k) PROVE PauseKept'
    <3>1. /\ pc[v] \in FinStages /\ UNCHANGED <<life, spec, store>>
          /\ \E stage : pc' = [pc EXCEPT ![v] = stage]
      BY <2>3 DEF LookupFails, DeleteFails, Saw, Deleted, Cascade, EndPass, Goto, objects,
                  FinStages
    <3> QED BY <3>1, PauseOnward
  <2> QED BY <1>3, <2>1, <2>2, <2>3 DEF Failure
<1>4. ASSUME NEW v \in VMs, User(v) PROVE PauseKept'
  <2>1. ASSUME NEW a, NEW p, Create(v, a, p) PROVE PauseKept'
    <3>1. /\ life' = [life EXCEPT ![v] = "live"]
          /\ \E s : spec' = [spec EXCEPT ![v] = s]
          /\ UNCHANGED <<store, pc>>
      BY <2>1 DEF Create, Cluster
    <3>2. ASSUME NEW w \in VMs, life'[w] = "deleting"
          PROVE  life[w] = "deleting" /\ spec'[w] = spec[w]
      BY <3>1, <3>2 DEF TypeOK
    <3> QED BY <3>1, <3>2 DEF PauseKept
  <2>2. ASSUME NEW a, EditAddress(v, a) PROVE PauseKept'
    BY <2>2, PauseEdit DEF EditAddress, Edited, Change, Cluster
  <2>3. ASSUME NEW p, SetPower(v, p) PROVE PauseKept'
    BY <2>3, PauseEdit DEF SetPower, Edited, Change, Cluster
  <2>4. ASSUME NEW a, Reschedule(v, a) PROVE PauseKept'
    BY <2>4, PauseAside DEF Reschedule, Change, Cluster, objects
  <2>5. ASSUME NEW k, Vanish(v, k) PROVE PauseKept'
    BY <2>5, PauseAside DEF Vanish, Change, Cluster, objects
  <2>6. CASE Pause(v)
    <3>1. [spec[v] EXCEPT !.paused = FALSE].paused = FALSE
      BY DEF TypeOK, Specs
    <3> QED BY <2>6, <3>1, PauseEdit DEF Pause, Edited, Change, Cluster
  <2>7. CASE Approve(v)
    BY <2>7, PauseEdit DEF Approve, Edited, Change, Cluster
  <2>8. CASE DeleteVm(v)
    <3>1. /\ life[v] = "live" /\ UNCHANGED <<store, pc>>
          /\ \/ /\ v \in finalized /\ life' = [life EXCEPT ![v] = "deleting"]
                /\ UNCHANGED spec
             \/ /\ life' = [life EXCEPT ![v] = "absent"]
                /\ spec' = [spec EXCEPT ![v] = NoSpec]
      BY <2>8 DEF DeleteVm, Edited, Change, Cluster
    <3>2. v \in finalized => pc[v] \notin FinStages /\ store.life[v] # "deleting"
      BY <3>1 DEF Guarded, Finalizing, StorePast
    <3>3. ASSUME NEW w \in VMs, life'[w] = "deleting"
          PROVE  \/ life[w] = "deleting" /\ spec'[w] = spec[w]
                 \/ w = v /\ v \in finalized
      BY <3>1, <3>3 DEF TypeOK
    <3> QED BY <3>1, <3>2, <3>3 DEF PauseKept
  <2> QED BY <1>4, <2>1, <2>2, <2>3, <2>4, <2>5, <2>6, <2>7, <2>8 DEF User
<1>5. ASSUME NEW v \in VMs, NEW k \in Kinds, Backend(v, k) PROVE PauseKept'
  BY <1>5, PauseAside DEF Backend, Provision, Finish, Cluster, objects
<1>6. CASE UNCHANGED vars
  BY <1>6, PauseAside DEF vars, objects
<1> QED BY <1>1, <1>2, <1>3, <1>4, <1>5, <1>6 DEF Next

\* What a pass was handed.  A pass that was handed a paused VM neither decides nor
\* migrates; and one that applies was handed the placement it applies, or none.
Handed(v) ==
    /\ pc[v] \in {"finalizer", "decide", "recreate"} => ~pass[v].spec.paused
    /\ pc[v] \in {"apply", "mirror"} =>
          pass[v].status.scheduled \in {NoPlacement, pass[v].want}

AllHanded == \A v \in VMs : Handed(v)

\* A step of the pass of v.
LEMMA HandedOnward ==
    ASSUME TypeOK, AllHanded, NEW v \in VMs, NEW stage, NEW p,
           pc' = [pc EXCEPT ![v] = stage], pass' = pass \/ pass' = [pass EXCEPT ![v] = p],
           Handed(v)'
    PROVE  AllHanded'
<1> SUFFICES ASSUME NEW w \in VMs, w # v PROVE Handed(w)'
  BY DEF AllHanded
<1>1. pc'[w] = pc[w] /\ pass'[w] = pass[w]
  BY DEF TypeOK
<1> QED BY <1>1 DEF AllHanded, Handed

\* A step after which nothing is said of the pass of v.
LEMMA HandedOver ==
    ASSUME TypeOK, AllHanded, NEW v \in VMs, NEW stage, NEW p,
           pc' = [pc EXCEPT ![v] = stage], pass' = pass \/ pass' = [pass EXCEPT ![v] = p],
           stage \notin {"finalizer", "decide", "recreate", "apply", "mirror"}
    PROVE  AllHanded'
<1>1. pc'[v] = stage
  BY DEF TypeOK
<1> QED BY <1>1, HandedOnward DEF Handed

\* Every step keeps it.
LEMMA HandedStep ==
    ASSUME WellTyped, AllHanded, [Next]_vars
    PROVE  AllHanded'
<1>1. TypeOK
  BY DEF WellTyped
<1>2. ASSUME UNCHANGED <<pc, pass>> PROVE AllHanded'
  BY <1>2 DEF AllHanded, Handed
<1>3. ASSUME NEW v \in VMs, Step(v) PROVE AllHanded'
  <2>1. CASE Reconcile(v)
    <3> DEFINE stage == CASE store.spec[v].paused -> "paused"
                          [] ~store.spec[v].paused /\ store.life[v] = "deleting" -> "finRead"
                          [] OTHER -> IF v \in store.finalized THEN "decide" ELSE "finalizer"
               p == [NoPass EXCEPT !.spec = store.spec[v], !.status = store.status[v]]
    <3>1. pc' = [pc EXCEPT ![v] = stage] /\ pass' = [pass EXCEPT ![v] = p]
      BY <2>1 DEF Reconcile, Goto, Learn
    <3>2. stage \in {"paused", "finRead", "decide", "finalizer"}
          /\ (stage \in {"decide", "finalizer"} => ~store.spec[v].paused)
      OBVIOUS
    <3>3. p.spec = store.spec[v]
      BY BlankTypes DEF Passes
    <3> HIDE DEF stage, p
    <3>4. pc'[v] = stage /\ pass'[v] = p
      BY <1>1, <3>1 DEF TypeOK
    <3> QED BY <1>1, <3>1, <3>2, <3>3, <3>4, HandedOnward DEF Handed
  <2>2. CASE ensure_finalizer(v)
    <3>1. /\ pc[v] = "finalizer"
          /\ \/ pc' = [pc EXCEPT ![v] = "decide"] /\ pass' = pass
             \/ pc' = [pc EXCEPT ![v] = "idle"] /\ pass' = [pass EXCEPT ![v] = NoPass]
      BY <2>2 DEF ensure_finalizer, Goto, EndPass
    <3>2. CASE pc' = [pc EXCEPT ![v] = "decide"] /\ pass' = pass
      <4>1. Handed(v)'
        BY <1>1, <3>1, <3>2 DEF AllHanded, Handed, TypeOK
      <4> QED BY <1>1, <3>2, <4>1, HandedOnward
    <3> QED BY <1>1, <3>1, <3>2, HandedOver
  <2>3. CASE Decide(v)
    <3> DEFINE want == IF world[v] \in Placements THEN world[v] ELSE NoPlacement
               p == [pass[v] EXCEPT !.want = want]
    <3>1. PICK duplicate : pc' = [pc EXCEPT ![v] = Verdict(v, duplicate)]
      BY <2>3 DEF Decide, Goto
    <3>2. pass' = [pass EXCEPT ![v] = p] /\ pc[v] = "decide"
      BY <2>3 DEF Decide, Learn
    <3>3. p.want = want /\ p.status = pass[v].status /\ p.spec = pass[v].spec
      BY <1>1 DEF TypeOK, Passes
    <3>4. Verdict(v, duplicate) = "apply" =>
             world[v] \in Placements /\ pass[v].status.scheduled \in {NoPlacement, world[v]}
      <4>1. world[v] \in Placements \cup {Refused, NoPlacement}
        BY <1>1 DEF TypeOK
      <4>2. world[v] \in {Refused, NoPlacement} => Verdict(v, duplicate) # "apply"
        BY DEF Verdict
      <4>3. Verdict(v, duplicate) = "apply" => evaluate(v, world[v]) = "InPlace"
        BY DEF Verdict
      <4>4. evaluate(v, world[v]) = "InPlace" =>
               pass[v].status.scheduled \in {NoPlacement, world[v]}
        BY DEF evaluate
      <4> QED BY <4>1, <4>2, <4>3, <4>4
    <3>5. Verdict(v, duplicate) \notin {"finalizer", "decide", "mirror"}
      BY Verdicts DEF Verdict, FinStages
    <3>6. ~pass[v].spec.paused
      BY <3>2 DEF AllHanded, Handed
    <3>7. pc'[v] = Verdict(v, duplicate) /\ pass'[v] = p
      BY <1>1, <3>1, <3>2 DEF TypeOK
    <3>8. Verdict(v, duplicate) = "apply" => p.status.scheduled \in {NoPlacement, p.want}
      BY <3>3, <3>4
    <3>9. ~p.spec.paused
      BY <3>3, <3>6
    <3> HIDE DEF p, want
    <3>10. Handed(v)'
      BY <3>5, <3>7, <3>8, <3>9 DEF Handed
    <3> QED BY <1>1, <3>1, <3>2, <3>10, HandedOnward
  <2>4. CASE patch_status(v)
    BY <1>1, <2>4, HandedOver DEF patch_status, EndPass, Goto
  <2>5. CASE Apply(v)
    <3>1. PICK k, b : /\ pc' = [pc EXCEPT ![v] = "mirror"] /\ pc[v] = "apply"
                      /\ pass' = [pass EXCEPT ![v] = [pass[v] EXCEPT !.kind = k, !.ready = b]]
      BY <2>5 DEF Apply, Goto, Learn
    <3>2. pc'[v] = "mirror" /\ pass'[v].status = pass[v].status /\ pass'[v].want = pass[v].want
      BY <1>1, <3>1 DEF TypeOK, Passes
    <3>3. Handed(v)'
      BY <3>1, <3>2 DEF AllHanded, Handed
    <3> QED BY <1>1, <3>1, <3>3, HandedOnward
  <2>6. CASE Recreate(v)
    BY <1>1, <2>6, HandedOver DEF Recreate, Goto
  <2>7. CASE StickRead(v)
    <3>1. /\ \E stage \in {"idle", "stickStatus"} : pc' = [pc EXCEPT ![v] = stage]
          /\ \E p : pass' = [pass EXCEPT ![v] = p]
      BY <2>7 DEF StickRead, EndPass, Learn, Goto
    <3> QED BY <1>1, <3>1, HandedOver
  <2>8. CASE BlockRead(v)
    <3>1. /\ \E stage \in {"blockStatus", "blockPower"} : pc' = [pc EXCEPT ![v] = stage]
          /\ pass' = pass \/ \E p : pass' = [pass EXCEPT ![v] = p]
      BY <2>8 DEF BlockRead, Learn, Goto
    <3> QED BY <1>1, <3>1, HandedOver
  <2>9. CASE BlockPower(v)
    <3>1. /\ \E stage \in {"idle", "blockStatus"} : pc' = [pc EXCEPT ![v] = stage]
          /\ pass' = pass \/ \E p : pass' = [pass EXCEPT ![v] = p]
      BY <2>9 DEF BlockPower, EndPass, Goto
    <3> QED BY <1>1, <3>1, HandedOver
  <2>10. CASE remove_finalizer(v)
    BY <1>1, <2>10, HandedOver DEF remove_finalizer, EndPass, Goto
  <2>11. ASSUME NEW k \in Kinds, FinRead(v, k) \/ FinDelete(v, k) PROVE AllHanded'
    <3>1. /\ \E stage \in FinStages \cup {"idle"} : pc' = [pc EXCEPT ![v] = stage]
          /\ pass' = pass \/ \E p : pass' = [pass EXCEPT ![v] = p]
      BY <2>11 DEF FinRead, FinDelete, Saw, Deleted, Cascade, AfterRead, EndPass, Goto, FinStages
    <3> QED BY <1>1, <3>1, HandedOver DEF FinStages
  <2> QED BY <1>3, <2>1, <2>2, <2>3, <2>4, <2>5, <2>6, <2>7, <2>8, <2>9, <2>10, <2>11 DEF Step
<1>4. ASSUME NEW v \in VMs, Failure(v) PROVE AllHanded'
  <2>1. CASE Abort(v)
    BY <1>1, <2>1, HandedOver DEF Abort, EndPass, Goto
  <2>2. CASE BuildFails(v)
    BY <1>1, <2>2, HandedOver DEF BuildFails, Goto
  <2>3. ASSUME NEW k \in Kinds, LookupFails(v, k) \/ DeleteFails(v, k) PROVE AllHanded'
    <3>1. /\ \E stage \in FinStages \cup {"idle"} : pc' = [pc EXCEPT ![v] = stage]
          /\ pass' = pass \/ \E p : pass' = [pass EXCEPT ![v] = p]
      BY <2>3 DEF LookupFails, DeleteFails, Saw, Deleted, Cascade, AfterRead, EndPass, Goto,
                  FinStages
    <3> QED BY <1>1, <3>1, HandedOver DEF FinStages
  <2> QED BY <1>4, <2>1, <2>2, <2>3 DEF Failure
<1>5. ASSUME NEW v \in VMs, User(v) PROVE AllHanded'
  <2>1. UNCHANGED <<pc, pass>>
    BY <1>5 DEF User, Create, EditAddress, SetPower, Approve, Pause, Reschedule, Vanish,
       DeleteVm, Change, Cluster
  <2> QED BY <1>2, <2>1
<1>6. CASE Deliver \/ UNCHANGED vars
  BY <1>2, <1>6 DEF Deliver, vars
<1>7. ASSUME NEW v \in VMs, NEW k \in Kinds, Backend(v, k) PROVE AllHanded'
  BY <1>2, <1>7 DEF Backend, Provision, Finish, Cluster
<1> QED BY <1>3, <1>4, <1>5, <1>6, <1>7 DEF Next

LEMMA HandedInit == Init => AllHanded
BY DEF Init, AllHanded, Handed

\* A cascade deletes an infra CR only of a VM that is not paused, although it decides
\* on a store that lags and a VM of the same name may have come and gone since.  A
\* migration deletes one only for a pass that was handed an unpaused VM; a pause the
\* store did not show when that pass began comes too late for it.
THEOREM PausedGuests == Spec => PausedSpared
<1> DEFINE Inv == Guarded /\ WellTyped /\ PauseKept /\ AllHanded
<1>1. Init => Inv
  <2> SUFFICES ASSUME Init PROVE PauseKept
    BY GuardedInit, TypeInit, HandedInit
  <2> QED BY DEF Init, PauseKept
<1>2. Inv /\ [Next]_vars => Inv'
  BY GuardedStep, TypeStep, PauseStep, HandedStep DEF WellTyped
<1>3. ASSUME Inv
      PROVE  [\A v \in VMs, k \in Kinds :
                 Step(v) /\ <<v, k>> \in ending' \ ending
                 => IF pc[v] = "recreate" THEN ~pass[v].spec.paused ELSE ~spec[v].paused]_vars
  <2> SUFFICES ASSUME NEW v \in VMs, NEW k \in Kinds, Step(v), <<v, k>> \in ending' \ ending
               PROVE  IF pc[v] = "recreate" THEN ~pass[v].spec.paused ELSE ~spec[v].paused
    OBVIOUS
  <2>1. Recreate(v) \/ \E l \in Kinds : FinDelete(v, l)
    BY DEF Step, Reconcile, ensure_finalizer, Decide, patch_status, Apply, StickRead,
       BlockRead, BlockPower, remove_finalizer, FinRead
  <2>2. CASE Recreate(v)
    BY <1>3, <2>2 DEF Recreate, AllHanded, Handed
  <2>3. ASSUME NEW l \in Kinds, FinDelete(v, l)
        PROVE  pc[v] # "recreate" /\ ~spec[v].paused
    <3>1. <<v, k>> \in infra /\ pc[v] \in FinStages /\ pc[v] = "finDelete"
      BY <2>3 DEF FinDelete, FinStages
    <3>2. v \in finalized /\ life[v] \in Lives
      BY <1>3, <3>1 DEF Guarded, Held, Types
    <3>3. life[v] = "deleting"
      BY <1>3, <3>1, <3>2 DEF Guarded, Held, Finalizing, Lives
    <3> QED BY <1>3, <3>1, <3>3 DEF PauseKept
  <2> QED BY <2>1, <2>2, <2>3
<1> QED BY <1>1, <1>2, <1>3, PTL DEF Spec, PausedSpared

\* What a status write leaves: only the pass that applied a placement changes the
\* recorded one.
LEMMA WrittenPlacement ==
    ASSUME WellTyped, NEW v \in VMs, pc[v] \in StatusStages
    PROVE  Written(v).scheduled =
              IF pc[v] = "mirror" THEN pass[v].want ELSE pass[v].status.scheduled
<1> DEFINE t == pass[v].status
<1>1. t \in Statuses
  BY DEF WellTyped, TypeOK, Passes
<1>2. \A u \in Statuses : \A b : mirror_status_from_infra(u, b).scheduled = u.scheduled
  BY DEF mirror_status_from_infra, Statuses
<1> HIDE DEF t
<1>3. CASE pc[v] \in {"paused", "refused", "blockStatus"}
  <2>1. Written(v) = [t EXCEPT !.ready = FALSE]
    BY <1>3 DEF Written, t
  <2> QED BY <1>1, <1>3, <2>1 DEF Statuses, t
<1>4. CASE pc[v] \in {"unschedulable", "noBuilder"}
  <2>1. Written(v) = [t EXCEPT !.isScheduled = FALSE, !.ready = FALSE]
    BY <1>4 DEF Written, t
  <2> QED BY <1>1, <1>4, <2>1 DEF Statuses, t
<1>5. CASE pc[v] = "drifted"
  <2>1. Written(v) = [t EXCEPT !.valid = FALSE, !.ready = FALSE]
    BY <1>5 DEF Written, t
  <2> QED BY <1>1, <1>5, <2>1 DEF Statuses, t
<1>6. CASE pc[v] = "stickStatus"
  BY <1>1, <1>2, <1>6 DEF Written, t
<1>7. CASE pc[v] = "mirror"
  <2> DEFINE u == mirror_status_from_infra([t EXCEPT !.isScheduled = TRUE], pass[v].ready)
  <2>1. Written(v) = [u EXCEPT !.scheduled = pass[v].want, !.held = pass[v].spec.address]
    BY <1>7 DEF Written, t
  <2>2. [t EXCEPT !.isScheduled = TRUE] \in Statuses /\ pass[v].ready \in BOOLEAN
    BY <1>1 DEF Statuses, WellTyped, TypeOK, Passes
  <2>3. u \in Statuses
    BY <2>2 DEF mirror_status_from_infra, Statuses
  <2> HIDE DEF u
  <2> QED BY <1>7, <2>1, <2>3 DEF Statuses
<1> QED BY <1>3, <1>4, <1>5, <1>6, <1>7 DEF StatusStages

\* However late the store is and whichever calls are lost, a pass applies a guest
\* where the status it was handed records it, or for the first time, and overwrites
\* a recorded placement only if it was handed another.  That a guest gets a second
\* place is not excluded: it takes a pass that was handed a status without the first.
THEOREM PlacementKept == Spec => PlacementSticks
<1> DEFINE Inv == WellTyped /\ AllHanded
<1>1. Init => Inv
  BY TypeInit, HandedInit
<1>2. Inv /\ [Next]_vars => Inv'
  BY TypeStep, HandedStep
<1>3. ASSUME Inv
      PROVE  [\A v \in VMs :
                 /\ Apply(v) => \A k \in Kinds : machine'[<<v, k>>] # machine[<<v, k>>] =>
                       pass[v].status.scheduled \in {NoPlacement, machine'[<<v, k>>].at}
                 /\ patch_status(v) /\ pass[v].status.scheduled = status[v].scheduled =>
                       status[v].scheduled \in {NoPlacement, status'[v].scheduled}]_vars
  <2> SUFFICES ASSUME NEW v \in VMs
               PROVE  /\ Apply(v) => \A k \in Kinds : machine'[<<v, k>>] # machine[<<v, k>>] =>
                            pass[v].status.scheduled \in {NoPlacement, machine'[<<v, k>>].at}
                      /\ patch_status(v) /\ pass[v].status.scheduled = status[v].scheduled =>
                            status[v].scheduled \in {NoPlacement, status'[v].scheduled}
    OBVIOUS
  <2>1. ASSUME Apply(v), NEW k \in Kinds, machine'[<<v, k>>] # machine[<<v, k>>]
        PROVE  pass[v].status.scheduled \in {NoPlacement, machine'[<<v, k>>].at}
    <3>1. PICK m : m.at = pass[v].want
                   /\ machine' = [machine EXCEPT ![<<v, KindOf[pass[v].want]>>] = m]
      BY <2>1 DEF Apply
    <3>2. machine'[<<v, k>>] = m
      BY <1>3, <2>1, <3>1 DEF WellTyped, TypeOK
    <3> QED BY <1>3, <2>1, <3>1, <3>2 DEF Apply, AllHanded, Handed
  <2>2. ASSUME patch_status(v), pass[v].status.scheduled = status[v].scheduled
        PROVE  status[v].scheduled \in {NoPlacement, status'[v].scheduled}
    <3>1. /\ pc[v] \in StatusStages
          /\ status'[v] = IF life[v] = "absent" THEN status[v] ELSE Written(v)
      BY <1>3, <2>2 DEF patch_status, WellTyped, TypeOK
    <3> QED BY <1>3, <2>2, <3>1, WrittenPlacement DEF AllHanded, Handed
  <2> QED BY <2>1, <2>2
<1> QED BY <1>1, <1>2, <1>3, PTL DEF Spec, PlacementSticks
-----------------------------------------------------------------------------
\* Addresses.  The store is behind, but not out of order: it shows a VM only if it
\* shows those created before.  So a pass that decides knows of every VM that is
\* older than its own, and a VM that declares the address of an older one is blocked
\* in every pass, as long as it never held the address.

\* What the store, the passes, the status and the infra CRs say of a VM that has the
\* address it was created with.
Faithful(v) ==
    v \notin altered =>
        /\ life[v] = "absent" => store.life[v] = "absent" /\ status[v].held = NoAddress
        /\ store.life[v] = "absent" => pc[v] = "idle"
        /\ store.life[v] # "absent" =>
              /\ store.spec[v].address = spec[v].address /\ store.spec[v].born = spec[v].born
              /\ store.status[v].held \in {NoAddress, spec[v].address}
        /\ pc[v] # "idle" =>
              /\ pass[v].spec.address = spec[v].address /\ pass[v].spec.born = spec[v].born
              /\ pass[v].status.held \in {NoAddress, spec[v].address}
        /\ status[v].held \in {NoAddress, spec[v].address}
        /\ \A k \in Kinds : <<v, k>> \in infra => machine[<<v, k>>].address = spec[v].address

\* VM w has nothing of its address: no guest, no record, no pass that brings it one.
Withheld(w) ==
    /\ status[w].held = NoAddress /\ pc[w] \notin {"apply", "mirror"}
    /\ store.life[w] # "absent" => store.status[w].held = NoAddress
    /\ pc[w] # "idle" => pass[w].status.held = NoAddress
    /\ \A k \in Kinds : <<w, k>> \notin infra

\* VM v is older than VM w.
Precedes(v, w) ==
    /\ v \notin altered /\ w \notin altered /\ life[v] # "absent" /\ life[w] # "absent"
    /\ spec[v].born < spec[w].born

Rivals(v, w) == spec[v].address = spec[w].address /\ spec[w].address # NoAddress

\* VM w comes after v in the store, and has nothing that v declares.
Yields(v, w) ==
    Precedes(v, w) => /\ store.life[w] # "absent" => store.life[v] # "absent"
                      /\ Rivals(v, w) => Withheld(w)

\* The VMs that exist and those the store shows are finitely many.
Present == {v \in VMs : life[v] # "absent"}
Shown == {v \in VMs : store.life[v] # "absent"}

Exclusive ==
    /\ IsFiniteSet(Present) /\ IsFiniteSet(Shown)
    /\ \A v \in VMs : Faithful(v) /\ spec[v].born <= clock
    /\ \A v, w \in VMs : Yields(v, w)

\* A step after which v is as it was, for all that concerns its address, or altered.
Calm(v) ==
    v \notin altered' =>
        /\ (life'[v] = "absent") <=> (life[v] = "absent")
        /\ spec'[v].address = spec[v].address /\ spec'[v].born = spec[v].born
        /\ status'[v].held = status[v].held /\ pc'[v] = pc[v] /\ pass'[v] = pass[v]
        /\ \A k \in Kinds : <<v, k>> \in infra' =>
              <<v, k>> \in infra /\ machine'[<<v, k>>].address = machine[<<v, k>>].address

\* A step that alters some VMs and leaves the rest as they were.
LEMMA CalmStep ==
    ASSUME Exclusive, UNCHANGED <<store, clock>>, altered \subseteq altered',
           \A v \in VMs : Calm(v), Present' \subseteq Present,
           \A v \in VMs : spec'[v].born <= clock
    PROVE  Exclusive'
<1>1. IsFiniteSet(Present') /\ IsFiniteSet(Shown')
  <2>1. Shown' = Shown
    BY DEF Shown
  <2> QED BY <2>1, FS_Subset DEF Exclusive
<1>2. ASSUME NEW v \in VMs PROVE Faithful(v)'
  BY DEF Exclusive, Faithful, Calm
<1>3. ASSUME NEW v \in VMs, NEW w \in VMs PROVE Yields(v, w)'
  <2>1. Calm(v) /\ Calm(w) /\ Yields(v, w)
    BY DEF Exclusive
  <2> QED BY <2>1 DEF Yields, Precedes, Rivals, Withheld, Calm
<1> QED BY <1>1, <1>2, <1>3 DEF Exclusive

\* A new VM is the youngest.
LEMMA CreateStep ==
    ASSUME Exclusive, Guarded, TypeOK, NEW u \in VMs, NEW a, NEW p, Create(u, a, p)
    PROVE  Exclusive'
<1> DEFINE s == [NoSpec EXCEPT !.address = a, !.policy = p, !.born = clock']
<1>1. /\ life[u] = "absent" /\ life' = [life EXCEPT ![u] = "live"]
      /\ spec' = [spec EXCEPT ![u] = s] /\ clock' \in {clock, clock + 1}
      /\ UNCHANGED <<status, infra, machine, altered, store, pc, pass>>
  BY DEF Create, Cluster
<1>2. s.address = a /\ s.born = clock'
  BY DEF NoSpec
<1> HIDE DEF s
<1>3. /\ spec'[u].address = a /\ spec'[u].born = clock'
      /\ life'[u] = "live"
      /\ \A v \in VMs : v # u => spec'[v] = spec[v] /\ life'[v] = life[v]
  BY <1>1, <1>2 DEF TypeOK
<1>4. clock \in Nat /\ clock' \in Nat /\ clock <= clock' /\ \A v \in VMs : spec[v].born \in Nat
  BY <1>1, VmAssumption DEF TypeOK, Specs
<1>5. \A k \in Kinds : <<u, k>> \notin infra
  BY <1>1 DEF Guarded, Held
<1>6. IsFiniteSet(Present') /\ IsFiniteSet(Shown')
  <2>1. Shown' = Shown /\ Present' = Present \cup {u}
    BY <1>1, <1>3 DEF Shown, Present
  <2> QED BY <2>1, FS_AddElement DEF Exclusive
<1>7. ASSUME NEW v \in VMs PROVE Faithful(v)' /\ spec'[v].born <= clock'
  <2>1. Faithful(v) /\ spec[v].born <= clock
    BY DEF Exclusive
  <2>2. CASE v = u
    BY <1>1, <1>3, <1>4, <1>5, <2>1, <2>2 DEF Faithful
  <2>3. CASE v # u
    BY <1>1, <1>3, <1>4, <2>1, <2>3 DEF Faithful
  <2> QED BY <2>2, <2>3
<1>8. ASSUME NEW v \in VMs, NEW w \in VMs, Precedes(v, w)'
      PROVE  /\ store'.life[w] # "absent" => store'.life[v] # "absent"
             /\ Rivals(v, w)' => Withheld(w)'
  <2>1. Faithful(w) /\ spec[w].born <= clock /\ Yields(v, w)
    BY DEF Exclusive
  <2>2. CASE v = u
    BY <1>3, <1>4, <1>8, <2>1, <2>2 DEF Precedes
  <2>3. CASE v # u /\ w = u
    BY <1>1, <1>5, <1>8, <2>1, <2>3 DEF Precedes, Faithful, Withheld
  <2>4. CASE v # u /\ w # u
    BY <1>1, <1>3, <1>8, <2>1, <2>4 DEF Yields, Precedes, Rivals, Withheld
  <2> QED BY <2>2, <2>3, <2>4
<1> QED BY <1>6, <1>7, <1>8 DEF Exclusive, Yields

\* The store catches up.
LEMMA CatchUp ==
    ASSUME Exclusive, Deliver
    PROVE  Exclusive'
<1>1. /\ store'.life = life /\ store'.spec = spec /\ store'.status = status
      /\ UNCHANGED <<life, spec, status, infra, machine, pc, pass, altered, clock>>
  BY DEF Deliver, Current, objects, Unchanged
<1>2. IsFiniteSet(Present') /\ IsFiniteSet(Shown')
  BY <1>1 DEF Shown, Present, Exclusive
<1>3. ASSUME NEW v \in VMs PROVE Faithful(v)' /\ spec'[v].born <= clock'
  BY <1>1 DEF Exclusive, Faithful
<1>4. ASSUME NEW v \in VMs, NEW w \in VMs PROVE Yields(v, w)'
  BY <1>1 DEF Exclusive, Yields, Precedes, Rivals, Withheld
<1> QED BY <1>2, <1>3, <1>4 DEF Exclusive

\* What a pass knows of two VMs that declare one address: the younger is blocked.
LEMMA Seen ==
    ASSUME Exclusive, TypeOK, NEW v \in VMs, NEW w \in VMs, Precedes(v, w), Rivals(v, w),
           pc[w] = "decide"
    PROVE  duplicate_address(w, Contestants(w))
<1> DEFINE vms == Contestants(w)
           c == [net |-> "net", address |-> spec[w].address]
<1>1. Faithful(v) /\ Faithful(w) /\ Yields(v, w)
  BY DEF Exclusive
<1>2. /\ v \notin altered /\ w \notin altered
      /\ spec[v].born \in Nat /\ spec[w].born \in Nat /\ spec[v].born < spec[w].born
      /\ spec[v].address = spec[w].address /\ spec[w].address # NoAddress
  BY VmAssumption DEF Precedes, Rivals, TypeOK, Specs
<1>3. v # w
  BY <1>2
<1>4. store.life[w] # "absent" /\ store.life[v] # "absent" /\ pass[w].status.held = NoAddress
  BY <1>1 DEF Faithful, Yields, Precedes, Withheld
<1>5. /\ DOMAIN vms = Shown \cup {w}
      /\ \A x \in DOMAIN vms : x # w => vms[x].born = store.spec[x].born
      /\ vms[v] = [born |-> store.spec[v].born, declared |-> ClaimOn(store.spec[v].address),
                   held |-> ClaimOn(store.status[v].held)]
      /\ vms[w] = [born |-> pass[w].spec.born, declared |-> ClaimOn(pass[w].spec.address),
                   held |-> ClaimOn(pass[w].status.held)]
  BY <1>3, <1>4 DEF Contestants, Shown
<1> HIDE DEF vms
<1>6. /\ vms[v].born = spec[v].born /\ vms[v].declared = {c} /\ vms[v].held \subseteq {c}
      /\ vms[w].born = spec[w].born /\ vms[w].declared = {c} /\ vms[w].held = {}
  BY <1>1, <1>2, <1>4, <1>5 DEF Faithful, ClaimOn
<1>7. IsVms(vms)
  <2>1. IsFiniteSet(DOMAIN vms)
    BY <1>5, FS_AddElement DEF Exclusive
  <2>2. DOMAIN vms \subseteq VMs
    BY <1>5 DEF Shown
  <2>3. \A x \in VMs : store.spec[x].born \in Nat
    BY VmAssumption DEF TypeOK, Specs
  <2>4. \A x \in DOMAIN vms : vms[x].born \in Nat
    BY <1>2, <1>5, <1>6, <2>2, <2>3
  <2> QED BY <2>1, <2>2, <2>4, VmAssumption DEF IsVms
<1>8. v \in DOMAIN vms /\ w \in DOMAIN vms /\ Older(vms, v, w)
  BY <1>2, <1>4, <1>5, <1>6 DEF Older, Shown
<1> HIDE DEF c
<1> QED BY <1>6, <1>7, <1>8, YoungerBlocked DEF vms

\* A step of the pass of VM u: what it may take over, write and apply.
Moves(u) ==
    /\ UNCHANGED <<life, spec, store, altered, clock>>
    /\ \A w \in VMs \ {u} : /\ pc'[w] = pc[w] /\ pass'[w] = pass[w]
                            /\ status'[w].held = status[w].held
    /\ \/ status'[u].held = status[u].held
       \/ pc[u] # "idle" /\ status'[u].held = pass[u].status.held
       \/ pc[u] = "mirror" /\ status'[u].held = pass[u].spec.address
    /\ \/ pc'[u] = "idle"
       \/ /\ pc[u] # "idle" /\ pass'[u].spec = pass[u].spec
          /\ pass'[u].status = pass[u].status
       \/ /\ store.life[u] # "absent" /\ pass'[u].spec = store.spec[u]
          /\ pass'[u].status = store.status[u]
    /\ pc'[u] = "mirror" => pc[u] = "apply"
    /\ pc'[u] = "apply" => pc[u] = "decide" /\ ~duplicate_address(u, Contestants(u))
    /\ \A w \in VMs, k \in Kinds : <<w, k>> \in infra' =>
          \/ <<w, k>> \in infra /\ machine'[<<w, k>>].address = machine[<<w, k>>].address
          \/ w = u /\ pc[u] = "apply" /\ machine'[<<w, k>>].address = pass[u].spec.address

\* Such a step gives no VM the address of an older one.
LEMMA MovesKeep ==
    ASSUME Exclusive, TypeOK, NEW u \in VMs, Moves(u)
    PROVE  Exclusive'
<1>1. UNCHANGED <<life, spec, store, altered, clock>>
  BY DEF Moves
<1>2. IsFiniteSet(Present') /\ IsFiniteSet(Shown')
  BY <1>1 DEF Shown, Present, Exclusive
<1>3. ASSUME NEW v \in VMs PROVE Faithful(v)'
  <2>1. Faithful(v)
    BY DEF Exclusive
  <2>2. CASE v # u
    BY <1>1, <2>1, <2>2 DEF Moves, Faithful
  <2>3. CASE v = u
    BY <1>1, <2>1, <2>3 DEF Moves, Faithful
  <2> QED BY <2>2, <2>3
<1>4. ASSUME NEW v \in VMs, NEW w \in VMs PROVE Yields(v, w)'
  <2>1. Yields(v, w)
    BY DEF Exclusive
  <2>2. CASE w # u
    BY <1>1, <2>1, <2>2 DEF Moves, Yields, Precedes, Rivals, Withheld
  <2>3. CASE w = u /\ Precedes(v, w) /\ Rivals(v, w)
    <3>1. Withheld(w) /\ ~(pc[w] = "decide" /\ ~duplicate_address(w, Contestants(w)))
      BY <2>1, <2>3, Seen DEF Yields
    <3>2. Withheld(w)'
      BY <1>1, <2>3, <3>1 DEF Moves, Withheld
    <3> QED BY <1>1, <2>1, <3>2 DEF Yields, Precedes
  <2>4. CASE w = u /\ ~(Precedes(v, w) /\ Rivals(v, w))
    BY <1>1, <2>1, <2>4 DEF Yields, Precedes, Rivals
  <2> QED BY <2>2, <2>3, <2>4
<1> QED BY <1>1, <1>2, <1>3, <1>4 DEF Exclusive

\* The steps of a pass leave the passes and the status of other VMs.
LEMMA Elsewhere ==
    ASSUME TypeOK, NEW u \in VMs, Step(u) \/ Failure(u), NEW w \in VMs, w # u
    PROVE  pc'[w] = pc[w] /\ pass'[w] = pass[w] /\ status'[w] = status[w]
<1>1. pc'[w] = pc[w] /\ pass'[w] = pass[w]
  BY DEF TypeOK, Step, Reconcile, ensure_finalizer, Decide, patch_status, Apply, Recreate,
     StickRead, BlockRead, BlockPower, remove_finalizer, FinRead, FinDelete, Saw, Deleted,
     Cascade, EndPass, Goto, Learn, Failure, Abort, BuildFails, LookupFails, DeleteFails
<1>2. status'[w] = status[w]
  BY DEF TypeOK, Step, Reconcile, ensure_finalizer, Decide, patch_status, Apply, Recreate,
     StickRead, BlockRead, BlockPower, remove_finalizer, FinRead, FinDelete, objects,
     Failure, Abort, BuildFails, LookupFails, DeleteFails
<1> QED BY <1>1, <1>2

\* A step that applies nothing and writes no status.
LEMMA QuietMoves ==
    ASSUME TypeOK, NEW u \in VMs, Step(u) \/ Failure(u),
           UNCHANGED <<objects, store, infra, machine, altered, clock>>,
           \/ pc'[u] = "idle"
           \/ pc[u] # "idle" /\ pass'[u].spec = pass[u].spec /\ pass'[u].status = pass[u].status
           \/ store.life[u] # "absent" /\ pass'[u].spec = store.spec[u]
              /\ pass'[u].status = store.status[u],
           pc'[u] # "mirror",
           pc'[u] = "apply" => pc[u] = "decide" /\ ~duplicate_address(u, Contestants(u))
    PROVE  Moves(u)
BY Elsewhere DEF Moves, objects

\* A status write records the address of the pass that applied it, and else what was
\* recorded when the pass began.
LEMMA WrittenHeld ==
    ASSUME TypeOK, NEW v \in VMs, pc[v] \in StatusStages
    PROVE  Written(v).held =
              IF pc[v] = "mirror" THEN pass[v].spec.address ELSE pass[v].status.held
<1> DEFINE t == pass[v].status
<1>1. t \in Statuses
  BY DEF TypeOK, Passes
<1>2. \A u \in Statuses : \A b : mirror_status_from_infra(u, b).held = u.held
  BY DEF mirror_status_from_infra, Statuses
<1> HIDE DEF t
<1>3. CASE pc[v] \in {"paused", "refused", "blockStatus"}
  <2>1. Written(v) = [t EXCEPT !.ready = FALSE]
    BY <1>3 DEF Written, t
  <2> QED BY <1>1, <1>3, <2>1 DEF Statuses, t
<1>4. CASE pc[v] \in {"unschedulable", "noBuilder"}
  <2>1. Written(v) = [t EXCEPT !.isScheduled = FALSE, !.ready = FALSE]
    BY <1>4 DEF Written, t
  <2> QED BY <1>1, <1>4, <2>1 DEF Statuses, t
<1>5. CASE pc[v] = "drifted"
  <2>1. Written(v) = [t EXCEPT !.valid = FALSE, !.ready = FALSE]
    BY <1>5 DEF Written, t
  <2> QED BY <1>1, <1>5, <2>1 DEF Statuses, t
<1>6. CASE pc[v] = "stickStatus"
  BY <1>1, <1>2, <1>6 DEF Written, t
<1>7. CASE pc[v] = "mirror"
  <2> DEFINE u == mirror_status_from_infra([t EXCEPT !.isScheduled = TRUE], pass[v].ready)
  <2>1. Written(v) = [u EXCEPT !.scheduled = pass[v].want, !.held = pass[v].spec.address]
    BY <1>7 DEF Written, t
  <2>2. [t EXCEPT !.isScheduled = TRUE] \in Statuses /\ pass[v].ready \in BOOLEAN
    BY <1>1 DEF Statuses, TypeOK, Passes
  <2>3. u \in Statuses
    BY <2>2 DEF mirror_status_from_infra, Statuses
  <2> HIDE DEF u
  <2> QED BY <1>7, <2>1, <2>3 DEF Statuses
<1> QED BY <1>3, <1>4, <1>5, <1>6, <1>7 DEF StatusStages

\* The steps of a pass, but for the removal of the finalizer.
LEMMA PassMoves ==
    ASSUME TypeOK, NEW u \in VMs, Step(u), ~remove_finalizer(u)
    PROVE  Moves(u)
<1>1. CASE Reconcile(u)
  <2> DEFINE stage == CASE store.spec[u].paused -> "paused"
                        [] ~store.spec[u].paused /\ store.life[u] = "deleting" -> "finRead"
                        [] OTHER -> IF u \in store.finalized THEN "decide" ELSE "finalizer"
             p == [NoPass EXCEPT !.spec = store.spec[u], !.status = store.status[u]]
  <2>1. /\ pc' = [pc EXCEPT ![u] = stage] /\ pass' = [pass EXCEPT ![u] = p]
        /\ store.life[u] # "absent" /\ UNCHANGED <<objects, store, infra, machine, altered, clock>>
    BY <1>1 DEF Reconcile, Goto, Learn, Unchanged
  <2>2. stage \in {"paused", "finRead", "decide", "finalizer"}
    OBVIOUS
  <2>3. p.status = store.status[u] /\ p.spec = store.spec[u]
    BY BlankTypes DEF Passes
  <2> HIDE DEF stage, p
  <2>4. pc'[u] = stage /\ pass'[u] = p
    BY <2>1 DEF TypeOK
  <2> QED BY <2>1, <2>2, <2>3, <2>4, QuietMoves
<1>2. CASE ensure_finalizer(u)
  <2>1. /\ pc[u] = "finalizer"
        /\ UNCHANGED <<life, spec, status, store, infra, machine, altered, clock>>
        /\ ((pc'[u] = "decide" /\ pass' = pass) \/ pc'[u] = "idle")
    BY <1>2 DEF ensure_finalizer, Goto, EndPass, TypeOK, Unchanged
  <2> QED BY <2>1, Elsewhere DEF Moves
<1>3. CASE Decide(u)
  <2> DEFINE want == IF world[u] \in Placements THEN world[u] ELSE NoPlacement
             p == [pass[u] EXCEPT !.want = want]
             duplicate == duplicate_address(u, Contestants(u))
  <2>1. pc' = [pc EXCEPT ![u] = Verdict(u, duplicate)]
    BY <1>3, Zenon DEF Decide, Goto
  <2>2. /\ pass' = [pass EXCEPT ![u] = p] /\ pc[u] = "decide"
        /\ UNCHANGED <<objects, store, infra, machine, altered, clock>>
    BY <1>3 DEF Decide, Learn, Unchanged
  <2>3. p.spec = pass[u].spec /\ p.status = pass[u].status
    BY DEF TypeOK, Passes
  <2> HIDE DEF p, duplicate
  <2>4. pc'[u] = Verdict(u, duplicate) /\ pass'[u] = p
    BY <2>1, <2>2 DEF TypeOK
  <2>5. Verdict(u, duplicate) # "mirror" /\ (Verdict(u, duplicate) = "apply" => ~duplicate)
    BY DEF Verdict
  <2> QED BY <2>2, <2>3, <2>4, <2>5, QuietMoves DEF duplicate
<1>4. CASE patch_status(u)
  <2>1. /\ pc[u] \in StatusStages /\ pc'[u] = "idle"
        /\ status'[u] = IF life[u] = "absent" THEN status[u] ELSE Written(u)
        /\ UNCHANGED <<life, spec, store, infra, machine, altered, clock>>
    BY <1>4 DEF patch_status, EndPass, Goto, TypeOK, Unchanged
  <2>2. pc[u] # "idle"
    BY <2>1 DEF StatusStages
  <2> QED BY <2>1, <2>2, WrittenHeld, Elsewhere DEF Moves
<1>5. CASE Apply(u)
  <2> DEFINE k == KindOf[pass[u].want]
             m == [at |-> pass[u].want, address |-> pass[u].spec.address,
                   power |-> pass[u].spec.power,
                   ready |-> <<u, k>> \in infra /\ machine[<<u, k>>].ready]
             p == [pass[u] EXCEPT !.kind = k, !.ready = m.ready]
  <2>1. /\ pc[u] = "apply" /\ pc' = [pc EXCEPT ![u] = "mirror"]
        /\ infra' = infra \cup {<<u, k>>} /\ machine' = [machine EXCEPT ![<<u, k>>] = m]
        /\ pass' = [pass EXCEPT ![u] = p] /\ UNCHANGED <<objects, store, altered, clock>>
    BY <1>5 DEF Apply, Goto, Learn, Unchanged
  <2>2. p.status = pass[u].status /\ p.spec = pass[u].spec /\ m.address = pass[u].spec.address
    BY DEF TypeOK, Passes
  <2> HIDE DEF k, m, p
  <2>3. pc'[u] = "mirror" /\ pass'[u] = p
    BY <2>1 DEF TypeOK
  <2>4. ASSUME NEW w \in VMs, NEW l \in Kinds, <<w, l>> \in infra'
        PROVE  \/ <<w, l>> \in infra /\ machine'[<<w, l>>].address = machine[<<w, l>>].address
               \/ w = u /\ pc[u] = "apply" /\ machine'[<<w, l>>].address = pass[u].spec.address
    <3>1. CASE w = u /\ l = k
      BY <2>1, <2>2, <3>1 DEF TypeOK
    <3>2. CASE ~(w = u /\ l = k)
      BY <2>1, <2>4, <3>2 DEF TypeOK
    <3> QED BY <3>1, <3>2
  <2> QED BY <2>1, <2>2, <2>3, <2>4, Elsewhere DEF Moves, objects
<1>6. CASE Recreate(u)
  <2>1. /\ pc[u] = "recreate" /\ pc'[u] = "drifted" /\ pass' = pass
        /\ UNCHANGED <<objects, store, infra, machine, altered, clock>>
    BY <1>6 DEF Recreate, Goto, TypeOK, Unchanged
  <2> QED BY <2>1, QuietMoves
<1>7. CASE StickRead(u)
  <2>1. /\ pc[u] = "stickRead" /\ UNCHANGED <<objects, store, infra, machine, altered, clock>>
        /\ \/ pc'[u] = "idle"
           \/ pc'[u] = "stickStatus" /\ \E b : pass'[u] = [pass[u] EXCEPT !.ready = b]
    BY <1>7 DEF StickRead, EndPass, Learn, Goto, TypeOK, Unchanged
  <2>2. pc'[u] = "stickStatus" => pass'[u].status = pass[u].status /\ pass'[u].spec = pass[u].spec
    BY <2>1 DEF TypeOK, Passes
  <2> QED BY <2>1, <2>2, QuietMoves
<1>8. CASE BlockRead(u)
  <2>1. /\ pc[u] = "blockRead" /\ UNCHANGED <<objects, store, infra, machine, altered, clock>>
        /\ pc'[u] \in {"blockStatus", "blockPower"}
        /\ (pass'[u] = pass[u] \/ \E k : pass'[u] = [pass[u] EXCEPT !.kind = k])
    BY <1>8 DEF BlockRead, Learn, Goto, TypeOK, Unchanged
  <2>2. pass'[u].status = pass[u].status /\ pass'[u].spec = pass[u].spec
    BY <2>1 DEF TypeOK, Passes
  <2> QED BY <2>1, <2>2, QuietMoves
<1>9. CASE BlockPower(u)
  <2>1. /\ pc[u] = "blockPower" /\ UNCHANGED <<objects, store, infra, altered, clock>>
        /\ (pc'[u] = "blockStatus" /\ pass' = pass) \/ pc'[u] = "idle"
    BY <1>9 DEF BlockPower, EndPass, Goto, TypeOK, Unchanged
  <2>2. \/ machine' = machine
        \/ machine' = [machine EXCEPT ![<<u, pass[u].kind>>] =
                          [machine[<<u, pass[u].kind>>] EXCEPT !.power = pass[u].spec.power]]
    BY <1>9 DEF BlockPower
  <2>3. ASSUME NEW w \in VMs, NEW k \in Kinds
        PROVE  machine'[<<w, k>>].address = machine[<<w, k>>].address
    <3>1. machine[<<w, k>>] \in Machines
      BY DEF TypeOK
    <3>2. \/ machine'[<<w, k>>] = machine[<<w, k>>]
          \/ machine'[<<w, k>>] = [machine[<<w, k>>] EXCEPT !.power = pass[u].spec.power]
      BY <2>2 DEF TypeOK
    <3> QED BY <3>1, <3>2 DEF Machines
  <2> QED BY <2>1, <2>3, Elsewhere DEF Moves, objects
<1>10. ASSUME NEW k \in Kinds, FinRead(u, k) \/ FinDelete(u, k) PROVE Moves(u)
  <2>1. /\ pc[u] # "idle" /\ UNCHANGED <<objects, store, infra, machine, altered, clock>>
        /\ \/ pc'[u] = "idle"
           \/ pc'[u] \in {"finRead", "finDelete", "finRemove"} /\ pass' = pass
    BY <1>10 DEF FinRead, FinDelete, Saw, Deleted, Cascade, AfterRead, EndPass, Goto,
       TypeOK, Unchanged
  <2> QED BY <2>1, QuietMoves
<1> QED BY <1>1, <1>2, <1>3, <1>4, <1>5, <1>6, <1>7, <1>8, <1>9, <1>10 DEF Step

\* A pass that is cut short.
LEMMA FailureMoves ==
    ASSUME TypeOK, NEW u \in VMs, Failure(u)
    PROVE  Moves(u)
<1>1. CASE Abort(u)
  <2>1. pc'[u] = "idle" /\ UNCHANGED <<objects, store, infra, machine, altered, clock>>
    BY <1>1 DEF Abort, EndPass, Goto, TypeOK, Fault
  <2> QED BY <2>1, QuietMoves
<1>2. CASE BuildFails(u)
  <2>1. /\ pc[u] = "apply" /\ pc'[u] = "noBuilder" /\ pass' = pass
        /\ UNCHANGED <<objects, store, infra, machine, altered, clock>>
    BY <1>2 DEF BuildFails, Goto, TypeOK, Fault
  <2> QED BY <2>1, QuietMoves
<1>3. ASSUME NEW k \in Kinds, LookupFails(u, k) \/ DeleteFails(u, k) PROVE Moves(u)
  <2>1. /\ pc[u] # "idle" /\ UNCHANGED <<objects, store, infra, machine, altered, clock>>
        /\ \/ pc'[u] = "idle"
           \/ pc'[u] \in {"finRead", "finDelete", "finRemove"} /\ pass' = pass
    BY <1>3 DEF LookupFails, DeleteFails, Saw, Deleted, Cascade, AfterRead, EndPass, Goto,
       TypeOK, Fault
  <2> QED BY <2>1, QuietMoves
<1> QED BY <1>1, <1>2, <1>3 DEF Failure

\* The finalizer comes off: the VM goes, or it is as it was but for the pass.
LEMMA RemovalKeeps ==
    ASSUME Exclusive, TypeOK, NEW u \in VMs, remove_finalizer(u)
    PROVE  Exclusive'
<1>1. /\ pc'[u] = "idle" /\ UNCHANGED <<store, infra, machine, clock>>
      /\ \A w \in VMs \ {u} : /\ pc'[w] = pc[w] /\ pass'[w] = pass[w]
                              /\ life'[w] = life[w] /\ spec'[w] = spec[w]
                              /\ status'[w] = status[w]
  BY DEF remove_finalizer, EndPass, Goto, TypeOK
<1>2. CASE life[u] = "deleting"
  <2>1. /\ altered' = altered \cup {u} /\ life' = [life EXCEPT ![u] = "absent"]
        /\ spec'[u] = NoSpec
    BY <1>2 DEF remove_finalizer, TypeOK
  <2>2. Present' \subseteq Present
    BY <1>1, <2>1 DEF Present, TypeOK
  <2>3. \A v \in VMs : Calm(v)
    BY <1>1, <2>1 DEF Calm
  <2>4. NoSpec.born = 0 /\ clock \in Nat
    BY VmAssumption DEF NoSpec, TypeOK
  <2>5. ASSUME NEW v \in VMs PROVE spec'[v].born <= clock
    BY <1>1, <2>1, <2>4 DEF Exclusive
  <2> QED BY <1>1, <2>1, <2>2, <2>3, <2>5, CalmStep
<1>3. CASE life[u] # "deleting"
  <2>1. altered' = altered /\ life'[u] = life[u] /\ spec'[u] = spec[u] /\ status'[u] = status[u]
    BY <1>3 DEF remove_finalizer, TypeOK
  <2>2. life' = life /\ spec' = spec
    BY <1>3 DEF remove_finalizer, TypeOK
  <2>3. Moves(u)
    BY <1>1, <2>1, <2>2 DEF Moves
  <2> QED BY <2>3, MovesKeep
<1> QED BY <1>2, <1>3

\* An edit of a VM that exists alters its address, or leaves it as it is.
LEMMA EditKeeps ==
    ASSUME Exclusive, TypeOK, NEW u \in VMs, NEW s, NEW l,
           spec' = [spec EXCEPT ![u] = s], life' = [life EXCEPT ![u] = l],
           life[u] # "absent", s.born \in {0, spec[u].born},
           UNCHANGED <<store, pc, pass, clock, infra, machine>>,
           \/ /\ UNCHANGED <<altered, status>> /\ l # "absent"
              /\ s.address = spec[u].address /\ s.born = spec[u].born
           \/ /\ altered' = altered \cup {u}
              /\ \A w \in VMs \ {u} : status'[w] = status[w]
    PROVE  Exclusive'
<1>1. /\ spec'[u] = s /\ life'[u] = l
      /\ \A w \in VMs \ {u} : spec'[w] = spec[w] /\ life'[w] = life[w]
  BY DEF TypeOK
<1>2. Present' \subseteq Present
  BY <1>1 DEF Present
<1>3. \A v \in VMs : Calm(v)
  BY <1>1 DEF Calm
<1>4. clock \in Nat
  BY VmAssumption DEF TypeOK
<1>5. ASSUME NEW v \in VMs PROVE spec'[v].born <= clock
  BY <1>1, <1>4 DEF Exclusive
<1> QED BY <1>2, <1>3, <1>5, CalmStep

\* What users do.
LEMMA UserKeeps ==
    ASSUME Exclusive, Guarded, TypeOK, NEW u \in VMs, User(u)
    PROVE  Exclusive'
<1>1. spec[u] \in Specs /\ life = [life EXCEPT ![u] = life[u]]
  BY DEF TypeOK
<1>2. ASSUME NEW a, NEW p, Create(u, a, p) PROVE Exclusive'
  BY <1>2, CreateStep
<1>3. ASSUME NEW a, EditAddress(u, a) PROVE Exclusive'
  <2> DEFINE s == [spec[u] EXCEPT !.address = a]
  <2>1. /\ spec' = [spec EXCEPT ![u] = s] /\ life[u] = "live" /\ altered' = altered \cup {u}
        /\ UNCHANGED <<life, status, store, pc, pass, clock, infra, machine>>
    BY <1>3 DEF EditAddress, Edited, Change, Cluster
  <2>2. s.born = spec[u].born
    BY <1>1 DEF Specs
  <2> HIDE DEF s
  <2> QED BY <1>1, <2>1, <2>2, EditKeeps
<1>4. ASSUME NEW p, SetPower(u, p) PROVE Exclusive'
  <2> DEFINE s == [spec[u] EXCEPT !.power = p]
  <2>1. /\ spec' = [spec EXCEPT ![u] = s] /\ life[u] = "live"
        /\ UNCHANGED <<life, status, store, pc, pass, clock, infra, machine, altered>>
    BY <1>4 DEF SetPower, Edited, Change, Cluster
  <2>2. s.born = spec[u].born /\ s.address = spec[u].address
    BY <1>1 DEF Specs
  <2> HIDE DEF s
  <2> QED BY <1>1, <2>1, <2>2, EditKeeps
<1>5. CASE Approve(u)
  <2> DEFINE s == [spec[u] EXCEPT !.approved = TRUE]
  <2>1. /\ spec' = [spec EXCEPT ![u] = s] /\ life[u] = "live"
        /\ UNCHANGED <<life, status, store, pc, pass, clock, infra, machine, altered>>
    BY <1>5 DEF Approve, Edited, Change, Cluster
  <2>2. s.born = spec[u].born /\ s.address = spec[u].address
    BY <1>1 DEF Specs
  <2> HIDE DEF s
  <2> QED BY <1>1, <2>1, <2>2, EditKeeps
<1>6. CASE Pause(u)
  <2>1. PICK b \in BOOLEAN : spec' = [spec EXCEPT ![u] = [spec[u] EXCEPT !.paused = b]]
    BY <1>6 DEF Pause, Edited
  <2> DEFINE s == [spec[u] EXCEPT !.paused = b]
  <2>2. /\ spec' = [spec EXCEPT ![u] = s] /\ life[u] # "absent"
        /\ UNCHANGED <<life, status, store, pc, pass, clock, infra, machine, altered>>
    BY <1>6, <2>1 DEF Pause, Change, Cluster
  <2>3. s.born = spec[u].born /\ s.address = spec[u].address
    BY <1>1 DEF Specs
  <2> HIDE DEF s
  <2> QED BY <1>1, <2>2, <2>3, EditKeeps
<1>7. CASE DeleteVm(u)
  <2>1. life[u] = "live" /\ UNCHANGED <<store, pc, pass, clock, infra, machine>>
    BY <1>7 DEF DeleteVm, Change, Cluster
  <2>2. CASE life' = [life EXCEPT ![u] = "deleting"] /\ UNCHANGED <<spec, status, altered>>
    <3>1. spec = [spec EXCEPT ![u] = spec[u]]
      BY DEF TypeOK
    <3> QED BY <2>1, <2>2, <3>1, EditKeeps
  <2>3. CASE /\ life' = [life EXCEPT ![u] = "absent"] /\ spec' = [spec EXCEPT ![u] = NoSpec]
             /\ status' = [status EXCEPT ![u] = NoStatus] /\ altered' = altered \cup {u}
    <3>1. NoSpec.born = 0 /\ \A w \in VMs \ {u} : status'[w] = status[w]
      BY <2>3 DEF NoSpec, TypeOK
    <3> QED BY <2>1, <2>3, <3>1, EditKeeps
  <2> QED BY <1>7, <2>2, <2>3 DEF DeleteVm, Edited
<1>8. ASSUME NEW x, Reschedule(u, x) \/ Vanish(u, x) PROVE Exclusive'
  <2>1. UNCHANGED <<life, spec, status, store, pc, pass, clock, infra, machine, altered>>
    BY <1>8 DEF Reschedule, Vanish, Change, Cluster, objects
  <2> QED BY <2>1, CalmStep DEF Calm, Present, Exclusive
<1> QED BY <1>2, <1>3, <1>4, <1>5, <1>6, <1>7, <1>8 DEF User

\* What the backends do: an infra CR keeps its address until it goes.
LEMMA BackendKeeps ==
    ASSUME Exclusive, TypeOK, NEW u \in VMs, NEW l \in Kinds, Backend(u, l)
    PROVE  Exclusive'
<1>1. UNCHANGED <<life, spec, status, store, pc, pass, clock, altered>>
  BY DEF Backend, Provision, Finish, Cluster, Unchanged, objects
<1>2. ASSUME NEW v \in VMs, NEW k \in Kinds, <<v, k>> \in infra'
      PROVE  <<v, k>> \in infra /\ machine'[<<v, k>>].address = machine[<<v, k>>].address
  <2>1. CASE Provision(u, l)
    <3>1. infra' = infra /\ machine[<<u, l>>] \in Machines
          /\ machine' = [machine EXCEPT ![<<u, l>>] = [machine[<<u, l>>] EXCEPT !.ready = TRUE]]
      BY <2>1 DEF Provision, TypeOK
    <3>2. [machine[<<u, l>>] EXCEPT !.ready = TRUE].address = machine[<<u, l>>].address
      BY <3>1 DEF Machines
    <3> QED BY <1>2, <3>1, <3>2 DEF TypeOK
  <2>2. CASE Finish(u, l)
    <3>1. infra' = infra \ {<<u, l>>} /\ machine' = [machine EXCEPT ![<<u, l>>] = NoMachine]
      BY <2>2 DEF Finish
    <3> QED BY <1>2, <3>1 DEF TypeOK
  <2> QED BY <2>1, <2>2 DEF Backend
<1>3. \A v \in VMs : Calm(v)
  BY <1>1, <1>2 DEF Calm
<1> QED BY <1>1, <1>3, CalmStep DEF Present, Exclusive

\* Every step keeps it.
LEMMA ExclusiveStep ==
    ASSUME Exclusive, Guarded, WellTyped, [Next]_vars
    PROVE  Exclusive'
<1>1. TypeOK
  BY DEF WellTyped
<1>2. CASE Deliver
  BY <1>2, CatchUp
<1>3. CASE UNCHANGED vars
  <2>1. UNCHANGED <<life, spec, status, store, pc, pass, clock, infra, machine, altered>>
    BY <1>3 DEF vars, objects
  <2> QED BY <2>1, CalmStep DEF Calm, Present, Exclusive
<1>4. ASSUME NEW v \in VMs, Step(v) PROVE Exclusive'
  BY <1>1, <1>4, PassMoves, MovesKeep, RemovalKeeps
<1>5. ASSUME NEW v \in VMs, Failure(v) PROVE Exclusive'
  BY <1>1, <1>5, FailureMoves, MovesKeep
<1>6. ASSUME NEW v \in VMs, User(v) PROVE Exclusive'
  BY <1>1, <1>6, UserKeeps
<1>7. ASSUME NEW v \in VMs, NEW k \in Kinds, Backend(v, k) PROVE Exclusive'
  BY <1>1, <1>7, BackendKeeps
<1> QED BY <1>2, <1>3, <1>4, <1>5, <1>6, <1>7 DEF Next

\* Two guests are never configured with one address: of two VirtualMachines created
\* at different times, with the addresses they still have, the younger never gets an
\* infra CR for the address of the older, for any number of VMs, however far the store
\* is behind, whatever calls fail, and however the passes interleave between a check
\* of address_conflict.rs and the apply it allows.
THEOREM ExclusiveAddresses == Spec => []AddressesExclusive
<1>1. Init => Guarded /\ WellTyped /\ Exclusive
  <2> SUFFICES ASSUME Init PROVE Exclusive
    BY GuardedInit, TypeInit
  <2>1. \A v \in VMs : /\ life[v] = "absent" /\ store.life[v] = "absent" /\ pc[v] = "idle"
                       /\ status[v].held = NoAddress /\ spec[v].born = 0
    BY DEF Init, Current, NoStatus, NoSpec
  <2>2. Present = {} /\ Shown = {} /\ infra = {} /\ clock = 0
    BY <2>1 DEF Present, Shown, Init
  <2>3. \A v \in VMs : Faithful(v) /\ spec[v].born <= clock
    BY <2>1, <2>2 DEF Faithful
  <2>4. \A v, w \in VMs : Yields(v, w)
    BY <2>1 DEF Yields, Precedes
  <2> QED BY <2>2, <2>3, <2>4, FS_EmptySet DEF Exclusive
<1>2. Guarded /\ WellTyped /\ Exclusive /\ [Next]_vars => Guarded' /\ WellTyped' /\ Exclusive'
  BY GuardedStep, TypeStep, ExclusiveStep
<1>3. Guarded /\ WellTyped /\ Exclusive => AddressesExclusive
  <2> SUFFICES ASSUME Guarded, WellTyped, Exclusive, NEW vk \in infra, NEW wl \in infra,
                      spec[vk[1]].born # spec[wl[1]].born,
                      {vk[1], wl[1]} \cap altered = {}, machine[vk].address # NoAddress,
                      machine[vk].address = machine[wl].address
               PROVE  FALSE
    BY DEF AddressesExclusive
  <2>1. PICK v \in VMs, k \in Kinds, w \in VMs, l \in Kinds : vk = <<v, k>> /\ wl = <<w, l>>
    BY DEF WellTyped, TypeOK
  <2>2. /\ v \notin altered /\ w \notin altered /\ spec[v].born # spec[w].born
        /\ spec[v].born \in Nat /\ spec[w].born \in Nat
    BY <2>1, VmAssumption DEF WellTyped, TypeOK, Specs
  <2>3. life[v] # "absent" /\ life[w] # "absent"
    BY <2>1 DEF Guarded, Held
  <2>4. spec[v].address = spec[w].address /\ spec[v].address # NoAddress
    BY <2>1, <2>2 DEF Exclusive, Faithful
  <2>5. Precedes(v, w) \/ Precedes(w, v)
    BY <2>2, <2>3 DEF Precedes
  <2> QED BY <2>1, <2>4, <2>5 DEF Exclusive, Yields, Rivals, Withheld
<1> QED BY <1>1, <1>2, <1>3, PTL DEF Spec
=============================================================================
