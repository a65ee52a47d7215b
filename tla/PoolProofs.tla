----------------------------- MODULE PoolProofs -----------------------------
(***************************************************************************)
(* First, what the planner guarantees for every pool: invariants 3 and 4   *)
(* of pool_plan.rs on the sizes Sizing computes and then on the plan       *)
(* itself, that a trade of stale members never deletes one for nothing,    *)
(* and that the addresses a plan hands out are listed, free and different. *)
(*                                                                         *)
(* Then what the reconciler guarantees for every number of members, every  *)
(* limit and every list of addresses, although its plan is applied call by *)
(* call while the cluster moves on: maxReplicas is never exceeded, and no  *)
(* two members share an address.                                           *)
(***************************************************************************)
EXTENDS Pool, TLAPS, FiniteSetTheorems

\* saturating_sub and min stay within their arguments.
LEMMA Arithmetic ==
    ASSUME NEW a \in Nat, NEW b \in Nat
    PROVE  /\ Monus(a, b) \in Nat /\ Least(a, b) \in Nat
           /\ Monus(a, b) <= a /\ Least(a, b) <= a /\ Least(a, b) <= b
           /\ Monus(a, b) > 0 => Monus(a, b) + b = a
           /\ Monus(a, b) + b >= a
           /\ Least(a, b) = a \/ Least(a, b) = b
BY DEF Monus, Least

\* Invariants 3 and 4 of pool_plan.rs: members that stay plus members to create
\* fit maxReplicas, and installs fit maxSurge, whatever the snapshot.
THEOREM SizingBounds ==
    ASSUME NEW in, in.warm \in Nat, in.max \in Nat, in.surge \in Nat,
           NEW fresh \in Nat, NEW stale \in Nat, NEW provisioning \in Nat,
           NEW claimed \in Nat,
           Sizing(in, fresh, stale, provisioning, claimed).create > 0
    PROVE  LET s == Sizing(in, fresh, stale, provisioning, claimed)
           IN  /\ claimed + provisioning + s.freshKept + s.staleKept + s.create <= in.max
               /\ provisioning + s.create <= in.surge
<1> DEFINE freshKept == Least(fresh, in.warm)
           needed == Least(stale, Monus(in.warm, freshKept))
           wanted == Monus(Monus(in.warm, freshKept), provisioning)
           toCreate == Least(wanted, Monus(in.surge, provisioning))
           Room(kept) == Monus(in.max, claimed + provisioning + freshKept + kept)
           trade == Least(Monus(toCreate, Room(needed)), needed)
           alive == claimed + provisioning + freshKept + (needed - trade)
           create == Least(toCreate, Monus(in.max, alive))
<1>1. freshKept \in Nat /\ needed \in Nat /\ wanted \in Nat
  BY Arithmetic
<1>2. toCreate \in Nat /\ toCreate <= Monus(in.surge, provisioning)
  BY <1>1, Arithmetic
<1>3. Room(needed) \in Nat
  <2>1. claimed + provisioning + freshKept + needed \in Nat
    BY <1>1
  <2> QED BY <2>1, Arithmetic
<1>4. trade \in Nat /\ trade <= needed
  BY <1>1, <1>2, <1>3, Arithmetic
<1>5. alive \in Nat
  BY <1>1, <1>4
<1>6. /\ Sizing(in, fresh, stale, provisioning, claimed).create = create
      /\ Sizing(in, fresh, stale, provisioning, claimed).freshKept = freshKept
      /\ Sizing(in, fresh, stale, provisioning, claimed).staleKept = needed - trade
  BY DEF Sizing
<1>7. create \in Nat /\ create <= toCreate /\ create <= Monus(in.max, alive)
  BY <1>2, <1>5, Arithmetic
<1> HIDE DEF create, alive, toCreate, trade, needed, freshKept
<1>8. create > 0
  BY <1>6
<1>9. alive + create <= in.max
  <2>1. Monus(in.max, alive) \in Nat
    BY <1>5, Arithmetic
  <2>2. Monus(in.max, alive) > 0
    BY <1>7, <1>8, <2>1
  <2>3. Monus(in.max, alive) + alive = in.max
    BY <1>5, <2>2, Arithmetic
  <2> QED BY <1>5, <1>7, <2>1, <2>3
<1>10. provisioning + create <= in.surge
  <2>1. Monus(in.surge, provisioning) \in Nat
    BY Arithmetic
  <2>2. Monus(in.surge, provisioning) > 0
    BY <1>2, <1>7, <1>8, <2>1
  <2>3. Monus(in.surge, provisioning) + provisioning = in.surge
    BY <2>2, Arithmetic
  <2> QED BY <1>2, <1>7, <2>1, <2>3
<1>11. alive = claimed + provisioning + freshKept + (needed - trade)
  BY DEF alive
<1> QED BY <1>6, <1>9, <1>10, <1>11

\* min, in linear arithmetic.
LEMMA LeastOf ==
    ASSUME NEW a \in Nat, NEW b \in Nat
    PROVE  /\ Least(a, b) \in Nat /\ Least(a, b) <= a /\ Least(a, b) <= b
           /\ Least(a, b) = a \/ Least(a, b) = b
BY DEF Least

\* saturating_sub, in linear arithmetic.
LEMMA MonusOf ==
    ASSUME NEW a \in Nat, NEW b \in Nat
    PROVE  /\ Monus(a, b) \in Nat
           /\ a > b => Monus(a, b) = a - b
           /\ a <= b => Monus(a, b) = 0
BY DEF Monus

\* saturating_sub that does not saturate.
LEMMA MonusExact ==
    ASSUME NEW a \in Nat, NEW b \in Nat, b <= a
    PROVE  Monus(a, b) \in Nat /\ Monus(a, b) = a - b
BY DEF Monus

\* Nothing is less than 0.
LEMMA LeastZero ==
    ASSUME NEW a \in Nat
    PROVE  Least(a, 0) = 0 /\ Least(0, a) = 0
BY DEF Least

\* saturating_sub that saturates.
LEMMA MonusNone ==
    ASSUME NEW a \in Nat, NEW b \in Nat, a <= b
    PROVE  Monus(a, b) = 0
BY DEF Monus

\* A plan settles: sized again right after it was applied, the pool creates
\* nothing and gives up no member.  The pool was within its ceiling, which
\* AliveWithinMax says it is until an edit lowers maxReplicas.
THEOREM SizingSettles ==
    ASSUME NEW in, in.warm \in Nat, in.max \in Nat, in.surge \in Nat,
           NEW fresh \in Nat, NEW stale \in Nat, NEW provisioning \in Nat,
           NEW claimed \in Nat,
           claimed + provisioning + fresh + stale <= in.max
    PROVE  LET s == Sizing(in, fresh, stale, provisioning, claimed)
               t == Sizing(in, s.freshKept, s.staleKept, provisioning + s.create, claimed)
           IN  t.create = 0 /\ t.freshKept = s.freshKept /\ t.staleKept = s.staleKept
<1> DEFINE F == Least(fresh, in.warm)
           gap == Monus(in.warm, F)
           n == Least(stale, gap)
           wanted == Monus(gap, provisioning)
           surge == Monus(in.surge, provisioning)
           C == Least(wanted, surge)
           room == Monus(in.max, claimed + provisioning + F + n)
           over == Monus(C, room)
           trade == Least(over, n)
           kept == n - trade
           room1 == Monus(in.max, claimed + provisioning + F + kept)
           create == Least(C, room1)
<1>1. /\ Sizing(in, fresh, stale, provisioning, claimed).create = create
      /\ Sizing(in, fresh, stale, provisioning, claimed).freshKept = F
      /\ Sizing(in, fresh, stale, provisioning, claimed).staleKept = kept
  BY DEF Sizing
<1>2. F \in Nat /\ F <= fresh /\ F <= in.warm
  BY LeastOf, MonusOf
<1>3. gap \in Nat /\ gap = in.warm - F
  BY <1>2, MonusExact
<1>4. n \in Nat /\ n <= stale /\ n <= gap
  BY <1>3, LeastOf, MonusOf
<1>5. wanted \in Nat /\ (gap > provisioning => wanted = gap - provisioning)
      /\ (gap <= provisioning => wanted = 0)
  BY <1>3, LeastOf, MonusOf
<1>6. surge \in Nat /\ (in.surge > provisioning => surge = in.surge - provisioning)
      /\ (in.surge <= provisioning => surge = 0)
  BY LeastOf, MonusOf
<1>7. C \in Nat /\ C <= wanted /\ C <= surge /\ (C = wanted \/ C = surge)
  BY <1>5, <1>6, LeastOf, MonusOf
<1>8. room \in Nat /\ room = in.max - (claimed + provisioning + F + n)
  <2>1. /\ claimed + provisioning + F + n \in Nat
        /\ claimed + provisioning + F + n <= in.max
    BY <1>2, <1>4
  <2> QED BY <2>1, MonusExact
<1>9. over \in Nat /\ (C > room => over = C - room) /\ (C <= room => over = 0)
  BY <1>7, <1>8, LeastOf, MonusOf
<1>10. trade \in Nat /\ trade <= over /\ trade <= n /\ (trade = over \/ trade = n)
  BY <1>4, <1>9, LeastOf, MonusOf
<1>11. kept \in Nat /\ kept <= n
  BY <1>4, <1>10
<1> HIDE DEF F, gap, n, wanted, surge, C, room, over, trade
<1>12. room1 \in Nat /\ room1 = room + trade
  <2>1. /\ claimed + provisioning + F + kept \in Nat
        /\ claimed + provisioning + F + kept <= in.max
        /\ in.max - (claimed + provisioning + F + kept) = room + trade
    BY <1>2, <1>4, <1>8, <1>10, <1>11
  <2> QED BY <1>10, <2>1, MonusExact
<1>13. create \in Nat /\ create <= C /\ create <= room1 /\ (create = C \/ create = room1)
  BY <1>7, <1>12, LeastOf, MonusOf
<1> HIDE DEF kept, room1, create
<1>14. kept = n - trade
  BY DEF kept
<1>15. create = C \/ (kept = 0 /\ create = room1)
  BY <1>4, <1>7, <1>8, <1>9, <1>10, <1>12, <1>13, <1>14
<1> DEFINE p == provisioning + create
           wanted2 == Monus(gap, p)
           surge2 == Monus(in.surge, p)
           C2 == Least(wanted2, surge2)
           room2 == Monus(in.max, claimed + p + F + kept)
           over2 == Monus(C2, room2)
           trade2 == Least(over2, kept)
           create2 == Least(C2, Monus(in.max, claimed + p + F + (kept - trade2)))
<1>16. p \in Nat
  BY <1>13
<1>17. Least(F, in.warm) = F /\ Least(kept, gap) = kept
  <2>1. F <= in.warm /\ kept <= gap
    BY <1>2, <1>3, <1>4, <1>11
  <2> QED BY <1>2, <1>3, <1>11, <2>1 DEF Least
<1>18. /\ Sizing(in, F, kept, p, claimed).create = create2
       /\ Sizing(in, F, kept, p, claimed).freshKept = F
       /\ Sizing(in, F, kept, p, claimed).staleKept = kept - trade2
  <2>1. Monus(in.warm, Least(F, in.warm)) = gap
    BY <1>17 DEF gap
  <2> HIDE DEF p
  <2> QED BY <1>17, <2>1 DEF Sizing
<1>19. wanted2 \in Nat /\ surge2 \in Nat /\ C2 \in Nat /\ C2 <= wanted2 /\ C2 <= surge2
  BY <1>3, <1>16, LeastOf, MonusOf
<1>20. create2 = 0 /\ trade2 = 0
  <2>1. CASE create = C
    <3>1. wanted2 = 0 \/ surge2 = 0
      <4>1. gap <= p \/ in.surge <= p
        BY <1>3, <1>5, <1>6, <1>7, <1>13, <2>1
      <4> HIDE DEF p
      <4> QED BY <1>3, <1>16, <4>1, MonusNone
    <3>2. C2 = 0
      BY <1>19, <3>1
    <3>3. room2 \in Nat /\ claimed + p + F + kept \in Nat
      <4>1. claimed + p + F + kept \in Nat
        BY <1>2, <1>11, <1>16
      <4> QED BY <4>1, MonusOf
    <3>4. over2 = 0
      <4> HIDE DEF C2, room2
      <4> QED BY <3>2, <3>3, MonusNone
    <3>5. trade2 = 0
      <4> HIDE DEF over2
      <4> QED BY <1>11, <3>4, LeastZero
    <3>6. claimed + p + F + (kept - trade2) \in Nat
      BY <3>3, <3>5, <1>11, <1>16, <1>2
    <3>7. Monus(in.max, claimed + p + F + (kept - trade2)) \in Nat
      BY <3>6, LeastOf, MonusOf
    <3>8. create2 = 0
      <4> HIDE DEF C2, trade2
      <4> QED BY <3>2, <3>7, LeastZero
    <3> QED BY <3>5, <3>8
  <2>2. CASE kept = 0 /\ create = room1
    <3>1. room2 \in Nat /\ claimed + p + F + kept \in Nat
      <4>1. claimed + p + F + kept \in Nat
        BY <1>2, <1>11, <1>16
      <4> QED BY <4>1, MonusOf
    <3>2. over2 \in Nat
      BY <1>19, <3>1, LeastOf, MonusOf
    <3>3. trade2 = 0
      <4> HIDE DEF over2
      <4> QED BY <2>2, <3>2, LeastZero
    <3>4. /\ claimed + p + F + (kept - trade2) \in Nat
          /\ in.max <= claimed + p + F + (kept - trade2)
      BY <1>2, <1>4, <1>8, <1>10, <1>12, <1>13, <1>14, <2>2, <3>3
    <3>5. Monus(in.max, claimed + p + F + (kept - trade2)) = 0
      BY <3>4, MonusNone
    <3>6. create2 = 0
      <4>1. create2 = Least(C2, 0)
        BY <3>5
      <4> HIDE DEF C2
      <4> QED BY <1>19, <4>1, LeastZero
    <3> QED BY <3>3, <3>6
  <2> QED BY <1>15, <2>1, <2>2
<1>21. kept - trade2 = kept
  BY <1>11, <1>20
<1> HIDE DEF create2, trade2
<1> QED BY <1>1, <1>18, <1>20, <1>21
-----------------------------------------------------------------------------
\* Choosing by rank, in any finite set with a strict total order R.

StrictlyOrders(R, S) ==
    /\ \A x \in S : <<x, x>> \notin R
    /\ \A x, y, z \in S : <<x, y>> \in R /\ <<y, z>> \in R => <<x, z>> \in R
    /\ \A x, y \in S : x = y \/ <<x, y>> \in R \/ <<y, x>> \in R

Below(R, S, x) == {y \in S : <<y, x>> \in R}

\* In a finite set each element has another number of elements below it.
LEMMA RankBijective ==
    ASSUME NEW S, IsFiniteSet(S), NEW R, StrictlyOrders(R, S)
    PROVE  [x \in S |-> Cardinality(Below(R, S, x))]
              \in Bijection(S, 0..(Cardinality(S) - 1))
<1> DEFINE rank == [x \in S |-> Cardinality(Below(R, S, x))]
           N == Cardinality(S)
<1>1. N \in Nat
  BY FS_CardinalityType
<1>2. \A x \in S : Below(R, S, x) \in SUBSET S /\ x \notin Below(R, S, x)
  BY DEF Below, StrictlyOrders
<1>3. ASSUME NEW x \in S PROVE Cardinality(Below(R, S, x)) \in 0..(N - 1)
  <2>1. IsFiniteSet(Below(R, S, x)) /\ Cardinality(Below(R, S, x)) <= N
        /\ Cardinality(Below(R, S, x)) # N
    BY <1>2, FS_Subset
  <2>2. Cardinality(Below(R, S, x)) \in Nat
    BY <2>1, FS_CardinalityType
  <2> QED BY <1>1, <2>1, <2>2
<1>4. ASSUME NEW x \in S, NEW y \in S, <<x, y>> \in R PROVE rank[x] # rank[y]
  <2>1. Below(R, S, x) \in SUBSET Below(R, S, y) /\ x \in Below(R, S, y)
    BY <1>4 DEF Below, StrictlyOrders
  <2>2. IsFiniteSet(Below(R, S, y))
    BY <1>2, FS_Subset
  <2>3. Below(R, S, x) # Below(R, S, y)
    BY <1>2, <2>1
  <2> QED BY <2>1, <2>2, <2>3, FS_Subset
<1>5. rank \in [S -> 0..(N - 1)]
  BY <1>3
<1>6. rank \in Injection(S, 0..(N - 1))
  <2>1. \A x, y \in S : rank[x] = rank[y] => x = y
    BY <1>4 DEF StrictlyOrders
  <2> HIDE DEF rank
  <2> QED BY <1>5, <2>1 DEF Injection, IsInjective
<1>7. IsFiniteSet(0..(N - 1)) /\ Cardinality(0..(N - 1)) = N
  BY <1>1, FS_Interval
<1>8. rank \in Surjection(S, 0..(N - 1))
  BY <1>6, <1>7, FS_Injection
<1> QED BY <1>6, <1>8 DEF Bijection

\* As many elements have fewer than n below them.
LEMMA LowestCount ==
    ASSUME NEW S, IsFiniteSet(S), NEW R, StrictlyOrders(R, S),
           NEW n \in Nat, n <= Cardinality(S)
    PROVE  LET T == {x \in S : Cardinality(Below(R, S, x)) < n}
           IN  IsFiniteSet(T) /\ Cardinality(T) = n
<1> DEFINE T == {x \in S : Cardinality(Below(R, S, x)) < n}
           rank == [x \in S |-> Cardinality(Below(R, S, x))]
           f == [x \in T |-> Cardinality(Below(R, S, x))]
           N == Cardinality(S)
<1>1. N \in Nat
  BY FS_CardinalityType
<1>2. rank \in Bijection(S, 0..(N - 1))
  BY RankBijective
<1>3. /\ rank \in [S -> 0..(N - 1)] /\ \A k \in 0..(N - 1) : \E x \in S : rank[x] = k
      /\ \A x, y \in S : rank[x] = rank[y] => x = y
  BY <1>2 DEF Bijection, Injection, Surjection, IsInjective
<1>4. \A x \in S : Cardinality(Below(R, S, x)) = rank[x]
  OBVIOUS
<1> HIDE DEF rank
<1>5. f \in [T -> 0..(n - 1)]
  BY <1>1, <1>3, <1>4
<1>6. \A x, y \in T : f[x] = f[y] => x = y
  BY <1>3, <1>4
<1>7. \A k \in 0..(n - 1) : \E x \in T : f[x] = k
  <2> SUFFICES ASSUME NEW k \in 0..(n - 1) PROVE \E x \in T : f[x] = k
    OBVIOUS
  <2>1. PICK x \in S : rank[x] = k
    BY <1>1, <1>3
  <2> QED BY <1>4, <2>1
<1> HIDE DEF f
<1>8. f \in Bijection(T, 0..(n - 1))
  BY <1>5, <1>6, <1>7 DEF Bijection, Injection, Surjection, IsInjective
<1>9. IsFiniteSet(T)
  BY FS_Subset
<1>10. Cardinality(0..(n - 1)) = n
  BY FS_Interval
<1> HIDE DEF T
<1>11. Cardinality(T) = Cardinality(0..(n - 1))
  BY <1>8, <1>9, FS_Bijection DEF ExistsBijection
<1> QED BY <1>9, <1>10, <1>11 DEF T

\* The sort puts the members in a strict total order, so that Oldest(v, S, n) has
\* exactly n of them.
LEMMA OldestCount ==
    ASSUME NEW v, NEW S \in SUBSET Nat, IsFiniteSet(S), \A m \in S : v[m].age \in Nat,
           NEW n \in Nat, n <= Cardinality(S)
    PROVE  /\ Oldest(v, S, n) \in SUBSET S
           /\ IsFiniteSet(Oldest(v, S, n)) /\ Cardinality(Oldest(v, S, n)) = n
<1> DEFINE R == {p \in S \X S : Before(v, p[1], p[2])}
<1>1. \A x, y \in S : <<x, y>> \in R <=> Before(v, x, y)
  OBVIOUS
<1>2. StrictlyOrders(R, S)
  <2> HIDE DEF R
  <2> QED BY <1>1 DEF StrictlyOrders, Before
<1>3. \A x \in S : Below(R, S, x) = {k \in S : Before(v, k, x)}
  <2> HIDE DEF R
  <2> QED BY <1>1 DEF Below
<1>4. Oldest(v, S, n) = {x \in S : Cardinality(Below(R, S, x)) < n}
  <2> HIDE DEF R
  <2> QED BY <1>3 DEF Oldest
<1> HIDE DEF R
<1> QED BY <1>2, <1>4, LowestCount
-----------------------------------------------------------------------------
\* The addresses to draw from.

Ranges == Seq([lo: Nat, hi: Nat])

\* There are finitely many.
LEMMA DrawsFinite ==
    ASSUME NEW ranges \in Ranges, NEW used
    PROVE  /\ IsFiniteSet(Draws(ranges, used))
           /\ \A d \in Draws(ranges, used) :
                /\ d = <<d[1], d[2]>>
                /\ d[1] \in DOMAIN ranges
                /\ d[2] \in Nat /\ d[2] \notin used
                /\ ranges[d[1]].lo <= d[2] /\ d[2] <= ranges[d[1]].hi
<1> DEFINE At(i) == {i} \X (ranges[i].lo .. ranges[i].hi)
           All == UNION {At(i) : i \in DOMAIN ranges}
<1>1. \A i \in DOMAIN ranges : ranges[i].lo \in Nat /\ ranges[i].hi \in Nat
  <2>1. DOMAIN ranges = 1..Len(ranges) /\ Len(ranges) \in Nat
    BY DEF Ranges
  <2>2. \A i \in 1..Len(ranges) : ranges[i] \in [lo: Nat, hi: Nat]
    <3> DEFINE bounds == [lo: Nat, hi: Nat]
    <3>1. ranges \in Seq(bounds)
      BY DEF Ranges
    <3> HIDE DEF bounds
    <3>2. \A i \in 1..Len(ranges) : ranges[i] \in bounds
      BY <3>1
    <3> QED BY <3>2 DEF bounds
  <2> QED BY <2>1, <2>2
<1>2. \A i \in DOMAIN ranges : IsFiniteSet(At(i))
  <2> SUFFICES ASSUME NEW i \in DOMAIN ranges PROVE IsFiniteSet(At(i))
    OBVIOUS
  <2>1. IsFiniteSet(ranges[i].lo .. ranges[i].hi)
    <3>1. ranges[i].lo \in Int /\ ranges[i].hi \in Int
      BY <1>1
    <3> QED BY <3>1, FS_Interval
  <2>2. IsFiniteSet({i})
    BY FS_Singleton
  <2> QED BY <2>1, <2>2, FS_Product
<1>3. IsFiniteSet(DOMAIN ranges)
  <2>1. Len(ranges) \in Nat /\ DOMAIN ranges = 1..Len(ranges)
    BY DEF Ranges
  <2> QED BY <2>1, FS_Interval
<1>4. IsFiniteSet(All)
  <2>1. IsFiniteSet({At(i) : i \in DOMAIN ranges})
    <3> DEFINE f == [i \in DOMAIN ranges |-> At(i)]
    <3> HIDE DEF At
    <3>1. f \in Surjection(DOMAIN ranges, {At(i) : i \in DOMAIN ranges})
      BY DEF Surjection
    <3> QED BY <1>3, <3>1, FS_Surjection
  <2> HIDE DEF At
  <2> QED BY <1>2, <2>1, FS_UNION
<1>5. Draws(ranges, used) \in SUBSET All
  BY DEF Draws
<1>6. IsFiniteSet(Draws(ranges, used))
  BY <1>4, <1>5, FS_Subset
<1>7. ASSUME NEW d \in Draws(ranges, used)
      PROVE  /\ d = <<d[1], d[2]>> /\ d[1] \in DOMAIN ranges
             /\ d[2] \in Nat /\ d[2] \notin used
             /\ ranges[d[1]].lo <= d[2] /\ d[2] <= ranges[d[1]].hi
  <2>1. PICK i \in DOMAIN ranges : d \in At(i)
    BY <1>7 DEF Draws
  <2>2. d = <<d[1], d[2]>> /\ d[1] = i /\ d[2] \in ranges[i].lo .. ranges[i].hi
    BY <2>1
  <2>3. d[2] \notin used
    BY <1>7 DEF Draws
  <2> QED BY <1>1, <2>2, <2>3
<1> QED BY <1>6, <1>7

\* The order of drawing is a strict total order, so that every draw has one place
\* in it.
LEMMA EveryDrawOnce ==
    ASSUME NEW ranges \in Ranges, NEW used
    PROVE  LET draws == Draws(ranges, used)
               rank(d) == Cardinality({c \in draws : DrawnBefore(c, d)})
           IN  /\ Cardinality(draws) \in Nat
               /\ \A n \in 1..Cardinality(draws) : \E d \in draws : rank(d) = n - 1
<1> DEFINE draws == Draws(ranges, used)
           R == {p \in draws \X draws : DrawnBefore(p[1], p[2])}
           rank(d) == Cardinality({c \in draws : DrawnBefore(c, d)})
           place == [x \in draws |-> Cardinality(Below(R, draws, x))]
<1>1. IsFiniteSet(draws) /\ Cardinality(draws) \in Nat
  BY DrawsFinite, FS_CardinalityType
<1>2. \A x, y \in draws : <<x, y>> \in R <=> DrawnBefore(x, y)
  <2> HIDE DEF draws
  <2> QED OBVIOUS
<1>3. \A d \in draws : d = <<d[1], d[2]>> /\ d[1] \in Nat /\ d[2] \in Nat
  <2>1. DOMAIN ranges \in SUBSET Nat
    BY DEF Ranges
  <2> QED BY <2>1, DrawsFinite
<1> HIDE DEF draws, R
<1>4. StrictlyOrders(R, draws)
  <2>1. \A x \in draws : <<x, x>> \notin R
    BY <1>2, <1>3 DEF DrawnBefore
  <2>2. \A x, y, z \in draws : <<x, y>> \in R /\ <<y, z>> \in R => <<x, z>> \in R
    BY <1>2, <1>3 DEF DrawnBefore
  <2>3. ASSUME NEW x \in draws, NEW y \in draws
        PROVE  x = y \/ <<x, y>> \in R \/ <<y, x>> \in R
    <3>1. DrawnBefore(x, y) \/ DrawnBefore(y, x) \/ (x[1] = y[1] /\ x[2] = y[2])
      BY <1>3 DEF DrawnBefore
    <3> QED BY <1>2, <1>3, <3>1
  <2> QED BY <2>1, <2>2, <2>3 DEF StrictlyOrders
<1>5. \A x \in draws : Below(R, draws, x) = {c \in draws : DrawnBefore(c, x)}
  BY <1>2 DEF Below
<1>6. place \in Surjection(draws, 0..(Cardinality(draws) - 1))
  BY <1>1, <1>4, RankBijective DEF Bijection
<1>7. \A k \in 0..(Cardinality(draws) - 1) : \E d \in draws : place[d] = k
  <2> HIDE DEF place
  <2> QED BY <1>6 DEF Surjection
<1>8. ASSUME NEW n \in 1..Cardinality(draws) PROVE \E d \in draws : rank(d) = n - 1
  <2>1. n - 1 \in 0..(Cardinality(draws) - 1)
    BY <1>1
  <2>2. PICK d \in draws : place[d] = n - 1
    BY <1>7, <2>1
  <2> QED BY <1>5, <2>2
<1> QED BY <1>1, <1>8 DEF draws

\* No address is in two entries of the list.
DisjointRanges(ranges) ==
    \A i, j \in DOMAIN ranges : \A a \in Nat :
        /\ ranges[i].lo <= a /\ a <= ranges[i].hi
        /\ ranges[j].lo <= a /\ a <= ranges[j].hi
        => i = j

\* Every address drawn is in some range of the list and not in use; if no two
\* ranges overlap, none is drawn twice.
LEMMA FreeAddressesSound ==
    ASSUME NEW ranges \in Ranges, NEW used
    PROVE  LET free == FreeAddresses(ranges, used)
           IN  /\ free \in Seq(Nat)
               /\ \A n \in 1..Len(free) :
                    /\ free[n] \notin used
                    /\ \E i \in DOMAIN ranges : ranges[i].lo <= free[n] /\ free[n] <= ranges[i].hi
               /\ DisjointRanges(ranges) =>
                    \A n, k \in 1..Len(free) : free[n] = free[k] => n = k
<1> DEFINE draws == Draws(ranges, used)
           rank(d) == Cardinality({c \in draws : DrawnBefore(c, d)})
           N == Cardinality(draws)
           nth(n) == CHOOSE d \in draws : rank(d) = n - 1
           free == FreeAddresses(ranges, used)
<1>1. N \in Nat /\ \A n \in 1..N : \E d \in draws : rank(d) = n - 1
  BY EveryDrawOnce
<1>2. free = [n \in 1..N |-> nth(n)[2]]
  BY DEF FreeAddresses
<1>3. \A d \in draws : /\ d = <<d[1], d[2]>> /\ d[1] \in DOMAIN ranges
                       /\ d[2] \in Nat /\ d[2] \notin used
                       /\ ranges[d[1]].lo <= d[2] /\ d[2] <= ranges[d[1]].hi
  BY DrawsFinite
<1> HIDE DEF draws
<1>4. \A n \in 1..N : nth(n) \in draws /\ rank(nth(n)) = n - 1
  BY <1>1
<1> HIDE DEF nth, N, free, rank
<1>5. free \in Seq(Nat) /\ Len(free) = N
  BY <1>1, <1>2, <1>3, <1>4
<1>6. \A n \in 1..N : free[n] = nth(n)[2]
  BY <1>2
<1>7. ASSUME NEW n \in 1..N
      PROVE  /\ free[n] \notin used
             /\ \E i \in DOMAIN ranges : ranges[i].lo <= free[n] /\ free[n] <= ranges[i].hi
  BY <1>3, <1>4, <1>6
<1>8. ASSUME DisjointRanges(ranges), NEW n \in 1..N, NEW k \in 1..N, free[n] = free[k]
      PROVE  n = k
  <2>1. nth(n)[2] = nth(k)[2] /\ nth(n) \in draws /\ nth(k) \in draws
    BY <1>4, <1>6, <1>8
  <2>2. nth(n)[1] = nth(k)[1]
    <3>1. \A a, b \in draws : a[2] = b[2] => a[1] = b[1]
      BY <1>3, <1>8 DEF DisjointRanges
    <3> QED BY <2>1, <3>1
  <2>3. nth(n) = nth(k)
    BY <1>3, <2>1, <2>2
  <2>4. n - 1 = k - 1
    BY <1>4, <2>3
  <2> QED BY <1>1, <2>4
<1> QED BY <1>5, <1>7, <1>8 DEF free
-----------------------------------------------------------------------------
\* The plan itself, for every snapshot.

Inputs(in) == in.warm \in Nat /\ in.max \in Nat /\ in.surge \in Nat /\ in.ranges \in Ranges

Snapshot(v) ==
    /\ IsFiniteSet(DOMAIN v) /\ DOMAIN v \in SUBSET Nat
    /\ \A m \in DOMAIN v : /\ v[m].age \in Nat
                           /\ v[m].phase \in {"Provisioning", "Ready", "Claimed", "Deleting"}

\* No more is kept than there is.
LEMMA SizingKept ==
    ASSUME NEW in, in.warm \in Nat, in.max \in Nat, in.surge \in Nat,
           NEW fresh \in Nat, NEW stale \in Nat, NEW provisioning \in Nat,
           NEW claimed \in Nat
    PROVE  LET s == Sizing(in, fresh, stale, provisioning, claimed)
           IN  /\ s.freshKept \in Nat /\ s.freshKept <= fresh
               /\ s.staleKept \in Nat /\ s.staleKept <= stale
               /\ s.create \in Nat
<1> DEFINE freshKept == Least(fresh, in.warm)
           needed == Least(stale, Monus(in.warm, freshKept))
           wanted == Monus(Monus(in.warm, freshKept), provisioning)
           toCreate == Least(wanted, Monus(in.surge, provisioning))
           room == Monus(in.max, claimed + provisioning + freshKept + needed)
           trade == Least(Monus(toCreate, room), needed)
           alive == claimed + provisioning + freshKept + (needed - trade)
           create == Least(toCreate, Monus(in.max, alive))
<1>1. freshKept \in Nat /\ freshKept <= fresh
  BY Arithmetic
<1>2. needed \in Nat /\ needed <= stale /\ wanted \in Nat
  BY <1>1, Arithmetic
<1>3. toCreate \in Nat
  BY <1>2, Arithmetic
<1>4. room \in Nat
  <2>1. claimed + provisioning + freshKept + needed \in Nat
    BY <1>1, <1>2
  <2> QED BY <2>1, Arithmetic
<1>5. trade \in Nat /\ trade <= needed
  BY <1>2, <1>3, <1>4, Arithmetic
<1>6. alive \in Nat
  BY <1>1, <1>2, <1>5
<1>7. create \in Nat
  BY <1>3, <1>6, Arithmetic
<1>8. /\ Sizing(in, fresh, stale, provisioning, claimed).create = create
      /\ Sizing(in, fresh, stale, provisioning, claimed).freshKept = freshKept
      /\ Sizing(in, fresh, stale, provisioning, claimed).staleKept = needed - trade
  BY DEF Sizing
<1> HIDE DEF create, trade, needed, freshKept
<1> QED BY <1>1, <1>2, <1>5, <1>7, <1>8

\* Without its n oldest members a set is n smaller.
LEMMA WithoutOldest ==
    ASSUME NEW v, NEW S \in SUBSET Nat, IsFiniteSet(S), \A m \in S : v[m].age \in Nat,
           NEW kept \in Nat, kept <= Cardinality(S)
    PROVE  LET rest == S \ Oldest(v, S, Cardinality(S) - kept)
           IN  IsFiniteSet(rest) /\ Cardinality(rest) = kept
<1> DEFINE n == Cardinality(S) - kept
           old == Oldest(v, S, n)
<1>1. Cardinality(S) \in Nat
  BY FS_CardinalityType
<1>2. n \in Nat /\ n <= Cardinality(S)
  BY <1>1
<1> HIDE DEF n
<1>3. old \in SUBSET S /\ IsFiniteSet(old) /\ Cardinality(old) = n
  BY <1>2, OldestCount
<1>4. Cardinality(S \cap old) = Cardinality(old)
  <2>1. S \cap old = old
    BY <1>3
  <2> QED BY <2>1, Zenon
<1>5. /\ IsFiniteSet(S \ old)
      /\ Cardinality(S \ old) = Cardinality(S) - Cardinality(S \cap old)
  BY FS_Difference
<1> QED BY <1>1, <1>2, <1>3, <1>4, <1>5 DEF n

\* Two disjoint finite sets.
LEMMA DisjointUnion ==
    ASSUME NEW S, IsFiniteSet(S), NEW T, IsFiniteSet(T), S \cap T = {}
    PROVE  IsFiniteSet(S \cup T) /\ Cardinality(S \cup T) = Cardinality(S) + Cardinality(T)
<1>1. Cardinality({}) = 0 /\ Cardinality(S) \in Nat /\ Cardinality(T) \in Nat
  BY FS_EmptySet, FS_CardinalityType
<1>2. Cardinality(S \cap T) = 0
  BY <1>1, Zenon
<1>3. /\ IsFiniteSet(S \cup T)
      /\ Cardinality(S \cup T) = Cardinality(S) + Cardinality(T) - Cardinality(S \cap T)
  BY FS_Union
<1> QED BY <1>1, <1>2, <1>3

\* Invariants 1, 3 and 4 of pool_plan.rs on the plan of a snapshot of any size: a
\* claimed member is not deleted; if the plan creates members, they and the living
\* ones it keeps fit maxReplicas, and they and the installs under way fit maxSurge.
THEOREM PlanWithinLimits ==
    ASSUME NEW in, Inputs(in), NEW v, Snapshot(v)
    PROVE  LET p == plan(in, v)
               alive == DOMAIN v \ (InPhase(v, "Deleting") \cup p.delete)
           IN  /\ p.delete \in SUBSET (InPhase(v, "Provisioning") \cup InPhase(v, "Ready"))
               /\ Len(p.create) \in Nat
               /\ Len(p.create) > 0 =>
                    /\ Cardinality(alive) + Len(p.create) <= in.max
                    /\ Cardinality(InPhase(v, "Provisioning") \ p.delete) + Len(p.create)
                         <= in.surge
<1> DEFINE provisioning == InPhase(v, "Provisioning") \ Poisoned(in, v)
           stale == Stale(in, v)
           fresh == InPhase(v, "Ready") \ stale
           claimed == InPhase(v, "Claimed")
           size == Sizing(in, Cardinality(fresh), Cardinality(stale),
                          Cardinality(provisioning), Cardinality(claimed))
           free == FreeAddresses(in.ranges, UsedAddresses(v))
           granted == Least(size.create, Len(free))
           oldFresh == Oldest(v, fresh, Cardinality(fresh) - size.freshKept)
           oldStale == Oldest(v, stale, Cardinality(stale) - size.staleKept)
           create == IF in.ranges = <<>> THEN [i \in 1..size.create |-> NoAddress]
                     ELSE SubSeq(free, 1, granted)
           p == plan(in, v)
           alive == DOMAIN v \ (InPhase(v, "Deleting") \cup p.delete)
<1>1. p.delete = Poisoned(in, v) \cup oldFresh \cup oldStale /\ p.create = create
  BY DEF plan
<1>2. /\ IsFiniteSet(provisioning) /\ IsFiniteSet(stale)
      /\ IsFiniteSet(fresh) /\ IsFiniteSet(claimed)
  <2>1. /\ provisioning \in SUBSET DOMAIN v /\ stale \in SUBSET DOMAIN v
        /\ fresh \in SUBSET DOMAIN v /\ claimed \in SUBSET DOMAIN v
    BY DEF InPhase, Stale
  <2> HIDE DEF provisioning, stale, fresh, claimed
  <2> QED BY <2>1, FS_Subset DEF Snapshot
<1>3. /\ Cardinality(provisioning) \in Nat /\ Cardinality(stale) \in Nat
      /\ Cardinality(fresh) \in Nat /\ Cardinality(claimed) \in Nat
  BY <1>2, FS_CardinalityType
<1>4. /\ fresh \in SUBSET Nat /\ stale \in SUBSET Nat
      /\ \A m \in fresh \cup stale : v[m].age \in Nat /\ v[m].phase = "Ready"
  BY DEF Snapshot, InPhase, Stale
<1>5. Poisoned(in, v) \in SUBSET InPhase(v, "Provisioning")
  BY DEF Poisoned
<1>6. /\ fresh \cap stale = {} /\ provisioning \cap claimed = {}
      /\ (fresh \cup stale) \cap (provisioning \cup claimed) = {}
  BY DEF InPhase, Stale
<1>7. /\ InPhase(v, "Ready") = fresh \cup stale
      /\ InPhase(v, "Provisioning") = provisioning \cup Poisoned(in, v)
      /\ DOMAIN v = InPhase(v, "Deleting") \cup InPhase(v, "Ready") \cup claimed
                      \cup InPhase(v, "Provisioning")
  <2>1. stale \in SUBSET InPhase(v, "Ready")
    BY DEF Stale
  <2> QED BY <1>5, <2>1 DEF Snapshot, InPhase
<1> HIDE DEF provisioning, stale, fresh, claimed
<1>8. /\ size.freshKept \in Nat /\ size.freshKept <= Cardinality(fresh)
      /\ size.staleKept \in Nat /\ size.staleKept <= Cardinality(stale)
      /\ size.create \in Nat
  BY <1>3, SizingKept DEF Inputs
<1>9. size.create > 0 =>
         /\ Cardinality(claimed) + Cardinality(provisioning) + size.freshKept
              + size.staleKept + size.create <= in.max
         /\ Cardinality(provisioning) + size.create <= in.surge
  BY <1>3, SizingBounds DEF Inputs
<1>10. Len(create) \in Nat /\ Len(create) <= size.create
  <2> HIDE DEF size
  <2>1. CASE in.ranges = <<>>
    BY <1>8, <2>1
  <2>2. CASE in.ranges # <<>>
    <3>1. free \in Seq(Nat) /\ Len(free) \in Nat
      BY FreeAddressesSound DEF Inputs
    <3> HIDE DEF free
    <3>2. granted \in Nat /\ granted <= size.create /\ granted <= Len(free)
      BY <1>8, <3>1, LeastOf
    <3> HIDE DEF granted
    <3>3. Len(SubSeq(free, 1, granted)) = granted
      BY <3>1, <3>2
    <3> QED BY <2>2, <3>2, <3>3
  <2> QED BY <2>1, <2>2
<1>11. /\ IsFiniteSet(fresh \ oldFresh) /\ Cardinality(fresh \ oldFresh) = size.freshKept
       /\ IsFiniteSet(stale \ oldStale) /\ Cardinality(stale \ oldStale) = size.staleKept
  <2> HIDE DEF size
  <2>1. \A m \in fresh : v[m].age \in Nat
    BY <1>4
  <2>2. \A m \in stale : v[m].age \in Nat
    BY <1>4
  <2>3. IsFiniteSet(fresh \ oldFresh) /\ Cardinality(fresh \ oldFresh) = size.freshKept
    BY <1>2, <1>4, <1>8, <2>1, WithoutOldest
  <2>4. IsFiniteSet(stale \ oldStale) /\ Cardinality(stale \ oldStale) = size.staleKept
    BY <1>2, <1>4, <1>8, <2>2, WithoutOldest
  <2> QED BY <2>3, <2>4
<1>12. oldFresh \in SUBSET fresh /\ oldStale \in SUBSET stale
  BY DEF Oldest
<1>13. p.delete \in SUBSET (InPhase(v, "Provisioning") \cup InPhase(v, "Ready"))
  BY <1>1, <1>5, <1>7, <1>12
<1> HIDE DEF create, size, oldFresh, oldStale, p
<1>14. InPhase(v, "Provisioning") \ p.delete \in SUBSET provisioning
  BY <1>1, <1>7
<1> DEFINE keptFresh == fresh \ oldFresh
           keptStale == stale \ oldStale
           ready == keptFresh \cup keptStale
           busy == provisioning \cup claimed
<1>15. alive \in SUBSET (ready \cup busy)
  BY <1>1, <1>7
<1>16. /\ IsFiniteSet(ready) /\ IsFiniteSet(busy)
       /\ Cardinality(ready) = size.freshKept + size.staleKept
       /\ Cardinality(busy) = Cardinality(provisioning) + Cardinality(claimed)
  <2>1. keptFresh \cap keptStale = {}
    BY <1>6
  <2>2. IsFiniteSet(busy) /\ Cardinality(busy) = Cardinality(provisioning) + Cardinality(claimed)
    BY <1>2, <1>6, DisjointUnion
  <2>3. IsFiniteSet(keptFresh) /\ IsFiniteSet(keptStale)
    BY <1>11
  <2>4. Cardinality(keptFresh) = size.freshKept /\ Cardinality(keptStale) = size.staleKept
    BY <1>11
  <2> HIDE DEF keptFresh, keptStale
  <2>5. IsFiniteSet(ready) /\ Cardinality(ready) = Cardinality(keptFresh) + Cardinality(keptStale)
    BY <2>1, <2>3, DisjointUnion
  <2> QED BY <2>2, <2>4, <2>5
<1>17. /\ IsFiniteSet(ready \cup busy)
       /\ Cardinality(ready \cup busy) = Cardinality(ready) + Cardinality(busy)
  <2>1. ready \cap busy = {}
    BY <1>6
  <2> HIDE DEF ready, busy
  <2> QED BY <1>16, <2>1, DisjointUnion
<1>18. /\ Cardinality(alive) \in Nat
       /\ Cardinality(alive) <= Cardinality(ready \cup busy)
  <2> HIDE DEF alive, ready, busy
  <2> QED BY <1>15, <1>17, FS_Subset, FS_CardinalityType
<1>19. /\ Cardinality(InPhase(v, "Provisioning") \ p.delete) \in Nat
       /\ Cardinality(InPhase(v, "Provisioning") \ p.delete) <= Cardinality(provisioning)
  BY <1>2, <1>14, FS_Subset, FS_CardinalityType
<1>20. ASSUME Len(create) > 0
       PROVE  /\ Cardinality(alive) + Len(create) <= in.max
              /\ Cardinality(InPhase(v, "Provisioning") \ p.delete) + Len(create) <= in.surge
  <2>1. size.create > 0
    BY <1>8, <1>10, <1>20
  <2> DEFINE installs == Cardinality(InPhase(v, "Provisioning") \ p.delete)
             n == Len(create)
  <2>2. in.max \in Nat /\ in.surge \in Nat
    BY DEF Inputs
  <2>3. n \in Nat /\ n <= size.create
    BY <1>10
  <2>4. installs \in Nat /\ installs <= Cardinality(provisioning)
    BY <1>19
  <2> HIDE DEF alive, ready, busy, installs, n
  <2>5. Cardinality(alive) + n <= in.max
    BY <1>3, <1>8, <1>9, <1>16, <1>17, <1>18, <2>1, <2>2, <2>3
  <2>6. installs + n <= in.surge
    BY <1>3, <1>8, <1>9, <2>1, <2>2, <2>3, <2>4
  <2> QED BY <2>5, <2>6 DEF installs, n
<1> QED BY <1>1, <1>10, <1>13, <1>20 DEF p

\* What a plan grants: addresses of the list that no member of the snapshot holds,
\* and none twice if no two entries overlap; or none at all, without a list.
THEOREM PlanGrants ==
    ASSUME NEW in, Inputs(in), NEW v, Snapshot(v)
    PROVE  LET create == plan(in, v).create
           IN  /\ create \in Seq(Nat \cup {NoAddress})
               /\ \A n \in 1..Len(create) : create[n] # NoAddress =>
                    /\ \A m \in DOMAIN v : v[m].address # create[n]
                    /\ create[n] \in Nat
                    /\ \E i \in DOMAIN in.ranges :
                          in.ranges[i].lo <= create[n] /\ create[n] <= in.ranges[i].hi
                    /\ DisjointRanges(in.ranges) =>
                          \A k \in 1..Len(create) : create[n] = create[k] => n = k
<1> DEFINE used == UsedAddresses(v)
           free == FreeAddresses(in.ranges, used)
           provisioning == InPhase(v, "Provisioning") \ Poisoned(in, v)
           stale == Stale(in, v)
           fresh == InPhase(v, "Ready") \ stale
           claimed == InPhase(v, "Claimed")
           size == Sizing(in, Cardinality(fresh), Cardinality(stale),
                          Cardinality(provisioning), Cardinality(claimed))
           granted == Least(size.create, Len(free))
           create == plan(in, v).create
<1>1. create = IF in.ranges = <<>> THEN [i \in 1..size.create |-> NoAddress]
               ELSE SubSeq(free, 1, granted)
  BY DEF plan
<1>2. size.create \in Nat
  <2>1. /\ provisioning \in SUBSET DOMAIN v /\ stale \in SUBSET DOMAIN v
        /\ fresh \in SUBSET DOMAIN v /\ claimed \in SUBSET DOMAIN v
    BY DEF InPhase, Stale
  <2> HIDE DEF provisioning, stale, fresh, claimed
  <2>2. /\ Cardinality(provisioning) \in Nat /\ Cardinality(stale) \in Nat
        /\ Cardinality(fresh) \in Nat /\ Cardinality(claimed) \in Nat
    BY <2>1, FS_Subset, FS_CardinalityType DEF Snapshot
  <2> QED BY <2>2, SizingKept DEF Inputs
<1> HIDE DEF size
<1>3. CASE in.ranges = <<>>
  <2>1. create = [i \in 1..size.create |-> NoAddress]
    BY <1>1, <1>3
  <2>2. create \in Seq(Nat \cup {NoAddress}) /\ Len(create) = size.create
    BY <1>2, <2>1
  <2>3. \A n \in 1..Len(create) : create[n] = NoAddress
    BY <1>2, <2>1, <2>2
  <2> QED BY <2>2, <2>3
<1>4. CASE in.ranges # <<>>
  <2>1. /\ free \in Seq(Nat)
        /\ \A n \in 1..Len(free) :
             /\ free[n] \notin used
             /\ \E i \in DOMAIN in.ranges :
                   in.ranges[i].lo <= free[n] /\ free[n] <= in.ranges[i].hi
        /\ DisjointRanges(in.ranges) => \A n, k \in 1..Len(free) : free[n] = free[k] => n = k
    BY FreeAddressesSound DEF Inputs
  <2> HIDE DEF free
  <2>2. Len(free) \in Nat /\ \A n \in 1..Len(free) : free[n] \in Nat
    BY <2>1
  <2>3. granted \in Nat /\ granted <= Len(free)
    BY <1>2, <2>2, LeastOf
  <2> HIDE DEF granted
  <2>4. /\ create \in Seq(Nat) /\ Len(create) = granted
        /\ \A n \in 1..granted : create[n] = free[n]
    <3>1. create = SubSeq(free, 1, granted)
      BY <1>1, <1>4
    <3> HIDE DEF create
    <3> QED BY <2>1, <2>2, <2>3, <3>1
  <2>5. create \in Seq(Nat \cup {NoAddress})
    <3> HIDE DEF create
    <3>1. create \in [1..granted -> Nat \cup {NoAddress}]
      BY <2>2, <2>3, <2>4
    <3> QED BY <2>3, <3>1
  <2>6. 1..granted \in SUBSET (1..Len(free))
    BY <2>2, <2>3
  <2> HIDE DEF create
  <2>7. ASSUME NEW n \in 1..Len(create), create[n] # NoAddress
        PROVE  /\ \A m \in DOMAIN v : v[m].address # create[n]
               /\ create[n] \in Nat
               /\ \E i \in DOMAIN in.ranges :
                     in.ranges[i].lo <= create[n] /\ create[n] <= in.ranges[i].hi
               /\ DisjointRanges(in.ranges) =>
                     \A k \in 1..Len(create) : create[n] = create[k] => n = k
    <3>1. n \in 1..Len(free) /\ create[n] = free[n]
      BY <2>4, <2>6
    <3>2. create[n] \notin used
      BY <2>1, <3>1
    <3>3. \A m \in DOMAIN v : v[m].address # create[n]
      BY <2>7, <3>2 DEF UsedAddresses
    <3>4. DisjointRanges(in.ranges) => \A k \in 1..Len(create) : create[n] = create[k] => n = k
      BY <2>1, <2>4, <2>6, <3>1
    <3> QED BY <2>1, <2>2, <3>1, <3>3, <3>4
  <2> QED BY <2>5, <2>7 DEF create
<1> QED BY <1>3, <1>4

-----------------------------------------------------------------------------
\* The address list.

\* An entry that parses gives one range, of the addresses it stands for.
LEMMA ParsedEntry ==
    ASSUME NEW e \in Entries, parse_address_pool_entry(e, Width) # {}
    PROVE  \E r \in [lo: Nat, hi: Nat] :
              /\ parse_address_pool_entry(e, Width) = {r}
              /\ \A a \in Nat : r.lo <= a /\ a <= r.hi => Lists(e, a)
<1>1. CASE e \in [kind: {"cidr"}, addr: Nat, prefix: Nat]
  <2> DEFINE size == 2 ^ (Width - e.prefix)
             base == (e.addr \div size) * size
             r == AddressRange(base, base + size - 1)
  <2>1. e.kind = "cidr" /\ e.addr \in Nat /\ e.prefix \in Nat
    BY <1>1
  <2>2. e.prefix <= Width
    <3> SUFFICES ASSUME e.prefix > Width PROVE FALSE
      BY <2>1, PoolAssumption
    <3> QED BY <2>1 DEF parse_address_pool_entry
  <2>3. parse_address_pool_entry(e, Width) = {r}
    <3>1. ~(e.prefix > Width)
      BY <2>1, <2>2, PoolAssumption
    <3> QED BY <2>1, <3>1 DEF parse_address_pool_entry
  <2>4. size \in Nat /\ size > 0
    <3>1. Width - e.prefix \in 0..Width
      BY <2>1, <2>2, PoolAssumption
    <3>2. size \in Nat \ {0}
      BY <3>1, PowersOfTwo
    <3> HIDE DEF size
    <3> QED BY <3>2
  <2>5. /\ base \in Nat /\ base + size - 1 \in Nat
        /\ \A a \in Nat : base <= a /\ a <= base + size - 1 => a \div size = e.addr \div size
    <3> DEFINE q == e.addr \div size
    <3> HIDE DEF size
    <3>1. q \in Nat
      BY <2>1, <2>4
    <3> HIDE DEF q
    <3>2. \A a \in Nat : q * size <= a /\ a <= q * size + size - 1 => a \div size = q
      BY <2>4, <3>1
    <3>3. q * size \in Nat /\ q * size + size - 1 \in Nat
      BY <2>4, <3>1
    <3> QED BY <3>2, <3>3 DEF q
  <2>6. r \in [lo: Nat, hi: Nat] /\ r.lo = base /\ r.hi = base + size - 1
    <3> HIDE DEF base, size
    <3> QED BY <2>5 DEF AddressRange
  <2>7. \A a \in Nat : a \div size = e.addr \div size => Lists(e, a)
    BY <2>1, <2>2 DEF Lists
  <2> HIDE DEF r, base, size
  <2> QED BY <2>3, <2>5, <2>6, <2>7
<1>2. CASE e \in [kind: {"range"}, lo: Nat, hi: Nat]
  <2>1. e.kind = "range" /\ e.lo \in Nat /\ e.hi \in Nat
    BY <1>2
  <2> DEFINE r == AddressRange(e.lo, e.hi)
  <2>2. parse_address_pool_entry(e, Width) = {r}
    BY <2>1 DEF parse_address_pool_entry
  <2>3. r \in [lo: Nat, hi: Nat] /\ r.lo = e.lo /\ r.hi = e.hi
    BY <2>1 DEF AddressRange
  <2>4. \A a \in Nat : e.lo <= a /\ a <= e.hi => Lists(e, a)
    BY <2>1 DEF Lists
  <2> HIDE DEF r
  <2> QED BY <2>2, <2>3, <2>4
<1>3. CASE e \in [kind: {"single"}, addr: Nat]
  <2>1. e.kind = "single" /\ e.addr \in Nat
    BY <1>3
  <2> DEFINE r == AddressRange(e.addr, e.addr)
  <2>2. parse_address_pool_entry(e, Width) = {r}
    BY <2>1 DEF parse_address_pool_entry
  <2>3. r \in [lo: Nat, hi: Nat] /\ r.lo = e.addr /\ r.hi = e.addr
    BY <2>1 DEF AddressRange
  <2>4. \A a \in Nat : e.addr <= a /\ a <= e.addr => Lists(e, a)
    BY <2>1 DEF Lists
  <2> HIDE DEF r
  <2> QED BY <2>2, <2>3, <2>4
<1> QED BY <1>1, <1>2, <1>3 DEF Entries

\* Some spec of the pool lists the address.
IsListed(a) == \E s \in Specs : \E i \in DOMAIN s.entries : Lists(s.entries[i], a)

\* No address is in two entries of one list.
EntriesDisjoint ==
    \A s \in Specs : \A i, j \in DOMAIN s.entries : \A a \in Nat :
        Lists(s.entries[i], a) /\ Lists(s.entries[j], a) => i = j

\* The planner gets well-formed inputs, and ranges of listed addresses only.
LEMMA PoolInputs ==
    ASSUME NEW s \in Specs, NEW revision, ~InvalidAddressing(s)
    PROVE  LET in == pool_inputs(s, revision)
           IN  /\ Inputs(in) /\ in.max = MaxReplicas
               /\ \A a \in Nat : \A i \in DOMAIN in.ranges :
                     in.ranges[i].lo <= a /\ a <= in.ranges[i].hi => IsListed(a)
               /\ EntriesDisjoint => DisjointRanges(in.ranges)
<1> DEFINE in == pool_inputs(s, revision)
<1>1. s.warm \in Nat /\ s.entries \in Seq(Entries)
  BY PoolAssumption
<1>2. in.warm = s.warm /\ in.max = MaxReplicas /\ in.surge = MaxSurge
      /\ in.ranges = [i \in DOMAIN s.entries |-> CHOOSE r \in Parsed(s)[i] : TRUE]
  BY DEF pool_inputs
<1>3. DOMAIN s.entries = 1..Len(s.entries) /\ Len(s.entries) \in Nat
      /\ \A i \in DOMAIN s.entries : s.entries[i] \in Entries
  <2> HIDE DEF Entries
  <2> QED BY <1>1
<1>4. ASSUME NEW i \in DOMAIN s.entries
      PROVE  /\ in.ranges[i] \in [lo: Nat, hi: Nat]
             /\ \A a \in Nat : in.ranges[i].lo <= a /\ a <= in.ranges[i].hi
                               => Lists(s.entries[i], a)
  <2>1. /\ Parsed(s)[i] = parse_address_pool_entry(s.entries[i], Width)
        /\ Parsed(s)[i] # {}
    BY DEF InvalidAddressing, Parsed
  <2>2. PICK r \in [lo: Nat, hi: Nat] :
           /\ Parsed(s)[i] = {r}
           /\ \A a \in Nat : r.lo <= a /\ a <= r.hi => Lists(s.entries[i], a)
    BY <1>3, <2>1, ParsedEntry
  <2>3. in.ranges[i] = r
    <3>1. in.ranges[i] = CHOOSE x \in Parsed(s)[i] : TRUE
      BY <1>2
    <3>2. (CHOOSE x \in Parsed(s)[i] : TRUE) \in {r}
      BY <2>2
    <3> QED BY <3>1, <3>2
  <2> QED BY <2>2, <2>3
<1>5. in.ranges \in Ranges
  <2> DEFINE bounds == [lo: Nat, hi: Nat]
  <2>1. /\ DOMAIN in.ranges = 1..Len(s.entries)
        /\ in.ranges = [i \in 1..Len(s.entries) |-> in.ranges[i]]
    BY <1>2, <1>3
  <2>2. \A i \in 1..Len(s.entries) : in.ranges[i] \in bounds
    BY <1>3, <1>4
  <2> HIDE DEF bounds, in
  <2>3. in.ranges \in [1..Len(s.entries) -> bounds]
    BY <2>1, <2>2
  <2>4. in.ranges \in Seq(bounds)
    BY <1>3, <2>3
  <2> QED BY <2>4 DEF Ranges, bounds
<1>6. DOMAIN in.ranges = DOMAIN s.entries
  BY <1>2
<1>7. ASSUME NEW a \in Nat, NEW i \in DOMAIN in.ranges,
             in.ranges[i].lo <= a /\ a <= in.ranges[i].hi
      PROVE  IsListed(a)
  BY <1>4, <1>6, <1>7 DEF IsListed
<1>8. EntriesDisjoint => DisjointRanges(in.ranges)
  BY <1>4, <1>6 DEF EntriesDisjoint, DisjointRanges
<1> QED BY <1>1, <1>2, <1>5, <1>7, <1>8, PoolAssumption DEF Inputs
-----------------------------------------------------------------------------
\* Types.

\* A deletion leaves a member a member.
LEMMA DeletingType ==
    ASSUME NEW o \in VmObjects
    PROVE  Deleting(o) \in VmObjects /\ Deleting(o).st = "deleting"
           /\ Deleting(o).address = o.address
<1>1. 0 \in 0..AgeCap
  BY PoolAssumption
<1>2. Deleting(o) \in VmObjects
  BY <1>1 DEF Deleting, VmObjects
<1>3. Deleting(o).st = "deleting" /\ Deleting(o).address = o.address
  BY DEF Deleting, VmObjects
<1> QED BY <1>2, <1>3

\* A free name and an idle pass.
LEMMA NothingType ==
    /\ NoVm \in VmObjects /\ NoVm.st = "absent"
    /\ NoPass.pc = "idle" /\ NoPass.create = <<>> /\ NoPass.delete = {}
    /\ NoPass \in [pc: {"idle", "list", "apply"}, spec: Specs, revision: Nat,
                   delete: SUBSET Members, create: Seq(Nat \cup {NoAddress}),
                   report: Reports]
<1>1. NoVm \in VmObjects /\ NoVm.st = "absent"
  BY PoolAssumption DEF NoVm, VmObjects
<1>2. (CHOOSE s \in Specs : TRUE) \in Specs
  BY PoolAssumption
<1>3. NoReport \in Reports
  BY DEF NoReport, Reports, Capacities
<1> QED BY <1>1, <1>2, <1>3 DEF NoPass

\* A snapshot of the members is one the planner can read.
LEMMA ViewsSnapshot ==
    ASSUME TypeOK, IsFiniteSet(Existing)
    PROVE  LET views == [m \in Existing |-> member_view(m)]
           IN  /\ Snapshot(views)
               /\ DOMAIN views = Existing
               /\ Live = Existing \ InPhase(views, "Deleting")
               /\ \A m \in Existing : views[m].address = vm[m].address
<1> DEFINE views == [m \in Existing |-> member_view(m)]
<1>1. Existing \in SUBSET Members /\ Members \in SUBSET Nat
  BY PoolAssumption DEF Existing
<1>2. ASSUME NEW m \in Existing
      PROVE  /\ views[m].age \in Nat /\ views[m].address = vm[m].address
             /\ views[m].phase \in {"Provisioning", "Ready", "Claimed", "Deleting"}
             /\ views[m].phase = "Deleting" <=> vm[m].st = "deleting"
  <2>1. vm[m] \in VmObjects
    BY <1>1 DEF TypeOK
  <2>2. views[m] = member_view(m)
    OBVIOUS
  <2>3. vm[m].age \in Nat
    BY <2>1, PoolAssumption DEF VmObjects
  <2> QED BY <2>2, <2>3 DEF member_view, PhaseOf
<1>3. ASSUME NEW m \in Existing PROVE m \in Live <=> vm[m].st # "deleting"
  <2>1. vm[m].st \in {"live", "deleting"} /\ m \in Members
    BY DEF TypeOK, VmObjects, Existing
  <2> QED BY <2>1 DEF Live
<1>4. Live \in SUBSET Existing
  BY DEF Live, Existing
<1> HIDE DEF views
<1>5. DOMAIN views = Existing
  BY DEF views
<1>6. Live = Existing \ InPhase(views, "Deleting")
  BY <1>2, <1>3, <1>4, <1>5 DEF InPhase
<1> QED BY <1>1, <1>2, <1>5, <1>6 DEF Snapshot, views
-----------------------------------------------------------------------------
\* Steps of the cluster: members go, or change what no limit counts.

OnlyFewer ==
    /\ vm' \in [Members -> VmObjects]
    /\ Existing' \in SUBSET Existing /\ Live' \in SUBSET Live
    /\ \A m \in Existing' : vm'[m].address = vm[m].address

\* One member changes; it does not come back to life and keeps its address.
LEMMA OneMember ==
    ASSUME TypeOK, NEW m \in Members, NEW o \in VmObjects, vm' = [vm EXCEPT ![m] = o],
           o.st = "live" => vm[m].st = "live",
           o.st # "absent" => vm[m].st # "absent" /\ o.address = vm[m].address
    PROVE  OnlyFewer
<1>1. vm \in [Members -> VmObjects]
  BY DEF TypeOK
<1>2. vm' \in [Members -> VmObjects]
  BY <1>1
<1>3. \A k \in Members : vm'[k] = IF k = m THEN o ELSE vm[k]
  BY <1>1
<1>4. Existing' = {k \in Members : vm'[k].st # "absent"} /\ Live' = {k \in Members : vm'[k].st = "live"}
  BY DEF Existing, Live
<1> QED BY <1>2, <1>3, <1>4 DEF OnlyFewer, Existing, Live

\* Ages that pass do not change which members there are.
LEMMA TickFewer ==
    ASSUME TypeOK, Tick
    PROVE  OnlyFewer
<1>1. vm \in [Members -> VmObjects]
  BY DEF TypeOK
<1>2. \A a \in 0..AgeCap : Least(a + 1, AgeCap) \in 0..AgeCap
  BY PoolAssumption DEF Least
<1>3. ASSUME NEW m \in Members
      PROVE  vm'[m] \in VmObjects /\ vm'[m].st = vm[m].st /\ vm'[m].address = vm[m].address
  <2>1. vm[m] \in VmObjects
    BY <1>1
  <2>2. CASE vm[m].st # "live"
    <3>1. vm'[m] = vm[m]
      BY <2>2 DEF Tick
    <3> QED BY <2>1, <3>1
  <2>3. CASE vm[m].st = "live"
    <3> DEFINE age == Least(vm[m].age + 1, AgeCap)
               readyFor == IF vm[m].ready = "True" THEN Least(vm[m].readyFor + 1, AgeCap)
                           ELSE vm[m].readyFor
    <3>1. vm'[m] = [vm[m] EXCEPT !.age = age, !.readyFor = readyFor]
      BY <2>3 DEF Tick
    <3>2. vm[m].age \in 0..AgeCap /\ vm[m].readyFor \in 0..AgeCap
      BY <2>1 DEF VmObjects
    <3>3. age \in 0..AgeCap /\ readyFor \in 0..AgeCap
      BY <1>2, <3>2
    <3> HIDE DEF age, readyFor
    <3> QED BY <2>1, <3>1, <3>3 DEF VmObjects
  <2> QED BY <2>2, <2>3
<1>4. vm' \in [Members -> VmObjects]
  <2>1. vm' = [m \in Members |-> vm'[m]]
    BY DEF Tick
  <2> QED BY <1>3, <2>1
<1>5. Existing' = {k \in Members : vm'[k].st # "absent"} /\ Live' = {k \in Members : vm'[k].st = "live"}
  BY DEF Existing, Live
<1> QED BY <1>3, <1>4, <1>5 DEF OnlyFewer, Existing, Live

\* What claims, providers and the garbage collector do to a member.
LEMMA MemberFewer ==
    ASSUME TypeOK, NEW m \in Members,
           \/ Provider(m) \/ Bind(m) \/ Release(m) \/ LoseReady(m) \/ Hang(m)
           \/ CollectMember(m) \/ DeleteMember(m)
    PROVE  OnlyFewer
<1>1. vm[m] \in VmObjects
  BY DEF TypeOK
<1>2. 0 \in 0..AgeCap
  BY PoolAssumption
<1>3. CASE BecomeReady(m)
  <2> DEFINE o == [vm[m] EXCEPT !.ready = "True", !.readyFor = 0]
  <2>1. vm' = [vm EXCEPT ![m] = o]
    BY <1>3 DEF BecomeReady, TypeOK
  <2>2. o \in VmObjects /\ o.st = vm[m].st /\ o.address = vm[m].address
    BY <1>1, <1>2 DEF VmObjects
  <2> HIDE DEF o
  <2> QED BY <2>1, <2>2, OneMember
<1>4. CASE Finish(m)
  BY <1>4, NothingType, OneMember DEF Finish
<1>5. CASE Bind(m)
  <2> DEFINE o == [vm[m] EXCEPT !.claimed = TRUE]
  <2>1. vm' = [vm EXCEPT ![m] = o]
    BY <1>5 DEF Bind, TypeOK
  <2>2. o \in VmObjects /\ o.st = vm[m].st /\ o.address = vm[m].address
    BY <1>1 DEF VmObjects
  <2> HIDE DEF o
  <2> QED BY <2>1, <2>2, OneMember
<1>6. CASE Release(m)
  <2>1. vm' = [vm EXCEPT ![m] = Deleting(vm[m])] /\ vm[m].st = "live"
    BY <1>6 DEF Release
  <2> QED BY <1>1, <2>1, DeletingType, OneMember
<1>7. CASE LoseReady(m)
  <2> DEFINE o == [vm[m] EXCEPT !.ready = "False", !.readyFor = 0]
  <2>1. vm' = [vm EXCEPT ![m] = o]
    BY <1>7 DEF LoseReady, TypeOK
  <2>2. o \in VmObjects /\ o.st = vm[m].st /\ o.address = vm[m].address
    BY <1>1, <1>2 DEF VmObjects
  <2> HIDE DEF o
  <2> QED BY <2>1, <2>2, OneMember
<1>8. CASE Hang(m)
  <2> DEFINE o == [vm[m] EXCEPT !.broken = TRUE]
  <2>1. vm' = [vm EXCEPT ![m] = o]
    BY <1>8 DEF Hang, TypeOK
  <2>2. o \in VmObjects /\ o.st = vm[m].st /\ o.address = vm[m].address
    BY <1>1 DEF VmObjects
  <2> HIDE DEF o
  <2> QED BY <2>1, <2>2, OneMember
<1>9. CASE CollectMember(m)
  <2>1. vm' = [vm EXCEPT ![m] = Deleting(vm[m])] /\ vm[m].st = "live"
    BY <1>9 DEF CollectMember
  <2> QED BY <1>1, <2>1, DeletingType, OneMember
<1>10. CASE DeleteMember(m)
  <2> DEFINE o == IF vm[m].st = "live" THEN Deleting(vm[m]) ELSE vm[m]
  <2>1. vm' = [vm EXCEPT ![m] = o]
    BY <1>10 DEF DeleteMember
  <2>2. /\ o \in VmObjects /\ o.address = vm[m].address
        /\ o.st = "live" => vm[m].st = "live"
        /\ o.st # "absent" => vm[m].st # "absent"
    BY <1>1, DeletingType
  <2> HIDE DEF o
  <2> QED BY <2>1, <2>2, OneMember
<1> QED BY <1>3, <1>4, <1>5, <1>6, <1>7, <1>8, <1>9, <1>10 DEF Provider
-----------------------------------------------------------------------------
\* The ceiling.

Passes == [pc: {"idle", "list", "apply"}, spec: Specs, revision: Nat,
           delete: SUBSET Members, create: Seq(Nat \cup {NoAddress}), report: Reports]

\* What is left of a plan still fits: the members it does not delete and those it
\* is to create.
PlanFits == pass.pc = "apply" =>
                Cardinality(Live \ pass.delete) + Len(pass.create) <= MaxReplicas

\* The inductive invariant of AliveWithinMax.
Ceiling == TypeOK /\ IsFiniteSet(Existing) /\ AliveWithinMax /\ PlanFits

\* The Capacity condition has one of its reasons.
LEMMA ReportType ==
    ASSUME NEW views, NEW s, NEW capacity \in Capacities
    PROVE  Report(views, s, capacity) \in Reports
BY DEF Report, Reports

\* The reason is one of them.
LEMMA ReasonType ==
    ASSUME NEW decided
    PROVE  CapacityReason(decided) \in Capacities
<1>1. CASE readiness_signal_absent
  BY <1>1 DEF CapacityReason, Capacities
<1>2. CASE ~readiness_signal_absent /\ decided.blockedOnAddresses > 0
  BY <1>2 DEF CapacityReason, Capacities
<1>3. CASE ~readiness_signal_absent /\ ~(decided.blockedOnAddresses > 0)
  BY <1>3 DEF CapacityReason, Capacities
<1> QED BY <1>1, <1>2, <1>3

\* There are finitely many members alive.
LEMMA LiveFinite ==
    ASSUME IsFiniteSet(Existing)
    PROVE  /\ IsFiniteSet(Live) /\ Cardinality(Live) \in Nat
           /\ \A D : /\ IsFiniteSet(Live \ D) /\ Cardinality(Live \ D) \in Nat
                     /\ Cardinality(Live \ D) <= Cardinality(Live)
<1>1. Live \in SUBSET Existing
  BY DEF Live, Existing
<1>2. IsFiniteSet(Live)
  BY <1>1, FS_Subset
<1>3. \A D : Live \ D \in SUBSET Live
  OBVIOUS
<1> QED BY <1>2, <1>3, FS_Subset, FS_CardinalityType

\* A fresh plan: what it leaves alive and what it creates fit.
LEMMA PlanStep ==
    ASSUME Ceiling, ListAndPlan
    PROVE  /\ pass' \in Passes
           /\ pass'.pc = "apply"
           /\ Cardinality(Live \ pass'.delete) + Len(pass'.create) <= MaxReplicas
<1> USE DEF Ceiling
<1> DEFINE views == [m \in Existing |-> member_view(m)]
           s == pass.spec
<1>0. s \in Specs /\ pass.revision \in Nat /\ MaxReplicas \in Nat
  BY PoolAssumption DEF TypeOK
<1>1. CASE InvalidAddressing(s) /\ pass' = [NoPass EXCEPT !.pc = "apply",
                           !.report = Report(views, s, "AddressRangeExhausted")]
  <2> DEFINE report == Report(views, s, "AddressRangeExhausted")
  <2>1. report \in Reports
    BY ReportType DEF Capacities
  <2> HIDE DEF report
  <2>2. pass' = [NoPass EXCEPT !.pc = "apply", !.report = report]
    BY <1>1 DEF report
  <2>3. pass' \in Passes /\ pass'.pc = "apply" /\ pass'.create = <<>> /\ pass'.delete = {}
    BY <2>1, <2>2, NothingType DEF Passes
  <2>4. Len(pass'.create) = 0
    BY <2>3
  <2>5. /\ Cardinality(Live \ pass'.delete) \in Nat /\ Cardinality(Live) \in Nat
        /\ Cardinality(Live \ pass'.delete) <= Cardinality(Live)
    BY LiveFinite
  <2> QED BY <1>0, <2>3, <2>4, <2>5 DEF AliveWithinMax
<1>2. CASE /\ ~InvalidAddressing(s)
           /\ \E inputs \in {pool_inputs(s, pass.revision)} :
              \E decided \in {plan(inputs, views)} :
                 pass' = [NoPass EXCEPT !.pc = "apply", !.revision = pass.revision,
                           !.delete = decided.delete, !.create = decided.create,
                           !.report = Report(views, s, CapacityReason(decided))]
  <2> DEFINE in == pool_inputs(s, pass.revision)
             p == plan(in, views)
             report == Report(views, s, CapacityReason(p))
             alive == Existing \ (InPhase(views, "Deleting") \cup p.delete)
  <2>1. Snapshot(views) /\ DOMAIN views = Existing /\ Live = Existing \ InPhase(views, "Deleting")
    BY ViewsSnapshot
  <2>2. Inputs(in) /\ in.max = MaxReplicas
    BY <1>0, <1>2, PoolInputs
  <2>3. report \in Reports
    BY ReasonType, ReportType
  <2>4. pass' = [NoPass EXCEPT !.pc = "apply", !.revision = pass.revision,
                   !.delete = p.delete, !.create = p.create, !.report = report]
    BY <1>2
  <2> HIDE DEF in, views, report
  <2>5. p.create \in Seq(Nat \cup {NoAddress})
    BY <2>1, <2>2, PlanGrants
  <2>6. /\ p.delete \in SUBSET Existing
        /\ Len(p.create) \in Nat
        /\ Len(p.create) > 0 => Cardinality(alive) + Len(p.create) <= MaxReplicas
    <3>1. /\ p.delete \in SUBSET (InPhase(views, "Provisioning") \cup InPhase(views, "Ready"))
          /\ Len(p.create) \in Nat
          /\ Len(p.create) > 0 =>
                Cardinality(DOMAIN views \ (InPhase(views, "Deleting") \cup p.delete))
                  + Len(p.create) <= in.max
      BY <2>1, <2>2, PlanWithinLimits
    <3>2. InPhase(views, "Provisioning") \cup InPhase(views, "Ready") \in SUBSET Existing
      BY <2>1 DEF InPhase
    <3> QED BY <2>1, <2>2, <3>1, <3>2
  <2> HIDE DEF p
  <2>7. p.delete \in SUBSET Members
    BY <2>6 DEF Existing
  <2>8. pass' \in Passes /\ pass'.pc = "apply" /\ pass'.delete = p.delete /\ pass'.create = p.create
    BY <1>0, <2>3, <2>4, <2>5, <2>7, NothingType DEF Passes
  <2>9. Live \ p.delete = alive
    BY <2>1
  <2>10. Cardinality(Live \ p.delete) = Cardinality(alive)
    BY <2>9, Zenon
  <2>11. /\ Cardinality(Live \ p.delete) \in Nat /\ Cardinality(Live) \in Nat
         /\ Cardinality(Live \ p.delete) <= Cardinality(Live)
    BY LiveFinite
  <2> HIDE DEF alive
  <2>12. Cardinality(Live \ p.delete) + Len(p.create) <= MaxReplicas
    BY <1>0, <2>6, <2>10, <2>11 DEF AliveWithinMax
  <2> QED BY <2>8, <2>12
<1> QED BY <1>1, <1>2 DEF ListAndPlan
\* A step that lets members go and leaves no more of the plan keeps the ceiling.
LEMMA FewerFits ==
    ASSUME Ceiling, OnlyFewer,
           pass'.pc = "apply" => /\ pass.pc = "apply" /\ pass'.create = pass.create
                                 /\ Live' \ pass'.delete \in SUBSET (Live \ pass.delete)
    PROVE  IsFiniteSet(Existing)' /\ AliveWithinMax' /\ PlanFits'
<1>1. IsFiniteSet(Existing')
  BY FS_Subset DEF Ceiling, OnlyFewer
<1>2. /\ IsFiniteSet(Live) /\ Cardinality(Live) \in Nat /\ IsFiniteSet(Live \ pass.delete)
      /\ Cardinality(Live \ pass.delete) \in Nat
  BY LiveFinite DEF Ceiling
<1>3. Cardinality(Live') <= Cardinality(Live) /\ Cardinality(Live') \in Nat
  <2>1. Live' \in SUBSET Live
    BY DEF OnlyFewer
  <2> QED BY <1>2, <2>1, FS_Subset, FS_CardinalityType
<1>4. MaxReplicas \in Nat
  BY PoolAssumption
<1>5. AliveWithinMax'
  <2>1. AliveWithinMax' <=> Cardinality(Live') <= MaxReplicas
    BY DEF AliveWithinMax
  <2> QED BY <1>2, <1>3, <1>4, <2>1 DEF Ceiling, AliveWithinMax
<1>6. PlanFits'
  <2> SUFFICES ASSUME pass'.pc = "apply"
               PROVE  Cardinality(Live' \ pass'.delete) + Len(pass'.create) <= MaxReplicas
    BY DEF PlanFits
  <2>1. Cardinality(Live \ pass.delete) + Len(pass.create) <= MaxReplicas
    BY DEF Ceiling, PlanFits
  <2>2. /\ Cardinality(Live' \ pass'.delete) <= Cardinality(Live \ pass.delete)
        /\ Cardinality(Live' \ pass'.delete) \in Nat
    BY <1>2, FS_Subset, FS_CardinalityType
  <2>3. Len(pass.create) \in Nat /\ pass'.create = pass.create
    BY DEF Ceiling, TypeOK
  <2> QED BY <1>2, <1>4, <2>1, <2>2, <2>3
<1> QED BY <1>1, <1>5, <1>6

\* No member changes.
LEMMA SameMembers ==
    ASSUME TypeOK, vm' = vm
    PROVE  OnlyFewer /\ Live' = Live /\ Existing' = Existing
BY DEF OnlyFewer, TypeOK, Live, Existing

\* The bound on events is kept.
LEMMA EventType ==
    ASSUME TypeOK, events' = events \/ Event
    PROVE  events' \in 0..MaxEvents
<1>1. MaxEvents \in Nat
  BY PoolAssumption
<1>2. events \in 0..MaxEvents
  BY DEF TypeOK
<1> QED BY <1>1, <1>2 DEF Event

\* Every step keeps the ceiling.
LEMMA CeilingStep ==
    ASSUME Ceiling, [Next]_vars
    PROVE  Ceiling'
<1>0. TypeOK /\ pass \in Passes /\ IsFiniteSet(Existing)
  BY DEF Ceiling, TypeOK, Passes
<1>1. CASE GetImage
  <2>1. /\ pass' \in Passes /\ pass'.pc = "list"
    BY <1>0, <1>1 DEF GetImage, TypeOK, Passes
  <2>2. TypeOK'
    BY <1>0, <1>1, <2>1 DEF GetImage, TypeOK, Passes
  <2>3. IsFiniteSet(Existing)' /\ AliveWithinMax' /\ PlanFits'
    BY <1>0, <1>1, <2>1, SameMembers, FewerFits DEF GetImage
  <2> QED BY <2>2, <2>3 DEF Ceiling
<1>2. CASE ListAndPlan
  <2>1. /\ pass' \in Passes
        /\ Cardinality(Live \ pass'.delete) + Len(pass'.create) <= MaxReplicas
    BY <1>2, PlanStep
  <2>2. TypeOK' /\ vm' = vm
    BY <1>0, <1>2, <2>1 DEF ListAndPlan, TypeOK, Passes
  <2>3. Live' = Live /\ Existing' = Existing
    BY <1>0, <2>2, SameMembers
  <2> QED BY <2>1, <2>2, <2>3 DEF Ceiling, AliveWithinMax, PlanFits
<1>3. CASE Publish
  <2>1. pass' = NoPass /\ pass' \in Passes /\ pass'.pc = "idle" /\ vm' = vm
    BY <1>3, NothingType DEF Publish, Passes
  <2>2. TypeOK'
    BY <1>0, <1>3, <2>1 DEF Publish, TypeOK, Passes
  <2>3. IsFiniteSet(Existing)' /\ AliveWithinMax' /\ PlanFits'
    BY <1>0, <2>1, SameMembers, FewerFits
  <2> QED BY <2>2, <2>3 DEF Ceiling
<1>4. ASSUME NEW m \in Members, DeleteMember(m) PROVE Ceiling'
  <2>1. OnlyFewer
    BY <1>0, <1>4, MemberFewer
  <2>2. /\ pass' \in Passes /\ pass.pc = "apply" /\ pass'.create = pass.create
        /\ pass'.delete = pass.delete \ {m}
    BY <1>0, <1>4 DEF DeleteMember, Passes
  <2>3. m \notin Live'
    <3>1. vm'[m] = IF vm[m].st = "live" THEN Deleting(vm[m]) ELSE vm[m]
      BY <1>0, <1>4 DEF DeleteMember, TypeOK
    <3>2. vm[m] \in VmObjects
      BY <1>0 DEF TypeOK
    <3>3. vm'[m].st # "live"
      BY <3>1, <3>2, DeletingType
    <3>4. Live' = {k \in Members : vm'[k].st = "live"}
      BY DEF Live
    <3> QED BY <3>3, <3>4
  <2>4. Live' \ pass'.delete \in SUBSET (Live \ pass.delete)
    BY <2>1, <2>2, <2>3 DEF OnlyFewer
  <2>5. TypeOK'
    BY <1>0, <1>4, <2>1, <2>2 DEF DeleteMember, OnlyFewer, TypeOK, Passes
  <2>6. IsFiniteSet(Existing)' /\ AliveWithinMax' /\ PlanFits'
    BY <2>1, <2>2, <2>4, FewerFits
  <2> QED BY <2>5, <2>6 DEF Ceiling
<1>5. ASSUME NEW m \in Members, CreateMember(m) PROVE Ceiling'
  <2> DEFINE o == [NoVm EXCEPT !.st = "live", !.revision = pass.revision,
                               !.address = Head(pass.create)]
  <2>1. /\ pass.pc = "apply" /\ pass.delete = {} /\ pass.create # <<>>
        /\ vm' = [vm EXCEPT ![m] = o] /\ vm[m].st = "absent"
        /\ pass' = [pass EXCEPT !.create = Tail(@)]
    BY <1>5 DEF CreateMember
  <2>2. /\ Head(pass.create) \in Nat \cup {NoAddress}
        /\ Tail(pass.create) \in Seq(Nat \cup {NoAddress})
        /\ Len(Tail(pass.create)) = Len(pass.create) - 1
        /\ Len(pass.create) \in Nat \ {0}
    <3> DEFINE A == Nat \cup {NoAddress}
    <3>1. pass.create \in Seq(A) /\ pass.create # <<>>
      BY <1>0, <2>1 DEF Passes
    <3> HIDE DEF A
    <3>2. Head(pass.create) \in A /\ Tail(pass.create) \in Seq(A)
          /\ Len(Tail(pass.create)) = Len(pass.create) - 1 /\ Len(pass.create) \in Nat \ {0}
      BY <3>1
    <3> QED BY <3>2 DEF A
  <2>3. /\ pass' \in Passes /\ pass'.delete = {} /\ pass'.create = Tail(pass.create)
    BY <1>0, <2>1, <2>2 DEF Passes
  <2>4. o \in VmObjects /\ o.st = "live"
    <3>1. pass.revision \in Nat
      BY <1>0 DEF Passes
    <3> QED BY <2>2, <3>1, NothingType DEF VmObjects
  <2> HIDE DEF o
  <2>5. Live' = Live \cup {m} /\ Existing' = Existing \cup {m} /\ m \notin Live
    <3>1. \A k \in Members : vm'[k] = IF k = m THEN o ELSE vm[k]
      BY <1>0, <2>1 DEF TypeOK
    <3>2. /\ Existing' = {k \in Members : vm'[k].st # "absent"}
          /\ Live' = {k \in Members : vm'[k].st = "live"}
      BY DEF Existing, Live
    <3> QED BY <2>1, <2>4, <3>1, <3>2 DEF Existing, Live
  <2>6. TypeOK'
    <3>1. vm' \in [Members -> VmObjects]
      BY <1>0, <2>1, <2>4 DEF TypeOK
    <3> QED BY <1>0, <1>5, <2>3, <3>1 DEF CreateMember, TypeOK, Passes
  <2>7. IsFiniteSet(Existing')
    BY <1>0, <2>5, FS_AddElement
  <2>8. Cardinality(Live') = Cardinality(Live) + 1 /\ Cardinality(Live) \in Nat
    BY <1>0, <2>5, LiveFinite, FS_AddElement
  <2>9. Cardinality(Live) + Len(pass.create) <= MaxReplicas
    <3>1. Live \ pass.delete = Live
      BY <2>1
    <3>2. Cardinality(Live \ pass.delete) = Cardinality(Live)
      BY <3>1, Zenon
    <3> QED BY <2>1, <3>2 DEF Ceiling, PlanFits
  <2>10. Cardinality(Live' \ pass'.delete) = Cardinality(Live')
    <3>1. Live' \ pass'.delete = Live'
      BY <2>3
    <3> QED BY <3>1, Zenon
  <2>11. /\ Cardinality(Live') <= MaxReplicas
         /\ Cardinality(Live' \ pass'.delete) + Len(pass'.create) <= MaxReplicas
    BY <2>2, <2>3, <2>8, <2>9, <2>10, PoolAssumption
  <2> QED BY <2>6, <2>7, <2>11 DEF Ceiling, AliveWithinMax, PlanFits
<1>6. CASE Abort
  <2>1. pass' = NoPass /\ pass' \in Passes /\ pass'.pc = "idle" /\ vm' = vm
    BY <1>6, NothingType DEF Abort, Passes
  <2>2. TypeOK'
    <3>1. events' \in 0..MaxEvents
      BY <1>0, <1>6, EventType DEF Abort
    <3> QED BY <1>0, <1>6, <2>1, <3>1 DEF Abort, TypeOK, Passes
  <2>3. IsFiniteSet(Existing)' /\ AliveWithinMax' /\ PlanFits'
    BY <1>0, <2>1, SameMembers, FewerFits
  <2> QED BY <2>2, <2>3 DEF Ceiling
<1>7. CASE RebuildImage \/ EditSpec \/ DeletePool
  <2>1. pass' = pass /\ vm' = vm
    BY <1>7 DEF RebuildImage, EditSpec, DeletePool
  <2>2. TypeOK'
    <3>1. events' \in 0..MaxEvents
      BY <1>0, <1>7, EventType DEF RebuildImage, EditSpec, DeletePool
    <3>2. CASE RebuildImage
      BY <1>0, <2>1, <3>1, <3>2 DEF RebuildImage, TypeOK
    <3>3. CASE EditSpec
      BY <1>0, <2>1, <3>1, <3>3 DEF EditSpec, TypeOK
    <3>4. CASE DeletePool
      BY <1>0, <2>1, <3>1, <3>4 DEF DeletePool, TypeOK
    <3> QED BY <1>7, <3>2, <3>3, <3>4
  <2>3. IsFiniteSet(Existing)' /\ AliveWithinMax' /\ PlanFits'
    BY <1>0, <2>1, SameMembers, FewerFits
  <2> QED BY <2>2, <2>3 DEF Ceiling
<1>8. CASE Tick
  <2>1. OnlyFewer /\ pass' = pass
    BY <1>0, <1>8, TickFewer DEF Tick
  <2>2. TypeOK'
    BY <1>0, <1>8, <2>1 DEF Tick, OnlyFewer, TypeOK
  <2>3. Live' \ pass'.delete \in SUBSET (Live \ pass.delete)
    BY <2>1 DEF OnlyFewer
  <2>4. IsFiniteSet(Existing)' /\ AliveWithinMax' /\ PlanFits'
    BY <2>1, <2>3, FewerFits
  <2> QED BY <2>2, <2>4 DEF Ceiling
<1>9. ASSUME NEW m \in Members,
             \/ Provider(m) \/ Bind(m) \/ Release(m) \/ LoseReady(m) \/ Hang(m)
             \/ CollectMember(m)
      PROVE  Ceiling'
  <2>1. OnlyFewer
    BY <1>0, <1>9, MemberFewer
  <2>2. /\ pass' = pass /\ spec' = spec /\ deleted' = deleted /\ image' = image
        /\ status' = status
    BY <1>9 DEF Provider, BecomeReady, Finish, Bind, Release, LoseReady, Hang, CollectMember
  <2>3. events' = events \/ Event
    BY <1>9 DEF Provider, BecomeReady, Finish, Bind, Release, LoseReady, Hang, CollectMember
  <2>4. events' \in 0..MaxEvents
    BY <1>0, <2>3, EventType
  <2>5. TypeOK'
    BY <1>0, <2>1, <2>2, <2>4 DEF OnlyFewer, TypeOK
  <2>6. Live' \ pass'.delete \in SUBSET (Live \ pass.delete)
    BY <2>1, <2>2 DEF OnlyFewer
  <2>7. IsFiniteSet(Existing)' /\ AliveWithinMax' /\ PlanFits'
    BY <2>1, <2>2, <2>6, FewerFits
  <2> QED BY <2>5, <2>7 DEF Ceiling
<1>10. CASE UNCHANGED vars
  <2>1. pass' = pass /\ vm' = vm
    BY <1>10 DEF vars
  <2>2. TypeOK'
    BY <1>0, <1>10 DEF vars, TypeOK
  <2>3. IsFiniteSet(Existing)' /\ AliveWithinMax' /\ PlanFits'
    BY <1>0, <2>1, SameMembers, FewerFits
  <2> QED BY <2>2, <2>3 DEF Ceiling
<1> QED BY <1>1, <1>2, <1>3, <1>4, <1>5, <1>6, <1>7, <1>8, <1>9, <1>10
        DEF Next, PassStep, Apply

\* The pool starts without members.
LEMMA CeilingInit == Init => Ceiling
<1> SUFFICES ASSUME Init PROVE Ceiling
  OBVIOUS
<1>1. \A m \in Members : vm[m].st = "absent"
  BY NothingType DEF Init
<1>2. Existing = {} /\ Live = {}
  BY <1>1 DEF Existing, Live
<1>3. IsFiniteSet(Existing) /\ Cardinality(Live) = 0
  BY <1>2, FS_EmptySet
<1>4. AliveWithinMax
  BY <1>3, PoolAssumption DEF AliveWithinMax
<1>5. PlanFits
  BY NothingType DEF Init, PlanFits
<1>6. TypeOK
  <2>1. NoReport \in Reports
    BY DEF NoReport, Reports, Capacities
  <2>2. 0 \in 0..MaxEvents
    BY PoolAssumption
  <2> QED BY <2>1, <2>2, NothingType DEF Init, TypeOK
<1> QED BY <1>3, <1>4, <1>5, <1>6 DEF Ceiling

\* maxReplicas holds in every state, whatever happens between the LIST of a pass
\* and its last create, and wherever a pass is cut short.
THEOREM PoolWithinMax == Spec => []AliveWithinMax
<1>1. Init => Ceiling
  BY CeilingInit
<1>2. Ceiling /\ [Next]_vars => Ceiling'
  BY CeilingStep
<1>3. Ceiling => AliveWithinMax
  BY DEF Ceiling
<1> QED BY <1>1, <1>2, <1>3, PTL DEF Spec

-----------------------------------------------------------------------------
\* The addresses.

\* What is left of a plan's addresses: listed, held by no member that still exists,
\* and no two the same.
Granted ==
    pass.pc = "apply" =>
        \A i \in 1..Len(pass.create) : pass.create[i] # NoAddress =>
            /\ IsListed(pass.create[i])
            /\ \A m \in Existing : vm[m].address # pass.create[i]
            /\ \A j \in 1..Len(pass.create) : pass.create[i] = pass.create[j] => i = j

\* A fresh plan grants free addresses only.
LEMMA PlanGranted ==
    ASSUME Ceiling, ListAndPlan, EntriesDisjoint
    PROVE  Granted'
<1> DEFINE views == [m \in Existing |-> member_view(m)]
           s == pass.spec
           in == pool_inputs(s, pass.revision)
           p == plan(in, views)
<1>1. TypeOK /\ IsFiniteSet(Existing) /\ vm' = vm /\ s \in Specs
  BY DEF Ceiling, ListAndPlan, TypeOK
<1>2. Existing' = Existing
  BY <1>1, SameMembers
<1>3. CASE InvalidAddressing(s) /\ pass' = [NoPass EXCEPT !.pc = "apply",
                           !.report = Report(views, s, "AddressRangeExhausted")]
  <2>1. pass'.create = <<>>
    BY <1>3, NothingType
  <2>2. 1..Len(pass'.create) = {}
    BY <2>1
  <2> QED BY <2>2 DEF Granted
<1>4. CASE /\ ~InvalidAddressing(s)
           /\ \E inputs \in {in} : \E decided \in {plan(inputs, views)} :
                 pass' = [NoPass EXCEPT !.pc = "apply", !.revision = pass.revision,
                           !.delete = decided.delete, !.create = decided.create,
                           !.report = Report(views, s, CapacityReason(decided))]
  <2>1. /\ Snapshot(views) /\ DOMAIN views = Existing
        /\ \A m \in Existing : views[m].address = vm[m].address
    BY <1>1, ViewsSnapshot
  <2>2. /\ Inputs(in)
        /\ \A a \in Nat : \A i \in DOMAIN in.ranges :
              in.ranges[i].lo <= a /\ a <= in.ranges[i].hi => IsListed(a)
        /\ DisjointRanges(in.ranges)
    BY <1>1, <1>4, PoolInputs
  <2>3. pass'.create = p.create
    BY <1>4, NothingType
  <2> HIDE DEF in, views
  <2>4. \A n \in 1..Len(p.create) : p.create[n] # NoAddress =>
           /\ \A m \in DOMAIN views : views[m].address # p.create[n]
           /\ p.create[n] \in Nat
           /\ \E i \in DOMAIN in.ranges :
                 in.ranges[i].lo <= p.create[n] /\ p.create[n] <= in.ranges[i].hi
           /\ \A k \in 1..Len(p.create) : p.create[n] = p.create[k] => n = k
    BY <2>1, <2>2, PlanGrants
  <2> HIDE DEF p
  <2>5. \A n \in 1..Len(p.create) : p.create[n] # NoAddress =>
           /\ IsListed(p.create[n])
           /\ \A m \in Existing : vm[m].address # p.create[n]
           /\ \A k \in 1..Len(p.create) : p.create[n] = p.create[k] => n = k
    BY <2>1, <2>2, <2>4
  <2> QED BY <1>1, <1>2, <2>3, <2>5 DEF Granted
<1> QED BY <1>3, <1>4 DEF ListAndPlan

\* A step that lets members go frees addresses and takes none.
LEMMA FewerSound ==
    ASSUME AddressesSound, Granted, OnlyFewer,
           pass'.pc = "apply" => pass.pc = "apply" /\ pass'.create = pass.create
    PROVE  AddressesSound' /\ Granted'
<1>1. Existing' \in SUBSET Existing /\ \A m \in Existing' : vm'[m].address = vm[m].address
  BY DEF OnlyFewer
<1>2. AddressesDistinct'
  BY <1>1 DEF AddressesSound, AddressesDistinct
<1>3. \A m \in Existing' : vm'[m].address # NoAddress => IsListed(vm'[m].address)
  BY <1>1 DEF AddressesSound, IsListed
<1>4. AddressesSound'
  BY <1>2, <1>3 DEF AddressesSound, IsListed
<1>5. Granted'
  BY <1>1 DEF Granted
<1> QED BY <1>4, <1>5

\* A new member takes the first address granted.
LEMMA CreateSound ==
    ASSUME TypeOK, AddressesSound, Granted, NEW m \in Members, CreateMember(m)
    PROVE  AddressesSound' /\ Granted'
<1> DEFINE A == Nat \cup {NoAddress}
           c == pass.create
           a == Head(c)
           o == [NoVm EXCEPT !.st = "live", !.revision = pass.revision, !.address = a]
<1>1. /\ pass.pc = "apply" /\ c # <<>> /\ vm[m].st = "absent"
      /\ vm' = [vm EXCEPT ![m] = o] /\ pass' = [pass EXCEPT !.create = Tail(c)]
  BY DEF CreateMember
<1>2. c \in Seq(A) /\ pass'.create = Tail(c)
  BY <1>1 DEF TypeOK
<1>3. o.st = "live" /\ o.address = a
  BY DEF NoVm
<1>4. /\ \A k \in Members : vm'[k] = IF k = m THEN o ELSE vm[k]
      /\ Existing' = Existing \cup {m} /\ m \notin Existing
  <2>1. \A k \in Members : vm'[k] = IF k = m THEN o ELSE vm[k]
    BY <1>1 DEF TypeOK
  <2>2. Existing' = {k \in Members : vm'[k].st # "absent"}
    BY DEF Existing
  <2> QED BY <1>1, <1>3, <2>1, <2>2 DEF Existing
<1> HIDE DEF o, A, c
<1>5. /\ Len(c) \in Nat /\ 1 \in 1..Len(c) /\ a = c[1]
      /\ Len(Tail(c)) = Len(c) - 1
      /\ \A i \in 1..Len(Tail(c)) : Tail(c)[i] = c[i + 1] /\ i + 1 \in 1..Len(c)
  BY <1>1, <1>2
<1> HIDE DEF a
<1>6. \A i \in 1..Len(c) : c[i] # NoAddress =>
         /\ IsListed(c[i]) /\ \A k \in Existing : vm[k].address # c[i]
         /\ \A j \in 1..Len(c) : c[i] = c[j] => i = j
  BY <1>1 DEF Granted, c
<1>7. \A k \in Existing' : vm'[k].address = IF k = m THEN a ELSE vm[k].address
  BY <1>3, <1>4 DEF Existing
<1>8. AddressesDistinct'
  <2> SUFFICES ASSUME NEW k \in Existing', NEW n \in Existing', k # n,
                      vm'[k].address # NoAddress
               PROVE  vm'[k].address # vm'[n].address
    BY DEF AddressesDistinct
  <2> QED BY <1>4, <1>5, <1>6, <1>7 DEF AddressesSound, AddressesDistinct
<1>9. \A k \in Existing' : vm'[k].address # NoAddress => IsListed(vm'[k].address)
  BY <1>4, <1>5, <1>6, <1>7 DEF AddressesSound, IsListed
<1>10. AddressesSound'
  BY <1>8, <1>9 DEF AddressesSound, IsListed
<1>11. ASSUME NEW i \in 1..Len(Tail(c)), Tail(c)[i] # NoAddress
       PROVE  /\ IsListed(Tail(c)[i])
              /\ \A k \in Existing' : vm'[k].address # Tail(c)[i]
              /\ \A j \in 1..Len(Tail(c)) : Tail(c)[i] = Tail(c)[j] => i = j
  <2>1. Tail(c)[i] = c[i + 1] /\ i + 1 \in 1..Len(c) /\ i + 1 # 1
    BY <1>5
  <2>2. c[i + 1] # a
    BY <1>5, <1>6, <1>11, <2>1
  <2>3. \A k \in Existing' : vm'[k].address # Tail(c)[i]
    BY <1>4, <1>6, <1>7, <1>11, <2>1, <2>2
  <2>4. ASSUME NEW j \in 1..Len(Tail(c)), Tail(c)[i] = Tail(c)[j] PROVE i = j
    <3>1. c[i + 1] = c[j + 1] /\ j + 1 \in 1..Len(c)
      BY <1>5, <2>1, <2>4
    <3>2. i + 1 = j + 1
      BY <1>6, <1>11, <2>1, <3>1
    <3> QED BY <1>5, <3>2
  <2>5. IsListed(Tail(c)[i])
    BY <1>6, <1>11, <2>1
  <2> QED BY <2>3, <2>4, <2>5
<1>12. Granted'
  BY <1>2, <1>11 DEF Granted
<1> QED BY <1>10, <1>12

\* Every step keeps the addresses sound.
LEMMA AddressStep ==
    ASSUME EntriesDisjoint, Ceiling, AddressesSound, Granted, [Next]_vars
    PROVE  AddressesSound' /\ Granted'
<1>0. TypeOK
  BY DEF Ceiling
<1>1. CASE GetImage
  <2>1. pass'.pc = "list" /\ vm' = vm
    BY <1>0, <1>1 DEF GetImage, TypeOK
  <2> QED BY <1>0, <2>1, SameMembers, FewerSound
<1>2. CASE ListAndPlan
  <2>1. vm' = vm /\ Granted'
    BY <1>2, PlanGranted DEF ListAndPlan
  <2> QED BY <1>0, <2>1, SameMembers DEF AddressesSound, AddressesDistinct
<1>3. CASE Publish \/ Abort
  <2>1. pass'.pc = "idle" /\ vm' = vm
    BY <1>3, NothingType DEF Publish, Abort
  <2> QED BY <1>0, <2>1, SameMembers, FewerSound
<1>4. ASSUME NEW m \in Members, DeleteMember(m) PROVE AddressesSound' /\ Granted'
  <2>1. OnlyFewer
    BY <1>0, <1>4, MemberFewer
  <2>2. pass.pc = "apply" /\ pass'.create = pass.create
    BY <1>0, <1>4 DEF DeleteMember, TypeOK
  <2> QED BY <2>1, <2>2, FewerSound
<1>5. ASSUME NEW m \in Members, CreateMember(m) PROVE AddressesSound' /\ Granted'
  BY <1>0, <1>5, CreateSound
<1>6. CASE RebuildImage \/ EditSpec \/ DeletePool \/ UNCHANGED vars
  <2>1. pass' = pass /\ vm' = vm
    BY <1>6 DEF RebuildImage, EditSpec, DeletePool, vars
  <2> QED BY <1>0, <2>1, SameMembers, FewerSound
<1>7. CASE Tick
  <2>1. OnlyFewer /\ pass' = pass
    BY <1>0, <1>7, TickFewer DEF Tick
  <2> QED BY <2>1, FewerSound
<1>8. ASSUME NEW m \in Members,
             \/ Provider(m) \/ Bind(m) \/ Release(m) \/ LoseReady(m) \/ Hang(m)
             \/ CollectMember(m)
      PROVE  AddressesSound' /\ Granted'
  <2>1. OnlyFewer
    BY <1>0, <1>8, MemberFewer
  <2>2. pass' = pass
    BY <1>8 DEF Provider, BecomeReady, Finish, Bind, Release, LoseReady, Hang, CollectMember
  <2> QED BY <2>1, <2>2, FewerSound
<1> QED BY <1>1, <1>2, <1>3, <1>4, <1>5, <1>6, <1>7, <1>8 DEF Next, PassStep, Apply

\* No two members of a pool ever hold one address, and none holds one that is not on
\* a list of the pool, provided no list names an address twice.
THEOREM PoolAddressesSound ==
    ASSUME EntriesDisjoint
    PROVE  Spec => []AddressesSound
<1>1. Init => Ceiling /\ AddressesSound /\ Granted
  <2> SUFFICES ASSUME Init PROVE Ceiling /\ AddressesSound /\ Granted
    OBVIOUS
  <2>1. Existing = {}
    BY NothingType DEF Init, Existing
  <2>2. AddressesSound
    BY <2>1 DEF AddressesSound, AddressesDistinct
  <2>3. Granted
    BY NothingType DEF Init, Granted
  <2> QED BY <2>2, <2>3, CeilingInit
<1>2. Ceiling /\ AddressesSound /\ Granted /\ [Next]_vars
      => Ceiling' /\ AddressesSound' /\ Granted'
  BY CeilingStep, AddressStep
<1> QED BY <1>1, <1>2, PTL DEF Spec
=============================================================================
