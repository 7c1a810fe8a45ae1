------------------------- MODULE BatchPlannerProofs -------------------------
(* Theorems of BatchPlanner, for every list of operations and every limit.  *)
EXTENDS BatchPlanner, Integers, TLAPS

LOCAL INSTANCE SequencesExt

WF == INSTANCE WellFoundedInduction

-----------------------------------------------------------------------------
(* Lists of consecutive operations.                                        *)

LEMMA RunSome ==
  ASSUME NEW i \in Nat, NEW j \in Nat, i <= j
  PROVE  /\ Run(i, j) \in Seq(Nat)
         /\ Len(Run(i, j)) = (j - i) + 1
         /\ Run(i, j) # << >>
         /\ Run(i, j)[Len(Run(i, j))] = j
BY DEF Run

LEMMA RunNone ==
  ASSUME NEW i \in Nat \ {0}
  PROVE  Run(i, i - 1) = << >> /\ Run(i + 1, i) = << >>
BY DEF Run

\* The open batch is empty or a run.
LEMMA RunOpen ==
  ASSUME NEW n \in Nat \ {0}, NEW f \in 1 .. n
  PROVE  /\ Run(f, n - 1) \in Seq(Nat)
         /\ Len(Run(f, n - 1)) = ((n - 1) - f) + 1
         /\ Run(f, n - 1) = << >> <=> f = n
BY DEF Run

\* Two adjacent runs make one.
LEMMA RunConcat ==
  ASSUME NEW i \in Nat, NEW h \in Nat \ {0}, NEW k \in Nat, i <= h, h <= k
  PROVE  Run(i, h - 1) \o Run(h, k) = Run(i, k)
BY DEF Run

-----------------------------------------------------------------------------
(* Plans.                                                                  *)

Plans == Seq([op_indices : Seq(Nat), oversized : BOOLEAN])

Extends(new, bs, b) == new = Append(bs, b)

\* A plan grows by a batch of the operations that follow its last one.
LEMMA PlanGrows ==
  ASSUME NEW bs \in Plans, GoodPlan(bs),
         NEW i \in Nat, i = End(bs, Len(bs)) + 1,
         NEW e \in Nat, i <= e,
         NEW b, b \in [op_indices : Seq(Nat), oversized : BOOLEAN], GoodBatch(b, i, e),
         NEW new, Extends(new, bs, b)
  PROVE  /\ new \in Plans
         /\ GoodPlan(new)
         /\ End(new, Len(new)) = e
<1>1. PICK n \in Nat : n = Len(bs)
  BY DEF Plans
<1>2. Run(i, e) \in Seq(Nat) /\ Run(i, e)[Len(Run(i, e))] = e
  BY RunSome
<1>3. b.op_indices = Run(i, e)
  BY DEF GoodBatch
<1>4. /\ new \in Plans
      /\ Len(new) = n + 1 /\ new[n + 1] = b
      /\ \A k \in 1 .. n : new[k] = bs[k]
  BY <1>1 DEF Plans, Extends
<1>5. \A k \in 0 .. n : End(new, k) = End(bs, k)
  BY <1>1, <1>4 DEF End
<1>6. End(new, n + 1) = e
  BY <1>1, <1>2, <1>3, <1>4 DEF End
<1>7. /\ \A k \in 1 .. n : GoodBatch(bs[k], End(bs, k - 1) + 1, End(bs, k))
      /\ \A k \in 0 .. n : End(bs, k) \in Nat
      /\ \A x, y \in 0 .. n : x < y => End(bs, x) < End(bs, y)
      /\ End(bs, n) < e
  BY <1>1 DEF GoodPlan
<1>8. ASSUME NEW k \in 1 .. n + 1
      PROVE  GoodBatch(new[k], End(new, k - 1) + 1, End(new, k))
  <2>1. CASE k = n + 1
    <3>1. k - 1 = n /\ n \in 0 .. n
      BY <2>1
    <3>2. End(new, k - 1) + 1 = i
      BY <1>1, <1>5, <3>1
    <3> QED BY <1>3, <1>4, <1>6, <2>1, <3>2
  <2>2. CASE k # n + 1
    <3>1. k \in 1 .. n /\ k \in 0 .. n /\ k - 1 \in 0 .. n
      BY <2>2
    <3> QED BY <1>4, <1>5, <1>7, <3>1
  <2> QED BY <2>1, <2>2
<1>9. ASSUME NEW k \in 0 .. n + 1
      PROVE  End(new, k) \in Nat
  <2>1. k \in 0 .. n \/ k = n + 1
    OBVIOUS
  <2> QED BY <1>5, <1>6, <1>7, <2>1
<1>10. ASSUME NEW x \in 0 .. n + 1, NEW y \in 0 .. n + 1, x < y
       PROVE  End(new, x) < End(new, y)
  <2>1. x \in 0 .. n /\ (y \in 0 .. n \/ y = n + 1) /\ (x = n \/ x < n) /\ n \in 0 .. n
    BY <1>10
  <2>2. CASE y = n + 1
    <3>1. /\ End(bs, x) \in Nat /\ End(bs, n) \in Nat
          /\ End(bs, x) = End(bs, n) \/ End(bs, x) < End(bs, n)
      BY <1>7, <2>1
    <3> QED BY <1>5, <1>6, <1>7, <2>1, <2>2, <3>1
  <2>3. CASE y \in 0 .. n
    BY <1>5, <1>7, <1>10, <2>1, <2>3
  <2> QED BY <2>1, <2>2, <2>3
<1> QED BY <1>4, <1>6, <1>8, <1>9, <1>10 DEF GoodPlan

-----------------------------------------------------------------------------
(* The scan.                                                               *)

LEMMA InitScan == Init => TypeOK /\ ScanInv
<1> SUFFICES ASSUME Init PROVE TypeOK /\ ScanInv
  OBVIOUS
<1>1. << >> \in Plans /\ << >> \in Seq(Nat)
  BY DEF Plans
<1>2. ops \in Seq(Operation) /\ max \in Nat \ {0} /\ Len(ops) \in Nat
  BY PlannerAssumption DEF Init
<1>3. 1 \in 1 .. Len(ops) + 1
  BY <1>2
<1>4. TypeOK
  BY <1>1, <1>2, <1>3 DEF Init, TypeOK, Plans
<1>5. End(batches, 0) = 0 /\ Len(batches) = 0 /\ next = 1
  BY DEF Init, End
<1>6. GoodPlan(batches)
  BY <1>5 DEF GoodPlan
<1>7. Run(1, 0) = << >>
  BY DEF Run
<1>8. OpenBatch
  BY <1>2, <1>5, <1>7 DEF Init, OpenBatch, Final, EndsUnit
<1> QED BY <1>4, <1>6, <1>8 DEF ScanInv

\* The operations and the limit do not change, so a good plan stays good.
LEMMA GoodPlanKept ==
  ASSUME ops' = ops, max' = max, GoodPlan(batches')
  PROVE  GoodPlan(batches)'
BY DEF GoodPlan, GoodBatch, Uniform, EndsUnit, Bounded, IsUnit, InGroup

\* A unit is of one kind, and no block definition goes on behind it.
LEMMA UnitEnds ==
  ASSUME TypeOK, ScanInv, NEW last \in next .. Len(ops), IsUnit(next, last)
  PROVE  /\ \A i \in next .. last : IsRelink(ops[i]) <=> IsRelink(ops[next])
         /\ EndsUnit(last)
<1>1. /\ next \in Nat \ {0} /\ last \in Nat /\ Len(ops) \in Nat
      /\ next <= last /\ last <= Len(ops)
  BY DEF TypeOK
<1>2. ~OpensGroup(ops[next]) => last = next
  BY DEF IsUnit
<1>3. OpensGroup(ops[next]) => \A k \in next + 1 .. last : AppendsTo(ops[k], ops[next].block)
  BY DEF IsUnit, InGroup
<1>4. ASSUME NEW i \in next .. last PROVE IsRelink(ops[i]) <=> IsRelink(ops[next])
  <2>1. CASE i = next
    BY <2>1
  <2>2. CASE i # next
    <3>1. i \in next + 1 .. last /\ last # next
      BY <1>1, <2>2
    <3>2. OpensGroup(ops[next]) /\ AppendsTo(ops[i], ops[next].block)
      BY <1>2, <1>3, <3>1
    <3> QED BY <3>2 DEF OpensGroup, AppendsTo, IsRelink
  <2> QED BY <2>1, <2>2
<1>5. ASSUME last < Len(ops), NEW g \in 1 .. last, InGroup(g, last + 1) PROVE FALSE
  <2>1. CASE g < next
    <3>1. InGroup(g, next)
      BY <1>1, <1>5, <2>1 DEF InGroup
    <3>2. next - 1 < Len(ops) /\ g \in 1 .. next - 1 /\ (next - 1) + 1 = next
      BY <1>1, <2>1
    <3> QED BY <3>1, <3>2 DEF ScanInv, OpenBatch, EndsUnit
  <2>2. CASE g = next
    BY <1>5, <2>2 DEF IsUnit, InGroup
  <2>3. CASE g > next
    <3>1. g \in next + 1 .. last /\ last # next
      BY <1>1, <2>3
    <3>2. AppendsTo(ops[g], ops[next].block)
      BY <1>2, <1>3, <3>1
    <3> QED BY <1>5, <3>2 DEF InGroup, OpensGroup, AppendsTo
  <2> QED BY <1>1, <2>1, <2>2, <2>3
<1> QED BY <1>4, <1>5 DEF EndsUnit

\* The closed batches and the open one, when the unit next .. last is placed.
LEMMA BeforeUnit ==
  ASSUME TypeOK, ScanInv, NEW last \in next .. Len(ops), IsUnit(next, last)
  PROVE  /\ ClosedBefore(next, last) \in Plans
         /\ GoodPlan(ClosedBefore(next, last))
         /\ \E i \in 1 .. next :
              /\ i = End(ClosedBefore(next, last), Len(ClosedBefore(next, last))) + 1
              /\ OpenBefore(next, last) = Run(i, next - 1)
              /\ \A a \in i .. next - 1 : IsRelink(ops[a]) <=> IsRelink(ops[next])
              /\ i < next => ((next - 1) - i) + 1 + Len(Run(next, last)) <= max
<1> DEFINE closed == ClosedBefore(next, last)
           open   == OpenBefore(next, last)
<1>1. PICK n \in Nat \ {0} : n = next
  BY DEF TypeOK
<1>2. /\ batches \in Plans /\ GoodPlan(batches) /\ Len(batches) \in Nat
      /\ Final(Len(batches)) \in Nat
  BY DEF TypeOK, ScanInv, GoodPlan, Plans, Final
<1>3. PICK f \in 1 .. n : f = Final(Len(batches)) + 1
  BY <1>1, <1>2 DEF ScanInv, OpenBatch
<1>4. /\ current = Run(f, n - 1)
      /\ \A a \in f .. n - 1 : IsRelink(ops[a]) <=> currentIsRelink
      /\ Len(current) <= max /\ EndsUnit(n - 1)
  BY <1>1, <1>3 DEF ScanInv, OpenBatch
<1>5. n - 1 \in Nat /\ f \in Nat /\ f <= (n - 1) + 1
  BY <1>1, <1>3
<1>6. Len(current) = ((n - 1) - f) + 1 /\ (current = << >> <=> f = n)
  BY <1>3, <1>4, RunOpen
<1>7. CASE ClosesBatch(next, last)
  <2>1. f <= n - 1 /\ f \in Nat
    BY <1>1, <1>3, <1>6, <1>7 DEF ClosesBatch
  <2>2. GoodBatch(Batch(current, FALSE), f, n - 1)
    BY <1>4 DEF GoodBatch, Batch, Uniform, Bounded
  <2>3. Extends(closed, batches, Batch(current, FALSE)) /\ open = << >>
    BY <1>7 DEF ClosedBefore, OpenBefore, Extends
  <2>4. closed \in Plans /\ GoodPlan(closed) /\ End(closed, Len(closed)) = n - 1
    <3>1. Batch(current, FALSE) \in [op_indices : Seq(Nat), oversized : BOOLEAN]
      BY DEF TypeOK, Batch
    <3>2. f = End(batches, Len(batches)) + 1
      BY <1>3 DEF Final
    <3> QED BY <1>2, <1>5, <2>1, <2>2, <2>3, <3>1, <3>2, PlanGrows
  <2>5. Run(n, n - 1) = << >> /\ n = (n - 1) + 1 /\ n \in 1 .. n
    BY <1>1, RunNone
  <2>6. /\ n \in 1 .. next
        /\ n = End(closed, Len(closed)) + 1
        /\ open = Run(n, next - 1)
        /\ \A a \in n .. next - 1 : IsRelink(ops[a]) <=> IsRelink(ops[next])
        /\ n < next => ((next - 1) - n) + 1 + Len(Run(next, last)) <= max
    <3> HIDE DEF closed, open
    <3>1. n = End(closed, Len(closed)) + 1
      BY <2>4
    <3>2. n \in 1 .. next /\ ~(n < next) /\ open = Run(n, next - 1)
      BY <1>1, <2>3, <2>5
    <3>3. \A a \in n .. next - 1 : IsRelink(ops[a]) <=> IsRelink(ops[next])
      BY <1>1
    <3> QED BY <3>1, <3>2, <3>3
  <2> QED BY <2>4, <2>6
<1>8. CASE ~ClosesBatch(next, last)
  <2>1. closed = batches /\ open = current
    BY <1>8 DEF ClosedBefore, OpenBefore
  <2>2. f < n => /\ IsRelink(ops[next]) <=> currentIsRelink
                 /\ Len(current) + Len(Run(next, last)) <= max
    <3>1. IsRelink(ops[next]) \in BOOLEAN /\ currentIsRelink \in BOOLEAN
      BY DEF IsRelink, TypeOK
    <3>2. Len(current) \in Int /\ Len(Run(next, last)) \in Int /\ max \in Int
      BY <1>1, RunSome DEF TypeOK
    <3> QED BY <1>1, <1>3, <1>6, <1>8, <3>1, <3>2 DEF ClosesBatch
  <2>3. \A a \in f .. n - 1 : IsRelink(ops[a]) <=> IsRelink(ops[next])
    BY <1>1, <1>3, <1>4, <2>2
  <2> QED BY <1>1, <1>2, <1>3, <1>4, <1>6, <2>1, <2>2, <2>3 DEF Final
<1> QED BY <1>7, <1>8

LEMMA UnitScan == TypeOK /\ ScanInv /\ PlaceUnit => TypeOK' /\ ScanInv'
<1> SUFFICES ASSUME TypeOK, ScanInv, PlaceUnit PROVE TypeOK' /\ ScanInv'
  OBVIOUS
<1>1. /\ ops' = ops /\ max' = max /\ planned' = planned /\ next <= Len(ops)
      /\ next \in Nat \ {0} /\ Len(ops) \in Nat /\ max \in Nat
  BY DEF PlaceUnit, After, TypeOK
<1>2. ~planned
  BY <1>1 DEF ScanInv, OpenBatch
<1>3. PICK last \in next .. Len(ops) :
        /\ IsUnit(next, last)
        /\ currentIsRelink' = IsRelink(ops[next])
        /\ IF Len(Run(next, last)) > max
           THEN /\ batches' = Append(ClosedBefore(next, last), Batch(Run(next, last), TRUE))
                /\ current' = << >>
           ELSE /\ batches' = ClosedBefore(next, last)
                /\ current' = OpenBefore(next, last) \o Run(next, last)
        /\ next' = last + 1
  BY DEF PlaceUnit, After
<1> DEFINE closed == ClosedBefore(next, last)
           open   == OpenBefore(next, last)
<1>4. last \in Nat /\ next <= last /\ last <= Len(ops) /\ last + 1 \in 1 .. Len(ops) + 1
      /\ next' - 1 = last
  BY <1>1, <1>3
<1>5. closed \in Plans /\ GoodPlan(closed)
  BY <1>3, BeforeUnit
<1>6. PICK i \in 1 .. next :
              /\ i = End(closed, Len(closed)) + 1
              /\ open = Run(i, next - 1)
              /\ \A a \in i .. next - 1 : IsRelink(ops[a]) <=> IsRelink(ops[next])
              /\ i < next => ((next - 1) - i) + 1 + Len(Run(next, last)) <= max
  BY <1>3, BeforeUnit
<1>7. /\ \A a \in next .. last : IsRelink(ops[a]) <=> IsRelink(ops[next])
      /\ EndsUnit(last)
  BY <1>3, UnitEnds
<1>8. Len(Run(next, last)) = (last - next) + 1 /\ Run(next, last) \in Seq(Nat)
  BY <1>1, <1>4, RunSome
<1>9. IsRelink(ops[next]) \in BOOLEAN
  BY DEF IsRelink
<1>11. EndsUnit(last)'
  BY <1>1, <1>7 DEF EndsUnit, InGroup
<1> HIDE DEF closed, open
<1> DEFINE Placed ==
      /\ batches' \in Plans /\ current' \in Seq(Nat) /\ GoodPlan(batches')
      /\ \E e \in 1 .. last + 1 :
           /\ e = End(batches', Len(batches')) + 1
           /\ current' = Run(e, last)
           /\ Len(current') <= max
           /\ \A a \in e .. last : IsRelink(ops[a]) <=> IsRelink(ops[next])
<1>12. ASSUME Len(Run(next, last)) > max PROVE Placed
  <2>1. i = next
    BY <1>1, <1>4, <1>6, <1>8, <1>12
  <2>2. GoodBatch(Batch(Run(next, last), TRUE), next, last)
    BY <1>3, <1>7, <1>12 DEF GoodBatch, Batch, Uniform, Bounded
  <2>3. Batch(Run(next, last), TRUE) \in [op_indices : Seq(Nat), oversized : BOOLEAN]
    BY <1>8 DEF Batch
  <2>4. batches' = Append(closed, Batch(Run(next, last), TRUE)) /\ current' = << >>
    BY <1>3, <1>12 DEF closed
  <2>5. next \in Nat /\ next = End(closed, Len(closed)) + 1
    BY <1>1, <1>6, <2>1
  <2>6. batches' \in Plans /\ GoodPlan(batches') /\ End(batches', Len(batches')) = last
    <3>1. last \in Nat /\ next <= last
      BY <1>4
    <3>2. PICK b \in [op_indices : Seq(Nat), oversized : BOOLEAN] :
            b = Batch(Run(next, last), TRUE)
      BY <2>3
    <3>3. GoodBatch(b, next, last)
      BY <2>2, <3>2
    <3>4. ASSUME NEW p, Extends(p, closed, b)
          PROVE  p \in Plans /\ GoodPlan(p) /\ End(p, Len(p)) = last
      BY <1>5, <2>5, <3>1, <3>3, <3>4, PlanGrows
    <3>5. Extends(batches', closed, b)
      BY <2>4, <3>2 DEF Extends
    <3> QED BY <3>4, <3>5
  <2>7. Run(last + 1, last) = << >> /\ last + 1 \in 1 .. last + 1
    BY <1>1, <1>4, RunNone
  <2>8. Len(current') <= max /\ current' \in Seq(Nat)
    BY <1>1, <2>4
  <2>9. last + 1 = End(batches', Len(batches')) + 1 /\ current' = Run(last + 1, last)
    BY <2>4, <2>6, <2>7
  <2>10. \A a \in last + 1 .. last : IsRelink(ops[a]) <=> IsRelink(ops[next])
    BY <1>4
  <2> QED BY <2>6, <2>7, <2>8, <2>9, <2>10
<1>13. ASSUME ~(Len(Run(next, last)) > max) PROVE Placed
  <2>1. i \in Nat /\ i <= next /\ i <= last /\ i \in 1 .. last + 1
    BY <1>1, <1>4, <1>6
  <2>2. open \o Run(next, last) = Run(i, last)
    BY <1>1, <1>4, <1>6, <2>1, RunConcat
  <2>3. Run(i, last) \in Seq(Nat) /\ Len(Run(i, last)) = (last - i) + 1
    BY <1>4, <2>1, RunSome
  <2>4. (last - i) + 1 <= max
    BY <1>1, <1>4, <1>6, <1>8, <1>13, <2>1
  <2>5. \A a \in i .. last : IsRelink(ops[a]) <=> IsRelink(ops[next])
    BY <1>1, <1>4, <1>6, <1>7, <2>1
  <2>6. batches' = closed /\ current' = Run(i, last)
    BY <1>3, <1>13, <2>2 DEF closed, open
  <2>7. i = End(closed, Len(closed)) + 1
    BY <1>6
  <2> QED BY <1>5, <2>1, <2>3, <2>4, <2>5, <2>6, <2>7
<1>14. PICK e \in 1 .. last + 1 :
         /\ e = End(batches', Len(batches')) + 1
         /\ current' = Run(e, last)
         /\ Len(current') <= max
         /\ \A a \in e .. last : IsRelink(ops[a]) <=> IsRelink(ops[next])
  BY <1>12, <1>13
<1>15. batches' \in Plans /\ current' \in Seq(Nat) /\ GoodPlan(batches')
  BY <1>12, <1>13
<1>16. GoodPlan(batches)'
  BY <1>1, <1>15, GoodPlanKept
<1>17. Final(Len(batches))' \in Nat /\ Final(Len(batches))' = e - 1
  <2>1. Len(batches') \in Nat
    BY <1>15 DEF Plans
  <2>2. End(batches', Len(batches')) \in Nat
    BY <1>15, <2>1 DEF GoodPlan
  <2> QED BY <1>14, <2>2 DEF Final
<1>18. OpenBatch'
  <2>1. (e - 1) + 1 = e /\ e - 1 < last + 1
    OBVIOUS
  <2> QED BY <1>1, <1>2, <1>3, <1>4, <1>11, <1>14, <1>17, <2>1 DEF OpenBatch
<1>19. TypeOK'
  BY <1>1, <1>3, <1>4, <1>9, <1>15 DEF TypeOK, Plans
<1> QED BY <1>16, <1>18, <1>19 DEF ScanInv

LEMMA ReturnScan == TypeOK /\ ScanInv /\ Return => TypeOK' /\ ScanInv'
<1> SUFFICES ASSUME TypeOK, ScanInv, Return PROVE TypeOK' /\ ScanInv'
  OBVIOUS
<1>1. /\ ops' = ops /\ max' = max /\ next' = next /\ currentIsRelink' = currentIsRelink
      /\ planned' = TRUE /\ current' = << >>
      /\ batches' = IF current = << >> THEN batches ELSE Append(batches, Batch(current, FALSE))
  BY DEF Return
<1>2. PICK n \in Nat \ {0} : n = next /\ n = Len(ops) + 1 /\ n - 1 \in Nat
  BY DEF Return, TypeOK
<1>3. /\ batches \in Plans /\ GoodPlan(batches) /\ Final(Len(batches)) \in Nat
  BY DEF TypeOK, ScanInv, GoodPlan, Plans, Final
<1>4. PICK f \in 1 .. n : f = Final(Len(batches)) + 1
  BY <1>2, <1>3 DEF ScanInv, OpenBatch
<1>5. /\ current = Run(f, n - 1)
      /\ \A a \in f .. n - 1 : IsRelink(ops[a]) <=> currentIsRelink
      /\ Len(current) <= max /\ EndsUnit(n - 1)
  BY <1>2, <1>4 DEF ScanInv, OpenBatch
<1>6. Run(n, n - 1) = << >> /\ (current = << >> <=> f = n)
  BY <1>2, <1>4, <1>5, RunNone, RunOpen
<1>7. batches' \in Plans /\ GoodPlan(batches') /\ End(batches', Len(batches')) = n - 1
  <2>1. CASE current = << >>
    BY <1>1, <1>2, <1>3, <1>4, <1>6, <2>1 DEF Final
  <2>2. CASE current # << >>
    <3>1. f <= n - 1 /\ f \in Nat
      BY <1>2, <1>4, <1>6, <2>2
    <3>2. GoodBatch(Batch(current, FALSE), f, n - 1)
      BY <1>5 DEF GoodBatch, Batch, Uniform, Bounded
    <3>3. Batch(current, FALSE) \in [op_indices : Seq(Nat), oversized : BOOLEAN]
      BY DEF TypeOK, Batch
    <3>4. f = End(batches, Len(batches)) + 1
      BY <1>4 DEF Final
    <3>5. n - 1 \in Nat /\ GoodPlan(batches) /\ batches \in Plans
      BY <1>2, <1>3
    <3>6. ASSUME NEW p, Extends(p, batches, Batch(current, FALSE))
          PROVE  p \in Plans /\ GoodPlan(p) /\ End(p, Len(p)) = n - 1
      BY <3>1, <3>2, <3>3, <3>4, <3>5, <3>6, PlanGrows
    <3>7. Extends(batches', batches, Batch(current, FALSE))
      BY <1>1, <2>2 DEF Extends
    <3> QED BY <3>6, <3>7
  <2> QED BY <2>1, <2>2
<1>8. GoodPlan(batches)'
  BY <1>1, <1>7, GoodPlanKept
<1>9. EndsUnit(next - 1)'
  BY <1>1, <1>2, <1>5 DEF EndsUnit, InGroup
<1>10. OpenBatch'
  <2>1. n - 1 < n /\ (n - 1) + 1 = n /\ Len(<< >>) <= max
    BY <1>2 DEF TypeOK
  <2>2. Final(Len(batches))' = n - 1
    BY <1>7 DEF Final
  <2>3. \A i \in n .. n - 1 : IsRelink(ops'[i]) <=> currentIsRelink'
    OBVIOUS
  <2> QED BY <1>1, <1>2, <1>6, <1>9, <2>1, <2>2, <2>3 DEF OpenBatch
<1>11. TypeOK'
  <2>1. << >> \in Seq(Nat)
    OBVIOUS
  <2> QED BY <1>1, <1>7, <2>1 DEF TypeOK, Plans
<1> QED BY <1>8, <1>10, <1>11 DEF ScanInv

LEMMA NextScan == TypeOK /\ ScanInv /\ [Next]_vars => TypeOK' /\ ScanInv'
<1>1. TypeOK /\ ScanInv /\ UNCHANGED vars => TypeOK' /\ ScanInv'
  BY DEF vars, TypeOK, ScanInv, OpenBatch, GoodPlan, GoodBatch, Uniform, EndsUnit, Bounded,
    IsUnit, InGroup, Final
<1> QED BY <1>1, UnitScan, ReturnScan DEF Next, Done

\* The invariant of the scan, for every list of operations and every limit.
THEOREM ScanCorrect == Spec => [](TypeOK /\ ScanInv)
BY InitScan, NextScan, PTL DEF Spec

\* A finished plan is one the write lane may assume: PlanAssumption of WriteBatch
\* holds of it.
THEOREM PlansFitTheLane == Spec => []PlanFitsLane
<1>1. TypeOK /\ ScanInv => PlanFitsLane
  <2> SUFFICES ASSUME TypeOK, ScanInv, planned
               PROVE  Consecutive /\ Final(Len(batches)) = Len(ops)
    BY DEF PlanFitsLane
  <2>1. Consecutive
    BY DEF ScanInv, GoodPlan, GoodBatch, Consecutive, Final, First, Indices
  <2>2. PICK n \in Nat : n = Len(ops)
    BY DEF TypeOK
  <2>3. Len(batches) \in Nat /\ Final(Len(batches)) \in Nat
    BY DEF TypeOK, ScanInv, GoodPlan, Final
  <2>4. /\ Final(Len(batches)) + 1 \in 1 .. n + 1
        /\ Run(Final(Len(batches)) + 1, (n + 1) - 1) = << >>
    BY <2>2, <2>3 DEF ScanInv, OpenBatch
  <2>5. Final(Len(batches)) + 1 = n + 1
    <3>1. PICK m \in Nat \ {0} : m = n + 1
      OBVIOUS
    <3>2. PICK f \in 1 .. m : f = Final(Len(batches)) + 1
      BY <2>4, <3>1
    <3>3. Run(f, m - 1) = << >>
      BY <2>4, <3>1, <3>2
    <3>4. f = m
      BY <3>3, RunOpen
    <3> QED BY <3>1, <3>2, <3>4
  <2> QED BY <2>1, <2>2, <2>3, <2>5
<1> QED BY ScanCorrect, <1>1, PTL

\* No batch ends inside a block definition.
THEOREM GroupsStayWhole == Spec => []GroupsWhole
<1>1. ScanInv => GroupsWhole
  BY DEF ScanInv, GroupsWhole, GoodPlan, GoodBatch, Final
<1> QED BY ScanCorrect, <1>1, PTL

\* Relinks are in strictly later batches than the appends before them.
THEOREM RelinksWaitForAppends == Spec => []RelinksWait
<1>1. ScanInv => RelinksWait
  BY DEF ScanInv, RelinksWait, GoodPlan, GoodBatch, Final, First
<1> QED BY ScanCorrect, <1>1, PTL

\* Only single units exceed max_ops_per_batch, and they are flagged.
THEOREM BatchesStayBounded == Spec => []BatchesBounded
<1>1. ScanInv => BatchesBounded
  BY DEF ScanInv, BatchesBounded, GoodPlan, GoodBatch, Final, First
<1> QED BY ScanCorrect, <1>1, PTL

-----------------------------------------------------------------------------
(* What validate_plan compares with the patch.                             *)

\* The equation of FlattenSeq: value i is the first i lists, one after the other.
Flattened(seqs, f) == [i \in 1 .. Len(seqs) |-> IF i = 1 THEN seqs[i] ELSE f[i - 1] \o seqs[i]]

\* A set of natural numbers has a least member.
LEMMA LeastMember ==
  ASSUME NEW T, T \subseteq Nat, T # {}
  PROVE  \E x \in T : \A y \in T : ~(y < x)
<1> DEFINE R == {p \in Nat \X Nat : p[1] < p[2]}
<1>1. WF!IsWellFoundedOn(R, Nat)
  BY WF!NatLessThanWellFounded, Zenon DEF WF!OpToRel
<1> HIDE DEF R
<1>2. \E x \in T : \A y \in T : ~(<<y, x>> \in R)
  BY <1>1, WF!WFMin, Zenon
<1>3. \A x, y \in Nat : y < x => <<y, x>> \in R
  BY DEF R
<1> QED BY <1>2, <1>3

\* The equation has at most one solution.
LEMMA FlattenedOnce ==
  ASSUME NEW seqs, NEW n \in Nat, Len(seqs) = n,
         NEW f, f = Flattened(seqs, f), NEW h, h = Flattened(seqs, h)
  PROVE  f = h
<1>1. /\ \A i \in 1 .. n : f[i] = IF i = 1 THEN seqs[i] ELSE f[i - 1] \o seqs[i]
      /\ f = [i \in 1 .. n |-> f[i]]
  BY DEF Flattened
<1>2. /\ \A i \in 1 .. n : h[i] = IF i = 1 THEN seqs[i] ELSE h[i - 1] \o seqs[i]
      /\ h = [i \in 1 .. n |-> h[i]]
  BY DEF Flattened
<1> DEFINE T == {i \in 1 .. n : f[i] # h[i]}
<1>3. T = {}
  <2>0. SUFFICES ASSUME T # {} PROVE FALSE
    OBVIOUS
  <2>1. PICK x \in T : \A y \in T : ~(y < x)
    <3>1. T \subseteq Nat
      OBVIOUS
    <3> HIDE DEF T
    <3> QED BY <2>0, <3>1, LeastMember
  <2>2. x # 1 /\ x - 1 \in 1 .. n /\ x - 1 < x
    <3>1. x \in 1 .. n /\ f[x] # h[x]
      BY <2>1
    <3>2. x # 1
      BY <1>1, <1>2, <3>1
    <3> QED BY <3>1, <3>2
  <2>3. f[x - 1] = h[x - 1]
    BY <2>1, <2>2
  <2>4. x \in 1 .. n /\ f[x] # h[x]
    BY <2>1
  <2>5. f[x] = f[x - 1] \o seqs[x] /\ h[x] = h[x - 1] \o seqs[x]
    BY <1>1, <1>2, <2>2, <2>4
  <2> QED BY <2>3, <2>4, <2>5
<1>4. \A i \in 1 .. n : f[i] = h[i]
  BY <1>3
<1> QED BY <1>1, <1>2, <1>4

\* What solves the equation says what FlattenSeq returns.
LEMMA FlattenSolved ==
  ASSUME NEW seqs, NEW n \in Nat \ {0}, Len(seqs) = n, NEW h, h = Flattened(seqs, h)
  PROVE  FlattenSeq(seqs) = h[n]
<1> DEFINE f == CHOOSE g : g = Flattened(seqs, g)
<1>1. FlattenSeq(seqs) = f[n]
  BY DEF FlattenSeq, Flattened
<1>2. f = Flattened(seqs, f)
  OBVIOUS
<1> HIDE DEF f
<1>3. f = h
  BY <1>2, FlattenedOnce
<1> QED BY <1>1, <1>3

\* The batches hold the operations up to the last one, each once and in order.
LEMMA BatchesInOrder ==
  ASSUME TypeOK, ScanInv
  PROVE  FlattenSeq([k \in 1 .. Len(batches) |-> Indices(k)]) = Run(1, Final(Len(batches)))
<1> DEFINE nb == Len(batches)
           seqs == [k \in 1 .. nb |-> Indices(k)]
           h == [k \in 1 .. nb |-> Run(1, Final(k))]
<1>1. nb \in Nat /\ Final(0) = 0
  BY DEF TypeOK, Final, End
<1>2. \A k \in 0 .. nb : Final(k) \in Nat
  BY DEF ScanInv, GoodPlan, Final
<1>3. \A k \in 1 .. nb : Indices(k) = Run(Final(k - 1) + 1, Final(k)) /\ Final(k - 1) < Final(k)
  <2>1. \A k \in 1 .. nb : k \in 0 .. nb /\ k - 1 \in 0 .. nb /\ k - 1 < k
    BY <1>1
  <2> QED BY <2>1 DEF ScanInv, GoodPlan, GoodBatch, Final, Indices
<1>4. Len(seqs) = nb
  BY <1>1
<1> HIDE DEF nb
<1>5. CASE nb = 0
  <2>1. seqs = << >> /\ Run(1, 0) = << >>
    BY <1>5 DEF Run
  <2>2. FlattenSeq(<< >>) = << >>
    BY DEF FlattenSeq
  <2> QED BY <1>1, <1>5, <2>1, <2>2 DEF nb
<1>6. CASE nb # 0
  <2>1. ASSUME NEW k \in 1 .. nb
        PROVE  h[k] = IF k = 1 THEN seqs[k] ELSE h[k - 1] \o seqs[k]
    <3>1. CASE k = 1
      BY <1>1, <1>3, <3>1
    <3>2. CASE k # 1
      <4>1. k - 1 \in 1 .. nb /\ k - 1 \in 0 .. nb /\ k \in 0 .. nb /\ k - 1 - 1 \in 0 .. nb
        BY <1>1, <3>2
      <4>2. h[k - 1] = Run(1, Final(k - 1)) /\ seqs[k] = Run(Final(k - 1) + 1, Final(k))
        BY <1>3, <4>1
      <4>3. /\ Final(k - 1) \in Nat /\ Final(k) \in Nat /\ 1 <= Final(k - 1)
            /\ Final(k - 1) + 1 <= Final(k)
        <5>1. Final(k - 1 - 1) \in Nat /\ Final(k - 1 - 1) < Final(k - 1)
          BY <1>2, <1>3, <4>1
        <5> QED BY <1>2, <1>3, <4>1, <5>1
      <4>4. Run(1, Final(k - 1)) \o Run(Final(k - 1) + 1, Final(k)) = Run(1, Final(k))
        <5>1. PICK m \in Nat : m = Final(k - 1)
          BY <4>3
        <5>2. m + 1 - 1 = m /\ 1 <= m + 1 /\ m + 1 \in Nat \ {0}
          OBVIOUS
        <5>3. PICK e \in Nat : e = Final(k)
          BY <4>3
        <5>4. Run(1, m + 1 - 1) \o Run(m + 1, e) = Run(1, e)
          <6>1. 1 \in Nat /\ m + 1 \in Nat \ {0} /\ 1 <= m + 1 /\ m + 1 <= e
            BY <4>3, <5>1, <5>3
          <6> DEFINE q == m + 1
          <6>2. 1 \in Nat /\ q \in Nat \ {0} /\ 1 <= q /\ q <= e
            BY <6>1
          <6> HIDE DEF q
          <6>3. Run(1, q - 1) \o Run(q, e) = Run(1, e)
            BY <6>2, RunConcat
          <6> QED BY <6>3 DEF q
        <5> QED BY <5>1, <5>2, <5>3, <5>4
      <4> QED BY <3>2, <4>2, <4>4
    <3> QED BY <3>1, <3>2
  <2>2. h = Flattened(seqs, h)
    <3>1. [k \in 1 .. nb |-> h[k]]
            = [k \in 1 .. nb |-> IF k = 1 THEN seqs[k] ELSE h[k - 1] \o seqs[k]]
      BY <2>1
    <3> QED BY <1>4, <3>1 DEF Flattened
  <2>3. nb \in Nat \ {0} /\ h[nb] = Run(1, Final(nb))
    BY <1>1, <1>6
  <2> HIDE DEF h, seqs
  <2>4. FlattenSeq(seqs) = h[nb]
    BY <1>4, <2>2, <2>3, FlattenSolved
  <2> QED BY <2>3, <2>4 DEF nb, seqs
<1> QED BY <1>5, <1>6

\* execute_write_batches accepts what plan_batches made: no index is missing or out of
\* order, no block definition is split and no relink shares a batch with another kind.
THEOREM PlansAreAccepted == Spec => []ValidatorAccepts
<1>1. TypeOK /\ ScanInv /\ PlanFitsLane => ValidatorAccepts
  <2> SUFFICES ASSUME TypeOK, ScanInv, PlanFitsLane, planned PROVE ValidPlan
    BY DEF ValidatorAccepts
  <2>1. /\ Final(Len(batches)) = Len(ops) /\ Len(batches) \in Nat /\ Len(ops) \in Nat
        /\ Final(0) = 0
    BY DEF PlanFitsLane, TypeOK, Final, End
  <2>2. ASSUME NEW k \in 1 .. Len(batches)
        PROVE  /\ Final(k) \in Nat /\ Final(k - 1) \in Nat /\ Final(k - 1) < Final(k)
               /\ Uniform(First(k), Final(k)) /\ EndsUnit(Final(k))
               /\ k # 1 => EndsUnit(Final(k - 1))
               /\ \A i \in Nat : Holds(k, i) <=> First(k) <= i /\ i <= Final(k)
    <3>1. k \in 0 .. Len(batches) /\ k - 1 \in 0 .. Len(batches) /\ k - 1 < k
          /\ (k # 1 => k - 1 \in 1 .. Len(batches))
      BY <2>1
    <3>2. Final(k) \in Nat /\ Final(k - 1) \in Nat /\ Final(k - 1) < Final(k)
      BY <3>1 DEF ScanInv, GoodPlan, Final
    <3>3. /\ Uniform(First(k), Final(k)) /\ EndsUnit(Final(k))
          /\ k # 1 => EndsUnit(Final(k - 1))
          /\ Indices(k) = Run(First(k), Final(k))
      BY <3>1 DEF ScanInv, GoodPlan, GoodBatch, Final, First, Indices
    <3>4. \A i \in Nat : Holds(k, i) <=> First(k) <= i /\ i <= Final(k)
      <4> DEFINE a == First(k)
                 b == Final(k)
      <4>1. a \in Nat /\ b \in Nat /\ a <= b
        BY <3>2 DEF First
      <4>2. \A i \in Nat : Holds(k, i) <=> \E m \in DOMAIN Run(a, b) : Run(a, b)[m] = i
        BY <3>3 DEF Holds
      <4> HIDE DEF a, b
      <4>3. DOMAIN Run(a, b) = 1 .. (b - a) + 1 /\ \A m \in 1 .. (b - a) + 1 : Run(a, b)[m] = a + m - 1
        BY DEF Run
      <4>4. ASSUME NEW i \in Nat, a <= i, i <= b
            PROVE  \E m \in 1 .. (b - a) + 1 : a + m - 1 = i
        <5>1. i - a + 1 \in 1 .. (b - a) + 1 /\ a + (i - a + 1) - 1 = i
          BY <4>1, <4>4
        <5> QED BY <5>1
      <4>5. \A i \in Nat : (\E m \in 1 .. (b - a) + 1 : a + m - 1 = i) => a <= i /\ i <= b
        BY <4>1
      <4>6. \A i \in Nat : Holds(k, i) <=> \E m \in 1 .. (b - a) + 1 : a + m - 1 = i
        BY <4>2, <4>3
      <4>7. \A i \in Nat : Holds(k, i) <=> a <= i /\ i <= b
        BY <4>4, <4>5, <4>6
      <4> QED BY <4>7 DEF a, b
    <3> QED BY <3>2, <3>3, <3>4
  <2>3. FlattenSeq([k \in 1 .. Len(batches) |-> Indices(k)]) = Run(1, Len(ops))
    BY <2>1, BatchesInOrder
  <2>4. ASSUME NEW i \in 1 .. Len(ops), NEW j \in 1 .. Len(ops), i < j, InGroup(i, j),
               NEW k \in 1 .. Len(batches)
        PROVE  Holds(k, i) <=> Holds(k, j)
    <3>1. ASSUME NEW e \in Nat, i <= e, e < j PROVE ~EndsUnit(e)
      <4>1. InGroup(i, e + 1)
        <5>1. \A x \in i + 1 .. e + 1 : x \in i + 1 .. j
          BY <3>1
        <5> QED BY <2>4, <5>1 DEF InGroup
      <4>2. i \in 1 .. e /\ e < Len(ops)
        BY <2>1, <3>1
      <4> QED BY <4>1, <4>2 DEF EndsUnit
    <3>2. ~(i <= Final(k) /\ Final(k) < j)
      BY <2>2, <3>1
    <3>3. ~(i <= Final(k - 1) /\ Final(k - 1) < j)
      <4>1. CASE k = 1
        BY <2>1, <4>1
      <4>2. CASE k # 1
        BY <2>2, <3>1, <4>2
      <4> QED BY <4>1, <4>2
    <3>4. /\ Holds(k, i) <=> Final(k - 1) + 1 <= i /\ i <= Final(k)
          /\ Holds(k, j) <=> Final(k - 1) + 1 <= j /\ j <= Final(k)
      BY <2>1, <2>2 DEF First
    <3>5. Final(k) \in Nat /\ Final(k - 1) \in Nat /\ i \in Nat /\ j \in Nat
      BY <2>1, <2>2
    <3> QED BY <2>4, <3>2, <3>3, <3>4, <3>5
  <2>5. ASSUME NEW k \in 1 .. Len(batches), NEW i \in 1 .. Len(ops), NEW j \in 1 .. Len(ops),
               Holds(k, i), Holds(k, j)
        PROVE  IsRelink(ops[i]) <=> IsRelink(ops[j])
    <3>1. i \in First(k) .. Final(k) /\ j \in First(k) .. Final(k)
      <4>1. First(k) \in Nat /\ Final(k) \in Nat /\ i \in Nat /\ j \in Nat
        BY <2>1, <2>2 DEF First
      <4> QED BY <2>2, <2>5, <4>1
    <3> QED BY <2>2, <3>1 DEF Uniform
  <2> QED BY <2>3, <2>4, <2>5 DEF ValidPlan
<1> QED BY ScanCorrect, PlansFitTheLane, <1>1, PTL
=============================================================================
