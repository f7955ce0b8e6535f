---------------------------- MODULE DocumentsProofs ----------------------------
(***************************************************************************)
(* The amounts of a document, for every batch of payloads the DTOs let     *)
(* through: sums over any number of lines, any prices, quantities,         *)
(* discounts and retentions.                                               *)
(***************************************************************************)
EXTENDS Documents, FiniteSetTheorems, SequenceTheorems, WellFoundedInduction, TLAPS

(* Sums *)

\* A set of numbers that is not empty has a least one: the induction on sizes of
\* the lemmas below.
LEMMA LeastNumber ==
  ASSUME NEW T \in SUBSET Nat, T # {}
  PROVE  \E n \in T : \A m \in T : n <= m
  <1>1. PICK n \in T : \A m \in T : ~(<<m, n>> \in OpToRel(<, Nat))
    BY NatLessThanWellFounded, WFMin
  <1>2. ASSUME NEW m \in T PROVE n <= m
    <2>1. ~(m < n)
      BY <1>1 DEF OpToRel
    <2> QED
      BY <2>1
  <1> QED
    BY <1>2

\* A subset is smaller by one without one of its elements.
LEMMA OneLess ==
  ASSUME NEW S, IsFiniteSet(S), NEW s \in SUBSET S, NEW x \in s
  PROVE  /\ Cardinality(s) \in Nat /\ Cardinality(s \ {x}) \in Nat
         /\ Cardinality(s \ {x}) = Cardinality(s) - 1
  BY FS_Subset, FS_RemoveElement, FS_CardinalityType

\* The step of the fold in MapThenSumSet, with f for the values.
Step(f, s, g) == IF s = {} THEN 0
                 ELSE LET x == CHOOSE x \in s : TRUE IN f[x] + g[s \ {x}]
Folds(f, S, g) == g = [s \in SUBSET S |-> Step(f, s, g)]

\* The recursive function of the fold exists for a finite set.
LEMMA FoldExists ==
  ASSUME NEW S, IsFiniteSet(S), NEW f
  PROVE  \E g : Folds(f, S, g)
  <1> DEFINE Upto(n, g) == \A s \in SUBSET S : Cardinality(s) <= n => g[s] = Step(f, s, g)
             Bad == {n \in Nat : ~\E g : Upto(n, g)}
  <1>1. \A s \in SUBSET S : Cardinality(s) \in Nat
    BY FS_Subset, FS_CardinalityType
  <1>2. Bad = {}
    <2> SUFFICES ASSUME Bad # {} PROVE FALSE
      OBVIOUS
    <2>1. PICK n \in Bad : \A m \in Bad : n <= m
      BY LeastNumber
    <2>2. CASE n = 0
      <3> DEFINE g == [s \in SUBSET S |-> 0]
      <3>1. ASSUME NEW s \in SUBSET S, Cardinality(s) <= 0 PROVE s = {}
        BY <1>1, <3>1, FS_Subset, FS_EmptySet
      <3>2. Upto(0, g)
        BY <3>1 DEF Step
      <3> QED
        BY <2>1, <2>2, <3>2
    <2>3. CASE n # 0
      <3>1. n - 1 \in Nat /\ n - 1 \notin Bad
        BY <2>1, <2>3
      <3>2. PICK g : Upto(n - 1, g)
        BY <3>1
      <3> DEFINE h == [s \in SUBSET S |->
                         IF Cardinality(s) <= n - 1 THEN g[s] ELSE Step(f, s, g)]
      <3>3. ASSUME NEW s \in SUBSET S, Cardinality(s) <= n PROVE h[s] = Step(f, s, h)
        <4>1. h[s] = Step(f, s, g)
          BY <3>2
        <4>2. CASE s = {}
          BY <4>1, <4>2 DEF Step
        <4>3. CASE s # {}
          <5> DEFINE x == CHOOSE x \in s : TRUE
          <5>1. x \in s
            BY <4>3
          <5>2. \A y \in s : /\ Cardinality(s) \in Nat
                             /\ Cardinality(s \ {y}) = Cardinality(s) - 1
            BY OneLess
          <5>3. s \ {x} \in SUBSET S /\ Cardinality(s \ {x}) <= n - 1
            <6> HIDE DEF x
            <6>1. Cardinality(s) \in Nat /\ n \in Nat
              BY <1>1
            <6> QED
              BY <3>3, <5>1, <5>2, <6>1
          <5>4. h[s \ {x}] = g[s \ {x}]
            BY <5>3
          <5> QED
            BY <4>1, <4>3, <5>4 DEF Step
        <4> QED
          BY <4>2, <4>3
      <3>4. Upto(n, h)
        BY <3>3
      <3> QED
        BY <2>1, <3>4
    <2> QED
      BY <2>2, <2>3
  <1>3. PICK g : Upto(Cardinality(S), g)
    BY <1>1, <1>2
  <1>4. ASSUME NEW s \in SUBSET S PROVE Cardinality(s) <= Cardinality(S)
    BY FS_Subset
  <1> DEFINE h == [s \in SUBSET S |-> g[s]]
  <1>5. ASSUME NEW s \in SUBSET S PROVE h[s] = Step(f, s, h)
    <2>1. h[s] = Step(f, s, g)
      BY <1>3, <1>4
    <2>2. CASE s = {}
      BY <2>1, <2>2 DEF Step
    <2>3. CASE s # {}
      <3> DEFINE x == CHOOSE x \in s : TRUE
      <3>1. h[s \ {x}] = g[s \ {x}]
        OBVIOUS
      <3> QED
        BY <2>1, <2>3, <3>1 DEF Step
    <2> QED
      BY <2>2, <2>3
  <1>6. h = [s \in SUBSET S |-> Step(f, s, h)]
    BY <1>5
  <1> QED
    BY <1>6 DEF Folds

\* The same equations, for a function that may have a larger domain.
Adds(f, S, g) == \A s \in SUBSET S : g[s] = Step(f, s, g)

\* The sum of f over S.
Sum(f, S) == MapThenSumSet(LAMBDA x : f[x], S)

LEMMA SumAdds ==
  ASSUME NEW S, IsFiniteSet(S), NEW f
  PROVE  \E g : Adds(f, S, g) /\ Sum(f, S) = g[S]
  <1> DEFINE g == CHOOSE e : e = [s \in SUBSET S |-> Step(f, s, e)]
  <1>1. Folds(f, S, g)
    BY FoldExists DEF Folds
  <1>2. Sum(f, S) = g[S]
    BY DEF Sum, MapThenSumSet, MapThenFoldSet, Step
  <1>3. Adds(f, S, g)
    BY <1>1 DEF Adds, Folds
  <1> QED
    BY <1>2, <1>3

LEMMA SumUnique ==
  ASSUME NEW S, IsFiniteSet(S), NEW f, NEW e, NEW g, NEW h, \A x \in S : e[x] = f[x],
         Adds(e, S, g), Adds(f, S, h)
  PROVE  g[S] = h[S]
  <1> DEFINE Bad == {n \in Nat : \E s \in SUBSET S : Cardinality(s) = n /\ g[s] # h[s]}
  <1>1. Bad = {}
    <2> SUFFICES ASSUME Bad # {} PROVE FALSE
      OBVIOUS
    <2>1. PICK n \in Bad : \A m \in Bad : n <= m
      BY LeastNumber
    <2>2. PICK s \in SUBSET S : Cardinality(s) = n /\ g[s] # h[s]
      BY <2>1
    <2>3. s # {}
      BY <2>2 DEF Adds, Step
    <2> DEFINE x == CHOOSE x \in s : TRUE
    <2>4. x \in s
      BY <2>3
    <2>5. g[s \ {x}] = h[s \ {x}]
      <3>1. /\ Cardinality(s) \in Nat
            /\ \A y \in s : Cardinality(s \ {y}) = Cardinality(s) - 1 /\ Cardinality(s \ {y}) \in Nat
        BY <2>4, OneLess
      <3> HIDE DEF x
      <3>2. Cardinality(s \ {x}) = n - 1 /\ n - 1 \in Nat
        BY <2>2, <2>4, <3>1
      <3> QED
        BY <2>1, <3>2
    <2>6. g[s] = e[x] + g[s \ {x}] /\ h[s] = f[x] + h[s \ {x}]
      BY <2>3 DEF Adds, Step
    <2> QED
      BY <2>2, <2>4, <2>5, <2>6
  <1>2. Cardinality(S) \in Nat
    BY FS_CardinalityType
  <1> QED
    BY <1>1, <1>2

LEMMA SumIs ==
  ASSUME NEW S, IsFiniteSet(S), NEW f, NEW g, Adds(f, S, g)
  PROVE  g[S] = Sum(f, S)
  <1>1. PICK h : Adds(f, S, h) /\ Sum(f, S) = h[S]
    BY SumAdds
  <1>2. \A x \in S : f[x] = f[x]
    OBVIOUS
  <1> QED
    BY <1>1, <1>2, SumUnique

\* A sum depends on the values over its set only.
LEMMA SumSame ==
  ASSUME NEW S, IsFiniteSet(S), NEW e, NEW f, \A x \in S : e[x] = f[x]
  PROVE  Sum(e, S) = Sum(f, S)
  <1>1. PICK g : Adds(e, S, g) /\ Sum(e, S) = g[S]
    BY SumAdds
  <1>2. PICK h : Adds(f, S, h) /\ Sum(f, S) = h[S]
    BY SumAdds
  <1> QED
    BY <1>1, <1>2, SumUnique

LEMMA SumEmpty ==
  ASSUME NEW f
  PROVE  Sum(f, {}) = 0
  <1>1. PICK g : Adds(f, {}, g) /\ Sum(f, {}) = g[{}]
    BY SumAdds, FS_EmptySet
  <1> QED
    BY <1>1 DEF Adds, Step

LEMMA SumRemove ==
  ASSUME NEW S, IsFiniteSet(S), NEW f, \A x \in S : f[x] \in Int
  PROVE  /\ Sum(f, S) \in Int
         /\ \A x \in S : Sum(f, S) = f[x] + Sum(f, S \ {x})
  <1>1. PICK g : Adds(f, S, g) /\ Sum(f, S) = g[S]
    BY SumAdds
  <1> DEFINE Good(s) == g[s] \in Int /\ \A x \in s : g[s] = f[x] + g[s \ {x}]
             Bad == {n \in Nat : \E s \in SUBSET S : Cardinality(s) = n /\ ~Good(s)}
  <1>2. Bad = {}
    <2> SUFFICES ASSUME Bad # {} PROVE FALSE
      OBVIOUS
    <2>1. PICK n \in Bad : \A m \in Bad : n <= m
      BY LeastNumber
    <2>2. PICK s \in SUBSET S : Cardinality(s) = n /\ ~Good(s)
      BY <2>1
    <2>3. s # {}
      BY <1>1, <2>2 DEF Adds, Step
    <2>4. PICK y : y = CHOOSE z \in s : TRUE
      OBVIOUS
    <2>5. y \in s /\ g[s] = f[y] + g[s \ {y}]
      BY <1>1, <2>3, <2>4 DEF Adds, Step
    <2>6. ASSUME NEW x \in s PROVE Good(s \ {x})
      <3>1. Cardinality(s) \in Nat /\ Cardinality(s \ {x}) = Cardinality(s) - 1 /\ Cardinality(s \ {x}) \in Nat
        BY OneLess
      <3>2. n - 1 \notin Bad /\ Cardinality(s \ {x}) = n - 1 /\ n - 1 \in Nat
        BY <2>1, <2>2, <3>1
      <3> HIDE DEF Good
      <3> QED
        BY <3>2
    <2>7. ASSUME NEW x \in s PROVE g[s] = f[x] + g[s \ {x}]
      <3>1. CASE x = y
        BY <2>5, <3>1
      <3>2. CASE x # y
        <4>1. x \in s \ {y} /\ y \in s \ {x} /\ (s \ {x}) \ {y} = (s \ {y}) \ {x}
          BY <2>5, <3>2
        <4>2. /\ g[s \ {y}] = f[x] + g[(s \ {y}) \ {x}] /\ g[s \ {y}] \in Int
              /\ g[s \ {x}] = f[y] + g[(s \ {x}) \ {y}] /\ g[s \ {x}] \in Int
          BY <2>5, <2>6, <4>1
        <4>3. f[x] \in Int /\ f[y] \in Int
          BY <2>5
        <4>4. g[(s \ {y}) \ {x}] \in Int
          <5>1. Good((s \ {y}) \ {x})
            <6>1. /\ Cardinality(s) \in Nat /\ Cardinality(s \ {y}) = Cardinality(s) - 1
              BY <2>5, OneLess
            <6>2. /\ s \ {y} \in SUBSET S /\ Cardinality((s \ {y}) \ {x}) = Cardinality(s \ {y}) - 1
                  /\ Cardinality((s \ {y}) \ {x}) \in Nat
              BY <4>1, OneLess
            <6>3. n - 2 \notin Bad /\ Cardinality((s \ {y}) \ {x}) = n - 2 /\ n - 2 \in Nat
              BY <2>1, <2>2, <6>1, <6>2
            <6> HIDE DEF Good
            <6> QED
              BY <6>2, <6>3
          <5> QED
            BY <5>1
        <4>5. g[(s \ {x}) \ {y}] = g[(s \ {y}) \ {x}]
          BY <4>1
        <4>6. g[s] = f[y] + g[s \ {y}]
          BY <2>5
        <4> HIDE DEF Good
        <4> QED
          BY <4>2, <4>3, <4>4, <4>5, <4>6
      <3> QED
        BY <3>1, <3>2
    <2>8. g[s] \in Int
      <3>1. g[s \ {y}] \in Int /\ f[y] \in Int
        BY <2>5, <2>6
      <3> QED
        BY <2>5, <3>1
    <2> QED
      BY <2>2, <2>7, <2>8
  <1>3. Good(S)
    <2>1. Cardinality(S) \in Nat
      BY FS_CardinalityType
    <2> QED
      BY <1>2, <2>1
  <1>4. ASSUME NEW x \in S PROVE g[S \ {x}] = Sum(f, S \ {x})
    <2>1. Adds(f, S \ {x}, g) /\ IsFiniteSet(S \ {x})
      BY <1>1, FS_Subset DEF Adds
    <2> QED
      BY <2>1, SumIs
  <1> QED
    BY <1>1, <1>3, <1>4

\* A sum of natural numbers is one.
LEMMA SumNat ==
  ASSUME NEW S, IsFiniteSet(S), NEW f, \A x \in S : f[x] \in Nat
  PROVE  Sum(f, S) \in Nat
  <1>1. PICK g : Adds(f, S, g) /\ Sum(f, S) = g[S]
    BY SumAdds
  <1> DEFINE Bad == {n \in Nat : \E s \in SUBSET S : Cardinality(s) = n /\ g[s] \notin Nat}
  <1>2. Bad = {}
    <2> SUFFICES ASSUME Bad # {} PROVE FALSE
      OBVIOUS
    <2>1. PICK n \in Bad : \A m \in Bad : n <= m
      BY LeastNumber
    <2>2. PICK s \in SUBSET S : Cardinality(s) = n /\ g[s] \notin Nat
      BY <2>1
    <2>3. s # {}
      BY <1>1, <2>2 DEF Adds, Step
    <2>4. PICK y : y = CHOOSE z \in s : TRUE
      OBVIOUS
    <2>5. y \in s /\ g[s] = f[y] + g[s \ {y}]
      BY <1>1, <2>3, <2>4 DEF Adds, Step
    <2>6. g[s \ {y}] \in Nat
      <3>1. Cardinality(s \ {y}) = n - 1 /\ n - 1 \in Nat
        BY <2>2, <2>5, OneLess
      <3> QED
        BY <2>1, <3>1
    <2> QED
      BY <2>2, <2>5, <2>6
  <1>3. Cardinality(S) \in Nat
    BY FS_CardinalityType
  <1> QED
    BY <1>1, <1>2, <1>3
-----------------------------------------------------------------------------
(* Lines *)

LEMMA RoundNat ==
  ASSUME NEW n \in Nat, NEW d \in Nat \ {0}
  PROVE  round(n, d) \in Nat
  <1>1. 2 * n + d \in Nat /\ 2 * d \in Nat \ {0}
    OBVIOUS
  <1>2. \A a \in Nat, b \in Nat \ {0} : a \div b \in Nat
    OBVIOUS
  <1> QED
    BY <1>1, <1>2 DEF round

\* A percentage of an amount is not larger than the amount.
LEMMA PercentOf ==
  ASSUME NEW n \in Nat, NEW p \in 0..100
  PROVE  round(n * p, 100) \in 0..n
  <1>1. n * p \in Nat /\ n * p <= n * 100
    OBVIOUS
  <1> QED
    BY <1>1 DEF round

\* A line the intake takes has an amount that its discounts do not make negative.
LEMMA LineAmount ==
  ASSUME NEW i \in Line, IntegrationItemDto(i), ~DiscountThrows(i)
  PROVE  /\ grossAmount(i) \in Nat /\ netAmount(i) \in Nat
         /\ discountAmount(i) \in Nat
  <1>1. i.quantity \in Nat /\ i.price \in Nat
    BY DEF Line, IntegrationItemDto
  <1>2. grossAmount(i) \in Nat
    <2>1. i.quantity * i.price \in Nat
      BY <1>1
    <2> QED
      BY <2>1, RoundNat, QtyUnitAssumption DEF grossAmount
  <1>3. CASE Or0(i.percentage) # 0
    <2>1. i.percentage \in 0..100 /\ Or0(i.percentage) = i.percentage
      BY <1>3 DEF IntegrationItemDto, Or0
    <2>2. round(grossAmount(i) * i.percentage, 100) \in 0..grossAmount(i)
      BY <1>2, <2>1, PercentOf
    <2> QED
      BY <1>2, <1>3, <2>2 DEF discountAmount, netAmount
  <1>4. CASE Or0(i.percentage) = 0
    <2>1. Or0(i.discount) \in Nat /\ Or0(i.discount) <= grossAmount(i)
      BY <1>2 DEF IntegrationItemDto, DiscountThrows, Or0, Line
    <2> QED
      BY <1>2, <1>4, <2>1 DEF discountAmount, netAmount
  <1> QED
    BY <1>3, <1>4

\* What an accepted payload satisfies: the rules of the DTOs and of
\* validatePayloadAndTotals that the amounts and the receiver depend on.
Sound(p) ==
  /\ p \in Payload
  /\ p.type \in supported
  /\ p.type \in needsReceiver \cup Notes => Given(p.receiver)
  /\ Len(p.items) > 0
  /\ \A k \in DOMAIN p.items : netAmount(p.items[k]) \in Nat /\ discountAmount(p.items[k]) \in Nat
  /\ isExemptType(p.type) => \A k \in DOMAIN p.items : p.items[k].exempt
  /\ Or0(p.globalDiscount) \in 0..100
  /\ Agrees(p.declared, serverTotals(p))

LEMMA EmitIsSound ==
  ASSUME NEW p \in Payload, CreateIntegrationDteDto(p), validatePayloadAndTotals(p, FALSE)
  PROVE  Sound(p)
  <1>1. \A k \in DOMAIN p.items : p.items[k] \in Line
    BY DEF Payload
  <1>2. \A k \in DOMAIN p.items :
          netAmount(p.items[k]) \in Nat /\ discountAmount(p.items[k]) \in Nat
    BY <1>1, LineAmount DEF CreateIntegrationDteDto, validatePayloadAndTotals
  <1> QED
    BY <1>2 DEF Sound, CreateIntegrationDteDto, validatePayloadAndTotals

LEMMA NoteIsSound ==
  ASSUME NEW p \in Payload, p.type \in Notes, CreateIntegrationNoteDto(p),
         p.globalDiscount = Absent, Given(p.receiver), validatePayloadAndTotals(p, TRUE)
  PROVE  Sound(p)
  <1>1. \A k \in DOMAIN p.items : p.items[k] \in Line
    BY DEF Payload
  <1>2. \A k \in DOMAIN p.items :
          netAmount(p.items[k]) \in Nat /\ discountAmount(p.items[k]) \in Nat
    BY <1>1, LineAmount DEF CreateIntegrationNoteDto, validatePayloadAndTotals
  <1> QED
    BY <1>2 DEF Sound, validatePayloadAndTotals, Notes, supported, Or0
-----------------------------------------------------------------------------
(* Totals *)

LineExempt(p, i) == isExemptType(p.type) \/ i.exempt
LineNet(p, i) == IF LineExempt(p, i) THEN 0
                 ELSE IF p.pricingMode = "GROSS" THEN netLine(netAmount(i))
                 ELSE netAmount(i)
LineExemptAmount(p, i) == IF LineExempt(p, i) THEN netAmount(i) ELSE 0

Nets(p) == [k \in DOMAIN p.items |-> LineNet(p, p.items[k])]
Exempts(p) == [k \in DOMAIN p.items |-> LineExemptAmount(p, p.items[k])]
Before(p) == Sum(Nets(p), DOMAIN p.items)

LEMMA ItemsFinite ==
  ASSUME NEW T, NEW s \in Seq(T)
  PROVE  DOMAIN s = 1..Len(s) /\ IsFiniteSet(DOMAIN s) /\ Cardinality(DOMAIN s) = Len(s)
  <1>1. DOMAIN s = 1..Len(s) /\ Len(s) \in Nat
    OBVIOUS
  <1>2. \A a, b \in Int : IsFiniteSet(a..b) /\ Cardinality(a..b) = IF a > b THEN 0 ELSE b - a + 1
    BY FS_Interval
  <1>3. IsFiniteSet(1..Len(s)) /\ Cardinality(1..Len(s)) = IF 1 > Len(s) THEN 0 ELSE Len(s) - 1 + 1
    BY <1>1, <1>2
  <1> QED
    BY <1>1, <1>3

\* The net amounts of calculateTotals, summed.
LEMMA NetSum ==
  ASSUME NEW p, IsFiniteSet(DOMAIN p.items)
  PROVE  SumOf(p.items, LAMBDA i : LineNet(p, i)) = Before(p)
  <1> DEFINE D == DOMAIN p.items
             Rest(s, g) == IF s = {} THEN 0
                           ELSE LET x == CHOOSE x \in s : TRUE
                                IN  LineNet(p, p.items[x]) + g[s \ {x}]
  <1>1. PICK f : f = Nets(p)
    OBVIOUS
  <1>2. PICK g : g = CHOOSE e : e = [s \in SUBSET D |-> Rest(s, e)]
    OBVIOUS
  <1>3. SumOf(p.items, LAMBDA i : LineNet(p, i)) = g[D]
    BY <1>2 DEF SumOf, MapThenSumSet, MapThenFoldSet
  <1>4. ASSUME NEW s \in SUBSET D, NEW e PROVE Rest(s, e) = Step(f, s, e)
    BY <1>1 DEF Step, Nets
  <1>5. Adds(f, D, g)
    <2> HIDE DEF Rest
    <2>1. PICK e : Folds(f, D, e)
      BY FoldExists
    <2>2. e = [s \in SUBSET D |-> Rest(s, e)]
      BY <1>4, <2>1 DEF Folds
    <2>3. g = [s \in SUBSET D |-> Rest(s, g)]
      BY <1>2, <2>2
    <2> QED
      BY <1>4, <2>3 DEF Adds
  <1> QED
    BY <1>1, <1>3, <1>5, SumIs DEF Before

LEMMA ExemptSum ==
  ASSUME NEW p, IsFiniteSet(DOMAIN p.items)
  PROVE  SumOf(p.items, LAMBDA i : LineExemptAmount(p, i)) = Sum(Exempts(p), DOMAIN p.items)
  <1> DEFINE D == DOMAIN p.items
             Rest(s, g) == IF s = {} THEN 0
                           ELSE LET x == CHOOSE x \in s : TRUE
                                IN  LineExemptAmount(p, p.items[x]) + g[s \ {x}]
  <1>1. PICK f : f = Exempts(p)
    OBVIOUS
  <1>2. PICK g : g = CHOOSE e : e = [s \in SUBSET D |-> Rest(s, e)]
    OBVIOUS
  <1>3. SumOf(p.items, LAMBDA i : LineExemptAmount(p, i)) = g[D]
    BY <1>2 DEF SumOf, MapThenSumSet, MapThenFoldSet
  <1>4. ASSUME NEW s \in SUBSET D, NEW e PROVE Rest(s, e) = Step(f, s, e)
    BY <1>1 DEF Step, Exempts
  <1>5. Adds(f, D, g)
    <2> HIDE DEF Rest
    <2>1. PICK e : Folds(f, D, e)
      BY FoldExists
    <2>2. e = [s \in SUBSET D |-> Rest(s, e)]
      BY <1>4, <2>1 DEF Folds
    <2>3. g = [s \in SUBSET D |-> Rest(s, g)]
      BY <1>2, <2>2
    <2> QED
      BY <1>4, <2>3 DEF Adds
  <1> QED
    BY <1>1, <1>3, <1>5, SumIs

Off(p) == IF Before(p) > 0 THEN applyGlobalDiscount(Before(p), Or0(p.globalDiscount)) ELSE 0
Net(p) == Before(p) - Off(p)
Exempt(p) == Sum(Exempts(p), DOMAIN p.items)

\* calculateTotals in terms of the two sums.
LEMMA EngineTotals ==
  ASSUME NEW p \in Payload
  PROVE  engineTotals(p) = [net |-> Net(p), exempt |-> Exempt(p), iva |-> calculateVat(Net(p)),
                            total |-> Net(p) + Exempt(p) + calculateVat(Net(p)), off |-> Off(p)]
  <1>1. IsFiniteSet(DOMAIN p.items)
    BY ItemsFinite DEF Payload
  <1>2. SumOf(p.items, LAMBDA i : IF isExemptType(p.type) \/ i.exempt THEN 0
                    ELSE IF p.pricingMode = "GROSS" THEN netLine(netAmount(i))
                    ELSE netAmount(i)) = Before(p)
    BY <1>1, NetSum DEF LineNet, LineExempt
  <1>3. SumOf(p.items, LAMBDA i : IF isExemptType(p.type) \/ i.exempt THEN netAmount(i) ELSE 0)
          = Exempt(p)
    BY <1>1, ExemptSum DEF LineExemptAmount, LineExempt, Exempt
  <1> QED
    BY <1>2, <1>3 DEF engineTotals, Off, Net

LEMMA RetainedSum == \A p : retained(p) = Sum(p.retentions, DOMAIN p.retentions)
  BY DEF retained, SumOf, Sum

LEMMA RetainedInt ==
  ASSUME NEW p \in Payload
  PROVE  retained(p) \in Int
  <1>1. p.retentions \in Seq(Int)
    BY DEF Payload
  <1>2. IsFiniteSet(DOMAIN p.retentions)
    BY <1>1, ItemsFinite
  <1>3. \A k \in DOMAIN p.retentions : p.retentions[k] \in Int
    BY <1>1
  <1> QED
    BY <1>2, <1>3, RetainedSum, SumRemove

\* Net, exempt and VAT are never negative, and there is no VAT without a net.
LEMMA TotalsTypes ==
  ASSUME NEW p, Sound(p)
  PROVE  /\ Net(p) \in Nat /\ Exempt(p) \in Nat /\ Off(p) \in Nat /\ Before(p) \in Nat
         /\ calculateVat(Net(p)) \in Nat
         /\ Net(p) = 0 => calculateVat(Net(p)) = 0
  <1>1. IsFiniteSet(DOMAIN p.items)
    BY ItemsFinite DEF Payload, Sound
  <1>2. \A x \in Nat : netLine(x) \in Nat
    <2> TAKE x \in Nat
    <2>1. 100 * x \in Nat
      OBVIOUS
    <2> QED
      BY <2>1, RoundNat DEF netLine
  <1>3. Before(p) \in Nat
    <2>1. \A k \in DOMAIN p.items : Nets(p)[k] \in Nat
      BY <1>2 DEF Nets, LineNet, Sound
    <2> QED
      BY <1>1, <2>1, SumNat DEF Before
  <1>4. Exempt(p) \in Nat
    <2>1. \A k \in DOMAIN p.items : Exempts(p)[k] \in Nat
      BY DEF Exempts, LineExemptAmount, Sound
    <2> QED
      BY <1>1, <2>1, SumNat DEF Exempt
  <1>5. Off(p) \in 0..Before(p)
    <2>1. PICK off : off = Or0(p.globalDiscount)
      OBVIOUS
    <2>2. round(Before(p) * off, 100) \in 0..Before(p)
      BY <1>3, <2>1, PercentOf DEF Sound
    <2> QED
      BY <1>3, <2>1, <2>2 DEF Off, applyGlobalDiscount
  <1>6. Net(p) \in Nat /\ Off(p) \in Nat
    BY <1>3, <1>5 DEF Net
  <1>7. calculateVat(Net(p)) \in Nat
    <2>1. 19 * Net(p) \in Nat
      BY <1>6
    <2> QED
      BY <2>1, RoundNat DEF calculateVat
  <1>8. Net(p) = 0 => calculateVat(Net(p)) = 0
    BY DEF calculateVat, round
  <1> QED
    BY <1>3, <1>4, <1>6, <1>7, <1>8
-----------------------------------------------------------------------------
(* The invariant *)

\* The document buildDte makes of a payload, with its folio and its day.
Document(p, folio, date) ==
  [type |-> p.type, folio |-> folio, date |-> date, receiver |-> RUTRecep(p),
   items |-> [k \in DOMAIN p.items |-> buildDetail(p.items[k])],
   totals |-> Totales(p), global |-> DscRcgGlobal(p),
   netPrices |-> IndMntNeto(p), ted |-> buildTed(p, folio)]

Built(doc, p) ==
  \E folio \in 1..MaxFolio, date \in 1..MaxDay : doc = Document(p, folio, date)

Statuses == {"FIRMADO", "ENVIADO", "ANULADO"}
Stages == {"none", "refused", "accepted", "unauthorised", "unstored", "stored", "unsent", "sent"}

\* A row of dte_documents.
Row(d) ==
  /\ \E status \in Statuses :
       d = [doc |-> d.doc, status |-> status, payload |-> d.payload, answered |-> d.answered]
  /\ Sound(d.payload) /\ NotNull(d.payload)
  /\ d.answered = serverTotals(d.payload)
  /\ Built(d.doc, d.payload)

WorkInv ==
  /\ work.stage \in Stages
  /\ work.stage = "accepted" =>
       /\ work = [stage |-> "accepted", payload |-> work.payload, totals |-> work.totals]
       /\ Sound(work.payload) /\ work.totals = serverTotals(work.payload)
  /\ work.stage = "stored" =>
       /\ work = [stage |-> "stored", payload |-> work.payload, doc |-> work.doc]
       /\ Sound(work.payload) /\ Built(work.doc, work.payload)
  /\ work.stage = "unstored" => Sound(work.payload) /\ ~NotNull(work.payload)
  /\ work.stage = "unsent" =>
       /\ Sound(work.payload) /\ Built(work.doc, work.payload)
       /\ ~preflight(envelope(work.doc))

FolioUnique ==
  \A d, e \in docs : d.doc.type = e.doc.type /\ d.doc.folio = e.doc.folio => d = e

DocInv ==
  /\ pending \subseteq Payload
  /\ canIssueT46 \in BOOLEAN
  /\ today \in 1..MaxDay
  /\ WorkInv
  /\ IsFiniteSet(docs)
  /\ \A d \in docs : Row(d)
  /\ FolioUnique
  /\ \A d \in docs : d.doc.date <= today

LEMMA InitDoc == Init => DocInv
  <1> SUFFICES ASSUME Init PROVE DocInv
    OBVIOUS
  <1>1. pending \subseteq Payload
    BY BatchesAssumption DEF Init
  <1>2. today \in 1..MaxDay
    BY MaxFolioAssumption DEF Init
  <1>3. WorkInv
    BY DEF Init, NoWork, WorkInv, Stages
  <1>4. docs = {} /\ IsFiniteSet({})
    BY FS_EmptySet DEF Init
  <1> QED
    BY <1>1, <1>2, <1>3, <1>4 DEF DocInv, FolioUnique, Init

LEMMA AnswerDoc ==
  ASSUME DocInv, NEW p, NEW ok \in BOOLEAN, Answer(p, ok), ok => Sound(p),
         pending' \subseteq pending, UNCHANGED <<canIssueT46, today, docs>>
  PROVE  DocInv'
  <1>1. WorkInv'
    BY DEF Answer, WorkInv, Stages
  <1> QED
    BY <1>1 DEF DocInv, FolioUnique

LEMMA EmitDoc ==
  ASSUME DocInv, NEW p \in pending, emit(p)
  PROVE  DocInv'
  <1>1. p \in Payload
    BY DEF DocInv
  <1>2. CreateIntegrationDteDto(p) /\ validatePayloadAndTotals(p, FALSE) => Sound(p)
    BY <1>1, EmitIsSound
  <1> DEFINE ok == CreateIntegrationDteDto(p) /\ validatePayloadAndTotals(p, FALSE)
  <1>3. ok \in BOOLEAN /\ Answer(p, ok) /\ pending' \subseteq pending
    BY DEF emit, CreateIntegrationDteDto
  <1>4. UNCHANGED <<canIssueT46, today, docs>>
    BY DEF emit
  <1> HIDE DEF ok
  <1>5. ok => Sound(p)
    BY <1>2 DEF ok
  <1> QED
    BY <1>3, <1>4, <1>5, AnswerDoc

LEMMA NoteDoc ==
  ASSUME DocInv, NEW p \in pending, NEW original \in docs, emitNote(p, original)
  PROVE  DocInv'
  <1> DEFINE note == [p EXCEPT !.receiver = original.payload.receiver, !.references = TRUE,
                        !.transport = FALSE, !.pricingMode = Absent,
                        !.globalDiscount = Absent, !.retentions = <<>>]
             ok == CreateIntegrationNoteDto(p) /\ validatePayloadAndTotals(note, TRUE)
  <1>1. p \in Payload
    BY DEF DocInv
  <1>2. Given(original.payload.receiver) /\ original.payload \in Payload
    BY DEF DocInv, Row, NotNull, Sound
  <1>3. original.payload.receiver \in Rut \cup {Absent}
    BY <1>2 DEF Payload
  <1>4. note \in Payload
    <2> DEFINE a == [p EXCEPT !.receiver = original.payload.receiver]
               b == [a EXCEPT !.references = TRUE]
               c == [b EXCEPT !.transport = FALSE]
               d == [c EXCEPT !.pricingMode = Absent]
               e == [d EXCEPT !.globalDiscount = Absent]
               f == [e EXCEPT !.retentions = <<>>]
    <2>1. a \in Payload
      BY <1>1, <1>3 DEF Payload
    <2>2. b \in Payload
      <3> HIDE DEF a
      <3> QED
        BY <2>1 DEF Payload
    <2>3. c \in Payload
      <3> HIDE DEF b
      <3> QED
        BY <2>2 DEF Payload
    <2>4. d \in Payload
      <3> HIDE DEF c
      <3> QED
        BY <2>3 DEF Payload
    <2>5. e \in Payload
      <3> HIDE DEF d
      <3> QED
        BY <2>4 DEF Payload
    <2>6. f \in Payload
      <3> HIDE DEF e
      <3>1. <<>> \in Seq(Int)
        OBVIOUS
      <3> QED
        BY <2>5, <3>1 DEF Payload
    <2>7. note = f
      BY <1>1 DEF Payload
    <2> QED
      BY <2>6, <2>7
  <1>5. /\ note.type = p.type /\ note.globalDiscount = Absent
        /\ note.receiver = original.payload.receiver /\ note.items = p.items
    BY <1>1 DEF Payload
  <1>6. p.type \in Notes /\ Answer(note, ok) /\ pending' \subseteq pending
    BY DEF emitNote
  <1>7. UNCHANGED <<canIssueT46, today, docs>>
    BY DEF emitNote
  <1>8. ok => Sound(note)
    <2> HIDE DEF note
    <2> SUFFICES ASSUME ok PROVE Sound(note)
      OBVIOUS
    <2>1. CreateIntegrationNoteDto(note) /\ Given(note.receiver) /\ note.type \in Notes
      BY <1>2, <1>5, <1>6 DEF CreateIntegrationNoteDto
    <2> QED
      BY <1>4, <1>5, <2>1, NoteIsSound
  <1>9. ok \in BOOLEAN
    BY DEF CreateIntegrationNoteDto
  <1> HIDE DEF ok, note
  <1> QED
    BY <1>6, <1>7, <1>8, <1>9, AnswerDoc

LEMMA PrepareDoc ==
  ASSUME DocInv, prepare
  PROVE  DocInv'
  <1> DEFINE p == work.payload
  <1>1. /\ work = [stage |-> "accepted", payload |-> p, totals |-> work.totals]
        /\ Sound(p) /\ work.totals = serverTotals(p)
    BY DEF DocInv, WorkInv, prepare
  <1> HIDE DEF p
  <1>2. pending' = pending /\ canIssueT46' = canIssueT46 /\ today' = today
    BY DEF prepare
  <1>3. CASE work' = [work EXCEPT !.stage = "unauthorised"] /\ docs' = docs
    <2>1. work'.stage = "unauthorised"
      BY <1>1, <1>3
    <2>2. WorkInv'
      BY <2>1 DEF WorkInv, Stages
    <2> QED
      BY <1>2, <1>3, <2>2 DEF DocInv, FolioUnique
  <1>4. CASE ~NotNull(p) /\ work' = [work EXCEPT !.stage = "unstored"] /\ docs' = docs
    <2>1. work'.stage = "unstored" /\ work'.payload = p
      BY <1>1, <1>4
    <2>2. WorkInv'
      BY <1>1, <1>4, <2>1 DEF WorkInv, Stages
    <2> QED
      BY <1>2, <1>4, <2>2 DEF DocInv, FolioUnique
  <1>5. ASSUME NEW folio \in (1..MaxFolio) \ Stored(p.type), NotNull(p),
               docs' = docs \cup {[doc |-> buildDte(p, folio), status |-> "FIRMADO",
                                   payload |-> p, answered |-> work.totals]},
               work' = [stage |-> "stored", payload |-> p, doc |-> buildDte(p, folio)]
        PROVE  DocInv'
    <2>1. buildDte(p, folio) = Document(p, folio, today)
      BY DEF buildDte, Document
    <2> DEFINE doc == buildDte(p, folio)
               row == [doc |-> doc, status |-> "FIRMADO", payload |-> p, answered |-> work.totals]
    <2>2. doc.type = p.type /\ doc.folio = folio
      BY DEF buildDte
    <2>3. Built(doc, p)
      BY <2>1 DEF Built, DocInv
    <2> HIDE DEF doc
    <2>4. Row(row)
      BY <1>1, <1>5, <2>3 DEF Row, Statuses
    <2>5. WorkInv'
      BY <1>1, <1>5, <2>3 DEF WorkInv, Stages, doc
    <2>6. row.doc = doc /\ docs' = docs \cup {row}
      BY <1>5 DEF doc
    <2> HIDE DEF row
    <2>7. IsFiniteSet(docs')
      BY <2>6, FS_AddElement DEF DocInv
    <2>8. \A d \in docs' : Row(d)
      BY <2>4, <2>6 DEF DocInv
    <2>9. \A d \in docs : ~(d.doc.type = p.type /\ d.doc.folio = folio)
      BY DEF Stored
    <2>10. FolioUnique'
      BY <2>2, <2>6, <2>9 DEF FolioUnique, DocInv
    <2>11. \A d \in docs' : d.doc.date <= today'
      <3>1. doc.date = today /\ today \in Int
        BY DEF doc, buildDte, DocInv
      <3> QED
        BY <1>2, <2>6, <3>1 DEF DocInv
    <2> QED
      BY <1>2, <2>5, <2>7, <2>8, <2>10, <2>11 DEF DocInv
  <1> QED
    BY <1>3, <1>4, <1>5 DEF prepare, p

\* A row keeps everything but its status.
LEMMA NewStatus ==
  ASSUME NEW d, Row(d), NEW status \in Statuses
  PROVE  /\ Row([d EXCEPT !.status = status])
         /\ [d EXCEPT !.status = status].doc = d.doc
  <1>1. PICK old \in Statuses :
          d = [doc |-> d.doc, status |-> old, payload |-> d.payload, answered |-> d.answered]
    BY DEF Row
  <1>2. [d EXCEPT !.status = status] =
          [doc |-> d.doc, status |-> status, payload |-> d.payload, answered |-> d.answered]
    BY <1>1
  <1> QED
    BY <1>2 DEF Row

LEMMA TransmitDoc ==
  ASSUME DocInv, transmit
  PROVE  DocInv'
  <1>1. /\ work = [stage |-> "stored", payload |-> work.payload, doc |-> work.doc]
        /\ Sound(work.payload) /\ Built(work.doc, work.payload)
    BY DEF DocInv, WorkInv, transmit
  <1>2. pending' = pending /\ canIssueT46' = canIssueT46 /\ today' = today
    BY DEF transmit
  <1>3. CASE /\ work' = [work EXCEPT !.stage = "sent"]
             /\ docs' = {IF d.doc = work.doc THEN [d EXCEPT !.status = "ENVIADO"] ELSE d : d \in docs}
    <2> DEFINE sent(d) == IF d.doc = work.doc THEN [d EXCEPT !.status = "ENVIADO"] ELSE d
    <2>1. WorkInv'
      BY <1>1, <1>3 DEF WorkInv, Stages
    <2>2. ASSUME NEW d \in docs PROVE Row(sent(d)) /\ sent(d).doc = d.doc
      <3>1. Row(d) /\ "ENVIADO" \in Statuses
        BY DEF DocInv, Statuses
      <3> QED
        BY <3>1, NewStatus
    <2>3. docs' = {sent(d) : d \in docs}
      BY <1>3
    <2> HIDE DEF sent
    <2>4. IsFiniteSet(docs')
      <3>1. PICK f : f = [d \in docs |-> sent(d)]
        OBVIOUS
      <3>2. docs' = {f[d] : d \in docs}
        BY <2>3, <3>1
      <3>3. f \in [docs -> docs']
        BY <3>1, <3>2
      <3>4. f \in Surjection(docs, docs')
        BY <3>2, <3>3 DEF Surjection, Range
      <3> QED
        BY <3>4, FS_Surjection DEF DocInv
    <2>5. \A d \in docs' : Row(d)
      BY <2>2, <2>3
    <2>6. FolioUnique'
      BY <2>2, <2>3 DEF FolioUnique, DocInv
    <2>7. \A d \in docs' : d.doc.date <= today'
      BY <1>2, <2>2, <2>3 DEF DocInv
    <2> QED
      BY <1>2, <2>1, <2>4, <2>5, <2>6, <2>7 DEF DocInv
  <1>4. CASE /\ ~preflight(envelope(work.doc))
             /\ work' = [work EXCEPT !.stage = "unsent"] /\ docs' = docs
    <2>1. work'.stage = "unsent" /\ work'.payload = work.payload /\ work'.doc = work.doc
      BY <1>1, <1>4
    <2>2. WorkInv'
      BY <1>1, <1>4, <2>1 DEF WorkInv, Stages
    <2> QED
      BY <1>2, <1>4, <2>2 DEF DocInv, FolioUnique
  <1> QED
    BY <1>3, <1>4 DEF transmit

LEMMA AnnulDoc ==
  ASSUME DocInv, NEW d \in docs, annul(d)
  PROVE  DocInv'
  <1> DEFINE row == [d EXCEPT !.status = "ANULADO"]
  <1>1. Row(row) /\ row.doc = d.doc
    <2>1. Row(d) /\ "ANULADO" \in Statuses
      BY DEF DocInv, Statuses
    <2> QED
      BY <2>1, NewStatus
  <1>2. docs' = (docs \ {d}) \cup {row}
    BY DEF annul
  <1> HIDE DEF row
  <1>3. IsFiniteSet(docs')
    BY <1>2, FS_AddElement, FS_RemoveElement DEF DocInv
  <1>4. (\A e \in docs' : Row(e)) /\ FolioUnique'
    BY <1>1, <1>2 DEF DocInv, FolioUnique
  <1>5. pending' = pending /\ canIssueT46' = canIssueT46 /\ today' = today /\ work' = work
    BY DEF annul
  <1>6. WorkInv'
    BY <1>5 DEF WorkInv, DocInv
  <1>7. \A e \in docs' : e.doc.date <= today'
    BY <1>1, <1>2, <1>5 DEF DocInv
  <1> QED
    BY <1>3, <1>4, <1>5, <1>6, <1>7 DEF DocInv

LEMMA DayDoc ==
  ASSUME DocInv, NextDay \/ UNCHANGED vars
  PROVE  DocInv'
  <1>1. today' \in 1..MaxDay
    BY MaxFolioAssumption DEF NextDay, vars, DocInv
  <1>2. pending' = pending /\ canIssueT46' = canIssueT46 /\ work' = work /\ docs' = docs
    BY DEF NextDay, vars
  <1>3. WorkInv'
    BY <1>2 DEF WorkInv, DocInv
  <1>4. \A d \in docs' : d.doc.date <= today'
    <2>1. today \in Int /\ today' \in Int /\ today <= today'
      BY <1>1 DEF NextDay, vars, DocInv
    <2>2. \A d \in docs : d.doc.date \in Int
      <3> SUFFICES ASSUME NEW d \in docs PROVE d.doc.date \in Int
        OBVIOUS
      <3>1. Built(d.doc, d.payload)
        BY DEF DocInv, Row
      <3> QED
        BY <3>1, MaxFolioAssumption DEF Built, Document
    <2> QED
      BY <1>2, <2>1, <2>2 DEF DocInv
  <1> QED
    BY <1>1, <1>2, <1>3, <1>4 DEF DocInv, FolioUnique

THEOREM DocumentsSafe == Spec => []DocInv
  <1>1. Init => DocInv
    BY InitDoc
  <1>2. DocInv /\ [Next]_vars => DocInv'
    <2> SUFFICES ASSUME DocInv, [Next]_vars PROVE DocInv'
      OBVIOUS
    <2>1. ASSUME NEW p \in pending, emit(p) PROVE DocInv'
      BY <2>1, EmitDoc
    <2>2. ASSUME NEW p \in pending, NEW d \in docs, emitNote(p, d) PROVE DocInv'
      BY <2>2, NoteDoc
    <2>3. CASE prepare
      BY <2>3, PrepareDoc
    <2>4. CASE transmit
      BY <2>4, TransmitDoc
    <2>5. ASSUME NEW d \in docs, annul(d) PROVE DocInv'
      BY <2>5, AnnulDoc
    <2>6. CASE NextDay \/ UNCHANGED vars
      BY <2>6, DayDoc
    <2> QED
      BY <2>1, <2>2, <2>3, <2>4, <2>5, <2>6 DEF Next
  <1> QED
    BY <1>1, <1>2, PTL DEF Spec
-----------------------------------------------------------------------------
(* Later refusals, and what can be printed *)

\* What the document of a sound payload says, tag by tag.
LEMMA DocumentTags ==
  ASSUME NEW p, NEW doc, Sound(p), Built(doc, p)
  PROVE  /\ doc.type = p.type /\ doc.folio \in 1..MaxFolio /\ doc.date \in 1..MaxDay
         /\ doc.receiver = RUTRecep(p) /\ doc.global = DscRcgGlobal(p)
         /\ doc.items = [k \in DOMAIN p.items |-> buildDetail(p.items[k])]
         /\ doc.totals.net = IF Net(p) > 0 THEN Net(p) ELSE Absent
         /\ doc.totals.iva = IF Net(p) > 0 THEN calculateVat(Net(p)) ELSE Absent
         /\ doc.totals.exempt = IF Exempt(p) > 0 THEN Exempt(p) ELSE Absent
         /\ doc.totals.retentions = p.retentions
         /\ doc.totals.total = Net(p) + Exempt(p) + calculateVat(Net(p)) - retained(p)
         /\ doc.ted.amount = doc.totals.total
         /\ doc.totals.total \in Int
  <1>1. PICK folio \in 1..MaxFolio, date \in 1..MaxDay : doc = Document(p, folio, date)
    BY DEF Built
  <1>2. /\ engineTotals(p).net = Net(p) /\ engineTotals(p).exempt = Exempt(p)
        /\ engineTotals(p).iva = calculateVat(Net(p))
        /\ engineTotals(p).total = Net(p) + Exempt(p) + calculateVat(Net(p))
    BY EngineTotals DEF Sound
  <1>3. computedTotal(p) = Net(p) + Exempt(p) + calculateVat(Net(p)) - retained(p)
    <2>1. computedTotal(p) = engineTotals(p).total - retained(p)
      BY DEF computedTotal
    <2>2. /\ Net(p) \in Int /\ Exempt(p) \in Int /\ calculateVat(Net(p)) \in Int
          /\ retained(p) \in Int
      BY TotalsTypes, RetainedInt DEF Sound
    <2> QED
      BY <1>2, <2>1, <2>2
  <1>4. doc.totals = Totales(p) /\ doc.ted = buildTed(p, folio)
    BY <1>1 DEF Document
  <1>5. /\ doc.totals.net = IF Net(p) > 0 THEN Net(p) ELSE Absent
        /\ doc.totals.iva = IF Net(p) > 0 THEN calculateVat(Net(p)) ELSE Absent
        /\ doc.totals.exempt = IF Exempt(p) > 0 THEN Exempt(p) ELSE Absent
        /\ doc.totals.retentions = p.retentions
        /\ doc.totals.total = computedTotal(p)
    BY <1>2, <1>4 DEF Totales
  <1>6. doc.ted.amount = computedTotal(p)
    BY <1>4 DEF buildTed
  <1>7. computedTotal(p) \in Int
    BY <1>3, TotalsTypes, RetainedInt DEF Sound
  <1> QED
    BY <1>1, <1>3, <1>5, <1>6, <1>7 DEF Document

LEMMA PrintableDoc == DocInv => StoredIsPrintable
  <1> SUFFICES ASSUME DocInv, NEW d \in docs PROVE Printable(d.doc)
    BY DEF StoredIsPrintable
  <1>1. Sound(d.payload) /\ NotNull(d.payload) /\ Built(d.doc, d.payload)
    BY DEF DocInv, Row
  <1>2. d.payload.items \in Seq(Line) /\ Len(d.payload.items) > 0
    BY <1>1 DEF Sound, Payload
  <1>3. Len([k \in DOMAIN d.payload.items |-> buildDetail(d.payload.items[k])]) = Len(d.payload.items)
    BY <1>2
  <1>4. Given(RUTRecep(d.payload))
    BY <1>1 DEF RUTRecep, NotNull
  <1>5. /\ d.doc.items = [k \in DOMAIN d.payload.items |-> buildDetail(d.payload.items[k])]
        /\ d.doc.receiver = RUTRecep(d.payload)
    BY <1>1, DocumentTags
  <1> QED
    BY <1>2, <1>3, <1>4, <1>5 DEF Printable

\* A stored document can be printed: it has lines and a receiver, whatever was
\* posted (dte-print.model.ts).
THEOREM StoredPrints == Spec => []StoredIsPrintable
  BY DocumentsSafe, PrintableDoc, PTL

\* Without retentions the preflight finds net + exempt + VAT = total.
LEMMA PreflightHolds ==
  ASSUME NEW p, NEW doc, Sound(p), Built(doc, p), retained(p) = 0
  PROVE  preflight(envelope(doc))
  <1>1. /\ doc.totals.net = IF Net(p) > 0 THEN Net(p) ELSE Absent
        /\ doc.totals.iva = IF Net(p) > 0 THEN calculateVat(Net(p)) ELSE Absent
        /\ doc.totals.exempt = IF Exempt(p) > 0 THEN Exempt(p) ELSE Absent
        /\ doc.totals.total = Net(p) + Exempt(p) + calculateVat(Net(p)) - retained(p)
    BY DocumentTags
  <1>2. /\ Net(p) \in Nat /\ Exempt(p) \in Nat /\ calculateVat(Net(p)) \in Nat
        /\ Net(p) = 0 => calculateVat(Net(p)) = 0
    BY TotalsTypes
  <1>3. \A x \in Nat : Given(x) /\ numberTag(x) = x /\ Or0(numberTag(x)) = x
    BY AbsentAssumption DEF Given, numberTag, Or0
  <1>4. Or0(numberTag(Absent)) = 0
    BY DEF Given, numberTag, Or0
  <1>5. doc.totals.total \in Nat /\ doc.totals.total = Net(p) + Exempt(p) + calculateVat(Net(p))
    BY <1>1, <1>2
  <1>6. /\ Or0(numberTag(doc.totals.net)) = Net(p)
        /\ Or0(numberTag(doc.totals.iva)) = calculateVat(Net(p))
        /\ Or0(numberTag(doc.totals.exempt)) = Exempt(p)
    BY <1>1, <1>2, <1>3, <1>4
  <1>7. Given(numberTag(doc.totals.total))
    BY <1>3, <1>5
  <1>8. validateBoletaSurgicalRules(doc) /\ validateSurgicalRules(doc)
    BY <1>2, <1>5, <1>6, <1>7 DEF validateBoletaSurgicalRules, validateSurgicalRules
  <1>9. envelope(doc).dtes = {doc}
    BY DEF envelope, buildEnvioBoleta, buildEnvioDte
  <1> QED
    BY <1>8, <1>9 DEF preflight

LEMMA RefusalsDoc == DocInv => LateRefusals
  <1> SUFFICES ASSUME DocInv PROVE PreflightStopsRetainedOnly /\ UnstoredIsAnonymous
    BY DEF LateRefusals
  <1>1. PreflightStopsRetainedOnly
    BY PreflightHolds DEF DocInv, WorkInv, PreflightStopsRetainedOnly
  <1>2. UnstoredIsAnonymous
    BY DEF DocInv, WorkInv, UnstoredIsAnonymous, Sound, NotNull, needsReceiver, Notes,
           supported, isBoleta
  <1> QED
    BY <1>1, <1>2

\* A document the service built is refused before its upload only because of its
\* retentions, and is not stored only for want of a receiver: with any number of
\* lines, discounts and amounts.
THEOREM RefusedLateForTwoReasons == Spec => []LateRefusals
  BY DocumentsSafe, RefusalsDoc, PTL
-----------------------------------------------------------------------------
(* One total *)

\* The totals answered with the 202.
LEMMA AnsweredTotals ==
  ASSUME NEW p, Sound(p)
  PROVE  serverTotals(p).total =
           Net(p) + Exempt(p) + calculateVat(Net(p)) - (IF retained(p) > 0 THEN retained(p) ELSE 0)
  <1>1. engineTotals(p) = [net |-> Net(p), exempt |-> Exempt(p), iva |-> calculateVat(Net(p)),
                           total |-> Net(p) + Exempt(p) + calculateVat(Net(p)), off |-> Off(p)]
    BY EngineTotals DEF Sound
  <1>2. Net(p) \in Int /\ Exempt(p) \in Int /\ calculateVat(Net(p)) \in Int /\ retained(p) \in Int
    BY TotalsTypes, RetainedInt DEF Sound
  <1>3. PICK sum : sum = Net(p) + Exempt(p) + calculateVat(Net(p))
    OBVIOUS
  <1>4. sum \in Int
    BY <1>2, <1>3
  <1>5. serverTotals(p).total = sum - (IF retained(p) > 0 THEN retained(p) ELSE 0)
    BY <1>1, <1>2, <1>3, <1>4 DEF serverTotals
  <1> QED
    BY <1>2, <1>3, <1>4, <1>5

LEMMA AnsweredDoc == DocInv => AnsweredIsSigned
  <1> SUFFICES ASSUME DocInv, NEW d \in docs, retained(d.payload) >= 0
               PROVE  /\ d.answered.total = d.doc.totals.total
                      /\ d.doc.ted.amount = d.doc.totals.total
                      /\ Given(d.payload.declared.total) =>
                           d.payload.declared.total - d.doc.totals.total \in -1..1
    BY DEF AnsweredIsSigned
  <1>1. PICK p : p = d.payload
    OBVIOUS
  <1>2. Sound(p) /\ Built(d.doc, p) /\ d.answered = serverTotals(p)
    BY <1>1 DEF DocInv, Row
  <1>3. Net(p) \in Int /\ Exempt(p) \in Int /\ calculateVat(Net(p)) \in Int /\ retained(p) \in Int
    BY <1>2, TotalsTypes, RetainedInt DEF Sound
  <1>4. /\ d.doc.totals.total = Net(p) + Exempt(p) + calculateVat(Net(p)) - retained(p)
        /\ d.doc.ted.amount = d.doc.totals.total
    BY <1>2, DocumentTags
  <1>5. d.answered.total = d.doc.totals.total
    BY <1>1, <1>2, <1>3, <1>4, AnsweredTotals
  <1>6. "total" \in DOMAIN p.declared
    BY <1>2 DEF Sound, Payload
  <1>7. Given(p.declared.total) => p.declared.total - d.doc.totals.total \in -1..1
    BY <1>2, <1>5, <1>6 DEF Sound, Agrees
  <1> QED
    BY <1>1, <1>4, <1>5, <1>7

\* The two sums of a reader of the printed lines.
LEMMA AffectedSum ==
  ASSUME NEW s, IsFiniteSet(DOMAIN s)
  PROVE  SumOf(s, LAMBDA i : IF i.exempt THEN 0 ELSE i.amount)
           = Sum([k \in DOMAIN s |-> IF s[k].exempt THEN 0 ELSE s[k].amount], DOMAIN s)
  <1> DEFINE D == DOMAIN s
             Rest(t, g) == IF t = {} THEN 0
                           ELSE LET x == CHOOSE x \in t : TRUE
                                IN  (IF s[x].exempt THEN 0 ELSE s[x].amount) + g[t \ {x}]
  <1>1. PICK f : f = [k \in D |-> IF s[k].exempt THEN 0 ELSE s[k].amount]
    OBVIOUS
  <1>2. PICK g : g = CHOOSE e : e = [t \in SUBSET D |-> Rest(t, e)]
    OBVIOUS
  <1>3. SumOf(s, LAMBDA i : IF i.exempt THEN 0 ELSE i.amount) = g[D]
    BY <1>2 DEF SumOf, MapThenSumSet, MapThenFoldSet
  <1>4. ASSUME NEW t \in SUBSET D, NEW e PROVE Rest(t, e) = Step(f, t, e)
    BY <1>1 DEF Step
  <1>5. Adds(f, D, g)
    <2> HIDE DEF Rest
    <2>1. PICK e : Folds(f, D, e)
      BY FoldExists
    <2>2. e = [t \in SUBSET D |-> Rest(t, e)]
      BY <1>4, <2>1 DEF Folds
    <2>3. g = [t \in SUBSET D |-> Rest(t, g)]
      BY <1>2, <2>2
    <2> QED
      BY <1>4, <2>3 DEF Adds
  <1> QED
    BY <1>1, <1>3, <1>5, SumIs

LEMMA ExemptedSum ==
  ASSUME NEW s, IsFiniteSet(DOMAIN s)
  PROVE  SumOf(s, LAMBDA i : IF i.exempt THEN i.amount ELSE 0)
           = Sum([k \in DOMAIN s |-> IF s[k].exempt THEN s[k].amount ELSE 0], DOMAIN s)
  <1> DEFINE D == DOMAIN s
             Rest(t, g) == IF t = {} THEN 0
                           ELSE LET x == CHOOSE x \in t : TRUE
                                IN  (IF s[x].exempt THEN s[x].amount ELSE 0) + g[t \ {x}]
  <1>1. PICK f : f = [k \in D |-> IF s[k].exempt THEN s[k].amount ELSE 0]
    OBVIOUS
  <1>2. PICK g : g = CHOOSE e : e = [t \in SUBSET D |-> Rest(t, e)]
    OBVIOUS
  <1>3. SumOf(s, LAMBDA i : IF i.exempt THEN i.amount ELSE 0) = g[D]
    BY <1>2 DEF SumOf, MapThenSumSet, MapThenFoldSet
  <1>4. ASSUME NEW t \in SUBSET D, NEW e PROVE Rest(t, e) = Step(f, t, e)
    BY <1>1 DEF Step
  <1>5. Adds(f, D, g)
    <2> HIDE DEF Rest
    <2>1. PICK e : Folds(f, D, e)
      BY FoldExists
    <2>2. e = [t \in SUBSET D |-> Rest(t, e)]
      BY <1>4, <2>1 DEF Folds
    <2>3. g = [t \in SUBSET D |-> Rest(t, g)]
      BY <1>2, <2>2
    <2> QED
      BY <1>4, <2>3 DEF Adds
  <1> QED
    BY <1>1, <1>3, <1>5, SumIs

\* With net prices a printed line says what the engine added: an exempt document
\* has exempt lines only.
LEMMA PrintedLine ==
  ASSUME NEW p, Sound(p), NEW k \in DOMAIN p.items, p.pricingMode # "GROSS"
  PROVE  /\ Nets(p)[k] = IF p.items[k].exempt THEN 0 ELSE netAmount(p.items[k])
         /\ Exempts(p)[k] = IF p.items[k].exempt THEN netAmount(p.items[k]) ELSE 0
  <1>1. LineExempt(p, p.items[k]) = p.items[k].exempt
    <2>1. p.items[k] \in Line
      BY DEF Sound, Payload
    <2>2. p.items[k].exempt \in BOOLEAN
      BY <2>1 DEF Line
    <2>3. LineExempt(p, p.items[k]) \in BOOLEAN
      BY DEF LineExempt, isExemptType
    <2>4. LineExempt(p, p.items[k]) <=> p.items[k].exempt
      BY DEF LineExempt, Sound
    <2> QED
      BY <2>2, <2>3, <2>4
  <1> QED
    BY <1>1 DEF Nets, Exempts, LineNet, LineExemptAmount

\* The global discount that is printed is the one that was taken.
LEMMA PrintedDiscount ==
  ASSUME NEW p, Sound(p)
  PROVE  Net(p) = Before(p) - ((2 * Before(p) * Or0(DscRcgGlobal(p)) + 100) \div 200)
  <1>1. engineTotals(p).off = Off(p)
    BY EngineTotals DEF Sound
  <1>2. PICK g : g = Or0(p.globalDiscount)
    OBVIOUS
  <1>3. g \in 0..100
    BY <1>2 DEF Sound
  <1>4. Before(p) \in Nat
    BY TotalsTypes
  <1>5. PICK b : b = Before(p)
    OBVIOUS
  <1>6. b \in Nat
    BY <1>4, <1>5
  <1>7. Off(p) = IF b > 0 THEN (2 * (b * g) + 100) \div 200 ELSE 0
    <2>1. round(b * g, 100) = (2 * (b * g) + 100) \div 200
      BY DEF round
    <2> QED
      BY <1>2, <1>5, <2>1 DEF Off, applyGlobalDiscount
  <1>8. 2 * (b * g) = (2 * b) * g
    BY <1>3, <1>6
  <1>9. CASE Off(p) > 0 /\ g > 0
    <2>1. Or0(DscRcgGlobal(p)) = g
      BY <1>1, <1>2, <1>9 DEF DscRcgGlobal
    <2> QED
      BY <1>5, <1>6, <1>7, <1>8, <1>9, <2>1 DEF Net
  <1>10. CASE ~(Off(p) > 0 /\ g > 0)
    <2>1. Or0(DscRcgGlobal(p)) = 0
      BY <1>1, <1>2, <1>10 DEF DscRcgGlobal, Or0
    <2>2. Off(p) \in Nat
      BY TotalsTypes
    <2>3. Off(p) = 0
      <3>1. g = 0 => b * g = 0
        BY <1>6
      <3>2. g = 0 => Off(p) = 0
        BY <1>7, <3>1
      <3> QED
        BY <1>3, <1>10, <2>2, <3>2
    <2>4. (2 * b * 0 + 100) \div 200 = 0
      BY <1>6
    <2> QED
      BY <1>5, <1>6, <2>1, <2>3, <2>4 DEF Net
  <1> QED
    BY <1>9, <1>10

LEMMA LinesDoc == DocInv => LinesExplainTotal
  <1> SUFFICES ASSUME DocInv, NEW d \in docs, d.payload.pricingMode # "GROSS"
               PROVE  LET m == buildDtePrintModel(d.doc)
                          affected == SumOf(m.items, LAMBDA i : IF i.exempt THEN 0 ELSE i.amount)
                          exempt == SumOf(m.items, LAMBDA i : IF i.exempt THEN i.amount ELSE 0)
                          after == affected - ((2 * affected * Or0(m.global) + 100) \div 200)
                          vat == (38 * after + 100) \div 200
                      IN m.total = after + exempt + vat - SumOf(m.retentions, LAMBDA r : r)
    BY DEF LinesExplainTotal
  <1>1. PICK p : p = d.payload
    OBVIOUS
  <1>2. Sound(p) /\ Built(d.doc, p)
    BY <1>1 DEF DocInv, Row
  <1>3. PICK m : m = buildDtePrintModel(d.doc)
    OBVIOUS
  <1>4. /\ m.items = [k \in DOMAIN p.items |-> [amount |-> netAmount(p.items[k]),
                                                exempt |-> p.items[k].exempt]]
        /\ m.global = DscRcgGlobal(p) /\ m.retentions = p.retentions
        /\ m.total = Net(p) + Exempt(p) + calculateVat(Net(p)) - retained(p)
    <2>1. /\ d.doc.items = [k \in DOMAIN p.items |-> buildDetail(p.items[k])]
          /\ d.doc.global = DscRcgGlobal(p) /\ d.doc.totals.retentions = p.retentions
          /\ d.doc.totals.total = Net(p) + Exempt(p) + calculateVat(Net(p)) - retained(p)
      BY <1>2, DocumentTags
    <2>2. DOMAIN d.doc.items = DOMAIN p.items
      BY <2>1
    <2>3. \A k \in DOMAIN p.items : /\ d.doc.items[k].amount = netAmount(p.items[k])
                                    /\ d.doc.items[k].exempt = p.items[k].exempt
      BY <2>1 DEF buildDetail
    <2>4. m.items = [k \in DOMAIN p.items |-> [amount |-> netAmount(p.items[k]),
                                               exempt |-> p.items[k].exempt]]
      <3>1. m.items = [k \in DOMAIN d.doc.items |->
                         [amount |-> d.doc.items[k].amount, exempt |-> d.doc.items[k].exempt]]
        BY <1>3 DEF buildDtePrintModel
      <3> QED
        BY <2>2, <2>3, <3>1
    <2> QED
      BY <1>3, <2>1, <2>4 DEF buildDtePrintModel
  <1>5. IsFiniteSet(DOMAIN p.items) /\ DOMAIN m.items = DOMAIN p.items
    BY <1>2, <1>4, ItemsFinite DEF Sound, Payload
  <1>6. SumOf(m.items, LAMBDA i : IF i.exempt THEN 0 ELSE i.amount) = Before(p)
    <2>1. \A k \in DOMAIN p.items :
            (IF m.items[k].exempt THEN 0 ELSE m.items[k].amount) = Nets(p)[k]
      BY <1>1, <1>2, <1>4, PrintedLine
    <2>2. PICK e : e = [k \in DOMAIN m.items |-> IF m.items[k].exempt THEN 0 ELSE m.items[k].amount]
      OBVIOUS
    <2>3. \A k \in DOMAIN p.items : e[k] = Nets(p)[k]
      BY <1>5, <2>1, <2>2
    <2>4. Sum(e, DOMAIN p.items) = Before(p)
      BY <1>5, <2>3, SumSame DEF Before
    <2> QED
      BY <1>5, <2>2, <2>4, AffectedSum
  <1>7. SumOf(m.items, LAMBDA i : IF i.exempt THEN i.amount ELSE 0) = Exempt(p)
    <2>1. \A k \in DOMAIN p.items :
            (IF m.items[k].exempt THEN m.items[k].amount ELSE 0) = Exempts(p)[k]
      BY <1>1, <1>2, <1>4, PrintedLine
    <2>2. PICK e : e = [k \in DOMAIN m.items |-> IF m.items[k].exempt THEN m.items[k].amount ELSE 0]
      OBVIOUS
    <2>3. \A k \in DOMAIN p.items : e[k] = Exempts(p)[k]
      BY <1>5, <2>1, <2>2
    <2>4. Sum(e, DOMAIN p.items) = Exempt(p)
      BY <1>5, <2>3, SumSame DEF Exempt
    <2> QED
      BY <1>5, <2>2, <2>4, ExemptedSum
  <1>8. SumOf(m.retentions, LAMBDA r : r) = retained(p)
    BY <1>4 DEF retained, SumOf
  <1>9. Net(p) = Before(p) - ((2 * Before(p) * Or0(m.global) + 100) \div 200)
    BY <1>2, <1>4, PrintedDiscount
  <1>10. calculateVat(Net(p)) = (38 * Net(p) + 100) \div 200
    <2>1. 2 * (19 * Net(p)) = 38 * Net(p)
      BY <1>2, TotalsTypes
    <2> QED
      BY <2>1 DEF calculateVat, round
  <1>11. m.total = Net(p) + Exempt(p) + ((38 * Net(p) + 100) \div 200) - retained(p)
    BY <1>4, <1>10
  <1> HIDE DEF buildDtePrintModel, SumOf
  <1>12. PICK aff, exe, ret, off :
           /\ aff = SumOf(m.items, LAMBDA i : IF i.exempt THEN 0 ELSE i.amount)
           /\ exe = SumOf(m.items, LAMBDA i : IF i.exempt THEN i.amount ELSE 0)
           /\ ret = SumOf(m.retentions, LAMBDA r : r)
           /\ off = (2 * aff * Or0(m.global) + 100) \div 200
    OBVIOUS
  <1>13. PICK vat : vat = (38 * (aff - off) + 100) \div 200
    OBVIOUS
  <1>14. Net(p) = aff - off /\ exe = Exempt(p) /\ ret = retained(p)
    BY <1>6, <1>7, <1>8, <1>9, <1>12
  <1>15. m.total = (aff - off) + exe + vat - ret
    BY <1>11, <1>13, <1>14
  <1> QED
    BY <1>3, <1>12, <1>13, <1>15

\* One document, one total: the 202, the signed MntTotal, the TED and the one a
\* reader computes from the printed lines, for any lines and amounts.
THEOREM OneTotal == Spec => []TotalsAgree
  <1>1. DocInv => TotalsAgree
    BY AnsweredDoc, LinesDoc DEF TotalsAgree
  <1> QED
    BY <1>1, DocumentsSafe, PTL
-----------------------------------------------------------------------------
(* Prices with VAT included *)

\* A line split into net and VAT moves by at most 119/238 of a peso before its
\* VAT is added.
LEMMA LineClose ==
  ASSUME NEW x \in Nat
  PROVE  238 * netLine(x) - 200 * x \in -119..119
  <1>1. PICK q : q = (200 * x + 119) \div 238
    OBVIOUS
  <1>2. q \in Int /\ 238 * q <= 200 * x + 119 /\ 200 * x + 119 < 238 * q + 238
    BY <1>1
  <1>3. netLine(x) = q
    BY <1>1 DEF netLine, round
  <1> QED
    BY <1>2, <1>3

\* Net amounts with their VAT and exempt amounts against k gross amounts.
Near(n, e, a, k) == 238 * n + 200 * e - 200 * a \in -(119 * k)..(119 * k)

\* One term is near when its own difference is.
LEMMA NearOne ==
  ASSUME NEW n \in Int, NEW e \in Int, NEW a \in Int,
         238 * n + 200 * e - 200 * a \in -119..119
  PROVE  Near(n, e, a, 1)
  BY DEF Near

\* The net line of a gross amount, alone, is near that amount.
LEMMA LineNear ==
  ASSUME NEW x \in Nat
  PROVE  netLine(x) \in Nat /\ Near(netLine(x), 0, x, 1)
  <1>1. 238 * netLine(x) - 200 * x \in -119..119
    BY LineClose
  <1>2. PICK y \in Nat : y = netLine(x)
    <2>1. PICK h \in Nat : h = 100 * x
      OBVIOUS
    <2>2. round(h, 119) \in Nat
      BY RoundNat
    <2> QED
      BY <2>1, <2>2 DEF netLine
  <1>3. 238 * y - 200 * x \in -119..119
    BY <1>1, <1>2
  <1>4. 238 * y + 200 * 0 - 200 * x \in -119..119
    BY <1>3
  <1>5. Near(y, 0, x, 1)
    BY <1>4, NearOne
  <1> QED
    BY <1>2, <1>5

\* Adding one near term to near sums keeps them near.
LEMMA OneMore ==
  ASSUME NEW N \in Int, NEW E \in Int, NEW A \in Int, NEW k \in Int,
         NEW n \in Int, NEW e \in Int, NEW a \in Int, Near(N, E, A, k), Near(n, e, a, 1)
  PROVE  Near(n + N, e + E, a + A, k + 1)
  <1>1. PICK X \in Int, x \in Int : X = 238 * N + 200 * E - 200 * A
                                  /\ x = 238 * n + 200 * e - 200 * a
    OBVIOUS
  <1>2. 238 * (n + N) + 200 * (e + E) - 200 * (a + A) = X + x
    BY <1>1
  <1>3. X \in -(119 * k)..(119 * k) /\ x \in -119..119
    BY <1>1 DEF Near
  <1>4. X + x \in -(119 * (k + 1))..(119 * (k + 1))
    BY <1>3
  <1> QED
    BY <1>2, <1>4 DEF Near

\* Bounded differences of the terms bound the difference of the sums.
LEMMA SumsClose ==
  ASSUME NEW S, IsFiniteSet(S), NEW n, NEW e, NEW a,
         \A x \in S : /\ n[x] \in Int /\ e[x] \in Int /\ a[x] \in Int
                      /\ Near(n[x], e[x], a[x], 1)
  PROVE  /\ Sum(n, S) \in Int /\ Sum(e, S) \in Int /\ Sum(a, S) \in Int
         /\ Near(Sum(n, S), Sum(e, S), Sum(a, S), Cardinality(S))
  <1> DEFINE Good(s) == Near(Sum(n, s), Sum(e, s), Sum(a, s), Cardinality(s))
             Bad == {c \in Nat : \E s \in SUBSET S : Cardinality(s) = c /\ ~Good(s)}
  <1>1. ASSUME NEW s \in SUBSET S
        PROVE  /\ IsFiniteSet(s) /\ Cardinality(s) \in Nat
               /\ Sum(n, s) \in Int /\ Sum(e, s) \in Int /\ Sum(a, s) \in Int
               /\ \A x \in s : /\ Sum(n, s) = n[x] + Sum(n, s \ {x})
                               /\ Sum(e, s) = e[x] + Sum(e, s \ {x})
                               /\ Sum(a, s) = a[x] + Sum(a, s \ {x})
    <2>1. IsFiniteSet(s) /\ Cardinality(s) \in Nat
      BY FS_Subset, FS_CardinalityType
    <2>2. Sum(n, s) \in Int /\ \A x \in s : Sum(n, s) = n[x] + Sum(n, s \ {x})
      BY <2>1, SumRemove
    <2>3. Sum(e, s) \in Int /\ \A x \in s : Sum(e, s) = e[x] + Sum(e, s \ {x})
      BY <2>1, SumRemove
    <2>4. Sum(a, s) \in Int /\ \A x \in s : Sum(a, s) = a[x] + Sum(a, s \ {x})
      BY <2>1, SumRemove
    <2> QED
      BY <2>1, <2>2, <2>3, <2>4
  <1>2. Bad = {}
    <2> SUFFICES ASSUME Bad # {} PROVE FALSE
      OBVIOUS
    <2>1. PICK c \in Bad : \A m \in Bad : c <= m
      BY LeastNumber
    <2>2. PICK s \in SUBSET S : Cardinality(s) = c /\ ~Good(s)
      BY <2>1
    <2>3. CASE s = {}
      <3>1. Sum(n, s) = 0 /\ Sum(e, s) = 0 /\ Sum(a, s) = 0
        BY <2>3, SumEmpty
      <3>2. Cardinality(s) = 0
        BY <2>3, FS_EmptySet
      <3>3. Near(0, 0, 0, 0)
        BY DEF Near
      <3> QED
        BY <2>2, <3>1, <3>2, <3>3
    <2>4. CASE s # {}
      <3>1. PICK x \in s : TRUE
        BY <2>4
      <3>2. /\ Cardinality(s) \in Nat /\ Cardinality(s \ {x}) = Cardinality(s) - 1
            /\ Cardinality(s \ {x}) \in Nat
        BY OneLess
      <3>3. s \ {x} \in SUBSET S
        OBVIOUS
      <3>4. Good(s \ {x})
        <4>1. c - 1 \in Nat /\ c - 1 \notin Bad /\ Cardinality(s \ {x}) = c - 1
          BY <2>1, <2>2, <3>2
        <4> HIDE DEF Good
        <4> QED
          BY <3>3, <4>1
      <3>5. /\ Sum(n, s) = n[x] + Sum(n, s \ {x})
            /\ Sum(e, s) = e[x] + Sum(e, s \ {x})
            /\ Sum(a, s) = a[x] + Sum(a, s \ {x})
        BY <1>1
      <3>6. /\ Sum(n, s \ {x}) \in Int /\ Sum(e, s \ {x}) \in Int /\ Sum(a, s \ {x}) \in Int
        BY <1>1, <3>3
      <3>7. /\ n[x] \in Int /\ e[x] \in Int /\ a[x] \in Int
            /\ Near(n[x], e[x], a[x], 1)
        BY <3>1
      <3>8. Good(s)
        <4>1. PICK N, E, A, k : /\ N = Sum(n, s \ {x}) /\ E = Sum(e, s \ {x})
                                /\ A = Sum(a, s \ {x}) /\ k = Cardinality(s \ {x})
          OBVIOUS
        <4>2. N \in Int /\ E \in Int /\ A \in Int /\ k \in Int
          BY <3>2, <3>6, <4>1
        <4>3. Near(N, E, A, k)
          BY <3>4, <4>1
        <4>4. Near(n[x] + N, e[x] + E, a[x] + A, k + 1)
          BY <3>7, <4>2, <4>3, OneMore
        <4>5. /\ Sum(n, s) = n[x] + N /\ Sum(e, s) = e[x] + E /\ Sum(a, s) = a[x] + A
          BY <3>5, <4>1
        <4>6. Cardinality(s) = k + 1
          BY <3>2, <4>1
        <4> QED
          BY <4>4, <4>5, <4>6
      <3> QED
        BY <2>2, <3>8
    <2> QED
      BY <2>3, <2>4
  <1>3. Good(S)
    <2> HIDE DEF Good
    <2> QED
      BY <1>1, <1>2
  <1> QED
    BY <1>1, <1>3

\* The amounts of a document's lines, summed.
Sold(s) == SumOf(s, LAMBDA i : i.amount)

LEMMA AmountSum ==
  ASSUME NEW s, IsFiniteSet(DOMAIN s)
  PROVE  Sold(s) = Sum([k \in DOMAIN s |-> s[k].amount], DOMAIN s)
  <1> DEFINE D == DOMAIN s
             Rest(t, g) == IF t = {} THEN 0
                           ELSE LET x == CHOOSE x \in t : TRUE IN  s[x].amount + g[t \ {x}]
  <1>1. PICK f : f = [k \in D |-> s[k].amount]
    OBVIOUS
  <1>2. PICK g : g = CHOOSE e : e = [t \in SUBSET D |-> Rest(t, e)]
    OBVIOUS
  <1>3. Sold(s) = g[D]
    BY <1>2 DEF Sold, SumOf, MapThenSumSet, MapThenFoldSet
  <1>4. ASSUME NEW t \in SUBSET D, NEW e PROVE Rest(t, e) = Step(f, t, e)
    BY <1>1 DEF Step
  <1>5. Adds(f, D, g)
    <2> HIDE DEF Rest
    <2>1. PICK e : Folds(f, D, e)
      BY FoldExists
    <2>2. e = [t \in SUBSET D |-> Rest(t, e)]
      BY <1>4, <2>1 DEF Folds
    <2>3. g = [t \in SUBSET D |-> Rest(t, g)]
      BY <1>2, <2>2
    <2> QED
      BY <1>4, <2>3 DEF Adds
  <1> QED
    BY <1>1, <1>3, <1>5, SumIs

\* The bound, from the differences of the lines and the rounding of the VAT.
LEMMA GrossBound ==
  ASSUME NEW lines \in Nat, NEW net \in Nat, NEW exempt \in Int, NEW sold \in Int,
         238 * net + 200 * exempt - 200 * sold \in -(119 * lines)..(119 * lines)
  PROVE  net + exempt + ((38 * net + 100) \div 200) - sold
           \in -((595 * lines + 500) \div 1000)..((595 * lines + 500) \div 1000)
  <1>1. PICK v : v = (38 * net + 100) \div 200
    OBVIOUS
  <1>2. v \in Int /\ 200 * v <= 38 * net + 100 /\ 38 * net + 100 < 200 * v + 200
    BY <1>1
  <1>3. PICK bound : bound = (595 * lines + 500) \div 1000
    OBVIOUS
  <1>4. /\ bound \in Int /\ 1000 * bound <= 595 * lines + 500
        /\ 595 * lines + 500 < 1000 * bound + 1000
    BY <1>3
  <1>5. net + exempt + v - sold \in -bound..bound
    BY <1>2, <1>4
  <1> QED
    BY <1>1, <1>3, <1>5

StaysClose(d) ==
  d.doc.totals.total - Sold(d.doc.items)
    \in -((595 * Len(d.doc.items) + 500) \div 1000)..((595 * Len(d.doc.items) + 500) \div 1000)

LEMMA GrossLines ==
  ASSUME DocInv, NEW d \in docs, d.payload.pricingMode = "GROSS",
         Or0(d.payload.globalDiscount) = 0, d.payload.retentions = <<>>
  PROVE  StaysClose(d)
  <1>1. PICK p : p = d.payload
    OBVIOUS
  <1>2. Sound(p) /\ Built(d.doc, p)
    BY <1>1 DEF DocInv, Row
  <1> DEFINE D == DOMAIN p.items
  <1>3. p.items \in Seq(Line) /\ IsFiniteSet(D) /\ Cardinality(D) = Len(p.items)
    BY <1>2, ItemsFinite DEF Sound, Payload
  <1>4. d.doc.items = [k \in D |-> buildDetail(p.items[k])]
    BY <1>2, DocumentTags
  <1>5. DOMAIN d.doc.items = D /\ \A k \in D : d.doc.items[k].amount = netAmount(p.items[k])
    BY <1>4 DEF buildDetail
  <1>6. Len(d.doc.items) = Len(p.items) /\ Len(p.items) \in Nat
    BY <1>3, <1>4
  <1>7. PICK a : a = [k \in D |-> d.doc.items[k].amount]
    OBVIOUS
  <1>8. Sold(d.doc.items) = Sum(a, D)
    BY <1>3, <1>5, <1>7, AmountSum
  <1>9. PICK n, e : n = Nets(p) /\ e = Exempts(p)
    OBVIOUS
  <1>10. ASSUME NEW k \in D
         PROVE  /\ n[k] \in Int /\ e[k] \in Int /\ a[k] \in Int
                /\ Near(n[k], e[k], a[k], 1)
    <2>1. PICK x : x = netAmount(p.items[k])
      OBVIOUS
    <2>2. x \in Nat /\ a[k] = x
      BY <1>2, <1>5, <1>7, <2>1 DEF Sound
    <2>3. CASE LineExempt(p, p.items[k])
      <3>1. n[k] = 0 /\ e[k] = x
        BY <1>9, <2>1, <2>3 DEF Nets, Exempts, LineNet, LineExemptAmount
      <3>2. Near(0, x, x, 1)
        BY <2>2 DEF Near
      <3> QED
        BY <2>2, <3>1, <3>2
    <2>4. CASE ~LineExempt(p, p.items[k])
      <3>1. n[k] = netLine(x) /\ e[k] = 0
        BY <1>1, <1>9, <2>1, <2>4 DEF Nets, Exempts, LineNet, LineExemptAmount
      <3>2. netLine(x) \in Nat /\ Near(netLine(x), 0, x, 1)
        BY <2>2, LineNear
      <3> QED
        BY <2>2, <3>1, <3>2
    <2> QED
      BY <2>3, <2>4
  <1>11. /\ Sum(n, D) \in Int /\ Sum(e, D) \in Int /\ Sum(a, D) \in Int
         /\ 238 * Sum(n, D) + 200 * Sum(e, D) - 200 * Sum(a, D)
              \in -(119 * Len(p.items))..(119 * Len(p.items))
    <2> HIDE DEF D
    <2>1. IsFiniteSet(D) /\ Cardinality(D) = Len(p.items)
      BY <1>3
    <2>2. /\ Sum(n, D) \in Int /\ Sum(e, D) \in Int /\ Sum(a, D) \in Int
          /\ Near(Sum(n, D), Sum(e, D), Sum(a, D), Cardinality(D))
      BY <1>10, <2>1, SumsClose
    <2> QED
      BY <2>1, <2>2 DEF Near
  <1>12. Net(p) = Sum(n, D) /\ Exempt(p) = Sum(e, D)
    <2>1. Off(p) = 0
      <3>1. \A b \in Nat : round(b * 0, 100) = 0
        BY DEF round
      <3> QED
        BY <1>1, <1>2, <3>1, TotalsTypes DEF Off, applyGlobalDiscount
    <2> QED
      BY <1>2, <1>9, <2>1, TotalsTypes DEF Net, Before, Exempt
  <1>13. retained(p) = 0
    <2>1. DOMAIN p.retentions = {}
      BY <1>1
    <2> QED
      BY <2>1, RetainedSum, SumEmpty
  <1>14. calculateVat(Net(p)) = (38 * Net(p) + 100) \div 200
    <2>1. 2 * (19 * Net(p)) = 38 * Net(p)
      BY <1>2, TotalsTypes
    <2> QED
      BY <2>1 DEF calculateVat, round
  <1>15. PICK lines, net, exempt, sold : /\ lines = Len(p.items) /\ net = Net(p)
                                         /\ exempt = Exempt(p) /\ sold = Sum(a, D)
    OBVIOUS
  <1>16. lines \in Nat /\ net \in Nat /\ exempt \in Nat /\ sold \in Int
    BY <1>2, <1>6, <1>11, <1>15, TotalsTypes
  <1>17. 238 * net + 200 * exempt - 200 * sold \in -(119 * lines)..(119 * lines)
    BY <1>11, <1>12, <1>15
  <1>18. d.doc.totals.total = net + exempt + ((38 * net + 100) \div 200)
    <2>1. PICK v : v = (38 * net + 100) \div 200
      OBVIOUS
    <2>2. v \in Int
      BY <1>16, <2>1
    <2>3. d.doc.totals.total = Net(p) + Exempt(p) + calculateVat(Net(p)) - retained(p)
      BY <1>2, DocumentTags
    <2>4. calculateVat(Net(p)) = v
      BY <1>14, <1>15, <2>1
    <2>5. d.doc.totals.total = net + exempt + v - 0
      BY <1>13, <1>15, <1>16, <2>2, <2>3, <2>4
    <2> QED
      BY <1>16, <2>1, <2>2, <2>5
  <1>19. Sold(d.doc.items) = sold /\ Len(d.doc.items) = lines
    BY <1>6, <1>8, <1>15
  <1>20. net + exempt + ((38 * net + 100) \div 200) - sold
           \in -((595 * lines + 500) \div 1000)..((595 * lines + 500) \div 1000)
    BY <1>16, <1>17, GrossBound
  <1>21. d.doc.totals.total - Sold(d.doc.items) = net + exempt + ((38 * net + 100) \div 200) - sold
    <2>1. PICK total : total = net + exempt + ((38 * net + 100) \div 200)
      OBVIOUS
    <2>2. total \in Int
      BY <1>16, <2>1
    <2>3. d.doc.totals.total - Sold(d.doc.items) = total - sold
      BY <1>16, <1>18, <1>19, <2>1, <2>2
    <2> QED
      BY <1>16, <2>1, <2>2, <2>3
  <1> QED
    BY <1>19, <1>20, <1>21 DEF StaysClose

LEMMA GrossDoc == DocInv => GrossStaysClose
  <1> USE DEF GrossStaysClose
  <1> HAVE DocInv
  <1> TAKE d \in docs
  <1> HAVE /\ d.payload.pricingMode = "GROSS"
           /\ Or0(d.payload.globalDiscount) = 0 /\ d.payload.retentions = <<>>
  <1>1. StaysClose(d)
    BY GrossLines
  <1> QED
    BY <1>1 DEF StaysClose, Sold

\* With prices that include VAT a document's total stays within 0.595 pesos a line
\* and half a peso of what was sold, for any number of lines and any amounts.
THEOREM GrossIsClose == Spec => []GrossStaysClose
  BY DocumentsSafe, GrossDoc, PTL
-----------------------------------------------------------------------------
(* Types *)

LEMMA TypesDoc == DocInv => TypeOK
  <1> SUFFICES ASSUME DocInv PROVE TypeOK
    OBVIOUS
  <1>1. \A p \in pending : Len(p.items) \in Nat
    BY DEF DocInv, Payload
  <1>2. ASSUME NEW d \in docs
        PROVE  /\ d.doc.type \in supported /\ d.doc.folio \in 1..MaxFolio
               /\ d.doc.date \in 1..today
               /\ d.status \in {"FIRMADO", "ENVIADO", "ANULADO"}
               /\ \A k \in DOMAIN d.doc.items : d.doc.items[k].amount \in Nat
               /\ d.doc.totals.total \in Int
               /\ d.doc.totals.net \in Nat \cup {Absent}
               /\ d.doc.totals.exempt \in Nat \cup {Absent}
    <2>1. PICK p : p = d.payload
      OBVIOUS
    <2>2. Row(d) /\ Sound(p) /\ Built(d.doc, p)
      BY <2>1 DEF DocInv, Row
    <2>3. d.doc.items = [k \in DOMAIN p.items |-> buildDetail(p.items[k])]
      BY <2>2, DocumentTags
    <2>4. ASSUME NEW k \in DOMAIN d.doc.items PROVE d.doc.items[k].amount \in Nat
      <3>1. k \in DOMAIN p.items /\ d.doc.items[k] = buildDetail(p.items[k])
        BY <2>3
      <3>2. netAmount(p.items[k]) \in Nat
        BY <2>2, <3>1 DEF Sound
      <3>3. buildDetail(p.items[k]).amount = netAmount(p.items[k])
        BY DEF buildDetail
      <3> QED
        BY <3>1, <3>2, <3>3
    <2>5. d.status \in Statuses
      BY <2>2 DEF Row
    <2>6. /\ d.doc.type = p.type /\ d.doc.folio \in 1..MaxFolio /\ d.doc.date \in 1..MaxDay
          /\ d.doc.totals.total \in Int
      BY <2>2, DocumentTags
    <2>7. /\ d.doc.totals.net = IF Net(p) > 0 THEN Net(p) ELSE Absent
          /\ d.doc.totals.exempt = IF Exempt(p) > 0 THEN Exempt(p) ELSE Absent
      BY <2>2, DocumentTags
    <2>8. Net(p) \in Nat /\ Exempt(p) \in Nat
      BY <2>2, TotalsTypes
    <2>9. d.doc.totals.net \in Nat \cup {Absent} /\ d.doc.totals.exempt \in Nat \cup {Absent}
      BY <2>7, <2>8
    <2>10. d.doc.type \in supported
      BY <2>2, <2>6 DEF Sound
    <2>11. d.doc.date \in 1..today
      BY <2>6 DEF DocInv
    <2> QED
      BY <2>4, <2>5, <2>6, <2>9, <2>10, <2>11 DEF Statuses
  <1>3. canIssueT46 \in BOOLEAN /\ today \in 1..MaxDay /\ work.stage \in Stages
    BY DEF DocInv, WorkInv
  <1> QED
    BY <1>1, <1>2, <1>3 DEF TypeOK, Stages

\* The types, for every batch of payloads the DTOs let through.
THEOREM DocumentsTypes == Spec => []TypeOK
  BY DocumentsSafe, TypesDoc, PTL
-----------------------------------------------------------------------------
(* Folios in order *)

\* A set of folios that is not empty has a largest one.
LEMMA Largest ==
  ASSUME NEW n \in Nat, NEW s \in SUBSET (1..n), s # {}
  PROVE  Max(s) \in s /\ \A y \in s : Max(s) >= y
  <1> DEFINE T == {m \in Nat : \A y \in s : m >= y}
  <1>1. n \in T
    OBVIOUS
  <1>2. PICK m \in T : \A k \in T : m <= k
    BY <1>1, LeastNumber
  <1>3. m \in s
    <2> SUFFICES ASSUME m \notin s PROVE FALSE
      OBVIOUS
    <2>1. \A y \in s : y \in 1..n /\ m >= y /\ m # y
      BY <1>2
    <2>2. m - 1 \in Nat
      <3>1. PICK y \in s : TRUE
        OBVIOUS
      <3>2. y \in 1..n /\ m >= y /\ m # y /\ m \in Nat
        BY <2>1, <3>1
      <3> QED
        BY <3>2
    <2>3. \A y \in s : m - 1 >= y
      BY <1>2, <2>1
    <2>4. m - 1 \in T
      BY <2>2, <2>3
    <2> QED
      BY <1>2, <2>2, <2>4
  <1>4. m \in s /\ \A y \in s : m >= y
    BY <1>2, <1>3
  <1> QED
    BY <1>4 DEF Max

IsAscending(s) == \A i, j \in DOMAIN s : i < j => s[i] < s[j]

LEMMA AscendingExists ==
  ASSUME NEW n \in Nat
  PROVE  \A S \in SUBSET (1..n) : \E s \in [1..Cardinality(S) -> S] : IsAscending(s)
  <1> DEFINE Has(S) == \E s \in [1..Cardinality(S) -> S] : IsAscending(s)
             Bad == {c \in Nat : \E S \in SUBSET (1..n) : Cardinality(S) = c /\ ~Has(S)}
  <1>1. IsFiniteSet(1..n)
    BY FS_Interval
  <1>2. \A S \in SUBSET (1..n) : IsFiniteSet(S) /\ Cardinality(S) \in Nat
    BY <1>1, FS_Subset, FS_CardinalityType
  <1>3. Bad = {}
    <2> SUFFICES ASSUME Bad # {} PROVE FALSE
      OBVIOUS
    <2>1. PICK c \in Bad : \A m \in Bad : c <= m
      BY LeastNumber
    <2>2. PICK S \in SUBSET (1..n) : Cardinality(S) = c /\ ~Has(S)
      BY <2>1
    <2>3. CASE S = {}
      <3>1. 1..Cardinality(S) = {}
        BY <2>3, FS_EmptySet
      <3> DEFINE s == [i \in {} |-> i]
      <3>2. s \in [1..Cardinality(S) -> S] /\ IsAscending(s)
        BY <3>1 DEF IsAscending
      <3> QED
        BY <2>2, <3>2
    <2>4. CASE S # {}
      <3>1. PICK x \in S : \A y \in S : x >= y
        BY <2>4, Largest
      <3>2. /\ S \ {x} \in SUBSET (1..n) /\ Cardinality(S \ {x}) = c - 1 /\ c - 1 \in Nat
        <4>1. /\ Cardinality(S) \in Nat /\ Cardinality(S \ {x}) = Cardinality(S) - 1
              /\ Cardinality(S \ {x}) \in Nat
          BY <1>2, OneLess
        <4> QED
          BY <2>2, <4>1
      <3>3. PICK t \in [1..(c - 1) -> S \ {x}] : IsAscending(t)
        <4>1. c - 1 \notin Bad
          BY <2>1, <3>2
        <4>2. Has(S \ {x})
          <5> HIDE DEF Has
          <5> QED
            BY <3>2, <4>1
        <4> QED
          BY <3>2, <4>2
      <3> DEFINE s == [i \in 1..c |-> IF i = c THEN x ELSE t[i]]
      <3>4. \A i \in 1..c : i # c => i \in 1..(c - 1) /\ t[i] \in S /\ t[i] < x
        <4> SUFFICES ASSUME NEW i \in 1..c, i # c PROVE i \in 1..(c - 1) /\ t[i] \in S /\ t[i] < x
          OBVIOUS
        <4>1. i \in 1..(c - 1)
          BY <3>2
        <4>2. t[i] \in S \ {x}
          BY <3>3, <4>1
        <4>3. t[i] \in 1..n /\ x \in 1..n /\ x >= t[i] /\ t[i] # x
          BY <3>1, <4>2
        <4> QED
          BY <4>1, <4>2, <4>3
      <3>5. s \in [1..c -> S]
        BY <3>1, <3>4
      <3>6. ASSUME NEW i \in 1..c, NEW j \in 1..c, i < j PROVE s[i] < s[j]
        <4>1. i # c /\ s[i] = t[i]
          BY <3>6, <3>2
        <4>2. CASE j = c
          BY <3>4, <4>1, <4>2
        <4>3. CASE j # c
          <5>1. i \in 1..(c - 1) /\ j \in 1..(c - 1)
            BY <3>4, <4>1, <4>3
          <5>2. t[i] < t[j]
            BY <3>3, <3>6, <5>1 DEF IsAscending
          <5> QED
            BY <4>1, <4>3, <5>2
        <4> QED
          BY <4>2, <4>3
      <3>7. IsAscending(s)
        BY <3>6 DEF IsAscending
      <3> QED
        BY <2>2, <3>5, <3>7
    <2> QED
      BY <2>3, <2>4
  <1> HIDE DEF Has
  <1>4. \A S \in SUBSET (1..n) : Has(S)
    BY <1>2, <1>3
  <1> QED
    BY <1>4 DEF Has

\* The sorted list of a set of folios holds each of them, in order.
LEMMA AscendingIs ==
  ASSUME NEW n \in Nat, NEW S \in SUBSET (1..n)
  PROVE  /\ ascending(S) \in [1..Cardinality(S) -> S] /\ Cardinality(S) \in Nat
         /\ IsAscending(ascending(S))
         /\ \A u \in S : \E i \in 1..Cardinality(S) : ascending(S)[i] = u
  <1>1. IsFiniteSet(S) /\ Cardinality(S) \in Nat
    <2>1. IsFiniteSet(1..n)
      BY FS_Interval
    <2> QED
      BY <2>1, FS_Subset, FS_CardinalityType
  <1>2. \E s \in [1..Cardinality(S) -> S] : \A i, j \in DOMAIN s : i < j => s[i] < s[j]
    BY AscendingExists DEF IsAscending
  <1>3. /\ ascending(S) \in [1..Cardinality(S) -> S]
        /\ \A i, j \in DOMAIN ascending(S) : i < j => ascending(S)[i] < ascending(S)[j]
    BY <1>2 DEF ascending
  <1>4. PICK s : s = ascending(S)
    OBVIOUS
  <1>5. s \in Injection(1..Cardinality(S), S)
    <2>1. ASSUME NEW i \in DOMAIN s, NEW j \in DOMAIN s, s[i] = s[j] PROVE i = j
      <3>1. i \in Int /\ j \in Int /\ s[i] \in Int /\ s[j] \in Int
        <4>1. i \in 1..Cardinality(S) /\ j \in 1..Cardinality(S)
          BY <1>3, <1>4
        <4>2. s[i] \in S /\ s[j] \in S
          BY <1>3, <1>4, <4>1
        <4>3. i \in Int /\ j \in Int
          BY <1>1, <4>1
        <4>4. \A u \in S : u \in Int
          OBVIOUS
        <4> QED
          BY <4>2, <4>3, <4>4
      <3>2. ~(i < j) /\ ~(j < i)
        BY <1>3, <1>4, <2>1, <3>1
      <3> QED
        BY <3>1, <3>2
    <2> QED
      BY <1>3, <1>4, <2>1 DEF Injection, IsInjective
  <1>6. Cardinality(1..Cardinality(S)) = Cardinality(S)
    <2>1. PICK c : c = Cardinality(S)
      OBVIOUS
    <2>2. Cardinality(1..c) = IF 1 > c THEN 0 ELSE c - 1 + 1
      BY <1>1, <2>1, FS_Interval
    <2> QED
      BY <1>1, <2>1, <2>2
  <1>7. s \in Surjection(1..Cardinality(S), S)
    BY <1>1, <1>5, <1>6, FS_Injection
  <1>8. \A u \in S : \E i \in 1..Cardinality(S) : s[i] = u
    BY <1>7 DEF Surjection
  <1> QED
    BY <1>1, <1>3, <1>4, <1>8 DEF IsAscending
-----------------------------------------------------------------------------
(* The pass over the folios *)

Start == [ranges |-> <<>>, start |-> 0, prev |-> 0]

\* One turn of the loop in folioRanges, and the step of its fold.
Advance(acc, f) ==
  IF acc.start = 0 THEN [acc EXCEPT !.start = f, !.prev = f]
  ELSE IF f # acc.prev + 1
    THEN [ranges |-> Append(acc.ranges, <<acc.start, acc.prev>>), start |-> f, prev |-> f]
  ELSE [acc EXCEPT !.prev = f]
Scan(q, s, g) == IF s = {} THEN Start
                 ELSE LET x == Max(s) IN Advance(g[s \ {x}], q[x])

\* The recursive function of FoldLeft exists for the indexes of a list.
LEMMA ScanExists ==
  ASSUME NEW n \in Nat, NEW q
  PROVE  \E g : g = [s \in SUBSET (1..n) |-> Scan(q, s, g)]
  <1> DEFINE Upto(c, g) == \A s \in SUBSET (1..n) : Cardinality(s) <= c => g[s] = Scan(q, s, g)
             Bad == {c \in Nat : ~\E g : Upto(c, g)}
  <1>1. IsFiniteSet(1..n)
    BY FS_Interval
  <1>2. \A s \in SUBSET (1..n) : IsFiniteSet(s) /\ Cardinality(s) \in Nat
    BY <1>1, FS_Subset, FS_CardinalityType
  <1>3. Bad = {}
    <2> SUFFICES ASSUME Bad # {} PROVE FALSE
      OBVIOUS
    <2>1. PICK c \in Bad : \A m \in Bad : c <= m
      BY LeastNumber
    <2>2. CASE c = 0
      <3> DEFINE g == [s \in SUBSET (1..n) |-> Start]
      <3>1. ASSUME NEW s \in SUBSET (1..n), Cardinality(s) <= 0 PROVE s = {}
        BY <1>2, <3>1, FS_EmptySet
      <3>2. Upto(0, g)
        BY <3>1 DEF Scan
      <3> QED
        BY <2>1, <2>2, <3>2
    <2>3. CASE c # 0
      <3>1. c - 1 \in Nat /\ c - 1 \notin Bad
        BY <2>1, <2>3
      <3>2. PICK g : Upto(c - 1, g)
        BY <3>1
      <3> DEFINE h == [s \in SUBSET (1..n) |->
                         IF Cardinality(s) <= c - 1 THEN g[s] ELSE Scan(q, s, g)]
      <3>3. ASSUME NEW s \in SUBSET (1..n), Cardinality(s) <= c PROVE h[s] = Scan(q, s, h)
        <4>1. h[s] = Scan(q, s, g)
          BY <3>2
        <4>2. CASE s = {}
          BY <4>1, <4>2 DEF Scan
        <4>3. CASE s # {}
          <5>1. PICK x : x = Max(s)
            OBVIOUS
          <5>2. x \in s
            BY <4>3, <5>1, Largest
          <5>3. s \ {x} \in SUBSET (1..n) /\ Cardinality(s \ {x}) <= c - 1
            <6>1. /\ Cardinality(s) \in Nat /\ Cardinality(s \ {x}) = Cardinality(s) - 1
              BY <1>2, <5>2, OneLess
            <6>2. c \in Nat
              BY <2>1
            <6>3. s \ {x} \in SUBSET (1..n)
              OBVIOUS
            <6>4. Cardinality(s \ {x}) <= c - 1
              BY <3>3, <6>1, <6>2
            <6> QED
              BY <6>3, <6>4
          <5>4. h[s \ {x}] = g[s \ {x}]
            BY <5>3
          <5>5. Scan(q, s, g) = Advance(g[s \ {x}], q[x]) /\ Scan(q, s, h) = Advance(h[s \ {x}], q[x])
            BY <4>3, <5>1 DEF Scan
          <5> QED
            BY <4>1, <5>4, <5>5
        <4> QED
          BY <4>2, <4>3
      <3>4. Upto(c, h)
        BY <3>3
      <3> QED
        BY <2>1, <3>4
    <2> QED
      BY <2>2, <2>3
  <1>4. PICK g : Upto(Cardinality(1..n), g)
    BY <1>2, <1>3
  <1>5. ASSUME NEW s \in SUBSET (1..n) PROVE Cardinality(s) <= Cardinality(1..n)
    BY <1>1, FS_Subset
  <1> DEFINE h == [s \in SUBSET (1..n) |-> g[s]]
  <1>6. ASSUME NEW s \in SUBSET (1..n) PROVE h[s] = Scan(q, s, h)
    <2>1. h[s] = Scan(q, s, g)
      BY <1>4, <1>5
    <2>2. CASE s = {}
      BY <2>1, <2>2 DEF Scan
    <2>3. CASE s # {}
      <3>1. PICK x : x = Max(s)
        OBVIOUS
      <3>2. h[s \ {x}] = g[s \ {x}]
        OBVIOUS
      <3>3. Scan(q, s, g) = Advance(g[s \ {x}], q[x]) /\ Scan(q, s, h) = Advance(h[s \ {x}], q[x])
        BY <2>3, <3>1 DEF Scan
      <3> QED
        BY <2>1, <3>2, <3>3
    <2> QED
      BY <2>2, <2>3
  <1>7. h = [s \in SUBSET (1..n) |-> Scan(q, s, h)]
    BY <1>6
  <1> QED
    BY <1>7

\* The state in which the loop ends.
Loop(folios) ==
  FoldLeft(LAMBDA acc, f :
             IF acc.start = 0 THEN [acc EXCEPT !.start = f, !.prev = f]
             ELSE IF f # acc.prev + 1
               THEN [ranges |-> Append(acc.ranges, <<acc.start, acc.prev>>),
                     start |-> f, prev |-> f]
             ELSE [acc EXCEPT !.prev = f],
           [ranges |-> <<>>, start |-> 0, prev |-> 0], folios)

\* folioRanges is the loop, turn by turn: g[1..k] is its state after k folios.
LEMMA RangesScan ==
  ASSUME NEW n \in Nat, NEW q, DOMAIN q = 1..n
  PROVE  \E g : /\ g[1..0] = Start
                /\ \A k \in 1..n : g[1..k] = Advance(g[1..(k - 1)], q[k])
                /\ folioRanges(q) = IF g[1..n].start = 0 THEN g[1..n].ranges
                                    ELSE Append(g[1..n].ranges, <<g[1..n].start, g[1..n].prev>>)
  <1>1. PICK g : g = CHOOSE e : e = [s \in SUBSET DOMAIN q |-> Scan(q, s, e)]
    OBVIOUS
  <1>2. g = [s \in SUBSET (1..n) |-> Scan(q, s, g)]
    <2>1. PICK e : e = [s \in SUBSET (1..n) |-> Scan(q, s, e)]
      BY ScanExists
    <2>2. e = [s \in SUBSET DOMAIN q |-> Scan(q, s, e)]
      BY <2>1
    <2>3. g = [s \in SUBSET DOMAIN q |-> Scan(q, s, g)]
      BY <1>1, <2>2
    <2> QED
      BY <2>3
  <1>3. folioRanges(q) = IF g[1..n].start = 0 THEN g[1..n].ranges
                         ELSE Append(g[1..n].ranges, <<g[1..n].start, g[1..n].prev>>)
    <2>1. Loop(q) = g[DOMAIN q]
      BY <1>1 DEF Loop, FoldLeft, MapThenFoldSet, Scan, Advance, Start
    <2>2. folioRanges(q) = IF Loop(q).start = 0 THEN Loop(q).ranges
                           ELSE Append(Loop(q).ranges, <<Loop(q).start, Loop(q).prev>>)
      BY DEF folioRanges, Loop
    <2> QED
      BY <2>1, <2>2
  <1>4. g[1..0] = Start
    <2>1. 1..0 = {}
      OBVIOUS
    <2> QED
      BY <1>2, <2>1 DEF Scan
  <1>5. ASSUME NEW k \in 1..n PROVE g[1..k] = Advance(g[1..(k - 1)], q[k])
    <2>1. 1..k \in SUBSET (1..n) /\ 1..k # {} /\ (1..k) \ {k} = 1..(k - 1)
      OBVIOUS
    <2>2. Max(1..k) \in 1..k /\ \A y \in 1..k : Max(1..k) >= y
      BY <2>1, Largest
    <2>3. Max(1..k) = k
      <3>1. PICK x : x = Max(1..k)
        OBVIOUS
      <3>2. k \in 1..k
        OBVIOUS
      <3>3. x \in 1..k /\ x >= k
        BY <2>2, <3>1, <3>2
      <3>4. x = k
        BY <3>3
      <3> QED
        BY <3>1, <3>4
    <2>4. g[1..k] = Scan(q, 1..k, g)
      BY <1>2, <2>1
    <2> QED
      BY <2>1, <2>3, <2>4 DEF Scan
  <1> QED
    BY <1>3, <1>4, <1>5

\* A range of folios in use that could not begin earlier.
Run(used, a, b) ==
  /\ a \in Nat \ {0} /\ b \in Nat /\ a <= b
  /\ a..b \subseteq used /\ a - 1 \notin used

\* Maximal runs, one after the other.
Runs(used, ranges) ==
  /\ ranges \in Seq(Nat \X Nat)
  /\ \A i \in 1..Len(ranges) : /\ Run(used, ranges[i][1], ranges[i][2])
                               /\ ranges[i][2] + 1 \notin used
                               /\ i > 1 => ranges[i - 1][2] < ranges[i][1]

Covered(ranges, u) == \E i \in 1..Len(ranges) : u \in ranges[i][1]..ranges[i][2]

\* The state of the loop after some folios: closed runs, and the open one.
Passed(used, ranges, a, b) ==
  /\ Runs(used, ranges) /\ Run(used, a, b)
  /\ \A i \in 1..Len(ranges) : ranges[i][2] < a
  /\ \A u \in used : u <= b /\ (u \in a..b \/ Covered(ranges, u))

LEMMA OpenRunGrows ==
  ASSUME NEW used \in SUBSET Nat, NEW ranges, NEW a, NEW b, Passed(used, ranges, a, b)
  PROVE  Passed(used \cup {b + 1}, ranges, a, b + 1)
  <1>1. a \in Nat \ {0} /\ b \in Nat /\ a <= b /\ a..b \subseteq used /\ a - 1 \notin used
    BY DEF Passed, Run
  <1>2. Run(used \cup {b + 1}, a, b + 1)
    BY <1>1 DEF Run
  <1>3. Runs(used \cup {b + 1}, ranges)
    <2>1. ASSUME NEW i \in 1..Len(ranges)
          PROVE  /\ Run(used \cup {b + 1}, ranges[i][1], ranges[i][2])
                 /\ ranges[i][2] + 1 \notin used \cup {b + 1}
                 /\ i > 1 => ranges[i - 1][2] < ranges[i][1]
      <3>1. PICK c, d : c = ranges[i][1] /\ d = ranges[i][2]
        OBVIOUS
      <3>2. /\ Run(used, c, d) /\ d + 1 \notin used /\ d < a
            /\ i > 1 => ranges[i - 1][2] < ranges[i][1]
        BY <3>1 DEF Passed, Runs
      <3>3. c \in Nat \ {0} /\ d \in Nat /\ c <= d /\ c..d \subseteq used /\ c - 1 \notin used
        BY <3>2 DEF Run
      <3>4. c - 1 # b + 1 /\ d + 1 # b + 1
        BY <1>1, <3>2, <3>3
      <3> QED
        BY <3>1, <3>2, <3>3, <3>4 DEF Run
    <2> QED
      BY <2>1 DEF Runs, Passed
  <1>4. \A u \in used \cup {b + 1} : u <= b + 1 /\ (u \in a..(b + 1) \/ Covered(ranges, u))
    BY <1>1 DEF Passed
  <1>5. \A i \in 1..Len(ranges) : ranges[i][2] < a
    BY DEF Passed
  <1> QED
    BY <1>2, <1>3, <1>4, <1>5 DEF Passed

\* A closed run joins the others.
LEMMA RunCloses ==
  ASSUME NEW used \in SUBSET Nat, NEW ranges, NEW a, NEW b, Passed(used, ranges, a, b)
  PROVE  /\ Runs(used, Append(ranges, <<a, b>>))
         /\ \A u \in used : Covered(Append(ranges, <<a, b>>), u)
         /\ \A i \in 1..Len(Append(ranges, <<a, b>>)) : Append(ranges, <<a, b>>)[i][2] <= b
  <1>1. /\ a \in Nat \ {0} /\ b \in Nat /\ a <= b /\ a..b \subseteq used /\ a - 1 \notin used
        /\ Run(used, a, b)
    BY DEF Passed, Run
  <1>2. PICK r : r = Append(ranges, <<a, b>>)
    OBVIOUS
  <1>3. PICK n : n = Len(ranges)
    OBVIOUS
  <1>4. /\ ranges \in Seq(Nat \X Nat) /\ <<a, b>> \in Nat \X Nat /\ n \in Nat
    BY <1>1, <1>3 DEF Passed, Runs
  <1>5. /\ r \in Seq(Nat \X Nat) /\ Len(r) = n + 1 /\ r[n + 1] = <<a, b>>
        /\ \A i \in 1..n : r[i] = ranges[i]
    BY <1>2, <1>3, <1>4
  <1>6. ASSUME NEW i \in 1..(n + 1)
        PROVE  /\ Run(used, r[i][1], r[i][2]) /\ r[i][2] + 1 \notin used
               /\ i > 1 => r[i - 1][2] < r[i][1]
               /\ r[i][2] <= b
    <2>1. CASE i \in 1..n
      <3>1. r[i] = ranges[i] /\ (i > 1 => i - 1 \in 1..n /\ r[i - 1] = ranges[i - 1])
        BY <1>4, <1>5, <2>1
      <3>2. /\ Run(used, ranges[i][1], ranges[i][2]) /\ ranges[i][2] + 1 \notin used
            /\ i > 1 => ranges[i - 1][2] < ranges[i][1]
            /\ ranges[i][2] < a
        BY <1>3, <2>1 DEF Passed, Runs
      <3>3. PICK d : d = ranges[i][2]
        OBVIOUS
      <3>4. d \in Nat /\ d < a /\ d <= b
        BY <1>1, <3>2, <3>3 DEF Run
      <3> QED
        BY <3>1, <3>2, <3>3, <3>4
    <2>2. CASE i = n + 1
      <3>1. r[i][1] = a /\ r[i][2] = b
        BY <1>5, <2>2
      <3>2. b + 1 \notin used
        BY <1>1 DEF Passed
      <3>3. i > 1 => r[i - 1][2] < a
        <4>1. i > 1 => i - 1 = n /\ n \in 1..n
          BY <1>4, <2>2
        <4> QED
          BY <1>3, <1>5, <4>1 DEF Passed
      <3> QED
        BY <1>1, <3>1, <3>2, <3>3
    <2> QED
      BY <1>4, <2>1, <2>2
  <1>7. ASSUME NEW u \in used PROVE Covered(r, u)
    <2>1. CASE u \in a..b
      <3>1. n + 1 \in 1..Len(r) /\ u \in r[n + 1][1]..r[n + 1][2]
        BY <1>4, <1>5, <2>1
      <3> QED
        BY <3>1 DEF Covered
    <2>2. CASE Covered(ranges, u)
      <3>1. PICK i \in 1..n : u \in ranges[i][1]..ranges[i][2]
        BY <1>3, <2>2 DEF Covered
      <3>2. i \in 1..Len(r)
        BY <1>4, <1>5
      <3>3. r[i] = ranges[i]
        BY <1>5
      <3> QED
        BY <3>1, <3>2, <3>3 DEF Covered
    <2> QED
      BY <2>1, <2>2 DEF Passed
  <1> QED
    BY <1>2, <1>5, <1>6, <1>7 DEF Runs

LEMMA NewRunOpens ==
  ASSUME NEW used \in SUBSET Nat, NEW ranges, NEW a, NEW b, Passed(used, ranges, a, b),
         NEW f \in Nat, f > b, f # b + 1
  PROVE  Passed(used \cup {f}, Append(ranges, <<a, b>>), f, f)
  <1>1. PICK r : r = Append(ranges, <<a, b>>)
    OBVIOUS
  <1>2. /\ Runs(used, r) /\ \A u \in used : Covered(r, u)
        /\ \A i \in 1..Len(r) : r[i][2] <= b
    BY <1>1, RunCloses
  <1>3. b \in Nat /\ \A u \in used : u <= b
    BY DEF Passed, Run
  <1>4. Run(used \cup {f}, f, f)
    <2>1. f \in Nat \ {0} /\ f..f = {f} /\ f - 1 > b
      BY <1>3
    <2>2. f - 1 \notin used
      BY <1>3, <2>1
    <2> QED
      BY <2>1, <2>2 DEF Run
  <1>5. ASSUME NEW i \in 1..Len(r)
        PROVE  /\ Run(used \cup {f}, r[i][1], r[i][2]) /\ r[i][2] + 1 \notin used \cup {f}
               /\ i > 1 => r[i - 1][2] < r[i][1]
               /\ r[i][2] < f
    <2>1. PICK c, d : c = r[i][1] /\ d = r[i][2]
      OBVIOUS
    <2>2. Run(used, c, d) /\ d + 1 \notin used /\ d <= b /\ (i > 1 => r[i - 1][2] < r[i][1])
      BY <1>2, <2>1 DEF Runs
    <2>3. c \in Nat \ {0} /\ d \in Nat /\ c <= d /\ c..d \subseteq used /\ c - 1 \notin used
      BY <2>2 DEF Run
    <2>4. d < f /\ c - 1 # f /\ d + 1 # f
      BY <1>3, <2>2, <2>3
    <2> QED
      BY <2>1, <2>2, <2>3, <2>4 DEF Run
  <1>6. Runs(used \cup {f}, r)
    BY <1>2, <1>5 DEF Runs
  <1>7. \A u \in used \cup {f} : u <= f /\ (u \in f..f \/ Covered(r, u))
    BY <1>2, <1>3
  <1> QED
    BY <1>1, <1>4, <1>5, <1>6, <1>7 DEF Passed

State(ranges, a, b) == [ranges |-> ranges, start |-> a, prev |-> b]

\* The next folio is a larger one.
Follows(f, used, b) == used \in SUBSET Nat /\ f \in Nat /\ b < f

\* A turn of the loop leaves the last run open.
Advances(ranges, a, b, f, now) ==
  \E r, c : Advance(State(ranges, a, b), f) = State(r, c, f) /\ Passed(now, r, c, f)

LEMMA AdvancePasses ==
  ASSUME NEW used, NEW ranges, NEW a, NEW b, Passed(used, ranges, a, b),
         NEW f, Follows(f, used, b), NEW now, now = used \cup {f}
  PROVE  Advances(ranges, a, b, f, now)
  <1> USE DEF Follows, Advances
  <1>1. a \in Nat \ {0} /\ b \in Nat
    BY DEF Passed, Run
  <1>2. CASE f = b + 1
    <2>1. Advance(State(ranges, a, b), f) = State(ranges, a, f)
      BY <1>1, <1>2 DEF Advance, State
    <2> QED
      BY <1>2, <2>1, OpenRunGrows
  <1>3. CASE f # b + 1
    <2>1. Advance(State(ranges, a, b), f) = State(Append(ranges, <<a, b>>), f, f)
      BY <1>1, <1>3 DEF Advance, State
    <2>2. PICK r : r = Append(ranges, <<a, b>>)
      OBVIOUS
    <2>3. Passed(used \cup {f}, r, f, f)
      BY <1>3, <2>2, NewRunOpens
    <2> QED
      BY <2>1, <2>2, <2>3
  <1> QED
    BY <1>2, <1>3

UpTo(q, k) == {q[i] : i \in 1..k}
Open(g, q, k) == \E ranges, a : /\ g[1..k] = State(ranges, a, q[k])
                                /\ Passed(UpTo(q, k), ranges, a, q[k])

\* The loop over n folios: g keeps what each turn leaves.
Turns(g, q, n) == /\ g[1..0] = Start
                  /\ \A k \in 1..n : g[1..k] = Advance(g[1..(k - 1)], q[k])

LEMMA FirstOpens ==
  ASSUME NEW n \in Nat, NEW q \in [1..n -> Nat \ {0}], NEW g, Turns(g, q, n), 1 <= n
  PROVE  Open(g, q, 1)
  <1>1. PICK f : f = q[1]
    OBVIOUS
  <1>2. f \in Nat \ {0}
    BY <1>1
  <1>3. g[1..1] = State(<<>>, f, f)
    <2>1. g[1..1] = Advance(g[1..0], f) /\ g[1..0] = Start
      <3>1. 1 \in 1..n /\ 1 - 1 = 0
        OBVIOUS
      <3> QED
        BY <1>1, <3>1 DEF Turns
    <2>2. Advance(Start, f) = State(<<>>, f, f)
      BY DEF Advance, Start, State
    <2> QED
      BY <2>1, <2>2
  <1>4. UpTo(q, 1) = {f}
    <2>1. 1..1 = {1}
      OBVIOUS
    <2> QED
      BY <1>1, <2>1 DEF UpTo
  <1>5. Passed({f}, <<>>, f, f)
    <2>1. Len(<<>>) = 0 /\ 1..0 = {} /\ <<>> \in Seq(Nat \X Nat)
      OBVIOUS
    <2>2. Runs({f}, <<>>)
      BY <2>1 DEF Runs
    <2>3. f..f = {f} /\ f - 1 # f /\ f <= f
      BY <1>2
    <2>4. Run({f}, f, f)
      BY <1>2, <2>3 DEF Run
    <2> QED
      BY <2>1, <2>2, <2>3, <2>4 DEF Passed
  <1>6. g[1..1] = State(<<>>, f, q[1]) /\ Passed(UpTo(q, 1), <<>>, f, q[1])
    BY <1>1, <1>3, <1>4, <1>5
  <1> QED
    BY <1>6 DEF Open

LEMMA NextOpens ==
  ASSUME NEW n \in Nat, NEW q \in [1..n -> Nat \ {0}], IsAscending(q), NEW g,
         Turns(g, q, n), NEW k \in 1..n, k - 1 \in 1..n, Open(g, q, k - 1)
  PROVE  Open(g, q, k)
  <1>1. PICK ranges, a : /\ g[1..(k - 1)] = State(ranges, a, q[k - 1])
                         /\ Passed(UpTo(q, k - 1), ranges, a, q[k - 1])
    BY DEF Open
  <1>2. PICK used, b, f : used = UpTo(q, k - 1) /\ b = q[k - 1] /\ f = q[k]
    OBVIOUS
  <1>3. Follows(f, used, b)
    <2>1. b \in Nat /\ f \in Nat
      BY <1>2
    <2>2. b < f
      <3>1. k - 1 < k /\ k - 1 \in DOMAIN q /\ k \in DOMAIN q
        OBVIOUS
      <3> QED
        BY <1>2, <3>1 DEF IsAscending
    <2>3. used \in SUBSET Nat
      <3>1. 1..(k - 1) \subseteq 1..n
        OBVIOUS
      <3> QED
        BY <1>2, <3>1 DEF UpTo
    <2> QED
      BY <2>1, <2>2, <2>3 DEF Follows
  <1>4. PICK now : now = used \cup {f}
    OBVIOUS
  <1>5. UpTo(q, k) = now
    <2>1. 1..k = (1..(k - 1)) \cup {k}
      OBVIOUS
    <2> QED
      BY <1>2, <1>4, <2>1 DEF UpTo
  <1>6. Passed(used, ranges, a, b)
    BY <1>1, <1>2
  <1>7. PICK r, c : Advance(State(ranges, a, b), f) = State(r, c, f) /\ Passed(now, r, c, f)
    <2>1. Advances(ranges, a, b, f, now)
      BY <1>3, <1>4, <1>6, AdvancePasses
    <2> QED
      BY <2>1 DEF Advances
  <1>8. g[1..k] = Advance(State(ranges, a, b), f)
    BY <1>1, <1>2 DEF Turns
  <1>9. g[1..k] = State(r, c, q[k]) /\ Passed(UpTo(q, k), r, c, q[k])
    BY <1>2, <1>5, <1>7, <1>8
  <1> QED
    BY <1>9 DEF Open

\* After each folio of an ascending list the last run is open.
LEMMA LoopPasses ==
  ASSUME NEW n \in Nat, NEW q \in [1..n -> Nat \ {0}], IsAscending(q), NEW g,
         Turns(g, q, n)
  PROVE  \A k \in 1..n : Open(g, q, k)
  <1> DEFINE Bad == {k \in Nat : k \in 1..n /\ ~Open(g, q, k)}
  <1>1. Bad = {}
    <2> SUFFICES ASSUME Bad # {} PROVE FALSE
      OBVIOUS
    <2>1. PICK k \in Bad : \A m \in Bad : k <= m
      BY LeastNumber
    <2>2. k \in 1..n /\ ~Open(g, q, k)
      BY <2>1
    <2>3. CASE k = 1
      <3>1. 1 <= n
        BY <2>2, <2>3
      <3> QED
        BY <2>2, <2>3, <3>1, FirstOpens
    <2>4. CASE k # 1
      <3>1. k - 1 \in 1..n /\ k - 1 \in Nat /\ k - 1 \notin Bad
        <4> HIDE DEF Bad
        <4>1. k - 1 \in 1..n /\ k - 1 \in Nat /\ k - 1 < k
          BY <2>2, <2>4
        <4>2. k - 1 \in Bad => k <= k - 1
          BY <2>1
        <4> QED
          BY <2>2, <4>1, <4>2
      <3>2. Open(g, q, k - 1)
        BY <3>1
      <3> QED
        <4> HIDE DEF Bad
        <4> QED
          BY <2>2, <3>1, <3>2, NextOpens
    <2> QED
      BY <2>3, <2>4
  <1>2. 1..n \subseteq Nat
    OBVIOUS
  <1> QED
    BY <1>1, <1>2

\* The ranges of an ascending list of folios are its maximal runs, in order.
LEMMA RangesOf ==
  ASSUME NEW n \in Nat, NEW q \in [1..n -> Nat \ {0}], IsAscending(q),
         NEW used, used = UpTo(q, n)
  PROVE  Runs(used, folioRanges(q)) /\ \A u \in used : Covered(folioRanges(q), u)
  <1>1. DOMAIN q = 1..n
    OBVIOUS
  <1>2. PICK g : /\ Turns(g, q, n)
                 /\ folioRanges(q) = IF g[1..n].start = 0 THEN g[1..n].ranges
                                     ELSE Append(g[1..n].ranges, <<g[1..n].start, g[1..n].prev>>)
    BY <1>1, RangesScan DEF Turns
  <1>3. CASE n = 0
    <2>1. used = {}
      BY <1>3 DEF UpTo
    <2>2. folioRanges(q) = <<>>
      BY <1>2, <1>3 DEF Turns, Start
    <2>3. Len(<<>>) = 0 /\ <<>> \in Seq(Nat \X Nat)
      OBVIOUS
    <2>4. Runs({}, <<>>)
      BY <2>3 DEF Runs
    <2> QED
      BY <2>1, <2>2, <2>4
  <1>4. CASE n # 0
    <2>1. n \in 1..n /\ n \in Nat
      BY <1>4
    <2>2. Open(g, q, n)
      BY <1>2, <2>1, LoopPasses
    <2>3. PICK ranges, a : g[1..n] = State(ranges, a, q[n]) /\ Passed(used, ranges, a, q[n])
      BY <2>2 DEF Open
    <2>4. a # 0
      BY <2>3 DEF Passed, Run
    <2>5. folioRanges(q) = Append(ranges, <<a, q[n]>>)
      BY <1>2, <2>3, <2>4 DEF State
    <2>6. used \in SUBSET Nat
      BY DEF UpTo
    <2>7. PICK b, r : b = q[n] /\ r = Append(ranges, <<a, b>>)
      OBVIOUS
    <2>8. Runs(used, r) /\ \A u \in used : Covered(r, u)
      BY <2>3, <2>6, <2>7, RunCloses
    <2> QED
      BY <2>5, <2>7, <2>8
  <1> QED
    BY <1>3, <1>4

\* The ranges of a summary.
LEMMA RangesOfDay ==
  ASSUME NEW day, NEW type \in DOMAIN buildRcof(day).Resumen
  PROVE  /\ type \in {39, 41}
         /\ buildRcof(day).Resumen[type] = Resumen(type, day)
         /\ Resumen(type, day).ranges = folioRanges(ascending(activeFolios(type, day)))
  <1>1. type \in {39, 41} /\ buildRcof(day).Resumen[type] = Resumen(type, day)
    BY DEF buildRcof, consolidateDay
  <1>2. Resumen(type, day).ranges = folioRanges(ascending(activeFolios(type, day)))
    BY DEF Resumen, MapThenSumSet, MapThenFoldSet
  <1> QED
    BY <1>1, <1>2

LEMMA RunsDoc == DocInv => RangesAreRuns
  <1> SUFFICES ASSUME DocInv, NEW day \in 1..MaxDay, NEW type \in DOMAIN buildRcof(day).Resumen
               PROVE  LET used == activeFolios(type, day)
                          ranges == buildRcof(day).Resumen[type].ranges
                      IN /\ \A i \in DOMAIN ranges :
                              /\ ranges[i][1]..ranges[i][2] \subseteq used
                              /\ ranges[i][1] <= ranges[i][2]
                              /\ ranges[i][1] - 1 \notin used /\ ranges[i][2] + 1 \notin used
                              /\ i > 1 => ranges[i - 1][2] < ranges[i][1]
                         /\ used = UNION {ranges[i][1]..ranges[i][2] : i \in DOMAIN ranges}
    BY DEF RangesAreRuns
  <1>1. PICK used, ranges : used = activeFolios(type, day) /\ ranges = folioRanges(ascending(used))
    OBVIOUS
  <1>2. buildRcof(day).Resumen[type].ranges = ranges
    BY <1>1, RangesOfDay
  <1>3. used \in SUBSET (1..MaxFolio)
    <2> SUFFICES ASSUME NEW d \in docs PROVE d.doc.folio \in 1..MaxFolio
      BY <1>1 DEF activeFolios, boletas
    <2>1. Sound(d.payload) /\ Built(d.doc, d.payload)
      BY DEF DocInv, Row
    <2> QED
      BY <2>1, DocumentTags
  <1>4. PICK n, q : n = Cardinality(used) /\ q = ascending(used)
    OBVIOUS
  <1>5. /\ q \in [1..n -> used] /\ n \in Nat /\ IsAscending(q)
        /\ \A u \in used : \E i \in 1..n : q[i] = u
    BY <1>3, <1>4, MaxFolioAssumption, AscendingIs
  <1>6. used = {q[i] : i \in 1..n} /\ q \in [1..n -> Nat \ {0}]
    <2>1. used \subseteq Nat \ {0}
      BY <1>3
    <2> QED
      BY <1>5, <2>1
  <1>7. Runs(used, ranges) /\ \A u \in used : Covered(ranges, u)
    <2>1. Runs(used, folioRanges(q)) /\ \A u \in used : Covered(folioRanges(q), u)
      BY <1>5, <1>6, RangesOf DEF UpTo
    <2> QED
      BY <1>1, <1>4, <2>1
  <1>8. DOMAIN ranges = 1..Len(ranges)
    BY <1>7 DEF Runs
  <1>9. \A i \in DOMAIN ranges :
          /\ ranges[i][1]..ranges[i][2] \subseteq used
          /\ ranges[i][1] <= ranges[i][2]
          /\ ranges[i][1] - 1 \notin used /\ ranges[i][2] + 1 \notin used
          /\ i > 1 => ranges[i - 1][2] < ranges[i][1]
    BY <1>7, <1>8 DEF Runs, Run
  <1>10. used = UNION {ranges[i][1]..ranges[i][2] : i \in DOMAIN ranges}
    BY <1>7, <1>8, <1>9 DEF Covered
  <1> QED
    BY <1>1, <1>2, <1>9, <1>10

-----------------------------------------------------------------------------
(* The days of a report *)

\* The sum over two sets without common elements.
LEMMA SumUnion ==
  ASSUME NEW S, IsFiniteSet(S), NEW f, \A x \in S : f[x] \in Int,
         NEW T \in SUBSET S, NEW U \in SUBSET S, T \cap U = {}
  PROVE  Sum(f, T \cup U) = Sum(f, T) + Sum(f, U)
  <1> DEFINE Good(s) == Sum(f, T \cup s) = Sum(f, T) + Sum(f, s)
             Bad == {n \in Nat : \E s \in SUBSET U : Cardinality(s) = n /\ ~Good(s)}
  <1>1. ASSUME NEW s \in SUBSET S
        PROVE  /\ IsFiniteSet(s) /\ Cardinality(s) \in Nat /\ Sum(f, s) \in Int
               /\ \A x \in s : Sum(f, s) = f[x] + Sum(f, s \ {x})
    <2>1. IsFiniteSet(s) /\ Cardinality(s) \in Nat
      BY FS_Subset, FS_CardinalityType
    <2> QED
      BY <2>1, SumRemove
  <1>2. Bad = {}
    <2> SUFFICES ASSUME Bad # {} PROVE FALSE
      OBVIOUS
    <2>1. PICK n \in Bad : \A m \in Bad : n <= m
      BY LeastNumber
    <2>2. PICK s \in SUBSET U : Cardinality(s) = n /\ ~Good(s)
      BY <2>1
    <2>3. s # {}
      <3>1. Good({})
        BY <1>1, SumEmpty
      <3> HIDE DEF Good
      <3> QED
        BY <2>2, <3>1
    <2>4. PICK x : x \in s
      BY <2>3
    <2>5. Good(s \ {x})
      <3>1. Cardinality(s \ {x}) = n - 1 /\ n - 1 \in Nat /\ n - 1 < n
        BY <1>1, <2>2, <2>4, OneLess
      <3>2. s \ {x} \in SUBSET U
        OBVIOUS
      <3> HIDE DEF Good
      <3> QED
        BY <2>1, <3>1, <3>2
    <2>6. Sum(f, T \cup s) = f[x] + Sum(f, T \cup (s \ {x}))
      <3>1. (T \cup s) \ {x} = T \cup (s \ {x}) /\ x \in T \cup s /\ T \cup s \in SUBSET S
        BY <2>2, <2>4
      <3>2. Sum(f, T \cup s) = f[x] + Sum(f, (T \cup s) \ {x})
        BY <1>1, <3>1
      <3> QED
        BY <3>1, <3>2
    <2>7. Sum(f, s) = f[x] + Sum(f, s \ {x})
      BY <1>1, <2>4
    <2>8. /\ f[x] \in Int /\ Sum(f, T) \in Int /\ Sum(f, s \ {x}) \in Int
      BY <1>1, <2>4
    <2>9. Good(s)
      BY <2>5, <2>6, <2>7, <2>8
    <2> QED
      BY <2>2, <2>9
  <1>3. Cardinality(U) \in Nat /\ U \in SUBSET U
    BY <1>1
  <1> QED
    BY <1>2, <1>3

\* The parts of a set, each summed on its own.
Parts(part, s) == UNION {part[t] : t \in s}

\* h sums f over disjoint parts of S.
Splits(S, f, D, part, h) ==
  /\ IsFiniteSet(S) /\ IsFiniteSet(D)
  /\ \A x \in S : f[x] \in Int
  /\ \A t \in D : part[t] \in SUBSET S /\ h[t] = Sum(f, part[t])
  /\ \A t, u \in D : t # u => part[t] \cap part[u] = {}

LEMMA SumParts ==
  ASSUME NEW S, NEW f, NEW D, NEW part, NEW h, Splits(S, f, D, part, h)
  PROVE  Sum(h, D) = Sum(f, Parts(part, D))
  <1> USE DEF Splits
  <1> DEFINE Good(s) == Sum(h, s) = Sum(f, Parts(part, s))
             Bad == {n \in Nat : \E s \in SUBSET D : Cardinality(s) = n /\ ~Good(s)}
  <1>1. ASSUME NEW s \in SUBSET S PROVE Sum(f, s) \in Int
    BY FS_Subset, SumRemove
  <1>2. ASSUME NEW s \in SUBSET D
        PROVE  /\ IsFiniteSet(s) /\ Cardinality(s) \in Nat
               /\ \A x \in s : Sum(h, s) = h[x] + Sum(h, s \ {x})
               /\ Parts(part, s) \in SUBSET S
    <2>1. IsFiniteSet(s) /\ Cardinality(s) \in Nat
      BY FS_Subset, FS_CardinalityType
    <2>2. \A x \in s : h[x] \in Int
      BY <1>1
    <2>3. \A x \in s : Sum(h, s) = h[x] + Sum(h, s \ {x})
      BY <2>1, <2>2, SumRemove
    <2> QED
      BY <2>1, <2>3 DEF Parts
  <1>3. Bad = {}
    <2> SUFFICES ASSUME Bad # {} PROVE FALSE
      OBVIOUS
    <2>1. PICK n \in Bad : \A m \in Bad : n <= m
      BY LeastNumber
    <2>2. PICK s \in SUBSET D : Cardinality(s) = n /\ ~Good(s)
      BY <2>1
    <2>3. s # {}
      <3>1. Parts(part, {}) = {}
        BY DEF Parts
      <3>2. Good({})
        BY <3>1, SumEmpty
      <3> HIDE DEF Good
      <3> QED
        BY <2>2, <3>2
    <2>4. PICK x : x \in s
      BY <2>3
    <2>5. Good(s \ {x})
      <3>1. Cardinality(s \ {x}) = n - 1 /\ n - 1 \in Nat /\ n - 1 < n
        BY <1>2, <2>2, <2>4, OneLess
      <3>2. s \ {x} \in SUBSET D
        OBVIOUS
      <3> HIDE DEF Good
      <3> QED
        BY <2>1, <3>1, <3>2
    <2>6. PICK rest, mine : rest = Parts(part, s \ {x}) /\ mine = part[x]
      OBVIOUS
    <2>7. rest \in SUBSET S /\ mine \in SUBSET S /\ rest \cap mine = {}
      <3>1. s \ {x} \in SUBSET D /\ x \in D
        BY <2>2, <2>4
      <3> QED
        BY <1>2, <2>6, <3>1 DEF Parts
    <2>8. Parts(part, s) = rest \cup mine
      BY <2>4, <2>6 DEF Parts
    <2>9. Sum(f, rest \cup mine) = Sum(f, rest) + Sum(f, mine)
      BY <2>7, SumUnion
    <2>10. Sum(h, s) = Sum(f, mine) + Sum(h, s \ {x})
      BY <1>2, <2>2, <2>4, <2>6
    <2>11. Sum(f, rest) \in Int /\ Sum(f, mine) \in Int
      BY <1>1, <2>7
    <2>12. Good(s)
      <3>1. Sum(h, s \ {x}) = Sum(f, rest)
        BY <2>5, <2>6
      <3>2. Sum(h, s) = Sum(f, mine) + Sum(f, rest)
        BY <2>10, <3>1
      <3>3. Sum(h, s) = Sum(f, rest) + Sum(f, mine)
        BY <2>11, <3>2
      <3> QED
        BY <2>8, <2>9, <3>3
    <2> QED
      BY <2>2, <2>12
  <1>4. Cardinality(D) \in Nat /\ D \in SUBSET D
    BY <1>2
  <1> QED
    BY <1>3, <1>4

\* The total of a day, as its Resumen adds it up.
DayTotal(type, day) ==
  MapThenSumSet(LAMBDA d : xmlAmount(d.doc.totals.total), boletas(type, day))

Annulled(type, day) == {d \in boletas(type, day) : d.status = "ANULADO"}

LEMMA TotalOfDay ==
  ASSUME NEW type, NEW day
  PROVE  /\ Resumen(type, day).total = DayTotal(type, day)
         /\ Resumen(type, day).foliosEmitidos = Cardinality(boletas(type, day))
         /\ Resumen(type, day).foliosAnulados
              = Cardinality(Annulled(type, day))
         /\ Resumen(type, day).foliosUtilizados = Cardinality(activeFolios(type, day))
  BY DEF Resumen, DayTotal, Annulled, MapThenSumSet, MapThenFoldSet

\* Amounts are read as they were written.
LEMMA AmountsRead ==
  ASSUME NEW type, NEW day, IsFiniteSet(docs),
         \A d \in docs : d.doc.totals.total \in Int
  PROVE  DayTotal(type, day)
           = Sum([d \in docs |-> d.doc.totals.total], boletas(type, day))
  <1> DEFINE D == boletas(type, day)
             Rest(t, g) == IF t = {} THEN 0
                           ELSE LET x == CHOOSE x \in t : TRUE
                                IN  xmlAmount(x.doc.totals.total) + g[t \ {x}]
  <1>1. PICK f : f = [d \in docs |-> d.doc.totals.total]
    OBVIOUS
  <1>2. PICK g : g = CHOOSE e : e = [t \in SUBSET D |-> Rest(t, e)]
    OBVIOUS
  <1>3. DayTotal(type, day) = g[D]
    BY <1>2 DEF DayTotal, MapThenSumSet, MapThenFoldSet
  <1>4. D \in SUBSET docs /\ IsFiniteSet(D)
    BY FS_Subset DEF boletas
  <1>5. \A d \in D : xmlAmount(d.doc.totals.total) = f[d]
    BY <1>1, <1>4, AbsentAssumption DEF xmlAmount, Or0
  <1>6. ASSUME NEW t \in SUBSET D, NEW e PROVE Rest(t, e) = Step(f, t, e)
    <2> HIDE DEF D
    <2> QED
      BY <1>5 DEF Step
  <1>7. Adds(f, D, g)
    <2> HIDE DEF Rest, D
    <2>1. PICK e : Folds(f, D, e)
      BY <1>4, FoldExists
    <2>2. e = [t \in SUBSET D |-> Rest(t, e)]
      BY <1>6, <2>1 DEF Folds
    <2>3. g = [t \in SUBSET D |-> Rest(t, g)]
      BY <1>2, <2>2
    <2> QED
      BY <1>6, <2>3 DEF Adds
  <1> QED
    BY <1>1, <1>3, <1>4, <1>7, SumIs

\* The folios of a day are those used and those annulled: no two of its boletas
\* have the same.
LEMMA FoliosOfDay ==
  ASSUME DocInv, NEW type, NEW day
  PROVE  Cardinality(boletas(type, day))
           = Cardinality(activeFolios(type, day)) + Cardinality(Annulled(type, day))
  <1>1. PICK all, on, off : /\ all = boletas(type, day)
                            /\ on = {d \in all : d.status # "ANULADO"}
                            /\ off = Annulled(type, day)
    OBVIOUS
  <1>2. IsFiniteSet(all) /\ on \in SUBSET all /\ off \in SUBSET all
    BY <1>1, FS_Subset DEF DocInv, boletas, Annulled
  <1>3. IsFiniteSet(on) /\ IsFiniteSet(off) /\ on \cap off = {} /\ on \cup off = all
    BY <1>1, <1>2, FS_Subset DEF Annulled
  <1>4. Cardinality(all) = Cardinality(on) + Cardinality(off)
    <2>1. Cardinality(on \cap off) = 0
      BY <1>3, FS_EmptySet
    <2>2. Cardinality(on) \in Nat /\ Cardinality(off) \in Nat
      BY <1>3, FS_CardinalityType
    <2>3. Cardinality(on \cup off) = Cardinality(on) + Cardinality(off) - Cardinality(on \cap off)
      BY <1>3, FS_Union
    <2>4. PICK a, b : a = Cardinality(on) /\ b = Cardinality(off)
      OBVIOUS
    <2>5. Cardinality(all) = a + b - 0 /\ a \in Nat /\ b \in Nat
      BY <1>3, <2>1, <2>2, <2>3, <2>4
    <2>6. Cardinality(all) = a + b
      BY <2>5
    <2> QED
      BY <2>4, <2>6
  <1>5. Cardinality(activeFolios(type, day)) = Cardinality(on)
    <2>1. PICK used : used = activeFolios(type, day)
      OBVIOUS
    <2>2. used = {d.doc.folio : d \in on}
      BY <1>1, <2>1 DEF activeFolios
    <2>3. \A d, e \in on : d.doc.folio = e.doc.folio => d = e
      BY <1>1 DEF boletas, DocInv, FolioUnique
    <2>4. PICK g : g = [d \in on |-> d.doc.folio]
      OBVIOUS
    <2>5. g \in Bijection(on, used)
      BY <2>2, <2>3, <2>4 DEF Bijection, Injection, Surjection, IsInjective
    <2>6. ExistsBijection(on, used)
      BY <2>5 DEF ExistsBijection
    <2> QED
      BY <1>3, <2>1, <2>6, FS_Bijection
  <1> QED
    BY <1>1, <1>4, <1>5

\* The amounts reported over some days, and the amounts signed.
Reported(type, days) == MapThenSumSet(LAMBDA n : buildRcof(n).Resumen[type].total, days)
SignedAmounts(rows) == MapThenSumSet(LAMBDA d : d.doc.ted.amount, rows)

LEMMA ReportedSum ==
  ASSUME NEW type, NEW days, IsFiniteSet(days)
  PROVE  Reported(type, days) = Sum([n \in days |-> buildRcof(n).Resumen[type].total], days)
  <1> DEFINE Day(n) == buildRcof(n).Resumen[type].total
             Rest(t, g) == IF t = {} THEN 0
                           ELSE LET x == CHOOSE x \in t : TRUE
                                IN  buildRcof(x).Resumen[type].total + g[t \ {x}]
  <1>1. PICK f : f = [n \in days |-> buildRcof(n).Resumen[type].total]
    OBVIOUS
  <1>2. PICK g : g = CHOOSE e : e = [t \in SUBSET days |-> Rest(t, e)]
    OBVIOUS
  <1>3. Reported(type, days) = g[days]
    BY <1>2 DEF Reported, MapThenSumSet, MapThenFoldSet
  <1>4. ASSUME NEW t \in SUBSET days, NEW e PROVE Rest(t, e) = Step(f, t, e)
    BY <1>1 DEF Step
  <1>5. Adds(f, days, g)
    <2> HIDE DEF Rest
    <2>1. PICK e : Folds(f, days, e)
      BY FoldExists
    <2>2. e = [t \in SUBSET days |-> Rest(t, e)]
      BY <1>4, <2>1 DEF Folds
    <2>3. g = [t \in SUBSET days |-> Rest(t, g)]
      BY <1>2, <2>2
    <2> QED
      BY <1>4, <2>3 DEF Adds
  <1> QED
    BY <1>1, <1>3, <1>5, SumIs

LEMMA SignedSum ==
  ASSUME NEW rows, IsFiniteSet(rows)
  PROVE  SignedAmounts(rows) = Sum([d \in rows |-> d.doc.ted.amount], rows)
  <1> DEFINE Rest(t, g) == IF t = {} THEN 0
                           ELSE LET x == CHOOSE x \in t : TRUE
                                IN  x.doc.ted.amount + g[t \ {x}]
  <1>1. PICK f : f = [d \in rows |-> d.doc.ted.amount]
    OBVIOUS
  <1>2. PICK g : g = CHOOSE e : e = [t \in SUBSET rows |-> Rest(t, e)]
    OBVIOUS
  <1>3. SignedAmounts(rows) = g[rows]
    BY <1>2 DEF SignedAmounts, MapThenSumSet, MapThenFoldSet
  <1>4. ASSUME NEW t \in SUBSET rows, NEW e PROVE Rest(t, e) = Step(f, t, e)
    BY <1>1 DEF Step
  <1>5. Adds(f, rows, g)
    <2> HIDE DEF Rest
    <2>1. PICK e : Folds(f, rows, e)
      BY FoldExists
    <2>2. e = [t \in SUBSET rows |-> Rest(t, e)]
      BY <1>4, <2>1 DEF Folds
    <2>3. g = [t \in SUBSET rows |-> Rest(t, g)]
      BY <1>2, <2>2
    <2> QED
      BY <1>4, <2>3 DEF Adds
  <1> QED
    BY <1>1, <1>3, <1>5, SumIs

\* Every boleta is in the report of one day.
LEMMA DaysAddUp ==
  ASSUME DocInv, NEW type \in {39, 41}, NEW days,
         days = {n \in 1..MaxDay : type \in DOMAIN buildRcof(n).Resumen}
  PROVE  Reported(type, days) = SignedAmounts({d \in docs : d.doc.type = type})
  <1>1. PICK signed, f, part, h :
          /\ signed = {d \in docs : d.doc.type = type}
          /\ f = [d \in docs |-> d.doc.totals.total]
          /\ part = [n \in days |-> boletas(type, n)]
          /\ h = [n \in days |-> buildRcof(n).Resumen[type].total]
    OBVIOUS
  <1>2. ASSUME NEW d \in docs
        PROVE  /\ d.doc.totals.total \in Int /\ d.doc.ted.amount = d.doc.totals.total
               /\ d.doc.date \in 1..MaxDay
    <2>1. Sound(d.payload) /\ Built(d.doc, d.payload)
      BY DEF DocInv, Row
    <2> QED
      BY <2>1, DocumentTags
  <1>3. IsFiniteSet(docs) /\ IsFiniteSet(signed) /\ signed \in SUBSET docs
    BY <1>1, FS_Subset DEF DocInv
  <1>4. IsFiniteSet(days)
    <2>1. days \in SUBSET (1..MaxDay) /\ IsFiniteSet(1..MaxDay)
      BY MaxFolioAssumption, FS_Interval
    <2> QED
      BY <2>1, FS_Subset
  <1>5. ASSUME NEW n \in days PROVE h[n] = Sum(f, part[n])
    <2>1. type \in DOMAIN buildRcof(n).Resumen
      OBVIOUS
    <2>2. h[n] = Resumen(type, n).total
      BY <1>1, <2>1, RangesOfDay
    <2>3. h[n] = DayTotal(type, n)
      BY <2>2, TotalOfDay
    <2>4. \A d \in docs : d.doc.totals.total \in Int
      BY <1>2
    <2>5. DayTotal(type, n) = Sum([d \in docs |-> d.doc.totals.total], boletas(type, n))
      BY <1>3, <2>4, AmountsRead
    <2> QED
      BY <1>1, <2>3, <2>5
  <1>6. \A d \in docs : f[d] \in Int
    BY <1>1, <1>2
  <1>7. /\ \A n \in days : part[n] \in SUBSET docs
        /\ \A m, n \in days : m # n => part[m] \cap part[n] = {}
    BY <1>1 DEF boletas
  <1>8. Sum(h, days) = Sum(f, Parts(part, days))
    <2>1. Splits(docs, f, days, part, h)
      BY <1>3, <1>4, <1>5, <1>6, <1>7 DEF Splits
    <2> QED
      BY <2>1, SumParts
  <1>9. Parts(part, days) = signed
    <2>1. ASSUME NEW d \in signed PROVE d \in Parts(part, days)
      <3>1. PICK n : n = d.doc.date
        OBVIOUS
      <3>2. d \in boletas(type, n) /\ n \in 1..MaxDay
        BY <1>1, <1>2, <3>1 DEF boletas
      <3>3. n \in days
        BY <3>2 DEF buildRcof, consolidateDay
      <3> QED
        BY <1>1, <3>2, <3>3 DEF Parts
    <2>2. Parts(part, days) \subseteq signed
      BY <1>1 DEF Parts, boletas
    <2> QED
      BY <2>1, <2>2
  <1>10. Sum(f, signed) = SignedAmounts(signed)
    <2>1. PICK e : e = [d \in signed |-> d.doc.ted.amount]
      OBVIOUS
    <2>2. \A d \in signed : f[d] = e[d]
      BY <1>1, <1>2, <1>3, <2>1
    <2>3. Sum(f, signed) = Sum(e, signed)
      BY <1>3, <2>2, SumSame
    <2> QED
      BY <1>3, <2>1, <2>3, SignedSum
  <1>11. Reported(type, days) = Sum(h, days)
    BY <1>1, <1>4, ReportedSum
  <1> QED
    BY <1>1, <1>8, <1>9, <1>10, <1>11

LEMMA CoversDoc == DocInv => ReportCoversDays
  <1> SUFFICES ASSUME DocInv, NEW type \in {39, 41}
               PROVE  LET day(n) == buildRcof(n).Resumen[type]
                          days == {n \in 1..MaxDay : type \in DOMAIN buildRcof(n).Resumen}
                          signed == {d \in docs : d.doc.type = type}
                      IN /\ \A n \in days :
                              day(n).foliosEmitidos = day(n).foliosUtilizados + day(n).foliosAnulados
                         /\ MapThenSumSet(LAMBDA n : day(n).total, days)
                              = MapThenSumSet(LAMBDA d : d.doc.ted.amount, signed)
    BY DEF ReportCoversDays
  <1> DEFINE days == {n \in 1..MaxDay : type \in DOMAIN buildRcof(n).Resumen}
             signed == {d \in docs : d.doc.type = type}
  <1>1. ASSUME NEW n \in days
        PROVE  buildRcof(n).Resumen[type].foliosEmitidos
                 = buildRcof(n).Resumen[type].foliosUtilizados
                   + buildRcof(n).Resumen[type].foliosAnulados
    <2>1. buildRcof(n).Resumen[type] = Resumen(type, n)
      BY RangesOfDay
    <2> HIDE DEF days
    <2>2. PICK r : r = Resumen(type, n)
      OBVIOUS
    <2>3. r.foliosEmitidos = r.foliosUtilizados + r.foliosAnulados
      BY <2>2, TotalOfDay, FoliosOfDay
    <2> QED
      BY <2>1, <2>2, <2>3
  <1>2. Reported(type, days) = SignedAmounts(signed)
    BY DaysAddUp
  <1>3. /\ Reported(type, days) = MapThenSumSet(LAMBDA n : buildRcof(n).Resumen[type].total, days)
        /\ SignedAmounts(signed) = MapThenSumSet(LAMBDA d : d.doc.ted.amount, signed)
    BY DEF Reported, SignedAmounts
  <1> QED
    BY <1>1, <1>2, <1>3

\* The RCOF of every day states the boletas issued on it, each once: its ranges
\* are the maximal runs of the folios in use, and its amounts add up to the
\* amounts signed, for any boletas of any days, annulled or not.
THEOREM ReportsExact == Spec => []ReportIsExact
  <1>1. DocInv => ReportIsExact
    BY RunsDoc, CoversDoc DEF ReportIsExact
  <1> QED
    BY <1>1, DocumentsSafe, PTL
================================================================================
