---------------------------- MODULE InvoicingProofs ----------------------------
(***************************************************************************)
(* Theorems about the tax documents, for every number of administrators,    *)
(* every bound and every combination of decisions.                         *)
(***************************************************************************)
EXTENDS Invoicing, BillingProofs, FiniteSetTheorems, WellFoundedInduction, Sequences

(***************************************************************************)
(* What the library's MapThenSumSet adds up to.  Its recursion is over the   *)
(* subsets of a set; that there is such a function, and what it is at each   *)
(* subset, follows from a subset with the fewest elements at which it fails. *)
(***************************************************************************)
\* Of a set of numbers one is the least.
LEMMA LeastOf ==
  ASSUME NEW T, T \subseteq Nat, T # {}
  PROVE  \E n \in T : \A m \in T : n <= m
<1>1. PICK n \in T : \A m \in T : ~(<<m, n>> \in OpToRel(<, Nat))
  BY WFMin, NatLessThanWellFounded
<1>2. \A m \in T : ~(m < n)
  BY <1>1 DEF OpToRel
<1>3. \A m \in T : m \in Nat
  OBVIOUS
<1> QED
  BY <1>2, <1>3

\* The fold of the library takes one element at a time, whichever CHOOSE names.
Pick(s) == CHOOSE x \in s : TRUE
SumOf(f, S) == MapThenSumSet(LAMBDA n : f[n], S)
Adds(f, S, g) ==
  g = [s \in SUBSET S |-> IF s = {} THEN 0 ELSE f[Pick(s)] + g[s \ {Pick(s)}]]
SumsOf(f, S) == CHOOSE g : Adds(f, S, g)

\* What is left when one is taken is smaller.
LEMMA Picked == ASSUME NEW S, NEW s, s \subseteq S, s # {}, IsFiniteSet(S)
  PROVE  /\ Pick(s) \in s /\ s \ {Pick(s)} \subseteq S
         /\ IsFiniteSet(s) /\ IsFiniteSet(s \ {Pick(s)})
         /\ Cardinality(s) \in Nat /\ Cardinality(s) > 0
         /\ Cardinality(s \ {Pick(s)}) = Cardinality(s) - 1
         /\ Cardinality(s \ {Pick(s)}) < Cardinality(s) /\ ~(Cardinality(s) <= 0)
<1>1. Pick(s) \in s
  BY DEF Pick
<1>2. IsFiniteSet(s) /\ Cardinality(s) \in Nat
  BY FS_Subset, FS_CardinalityType
<1>3. Cardinality(s \ {Pick(s)}) = Cardinality(s) - 1 /\ IsFiniteSet(s \ {Pick(s)})
  BY <1>1, <1>2, FS_RemoveElement
<1>4. Cardinality(s) # 0
  BY <1>2, FS_EmptySet
<1>5. \A k \in Nat : k # 0 => k > 0 /\ k - 1 < k /\ ~(k <= 0)
  OBVIOUS
<1> QED
  BY <1>1, <1>2, <1>3, <1>4, <1>5

\* There is such a function: subset by subset.
LEMMA SumsAreDefined ==
  ASSUME NEW f, NEW S, IsFiniteSet(S)
  PROVE  Adds(f, S, SumsOf(f, S))
<1> DEFINE Small(n) == {s \in SUBSET S : Cardinality(s) <= n}
           Fits(n, g) == g = [s \in Small(n) |-> IF s = {} THEN 0 ELSE f[Pick(s)] + g[s \ {Pick(s)}]]
           Bad == {n \in Nat : ~\E g : Fits(n, g)}
<1>1. Bad = {}
  <2> SUFFICES ASSUME Bad # {} PROVE FALSE
    OBVIOUS
  <2>1. PICK n \in Bad : \A m \in Bad : n <= m
    BY LeastOf
  <2>2. CASE n = 0
    <3>1. \A s \in Small(0) : s = {}
      <4> SUFFICES ASSUME NEW s \in Small(0), s # {} PROVE FALSE
        OBVIOUS
      <4>1. Cardinality(s) <= 0 /\ s \subseteq S
        OBVIOUS
      <4> QED
        BY <4>1, Picked
    <3>2. Fits(0, [s \in Small(0) |-> 0])
      BY <3>1
    <3> QED
      BY <2>1, <2>2, <3>2
  <2>3. CASE n # 0
    <3>1. n - 1 \in Nat /\ n - 1 \notin Bad
      <4>1. n \in Nat /\ n - 1 \in Nat /\ ~(n <= n - 1)
        BY <2>3
      <4> HIDE DEF Bad
      <4> QED BY <2>1, <4>1
    <3>2. PICK g : Fits(n - 1, g)
      BY <3>1
    <3> DEFINE h == [s \in Small(n) |-> IF s = {} THEN 0 ELSE f[Pick(s)] + g[s \ {Pick(s)}]]
    <3>3. \A s \in Small(n) : s # {} => s \ {Pick(s)} \in Small(n - 1) /\ s \ {Pick(s)} \in Small(n)
      <4> SUFFICES ASSUME NEW s \in SUBSET S, Cardinality(s) <= n, s # {}
                   PROVE  LET c == Cardinality(s \ {Pick(s)}) IN c <= n - 1 /\ c <= n /\ s \ {Pick(s)} \subseteq S
        OBVIOUS
      <4>1. Cardinality(s) \in Nat /\ Cardinality(s \ {Pick(s)}) = Cardinality(s) - 1 /\ s \ {Pick(s)} \subseteq S
        BY Picked
      <4> QED BY <2>1, <4>1
    <3>4. \A t \in Small(n - 1) : t \in Small(n) => g[t] = h[t]
      BY <3>2
    <3>5. \A s \in Small(n) : s # {} => g[s \ {Pick(s)}] = h[s \ {Pick(s)}]
      BY <3>3, <3>4
    <3>6. h = [s \in Small(n) |-> IF s = {} THEN 0 ELSE f[Pick(s)] + h[s \ {Pick(s)}]]
      <4> HIDE DEF Small, Fits, Bad
      <4> QED BY <3>5
    <3> QED
      BY <2>1, <3>6
  <2> QED
    BY <2>2, <2>3
<1>2. Cardinality(S) \in Nat
  BY FS_CardinalityType
<1>3. PICK g : Fits(Cardinality(S), g)
  BY <1>1, <1>2
<1>4. Small(Cardinality(S)) = SUBSET S
  BY FS_Subset
<1>5. Adds(f, S, g)
  BY <1>3, <1>4 DEF Adds
<1> QED
  BY <1>5 DEF SumsOf

\* So the sum of a subset is one of its elements and the sum of the rest.
LEMMA SumsStepByStep ==
  ASSUME NEW f, NEW S, IsFiniteSet(S), NEW g, g = SumsOf(f, S)
  PROVE  /\ g[{}] = 0
         /\ \A s \in SUBSET S : s # {} => g[s] = f[Pick(s)] + g[s \ {Pick(s)}]
<1>1. Adds(f, S, g)
  BY SumsAreDefined
<1>2. \A s \in SUBSET S : g[s] = IF s = {} THEN 0 ELSE f[Pick(s)] + g[s \ {Pick(s)}]
  BY <1>1 DEF Adds
<1> QED
  BY <1>2

\* Of the subsets with a property that fails, one has the fewest elements.
LEMMA SmallestOf ==
  ASSUME NEW S, IsFiniteSet(S), NEW B, B \subseteq SUBSET S, B # {}
  PROVE  \E s \in B : \A t \in SUBSET S : Cardinality(t) < Cardinality(s) => t \notin B
<1> DEFINE T == {Cardinality(s) : s \in B}
<1>1. \A s \in SUBSET S : Cardinality(s) \in Nat
  BY FS_Subset, FS_CardinalityType
<1>2. T \subseteq Nat /\ T # {}
  BY <1>1
<1> HIDE DEF T
<1>3. PICK n \in T : \A m \in T : n <= m
  BY <1>2, LeastOf
<1>4. PICK s \in B : n = Cardinality(s)
  BY <1>3 DEF T
<1>5. ASSUME NEW t \in SUBSET S, Cardinality(t) < Cardinality(s), t \in B PROVE FALSE
  <2>1. n <= Cardinality(t)
    BY <1>3, <1>5 DEF T
  <2> QED
    BY <1>1, <1>4, <1>5, <2>1
<1> QED
  BY <1>5

\* Sums of natural numbers are natural numbers.
LEMMA SumsAreNat ==
  ASSUME NEW f, NEW S, IsFiniteSet(S), \A n \in S : f[n] \in Nat
  PROVE  \A s \in SUBSET S : SumsOf(f, S)[s] \in Nat
<1> DEFINE g == SumsOf(f, S)
           B == {s \in SUBSET S : g[s] \notin Nat}
<1>1. g[{}] = 0 /\ \A s \in SUBSET S : s # {} => g[s] = f[Pick(s)] + g[s \ {Pick(s)}]
  BY SumsStepByStep
<1> HIDE DEF g
<1> SUFFICES ASSUME B # {} PROVE FALSE
  BY DEF g
<1>2. PICK s \in B : \A t \in SUBSET S : Cardinality(t) < Cardinality(s) => t \notin B
  <2>1. B \subseteq SUBSET S
    OBVIOUS
  <2> HIDE DEF B
  <2> QED BY <2>1, SmallestOf
<1>3. s # {} /\ s \in SUBSET S
  <2>1. s \in SUBSET S /\ g[s] \notin Nat /\ 0 \in Nat
    OBVIOUS
  <2> HIDE DEF B
  <2> QED BY <1>1, <2>1
<1>4. s \ {Pick(s)} \notin B /\ s \ {Pick(s)} \in SUBSET S /\ Pick(s) \in S
  <2>1. s \ {Pick(s)} \in SUBSET S /\ Pick(s) \in S /\ Cardinality(s \ {Pick(s)}) < Cardinality(s)
    BY <1>3, Picked
  <2> HIDE DEF B
  <2> QED BY <1>2, <2>1
<1> QED
  BY <1>1, <1>2, <1>3, <1>4

\* In whatever order.
LEMMA SumsOfAnyFirst ==
  ASSUME NEW f, NEW S, IsFiniteSet(S), \A n \in S : f[n] \in Nat
  PROVE  \A s \in SUBSET S : \A x \in s : SumsOf(f, S)[s] = f[x] + SumsOf(f, S)[s \ {x}]
<1> DEFINE g == SumsOf(f, S)
           B == {s \in SUBSET S : \E x \in s : g[s] # f[x] + g[s \ {x}]}
<1>1. g[{}] = 0 /\ \A s \in SUBSET S : s # {} => g[s] = f[Pick(s)] + g[s \ {Pick(s)}]
  BY SumsStepByStep
<1>n. \A s \in SUBSET S : g[s] \in Nat
  BY SumsAreNat
<1> HIDE DEF g
<1> SUFFICES ASSUME B # {} PROVE FALSE
  BY DEF g
<1>2. PICK s \in B : \A t \in SUBSET S : Cardinality(t) < Cardinality(s) => t \notin B
  <2>1. B \subseteq SUBSET S
    OBVIOUS
  <2> HIDE DEF B
  <2> QED BY <2>1, SmallestOf
<1>3. PICK x \in s : g[s] # f[x] + g[s \ {x}]
  BY <1>2
<1> DEFINE p == Pick(s)
<1>4. s # {} /\ s \in SUBSET S /\ p \in s /\ IsFiniteSet(s) /\ Cardinality(s \ {p}) = Cardinality(s) - 1 /\ Cardinality(s) \in Nat
  BY <1>2, <1>3, Picked
<1>5. g[s] = f[p] + g[s \ {p}]
  BY <1>1, <1>4
<1> HIDE DEF p
<1>6. p # x
  BY <1>3, <1>5
<1>7. Cardinality(s \ {x}) = Cardinality(s) - 1
  BY <1>3, <1>4, FS_RemoveElement
<1>8. s \ {p} \notin B /\ s \ {x} \notin B
  <2>1. Cardinality(s \ {p}) < Cardinality(s) /\ Cardinality(s \ {x}) < Cardinality(s)
    BY <1>4, <1>7
  <2>2. s \ {p} \in SUBSET S /\ s \ {x} \in SUBSET S
    BY <1>4
  <2> HIDE DEF B
  <2> QED BY <1>2, <2>1, <2>2
<1>9. g[s \ {p}] = f[x] + g[(s \ {p}) \ {x}] /\ g[s \ {x}] = f[p] + g[(s \ {x}) \ {p}]
  BY <1>3, <1>4, <1>6, <1>8
<1>10. (s \ {p}) \ {x} = (s \ {x}) \ {p}
  OBVIOUS
<1> HIDE DEF B
<1>11. /\ f[x] \in Nat /\ f[p] \in Nat /\ g[(s \ {x}) \ {p}] \in Nat /\ g[s \ {x}] \in Nat
  BY <1>3, <1>4, <1>n
<1> QED
  BY <1>3, <1>5, <1>9, <1>10, <1>11

\* Only what is added matters.
LEMMA SumsOfSame ==
  ASSUME NEW f, NEW S, IsFiniteSet(S), NEW e, NEW R, IsFiniteSet(R), S \subseteq R, \A n \in S : f[n] = e[n]
  PROVE  \A s \in SUBSET S : SumsOf(f, S)[s] = SumsOf(e, R)[s]
<1> DEFINE g == SumsOf(f, S)
           h == SumsOf(e, R)
           B == {s \in SUBSET S : g[s] # h[s]}
<1>1. g[{}] = 0 /\ \A s \in SUBSET S : s # {} => g[s] = f[Pick(s)] + g[s \ {Pick(s)}]
  BY SumsStepByStep
<1>h. h[{}] = 0 /\ \A s \in SUBSET R : s # {} => h[s] = e[Pick(s)] + h[s \ {Pick(s)}]
  BY SumsStepByStep
<1> HIDE DEF g, h
<1> SUFFICES ASSUME B # {} PROVE FALSE
  BY DEF g, h
<1>2. PICK s \in B : \A t \in SUBSET S : Cardinality(t) < Cardinality(s) => t \notin B
  <2>1. B \subseteq SUBSET S
    OBVIOUS
  <2> HIDE DEF B
  <2> QED BY <2>1, SmallestOf
<1>3. s # {} /\ s \in SUBSET S /\ s \in SUBSET R
  BY <1>1, <1>h
<1>4. s \ {Pick(s)} \notin B /\ Pick(s) \in S /\ s \ {Pick(s)} \in SUBSET S
  <2>1. s \ {Pick(s)} \in SUBSET S /\ Pick(s) \in S /\ Cardinality(s \ {Pick(s)}) < Cardinality(s)
    BY <1>3, Picked
  <2> HIDE DEF B
  <2> QED BY <1>2, <2>1
<1>5. g[s \ {Pick(s)}] = h[s \ {Pick(s)}] /\ f[Pick(s)] = e[Pick(s)]
  BY <1>4
<1> QED
  BY <1>1, <1>h, <1>2, <1>3, <1>5

\* The same of the operator itself.
LEMMA SumIsOfSums == ASSUME NEW f, NEW S PROVE SumOf(f, S) = SumsOf(f, S)[S]
  BY DEF SumOf, SumsOf, MapThenSumSet, MapThenFoldSet, Adds, Pick

LEMMA SumIsNat == ASSUME NEW f, NEW S, IsFiniteSet(S), \A n \in S : f[n] \in Nat PROVE SumOf(f, S) \in Nat
  BY SumIsOfSums, SumsAreNat

LEMMA SumOfNone == ASSUME NEW f PROVE SumOf(f, {}) = 0
  BY SumIsOfSums, SumsStepByStep, FS_EmptySet

LEMMA SumOfSame ==
  ASSUME NEW f, NEW S, IsFiniteSet(S), NEW e, \A n \in S : f[n] = e[n]
  PROVE  SumOf(f, S) = SumOf(e, S)
  BY SumIsOfSums, SumsOfSame

\* One element more adds its number, and fewer elements never add up to more.
LEMMA SumOfOneMore ==
  ASSUME NEW f, NEW S, IsFiniteSet(S), NEW x, x \notin S, \A n \in S \cup {x} : f[n] \in Nat
  PROVE  SumOf(f, S \cup {x}) = SumOf(f, S) + f[x]
<1> DEFINE R == S \cup {x}
<1>1. IsFiniteSet(R) /\ R \ {x} = S
  BY FS_AddElement
<1>2. SumsOf(f, R)[R] = f[x] + SumsOf(f, R)[S]
  BY <1>1, SumsOfAnyFirst
<1>3. SumsOf(f, R)[S] = SumsOf(f, S)[S]
  BY <1>1, SumsOfSame
<1>4. SumOf(f, R) = f[x] + SumOf(f, S) /\ SumOf(f, S) \in Nat /\ f[x] \in Nat
  BY <1>2, <1>3, SumIsOfSums, SumIsNat
<1> QED
  BY <1>4

LEMMA SumOfFewer ==
  ASSUME NEW f, NEW S, IsFiniteSet(S), NEW R, R \subseteq S, \A n \in S : f[n] \in Nat
  PROVE  SumOf(f, R) <= SumOf(f, S)
<1> DEFINE g == SumsOf(f, S)
           B == {s \in SUBSET S : R \subseteq s /\ ~(g[R] <= g[s])}
<1>1. \A s \in SUBSET S : \A x \in s : g[s] = f[x] + g[s \ {x}]
  <2> SUFFICES ASSUME NEW s \in SUBSET S, NEW x \in s PROVE g[s] = f[x] + g[s \ {x}]
    OBVIOUS
  <2>1. SumsOf(f, S)[s] = f[x] + SumsOf(f, S)[s \ {x}]
    BY SumsOfAnyFirst
  <2> QED BY <2>1
<1>n. \A s \in SUBSET S : g[s] \in Nat
  BY SumsAreNat
<1>e. SumOf(f, S) = g[S] /\ SumOf(f, R) = g[R]
  BY SumIsOfSums, SumsOfSame, FS_Subset
<1> HIDE DEF g
<1> SUFFICES ASSUME B # {} PROVE FALSE
  BY <1>e
<1>2. PICK s \in B : \A t \in SUBSET S : Cardinality(t) < Cardinality(s) => t \notin B
  <2>1. B \subseteq SUBSET S
    OBVIOUS
  <2> HIDE DEF B
  <2> QED BY <2>1, SmallestOf
<1>3. s \in SUBSET S /\ R \subseteq s /\ ~(g[R] <= g[s])
  BY <1>2
<1>4. PICK x \in s : x \notin R
  <2> SUFFICES ASSUME s = R PROVE FALSE
    BY <1>3
  <2>1. g[R] \in Nat
    BY <1>n
  <2> QED BY <1>3, <2>1
<1>5. IsFiniteSet(s) /\ Cardinality(s) \in Nat /\ Cardinality(s \ {x}) = Cardinality(s) - 1
  BY <1>3, <1>4, FS_Subset, FS_CardinalityType, FS_RemoveElement
<1>6. s \ {x} \notin B
  BY <1>2, <1>3, <1>5
<1>7. g[R] <= g[s \ {x}] /\ g[s] = f[x] + g[s \ {x}]
  BY <1>1, <1>3, <1>4, <1>6
<1>8. f[x] \in Nat /\ g[R] \in Nat /\ g[s \ {x}] \in Nat
  BY <1>3, <1>4, <1>n
<1> QED
  BY <1>3, <1>7, <1>8

(***************************************************************************)
(* Values that the actions build.                                          *)
(***************************************************************************)
LEMMA NoInvoiceType == NoInvoice \in Invoice
<1>1. NoTime \in Timestamp
  BY DEF NoTime, Timestamp
<1> QED
  BY <1>1, SeriesAssumption DEF NoInvoice, Invoice, InvoiceStatuses

LEMMA IdleType == Idle \in Operation
  BY NoInvoiceType, SeriesAssumption DEF Idle, Operation, InvoiceStatuses

LEMMA SnapType ==
  ASSUME NEW s \in Subscription
  PROVE  Snap(s) \in Snapshot
  BY DEF Snap, Snapshot, Subscription

LEMMA RestoreType ==
  ASSUME NEW s \in Subscription, NEW snap \in Snapshot
  PROVE  Restore(s, snap) \in Subscription
<1>1. /\ snap.status \in Statuses /\ snap.starts \in Timestamp /\ snap.ends \in Timestamp
      /\ snap.renewAt \in Timestamp /\ snap.canceledAt \in BOOLEAN /\ snap.dunning \in Nat
  BY DEF Snapshot
<1> QED
  BY <1>1, Zenon DEF Restore, Subscription

LEMMA FirstPeriodType == FirstPeriod \in Subscription
<1>1. Cardinality(Users) \in Nat /\ MonthLen \in Timestamp /\ 0 \in Timestamp
  BY UsersAssumption, PeriodAssumption, FS_CardinalityType DEF Timestamp
<1> QED
  BY <1>1 DEF FirstPeriod, Subscription, Plans, Statuses, Renewable, NoPlan, NoSeats

\* What a status change of a document preserves.
LEMMA StatusChangeType ==
  ASSUME NEW table \in [Numbers -> Invoice], NEW i, NEW st \in InvoiceStatuses
  PROVE  [table EXCEPT ![i].status = st] \in [Numbers -> Invoice]
  BY Zenon DEF Invoice

(***************************************************************************)
(* Type correctness.                                                       *)
(***************************************************************************)
LEMMA InitType == Init => TypeOK
<1> SUFFICES ASSUME Init PROVE TypeOK
  OBVIOUS
<1>1. /\ sub \in Subscription /\ Snap(FirstPeriod) \in Snapshot
  BY FirstPeriodType, SnapType DEF Init
<1>2. ext \in [Numbers -> Extension]
  BY <1>1 DEF Init, Extension
<1>3. /\ inv \in [Numbers -> Invoice] /\ op \in [Procs -> Operation]
  BY NoInvoiceType, IdleType DEF Init
<1>4. now \in Nat /\ kept \in Nat /\ counter \in 0 .. MaxInvoices
  BY SeriesAssumption DEF Init
<1>5. /\ active \in SUBSET Users /\ lock \in Procs \cup {NoProc}
      /\ inFlight \in Timestamp /\ renewed \in SUBSET Timestamp
  BY DEF Init, NoTime, Timestamp
<1> QED
  BY <1>1, <1>2, <1>3, <1>4, <1>5, Zenon DEF TypeOK

LEMMA AdminLoadsType ==
  ASSUME TypeOK, NEW a \in Admins, NEW act \in {"mark", "void"}, NEW i \in Numbers,
         AdminLoads(a, act, i)
  PROVE  TypeOK'
<1> DEFINE o == [Idle EXCEPT !.pc = "loaded", !.act = act, !.target = i,
                             !.status = inv[i].status]
<1>1. inv[i].status \in InvoiceStatuses /\ i \in 0 .. MaxInvoices
  BY SeriesAssumption DEF TypeOK, Invoice, Numbers
<1>2. o \in Operation
  BY <1>1, IdleType DEF Operation
<1>3. op' \in [Procs -> Operation]
  <2> HIDE DEF o
  <2>1. op' = [op EXCEPT ![a] = o]
    BY DEF AdminLoads, o
  <2> QED BY <1>2, <2>1 DEF TypeOK
<1> QED
  BY <1>3 DEF AdminLoads, TypeOK

LEMMA BackToIdleType ==
  ASSUME TypeOK, NEW p
  PROVE  [op EXCEPT ![p] = Idle] \in [Procs -> Operation]
  BY IdleType DEF TypeOK

LEMMA AdminMarksType ==
  ASSUME TypeOK, NEW a \in Admins, AdminMarks(a)
  PROVE  TypeOK'
<1> DEFINE i       == op[a].target
           paidSub == ApplyManualPayment(sub, now)
           e       == [recorded |-> TRUE, live |-> TRUE,
                       before |-> Snap(sub), after |-> Snap(paidSub)]
<1>1. inv' \in [Numbers -> Invoice]
  <2>1. "paid" \in InvoiceStatuses
    BY DEF InvoiceStatuses
  <2> QED BY <2>1, StatusChangeType DEF AdminMarks, TypeOK
<1>2. paidSub \in Subscription /\ sub \in Subscription
  BY ManualPaymentType DEF TypeOK
<1>3. e \in Extension
  BY <1>2, SnapType DEF Extension
<1>4. /\ sub' \in {sub, paidSub}
      /\ active' \in {active, active \ sub.victims}
      /\ ext' = ext \/ ext' = [ext EXCEPT ![i] = e]
  BY DEF AdminMarks
<1>5. ext' \in [Numbers -> Extension]
  <2> HIDE DEF e, i
  <2> QED BY <1>3, <1>4 DEF TypeOK
<1>6. sub' \in Subscription /\ active' \in SUBSET Users
  <2> HIDE DEF paidSub
  <2> QED BY <1>2, <1>4 DEF TypeOK
<1>7. op' \in [Procs -> Operation]
  BY BackToIdleType DEF AdminMarks
<1> QED
  BY <1>1, <1>5, <1>6, <1>7 DEF AdminMarks, TypeOK

LEMMA AdminVoidsType ==
  ASSUME TypeOK, NEW a \in Admins, AdminVoids(a)
  PROVE  TypeOK'
<1>1. inv' \in [Numbers -> Invoice]
  <2>1. "voided" \in InvoiceStatuses
    BY DEF InvoiceStatuses
  <2> QED BY <2>1, StatusChangeType DEF AdminVoids, TypeOK
<1>2. op' \in [Procs -> Operation]
  BY BackToIdleType DEF AdminVoids
<1> QED
  BY <1>1, <1>2 DEF AdminVoids, TypeOK

LEMMA AdminUnmarksType ==
  ASSUME TypeOK, NEW i \in Numbers, AdminUnmarks(i)
  PROVE  TypeOK'
<1>1. inv' \in [Numbers -> Invoice]
  <2>1. "issued" \in InvoiceStatuses
    BY DEF InvoiceStatuses
  <2> QED BY <2>1, StatusChangeType DEF AdminUnmarks, TypeOK
<1>2. Restore(sub, ext[i].before) \in Subscription
  <2>1. ext[i].before \in Snapshot
    BY DEF TypeOK, Extension
  <2> QED BY <2>1, RestoreType DEF TypeOK
<1>3. sub' \in Subscription /\ kept' \in Nat
  BY <1>2 DEF AdminUnmarks, TypeOK
<1>4. ext' \in [Numbers -> Extension]
  <2>1. ext' = [ext EXCEPT ![i].live = FALSE]
    BY DEF AdminUnmarks
  <2> QED BY <2>1, Zenon DEF TypeOK, Extension
<1> QED
  BY <1>1, <1>3, <1>4 DEF AdminUnmarks, TypeOK

LEMMA AdminConfirmsType ==
  ASSUME TypeOK, NEW i \in Numbers, AdminConfirms(i)
  PROVE  TypeOK'
<1>1. inv' \in [Numbers -> Invoice]
  <2>1. "issued" \in InvoiceStatuses
    BY DEF InvoiceStatuses
  <2> QED BY <2>1, StatusChangeType DEF AdminConfirms, TypeOK
<1> QED
  BY <1>1 DEF AdminConfirms, TypeOK

LEMMA IssuesType ==
  ASSUME TypeOK, NEW p \in Procs, NEW document \in Invoice, Issues(p, document)
  PROVE  TypeOK'
<1> DEFINE o == [Idle EXCEPT !.pc = "checked", !.act = "issue", !.new = document]
<1>1. o \in Operation
  BY IdleType DEF Operation
<1>2. op' \in [Procs -> Operation]
  <2> HIDE DEF o
  <2>1. op' = [op EXCEPT ![p] = o]
    BY DEF Issues, o
  <2> QED BY <1>1, <2>1 DEF TypeOK
<1> QED
  BY <1>2 DEF Issues, TypeOK

LEMMA TakesNumberType ==
  ASSUME TypeOK, NEW p \in Procs, TakesNumber(p)
  PROVE  TypeOK'
<1>1. NextNumber \in 0 .. MaxInvoices
  BY SeriesAssumption DEF TakesNumber, NextNumber, TypeOK
<1>2. op' \in [Procs -> Operation]
  <2> DEFINE o == [op[p] EXCEPT !.pc = "numbered", !.number = NextNumber]
  <2>1. op \in [Procs -> Operation] /\ op[p] \in Operation
    BY DEF TypeOK
  <2>2. o \in Operation
    BY <1>1, <2>1 DEF Operation
  <2>3. op' = [op EXCEPT ![p] = o]
    BY <2>1 DEF TakesNumber
  <2> HIDE DEF o
  <2> QED BY <2>1, <2>2, <2>3
<1> QED
  BY <1>2 DEF TakesNumber, TypeOK

LEMMA CommitsIssueType ==
  ASSUME TypeOK, NEW p \in Procs, CommitsIssue(p)
  PROVE  TypeOK'
<1>1. op[p].number \in 0 .. MaxInvoices /\ op[p].new \in Invoice
  BY DEF TypeOK, Operation
<1>2. inv' \in [Numbers -> Invoice] /\ counter' \in 0 .. MaxInvoices
  BY <1>1 DEF CommitsIssue, TypeOK
<1>3. op' \in [Procs -> Operation]
  BY BackToIdleType DEF CommitsIssue
<1> QED
  BY <1>2, <1>3 DEF CommitsIssue, TypeOK

LEMMA RollsBackType ==
  ASSUME TypeOK, NEW p \in Procs, RollsBack(p)
  PROVE  TypeOK'
<1>1. op' \in [Procs -> Operation]
  BY BackToIdleType DEF RollsBack
<1> QED
  BY <1>1 DEF RollsBack, Released, TypeOK

LEMMA RenewalExtendsType ==
  ASSUME TypeOK, RenewalExtends
  PROVE  /\ sub' \in Subscription /\ active' \in SUBSET Users
         /\ inFlight' \in Timestamp /\ renewed' \in SUBSET Timestamp
<1>1. sub \in Subscription /\ now \in Int /\ active \in SUBSET Users
  BY DEF TypeOK
<1>2. ApplyRenewal(sub, now) \in Subscription
  BY <1>1, RenewalType
<1>3. sub' \in Subscription
  BY <1>2 DEF RenewalExtends
<1>4. active' \in SUBSET Users
  BY <1>1 DEF RenewalExtends
<1>5. inFlight' \in Timestamp /\ renewed' \in SUBSET Timestamp
  BY DEF RenewalExtends, TypeOK, NoTime, Timestamp
<1> QED
  BY <1>3, <1>4, <1>5

LEMMA RenewalDocumentType ==
  ASSUME TypeOK, NEW st \in {"issued", "draft"}
  PROVE  [NoInvoice EXCEPT !.status = st, !.linked = TRUE, !.charged = TRUE,
                           !.period = now, !.total = FullTotal] \in Invoice
<1>1. st \in InvoiceStatuses /\ now \in Timestamp /\ FullTotal \in Nat
  BY SeriesAssumption DEF InvoiceStatuses, Timestamp, TypeOK
<1> QED
  BY <1>1, NoInvoiceType, Zenon DEF Invoice

LEMMA DraftsVoidedType ==
  ASSUME TypeOK
  PROVE  WithDraftsVoided \in [Numbers -> Invoice]
<1>1. ASSUME NEW i \in Numbers
      PROVE  [inv[i] EXCEPT !.status = "voided"] \in Invoice
  <2>1. inv[i] \in Invoice /\ "voided" \in InvoiceStatuses
    BY DEF TypeOK, InvoiceStatuses
  <2> QED BY <2>1, Zenon DEF Invoice
<1> QED
  BY <1>1 DEF WithDraftsVoided, TypeOK

LEMMA RenewalIssuesType ==
  ASSUME TypeOK, NEW st \in {"issued", "draft"}, RenewalIssues(st)
  PROVE  TypeOK'
<1> DEFINE d == [NoInvoice EXCEPT !.status = st, !.linked = TRUE, !.charged = TRUE,
                                  !.period = now, !.total = FullTotal]
<1>1. d \in Invoice
  BY RenewalDocumentType
<1>2. inv' \in [Numbers -> Invoice]
  <2>1. inv' = [WithDraftsVoided EXCEPT ![NextNumber] = d]
    BY DEF RenewalIssues
  <2> HIDE DEF d
  <2> QED BY <1>1, <2>1, DraftsVoidedType
<1>3. counter' \in 0 .. MaxInvoices
  BY SeriesAssumption DEF RenewalIssues, NextNumber, TypeOK
<1> QED
  BY <1>2, <1>3, RenewalExtendsType DEF RenewalIssues, TypeOK

LEMMA DecidesType ==
  ASSUME TypeOK, NEW decision, NEW s \in Subscription, Decides(decision, s)
  PROVE  TypeOK'
  BY DEF Decides, TypeOK

LEMMA AdminStepType == TypeOK /\ AdminStep => TypeOK'
<1> SUFFICES ASSUME TypeOK, AdminStep PROVE TypeOK'
  OBVIOUS
<1>1. ASSUME NEW a \in Admins, NEW act \in {"mark", "void"}, NEW i \in Numbers,
             AdminLoads(a, act, i)
      PROVE  TypeOK'
  BY <1>1, AdminLoadsType
<1>2. ASSUME NEW a \in Admins, AdminMarks(a) \/ AdminVoids(a)
      PROVE  TypeOK'
  BY <1>2, AdminMarksType, AdminVoidsType
<1>3. ASSUME NEW a \in Admins, NEW linked \in Linking, AdminInvoices(a, linked)
      PROVE  TypeOK'
  <2> DEFINE d == [NoInvoice EXCEPT !.status = "issued", !.linked = linked,
                                    !.total = FullTotal]
  <2>1. linked \in BOOLEAN /\ FullTotal \in Nat /\ "issued" \in InvoiceStatuses
    BY SeriesAssumption DEF InvoiceStatuses
  <2>2. d \in Invoice
    BY <2>1, NoInvoiceType, Zenon DEF Invoice
  <2>3. Issues(a, d) /\ a \in Procs
    BY <1>3 DEF AdminInvoices, Procs
  <2> HIDE DEF d
  <2> QED BY <2>2, <2>3, IssuesType
<1>4. ASSUME NEW a \in Admins, NEW i \in Numbers, NEW k \in Amounts, AdminCredits(a, i, k)
      PROVE  TypeOK'
  <2> DEFINE d == [NoInvoice EXCEPT !.status = "issued", !.kind = "credit_note",
                                    !.total = k, !.original = i]
  <2>1. /\ k \in Nat /\ i \in 0 .. MaxInvoices /\ "issued" \in InvoiceStatuses
        /\ "credit_note" \in {"invoice", "credit_note"}
    BY SeriesAssumption DEF InvoiceStatuses, Numbers
  <2>2. d \in Invoice
    BY <2>1, NoInvoiceType, Zenon DEF Invoice
  <2>3. Issues(a, d) /\ a \in Procs
    BY <1>4 DEF AdminCredits, Procs
  <2> HIDE DEF d
  <2> QED BY <2>2, <2>3, IssuesType
<1>5. ASSUME NEW i \in Numbers, AdminUnmarks(i) \/ AdminConfirms(i)
      PROVE  TypeOK'
  BY <1>5, AdminUnmarksType, AdminConfirmsType
<1>6. CASE AdminCancels
  <2>1. HardCancel(sub) \in Subscription
    BY HardCancelType DEF TypeOK
  <2> QED BY <1>6, <2>1, DecidesType DEF AdminCancels
<1> QED
  BY <1>1, <1>2, <1>3, <1>4, <1>5, <1>6 DEF AdminStep

LEMMA IssueStepType == TypeOK /\ IssueStep => TypeOK'
<1> SUFFICES ASSUME TypeOK, IssueStep PROVE TypeOK'
  OBVIOUS
<1>1. CASE DraftSweep
  <2> DEFINE d == [NoInvoice EXCEPT !.status = "draft", !.linked = TRUE,
                                    !.period = sub.ends, !.total = FullTotal]
  <2>1. sub.ends \in Timestamp /\ FullTotal \in Nat /\ "draft" \in InvoiceStatuses
    BY SeriesAssumption DEF InvoiceStatuses, TypeOK, Subscription
  <2>2. d \in Invoice
    BY <2>1, NoInvoiceType, Zenon DEF Invoice
  <2>3. Issues(Sweeper, d) /\ Sweeper \in Procs
    BY <1>1 DEF DraftSweep, Procs
  <2> HIDE DEF d
  <2> QED BY <2>2, <2>3, IssuesType
<1>2. ASSUME NEW p \in Procs, TakesNumber(p) \/ CommitsIssue(p) \/ RollsBack(p)
      PROVE  TypeOK'
  BY <1>2, TakesNumberType, CommitsIssueType, RollsBackType
<1> QED
  BY <1>1, <1>2 DEF IssueStep

LEMMA RenewalStepType == TypeOK /\ RenewalStep => TypeOK'
<1> SUFFICES ASSUME TypeOK, RenewalStep PROVE TypeOK'
  OBVIOUS
<1>1. CASE RenewalStarts
  BY <1>1 DEF RenewalStarts, TypeOK, Subscription
<1>2. CASE RenewalWithoutInvoice
  BY <1>2, RenewalExtendsType DEF RenewalWithoutInvoice, TypeOK
<1> QED
  BY <1>1, <1>2, RenewalIssuesType DEF RenewalStep

LEMMA CustomerStepType == TypeOK /\ CustomerStep => TypeOK'
<1> SUFFICES ASSUME TypeOK, CustomerStep PROVE TypeOK'
  OBVIOUS
<1>1. CASE CustomerCancels
  <2>1. CancelSelfServe(sub) \in Subscription
    BY CancelSelfServeType DEF TypeOK
  <2> QED BY <1>1, <2>1, DecidesType DEF CustomerCancels
<1>2. CASE CustomerReactivates
  <2>1. Reactivate(sub) \in Subscription
    BY ReactivateType DEF TypeOK
  <2> QED BY <1>2, <2>1, DecidesType DEF CustomerReactivates
<1>3. ASSUME NEW victims \in SUBSET (active \ {Owner}), CustomerQueuesDownsize(victims)
      PROVE  TypeOK'
  <2> DEFINE n == Cardinality(active \ victims)
             s == [sub EXCEPT !.pendingSeats = n, !.victims = victims]
  <2>1. active \ victims \in SUBSET Users /\ victims \in SUBSET Users
    BY DEF TypeOK
  <2>2. IsFiniteSet(active \ victims)
    BY <2>1, UsersAssumption, FS_Subset
  <2>3. n \in Nat
    BY <2>2, FS_CardinalityType
  <2>4. s \in Subscription
    <3> HIDE DEF n
    <3> QED BY <2>1, <2>3, Zenon DEF TypeOK, Subscription
  <2>5. Decides("downsize", s)
    BY <1>3 DEF CustomerQueuesDownsize
  <2> HIDE DEF s
  <2> QED BY <2>4, <2>5, DecidesType
<1> QED
  BY <1>1, <1>2, <1>3 DEF CustomerStep

LEMMA NextType == TypeOK /\ [Next]_vars => TypeOK'
<1> SUFFICES ASSUME TypeOK, [Next]_vars PROVE TypeOK'
  OBVIOUS
<1>1. CASE Tick
  BY <1>1 DEF Tick, TypeOK
<1>2. CASE UNCHANGED vars
  BY <1>2 DEF vars, TypeOK
<1> QED
  BY <1>1, <1>2, AdminStepType, IssueStepType, RenewalStepType, CustomerStepType DEF Next

\* Whatever fails and in whatever order it commits, the counter, the documents,
\* the audit snapshots and the subscription keep their types.
THEOREM TypeCorrect == Spec => []TypeOK
  BY InitType, NextType, PTL DEF Spec

(***************************************************************************)
(* The series has no gap.  Inductive because whoever has taken a number     *)
(* still holds the lock, so the counter cannot have moved under it, and     *)
(* because whatever a request is about to write is a document.              *)
(***************************************************************************)
NumberIsNext ==
  \A p \in Procs : op[p].pc = "numbered" =>
    /\ lock = p
    /\ op[p].number = counter + 1
    /\ counter < MaxInvoices
WritesDocuments ==
  \A p \in Procs :
    /\ op[p].pc \in {"checked", "numbered"} => op[p].new.status # "none"
    /\ op[p].pc = "loaded" =>
         op[p].target \in Numbers /\ inv[op[p].target].status # "none"

IInv == TypeOK /\ NumberIsNext /\ WritesDocuments /\ NumbersAreGapless

LEMMA InitIInv == Init => IInv
<1> SUFFICES ASSUME Init PROVE IInv
  OBVIOUS
<1>1. NumberIsNext /\ WritesDocuments
  BY DEF Init, Idle, NumberIsNext, WritesDocuments
<1>2. NumbersAreGapless
  BY SeriesAssumption DEF Init, NoInvoice, NumbersAreGapless, Numbers
<1> QED
  BY <1>1, <1>2, InitType DEF IInv

\* A step that only changes the status of documents that exist, and gives no
\* request anything new to write, keeps the invariant.
LEMMA StatusStep ==
  ASSUME IInv, TypeOK', counter' = counter, lock' = lock,
         \A i \in Numbers : inv[i].status = "none" <=> inv'[i].status = "none",
         \A p \in Procs : op'[p] = op[p] \/ op'[p] = Idle
  PROVE  IInv'
<1>1. NumberIsNext'
  BY DEF IInv, NumberIsNext, Idle
<1>2. WritesDocuments'
  BY DEF IInv, WritesDocuments, Idle
<1>3. NumbersAreGapless'
  BY DEF IInv, NumbersAreGapless
<1> QED
  BY <1>1, <1>2, <1>3 DEF IInv

LEMMA StatusSet ==
  ASSUME TypeOK, NEW j \in Numbers, inv[j].status # "none",
         NEW st \in {"issued", "paid", "voided"},
         inv' = [inv EXCEPT ![j].status = st]
  PROVE  \A i \in Numbers : inv[i].status = "none" <=> inv'[i].status = "none"
  BY DEF TypeOK, Invoice

LEMMA AdminTransitionsKeepIInv ==
  ASSUME IInv,
         \/ \E a \in Admins : AdminMarks(a) \/ AdminVoids(a)
         \/ \E i \in Numbers : AdminUnmarks(i) \/ AdminConfirms(i)
         \/ AdminCancels
  PROVE  IInv'
<1> TypeOK /\ TypeOK'
  BY AdminMarksType, AdminVoidsType, AdminUnmarksType, AdminConfirmsType, AdminStepType
  DEF IInv, AdminStep
<1>1. ASSUME NEW a \in Admins, AdminMarks(a) \/ AdminVoids(a)
      PROVE  IInv'
  <2> DEFINE j == op[a].target
  <2>1. j \in Numbers /\ inv[j].status # "none"
    BY <1>1 DEF IInv, WritesDocuments, AdminMarks, AdminVoids, Procs
  <2>2. /\ \/ inv' = [inv EXCEPT ![j].status = "paid"]
           \/ inv' = [inv EXCEPT ![j].status = "voided"]
        /\ op' = [op EXCEPT ![a] = Idle] /\ counter' = counter /\ lock' = lock
    BY <1>1 DEF AdminMarks, AdminVoids
  <2>3. \A i \in Numbers : inv[i].status = "none" <=> inv'[i].status = "none"
    <3> HIDE DEF j
    <3> QED BY <2>1, <2>2, StatusSet
  <2>4. \A p \in Procs : op'[p] = op[p] \/ op'[p] = Idle
    BY <2>2 DEF TypeOK
  <2> QED BY <2>2, <2>3, <2>4, StatusStep
<1>2. ASSUME NEW i \in Numbers, AdminUnmarks(i) \/ AdminConfirms(i)
      PROVE  IInv'
  <2>1. /\ inv[i].status # "none"
        /\ inv' = [inv EXCEPT ![i].status = "issued"]
        /\ op' = op /\ counter' = counter /\ lock' = lock
    BY <1>2 DEF AdminUnmarks, AdminConfirms
  <2>2. \A k \in Numbers : inv[k].status = "none" <=> inv'[k].status = "none"
    BY <2>1, StatusSet
  <2> QED BY <2>1, <2>2, StatusStep
<1>3. CASE AdminCancels
  BY <1>3, StatusStep DEF AdminCancels, Decides
<1> QED
  BY <1>1, <1>2, <1>3

\* A request that starts loads a document that exists or is about to write one.
LEMMA RequestStartsKeepsIInv ==
  ASSUME IInv, TypeOK', NEW p \in Procs, op[p].pc = "idle",
         NEW o, op' = [op EXCEPT ![p] = o],
         \/ o.pc = "checked" /\ o.new.status # "none"
         \/ o.pc = "loaded" /\ o.target \in Numbers /\ inv[o.target].status # "none",
         UNCHANGED <<counter, lock, inv>>
  PROVE  IInv'
<1>1. \A q \in Procs : op'[q] = IF q = p THEN o ELSE op[q]
  BY DEF IInv, TypeOK
<1>2. NumberIsNext'
  BY <1>1 DEF IInv, NumberIsNext
<1>3. WritesDocuments'
  BY <1>1 DEF IInv, WritesDocuments
<1>4. NumbersAreGapless'
  BY DEF IInv, NumbersAreGapless
<1> QED
  BY <1>2, <1>3, <1>4 DEF IInv

LEMMA IssuesKeepsIInv ==
  ASSUME IInv, TypeOK', NEW p \in Procs, NEW d, d.status # "none", Issues(p, d)
  PROVE  IInv'
<1> DEFINE o == [Idle EXCEPT !.pc = "checked", !.act = "issue", !.new = d]
<1>1. o.pc = "checked" /\ o.new.status # "none"
  BY DEF Idle
<1>2. op[p].pc = "idle" /\ op' = [op EXCEPT ![p] = o] /\ UNCHANGED <<counter, lock, inv>>
  BY DEF Issues
<1> HIDE DEF o
<1> QED
  BY <1>1, <1>2, RequestStartsKeepsIInv

LEMMA AdminKeepsIInv == IInv /\ AdminStep => IInv'
<1> SUFFICES ASSUME IInv, AdminStep PROVE IInv'
  OBVIOUS
<1> TypeOK'
  BY AdminStepType DEF IInv
<1>1. ASSUME NEW a \in Admins, NEW act \in {"mark", "void"}, NEW i \in Numbers,
             AdminLoads(a, act, i)
      PROVE  IInv'
  <2> DEFINE o == [Idle EXCEPT !.pc = "loaded", !.act = act, !.target = i,
                               !.status = inv[i].status]
  <2>1. o.pc = "loaded" /\ o.target \in Numbers /\ inv[o.target].status # "none"
    BY <1>1 DEF AdminLoads, Idle, Payable
  <2>2. /\ a \in Procs /\ op[a].pc = "idle" /\ op' = [op EXCEPT ![a] = o]
        /\ UNCHANGED <<counter, lock, inv>>
    BY <1>1 DEF AdminLoads, Procs
  <2> HIDE DEF o
  <2> QED BY <2>1, <2>2, RequestStartsKeepsIInv
<1>2. ASSUME NEW a \in Admins, NEW linked \in Linking, AdminInvoices(a, linked)
      PROVE  IInv'
  <2> DEFINE d == [NoInvoice EXCEPT !.status = "issued", !.linked = linked,
                                    !.total = FullTotal]
  <2>1. d.status # "none" /\ Issues(a, d) /\ a \in Procs
    BY <1>2 DEF AdminInvoices, NoInvoice, Procs
  <2> HIDE DEF d
  <2> QED BY <2>1, IssuesKeepsIInv
<1>3. ASSUME NEW a \in Admins, NEW i \in Numbers, NEW k \in Amounts, AdminCredits(a, i, k)
      PROVE  IInv'
  <2> DEFINE d == [NoInvoice EXCEPT !.status = "issued", !.kind = "credit_note",
                                    !.total = k, !.original = i]
  <2>1. d.status # "none" /\ Issues(a, d) /\ a \in Procs
    BY <1>3 DEF AdminCredits, NoInvoice, Procs
  <2> HIDE DEF d
  <2> QED BY <2>1, IssuesKeepsIInv
<1> QED
  BY <1>1, <1>2, <1>3, AdminTransitionsKeepIInv DEF AdminStep

LEMMA IssueKeepsIInv == IInv /\ IssueStep => IInv'
<1> SUFFICES ASSUME IInv, IssueStep PROVE IInv'
  OBVIOUS
<1> TypeOK /\ TypeOK'
  BY IssueStepType DEF IInv
<1>1. CASE DraftSweep
  <2> DEFINE d == [NoInvoice EXCEPT !.status = "draft", !.linked = TRUE,
                                    !.period = sub.ends, !.total = FullTotal]
  <2>1. d.status # "none" /\ Issues(Sweeper, d) /\ Sweeper \in Procs
    BY <1>1 DEF DraftSweep, NoInvoice, Procs
  <2> HIDE DEF d
  <2> QED BY <2>1, IssuesKeepsIInv
<1>2. ASSUME NEW p \in Procs, TakesNumber(p)
      PROVE  IInv'
  <2>1. /\ op[p].pc = "checked" /\ op[p] \in Operation
        /\ lock' = p /\ counter < MaxInvoices /\ UNCHANGED <<counter, inv>>
        /\ op' = [op EXCEPT ![p].pc = "numbered", ![p].number = counter + 1]
    BY <1>2 DEF TakesNumber, NextNumber, TypeOK
  <2>2. /\ \A q \in Procs : q # p => op'[q] = op[q]
        /\ op'[p].pc = "numbered" /\ op'[p].number = counter + 1
        /\ op'[p].new = op[p].new
    BY <2>1 DEF TypeOK, Operation
  <2>3. \A q \in Procs : q # p => op[q].pc # "numbered"
    BY <1>2, ProcsAssumption DEF TakesNumber, IInv, NumberIsNext, Procs
  <2>4. NumberIsNext'
    BY <2>1, <2>2, <2>3 DEF NumberIsNext
  <2>5. WritesDocuments'
    BY <2>1, <2>2 DEF IInv, WritesDocuments
  <2>6. NumbersAreGapless'
    BY <2>1 DEF IInv, NumbersAreGapless
  <2> QED BY <2>4, <2>5, <2>6 DEF IInv
<1>3. ASSUME NEW p \in Procs, CommitsIssue(p)
      PROVE  IInv'
  <2>1. /\ op[p].pc = "numbered" /\ op[p].number = counter + 1 /\ lock = p
        /\ counter < MaxInvoices /\ op[p].new.status # "none"
    BY <1>3 DEF CommitsIssue, IInv, NumberIsNext, WritesDocuments
  <2>2. counter + 1 \in Numbers /\ counter \in Nat
    BY <2>1, SeriesAssumption DEF TypeOK, Numbers
  <2>3. \A i \in Numbers : inv'[i] = IF i = counter + 1 THEN op[p].new ELSE inv[i]
    BY <1>3, <2>1, <2>2 DEF CommitsIssue, TypeOK
  <2>4. \A q \in Procs : op'[q] = IF q = p THEN Idle ELSE op[q]
    BY <1>3 DEF CommitsIssue, TypeOK
  <2>5. NumberIsNext'
    BY <2>1, <2>4 DEF IInv, NumberIsNext, Idle
  <2>6. WritesDocuments'
    BY <2>1, <2>3, <2>4 DEF IInv, WritesDocuments, Idle
  <2>7. counter' = counter + 1
    BY <1>3, <2>1 DEF CommitsIssue
  <2>8. NumbersAreGapless'
    <3>1. SUFFICES ASSUME NEW i \in Numbers
                   PROVE  inv'[i].status # "none" <=> i <= counter + 1
      BY <2>7 DEF NumbersAreGapless
    <3>2. inv[i].status # "none" <=> i <= counter
      BY DEF IInv, NumbersAreGapless
    <3> QED BY <2>1, <2>2, <2>3, <3>2 DEF Numbers
  <2> QED BY <2>5, <2>6, <2>8 DEF IInv
<1>4. ASSUME NEW p \in Procs, RollsBack(p)
      PROVE  IInv'
  <2>1. \A q \in Procs : op'[q] = IF q = p THEN Idle ELSE op[q]
    BY <1>4 DEF RollsBack, TypeOK
  <2>2. \A q \in Procs : q # p /\ lock = q => lock' = q
    BY <1>4 DEF RollsBack, Released
  <2>3. NumberIsNext'
    BY <1>4, <2>1, <2>2 DEF RollsBack, IInv, NumberIsNext, Idle
  <2>4. WritesDocuments'
    BY <1>4, <2>1 DEF RollsBack, IInv, WritesDocuments, Idle
  <2>5. NumbersAreGapless'
    BY <1>4 DEF RollsBack, IInv, NumbersAreGapless
  <2> QED BY <2>3, <2>4, <2>5 DEF IInv
<1> QED
  BY <1>1, <1>2, <1>3, <1>4 DEF IssueStep

LEMMA RenewalIssuesKeepsIInv ==
  ASSUME IInv, TypeOK', NEW st \in {"issued", "draft"}, RenewalIssues(st)
  PROVE  IInv'
<1> DEFINE d == [NoInvoice EXCEPT !.status = st, !.linked = TRUE, !.charged = TRUE,
                                  !.period = now, !.total = FullTotal]
<1>1. /\ d.status # "none" /\ counter + 1 \in Numbers /\ counter \in Nat
      /\ counter' = counter + 1 /\ op' = op
  BY SeriesAssumption DEF RenewalIssues, NextNumber, NoInvoice, IInv, TypeOK, Numbers
<1>2. inv' = [WithDraftsVoided EXCEPT ![counter + 1] = d]
  BY DEF RenewalIssues, NextNumber
<1>3. \A i \in Numbers : WithDraftsVoided[i].status = "none" <=> inv[i].status = "none"
  BY DEF WithDraftsVoided, IInv, TypeOK, Invoice
<1>4. DOMAIN WithDraftsVoided = Numbers
  BY DEF WithDraftsVoided
<1>5. \A i \in Numbers : inv'[i] = IF i = counter + 1 THEN d ELSE WithDraftsVoided[i]
  <2> HIDE DEF d
  <2> QED BY <1>2, <1>4, DraftsVoidedType DEF IInv
<1>6. \A p \in Procs : op[p].pc # "numbered"
  BY ProcsAssumption DEF RenewalIssues, IInv, NumberIsNext, Procs
<1>7. NumberIsNext'
  BY <1>1, <1>6 DEF NumberIsNext
<1>8. WritesDocuments'
  <2> HIDE DEF d
  <2> QED BY <1>1, <1>3, <1>5 DEF IInv, WritesDocuments
<1>9. NumbersAreGapless'
  <2>1. SUFFICES ASSUME NEW i \in Numbers
                 PROVE  inv'[i].status # "none" <=> i <= counter + 1
    BY <1>1 DEF NumbersAreGapless
  <2>2. inv[i].status # "none" <=> i <= counter
    BY DEF IInv, NumbersAreGapless
  <2> HIDE DEF d
  <2> QED BY <1>1, <1>3, <1>5, <2>2 DEF Numbers
<1> QED
  BY <1>7, <1>8, <1>9 DEF IInv

LEMMA NextIInv == IInv /\ [Next]_vars => IInv'
<1> SUFFICES ASSUME IInv, [Next]_vars PROVE IInv'
  OBVIOUS
<1> TypeOK'
  BY NextType DEF IInv
<1>1. CASE Tick
  BY <1>1, StatusStep DEF Tick
<1>2. CASE RenewalStep
  <2>1. CASE RenewalStarts
    BY <2>1, StatusStep DEF RenewalStarts
  <2>2. CASE RenewalWithoutInvoice
    BY <2>2, StatusStep DEF RenewalWithoutInvoice
  <2> QED BY <1>2, <2>1, <2>2, RenewalIssuesKeepsIInv DEF RenewalStep
<1>3. CASE CustomerStep
  <2>1. UNCHANGED <<counter, lock, inv, op>>
    BY <1>3 DEF CustomerStep, CustomerCancels, CustomerReactivates, CustomerQueuesDownsize,
                Decides
  <2> QED BY <2>1, StatusStep
<1>4. CASE UNCHANGED vars
  BY <1>4, StatusStep DEF vars
<1> QED
  BY <1>1, <1>2, <1>3, <1>4, AdminKeepsIInv, IssueKeepsIInv DEF Next

\* The yearly series has no gap and no number is used twice, whichever requests
\* fail, are rolled back or race for the counter.
THEOREM SeriesIsGapless == Spec => []NumbersAreGapless
<1>1. IInv => NumbersAreGapless
  BY DEF IInv
<1> QED
  BY <1>1, InitIInv, NextIInv, PTL DEF Spec

-----------------------------------------------------------------------------
(***************************************************************************)
(* One projection per period.  A projection is a draft no charge has paid    *)
(* for; only the sweep writes one, and what it is about to write is of a     *)
(* period no projection has.  While it waits for its number that stays so,   *)
(* because whatever anybody else does takes projections away.               *)
(***************************************************************************)
Projection(d) == d.status = "draft" /\ ~d.charged

ProjectionsAreSingle ==
  /\ \A i \in Numbers : Projection(inv[i]) => inv[i].linked
  /\ \A a \in Admins : op[a].new.status # "draft"
  /\ op[Sweeper].new.status = "draft" =>
       /\ op[Sweeper].new.linked /\ ~op[Sweeper].new.charged
       /\ \A i \in Numbers : Projection(inv[i]) => inv[i].period # op[Sweeper].new.period
  /\ OneProjectionPerPeriod

\* No projection is added, and nobody comes to hold the draft of one.
NoNewProjection ==
  /\ \A i \in Numbers : Projection(inv[i])' =>
       /\ Projection(inv[i])
       /\ inv'[i].linked = inv[i].linked /\ inv'[i].period = inv[i].period
  /\ \A p \in Procs : op'[p].new = op[p].new \/ op'[p].new.status # "draft"

LEMMA NoNewProjectionKeepsSingle ==
  ASSUME ProjectionsAreSingle, NoNewProjection
  PROVE  ProjectionsAreSingle'
<1>1. \A i \in Numbers : Projection(inv[i])' => inv'[i].linked
  BY DEF ProjectionsAreSingle, NoNewProjection
<1>2. \A a \in Admins : op'[a].new.status # "draft"
  BY DEF ProjectionsAreSingle, NoNewProjection, Procs
<1>3. op'[Sweeper].new.status = "draft" =>
        /\ op'[Sweeper].new.linked /\ ~op'[Sweeper].new.charged
        /\ \A i \in Numbers : Projection(inv[i])' =>
             inv'[i].period # op'[Sweeper].new.period
  BY DEF ProjectionsAreSingle, NoNewProjection, Procs
<1>4. OneProjectionPerPeriod'
  BY DEF ProjectionsAreSingle, NoNewProjection, OneProjectionPerPeriod, Projection
<1> QED
  BY <1>1, <1>2, <1>3, <1>4 DEF ProjectionsAreSingle

\* Another status than draft for one document adds no projection.
LEMMA StatusAddsNoProjection ==
  ASSUME TypeOK, NEW j, NEW st \in {"issued", "paid", "voided"},
         inv' = [inv EXCEPT ![j].status = st],
         \A p \in Procs : op'[p] = op[p] \/ op'[p] = Idle
  PROVE  NoNewProjection
<1>1. \A i \in Numbers : inv'[i].status = "draft" => inv'[i] = inv[i]
  BY DEF TypeOK, Invoice
<1>2. \A p \in Procs : op'[p].new = op[p].new \/ op'[p].new.status # "draft"
  BY DEF Idle, NoInvoice
<1> QED
  BY <1>1, <1>2 DEF NoNewProjection, Projection

LEMMA SameTableAddsNoProjection ==
  ASSUME UNCHANGED inv,
         \A p \in Procs : op'[p] = op[p] \/ op'[p].new.status # "draft"
  PROVE  NoNewProjection
  BY DEF NoNewProjection, Projection

LEMMA CommitKeepsSingle ==
  ASSUME TypeOK, ProjectionsAreSingle, NEW p \in Procs, CommitsIssue(p)
  PROVE  ProjectionsAreSingle'
<1> DEFINE n == op[p].number
           d == op[p].new
<1>1. \A i \in Numbers : inv'[i] = IF i = n THEN d ELSE inv[i]
  BY DEF CommitsIssue, TypeOK
<1>2. \A q \in Procs : op'[q] = IF q = p THEN Idle ELSE op[q]
  BY DEF CommitsIssue, TypeOK
<1>3. Idle.new.status # "draft"
  BY DEF Idle, NoInvoice
<1>4. Projection(d) => p = Sweeper
  BY DEF ProjectionsAreSingle, Projection, Procs
<1>5. CASE p = Sweeper
  <2>1. op'[Sweeper] = Idle
    BY <1>2, <1>5
  <2>2. \A a \in Admins : op'[a].new.status # "draft"
    BY <1>2, <1>3 DEF ProjectionsAreSingle, Procs
  <2>3. Projection(d) => d.linked /\ \A i \in Numbers :
                           Projection(inv[i]) => inv[i].period # d.period
    BY <1>5 DEF ProjectionsAreSingle, Projection
  <2>4. \A i \in Numbers : Projection(inv[i])' => inv'[i].linked
    BY <1>1, <2>3 DEF ProjectionsAreSingle, Projection
  <2>5. OneProjectionPerPeriod'
    <3> SUFFICES ASSUME NEW i \in Numbers, NEW j \in Numbers,
                        Projection(inv[i])', Projection(inv[j])',
                        inv'[i].period = inv'[j].period
                 PROVE  i = j
      BY DEF OneProjectionPerPeriod, Projection
    <3>1. CASE i # n /\ j # n
      BY <1>1, <3>1 DEF ProjectionsAreSingle, OneProjectionPerPeriod, Projection
    <3>2. CASE i = n /\ j # n
      BY <1>1, <2>3, <3>2 DEF Projection
    <3>3. CASE i # n /\ j = n
      BY <1>1, <2>3, <3>3 DEF Projection
    <3> QED BY <3>1, <3>2, <3>3
  <2> QED BY <1>3, <2>1, <2>2, <2>4, <2>5 DEF ProjectionsAreSingle
<1>6. CASE p # Sweeper
  <2>1. NoNewProjection
    BY <1>1, <1>2, <1>3, <1>4, <1>6 DEF NoNewProjection, Projection
  <2> QED BY <2>1, NoNewProjectionKeepsSingle
<1> QED
  BY <1>5, <1>6

LEMMA DraftSweepKeepsSingle ==
  ASSUME TypeOK, ProjectionsAreSingle, DraftSweep
  PROVE  ProjectionsAreSingle'
<1> DEFINE d == [NoInvoice EXCEPT !.status = "draft", !.linked = TRUE,
                                  !.period = sub.ends, !.total = FullTotal]
           o == [Idle EXCEPT !.pc = "checked", !.act = "issue", !.new = d]
<1>1. d.status = "draft" /\ d.linked /\ ~d.charged /\ d.period = sub.ends
  BY DEF NoInvoice
<1>2. o.new = d
  BY DEF Idle
<1>3. op' = [op EXCEPT ![Sweeper] = o] /\ UNCHANGED inv
  BY DEF DraftSweep, Issues
<1> HIDE DEF o, d
<1>4. Sweeper \in Procs /\ \A a \in Admins : a # Sweeper /\ a \in Procs
  BY ProcsAssumption DEF Procs
<1>5. op'[Sweeper] = o /\ \A a \in Admins : op'[a] = op[a]
  BY <1>3, <1>4 DEF TypeOK
<1>6. \A i \in Numbers : Projection(inv[i]) => inv[i].period # sub.ends
  BY DEF DraftSweep, NotYetDrafted, ProjectionsAreSingle, Projection
<1>7. OneProjectionPerPeriod'
  BY <1>3 DEF ProjectionsAreSingle, OneProjectionPerPeriod
<1> QED
  BY <1>1, <1>2, <1>3, <1>5, <1>6, <1>7 DEF ProjectionsAreSingle, Projection

LEMMA RenewalKeepsSingle ==
  ASSUME TypeOK, ProjectionsAreSingle, NEW st \in {"issued", "draft"}, RenewalIssues(st)
  PROVE  ProjectionsAreSingle'
<1> DEFINE d == [NoInvoice EXCEPT !.status = st, !.linked = TRUE, !.charged = TRUE,
                                  !.period = now, !.total = FullTotal]
<1>1. d.charged
  BY DEF NoInvoice
<1>2. inv' = [WithDraftsVoided EXCEPT ![NextNumber] = d] /\ op' = op
  BY DEF RenewalIssues
<1> HIDE DEF d
<1>3. \A i \in Numbers : inv'[i] = IF i = NextNumber THEN d ELSE WithDraftsVoided[i]
  BY <1>2, DraftsVoidedType
<1>4. \A i \in Numbers : WithDraftsVoided[i].status = "draft" => WithDraftsVoided[i] = inv[i]
  BY DEF WithDraftsVoided, TypeOK, Invoice
<1>5. NoNewProjection
  BY <1>1, <1>2, <1>3, <1>4 DEF NoNewProjection, Projection
<1> QED
  BY <1>5, NoNewProjectionKeepsSingle

LEMMA AdminAddsNoProjection ==
  ASSUME TypeOK, AdminStep
  PROVE  NoNewProjection
<1>1. ASSUME NEW a \in Admins, NEW act \in {"mark", "void"}, NEW i \in Numbers,
             AdminLoads(a, act, i)
      PROVE  NoNewProjection
  <2>1. \A p \in Procs : op'[p] = op[p] \/ op'[p].new.status # "draft"
    BY <1>1 DEF AdminLoads, TypeOK, Idle, NoInvoice
  <2> QED BY <1>1, <2>1, SameTableAddsNoProjection DEF AdminLoads
<1>2. ASSUME NEW a \in Admins, AdminMarks(a) \/ AdminVoids(a)
      PROVE  NoNewProjection
  <2>1. \A p \in Procs : op'[p] = op[p] \/ op'[p] = Idle
    BY <1>2 DEF AdminMarks, AdminVoids, TypeOK
  <2> QED BY <1>2, <2>1, StatusAddsNoProjection DEF AdminMarks, AdminVoids
<1>3. ASSUME NEW a \in Admins, NEW d, Issues(a, d), d.status # "draft"
      PROVE  NoNewProjection
  <2> DEFINE o == [Idle EXCEPT !.pc = "checked", !.act = "issue", !.new = d]
  <2>1. o.new = d
    BY DEF Idle
  <2>2. op' = [op EXCEPT ![a] = o] /\ UNCHANGED inv
    BY <1>3 DEF Issues
  <2> HIDE DEF o
  <2>3. \A p \in Procs : op'[p] = op[p] \/ op'[p].new.status # "draft"
    BY <1>3, <2>1, <2>2 DEF TypeOK
  <2> QED BY <2>2, <2>3, SameTableAddsNoProjection
<1>4. ASSUME NEW a \in Admins, NEW linked \in Linking, AdminInvoices(a, linked)
      PROVE  NoNewProjection
  <2> DEFINE d == [NoInvoice EXCEPT !.status = "issued", !.linked = linked,
                                    !.total = FullTotal]
  <2>1. Issues(a, d) /\ d.status # "draft"
    BY <1>4 DEF AdminInvoices, NoInvoice
  <2> HIDE DEF d
  <2> QED BY <1>3, <2>1
<1>5. ASSUME NEW a \in Admins, NEW i \in Numbers, NEW k \in Amounts, AdminCredits(a, i, k)
      PROVE  NoNewProjection
  <2> DEFINE d == [NoInvoice EXCEPT !.status = "issued", !.kind = "credit_note",
                                    !.total = k, !.original = i]
  <2>1. Issues(a, d) /\ d.status # "draft"
    BY <1>5 DEF AdminCredits, NoInvoice
  <2> HIDE DEF d
  <2> QED BY <1>3, <2>1
<1>6. ASSUME NEW i \in Numbers, AdminUnmarks(i) \/ AdminConfirms(i)
      PROVE  NoNewProjection
  BY <1>6, StatusAddsNoProjection DEF AdminUnmarks, AdminConfirms
<1>7. CASE AdminCancels
  BY <1>7, SameTableAddsNoProjection DEF AdminCancels, Decides
<1> QED
  BY <1>1, <1>2, <1>4, <1>5, <1>6, <1>7 DEF AdminStep

LEMMA NextKeepsSingle ==
  ASSUME TypeOK, ProjectionsAreSingle, [Next]_vars
  PROVE  ProjectionsAreSingle'
<1>1. CASE Tick
  BY <1>1, SameTableAddsNoProjection, NoNewProjectionKeepsSingle DEF Tick
<1>2. CASE AdminStep
  BY <1>2, AdminAddsNoProjection, NoNewProjectionKeepsSingle
<1>3. CASE IssueStep
  <2>1. ASSUME NEW p \in Procs, TakesNumber(p)
        PROVE  NoNewProjection
    <3>1. \A q \in Procs : op'[q].new = op[q].new
      BY <2>1 DEF TakesNumber, TypeOK, Operation
    <3> QED BY <2>1, <3>1 DEF TakesNumber, NoNewProjection, Projection
  <2>2. ASSUME NEW p \in Procs, RollsBack(p)
        PROVE  NoNewProjection
    <3>1. \A q \in Procs : op'[q] = op[q] \/ op'[q].new.status # "draft"
      BY <2>2 DEF RollsBack, TypeOK, Idle, NoInvoice
    <3> QED BY <2>2, <3>1, SameTableAddsNoProjection DEF RollsBack
  <2> QED
    BY <1>3, <2>1, <2>2, CommitKeepsSingle, DraftSweepKeepsSingle, NoNewProjectionKeepsSingle
    DEF IssueStep
<1>4. CASE RenewalStep
  <2>1. RenewalStarts \/ RenewalWithoutInvoice => NoNewProjection
    BY SameTableAddsNoProjection DEF RenewalStarts, RenewalWithoutInvoice
  <2> QED BY <1>4, <2>1, RenewalKeepsSingle, NoNewProjectionKeepsSingle DEF RenewalStep
<1>5. CASE CustomerStep
  <2>1. UNCHANGED <<inv, op>>
    BY <1>5 DEF CustomerStep, CustomerCancels, CustomerReactivates, CustomerQueuesDownsize,
                Decides
  <2> QED BY <2>1, SameTableAddsNoProjection, NoNewProjectionKeepsSingle
<1>6. CASE UNCHANGED vars
  BY <1>6, SameTableAddsNoProjection, NoNewProjectionKeepsSingle DEF vars
<1> QED
  BY <1>1, <1>2, <1>3, <1>4, <1>5, <1>6 DEF Next

\* However often the draft sweep runs, and whatever is issued, voided, confirmed
\* or renewed between its check and its commit, a period has one projection.
THEOREM ProjectionsAreUnique == Spec => []OneProjectionPerPeriod
<1>1. Init => ProjectionsAreSingle
  BY DEF Init, ProjectionsAreSingle, OneProjectionPerPeriod, Projection, Idle, NoInvoice, Procs
<1>2. TypeOK /\ ProjectionsAreSingle /\ [Next]_vars => ProjectionsAreSingle'
  BY NextKeepsSingle
<1>3. ProjectionsAreSingle => OneProjectionPerPeriod
  BY DEF ProjectionsAreSingle
<1> QED
  BY <1>1, <1>2, <1>3, TypeCorrect, PTL DEF Spec

-----------------------------------------------------------------------------
(***************************************************************************)
(* What a step does to the documents that exist.  All but three kinds of     *)
(* step only confirm or void drafts; marking and voiding act on what the     *)
(* request read before it got its lock, and unmarking on a paid document.    *)
(***************************************************************************)
SameButStatus(d, e) == e = [d EXCEPT !.status = e.status]

Quietly(d, e) ==
  /\ SameButStatus(d, e)
  /\ e.status = d.status \/ (d.status = "draft" /\ e.status \in {"issued", "voided"})

QuietTable == \A i \in Numbers : inv[i].status # "none" => Quietly(inv[i], inv'[i])

LEMMA SameIsQuiet ==
  ASSUME TypeOK, UNCHANGED inv
  PROVE  QuietTable
  BY DEF TypeOK, Invoice, QuietTable, Quietly, SameButStatus

\* A status that changes is all that changes.
LEMMA StatusOnly ==
  ASSUME TypeOK, NEW j \in Numbers, NEW st, inv' = [inv EXCEPT ![j].status = st]
  PROVE  /\ SameButStatus(inv[j], inv'[j]) /\ inv'[j].status = st
         /\ \A i \in Numbers : i # j => inv'[i] = inv[i]
  BY DEF TypeOK, Invoice, SameButStatus

\* What is issued gets a number that no document has.
LEMMA CommitIsQuiet ==
  ASSUME IInv, NEW p \in Procs, CommitsIssue(p)
  PROVE  QuietTable
<1>1. op[p].number = counter + 1 /\ counter \in Nat
  BY SeriesAssumption DEF CommitsIssue, IInv, NumberIsNext, TypeOK
<1>2. \A i \in Numbers : inv[i].status # "none" => i <= counter
  BY DEF IInv, NumbersAreGapless
<1>3. \A i \in Numbers : inv[i].status # "none" => inv'[i] = inv[i]
  BY <1>1, <1>2 DEF CommitsIssue, IInv, TypeOK, Numbers
<1> QED
  BY <1>3 DEF IInv, TypeOK, Invoice, QuietTable, Quietly, SameButStatus

LEMMA RenewalIsQuiet ==
  ASSUME IInv, NEW st \in {"issued", "draft"}, RenewalIssues(st)
  PROVE  QuietTable
<1> DEFINE d == [NoInvoice EXCEPT !.status = st, !.linked = TRUE, !.charged = TRUE,
                                  !.period = now, !.total = FullTotal]
<1>1. counter \in Nat /\ NextNumber = counter + 1
  BY SeriesAssumption DEF IInv, TypeOK, NextNumber
<1>2. \A i \in Numbers : inv[i].status # "none" => i <= counter
  BY DEF IInv, NumbersAreGapless
<1>3. \A i \in Numbers : inv[i].status # "none" => inv'[i] = WithDraftsVoided[i]
  <2>1. inv' = [WithDraftsVoided EXCEPT ![NextNumber] = d]
    BY DEF RenewalIssues
  <2> HIDE DEF d
  <2> QED BY <1>1, <1>2, <2>1, DraftsVoidedType DEF IInv, Numbers
<1>4. \A i \in Numbers : Quietly(inv[i], WithDraftsVoided[i])
  BY DEF WithDraftsVoided, IInv, TypeOK, Invoice, Quietly, SameButStatus
<1> QED
  BY <1>3, <1>4 DEF QuietTable

LEMMA DocumentsMoveQuietly ==
  ASSUME IInv, [Next]_vars,
         \A a \in Admins : ~AdminMarks(a) /\ ~AdminVoids(a),
         \A i \in Numbers : ~AdminUnmarks(i)
  PROVE  QuietTable
<1> TypeOK
  BY DEF IInv
<1>1. ASSUME NEW i \in Numbers, AdminConfirms(i)
      PROVE  QuietTable
  <2>1. inv[i].status = "draft" /\ inv' = [inv EXCEPT ![i].status = "issued"]
    BY <1>1 DEF AdminConfirms
  <2>2. \A j \in Numbers : SameButStatus(inv[j], inv[j])
    BY DEF TypeOK, Invoice, SameButStatus
  <2> QED BY <2>1, <2>2, StatusOnly DEF QuietTable, Quietly
<1>2. CASE AdminStep
  <2>1. \/ \E i \in Numbers : AdminConfirms(i)
        \/ UNCHANGED inv
    BY <1>2 DEF AdminStep, AdminLoads, AdminInvoices, AdminCredits, Issues, AdminCancels,
                Decides
  <2> QED BY <1>1, <2>1, SameIsQuiet
<1>3. CASE IssueStep
  BY <1>3, CommitIsQuiet, SameIsQuiet DEF IssueStep, DraftSweep, Issues, TakesNumber, RollsBack
<1>4. CASE RenewalStep
  BY <1>4, RenewalIsQuiet, SameIsQuiet DEF RenewalStep, RenewalStarts, RenewalWithoutInvoice
<1>5. CASE Tick \/ CustomerStep \/ UNCHANGED vars
  BY <1>5, SameIsQuiet DEF Tick, CustomerStep, CustomerCancels, CustomerReactivates,
                           CustomerQueuesDownsize, Decides, vars
<1> QED
  BY <1>2, <1>3, <1>4, <1>5 DEF Next

(***************************************************************************)
(* With one administrator's request at a time, what a request read is still  *)
(* what it finds: nothing but a mark or a void takes a document out of       *)
(* "issued", and only they load first.                                      *)
(***************************************************************************)
OneAdmin == \A a, b \in Admins : a = b

LoadedIsCurrent ==
  \A a \in Admins : op[a].pc = "loaded" =>
    /\ op[a].act = "mark" => inv[op[a].target].status = "issued"
    /\ op[a].act = "void" => inv[op[a].target].status \in {"draft", "issued", "voided"}

LEMMA LoadsCurrent ==
  ASSUME IInv, NEW a \in Admins, NEW act \in {"mark", "void"}, NEW i \in Numbers,
         AdminLoads(a, act, i), LoadedIsCurrent
  PROVE  LoadedIsCurrent'
<1> DEFINE o == [Idle EXCEPT !.pc = "loaded", !.act = act, !.target = i,
                             !.status = inv[i].status]
<1>1. o.act = act /\ o.target = i
  BY DEF Idle
<1>2. /\ act = "mark" => inv[i].status = "issued"
      /\ act = "void" => inv[i].status \in {"draft", "issued", "voided"}
  BY DEF AdminLoads, Payable, Voidable, IInv, TypeOK, Invoice, InvoiceStatuses
<1>3. op' = [op EXCEPT ![a] = o] /\ UNCHANGED inv
  BY DEF AdminLoads
<1> HIDE DEF o
<1>4. \A b \in Admins : op'[b] = IF b = a THEN o ELSE op[b]
  BY <1>3 DEF IInv, TypeOK, Procs
<1> QED
  BY <1>1, <1>2, <1>3, <1>4 DEF LoadedIsCurrent

\* Nobody but the administrator's own request loads a document.
LEMMA OnlyLoadsLoad ==
  ASSUME IInv, [Next]_vars,
         \A a \in Admins, act \in {"mark", "void"}, i \in Numbers : ~AdminLoads(a, act, i)
  PROVE  \A a \in Admins : op'[a].pc = "loaded" => op'[a] = op[a]
<1> TypeOK
  BY DEF IInv
<1>1. ASSUME NEW p \in Procs, op' = [op EXCEPT ![p] = Idle]
      PROVE  \A a \in Admins : op'[a].pc = "loaded" => op'[a] = op[a]
  BY <1>1 DEF TypeOK, Procs, Idle
<1>2. ASSUME NEW p \in Procs, NEW d, Issues(p, d)
      PROVE  \A a \in Admins : op'[a].pc = "loaded" => op'[a] = op[a]
  <2> DEFINE o == [Idle EXCEPT !.pc = "checked", !.act = "issue", !.new = d]
  <2>1. o.pc = "checked"
    BY DEF Idle
  <2>2. op' = [op EXCEPT ![p] = o]
    BY <1>2 DEF Issues
  <2> HIDE DEF o
  <2> QED BY <2>1, <2>2 DEF TypeOK, Procs
<1>3. ASSUME NEW p \in Procs, TakesNumber(p)
      PROVE  \A a \in Admins : op'[a].pc = "loaded" => op'[a] = op[a]
  BY <1>3 DEF TakesNumber, TypeOK, Operation, Procs
<1>4. CASE AdminStep
  BY <1>1, <1>2, <1>4 DEF AdminStep, AdminMarks, AdminVoids, AdminInvoices, AdminCredits,
     AdminUnmarks, AdminConfirms, AdminCancels, Decides, Procs
<1>5. CASE IssueStep
  BY <1>1, <1>2, <1>3, <1>5 DEF IssueStep, DraftSweep, CommitsIssue, RollsBack, Procs
<1>6. CASE Tick \/ RenewalStep \/ CustomerStep \/ UNCHANGED vars
  BY <1>6 DEF Tick, RenewalStep, RenewalStarts, RenewalIssues, RenewalWithoutInvoice,
     CustomerStep, CustomerCancels, CustomerReactivates, CustomerQueuesDownsize, Decides, vars
<1> QED
  BY <1>4, <1>5, <1>6 DEF Next

LEMMA NextKeepsCurrent ==
  ASSUME OneAdmin, IInv, LoadedIsCurrent, [Next]_vars
  PROVE  LoadedIsCurrent'
<1> TypeOK
  BY DEF IInv
<1>1. ASSUME NEW a \in Admins, NEW act \in {"mark", "void"}, NEW i \in Numbers,
             AdminLoads(a, act, i)
      PROVE  LoadedIsCurrent'
  BY <1>1, LoadsCurrent
<1>2. ASSUME NEW a \in Admins, AdminMarks(a) \/ AdminVoids(a)
      PROVE  LoadedIsCurrent'
  <2>1. op' = [op EXCEPT ![a] = Idle]
    BY <1>2 DEF AdminMarks, AdminVoids
  <2>2. \A b \in Admins : op'[b].pc = "idle"
    BY <2>1 DEF OneAdmin, TypeOK, Idle, Procs
  <2> QED BY <2>2 DEF LoadedIsCurrent
<1>3. ASSUME \A a \in Admins, act \in {"mark", "void"}, i \in Numbers : ~AdminLoads(a, act, i),
             \A a \in Admins : ~AdminMarks(a) /\ ~AdminVoids(a)
      PROVE  LoadedIsCurrent'
  <2>1. \A a \in Admins : op'[a].pc = "loaded" => op'[a] = op[a]
    BY <1>3, OnlyLoadsLoad
  <2>2. \A a \in Admins : op[a].pc = "loaded" =>
          op[a].target \in Numbers /\ inv[op[a].target].status # "none"
    BY DEF IInv, WritesDocuments, Procs
  <2>3. CASE \E i \in Numbers : AdminUnmarks(i)
    <3>1. PICK i \in Numbers : AdminUnmarks(i)
      BY <2>3
    <3>2. inv[i].status = "paid" /\ inv' = [inv EXCEPT ![i].status = "issued"]
      BY <3>1 DEF AdminUnmarks
    <3>3. \A j \in Numbers : j # i => inv'[j] = inv[j]
      BY <3>2, StatusOnly
    <3> QED BY <2>1, <2>2, <3>2, <3>3 DEF LoadedIsCurrent
  <2>4. CASE \A i \in Numbers : ~AdminUnmarks(i)
    <3>1. QuietTable
      BY <1>3, <2>4, DocumentsMoveQuietly
    <3> QED BY <2>1, <2>2, <3>1 DEF LoadedIsCurrent, QuietTable, Quietly
  <2> QED BY <2>3, <2>4
<1> QED
  BY <1>1, <1>2, <1>3

-----------------------------------------------------------------------------
(***************************************************************************)
(* The table is a book: what the abstract specification InvoiceBook says of   *)
(* its entries, step by step, and what they add up to.                       *)
(***************************************************************************)
WritesFresh == \A p \in Procs : op[p].new.status \in {"none", "draft", "issued"}

BookInv == IInv /\ LoadedIsCurrent /\ WritesFresh

LEMMA IssuesFresh ==
  ASSUME TypeOK, WritesFresh, NEW p \in Procs, NEW d, Issues(p, d),
         d.status \in {"draft", "issued"}
  PROVE  WritesFresh'
<1> DEFINE o == [Idle EXCEPT !.pc = "checked", !.act = "issue", !.new = d]
<1>1. o.new = d
  BY DEF Idle
<1>2. op' = [op EXCEPT ![p] = o]
  BY DEF Issues
<1> HIDE DEF o
<1> QED
  BY <1>1, <1>2 DEF TypeOK, WritesFresh

LEMMA NextKeepsFresh ==
  ASSUME TypeOK, WritesFresh, [Next]_vars
  PROVE  WritesFresh'
<1>1. ASSUME \A p \in Procs : op'[p].new = op[p].new \/ op'[p].new = NoInvoice
      PROVE  WritesFresh'
  BY <1>1 DEF WritesFresh, NoInvoice
<1>2. \A p \in Procs : op' = [op EXCEPT ![p] = Idle] => WritesFresh'
  BY <1>1 DEF TypeOK, Idle
<1>3. ASSUME NEW a \in Admins, NEW act \in {"mark", "void"}, NEW i \in Numbers,
             AdminLoads(a, act, i)
      PROVE  WritesFresh'
  <2> DEFINE o == [Idle EXCEPT !.pc = "loaded", !.act = act, !.target = i,
                               !.status = inv[i].status]
  <2>1. o.new = NoInvoice
    BY DEF Idle
  <2>2. op' = [op EXCEPT ![a] = o]
    BY <1>3 DEF AdminLoads
  <2> HIDE DEF o
  <2> QED BY <1>1, <2>1, <2>2 DEF TypeOK
<1>4. ASSUME NEW a \in Admins, NEW linked \in Linking, AdminInvoices(a, linked)
      PROVE  WritesFresh'
  <2> DEFINE d == [NoInvoice EXCEPT !.status = "issued", !.linked = linked,
                                    !.total = FullTotal]
  <2>1. Issues(a, d) /\ d.status = "issued" /\ a \in Procs
    BY <1>4 DEF AdminInvoices, NoInvoice, Procs
  <2> HIDE DEF d
  <2> QED BY <2>1, IssuesFresh
<1>5. ASSUME NEW a \in Admins, NEW i \in Numbers, NEW k \in Amounts, AdminCredits(a, i, k)
      PROVE  WritesFresh'
  <2> DEFINE d == [NoInvoice EXCEPT !.status = "issued", !.kind = "credit_note",
                                    !.total = k, !.original = i]
  <2>1. Issues(a, d) /\ d.status = "issued" /\ a \in Procs
    BY <1>5 DEF AdminCredits, NoInvoice, Procs
  <2> HIDE DEF d
  <2> QED BY <2>1, IssuesFresh
<1>6. CASE DraftSweep
  <2> DEFINE d == [NoInvoice EXCEPT !.status = "draft", !.linked = TRUE,
                                    !.period = sub.ends, !.total = FullTotal]
  <2>1. Issues(Sweeper, d) /\ d.status = "draft" /\ Sweeper \in Procs
    BY <1>6 DEF DraftSweep, NoInvoice, Procs
  <2> HIDE DEF d
  <2> QED BY <2>1, IssuesFresh
<1>7. CASE AdminStep
  BY <1>1, <1>2, <1>3, <1>4, <1>5, <1>7 DEF AdminStep, AdminMarks, AdminVoids, AdminUnmarks,
     AdminConfirms, AdminCancels, Decides, Procs
<1>8. CASE IssueStep
  <2>1. ASSUME NEW p \in Procs, TakesNumber(p)
        PROVE  \A q \in Procs : op'[q].new = op[q].new
    BY <2>1 DEF TakesNumber, TypeOK, Operation
  <2> QED BY <1>1, <1>2, <1>6, <1>8, <2>1 DEF IssueStep, CommitsIssue, RollsBack
<1>9. CASE Tick \/ RenewalStep \/ CustomerStep \/ UNCHANGED vars
  BY <1>1, <1>9 DEF Tick, RenewalStep, RenewalStarts, RenewalIssues, RenewalWithoutInvoice,
     CustomerStep, CustomerCancels, CustomerReactivates, CustomerQueuesDownsize, Decides, vars
<1> QED
  BY <1>7, <1>8, <1>9 DEF Next

\* Along the arrows of the book: no document moves otherwise.
LEMMA DocumentsMoveAsInTheBook ==
  ASSUME BookInv, [Next]_vars
  PROVE  \A i \in Numbers : inv[i].status # "none" =>
           SameButStatus(inv[i], inv'[i]) /\ Book!MayBecome(inv[i], inv'[i])
<1> TypeOK /\ IInv
  BY DEF BookInv, IInv
<1>1. \A i \in Numbers : SameButStatus(inv[i], inv[i])
  BY DEF TypeOK, Invoice, SameButStatus
<1>2. ASSUME NEW a \in Admins, AdminMarks(a) \/ AdminVoids(a), NEW i \in Numbers,
             inv[i].status # "none"
      PROVE  SameButStatus(inv[i], inv'[i]) /\ Book!MayBecome(inv[i], inv'[i])
  <2> DEFINE j == op[a].target
  <2>1. j \in Numbers
    BY <1>2 DEF IInv, WritesDocuments, AdminMarks, AdminVoids, Procs
  <2>2. /\ AdminMarks(a) => inv[j].status = "issued" /\ inv' = [inv EXCEPT ![j].status = "paid"]
        /\ AdminVoids(a) => /\ inv[j].status \in {"draft", "issued", "voided"}
                            /\ inv' = [inv EXCEPT ![j].status = "voided"]
    BY DEF BookInv, LoadedIsCurrent, AdminMarks, AdminVoids
  <2> HIDE DEF j
  <2> QED BY <1>1, <1>2, <2>1, <2>2, StatusOnly DEF Book!MayBecome, Book!Moves
<1>3. ASSUME NEW j \in Numbers, AdminUnmarks(j), NEW i \in Numbers
      PROVE  SameButStatus(inv[i], inv'[i]) /\ Book!MayBecome(inv[i], inv'[i])
  <2>1. inv[j].status = "paid" /\ inv' = [inv EXCEPT ![j].status = "issued"]
    BY <1>3 DEF AdminUnmarks
  <2> QED BY <1>1, <2>1, StatusOnly DEF Book!MayBecome, Book!Moves
<1>4. QuietTable => \A i \in Numbers : inv[i].status # "none" =>
        SameButStatus(inv[i], inv'[i]) /\ Book!MayBecome(inv[i], inv'[i])
  BY DEF QuietTable, Quietly, Book!MayBecome, Book!Moves
<1> QED
  BY <1>2, <1>3, <1>4, DocumentsMoveQuietly

LEMMA BookLength ==
  ASSUME TypeOK
  PROVE  Len(asBook) = counter /\ counter \in Nat
<1>1. counter \in Nat
  BY SeriesAssumption DEF TypeOK
<1> QED
  BY <1>1 DEF asBook

\* The series grows by one document, a draft or an issued one.
LEMMA BookGrowsByOne ==
  ASSUME BookInv, [Next]_vars
  PROVE  \/ counter' = counter
         \/ /\ counter' = counter + 1 /\ counter + 1 \in Numbers
            /\ inv'[counter + 1].status \in {"draft", "issued"}
<1> TypeOK /\ IInv
  BY DEF BookInv, IInv
<1>1. ASSUME NEW p \in Procs, CommitsIssue(p)
      PROVE  /\ counter' = counter + 1 /\ counter + 1 \in Numbers
             /\ inv'[counter + 1].status \in {"draft", "issued"}
  <2>1. op[p].number = counter + 1 /\ counter < MaxInvoices /\ op[p].new.status # "none"
    BY <1>1 DEF CommitsIssue, IInv, NumberIsNext, WritesDocuments
  <2>2. counter + 1 \in Numbers
    BY <2>1, SeriesAssumption DEF TypeOK, Numbers
  <2>3. inv'[counter + 1] = op[p].new /\ counter' = counter + 1
    BY <1>1, <2>1, <2>2 DEF CommitsIssue, TypeOK
  <2> QED BY <2>1, <2>2, <2>3 DEF BookInv, WritesFresh
<1>2. ASSUME NEW st \in {"issued", "draft"}, RenewalIssues(st)
      PROVE  /\ counter' = counter + 1 /\ counter + 1 \in Numbers
             /\ inv'[counter + 1].status \in {"draft", "issued"}
  <2> DEFINE d == [NoInvoice EXCEPT !.status = st, !.linked = TRUE, !.charged = TRUE,
                                    !.period = now, !.total = FullTotal]
  <2>1. /\ d.status = st /\ counter' = counter + 1 /\ counter + 1 \in Numbers
        /\ inv' = [WithDraftsVoided EXCEPT ![counter + 1] = d]
    BY <1>2, SeriesAssumption DEF RenewalIssues, NextNumber, NoInvoice, TypeOK, Numbers
  <2> HIDE DEF d
  <2> QED BY <2>1, DraftsVoidedType
<1>3. CASE AdminStep
  BY <1>3 DEF AdminStep, AdminLoads, AdminMarks, AdminVoids, AdminInvoices, AdminCredits,
     Issues, AdminUnmarks, AdminConfirms, AdminCancels, Decides
<1>4. CASE IssueStep
  BY <1>1, <1>4 DEF IssueStep, DraftSweep, Issues, TakesNumber, RollsBack
<1>5. CASE RenewalStep
  BY <1>2, <1>5 DEF RenewalStep, RenewalStarts, RenewalWithoutInvoice
<1>6. CASE Tick \/ CustomerStep \/ UNCHANGED vars
  BY <1>6 DEF Tick, CustomerStep, CustomerCancels, CustomerReactivates,
     CustomerQueuesDownsize, Decides, vars
<1> QED
  BY <1>3, <1>4, <1>5, <1>6 DEF Next

LEMMA StepIsRecorded ==
  ASSUME BookInv, TypeOK', [Next]_vars
  PROVE  [Book!Recorded]_asBook
<1> SUFFICES ASSUME asBook' # asBook PROVE Book!Recorded
  OBVIOUS
<1> TypeOK /\ IInv
  BY DEF BookInv, IInv
<1>1. Len(asBook) = counter /\ Len(asBook') = counter' /\ counter \in Nat /\ counter' \in Nat
  <2>1. counter' \in Nat
    BY SeriesAssumption DEF TypeOK
  <2>2. Len(asBook') = counter'
    BY <2>1 DEF asBook
  <2> QED BY <2>1, <2>2, BookLength
<1>2. ASSUME NEW i \in 1 .. counter
      PROVE  /\ Book!SameDocument(asBook[i], asBook'[i])
             /\ Book!MayBecome(asBook[i], asBook'[i])
  <2>1. i \in Numbers /\ inv[i].status # "none" /\ i \in 1 .. counter'
    BY <1>1, BookGrowsByOne, SeriesAssumption DEF IInv, NumbersAreGapless, TypeOK, Numbers
  <2>2. SameButStatus(inv[i], inv'[i]) /\ Book!MayBecome(inv[i], inv'[i])
    BY <2>1, DocumentsMoveAsInTheBook
  <2>3. /\ asBook[i] = [kind |-> inv[i].kind, status |-> inv[i].status,
                        total |-> inv[i].total, original |-> inv[i].original]
        /\ asBook'[i] = [kind |-> inv'[i].kind, status |-> inv'[i].status,
                         total |-> inv'[i].total, original |-> inv'[i].original]
    BY <2>1 DEF asBook
  <2>4. /\ inv'[i].kind = inv[i].kind /\ inv'[i].total = inv[i].total
        /\ inv'[i].original = inv[i].original
    BY <2>1, <2>2 DEF SameButStatus, TypeOK, Invoice
  <2>5. Book!SameDocument(asBook[i], asBook'[i])
    BY <2>3, <2>4 DEF Book!SameDocument
  <2>6. Book!MayBecome(asBook[i], asBook'[i])
    BY <2>2, <2>3 DEF Book!MayBecome
  <2> QED BY <2>5, <2>6
<1>3. /\ counter' \in {counter, counter + 1}
      /\ counter' > counter => asBook'[counter'].status \in {"draft", "issued"}
  <2>1. CASE counter' = counter
    BY <1>1, <2>1
  <2>2. CASE /\ counter' = counter + 1 /\ counter + 1 \in Numbers
             /\ inv'[counter + 1].status \in {"draft", "issued"}
    BY <1>1, <2>2 DEF asBook
  <2> QED BY <2>1, <2>2, BookGrowsByOne
<1> QED
  BY <1>1, <1>2, <1>3 DEF Book!Recorded

(***************************************************************************)
(* The sums of the credit notes.  A note that is under way was checked        *)
(* against a sum that only the request of the same administrator can raise.   *)
(***************************************************************************)
Refers(d) == d.original = 0 \/ (d.original \in Numbers /\ inv[d.original].status # "none")
Owes(p) == op[p].pc \in {"checked", "numbered"} /\ op[p].new.kind = "credit_note"

OriginalsExist ==
  /\ \A n \in Numbers : inv[n].status # "none" => Refers(inv[n])
  /\ \A p \in Procs : op[p].pc \in {"checked", "numbered"} => Refers(op[p].new)
CreditsFit == \A i \in Numbers : Credited(i) <= inv[i].total
NotesWillFit ==
  \A p \in Procs : Owes(p) =>
    /\ p \in Admins /\ op[p].new.original \in Numbers
    /\ \A i \in Numbers : i = op[p].new.original => Credited(i) + op[p].new.total <= inv[i].total

CreditInv == OriginalsExist /\ CreditsFit /\ NotesWillFit

LEMMA NumbersAreFinite == \A i \in Numbers : IsFiniteSet(CreditNotes(i)) /\ CreditNotes(i) \subseteq Numbers
<1>1. IsFiniteSet(Numbers)
  BY SeriesAssumption, FS_Interval DEF Numbers
<1> QED
  BY <1>1, FS_Subset DEF CreditNotes

\* What a document is credited with is a sum over the table.
Totals == [n \in Numbers |-> inv[n].total]

LEMMA CreditedIsSum ==
  ASSUME NEW i \in Numbers
  PROVE  Credited(i) = SumOf(Totals, CreditNotes(i))
<1> DEFINE S == CreditNotes(i)
<1>1. IsFiniteSet(S) /\ S \subseteq Numbers
  BY NumbersAreFinite
<1>2. \A n \in S : Totals[n] = inv[n].total
  BY <1>1 DEF Totals
<1> HIDE DEF S
<1>3. MapThenSumSet(LAMBDA n : inv[n].total, S) = SumsOf([n \in S |-> inv[n].total], S)[S]
  BY DEF SumsOf, MapThenSumSet, MapThenFoldSet, Adds, Pick
<1>4. SumsOf([n \in S |-> inv[n].total], S)[S] = SumsOf(Totals, S)[S]
  BY <1>1, <1>2, SumsOfSame
<1> QED
  BY <1>3, <1>4, SumIsOfSums DEF Credited, S

LEMMA CreditedSums == \A i \in Numbers : Credited(i) = SumOf(Totals, CreditNotes(i))
  BY CreditedIsSum

LEMMA CreditedSumsThen == (\A i \in Numbers : Credited(i) = SumOf(Totals, CreditNotes(i)))'
  BY CreditedSums, PTL

LEMMA CreditedIsNat == ASSUME TypeOK, NEW i \in Numbers PROVE Credited(i) \in Nat /\ inv[i].total \in Nat
<1>1. \A n \in Numbers : inv[n].total \in Nat
  BY DEF TypeOK, Invoice
<1>2. \A n \in CreditNotes(i) : Totals[n] \in Nat
  BY <1>1, NumbersAreFinite DEF Totals
<1> QED
  BY <1>1, <1>2, CreditedIsSum, SumIsNat, NumbersAreFinite

LEMMA CreditedIsNatThen == (\A i \in Numbers : TypeOK => Credited(i) \in Nat)'
<1>1. \A i \in Numbers : TypeOK => Credited(i) \in Nat
  BY CreditedIsNat
<1> QED
  BY <1>1, PTL

\* No note that was there counts anew, and none changes its amount.
LEMMA NotesStayOrGo ==
  ASSUME BookInv, [Next]_vars, NEW i \in Numbers, NEW n \in CreditNotes(i)', inv[n].status # "none"
  PROVE  n \in CreditNotes(i) /\ Totals'[n] = Totals[n]
<1>1. n \in Numbers /\ inv'[n].kind = "credit_note" /\ inv'[n].original = i /\ inv'[n].status \notin {"none", "voided"}
  BY DEF CreditNotes
<1>2. SameButStatus(inv[n], inv'[n]) /\ Book!MayBecome(inv[n], inv'[n])
  BY <1>1, DocumentsMoveAsInTheBook
<1>3. inv[n] \in Invoice
  BY <1>1 DEF BookInv, IInv, TypeOK
<1>4. inv'[n].kind = inv[n].kind /\ inv'[n].original = inv[n].original /\ inv'[n].total = inv[n].total
  BY <1>2, <1>3 DEF SameButStatus, Invoice
<1>5. inv[n].status # "voided"
  BY <1>1, <1>2 DEF Book!MayBecome, Book!Moves
<1> QED
  BY <1>1, <1>4, <1>5 DEF CreditNotes, Totals

LEMMA CreditedStaysOrFalls ==
  ASSUME BookInv, TypeOK', [Next]_vars, NEW i \in Numbers,
         \A n \in CreditNotes(i)' : inv[n].status # "none"
  PROVE  Credited(i)' <= Credited(i)
<1> DEFINE S == CreditNotes(i)
           T == CreditNotes(i)'
<1>1. T \subseteq S /\ \A n \in T : Totals'[n] = Totals[n]
  BY NotesStayOrGo
<1>2. IsFiniteSet(S) /\ S \subseteq Numbers /\ \A n \in Numbers : Totals[n] \in Nat
  BY NumbersAreFinite DEF BookInv, IInv, TypeOK, Invoice, Totals
<1>3. IsFiniteSet(T)
  BY <1>1, <1>2, FS_Subset
<1>4. Credited(i)' = SumOf(Totals', T) /\ Credited(i) = SumOf(Totals, S)
  BY CreditedSums, CreditedSumsThen
<1> HIDE DEF S, T
<1>5. SumOf(Totals', T) = SumOf(Totals, T)
  BY <1>1, <1>3, SumOfSame
<1>6. SumOf(Totals, T) <= SumOf(Totals, S)
  BY <1>1, <1>2, SumOfFewer
<1> QED
  BY <1>4, <1>5, <1>6

LEMMA CreditedRisesByNew ==
  ASSUME BookInv, TypeOK', [Next]_vars, NEW i \in Numbers, NEW m \in CreditNotes(i)', inv[m].status = "none",
         \A n \in CreditNotes(i)' : n # m => inv[n].status # "none"
  PROVE  Credited(i)' <= Credited(i) + inv'[m].total
<1> DEFINE S == CreditNotes(i)
           T == CreditNotes(i)'
           R == T \ {m}
<1>1. R \subseteq S /\ \A n \in R : Totals'[n] = Totals[n]
  BY NotesStayOrGo
<1>2. IsFiniteSet(S) /\ S \subseteq Numbers /\ \A n \in Numbers : Totals[n] \in Nat
  BY NumbersAreFinite DEF BookInv, IInv, TypeOK, Invoice, Totals
<1>3. IsFiniteSet(R) /\ T = R \cup {m} /\ m \notin R /\ T \subseteq Numbers
  BY <1>1, <1>2, FS_Subset DEF CreditNotes
<1>4. Credited(i)' = SumOf(Totals', T) /\ Credited(i) = SumOf(Totals, S)
  BY CreditedSums, CreditedSumsThen
<1>5. \A n \in T : Totals'[n] \in Nat /\ Totals'[n] = inv'[n].total
  BY <1>3 DEF TypeOK, Invoice, Totals
<1> HIDE DEF S, T, R
<1>6. SumOf(Totals', T) = SumOf(Totals', R) + Totals'[m]
  BY <1>3, <1>5, SumOfOneMore
<1>7. SumOf(Totals', R) = SumOf(Totals, R)
  BY <1>1, <1>3, SumOfSame
<1>8. SumOf(Totals, R) <= SumOf(Totals, S)
  BY <1>1, <1>2, SumOfFewer
<1>9. SumOf(Totals, R) \in Nat /\ SumOf(Totals, S) \in Nat /\ Totals'[m] \in Nat /\ Totals'[m] = inv'[m].total
  <2>1. R \subseteq Numbers /\ S \subseteq Numbers /\ m \in T
    BY <1>1, <1>2, <1>3
  <2> QED BY <1>2, <1>3, <1>5, <2>1, SumIsNat
<1> QED
  BY <1>4, <1>6, <1>7, <1>8, <1>9

\* What is new in the table is the document with the next number.
LEMMA OnlyNextIsNew ==
  ASSUME BookInv, IInv', [Next]_vars, NEW n \in Numbers
  PROVE  /\ inv[n].status # "none" => inv'[n].status # "none" /\ n # counter + 1
         /\ inv'[n].status # "none" /\ inv[n].status = "none" => n = counter + 1 /\ counter' = counter + 1
<1>1. counter \in Nat /\ n \in Nat
  BY SeriesAssumption DEF BookInv, IInv, TypeOK, Numbers
<1>2. counter' \in {counter, counter + 1}
  BY BookGrowsByOne
<1>3. (inv[n].status # "none" <=> n <= counter) /\ (inv'[n].status # "none" <=> n <= counter')
  BY DEF BookInv, IInv, NumbersAreGapless
<1> QED
  BY <1>1, <1>2, <1>3

\* A document that exists keeps what the sums rest on.
LEMMA DocumentsKeepTotals ==
  ASSUME BookInv, [Next]_vars, NEW n \in Numbers, inv[n].status # "none"
  PROVE  inv'[n].total = inv[n].total /\ inv'[n].original = inv[n].original /\ inv'[n].kind = inv[n].kind
<1>1. SameButStatus(inv[n], inv'[n]) /\ inv[n] \in Invoice
  BY DocumentsMoveAsInTheBook DEF BookInv, IInv, TypeOK
<1> QED
  BY <1>1 DEF SameButStatus, Invoice

\* What a request is about to write, and what of it is new.
LEMMA RequestsOfNow ==
  ASSUME TypeOK, [Next]_vars, NEW p \in Procs, op'[p].pc \in {"checked", "numbered"}
  PROVE  \/ op[p].pc \in {"checked", "numbered"} /\ op'[p].new = op[p].new
         \/ op'[p].new.kind = "invoice" /\ op'[p].new.original = 0
         \/ \E i \in Numbers, k \in Amounts :
              /\ AdminCredits(p, i, k) /\ p \in Admins
              /\ op'[p].new.original = i /\ op'[p].new.total = k
<1> DEFINE Goal == \/ op[p].pc \in {"checked", "numbered"} /\ op'[p].new = op[p].new
                   \/ op'[p].new.kind = "invoice" /\ op'[p].new.original = 0
                   \/ \E i \in Numbers, k \in Amounts :
                        /\ AdminCredits(p, i, k) /\ p \in Admins
                        /\ op'[p].new.original = i /\ op'[p].new.total = k
<1> SUFFICES Goal
  OBVIOUS
<1>0. ASSUME op'[p] = op[p] PROVE Goal
  BY <1>0
<1>1. ASSUME NEW q \in Procs, op' = [op EXCEPT ![q] = Idle] PROVE Goal
  <2>1. q # p
    BY <1>1 DEF TypeOK, Idle
  <2> QED BY <1>0, <1>1, <2>1
<1>2. ASSUME NEW q \in Procs, NEW d, Issues(q, d), q = p => d.kind = "invoice" /\ d.original = 0 PROVE Goal
  <2> DEFINE o == [Idle EXCEPT !.pc = "checked", !.act = "issue", !.new = d]
  <2>1. o.new = d /\ op' = [op EXCEPT ![q] = o]
    BY <1>2 DEF Issues, Idle
  <2> HIDE DEF o
  <2> QED BY <1>0, <1>2, <2>1 DEF TypeOK
<1>3. ASSUME NEW a \in Admins, NEW act \in {"mark", "void"}, NEW i \in Numbers, AdminLoads(a, act, i) PROVE Goal
  <2> DEFINE o == [Idle EXCEPT !.pc = "loaded", !.act = act, !.target = i, !.status = inv[i].status]
  <2>1. o.pc = "loaded" /\ op' = [op EXCEPT ![a] = o]
    BY <1>3 DEF AdminLoads, Idle
  <2> HIDE DEF o
  <2>2. a # p
    BY <2>1 DEF TypeOK
  <2> QED BY <1>0, <2>1, <2>2
<1>4. ASSUME NEW a \in Admins, NEW linked \in Linking, AdminInvoices(a, linked) PROVE Goal
  <2> DEFINE d == [NoInvoice EXCEPT !.status = "issued", !.linked = linked, !.total = FullTotal]
  <2>1. Issues(a, d) /\ a \in Procs /\ d.kind = "invoice" /\ d.original = 0
    BY <1>4 DEF AdminInvoices, NoInvoice, Procs
  <2> HIDE DEF d, Goal
  <2> QED BY <1>2, <2>1
<1>5. ASSUME NEW a \in Admins, NEW i \in Numbers, NEW k \in Amounts, AdminCredits(a, i, k) PROVE Goal
  <2> DEFINE d == [NoInvoice EXCEPT !.status = "issued", !.kind = "credit_note", !.total = k, !.original = i]
             o == [Idle EXCEPT !.pc = "checked", !.act = "issue", !.new = d]
  <2>1. Issues(a, d) /\ a \in Procs /\ d.total = k /\ d.original = i
    BY <1>5 DEF AdminCredits, NoInvoice, Procs
  <2> HIDE DEF d
  <2>2. o.new = d /\ op' = [op EXCEPT ![a] = o]
    BY <2>1 DEF Issues, Idle
  <2> HIDE DEF o
  <2>3. CASE a = p
    BY <1>5, <2>1, <2>2, <2>3 DEF TypeOK
  <2>4. CASE a # p
    BY <1>0, <2>2, <2>4
  <2> QED BY <2>3, <2>4
<1>6. CASE DraftSweep
  <2> DEFINE d == [NoInvoice EXCEPT !.status = "draft", !.linked = TRUE, !.period = sub.ends, !.total = FullTotal]
  <2>1. Issues(Sweeper, d) /\ Sweeper \in Procs /\ d.kind = "invoice" /\ d.original = 0
    BY <1>6 DEF DraftSweep, NoInvoice, Procs
  <2> HIDE DEF d, Goal
  <2> QED BY <1>2, <2>1
<1>7. ASSUME NEW q \in Procs, TakesNumber(q) PROVE Goal
  <2>1. op'[p].new = op[p].new /\ (q # p => op'[p] = op[p]) /\ op[q].pc = "checked"
    BY <1>7 DEF TakesNumber, TypeOK, Operation
  <2> QED BY <1>0, <2>1
<1>8. CASE AdminStep
  <2>1. \A a \in Admins : AdminMarks(a) \/ AdminVoids(a) => a \in Procs /\ op' = [op EXCEPT ![a] = Idle]
    BY DEF AdminMarks, AdminVoids, Procs
  <2>2. (\E i \in Numbers : AdminUnmarks(i) \/ AdminConfirms(i)) \/ AdminCancels => op' = op
    BY DEF AdminUnmarks, AdminConfirms, AdminCancels, Decides
  <2> HIDE DEF Goal
  <2> QED BY <1>0, <1>1, <1>3, <1>4, <1>5, <1>8, <2>1, <2>2 DEF AdminStep
<1>9. CASE IssueStep
  <2>1. \A q \in Procs : CommitsIssue(q) \/ RollsBack(q) => op' = [op EXCEPT ![q] = Idle]
    BY DEF CommitsIssue, RollsBack
  <2> HIDE DEF Goal
  <2> QED BY <1>1, <1>6, <1>7, <1>9, <2>1 DEF IssueStep
<1>10. CASE Tick \/ RenewalStep \/ CustomerStep \/ UNCHANGED vars
  <2>1. op' = op
    BY <1>10 DEF Tick, RenewalStep, RenewalStarts, RenewalIssues, RenewalWithoutInvoice,
     CustomerStep, CustomerCancels, CustomerReactivates, CustomerQueuesDownsize, Decides, vars
  <2> HIDE DEF Goal
  <2> QED BY <1>0, <2>1
<1> HIDE DEF Goal
<1> QED
  BY <1>8, <1>9, <1>10 DEF Next

\* Nothing refers to a document that does not exist.
LEMMA UnissuedHasNoNotes ==
  ASSUME BookInv, OriginalsExist, NEW i \in Numbers, inv[i].status = "none"
  PROVE  CreditNotes(i) = {} /\ Credited(i) = 0
<1>1. CreditNotes(i) = {}
  BY SeriesAssumption DEF OriginalsExist, Refers, CreditNotes, Numbers
<1> QED
  BY <1>1, CreditedSums, SumOfNone

\* The document a request commits.
LEMMA CommitWrites ==
  ASSUME BookInv, NEW p \in Procs, CommitsIssue(p)
  PROVE  /\ counter + 1 \in Numbers /\ inv[counter + 1].status = "none" /\ counter' = counter + 1
         /\ inv' = [inv EXCEPT ![counter + 1] = op[p].new] /\ op' = [op EXCEPT ![p] = Idle]
         /\ op[p].pc = "numbered" /\ op[p].new \in Invoice /\ inv'[counter + 1] = op[p].new
<1>1. op[p].number = counter + 1 /\ counter < MaxInvoices /\ op[p].pc = "numbered"
  BY DEF CommitsIssue, BookInv, IInv, NumberIsNext
<1>2. counter \in Nat /\ counter + 1 \in Numbers /\ ~(counter + 1 <= counter)
  BY <1>1, SeriesAssumption DEF BookInv, IInv, TypeOK, Numbers
<1>3. inv[counter + 1].status = "none"
  BY <1>2 DEF BookInv, IInv, NumbersAreGapless
<1>4. op[p].new \in Invoice
  BY DEF BookInv, IInv, TypeOK, Operation
<1>5. inv'[counter + 1] = op[p].new
  BY <1>1, <1>2 DEF CommitsIssue, BookInv, IInv, TypeOK
<1> QED
  BY <1>1, <1>2, <1>3, <1>4, <1>5 DEF CommitsIssue

\* Whoever else adds a document adds an invoice.
LEMMA OthersAddInvoices ==
  ASSUME BookInv, IInv', [Next]_vars, \A p \in Procs : ~CommitsIssue(p), NEW n \in Numbers,
         inv[n].status = "none", inv'[n].status # "none"
  PROVE  inv'[n].kind = "invoice" /\ inv'[n].original = 0
<1>1. n = counter + 1 /\ counter' = counter + 1 /\ counter' # counter
  BY OnlyNextIsNew, SeriesAssumption DEF BookInv, IInv, TypeOK
<1>2. ASSUME NEW st \in {"issued", "draft"}, RenewalIssues(st)
      PROVE  inv'[n].kind = "invoice" /\ inv'[n].original = 0
  <2> DEFINE d == [NoInvoice EXCEPT !.status = st, !.linked = TRUE, !.charged = TRUE,
                                    !.period = now, !.total = FullTotal]
  <2>1. d.kind = "invoice" /\ d.original = 0 /\ inv' = [WithDraftsVoided EXCEPT ![counter + 1] = d]
    BY <1>2 DEF RenewalIssues, NextNumber, NoInvoice
  <2> HIDE DEF d
  <2> QED BY <1>1, <2>1, DraftsVoidedType DEF BookInv, IInv
<1>3. CASE AdminStep
  BY <1>1, <1>3 DEF AdminStep, AdminLoads, AdminMarks, AdminVoids, AdminInvoices, AdminCredits,
     Issues, AdminUnmarks, AdminConfirms, AdminCancels, Decides
<1>4. CASE IssueStep
  BY <1>1, <1>4 DEF IssueStep, DraftSweep, Issues, TakesNumber, RollsBack
<1>5. CASE RenewalStep
  BY <1>1, <1>2, <1>5 DEF RenewalStep, RenewalStarts, RenewalWithoutInvoice
<1>6. CASE Tick \/ CustomerStep \/ UNCHANGED vars
  BY <1>1, <1>6 DEF Tick, CustomerStep, CustomerCancels, CustomerReactivates,
     CustomerQueuesDownsize, Decides, vars
<1> QED
  BY <1>3, <1>4, <1>5, <1>6 DEF Next

LEMMA OriginalsStillExist ==
  ASSUME BookInv, IInv', [Next]_vars, OriginalsExist
  PROVE  OriginalsExist'
<1> TypeOK
  BY DEF BookInv, IInv
<1>1. ASSUME NEW n \in Numbers, inv'[n].status # "none" PROVE Refers(inv[n])'
  <2>1. CASE inv[n].status # "none"
    <3>1. Refers(inv[n]) /\ inv'[n].original = inv[n].original
      BY <2>1, DocumentsKeepTotals DEF OriginalsExist
    <3> QED BY <3>1, OnlyNextIsNew DEF Refers
  <2>2. CASE inv[n].status = "none" /\ \A p \in Procs : ~CommitsIssue(p)
    BY <1>1, <2>2, OthersAddInvoices DEF Refers
  <2>3. ASSUME inv[n].status = "none", NEW p \in Procs, CommitsIssue(p) PROVE Refers(inv[n])'
    <3>1. inv'[n] = op[p].new /\ Refers(op[p].new)
      BY <1>1, <2>3, OnlyNextIsNew, CommitWrites DEF OriginalsExist
    <3> QED BY <3>1, OnlyNextIsNew DEF Refers
  <2> QED BY <2>1, <2>2, <2>3
<1>2. ASSUME NEW p \in Procs, op'[p].pc \in {"checked", "numbered"} PROVE Refers(op[p].new)'
  <2>1. CASE op[p].pc \in {"checked", "numbered"} /\ op'[p].new = op[p].new
    <3>1. Refers(op[p].new)
      BY <2>1 DEF OriginalsExist
    <3> QED BY <2>1, <3>1, OnlyNextIsNew DEF Refers
  <2>2. CASE op'[p].new.original = 0
    BY <2>2 DEF Refers
  <2>3. ASSUME NEW i \in Numbers, NEW k \in Amounts, AdminCredits(p, i, k), op'[p].new.original = i
        PROVE  Refers(op[p].new)'
    <3>1. inv[i].status # "none"
      BY <2>3 DEF AdminCredits
    <3> QED BY <2>3, <3>1, OnlyNextIsNew DEF Refers
  <2> QED BY <1>2, <2>1, <2>2, <2>3, RequestsOfNow
<1> QED
  BY <1>1, <1>2 DEF OriginalsExist, Refers

\* A commit adds its note to the sum, every other step adds nothing.
LEMMA OnlyCommitsAdd ==
  ASSUME BookInv, IInv', [Next]_vars, \A p \in Procs : ~CommitsIssue(p), NEW i \in Numbers
  PROVE  Credited(i)' <= Credited(i)
<1>1. \A n \in CreditNotes(i)' : n \in Numbers /\ inv'[n].kind = "credit_note" /\ inv'[n].status # "none"
  BY DEF CreditNotes
<1>2. \A n \in CreditNotes(i)' : inv[n].status # "none"
  BY <1>1, OthersAddInvoices
<1> QED
  BY <1>2, CreditedStaysOrFalls DEF IInv

LEMMA CommitAddsNote ==
  ASSUME BookInv, IInv', [Next]_vars, NEW p \in Procs, CommitsIssue(p), NEW i \in Numbers
  PROVE  IF op[p].new.kind = "credit_note" /\ op[p].new.original = i
           THEN Credited(i)' <= Credited(i) + op[p].new.total
           ELSE Credited(i)' <= Credited(i)
<1> DEFINE m == counter + 1
<1>1. /\ m \in Numbers /\ inv'[m] = op[p].new /\ inv[m].status = "none"
      /\ op[p].new.total \in Nat
  BY CommitWrites DEF Invoice
<1>2. \A n \in CreditNotes(i)' : /\ n \in Numbers /\ inv'[n].status # "none"
                                 /\ inv'[n].kind = "credit_note" /\ inv'[n].original = i
  BY DEF CreditNotes
<1>3. \A n \in CreditNotes(i)' : n # m => inv[n].status # "none"
  BY <1>2, OnlyNextIsNew
<1>4. Credited(i) \in Nat
  BY CreditedIsNat DEF BookInv, IInv
<1> HIDE DEF m
<1>5. CASE m \in CreditNotes(i)'
  BY <1>1, <1>2, <1>3, <1>5, CreditedRisesByNew DEF IInv
<1>6. CASE m \notin CreditNotes(i)'
  <2>1. Credited(i)' <= Credited(i)
    BY <1>3, <1>6, CreditedStaysOrFalls DEF IInv
  <2>2. Credited(i)' \in Nat
    BY CreditedIsNatThen DEF IInv
  <2> QED BY <1>1, <1>4, <2>1, <2>2
<1> QED
  BY <1>5, <1>6

LEMMA CreditsStillFit ==
  ASSUME BookInv, IInv', [Next]_vars, CreditInv
  PROVE  CreditsFit'
<1> SUFFICES ASSUME NEW i \in Numbers PROVE Credited(i)' <= inv'[i].total
  BY DEF CreditsFit
<1>0. /\ Credited(i) \in Nat /\ inv[i].total \in Nat /\ Credited(i) <= inv[i].total
      /\ Credited(i)' \in Nat /\ inv'[i].total \in Nat
  BY CreditedIsNat, CreditedIsNatThen DEF BookInv, IInv, CreditInv, CreditsFit, TypeOK, Invoice
<1>1. CASE \A p \in Procs : ~CommitsIssue(p)
  <2>1. Credited(i)' <= Credited(i)
    BY <1>1, OnlyCommitsAdd
  <2>2. CASE inv[i].status # "none"
    BY <1>0, <2>1, <2>2, DocumentsKeepTotals
  <2>3. CASE inv[i].status = "none"
    <3>1. Credited(i) = 0
      BY <2>3, UnissuedHasNoNotes DEF CreditInv
    <3> QED BY <1>0, <2>1, <3>1
  <2> QED BY <2>2, <2>3
<1>2. ASSUME NEW p \in Procs, CommitsIssue(p) PROVE Credited(i)' <= inv'[i].total
  <2>0. op[p].pc = "numbered" /\ op[p].new.total \in Nat
    BY <1>2, CommitWrites DEF Invoice
  <2>1. CASE op[p].new.kind = "credit_note" /\ op[p].new.original = i
    <3>1. Credited(i)' <= Credited(i) + op[p].new.total
      BY <1>2, <2>1, CommitAddsNote
    <3>2. Credited(i) + op[p].new.total <= inv[i].total
      BY <2>0, <2>1 DEF CreditInv, NotesWillFit, Owes
    <3>3. inv[i].status # "none"
      <4>1. Refers(op[p].new) /\ i # 0
        BY <2>0, SeriesAssumption DEF CreditInv, OriginalsExist, Numbers
      <4> QED BY <2>1, <4>1 DEF Refers
    <3>4. inv'[i].total = inv[i].total
      BY <3>3, DocumentsKeepTotals
    <3> QED BY <1>0, <2>0, <3>1, <3>2, <3>4
  <2>2. CASE ~(op[p].new.kind = "credit_note" /\ op[p].new.original = i)
    <3>1. Credited(i)' <= Credited(i)
      BY <1>2, <2>2, CommitAddsNote
    <3>2. CASE inv[i].status # "none"
      BY <1>0, <3>1, <3>2, DocumentsKeepTotals
    <3>3. CASE inv[i].status = "none"
      <4>1. Credited(i) = 0
        BY <3>3, UnissuedHasNoNotes DEF CreditInv
      <4> QED BY <1>0, <3>1, <4>1
    <3> QED BY <3>2, <3>3
  <2> QED BY <2>1, <2>2
<1> QED
  BY <1>1, <1>2

\* A note under way still fits: with one administrator it is the only one.
LEMMA NotesStillFit ==
  ASSUME OneAdmin, BookInv, IInv', [Next]_vars, CreditInv
  PROVE  NotesWillFit'
<1> TypeOK
  BY DEF BookInv, IInv
<1>0. \A i \in Numbers : /\ Credited(i) \in Nat /\ Credited(i)' \in Nat
                         /\ inv[i].total \in Nat /\ inv'[i].total \in Nat
  BY CreditedIsNat, CreditedIsNatThen DEF IInv, TypeOK, Invoice
<1>1. ASSUME NEW q \in Procs, op[q].pc \in {"checked", "numbered"}, op'[q].new = op[q].new,
             op'[q].pc \in {"checked", "numbered"}, op'[q].new.kind = "credit_note",
             NEW i, i = op[q].new.original, NEW k, k = op[q].new.total
      PROVE  q \in Admins /\ i \in Numbers /\ Credited(i)' + k <= inv'[i].total
  <2>1. q \in Admins /\ i \in Numbers /\ Credited(i) + k <= inv[i].total
    BY <1>1 DEF Owes, CreditInv, NotesWillFit
  <2>2. inv[i].status # "none"
    <3>1. Refers(op[q].new) /\ i # 0
      BY <1>1, <2>1, SeriesAssumption DEF CreditInv, OriginalsExist, Numbers
    <3> QED BY <1>1, <3>1 DEF Refers
  <2>3. Credited(i)' <= Credited(i)
    <3>1. CASE \A p \in Procs : ~CommitsIssue(p)
      BY <2>1, <3>1, OnlyCommitsAdd
    <3>2. ASSUME NEW p \in Procs, CommitsIssue(p) PROVE Credited(i)' <= Credited(i)
      <4>1. op[p].pc = "numbered" /\ op' = [op EXCEPT ![p] = Idle]
        BY <3>2, CommitWrites
      <4>2. p # q
        BY <1>1, <4>1 DEF TypeOK, Idle
      <4>3. op[p].new.kind # "credit_note"
        BY <2>1, <4>1, <4>2 DEF CreditInv, NotesWillFit, Owes, OneAdmin
      <4> QED BY <2>1, <3>2, <4>3, CommitAddsNote
    <3> QED BY <3>1, <3>2
  <2>4. inv'[i].total = inv[i].total
    BY <2>1, <2>2, DocumentsKeepTotals
  <2>5. k \in Nat
    BY <1>1 DEF TypeOK, Operation, Invoice
  <2> QED BY <1>0, <2>1, <2>3, <2>4, <2>5
<1>2. ASSUME NEW q \in Procs, NEW i \in Numbers, NEW k \in Amounts, AdminCredits(q, i, k), q \in Admins
      PROVE  Credited(i)' + k <= inv'[i].total
  <2>1. inv[i].status # "none" /\ Credited(i) + k <= inv[i].total /\ UNCHANGED <<inv, counter>>
    BY <1>2 DEF AdminCredits, Issues
  <2>2. \A p \in Procs : ~CommitsIssue(p)
    <3>1. counter' # counter + 1
      BY <2>1 DEF TypeOK
    <3> QED BY <3>1, CommitWrites
  <2>3. Credited(i)' <= Credited(i)
    BY <2>2, OnlyCommitsAdd
  <2>4. k \in Nat
    BY SeriesAssumption
  <2> QED BY <1>0, <2>1, <2>3, <2>4
<1>3. ASSUME NEW q \in Procs, op'[q].pc \in {"checked", "numbered"}, op'[q].new.kind = "credit_note"
      PROVE  /\ q \in Admins /\ op'[q].new.original \in Numbers
             /\ \A i \in Numbers : i = op'[q].new.original => Credited(i)' + op'[q].new.total <= inv'[i].total
  <2>1. CASE op[q].pc \in {"checked", "numbered"} /\ op'[q].new = op[q].new
    BY <1>1, <1>3, <2>1
  <2>2. ASSUME NEW i \in Numbers, NEW k \in Amounts, AdminCredits(q, i, k), q \in Admins,
               op'[q].new.original = i, op'[q].new.total = k
        PROVE  /\ q \in Admins /\ op'[q].new.original \in Numbers
               /\ \A j \in Numbers : j = op'[q].new.original => Credited(j)' + op'[q].new.total <= inv'[j].total
    <3>1. Credited(i)' + op'[q].new.total <= inv'[i].total
      BY <1>2, <2>2
    <3> QED BY <2>2, <3>1
  <2> QED BY <1>3, <2>1, <2>2, RequestsOfNow
<1> QED
  BY <1>3 DEF NotesWillFit, Owes

\* What the accountant adds up is what the service added up.
LEMMA BookIsCovered ==
  BookInv /\ CreditInv => Book!CreditsCovered(asBook)
<1> SUFFICES ASSUME BookInv, CreditInv, NEW i \in Book!Noted(asBook)
             PROVE  Book!CreditedIn(asBook, i) <= asBook[i].total
  BY DEF Book!CreditsCovered
<1> TypeOK
  BY DEF BookInv, IInv
<1>0. /\ counter \in Nat /\ DOMAIN asBook = 1 .. counter /\ 1 .. counter \subseteq Numbers
      /\ \A n \in Numbers : n \in 1 .. counter <=> inv[n].status # "none"
  BY SeriesAssumption DEF BookInv, IInv, TypeOK, NumbersAreGapless, Numbers, asBook
<1>1. \A n \in 1 .. counter : /\ asBook[n].kind = inv[n].kind /\ asBook[n].status = inv[n].status
                              /\ asBook[n].total = inv[n].total /\ asBook[n].original = inv[n].original
  BY DEF asBook
<1>2. i \in 1 .. counter
  <2>1. PICK n \in DOMAIN asBook : i = asBook[n].original /\ i # 0
    BY DEF Book!Noted
  <2>2. Refers(inv[n]) /\ i = inv[n].original
    BY <1>0, <1>1, <2>1 DEF CreditInv, OriginalsExist
  <2> QED BY <1>0, <2>1, <2>2 DEF Refers
<1> DEFINE S == Book!CountedNotes(asBook, i)
<1>3. S = CreditNotes(i)
  BY <1>0, <1>1 DEF Book!CountedNotes, CreditNotes
<1>4. IsFiniteSet(S) /\ S \subseteq 1 .. counter
  BY <1>0, <1>2, <1>3, NumbersAreFinite DEF Book!CountedNotes
<1>5. \A n \in S : asBook[n].total = Totals[n]
  BY <1>0, <1>1, <1>4 DEF Totals
<1> HIDE DEF S
<1>6. MapThenSumSet(LAMBDA n : asBook[n].total, S) = SumsOf([n \in S |-> asBook[n].total], S)[S]
  BY DEF SumsOf, MapThenSumSet, MapThenFoldSet, Adds, Pick
<1>7. SumsOf([n \in S |-> asBook[n].total], S)[S] = SumsOf(Totals, S)[S]
  BY <1>4, <1>5, SumsOfSame
<1>8. Book!CreditedIn(asBook, i) = MapThenSumSet(LAMBDA n : asBook[n].total, S)
  BY DEF Book!CreditedIn, Book!MapThenSumSet, Book!MapThenFoldSet, MapThenSumSet, MapThenFoldSet, S
<1>9. Book!CreditedIn(asBook, i) = Credited(i)
  BY <1>0, <1>2, <1>3, <1>6, <1>7, <1>8, CreditedSums, SumIsOfSums
<1> QED
  BY <1>0, <1>1, <1>2, <1>9 DEF CreditInv, CreditsFit

LEMMA BookIsCoveredThen ==
  (BookInv /\ CreditInv)' => Book!CreditsCovered(asBook')
<1>1. (BookInv /\ CreditInv => Book!CreditsCovered(asBook))'
  BY BookIsCovered, PTL
<1> QED
  BY <1>1

\* With one administrator's request at a time the table is the accountant's book:
\* no gap, no number twice, no document that changes, no status that jumps, and no
\* credits beyond what they credit.
THEOREM BookIsKept ==
  ASSUME OneAdmin
  PROVE  Spec => ImplementsBook
<1>1. Init => BookInv /\ CreditInv /\ Book!Init
  <2> SUFFICES ASSUME Init PROVE BookInv /\ CreditInv /\ Book!Init
    OBVIOUS
  <2>1. LoadedIsCurrent /\ WritesFresh
    BY DEF Init, LoadedIsCurrent, WritesFresh, Idle, NoInvoice, Procs
  <2>2. asBook = <<>>
    BY DEF Init, asBook
  <2>3. BookInv
    BY <2>1, InitIInv DEF BookInv
  <2>4. OriginalsExist /\ NotesWillFit /\ \A i \in Numbers : inv[i].status = "none" /\ inv[i].total = 0
    BY DEF Init, OriginalsExist, NotesWillFit, Owes, Idle, NoInvoice
  <2>5. CreditsFit
    BY <2>3, <2>4, UnissuedHasNoNotes DEF CreditsFit
  <2> QED BY <2>2, <2>3, <2>4, <2>5 DEF CreditInv, Book!Init
<1>2. BookInv /\ CreditInv /\ [Next]_vars => BookInv' /\ CreditInv'
  <2> SUFFICES ASSUME BookInv, CreditInv, [Next]_vars PROVE BookInv' /\ CreditInv'
    OBVIOUS
  <2>1. BookInv'
    BY NextIInv, NextKeepsCurrent, NextKeepsFresh DEF BookInv, IInv
  <2>2. IInv'
    BY <2>1 DEF BookInv
  <2>3. OriginalsExist' /\ CreditsFit' /\ NotesWillFit'
    BY <2>2, OriginalsStillExist, CreditsStillFit, NotesStillFit DEF CreditInv
  <2> QED BY <2>1, <2>3 DEF CreditInv
<1>3. BookInv /\ BookInv' /\ Book!CreditsCovered(asBook') /\ [Next]_vars => [Book!Next]_asBook
  <2> SUFFICES ASSUME BookInv, BookInv', Book!CreditsCovered(asBook'), [Next]_vars PROVE [Book!Next]_asBook
    OBVIOUS
  <2>1. [Book!Recorded]_asBook
    BY StepIsRecorded DEF BookInv, IInv
  <2> QED BY <2>1 DEF Book!Next
<1>4. (BookInv /\ CreditInv)' => Book!CreditsCovered(asBook')
  BY BookIsCoveredThen
<1> QED
  BY <1>1, <1>2, <1>3, <1>4, PTL DEF Spec, ImplementsBook, Book!Spec

-----------------------------------------------------------------------------
(***************************************************************************)
(* The days of the subscription against the money.  What a step does to the  *)
(* period: a mark extends it and remembers both ends, an unmark takes an     *)
(* extension back or leaves it and counts it, a renewal starts a new one,    *)
(* and nothing else moves its dates.                                        *)
(***************************************************************************)
LEMMA ManualPaymentDates ==
  ASSUME NEW s \in Subscription, NEW t \in Int
  PROVE  LET u == ApplyManualPayment(s, t)
         IN  /\ u.starts = t /\ u.plan = s.plan /\ u.pendingPlan = s.pendingPlan
<1> DEFINE until == LaterEnd(s, t) + PeriodLen(s.plan)
           p     == StartPeriod(s, t, until)
<1>1. p \in Subscription
  BY LaterEndType, PeriodLenType, StartPeriodType
<1>2. p.starts = t /\ p.plan = s.plan /\ p.pendingPlan = s.pendingPlan
  BY DEF StartPeriod, Subscription
<1>3. ApplyManualPayment(s, t) = ApplyQueuedDownsize(p)
  BY DEF ApplyManualPayment
<1> HIDE DEF p
<1> QED
  BY <1>1, <1>2, <1>3 DEF ApplyQueuedDownsize, Subscription

LEMMA RenewalDates ==
  ASSUME NEW s \in Subscription, NEW t \in Int
  PROVE  LET u == ApplyRenewal(s, t)
         IN  /\ u.starts = t /\ u.plan = NextPlan(s) /\ u.pendingPlan = NoPlan
<1> DEFINE plan == NextPlan(s)
           p    == StartPeriod(s, t, t + PeriodLen(plan))
           q    == [p EXCEPT !.plan = plan, !.pendingPlan = NoPlan]
<1>1. p \in Subscription /\ plan \in Plans
  BY NextPlanType, PeriodLenType, StartPeriodType
<1>2. p.starts = t
  BY DEF StartPeriod, Subscription
<1>3. ApplyRenewal(s, t) = ApplyQueuedDownsize(q)
  BY DEF ApplyRenewal
<1> HIDE DEF p, plan
<1>4. q \in Subscription
  <2>1. NoPlan \in Renewable \cup {NoPlan}
    OBVIOUS
  <2> QED BY <1>1, <2>1, Zenon DEF Subscription
<1>5. q.starts = t /\ q.plan = plan /\ q.pendingPlan = NoPlan
  BY <1>1, <1>2 DEF Subscription
<1> HIDE DEF q
<1> QED
  BY <1>3, <1>4, <1>5 DEF ApplyQueuedDownsize, Subscription, plan

\* The year begins on a monthly plan and nobody queues another.
MonthlyOnly == sub.plan = "monthly" /\ sub.pendingPlan = NoPlan /\ ~sub.comp

\* A step that leaves the period and the extensions alone.  It may cancel.
Steady ==
  /\ sub'.ends = sub.ends /\ sub'.starts = sub.starts
  /\ sub'.plan = sub.plan /\ sub'.pendingPlan = sub.pendingPlan /\ (sub'.comp => sub.comp)
  /\ sub'.status \in {sub.status, "canceled"}
  /\ now <= now' /\ now' \in Nat
  /\ UNCHANGED <<ext, kept, renewed>>

\* A mark that extends: the document is linked and the row still pays.
MarkExtends(a) ==
  LET i == op[a].target
  IN  /\ AdminMarks(a)
      /\ inv[i].kind = "invoice" /\ inv[i].linked /\ ManualPaymentExtends(sub)

LEMMA DecisionsAreSteady ==
  ASSUME TypeOK, CustomerStep \/ AdminCancels
  PROVE  Steady
<1> sub \in Subscription /\ now \in Nat
  BY DEF TypeOK
<1>1. CASE CustomerCancels
  BY <1>1 DEF CustomerCancels, Decides, CancelSelfServe, Subscription, Steady
<1>2. CASE CustomerReactivates
  BY <1>2 DEF CustomerReactivates, Decides, Reactivate, Subscription, Steady
<1>3. ASSUME NEW victims \in SUBSET (active \ {Owner}), CustomerQueuesDownsize(victims)
      PROVE  Steady
  BY <1>3 DEF CustomerQueuesDownsize, Decides, Subscription, Steady
<1>4. CASE AdminCancels
  BY <1>4 DEF AdminCancels, Decides, HardCancel, Subscription, Steady
<1> QED
  BY <1>1, <1>2, <1>3, <1>4 DEF CustomerStep

LEMMA PeriodStep ==
  ASSUME TypeOK, [Next]_vars
  PROVE  \/ Steady
         \/ \E a \in Admins : MarkExtends(a)
         \/ \E i \in Numbers : AdminUnmarks(i)
         \/ RenewalExtends /\ UNCHANGED <<now, ext, kept>>
<1> sub \in Subscription /\ now \in Nat
  BY DEF TypeOK
<1>1. UNCHANGED <<sub, ext, kept, renewed, now>> => Steady
  BY DEF Steady
<1>2. ASSUME NEW a \in Admins, AdminMarks(a), ~MarkExtends(a)
      PROVE  Steady
  BY <1>1, <1>2 DEF AdminMarks, MarkExtends
<1>3. CASE AdminStep
  BY <1>1, <1>2, <1>3, DecisionsAreSteady DEF AdminStep, AdminLoads, AdminVoids,
     AdminInvoices, AdminCredits, Issues, AdminConfirms
<1>4. CASE IssueStep
  BY <1>1, <1>4 DEF IssueStep, DraftSweep, Issues, TakesNumber, CommitsIssue, RollsBack
<1>5. CASE RenewalStep
  BY <1>1, <1>5 DEF RenewalStep, RenewalStarts, RenewalIssues, RenewalWithoutInvoice
<1>6. CASE Tick
  BY <1>6 DEF Tick, Steady
<1>7. CASE UNCHANGED vars
  BY <1>1, <1>7 DEF vars
<1> QED
  BY <1>3, <1>4, <1>5, <1>6, <1>7, DecisionsAreSteady DEF Next

\* What a mark that extends leaves behind.
LEMMA MarkEffect ==
  ASSUME IInv, LoadedIsCurrent, MonthlyOnly, NEW a \in Admins, MarkExtends(a)
  PROVE  LET i == op[a].target
         IN  /\ i \in Numbers /\ inv[i].status = "issued" /\ inv'[i].status = "paid"
             /\ inv[i].linked /\ inv[i].kind = "invoice"
             /\ SameButStatus(inv[i], inv'[i])
             /\ \A j \in Numbers : j # i => inv'[j] = inv[j] /\ ext'[j] = ext[j]
             /\ ext'[i] = [recorded |-> TRUE, live |-> TRUE,
                           before |-> Snap(sub), after |-> Snap(sub')]
             /\ sub'.starts = now /\ sub'.ends = LaterEnd(sub, now) + MonthLen
             /\ sub'.status = "active" /\ sub.status # "canceled" /\ sub.starts < now
             /\ sub'.plan = sub.plan /\ sub'.pendingPlan = sub.pendingPlan /\ ~sub'.comp
             /\ UNCHANGED <<now, kept, renewed>>
<1> DEFINE i == op[a].target
           u == ApplyManualPayment(sub, now)
<1> sub \in Subscription /\ now \in Int /\ inv \in [Numbers -> Invoice]
    /\ ext \in [Numbers -> Extension]
  BY DEF IInv, TypeOK
<1>1. i \in Numbers /\ inv[i].status = "issued"
  BY DEF MarkExtends, AdminMarks, IInv, WritesDocuments, LoadedIsCurrent, Payable, Procs
<1>2. /\ sub' = u /\ inv' = [inv EXCEPT ![i].status = "paid"]
      /\ ext' = [ext EXCEPT ![i] = [recorded |-> TRUE, live |-> TRUE,
                                    before |-> Snap(sub), after |-> Snap(u)]]
      /\ sub.status # "canceled" /\ sub.starts < now
      /\ inv[i].linked /\ inv[i].kind = "invoice"
      /\ UNCHANGED <<now, kept, renewed>>
  BY DEF MarkExtends, AdminMarks, ManualPaymentExtends
<1>3. /\ u.status = "active" /\ u.comp = sub.comp
      /\ u.ends = LaterEnd(sub, now) + PeriodLen(sub.plan)
  BY ManualPaymentFields
<1>4. u.starts = now /\ u.plan = sub.plan /\ u.pendingPlan = sub.pendingPlan
  BY ManualPaymentDates
<1>5. PeriodLen(sub.plan) = MonthLen
  BY DEF MonthlyOnly, PeriodLen
<1> HIDE DEF u, i
<1>6. /\ inv'[i].status = "paid" /\ SameButStatus(inv[i], inv'[i])
      /\ \A j \in Numbers : j # i => inv'[j] = inv[j] /\ ext'[j] = ext[j]
  <2>1. \A j \in Numbers : j # i => inv'[j] = inv[j]
    BY <1>1, <1>2, StatusOnly DEF IInv
  <2>2. inv'[i].status = "paid" /\ SameButStatus(inv[i], inv'[i])
    BY <1>1, <1>2, StatusOnly DEF IInv
  <2>3. \A j \in Numbers : j # i => ext'[j] = ext[j]
    BY <1>1, <1>2
  <2> QED BY <2>1, <2>2, <2>3
<1>7. ext'[i] = [recorded |-> TRUE, live |-> TRUE, before |-> Snap(sub), after |-> Snap(sub')]
  BY <1>1, <1>2
<1> QED
  BY <1>1, <1>2, <1>3, <1>4, <1>5, <1>6, <1>7 DEF MonthlyOnly, i

\* What an unmark does: the extension is no longer live, and either the row is
\* what it was before the mark or an extension that was live is counted as kept.
LEMMA UnmarkEffect ==
  ASSUME TypeOK, NEW i \in Numbers, AdminUnmarks(i)
  PROVE  /\ inv[i].status = "paid" /\ inv'[i].status = "issued"
         /\ SameButStatus(inv[i], inv'[i])
         /\ \A j \in Numbers : j # i => inv'[j] = inv[j] /\ ext'[j] = ext[j]
         /\ ext'[i] = [ext[i] EXCEPT !.live = FALSE]
         /\ sub'.plan = sub.plan /\ sub'.pendingPlan = sub.pendingPlan
         /\ sub'.comp = sub.comp
         /\ UNCHANGED <<now, renewed>>
         /\ \/ /\ inv[i].linked /\ inv[i].kind = "invoice" /\ ext[i].recorded
               /\ sub.ends = ext[i].after.ends /\ sub.starts = ext[i].after.starts
               /\ sub.status = ext[i].after.status
               /\ sub'.ends = ext[i].before.ends /\ sub'.starts = ext[i].before.starts
               /\ kept' = kept
            \/ /\ UNCHANGED sub
               /\ kept' = IF ext[i].live THEN kept + 1 ELSE kept
<1> sub \in Subscription /\ inv \in [Numbers -> Invoice] /\ ext \in [Numbers -> Extension]
  BY DEF TypeOK
<1> DEFINE reverts == /\ inv[i].kind = "invoice" /\ inv[i].linked /\ ext[i].recorded
                      /\ Untouched(sub, ext[i].after)
<1>1. inv[i].status = "paid" /\ inv' = [inv EXCEPT ![i].status = "issued"]
  BY DEF AdminUnmarks
<1>2. /\ inv'[i].status = "issued" /\ SameButStatus(inv[i], inv'[i])
      /\ \A j \in Numbers : j # i => inv'[j] = inv[j]
  BY <1>1, StatusOnly
<1>3. /\ ext'[i] = [ext[i] EXCEPT !.live = FALSE]
      /\ \A j \in Numbers : j # i => ext'[j] = ext[j]
  <2>1. ext' = [ext EXCEPT ![i].live = FALSE]
    BY DEF AdminUnmarks
  <2> QED BY <2>1
<1>4. UNCHANGED <<now, renewed>>
  BY DEF AdminUnmarks
<1>5. CASE reverts
  <2>1. sub' = Restore(sub, ext[i].before) /\ kept' = kept
    BY <1>5 DEF AdminUnmarks
  <2>2. /\ sub'.plan = sub.plan /\ sub'.pendingPlan = sub.pendingPlan
        /\ sub'.comp = sub.comp
        /\ sub'.ends = ext[i].before.ends /\ sub'.starts = ext[i].before.starts
    BY <2>1 DEF Restore, Subscription
  <2>3. /\ sub.ends = ext[i].after.ends /\ sub.starts = ext[i].after.starts
        /\ sub.status = ext[i].after.status
    BY <1>5 DEF Untouched, Snap
  <2> QED BY <1>1, <1>2, <1>3, <1>4, <1>5, <2>1, <2>2, <2>3
<1>6. CASE ~reverts
  <2>1. UNCHANGED sub /\ kept' = IF ext[i].live THEN kept + 1 ELSE kept
    BY <1>6 DEF AdminUnmarks
  <2> QED BY <1>1, <1>2, <1>3, <1>4, <2>1
<1> QED
  BY <1>5, <1>6

\* A renewal starts the period anew.
LEMMA RenewalEffect ==
  ASSUME TypeOK, MonthlyOnly, RenewalExtends
  PROVE  /\ sub'.ends = now + MonthLen
         /\ sub'.plan = "monthly" /\ sub'.pendingPlan = NoPlan /\ ~sub'.comp
         /\ renewed' = renewed \cup {inFlight}
<1> DEFINE u == ApplyRenewal(sub, now)
<1> sub \in Subscription /\ now \in Int
  BY DEF TypeOK
<1>1. NextPlan(sub) = "monthly" /\ PeriodLen(NextPlan(sub)) = MonthLen
  BY DEF MonthlyOnly, NextPlan, PeriodLen
<1>2. u.ends = now + PeriodLen(NextPlan(sub)) /\ u.comp = sub.comp
  BY RenewalFields
<1>3. u.plan = NextPlan(sub) /\ u.pendingPlan = NoPlan
  BY RenewalDates
<1>4. sub' = u /\ renewed' = renewed \cup {inFlight}
  BY DEF RenewalExtends
<1> HIDE DEF u
<1> QED
  BY <1>1, <1>2, <1>3, <1>4 DEF MonthlyOnly

LEMMA NextKeepsMonthly ==
  ASSUME IInv, LoadedIsCurrent, MonthlyOnly, [Next]_vars
  PROVE  MonthlyOnly'
<1> TypeOK
  BY DEF IInv
<1>1. CASE Steady
  BY <1>1 DEF Steady, MonthlyOnly
<1>2. ASSUME NEW a \in Admins, MarkExtends(a)
      PROVE  MonthlyOnly'
  BY <1>2, MarkEffect DEF MonthlyOnly
<1>3. ASSUME NEW i \in Numbers, AdminUnmarks(i)
      PROVE  MonthlyOnly'
  BY <1>3, UnmarkEffect DEF MonthlyOnly
<1>4. CASE RenewalExtends
  BY <1>4, RenewalEffect DEF MonthlyOnly
<1> QED
  BY <1>1, <1>2, <1>3, <1>4, PeriodStep

(***************************************************************************)
(* What the audit rows say.  An extension that is live belongs to a paid     *)
(* document; one that is recorded, live or not, took at least a month from   *)
(* its mark, and its mark is in the past.                                   *)
(***************************************************************************)
ExtensionsRecorded ==
  \A i \in Numbers :
    /\ ext[i].live => ext[i].recorded /\ inv[i].status = "paid"
    /\ ext[i].recorded =>
         /\ inv[i].status # "none" /\ inv[i].linked /\ inv[i].kind = "invoice"
         /\ ext[i].before.ends + MonthLen <= ext[i].after.ends
         /\ ext[i].after.starts <= now /\ ext[i].after.status = "active"

LEMMA SameDocumentFields ==
  ASSUME NEW d \in Invoice, NEW e \in Invoice, SameButStatus(d, e)
  PROVE  e.linked = d.linked /\ e.kind = d.kind
  BY DEF SameButStatus, Invoice

\* Outside marks and unmarks a paid document stays paid and keeps its link.
LEMMA PaidStays ==
  ASSUME OneAdmin, IInv, LoadedIsCurrent, TypeOK', [Next]_vars,
         \A a \in Admins : ~MarkExtends(a),
         \A i \in Numbers : ~AdminUnmarks(i)
  PROVE  \A i \in Numbers : inv[i].status # "none" =>
           /\ inv'[i].status # "none"
           /\ inv'[i].linked = inv[i].linked /\ inv'[i].kind = inv[i].kind
           /\ inv[i].status = "paid" => inv'[i].status = "paid"
           /\ inv'[i].status = "paid" /\ inv[i].status # "paid" =>
                ~(inv[i].linked /\ inv[i].kind = "invoice" /\ ManualPaymentExtends(sub))
<1> TypeOK
  BY DEF IInv
<1> inv \in [Numbers -> Invoice] /\ inv' \in [Numbers -> Invoice]
  BY DEF TypeOK
<1>1. ASSUME NEW a \in Admins, AdminMarks(a) \/ AdminVoids(a), NEW i \in Numbers,
             inv[i].status # "none"
      PROVE  /\ inv'[i].status # "none"
             /\ inv'[i].linked = inv[i].linked /\ inv'[i].kind = inv[i].kind
             /\ inv[i].status = "paid" => inv'[i].status = "paid"
             /\ inv'[i].status = "paid" /\ inv[i].status # "paid" =>
                  ~(inv[i].linked /\ inv[i].kind = "invoice" /\ ManualPaymentExtends(sub))
  <2> DEFINE j == op[a].target
  <2>1. j \in Numbers
    BY <1>1 DEF IInv, WritesDocuments, AdminMarks, AdminVoids, Procs
  <2>2. /\ AdminMarks(a) =>
             /\ inv' = [inv EXCEPT ![j].status = "paid"]
             /\ ~(inv[j].linked /\ inv[j].kind = "invoice" /\ ManualPaymentExtends(sub))
        /\ AdminVoids(a) => /\ inv[j].status \in {"draft", "issued", "voided"}
                            /\ inv' = [inv EXCEPT ![j].status = "voided"]
    BY DEF LoadedIsCurrent, AdminMarks, AdminVoids, MarkExtends
  <2> HIDE DEF j
  <2>3. /\ SameButStatus(inv[j], inv'[j])
        /\ \A k \in Numbers : k # j => inv'[k] = inv[k]
        /\ AdminMarks(a) => inv'[j].status = "paid"
        /\ AdminVoids(a) => inv'[j].status = "voided"
    BY <1>1, <2>1, <2>2, StatusOnly
  <2>4. inv'[j].linked = inv[j].linked /\ inv'[j].kind = inv[j].kind
    BY <2>1, <2>3, SameDocumentFields
  <2> QED BY <1>1, <2>2, <2>3, <2>4
<1>2. CASE \A a \in Admins : ~AdminMarks(a) /\ ~AdminVoids(a)
  <2>1. QuietTable
    BY <1>2, DocumentsMoveQuietly
  <2> QED BY <2>1, SameDocumentFields DEF QuietTable, Quietly
<1> QED
  BY <1>1, <1>2

LEMMA NextKeepsExtensions ==
  ASSUME OneAdmin, IInv, LoadedIsCurrent, MonthlyOnly, ExtensionsRecorded, TypeOK', [Next]_vars
  PROVE  ExtensionsRecorded'
<1> TypeOK /\ sub \in Subscription /\ now \in Nat /\ MonthLen \in Nat
  BY PeriodAssumption DEF IInv, TypeOK
<1> /\ inv \in [Numbers -> Invoice] /\ inv' \in [Numbers -> Invoice]
    /\ ext \in [Numbers -> Extension]
  BY DEF TypeOK
<1>1. ASSUME NEW a \in Admins, MarkExtends(a)
      PROVE  ExtensionsRecorded'
  <2> DEFINE i == op[a].target
  <2>1. /\ i \in Numbers /\ inv'[i].status = "paid"
        /\ inv[i].linked /\ inv[i].kind = "invoice" /\ SameButStatus(inv[i], inv'[i])
        /\ \A j \in Numbers : j # i => inv'[j] = inv[j] /\ ext'[j] = ext[j]
        /\ ext'[i] = [recorded |-> TRUE, live |-> TRUE,
                      before |-> Snap(sub), after |-> Snap(sub')]
        /\ sub'.starts = now /\ sub'.ends = LaterEnd(sub, now) + MonthLen
        /\ sub'.status = "active" /\ now' = now
    BY <1>1, MarkEffect
  <2> HIDE DEF i
  <2>2. inv'[i].linked /\ inv'[i].kind = "invoice"
    BY <2>1, SameDocumentFields
  <2>3. sub.ends + MonthLen <= sub'.ends
    BY <2>1 DEF LaterEnd, Subscription, Timestamp
  <2>4. /\ ext'[i].recorded /\ ext'[i].before.ends = sub.ends
        /\ ext'[i].after.ends = sub'.ends /\ ext'[i].after.starts = sub'.starts
        /\ ext'[i].after.status = sub'.status
    BY <2>1 DEF Snap
  <2> QED BY <2>1, <2>2, <2>3, <2>4 DEF ExtensionsRecorded
<1>2. ASSUME NEW i \in Numbers, AdminUnmarks(i)
      PROVE  ExtensionsRecorded'
  <2>1. /\ inv'[i].status = "issued" /\ SameButStatus(inv[i], inv'[i])
        /\ \A j \in Numbers : j # i => inv'[j] = inv[j] /\ ext'[j] = ext[j]
        /\ ext'[i] = [ext[i] EXCEPT !.live = FALSE] /\ now' = now
    BY <1>2, UnmarkEffect
  <2>2. inv'[i].linked = inv[i].linked /\ inv'[i].kind = inv[i].kind
    BY <2>1, SameDocumentFields
  <2>3. /\ ~ext'[i].live /\ ext'[i].recorded = ext[i].recorded
        /\ ext'[i].before = ext[i].before /\ ext'[i].after = ext[i].after
    BY <2>1 DEF Extension
  <2> SUFFICES ASSUME NEW j \in Numbers
               PROVE  /\ ext'[j].live => ext'[j].recorded /\ inv'[j].status = "paid"
                      /\ ext'[j].recorded =>
                           /\ inv'[j].status # "none" /\ inv'[j].linked
                           /\ inv'[j].kind = "invoice"
                           /\ ext'[j].before.ends + MonthLen <= ext'[j].after.ends
                           /\ ext'[j].after.starts <= now
                           /\ ext'[j].after.status = "active"
    BY <2>1 DEF ExtensionsRecorded
  <2>4. CASE j = i
    BY <2>1, <2>2, <2>3, <2>4 DEF ExtensionsRecorded
  <2>5. CASE j # i
    BY <2>1, <2>5 DEF ExtensionsRecorded
  <2> QED BY <2>4, <2>5
<1>3. ASSUME \A a \in Admins : ~MarkExtends(a), \A i \in Numbers : ~AdminUnmarks(i)
      PROVE  ExtensionsRecorded'
  <2>1. ext' = ext /\ now <= now' /\ now' \in Nat
    BY <1>3, PeriodStep DEF Steady
  <2>2. \A i \in Numbers : inv[i].status # "none" =>
          /\ inv'[i].status # "none"
          /\ inv'[i].linked = inv[i].linked /\ inv'[i].kind = inv[i].kind
          /\ inv[i].status = "paid" => inv'[i].status = "paid"
    BY <1>3, PaidStays
  <2>3. \A i \in Numbers : ext[i].after.starts \in Int
    BY DEF Extension, Snapshot, Timestamp
  <2> QED BY <2>1, <2>2, <2>3 DEF ExtensionsRecorded
<1> QED
  BY <1>1, <1>2, <1>3

(***************************************************************************)
(* Counting extensions.                                                    *)
(***************************************************************************)
LEMMA NumbersFinite ==
  ASSUME NEW S, S \subseteq Numbers
  PROVE  IsFiniteSet(S) /\ Cardinality(S) \in Nat
<1>1. IsFiniteSet(Numbers)
  BY SeriesAssumption, FS_Interval DEF Numbers
<1> QED
  BY <1>1, FS_Subset, FS_CardinalityType

\* Marking one more adds one, unmarking takes one away or none.
LEMMA ExtendedGrows ==
  ASSUME NEW i \in Numbers, ~ext[i].live, ext'[i].live,
         \A j \in Numbers : j # i => ext'[j] = ext[j]
  PROVE  Extended' = Extended \cup {i} /\ Cardinality(Extended') = Cardinality(Extended) + 1
<1>1. Extended' = Extended \cup {i} /\ i \notin Extended
  BY DEF Extended
<1>2. IsFiniteSet(Extended)
  BY NumbersFinite DEF Extended
<1> QED
  BY <1>1, <1>2, FS_AddElement

LEMMA ExtendedShrinks ==
  ASSUME NEW i \in Numbers, ~ext'[i].live,
         \A j \in Numbers : j # i => ext'[j] = ext[j]
  PROVE  /\ Extended' = Extended \ {i}
         /\ Cardinality(Extended) = Cardinality(Extended') + IF ext[i].live THEN 1 ELSE 0
<1>1. Extended' = Extended \ {i} /\ (i \in Extended <=> ext[i].live)
  BY DEF Extended
<1>2. IsFiniteSet(Extended) /\ Cardinality(Extended) \in Nat
  BY NumbersFinite DEF Extended
<1>3. CASE ext[i].live
  <2>1. Cardinality(Extended \ {i}) = Cardinality(Extended) - 1
    BY <1>1, <1>2, <1>3, FS_RemoveElement
  <2>2. Cardinality(Extended') = Cardinality(Extended) - 1
    BY <1>1, <2>1
  <2> HIDE DEF Extended
  <2> QED BY <1>1, <1>2, <1>3, <2>2
<1>4. CASE ~ext[i].live
  <2>1. Extended' = Extended
    BY <1>1, <1>4
  <2> QED BY <1>1, <1>2, <1>4, <2>1
<1> QED
  BY <1>3, <1>4

LEMMA LaterOfTwo ==
  ASSUME NEW x \in Int, NEW y \in Int
  PROVE  Max({x, y}) = IF x >= y THEN x ELSE y
  BY DEF Max

LEMMA MonthsAdd ==
  ASSUME NEW n \in Int, NEW m \in Int
  PROVE  /\ MonthLen * (n + m) = MonthLen * n + MonthLen * m
         /\ MonthLen * 1 = MonthLen /\ MonthLen * n \in Int
         /\ n <= m => MonthLen * n <= MonthLen * m
<1>1. MonthLen \in Nat /\ MonthLen > 0
  BY PeriodAssumption
<1> QED
  BY <1>1

LEMMA AtMostOneMonthMore ==
  ASSUME NEW n \in Nat, NEW m \in Nat, n <= m + 1
  PROVE  /\ MonthLen * n <= MonthLen * m + MonthLen
         /\ MonthLen * n \in Nat /\ MonthLen * m \in Nat
<1>1. MonthLen * n <= MonthLen * (m + 1) /\ MonthLen * (m + 1) = MonthLen * m + MonthLen * 1
  BY MonthsAdd
<1> QED
  BY <1>1, PeriodAssumption

LEMMA AtLeastOneMonth ==
  ASSUME NEW n \in Nat, n >= 1
  PROVE  MonthLen * n >= MonthLen /\ MonthLen * n \in Nat
<1>1. MonthLen * 1 <= MonthLen * n
  BY MonthsAdd
<1> QED
  BY <1>1, PeriodAssumption

(***************************************************************************)
(* The period is paid for.                                                 *)
(***************************************************************************)

\* What has been paid, or was left in place and said so, counted in months.
Months == Cardinality(Extended) + kept + Cardinality(renewed)

LEMMA MonthsType ==
  ASSUME TypeOK, IsFiniteSet(renewed)
  PROVE  Cardinality(Extended) \in Nat /\ Cardinality(renewed) \in Nat /\ Months \in Nat
<1>1. Cardinality(Extended) \in Nat
  BY NumbersFinite DEF Extended
<1> QED
  BY <1>1, FS_CardinalityType DEF TypeOK, Months

PaidFor == sub.ends <= (IF MonthLen >= now THEN MonthLen ELSE now) + MonthLen * Months

LEMMA PaidForIsPeriodIsPaidFor ==
  ASSUME TypeOK
  PROVE  PaidFor <=> PeriodIsPaidFor
<1>1. Max({MonthLen, now}) = IF MonthLen >= now THEN MonthLen ELSE now
  BY LaterOfTwo, PeriodAssumption DEF TypeOK
<1> QED
  BY <1>1 DEF PaidFor, PeriodIsPaidFor, Months

LEMMA NextKeepsPaidFor ==
  ASSUME IInv, LoadedIsCurrent, MonthlyOnly, ExtensionsRecorded, TypeOK',
         IsFiniteSet(renewed), PaidFor, [Next]_vars
  PROVE  PaidFor' /\ IsFiniteSet(renewed')
<1> TypeOK /\ now \in Nat /\ kept \in Nat /\ MonthLen \in Nat /\ MonthLen > 0
    /\ sub \in Subscription
  BY PeriodAssumption DEF IInv, TypeOK
<1> sub.ends \in Int
  BY DEF Subscription, Timestamp
<1>0. Months \in Nat /\ Cardinality(Extended) \in Nat /\ Cardinality(renewed) \in Nat
  BY MonthsType
<1>1. CASE Steady
  <2>1. Months' = Months /\ sub'.ends = sub.ends /\ now <= now' /\ now' \in Nat
        /\ renewed' = renewed
    BY <1>1 DEF Steady, Months, Extended
  <2>2. MonthLen * Months \in Int
    BY <1>0, MonthsAdd
  <2> QED BY <2>1, <2>2 DEF PaidFor
<1>2. ASSUME NEW a \in Admins, MarkExtends(a)
      PROVE  PaidFor' /\ IsFiniteSet(renewed')
  <2> DEFINE i == op[a].target
  <2>1. /\ i \in Numbers /\ inv[i].status = "issued"
        /\ \A j \in Numbers : j # i => ext'[j] = ext[j]
        /\ ext'[i].live
        /\ sub'.ends = LaterEnd(sub, now) + MonthLen
        /\ UNCHANGED <<now, kept, renewed>>
    BY <1>2, MarkEffect
  <2> HIDE DEF i
  <2>2. ~ext[i].live
    BY <2>1 DEF ExtensionsRecorded
  <2>3. Cardinality(Extended') = Cardinality(Extended) + 1
    BY <2>1, <2>2, ExtendedGrows
  <2>4. Months' = Months + 1
    BY <1>0, <2>1, <2>3 DEF Months
  <2>5. MonthLen * Months' = MonthLen * Months + MonthLen /\ MonthLen * Months \in Nat
    BY <1>0, <2>4, MonthsAdd
  <2>6. sub'.ends = (IF sub.ends > now THEN sub.ends ELSE now) + MonthLen
    BY <2>1 DEF LaterEnd
  <2> QED BY <2>1, <2>5, <2>6 DEF PaidFor
<1>3. ASSUME NEW i \in Numbers, AdminUnmarks(i)
      PROVE  PaidFor' /\ IsFiniteSet(renewed')
  <2>1. /\ \A j \in Numbers : j # i => ext'[j] = ext[j]
        /\ ext'[i] = [ext[i] EXCEPT !.live = FALSE]
        /\ UNCHANGED <<now, renewed>>
        /\ \/ /\ ext[i].recorded
              /\ sub.ends = ext[i].after.ends
              /\ sub'.ends = ext[i].before.ends
              /\ kept' = kept
           \/ /\ UNCHANGED sub
              /\ kept' = IF ext[i].live THEN kept + 1 ELSE kept
    BY <1>3, UnmarkEffect
  <2>2. ~ext'[i].live
    BY <2>1 DEF TypeOK, Extension
  <2>3. Cardinality(Extended) = Cardinality(Extended') + IF ext[i].live THEN 1 ELSE 0
    BY <2>1, <2>2, ExtendedShrinks
  <2>4. Cardinality(Extended') \in Nat
    BY NumbersFinite DEF Extended
  <2>5. CASE /\ ext[i].recorded /\ sub.ends = ext[i].after.ends
             /\ sub'.ends = ext[i].before.ends /\ kept' = kept
    <3>1. Months' \in Nat /\ Months <= Months' + 1
      BY <1>0, <2>1, <2>3, <2>4, <2>5 DEF Months
    <3>2. /\ MonthLen * Months <= MonthLen * Months' + MonthLen
          /\ MonthLen * Months \in Nat /\ MonthLen * Months' \in Nat
      BY <1>0, <3>1, AtMostOneMonthMore
    <3>3. sub'.ends + MonthLen <= sub.ends /\ sub'.ends \in Int
      BY <2>5 DEF ExtensionsRecorded, TypeOK, Subscription, Timestamp
    <3> QED BY <2>1, <3>2, <3>3 DEF PaidFor
  <2>6. CASE /\ UNCHANGED sub
             /\ kept' = IF ext[i].live THEN kept + 1 ELSE kept
    <3>1. Months' = Months
      BY <1>0, <2>1, <2>3, <2>4, <2>6 DEF Months
    <3> QED BY <2>1, <2>6, <3>1 DEF PaidFor
  <2> QED BY <2>1, <2>5, <2>6
<1>4. CASE RenewalExtends /\ UNCHANGED <<now, ext, kept>>
  <2>1. sub'.ends = now + MonthLen /\ renewed' = renewed \cup {inFlight}
    BY <1>4, RenewalEffect
  <2>2. IsFiniteSet(renewed') /\ Cardinality(renewed') \in Nat /\ Cardinality(renewed') >= 1
    <3>1. /\ IsFiniteSet(renewed')
          /\ Cardinality(renewed') = IF inFlight \in renewed THEN Cardinality(renewed)
                                     ELSE Cardinality(renewed) + 1
      BY <2>1, FS_AddElement
    <3>2. inFlight \in renewed => Cardinality(renewed) # 0
      BY FS_EmptySet
    <3> QED BY <1>0, <3>1, <3>2
  <2>3. Months' \in Nat /\ Months' >= 1
    <3>1. Extended' = Extended /\ kept' = kept
      BY <1>4 DEF Extended
    <3> QED BY <1>0, <2>2, <3>1 DEF Months
  <2>4. MonthLen * Months' >= MonthLen /\ MonthLen * Months' \in Nat
    BY <2>3, AtLeastOneMonth
  <2> QED BY <1>4, <2>1, <2>2, <2>4 DEF PaidFor
<1> QED
  BY <1>1, <1>2, <1>3, <1>4, PeriodStep

PeriodInv ==
  /\ IInv /\ LoadedIsCurrent /\ MonthlyOnly /\ ExtensionsRecorded
  /\ IsFiniteSet(renewed) /\ PaidFor

LEMMA InitPeriodInv == Init => PeriodInv
<1> SUFFICES ASSUME Init PROVE PeriodInv
  OBVIOUS
<1>1. TypeOK
  BY InitType
<1>2. LoadedIsCurrent
  BY DEF Init, LoadedIsCurrent, Idle, Procs
<1>3. MonthlyOnly /\ ExtensionsRecorded
  BY DEF Init, FirstPeriod, MonthlyOnly, ExtensionsRecorded
<1>4. IsFiniteSet(renewed)
  BY FS_EmptySet DEF Init
<1>5. Months \in Nat
  BY <1>1, <1>4, MonthsType
<1>6. MonthLen * Months \in Nat
  BY <1>5, PeriodAssumption
<1>7. PaidFor
  BY <1>6, PeriodAssumption DEF Init, FirstPeriod, PaidFor
<1> QED
  BY <1>2, <1>3, <1>4, <1>7, InitIInv DEF PeriodInv

LEMMA NextPeriodInv ==
  ASSUME OneAdmin, PeriodInv, [Next]_vars
  PROVE  PeriodInv'
<1>1. IInv' /\ TypeOK'
  BY NextIInv DEF PeriodInv, IInv
<1>2. LoadedIsCurrent' /\ MonthlyOnly' /\ ExtensionsRecorded'
  BY <1>1, NextKeepsCurrent, NextKeepsMonthly, NextKeepsExtensions DEF PeriodInv
<1>3. PaidFor' /\ IsFiniteSet(renewed')
  BY <1>1, NextKeepsPaidFor DEF PeriodInv
<1> QED
  BY <1>1, <1>2, <1>3 DEF PeriodInv

\* With one administrator's request at a time the period never reaches further
\* than the money: every month of it is a renewal, an invoice that is flagged
\* paid, or an extension an unmark left in place and recorded.
THEOREM PeriodIsPaid ==
  ASSUME OneAdmin
  PROVE  Spec => []PeriodIsPaidFor
<1>1. PeriodInv /\ [Next]_vars => PeriodInv'
  BY NextPeriodInv
<1>2. PeriodInv => PeriodIsPaidFor
  BY PaidForIsPeriodIsPaidFor DEF PeriodInv, IInv
<1> QED
  BY <1>1, <1>2, InitPeriodInv, PTL DEF Spec

-----------------------------------------------------------------------------
(***************************************************************************)
(* And it reaches at least as far: the extensions are a stack.  While the    *)
(* card rail is silent, the live ones lie on top of each other in the order  *)
(* of their marks; what was there before a mark still holds the days of all  *)
(* the live extensions below it, so taking one back takes one month.        *)
(***************************************************************************)
Below(i) == {j \in Extended : ext[j].after.starts < ext[i].after.starts}

StackInOrder ==
  /\ \A j \in Extended : ext[j].after.starts <= sub.starts
  /\ \A j, k \in Extended : ext[j].after.starts = ext[k].after.starts => j = k
BeforeIsBelow ==
  \A i \in Numbers : ext[i].recorded =>
    /\ ext[i].before.ends >= MonthLen + MonthLen * Cardinality(Below(i))
    /\ \A j \in Below(i) : ext[j].after.starts <= ext[i].before.starts
DeadIsCanceled ==
  \A i \in Numbers :
    ext[i].recorded /\ inv[i].status = "paid" /\ ~ext[i].live => sub.status = "canceled"
DaysKept == sub.ends >= MonthLen + MonthLen * Cardinality(Extended)

Stacked == StackInOrder /\ BeforeIsBelow /\ DeadIsCanceled /\ DaysKept
StackInv == renewed = {} => Stacked

LEMMA FewerMonths ==
  ASSUME NEW S, NEW T, S \subseteq T, T \subseteq Numbers
  PROVE  /\ MonthLen * Cardinality(S) <= MonthLen * Cardinality(T)
         /\ MonthLen * Cardinality(S) \in Nat /\ MonthLen * Cardinality(T) \in Nat
<1>1. IsFiniteSet(T) /\ Cardinality(T) \in Nat /\ Cardinality(S) \in Nat
  BY NumbersFinite
<1>2. Cardinality(S) <= Cardinality(T)
  BY <1>1, FS_Subset
<1>3. \A n \in Nat : MonthLen * n \in Nat
  BY PeriodAssumption
<1> QED
  BY <1>1, <1>2, <1>3, MonthsAdd

LEMMA ExtensionDates ==
  ASSUME TypeOK
  PROVE  \A i \in Numbers : /\ ext[i].after.starts \in Int /\ ext[i].before.starts \in Int
                            /\ ext[i].after.ends \in Int /\ ext[i].before.ends \in Int
  BY DEF TypeOK, Extension, Snapshot, Timestamp

LEMMA MarkKeepsStack ==
  ASSUME IInv, LoadedIsCurrent, MonthlyOnly, ExtensionsRecorded, TypeOK', Stacked,
         NEW a \in Admins, MarkExtends(a)
  PROVE  Stacked'
<1> DEFINE i == op[a].target
<1> TypeOK /\ now \in Nat /\ MonthLen \in Nat /\ sub \in Subscription
  BY PeriodAssumption DEF IInv, TypeOK
<1> sub.ends \in Int /\ sub.starts \in Int
  BY DEF Subscription, Timestamp
<1>1. /\ i \in Numbers /\ inv[i].status = "issued"
      /\ \A j \in Numbers : j # i => inv'[j] = inv[j] /\ ext'[j] = ext[j]
      /\ ext'[i] = [recorded |-> TRUE, live |-> TRUE,
                    before |-> Snap(sub), after |-> Snap(sub')]
      /\ sub'.starts = now /\ sub'.ends = LaterEnd(sub, now) + MonthLen
      /\ sub.status # "canceled" /\ sub.starts < now
  BY MarkEffect
<1> HIDE DEF i
<1>2. /\ ext'[i].recorded /\ ext'[i].live
      /\ ext'[i].after.starts = now
      /\ ext'[i].before.ends = sub.ends /\ ext'[i].before.starts = sub.starts
  BY <1>1 DEF Snap
<1>3. ~ext[i].live
  BY <1>1 DEF ExtensionsRecorded
<1>4. Extended' = Extended \cup {i} /\ Cardinality(Extended') = Cardinality(Extended) + 1
  BY <1>1, <1>2, <1>3, ExtendedGrows
<1>5. \A j \in Extended : /\ j # i /\ j \in Numbers /\ ext'[j] = ext[j]
                          /\ ext[j].after.starts <= sub.starts
                          /\ ext[j].after.starts < now
  BY <1>1, <1>3, ExtensionDates DEF Extended, Stacked, StackInOrder
<1>6. StackInOrder'
  <2>1. \A j \in Extended' : ext'[j].after.starts <= sub'.starts
    BY <1>1, <1>2, <1>4, <1>5, ExtensionDates
  <2>2. \A j, k \in Extended' : ext'[j].after.starts = ext'[k].after.starts => j = k
    BY <1>2, <1>4, <1>5 DEF Stacked, StackInOrder
  <2> QED BY <2>1, <2>2 DEF StackInOrder
<1>7. \A k \in Numbers : k # i /\ ext[k].recorded => Below(k)' = Below(k)
  <2> SUFFICES ASSUME NEW k \in Numbers, k # i, ext[k].recorded
               PROVE  Below(k)' = Below(k)
    OBVIOUS
  <2>1. ext'[k] = ext[k] /\ ext[k].after.starts <= now /\ ext[k].after.starts \in Int
    BY <1>1, ExtensionDates DEF ExtensionsRecorded
  <2>2. Below(k)' = {j \in Extended' : ext'[j].after.starts < ext[k].after.starts}
    BY <2>1 DEF Below
  <2>3. ~(ext'[i].after.starts < ext[k].after.starts)
    BY <1>2, <2>1
  <2> QED BY <1>4, <1>5, <2>2, <2>3 DEF Below
<1>8. BeforeIsBelow'
  <2> SUFFICES ASSUME NEW k \in Numbers, ext'[k].recorded
               PROVE  /\ ext'[k].before.ends >= MonthLen + MonthLen * Cardinality(Below(k)')
                      /\ \A j \in Below(k)' : ext'[j].after.starts <= ext'[k].before.starts
    BY DEF BeforeIsBelow
  <2>1. CASE k # i
    <3>1. ext'[k] = ext[k] /\ Below(k)' = Below(k)
      BY <1>1, <1>7, <2>1
    <3>2. \A j \in Below(k) : ext'[j] = ext[j]
      BY <1>5 DEF Below
    <3> QED BY <3>1, <3>2 DEF Stacked, BeforeIsBelow
  <2>2. CASE k = i
    <3>1. Below(k)' \subseteq Extended /\ Extended \subseteq Numbers
      BY <1>2, <1>4, <2>2 DEF Below, Extended
    <3>2. /\ MonthLen * Cardinality(Below(k)') <= MonthLen * Cardinality(Extended)
          /\ MonthLen * Cardinality(Below(k)') \in Nat
          /\ MonthLen * Cardinality(Extended) \in Nat
      BY <3>1, FewerMonths
    <3>3. ext'[k].before.ends >= MonthLen + MonthLen * Cardinality(Below(k)')
      BY <1>2, <2>2, <3>2 DEF Stacked, DaysKept
    <3>4. \A j \in Below(k)' : ext'[j].after.starts <= ext'[k].before.starts
      BY <1>2, <1>5, <2>2, <3>1
    <3> QED BY <3>3, <3>4
  <2> QED BY <2>1, <2>2
<1>9. DeadIsCanceled'
  BY <1>1, <1>2 DEF Stacked, DeadIsCanceled
<1>10. DaysKept'
  <2>1. Cardinality(Extended) \in Nat
    BY NumbersFinite DEF Extended
  <2>2. MonthLen * Cardinality(Extended') = MonthLen * Cardinality(Extended) + MonthLen
        /\ MonthLen * Cardinality(Extended) \in Int
    BY <1>4, <2>1, MonthsAdd
  <2>3. sub'.ends >= sub.ends + MonthLen /\ sub'.ends \in Int
    BY <1>1 DEF LaterEnd
  <2> QED BY <2>2, <2>3 DEF Stacked, DaysKept
<1> QED
  BY <1>6, <1>8, <1>9, <1>10 DEF Stacked

\* With fewer live extensions nothing that was true of the stack is lost.
LEMMA UnmarkKeepsBelow ==
  ASSUME TypeOK, TypeOK', BeforeIsBelow, NEW i \in Numbers, AdminUnmarks(i)
  PROVE  BeforeIsBelow'
<1> MonthLen \in Nat
  BY PeriodAssumption
<1>1. /\ \A j \in Numbers : j # i => ext'[j] = ext[j]
      /\ ext'[i] = [ext[i] EXCEPT !.live = FALSE]
  BY UnmarkEffect
<1>2. \A k \in Numbers : /\ ext'[k].recorded = ext[k].recorded
                         /\ ext'[k].before = ext[k].before /\ ext'[k].after = ext[k].after
                         /\ ext'[k].live => ext[k].live
  BY <1>1 DEF TypeOK, Extension
<1>3. \A k \in Numbers : Below(k)' \subseteq Below(k) /\ Below(k) \subseteq Numbers
  BY <1>2 DEF Below, Extended
<1> SUFFICES ASSUME NEW k \in Numbers, ext'[k].recorded
             PROVE  /\ ext'[k].before.ends >= MonthLen + MonthLen * Cardinality(Below(k)')
                    /\ \A j \in Below(k)' : ext'[j].after.starts <= ext'[k].before.starts
  BY DEF BeforeIsBelow
<1>4. /\ MonthLen * Cardinality(Below(k)') <= MonthLen * Cardinality(Below(k))
      /\ MonthLen * Cardinality(Below(k)') \in Nat
      /\ MonthLen * Cardinality(Below(k)) \in Nat
  BY <1>3, FewerMonths
<1>5. ext[k].before.ends >= MonthLen + MonthLen * Cardinality(Below(k))
  BY <1>2 DEF BeforeIsBelow
<1>6. ext[k].before.ends \in Int
  BY ExtensionDates
<1>7. ext'[k].before.ends >= MonthLen + MonthLen * Cardinality(Below(k)')
  BY <1>2, <1>4, <1>5, <1>6
<1>8. \A j \in Below(k)' : ext'[j].after.starts <= ext'[k].before.starts
  BY <1>2, <1>3 DEF BeforeIsBelow
<1> QED
  BY <1>7, <1>8

LEMMA UnmarkKeepsStack ==
  ASSUME TypeOK, TypeOK', ExtensionsRecorded, Stacked, NEW i \in Numbers, AdminUnmarks(i)
  PROVE  Stacked'
<1> MonthLen \in Nat /\ sub \in Subscription /\ sub' \in Subscription
  BY PeriodAssumption DEF TypeOK
<1>1. /\ inv[i].status = "paid" /\ inv'[i].status = "issued"
      /\ \A j \in Numbers : j # i => inv'[j] = inv[j] /\ ext'[j] = ext[j]
      /\ ext'[i] = [ext[i] EXCEPT !.live = FALSE]
      /\ \/ /\ ext[i].recorded
            /\ sub.ends = ext[i].after.ends /\ sub.starts = ext[i].after.starts
            /\ sub.status = ext[i].after.status
            /\ sub'.ends = ext[i].before.ends /\ sub'.starts = ext[i].before.starts
         \/ UNCHANGED sub
  BY UnmarkEffect
<1>2. ~ext'[i].live
  BY <1>1 DEF TypeOK, Extension
<1>3. Extended' = Extended \ {i}
  BY <1>1, <1>2, ExtendedShrinks
<1>4. \A j \in Extended' : j # i /\ j \in Extended /\ j \in Numbers /\ ext'[j] = ext[j]
  BY <1>1, <1>3 DEF Extended
<1>5. BeforeIsBelow'
  BY UnmarkKeepsBelow DEF Stacked
<1>6. \A j, k \in Extended' : ext'[j].after.starts = ext'[k].after.starts => j = k
  BY <1>4 DEF Stacked, StackInOrder
<1>7. CASE UNCHANGED sub
  <2>1. StackInOrder'
    BY <1>4, <1>6, <1>7 DEF Stacked, StackInOrder
  <2>2. DeadIsCanceled'
    BY <1>1, <1>7 DEF Stacked, DeadIsCanceled
  <2>3. /\ MonthLen * Cardinality(Extended') <= MonthLen * Cardinality(Extended)
        /\ MonthLen * Cardinality(Extended') \in Nat
        /\ MonthLen * Cardinality(Extended) \in Nat
    BY <1>3, FewerMonths DEF Extended
  <2>4. DaysKept'
    BY <1>7, <2>3 DEF Stacked, DaysKept, Subscription, Timestamp
  <2> QED BY <1>5, <2>1, <2>2, <2>4 DEF Stacked
<1>8. CASE /\ ext[i].recorded
           /\ sub.ends = ext[i].after.ends /\ sub.starts = ext[i].after.starts
           /\ sub.status = ext[i].after.status
           /\ sub'.ends = ext[i].before.ends /\ sub'.starts = ext[i].before.starts
  <2>1. sub.status = "active"
    BY <1>8 DEF ExtensionsRecorded
  <2>2. ext[i].live
    BY <1>1, <1>8, <2>1 DEF Stacked, DeadIsCanceled
  <2>3. i \in Extended
    BY <2>2 DEF Extended
  <2>4. Below(i) = Extended'
    <3>1. \A j \in Extended : j # i => ext[j].after.starts < ext[i].after.starts
      BY <1>8, <2>3, ExtensionDates DEF Stacked, StackInOrder, Extended
    <3>2. ~(ext[i].after.starts < ext[i].after.starts)
      BY ExtensionDates
    <3> QED BY <1>3, <3>1, <3>2 DEF Below
  <2>5. StackInOrder'
    BY <1>4, <1>6, <1>8, <2>4 DEF Stacked, StackInOrder, BeforeIsBelow
  <2>6. DeadIsCanceled'
    BY <1>1, <2>1 DEF Stacked, DeadIsCanceled
  <2>7. DaysKept'
    BY <1>8, <2>4 DEF Stacked, BeforeIsBelow, DaysKept
  <2> QED BY <1>5, <2>5, <2>6, <2>7 DEF Stacked
<1> QED
  BY <1>1, <1>7, <1>8

LEMMA SteadyKeepsStack ==
  ASSUME OneAdmin, IInv, LoadedIsCurrent, MonthlyOnly, ExtensionsRecorded, TypeOK', Stacked,
         [Next]_vars, Steady,
         \A a \in Admins : ~MarkExtends(a),
         \A i \in Numbers : ~AdminUnmarks(i)
  PROVE  Stacked'
<1>1. ext' = ext /\ sub'.ends = sub.ends /\ sub'.starts = sub.starts
      /\ sub'.status \in {sub.status, "canceled"}
  BY DEF Steady
<1>2. Extended' = Extended /\ \A k \in Numbers : Below(k)' = Below(k)
  BY <1>1 DEF Extended, Below
<1>3. StackInOrder' /\ DaysKept'
  BY <1>1, <1>2 DEF Stacked, StackInOrder, DaysKept
<1>4. BeforeIsBelow'
  BY <1>1, <1>2 DEF Stacked, BeforeIsBelow
<1>5. DeadIsCanceled'
  <2> SUFFICES ASSUME NEW i \in Numbers, ext[i].recorded, inv'[i].status = "paid", ~ext[i].live
               PROVE  sub'.status = "canceled"
    BY <1>1 DEF DeadIsCanceled
  <2>1. inv[i].status # "none" /\ inv[i].linked /\ inv[i].kind = "invoice"
    BY DEF ExtensionsRecorded
  <2>2. CASE inv[i].status = "paid"
    BY <1>1, <2>2 DEF Stacked, DeadIsCanceled
  <2>3. CASE inv[i].status # "paid"
    <3>1. ~ManualPaymentExtends(sub)
      BY <2>1, <2>3, PaidStays
    <3>2. sub.status = "canceled"
      BY <3>1 DEF ManualPaymentExtends, MonthlyOnly, Renewable
    <3> QED BY <1>1, <3>2
  <2> QED BY <2>2, <2>3
<1> QED
  BY <1>3, <1>4, <1>5 DEF Stacked

LEMMA NextStackInv ==
  ASSUME OneAdmin, PeriodInv, StackInv, [Next]_vars
  PROVE  StackInv'
<1> TypeOK /\ TypeOK' /\ IInv /\ LoadedIsCurrent /\ MonthlyOnly /\ ExtensionsRecorded
  BY NextType DEF PeriodInv, IInv
<1>1. ASSUME NEW a \in Admins, MarkExtends(a)
      PROVE  StackInv'
  <2>1. renewed' = renewed
    BY <1>1 DEF MarkExtends, AdminMarks
  <2> QED BY <1>1, <2>1, MarkKeepsStack DEF StackInv
<1>2. ASSUME NEW i \in Numbers, AdminUnmarks(i)
      PROVE  StackInv'
  <2>1. renewed' = renewed
    BY <1>2 DEF AdminUnmarks
  <2> QED BY <1>2, <2>1, UnmarkKeepsStack DEF StackInv
<1>3. CASE RenewalExtends
  BY <1>3 DEF RenewalExtends, StackInv
<1>4. ASSUME Steady, \A a \in Admins : ~MarkExtends(a), \A i \in Numbers : ~AdminUnmarks(i)
      PROVE  StackInv'
  <2>1. renewed' = renewed
    BY <1>4 DEF Steady
  <2> QED BY <1>4, <2>1, SteadyKeepsStack DEF StackInv
<1> QED
  BY <1>1, <1>2, <1>3, <1>4, PeriodStep

LEMMA InitStackInv == Init => StackInv
<1> SUFFICES ASSUME Init PROVE Stacked
  BY DEF StackInv
<1>1. Extended = {}
  BY DEF Init, Extended
<1>2. Cardinality(Extended) = 0
  BY <1>1, FS_EmptySet
<1>3. MonthLen * 0 = 0 /\ MonthLen \in Nat
  BY PeriodAssumption
<1>4. DaysKept
  BY <1>2, <1>3 DEF Init, FirstPeriod, DaysKept
<1>5. StackInOrder /\ BeforeIsBelow /\ DeadIsCanceled
  BY <1>1 DEF Init, StackInOrder, BeforeIsBelow, DeadIsCanceled
<1> QED
  BY <1>4, <1>5 DEF Stacked

\* Unmarking one invoice never takes away the days of another: while the card
\* rail is silent the period holds a month for every extension that is live.
THEOREM PaidDaysStay ==
  ASSUME OneAdmin
  PROVE  Spec => []PaidDaysAreKept
<1>1. PeriodInv /\ StackInv /\ [Next]_vars => PeriodInv' /\ StackInv'
  BY NextPeriodInv, NextStackInv
<1>2. StackInv => PaidDaysAreKept
  BY DEF StackInv, Stacked, DaysKept, PaidDaysAreKept
<1> QED
  BY <1>1, <1>2, InitPeriodInv, InitStackInv, PTL DEF Spec

=============================================================================
