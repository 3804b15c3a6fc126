---------------------------- MODULE Usage_proofs ----------------------------
(***************************************************************************)
(* Proofs about the usage of one project: UsageAccounting, for any set of  *)
(* processes, profiles and prices and any bounds, and UsageStore, for any  *)
(* events.  Both add up tokens and costs, so sums come first.              *)
(***************************************************************************)
EXTENDS UsageAccounting, UsageStore, FiniteSetTheorems, TLAPS

---------------------------------------------------------------------------
\* Sums.  SumFunctionOnSet adds up the values of a function in an order nobody knows;
\* a sum is also the number of units it consists of, which is what makes it provable
\* that one exists and that the order does not matter.

\* Induction over the subsets of a finite set, for a set of those it holds for.
LEMMA SubsetInduction ==
  ASSUME NEW S, IsFiniteSet(S), NEW Good,
         \A T \in SUBSET S : (\A x \in T : T \ {x} \in Good) => T \in Good
  PROVE  SUBSET S \subseteq Good
<1> DEFINE Bad == {T \in SUBSET S : T \notin Good}
           R == StrictSubsetOrdering(S)
<1> SUFFICES ASSUME Bad # {} PROVE FALSE OBVIOUS
<1>1. IsWellFoundedOn(R, SUBSET S)
  <2>1. FiniteSubsetsOf(S) = SUBSET S BY FS_FiniteSubsetsOfFinite
  <2>2. IsWellFoundedOn(StrictSubsetOrdering(S), FiniteSubsetsOf(S))
    BY FS_StrictSubsetOrderingWellFounded
  <2> QED BY <2>1, <2>2
<1>2. PICK T \in Bad : \A U \in Bad : ~ (<<U, T>> \in R)
  <2>1. Bad \subseteq SUBSET S OBVIOUS
  <2> HIDE DEF Bad, R
  <2> QED BY <1>1, <2>1, WFMin
<1>3. PICK x \in T : T \ {x} \notin Good OBVIOUS
<1>4. T \ {x} \in SUBSET S /\ T \ {x} \subseteq T /\ T \ {x} # T BY <1>3
<1>5. T \ {x} \in Bad BY <1>3, <1>4
<1>6. <<T \ {x}, T>> \in R BY <1>4 DEF StrictSubsetOrdering
<1> QED BY <1>2, <1>5, <1>6

\* As many units as a function adds up to.
Units(f, S) == UNION {{x} \X (1..f[x]) : x \in S}

LEMMA UnitsOfOne ==
  ASSUME NEW x, NEW n \in Nat
  PROVE  IsFiniteSet({x} \X (1..n)) /\ Cardinality({x} \X (1..n)) = n
<1>1. IsFiniteSet({x}) /\ Cardinality({x}) = 1 BY FS_Singleton
<1>2. IsFiniteSet(1..n) /\ Cardinality(1..n) = n
  <2>1. IsFiniteSet(1..n) /\ Cardinality(1..n) = (IF 1 > n THEN 0 ELSE n - 1 + 1)
    BY FS_Interval
  <2> QED BY <2>1
<1> DEFINE one == {x}
           to == 1..n
<1> SUFFICES IsFiniteSet(one \X to) /\ Cardinality(one \X to) = n OBVIOUS
<1>3. IsFiniteSet(one) /\ IsFiniteSet(to) /\ Cardinality(one) = 1 /\ Cardinality(to) = n
  BY <1>1, <1>2
<1> HIDE DEF one, to
<1>4. IsFiniteSet(one \X to) /\ Cardinality(one \X to) = Cardinality(one) * Cardinality(to)
  BY <1>3, FS_Product
<1> QED BY <1>3, <1>4

LEMMA UnitsType ==
  ASSUME NEW S, IsFiniteSet(S), NEW f, \A x \in S : f[x] \in Nat
  PROVE  IsFiniteSet(Units(f, S)) /\ Cardinality(Units(f, S)) \in Nat
<1> DEFINE Good == {T \in SUBSET S : IsFiniteSet(Units(f, T))}
<1>1. {} \in Good
  <2>1. Units(f, {}) = {} BY DEF Units
  <2> QED BY <2>1, FS_EmptySet
<1>2. ASSUME NEW T \in SUBSET S, NEW x \in T, T \ {x} \in Good PROVE T \in Good
  <2>1. Units(f, T) = Units(f, T \ {x}) \cup ({x} \X (1..f[x])) BY DEF Units
  <2>2. f[x] \in Nat BY <1>2
  <2>3. IsFiniteSet({x} \X (1..f[x])) BY <2>2, UnitsOfOne
  <2>4. IsFiniteSet(Units(f, T \ {x})) BY <1>2
  <2> DEFINE rest == Units(f, T \ {x})
             more == {x} \X (1..f[x])
  <2>5. IsFiniteSet(rest \cup more)
    <3>1. IsFiniteSet(rest) /\ IsFiniteSet(more) BY <2>3, <2>4
    <3> HIDE DEF rest, more
    <3> QED BY <3>1, FS_Union
  <2> QED BY <2>1, <2>5
<1> HIDE DEF Good
<1>3. SUBSET S \subseteq Good
  <2>1. ASSUME NEW T \in SUBSET S, \A x \in T : T \ {x} \in Good PROVE T \in Good
    BY <1>1, <1>2, <2>1
  <2> QED BY <2>1, SubsetInduction
<1>4. IsFiniteSet(Units(f, S)) BY <1>3 DEF Good
<1> QED BY <1>4, FS_CardinalityType

\* Units of disjoint sets.
LEMMA UnitsSplit ==
  ASSUME NEW A, IsFiniteSet(A), NEW B, IsFiniteSet(B), A \cap B = {},
         NEW f, \A x \in A \cup B : f[x] \in Nat
  PROVE  Cardinality(Units(f, A \cup B)) = Cardinality(Units(f, A)) + Cardinality(Units(f, B))
<1>1. IsFiniteSet(Units(f, A)) /\ Cardinality(Units(f, A)) \in Nat BY UnitsType
<1>2. IsFiniteSet(Units(f, B)) /\ Cardinality(Units(f, B)) \in Nat BY UnitsType
<1>3. Units(f, A \cup B) = Units(f, A) \cup Units(f, B) BY DEF Units
<1>4. Units(f, A) \cap Units(f, B) = {} BY DEF Units
<1>5. Cardinality(Units(f, A) \cap Units(f, B)) = 0 BY <1>4, FS_EmptySet
<1>6. Cardinality(Units(f, A) \cup Units(f, B)) =
        Cardinality(Units(f, A)) + Cardinality(Units(f, B)) - Cardinality(Units(f, A) \cap Units(f, B))
  BY <1>1, <1>2, FS_Union
<1>7. ASSUME NEW a \in Nat, NEW b \in Nat, NEW c, c = a + b - 0 PROVE c = a + b
  BY <1>7
<1> QED BY <1>1, <1>2, <1>3, <1>5, <1>6, <1>7

LEMMA SumIsUnits ==
  ASSUME NEW S, IsFiniteSet(S), NEW f, \A x \in S : f[x] \in Nat
  PROVE  SumFunctionOnSet(f, S) = Cardinality(Units(f, S))
<1> DEFINE anyOf(s) == CHOOSE x \in s : TRUE
           Adds(iter) == iter = [s \in SUBSET S |->
                                   IF s = {} THEN 0 ELSE f[anyOf(s)] + iter[s \ {anyOf(s)}]]
           units == [s \in SUBSET S |-> Cardinality(Units(f, s))]
           sums == CHOOSE iter : Adds(iter)
<1>1. ASSUME NEW s \in SUBSET S, s # {}
      PROVE  /\ anyOf(s) \in s /\ s \ {anyOf(s)} \in SUBSET S
             /\ Cardinality(Units(f, s)) = f[anyOf(s)] + Cardinality(Units(f, s \ {anyOf(s)}))
  <2>1. anyOf(s) \in s BY <1>1
  <2> DEFINE x == anyOf(s)
  <2>2. x \in s BY <2>1
  <2> HIDE DEF x
  <2>3. IsFiniteSet({x}) /\ IsFiniteSet(s \ {x}) /\ f[x] \in Nat
    BY <2>2, FS_Subset, FS_Singleton
  <2>4. s = {x} \cup (s \ {x}) BY <2>2
  <2>5. Cardinality(Units(f, s)) = Cardinality(Units(f, {x})) + Cardinality(Units(f, s \ {x}))
    BY <2>2, <2>3, <2>4, UnitsSplit
  <2>6. Units(f, {x}) = {x} \X (1..f[x]) BY DEF Units
  <2>7. Cardinality(Units(f, {x})) = f[x] BY <2>3, <2>6, UnitsOfOne
  <2> QED BY <2>2, <2>5, <2>7 DEF x
<1>2. Cardinality(Units(f, {})) = 0
  <2>1. Units(f, {}) = {} BY DEF Units
  <2> QED BY <2>1, FS_EmptySet
<1>3. Adds(units)
  <2>1. ASSUME NEW s \in SUBSET S
        PROVE  units[s] = IF s = {} THEN 0 ELSE f[anyOf(s)] + units[s \ {anyOf(s)}]
    <3> HIDE DEF anyOf
    <3> QED BY <1>1, <1>2, <2>1
  <2> HIDE DEF anyOf
  <2>2. [s \in SUBSET S |-> IF s = {} THEN 0 ELSE f[anyOf(s)] + units[s \ {anyOf(s)}]] = units
    BY <2>1
  <2> QED BY <2>2
<1>4. Adds(sums)
  <2> HIDE DEF Adds, units
  <2> QED BY <1>3
<1>5. SumFunctionOnSet(f, S) = sums[S]
  BY DEF SumFunctionOnSet, FoldFunctionOnSet, MapThenFoldSet
<1> DEFINE Good == {T \in SUBSET S : sums[T] = units[T]}
<1> HIDE DEF sums, anyOf
<1>6. ASSUME NEW T \in SUBSET S, \A x \in T : T \ {x} \in Good PROVE T \in Good
  <2>1. CASE T = {}
    BY <1>2, <1>4, <2>1
  <2>2. CASE T # {}
    <3>1. anyOf(T) \in T /\ T \ {anyOf(T)} \in SUBSET S BY <1>1, <2>2
    <3>2. sums[T] = f[anyOf(T)] + sums[T \ {anyOf(T)}] BY <1>4, <2>2
    <3>3. sums[T \ {anyOf(T)}] = units[T \ {anyOf(T)}] BY <1>6, <3>1
    <3> QED BY <1>1, <2>2, <3>1, <3>2, <3>3
  <2> QED BY <2>1, <2>2
<1> HIDE DEF Good
<1>7. SUBSET S \subseteq Good BY <1>6, SubsetInduction
<1>8. S \in Good BY <1>7
<1> QED BY <1>5, <1>8 DEF Good

LEMMA SumType ==
  ASSUME NEW S, IsFiniteSet(S), NEW f, \A x \in S : f[x] \in Nat
  PROVE  SumFunctionOnSet(f, S) \in Nat
BY SumIsUnits, UnitsType

\* The sum over two disjoint sets.
LEMMA SumSplit ==
  ASSUME NEW A, IsFiniteSet(A), NEW B, IsFiniteSet(B), A \cap B = {},
         NEW f, \A x \in A \cup B : f[x] \in Nat
  PROVE  SumFunctionOnSet(f, A \cup B) = SumFunctionOnSet(f, A) + SumFunctionOnSet(f, B)
<1> DEFINE C == A \cup B
<1>1. IsFiniteSet(C) BY FS_Union
<1>2. SumFunctionOnSet(f, C) = Cardinality(Units(f, C))
  <2>1. \A x \in C : f[x] \in Nat OBVIOUS
  <2> HIDE DEF C
  <2> QED BY <1>1, <2>1, SumIsUnits
<1>3. SumFunctionOnSet(f, A) = Cardinality(Units(f, A)) BY SumIsUnits
<1>4. SumFunctionOnSet(f, B) = Cardinality(Units(f, B)) BY SumIsUnits
<1> QED BY <1>2, <1>3, <1>4, UnitsSplit

LEMMA SumOfNone ==
  ASSUME NEW f
  PROVE  SumFunctionOnSet(f, {}) = 0
<1>1. SumFunctionOnSet(f, {}) = Cardinality(Units(f, {})) BY SumIsUnits, FS_EmptySet
<1>2. Units(f, {}) = {} BY DEF Units
<1> QED BY <1>1, <1>2, FS_EmptySet

LEMMA SumOfOne ==
  ASSUME NEW x, NEW f, f[x] \in Nat
  PROVE  SumFunctionOnSet(f, {x}) = f[x]
<1> DEFINE S == {x}
<1>1. IsFiniteSet(S) /\ \A y \in S : f[y] \in Nat BY FS_Singleton
<1>2. Units(f, S) = {x} \X (1..f[x]) BY DEF Units
<1>3. SumFunctionOnSet(f, S) = Cardinality(Units(f, S))
  <2> HIDE DEF S
  <2> QED BY <1>1, SumIsUnits
<1> QED BY <1>2, <1>3, UnitsOfOne

\* One more element.
LEMMA SumAdds ==
  ASSUME NEW S, IsFiniteSet(S), NEW x, x \notin S, NEW f, \A y \in S \cup {x} : f[y] \in Nat
  PROVE  SumFunctionOnSet(f, S \cup {x}) = SumFunctionOnSet(f, S) + f[x]
<1> DEFINE B == {x}
<1>1. IsFiniteSet(B) BY FS_Singleton
<1>2. SumFunctionOnSet(f, S \cup B) = SumFunctionOnSet(f, S) + SumFunctionOnSet(f, B)
  <2>1. S \cap B = {} /\ \A y \in S \cup B : f[y] \in Nat OBVIOUS
  <2> HIDE DEF B
  <2> QED BY <1>1, <2>1, SumSplit
<1>3. SumFunctionOnSet(f, B) = f[x] BY SumOfOne
<1> QED BY <1>2, <1>3

\* A sum depends on the values over its set only.
LEMMA SumSame ==
  ASSUME NEW S, IsFiniteSet(S), NEW f, NEW g, \A x \in S : f[x] = g[x] /\ f[x] \in Nat
  PROVE  SumFunctionOnSet(f, S) = SumFunctionOnSet(g, S)
<1>1. Units(f, S) = Units(g, S) BY DEF Units
<1>2. SumFunctionOnSet(f, S) = Cardinality(Units(f, S)) BY SumIsUnits
<1>3. SumFunctionOnSet(g, S) = Cardinality(Units(g, S)) BY SumIsUnits
<1> QED BY <1>1, <1>2, <1>3

\* Counting is adding up ones.
LEMMA SumOfOnes ==
  ASSUME NEW S, IsFiniteSet(S)
  PROVE  SumFunctionOnSet([x \in S |-> 1], S) = Cardinality(S)
<1> DEFINE f == [x \in S |-> 1]
           one == {1}
<1>1. \A x \in S : f[x] = 1 OBVIOUS
<1>2. IsFiniteSet(one) /\ Cardinality(one) = 1 BY FS_Singleton
<1>3. Units(f, S) = S \X one
  <2>1. 1..1 = one OBVIOUS
  <2> HIDE DEF f
  <2> QED BY <1>1, <2>1 DEF Units
<1> SUFFICES SumFunctionOnSet(f, S) = Cardinality(S) OBVIOUS
<1> HIDE DEF f, one
<1>4. SumFunctionOnSet(f, S) = Cardinality(S \X one) BY <1>1, <1>3, SumIsUnits
<1>5. Cardinality(S \X one) = Cardinality(S) * 1 BY <1>2, FS_Product
<1>6. Cardinality(S) \in Nat BY FS_CardinalityType
<1> QED BY <1>4, <1>5, <1>6

\* A set cut into groups: the sums of the groups add up to the sum of the set.
LEMMA SumOfGroups ==
  ASSUME NEW K, IsFiniteSet(K), NEW S, IsFiniteSet(S), NEW G \in [K -> SUBSET S],
         \A k, l \in K : G[k] \cap G[l] # {} => k = l,
         NEW f, \A x \in S : f[x] \in Nat
  PROVE  SumFunctionOnSet([k \in K |-> SumFunctionOnSet(f, G[k])], K) =
           SumFunctionOnSet(f, UNION {G[k] : k \in K})
<1> DEFINE g == [k \in K |-> SumFunctionOnSet(f, G[k])]
           All(L) == UNION {G[k] : k \in L}
           Good == {L \in SUBSET K : SumFunctionOnSet(g, L) = SumFunctionOnSet(f, All(L))}
<1>1. ASSUME NEW k \in K PROVE IsFiniteSet(G[k]) /\ g[k] \in Nat
  <2>1. IsFiniteSet(G[k]) /\ \A x \in G[k] : f[x] \in Nat BY FS_Subset
  <2> QED BY <2>1, SumType
<1>2. ASSUME NEW L \in SUBSET K, \A k \in L : L \ {k} \in Good PROVE L \in Good
  <2>1. CASE L = {}
    <3>1. All(L) = {} BY <2>1
    <3> HIDE DEF All, g
    <3> QED BY <2>1, <3>1, SumOfNone
  <2>2. CASE L # {}
    <3>1. PICK k \in L : TRUE BY <2>2
    <3> DEFINE M == L \ {k}
    <3>2. k \in K /\ M \in SUBSET K /\ k \notin M /\ L = M \cup {k} OBVIOUS
    <3>3. SumFunctionOnSet(g, M) = SumFunctionOnSet(f, All(M)) BY <1>2, <3>1
    <3>4. All(L) = All(M) \cup G[k] BY <3>2
    <3>5. All(M) \cap G[k] = {} BY <3>2
    <3>6. All(M) \in SUBSET S /\ G[k] \in SUBSET S BY <3>2
    <3> HIDE DEF M, All, g
    <3>7. IsFiniteSet(M) /\ IsFiniteSet(All(M)) /\ IsFiniteSet(G[k])
      BY <3>2, <3>6, FS_Subset
    <3>8. SumFunctionOnSet(g, M \cup {k}) = SumFunctionOnSet(g, M) + g[k]
      BY <1>1, <3>2, <3>7, SumAdds
    <3>9. SumFunctionOnSet(f, All(M) \cup G[k]) =
            SumFunctionOnSet(f, All(M)) + SumFunctionOnSet(f, G[k])
      BY <3>5, <3>6, <3>7, SumSplit
    <3>10. g[k] = SumFunctionOnSet(f, G[k]) BY <3>2 DEF g
    <3> QED BY <3>2, <3>3, <3>4, <3>8, <3>9, <3>10
  <2> QED BY <2>1, <2>2
<1>3. K \in Good
  <2> HIDE DEF Good
  <2>1. SUBSET K \subseteq Good BY <1>2, SubsetInduction
  <2> QED BY <2>1
<1> QED BY <1>3

---------------------------------------------------------------------------
\* The accounting of models.yaml.

\* The row a process writes; used with the type invariant.
LEMMA CostType ==
  ASSUME NEW profile \in Profile, NEW t \in Nat
  PROVE  Cost(profile, t) \in Nat \cup {Unknown}
<1>1. Price[profile] \in Nat \cup {Unknown} BY PriceAssumption
<1>2. ASSUME Price[profile] # Unknown PROVE t * Price[profile] \in Nat
  BY <1>1, <1>2
<1> QED BY <1>1, <1>2 DEF Cost

LEMMA AddCostType ==
  ASSUME NEW a \in Nat \cup {Unknown}, NEW b \in Nat \cup {Unknown}
  PROVE  AddCost(a, b) \in Nat \cup {Unknown}
BY DEF AddCost

\* A newly activated profile has a well-formed state with empty counters.
LEMMA FreshType ==
  ASSUME NEW profile \in Profile
  PROVE  Fresh(profile) \in Config /\ Fresh(profile).total = 0
BY DEF Fresh, Config

\* Charging an answer keeps the configuration well-formed and adds its tokens.
LEMMA ChargeType ==
  ASSUME NEW config \in Config, NEW t \in Nat
  PROVE  /\ Charge(config, t) \in Config
         /\ Charge(config, t).total = config.total + t
<1>1. config.active \in Profile /\ config.total \in Nat /\ config.cost \in Nat \cup {Unknown}
  BY DEF Config
<1>2. Cost(config.active, t) \in Nat \cup {Unknown} BY <1>1, CostType
<1>3. AddCost(config.cost, Cost(config.active, t)) \in Nat \cup {Unknown}
  BY <1>1, <1>2, AddCostType
<1>4. config.total + t \in Nat BY <1>1
<1> QED BY <1>1, <1>3, <1>4 DEF Charge, Config

---------------------------------------------------------------------------
\* Type correctness.  PurgeStore counts the rows it deletes, so the invariant is
\* inductive only together with their finiteness.
TypeInv == TypeOK /\ IsFiniteSet(events)

LEMMA TypeInit == Init => TypeInv
<1> SUFFICES ASSUME Init PROVE TypeInv OBVIOUS
<1>1. DefaultProfile \in Profile BY ProfilesAssumption, UsageAssumption
<1>2. Fresh(DefaultProfile) \in Config BY <1>1, FreshType
<1>3. IsFiniteSet({}) BY FS_EmptySet
<1> QED BY <1>1, <1>2, <1>3 DEF Init, TypeInv, TypeOK, Steps, Commands, Tasks

LEMMA TypeBegin ==
  ASSUME TypeInv, NEW p \in Proc, NEW command \in Commands, NEW step \in Steps,
         NEW purpose \in Tasks, NEW profile \in Profile \cup {NoProfile},
         Begin(p, command, step, purpose, profile)
  PROVE  TypeInv'
BY DEF TypeInv, TypeOK, Begin, Goto, files, NobodyElse

\* A start is a Begin of some command.
LEMMA StartBegins ==
  ASSUME NEW p \in Proc, Start(p)
  PROVE  \E command \in Commands, step \in {"load", "read", "purge"}, purpose \in Tasks,
            profile \in Profile \cup {NoProfile} : Begin(p, command, step, purpose, profile)
BY Zenon DEF Start, StartChat, StartSet, StartResetAll, StartResetActive, StartResetStore,
             Commands, Tasks

LEMMA TypeStep == TypeInv /\ [Next]_vars => TypeInv'
<1> SUFFICES ASSUME TypeInv, [Next]_vars PROVE TypeInv'
  OBVIOUS
<1> USE DEF TypeInv, TypeOK, Goto, End, files, history
<1>1. ASSUME UNCHANGED vars PROVE TypeInv'
  BY <1>1 DEF vars, locals
<1>2. ASSUME NEW p \in Proc, Start(p) PROVE TypeInv'
  <2>1. PICK command \in Commands, step \in {"load", "read", "purge"}, purpose \in Tasks,
             profile \in Profile \cup {NoProfile} : Begin(p, command, step, purpose, profile)
    BY <1>2, StartBegins
  <2>2. step \in Steps BY DEF Steps
  <2> HIDE DEF TypeInv
  <2> QED BY <2>1, <2>2, TypeBegin
<1>3. ASSUME NEW p \in Proc, Interrupt(p) PROVE TypeInv'
  <2>1. interrupts' \in Nat BY <1>3 DEF Interrupt
  <2>2. clean' \in BOOLEAN BY <1>3 DEF Interrupt
  <2> QED BY <1>3, <2>1, <2>2 DEF Interrupt, Steps
<1>4. ASSUME NEW p \in Proc, Step(p) PROVE TypeInv'
  <2>1. CASE Load(p)
    BY <2>1 DEF Load, Whole, Config, Steps
  <2>2. CASE Reject(p)
    BY <2>2 DEF Reject, Steps
  <2>3. CASE ReadForSwitch(p)
    <3>1. Fresh(pick[p]) \in Config
      BY <2>3, ProfilesAssumption, FreshType DEF ReadForSwitch
    <3> QED BY <2>3, <3>1 DEF ReadForSwitch, Steps
  <2>4. CASE ReadForReset(p)
    <3>1. Fresh(live.active) \in Config
      BY <2>4, FreshType DEF ReadForReset, Whole, Config
    <3> QED BY <2>4, <3>1 DEF ReadForReset, Steps
  <2>5. CASE ReadForRecord(p)
    <3>1. Charge(live, tokens[p]) \in Config
      BY <2>5, ChargeType DEF ReadForRecord, Whole
    <3> QED BY <2>5, <3>1 DEF ReadForRecord, Steps
  <2>6. CASE OpenTemp(p)
    BY <2>6 DEF OpenTemp, Steps
  <2>7. CASE WriteTemp(p)
    BY <2>7 DEF WriteTemp, Steps
  <2>8. CASE Replace(p)
    <3>1. AfterReplace(p) \in Steps BY DEF AfterReplace, Steps
    <3>2. copy[p].active \in Profile BY DEF Config
    <3>3. handle' \in [Proc -> {"none", "temp", "live", "gone"}]
      BY <2>8 DEF Replace
    <3> QED BY <2>8, <3>1, <3>2, <3>3 DEF Replace
  <2>9. CASE ReplaceFails(p)
    BY <2>9 DEF ReplaceFails, Steps
  <2>10. ASSUME NEW t \in TokenCounts, Answer(p, t) PROVE TypeInv'
    <3>1. t \in Nat BY ProfilesAssumption, UsageAssumption
    <3> QED BY <2>10, <3>1 DEF Answer, Steps, Tasks
  <2>11. CASE CallFails(p)
    BY <2>11 DEF CallFails, Steps
  <2>12. CASE WriteSnapshot(p)
    BY <2>12 DEF WriteSnapshot, Steps
  <2>13. CASE InsertEvent(p)
    <3>1. copy[p].active \in Profile BY DEF Config
    <3>2. Cost(copy[p].active, tokens[p]) \in Nat \cup {Unknown}
      BY <3>1, CostType
    <3>3. EventOf(p) \in Event BY <3>2 DEF EventOf, Event
    <3>4. IsFiniteSet(events \cup {EventOf(p)}) BY FS_AddElement
    <3> QED BY <2>13, <3>3, <3>4 DEF InsertEvent, Steps
  <2>14. CASE PurgeStore(p)
    <3>1. Cardinality(events) \in Nat BY FS_CardinalityType
    <3>2. IsFiniteSet({}) BY FS_EmptySet
    <3> QED BY <2>14, <3>1, <3>2 DEF PurgeStore, Steps
  <2> QED BY <1>4, <2>1, <2>2, <2>3, <2>4, <2>5, <2>6, <2>7, <2>8, <2>9, <2>10, <2>11,
             <2>12, <2>13, <2>14 DEF Step
<1> QED BY <1>1, <1>2, <1>3, <1>4 DEF Next, Crash, Fails

\* The books keep their types whatever the processes do, kills and errors included.
THEOREM TypeCorrect == Spec => []TypeOK
<1>1. TypeInv => TypeOK BY DEF TypeInv
<1> QED BY TypeInit, TypeStep, <1>1, PTL DEF Spec

---------------------------------------------------------------------------
\* No over-counting.  The counters travel from models.yaml through a process and the
\* temporary file back to models.yaml, so each of the three is bounded.
Bounded ==
  /\ Whole(live) => live.total <= billed
  /\ Whole(temp) => temp.total <= billed
  /\ \A p \in Proc : copy[p].total <= billed

LEMMA BoundedInit == Init => Bounded
<1> SUFFICES ASSUME Init PROVE Bounded OBVIOUS
<1>1. Fresh(DefaultProfile).total = 0 BY ProfilesAssumption, FreshType
<1> QED BY <1>1, FileAssumption DEF Init, Bounded, Whole

\* Every content that is written somewhere was somewhere before.
LEMMA BoundedMove ==
  ASSUME TypeInv, Bounded, billed' = billed,
         live' \in {live, temp} \cup {copy[p] : p \in Proc},
         temp' \in {temp, Torn, Absent} \cup {copy[p] : p \in Proc},
         copy' = copy
  PROVE  Bounded'
BY FileAssumption DEF Bounded, Whole, TypeInv, TypeOK

\* A process takes up a content with empty counters.
LEMMA BoundedFresh ==
  ASSUME TypeInv, Bounded, UNCHANGED <<live, temp, billed>>, NEW p \in Proc,
         NEW profile \in Profile, copy' = [copy EXCEPT ![p] = Fresh(profile)]
  PROVE  Bounded'
<1>1. Fresh(profile).total = 0 BY FreshType
<1> QED BY <1>1 DEF Bounded, Whole, TypeInv, TypeOK

LEMMA BoundedStep == TypeInv /\ Bounded /\ [Next]_vars => Bounded'
<1> SUFFICES ASSUME TypeInv, Bounded, [Next]_vars PROVE Bounded'
  OBVIOUS
<1>1. ASSUME UNCHANGED <<live, temp, copy, billed>> PROVE Bounded'
  BY <1>1 DEF Bounded, Whole
<1>2. CASE UNCHANGED vars
  BY <1>1, <1>2 DEF vars, files, locals, history
<1>3. ASSUME NEW p \in Proc, Start(p) PROVE Bounded'
  <2>1. PICK command \in Commands, step \in {"load", "read", "purge"}, purpose \in Tasks,
             profile \in Profile \cup {NoProfile} : Begin(p, command, step, purpose, profile)
    BY <1>3, StartBegins
  <2> QED BY <2>1, <1>1 DEF Begin, files
<1>4. ASSUME NEW p \in Proc, Interrupt(p) PROVE Bounded'
  BY <1>4, <1>1 DEF Interrupt, files
<1>5. ASSUME NEW p \in Proc, Step(p) PROVE Bounded'
  <2>1. CASE Load(p)
    BY <2>1 DEF Load, files, history, Bounded, Whole, TypeInv, TypeOK
  <2>2. CASE Reject(p)
    BY <2>2, <1>1 DEF Reject, End, files, history
  <2>3. CASE ReadForSwitch(p)
    BY <2>3, BoundedFresh, ProfilesAssumption DEF ReadForSwitch, files, history
  <2>4. CASE ReadForReset(p)
    <3>1. live.active \in Profile BY <2>4 DEF ReadForReset, Whole, Config
    <3> QED BY <2>4, <3>1, BoundedFresh DEF ReadForReset, files, history
  <2>5. CASE ReadForRecord(p)
    <3>1. tokens[p] \in Nat /\ billed \in Nat /\ billed' = billed + tokens[p]
      BY <2>5 DEF ReadForRecord, TypeInv, TypeOK
    <3>2. Charge(live, tokens[p]).total = live.total + tokens[p] /\ live.total \in Nat
      BY <2>5, <3>1, ChargeType DEF ReadForRecord, Whole, Config
    <3>3. Charge(live, tokens[p]).total <= billed'
      BY <2>5, <3>1, <3>2 DEF ReadForRecord, Bounded
    <3>4. ASSUME NEW config \in Config, config.total <= billed
          PROVE  config.total <= billed'
      BY <3>1, <3>4 DEF Config
    <3> QED BY <2>5, <3>3, <3>4 DEF ReadForRecord, files, Bounded, Whole, TypeInv, TypeOK
  <2>6. CASE OpenTemp(p)
    BY <2>6, BoundedMove DEF OpenTemp
  <2>7. CASE WriteTemp(p)
    BY <2>7, BoundedMove DEF WriteTemp, history
  <2>8. CASE Replace(p)
    BY <2>8, BoundedMove DEF Replace
  <2>9. CASE ReplaceFails(p)
    BY <2>9, <1>1 DEF ReplaceFails, End, files, history
  <2>10. ASSUME NEW t \in TokenCounts, Answer(p, t) PROVE Bounded'
    BY <2>10, <1>1 DEF Answer, files
  <2>11. CASE CallFails(p)
    BY <2>11, <1>1 DEF CallFails, End, files, history
  <2>12. CASE WriteSnapshot(p)
    BY <2>12, <1>1 DEF WriteSnapshot
  <2>13. CASE InsertEvent(p)
    BY <2>13, <1>1 DEF InsertEvent, End, history
  <2>14. CASE PurgeStore(p)
    BY <2>14, <1>1 DEF PurgeStore, End
  <2> QED BY <1>5, <2>1, <2>2, <2>3, <2>4, <2>5, <2>6, <2>7, <2>8, <2>9, <2>10, <2>11,
             <2>12, <2>13, <2>14 DEF Step
<1> QED BY <1>2, <1>3, <1>4, <1>5 DEF Next, Crash, Fails

\* Lost updates, revived contents and interleaved writes never make models.yaml count
\* more tokens than were charged.
THEOREM NoOverCount == Spec => []NeverOverCounts
<1>1. Bounded => NeverOverCounts BY DEF Bounded, NeverOverCounts
<1> QED BY TypeInit, TypeStep, BoundedInit, BoundedStep, <1>1, PTL DEF Spec

---------------------------------------------------------------------------
\* Wholeness.  As long as no two rewrites have been in progress at once there is at
\* most one rewriting process, the file it writes to is still the temporary one, and
\* what it is about to rename is whole.
OneRewriter ==
  ~overlap =>
    /\ live \in Config
    /\ \A p, q \in Proc : Rewriting(p) /\ Rewriting(q) => p = q
    /\ \A p \in Proc : pc[p] = "write" => handle[p] = "temp"
    /\ \A p \in Proc : pc[p] = "replace" => temp \in Config

LEMMA OneRewriterInit == Init => OneRewriter
<1> SUFFICES ASSUME Init PROVE OneRewriter OBVIOUS
<1>1. Fresh(DefaultProfile) \in Config BY ProfilesAssumption, FreshType
<1> QED BY <1>1 DEF Init, OneRewriter, Rewriting

\* Steps outside the rewrite: the process was not rewriting and is not afterwards.
LEMMA OneRewriterAside ==
  ASSUME TypeInv, OneRewriter, UNCHANGED <<live, temp, handle, overlap>>,
         NEW p \in Proc, NEW step \in Steps \ {"write", "replace"}, Goto(p, step)
  PROVE  OneRewriter'
BY DEF OneRewriter, Rewriting, Goto, TypeInv, TypeOK

LEMMA OneRewriterStep == TypeInv /\ OneRewriter /\ [Next]_vars => OneRewriter'
<1> SUFFICES ASSUME TypeInv, OneRewriter, [Next]_vars PROVE OneRewriter'
  OBVIOUS
<1> USE DEF Steps
<1>1. CASE UNCHANGED vars
  BY <1>1 DEF vars, files, locals, history, OneRewriter, Rewriting
<1>2. ASSUME NEW p \in Proc, Start(p) PROVE OneRewriter'
  <2>1. PICK command \in Commands, step \in {"load", "read", "purge"}, purpose \in Tasks,
             profile \in Profile \cup {NoProfile} : Begin(p, command, step, purpose, profile)
    BY <1>2, StartBegins
  <2> QED BY <2>1, OneRewriterAside DEF Begin, files
<1>3. ASSUME NEW p \in Proc, Interrupt(p) PROVE OneRewriter'
  BY <1>3 DEF Interrupt, Goto, files, OneRewriter, Rewriting, TypeInv, TypeOK
<1>4. ASSUME NEW p \in Proc, Step(p) PROVE OneRewriter'
  <2>1. CASE Load(p)
    BY <2>1, OneRewriterAside DEF Load, files, history
  <2>2. CASE Reject(p)
    BY <2>2, OneRewriterAside DEF Reject, End, files, history
  <2>3. CASE ReadForSwitch(p)
    BY <2>3, OneRewriterAside DEF ReadForSwitch, files, history
  <2>4. CASE ReadForReset(p)
    BY <2>4, OneRewriterAside DEF ReadForReset, files, history
  <2>5. CASE ReadForRecord(p)
    BY <2>5, OneRewriterAside DEF ReadForRecord, files
  <2>6. CASE OpenTemp(p)
    <3> SUFFICES ASSUME ~overlap' PROVE OneRewriter'
      BY DEF OneRewriter
    <3>1. ~overlap /\ \A q \in Proc \ {p} : ~Rewriting(q)
      BY <2>6 DEF OpenTemp, TypeInv, TypeOK
    <3>2. \A q \in Proc \ {p} : ~Rewriting(q)'
      BY <2>6, <3>1 DEF OpenTemp, Goto, Rewriting, TypeInv, TypeOK
    <3>3. pc'[p] = "write" /\ handle'[p] = "temp" /\ live' \in Config
      BY <2>6, <3>1 DEF OpenTemp, Goto, OneRewriter, TypeInv, TypeOK
    <3> QED BY <3>2, <3>3 DEF OneRewriter, Rewriting
  <2>7. CASE WriteTemp(p)
    <3> SUFFICES ASSUME ~overlap' PROVE OneRewriter'
      BY DEF OneRewriter
    <3>1. ~overlap /\ pc[p] = "write" /\ Rewriting(p)
      BY <2>7 DEF WriteTemp, history, Rewriting
    <3>2. handle[p] = "temp" /\ \A q \in Proc \ {p} : ~Rewriting(q)
      BY <3>1 DEF OneRewriter
    <3>3. live' = live /\ temp' = copy[p] /\ copy[p] \in Config
      BY <2>7, <3>2 DEF WriteTemp, TypeInv, TypeOK
    <3>4. \A q \in Proc \ {p} : ~Rewriting(q)'
      BY <2>7, <3>2 DEF WriteTemp, Goto, Rewriting, TypeInv, TypeOK
    <3>5. pc'[p] = "replace"
      BY <2>7 DEF WriteTemp, Goto, TypeInv, TypeOK
    <3> QED BY <3>1, <3>3, <3>4, <3>5 DEF OneRewriter, Rewriting
  <2>8. CASE Replace(p)
    <3> SUFFICES ASSUME ~overlap' PROVE OneRewriter'
      BY DEF OneRewriter
    <3>1. ~overlap /\ pc[p] = "replace" /\ Rewriting(p)
      BY <2>8 DEF Replace, Rewriting
    <3>2. temp \in Config /\ \A q \in Proc \ {p} : ~Rewriting(q)
      BY <3>1 DEF OneRewriter
    <3>3. \A q \in Proc : ~Rewriting(q)'
      BY <2>8, <3>2 DEF Replace, Goto, AfterReplace, Rewriting, TypeInv, TypeOK
    <3> QED BY <2>8, <3>2, <3>3 DEF Replace, OneRewriter, Rewriting
  <2>9. CASE ReplaceFails(p)
    BY <2>9, OneRewriterAside DEF ReplaceFails, End, files, history
  <2>10. ASSUME NEW t \in TokenCounts, Answer(p, t) PROVE OneRewriter'
    BY <2>10, OneRewriterAside DEF Answer, files
  <2>11. CASE CallFails(p)
    BY <2>11, OneRewriterAside DEF CallFails, End, files, history
  <2>12. CASE WriteSnapshot(p)
    BY <2>12, OneRewriterAside DEF WriteSnapshot
  <2>13. CASE InsertEvent(p)
    BY <2>13, OneRewriterAside DEF InsertEvent, End, history
  <2>14. CASE PurgeStore(p)
    BY <2>14, OneRewriterAside DEF PurgeStore, End
  <2> QED BY <1>4, <2>1, <2>2, <2>3, <2>4, <2>5, <2>6, <2>7, <2>8, <2>9, <2>10, <2>11,
             <2>12, <2>13, <2>14 DEF Step
<1> QED BY <1>1, <1>2, <1>3, <1>4 DEF Next, Crash, Fails

\* A truncated models.yaml is always the work of two overlapping rewrites: one
\* rewriter, killed at any point, leaves the old or the new content.
THEOREM WholeUnlessOverlap == Spec => []TornOnlyByOverlap
<1>1. OneRewriter => TornOnlyByOverlap
  BY FileAssumption DEF OneRewriter, TornOnlyByOverlap
<1> QED BY TypeInit, TypeStep, OneRewriterInit, OneRewriterStep, <1>1, PTL DEF Spec

---------------------------------------------------------------------------
\* Which steps belong to which task, and who has a temporary file open.
Control == \A p \in Proc :
  /\ pc[p] = "event" => task[p] = "record"
  /\ pc[p] = "purge" => task[p] # "record"
  /\ handle[p] # "none" => pc[p] = "write"

LEMMA ControlInit == Init => Control
BY DEF Init, Control

LEMMA ControlBegin ==
  ASSUME TypeInv, Control, NEW p \in Proc, Start(p)
  PROVE  Control'
<1>1. ASSUME NEW command, NEW step \in {"load", "read"}, NEW purpose, NEW profile,
             Begin(p, command, step, purpose, profile)
      PROVE  Control'
  BY <1>1 DEF Begin, Goto, files, Control, TypeInv, TypeOK
<1>2. CASE StartResetStore(p)
  BY <1>2 DEF StartResetStore, Begin, Goto, files, Control, TypeInv, TypeOK
<1>3. CASE StartResetAll(p) \/ StartResetActive(p)
  BY <1>1, <1>3 DEF StartResetAll, StartResetActive
<1>4. ASSUME NEW profile, StartSet(p, profile) \/ StartChat(p, profile) PROVE Control'
  BY <1>1, <1>4 DEF StartSet, StartChat
<1> QED BY <1>2, <1>3, <1>4 DEF Start

LEMMA ControlStep == TypeInv /\ Control /\ [Next]_vars => Control'
<1> SUFFICES ASSUME TypeInv, Control, [Next]_vars PROVE Control'
  OBVIOUS
<1>1. /\ pc \in [Proc -> Steps] /\ task \in [Proc -> Tasks]
      /\ handle \in [Proc -> {"none", "temp", "live", "gone"}]
  BY DEF TypeInv, TypeOK
<1>2. CASE UNCHANGED vars
  BY <1>2 DEF vars, locals, Control
<1>3. ASSUME NEW p \in Proc, Start(p) PROVE Control'
  BY <1>3, ControlBegin
<1>4. ASSUME NEW p \in Proc, Interrupt(p) PROVE Control'
  BY <1>1, <1>4 DEF Interrupt, Goto, Control
<1>5. ASSUME NEW p \in Proc, Step(p) PROVE Control'
  <2>1. ASSUME NEW step \in Steps \ {"write", "event", "purge"}, Goto(p, step),
               UNCHANGED <<task, handle>>, pc[p] # "write"
        PROVE  Control'
    BY <1>1, <2>1 DEF Goto, Control
  <2> USE DEF Steps
  <2>2. CASE Load(p) \/ ReadForSwitch(p) \/ ReadForReset(p) \/ ReadForRecord(p)
    BY <2>1, <2>2 DEF Load, ReadForSwitch, ReadForReset, ReadForRecord
  <2>3. CASE Reject(p) \/ ReplaceFails(p) \/ CallFails(p) \/ InsertEvent(p) \/ PurgeStore(p)
    BY <2>1, <2>3 DEF Reject, ReplaceFails, CallFails, InsertEvent, PurgeStore, End
  <2>4. CASE OpenTemp(p)
    BY <1>1, <2>4 DEF OpenTemp, Goto, Control
  <2>5. CASE WriteTemp(p)
    BY <1>1, <2>5 DEF WriteTemp, Goto, Control
  <2>6. CASE Replace(p)
    <3>1. AfterReplace(p) \in {"call", "idle", "snapshot"} BY DEF AfterReplace
    <3>2. \A q \in Proc : handle'[q] # "none" => handle[q] # "none"
      BY <1>1, <2>6 DEF Replace
    <3>3. pc[p] = "replace" /\ pc' = [pc EXCEPT ![p] = AfterReplace(p)] /\ task' = task
      BY <2>6 DEF Replace, Goto
    <3> QED BY <1>1, <3>1, <3>2, <3>3 DEF Control
  <2>7. ASSUME NEW t \in TokenCounts, Answer(p, t) PROVE Control'
    BY <1>1, <2>7 DEF Answer, Goto, Control
  <2>8. CASE WriteSnapshot(p)
    BY <1>1, <2>8 DEF WriteSnapshot, Goto, Control
  <2> QED BY <1>5, <2>2, <2>3, <2>4, <2>5, <2>6, <2>7, <2>8 DEF Step
<1> QED BY <1>2, <1>3, <1>4, <1>5 DEF Next, Crash, Fails

---------------------------------------------------------------------------
\* The price of a row.  While a command runs alone nobody else rewrites models.yaml,
\* so the profile its request named stays active until its answer is charged.
Alone(p) == Busy(p) /\ alone[p]

Undisturbed == \A p \in Proc : Alone(p) =>
  /\ \A q \in Proc \ {p} : ~Busy(q)
  /\ pc[p] = "write" => handle[p] = "temp"
  /\ pc[p] = "replace" => temp = copy[p]
  /\ pc[p] = "call" \/ (pc[p] = "read" /\ task[p] = "record") =>
       Whole(live) /\ live.active = named[p]
  /\ task[p] = "record" /\ pc[p] \in {"open", "write", "replace", "snapshot", "event"} =>
       copy[p].active = named[p]

LEMMA UndisturbedInit == Init => Undisturbed
BY DEF Init, Undisturbed, Alone, Busy

\* A command that begins is alone exactly when nothing else runs, and ends the
\* solitude of every other one.
LEMMA UndisturbedBegin ==
  ASSUME TypeInv, NEW p \in Proc, NEW command, NEW step \in {"load", "read", "purge"},
         NEW purpose \in Tasks, NEW profile, Begin(p, command, step, purpose, profile),
         step = "read" => purpose # "record"
  PROVE  Undisturbed'
<1>1. /\ pc' = [pc EXCEPT ![p] = step] /\ task' = [task EXCEPT ![p] = purpose]
      /\ alone' = [q \in Proc |-> q = p /\ NobodyElse(p)]
  BY DEF Begin, Goto
<1>2. pc \in [Proc -> Steps] /\ task \in [Proc -> Tasks]
  BY DEF TypeInv, TypeOK
<1> QED BY <1>1, <1>2 DEF Undisturbed, Alone, Busy, NobodyElse

LEMMA UndisturbedStart ==
  ASSUME TypeInv, NEW p \in Proc, Start(p)
  PROVE  Undisturbed'
<1>1. ASSUME NEW profile, StartChat(p, profile) PROVE Undisturbed'
  BY <1>1, UndisturbedBegin DEF StartChat, Tasks
<1>2. ASSUME NEW profile, StartSet(p, profile) PROVE Undisturbed'
  BY <1>2, UndisturbedBegin DEF StartSet, Tasks
<1>3. CASE StartResetAll(p) \/ StartResetActive(p) \/ StartResetStore(p)
  BY <1>3, UndisturbedBegin DEF StartResetAll, StartResetActive, StartResetStore, Tasks
<1> QED BY <1>1, <1>2, <1>3 DEF Start

LEMMA UndisturbedStep == TypeInv /\ Control /\ Undisturbed /\ [Next]_vars => Undisturbed'
<1> SUFFICES ASSUME TypeInv, Control, Undisturbed, [Next]_vars PROVE Undisturbed'
  OBVIOUS
<1>1. /\ pc \in [Proc -> Steps] /\ task \in [Proc -> Tasks] /\ copy \in [Proc -> Config]
      /\ handle \in [Proc -> {"none", "temp", "live", "gone"}] /\ named \in [Proc -> Profile]
      /\ alone \in [Proc -> BOOLEAN]
  BY DEF TypeInv, TypeOK
<1>2. CASE UNCHANGED vars
  BY <1>2 DEF vars, files, locals, history, Undisturbed, Alone, Busy, Whole
<1>3. ASSUME NEW p \in Proc, Start(p) PROVE Undisturbed'
  BY <1>3, UndisturbedStart
\* A step of p, which is running, leaves nothing to say of any other process.
<1>4. ASSUME NEW p \in Proc, Busy(p), UNCHANGED alone,
             \A q \in Proc \ {p} : pc'[q] = pc[q],
             Alone(p)' =>
               /\ pc'[p] = "write" => handle'[p] = "temp"
               /\ pc'[p] = "replace" => temp' = copy'[p]
               /\ pc'[p] = "call" \/ (pc'[p] = "read" /\ task'[p] = "record") =>
                    Whole(live)' /\ live'.active = named'[p]
               /\ task'[p] = "record" /\ pc'[p] \in {"open", "write", "replace", "snapshot", "event"} =>
                    copy'[p].active = named'[p]
      PROVE  Undisturbed'
  <2>1. ASSUME NEW q \in Proc \ {p} PROVE ~Alone(q)'
    BY <1>4, <2>1 DEF Undisturbed, Alone, Busy
  <2>2. Alone(p)' => \A q \in Proc \ {p} : ~Busy(q)'
    BY <1>4 DEF Undisturbed, Alone, Busy
  <2> QED BY <1>4, <2>1, <2>2 DEF Undisturbed
<1>5. ASSUME NEW p \in Proc, Interrupt(p) PROVE Undisturbed'
  BY <1>1, <1>4, <1>5 DEF Interrupt, Goto, Alone, Busy
<1>6. ASSUME NEW p \in Proc, Step(p) PROVE Undisturbed'
  <2>1. CASE Load(p)
    BY <1>1, <1>4, <2>1 DEF Load, Goto, files, history, Busy, Whole
  <2>2. CASE Reject(p) \/ ReplaceFails(p) \/ CallFails(p)
    BY <1>1, <1>4, <2>2 DEF Reject, ReplaceFails, CallFails, End, Goto, history, Busy, Alone
  <2>3. CASE InsertEvent(p) \/ PurgeStore(p)
    BY <1>1, <1>4, <2>3 DEF InsertEvent, PurgeStore, End, Goto, history, Busy, Alone
  <2>4. CASE ReadForSwitch(p) \/ ReadForReset(p)
    BY <1>1, <1>4, <2>4 DEF ReadForSwitch, ReadForReset, Goto, history, Busy
  <2>5. CASE ReadForRecord(p)
    <3>1. Alone(p) => live.active = named[p]
      BY <2>5 DEF ReadForRecord, Undisturbed
    <3>2. copy'[p].active = live.active
      <4>1. copy'[p] = Charge(live, tokens[p]) BY <1>1, <2>5 DEF ReadForRecord
      <4>2. live \in Config BY <2>5 DEF ReadForRecord, Whole
      <4> QED BY <4>1, <4>2 DEF Charge, Config
    <3> QED BY <1>1, <1>4, <2>5, <3>1, <3>2 DEF ReadForRecord, Goto, Busy, Alone
  <2>6. CASE OpenTemp(p)
    BY <1>1, <1>4, <2>6 DEF OpenTemp, Goto, Busy, Alone, Undisturbed
  <2>7. CASE WriteTemp(p)
    BY <1>1, <1>4, <2>7 DEF WriteTemp, Goto, history, Busy, Alone, Undisturbed
  <2>8. CASE Replace(p)
    <3>1. /\ pc[p] = "replace" /\ pc' = [pc EXCEPT ![p] = AfterReplace(p)]
          /\ live' = temp /\ UNCHANGED <<task, copy, alone>>
      BY <2>8 DEF Replace, Goto
    <3>2. named' = IF task[p] = "switch" THEN [named EXCEPT ![p] = copy[p].active] ELSE named
      BY <2>8 DEF Replace
    <3>3. AfterReplace(p) \in {"call", "idle", "snapshot"}
          /\ (AfterReplace(p) = "call" => task[p] = "switch")
      BY DEF AfterReplace
    <3>4. Alone(p) => temp = copy[p] BY <3>1 DEF Undisturbed
    <3>5. task[p] = "record" /\ Alone(p) => copy[p].active = named[p]
      BY <3>1 DEF Undisturbed
    <3>6. copy[p] \in Config BY <1>1
    <3>7. Alone(p)' => Alone(p) BY <1>1, <3>1 DEF Alone, Busy
    <3>8. pc'[p] = AfterReplace(p) BY <1>1, <3>1
    <3> QED BY <1>1, <1>4, <3>1, <3>2, <3>3, <3>4, <3>5, <3>6, <3>7, <3>8 DEF Busy, Whole
  <2>9. ASSUME NEW t \in TokenCounts, Answer(p, t) PROVE Undisturbed'
    BY <1>1, <1>4, <2>9 DEF Answer, Goto, files, Busy, Alone, Undisturbed, Whole
  <2>10. CASE WriteSnapshot(p)
    BY <1>1, <1>4, <2>10 DEF WriteSnapshot, Goto, Busy, Alone, Undisturbed
  <2> QED BY <1>6, <2>1, <2>2, <2>3, <2>4, <2>5, <2>6, <2>7, <2>8, <2>9, <2>10 DEF Step
<1> QED BY <1>2, <1>3, <1>5, <1>6 DEF Next, Crash, Fails

LEMMA PricedStep == TypeInv /\ Control /\ Undisturbed /\ PricedAsNamed /\ [Next]_vars => PricedAsNamed'
<1> SUFFICES ASSUME TypeInv, Control, Undisturbed, PricedAsNamed, [Next]_vars
             PROVE  PricedAsNamed'
  OBVIOUS
<1>1. ASSUME events' \subseteq events PROVE PricedAsNamed'
  BY <1>1 DEF PricedAsNamed, Cost
<1>2. ASSUME NEW p \in Proc, InsertEvent(p) PROVE PricedAsNamed'
  <2>1. Busy(p) /\ pc[p] = "event" /\ task[p] = "record"
    BY <1>2 DEF InsertEvent, Busy, Control
  <2>2. alone[p] => copy[p].active = named[p]
    BY <2>1 DEF Undisturbed, Alone
  <2>3. EventOf(p).alone => EventOf(p).cost = Cost(EventOf(p).model, EventOf(p).tokens)
    BY <2>2 DEF EventOf
  <2>4. events' = events \cup {EventOf(p)} BY <1>2 DEF InsertEvent
  <2> QED BY <2>3, <2>4 DEF PricedAsNamed, Cost
<1>3. ASSUME NEW p \in Proc, PurgeStore(p) PROVE PricedAsNamed'
  BY <1>1, <1>3 DEF PurgeStore
<1>4. ASSUME UNCHANGED events PROVE PricedAsNamed'
  BY <1>1, <1>4
<1>5. CASE UNCHANGED vars
  BY <1>4, <1>5 DEF vars, files
<1>6. ASSUME NEW p \in Proc, Start(p) PROVE UNCHANGED events
  BY <1>6, StartBegins DEF Begin, files
<1>7. ASSUME NEW p \in Proc, Interrupt(p) PROVE UNCHANGED events
  BY <1>7 DEF Interrupt, files
<1>8. ASSUME NEW p \in Proc, Step(p), ~InsertEvent(p), ~PurgeStore(p) PROVE UNCHANGED events
  BY <1>8 DEF Step, Load, Reject, ReadForSwitch, ReadForReset, ReadForRecord, OpenTemp,
     WriteTemp, Replace, ReplaceFails, Answer, CallFails, WriteSnapshot, files
<1> QED BY <1>2, <1>3, <1>4, <1>5, <1>6, <1>7, <1>8 DEF Next, Crash, Fails

\* The price looked up after the answer is the price of the model that answered, for
\* every chat that ran alone.
THEOREM PricedByName == Spec => []PricedAsNamed
<1>1. Init => PricedAsNamed BY DEF Init, PricedAsNamed
<1> QED BY TypeInit, TypeStep, ControlInit, ControlStep, UndisturbedInit, UndisturbedStep,
           PricedStep, <1>1, PTL DEF Spec

---------------------------------------------------------------------------
\* Conservation.  The answers being recorded carry numbers of their own, which no row
\* yet, so a row that is inserted is a new one; a recording that ends otherwise was cut
\* short, or two rewrites overlapped.
Recorders == {p \in Proc : Recording(p)}

Numbered ==
  /\ \A p \in Proc : Recording(p) => call[p] <= answered
  /\ \A e \in events : e.call <= answered
  /\ \A p, q \in Proc : Recording(p) /\ Recording(q) /\ call[p] = call[q] => p = q
  /\ \A p \in Proc, e \in events : Recording(p) => e.call # call[p]

Conserved == IsFiniteSet(Recorders) /\ Numbered /\ AnswersConserved

LEMMA ConservedInit == Init => Conserved
<1> SUFFICES ASSUME Init PROVE Conserved OBVIOUS
<1>1. Recorders = {} BY DEF Init, Recorders, Recording, Busy
<1>2. events = {} /\ answered = 0 /\ purged = 0 /\ interrupts = 0 BY DEF Init
<1>3. Numbered BY <1>1, <1>2 DEF Numbered, Recorders
<1>4. AnswersConserved
  <2>1. Cardinality(events) = 0 /\ Cardinality(Recorders) = 0 BY <1>1, <1>2, FS_EmptySet
  <2> QED BY <1>2, <2>1 DEF AnswersConserved, Recorders
<1> QED BY <1>1, <1>3, <1>4, FS_EmptySet DEF Conserved

\* Steps that neither begin a recording nor touch the rows; a recording they do end is
\* one that an overlap explains.
LEMMA ConservedAside ==
  ASSUME TypeInv, Conserved, UNCHANGED <<events, answered, purged, call>>,
         \A p \in Proc : Recording(p)' => Recording(p),
         ~overlap' =>
           ~overlap /\ interrupts' = interrupts /\ \A p \in Proc : Recording(p) => Recording(p)'
  PROVE  Conserved'
<1>1. Recorders' \subseteq Recorders BY DEF Recorders
<1>2. IsFiniteSet(Recorders') /\ Cardinality(Recorders') <= Cardinality(Recorders)
      /\ Cardinality(Recorders') \in Nat /\ Cardinality(Recorders) \in Nat
  BY <1>1, FS_Subset, FS_CardinalityType DEF Conserved
<1>3. Numbered' BY DEF Conserved, Numbered
<1>4. ASSUME ~overlap' PROVE Recorders' = Recorders /\ ~overlap /\ interrupts' = interrupts
  BY <1>4 DEF Recorders
<1>5. /\ Cardinality(events) \in Nat /\ purged \in Nat /\ answered \in Nat /\ interrupts \in Nat
  BY FS_CardinalityType DEF TypeInv, TypeOK
<1>6. /\ Cardinality(events) + purged + Cardinality(Recorders) <= answered
      /\ ~overlap => answered <= Cardinality(events) + purged + Cardinality(Recorders) + interrupts
  BY DEF Conserved, AnswersConserved, Recorders
<1>7. /\ Cardinality(events') + purged' + Cardinality(Recorders') <= answered'
      /\ ~overlap' =>
           answered' <= Cardinality(events') + purged' + Cardinality(Recorders') + interrupts'
  BY <1>2, <1>4, <1>5, <1>6
<1>8. AnswersConserved' BY <1>7 DEF AnswersConserved, Recorders
<1> QED BY <1>2, <1>3, <1>8 DEF Conserved

\* A command that is cut short costs at most the answer it was recording.
LEMMA ConservedInterrupt ==
  ASSUME TypeInv, Conserved, NEW p \in Proc, Interrupt(p)
  PROVE  Conserved'
<1>1. /\ pc \in [Proc -> Steps] /\ pc' = [pc EXCEPT ![p] = "idle"]
      /\ interrupts' = interrupts + 1
      /\ UNCHANGED <<events, answered, purged, call, task, overlap>>
  BY DEF Interrupt, Goto, files, TypeInv, TypeOK
<1>2. Recorders' = Recorders \ {p}
  BY <1>1 DEF Recorders, Recording, Busy
<1>3. IsFiniteSet(Recorders') /\ Cardinality(Recorders') <= Cardinality(Recorders)
      /\ Cardinality(Recorders) <= Cardinality(Recorders') + 1
      /\ Cardinality(Recorders') \in Nat /\ Cardinality(Recorders) \in Nat
  BY <1>2, FS_RemoveElement, FS_CardinalityType DEF Conserved
<1>4. /\ Cardinality(events) \in Nat /\ purged \in Nat /\ answered \in Nat /\ interrupts \in Nat
  BY FS_CardinalityType DEF TypeInv, TypeOK
<1>5. /\ Cardinality(events) + purged + Cardinality(Recorders) <= answered
      /\ ~overlap => answered <= Cardinality(events) + purged + Cardinality(Recorders) + interrupts
  BY DEF Conserved, AnswersConserved, Recorders
<1>6. /\ Cardinality(events') + purged' + Cardinality(Recorders') <= answered'
      /\ ~overlap' =>
           answered' <= Cardinality(events') + purged' + Cardinality(Recorders') + interrupts'
  BY <1>1, <1>3, <1>4, <1>5
<1>7. AnswersConserved' BY <1>6 DEF AnswersConserved, Recorders
<1>8. Numbered'
  BY <1>1, <1>2 DEF Conserved, Numbered, Recording, Busy
<1> QED BY <1>3, <1>7, <1>8 DEF Conserved

LEMMA ConservedStep ==
  TypeInv /\ Control /\ OneRewriter /\ Conserved /\ [Next]_vars => Conserved'
<1> SUFFICES ASSUME TypeInv, Control, OneRewriter, Conserved, [Next]_vars PROVE Conserved'
  OBVIOUS
<1>1. /\ pc \in [Proc -> Steps] /\ task \in [Proc -> Tasks] /\ call \in [Proc -> Nat]
      /\ answered \in Nat /\ purged \in Nat /\ events \subseteq Event /\ IsFiniteSet(events)
      /\ interrupts \in Nat
  BY DEF TypeInv, TypeOK
<1> USE DEF Recording, Busy
<1>2. CASE UNCHANGED vars
  BY <1>2, ConservedAside DEF vars, files, locals, history
<1>3. ASSUME NEW p \in Proc, Start(p) PROVE Conserved'
  <2>1. ASSUME NEW command, NEW step, NEW purpose, NEW profile,
               Begin(p, command, step, purpose, profile), step = "load" \/ purpose # "record"
        PROVE  Conserved'
    BY <1>1, <2>1, ConservedAside DEF Begin, Goto, files
  <2>2. ASSUME NEW profile, StartChat(p, profile) \/ StartSet(p, profile) PROVE Conserved'
    BY <2>1, <2>2 DEF StartChat, StartSet
  <2>3. CASE StartResetAll(p) \/ StartResetActive(p) \/ StartResetStore(p)
    BY <2>1, <2>3 DEF StartResetAll, StartResetActive, StartResetStore
  <2> QED BY <1>3, <2>2, <2>3 DEF Start
<1>4. ASSUME NEW p \in Proc, Interrupt(p) PROVE Conserved'
  BY <1>4, ConservedInterrupt
<1>5. ASSUME NEW p \in Proc, Step(p) PROVE Conserved'
  <2>1. CASE Load(p)
    BY <1>1, <2>1, ConservedAside DEF Load, Goto, files, history
  <2>2. CASE Reject(p)
    <3>1. Recording(p) => overlap
      BY <2>2 DEF Reject, OneRewriter, Whole
    <3> QED BY <1>1, <2>2, <3>1, ConservedAside DEF Reject, End, Goto, files, history
  <2>3. CASE ReadForSwitch(p) \/ ReadForReset(p) \/ ReadForRecord(p)
    BY <1>1, <2>3, ConservedAside DEF ReadForSwitch, ReadForReset, ReadForRecord, Goto, files, history
  <2>4. CASE OpenTemp(p)
    BY <1>1, <2>4, ConservedAside DEF OpenTemp, Goto
  <2>5. CASE WriteTemp(p)
    BY <1>1, <2>5, ConservedAside DEF WriteTemp, Goto, history
  <2>6. CASE Replace(p)
    <3>1. AfterReplace(p) \in {"call", "idle", "snapshot"}
          /\ (task[p] = "record" => AfterReplace(p) = "snapshot")
          /\ (AfterReplace(p) = "snapshot" => task[p] # "switch")
      BY DEF AfterReplace
    <3>2. /\ pc[p] = "replace" /\ pc' = [pc EXCEPT ![p] = AfterReplace(p)]
          /\ UNCHANGED <<task, events, answered, purged, call, interrupts, overlap>>
      BY <2>6 DEF Replace, Goto
    <3> QED BY <1>1, <3>1, <3>2, ConservedAside
  <2>7. CASE ReplaceFails(p)
    <3>1. overlap
      BY <2>7, FileAssumption DEF ReplaceFails, OneRewriter
    <3> QED BY <1>1, <2>7, <3>1, ConservedAside DEF ReplaceFails, End, Goto, files, history
  <2>8. ASSUME NEW t \in TokenCounts, Answer(p, t) PROVE Conserved'
    <3>1. /\ pc[p] = "call" /\ pc' = [pc EXCEPT ![p] = "read"]
          /\ task' = [task EXCEPT ![p] = "record"]
          /\ call' = [call EXCEPT ![p] = answered + 1] /\ answered' = answered + 1
          /\ UNCHANGED <<events, purged, overlap, interrupts>>
      BY <2>8 DEF Answer, Goto, files
    <3>2. Recorders' = Recorders \cup {p} /\ p \notin Recorders
      BY <1>1, <3>1 DEF Recorders
    <3>3. IsFiniteSet(Recorders') /\ Cardinality(Recorders') = Cardinality(Recorders) + 1
          /\ Cardinality(Recorders) \in Nat /\ Cardinality(events) \in Nat
      BY <1>1, <3>2, FS_AddElement, FS_CardinalityType DEF Conserved
    <3>4. AnswersConserved'
      BY <1>1, <3>1, <3>3 DEF Conserved, AnswersConserved, Recorders
    <3>5. \A e \in events : e.call \in Nat BY <1>1 DEF Event
    <3>6. Numbered'
      BY <1>1, <3>1, <3>5 DEF Conserved, Numbered
    <3> QED BY <3>3, <3>4, <3>6 DEF Conserved
  <2>9. CASE CallFails(p)
    BY <1>1, <2>9, ConservedAside DEF CallFails, End, Goto, files, history
  <2>10. CASE WriteSnapshot(p)
    BY <1>1, <2>10, ConservedAside DEF WriteSnapshot, Goto, Tasks
  <2>11. CASE InsertEvent(p)
    <3>1. /\ pc[p] = "event" /\ pc' = [pc EXCEPT ![p] = "idle"]
          /\ events' = events \cup {EventOf(p)}
          /\ UNCHANGED <<task, call, answered, purged, overlap, interrupts>>
      BY <2>11 DEF InsertEvent, End, Goto, history
    <3>2. task[p] = "record" BY <3>1 DEF Control
    <3>3. Recorders' = Recorders \ {p} /\ p \in Recorders
      BY <1>1, <3>1, <3>2 DEF Recorders
    <3>4. IsFiniteSet(Recorders') /\ Cardinality(Recorders') = Cardinality(Recorders) - 1
          /\ Cardinality(Recorders) \in Nat /\ Cardinality(events) \in Nat
      BY <1>1, <3>3, FS_RemoveElement, FS_CardinalityType DEF Conserved
    <3>5. EventOf(p).call = call[p] BY DEF EventOf
    <3>6. EventOf(p) \notin events
      BY <3>3, <3>5 DEF Conserved, Numbered, Recorders
    <3>7. Cardinality(events') = Cardinality(events) + 1
      BY <1>1, <3>1, <3>6, FS_AddElement
    <3>8. AnswersConserved'
      BY <1>1, <3>1, <3>4, <3>7 DEF Conserved, AnswersConserved, Recorders
    <3>9. Numbered'
      BY <1>1, <3>1, <3>3, <3>5 DEF Conserved, Numbered, Recorders
    <3> QED BY <3>4, <3>8, <3>9 DEF Conserved
  <2>12. CASE PurgeStore(p)
    <3>1. /\ pc[p] = "purge" /\ pc' = [pc EXCEPT ![p] = "idle"] /\ events' = {}
          /\ purged' = purged + Cardinality(events)
          /\ UNCHANGED <<task, call, answered, overlap, interrupts>>
      BY <2>12 DEF PurgeStore, End, Goto
    <3>2. task[p] # "record" BY <3>1 DEF Control
    <3>3. Recorders' = Recorders BY <1>1, <3>1, <3>2 DEF Recorders
    <3>4. Cardinality(events) \in Nat /\ Cardinality(events') = 0 /\ Cardinality(Recorders) \in Nat
      BY <1>1, <3>1, FS_EmptySet, FS_CardinalityType DEF Conserved
    <3>5. /\ Cardinality(events) + purged + Cardinality(Recorders) <= answered
          /\ ~overlap =>
               answered <= Cardinality(events) + purged + Cardinality(Recorders) + interrupts
      BY DEF Conserved, AnswersConserved, Recorders
    <3>6. /\ Cardinality(events') + purged' + Cardinality(Recorders') <= answered'
          /\ ~overlap' =>
               answered' <= Cardinality(events') + purged' + Cardinality(Recorders') + interrupts'
      <4>1. Cardinality(Recorders') = Cardinality(Recorders) BY <3>3
      <4> QED BY <1>1, <3>1, <3>4, <3>5, <4>1
    <3>7. AnswersConserved' BY <3>6 DEF AnswersConserved, Recorders
    <3>8. Numbered' BY <1>1, <3>1, <3>2 DEF Conserved, Numbered
    <3>9. IsFiniteSet(Recorders') BY <3>3 DEF Conserved
    <3> QED BY <3>7, <3>8, <3>9 DEF Conserved
  <2> QED BY <1>5, <2>1, <2>2, <2>3, <2>4, <2>5, <2>6, <2>7, <2>8, <2>9, <2>10, <2>11,
             <2>12 DEF Step
<1> QED BY <1>2, <1>3, <1>4, <1>5 DEF Next, Crash, Fails

\* Every answered call has its row, is being recorded, or had its row deleted.
THEOREM AnswersKept == Spec => []AnswersConserved
<1>1. Conserved => AnswersConserved BY DEF Conserved
<1> QED BY TypeInit, TypeStep, ControlInit, ControlStep, OneRewriterInit, OneRewriterStep,
           ConservedInit, ConservedStep, <1>1, PTL DEF Spec

---------------------------------------------------------------------------
\* The three books.  A clean state has at most one command running, alone; while it
\* carries an answer or empty counters from book to book, what the books lack is what
\* it has in hand.

\* The tokens and the cost of a set of rows.
TokensOf(rows) == SumFunction([e \in rows |-> e.tokens])

CostOf(rows) ==
  IF \E e \in rows : e.cost = Unknown THEN Unknown
  ELSE SumFunction([e \in rows |-> e.cost])

LEMMA NoRows == TokensOf({}) = 0 /\ CostOf({}) = 0
BY SumOfNone DEF TokensOf, CostOf, SumFunction

LEMMA TokensAdd ==
  ASSUME NEW rows \in SUBSET Event, IsFiniteSet(rows), NEW x \in Event, x \notin rows
  PROVE  TokensOf(rows) \in Nat /\ TokensOf(rows \cup {x}) = TokensOf(rows) + x.tokens
<1> DEFINE more == rows \cup {x}
           f == [e \in rows |-> e.tokens]
           g == [e \in more |-> e.tokens]
<1>1. \A e \in more : e.tokens \in Nat BY DEF Event
<1>2. \A e \in rows : f[e] = g[e] /\ f[e] \in Nat BY <1>1
<1>3. (\A e \in more : g[e] \in Nat) /\ g[x] = x.tokens BY <1>1
<1>4. TokensOf(rows) = SumFunctionOnSet(f, rows) /\ TokensOf(more) = SumFunctionOnSet(g, more)
  BY DEF TokensOf, SumFunction
<1> HIDE DEF f, g
<1>5. SumFunctionOnSet(g, more) = SumFunctionOnSet(g, rows) + g[x] BY <1>3, SumAdds
<1>6. SumFunctionOnSet(f, rows) = SumFunctionOnSet(g, rows) BY <1>2, SumSame
<1>7. SumFunctionOnSet(f, rows) \in Nat BY <1>2, SumType
<1> QED BY <1>3, <1>4, <1>5, <1>6, <1>7

LEMMA CostAdds ==
  ASSUME NEW rows \in SUBSET Event, IsFiniteSet(rows), NEW x \in Event, x \notin rows
  PROVE  /\ CostOf(rows) \in Nat \cup {Unknown}
         /\ CostOf(rows \cup {x}) = AddCost(CostOf(rows), x.cost)
<1> DEFINE more == rows \cup {x}
           f == [e \in rows |-> e.cost]
           g == [e \in more |-> e.cost]
<1>1. \A e \in more : e.cost \in Nat \cup {Unknown} BY DEF Event
<1>2. CASE \E e \in rows : e.cost = Unknown
  BY <1>2 DEF CostOf, AddCost
<1>3. CASE ~\E e \in rows : e.cost = Unknown
  <2>1. \A e \in rows : f[e] = e.cost /\ f[e] \in Nat BY <1>1, <1>3
  <2>2. CostOf(rows) = SumFunctionOnSet(f, rows) BY <1>3 DEF CostOf, SumFunction
  <2>3. CostOf(rows) \in Nat
    <3> HIDE DEF f
    <3> QED BY <2>1, <2>2, SumType
  <2>4. CASE x.cost = Unknown
    BY <2>3, <2>4 DEF CostOf, AddCost
  <2>5. CASE x.cost # Unknown
    <3>1. (\A e \in more : g[e] = e.cost /\ g[e] \in Nat) /\ g[x] = x.cost BY <1>1, <1>3, <2>5
    <3>2. CostOf(more) = SumFunctionOnSet(g, more) BY <1>3, <2>5 DEF CostOf, SumFunction
    <3> HIDE DEF f, g
    <3>3. SumFunctionOnSet(g, more) = SumFunctionOnSet(g, rows) + g[x] BY <3>1, SumAdds
    <3>4. SumFunctionOnSet(f, rows) = SumFunctionOnSet(g, rows)
      <4>1. \A e \in rows : f[e] = g[e] /\ f[e] \in Nat BY <2>1, <3>1
      <4> QED BY <4>1, SumSame
    <3>5. CostOf(rows) # Unknown BY <2>3, UsageAssumption
    <3> QED BY <2>2, <2>3, <2>5, <3>1, <3>2, <3>3, <3>4, <3>5 DEF AddCost
  <2> QED BY <2>4, <2>5
<1> QED BY <1>2, <1>3

\* What the command of a running process may be doing.
Purposeful == \A p \in Proc : Busy(p) =>
  /\ pc[p] \in {"load", "call"} \/ task[p] = "record" => cmd[p] = "chat"
  /\ task[p] = "switch" => pc[p] \notin {"snapshot", "event", "purge"} /\ cmd[p] \in {"chat", "set"}
  /\ task[p] = "reset" => cmd[p] \in {"resetAll", "resetActive"} \/ pc[p] = "purge"
  /\ cmd[p] = "resetAll" => task[p] = "reset"

LEMMA PurposefulInit == Init => Purposeful
BY DEF Init, Purposeful, Busy

LEMMA PurposefulStep == TypeInv /\ Control /\ Purposeful /\ [Next]_vars => Purposeful'
<1> SUFFICES ASSUME TypeInv, Control, Purposeful, [Next]_vars PROVE Purposeful'
  OBVIOUS
<1>1. /\ pc \in [Proc -> Steps] /\ task \in [Proc -> Tasks] /\ cmd \in [Proc -> Commands]
  BY DEF TypeInv, TypeOK
<1> USE DEF Busy
<1>2. CASE UNCHANGED vars
  BY <1>2 DEF vars, locals, Purposeful
<1>3. ASSUME NEW p \in Proc, Start(p) PROVE Purposeful'
  <2>1. ASSUME NEW command, NEW step, NEW purpose, NEW profile,
               Begin(p, command, step, purpose, profile),
               <<command, step, purpose>> \in
                 {<<"chat", "read", "switch">>, <<"chat", "load", "record">>,
                  <<"set", "read", "switch">>, <<"resetAll", "read", "reset">>,
                  <<"resetActive", "read", "reset">>, <<"resetStore", "purge", "reset">>}
        PROVE  Purposeful'
    BY <1>1, <2>1 DEF Begin, Goto, Purposeful
  <2>2. ASSUME NEW profile, StartChat(p, profile) \/ StartSet(p, profile) PROVE Purposeful'
    BY <2>1, <2>2 DEF StartChat, StartSet
  <2>3. CASE StartResetAll(p) \/ StartResetActive(p) \/ StartResetStore(p)
    BY <2>1, <2>3 DEF StartResetAll, StartResetActive, StartResetStore
  <2> QED BY <1>3, <2>2, <2>3 DEF Start
<1>4. ASSUME NEW p \in Proc, Interrupt(p) PROVE Purposeful'
  BY <1>1, <1>4 DEF Interrupt, Goto, Purposeful
<1>5. ASSUME NEW p \in Proc, Step(p) PROVE Purposeful'
  <2>1. CASE Load(p) \/ Reject(p) \/ ReadForSwitch(p) \/ ReadForReset(p) \/ ReadForRecord(p)
    BY <1>1, <2>1 DEF Load, Reject, ReadForSwitch, ReadForReset, ReadForRecord, End, Goto, Purposeful
  <2>2. CASE OpenTemp(p) \/ WriteTemp(p) \/ ReplaceFails(p)
    BY <1>1, <2>2 DEF OpenTemp, WriteTemp, ReplaceFails, End, Goto, Purposeful
  <2>3. CASE Replace(p)
    BY <1>1, <2>3 DEF Replace, AfterReplace, Goto, Purposeful
  <2>4. ASSUME NEW t \in TokenCounts, Answer(p, t) PROVE Purposeful'
    BY <1>1, <2>4 DEF Answer, Goto, Purposeful
  <2>5. CASE CallFails(p) \/ InsertEvent(p) \/ PurgeStore(p)
    BY <1>1, <2>5 DEF CallFails, InsertEvent, PurgeStore, End, Goto, Purposeful
  <2>6. CASE WriteSnapshot(p)
    BY <1>1, <2>6 DEF WriteSnapshot, Goto, Purposeful, Tasks
  <2> QED BY <1>5, <2>1, <2>2, <2>3, <2>4, <2>5, <2>6 DEF Step
<1> QED BY <1>2, <1>3, <1>4, <1>5 DEF Next, Crash, Fails

\* A reset that goes on to empty the database.
Clearing(p) == pc[p] = "purge" /\ cmd[p] = "resetAll"

\* A command that runs alone has written what it holds, to models.yaml and then to the
\* snapshot, and a reset holds empty counters.
Written == \A p \in Proc : Alone(p) =>
  /\ pc[p] \in {"snapshot", "event"} \/ Clearing(p) => live = copy[p]
  /\ pc[p] = "event" \/ Clearing(p) => snapshot = copy[p]
  /\ task[p] = "reset" /\ (pc[p] \in {"open", "write", "replace", "snapshot"} \/ Clearing(p)) =>
       copy[p] = Fresh(copy[p].active)

LEMMA WrittenInit == Init => Written
BY DEF Init, Written, Alone, Busy

LEMMA WrittenStep ==
  TypeInv /\ Control /\ Undisturbed /\ Purposeful /\ Written /\ [Next]_vars => Written'
<1> SUFFICES ASSUME TypeInv, Control, Undisturbed, Purposeful, Written, [Next]_vars
             PROVE  Written'
  OBVIOUS
<1>1. /\ pc \in [Proc -> Steps] /\ task \in [Proc -> Tasks] /\ copy \in [Proc -> Config]
      /\ alone \in [Proc -> BOOLEAN] /\ cmd \in [Proc -> Commands]
  BY DEF TypeInv, TypeOK
<1> USE DEF Alone, Busy, Clearing
<1>2. CASE UNCHANGED vars
  BY <1>2 DEF vars, files, locals, history, Written
<1>3. ASSUME NEW p \in Proc, Start(p) PROVE Written'
  <2>1. ASSUME NEW command, NEW step, NEW purpose, NEW profile,
               Begin(p, command, step, purpose, profile),
               step \in {"load", "read"} \/ (step = "purge" /\ command = "resetStore")
        PROVE  Written'
    BY <1>1, <2>1 DEF Begin, Goto, Written
  <2>2. ASSUME NEW profile, StartChat(p, profile) \/ StartSet(p, profile) PROVE Written'
    BY <2>1, <2>2 DEF StartChat, StartSet
  <2>3. CASE StartResetAll(p) \/ StartResetActive(p) \/ StartResetStore(p)
    BY <2>1, <2>3 DEF StartResetAll, StartResetActive, StartResetStore
  <2> QED BY <1>3, <2>2, <2>3 DEF Start
\* A step of p, which is running, leaves nothing to say of any other process.
<1>4. ASSUME NEW p \in Proc, Busy(p), UNCHANGED <<alone, cmd>>,
             \A q \in Proc \ {p} : pc'[q] = pc[q],
             Alone(p)' =>
               /\ pc'[p] \in {"snapshot", "event"} \/ Clearing(p)' => live' = copy'[p]
               /\ pc'[p] = "event" \/ Clearing(p)' => snapshot' = copy'[p]
               /\ task'[p] = "reset" /\ (pc'[p] \in {"open", "write", "replace", "snapshot"}
                                         \/ Clearing(p)') =>
                    copy'[p] = Fresh(copy'[p].active)
      PROVE  Written'
  <2>1. ASSUME NEW q \in Proc \ {p} PROVE ~Alone(q)'
    BY <1>4, <2>1 DEF Undisturbed
  <2> QED BY <1>4, <2>1 DEF Written, Fresh
<1>5. ASSUME NEW p \in Proc, Interrupt(p) PROVE Written'
  BY <1>1, <1>4, <1>5 DEF Interrupt, Goto
<1>6. ASSUME NEW p \in Proc, Step(p) PROVE Written'
  <2>1. CASE Load(p) \/ Reject(p) \/ ReplaceFails(p) \/ CallFails(p)
    BY <1>1, <1>4, <2>1 DEF Load, Reject, ReplaceFails, CallFails, End, Goto, history
  <2>2. CASE InsertEvent(p) \/ PurgeStore(p)
    BY <1>1, <1>4, <2>2 DEF InsertEvent, PurgeStore, End, Goto, history
  <2>3. CASE ReadForSwitch(p) \/ ReadForRecord(p)
    BY <1>1, <1>4, <2>3 DEF ReadForSwitch, ReadForRecord, Goto, history
  <2>4. CASE ReadForReset(p)
    <3>1. Fresh(live.active).active = live.active BY DEF Fresh
    <3> QED BY <1>1, <1>4, <2>4, <3>1 DEF ReadForReset, Goto, history
  <2>5. CASE OpenTemp(p)
    BY <1>1, <1>4, <2>5 DEF OpenTemp, Goto, Written
  <2>6. CASE WriteTemp(p)
    BY <1>1, <1>4, <2>6 DEF WriteTemp, Goto, history, Written
  <2>7. CASE Replace(p)
    <3>1. /\ pc[p] = "replace" /\ pc'[p] = AfterReplace(p) /\ live' = temp
          /\ UNCHANGED <<task, copy, alone, cmd>>
          /\ \A q \in Proc \ {p} : pc'[q] = pc[q]
      BY <1>1, <2>7 DEF Replace, Goto
    <3>2. AfterReplace(p) \in {"call", "idle", "snapshot"} BY DEF AfterReplace
    <3>3. Alone(p) => temp = copy[p] BY <3>1 DEF Undisturbed
    <3> QED BY <1>1, <1>4, <3>1, <3>2, <3>3 DEF Written
  <2>8. ASSUME NEW t \in TokenCounts, Answer(p, t) PROVE Written'
    BY <1>1, <1>4, <2>8 DEF Answer, Goto
  <2>9. CASE WriteSnapshot(p)
    BY <1>1, <1>4, <2>9 DEF WriteSnapshot, Goto, Written
  <2> QED BY <1>6, <2>1, <2>2, <2>3, <2>4, <2>5, <2>6, <2>7, <2>8, <2>9 DEF Step
<1> QED BY <1>2, <1>3, <1>5, <1>6 DEF Next, Crash, Fails

\* What the three books say when nothing is between them.
Books ==
  /\ Whole(live)
  /\ live.total = TokensOf(events)
  /\ IF events = {} THEN live = Fresh(live.active) ELSE live.cost = CostOf(events)
  /\ IF snapshot = Absent THEN events = {} ELSE snapshot = live

\* Nothing is between the books on p's account.
Settled(p) == pc[p] \notin {"snapshot", "event"} /\ ~Clearing(p)

\* p holds the counters with an answer that has no row yet.
Owed(p) ==
  /\ copy[p].total = TokensOf(events) + tokens[p]
  /\ copy[p].cost = AddCost(CostOf(events), Cost(copy[p].active, tokens[p]))

Carried(p) == task[p] = "record" /\ pc[p] \in {"open", "write", "replace", "snapshot", "event"}

CleanBooks == clean =>
  /\ \A p \in Proc : Busy(p) => alone[p]
  /\ \A p \in Proc : Carried(p) => Owed(p)
  /\ (\A p \in Proc : Settled(p)) => Books

LEMMA CleanBooksInit == Init => CleanBooks
<1> SUFFICES ASSUME Init PROVE CleanBooks OBVIOUS
<1>1. Fresh(DefaultProfile) \in Config /\ Fresh(DefaultProfile).total = 0
      /\ Fresh(DefaultProfile).active = DefaultProfile
  BY ProfilesAssumption, FreshType DEF Fresh
<1>2. Books BY <1>1, NoRows DEF Init, Books, Whole
<1>3. \A p \in Proc : ~Busy(p) /\ ~Carried(p) BY DEF Init, Busy, Carried
<1> QED BY <1>2, <1>3 DEF CleanBooks

\* An answer charged to books that agree is owed to the database.
LEMMA ChargeOwes ==
  ASSUME TypeInv, Books, NEW t \in Nat
  PROVE  /\ Charge(live, t).total = TokensOf(events) + t
         /\ Charge(live, t).cost = AddCost(CostOf(events), Cost(Charge(live, t).active, t))
<1>1. live \in Config BY DEF Books, Whole
<1>2. Charge(live, t).total = live.total + t BY <1>1, ChargeType
<1>3. /\ Charge(live, t).cost = AddCost(live.cost, Cost(live.active, t))
      /\ Charge(live, t).active = live.active
  BY <1>1 DEF Charge, Config
<1>4. live.active \in Profile /\ Price[live.active] \in Nat \cup {Unknown}
  BY <1>1, PriceAssumption DEF Config
<1>5. CASE events = {}
  <2>1. CostOf(events) = 0 BY <1>5, NoRows
  <2>2. live.cost = IF Price[live.active] = Unknown THEN Unknown ELSE 0
    BY <1>5 DEF Books, Fresh
  <2>3. AddCost(live.cost, Cost(live.active, t)) = AddCost(0, Cost(live.active, t))
    BY <2>2 DEF AddCost, Cost
  <2> QED BY <1>2, <1>3, <2>1, <2>3 DEF Books
<1>6. CASE events # {}
  BY <1>2, <1>3, <1>6 DEF Books
<1> QED BY <1>5, <1>6

\* A step of the one running process that keeps the three books, and leaves what it
\* owes as it was or has just charged it.
LEMMA CleanAside ==
  ASSUME TypeInv, Undisturbed, CleanBooks, NEW p \in Proc, Busy(p), Settled(p),
         UNCHANGED <<live, snapshot, events, alone, clean>>,
         \A q \in Proc \ {p} : pc'[q] = pc[q],
         clean /\ Carried(p)' => Owed(p)'
  PROVE  CleanBooks'
<1> SUFFICES ASSUME clean PROVE CleanBooks' BY DEF CleanBooks
<1>1. Alone(p) BY DEF Alone, CleanBooks
<1>2. \A q \in Proc \ {p} : pc[q] = "idle" BY <1>1 DEF Undisturbed, Busy
<1>3. \A q \in Proc \ {p} : Settled(q) BY <1>2 DEF Settled, Clearing
<1>4. Books BY <1>3 DEF CleanBooks
<1>5. Books' BY <1>4 DEF Books, Whole
<1>6. \A q \in Proc \ {p} : ~Busy(q)' /\ ~Carried(q)' BY <1>2 DEF Busy, Carried
<1> QED BY <1>1, <1>5, <1>6 DEF CleanBooks, Alone

LEMMA CleanBooksStep ==
  /\ TypeInv /\ Control /\ Undisturbed /\ Purposeful /\ Written /\ Conserved
  /\ CleanBooks /\ [Next]_vars
  => CleanBooks'
<1> SUFFICES ASSUME TypeInv, Control, Undisturbed, Purposeful, Written, Conserved,
                    CleanBooks, [Next]_vars
             PROVE  CleanBooks'
  OBVIOUS
<1>1. /\ pc \in [Proc -> Steps] /\ task \in [Proc -> Tasks] /\ copy \in [Proc -> Config]
      /\ alone \in [Proc -> BOOLEAN] /\ cmd \in [Proc -> Commands] /\ tokens \in [Proc -> Nat]
      /\ events \in SUBSET Event /\ IsFiniteSet(events) /\ call \in [Proc -> Nat]
  BY DEF TypeInv, TypeOK
<1>2. CASE UNCHANGED vars
  BY <1>2 DEF vars, files, locals, history, CleanBooks, Busy, Carried, Owed, Settled, Clearing,
     Books, Whole
<1>3. ASSUME NEW p \in Proc, Start(p) PROVE CleanBooks'
  <2>1. PICK command \in Commands, step \in {"load", "read", "purge"}, purpose \in Tasks,
             profile \in Profile \cup {NoProfile} : Begin(p, command, step, purpose, profile)
    BY <1>3, StartBegins
  <2> SUFFICES ASSUME clean' PROVE CleanBooks' BY DEF CleanBooks
  <2>2. clean /\ \A q \in Proc : pc[q] = "idle"
    BY <2>1 DEF Begin, NobodyElse, Busy
  <2>3. Books BY <2>2 DEF CleanBooks, Settled, Clearing
  <2>4. Books' BY <2>1, <2>3 DEF Begin, files, Books, Whole
  <2>5. /\ pc' = [pc EXCEPT ![p] = step] /\ alone' = [q \in Proc |-> q = p /\ NobodyElse(p)]
        /\ NobodyElse(p)
    BY <2>1 DEF Begin, Goto
  <2>6. \A q \in Proc : (Busy(q)' => alone'[q]) /\ ~Carried(q)'
    BY <1>1, <2>2, <2>5 DEF Busy, Carried
  <2> QED BY <2>4, <2>6 DEF CleanBooks
<1>4. ASSUME NEW p \in Proc, Interrupt(p) PROVE CleanBooks'
  BY <1>4 DEF Interrupt, CleanBooks
<1>5. ASSUME NEW p \in Proc, Step(p) PROVE CleanBooks'
  <2>1. CASE Load(p)
    BY <1>1, <2>1, CleanAside DEF Load, Goto, files, history, Busy, Settled, Clearing, Carried
  <2>2. CASE Reject(p) \/ ReplaceFails(p) \/ CallFails(p)
    BY <1>1, <2>2, CleanAside DEF Reject, ReplaceFails, CallFails, End, Goto, files, history,
       Busy, Settled, Clearing, Carried
  <2>3. CASE ReadForSwitch(p) \/ ReadForReset(p)
    BY <1>1, <2>3, CleanAside DEF ReadForSwitch, ReadForReset, Goto, files, history,
       Busy, Settled, Clearing, Carried
  <2>4. CASE ReadForRecord(p)
    <3>1. /\ pc[p] = "read" /\ pc' = [pc EXCEPT ![p] = "open"] /\ copy'[p] = Charge(live, tokens[p])
          /\ UNCHANGED <<live, snapshot, events, alone, clean, tokens>>
      BY <1>1, <2>4 DEF ReadForRecord, Goto, files
    <3>2. Busy(p) /\ Settled(p) BY <3>1 DEF Busy, Settled, Clearing
    <3>3. ASSUME clean PROVE Owed(p)'
      <4>1. \A q \in Proc \ {p} : pc[q] = "idle"
        BY <3>2, <3>3 DEF CleanBooks, Undisturbed, Alone, Busy
      <4>2. Books BY <3>2, <3>3, <4>1 DEF CleanBooks, Settled, Clearing
      <4> QED BY <1>1, <3>1, <4>2, ChargeOwes DEF Owed
    <3> QED BY <1>1, <3>1, <3>2, <3>3, CleanAside
  <2>5. CASE OpenTemp(p)
    BY <1>1, <2>5, CleanAside DEF OpenTemp, Goto, Busy, Settled, Clearing, Carried, Owed, CleanBooks
  <2>6. CASE WriteTemp(p)
    <3> SUFFICES ASSUME clean PROVE CleanBooks' BY <2>6 DEF CleanBooks, WriteTemp, history
    <3>1. pc[p] = "write" BY <2>6 DEF WriteTemp
    <3>2. handle[p] = "temp" BY <3>1 DEF CleanBooks, Undisturbed, Alone, Busy
    <3> QED BY <1>1, <2>6, <3>2, CleanAside
            DEF WriteTemp, Goto, history, Busy, Settled, Clearing, Carried, Owed, CleanBooks
  <2>7. CASE Replace(p)
    <3> SUFFICES ASSUME clean' PROVE CleanBooks' BY DEF CleanBooks
    <3>1. /\ pc[p] = "replace" /\ clean /\ task[p] # "switch"
          /\ pc' = [pc EXCEPT ![p] = AfterReplace(p)]
          /\ UNCHANGED <<events, task, copy, tokens, alone>>
      BY <2>7 DEF Replace, Goto
    <3>2. pc'[p] = "snapshot" BY <1>1, <3>1 DEF AfterReplace
    <3>3. ~Settled(p)' BY <3>2 DEF Settled
    <3>4. Alone(p) /\ \A q \in Proc \ {p} : pc[q] = "idle"
      BY <3>1 DEF CleanBooks, Undisturbed, Alone, Busy
    <3>5. \A q \in Proc \ {p} : ~Busy(q)' /\ ~Carried(q)'
      BY <1>1, <3>1, <3>4 DEF Busy, Carried
    <3>6. Carried(p)' => Owed(p)' BY <1>1, <3>1 DEF Carried, Owed, CleanBooks
    <3> QED BY <3>1, <3>3, <3>4, <3>5, <3>6 DEF CleanBooks, Alone
  <2>8. ASSUME NEW t \in TokenCounts, Answer(p, t) PROVE CleanBooks'
    BY <1>1, <2>8, CleanAside DEF Answer, Goto, files, Busy, Settled, Clearing, Carried
  <2>9. CASE WriteSnapshot(p)
    <3> SUFFICES ASSUME clean' PROVE CleanBooks' BY DEF CleanBooks
    <3>1. /\ pc[p] = "snapshot" /\ clean /\ cmd[p] # "resetActive"
          /\ pc' = [pc EXCEPT ![p] = IF task[p] = "record" THEN "event"
                                     ELSE IF cmd[p] = "resetAll" THEN "purge" ELSE "idle"]
          /\ UNCHANGED <<events, task, copy, tokens, alone, cmd>>
      BY <2>9 DEF WriteSnapshot, Goto
    <3>2. task[p] = "record" \/ cmd[p] = "resetAll"
      BY <1>1, <3>1 DEF Purposeful, Busy, Tasks
    <3>3. ~Settled(p)' BY <1>1, <3>1, <3>2 DEF Settled, Clearing
    <3>4. Alone(p) /\ \A q \in Proc \ {p} : pc[q] = "idle"
      BY <3>1 DEF CleanBooks, Undisturbed, Alone, Busy
    <3>5. \A q \in Proc \ {p} : ~Busy(q)' /\ ~Carried(q)'
      BY <1>1, <3>1, <3>4 DEF Busy, Carried
    <3>6. Carried(p)' => Owed(p)' BY <1>1, <3>1 DEF Carried, Owed, CleanBooks
    <3> QED BY <3>1, <3>3, <3>4, <3>5, <3>6 DEF CleanBooks, Alone
  <2>10. CASE InsertEvent(p)
    <3> SUFFICES ASSUME clean' PROVE CleanBooks' BY DEF CleanBooks
    <3>1. /\ pc[p] = "event" /\ clean /\ pc' = [pc EXCEPT ![p] = "idle"]
          /\ events' = events \cup {EventOf(p)}
          /\ UNCHANGED <<live, snapshot, task, copy, tokens, alone>>
      BY <2>10 DEF InsertEvent, End, Goto, history
    <3>2. task[p] = "record" BY <3>1 DEF Control
    <3>3. Alone(p) /\ \A q \in Proc \ {p} : pc[q] = "idle"
      BY <3>1 DEF CleanBooks, Undisturbed, Alone, Busy
    <3>4. \A q \in Proc : ~Busy(q)' /\ ~Carried(q)' BY <1>1, <3>1, <3>3 DEF Busy, Carried
    <3>5. live = copy[p] /\ snapshot = copy[p] BY <3>1, <3>3 DEF Written
    <3>6. Owed(p) BY <3>1, <3>2 DEF CleanBooks, Carried
    <3>7. EventOf(p) \in Event
      <4>1. copy[p].active \in Profile /\ named[p] \in Profile BY <1>1 DEF Config, TypeInv, TypeOK
      <4>2. Cost(copy[p].active, tokens[p]) \in Nat \cup {Unknown} BY <1>1, <4>1, CostType
      <4> QED BY <1>1, <4>1, <4>2 DEF EventOf, Event
    <3>8. EventOf(p) \notin events
      <4>1. Recording(p) BY <3>1, <3>2 DEF Recording, Busy
      <4> QED BY <4>1 DEF Conserved, Numbered, EventOf
    <3>9. /\ TokensOf(events') = TokensOf(events) + tokens[p]
          /\ CostOf(events') = AddCost(CostOf(events), Cost(copy[p].active, tokens[p]))
      <4>1. EventOf(p).tokens = tokens[p] /\ EventOf(p).cost = Cost(copy[p].active, tokens[p])
        BY DEF EventOf
      <4> QED BY <1>1, <3>1, <3>7, <3>8, <4>1, TokensAdd, CostAdds
    <3>10. Books'
      <4>1. copy[p] \in Config /\ snapshot # Absent BY <1>1, <3>5, FileAssumption
      <4>2. events' # {} BY <3>1
      <4> QED BY <3>1, <3>5, <3>6, <3>9, <4>1, <4>2 DEF Books, Owed, Whole
    <3> QED BY <3>4, <3>10 DEF CleanBooks
  <2>11. CASE PurgeStore(p)
    <3> SUFFICES ASSUME clean' PROVE CleanBooks' BY DEF CleanBooks
    <3>1. /\ pc[p] = "purge" /\ cmd[p] = "resetAll" /\ alone[p] /\ events' = {}
          /\ pc' = [pc EXCEPT ![p] = "idle"] /\ UNCHANGED <<live, snapshot, task>>
      BY <2>11 DEF PurgeStore, End, Goto
    <3>2. Alone(p) /\ task[p] = "reset" /\ \A q \in Proc \ {p} : pc[q] = "idle"
      BY <3>1 DEF Undisturbed, Purposeful, Alone, Busy
    <3>3. live = copy[p] /\ snapshot = copy[p] /\ copy[p] = Fresh(copy[p].active)
      BY <3>1, <3>2 DEF Written, Clearing
    <3>4. copy[p] \in Config /\ copy[p].active \in Profile BY <1>1 DEF Config
    <3>5. copy[p].total = 0 BY <3>3, <3>4, FreshType
    <3>6. TokensOf(events') = 0 BY <3>1, NoRows
    <3>7. Books' BY <3>1, <3>3, <3>4, <3>5, <3>6, FileAssumption DEF Books, Whole
    <3>8. \A q \in Proc : ~Busy(q)' /\ ~Carried(q)' BY <1>1, <3>1, <3>2 DEF Busy, Carried
    <3> QED BY <3>7, <3>8 DEF CleanBooks
  <2> QED BY <1>5, <2>1, <2>2, <2>3, <2>4, <2>5, <2>6, <2>7, <2>8, <2>9, <2>10, <2>11 DEF Step
<1> QED BY <1>2, <1>3, <1>4, <1>5 DEF Next, Crash, Fails

\* The counters, the snapshot and the database tell the same tokens and the same cost
\* when nothing runs, as long as every command since they were emptied together ran
\* alone to its end and emptied none of them.
THEOREM BooksAgree == Spec => []ThreeBooksAgree
<1>1. TypeInv /\ CleanBooks => ThreeBooksAgree
  <2> SUFFICES ASSUME CleanBooks, clean, \A p \in Proc : ~Busy(p)
               PROVE  /\ live.total = EventTokens
                      /\ events # {} => live.cost = EventCost
                      /\ IF snapshot = Absent THEN events = {} ELSE snapshot = live
    BY DEF ThreeBooksAgree
  <2>1. Books BY DEF CleanBooks, Busy, Settled, Clearing
  <2>2. EventTokens = TokensOf(events) /\ EventCost = CostOf(events)
    BY DEF EventTokens, EventCost, TokensOf, CostOf
  <2> QED BY <2>1, <2>2 DEF Books
<1> QED BY TypeInit, TypeStep, ControlInit, ControlStep, OneRewriterInit, OneRewriterStep,
           UndisturbedInit, UndisturbedStep, ConservedInit, ConservedStep, PurposefulInit,
           PurposefulStep, WrittenInit, WrittenStep, CleanBooksInit, CleanBooksStep, <1>1,
           PTL DEF Spec

---------------------------------------------------------------------------
\* The usage database.  A row has a number of tokens, and a cost unless it is unknown.
LEMMA RowType ==
  ASSUME NEW e \in UsageEvent
  PROVE  /\ e.tokens \in Nat /\ e.cost \in Nat \cup {Unknown} /\ e.id \in Nat /\ e.time \in Nat
         /\ e.session \in Session
         /\ DailyKey(e) \in {DayOf[t] : t \in Time} \X Owner
         /\ ModelOwner(e) \in Model \X Owner
         /\ e.agent \in Agent \cup {NoAgent}
BY StoreAssumption, UsageAssumption DEF UsageEvent, DailyKey, ModelOwner

\* What rows add up to.
LEMMA AggregateSums ==
  ASSUME NEW rows \in SUBSET UsageEvent, IsFiniteSet(rows)
  PROVE  /\ Aggregate(rows).count = Cardinality(rows)
         /\ Aggregate(rows).count \in Nat
         /\ Aggregate(rows).tokens = SumFunctionOnSet([e \in rows |-> e.tokens], rows)
         /\ Aggregate(rows).tokens \in Nat
         /\ Aggregate(rows).cost =
              IF rows = {} \/ \E e \in rows : e.cost = Unknown THEN Unknown
              ELSE SumFunctionOnSet([e \in rows |-> e.cost], rows)
         /\ Aggregate(rows).cost \in Nat \cup {Unknown}
         /\ Aggregate(rows) \in Totals
<1> DEFINE tokensOf == [e \in rows |-> e.tokens]
           costOf == [e \in rows |-> e.cost]
<1>1. Cardinality(rows) \in Nat BY FS_CardinalityType
<1>2. SumFunction(tokensOf) = SumFunctionOnSet(tokensOf, rows) BY DEF SumFunction
<1>3. SumFunction(costOf) = SumFunctionOnSet(costOf, rows) BY DEF SumFunction
<1>4. \A e \in rows : tokensOf[e] \in Nat /\ costOf[e] \in Nat \cup {Unknown}
                      /\ costOf[e] = e.cost
  BY RowType
<1>5. Aggregate(rows) =
        [count |-> Cardinality(rows), tokens |-> SumFunction(tokensOf),
         cost |-> IF rows = {} \/ \E e \in rows : e.cost = Unknown THEN Unknown
                  ELSE SumFunction(costOf)]
  BY DEF Aggregate
<1> SUFFICES /\ Aggregate(rows).count = Cardinality(rows)
             /\ Aggregate(rows).count \in Nat
             /\ Aggregate(rows).tokens = SumFunctionOnSet(tokensOf, rows)
             /\ Aggregate(rows).tokens \in Nat
             /\ Aggregate(rows).cost =
                  IF rows = {} \/ \E e \in rows : e.cost = Unknown THEN Unknown
                  ELSE SumFunctionOnSet(costOf, rows)
             /\ Aggregate(rows).cost \in Nat \cup {Unknown}
             /\ Aggregate(rows) \in Totals
  OBVIOUS
<1> HIDE DEF tokensOf, costOf
<1>6. SumFunctionOnSet(tokensOf, rows) \in Nat BY <1>4, SumType
<1>7. ASSUME ~\E e \in rows : e.cost = Unknown
      PROVE  SumFunctionOnSet(costOf, rows) \in Nat
  <2>1. \A e \in rows : costOf[e] \in Nat BY <1>4, <1>7
  <2> QED BY <2>1, SumType
<1> QED BY <1>1, <1>2, <1>3, <1>5, <1>6, <1>7 DEF Totals

\* The totals of a group of rows, which are zero without rows.
TotalOf(rows) == IF rows = {} THEN Ledger!Nothing ELSE Aggregate(rows)

LEMMA TotalOfNone == TotalOf({}) = Ledger!Nothing
BY DEF TotalOf

\* One more row is added to the totals of its group.
LEMMA TotalAdds ==
  ASSUME NEW rows \in SUBSET UsageEvent, IsFiniteSet(rows), NEW e \in UsageEvent, e \notin rows
  PROVE  TotalOf(rows \cup {e}) = Ledger!Plus(TotalOf(rows), e.tokens, e.cost)
<1> DEFINE more == rows \cup {e}
           t == [x \in more |-> x.tokens]
           c == [x \in more |-> x.cost]
<1>1. IsFiniteSet(more) /\ Cardinality(more) = Cardinality(rows) + 1 /\ more \in SUBSET UsageEvent
  BY FS_AddElement
<1>2. Cardinality(rows) \in Nat BY FS_CardinalityType
<1>3. \A x \in more : t[x] = x.tokens /\ t[x] \in Nat /\ c[x] = x.cost
                      /\ c[x] \in Nat \cup {Unknown}
  BY <1>1, RowType
<1>4. /\ Aggregate(more).tokens = SumFunctionOnSet(t, more)
      /\ Aggregate(more).count = Cardinality(more)
      /\ Aggregate(more).cost = IF \E x \in more : x.cost = Unknown THEN Unknown
                                ELSE SumFunctionOnSet(c, more)
  <2>1. more # {} OBVIOUS
  <2> QED BY <1>1, <2>1, AggregateSums
<1>5. Aggregate(more) = [count |-> Aggregate(more).count, tokens |-> Aggregate(more).tokens,
                         cost |-> Aggregate(more).cost]
  BY DEF Aggregate
<1>6. SumFunctionOnSet(t, more) = SumFunctionOnSet(t, rows) + e.tokens
  <2>1. e \in more /\ \A x \in rows \cup {e} : t[x] \in Nat BY <1>3
  <2>2. t[e] = e.tokens BY <1>3
  <2> HIDE DEF t
  <2> QED BY <2>1, <2>2, SumAdds
<1>7. SumFunctionOnSet(t, rows) = SumFunctionOnSet([x \in rows |-> x.tokens], rows)
  <2> DEFINE u == [x \in rows |-> x.tokens]
  <2>1. \A x \in rows : t[x] = u[x] /\ t[x] \in Nat BY <1>3
  <2> HIDE DEF t, u
  <2>2. SumFunctionOnSet(t, rows) = SumFunctionOnSet(u, rows) BY <2>1, SumSame
  <2> QED BY <2>2 DEF u
<1>8. ASSUME \A x \in more : x.cost # Unknown
      PROVE  /\ SumFunctionOnSet(c, more) = SumFunctionOnSet(c, rows) + e.cost
             /\ SumFunctionOnSet(c, rows) = SumFunctionOnSet([x \in rows |-> x.cost], rows)
  <2> DEFINE d == [x \in rows |-> x.cost]
  <2>1. \A x \in rows \cup {e} : c[x] \in Nat BY <1>3, <1>8
  <2>2. c[e] = e.cost BY <1>3
  <2>3. \A x \in rows : c[x] = d[x] /\ c[x] \in Nat BY <1>3, <2>1
  <2> HIDE DEF c, d
  <2>4. SumFunctionOnSet(c, rows \cup {e}) = SumFunctionOnSet(c, rows) + e.cost
    BY <2>1, <2>2, SumAdds
  <2>5. SumFunctionOnSet(c, rows) = SumFunctionOnSet(d, rows) BY <2>3, SumSame
  <2> QED BY <2>4, <2>5 DEF d
<1> SUFFICES TotalOf(more) = Ledger!Plus(TotalOf(rows), e.tokens, e.cost) OBVIOUS
<1>9. CASE rows = {}
  <2>1. SumFunctionOnSet(t, rows) = 0 /\ SumFunctionOnSet(c, rows) = 0
    <3> HIDE DEF t, c
    <3> QED BY <1>9, SumOfNone
  <2>2. Cardinality(rows) = 0 BY <1>9, FS_EmptySet
  <2>3. TotalOf(more) = Aggregate(more) /\ TotalOf(rows) = Ledger!Nothing
    BY <1>9 DEF TotalOf
  <2>4. e.tokens \in Nat /\ e.cost \in Nat \cup {Unknown} BY RowType
  <2>5. \A x \in more : x = e BY <1>9
  <2>6. Aggregate(more).count = 1 /\ Aggregate(more).tokens = e.tokens
    BY <1>1, <1>4, <1>6, <2>1, <2>2, <2>4
  <2>7. Aggregate(more).cost = e.cost
    <3>1. CASE e.cost = Unknown BY <1>4, <3>1
    <3>2. CASE e.cost # Unknown
      <4>1. SumFunctionOnSet(c, more) = 0 + e.cost BY <1>8, <2>1, <2>5, <3>2
      <4> HIDE DEF c, more
      <4> QED BY <1>4, <2>4, <2>5, <3>2, <4>1
    <3> QED BY <3>1, <3>2
  <2> HIDE DEF more
  <2>8. Ledger!Plus(Ledger!Nothing, e.tokens, e.cost) =
          [count |-> 1, tokens |-> e.tokens, cost |-> e.cost]
    BY <2>4, UsageAssumption DEF Ledger!Plus, Ledger!Nothing
  <2> QED BY <1>5, <2>3, <2>6, <2>7, <2>8
<1>10. CASE rows # {}
  <2>1. /\ TotalOf(more) = Aggregate(more) /\ TotalOf(rows) = Aggregate(rows)
    BY <1>10 DEF TotalOf
  <2>2. /\ Aggregate(rows).count = Cardinality(rows)
        /\ Aggregate(rows).tokens = SumFunctionOnSet([x \in rows |-> x.tokens], rows)
        /\ Aggregate(rows).cost =
             IF \E x \in rows : x.cost = Unknown THEN Unknown
             ELSE SumFunctionOnSet([x \in rows |-> x.cost], rows)
    BY <1>10, AggregateSums
  <2>3. Aggregate(rows).cost \in Nat \cup {Unknown} BY AggregateSums
  <2>4. Aggregate(more).count = Aggregate(rows).count + 1 BY <1>1, <1>4, <2>2
  <2>5. Aggregate(more).tokens = Aggregate(rows).tokens + e.tokens
    BY <1>4, <1>6, <1>7, <2>2
  <2>6. Aggregate(more).cost =
          IF Aggregate(rows).cost = Unknown \/ e.cost = Unknown THEN Unknown
          ELSE Aggregate(rows).cost + e.cost
    <3>1. CASE \E x \in more : x.cost = Unknown
      <4>1. Aggregate(rows).cost = Unknown \/ e.cost = Unknown BY <2>2, <3>1
      <4> QED BY <1>4, <3>1, <4>1
    <3>2. CASE \A x \in more : x.cost # Unknown
      <4>1. \A x \in rows : x.cost # Unknown /\ e.cost # Unknown BY <3>2
      <4>2. Aggregate(rows).cost = SumFunctionOnSet(c, rows) BY <1>8, <2>2, <3>2
      <4>3. Aggregate(rows).cost # Unknown
        <5>1. \A x \in rows : c[x] \in Nat BY <1>3, <4>1
        <5>2. SumFunctionOnSet(c, rows) \in Nat
          <6> HIDE DEF c
          <6> QED BY <5>1, SumType
        <5> QED BY <4>2, <5>2, UsageAssumption
      <4>4. Aggregate(more).cost = SumFunctionOnSet(c, rows) + e.cost BY <1>4, <1>8, <3>2
      <4>5. e.cost # Unknown BY <3>2
      <4> HIDE DEF c, more
      <4> QED BY <4>2, <4>3, <4>4, <4>5
    <3> QED BY <3>1, <3>2
  <2> HIDE DEF more
  <2> QED BY <1>5, <2>1, <2>4, <2>5, <2>6 DEF Ledger!Plus
<1> QED BY <1>9, <1>10

\* The rows of a day and owner, of a model and owner, and of an agent.
OfDay(rows, k) == {e \in rows : DailyKey(e) = k}
OfModel(rows, k) == {e \in rows : ModelOwner(e) = k}
OfAgent(rows, k) == {e \in rows : e.agent = k}

DayKeys == {DayOf[t] : t \in Time} \X Owner
ModelKeys == Model \X Owner

\* A summary table holds the totals of its groups, and nothing for the other keys.
LEMMA DailyHolds ==
  ASSUME NEW rows
  PROVE  Held(DailyOf(rows), DayKeys) = [k \in DayKeys |-> TotalOf(OfDay(rows, k))]
<1>1. DailyOf(rows) = [k \in {DailyKey(e) : e \in rows} |-> Aggregate(OfDay(rows, k))]
  BY DEF DailyOf, GroupBy, OfDay
<1>2. ASSUME NEW k PROVE k \in {DailyKey(e) : e \in rows} <=> OfDay(rows, k) # {}
  BY DEF OfDay
<1> QED BY <1>1, <1>2 DEF Held, TotalOf, Ledger!Nothing

LEMMA ModelsHold ==
  ASSUME NEW rows
  PROVE  Held(ModelsOf(rows), ModelKeys) = [k \in ModelKeys |-> TotalOf(OfModel(rows, k))]
<1>1. ModelsOf(rows) = [k \in {ModelOwner(e) : e \in rows} |-> Aggregate(OfModel(rows, k))]
  BY DEF ModelsOf, GroupBy, OfModel
<1>2. ASSUME NEW k PROVE k \in {ModelOwner(e) : e \in rows} <=> OfModel(rows, k) # {}
  BY DEF OfModel
<1> QED BY <1>1, <1>2 DEF Held, TotalOf, Ledger!Nothing

LEMMA AgentsHold ==
  ASSUME NEW rows
  PROVE  Held(AgentsOf(rows), Agent) = [k \in Agent |-> TotalOf(OfAgent(rows, k))]
<1> DEFINE some == {e \in rows : e.agent # NoAgent}
<1>1. AgentsOf(rows) = [k \in {e.agent : e \in some} |-> Aggregate({e \in some : e.agent = k})]
  BY DEF AgentsOf, GroupBy
<1>2. ASSUME NEW k \in Agent
      PROVE  /\ {e \in some : e.agent = k} = OfAgent(rows, k)
             /\ k \in {e.agent : e \in some} <=> OfAgent(rows, k) # {}
  BY StoreAssumption DEF OfAgent
<1> HIDE DEF some
<1>3. ASSUME NEW k \in Agent
      PROVE  Held(AgentsOf(rows), Agent)[k] = TotalOf(OfAgent(rows, k))
  BY <1>1, <1>2 DEF Held, TotalOf, Ledger!Nothing
<1> QED BY <1>3 DEF Held

\* A new row is added to the totals of its day, of its model and of its agent.
LEMMA GroupAdds ==
  ASSUME NEW rows \in SUBSET UsageEvent, IsFiniteSet(rows), NEW e \in UsageEvent, e \notin rows
  PROVE  /\ \A k \in DayKeys :
              TotalOf(OfDay(rows \cup {e}, k)) =
                IF k = DailyKey(e) THEN Ledger!Plus(TotalOf(OfDay(rows, k)), e.tokens, e.cost)
                                   ELSE TotalOf(OfDay(rows, k))
         /\ \A k \in ModelKeys :
              TotalOf(OfModel(rows \cup {e}, k)) =
                IF k = ModelOwner(e) THEN Ledger!Plus(TotalOf(OfModel(rows, k)), e.tokens, e.cost)
                                     ELSE TotalOf(OfModel(rows, k))
         /\ \A k \in Agent :
              TotalOf(OfAgent(rows \cup {e}, k)) =
                IF k = e.agent THEN Ledger!Plus(TotalOf(OfAgent(rows, k)), e.tokens, e.cost)
                               ELSE TotalOf(OfAgent(rows, k))
<1>1. ASSUME NEW group \in SUBSET rows
      PROVE  TotalOf(group \cup {e}) = Ledger!Plus(TotalOf(group), e.tokens, e.cost)
  <2>1. IsFiniteSet(group) BY FS_Subset
  <2>2. group \in SUBSET UsageEvent /\ e \notin group OBVIOUS
  <2> QED BY <2>1, <2>2, TotalAdds
<1>2. ASSUME NEW k \in DayKeys
      PROVE  TotalOf(OfDay(rows \cup {e}, k)) =
               IF k = DailyKey(e) THEN Ledger!Plus(TotalOf(OfDay(rows, k)), e.tokens, e.cost)
                                  ELSE TotalOf(OfDay(rows, k))
  <2>1. OfDay(rows, k) \in SUBSET rows BY DEF OfDay
  <2>2. OfDay(rows \cup {e}, k) =
          IF k = DailyKey(e) THEN OfDay(rows, k) \cup {e} ELSE OfDay(rows, k)
    BY DEF OfDay
  <2> QED BY <1>1, <2>1, <2>2
<1>3. ASSUME NEW k \in ModelKeys
      PROVE  TotalOf(OfModel(rows \cup {e}, k)) =
               IF k = ModelOwner(e) THEN Ledger!Plus(TotalOf(OfModel(rows, k)), e.tokens, e.cost)
                                    ELSE TotalOf(OfModel(rows, k))
  <2>1. OfModel(rows, k) \in SUBSET rows BY DEF OfModel
  <2>2. OfModel(rows \cup {e}, k) =
          IF k = ModelOwner(e) THEN OfModel(rows, k) \cup {e} ELSE OfModel(rows, k)
    BY DEF OfModel
  <2> QED BY <1>1, <2>1, <2>2
<1>4. ASSUME NEW k \in Agent
      PROVE  TotalOf(OfAgent(rows \cup {e}, k)) =
               IF k = e.agent THEN Ledger!Plus(TotalOf(OfAgent(rows, k)), e.tokens, e.cost)
                              ELSE TotalOf(OfAgent(rows, k))
  <2>1. OfAgent(rows, k) \in SUBSET rows BY DEF OfAgent
  <2>2. OfAgent(rows \cup {e}, k) =
          IF k = e.agent THEN OfAgent(rows, k) \cup {e} ELSE OfAgent(rows, k)
    BY DEF OfAgent
  <2> QED BY <1>1, <2>1, <2>2
<1> QED BY <1>2, <1>3, <1>4

---------------------------------------------------------------------------
\* The rows and the tables built from them.  Rows carry ids of their own, and there are
\* no more of them than were recorded.
StoreInv ==
  /\ usageEvents \in SUBSET UsageEvent
  /\ IsFiniteSet(usageEvents)
  /\ \A a, b \in usageEvents : a.id = b.id => a = b
  /\ recorded \in 0..MaxEvents
  /\ Cardinality(usageEvents) <= recorded
  /\ daily = DailyOf(usageEvents)
  /\ models = ModelsOf(usageEvents)
  /\ agents = AgentsOf(usageEvents)

LEMMA StoreInvInit == StoreInit => StoreInv
BY FS_EmptySet, StoreAssumption DEF StoreInit, StoreInv

\* A recorded event is a new row.
LEMMA RecordIsNew ==
  ASSUME StoreInv, NEW e \in UsageEvent, RecordEvent(e)
  PROVE  /\ e \notin usageEvents
         /\ usageEvents' = usageEvents \cup {e}
         /\ IsFiniteSet(usageEvents')
         /\ Cardinality(usageEvents') = Cardinality(usageEvents) + 1
         /\ Cardinality(usageEvents) \in Nat
<1>1. e \notin usageEvents /\ usageEvents' = usageEvents \cup {e} BY DEF RecordEvent
<1>2. IsFiniteSet(usageEvents) BY DEF StoreInv
<1> QED BY <1>1, <1>2, FS_AddElement, FS_CardinalityType

LEMMA StoreInvStep == StoreInv /\ [StoreNext]_storeVars => StoreInv'
<1> SUFFICES ASSUME StoreInv, [StoreNext]_storeVars PROVE StoreInv'
  OBVIOUS
<1>1. ASSUME UNCHANGED <<tables, recorded>> PROVE StoreInv'
  BY <1>1 DEF StoreInv, tables
<1>2. ASSUME NEW e \in UsageEvent, RecordEvent(e) PROVE StoreInv'
  <2>1. /\ IsFiniteSet(usageEvents') /\ Cardinality(usageEvents') = Cardinality(usageEvents) + 1
        /\ Cardinality(usageEvents) \in Nat /\ usageEvents' = usageEvents \cup {e}
    BY <1>2, RecordIsNew
  <2>2. recorded' \in 0..MaxEvents /\ Cardinality(usageEvents') <= recorded'
    BY <1>2, <2>1, StoreAssumption DEF RecordEvent, StoreInv
  <2>3. \A a, b \in usageEvents' : a.id = b.id => a = b
    BY <1>2, <2>1 DEF RecordEvent, StoreInv
  <2>4. usageEvents' \in SUBSET UsageEvent BY <2>1 DEF StoreInv
  <2>5. /\ daily' = DailyOf(usageEvents') /\ models' = ModelsOf(usageEvents')
        /\ agents' = AgentsOf(usageEvents')
    BY <1>2 DEF RecordEvent
  <2> QED BY <2>1, <2>2, <2>3, <2>4, <2>5 DEF StoreInv
<1>3. CASE Reset
  BY <1>3, FS_EmptySet DEF Reset, StoreInv
<1>4. CASE BeginExport
  BY <1>1, <1>4 DEF BeginExport
<1>5. ASSUME NEW part, NEW next, ExportPart(part, next) PROVE StoreInv'
  BY <1>1, <1>5 DEF ExportPart
<1>6. CASE UNCHANGED storeVars
  BY <1>1, <1>6 DEF storeVars
<1> QED BY <1>2, <1>3, <1>4, <1>5, <1>6 DEF StoreNext

\* The database implements the ledger of running totals: the tables rebuilt from all rows
\* change as if each event had been added to the totals it belongs to.
THEOREM StoreImplementsLedger == StoreSpec => ImplementsLedger
<1> DEFINE byDay == Held(daily, {DayOf[t] : t \in Time} \X Owner)
           byModel == Held(models, Model \X Owner)
           byAgent == Held(agents, Agent)
<1>1. ASSUME StoreInv
      PROVE  /\ byDay = [k \in DayKeys |-> TotalOf(OfDay(usageEvents, k))]
             /\ byModel = [k \in ModelKeys |-> TotalOf(OfModel(usageEvents, k))]
             /\ byAgent = [k \in Agent |-> TotalOf(OfAgent(usageEvents, k))]
  BY <1>1, DailyHolds, ModelsHold, AgentsHold DEF StoreInv, DayKeys, ModelKeys
<1>2. ASSUME StoreInv'
      PROVE  /\ byDay' = [k \in DayKeys |-> TotalOf(OfDay(usageEvents', k))]
             /\ byModel' = [k \in ModelKeys |-> TotalOf(OfModel(usageEvents', k))]
             /\ byAgent' = [k \in Agent |-> TotalOf(OfAgent(usageEvents', k))]
  <2>1. /\ daily' = DailyOf(usageEvents') /\ models' = ModelsOf(usageEvents')
        /\ agents' = AgentsOf(usageEvents')
    BY <1>2 DEF StoreInv
  <2>2. /\ byDay' = Held(daily', DayKeys) /\ byModel' = Held(models', ModelKeys)
        /\ byAgent' = Held(agents', Agent)
    BY DEF Held, DayKeys, ModelKeys
  <2> QED BY <2>1, <2>2, DailyHolds, ModelsHold, AgentsHold
<1>3. ASSUME NEW rows, rows = {}
      PROVE  /\ \A k : OfDay(rows, k) = {} /\ OfModel(rows, k) = {} /\ OfAgent(rows, k) = {}
  BY <1>3 DEF OfDay, OfModel, OfAgent
<1>4. StoreInit => Ledger!Init
  <2> SUFFICES ASSUME StoreInit PROVE Ledger!Init OBVIOUS
  <2>1. StoreInv /\ usageEvents = {} BY StoreInvInit DEF StoreInit
  <2> HIDE DEF byDay, byModel, byAgent
  <2>2. /\ byDay = [k \in DayKeys |-> Ledger!Nothing]
        /\ byModel = [k \in ModelKeys |-> Ledger!Nothing]
        /\ byAgent = [k \in Agent |-> Ledger!Nothing]
    BY <1>1, <1>3, <2>1, TotalOfNone
  <2> QED BY <2>2 DEF Ledger!Init, DayKeys, ModelKeys, byDay, byModel, byAgent
<1>5. StoreInv /\ StoreInv' /\ [StoreNext]_storeVars => [Ledger!Next]_<<byDay, byModel, byAgent>>
  <2> SUFFICES ASSUME StoreInv, StoreInv', [StoreNext]_storeVars
               PROVE  Ledger!Next \/ UNCHANGED <<byDay, byModel, byAgent>>
    OBVIOUS
  <2>1. ASSUME UNCHANGED tables PROVE UNCHANGED <<byDay, byModel, byAgent>>
    BY <2>1 DEF tables, Held
  <2>2. ASSUME NEW e \in UsageEvent, RecordEvent(e) PROVE Ledger!Next
    <3> DEFINE day == DailyKey(e)
               model == ModelOwner(e)
               agent == e.agent
    <3>1. /\ e \notin usageEvents /\ usageEvents' = usageEvents \cup {e}
          /\ usageEvents \in SUBSET UsageEvent /\ IsFiniteSet(usageEvents)
      BY <2>2, RecordIsNew DEF StoreInv
    <3>2. day \in DayKeys /\ model \in ModelKeys /\ agent \in Agent \cup {NoAgent}
      BY RowType DEF DayKeys, ModelKeys
    <3>3. e.tokens \in TokenCounts /\ e.cost \in Costs BY DEF UsageEvent
    <3>4. byDay[day].count < MaxEvents
      <4> DEFINE group == OfDay(usageEvents, day)
      <4>1. byDay[day] = TotalOf(group) BY <1>1, <3>2
      <4>2. group \in SUBSET usageEvents BY DEF OfDay
      <4>3. /\ IsFiniteSet(group) /\ Cardinality(group) <= Cardinality(usageEvents)
            /\ Cardinality(group) \in Nat /\ Cardinality(usageEvents) \in Nat
        BY <3>1, <4>2, FS_Subset, FS_CardinalityType
      <4>4. group \in SUBSET UsageEvent BY <3>1, <4>2
      <4> HIDE DEF group
      <4>5. TotalOf(group).count <= Cardinality(group)
        <5>1. CASE group = {}
          BY <4>3, <5>1 DEF TotalOf, Ledger!Nothing
        <5>2. CASE group # {}
          <6>1. Aggregate(group).count = Cardinality(group) BY <4>3, <4>4, AggregateSums
          <6> QED BY <4>3, <5>2, <6>1 DEF TotalOf
        <5> QED BY <5>1, <5>2
      <4>6. TotalOf(group).count \in Nat
        <5>1. CASE group = {}
          BY <5>1 DEF TotalOf, Ledger!Nothing
        <5>2. CASE group # {}
          <6>1. Aggregate(group).count \in Nat BY <4>3, <4>4, AggregateSums
          <6> QED BY <5>2, <6>1 DEF TotalOf
        <5> QED BY <5>1, <5>2
      <4>7. Cardinality(usageEvents) <= recorded /\ recorded < MaxEvents /\ recorded \in Nat
            /\ MaxEvents \in Nat
        BY <2>2, StoreAssumption DEF RecordEvent, StoreInv
      <4> QED BY <4>1, <4>3, <4>5, <4>6, <4>7
    <3>5. byDay' = [byDay EXCEPT ![day] = Ledger!Plus(@, e.tokens, e.cost)]
      <4>1. ASSUME NEW k \in DayKeys
            PROVE  byDay'[k] = IF k = day THEN Ledger!Plus(byDay[k], e.tokens, e.cost)
                                          ELSE byDay[k]
        <5>1. byDay[k] = TotalOf(OfDay(usageEvents, k)) BY <1>1
        <5>2. byDay'[k] = TotalOf(OfDay(usageEvents', k)) BY <1>2
        <5>3. TotalOf(OfDay(usageEvents \cup {e}, k)) =
                IF k = day THEN Ledger!Plus(TotalOf(OfDay(usageEvents, k)), e.tokens, e.cost)
                           ELSE TotalOf(OfDay(usageEvents, k))
          BY <3>1, GroupAdds
        <5> HIDE DEF byDay, day
        <5> QED BY <3>1, <5>1, <5>2, <5>3
      <4>2. byDay = [k \in DayKeys |-> byDay[k]] /\ byDay' = [k \in DayKeys |-> byDay'[k]]
        BY DEF Held, DayKeys
      <4> HIDE DEF byDay, day
      <4> QED BY <3>2, <4>1, <4>2
    <3>6. byModel' = [byModel EXCEPT ![model] = Ledger!Plus(@, e.tokens, e.cost)]
      <4>1. ASSUME NEW k \in ModelKeys
            PROVE  byModel'[k] = IF k = model THEN Ledger!Plus(byModel[k], e.tokens, e.cost)
                                              ELSE byModel[k]
        <5>1. byModel[k] = TotalOf(OfModel(usageEvents, k)) BY <1>1
        <5>2. byModel'[k] = TotalOf(OfModel(usageEvents', k)) BY <1>2
        <5>3. TotalOf(OfModel(usageEvents \cup {e}, k)) =
                IF k = model THEN Ledger!Plus(TotalOf(OfModel(usageEvents, k)), e.tokens, e.cost)
                             ELSE TotalOf(OfModel(usageEvents, k))
          BY <3>1, GroupAdds
        <5> HIDE DEF byModel, model
        <5> QED BY <3>1, <5>1, <5>2, <5>3
      <4>2. byModel = [k \in ModelKeys |-> byModel[k]]
            /\ byModel' = [k \in ModelKeys |-> byModel'[k]]
        BY DEF Held, ModelKeys
      <4> HIDE DEF byModel, model
      <4> QED BY <3>2, <4>1, <4>2
    <3>7. byAgent' = [k \in Agent |-> IF k = agent THEN Ledger!Plus(byAgent[k], e.tokens, e.cost)
                                                   ELSE byAgent[k]]
      <4>1. ASSUME NEW k \in Agent
            PROVE  byAgent'[k] = IF k = agent THEN Ledger!Plus(byAgent[k], e.tokens, e.cost)
                                              ELSE byAgent[k]
        <5>1. byAgent[k] = TotalOf(OfAgent(usageEvents, k)) BY <1>1
        <5>2. byAgent'[k] = TotalOf(OfAgent(usageEvents', k)) BY <1>2
        <5>3. TotalOf(OfAgent(usageEvents \cup {e}, k)) =
                IF k = agent THEN Ledger!Plus(TotalOf(OfAgent(usageEvents, k)), e.tokens, e.cost)
                             ELSE TotalOf(OfAgent(usageEvents, k))
          BY <3>1, GroupAdds
        <5> HIDE DEF byAgent, agent
        <5> QED BY <3>1, <5>1, <5>2, <5>3
      <4>2. byAgent' = [k \in Agent |-> byAgent'[k]] BY DEF Held
      <4> HIDE DEF byAgent, agent
      <4> QED BY <4>1, <4>2
    <3>8. Ledger!Record(day, model, agent, e.tokens, e.cost)
      BY <3>4, <3>5, <3>6, <3>7 DEF Ledger!Record
    <3> HIDE DEF day, model, agent, byDay, byModel, byAgent
    <3> QED BY <3>2, <3>3, <3>8 DEF Ledger!Next, DayKeys, ModelKeys
  <2>3. CASE Reset
    <3>1. usageEvents' = {} BY <2>3 DEF Reset
    <3>2. /\ byDay' = [k \in DayKeys |-> Ledger!Nothing]
          /\ byModel' = [k \in ModelKeys |-> Ledger!Nothing]
          /\ byAgent' = [k \in Agent |-> Ledger!Nothing]
      <4> HIDE DEF byDay, byModel, byAgent
      <4> QED BY <1>2, <1>3, <3>1, TotalOfNone
    <3>3. Ledger!Reset BY <3>2 DEF Ledger!Reset, DayKeys, ModelKeys
    <3> QED BY <3>3 DEF Ledger!Next
  <2>4. CASE BeginExport
    BY <2>1, <2>4 DEF BeginExport
  <2>5. ASSUME NEW part, NEW next, ExportPart(part, next)
        PROVE  UNCHANGED <<byDay, byModel, byAgent>>
    BY <2>1, <2>5 DEF ExportPart
  <2>6. CASE UNCHANGED storeVars
    BY <2>1, <2>6 DEF storeVars
  <2> QED BY <2>2, <2>3, <2>4, <2>5, <2>6 DEF StoreNext
<1> QED BY <1>4, <1>5, StoreInvInit, StoreInvStep, PTL
        DEF StoreSpec, ImplementsLedger, Ledger!Spec

---------------------------------------------------------------------------
\* The readers.

LEMMA ImageFinite ==
  ASSUME NEW S, IsFiniteSet(S), NEW f
  PROVE  IsFiniteSet({f[x] : x \in S})
<1> DEFINE T == {f[x] : x \in S}
           g == [x \in S |-> f[x]]
<1>1. g \in Surjection(S, T) BY DEF Surjection
<1> HIDE DEF T, g
<1>2. IsFiniteSet(T) BY <1>1, FS_Surjection
<1> QED BY <1>2 DEF T

\* Rows cut into groups with a row each.
Groups(G, K, rows) ==
  /\ G \in [K -> SUBSET rows]
  /\ \A k \in K : G[k] # {}
  /\ \A k, l \in K : G[k] \cap G[l] # {} => k = l
  /\ rows = UNION {G[k] : k \in K}

\* The groups add up to the rows, also for the cost, which one unknown cost makes unknown.
AddUp(G, K, rows) ==
  /\ Aggregate(rows).count = SumFunction([k \in K |-> Aggregate(G[k]).count])
  /\ Aggregate(rows).tokens = SumFunction([k \in K |-> Aggregate(G[k]).tokens])
  /\ Aggregate(rows).cost =
       IF K = {} \/ \E k \in K : Aggregate(G[k]).cost = Unknown THEN Unknown
       ELSE SumFunction([k \in K |-> Aggregate(G[k]).cost])

LEMMA GroupsAddUp ==
  ASSUME NEW rows \in SUBSET UsageEvent, IsFiniteSet(rows), NEW K, IsFiniteSet(K),
         NEW G, Groups(G, K, rows)
  PROVE  AddUp(G, K, rows)
<1> USE DEF Groups
<1> DEFINE one == [e \in rows |-> 1]
           tok == [e \in rows |-> e.tokens]
           cst == [e \in rows |-> e.cost]
           counts == [k \in K |-> Aggregate(G[k]).count]
           toks == [k \in K |-> Aggregate(G[k]).tokens]
           costs == [k \in K |-> Aggregate(G[k]).cost]
<1>1. \A e \in rows : one[e] = 1 /\ tok[e] = e.tokens /\ cst[e] = e.cost /\ e.tokens \in Nat
                      /\ e.cost \in Nat \cup {Unknown}
  BY RowType
<1>2. ASSUME NEW k \in K
      PROVE  IsFiniteSet(G[k]) /\ G[k] \in SUBSET rows /\ G[k] \in SUBSET UsageEvent
  <2>1. G[k] \in SUBSET rows OBVIOUS
  <2> QED BY <2>1, FS_Subset
<1>3. /\ SumFunction(counts) = SumFunctionOnSet(counts, K)
      /\ SumFunction(toks) = SumFunctionOnSet(toks, K)
      /\ SumFunction(costs) = SumFunctionOnSet(costs, K)
  BY DEF SumFunction
<1>4. ASSUME NEW k \in K PROVE counts[k] = SumFunctionOnSet(one, G[k])
  <2> DEFINE S == G[k]
             h == [e \in S |-> 1]
  <2>1. IsFiniteSet(S) /\ S \in SUBSET UsageEvent /\ S \in SUBSET rows BY <1>2
  <2>2. counts[k] = Aggregate(S).count OBVIOUS
  <2>3. \A e \in S : one[e] = h[e] /\ one[e] \in Nat BY <1>1, <2>1
  <2>4. SumFunctionOnSet(h, S) = Cardinality(S)
    <3> HIDE DEF S
    <3> QED BY <2>1, SumOfOnes
  <2> HIDE DEF S, h, one, counts
  <2>5. SumFunctionOnSet(one, S) = SumFunctionOnSet(h, S) BY <2>1, <2>3, SumSame
  <2>6. Aggregate(S).count = Cardinality(S) BY <2>1, AggregateSums
  <2> QED BY <2>2, <2>4, <2>5, <2>6 DEF S
<1>5. ASSUME NEW k \in K PROVE toks[k] = SumFunctionOnSet(tok, G[k])
  <2> DEFINE S == G[k]
             h == [e \in S |-> e.tokens]
  <2>1. IsFiniteSet(S) /\ S \in SUBSET UsageEvent /\ S \in SUBSET rows BY <1>2
  <2>2. toks[k] = Aggregate(S).tokens OBVIOUS
  <2>3. \A e \in S : tok[e] = h[e] /\ tok[e] \in Nat BY <1>1, <2>1
  <2>4. Aggregate(S).tokens = SumFunctionOnSet(h, S)
    <3> HIDE DEF S
    <3> QED BY <2>1, AggregateSums
  <2> HIDE DEF S, h, tok, toks
  <2>5. SumFunctionOnSet(tok, S) = SumFunctionOnSet(h, S) BY <2>1, <2>3, SumSame
  <2> QED BY <2>2, <2>4, <2>5 DEF S
<1>6. ASSUME NEW k \in K
      PROVE  /\ costs[k] = Unknown <=> \E e \in G[k] : e.cost = Unknown
             /\ costs[k] # Unknown => costs[k] = SumFunctionOnSet(cst, G[k])
  <2> DEFINE S == G[k]
             h == [e \in S |-> e.cost]
  <2>1. IsFiniteSet(S) /\ S \in SUBSET UsageEvent /\ S \in SUBSET rows /\ S # {} BY <1>2
  <2>2. costs[k] = Aggregate(S).cost OBVIOUS
  <2>3. \A e \in S : cst[e] = h[e] /\ h[e] = e.cost /\ e.cost \in Nat \cup {Unknown}
    BY <1>1, <2>1
  <2>4. Aggregate(S).cost = IF \E e \in S : e.cost = Unknown THEN Unknown
                            ELSE SumFunctionOnSet(h, S)
    <3> HIDE DEF S
    <3> QED BY <2>1, AggregateSums
  <2> HIDE DEF S, h, cst, costs
  <2>5. ASSUME ~\E e \in S : e.cost = Unknown
        PROVE  SumFunctionOnSet(cst, S) = SumFunctionOnSet(h, S) /\ SumFunctionOnSet(h, S) \in Nat
    <3>1. \A e \in S : cst[e] = h[e] /\ cst[e] \in Nat /\ h[e] \in Nat BY <2>3, <2>5
    <3> QED BY <2>1, <3>1, SumSame, SumType
  <2> QED BY <2>2, <2>4, <2>5, UsageAssumption DEF S
<1>7. SumFunction(counts) = Aggregate(rows).count
  <2>1. counts = [k \in K |-> SumFunctionOnSet(one, G[k])] BY <1>4
  <2>2. \A e \in rows : one[e] \in Nat BY <1>1
  <2>3. SumFunctionOnSet(one, rows) = Cardinality(rows) BY SumOfOnes
  <2>4. Aggregate(rows).count = Cardinality(rows) BY AggregateSums
  <2> HIDE DEF one, counts
  <2>5. SumFunctionOnSet(counts, K) = SumFunctionOnSet(one, rows)
    BY <2>1, <2>2, SumOfGroups
  <2> QED BY <1>3, <2>3, <2>4, <2>5
<1>8. SumFunction(toks) = Aggregate(rows).tokens
  <2>1. toks = [k \in K |-> SumFunctionOnSet(tok, G[k])] BY <1>5
  <2>2. \A e \in rows : tok[e] \in Nat BY <1>1
  <2>3. Aggregate(rows).tokens = SumFunctionOnSet(tok, rows) BY AggregateSums
  <2> HIDE DEF tok, toks
  <2>4. SumFunctionOnSet(toks, K) = SumFunctionOnSet(tok, rows)
    BY <2>1, <2>2, SumOfGroups
  <2> QED BY <1>3, <2>3, <2>4
<1>9. Aggregate(rows).cost =
        IF K = {} \/ \E k \in K : costs[k] = Unknown THEN Unknown ELSE SumFunction(costs)
  <2>1. K = {} <=> rows = {} OBVIOUS
  <2>2. (\E k \in K : costs[k] = Unknown) <=> \E e \in rows : e.cost = Unknown
    <3> HIDE DEF costs
    <3>1. ASSUME NEW k \in K, costs[k] = Unknown PROVE \E e \in rows : e.cost = Unknown
      <4>1. PICK e \in G[k] : e.cost = Unknown BY <1>6, <3>1
      <4>2. e \in rows BY <1>2, <4>1
      <4> QED BY <4>1, <4>2
    <3>2. ASSUME NEW e \in rows, e.cost = Unknown PROVE \E k \in K : costs[k] = Unknown
      <4>1. PICK k \in K : e \in G[k] BY DEF Groups
      <4> QED BY <1>6, <3>2, <4>1
    <3> QED BY <3>1, <3>2
  <2>3. Aggregate(rows).cost = IF rows = {} \/ \E e \in rows : e.cost = Unknown THEN Unknown
                               ELSE SumFunctionOnSet(cst, rows)
    BY AggregateSums
  <2>4. ASSUME ~\E k \in K : costs[k] = Unknown
        PROVE  SumFunctionOnSet(costs, K) = SumFunctionOnSet(cst, rows)
    <3>1. costs = [k \in K |-> SumFunctionOnSet(cst, G[k])]
      <4>1. \A k \in K : costs[k] = SumFunctionOnSet(cst, G[k]) BY <1>6, <2>4
      <4>2. costs = [k \in K |-> costs[k]] OBVIOUS
      <4> HIDE DEF costs, cst
      <4> QED BY <4>1, <4>2
    <3>2. \A e \in rows : cst[e] \in Nat BY <1>1, <2>2, <2>4
    <3> HIDE DEF cst, costs
    <3> QED BY <3>1, <3>2, SumOfGroups
  <2> HIDE DEF costs, cst
  <2> QED BY <1>3, <2>1, <2>2, <2>3, <2>4
<1> QED BY <1>7, <1>8, <1>9 DEF AddUp

\* Today's rows of the daily table add up to the day's rows.
LEMMA TodayAgrees ==
  ASSUME StoreInv, NEW day
  PROVE  TodaySummary(day) = Aggregate({e \in usageEvents : DayOf[e.time] = day})
<1> DEFINE keyOf == [e \in usageEvents |-> DailyKey(e)]
           keys == {k \in DOMAIN daily : k[1] = day}
           rows == {e \in usageEvents : DayOf[e.time] = day}
           G == [k \in keys |-> OfDay(usageEvents, k)]
<1>1. /\ daily = [k \in {DailyKey(e) : e \in usageEvents} |-> Aggregate(OfDay(usageEvents, k))]
      /\ usageEvents \in SUBSET UsageEvent /\ IsFiniteSet(usageEvents)
  BY DEF StoreInv, DailyOf, GroupBy, OfDay
<1>2. rows \in SUBSET UsageEvent /\ IsFiniteSet(rows)
  <2>1. rows \in SUBSET usageEvents OBVIOUS
  <2> HIDE DEF rows
  <2> QED BY <1>1, <2>1, FS_Subset
<1>3. IsFiniteSet(keys)
  <2>1. keys \in SUBSET {keyOf[e] : e \in usageEvents} BY <1>1
  <2> HIDE DEF keys, keyOf
  <2>2. IsFiniteSet({keyOf[e] : e \in usageEvents}) BY <1>1, ImageFinite
  <2> QED BY <2>1, <2>2, FS_Subset
<1>4. ASSUME NEW e \in usageEvents
      PROVE  DailyKey(e) \in keys <=> e \in rows
  BY <1>1 DEF DailyKey
<1>5. \A k \in keys : \E e \in usageEvents : k = DailyKey(e) BY <1>1
<1>6. Groups(G, keys, rows)
  <2> HIDE DEF keys, rows
  <2>1. ASSUME NEW k \in keys PROVE G[k] \in SUBSET rows /\ G[k] # {}
    BY <1>4, <1>5 DEF OfDay
  <2>2. \A k, l \in keys : G[k] \cap G[l] # {} => k = l BY DEF OfDay
  <2>3. rows \subseteq UNION {G[k] : k \in keys}
    <3>1. rows \in SUBSET usageEvents BY DEF rows
    <3> QED BY <1>4, <3>1 DEF OfDay
  <2> QED BY <2>1, <2>2, <2>3 DEF Groups
<1>7. \A k \in keys : daily[k] = Aggregate(G[k]) BY <1>1
<1>8. /\ [k \in keys |-> daily[k].count] = [k \in keys |-> Aggregate(G[k]).count]
      /\ [k \in keys |-> daily[k].tokens] = [k \in keys |-> Aggregate(G[k]).tokens]
      /\ [k \in keys |-> daily[k].cost] = [k \in keys |-> Aggregate(G[k]).cost]
  <2> HIDE DEF keys, G
  <2> QED BY <1>7
<1>9. TodaySummary(day) =
        [count |-> SumFunction([k \in keys |-> daily[k].count]),
         tokens |-> SumFunction([k \in keys |-> daily[k].tokens]),
         cost |-> IF keys = {} \/ \E k \in keys : daily[k].cost = Unknown THEN Unknown
                  ELSE SumFunction([k \in keys |-> daily[k].cost])]
  BY DEF TodaySummary
<1> SUFFICES TodaySummary(day) = Aggregate(rows) OBVIOUS
<1> HIDE DEF keys, rows, G
<1>10. AddUp(G, keys, rows)
  BY <1>2, <1>3, <1>6, GroupsAddUp
<1>11. Aggregate(rows) = [count |-> Aggregate(rows).count, tokens |-> Aggregate(rows).tokens,
                          cost |-> Aggregate(rows).cost]
  BY DEF Aggregate
<1>12. (\E k \in keys : daily[k].cost = Unknown)
         <=> \E k \in keys : Aggregate(G[k]).cost = Unknown
  BY <1>7
<1> QED BY <1>8, <1>9, <1>10, <1>11, <1>12 DEF AddUp

\* The sessions with rows add up to all rows.
LEMMA SessionsAgree ==
  ASSUME StoreInv
  PROVE  LET seen == {s \in Session : SessionSummary(s).count > 0} IN
         /\ SumFunction([s \in seen |-> SessionSummary(s).tokens]) = Summary.tokens
         /\ seen # {} =>
              Summary.cost = IF \E s \in seen : SessionSummary(s).cost = Unknown THEN Unknown
                             ELSE SumFunction([s \in seen |-> SessionSummary(s).cost])
         /\ seen # {} => usageEvents # {}
<1> DEFINE seen == {s \in Session : SessionSummary(s).count > 0}
           of(s) == {e \in usageEvents : e.session = s}
           sessionOf == [e \in usageEvents |-> e.session]
           G == [s \in seen |-> of(s)]
<1>1. usageEvents \in SUBSET UsageEvent /\ IsFiniteSet(usageEvents) BY DEF StoreInv
<1>2. ASSUME NEW s
      PROVE  /\ SessionSummary(s) = Aggregate(of(s))
             /\ SessionSummary(s).count > 0 <=> of(s) # {}
  <2>1. SessionSummary(s) = Aggregate(of(s)) BY DEF SessionSummary
  <2>2. of(s) \in SUBSET usageEvents OBVIOUS
  <2> HIDE DEF of
  <2>3. IsFiniteSet(of(s)) /\ of(s) \in SUBSET UsageEvent BY <1>1, <2>2, FS_Subset
  <2>4. Aggregate(of(s)).count = Cardinality(of(s)) BY <2>3, AggregateSums
  <2>5. Cardinality(of(s)) \in Nat /\ (Cardinality(of(s)) = 0 <=> of(s) = {})
    BY <2>3, FS_CardinalityType, FS_EmptySet
  <2> QED BY <2>1, <2>4, <2>5
<1>3. seen = {s \in Session : of(s) # {}} BY <1>2
<1> HIDE DEF seen
<1>4. IsFiniteSet(seen)
  <2>1. seen \in SUBSET {sessionOf[e] : e \in usageEvents} BY <1>3
  <2> HIDE DEF sessionOf
  <2>2. IsFiniteSet({sessionOf[e] : e \in usageEvents}) BY <1>1, ImageFinite
  <2> QED BY <2>1, <2>2, FS_Subset
<1>5. Groups(G, seen, usageEvents)
  <2>1. ASSUME NEW s \in seen PROVE G[s] \in SUBSET usageEvents /\ G[s] # {} BY <1>3
  <2>2. \A k, l \in seen : G[k] \cap G[l] # {} => k = l OBVIOUS
  <2>3. usageEvents \subseteq UNION {G[k] : k \in seen}
    <3>1. \A e \in usageEvents : e.session \in Session BY <1>1, RowType
    <3> QED BY <1>3, <3>1
  <2> QED BY <2>1, <2>2, <2>3 DEF Groups
<1>6. \A s \in seen : SessionSummary(s) = Aggregate(G[s]) BY <1>2
<1>7. seen # {} => usageEvents # {} BY <1>3
<1> HIDE DEF G
<1>8. AddUp(G, seen, usageEvents) BY <1>1, <1>4, <1>5, GroupsAddUp
<1>9. /\ [s \in seen |-> SessionSummary(s).tokens] = [s \in seen |-> Aggregate(G[s]).tokens]
      /\ [s \in seen |-> SessionSummary(s).cost] = [s \in seen |-> Aggregate(G[s]).cost]
  BY <1>6
<1>10. (\E s \in seen : SessionSummary(s).cost = Unknown)
         <=> \E s \in seen : Aggregate(G[s]).cost = Unknown
  BY <1>6
<1>11. /\ SumFunction([s \in seen |-> SessionSummary(s).tokens]) = Summary.tokens
       /\ seen # {} =>
            Summary.cost = IF \E s \in seen : SessionSummary(s).cost = Unknown THEN Unknown
                           ELSE SumFunction([s \in seen |-> SessionSummary(s).cost])
  BY <1>8, <1>9, <1>10 DEF AddUp, Summary
<1> QED BY <1>7, <1>11 DEF seen

\* The rows are ordered by time and id, so one of them is the newest.
LEMMA NewestExists ==
  ASSUME StoreInv, usageEvents # {}
  PROVE  \E e \in usageEvents : \A other \in usageEvents \ {e} : Newer(e, other)
<1> DEFINE Newest(e, T) == \A other \in T \ {e} : Newer(e, other)
           Good == {T \in SUBSET usageEvents : T # {} => \E e \in T : Newest(e, T)}
<1>1. \A e \in usageEvents : e.time \in Nat /\ e.id \in Nat BY RowType DEF StoreInv
<1>2. \A a, b \in usageEvents : a.id = b.id => a = b BY DEF StoreInv
<1>3. ASSUME NEW T \in SUBSET usageEvents, \A x \in T : T \ {x} \in Good, T # {}
      PROVE  \E e \in T : Newest(e, T)
  <2>1. PICK x \in T : TRUE BY <1>3
  <2>2. CASE T \ {x} = {} BY <2>1, <2>2
  <2>3. CASE T \ {x} # {}
    <3>1. PICK m \in T \ {x} : Newest(m, T \ {x}) BY <1>3, <2>1, <2>3
    <3>2. /\ m \in T /\ m # x /\ m.time \in Nat /\ m.id \in Nat /\ x.time \in Nat /\ x.id \in Nat
          /\ m.id # x.id
      BY <1>1, <1>2, <2>1, <3>1
    <3>3. Newer(m, x) \/ Newer(x, m) BY <3>2 DEF Newer
    <3>4. CASE Newer(m, x) BY <3>1, <3>2, <3>4
    <3>5. CASE Newer(x, m)
      <4>1. ASSUME NEW other \in T \ {x} PROVE Newer(x, other)
        <5>1. other = m \/ Newer(m, other) BY <3>1
        <5>2. other.time \in Nat /\ other.id \in Nat BY <1>1
        <5>3. ASSUME Newer(m, other) PROVE Newer(x, other)
          BY <3>2, <3>5, <5>2, <5>3 DEF Newer
        <5> QED BY <3>5, <5>1, <5>3
      <4> QED BY <2>1, <4>1
    <3> QED BY <3>3, <3>4, <3>5
  <2> QED BY <2>2, <2>3
<1>4. SUBSET usageEvents \subseteq Good
  <2>1. \A T \in SUBSET usageEvents : (\A x \in T : T \ {x} \in Good) => T \in Good BY <1>3
  <2>2. IsFiniteSet(usageEvents) BY DEF StoreInv
  <2> HIDE DEF Good
  <2> QED BY <2>1, <2>2, SubsetInduction
<1>5. usageEvents \in Good
  <2> HIDE DEF Good
  <2> QED BY <1>4
<1> QED BY <1>5

LEMMA LatestIsNewest ==
  ASSUME StoreInv, usageEvents # {}
  PROVE  \E e \in usageEvents : /\ e.session = LatestSession
                                /\ \A other \in usageEvents : other.time <= e.time
<1> DEFINE newest == CHOOSE e \in usageEvents :
                       \A other \in usageEvents \ {e} : Newer(e, other)
<1>1. newest \in usageEvents /\ \A other \in usageEvents \ {newest} : Newer(newest, other)
  BY NewestExists
<1>2. newest.session = LatestSession BY DEF LatestSession
<1> HIDE DEF newest
<1>3. \A e \in usageEvents : e.time \in Nat BY RowType DEF StoreInv
<1>4. ASSUME NEW other \in usageEvents PROVE other.time <= newest.time
  BY <1>1, <1>3 DEF Newer
<1> QED BY <1>1, <1>2, <1>4

\* Today's summary, the summaries of the sessions and the summary of everything tell the
\* same totals of the same rows, and the latest session is that of a latest row.
THEOREM ReadersTellTheSame == StoreSpec => []ReadersAgree
<1>1. ASSUME StoreInv PROVE ReadersAgree
  <2>1. \A t \in Time :
          TodaySummary(DayOf[t]) = Aggregate({e \in usageEvents : DayOf[e.time] = DayOf[t]})
    BY <1>1, TodayAgrees
  <2> QED BY <1>1, <2>1, SessionsAgree, LatestIsNewest DEF ReadersAgree
<1> QED BY <1>1, StoreInvInit, StoreInvStep, PTL DEF StoreSpec

---------------------------------------------------------------------------
\* The export.  What an undisturbed export has read so far is what the tables hold.
Unread == [part \in Parts \ {"done"} |-> NoTable]

ReadSoFar ==
  /\ reading \in Parts
  /\ undisturbed \in BOOLEAN
  /\ export = [part \in Parts \ {"done"} |-> export[part]]
  /\ undisturbed =>
       /\ reading \in {"daily", "models", "agents"} => export["events"] = usageEvents
       /\ reading \in {"models", "agents"} => export["daily"] = daily
       /\ reading = "agents" => export["models"] = models
       /\ reading = "done" =>
            \/ export = Unread
            \/ /\ export["events"] = usageEvents /\ export["daily"] = daily
               /\ export["models"] = models /\ export["agents"] = agents

LEMMA ReadSoFarInit == StoreInit => ReadSoFar
BY DEF StoreInit, ReadSoFar, Unread, Parts

LEMMA ReadSoFarStep == ReadSoFar /\ [StoreNext]_storeVars => ReadSoFar'
<1> SUFFICES ASSUME ReadSoFar, [StoreNext]_storeVars PROVE ReadSoFar'
  OBVIOUS
<1>1. ASSUME NEW e \in UsageEvent, RecordEvent(e) PROVE ReadSoFar'
  BY <1>1 DEF RecordEvent, ReadSoFar, Parts
<1>2. CASE Reset
  BY <1>2 DEF Reset, ReadSoFar, Parts
<1>3. CASE BeginExport
  BY <1>3 DEF BeginExport, ReadSoFar, Parts
<1>4. CASE ExportPart("events", "daily")
  <2>1. export' = [export EXCEPT !["events"] = usageEvents] BY <1>4 DEF ExportPart
  <2> QED BY <1>4, <2>1 DEF ExportPart, tables, ReadSoFar, Parts
<1>5. CASE ExportPart("daily", "models")
  <2>1. export' = [export EXCEPT !["daily"] = daily] BY <1>5 DEF ExportPart
  <2> QED BY <1>5, <2>1 DEF ExportPart, tables, ReadSoFar, Parts
<1>6. CASE ExportPart("models", "agents")
  <2>1. export' = [export EXCEPT !["models"] = models] BY <1>6 DEF ExportPart
  <2> QED BY <1>6, <2>1 DEF ExportPart, tables, ReadSoFar, Parts
<1>7. CASE ExportPart("agents", "done")
  <2>1. export' = [export EXCEPT !["agents"] = agents] BY <1>7 DEF ExportPart
  <2> QED BY <1>7, <2>1 DEF ExportPart, tables, ReadSoFar, Parts
<1>8. CASE UNCHANGED storeVars
  BY <1>8 DEF storeVars, tables, reader, ReadSoFar, Unread
<1> QED BY <1>1, <1>2, <1>3, <1>4, <1>5, <1>6, <1>7, <1>8 DEF StoreNext

\* An export during which nothing was committed has the summaries of its own events.
THEOREM ExportsCohere == StoreSpec => []ExportCoherent
<1>1. ASSUME StoreInv, ReadSoFar PROVE ExportCoherent
  BY <1>1 DEF StoreInv, ReadSoFar, ExportCoherent, Unread, Parts
<1> QED BY <1>1, StoreInvInit, StoreInvStep, ReadSoFarInit, ReadSoFarStep, PTL DEF StoreSpec

\* The tables keep their types: a row for no other keys than those of events, and
\* numbers in it, or the unknown cost.
THEOREM StoreTypeSafe == StoreSpec => []StoreTypeOK
<1>1. ASSUME StoreInv, ReadSoFar PROVE StoreTypeOK
  <2>1. ASSUME NEW group \in SUBSET usageEvents PROVE Aggregate(group) \in Totals
    <3>1. IsFiniteSet(group) /\ group \in SUBSET UsageEvent
      BY <1>1, FS_Subset DEF StoreInv
    <3> QED BY <3>1, AggregateSums
  <2>2. \A e \in usageEvents : /\ DailyKey(e) \in {DayOf[t] : t \in Time} \X Owner
                               /\ ModelOwner(e) \in Model \X Owner
                               /\ e.agent \in Agent \cup {NoAgent}
    BY <1>1, RowType DEF StoreInv
  <2>3. IsTable(daily, {DayOf[t] : t \in Time} \X Owner)
    <3>1. daily = [k \in {DailyKey(e) : e \in usageEvents} |-> Aggregate(OfDay(usageEvents, k))]
      BY <1>1 DEF StoreInv, DailyOf, GroupBy, OfDay
    <3>2. \A k : OfDay(usageEvents, k) \in SUBSET usageEvents BY DEF OfDay
    <3> QED BY <2>1, <2>2, <3>1, <3>2 DEF IsTable
  <2>4. IsTable(models, Model \X Owner)
    <3>1. models = [k \in {ModelOwner(e) : e \in usageEvents} |-> Aggregate(OfModel(usageEvents, k))]
      BY <1>1 DEF StoreInv, ModelsOf, GroupBy, OfModel
    <3>2. \A k : OfModel(usageEvents, k) \in SUBSET usageEvents BY DEF OfModel
    <3> QED BY <2>1, <2>2, <3>1, <3>2 DEF IsTable
  <2>5. IsTable(agents, Agent)
    <3> DEFINE some == {e \in usageEvents : e.agent # NoAgent}
               of(k) == {e \in some : e.agent = k}
    <3>1. agents = [k \in {e.agent : e \in some} |-> Aggregate(of(k))]
      BY <1>1 DEF StoreInv, AgentsOf, GroupBy
    <3>2. \A k : of(k) \in SUBSET usageEvents OBVIOUS
    <3>3. \A e \in some : e.agent \in Agent BY <2>2
    <3> HIDE DEF some, of
    <3> QED BY <2>1, <3>1, <3>2, <3>3 DEF IsTable
  <2> QED BY <1>1, <2>3, <2>4, <2>5 DEF StoreInv, ReadSoFar, StoreTypeOK
<1> QED BY <1>1, StoreInvInit, StoreInvStep, ReadSoFarInit, ReadSoFarStep, PTL DEF StoreSpec
=============================================================================
