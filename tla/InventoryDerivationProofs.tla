---------------------- MODULE InventoryDerivationProofs ----------------------
(***************************************************************************)
(* The proof that the published inventory of InventoryReconciliation       *)
(* follows its inputs.  First what Reach and the components it cuts amount *)
(* to, for any values; then why amending the last records by those of the  *)
(* components of the changed identities leaves none missed, however the    *)
(* rows of a component are linked; last why a claim has all the changed    *)
(* ones.                                                                   *)
(***************************************************************************)
EXTENDS InventoryReconciliationProofs, FiniteSetTheorems

-----------------------------------------------------------------------------
(* Reach is the least set with i in it that is closed under nearby.          *)

Step(nearby, S) == UNION {{k} \cup nearby[k] : k \in S}
Graph == [Items -> SUBSET Items]

(* The first n steps from i.                                                 *)
Steps(nearby, i, n) ==
  {g \in [0..n -> SUBSET Items] : g[0] = {i} /\ \A m \in 1..n : g[m] = Step(nearby, g[m - 1])}

LEMMA StepType ==
  ASSUME NEW nearby \in Graph, NEW S \in SUBSET Items
  PROVE  Step(nearby, S) \in SUBSET Items /\ S \subseteq Step(nearby, S)
BY DEF Step, Graph

LEMMA StepsExist ==
  ASSUME NEW nearby \in Graph, NEW i \in Items
  PROVE  \A n \in Nat : Steps(nearby, i, n) # {}
<1> DEFINE missing == {n \in Nat : Steps(nearby, i, n) = {}}
<1> SUFFICES ASSUME missing # {} PROVE FALSE
  OBVIOUS
<1>1. PICK n \in missing : \A m \in missing : n <= m
  <2>1. missing \subseteq Nat
    OBVIOUS
  <2> HIDE DEF missing
  <2> QED BY <2>1, LeastExists
<1>2. CASE n = 0
  <2> DEFINE g == [m \in 0..0 |-> {i}]
  <2>1. g \in Steps(nearby, i, 0)
    BY DEF Steps
  <2> QED BY <1>1, <1>2, <2>1
<1>3. CASE n # 0
  <2>1. n - 1 \in Nat /\ n - 1 \notin missing /\ n \in Nat
    BY <1>1, <1>3
  <2>2. PICK g : g \in Steps(nearby, i, n - 1)
    BY <2>1
  <2> DEFINE h == [m \in 0..n |-> IF m = n THEN Step(nearby, g[n - 1]) ELSE g[m]]
  <2>3. g \in [0..(n - 1) -> SUBSET Items] /\ g[0] = {i} /\ \A m \in 1..(n - 1) : g[m] = Step(nearby, g[m - 1])
    BY <2>2 DEF Steps
  <2>4. g[n - 1] \in SUBSET Items
    BY <2>1, <2>3
  <2>5. Step(nearby, g[n - 1]) \in SUBSET Items
    BY <2>4, StepType
  <2>6. h \in [0..n -> SUBSET Items]
    BY <2>1, <2>3, <2>5
  <2>7. h[0] = {i} /\ \A m \in 1..n : h[m] = Step(nearby, h[m - 1])
    <3>1. h[0] = {i}
      BY <1>3, <2>1, <2>3
    <3>2. ASSUME NEW m \in 1..n PROVE h[m] = Step(nearby, h[m - 1])
      <4>1. h[m - 1] = g[m - 1]
        BY <2>1
      <4>2. CASE m = n
        BY <2>1, <4>1, <4>2
      <4>3. CASE m # n
        BY <2>1, <2>3, <4>1, <4>3
      <4> QED BY <4>2, <4>3
    <3> QED BY <3>1, <3>2
  <2>8. h \in Steps(nearby, i, n)
    BY <2>6, <2>7 DEF Steps
  <2> QED BY <1>1, <2>8
<1> QED BY <1>2, <1>3

LEMMA StepsAgree ==
  ASSUME NEW nearby \in Graph, NEW i \in Items, NEW n \in Nat, NEW m \in Nat, n <= m,
         NEW g \in Steps(nearby, i, n), NEW h \in Steps(nearby, i, m)
  PROVE  \A k \in 0..n : g[k] = h[k]
<1> DEFINE apart == {k \in 0..n : g[k] # h[k]}
<1> SUFFICES ASSUME apart # {} PROVE FALSE
  OBVIOUS
<1>1. PICK k \in apart : \A q \in apart : k <= q
  <2>1. apart \subseteq Nat
    OBVIOUS
  <2> HIDE DEF apart
  <2> QED BY <2>1, LeastExists
<1>2. g[0] = h[0]
  BY DEF Steps
<1>3. k # 0 /\ k \in 1..n /\ k \in 1..m /\ k - 1 \in 0..n /\ k - 1 \notin apart
  BY <1>1, <1>2
<1>4. g[k - 1] = h[k - 1]
  BY <1>3
<1>5. g[k] = Step(nearby, g[k - 1]) /\ h[k] = Step(nearby, h[k - 1])
  BY <1>3 DEF Steps
<1> QED BY <1>1, <1>4, <1>5

(* Reach takes as many steps as there are other identities.                  *)
LEMMA ReachSteps ==
  ASSUME NEW nearby \in Graph, NEW i \in Items
  PROVE  \E f \in [Nat -> SUBSET Items] :
           /\ f[0] = {i} /\ \A n \in Nat : f[n + 1] = Step(nearby, f[n])
           /\ Reach(nearby, i) = f[Cardinality(Items) - 1]
<1> DEFINE path(n) == CHOOSE g : g \in Steps(nearby, i, n)
           F == [n \in Nat |-> path(n)[n]]
           Within(f) == f = [n \in Nat |-> IF n = 0 THEN {i} ELSE UNION {{k} \cup nearby[k] : k \in f[n - 1]}]
           W == CHOOSE f : Within(f)
<1>1. \A n \in Nat : path(n) \in Steps(nearby, i, n)
  BY StepsExist
<1> HIDE DEF path
<1>2. \A n \in Nat : F[n] = path(n)[n] /\ F[n] \in SUBSET Items
  BY <1>1 DEF Steps
<1>3. F[0] = {i}
  BY <1>1 DEF Steps
<1>4. ASSUME NEW n \in Nat PROVE F[n + 1] = Step(nearby, F[n])
  <2>1. path(n) \in Steps(nearby, i, n) /\ path(n + 1) \in Steps(nearby, i, n + 1)
    BY <1>1
  <2>2. path(n + 1)[n] = path(n)[n]
    <3> DEFINE g == path(n)
               h == path(n + 1)
               m == n + 1
    <3>1. m \in Nat /\ n <= m /\ n \in 0..n /\ g \in Steps(nearby, i, n) /\ h \in Steps(nearby, i, m)
      BY <2>1
    <3> HIDE DEF g, h, m
    <3>2. g[n] = h[n]
      BY <3>1, StepsAgree
    <3> QED BY <3>2 DEF g, h, m
  <2>3. path(n + 1)[n + 1] = Step(nearby, path(n + 1)[n])
    BY <2>1 DEF Steps
  <2> QED BY <1>2, <2>2, <2>3
<1> HIDE DEF F
<1>5. Within(F)
  <2>1. ASSUME NEW n \in Nat PROVE F[n] = IF n = 0 THEN {i} ELSE UNION {{k} \cup nearby[k] : k \in F[n - 1]}
    <3>1. CASE n = 0
      BY <1>3, <3>1
    <3>2. CASE n # 0
      <4>1. n - 1 \in Nat /\ (n - 1) + 1 = n
        BY <3>2
      <4>2. F[n] = Step(nearby, F[n - 1])
        BY <1>4, <4>1
      <4> QED BY <3>2, <4>2 DEF Step
    <3> QED BY <3>1, <3>2
  <2>2. F = [n \in Nat |-> F[n]]
    BY DEF F
  <2> QED BY <2>1, <2>2
<1>6. Within(W)
  BY <1>5
<1>7. Reach(nearby, i) = W[Cardinality(Items) - 1]
  BY DEF Reach
<1> HIDE DEF W
<1>8. /\ W = [n \in Nat |-> W[n]] /\ W[0] = {i}
      /\ \A n \in Nat : W[n + 1] = Step(nearby, W[n])
  <2>1. \A n \in Nat : W[n] = IF n = 0 THEN {i} ELSE UNION {{k} \cup nearby[k] : k \in W[n - 1]}
    BY <1>6
  <2>2. W = [n \in Nat |-> W[n]]
    BY <1>6
  <2> HIDE DEF Within
  <2>3. ASSUME NEW n \in Nat PROVE W[n + 1] = Step(nearby, W[n])
    <3>1. n + 1 \in Nat /\ n + 1 # 0 /\ (n + 1) - 1 = n
      OBVIOUS
    <3> QED BY <2>1, <3>1 DEF Step
  <2> QED BY <2>1, <2>2, <2>3
<1> HIDE DEF Within
<1>9. \A n \in Nat : W[n] \in SUBSET Items
  <2> DEFINE untyped == {n \in Nat : W[n] \notin SUBSET Items}
  <2> SUFFICES ASSUME untyped # {} PROVE FALSE
    OBVIOUS
  <2>1. PICK n \in untyped : \A m \in untyped : n <= m
    <3>1. untyped \subseteq Nat
      OBVIOUS
    <3> HIDE DEF untyped
    <3> QED BY <3>1, LeastExists
  <2>2. n # 0
    BY <2>1, <1>8
  <2>3. n - 1 \in Nat /\ n - 1 \notin untyped /\ (n - 1) + 1 = n
    BY <2>1, <2>2
  <2>4. W[n - 1] \in SUBSET Items /\ W[n] = Step(nearby, W[n - 1])
    BY <2>3, <1>8
  <2> QED BY <2>1, <2>4, StepType
<1>10. W \in [Nat -> SUBSET Items]
  BY <1>8, <1>9
<1> QED BY <1>7, <1>8, <1>10

(* If a step adds nothing, no later one does; so up to the first step that   *)
(* adds nothing every step adds one at least.                                *)
LEMMA StepsGrow ==
  ASSUME NEW nearby \in Graph, NEW f \in [Nat -> SUBSET Items], NEW i \in Items, f[0] = {i},
         \A n \in Nat : f[n + 1] = Step(nearby, f[n]),
         NEW N \in Nat, f[N + 1] # f[N]
  PROVE  \A n \in 0..(N + 1) : IsFiniteSet(f[n]) /\ Cardinality(f[n]) \in Nat /\ Cardinality(f[n]) > n
<1>1. \A n \in 0..N : f[n + 1] # f[n]
  <2> DEFINE still == {d \in 0..N : f[(N - d) + 1] = f[N - d]}
  <2> SUFFICES ASSUME still # {} PROVE FALSE
    <3>1. \A n \in 0..N : N - n \in 0..N /\ N - (N - n) = n
      OBVIOUS
    <3>2. still = {}
      OBVIOUS
    <3> QED BY <3>1, <3>2
  <2>1. PICK d \in still : \A e \in still : d <= e
    <3>1. still \subseteq Nat
      OBVIOUS
    <3> HIDE DEF still
    <3> QED BY <3>1, LeastExists
  <2>2. d # 0
    BY <2>1
  <2>3. d - 1 \in 0..N /\ d - 1 \notin still /\ N - d \in Nat /\ N - (d - 1) = (N - d) + 1
    BY <2>1, <2>2
  <2> DEFINE m == N - d
  <2>4. m \in Nat /\ m + 1 \in Nat /\ f[m + 1] = f[m]
    BY <2>1, <2>3
  <2>5. f[(m + 1) + 1] # f[m + 1]
    BY <2>3
  <2> HIDE DEF m
  <2>6. f[(m + 1) + 1] = Step(nearby, f[m + 1]) /\ f[m + 1] = Step(nearby, f[m])
    BY <2>4
  <2> QED BY <2>4, <2>5, <2>6
<1>2. \A n \in Nat : IsFiniteSet(f[n]) /\ Cardinality(f[n]) \in Nat
  BY InventoryAssumption, FS_Subset, FS_CardinalityType
<1> DEFINE small == {n \in 0..(N + 1) : ~(Cardinality(f[n]) > n)}
<1> SUFFICES ASSUME small # {} PROVE FALSE
  <2>1. \A n \in 0..(N + 1) : n \in Nat
    OBVIOUS
  <2> QED BY <1>2, <2>1
<1>3. PICK n \in small : \A m \in small : n <= m
  <2>1. small \subseteq Nat
    OBVIOUS
  <2> HIDE DEF small
  <2> QED BY <2>1, LeastExists
<1>4. n # 0
  <2>1. Cardinality({i}) = 1
    BY FS_Singleton
  <2>2. Cardinality(f[0]) = Cardinality({i})
    OBVIOUS
  <2>3. n = 0 => f[n] = f[0]
    OBVIOUS
  <2>4. n = 0 => Cardinality(f[n]) = 1
    BY <2>1, <2>2, <2>3
  <2>5. ~(Cardinality(f[n]) > n)
    BY <1>3
  <2> QED BY ONLY <2>4, <2>5
<1>5. n - 1 \in 0..N /\ n - 1 \in Nat /\ n - 1 \notin small /\ (n - 1) + 1 = n /\ n - 1 \in 0..(N + 1)
  BY <1>3, <1>4
<1>6. Cardinality(f[n - 1]) > n - 1
  BY <1>5
<1>7. f[n - 1] \in SUBSET f[n] /\ f[n] # f[n - 1]
  <2>1. f[n] = Step(nearby, f[n - 1]) /\ f[n - 1] \in SUBSET Items
    BY <1>5
  <2>2. f[n] # f[n - 1]
    BY <1>1, <1>5
  <2> QED BY <2>1, <2>2, StepType
<1>8. Cardinality(f[n - 1]) <= Cardinality(f[n]) /\ Cardinality(f[n]) # Cardinality(f[n - 1])
  <2> DEFINE before == f[n - 1]
             after == f[n]
  <2>1. IsFiniteSet(after) /\ before \in SUBSET after /\ after # before
    BY <1>2, <1>3, <1>7
  <2> HIDE DEF before, after
  <2>2. Cardinality(before) <= Cardinality(after) /\ Cardinality(after) # Cardinality(before)
    BY <2>1, FS_Subset
  <2> QED BY <2>2 DEF before, after
<1>9. Cardinality(f[n]) > n
  BY <1>2, <1>3, <1>5, <1>6, <1>8
<1> QED BY <1>3, <1>9

(* Closed under nearby.                                                      *)
Closed(nearby, S) == \A k \in S : nearby[k] \subseteq S

(* So Reach is closed: there are not more identities than it takes steps.    *)
LEMMA ReachIsLeast ==
  ASSUME NEW nearby \in Graph, NEW i \in Items
  PROVE  /\ Reach(nearby, i) \in SUBSET Items /\ i \in Reach(nearby, i)
         /\ Closed(nearby, Reach(nearby, i))
         /\ \A S \in SUBSET Items : i \in S /\ Closed(nearby, S) => Reach(nearby, i) \subseteq S
<1>1. PICK f \in [Nat -> SUBSET Items] :
           /\ f[0] = {i} /\ \A n \in Nat : f[n + 1] = Step(nearby, f[n])
           /\ Reach(nearby, i) = f[Cardinality(Items) - 1]
  BY ReachSteps
<1> DEFINE N == Cardinality(Items) - 1
<1>2. N \in Nat /\ N + 1 = Cardinality(Items) /\ IsFiniteSet(Items) /\ Cardinality(Items) \in Nat
  <2>1. IsFiniteSet(Items) /\ Cardinality(Items) \in Nat
    BY InventoryAssumption, FS_CardinalityType
  <2>2. Cardinality(Items) # 0
    BY <2>1, FS_EmptySet
  <2> QED BY <2>1, <2>2
<1> HIDE DEF N
<1>3. f[N + 1] = f[N]
  <2> SUFFICES ASSUME f[N + 1] # f[N] PROVE FALSE
    OBVIOUS
  <2>1. N + 1 \in 0..(N + 1) /\ N + 1 \in Nat
    BY <1>2
  <2>2. Cardinality(f[N + 1]) \in Nat /\ Cardinality(f[N + 1]) > N + 1
    BY <1>1, <1>2, <2>1, StepsGrow
  <2>3. Cardinality(f[N + 1]) <= Cardinality(Items)
    BY <1>1, <1>2, <2>1, FS_Subset
  <2> QED BY <1>2, <2>2, <2>3
<1>4. Reach(nearby, i) = f[N] /\ f[N] \in SUBSET Items
  BY <1>1, <1>2 DEF N
<1>5. Closed(nearby, f[N])
  <2>1. f[N] = Step(nearby, f[N])
    BY <1>1, <1>2, <1>3
  <2> QED BY <2>1 DEF Closed, Step
<1>6. \A n \in Nat : i \in f[n]
  <2> DEFINE lost == {n \in Nat : i \notin f[n]}
  <2> SUFFICES ASSUME lost # {} PROVE FALSE
    OBVIOUS
  <2>1. PICK n \in lost : \A m \in lost : n <= m
    <3>1. lost \subseteq Nat
      OBVIOUS
    <3> HIDE DEF lost
    <3> QED BY <3>1, LeastExists
  <2>2. n # 0
    BY <1>1, <2>1
  <2>3. n - 1 \in Nat /\ n - 1 \notin lost /\ (n - 1) + 1 = n
    BY <2>1, <2>2
  <2>4. f[n] = Step(nearby, f[n - 1]) /\ f[n - 1] \in SUBSET Items
    BY <1>1, <2>3
  <2> QED BY <2>1, <2>3, <2>4, StepType
<1>7. ASSUME NEW S \in SUBSET Items, i \in S, Closed(nearby, S) PROVE \A n \in Nat : f[n] \subseteq S
  <2> DEFINE astray == {n \in Nat : ~(f[n] \subseteq S)}
  <2> SUFFICES ASSUME astray # {} PROVE FALSE
    OBVIOUS
  <2>1. PICK n \in astray : \A m \in astray : n <= m
    <3>1. astray \subseteq Nat
      OBVIOUS
    <3> HIDE DEF astray
    <3> QED BY <3>1, LeastExists
  <2>2. n # 0
    BY <1>1, <1>7, <2>1
  <2>3. n - 1 \in Nat /\ n - 1 \notin astray /\ (n - 1) + 1 = n
    BY <2>1, <2>2
  <2>4. f[n] = Step(nearby, f[n - 1]) /\ f[n - 1] \subseteq S
    BY <1>1, <2>3
  <2>5. Step(nearby, f[n - 1]) \subseteq S
    BY <1>7, <2>4 DEF Step, Closed
  <2> QED BY <2>1, <2>4, <2>5
<1> QED BY <1>2, <1>4, <1>5, <1>6, <1>7

-----------------------------------------------------------------------------
(* The records of values                                                     *)

Contents == [Items -> Values \cup {Absent}]
Matches(values) == [k \in Items |-> Neighbours(values, k)]
\* All that an identity matches, in any number of steps.
Met(values, i) == Reach(Matches(values), i)
\* The record that an identity with a value is put in.
RecordOf(values, link, i) ==
  [members |-> {j \in Met(values, i) : link[j] = link[i]},
   company |-> [j \in Met(values, i) |-> values[j]]]
\* All rows of some records, the records that a pass puts together for what it
\* touches, those of the rows of a set, and those that a set leaves alone.
Members(records) == UNION {r.members : r \in records}
Touched(values, old, F) == UNION Components(values, old, F)
PutTogether(values, old, F, link) ==
  UNION {Records(values, C, link) : C \in Components(values, old, F)}
RecordsOf(values, link, T) == {RecordOf(values, link, i) : i \in T \cap Rows(values)}
Whole(old, T) == \A k \in T : Siblings(old, k) \subseteq T
AllMet(values, records) == \A r \in records : NoneMissed(values, r)
NoneTwice(records) == \A r, q \in records : r.members \cap q.members # {} => r = q
Untouched(old, T) == {r \in old : r.members \cap T = {}}
\* What the property says of the served inventory, of any records.
Follows(values, records) ==
  RowsInOneRecord(values, records) /\ \A r \in records : NoneMissed(values, r)

LEMMA MatchesType ==
  ASSUME NEW values \in Contents
  PROVE  /\ Matches(values) \in Graph
         /\ \A i \in Items : /\ Matches(values)[i] = Neighbours(values, i)
                             /\ Matches(values)[i] \subseteq Rows(values) /\ Rows(values) \subseteq Items
         /\ \A i, j \in Items : j \in Matches(values)[i] <=> i \in Matches(values)[j]
<1>1. Rows(values) \subseteq Items
  BY DEF Rows
<1>2. \A i \in Items : Matches(values)[i] = Neighbours(values, i) /\ Neighbours(values, i) \subseteq Rows(values)
  BY DEF Matches, Neighbours
<1>3. Matches(values) \in Graph
  BY <1>1, <1>2 DEF Matches, Graph
<1>4. ASSUME NEW i \in Items, NEW j \in Items, j \in Neighbours(values, i) PROVE i \in Neighbours(values, j)
  BY <1>4 DEF Neighbours, Rows
<1> QED BY <1>1, <1>2, <1>3, <1>4

(* Nothing outside a closed set leads into it.                               *)
LEMMA OutsideIsClosed ==
  ASSUME NEW values \in Contents, NEW C \in SUBSET Items, Closed(Matches(values), C)
  PROVE  Closed(Matches(values), Items \ C)
<1>1. ASSUME NEW i \in Items \ C, NEW j \in Matches(values)[i] PROVE j \in Items \ C
  <2>1. j \in Items
    BY MatchesType
  <2>2. i \in Matches(values)[j]
    BY <2>1, MatchesType
  <2>3. j \in C => i \in C
    BY <2>2 DEF Closed
  <2> QED BY <2>1, <2>3
<1> QED BY <1>1 DEF Closed

(* Two graphs that agree on a set both are closed on lead to the same there. *)
LEMMA SameReach ==
  ASSUME NEW first \in Graph, NEW second \in Graph, NEW C \in SUBSET Items,
         Closed(first, C), \A k \in C : first[k] = second[k],
         NEW i \in C
  PROVE  Reach(first, i) = Reach(second, i) /\ Reach(first, i) \subseteq C
<1>1. Closed(second, C)
  BY DEF Closed
<1>2. /\ Reach(first, i) \in SUBSET Items /\ i \in Reach(first, i) /\ Closed(first, Reach(first, i))
      /\ Reach(first, i) \subseteq C
  BY ReachIsLeast
<1>3. /\ Reach(second, i) \in SUBSET Items /\ i \in Reach(second, i) /\ Closed(second, Reach(second, i))
      /\ Reach(second, i) \subseteq C
  BY <1>1, ReachIsLeast
<1>4. Closed(second, Reach(first, i)) /\ Closed(first, Reach(second, i))
  BY <1>2, <1>3 DEF Closed
<1>5. Reach(second, i) \subseteq Reach(first, i)
  BY <1>2, <1>4, ReachIsLeast
<1>6. Reach(first, i) \subseteq Reach(second, i)
  BY <1>3, <1>4, ReachIsLeast
<1> QED BY <1>2, <1>5, <1>6

(* A set closed under matches has the records of its rows, as if it had been *)
(* derived with everything else.                                             *)
LEMMA RecordsOfClosed ==
  ASSUME NEW values \in Contents, NEW link, NEW C \in SUBSET Items, Closed(Matches(values), C)
  PROVE  Records(values, C, link) = {RecordOf(values, link, i) : i \in C \cap Rows(values)}
<1> DEFINE nearby == [k \in Items |-> Neighbours(values, k) \cap C]
<1>1. nearby \in Graph
  BY MatchesType DEF Graph
<1>2. \A k \in C : nearby[k] = Matches(values)[k]
  BY MatchesType DEF Closed
<1>3. Closed(nearby, C)
  BY DEF Closed
<1> HIDE DEF nearby
<1>4. ASSUME NEW i \in C PROVE Reach(nearby, i) = Met(values, i)
  BY <1>1, <1>2, <1>3, MatchesType, SameReach DEF Met
<1>5. Records(values, C, link) =
        {[members |-> {j \in Reach(nearby, i) : link[j] = link[i]},
          company |-> [j \in Reach(nearby, i) |-> values[j]]] : i \in C \cap Rows(values)}
  BY DEF Records, nearby
<1> QED BY <1>4, <1>5 DEF RecordOf

(* What an identity matches is made of rows if it is one, and is the same    *)
(* from any of them.                                                         *)
LEMMA MetType ==
  ASSUME NEW values \in Contents, NEW i \in Items
  PROVE  /\ Met(values, i) \in SUBSET Items /\ i \in Met(values, i)
         /\ Closed(Matches(values), Met(values, i))
         /\ \A S \in SUBSET Items : i \in S /\ Closed(Matches(values), S) => Met(values, i) \subseteq S
         /\ i \in Rows(values) => Met(values, i) \subseteq Rows(values)
<1>1. /\ Met(values, i) \in SUBSET Items /\ i \in Met(values, i)
      /\ Closed(Matches(values), Met(values, i))
      /\ \A S \in SUBSET Items : i \in S /\ Closed(Matches(values), S) => Met(values, i) \subseteq S
  BY MatchesType, ReachIsLeast DEF Met
<1>2. Rows(values) \in SUBSET Items /\ Closed(Matches(values), Rows(values))
  BY MatchesType DEF Closed, Rows
<1> QED BY <1>1, <1>2

LEMMA MetByAll ==
  ASSUME NEW values \in Contents, NEW i \in Items, NEW j \in Met(values, i)
  PROVE  Met(values, j) = Met(values, i)
<1>1. /\ j \in Items /\ Met(values, i) \in SUBSET Items /\ i \in Met(values, i)
      /\ Closed(Matches(values), Met(values, i))
  BY MetType
<1>2. /\ Met(values, j) \in SUBSET Items /\ j \in Met(values, j)
      /\ Closed(Matches(values), Met(values, j))
  BY <1>1, MetType
<1>3. Met(values, j) \subseteq Met(values, i)
  BY <1>1, MetType
<1>4. i \in Met(values, j)
  <2>1. SUFFICES ASSUME i \in Items \ Met(values, j) PROVE FALSE
    OBVIOUS
  <2>2. Closed(Matches(values), Items \ Met(values, j))
    BY <1>2, OutsideIsClosed
  <2>3. Met(values, i) \subseteq Items \ Met(values, j)
    BY <2>1, <2>2, MetType
  <2> QED BY <1>2, <2>3
<1>5. Met(values, i) \subseteq Met(values, j)
  BY <1>2, <1>4, MetType
<1> QED BY <1>3, <1>5

(* The components of an incremental derivation are closed, under the matches *)
(* there are now and under the records there were.                           *)
LEMMA ComponentIsClosed ==
  ASSUME NEW values \in Contents, NEW old, \A r \in old : r.members \subseteq Items,
         NEW i \in Items
  PROVE  /\ Component(values, old, i) \in SUBSET Items /\ i \in Component(values, old, i)
         /\ Closed(Matches(values), Component(values, old, i))
         /\ \A k \in Component(values, old, i) : Siblings(old, k) \subseteq Component(values, old, i)
<1>0. values \in [Items -> Values \cup {Absent}]
  BY DEF Contents
<1>1. \A k \in Items : Siblings(old, k) \subseteq Items /\ Neighbours(values, k) \subseteq Items
  BY MatchesType DEF Siblings
<1>2. CASE Isolated(values, old, i)
  <2>1. Component(values, old, i) = {i}
    BY <1>2 DEF Component
  <2>2. Neighbours(values, i) = {} /\ Siblings(old, i) \subseteq {i}
    BY <1>2 DEF Isolated, Neighbours
  <2>3. Matches(values)[i] = {}
    BY <2>2, MatchesType
  <2> QED BY <2>1, <2>2, <2>3 DEF Closed
<1>3. CASE ~Isolated(values, old, i) /\ Small(values, old, i)
  <2> DEFINE pair == {i} \cup Neighbours(values, i)
  <2>1. Component(values, old, i) = pair
    BY <1>3 DEF Component
  <2>2. pair \in SUBSET Items
    BY <1>1
  <2>3. \A k \in pair : Neighbours(values, k) \subseteq pair /\ Siblings(old, k) \subseteq pair
    BY <1>3 DEF Small
  <2>4. i \in pair
    OBVIOUS
  <2> HIDE DEF pair
  <2>5. Closed(Matches(values), pair)
    BY <2>2, <2>3, MatchesType DEF Closed
  <2> QED BY <2>1, <2>2, <2>3, <2>4, <2>5
<1>4. CASE ~Isolated(values, old, i) /\ ~Small(values, old, i)
  <2> DEFINE both == [k \in Items |-> Neighbours(values, k) \cup Siblings(old, k)]
             C == Reach(both, i)
  <2>1. Component(values, old, i) = C
    BY <1>4 DEF Component, Expanded
  <2>2. both \in Graph
    BY <1>1 DEF Graph
  <2>3. \A k \in Items : both[k] = Neighbours(values, k) \cup Siblings(old, k)
    OBVIOUS
  <2> HIDE DEF both
  <2>4. C \in SUBSET Items /\ i \in C /\ Closed(both, C)
    BY <2>2, ReachIsLeast
  <2> HIDE DEF C
  <2>5. \A k \in C : Neighbours(values, k) \subseteq C /\ Siblings(old, k) \subseteq C
    BY <2>3, <2>4 DEF Closed
  <2>6. Closed(Matches(values), C)
    BY <2>4, <2>5, MatchesType DEF Closed
  <2> QED BY <2>1, <2>4, <2>5, <2>6
<1> QED BY <1>2, <1>3, <1>4

(* So what they touch is closed, and has the records of its rows.            *)
LEMMA TouchedRecords ==
  ASSUME NEW values \in Contents, NEW link, NEW old, Members(old) \in SUBSET Items,
         NEW F \in SUBSET Items, NEW T, T = Touched(values, old, F)
  PROVE  /\ T \in SUBSET Items /\ F \subseteq T /\ Closed(Matches(values), T)
         /\ Whole(old, T)
         /\ PutTogether(values, old, F, link) = RecordsOf(values, link, T)
<1> DEFINE touched == Components(values, old, F)
<1>0. T = UNION touched /\ \A r \in old : r.members \subseteq Items
  BY DEF Touched, Members
<1>1. ASSUME NEW C \in touched
      PROVE  /\ C \in SUBSET Items /\ Closed(Matches(values), C)
             /\ \A k \in C : Siblings(old, k) \subseteq C
             /\ Records(values, C, link) = {RecordOf(values, link, i) : i \in C \cap Rows(values)}
  <2>1. PICK i \in F : C = Component(values, old, i)
    BY DEF Components
  <2>2. /\ C \in SUBSET Items /\ Closed(Matches(values), C)
        /\ \A k \in C : Siblings(old, k) \subseteq C
    BY <1>0, <2>1, ComponentIsClosed
  <2> QED BY <2>2, RecordsOfClosed
<1>2. \A i \in F : \E C \in touched : i \in C
  BY <1>0, ComponentIsClosed DEF Components
<1> HIDE DEF touched
<1>3. T \in SUBSET Items /\ F \subseteq T
  BY <1>0, <1>1, <1>2
<1>4. Closed(Matches(values), T) /\ \A k \in T : Siblings(old, k) \subseteq T
  <2>1. ASSUME NEW k \in T PROVE Matches(values)[k] \subseteq T /\ Siblings(old, k) \subseteq T
    <3>1. PICK C \in touched : k \in C
      BY <1>0
    <3>2. Matches(values)[k] \subseteq C /\ Siblings(old, k) \subseteq C
      BY <1>1, <3>1 DEF Closed
    <3> QED BY <1>0, <3>1, <3>2
  <2> QED BY <2>1 DEF Closed
<1>5. UNION {Records(values, C, link) : C \in touched}
        = {RecordOf(values, link, i) : i \in T \cap Rows(values)}
  <2>1. ASSUME NEW r, \E C \in touched : r \in Records(values, C, link)
        PROVE  \E i \in T \cap Rows(values) : r = RecordOf(values, link, i)
    BY <1>0, <1>1, <2>1
  <2>2. ASSUME NEW i \in T \cap Rows(values)
        PROVE  \E C \in touched : RecordOf(values, link, i) \in Records(values, C, link)
    BY <1>0, <1>1
  <2> QED BY <2>1, <2>2
<1> QED BY <1>3, <1>4, <1>5 DEF touched, RecordsOf, PutTogether, Whole

(* Records just put together miss no one: their company is what they match.  *)
LEMMA NewRecords ==
  ASSUME NEW values \in Contents, NEW link, NEW T \in SUBSET Items, Closed(Matches(values), T),
         NEW new, new = RecordsOf(values, link, T)
  PROVE  /\ Members(new) = T \cap Rows(values)
         /\ NoneTwice(new)
         /\ AllMet(values, new)
<1>1. ASSUME NEW i \in T \cap Rows(values)
      PROVE  /\ i \in RecordOf(values, link, i).members
             /\ RecordOf(values, link, i).members \subseteq T \cap Rows(values)
  <2>1. i \in Items /\ i \in Met(values, i) /\ Met(values, i) \subseteq T \cap Rows(values)
    BY MetType
  <2> QED BY <2>1 DEF RecordOf
<1>2. ASSUME NEW i \in T \cap Rows(values), NEW j \in RecordOf(values, link, i).members
      PROVE  RecordOf(values, link, j) = RecordOf(values, link, i)
  <2>1. j \in Met(values, i) /\ link[j] = link[i]
    BY DEF RecordOf
  <2>2. Met(values, j) = Met(values, i)
    BY <2>1, MetByAll
  <2> QED BY <2>1, <2>2 DEF RecordOf
<1>3. ASSUME NEW i \in T \cap Rows(values) PROVE NoneMissed(values, RecordOf(values, link, i))
  <2> DEFINE rec == RecordOf(values, link, i)
  <2>1. ASSUME NEW k \in rec.members PROVE Met(values, k) = Met(values, i)
    <3>1. k \in Met(values, i)
      BY DEF RecordOf
    <3> QED BY <3>1, MetByAll
  <2>2. /\ DOMAIN rec.company = Met(values, i)
        /\ \A j \in Met(values, i) : rec.company[j] = values[j]
    BY DEF RecordOf
  <2>3. \A k \in Items : Met(values, k) = Reach([l \in Items |-> Neighbours(values, l)], k)
    BY DEF Met, Matches
  <2>4. rec.members \subseteq Items
    BY <1>1
  <2> HIDE DEF rec
  <2> QED BY <2>1, <2>2, <2>3, <2>4 DEF NoneMissed, rec
<1>4. Members(new) = T \cap Rows(values)
  BY <1>1 DEF RecordsOf, Members
<1>5. ASSUME NEW r \in new, NEW q \in new, r.members \cap q.members # {} PROVE r = q
  <2>1. PICK i \in T \cap Rows(values) : r = RecordOf(values, link, i)
    BY DEF RecordsOf
  <2>2. PICK k \in T \cap Rows(values) : q = RecordOf(values, link, k)
    BY DEF RecordsOf
  <2>3. PICK j \in r.members : j \in q.members
    BY <1>5
  <2> QED BY <1>2, <2>1, <2>2, <2>3
<1>6. NoneTwice(new)
  BY <1>5 DEF NoneTwice
<1>7. AllMet(values, new)
  BY <1>3 DEF RecordsOf, AllMet
<1> QED BY <1>4, <1>6, <1>7

(* Records that a change leaves alone miss no one either: what they match is *)
(* outside of what is touched, and matched them before.                      *)
LEMMA KeptRecords ==
  ASSUME NEW before \in Contents, NEW after \in Contents, NEW old, Follows(before, old),
         NEW T \in SUBSET Items, Closed(Matches(after), T),
         Whole(old, T),
         \A i \in Items \ T : before[i] = after[i],
         NEW kept, kept = Untouched(old, T)
  PROVE  /\ Members(kept) = Rows(after) \ T
         /\ AllMet(after, kept)
<1> DEFINE U == Items \ T
<1>1. /\ UNION {r.members : r \in old} = Rows(before)
      /\ Rows(before) \subseteq Items /\ Rows(after) \subseteq Items
      /\ \A k \in U : k \in Rows(before) <=> k \in Rows(after)
  BY DEF Follows, RowsInOneRecord, Rows
<1>2. Members(kept) = Rows(after) \ T
  <2>1. ASSUME NEW r \in kept, NEW j \in r.members PROVE j \in Rows(after) \ T
    <3>1. j \in Rows(before) /\ j \notin T
      BY <1>1, <2>1 DEF Untouched
    <3> QED BY <1>1, <3>1
  <2>2. ASSUME NEW j \in Rows(after) \ T PROVE \E r \in kept : j \in r.members
    <3>1. PICK r \in old : j \in r.members
      BY <1>1
    <3>2. ASSUME NEW k \in r.members \cap T PROVE FALSE
      <4>1. r.members \subseteq Siblings(old, k)
        BY DEF Siblings
      <4> QED BY <3>1, <4>1 DEF Whole
    <3> QED BY <3>1, <3>2 DEF Untouched
  <2> QED BY <2>1, <2>2 DEF Members
<1>3. U \in SUBSET Items /\ Closed(Matches(after), U)
  BY OutsideIsClosed
<1>4. ASSUME NEW k \in U, NEW j \in U
      PROVE  j \in Matches(before)[k] <=> j \in Matches(after)[k]
  <2>1. before[k] = after[k] /\ before[j] = after[j] /\ (j \in Rows(before) <=> j \in Rows(after))
    BY <1>1
  <2>2. Matches(before)[k] = Neighbours(before, k) /\ Matches(after)[k] = Neighbours(after, k)
    BY MatchesType
  <2> QED BY <2>1, <2>2 DEF Neighbours
<1> HIDE DEF U
<1>5. ASSUME NEW r \in kept, NEW i \in r.members
      PROVE  /\ Met(after, i) \subseteq DOMAIN r.company
             /\ \A j \in Met(after, i) : r.company[j] = after[j]
             /\ r.members = DOMAIN r.company => Met(after, i) = r.members
  <2>1. i \in Items /\ i \in U /\ r.members \subseteq U /\ r \in old
    BY <1>1 DEF U, Untouched
  <2>2. /\ Met(before, i) \subseteq DOMAIN r.company
        /\ \A j \in Met(before, i) : r.company[j] = before[j]
        /\ r.members = DOMAIN r.company => Met(before, i) = r.members
    BY <2>1 DEF Follows, NoneMissed, Met, Matches
  <2>3. /\ Met(before, i) \in SUBSET Items /\ i \in Met(before, i)
        /\ Closed(Matches(before), Met(before, i))
    BY <2>1, MetType
  <2>4. Met(after, i) \subseteq Met(before, i) \cap U
    <3> DEFINE S == Met(before, i) \cap U
    <3>1. ASSUME NEW k \in S, NEW j \in Matches(after)[k] PROVE j \in S
      <4>1. j \in U
        BY <1>3 DEF Closed
      <4>2. j \in Matches(before)[k]
        BY <1>4, <4>1
      <4>3. j \in Met(before, i)
        BY <2>3, <4>2 DEF Closed
      <4> QED BY <4>1, <4>3
    <3>2. Closed(Matches(after), S)
      BY <3>1 DEF Closed
    <3>3. S \in SUBSET Items /\ i \in S
      BY <2>1, <2>3
    <3> HIDE DEF S
    <3>4. Met(after, i) \subseteq S
      BY <2>1, <3>2, <3>3, MetType
    <3> QED BY <3>4 DEF S
  <2>5. \A j \in Met(after, i) : before[j] = after[j]
    BY <2>4 DEF U
  <2>6. ASSUME r.members = DOMAIN r.company PROVE Met(after, i) = r.members
    <3>1. Met(before, i) = r.members /\ Met(before, i) \subseteq U
      BY <2>1, <2>2, <2>6
    <3>2. /\ Met(after, i) \in SUBSET Items /\ i \in Met(after, i)
          /\ Closed(Matches(after), Met(after, i))
      BY <2>1, MetType
    <3>3. ASSUME NEW k \in Met(after, i), NEW j \in Matches(before)[k] PROVE j \in Met(after, i)
      <4>1. k \in Met(before, i) /\ k \in U
        BY <2>4
      <4>2. j \in U
        BY <2>3, <3>1, <4>1 DEF Closed
      <4>3. j \in Matches(after)[k]
        BY <1>4, <4>1, <4>2
      <4> QED BY <3>2, <4>3 DEF Closed
    <3>4. Closed(Matches(before), Met(after, i))
      BY <3>3 DEF Closed
    <3>5. Met(before, i) \subseteq Met(after, i)
      BY <2>1, <3>2, <3>4, MetType
    <3> QED BY <2>4, <3>1, <3>5
  <2> QED BY <2>2, <2>4, <2>5, <2>6
<1>6. ASSUME NEW r \in kept PROVE NoneMissed(after, r)
  BY <1>5 DEF NoneMissed, Met, Matches
<1> QED BY <1>2, <1>6 DEF AllMet

(* Amending: the records that no component touches, with those of the        *)
(* components of all that changed, follow the new values.                    *)
LEMMA AmendedRecords ==
  ASSUME NEW before \in Contents, NEW after \in Contents, NEW link, NEW old, Follows(before, old),
         NEW F \in SUBSET Items, \A i \in Items : before[i] # after[i] => i \in F,
         NEW T, T = Touched(after, old, F)
  PROVE  Follows(after, Untouched(old, T) \cup PutTogether(after, old, F, link))
<1>1. Members(old) \in SUBSET Items
  BY DEF Follows, RowsInOneRecord, Rows, Members
<1>2. /\ T \in SUBSET Items /\ F \subseteq T /\ Closed(Matches(after), T)
      /\ Whole(old, T)
      /\ PutTogether(after, old, F, link) = RecordsOf(after, link, T)
  BY <1>1, TouchedRecords
<1>3. PICK kept : kept = Untouched(old, T)
  OBVIOUS
<1>4. PICK new : new = RecordsOf(after, link, T)
  OBVIOUS
<1>5. /\ Members(kept) = Rows(after) \ T
      /\ AllMet(after, kept)
  <2>1. \A i \in Items \ T : before[i] = after[i]
    BY <1>2
  <2> QED BY <1>2, <1>3, <2>1, KeptRecords
<1>6. /\ Members(new) = T \cap Rows(after)
      /\ NoneTwice(new)
      /\ AllMet(after, new)
  BY <1>2, <1>4, NewRecords
<1>7. NoneTwice(kept)
  BY <1>3 DEF Follows, RowsInOneRecord, Untouched, NoneTwice
<1>8. Members(kept \cup new) = Rows(after)
  <2>1. Members(kept \cup new) = Members(kept) \cup Members(new)
    BY DEF Members
  <2> QED BY <1>2, <1>5, <1>6, <2>1 DEF Rows
<1>9. ASSUME NEW r \in kept, NEW q \in new PROVE r.members \cap q.members = {}
  <2>1. r.members \subseteq Members(kept) /\ q.members \subseteq Members(new)
    BY DEF Members
  <2> QED BY <1>5, <1>6, <2>1
<1>10. NoneTwice(kept \cup new)
  BY <1>6, <1>7, <1>9 DEF NoneTwice
<1>11. Follows(after, kept \cup new)
  BY <1>5, <1>6, <1>8, <1>10 DEF Follows, RowsInOneRecord, Members, NoneTwice, AllMet
<1> QED BY <1>2, <1>3, <1>4, <1>11

(* So do the records of the components of all rows, whatever was there.      *)
LEMMA AllRecords ==
  ASSUME NEW values \in Contents, NEW link, NEW old, Members(old) \in SUBSET Items
  PROVE  Follows(values, PutTogether(values, old, Rows(values), link))
<1>1. Rows(values) \in SUBSET Items
  BY DEF Rows
<1>2. PICK T : T = Touched(values, old, Rows(values))
  OBVIOUS
<1>3. /\ T \in SUBSET Items /\ Rows(values) \subseteq T /\ Closed(Matches(values), T)
      /\ PutTogether(values, old, Rows(values), link) = RecordsOf(values, link, T)
  BY <1>1, <1>2, TouchedRecords
<1>4. PICK new : new = RecordsOf(values, link, T)
  OBVIOUS
<1>5. /\ Members(new) = Rows(values)
      /\ NoneTwice(new)
      /\ AllMet(values, new)
  <2>1. T \cap Rows(values) = Rows(values)
    BY <1>3
  <2> QED BY <1>3, <1>4, <2>1, NewRecords
<1>6. Follows(values, new)
  BY <1>5 DEF Follows, RowsInOneRecord, Members, NoneTwice, AllMet
<1> QED BY <1>3, <1>4, <1>6

-----------------------------------------------------------------------------
(* Why a claim knows all that changed                                        *)

USE DEF sourceVars, gcVars, activeVars, rowVars, localVars

(* The order of the requests, the claim and the publication of the row.      *)
SequenceInv ==
  /\ pending # None => pendingSequence > publishedSequence
  /\ active # None => activeSequence > publishedSequence
  /\ pending # None /\ active # None => pendingSequence > activeSequence

(* What a source says now and did not say at a captured revision of the same *)
(* root is in the log, and has not been collected from it.                   *)
Logged(v) ==
  \A s \in DOMAIN v : \A i \in ItemsOf(s) :
    /\ Baseline(s, Revision(s)) = Baseline(s, v[s].revision)
    /\ history[s][Revision(s)].content[i] # history[s][v[s].revision].content[i]
    => i \in ChangedSince(s, v[s].revision)

LogInv ==
  /\ published # None => Logged(published)
  /\ active # None => Logged(activeInputs)

(* The identities that differ between two vectors.                           *)
Differing(u, v) == {i \in Items : ValuesAt(u)[i] # ValuesAt(v)[i]}

(* A claim that amends finds all that differ from the published inputs: by   *)
(* their keys, until it has read them.                                       *)
Knows(w) ==
  IF pc[w] = "derived" THEN Differing(published, claim[w].roots) \subseteq frontier[w]
  ELSE \A i \in Differing(published, claim[w].roots) : <<claim[w].sequence, i>> \in keys

ClaimOf(w) ==
  /\ pc[w] \in {"working", "derived"} => claim[w].broad \/ claim[w].rooted
  /\ pc[w] = "derived" /\ claim[w].broad => frontier[w] = Rows(ValuesAt(claim[w].roots))
  /\ pc[w] \in Running /\ active = w =>
       /\ claim[w].after = publishedSequence /\ claim[w].sequence = activeSequence
       /\ ~claim[w].broad => published # None /\ Knows(w)

ClaimInv == \A w \in Workers : ClaimOf(w)

(* The records follow the inputs of the head, served or cleared.             *)
FollowsNow ==
  \E values, records : /\ values = ValuesAt(out.inputs) /\ records = out.records
                       /\ Follows(values, records)

OutputInv ==
  /\ out.current => published = out.inputs
  /\ FollowsNow

DInv == SequenceInv /\ LogInv /\ ClaimInv /\ OutputInv

(* A captured vector names the contents of revisions that are there, and     *)
(* keeps naming them.                                                        *)
LEMMA HistoryStays ==
  ASSUME SourceInv, Next, NEW s \in Sources, NEW r \in 1..Revision(s)
  PROVE  history'[s][r] = history[s][r]
<1>1. ASSUME NEW t \in Sources, SourcePublishes(t) PROVE history'[s][r] = history[s][r]
  <2>1. PICK baseline \in 1..(Revision(t) + 1), content \in [ItemsOf(t) -> Values \cup {Absent}] :
           Publishes(t, baseline, content)
    BY <1>1, PublicationCases
  <2> QED BY <2>1, PublishEffect DEF Added
<1>2. CASE Still
  BY <1>2 DEF Still
<1>3. ASSUME NEW t \in Sources, NEW b \in Revisions, CollectRoot(t, b) PROVE history'[s][r] = history[s][r]
  BY <1>3, RootCollected DEF Apart
<1> QED BY <1>1, <1>2, <1>3, StepKinds

LEMMA ValuesType ==
  ASSUME SourceInv, NEW v, Captured(v)
  PROVE  ValuesAt(v) \in Contents
<1>1. ASSUME NEW i \in Items, SourceOf[i] \in DOMAIN v
      PROVE  history[SourceOf[i]][v[SourceOf[i]].revision].content[i] \in Values \cup {Absent}
  <2> DEFINE s == SourceOf[i]
             r == v[s].revision
  <2>1. s \in Sources /\ r \in 1..Revision(s) /\ i \in ItemsOf(s)
    BY <1>1, InventoryAssumption DEF Captured, ItemsOf
  <2> HIDE DEF s, r
  <2>2. history[s][r].content \in [ItemsOf(s) -> Values \cup {Absent}]
    BY <2>1 DEF SourceInv
  <2>3. history[s][r].content[i] \in Values \cup {Absent}
    BY <2>1, <2>2
  <2> QED BY <2>3 DEF s, r
<1> QED BY <1>1 DEF ValuesAt, Contents

(* ValuesAt, of the next state.                                              *)
ValuesAtNext(v) ==
  [i \in Items |-> IF SourceOf[i] \in DOMAIN v
                   THEN history'[SourceOf[i]][v[SourceOf[i]].revision].content[i] ELSE Absent]

LEMMA ValuesStay ==
  ASSUME SourceInv, Next, NEW v, Captured(v)
  PROVE  ValuesAtNext(v) = ValuesAt(v)
<1>1. ASSUME NEW i \in Items, SourceOf[i] \in DOMAIN v
      PROVE  history'[SourceOf[i]][v[SourceOf[i]].revision] = history[SourceOf[i]][v[SourceOf[i]].revision]
  <2> DEFINE s == SourceOf[i]
             r == v[s].revision
  <2>1. s \in Sources /\ r \in 1..Revision(s)
    BY <1>1, InventoryAssumption DEF Captured
  <2> HIDE DEF s, r
  <2>2. history'[s][r] = history[s][r]
    BY <2>1, HistoryStays
  <2> QED BY <2>2 DEF s, r
<1> QED BY <1>1 DEF ValuesAt, ValuesAtNext

(* The steps that leave the requests, the claim and the publication.         *)
ClaimsStand ==
  UNCHANGED <<pending, pendingSequence, active, activeInputs, activeSequence, published, publishedSequence, out>>

LEMMA RowSteps ==
  ASSUME Next
  PROVE  \/ ClaimsStand
         \/ \E w \in Workers : Request(w) \/ Claim(w) \/ Publish(w) \/ Fail(w)
         \/ \E kept \in SUBSET controls : Clear(kept)
<1>1. ASSUME NEW w \in Workers, ReadRoots(w) \/ RequestRefused(w) \/ NothingClaimed(w) PROVE ClaimsStand
  BY <1>1 DEF ReadRoots, RequestRefused, NothingClaimed, ClaimsStand
<1>2. ASSUME NEW w \in Workers, Begin(w) \/ Seed(w) PROVE ClaimsStand
  BY <1>2 DEF Begin, Seed, ClaimsStand
<1>3. ASSUME NEW w \in Workers, Crash(w) \/ PassDeadline(w) PROVE ClaimsStand
  BY <1>3 DEF Crash, PassDeadline, ClaimsStand
<1>4. LapseLease \/ CollectKeys => ClaimsStand
  BY DEF LapseLease, CollectKeys, ClaimsStand
<1>5. RowStands => ClaimsStand
  BY DEF RowStands, ClaimsStand
<1> QED BY <1>1, <1>2, <1>3, <1>4, <1>5, SourceStepsLeaveRow DEF Next, PassStep, Collect

LEMMA SequencesKept ==
  ASSUME RowInv, SequenceInv, Next
  PROVE  SequenceInv'
<1>0. /\ pendingSequence \in Nat /\ publishedSequence \in Nat /\ activeSequence \in Nat
      /\ publishedSequence <= pendingSequence /\ activeSequence <= pendingSequence
  BY DEF RowInv
<1>1. CASE ClaimsStand
  BY <1>1 DEF ClaimsStand, SequenceInv
<1>2. ASSUME NEW w \in Workers, Request(w) PROVE SequenceInv'
  <2>1. /\ UNCHANGED <<active, activeSequence, publishedSequence>>
        /\ UNCHANGED <<pending, pendingSequence>> \/ pendingSequence' = pendingSequence + 1
    BY <1>2 DEF Request
  <2> QED BY <1>0, <2>1 DEF SequenceInv
<1>3. ASSUME NEW w \in Workers, Claim(w) PROVE SequenceInv'
  <2>1. /\ pending' = None /\ UNCHANGED publishedSequence /\ activeSequence' = pendingSequence'
        /\ pendingSequence' = IF pending = None /\ active = None THEN pendingSequence + 1 ELSE pendingSequence
    BY <1>3 DEF Claim
  <2>2. activeSequence' > publishedSequence
    BY <1>0, <2>1 DEF SequenceInv
  <2> QED BY <2>1, <2>2 DEF SequenceInv
<1>4. ASSUME NEW w \in Workers, Publish(w) PROVE SequenceInv'
  <2>1. /\ UNCHANGED <<pending, pendingSequence, activeSequence>> /\ active' = None
        /\ publishedSequence' = activeSequence /\ active = w
    BY <1>4 DEF Publish, ValidInputs, Holds
  <2> QED BY <2>1, InventoryAssumption DEF SequenceInv
<1>5. ASSUME NEW w \in Workers, Fail(w) PROVE SequenceInv'
  <2>1. UNCHANGED <<pendingSequence, activeSequence, publishedSequence>>
    BY <1>5 DEF Fail
  <2>2. \/ active = w /\ active' = None
        \/ UNCHANGED <<active, pending>>
    BY <1>5 DEF Fail
  <2> QED BY <1>0, <2>1, <2>2, InventoryAssumption DEF SequenceInv
<1>6. ASSUME NEW kept \in SUBSET controls, Clear(kept) PROVE SequenceInv'
  BY <1>6 DEF Clear, SequenceInv
<1> QED BY <1>1, <1>2, <1>3, <1>4, <1>5, <1>6, RowSteps

(* A publication adds its row to the scope and leaves the other scopes.      *)
LEMMA PublishedRow ==
  ASSUME SourceInv, NEW s \in Sources, NEW baseline \in 1..(Revision(s) + 1),
         NEW content \in [ItemsOf(s) -> Values \cup {Absent}],
         Publishes(s, baseline, content)
  PROVE  /\ Revision(s) \in Nat /\ Revision(s)' = Revision(s) + 1
         /\ history'[s][Revision(s) + 1] = [baseline |-> baseline, content |-> content]
         /\ \A t \in Sources \ {s} : history'[t] = history[t]
<1> DEFINE row == [baseline |-> baseline, content |-> content]
<1>1. history \in [Sources -> Seq(Row)] /\ history' = [history EXCEPT ![s] = Append(history[s], row)]
  BY DEF Publishes, SourceInv
<1>2. history[s] \in Seq(Row) /\ Revision(s) = Len(history[s]) /\ Revision(s) \in Nat
  BY <1>1 DEF Revision
<1>3. row \in Row
  BY <1>2 DEF Row
<1> HIDE DEF row
<1>4. history'[s] = Append(history[s], row) /\ \A t \in Sources \ {s} : history'[t] = history[t]
  BY <1>1
<1>5. Revision(s)' = Revision(s) + 1 /\ history'[s][Revision(s) + 1] = row
  BY <1>2, <1>3, <1>4 DEF Revision
<1> QED BY <1>2, <1>4, <1>5 DEF row

(* Logged, of the next state.                                                *)
LoggedNext(v) ==
  \A s \in DOMAIN v : \A i \in ItemsOf(s) :
    /\ history'[s][Revision(s)'].baseline = history'[s][v[s].revision].baseline
    /\ history'[s][Revision(s)'].content[i] # history'[s][v[s].revision].content[i]
    => \E c \in changes' : c[1] > v[s].revision /\ c[2] = i

(* A publication of the scope logs what it changes of the same root.         *)
LEMMA PublicationIsLogged ==
  ASSUME SourceInv, Next, NEW s \in Sources, SourcePublishes(s), NEW r \in 1..Revision(s),
         NEW i \in ItemsOf(s),
         history'[s][Revision(s)'].baseline = history[s][r].baseline,
         history'[s][Revision(s)'].content[i] # history[s][r].content[i],
         /\ Baseline(s, Revision(s)) = Baseline(s, r)
         /\ history[s][Revision(s)].content[i] # history[s][r].content[i]
         => \E c \in changes : c[1] > r /\ c[2] = i
  PROVE  \E c \in changes' : c[1] > r /\ c[2] = i
<1>1. PICK change \in ChangesOf(s) :
           PublishBaseline(s, change) \/ PublishDelta(s, change) \/ PublishControl(s, change)
  BY DEF SourcePublishes
<1> DEFINE content == [Content(s) EXCEPT ![change[1]] = change[2]]
<1>2. content \in [ItemsOf(s) -> Values \cup {Absent}]
  BY ContentType
<1>3. /\ Revision(s) \in Nat /\ Revision(s) \in 1..Revision(s) /\ r <= Revision(s)
      /\ Baseline(s, r) \in 1..r /\ Baseline(s, Revision(s)) \in 1..Revision(s)
  BY DEF SourceInv, Revision
<1>4. Content(s) = history[s][Revision(s)].content
  BY <1>3 DEF Content, Revision
<1>5. CASE PublishBaseline(s, change)
  <2> DEFINE next == Revision(s) + 1
  <2>1. Publishes(s, next, content)
    BY <1>5 DEF PublishBaseline
  <2>2. next \in 1..(Revision(s) + 1)
    BY <1>3
  <2> HIDE DEF next, content
  <2>3. Revision(s)' = Revision(s) + 1 /\ history'[s][Revision(s) + 1] = [baseline |-> next, content |-> content]
    BY <1>2, <2>1, <2>2, PublishedRow
  <2>4. next = Baseline(s, r)
    BY <2>3 DEF Baseline
  <2> QED BY <1>3, <2>4 DEF next
<1>6. CASE PublishDelta(s, change) \/ PublishControl(s, change)
  <2> DEFINE same == Baseline(s, Revision(s))
  <2>1. /\ Publishes(s, same, content)
        /\ changes' = IF change[2] = Content(s)[change[1]] THEN changes
                      ELSE changes \cup {<<Revision(s) + 1, change[1]>>}
    BY <1>6 DEF PublishDelta, PublishControl, Amends
  <2>2. same \in 1..(Revision(s) + 1)
    BY <1>3
  <2>3. content[i] = IF i = change[1] THEN change[2] ELSE Content(s)[i]
    <3>1. Content(s) \in [ItemsOf(s) -> Values \cup {Absent}]
      BY <1>3, <1>4 DEF SourceInv
    <3> QED BY <3>1
  <2> HIDE DEF same, content
  <2>4. Revision(s)' = Revision(s) + 1 /\ history'[s][Revision(s) + 1] = [baseline |-> same, content |-> content]
    BY <1>2, <2>1, <2>2, PublishedRow
  <2>5. same = Baseline(s, r) /\ content[i] # history[s][r].content[i]
    BY <2>4 DEF Baseline
  <2>6. CASE content[i] = Content(s)[i]
    BY <1>4, <2>1, <2>5, <2>6 DEF same
  <2>7. CASE content[i] # Content(s)[i]
    <3>1. i = change[1] /\ change[2] # Content(s)[change[1]]
      BY <2>3, <2>7
    <3>2. <<Revision(s) + 1, i>> \in changes'
      BY <2>1, <3>1
    <3> QED BY <1>3, <3>2
  <2> QED BY <2>6, <2>7
<1> QED BY <1>1, <1>5, <1>6

(* The collection of changes leaves those after a revision the row names.    *)
LEMMA LogStays ==
  ASSUME SourceInv, Next, ~\E s \in Sources : SourcePublishes(s),
         NEW t \in Sources, NEW r \in Named(t), r \in Nat,
         NEW c \in changes, c[1] > r, SourceOf[c[2]] = t
  PROVE  history' = history /\ c \in changes'
<1>1. CASE \E s \in Sources : CollectChanges(s)
  <2>1. PICK s \in Sources : CollectChanges(s)
    BY <1>1
  <2>2. /\ history' = history
        /\ changes' = changes \ {d \in changes : SourceOf[d[2]] = s /\ \A q \in Named(s) : d[1] < q}
    BY <2>1 DEF CollectChanges
  <2>3. c[1] \in Nat
    BY InventoryAssumption DEF SourceInv, Revisions
  <2>4. ~(c[1] < r)
    BY <2>3
  <2> QED BY <2>2, <2>4
<1>2. CASE \E s \in Sources : FenceControl(s) \/ PruneControl(s)
  BY <1>2 DEF FenceControl, PruneControl
<1>3. CASE \E kept \in SUBSET controls : Clear(kept)
  BY <1>3 DEF Clear
<1>4. CASE CollectKeys \/ \E s \in Sources, b \in Revisions : CollectRoot(s, b)
  BY <1>4 DEF CollectKeys, CollectRoot
<1>5. CASE LapseLease \/ \E w \in Workers : PassStep(w) \/ Fail(w) \/ Crash(w) \/ PassDeadline(w)
  BY <1>5, LapseIsApart, PassesAreApart DEF Apart
<1> QED BY <1>1, <1>2, <1>3, <1>4, <1>5 DEF Next, SourceStep, ControlStep, Collect, SourcePublishes

LEMMA LoggedStays ==
  ASSUME SourceInv, Next, NEW v, Captured(v), Logged(v),
         \A s \in DOMAIN v : v[s].revision \in Named(s)
  PROVE  LoggedNext(v)
<1> SUFFICES ASSUME NEW s \in DOMAIN v, NEW i \in ItemsOf(s),
                    history'[s][Revision(s)'].baseline = history'[s][v[s].revision].baseline,
                    history'[s][Revision(s)'].content[i] # history'[s][v[s].revision].content[i]
             PROVE  \E c \in changes' : c[1] > v[s].revision /\ c[2] = i
  BY DEF LoggedNext
<1> DEFINE r == v[s].revision
<1>1. s \in Sources /\ r \in 1..Revision(s) /\ r \in Named(s) /\ i \in Items /\ SourceOf[i] = s
  BY DEF Captured, Vector, ItemsOf
<1>2. history'[s][r] = history[s][r]
  BY <1>1, HistoryStays
<1>3. /\ Baseline(s, Revision(s)) = Baseline(s, r)
      /\ history[s][Revision(s)].content[i] # history[s][r].content[i]
      => \E c \in changes : c[1] > r /\ c[2] = i
  BY DEF Logged, ChangedSince
<1>4. /\ history'[s][Revision(s)'].baseline = history[s][r].baseline
      /\ history'[s][Revision(s)'].content[i] # history[s][r].content[i]
  BY <1>2
<1> HIDE DEF r
<1>5. CASE SourcePublishes(s)
  <2>1. \E c \in changes' : c[1] > r /\ c[2] = i
    BY <1>1, <1>3, <1>4, <1>5, PublicationIsLogged
  <2> QED BY <2>1 DEF r
<1>6. ASSUME history'[s] = history[s],
             \A c \in changes : c[1] > r /\ c[2] = i => c \in changes'
      PROVE  \E c \in changes' : c[1] > r /\ c[2] = i
  <2>1. Revision(s)' = Revision(s)
    BY <1>6 DEF Revision
  <2>2. \E c \in changes : c[1] > r /\ c[2] = i
    BY <1>3, <1>4, <1>6, <2>1 DEF Baseline
  <2> QED BY <1>6, <2>2
<1>7. CASE \E t \in Sources \ {s} : SourcePublishes(t)
  <2>1. PICK t \in Sources \ {s} : SourcePublishes(t)
    BY <1>7
  <2>2. PICK baseline \in 1..(Revision(t) + 1), content \in [ItemsOf(t) -> Values \cup {Absent}] :
           Publishes(t, baseline, content)
    BY <2>1, PublicationCases
  <2>3. history'[s] = history[s]
    <3>1. t \in Sources /\ s \in Sources \ {t}
      BY <1>1
    <3>2. \A u \in Sources \ {t} : history'[u] = history[u]
      BY <2>2, <3>1, PublishedRow
    <3> QED BY <3>1, <3>2
  <2>4. changes \subseteq changes'
    BY <2>1 DEF SourcePublishes, PublishBaseline, PublishDelta, PublishControl, Amends
  <2> QED BY <1>6, <2>3, <2>4 DEF r
<1>8. CASE ~\E t \in Sources : SourcePublishes(t)
  <2>1. \A c \in changes : c[1] > r /\ c[2] = i => c \in changes'
    BY <1>1, <1>8, LogStays
  <2>2. history' = history
    BY <1>8, StepKinds, RootCollected DEF Still, Apart
  <2> QED BY <1>6, <2>1, <2>2 DEF r
<1> QED BY <1>5, <1>7, <1>8

LEMMA LogKept ==
  ASSUME SourceInv, VectorInv, LogInv, Next
  PROVE  LogInv'
<1>1. published # None => LoggedNext(published)
  <2> SUFFICES ASSUME published # None PROVE LoggedNext(published)
    OBVIOUS
  <2> DEFINE v == published
  <2>1. Captured(v) /\ Logged(v)
    BY DEF VectorInv, LogInv
  <2>2. \A s \in DOMAIN v : v[s].revision \in Named(s)
    BY DEF Named, NamedBy
  <2> HIDE DEF v
  <2>3. LoggedNext(v)
    BY <2>1, <2>2, LoggedStays
  <2> QED BY <2>3 DEF v
<1>2. active # None => LoggedNext(activeInputs)
  <2> SUFFICES ASSUME active # None PROVE LoggedNext(activeInputs)
    OBVIOUS
  <2> DEFINE v == activeInputs
  <2>1. Captured(v) /\ Logged(v)
    BY DEF VectorInv, LogInv
  <2>2. v # None
    BY <2>1, NullAssumption DEF Captured
  <2>3. \A s \in DOMAIN v : v[s].revision \in Named(s)
    BY <2>2 DEF Named, NamedBy
  <2> HIDE DEF v
  <2>4. LoggedNext(v)
    BY <2>1, <2>3, LoggedStays
  <2> QED BY <2>4 DEF v
<1>3. ASSUME NEW w \in Workers, Claim(w) PROVE LoggedNext(activeInputs')
  <2>1. activeInputs' = Recaptured /\ history' = history
    BY <1>3 DEF Claim
  <2>2. \A s \in DOMAIN activeInputs' : activeInputs'[s].revision = Revision(s)'
    BY <2>1 DEF Recaptured, Root, Revision
  <2> QED BY <2>2 DEF LoggedNext
<1>4. /\ published' \in {None, published} \/ (active # None /\ published' = activeInputs)
      /\ \/ active' = None
         \/ active # None /\ activeInputs' = activeInputs
         \/ LoggedNext(activeInputs')
  <2>1. CASE ClaimsStand
    BY <2>1 DEF ClaimsStand
  <2>2. ASSUME NEW w \in Workers, Request(w) \/ Publish(w) \/ Fail(w)
        PROVE  /\ published' = published \/ (active # None /\ published' = activeInputs)
               /\ \/ active' = None
                  \/ active # None /\ activeInputs' = activeInputs
    BY <2>2, InventoryAssumption DEF Request, Publish, ValidInputs, Holds, Fail
  <2>3. ASSUME NEW w \in Workers, Claim(w) PROVE published' = published
    BY <2>3 DEF Claim
  <2>4. ASSUME NEW kept \in SUBSET controls, Clear(kept) PROVE published' = None /\ active' = None
    BY <2>4 DEF Clear
  <2> QED BY <1>3, <2>1, <2>2, <2>3, <2>4, RowSteps
<1>5. published' # None => LoggedNext(published')
  BY <1>1, <1>2, <1>4
<1>6. active' # None => LoggedNext(activeInputs')
  BY <1>2, <1>4
<1> QED BY <1>5, <1>6 DEF LogInv, LoggedNext, Logged, Baseline, ChangedSince

(* Keys of what is not yet published are not collected.                      *)
LEMMA KeysStay ==
  ASSUME RowInv, Next, NEW k \in keys, k[1] > publishedSequence
  PROVE  k \in keys'
<1>1. ASSUME NEW w \in Workers, PassStep(w) PROVE k \in keys'
  <2>1. CASE ReadRoots(w) \/ RequestRefused(w) \/ NothingClaimed(w)
    BY <2>1 DEF ReadRoots, RequestRefused, NothingClaimed
  <2>2. CASE Request(w)
    BY <2>2 DEF Request
  <2>3. CASE Claim(w)
    BY <2>3 DEF Claim
  <2>4. CASE Begin(w) \/ Seed(w)
    BY <2>4 DEF Begin, Seed
  <2>5. CASE Publish(w)
    BY <2>5 DEF Publish
  <2> QED BY <1>1, <2>1, <2>2, <2>3, <2>4, <2>5 DEF PassStep
<1>2. ASSUME NEW w \in Workers, Fail(w) \/ Crash(w) \/ PassDeadline(w) PROVE k \in keys'
  BY <1>2 DEF Fail, Crash, PassDeadline
<1>3. CASE CollectKeys
  <2>1. keys' = keys \ {d \in keys : d[1] <= publishedSequence}
    BY <1>3 DEF CollectKeys
  <2>2. k[1] \in Nat /\ publishedSequence \in Nat
    BY DEF RowInv
  <2> QED BY <2>1, <2>2
<1>4. CASE LapseLease \/ \E kept \in SUBSET controls : Clear(kept)
  BY <1>4 DEF LapseLease, Clear
<1>5. CASE RowStands
  BY <1>5 DEF RowStands
<1> QED BY <1>1, <1>2, <1>3, <1>4, <1>5, SourceStepsLeaveRow DEF Next, Collect

(* As long as a claim stands, so does the publication it was made after.     *)
LEMMA ClaimStands ==
  ASSUME RowInv, Next, NEW w \in Workers, active' = w, ~Claim(w)
  PROVE  active = w /\ UNCHANGED <<published, publishedSequence, activeSequence>>
<1>1. CASE ClaimsStand
  BY <1>1 DEF ClaimsStand
<1>2. ASSUME NEW v \in Workers, Request(v) \/ Fail(v)
      PROVE  active = w /\ UNCHANGED <<published, publishedSequence, activeSequence>>
  BY <1>2, InventoryAssumption DEF Request, Fail
<1>3. ASSUME NEW v \in Workers, Claim(v) PROVE FALSE
  <2>1. v = w
    BY <1>3 DEF Claim
  <2> QED BY <1>3, <2>1
<1>4. ASSUME NEW v \in Workers, Publish(v) PROVE FALSE
  BY <1>4, InventoryAssumption DEF Publish
<1>5. ASSUME NEW kept \in SUBSET controls, Clear(kept) PROVE FALSE
  BY <1>5, InventoryAssumption DEF Clear
<1> QED BY <1>1, <1>2, <1>3, <1>4, <1>5, RowSteps

(* What a step does to a pass: it is not running, or goes on, or stands.     *)
LocalsStand(w) == pc'[w] = pc[w] /\ claim'[w] = claim[w] /\ frontier'[w] = frontier[w]

LEMMA PassKinds ==
  ASSUME RowInv, Next, NEW w \in Workers
  PROVE  \/ pc'[w] \notin Running
         \/ LocalsStand(w)
         \/ Claim(w) \/ Begin(w) \/ Seed(w)
<1>0. DOMAIN pc = Workers /\ DOMAIN claim = Workers /\ DOMAIN frontier = Workers
  BY DEF RowInv
<1>1. ASSUME NEW v \in Workers, ReadRoots(v) \/ Request(v) \/ RequestRefused(v) \/ NothingClaimed(v)
      PROVE  pc'[w] \notin Running \/ LocalsStand(w)
  <2>1. /\ \E label \in {"idle", "read", "requested"} : pc' = [pc EXCEPT ![v] = label]
        /\ UNCHANGED <<claim, frontier>>
    BY <1>1 DEF ReadRoots, Request, RequestRefused, NothingClaimed, Moves
  <2> QED BY <1>0, <2>1 DEF Running, LocalsStand
<1>2. ASSUME NEW v \in Workers \ {w}, Claim(v) PROVE LocalsStand(w)
  BY <1>0, <1>2 DEF Claim, Moves, LocalsStand
<1>3. ASSUME NEW v \in Workers \ {w}, Begin(v) PROVE LocalsStand(w)
  BY <1>0, <1>3 DEF Begin, Moves, LocalsStand
<1>4. ASSUME NEW v \in Workers \ {w}, Seed(v) PROVE LocalsStand(w)
  BY <1>0, <1>4 DEF Seed, Moves, LocalsStand
<1>5. ASSUME NEW v \in Workers, Publish(v) \/ Fail(v) \/ Crash(v)
      PROVE  pc'[w] \notin Running \/ LocalsStand(w)
  <2>1. Ended(v)
    BY <1>5 DEF Publish, Fail, Crash, Moves, Ended
  <2> QED BY <1>0, <2>1 DEF Ended, Running, LocalsStand
<1>6. ASSUME NEW v \in Workers, PassDeadline(v) PROVE LocalsStand(w)
  BY <1>6 DEF PassDeadline, LocalsStand
<1>7. ASSUME NEW kept \in SUBSET controls, Clear(kept) PROVE LocalsStand(w)
  BY <1>7 DEF Clear, LocalsStand
<1>8. LapseLease \/ CollectKeys => LocalsStand(w)
  BY DEF LapseLease, CollectKeys, LocalsStand
<1>9. RowStands => LocalsStand(w)
  BY DEF RowStands, LocalsStand
<1>10. \A v \in Workers : PassStep(v) => \/ Claim(w) \/ Begin(w) \/ Seed(w)
                                         \/ pc'[w] \notin Running \/ LocalsStand(w)
  <2> SUFFICES ASSUME NEW v \in Workers, PassStep(v)
               PROVE  Claim(w) \/ Begin(w) \/ Seed(w) \/ pc'[w] \notin Running \/ LocalsStand(w)
    OBVIOUS
  <2>1. CASE v = w
    BY <1>1, <1>5, <2>1 DEF PassStep
  <2>2. CASE v # w
    BY <1>1, <1>2, <1>3, <1>4, <1>5, <2>2 DEF PassStep
  <2> QED BY <2>1, <2>2
<1> QED BY <1>5, <1>6, <1>7, <1>8, <1>9, <1>10, SourceStepsLeaveRow DEF Next, Collect

(* Differing, of the next state.                                             *)
DifferingNext(u, v) == {i \in Items : ValuesAtNext(u)[i] # ValuesAtNext(v)[i]}

LEMMA DifferingStays ==
  ASSUME SourceInv, Next, NEW u, NEW v, Captured(u), Captured(v)
  PROVE  DifferingNext(u, v) = Differing(u, v)
<1>1. ValuesAtNext(u) = ValuesAt(u) /\ ValuesAtNext(v) = ValuesAt(v)
  BY ValuesStay
<1> QED BY <1>1 DEF DifferingNext, Differing

LEMMA KnowsOfNext ==
  ASSUME NEW w, IF pc'[w] = "derived" THEN DifferingNext(published', claim'[w].roots) \subseteq frontier'[w]
                ELSE \A i \in DifferingNext(published', claim'[w].roots) : <<claim'[w].sequence, i>> \in keys'
  PROVE  Knows(w)'
BY DEF Knows, Differing, DifferingNext, ValuesAt, ValuesAtNext

LEMMA StandingClaim ==
  ASSUME SourceInv, VectorInv, RowInv, SequenceInv, ClaimInv, Next,
         NEW w \in Workers, LocalsStand(w), ~Claim(w), pc[w] \in Running
  PROVE  ClaimOf(w)'
<1>0. ClaimOf(w) /\ Captured(claim[w].roots)
  BY DEF ClaimInv, VectorInv
<1>1. pc'[w] \in {"working", "derived"} => claim'[w].broad \/ claim'[w].rooted
  BY <1>0 DEF ClaimOf, LocalsStand
<1>2. ASSUME pc'[w] = "derived", claim'[w].broad
      PROVE  frontier'[w] = Rows(ValuesAt(claim[w].roots))'
  <2>1. frontier[w] = Rows(ValuesAt(claim[w].roots)) /\ frontier'[w] = frontier[w] /\ claim'[w] = claim[w]
    BY <1>0, <1>2 DEF ClaimOf, LocalsStand
  <2>2. ValuesAtNext(claim[w].roots) = ValuesAt(claim[w].roots)
    BY <1>0, ValuesStay
  <2>3. ValuesAt(claim[w].roots)' = ValuesAtNext(claim[w].roots)
    BY <2>1 DEF ValuesAt, ValuesAtNext
  <2> QED BY <2>1, <2>2, <2>3 DEF Rows
<1>3. ASSUME active' = w
      PROVE  /\ claim'[w].after = publishedSequence' /\ claim'[w].sequence = activeSequence'
             /\ ~claim'[w].broad => published' # None /\ Knows(w)'
  <2>1. active = w /\ UNCHANGED <<published, publishedSequence, activeSequence>>
    BY <1>3, ClaimStands
  <2>2. /\ claim[w].after = publishedSequence /\ claim[w].sequence = activeSequence
        /\ ~claim[w].broad => published # None /\ Knows(w)
    BY <1>0, <2>1 DEF ClaimOf
  <2>3. ASSUME ~claim[w].broad PROVE Knows(w)'
    <3>1. published # None /\ Captured(published) /\ Knows(w)
      BY <2>2, <2>3 DEF VectorInv
    <3> DEFINE different == Differing(published, claim[w].roots)
    <3>2. different = DifferingNext(published', claim'[w].roots)
      <4>1. DifferingNext(published, claim[w].roots) = Differing(published, claim[w].roots)
        BY <1>0, <3>1, DifferingStays
      <4>2. published' = published /\ claim'[w] = claim[w]
        BY <2>1 DEF LocalsStand
      <4> QED BY <4>1, <4>2
    <3>3. IF pc[w] = "derived" THEN different \subseteq frontier[w]
          ELSE \A i \in different : <<claim[w].sequence, i>> \in keys
      BY <3>1 DEF Knows
    <3>4. claim[w].sequence > publishedSequence
      BY <2>1, <2>2, InventoryAssumption DEF SequenceInv
    <3>5. \A i \in different : <<claim[w].sequence, i>> \in keys => <<claim[w].sequence, i>> \in keys'
      BY <3>4, KeysStay
    <3> HIDE DEF different
    <3>6. IF pc'[w] = "derived" THEN different \subseteq frontier'[w]
          ELSE \A i \in different : <<claim'[w].sequence, i>> \in keys'
      BY <3>3, <3>5 DEF LocalsStand
    <3> QED BY <3>2, <3>6, KnowsOfNext
  <2> QED BY <2>1, <2>2, <2>3 DEF LocalsStand
<1>4. claim'[w] = claim[w]
  BY DEF LocalsStand
<1> QED BY <1>1, <1>2, <1>3, <1>4 DEF ClaimOf

(* A claim that amends has the keys of all that changed since the published  *)
(* inputs: the log still has them.                                           *)
LEMMA NewClaim ==
  ASSUME SourceInv, Grows, VectorInv, RowInv, SequenceInv, LogInv, NEW w \in Workers, Next, Claim(w)
  PROVE  ClaimOf(w)'
<1> DEFINE roots == Recaptured
           sequence == IF pending = None /\ active = None THEN pendingSequence + 1 ELSE pendingSequence
           row == [NoClaim EXCEPT !.roots = roots, !.sequence = sequence,
                                  !.after = publishedSequence, !.broad = NeedsBroad(roots)]
           since(s) == IF published # None /\ s \in DOMAIN published THEN published[s].revision ELSE 0
<1>1. /\ pc' = [pc EXCEPT ![w] = "claimed"] /\ claim' = [claim EXCEPT ![w] = row]
      /\ keys' = keys \cup {<<sequence, i>> : i \in UNION {ChangedSince(s, since(s)) : s \in DOMAIN roots}}
      /\ activeSequence' = sequence /\ UNCHANGED <<published, publishedSequence, history>>
  BY DEF Claim, Moves
<1>2. Captured(roots) /\ \A s \in DOMAIN roots : roots[s].revision = Revision(s)
  <2>1. Captured(Recaptured)
    BY ClaimKeepsRow
  <2> QED BY <2>1 DEF Recaptured, Root
<1>3. pc'[w] = "claimed" /\ claim'[w] = row
  BY <1>1 DEF RowInv
<1>4. row.roots = roots /\ row.sequence = sequence /\ row.after = publishedSequence /\ row.broad = NeedsBroad(roots)
  BY DEF NoClaim
<1> HIDE DEF roots, sequence, row
<1>5. ASSUME ~NeedsBroad(roots) PROVE published # None /\ Knows(w)'
  <2>1. /\ published # None /\ DOMAIN published = DOMAIN roots
        /\ \A s \in DOMAIN roots : Baseline(s, roots[s].revision) = Baseline(s, published[s].revision)
    BY <1>5 DEF NeedsBroad
  <2>2. Captured(published) /\ Logged(published)
    BY <2>1 DEF VectorInv, LogInv
  <2>3. DifferingNext(published, roots) = Differing(published, roots)
    BY <1>2, <2>2, DifferingStays
  <2>4. ASSUME NEW i \in Differing(published, roots) PROVE <<sequence, i>> \in keys'
    <3> DEFINE s == SourceOf[i]
    <3>1. i \in Items /\ ValuesAt(published)[i] # ValuesAt(roots)[i]
      BY DEF Differing
    <3>2. s \in DOMAIN roots
      BY <2>1, <3>1 DEF ValuesAt
    <3>3. history[s][published[s].revision].content[i] # history[s][Revision(s)].content[i]
      BY <1>2, <2>1, <3>1, <3>2 DEF ValuesAt
    <3>4. i \in ItemsOf(s) /\ s \in DOMAIN published
      BY <2>1, <3>1, <3>2 DEF ItemsOf
    <3>5. Baseline(s, Revision(s)) = Baseline(s, published[s].revision)
      BY <1>2, <2>1, <3>2
    <3> HIDE DEF s
    <3>6. i \in ChangedSince(s, published[s].revision)
      BY <2>2, <3>3, <3>4, <3>5 DEF Logged
    <3>7. i \in ChangedSince(s, since(s))
      BY <2>1, <3>4, <3>6
    <3> QED BY <1>1, <3>2, <3>7
  <2>5. \A i \in DifferingNext(published', claim'[w].roots) : <<claim'[w].sequence, i>> \in keys'
    BY <1>1, <1>3, <1>4, <2>3, <2>4
  <2> QED BY <1>3, <2>1, <2>5, KnowsOfNext
<1> QED BY <1>1, <1>3, <1>4, <1>5 DEF ClaimOf

LEMMA BegunClaim ==
  ASSUME SourceInv, VectorInv, RowInv, ClaimInv, NEW w \in Workers, Next, Begin(w)
  PROVE  ClaimOf(w)'
<1> DEFINE row == [claim[w] EXCEPT !.base = out.revision, !.rooted = out.current]
<1>1. /\ pc[w] = "claimed" /\ pc'[w] = "working"
      /\ UNCHANGED <<active, activeSequence, published, publishedSequence, keys, frontier>>
      /\ claim[w].broad \/ out.current
  BY DEF Begin, Moves, ValidInputs, RowInv
<1>2. claim[w] \in ClaimRow /\ claim' = [claim EXCEPT ![w] = row]
  BY DEF Begin, RowInv
<1>3. /\ row.roots = claim[w].roots /\ row.sequence = claim[w].sequence /\ row.after = claim[w].after
      /\ row.broad = claim[w].broad /\ row.rooted = out.current
  BY <1>2 DEF ClaimRow
<1> HIDE DEF row
<1>4. claim'[w] = row
  BY <1>2 DEF RowInv
<1>5. claim'[w].broad \/ claim'[w].rooted
  BY <1>1, <1>3, <1>4
<1>6. ASSUME active' = w
      PROVE  /\ claim'[w].after = publishedSequence' /\ claim'[w].sequence = activeSequence'
             /\ ~claim'[w].broad => published' # None /\ Knows(w)'
  <2>1. /\ claim[w].after = publishedSequence /\ claim[w].sequence = activeSequence
        /\ ~claim[w].broad => published # None /\ Knows(w)
    BY <1>1, <1>6 DEF ClaimInv, ClaimOf, Running
  <2>2. ASSUME ~claim[w].broad PROVE Knows(w)'
    <3>1. published # None /\ Captured(published) /\ Captured(claim[w].roots) /\ Knows(w)
      BY <2>1, <2>2 DEF VectorInv
    <3>2. DifferingNext(published, claim[w].roots) = Differing(published, claim[w].roots)
      BY <3>1, DifferingStays
    <3>3. \A i \in Differing(published, claim[w].roots) : <<claim[w].sequence, i>> \in keys
      BY <1>1, <3>1 DEF Knows
    <3>4. \A i \in DifferingNext(published', claim'[w].roots) : <<claim'[w].sequence, i>> \in keys'
      BY <1>1, <1>3, <1>4, <3>2, <3>3
    <3> QED BY <1>1, <3>4, KnowsOfNext
  <2> QED BY <1>1, <1>3, <1>4, <2>1, <2>2
<1> QED BY <1>1, <1>5, <1>6 DEF ClaimOf

(* What was seeded is all that the claim knows, or everything.               *)
LEMMA SeededClaim ==
  ASSUME SourceInv, VectorInv, RowInv, SequenceInv, ClaimInv, NEW w \in Workers, Next, Seed(w)
  PROVE  ClaimOf(w)'
<1> DEFINE found == IF claim[w].broad THEN Rows(ValuesAt(claim[w].roots))
                    ELSE {i \in Items : \E k \in keys : /\ k[2] = i /\ claim[w].after < k[1]
                                                        /\ k[1] <= claim[w].sequence}
<1>1. /\ pc[w] = "working" /\ pc'[w] = "derived" /\ frontier' = [frontier EXCEPT ![w] = found]
      /\ UNCHANGED <<history, claim, active, activeSequence, published, publishedSequence>>
  BY DEF Seed, Moves, RowInv
<1>2. frontier'[w] = found
  BY <1>1 DEF RowInv
<1>3. ClaimOf(w)
  BY DEF ClaimInv
<1>4. claim'[w].broad \/ claim'[w].rooted
  BY <1>1, <1>3 DEF ClaimOf
<1>5. claim'[w].broad => frontier'[w] = Rows(ValuesAt(claim[w].roots))'
  <2>1. Rows(ValuesAt(claim[w].roots))' = Rows(ValuesAt(claim[w].roots))
    BY <1>1 DEF Rows, ValuesAt
  <2> QED BY <1>1, <1>2, <2>1
<1>6. ASSUME active' = w
      PROVE  /\ claim'[w].after = publishedSequence' /\ claim'[w].sequence = activeSequence'
             /\ ~claim'[w].broad => published' # None /\ Knows(w)'
  <2>1. /\ claim[w].after = publishedSequence /\ claim[w].sequence = activeSequence
        /\ ~claim[w].broad => published # None /\ Knows(w)
    BY <1>1, <1>3, <1>6 DEF ClaimOf, Running
  <2>2. ASSUME ~claim[w].broad PROVE Knows(w)'
    <3>1. published # None /\ Captured(published) /\ Captured(claim[w].roots) /\ Knows(w)
      BY <2>1, <2>2 DEF VectorInv
    <3>2. DifferingNext(published, claim[w].roots) = Differing(published, claim[w].roots)
      BY <3>1, DifferingStays
    <3>3. ASSUME NEW i \in Differing(published, claim[w].roots) PROVE i \in found
      <4>1. <<claim[w].sequence, i>> \in keys /\ i \in Items
        BY <1>1, <3>1 DEF Knows, Differing
      <4>2. /\ claim[w].after < claim[w].sequence /\ claim[w].sequence <= claim[w].sequence
        BY <1>1, <1>6, <2>1, InventoryAssumption DEF SequenceInv, RowInv
      <4> QED BY <2>2, <4>1, <4>2
    <3>4. DifferingNext(published', claim'[w].roots) \subseteq frontier'[w]
      BY <1>1, <1>2, <3>2, <3>3
    <3> QED BY <1>1, <3>4, KnowsOfNext
  <2> QED BY <1>1, <2>1, <2>2
<1> QED BY <1>1, <1>4, <1>5, <1>6 DEF ClaimOf

LEMMA ClaimsKept ==
  ASSUME SourceInv, Grows, VectorInv, RowInv, SequenceInv, LogInv, ClaimInv, Next
  PROVE  ClaimInv'
<1> SUFFICES ASSUME NEW w \in Workers PROVE ClaimOf(w)'
  BY DEF ClaimInv
<1>1. CASE pc'[w] \notin Running
  BY <1>1 DEF ClaimOf, Running
<1>2. CASE Claim(w)
  BY <1>2, NewClaim
<1>3. CASE Begin(w)
  BY <1>3, BegunClaim
<1>4. CASE Seed(w)
  BY <1>4, SeededClaim
<1>5. CASE LocalsStand(w) /\ ~Claim(w) /\ pc'[w] \in Running
  BY <1>5, StandingClaim DEF LocalsStand
<1> QED BY <1>1, <1>2, <1>3, <1>4, <1>5, PassKinds

-----------------------------------------------------------------------------
(* The publication *)

(* What a pass publishes follows its inputs.                                 *)
LEMMA PublishesDerived ==
  ASSUME SourceInv, VectorInv, RowInv, ClaimInv, OutputInv, NEW w \in Workers, Publish(w)
  PROVE  Follows(ValuesAt(claim[w].roots), out'.records)
<1> DEFINE roots == claim[w].roots
           values == ValuesAt(roots)
           old == IF claim[w].rooted THEN out.records ELSE {}
           touched == Components(values, old, frontier[w])
           kept == IF claim[w].broad \/ ~claim[w].rooted THEN {}
                   ELSE {r \in old : r.members \cap UNION touched = {}}
<1>0. PICK link \in Linkings :
        out'.records = kept \cup UNION {Records(values, C, link) : C \in touched}
  BY DEF Publish
<1>1. pc[w] = "derived" /\ active = w /\ (claim[w].broad \/ out.current)
  BY DEF Publish, Moves, ValidInputs, Holds
<1>2. Captured(roots) /\ Captured(out.inputs)
  BY DEF VectorInv
<1>3. values \in Contents
  BY <1>2, ValuesType
<1> DEFINE before == ValuesAt(out.inputs)
<1>4. before \in Contents /\ Follows(before, out.records)
  BY <1>2, ValuesType DEF OutputInv, FollowsNow
<1>5. ClaimOf(w)
  BY DEF ClaimInv
<1>6. Members(old) \in SUBSET Items
  BY <1>4 DEF Follows, RowsInOneRecord, Rows, Members
<1>7. CASE claim[w].broad
  <2>1. frontier[w] = Rows(values) /\ kept = {}
    BY <1>1, <1>5, <1>7 DEF ClaimOf
  <2> HIDE DEF old, values
  <2>2. Follows(values, UNION {Records(values, C, link) : C \in touched})
    BY <1>3, <1>6, <2>1, AllRecords DEF PutTogether
  <2> QED BY <1>0, <2>1, <2>2 DEF values
<1>8. CASE ~claim[w].broad
  <2>1. claim[w].rooted /\ published # None /\ Differing(published, roots) \subseteq frontier[w]
    BY <1>1, <1>5, <1>8 DEF ClaimOf, Knows, Running
  <2>2. published = out.inputs
    BY <1>1, <1>8 DEF OutputInv
  <2>3. \A i \in Items : before[i] # values[i] => i \in frontier[w]
    BY <2>1, <2>2 DEF Differing
  <2>4. frontier[w] \in SUBSET Items
    BY DEF RowInv
  <2>5. Follows(before, old)
    BY <1>4, <2>1
  <2>6. kept = {r \in old : r.members \cap UNION touched = {}}
    BY <1>8, <2>1
  <2>7. kept = Untouched(old, Touched(values, old, frontier[w]))
    BY <2>6 DEF Untouched, Touched
  <2> HIDE DEF before, values, old, kept
  <2>8. Follows(values, Untouched(old, Touched(values, old, frontier[w]))
                          \cup PutTogether(values, old, frontier[w], link))
    BY <1>3, <1>4, <2>3, <2>4, <2>5, AmendedRecords
  <2> QED BY <1>0, <2>7, <2>8 DEF values, PutTogether
<1> QED BY <1>7, <1>8

(* Whether records follow given values does not change with the state.       *)
LEMMA FollowsStays ==
  ASSUME NEW values, NEW records, Follows(values, records)
  PROVE  Follows(values, records)'
BY DEF Follows, RowsInOneRecord, NoneMissed, Reach, Neighbours, Rows

LEMMA OutputKept ==
  ASSUME SourceInv, VectorInv, RowInv, ClaimInv, OutputInv, Next
  PROVE  OutputInv'
<1>1. ASSUME NEW v, Captured(v), out'.inputs = v, Follows(ValuesAt(v), out'.records)
      PROVE  FollowsNow'
  <2>1. ValuesAtNext(v) = ValuesAt(v)
    BY <1>1, ValuesStay
  <2>2. ValuesAt(out.inputs)' = ValuesAtNext(v)
    BY <1>1 DEF ValuesAt, ValuesAtNext
  <2>3. PICK values, records : /\ values = ValuesAt(out.inputs)' /\ records = out'.records
                               /\ Follows(values, records)
    BY <1>1, <2>1, <2>2
  <2>4. Follows(values, records)'
    BY <2>3, FollowsStays
  <2> QED BY <2>3, <2>4 DEF FollowsNow
<1>2. ASSUME out' = out, published' = published PROVE OutputInv'
  <2>1. Captured(out.inputs) /\ Follows(ValuesAt(out.inputs), out.records)
    BY DEF VectorInv, OutputInv, FollowsNow
  <2>2. FollowsNow'
    BY <1>1, <1>2, <2>1
  <2> QED BY <1>2, <2>2 DEF OutputInv
<1>3. CASE ClaimsStand
  BY <1>2, <1>3 DEF ClaimsStand
<1>4. ASSUME NEW w \in Workers, Request(w) \/ Claim(w) \/ Fail(w) PROVE OutputInv'
  BY <1>2, <1>4 DEF Request, Claim, Fail
<1>5. ASSUME NEW w \in Workers, Publish(w) PROVE OutputInv'
  <2>1. Follows(ValuesAt(claim[w].roots), out'.records)
    BY <1>5, PublishesDerived
  <2>2. Captured(claim[w].roots) /\ out'.inputs = claim[w].roots
    BY <1>5, PublishedInputs DEF VectorInv
  <2>3. FollowsNow'
    BY <1>1, <2>1, <2>2
  <2>4. published' = out'.inputs
    BY <1>5 DEF Publish
  <2> QED BY <2>3, <2>4 DEF OutputInv
<1>6. ASSUME NEW kept \in SUBSET controls, Clear(kept) PROVE OutputInv'
  <2> DEFINE next == IF out.current THEN out.revision + 1 ELSE out.revision
  <2>1. out' = [out EXCEPT !.current = FALSE, !.revision = next]
    BY <1>6 DEF Clear
  <2>2. out \in [current : BOOLEAN, revision : Nat, inputs : Vector, records : {out.records}]
    BY DEF RowInv
  <2> HIDE DEF next
  <2>3. ~out'.current /\ out'.inputs = out.inputs /\ out'.records = out.records
    BY <2>1, <2>2
  <2>4. Captured(out.inputs) /\ Follows(ValuesAt(out.inputs), out.records)
    BY DEF VectorInv, OutputInv, FollowsNow
  <2>5. FollowsNow'
    BY <1>1, <2>3, <2>4
  <2> QED BY <2>3, <2>5 DEF OutputInv
<1> QED BY <1>3, <1>4, <1>5, <1>6, RowSteps

LEMMA InitDerivation ==
  Init => DInv
<1> SUFFICES ASSUME Init PROVE DInv
  OBVIOUS
<1>1. SequenceInv /\ LogInv
  BY DEF Init, SequenceInv, LogInv
<1>2. ClaimInv
  <2>1. \A w \in Workers : pc[w] = "idle"
    BY DEF Init
  <2> QED BY <2>1 DEF ClaimInv, ClaimOf, Running
<1>3. OutputInv
  <2>1. ~out.current /\ out.inputs = <<>> /\ out.records = {}
    BY DEF Init
  <2>2. Rows(ValuesAt(out.inputs)) = {}
    BY <2>1, NoRoots DEF Rows, ValuesAt
  <2>3. Follows(ValuesAt(out.inputs), out.records)
    BY <2>1, <2>2 DEF Follows, RowsInOneRecord
  <2> QED BY <2>1, <2>3 DEF OutputInv, FollowsNow
<1> QED BY <1>1, <1>2, <1>3 DEF DInv

LEMMA NextDerivation ==
  IInv /\ IInv' /\ DInv /\ [Next]_vars => DInv'
<1> SUFFICES ASSUME IInv, IInv', DInv, [Next]_vars PROVE DInv'
  OBVIOUS
<1>1. CASE Next
  <2>1. Grows
    BY <1>1, SourcesGrow DEF IInv
  <2>2. SequenceInv' /\ LogInv'
    BY <1>1, SequencesKept, LogKept DEF IInv, DInv
  <2>3. ClaimInv' /\ OutputInv'
    BY <1>1, <2>1, ClaimsKept, OutputKept DEF IInv, DInv
  <2> QED BY <2>2, <2>3 DEF DInv
<1>2. CASE UNCHANGED vars
  <2>1. UNCHANGED <<history, changes, pending, pendingSequence, active, activeInputs, activeSequence,
                    published, publishedSequence, keys, out, pc, claim, frontier>>
    BY <1>2 DEF vars
  <2>2. SequenceInv'
    BY <2>1 DEF DInv, SequenceInv
  <2>3. LogInv'
    BY <2>1 DEF DInv, LogInv, Logged, Baseline, Revision, ChangedSince
  <2>4. ClaimInv'
    BY <2>1 DEF DInv, ClaimInv, ClaimOf, Knows, Differing, ValuesAt, Rows
  <2>5. OutputInv'
    <3>1. PICK values, records : /\ values = ValuesAt(out.inputs) /\ records = out.records
                                 /\ Follows(values, records)
      BY DEF DInv, OutputInv, FollowsNow
    <3>2. ValuesAt(out.inputs)' = ValuesAt(out.inputs)
      BY <2>1 DEF ValuesAt
    <3>3. Follows(values, records)'
      BY <3>1, FollowsStays
    <3>4. FollowsNow'
      BY <2>1, <3>1, <3>2, <3>3 DEF FollowsNow
    <3> QED BY <2>1, <3>4 DEF DInv, OutputInv
  <2> QED BY <2>2, <2>3, <2>4, <2>5 DEF DInv
<1> QED BY <1>1, <1>2

(* Every reachable state has records that follow the inputs of its head, and *)
(* claims that know what changed.                                            *)
THEOREM DerivationInductive ==
  Spec => []DInv
BY InitDerivation, NextDerivation, Inductive, PTL DEF Spec

(* However many incremental claims led to it, and however identity           *)
(* resolution links or splits the rows of a component, the published         *)
(* inventory has each row of its inputs in one record, as it is there, and   *)
(* no record has missed a row that it matches (expand, reconcileIsolated,    *)
(* reconcileSmallComponents, publishComponents).                             *)
THEOREM PublishedFollowsInputs ==
  Spec => []OutputFollowsInputs
<1>1. DInv => OutputFollowsInputs
  BY DEF DInv, OutputInv, FollowsNow, Follows, OutputFollowsInputs
<1> QED BY <1>1, DerivationInductive, PTL
=============================================================================
