------------------------ MODULE ResultManagerProofs ------------------------
(***************************************************************************)
(* ResultManager and Reports, for any pool of results and lists of any     *)
(* length: type correctness, the overall status, the statistics, the       *)
(* cached grouping and the reports, whatever is added, filtered, sorted    *)
(* and printed.                                                            *)
(*                                                                         *)
(* The properties are about how often something is in a list.  What the    *)
(* loops over a list count is proved once per loop, with Loops.            *)
(***************************************************************************)
EXTENDS Reports, FiniteSetTheorems, TLAPS

-----------------------------------------------------------------------------
(* How often a member of a set is in a list *)

At(list, set, i) == {j \in 1..i : list[j] \in set}
Count(list, set, i) == Cardinality(At(list, set, i))
Many(list, set) == Count(list, set, Len(list))

LEMMA CountIsNat ==
    ASSUME NEW list, NEW set, NEW i \in Nat
    PROVE  Count(list, set, i) \in Nat /\ IsFiniteSet(At(list, set, i))
<1>1. IsFiniteSet(1..i) BY FS_Interval
<1>2. At(list, set, i) \in SUBSET (1..i) BY DEF At
<1>3. IsFiniteSet(At(list, set, i)) BY <1>1, <1>2, FS_Subset
<1> QED BY <1>3, FS_CardinalityType DEF Count

LEMMA CountNone ==
    ASSUME NEW list, NEW set
    PROVE  Count(list, set, 0) = 0
<1>1. At(list, set, 0) = {} BY DEF At
<1> QED BY <1>1, FS_EmptySet DEF Count

\* One more element counts once, if it is in the set.
LEMMA CountNext ==
    ASSUME NEW list, NEW set, NEW i \in Nat \ {0}
    PROVE  Count(list, set, i) = Count(list, set, i - 1) + (IF list[i] \in set THEN 1 ELSE 0)
<1>1. i - 1 \in Nat /\ 1..i = 1..(i - 1) \cup {i} /\ i \notin 1..(i - 1) OBVIOUS
<1>2. IsFiniteSet(At(list, set, i - 1)) /\ Count(list, set, i - 1) \in Nat
  BY <1>1, CountIsNat
<1>3. i \notin At(list, set, i - 1) BY <1>1 DEF At
<1>4. CASE list[i] \in set
  <2>1. At(list, set, i) = At(list, set, i - 1) \cup {i} BY <1>1, <1>4 DEF At
  <2> QED BY <1>2, <1>3, <1>4, <2>1, FS_AddElement DEF Count
<1>5. CASE list[i] \notin set
  <2>1. At(list, set, i) = At(list, set, i - 1) BY <1>1, <1>5 DEF At
  <2> QED BY <1>2, <1>5, <2>1 DEF Count
<1> QED BY <1>4, <1>5

\* Lists that agree up to i count alike up to i.
LEMMA CountAgrees ==
    ASSUME NEW list, NEW other, NEW set, NEW i \in Nat, \A j \in 1..i : list[j] = other[j]
    PROVE  Count(list, set, i) = Count(other, set, i)
<1>1. At(list, set, i) = At(other, set, i) BY DEF At
<1> QED BY <1>1 DEF Count

LEMMA CountAppended ==
    ASSUME NEW list \in Seq(Pool), NEW r \in Pool, NEW set
    PROVE  Count(Append(list, r), set, Len(Append(list, r))) =
               Count(list, set, Len(list)) + (IF r \in set THEN 1 ELSE 0)
<1> DEFINE more == Append(list, r)
           n == Len(list)
<1>1. n \in Nat /\ Len(more) = n + 1 /\ more[n + 1] = r /\ \A j \in 1..n : more[j] = list[j]
  OBVIOUS
<1> HIDE DEF more, n
<1>2. Count(more, set, n + 1) = Count(more, set, n) + (IF more[n + 1] \in set THEN 1 ELSE 0)
  <2>1. n + 1 \in Nat \ {0} /\ (n + 1) - 1 = n BY <1>1
  <2> QED BY <2>1, CountNext
<1>3. Count(more, set, n) = Count(list, set, n) BY <1>1, CountAgrees
<1>4. Count(more, set, Len(more)) = Count(list, set, n) + (IF r \in set THEN 1 ELSE 0)
  BY <1>1, <1>2, <1>3
<1> QED BY <1>4 DEF more, n

-----------------------------------------------------------------------------
(* Comprehensions *)

SelectedStart(p) == <<>>
SelectedTurn(p, x, i) == IF p[1][i] \in p[2] THEN Append(x, p[1][i]) ELSE x
SelectedGood(p, x, i) ==
    /\ x \in Seq(Pool)
    /\ \A set : Count(x, set, Len(x)) = Count(p[1], p[2] \cap set, i)

SelectedLoop == INSTANCE Loops WITH
    Start <- SelectedStart, Turn <- SelectedTurn, Good <- SelectedGood

\* A comprehension has the results of the list that are in the set, each as often.
LEMMA SelectedCounts ==
    ASSUME NEW list \in Seq(Pool), NEW set
    PROVE  /\ Selected(list, set) \in Seq(Pool)
           /\ \A other : Count(Selected(list, set), other, Len(Selected(list, set))) =
                             Count(list, set \cap other, Len(list))
<1> DEFINE p == <<list, set>>
           n == Len(list)
<1>1. n \in Nat /\ \A i \in 1..n : list[i] \in Pool OBVIOUS
<1>2. SelectedGood(p, SelectedStart(p), 0)
  <2>1. <<>> \in Seq(Pool) /\ Len(<<>>) = 0 OBVIOUS
  <2> QED BY <2>1, CountNone DEF SelectedGood, SelectedStart
<1>3. ASSUME NEW i \in 1..n, NEW x, SelectedGood(p, x, i - 1)
      PROVE  SelectedGood(p, SelectedTurn(p, x, i), i)
  <2> SUFFICES ASSUME NEW k
               PROVE  /\ SelectedTurn(p, x, i) \in Seq(Pool)
                      /\ Count(SelectedTurn(p, x, i), k, Len(SelectedTurn(p, x, i))) =
                             Count(list, set \cap k, i)
    BY DEF SelectedGood
  <2>1. x \in Seq(Pool) /\ Count(x, k, Len(x)) = Count(list, set \cap k, i - 1)
    BY <1>3 DEF SelectedGood
  <2>2. i \in Nat \ {0} /\ list[i] \in Pool BY <1>1
  <2>3. Count(list, set \cap k, i) =
            Count(list, set \cap k, i - 1) + (IF list[i] \in set \cap k THEN 1 ELSE 0)
    BY <2>2, CountNext
  <2>4. Len(x) \in Nat /\ Count(x, k, Len(x)) \in Nat BY <2>1, CountIsNat
  <2>5. CASE list[i] \in set
    <3>1. SelectedTurn(p, x, i) = Append(x, list[i]) BY <2>5 DEF SelectedTurn
    <3>2. Count(Append(x, list[i]), k, Len(Append(x, list[i]))) =
              Count(x, k, Len(x)) + (IF list[i] \in k THEN 1 ELSE 0)
      BY <2>1, <2>2, CountAppended
    <3>3. Append(x, list[i]) \in Seq(Pool) BY <2>1, <2>2
    <3>4. list[i] \in set \cap k <=> list[i] \in k BY <2>5
    <3> QED BY <2>1, <2>3, <3>1, <3>2, <3>3, <3>4
  <2>6. CASE list[i] \notin set
    <3>1. SelectedTurn(p, x, i) = x /\ list[i] \notin set \cap k BY <2>6 DEF SelectedTurn
    <3> QED BY <2>1, <2>3, <2>4, <3>1
  <2> QED BY <2>5, <2>6
<1>4. /\ \E f : SelectedLoop!Unrolls(p, f, n)
      /\ \A f : SelectedLoop!Unrolls(p, f, n) => \A i \in 0..n : SelectedGood(p, f[i], i)
  <2> HIDE DEF p, n
  <2> QED BY <1>1, <1>2, <1>3, SelectedLoop!LoopInvariant
<1>5. \A f : SelectedLoop!Unrolls(p, f, n) <=>
             f = [i \in 0..n |-> IF i = 0 THEN <<>>
                                 ELSE IF list[i] \in set THEN Append(f[i - 1], list[i]) ELSE f[i - 1]]
  BY DEF SelectedLoop!Unrolls, SelectedStart, SelectedTurn
<1>6. \E f : SelectedGood(p, f[n], n) /\ Selected(list, set) = f[n]
  <2> DEFINE upTo == CHOOSE f : f = [i \in 0..n |-> IF i = 0 THEN <<>>
                                 ELSE IF list[i] \in set THEN Append(f[i - 1], list[i]) ELSE f[i - 1]]
  <2>1. Selected(list, set) = upTo[n] BY DEF Selected
  <2>2. upTo = [i \in 0..n |-> IF i = 0 THEN <<>>
                       ELSE IF list[i] \in set THEN Append(upTo[i - 1], list[i]) ELSE upTo[i - 1]]
    <3>1. \E f : f = [i \in 0..n |-> IF i = 0 THEN <<>>
                         ELSE IF list[i] \in set THEN Append(f[i - 1], list[i]) ELSE f[i - 1]]
      BY <1>4, <1>5
    <3> QED BY <3>1
  <2>3. SelectedLoop!Unrolls(p, upTo, n) BY <1>5, <2>2
  <2>4. n \in 0..n BY <1>1
  <2> HIDE DEF upTo, p
  <2> QED BY <1>4, <2>1, <2>3, <2>4
<1> QED BY <1>6 DEF SelectedGood

-----------------------------------------------------------------------------
(* Sorting *)

\* A sorted list has the same results, each as often.
LEMMA PermutedCounts ==
    ASSUME NEW list \in Seq(Pool), NEW sorted \in Permuted(list)
    PROVE  /\ sorted \in Seq(Pool) /\ Len(sorted) = Len(list)
           /\ \A set : Count(sorted, set, Len(sorted)) = Count(list, set, Len(list))
<1> DEFINE n == Len(list)
<1>1. n \in Nat /\ DOMAIN list = 1..n /\ \A i \in 1..n : list[i] \in Pool OBVIOUS
<1>2. IsFiniteSet(1..n) /\ Cardinality(1..n) = n
  <2> HIDE DEF n
  <2>1. Cardinality(1..n) = IF 1 > n THEN 0 ELSE n - 1 + 1 BY <1>1, FS_Interval
  <2> QED BY <1>1, <2>1, FS_Interval
<1>3. PICK p \in SetToSeqs(1..n) : sorted = [i \in 1..n |-> list[p[i]]]
  BY <1>1 DEF Permuted
<1>4. p \in [1..n -> 1..n] /\ \A i, j \in 1..n : i # j => p[i] # p[j]
  BY <1>2, <1>3 DEF SetToSeqs
<1>5. p \in Injection(1..n, 1..n)
  BY <1>4 DEF Injection, IsInjective
<1>6. p \in Surjection(1..n, 1..n)
  BY <1>2, <1>5, FS_Injection
<1>7. sorted \in Seq(Pool) /\ Len(sorted) = n
  BY <1>1, <1>3, <1>4
<1>8. \A i \in 1..n : sorted[i] = list[p[i]]
  BY <1>3
<1>9. ASSUME NEW set
      PROVE  Count(sorted, set, n) = Count(list, set, n)
  <2> DEFINE here == At(sorted, set, n)
             there == At(list, set, n)
             q == [i \in here |-> p[i]]
  <2>1. here \subseteq 1..n BY DEF At
  <2>2. q \in [here -> there] BY <1>4, <1>8, <2>1 DEF At
  <2>3. \A i, j \in here : q[i] = q[j] => i = j BY <1>4, <2>1
  <2>4. ASSUME NEW k \in there PROVE \E i \in here : q[i] = k
    <3>1. k \in 1..n /\ list[k] \in set BY DEF At
    <3>2. PICK i \in 1..n : p[i] = k BY <1>6, <3>1 DEF Surjection
    <3>3. i \in here BY <1>8, <3>1, <3>2 DEF At
    <3> QED BY <3>2, <3>3
  <2>5. q \in Bijection(here, there)
    <3> HIDE DEF q, here, there
    <3>1. q \in Injection(here, there) BY <2>2, <2>3 DEF Injection, IsInjective
    <3>2. q \in Surjection(here, there) BY <2>2, <2>4 DEF Surjection
    <3> QED BY <3>1, <3>2 DEF Bijection
  <2>6. IsFiniteSet(here) BY <1>1, CountIsNat
  <2>7. Cardinality(there) = Cardinality(here)
    <3> HIDE DEF q, here, there
    <3> QED BY <2>5, <2>6, FS_Bijection DEF ExistsBijection
  <2> QED BY <2>7 DEF Count
<1> QED BY <1>7, <1>9

\* What a list has, by counting: something is in it if it counts.
LEMMA CountedIsThere ==
    ASSUME NEW list, NEW set, NEW n \in Nat
    PROVE  Count(list, set, n) = 0 <=> \A i \in 1..n : list[i] \notin set
<1>1. IsFiniteSet(At(list, set, n)) BY CountIsNat
<1>2. Count(list, set, n) = 0 <=> At(list, set, n) = {} BY <1>1, FS_EmptySet DEF Count
<1> QED BY <1>2 DEF At

\* So lists that count alike have the same results.
LEMMA SameMembers ==
    ASSUME NEW list \in Seq(Pool), NEW other \in Seq(Pool),
           \A set : Count(list, set, Len(list)) = Count(other, set, Len(other)),
           NEW i \in 1..Len(list)
    PROVE  \E j \in 1..Len(other) : other[j] = list[i]
<1>1. Len(list) \in Nat /\ Len(other) \in Nat OBVIOUS
<1>2. Count(list, {list[i]}, Len(list)) # 0 BY <1>1, CountedIsThere
<1>3. Count(other, {list[i]}, Len(other)) # 0 BY <1>2
<1> QED BY <1>1, <1>3, CountedIsThere

-----------------------------------------------------------------------------
(* Filters *)

LEMMA CountJoined ==
    ASSUME NEW list \in Seq(Pool), NEW other \in Seq(Pool), NEW set
    PROVE  /\ list \o other \in Seq(Pool)
           /\ Count(list \o other, set, Len(list \o other)) =
                  Count(list, set, Len(list)) + Count(other, set, Len(other))
<1> DEFINE m == Len(list)
           n == Len(other)
           both == list \o other
           here == At(list, set, m)
           there == At(other, set, n)
           moved == {m + j : j \in there}
<1>1. m \in Nat /\ n \in Nat OBVIOUS
<1>2. /\ both \in Seq(Pool) /\ Len(both) = m + n
      /\ \A j \in 1..m : both[j] = list[j]
      /\ \A j \in 1..n : both[m + j] = other[j]
  OBVIOUS
<1> HIDE DEF both, m, n
<1>3. At(both, set, m + n) = here \cup moved
  <2>1. ASSUME NEW k \in At(both, set, m + n) PROVE k \in here \cup moved
    <3>1. k \in 1..(m + n) /\ both[k] \in set BY DEF At
    <3>2. CASE k <= m BY <1>1, <1>2, <3>1, <3>2 DEF At
    <3>3. CASE k > m
      <4>1. k - m \in 1..n /\ k = m + (k - m) BY <1>1, <3>1, <3>3
      <4>2. k - m \in there BY <1>2, <3>1, <4>1 DEF At
      <4> QED BY <4>1, <4>2
    <3> QED BY <1>1, <3>1, <3>2, <3>3
  <2>2. here \subseteq At(both, set, m + n) BY <1>1, <1>2 DEF At
  <2>3. ASSUME NEW j \in there PROVE m + j \in At(both, set, m + n)
    <3>1. j \in 1..n /\ other[j] \in set BY DEF At
    <3>2. m + j \in 1..(m + n) BY <1>1, <3>1
    <3> QED BY <1>2, <3>1, <3>2 DEF At
  <2> QED BY <2>1, <2>2, <2>3
<1>4. here \cap moved = {}
  <2> SUFFICES ASSUME NEW j \in there, m + j \in here PROVE FALSE OBVIOUS
  <2>1. j \in 1..n /\ m + j \in 1..m BY DEF At
  <2> QED BY <1>1, <2>1
<1>5. IsFiniteSet(here) /\ IsFiniteSet(there) BY <1>1, CountIsNat
<1>6. IsFiniteSet(moved) /\ Cardinality(moved) = Cardinality(there)
  <2> DEFINE q == [j \in there |-> m + j]
  <2>1. \A j \in there : j \in Nat BY <1>1 DEF At
  <2>2. q \in Bijection(there, moved)
    <3>1. q \in [there -> moved] /\ \A k \in moved : \E j \in there : q[j] = k OBVIOUS
    <3>2. \A i, j \in there : q[i] = q[j] => i = j BY <1>1, <2>1
    <3> HIDE DEF q, there, moved
    <3> QED BY <3>1, <3>2 DEF Bijection, Injection, Surjection, IsInjective
  <2> HIDE DEF q, there, moved
  <2> QED BY <1>5, <2>2, FS_Bijection DEF ExistsBijection
<1>7. Cardinality(here \cup moved) = Cardinality(here) + Cardinality(moved)
  <2> HIDE DEF here, moved
  <2>1. Cardinality(here \cap moved) = 0
    <3>1. IsFiniteSet(here \cap moved) BY <1>5, FS_Intersection
    <3> QED BY <1>4, <3>1, FS_EmptySet
  <2>2. Cardinality(here) \in Nat /\ Cardinality(moved) \in Nat
    BY <1>5, <1>6, FS_CardinalityType
  <2>3. Cardinality(here \cup moved) = Cardinality(here) + Cardinality(moved) - Cardinality(here \cap moved)
    BY <1>5, <1>6, FS_Union
  <2> QED BY <2>1, <2>2, <2>3
<1>8. Count(both, set, m + n) = Count(list, set, m) + Count(other, set, n)
  BY <1>3, <1>6, <1>7 DEF Count
<1>9. Count(both, set, Len(both)) = Count(list, set, m) + Count(other, set, n)
  BY <1>2, <1>8
<1> QED BY <1>2, <1>9 DEF both, m, n

LEMMA FiniteStatuses == IsFiniteSet(Statuses)
<1> DEFINE f == [i \in 1..5 |-> <<"unset", "success", "failure", "error", "skipped">>[i]]
<1>1. f \in Surjection(1..5, Statuses)
  <2>1. /\ f[1] = "unset" /\ f[2] = "success" /\ f[3] = "failure" /\ f[4] = "error"
        /\ f[5] = "skipped" /\ DOMAIN f = 1..5
    OBVIOUS
  <2>2. \A i \in 1..5 : f[i] \in Statuses BY <2>1 DEF Statuses
  <2>3. f \in [1..5 -> Statuses] BY <2>2
  <2>4. \A s \in Statuses : \E i \in 1..5 : f[i] = s BY <2>1 DEF Statuses
  <2> HIDE DEF f
  <2> QED BY <2>3, <2>4 DEF Surjection
<1> HIDE DEF f
<1>2. 1 \in Int /\ 5 \in Int => IsFiniteSet(1..5) BY FS_Interval
<1> QED BY <1>1, <1>2, FS_Surjection

\* A grouping by status, as it is cached: whatever it holds under a status has it.
IsGrouping(g) ==
    g \in [Statuses -> Seq(Pool)]
    /\ \A s \in Statuses : \A i \in 1..Len(g[s]) : g[s][i].result = s

\* The lists of the grouping p[2], one after the other in the order p[1].
JoinedStart(p) == <<>>
JoinedTurn(p, x, i) == IF i = 1 THEN p[2][p[1][i]] ELSE x \o p[2][p[1][i]]
JoinedGood(p, x, i) ==
    /\ x \in Seq(Pool)
    /\ i = 0 => x = <<>>
    /\ \A s \in Statuses : \A set :
           Many(x, Having(s) \cap set) = IF \E j \in 1..i : p[1][j] = s THEN Many(p[2][s], set) ELSE 0

JoinedLoop == INSTANCE Loops WITH
    Start <- JoinedStart, Turn <- JoinedTurn, Good <- JoinedGood

\* Nothing of another status is in a list of a grouping.
LEMMA GroupingIsSorted ==
    ASSUME NEW g, IsGrouping(g), NEW s \in Statuses, NEW other \in Statuses, NEW set
    PROVE  Many(g[s], Having(other) \cap set) = IF other = s THEN Many(g[s], set) ELSE 0
<1>1. /\ Len(g[s]) \in Nat
      /\ \A i \in 1..Len(g[s]) : g[s][i] \in Having(other) <=> other = s
  BY DEF IsGrouping, Having
<1>2. CASE other = s
  <2>1. At(g[s], Having(other) \cap set, Len(g[s])) = At(g[s], set, Len(g[s]))
    BY <1>1, <1>2 DEF At
  <2> QED BY <1>2, <2>1 DEF Many, Count
<1>3. CASE other # s
  <2>1. \A i \in 1..Len(g[s]) : g[s][i] \notin Having(other) \cap set BY <1>1, <1>3
  <2> QED BY <1>1, <1>3, <2>1, CountedIsThere DEF Many
<1> QED BY <1>2, <1>3

LEMMA JoinedSteps ==
    ASSUME NEW g, IsGrouping(g), NEW m \in Nat, NEW order \in [1..m -> Statuses],
           \A i, j \in 1..m : i # j => order[i] # order[j]
    PROVE  LET p == <<order, g>>
           IN  /\ \E f : JoinedLoop!Unrolls(p, f, m)
               /\ \A f : JoinedLoop!Unrolls(p, f, m) => \A i \in 0..m : JoinedGood(p, f[i], i)
<1> DEFINE p == <<order, g>>
<1>1. JoinedGood(p, JoinedStart(p), 0)
  <2>1. <<>> \in Seq(Pool) /\ Len(<<>>) = 0 OBVIOUS
  <2>2. \A set : Many(<<>>, set) = 0 BY <2>1, CountNone DEF Many
  <2> QED BY <2>1, <2>2 DEF JoinedGood, JoinedStart
<1>2. ASSUME NEW i \in 1..m, NEW x, JoinedGood(p, x, i - 1)
      PROVE  JoinedGood(p, JoinedTurn(p, x, i), i)
  <2> DEFINE next == order[i]
             y == JoinedTurn(p, x, i)
  <2>1. next \in Statuses /\ g[next] \in Seq(Pool) /\ x \in Seq(Pool) /\ i # 0 /\ i - 1 \in Nat
    BY <1>2 DEF IsGrouping, JoinedGood
  <2>2. y \in Seq(Pool) /\ \A set : Many(y, set) = Many(x, set) + Many(g[next], set)
    <3>1. CASE i = 1
      <4>1. x = <<>> /\ y = g[next] BY <1>2, <3>1 DEF JoinedGood, JoinedTurn
      <4>2. \A set : Many(x, set) = 0 /\ Many(g[next], set) \in Nat
        <5>1. Len(<<>>) = 0 /\ Len(g[next]) \in Nat BY <2>1
        <5> QED BY <4>1, <5>1, CountNone, CountIsNat DEF Many
      <4>3. \A set : Many(y, set) = Many(g[next], set) BY <4>1
      <4> HIDE DEF y, next
      <4>4. \A set : Many(y, set) = Many(x, set) + Many(g[next], set) BY <4>2, <4>3
      <4> QED BY <2>1, <4>1, <4>4
    <3>2. CASE i # 1
      <4>1. y = x \o g[next] BY <3>2 DEF JoinedTurn
      <4> HIDE DEF y, next
      <4>2. y \in Seq(Pool) BY <2>1, <4>1
      <4>3. ASSUME NEW set PROVE Many(y, set) = Many(x, set) + Many(g[next], set)
        <5>1. Count(x \o g[next], set, Len(x \o g[next])) =
                  Count(x, set, Len(x)) + Count(g[next], set, Len(g[next]))
          BY <2>1, CountJoined
        <5> QED BY <4>1, <5>1 DEF Many
      <4> QED BY <4>2, <4>3
    <3> QED BY <3>1, <3>2
  <2>3. ASSUME NEW s \in Statuses, NEW set
        PROVE  Many(y, Having(s) \cap set) = IF \E j \in 1..i : order[j] = s THEN Many(g[s], set) ELSE 0
    <3>1. /\ Many(y, Having(s) \cap set) = Many(x, Having(s) \cap set) + Many(g[next], Having(s) \cap set)
          /\ Many(x, Having(s) \cap set) =
                 IF \E j \in 1..(i - 1) : order[j] = s THEN Many(g[s], set) ELSE 0
      BY <1>2, <2>2 DEF JoinedGood
    <3>2. Many(g[next], Having(s) \cap set) = IF s = next THEN Many(g[next], set) ELSE 0
      <4> HIDE DEF next, y, p
      <4>1. next \in Statuses BY <2>1
      <4>2. Many(g[next], Having(s) \cap set) = IF s = next THEN Many(g[next], set) ELSE 0
        BY ONLY IsGrouping(g), s \in Statuses, <4>1, GroupingIsSorted
      <4> QED BY <4>2
    <3>3. Many(g[s], set) \in Nat
      <4>1. Len(g[s]) \in Nat BY DEF IsGrouping
      <4> QED BY <4>1, CountIsNat DEF Many
    <3>4. CASE s = next
      <4>1. ~ \E j \in 1..(i - 1) : order[j] = s BY <3>4
      <4>2. \E j \in 1..i : order[j] = s BY <3>4
      <4> QED BY <3>1, <3>2, <3>3, <3>4, <4>1, <4>2
    <3>5. CASE s # next
      <4>1. (\E j \in 1..i : order[j] = s) <=> \E j \in 1..(i - 1) : order[j] = s
        BY <3>5
      <4> QED BY <3>1, <3>2, <3>3, <3>5, <4>1
    <3> QED BY <3>4, <3>5
  <2> QED BY <2>1, <2>2, <2>3 DEF JoinedGood
<1> HIDE DEF p
<1>3. /\ \E f : JoinedLoop!Unrolls(p, f, m)
      /\ \A f : JoinedLoop!Unrolls(p, f, m) => \A i \in 0..m : JoinedGood(p, f[i], i)
  BY <1>1, <1>2, JoinedLoop!LoopInvariant
<1> QED BY <1>3 DEF p

\* get_results of all but some statuses: the results of the grouping that have none of
\* them, each as often, in whatever order the statuses come.
LEMMA KeptCounts ==
    ASSUME IsGrouping(Read), NEW hide, NEW order \in Orders(hide)
    PROVE  /\ Kept(order) \in Seq(Pool)
           /\ \A s \in Statuses : \A set :
                  Many(Kept(order), Having(s) \cap set) = IF s \in hide THEN 0 ELSE Many(Read[s], set)
<1> DEFINE shown == {s \in Statuses \ hide : Read[s] # <<>>}
           m == Cardinality(shown)
           p == <<order, Read>>
           seqs == [i \in DOMAIN order |-> Read[order[i]]]
<1>1. IsFiniteSet(shown)
  <2>1. shown \in SUBSET Statuses OBVIOUS
  <2> HIDE DEF shown
  <2> QED BY <2>1, FiniteStatuses, FS_Subset
<1>2. m \in Nat /\ IsFiniteSet(1..m) /\ Cardinality(1..m) = m
  <2> HIDE DEF shown
  <2>1. m \in Nat BY <1>1, FS_CardinalityType
  <2> HIDE DEF m
  <2>2. Cardinality(1..m) = IF 1 > m THEN 0 ELSE m - 1 + 1 BY <2>1, FS_Interval
  <2> QED BY <2>1, <2>2, FS_Interval
<1>3. order \in [1..m -> shown] /\ \A i, j \in 1..m : i # j => order[i] # order[j]
  BY DEF Orders, SetToSeqs
<1>4. \A s \in shown : \E i \in 1..m : order[i] = s
  <2> HIDE DEF shown
  <2>1. order \in Injection(1..m, shown) BY <1>3 DEF Injection, IsInjective
  <2>2. order \in Surjection(1..m, shown)
    <3> HIDE DEF m
    <3> QED BY <1>1, <1>2, <2>1, FS_Injection DEF m
  <2> QED BY <2>2 DEF Surjection
<1>5. /\ \E f : JoinedLoop!Unrolls(p, f, m)
      /\ \A f : JoinedLoop!Unrolls(p, f, m) => \A i \in 0..m : JoinedGood(p, f[i], i)
  <2>1. order \in [1..m -> Statuses] BY <1>3
  <2> HIDE DEF m
  <2> QED BY <1>2, <1>3, <2>1, JoinedSteps
<1> HIDE DEF m
<1>6. JoinedGood(p, Kept(order), m)
  <2>1. DOMAIN seqs = 1..m /\ Len(seqs) = m /\ \A i \in 1..m : seqs[i] = Read[order[i]]
    BY <1>2, <1>3
  <2>2. CASE m = 0
    <3>1. Kept(order) = seqs /\ seqs = <<>> BY <2>1, <2>2 DEF Kept, FlattenSeq
    <3>2. JoinedGood(p, JoinedStart(p), 0)
      <4>1. PICK f : JoinedLoop!Unrolls(p, f, m) BY <1>5
      <4>2. f[0] = JoinedStart(p) BY <2>2, <4>1 DEF JoinedLoop!Unrolls
      <4> QED BY <1>5, <2>2, <4>1, <4>2
    <3> QED BY <2>2, <3>1, <3>2 DEF JoinedStart
  <2>3. CASE m # 0
    <3> DEFINE Flat(f) == f = [i \in 1..m |-> IF i = 1 THEN seqs[i] ELSE f[i - 1] \o seqs[i]]
    <3>1. Kept(order) = (CHOOSE f : Flat(f))[m] BY <2>1, <2>3 DEF Kept, FlattenSeq
    <3>2. \E f : Flat(f)
      <4>1. PICK g : JoinedLoop!Unrolls(p, g, m) BY <1>5
      <4> DEFINE f == [i \in 1..m |-> g[i]]
      <4>2. \A i \in 1..m : g[i] = JoinedTurn(p, g[i - 1], i)
        BY <1>2, <4>1 DEF JoinedLoop!Unrolls
      <4>3. \A i \in 1..m : f[i] = IF i = 1 THEN seqs[i] ELSE f[i - 1] \o seqs[i]
        BY <1>2, <2>1, <4>2 DEF JoinedTurn
      <4>4. f = [i \in 1..m |-> f[i]] OBVIOUS
      <4>5. Flat(f)
        <5> HIDE DEF f, seqs
        <5> QED BY <4>3, <4>4
      <4> QED BY <4>5
    <3>3. ASSUME NEW f, Flat(f) PROVE JoinedGood(p, f[m], m)
      <4> DEFINE g == [i \in 0..m |-> IF i = 0 THEN <<>> ELSE f[i]]
      <4>1. \A i \in 1..m : f[i] = IF i = 1 THEN seqs[i] ELSE f[i - 1] \o seqs[i]
        <5> HIDE DEF seqs
        <5> QED BY <3>3
      <4>2. \A i \in 0..m : g[i] = IF i = 0 THEN JoinedStart(p) ELSE JoinedTurn(p, g[i - 1], i)
        BY <1>2, <2>1, <4>1 DEF JoinedStart, JoinedTurn
      <4>3. g = [i \in 0..m |-> g[i]] OBVIOUS
      <4>4. JoinedLoop!Unrolls(p, g, m)
        <5> HIDE DEF g, p
        <5> QED BY <4>2, <4>3 DEF JoinedLoop!Unrolls
      <4>5. g[m] = f[m] /\ m \in 0..m BY <1>2, <2>3
      <4> HIDE DEF g, p
      <4> QED BY <1>5, <4>4, <4>5
    <3>4. Flat(CHOOSE f : Flat(f))
      <4> HIDE DEF seqs
      <4> QED BY <3>2
    <3> HIDE DEF Flat, p
    <3> QED BY <3>1, <3>3, <3>4
  <2> QED BY <2>2, <2>3
<1>7. ASSUME NEW s \in Statuses, NEW set
      PROVE  Many(Kept(order), Having(s) \cap set) = IF s \in hide THEN 0 ELSE Many(Read[s], set)
  <2>1. Many(Kept(order), Having(s) \cap set) =
            IF \E j \in 1..m : order[j] = s THEN Many(Read[s], set) ELSE 0
    BY <1>6 DEF JoinedGood
  <2>2. (\E j \in 1..m : order[j] = s) <=> s \in shown
    <3> HIDE DEF shown
    <3> QED BY <1>3, <1>4
  <2>3. Read[s] = <<>> => Many(Read[s], set) = 0
    <3>1. Len(<<>>) = 0 OBVIOUS
    <3> QED BY <3>1, CountNone DEF Many
  <2> QED BY <2>1, <2>2, <2>3
<1> QED BY <1>6, <1>7 DEF JoinedGood

-----------------------------------------------------------------------------
(* Statistics *)

ByName(n, s)     == {r \in Pool : r.name = n /\ r.result = s}
ByTest(t, s)     == {r \in Pool : r.test = t /\ r.result = s}
ByCategory(c, s) == {r \in Pool : c \in CategoriesOf[r.test] /\ r.result = s}
Failing(n, t)    == {r \in Pool : r.name = n /\ r.test = t /\ r.result \in Bad}

StatsType ==
    [device   : [Names -> [count : [Statuses -> Nat], failed : SUBSET Tests,
                           failedCats : SUBSET Categories, skippedCats : SUBSET Categories]],
     category : [Categories -> [Statuses -> Nat]],
     test     : [Tests -> [count : [Statuses -> Nat], failed : SUBSET Names]]]

\* The statistics st count the first i results of the list, and name the failures.
Exact(st, list, i) ==
    /\ \A n \in Names, s \in Statuses : st.device[n].count[s] = Count(list, ByName(n, s), i)
    /\ \A t \in Tests, s \in Statuses : st.test[t].count[s] = Count(list, ByTest(t, s), i)
    /\ \A c \in Categories, s \in Statuses : st.category[c][s] = Count(list, ByCategory(c, s), i)
    /\ \A n \in Names, t \in Tests :
           /\ t \in st.device[n].failed <=> Count(list, Failing(n, t), i) # 0
           /\ n \in st.test[t].failed <=> Count(list, Failing(n, t), i) # 0

LEMMA ResultFields ==
    ASSUME NEW r \in Pool
    PROVE  /\ r.name \in Names /\ r.test \in Tests /\ r.result \in Statuses
           /\ CategoriesOf[r.test] \subseteq Categories
BY ResultAssumption DEF Result

LEMMA NoStatsExact ==
    ASSUME NEW list
    PROVE  NoStats \in StatsType /\ Exact(NoStats, list, 0)
<1>1. Zero \in [Statuses -> Nat] BY DEF Zero
<1>2. NoStats \in StatsType BY <1>1 DEF NoStats, StatsType
<1>3. \A n \in Names : NoStats.device[n].count = Zero /\ NoStats.device[n].failed = {}
  BY DEF NoStats
<1>4. \A t \in Tests : NoStats.test[t].count = Zero /\ NoStats.test[t].failed = {}
  BY DEF NoStats
<1>5. \A c \in Categories : NoStats.category[c] = Zero BY DEF NoStats
<1>6. \A s \in Statuses : Zero[s] = 0 BY DEF Zero
<1>7. \A set : Count(list, set, 0) = 0 BY CountNone
<1> QED BY <1>2, <1>3, <1>4, <1>5, <1>6, <1>7 DEF Exact

\* One more result counts in its device, its test and its categories, and nowhere else.
LEMMA CountedStats ==
    ASSUME NEW st \in StatsType, NEW r \in Pool
    PROVE  /\ Counted(st, r) \in StatsType
           /\ \A n \in Names, s \in Statuses :
                  Counted(st, r).device[n].count[s] =
                      st.device[n].count[s] + (IF r \in ByName(n, s) THEN 1 ELSE 0)
           /\ \A t \in Tests, s \in Statuses :
                  Counted(st, r).test[t].count[s] =
                      st.test[t].count[s] + (IF r \in ByTest(t, s) THEN 1 ELSE 0)
           /\ \A c \in Categories, s \in Statuses :
                  Counted(st, r).category[c][s] =
                      st.category[c][s] + (IF r \in ByCategory(c, s) THEN 1 ELSE 0)
           /\ \A n \in Names, t \in Tests :
                  /\ t \in Counted(st, r).device[n].failed <=>
                         t \in st.device[n].failed \/ r \in Failing(n, t)
                  /\ n \in Counted(st, r).test[t].failed <=>
                         n \in st.test[t].failed \/ r \in Failing(n, t)
<1> DEFINE new == Counted(st, r)
           cats == CategoriesOf[r.test]
           d == st.device[r.name]
           e == st.test[r.test]
           bad == r.result \in Bad
           d2 == [count       |-> More(d.count, r.result),
                  failed      |-> d.failed \cup (IF bad THEN {r.test} ELSE {}),
                  failedCats  |-> d.failedCats \cup (IF bad THEN cats ELSE {}),
                  skippedCats |-> d.skippedCats \cup (IF r.result = "skipped" THEN cats ELSE {})]
           e2 == [count  |-> More(e.count, r.result),
                  failed |-> e.failed \cup (IF bad THEN {r.name} ELSE {})]
           k(c) == IF c \in cats THEN More(st.category[c], r.result) ELSE st.category[c]
<1>1. /\ r.name \in Names /\ r.test \in Tests /\ r.result \in Statuses /\ cats \subseteq Categories
  BY ResultFields
<1>2. /\ st.device \in [Names -> [count : [Statuses -> Nat], failed : SUBSET Tests,
                           failedCats : SUBSET Categories, skippedCats : SUBSET Categories]]
      /\ st.category \in [Categories -> [Statuses -> Nat]]
      /\ st.test \in [Tests -> [count : [Statuses -> Nat], failed : SUBSET Names]]
  BY DEF StatsType
<1>3. /\ d.count \in [Statuses -> Nat] /\ d.failed \subseteq Tests
      /\ d.failedCats \subseteq Categories /\ d.skippedCats \subseteq Categories
      /\ e.count \in [Statuses -> Nat] /\ e.failed \subseteq Names
  BY <1>1, <1>2
<1>4. /\ new.device = [st.device EXCEPT ![r.name] = d2]
      /\ new.category = [c \in Categories |-> k(c)]
      /\ new.test = [st.test EXCEPT ![r.test] = e2]
      /\ new = [device |-> new.device, category |-> new.category, test |-> new.test]
  <2>1. new.device = [st.device EXCEPT ![r.name] = d2] BY DEF Counted
  <2>2. new.category = [c \in Categories |-> k(c)] BY DEF Counted
  <2>3. new.test = [st.test EXCEPT ![r.test] = e2] BY DEF Counted
  <2>4. new = [device |-> new.device, category |-> new.category, test |-> new.test]
    BY DEF Counted
  <2> QED BY <2>1, <2>2, <2>3, <2>4
<1> USE DEF More
<1>5. /\ d2 \in [count : [Statuses -> Nat], failed : SUBSET Tests,
                 failedCats : SUBSET Categories, skippedCats : SUBSET Categories]
      /\ e2 \in [count : [Statuses -> Nat], failed : SUBSET Names]
  BY <1>1, <1>3
<1>6. \A c \in Categories : k(c) \in [Statuses -> Nat]
  BY <1>1, <1>2
<1>7. new \in StatsType
  <2> HIDE DEF new, d2, e2, k
  <2>1. /\ new.device \in [Names -> [count : [Statuses -> Nat], failed : SUBSET Tests,
                           failedCats : SUBSET Categories, skippedCats : SUBSET Categories]]
        /\ new.category \in [Categories -> [Statuses -> Nat]]
        /\ new.test \in [Tests -> [count : [Statuses -> Nat], failed : SUBSET Names]]
    BY <1>1, <1>2, <1>4, <1>5, <1>6
  <2> QED BY <1>4, <2>1 DEF StatsType
<1>8. ASSUME NEW n \in Names
      PROVE  new.device[n] = IF n = r.name THEN d2 ELSE st.device[n]
  <2> HIDE DEF new, d2
  <2> QED BY <1>2, <1>4
<1>9. ASSUME NEW t \in Tests
      PROVE  new.test[t] = IF t = r.test THEN e2 ELSE st.test[t]
  <2> HIDE DEF new, e2
  <2> QED BY <1>2, <1>4
<1>10. ASSUME NEW n \in Names, NEW s \in Statuses
       PROVE  new.device[n].count[s] = st.device[n].count[s] + (IF r \in ByName(n, s) THEN 1 ELSE 0)
  <2>1. st.device[n].count[s] \in Nat BY <1>2
  <2>2. d2.count[s] = IF s = r.result THEN d.count[s] + 1 ELSE d.count[s] BY <1>3
  <2>3. r \in ByName(n, s) <=> n = r.name /\ s = r.result BY DEF ByName
  <2> HIDE DEF new, d2
  <2> QED BY <1>8, <2>1, <2>2, <2>3
<1>11. ASSUME NEW t \in Tests, NEW s \in Statuses
       PROVE  new.test[t].count[s] = st.test[t].count[s] + (IF r \in ByTest(t, s) THEN 1 ELSE 0)
  <2>1. st.test[t].count[s] \in Nat BY <1>2
  <2>2. e2.count[s] = IF s = r.result THEN e.count[s] + 1 ELSE e.count[s] BY <1>3
  <2>3. r \in ByTest(t, s) <=> t = r.test /\ s = r.result BY DEF ByTest
  <2> HIDE DEF new, e2
  <2> QED BY <1>9, <2>1, <2>2, <2>3
<1>12. ASSUME NEW c \in Categories, NEW s \in Statuses
       PROVE  new.category[c][s] = st.category[c][s] + (IF r \in ByCategory(c, s) THEN 1 ELSE 0)
  <2>1. st.category[c] \in [Statuses -> Nat] BY <1>2
  <2>2. new.category[c] = k(c)
    <3> HIDE DEF new, k
    <3> QED BY <1>4
  <2>3. r \in ByCategory(c, s) <=> c \in cats /\ s = r.result BY DEF ByCategory
  <2> HIDE DEF new, cats
  <2> QED BY <2>1, <2>2, <2>3
<1>13. ASSUME NEW n \in Names, NEW t \in Tests
       PROVE  /\ t \in new.device[n].failed <=> t \in st.device[n].failed \/ r \in Failing(n, t)
              /\ n \in new.test[t].failed <=> n \in st.test[t].failed \/ r \in Failing(n, t)
  <2>1. r \in Failing(n, t) <=> n = r.name /\ t = r.test /\ bad BY DEF Failing
  <2>2. t \in d2.failed <=> t \in d.failed \/ (bad /\ t = r.test) OBVIOUS
  <2>3. n \in e2.failed <=> n \in e.failed \/ (bad /\ n = r.name) OBVIOUS
  <2> HIDE DEF new, d2, e2, bad
  <2> QED BY <1>8, <1>9, <2>1, <2>2, <2>3
<1> HIDE DEF new
<1>14. /\ new \in StatsType
       /\ \A n \in Names, s \in Statuses :
              new.device[n].count[s] = st.device[n].count[s] + (IF r \in ByName(n, s) THEN 1 ELSE 0)
       /\ \A t \in Tests, s \in Statuses :
              new.test[t].count[s] = st.test[t].count[s] + (IF r \in ByTest(t, s) THEN 1 ELSE 0)
       /\ \A c \in Categories, s \in Statuses :
              new.category[c][s] = st.category[c][s] + (IF r \in ByCategory(c, s) THEN 1 ELSE 0)
       /\ \A n \in Names, t \in Tests :
              /\ t \in new.device[n].failed <=> t \in st.device[n].failed \/ r \in Failing(n, t)
              /\ n \in new.test[t].failed <=> n \in st.test[t].failed \/ r \in Failing(n, t)
  BY <1>7, <1>10, <1>11, <1>12, <1>13
<1> QED BY <1>14 DEF new

ComputedStart(p) == NoStats
ComputedTurn(p, x, i) == Counted(x, p[i])
ComputedGood(p, x, i) == x \in StatsType /\ Exact(x, p, i)

ComputedLoop == INSTANCE Loops WITH
    Start <- ComputedStart, Turn <- ComputedTurn, Good <- ComputedGood

\* Statistics that are computed from nothing count the results of the list.
LEMMA ComputedIsExact ==
    ASSUME NEW list \in Seq(Pool)
    PROVE  Computed(NoStats, list) \in StatsType /\ Exact(Computed(NoStats, list), list, Len(list))
<1> DEFINE n == Len(list)
<1>1. n \in Nat /\ \A i \in 1..n : list[i] \in Pool OBVIOUS
<1>2. ComputedGood(list, ComputedStart(list), 0)
  BY NoStatsExact DEF ComputedGood, ComputedStart
<1>3. ASSUME NEW i \in 1..n, NEW x, ComputedGood(list, x, i - 1)
      PROVE  ComputedGood(list, ComputedTurn(list, x, i), i)
  <2> DEFINE y == Counted(x, list[i])
  <2>1. x \in StatsType /\ Exact(x, list, i - 1) BY <1>3 DEF ComputedGood
  <2>2. i \in Nat \ {0} /\ i - 1 \in Nat /\ list[i] \in Pool BY <1>1
  <2>3. \A set : /\ Count(list, set, i) = Count(list, set, i - 1) + (IF list[i] \in set THEN 1 ELSE 0)
                 /\ Count(list, set, i - 1) \in Nat
    BY <2>2, CountNext, CountIsNat
  <2>4. /\ y \in StatsType
        /\ \A m \in Names, s \in Statuses :
               y.device[m].count[s] = x.device[m].count[s] + (IF list[i] \in ByName(m, s) THEN 1 ELSE 0)
        /\ \A t \in Tests, s \in Statuses :
               y.test[t].count[s] = x.test[t].count[s] + (IF list[i] \in ByTest(t, s) THEN 1 ELSE 0)
        /\ \A c \in Categories, s \in Statuses :
               y.category[c][s] = x.category[c][s] + (IF list[i] \in ByCategory(c, s) THEN 1 ELSE 0)
        /\ \A m \in Names, t \in Tests :
               /\ t \in y.device[m].failed <=> t \in x.device[m].failed \/ list[i] \in Failing(m, t)
               /\ m \in y.test[t].failed <=> m \in x.test[t].failed \/ list[i] \in Failing(m, t)
    BY <2>1, <2>2, CountedStats
  <2> HIDE DEF y
  <2>5. \A m \in Names, s \in Statuses : y.device[m].count[s] = Count(list, ByName(m, s), i)
    BY <2>1, <2>3, <2>4 DEF Exact
  <2>6. \A t \in Tests, s \in Statuses : y.test[t].count[s] = Count(list, ByTest(t, s), i)
    BY <2>1, <2>3, <2>4 DEF Exact
  <2>7. \A c \in Categories, s \in Statuses : y.category[c][s] = Count(list, ByCategory(c, s), i)
    BY <2>1, <2>3, <2>4 DEF Exact
  <2>8. ASSUME NEW m \in Names, NEW t \in Tests
        PROVE  /\ t \in y.device[m].failed <=> Count(list, Failing(m, t), i) # 0
               /\ m \in y.test[t].failed <=> Count(list, Failing(m, t), i) # 0
    <3>1. Count(list, Failing(m, t), i) # 0 <=>
              Count(list, Failing(m, t), i - 1) # 0 \/ list[i] \in Failing(m, t)
      <4>1. /\ Count(list, Failing(m, t), i) =
                   Count(list, Failing(m, t), i - 1) + (IF list[i] \in Failing(m, t) THEN 1 ELSE 0)
            /\ Count(list, Failing(m, t), i - 1) \in Nat
        BY <2>3
      <4> QED BY <4>1
    <3> QED BY <2>1, <2>4, <3>1 DEF Exact
  <2>9. Exact(y, list, i) BY <2>5, <2>6, <2>7, <2>8 DEF Exact
  <2> QED BY <2>4, <2>9 DEF ComputedGood, ComputedTurn, y
<1>4. /\ \E f : ComputedLoop!Unrolls(list, f, n)
      /\ \A f : ComputedLoop!Unrolls(list, f, n) => \A i \in 0..n : ComputedGood(list, f[i], i)
  <2> HIDE DEF n
  <2> QED BY <1>1, <1>2, <1>3, ComputedLoop!LoopInvariant
<1>5. \A f : ComputedLoop!Unrolls(list, f, n) <=>
             f = [i \in 0..n |-> IF i = 0 THEN NoStats ELSE Counted(f[i - 1], list[i])]
  BY DEF ComputedLoop!Unrolls, ComputedStart, ComputedTurn
<1> DEFINE upTo == CHOOSE f : f = [i \in 0..n |-> IF i = 0 THEN NoStats ELSE Counted(f[i - 1], list[i])]
<1>6. Computed(NoStats, list) = upTo[n] BY DEF Computed
<1>7. upTo = [i \in 0..n |-> IF i = 0 THEN NoStats ELSE Counted(upTo[i - 1], list[i])]
  <2>1. \E f : f = [i \in 0..n |-> IF i = 0 THEN NoStats ELSE Counted(f[i - 1], list[i])]
    BY <1>4, <1>5
  <2> QED BY <2>1
<1>8. ComputedLoop!Unrolls(list, upTo, n) BY <1>5, <1>7
<1>9. n \in 0..n BY <1>1
<1> HIDE DEF upTo
<1> QED BY <1>4, <1>6, <1>8, <1>9 DEF ComputedGood

-----------------------------------------------------------------------------
(* Sums *)

LEMMA CountDisjoint ==
    ASSUME NEW list, NEW one, NEW other, one \cap other = {}, NEW n \in Nat
    PROVE  Count(list, one \cup other, n) = Count(list, one, n) + Count(list, other, n)
<1> DEFINE here == At(list, one, n)
           there == At(list, other, n)
<1>1. At(list, one \cup other, n) = here \cup there /\ here \cap there = {} BY DEF At
<1>2. IsFiniteSet(here) /\ IsFiniteSet(there) BY CountIsNat
<1> HIDE DEF here, there
<1>3. Cardinality(here) \in Nat /\ Cardinality(there) \in Nat BY <1>2, FS_CardinalityType
<1>4. Cardinality(here \cup there) = Cardinality(here) + Cardinality(there) - Cardinality(here \cap there)
  BY <1>2, FS_Union
<1>5. Cardinality(here \cap there) = 0 BY <1>1, FS_EmptySet
<1>6. Cardinality(here \cup there) = Cardinality(here) + Cardinality(there) BY <1>3, <1>4, <1>5
<1> QED BY <1>1, <1>6 DEF Count, here, there

\* The whole list counts its length.
LEMMA CountAll ==
    ASSUME NEW list \in Seq(Pool), NEW set, \A i \in 1..Len(list) : list[i] \in set
    PROVE  Many(list, set) = Len(list)
<1> DEFINE n == Len(list)
<1>1. n \in Nat OBVIOUS
<1>2. At(list, set, n) = 1..n BY DEF At
<1> HIDE DEF n
<1>3. Cardinality(1..n) = IF 1 > n THEN 0 ELSE n - 1 + 1 BY <1>1, FS_Interval
<1>4. Cardinality(1..n) = n BY <1>1, <1>3
<1>5. Count(list, set, n) = n BY <1>2, <1>4 DEF Count
<1> QED BY <1>5 DEF Many, n

AllOf(part, D) == UNION {part[x] : x \in D}

\* What a fold over the subsets of a set adds up, from what each of its elements counts.
LEMMA SumOfParts ==
    ASSUME NEW list, Len(list) \in Nat, NEW D, IsFiniteSet(D), NEW part,
           \A x, y \in D : x # y => part[x] \cap part[y] = {},
           NEW f, DOMAIN f = D, \A x \in D : f[x] = Many(list, part[x])
    PROVE  SumFunction(f) = Many(list, AllOf(part, D))
<1> DEFINE any(s) == CHOOSE x \in s : TRUE
           all(s) == UNION {part[x] : x \in s}
           Fold(it) == it = [s \in SUBSET D |-> IF s = {} THEN 0 ELSE f[any(s)] + it[s \ {any(s)}]]
           w == [s \in SUBSET D |-> Many(list, all(s))]
<1>1. SumFunction(f) = (CHOOSE it : Fold(it))[D]
  BY DEF SumFunction, SumFunctionOnSet, FoldFunctionOnSet, MapThenFoldSet
<1>2. ASSUME NEW s \in SUBSET D, s # {}
      PROVE  /\ any(s) \in s /\ s \ {any(s)} \in SUBSET D
             /\ Many(list, all(s)) = f[any(s)] + Many(list, all(s \ {any(s)}))
  <2> DEFINE x == any(s)
             rest == s \ {x}
  <2>1. x \in s BY <1>2
  <2> HIDE DEF x
  <2> DEFINE mine == part[x]
             others == all(rest)
  <2>2. all(s) = mine \cup others /\ mine \cap others = {} BY <2>1
  <2> HIDE DEF mine, others
  <2>3. Count(list, mine \cup others, Len(list)) = Count(list, mine, Len(list)) + Count(list, others, Len(list))
    BY <2>2, CountDisjoint
  <2>4. f[x] = Many(list, mine) BY <2>1 DEF mine
  <2> HIDE DEF all
  <2>5. Many(list, all(s)) = f[x] + Many(list, others) BY <2>2, <2>3, <2>4 DEF Many
  <2>6. Many(list, all(s)) = f[x] + Many(list, all(rest)) BY <2>5 DEF others
  <2> QED BY <2>1, <2>6 DEF x
<1>3. Many(list, all({})) = 0
  <2>1. all({}) = {} OBVIOUS
  <2>2. Count(list, {}, Len(list)) = 0 BY CountedIsThere
  <2> HIDE DEF all
  <2> QED BY <2>1, <2>2 DEF Many
<1> HIDE DEF any, all
<1>4. Fold(w)
  <2>1. ASSUME NEW s \in SUBSET D
        PROVE  w[s] = IF s = {} THEN 0 ELSE f[any(s)] + w[s \ {any(s)}]
    BY <1>2, <1>3
  <2>2. w = [s \in SUBSET D |-> w[s]] OBVIOUS
  <2> HIDE DEF w
  <2> QED BY <2>1, <2>2
<1>5. ASSUME NEW it, Fold(it) PROVE it[D] = w[D]
  <2> DEFINE n == Cardinality(D)
             S == {k \in 0..n : \A s \in SUBSET D : Cardinality(s) = k => it[s] = w[s]}
  <2>1. \A s \in SUBSET D : it[s] = IF s = {} THEN 0 ELSE f[any(s)] + it[s \ {any(s)}] BY <1>5
  <2>2. \A s \in SUBSET D : w[s] = IF s = {} THEN 0 ELSE f[any(s)] + w[s \ {any(s)}]
    <3> HIDE DEF w
    <3> QED BY <1>4
  <2>3. n \in Nat BY FS_CardinalityType
  <2> HIDE DEF w, Fold, n
  <2>4. 0 \in S
    <3>1. ASSUME NEW s \in SUBSET D, Cardinality(s) = 0 PROVE it[s] = w[s]
      <4>1. IsFiniteSet(s) BY FS_Subset
      <4>2. s = {} BY <3>1, <4>1, FS_EmptySet
      <4> QED BY <2>1, <2>2, <4>2
    <3>2. 0 \in 0..n BY <2>3
    <3> QED BY <3>1, <3>2
  <2>5. ASSUME NEW k \in 0..(n - 1), k \in S PROVE k + 1 \in S
    <3>1. ASSUME NEW s \in SUBSET D, Cardinality(s) = k + 1 PROVE it[s] = w[s]
      <4>1. IsFiniteSet(s) BY FS_Subset
      <4>2. s # {} BY <2>3, <3>1, FS_EmptySet
      <4>3. any(s) \in s /\ s \ {any(s)} \in SUBSET D BY <1>2, <4>2
      <4>4. Cardinality(s \ {any(s)}) = k
        <5>1. Cardinality(s \ {any(s)}) = Cardinality(s) - 1 BY <4>1, <4>3, FS_RemoveElement
        <5> QED BY <2>3, <3>1, <5>1
      <4>5. it[s \ {any(s)}] = w[s \ {any(s)}] BY <2>5, <4>3, <4>4
      <4> QED BY <2>1, <2>2, <4>2, <4>5
    <3>2. k + 1 \in 0..n BY <2>3
    <3> QED BY <3>1, <3>2
  <2>6. 0..n \subseteq S
    <3> HIDE DEF S
    <3> QED BY <2>3, <2>4, <2>5, JoinedLoop!Induction
  <2>7. n \in 0..n BY <2>3
  <2> QED BY <2>6, <2>7 DEF n
<1>6. Fold(CHOOSE it : Fold(it))
  <2> HIDE DEF w, Fold
  <2> QED BY <1>4
<1>7. w[D] = Many(list, all(D)) OBVIOUS
<1>8. (CHOOSE it : Fold(it))[D] = w[D]
  <2> HIDE DEF w, Fold
  <2> QED BY <1>5, <1>6
<1> HIDE DEF w, Fold
<1> QED BY <1>1, <1>7, <1>8 DEF all, AllOf

\* The column s of a table, and the sums of its rows, for the rows in D
Column(count, D, s) == [m \in D |-> count[m][s]]
RowSums(count, D) == [m \in D |-> SumFunction(count[m])]

\* A table of counts: each row counts one part of the results, status by status.
IsTable(list, M, count, part) ==
    /\ count \in [M -> [Statuses -> Nat]]
    /\ \A x, y \in M : x # y => part[x] \cap part[y] = {}
    /\ \A r \in Pool : \E m \in M : r \in part[m]
    /\ \A m \in M, s \in Statuses : count[m][s] = Many(list, part[m] \cap Having(s))

\* The rows that are shown
Filled(count, M) == {m \in M : count[m] # Zero}

\* A table with a row for each part that has results: its columns add up to the results of
\* each status, and the sums of its rows to the length of the list.
LEMMA TableAdds ==
    ASSUME NEW list \in Seq(Pool), NEW M, NEW count, NEW part, IsTable(list, M, count, part),
           NEW D, D = Filled(count, M)
    PROVE  /\ \A m \in M : m \in D <=> \E i \in 1..Len(list) : list[i] \in part[m]
           /\ \A s \in Statuses : SumFunction(Column(count, D, s)) = Many(list, Having(s))
           /\ SumFunction(RowSums(count, D)) = Len(list)
<1>1. /\ count \in [M -> [Statuses -> Nat]]
      /\ \A x, y \in M : x # y => part[x] \cap part[y] = {}
      /\ \A r \in Pool : \E m \in M : r \in part[m]
      /\ \A m \in M, s \in Statuses : count[m][s] = Many(list, part[m] \cap Having(s))
      /\ D = {m \in M : count[m] # Zero}
  BY DEF IsTable, Filled
<1> USE <1>1
<1> DEFINE n == Len(list)
<1>2. n \in Nat OBVIOUS
<1>3. n \in Nat /\ \A i \in 1..n : list[i] \in Pool /\ list[i] \in Having(list[i].result)
                                      /\ list[i].result \in Statuses
  BY ResultFields DEF Having
<1>4. \A s \in Statuses : Zero[s] = 0 BY DEF Zero
<1>5. ASSUME NEW m \in M
      PROVE  m \in D <=> \E i \in 1..n : list[i] \in part[m]
  <2>1. count[m] \in [Statuses -> Nat] /\ Zero \in [Statuses -> Nat] BY DEF Zero
  <2>2. m \in D <=> \E s \in Statuses : count[m][s] # 0 BY <1>4, <2>1
  <2>3. ASSUME NEW s \in Statuses
        PROVE  count[m][s] = 0 <=> \A i \in 1..n : list[i] \notin part[m] \cap Having(s)
    <3>1. Count(list, part[m] \cap Having(s), n) = 0 <=> \A i \in 1..n : list[i] \notin part[m] \cap Having(s)
      BY ONLY <1>2, CountedIsThere
    <3>2. count[m][s] = Count(list, part[m] \cap Having(s), n) BY DEF Many
    <3> HIDE DEF n
    <3> QED BY <3>1, <3>2
  <2> HIDE DEF n
  <2>4. ASSUME NEW i \in 1..n, list[i] \in part[m] PROVE m \in D
    BY <1>3, <2>2, <2>3, <2>4
  <2>5. m \in D => \E i \in 1..n : list[i] \in part[m] BY <2>2, <2>3
  <2> QED BY <2>4, <2>5
<1>6. IsFiniteSet(D)
  <2> DEFINE where(i) == CHOOSE m \in M : list[i] \in part[m]
             some == {where(i) : i \in 1..n}
  <2>1. ASSUME NEW m \in D PROVE m \in some
    <3>1. PICK i \in 1..n : list[i] \in part[m] BY <1>5
    <3>2. where(i) \in M /\ list[i] \in part[where(i)] BY <3>1
    <3>3. where(i) = m BY <3>1, <3>2
    <3> QED BY <3>1, <3>3
  <2>2. IsFiniteSet(1..n) BY <1>3, FS_Interval
  <2>3. IsFiniteSet(some)
    <3> DEFINE g == [i \in 1..n |-> where(i)]
    <3>1. g \in Surjection(1..n, some)
      <4> HIDE DEF where, n
      <4>1. g \in [1..n -> some] /\ \A x \in some : \E i \in 1..n : g[i] = x OBVIOUS
      <4> HIDE DEF g, some
      <4> QED BY <4>1 DEF Surjection
    <3> HIDE DEF g, some, n
    <3> QED BY <2>2, <3>1, FS_Surjection
  <2> HIDE DEF some
  <2> QED BY <2>1, <2>3, FS_Subset
<1>7. n = Len(list) OBVIOUS
<1> HIDE DEF n
<1>8. ASSUME NEW s \in Statuses
      PROVE  SumFunction([m \in D |-> count[m][s]]) = Many(list, Having(s))
  <2> DEFINE mine == [m \in D |-> part[m] \cap Having(s)]
             f == [m \in D |-> count[m][s]]
             all == AllOf(mine, D)
  <2>1. \A x, y \in D : x # y => mine[x] \cap mine[y] = {} OBVIOUS
  <2>2. DOMAIN f = D /\ \A x \in D : f[x] = Many(list, mine[x]) OBVIOUS
  <2>3. \A i \in 1..n : list[i] \in all <=> list[i] \in Having(s)
    <3>1. ASSUME NEW i \in 1..n, list[i] \in Having(s) PROVE list[i] \in all
      <4>1. PICK m \in M : list[i] \in part[m] BY <1>3
      <4>2. m \in D BY <1>5, <4>1
      <4> QED BY <3>1, <4>1, <4>2 DEF AllOf
    <3>2. \A r : r \in all => r \in Having(s) BY DEF AllOf
    <3> QED BY <3>1, <3>2
  <2>4. SumFunction(f) = Many(list, all)
    <3> HIDE DEF mine, f
    <3> QED BY ONLY <1>2, <1>6, <1>7, <2>1, <2>2, SumOfParts
  <2>5. At(list, all, n) = At(list, Having(s), n)
    <3> HIDE DEF all
    <3> QED BY <2>3 DEF At
  <2> HIDE DEF all, f
  <2>6. SumFunction(f) = Many(list, Having(s)) BY <1>7, <2>4, <2>5 DEF Many, Count
  <2> QED BY <2>6 DEF f
<1>9. ASSUME NEW m \in D PROVE SumFunction(count[m]) = Many(list, part[m])
  <2> DEFINE mine == [s \in Statuses |-> part[m] \cap Having(s)]
             f == count[m]
             all == AllOf(mine, Statuses)
  <2>1. \A x, y \in Statuses : x # y => mine[x] \cap mine[y] = {} BY DEF Having
  <2>2. DOMAIN f = Statuses /\ \A s \in Statuses : f[s] = Many(list, mine[s])
    <3>1. f \in [Statuses -> Nat] OBVIOUS
    <3> QED BY <3>1
  <2>3. \A i \in 1..n : list[i] \in all <=> list[i] \in part[m]
    <3>1. \A r : r \in all <=> \E s \in Statuses : r \in part[m] /\ r \in Having(s) BY DEF AllOf
    <3> HIDE DEF all
    <3> QED BY <1>3, <3>1
  <2>4. SumFunction(f) = Many(list, all)
    <3> HIDE DEF mine, f
    <3> QED BY ONLY <1>2, <1>7, <2>1, <2>2, FiniteStatuses, SumOfParts
  <2>5. At(list, all, n) = At(list, part[m], n)
    <3> HIDE DEF all
    <3> QED BY <2>3 DEF At
  <2> HIDE DEF all, f
  <2>6. SumFunction(f) = Many(list, part[m]) BY <1>7, <2>4, <2>5 DEF Many, Count
  <2> QED BY <2>6 DEF f
<1>10. SumFunction([m \in D |-> SumFunction(count[m])]) = Len(list)
  <2> DEFINE f == [m \in D |-> SumFunction(count[m])]
             all == AllOf(part, D)
  <2>1. DOMAIN f = D /\ \A x \in D : f[x] = Many(list, part[x]) BY <1>9
  <2>2. \A x, y \in D : x # y => part[x] \cap part[y] = {} OBVIOUS
  <2>3. \A i \in 1..Len(list) : list[i] \in all
    <3>1. ASSUME NEW i \in 1..n PROVE list[i] \in all
      <4>1. PICK m \in M : list[i] \in part[m] BY <1>3
      <4>2. m \in D BY <1>5, <4>1
      <4> QED BY <4>1, <4>2 DEF AllOf
    <3> QED BY <1>7, <3>1
  <2> HIDE DEF f
  <2>4. SumFunction(f) = Many(list, all)
    BY ONLY <1>2, <1>6, <1>7, <2>1, <2>2, SumOfParts
  <2> HIDE DEF all
  <2>5. Many(list, all) = Len(list) BY <2>3, CountAll
  <2>6. SumFunction(f) = Len(list) BY <2>4, <2>5
  <2> QED BY <2>6 DEF f
<1> QED BY <1>5, <1>7, <1>8, <1>10 DEF Column, RowSums

-----------------------------------------------------------------------------
(* The properties, by counting *)

Alike(list, other) == \A set : Count(list, set, Len(list)) = Count(other, set, Len(other))

LEMMA CountsMeaning ==
    ASSUME NEW list \in Seq(Pool), NEW st
    PROVE  Counts(st, list) <=> Exact(st, list, Len(list))
<1> DEFINE n == Len(list)
<1>1. n \in Nat /\ \A i \in 1..n : list[i] \in Pool OBVIOUS
<1>2. \A m, s : Cardinality({i \in 1..Len(list) : list[i].name = m /\ list[i].result = s}) =
                   Count(list, ByName(m, s), n)
  <2>1. \A m, s : {i \in 1..Len(list) : list[i].name = m /\ list[i].result = s} = At(list, ByName(m, s), n)
    BY <1>1 DEF At, ByName
  <2> QED BY <2>1 DEF Count
<1>3. \A t, s : Cardinality({i \in 1..Len(list) : list[i].test = t /\ list[i].result = s}) =
                   Count(list, ByTest(t, s), n)
  <2>1. \A t, s : {i \in 1..Len(list) : list[i].test = t /\ list[i].result = s} = At(list, ByTest(t, s), n)
    BY <1>1 DEF At, ByTest
  <2> QED BY <2>1 DEF Count
<1>4. \A c, s : Cardinality({i \in 1..Len(list) : c \in CategoriesOf[list[i].test] /\ list[i].result = s}) =
                   Count(list, ByCategory(c, s), n)
  <2>1. \A c, s : {i \in 1..Len(list) : c \in CategoriesOf[list[i].test] /\ list[i].result = s} =
                     At(list, ByCategory(c, s), n)
    BY <1>1 DEF At, ByCategory
  <2> QED BY <2>1 DEF Count
<1>5. \A m, t : (\E i \in 1..n : list[i].name = m /\ list[i].test = t /\ list[i].result \in Bad)
                   <=> Count(list, Failing(m, t), n) # 0
  <2> SUFFICES ASSUME NEW m, NEW t
               PROVE  (\E i \in 1..n : list[i].name = m /\ list[i].test = t /\ list[i].result \in Bad)
                          <=> Count(list, Failing(m, t), n) # 0
    OBVIOUS
  <2>1. Count(list, Failing(m, t), n) = 0 <=> \A i \in 1..n : list[i] \notin Failing(m, t)
    BY <1>1, CountedIsThere
  <2>2. \A i \in 1..n : list[i] \in Failing(m, t) <=>
            list[i].name = m /\ list[i].test = t /\ list[i].result \in Bad
    BY <1>1 DEF Failing
  <2> HIDE DEF n
  <2> QED BY <2>1, <2>2
<1>6. (\A m \in Names, s \in Statuses :
           st.device[m].count[s] = Cardinality({i \in 1..Len(list) : list[i].name = m /\ list[i].result = s}))
      <=> \A m \in Names, s \in Statuses : st.device[m].count[s] = Count(list, ByName(m, s), n)
  <2> HIDE DEF n
  <2> QED BY <1>2
<1>7. (\A t \in Tests, s \in Statuses :
           st.test[t].count[s] = Cardinality({i \in 1..Len(list) : list[i].test = t /\ list[i].result = s}))
      <=> \A t \in Tests, s \in Statuses : st.test[t].count[s] = Count(list, ByTest(t, s), n)
  <2> HIDE DEF n
  <2> QED BY <1>3
<1>8. (\A c \in Categories, s \in Statuses :
           st.category[c][s] =
               Cardinality({i \in 1..Len(list) : c \in CategoriesOf[list[i].test] /\ list[i].result = s}))
      <=> \A c \in Categories, s \in Statuses : st.category[c][s] = Count(list, ByCategory(c, s), n)
  <2> HIDE DEF n
  <2> QED BY <1>4
<1> QED BY <1>5, <1>6, <1>7, <1>8 DEF Counts, Exact, Where

LEMMA GroupsMeaning ==
    ASSUME NEW list, NEW g
    PROVE  Groups(g, list) <=>
               \A s \in Statuses, r \in Pool :
                   Many(g[s], {r}) = IF r.result = s THEN Many(list, {r}) ELSE 0
<1> DEFINE many(some, r) == Cardinality({i \in 1..Len(some) : some[i] = r})
<1>1. \A some, r : many(some, r) = Many(some, {r})
  <2>1. \A some, r : {i \in 1..Len(some) : some[i] = r} = At(some, {r}, Len(some)) BY DEF At
  <2> QED BY <2>1 DEF Many, Count
<1>2. Groups(g, list) <=>
          \A s \in Statuses, r \in Pool : many(g[s], r) = IF r.result = s THEN many(list, r) ELSE 0
  BY DEF Groups, Where
<1> HIDE DEF many
<1> QED BY <1>1, <1>2

\* A grouping holds the results of a list, those of a set under each status.
Holds(g, list) ==
    \A s \in Statuses, set \in SUBSET Pool : Many(g[s], set) = Many(list, Having(s) \cap set)

LEMMA HoldsEach ==
    ASSUME NEW list \in Seq(Pool), NEW g, Holds(g, list)
    PROVE  Groups(g, list)
<1>1. ASSUME NEW s \in Statuses, NEW r \in Pool
      PROVE  Many(g[s], {r}) = IF r.result = s THEN Many(list, {r}) ELSE 0
  <2>1. Many(g[s], {r}) = Many(list, Having(s) \cap {r}) BY DEF Holds
  <2>2. CASE r.result = s
    <3>1. Having(s) \cap {r} = {r} BY <2>2 DEF Having
    <3> QED BY <2>1, <2>2, <3>1
  <2>3. CASE r.result # s
    <3>1. Having(s) \cap {r} = {} BY <2>3 DEF Having
    <3>2. Len(list) \in Nat OBVIOUS
    <3>3. Many(list, {}) = 0 BY <3>2, CountedIsThere DEF Many
    <3> QED BY <2>1, <2>3, <3>1, <3>3
  <2> QED BY <2>2, <2>3
<1> QED BY <1>1, GroupsMeaning

\* A grouping that is computed holds each result of the list under its status.
LEMMA GroupingIsExact ==
    ASSUME NEW list \in Seq(Pool)
    PROVE  IsGrouping(Grouping(list)) /\ Holds(Grouping(list), list)
<1> DEFINE g == Grouping(list)
<1>1. g \in [Statuses -> Seq(Pool)] BY SelectedCounts DEF Grouping
<1>2. ASSUME NEW s \in Statuses, NEW set
      PROVE  Many(g[s], set) = Many(list, Having(s) \cap set)
  <2>1. g[s] = Selected(list, Having(s)) BY DEF Grouping
  <2> HIDE DEF g
  <2> QED BY <2>1, SelectedCounts DEF Many
<1> HIDE DEF g
<1>3. ASSUME NEW s \in Statuses, NEW i \in 1..Len(g[s])
      PROVE  g[s][i].result = s
  <2>1. Len(g[s]) \in Nat /\ Len(list) \in Nat /\ g[s][i] \in Pool BY <1>1
  <2>2. Many(g[s], {g[s][i]}) # 0 BY <2>1, CountedIsThere DEF Many
  <2>3. Many(list, Having(s) \cap {g[s][i]}) # 0 BY <1>2, <2>2
  <2>4. Having(s) \cap {g[s][i]} # {} BY <2>1, <2>3, CountedIsThere DEF Many
  <2> QED BY <2>4 DEF Having
<1>4. IsGrouping(g) BY <1>1, <1>3 DEF IsGrouping
<1>5. Holds(g, list) BY <1>2 DEF Holds
<1> QED BY <1>4, <1>5 DEF g

-----------------------------------------------------------------------------
(* The inductive invariant *)

StatsTyped == inSync => stats \in StatsType

\* What is cached is a grouping; and it is current even while the loop of the setter runs.
IInv ==
    /\ TypeOK
    /\ byStatus # Null => IsGrouping(byStatus)
    /\ StatusIsWorst
    /\ StatsAreExact /\ StatsTyped
    /\ ~ forgotten => Holds(Read, results)

LEMMA NotNull ==
    ASSUME NEW g, IsGrouping(g)
    PROVE  g # Null
<1>1. \A list \in Seq(Pool) : list \in Seq(Result) BY ResultAssumption
<1>2. g \in [Statuses -> Seq(Result)]
  <2>1. g \in [Statuses -> Seq(Pool)] BY DEF IsGrouping
  <2>2. \A s \in Statuses : g[s] \in Seq(Result) BY <1>1, <2>1
  <2>3. g = [s \in Statuses |-> g[s]] BY <2>1
  <2> HIDE DEF Result
  <2> QED BY <2>2, <2>3
<1> QED BY <1>2, ResultAssumption

LEMMA ReadIsGrouping ==
    ASSUME IInv
    PROVE  IsGrouping(Read) /\ Read # Null
<1>1. IsGrouping(Grouping(results)) BY GroupingIsExact DEF IInv, TypeOK
<1>2. IsGrouping(Read) BY <1>1 DEF IInv, Read
<1> QED BY <1>2, NotNull

LEMMA RanksAreNumbers ==
    \A s \in Statuses \ {"error"} : Rank[s] \in 0..3 /\ (Rank[s] = 0 <=> s = "unset")
BY DEF Rank, Statuses

-----------------------------------------------------------------------------
(* What a step can do to the results *)

\* One more result
LEMMA PutKeeps ==
    ASSUME IInv, NEW r \in Pool, Put(r)
    PROVE  /\ results' \in Seq(Pool) /\ status' \in Statuses \ {"error"}
           /\ errorStatus' \in BOOLEAN /\ inSync' \in BOOLEAN /\ forgotten' \in BOOLEAN
           /\ byStatus' = Null
           /\ StatusIsWorst' /\ StatsAreExact' /\ StatsTyped' /\ Holds(Read, results)'
<1>1. r.result \in Statuses BY ResultFields
<1>2. results' = Append(results, r) /\ results' \in Seq(Pool) BY DEF IInv, TypeOK, Put
<1>3. Updated(status, r.result) \in Statuses \ {"error"}
  BY <1>1 DEF IInv, TypeOK, Updated, Statuses
<1>4. /\ status' = Updated(status, r.result) /\ inSync' = FALSE /\ byStatus' = Null
      /\ forgotten' = FALSE /\ errorStatus' = (errorStatus \/ r.result = "error")
  BY DEF Put
<1>5. errorStatus' \in BOOLEAN BY <1>4 DEF IInv, TypeOK
<1>6. StatsAreExact' /\ StatsTyped' BY <1>4 DEF StatsAreExact, StatsTyped
<1>7. Holds(Read, results)'
  <2>1. Read' = Grouping(results') BY <1>4 DEF Read
  <2> QED BY <1>2, <2>1, GroupingIsExact
<1>8. StatusIsWorst'
  <2> DEFINE n == Len(results)
  <2>1. /\ n \in Nat /\ Len(results') = n + 1 /\ results'[n + 1] = r
        /\ \A i \in 1..n : results'[i] = results[i]
    BY <1>2 DEF IInv, TypeOK
  <2>2. /\ \A i \in 1..n : results[i].result # "error" => Rank[results[i].result] <= Rank[status]
        /\ status = "unset" \/ \E i \in 1..n : results[i].result = status
        /\ errorStatus <=> \E i \in 1..n : results[i].result = "error"
    BY DEF IInv, StatusIsWorst
  <2>3. \A i \in 1..n : results[i].result \in Statuses
    BY ResultFields DEF IInv, TypeOK
  <2> HIDE DEF n
  <2>4. /\ Rank[status] <= Rank[status']
        /\ r.result # "error" => Rank[r.result] <= Rank[status']
        /\ status' = status \/ status' = r.result
        /\ Rank[status] \in Nat /\ Rank[status'] \in Nat
    BY <1>1, <1>4 DEF IInv, TypeOK, Updated, Rank, Statuses
  <2>5. \A i \in 1..(n + 1) : i \in 1..n \/ i = n + 1 BY <2>1
  <2>6. \A i \in 1..n : i \in 1..(n + 1) BY <2>1
  <2>7. n + 1 \in 1..(n + 1) BY <2>1
  <2>8. ASSUME NEW i \in 1..(n + 1), results'[i].result # "error"
        PROVE  Rank[results'[i].result] <= Rank[status']
    <3>1. CASE i \in 1..n
      <4>1. Rank[results[i].result] <= Rank[status] /\ Rank[results[i].result] \in Nat
        BY <2>1, <2>2, <2>3, <2>8, <3>1, RanksAreNumbers
      <4>2. results'[i].result = results[i].result BY <2>1, <3>1
      <4>3. Rank[results[i].result] <= Rank[status'] BY <2>4, <4>1
      <4> QED BY <4>2, <4>3
    <3>2. CASE i = n + 1 BY <2>1, <2>4, <2>8, <3>2
    <3> QED BY <2>5, <3>1, <3>2
  <2>9. status' = "unset" \/ \E i \in 1..(n + 1) : results'[i].result = status'
    <3>1. CASE status' = r.result BY <2>1, <2>7, <3>1
    <3>2. CASE status' = status BY <2>1, <2>2, <2>6, <3>2
    <3> QED BY <2>4, <3>1, <3>2
  <2>10. errorStatus' <=> \E i \in 1..(n + 1) : results'[i].result = "error"
    BY <1>4, <2>1, <2>2, <2>5, <2>6, <2>7
  <2> QED BY <2>1, <2>8, <2>9, <2>10 DEF StatusIsWorst
<1> QED BY <1>2, <1>3, <1>4, <1>5, <1>6, <1>7, <1>8

\* An empty list
LEMMA ClearedKeeps ==
    ASSUME IInv, Cleared
    PROVE  /\ results' \in Seq(Pool) /\ status' \in Statuses \ {"error"}
           /\ errorStatus' \in BOOLEAN /\ inSync' \in BOOLEAN
           /\ StatusIsWorst' /\ StatsAreExact' /\ StatsTyped' /\ (byStatus' = Null => Holds(Read, results)')
<1>1. /\ results' = <<>> /\ status' = "unset" /\ errorStatus' = FALSE /\ inSync' = FALSE
  BY DEF Cleared
<1>2. results' \in Seq(Pool) /\ Len(results') = 0 BY <1>1
<1>3. StatusIsWorst' BY <1>1, <1>2 DEF StatusIsWorst
<1>4. StatsAreExact' /\ StatsTyped' BY <1>1 DEF StatsAreExact, StatsTyped
<1>5. ASSUME byStatus' = Null PROVE Holds(Read, results)'
  <2>1. Read' = Grouping(results') BY <1>5 DEF Read
  <2> QED BY <1>2, <2>1, GroupingIsExact
<1> QED BY <1>1, <1>2, <1>3, <1>4, <1>5 DEF Statuses

\* The same results, in any order: the overall status stays.
LEMMA StatusKept ==
    ASSUME IInv, results' \in Seq(Pool), Alike(results', results), UNCHANGED <<status, errorStatus>>
    PROVE  StatusIsWorst'
<1> DEFINE n == Len(results)
           m == Len(results')
<1>1. results \in Seq(Pool) BY DEF IInv, TypeOK
<1>2. \A i \in 1..m : \E j \in 1..n : results[j] = results'[i]
  BY <1>1, SameMembers DEF Alike
<1>3. \A j \in 1..n : \E i \in 1..m : results'[i] = results[j]
  BY <1>1, SameMembers DEF Alike
<1>4. /\ \A i \in 1..n : results[i].result # "error" => Rank[results[i].result] <= Rank[status]
      /\ status = "unset" \/ \E i \in 1..n : results[i].result = status
      /\ errorStatus <=> \E i \in 1..n : results[i].result = "error"
  BY DEF IInv, StatusIsWorst
<1>5. n = Len(results) /\ m = Len(results') OBVIOUS
<1> HIDE DEF m, n
<1>6. \A i \in 1..m : results'[i].result # "error" => Rank[results'[i].result] <= Rank[status]
  BY <1>2, <1>4
<1>7. status = "unset" \/ \E i \in 1..m : results'[i].result = status
  BY <1>3, <1>4
<1>8. errorStatus <=> \E i \in 1..m : results'[i].result = "error"
  BY <1>2, <1>3, <1>4
<1> QED BY <1>5, <1>6, <1>7, <1>8 DEF StatusIsWorst

\* Statistics that a reader gets are exact, and stay so.
LEMMA ReadIsExact ==
    ASSUME IInv
    PROVE  StatsRead \in StatsType /\ Exact(StatsRead, results, Len(results))
<1>1. results \in Seq(Pool) BY DEF IInv, TypeOK
<1>2. CASE inSync
  <2>1. Counts(stats, results) /\ stats \in StatsType BY <1>2 DEF IInv, StatsAreExact, StatsTyped
  <2> QED BY <1>1, <1>2, <2>1, CountsMeaning DEF StatsRead
<1>3. CASE ~ inSync BY <1>1, <1>3, ComputedIsExact DEF StatsRead
<1> QED BY <1>2, <1>3

LEMMA StatsKept ==
    ASSUME IInv, results' \in Seq(Pool), Alike(results', results), inSync' => stats' = StatsRead
    PROVE  StatsAreExact' /\ StatsTyped'
<1>1. results \in Seq(Pool) BY DEF IInv, TypeOK
<1>2. StatsRead \in StatsType /\ Exact(StatsRead, results, Len(results)) BY ReadIsExact
<1>3. Exact(StatsRead, results', Len(results'))
  <2> DEFINE st == StatsRead
  <2>1. \A set : Count(results', set, Len(results')) = Count(results, set, Len(results)) BY DEF Alike
  <2> HIDE DEF st
  <2>2. Exact(st, results, Len(results)) => Exact(st, results', Len(results')) BY <2>1 DEF Exact
  <2> QED BY <1>2, <2>2 DEF st
<1>4. Counts(StatsRead, results') BY <1>3, CountsMeaning
<1> QED BY <1>2, <1>4 DEF StatsAreExact, StatsTyped

\* The grouping that a reader gets is current, and stays so.
LEMMA GroupingKept ==
    ASSUME IInv, results' \in Seq(Pool), Alike(results', results), forgotten' = forgotten,
           byStatus' \in {byStatus, Read, Grouping(results')}
    PROVE  /\ byStatus' # Null => IsGrouping(byStatus')
           /\ ~ forgotten' => Holds(Read, results)'
<1>1. IsGrouping(Read) /\ Read # Null BY ReadIsGrouping
<1>2. IsGrouping(Grouping(results')) /\ Holds(Grouping(results'), results') BY GroupingIsExact
<1>3. byStatus' # Null => IsGrouping(byStatus') BY <1>1, <1>2 DEF IInv
<1>4. ASSUME ~ forgotten' PROVE Holds(Read, results)'
  <2>1. Holds(Read, results) BY <1>4 DEF IInv
  <2>2. Holds(Read, results')
    <3> DEFINE g == Read
    <3>1. \A set : Many(results', set) = Many(results, set) BY DEF Alike, Many
    <3> HIDE DEF g
    <3>2. Holds(g, results) => Holds(g, results') BY <3>1 DEF Holds
    <3> QED BY <2>1, <3>2 DEF g
  <2>3. Read' = Read \/ Read' = Grouping(results') BY <1>1 DEF Read
  <2> QED BY <1>2, <2>2, <2>3
<1> QED BY <1>3, <1>4

\* So a step that only reads or sorts keeps the invariant.
LEMMA ReadingKeeps ==
    ASSUME IInv, results' \in Permuted(results) \cup {results},
           UNCHANGED <<todo, status, errorStatus, forgotten>>,
           inSync' \in BOOLEAN, inSync' => stats' = StatsRead,
           byStatus' \in {byStatus, Read, Grouping(results')}
    PROVE  IInv'
<1>1. results' \in Seq(Pool) /\ Alike(results', results)
  <2>1. results \in Seq(Pool) BY DEF IInv, TypeOK
  <2> QED BY <2>1, PermutedCounts DEF Alike
<1>2. StatusIsWorst' BY <1>1, StatusKept
<1>3. StatsAreExact' /\ StatsTyped' BY <1>1, StatsKept
<1>4. /\ byStatus' # Null => IsGrouping(byStatus')
      /\ ~ forgotten' => Holds(Read, results)'
  BY <1>1, GroupingKept
<1>5. TypeOK' BY <1>1, <1>4 DEF IInv, TypeOK, IsGrouping
<1> QED BY <1>2, <1>3, <1>4, <1>5 DEF IInv

\* A step that starts with an empty list keeps it too.
LEMMA FreshKeeps ==
    ASSUME IInv, NEW list \in Seq(Pool), Fresh(list) \/ SetResults(list)
    PROVE  IInv'
<1>1. Cleared /\ todo' = list /\ forgotten' \in BOOLEAN BY DEF Fresh, SetResults
<1>2. /\ results' \in Seq(Pool) /\ status' \in Statuses \ {"error"}
      /\ errorStatus' \in BOOLEAN /\ inSync' \in BOOLEAN
      /\ StatusIsWorst' /\ StatsAreExact' /\ StatsTyped' /\ (byStatus' = Null => Holds(Read, results)')
  BY <1>1, ClearedKeeps
<1>3. byStatus' # Null => byStatus' = byStatus BY DEF Fresh, SetResults
<1>4. ~ forgotten' => byStatus' = Null BY DEF Fresh, SetResults
<1>5. TypeOK' BY <1>1, <1>2, <1>3 DEF IInv, TypeOK, IsGrouping
<1> QED BY <1>2, <1>3, <1>4, <1>5 DEF IInv

-----------------------------------------------------------------------------
(* The invariant is inductive *)

LEMMA InitHolds == ReportInit => IInv
<1> SUFFICES ASSUME Init PROVE IInv
  BY DEF ReportInit
<1>1. results = <<>> /\ byStatus = Null /\ inSync = FALSE /\ status = "unset" /\ errorStatus = FALSE
  BY DEF Init
<1>2. results \in Seq(Pool) /\ Len(results) = 0 BY <1>1
<1>3. TypeOK BY <1>2 DEF Init, TypeOK, Statuses
<1>4. StatusIsWorst BY <1>1, <1>2 DEF StatusIsWorst
<1>5. StatsAreExact /\ StatsTyped BY <1>1 DEF StatsAreExact, StatsTyped
<1>6. Holds(Read, results) BY <1>1, <1>2, GroupingIsExact DEF Read
<1> QED BY <1>1, <1>3, <1>4, <1>5, <1>6 DEF IInv

LEMMA NextKeeps == IInv /\ Next => IInv'
<1> SUFFICES ASSUME IInv, Next PROVE IInv'
  OBVIOUS
<1>1. results \in Seq(Pool) /\ todo \in Seq(Pool) /\ inSync \in BOOLEAN BY DEF IInv, TypeOK
<1>2. ASSUME NEW r \in Pool, Add(r) PROVE IInv'
  <2>1. Put(r) /\ todo' = todo BY <1>2 DEF Add
  <2> QED BY <1>1, <2>1, PutKeeps DEF IInv, TypeOK
<1>3. ASSUME NEW r \in Pool, MergeWith(r) PROVE IInv'
  <2>1. Append(results, r) \in Seq(Pool) BY <1>1
  <2> QED BY <1>3, <2>1, FreshKeeps DEF MergeWith
<1>4. ASSUME NEW list \in Lists, SetResults(list) PROVE IInv'
  <2>1. <<>> \in Seq(Pool) /\ \A q, r \in Pool : <<r>> \in Seq(Pool) /\ <<q, r>> \in Seq(Pool)
    OBVIOUS
  <2>2. list = <<>> \/ (\E r \in Pool : list = <<r>>) \/ \E q, r \in Pool : list = <<q, r>>
    BY DEF Lists
  <2>3. list \in Seq(Pool) BY <2>1, <2>2
  <2> QED BY <1>4, <2>3, FreshKeeps
<1>5. CASE AddNext
  <2>1. Head(todo) \in Pool /\ Tail(todo) \in Seq(Pool) BY <1>1, <1>5 DEF AddNext
  <2>2. Put(Head(todo)) /\ todo' = Tail(todo) BY <1>5 DEF AddNext
  <2> QED BY <2>1, <2>2, PutKeeps DEF IInv, TypeOK
<1>6. ASSUME NEW hide \in SUBSET Statuses, Filter(hide) PROVE IInv'
  <2>1. PICK order \in Orders(hide) : Fresh(Kept(order)) BY <1>6 DEF Filter
  <2>2. Kept(order) \in Seq(Pool) BY ReadIsGrouping, KeptCounts
  <2> QED BY <2>1, <2>2, FreshKeeps
<1>7. ASSUME NEW keep \in SUBSET Pool, FilterBy(keep) PROVE IInv'
  <2>1. Selected(results, keep) \in Seq(Pool) BY <1>1, SelectedCounts
  <2> QED BY <1>7, <2>1, FreshKeeps DEF FilterBy
<1>8. CASE ReadByStatus
  <2>1. inSync' => stats' = StatsRead BY <1>8 DEF ReadByStatus, StatsRead
  <2> QED BY <1>1, <1>8, <2>1, ReadingKeeps DEF ReadByStatus
<1>9. CASE Sort
  <2>1. inSync' => stats' = StatsRead BY <1>9 DEF Sort, StatsRead
  <2> QED BY <1>1, <1>9, <2>1, ReadingKeeps DEF Sort
<1>10. CASE ReadStats
  BY <1>10, ReadingKeeps DEF ReadStats
<1> QED BY <1>2, <1>3, <1>4, <1>5, <1>6, <1>7, <1>8, <1>9, <1>10 DEF Next

LEMMA StutterKeeps == IInv /\ UNCHANGED vars => IInv'
<1> SUFFICES ASSUME IInv, UNCHANGED vars PROVE IInv'
  OBVIOUS
<1>1. inSync' => stats' = StatsRead BY DEF vars, StatsRead
<1>2. inSync' \in BOOLEAN BY DEF IInv, TypeOK, vars
<1> QED BY <1>1, <1>2, ReadingKeeps DEF vars

LEMMA ReportNextKeeps == IInv /\ [ReportNext]_allVars => IInv'
<1> SUFFICES ASSUME IInv, [ReportNext]_allVars PROVE IInv'
  OBVIOUS
<1>1. CASE Next BY <1>1, NextKeeps
<1>2. ASSUME NEW hide \in Hides, NEW expand \in BOOLEAN, PrintResults(hide, expand) PROVE IInv'
  <2>1. /\ results' \in Permuted(results) \cup {results}
        /\ byStatus' \in {byStatus, Read}
        /\ UNCHANGED <<todo, status, errorStatus, stats, inSync, forgotten>>
    <3>1. /\ results' \in IF hide = Null THEN Permuted(results) ELSE {results}
          /\ byStatus' = IF hide = Null THEN byStatus ELSE Read
          /\ UNCHANGED <<todo, status, errorStatus, stats, inSync, forgotten>>
      BY <1>2 DEF PrintResults, Grouped
    <3> HIDE DEF Read
    <3> QED BY <3>1
  <2>2. inSync' \in BOOLEAN BY <2>1 DEF IInv, TypeOK
  <2>3. inSync' => stats' = StatsRead BY <2>1 DEF StatsRead
  <2> QED BY <2>1, <2>2, <2>3, ReadingKeeps
<1>3. ASSUME NEW hide \in Hides, NEW by \in {"device", "test"}, PrintSummary(hide, by) PROVE IInv'
  <2>1. byStatus' = (IF hide = Null THEN byStatus ELSE Read)
        /\ UNCHANGED <<results, todo, status, errorStatus, forgotten>>
    BY <1>3 DEF PrintSummary, Grouped
  <2>2. (stats' = StatsRead /\ inSync' = TRUE) \/ UNCHANGED <<stats, inSync>>
    BY <1>3 DEF PrintSummary
  <2>3. inSync' \in BOOLEAN BY <2>2 DEF IInv, TypeOK
  <2>4. inSync' => stats' = StatsRead BY <2>2 DEF StatsRead
  <2> QED BY <2>1, <2>3, <2>4, ReadingKeeps
<1>4. ASSUME NEW hide \in Hides, NEW expand \in BOOLEAN, SaveMarkdownReport(hide, expand) PROVE IInv'
  <2>1. /\ results' \in Permuted(results)
        /\ byStatus' = IF byStatus = Null THEN Grouping(results') ELSE byStatus
        /\ stats' = StatsRead /\ inSync' = TRUE
        /\ UNCHANGED <<todo, status, errorStatus, forgotten>>
    BY <1>4 DEF SaveMarkdownReport
  <2> QED BY <2>1, ReadingKeeps
<1>5. CASE UNCHANGED allVars BY <1>5, StutterKeeps DEF allVars
<1>6. ASSUME NEW hide \in Hides, PrintTemplate(hide) PROVE IInv'
  BY <1>6, StutterKeeps DEF PrintTemplate
<1> QED BY <1>1, <1>2, <1>3, <1>4, <1>5, <1>6 DEF ReportNext

LEMMA Invariant == ReportSpec => []IInv
BY InitHolds, ReportNextKeeps, PTL DEF ReportSpec

-----------------------------------------------------------------------------
(* Reports *)

Named(n)  == {r \in Pool : r.name = n}
Testing(t) == {r \in Pool : r.test = t}

\* The table of devices
LEMMA DevicesAdd ==
    ASSUME NEW list \in Seq(Pool), NEW st \in StatsType, Exact(st, list, Len(list)),
           NEW D, D = {n \in Names : st.device[n].count # Zero}
    PROVE  /\ \A n \in Names : n \in D <=> \E i \in 1..Len(list) : list[i].name = n
           /\ \A s \in Statuses : SumFunction([n \in D |-> st.device[n].count[s]]) = Many(list, Having(s))
           /\ SumFunction([n \in D |-> SumFunction(st.device[n].count)]) = Len(list)
<1> DEFINE count == [n \in Names |-> st.device[n].count]
           part == [n \in Names |-> Named(n)]
<1>1. count \in [Names -> [Statuses -> Nat]] BY DEF StatsType
<1>2. \A x, y \in Names : x # y => part[x] \cap part[y] = {} BY DEF Named
<1>3. \A r \in Pool : \E n \in Names : r \in part[n] BY ResultFields DEF Named
<1>4. \A n \in Names, s \in Statuses : count[n][s] = Many(list, part[n] \cap Having(s))
  <2>1. \A n \in Names, s \in Statuses : part[n] \cap Having(s) = ByName(n, s)
    BY DEF Named, Having, ByName
  <2>2. \A n \in Names, s \in Statuses : count[n][s] = Count(list, ByName(n, s), Len(list)) BY DEF Exact
  <2> HIDE DEF count, part
  <2> QED BY <2>1, <2>2 DEF Many
<1>5. D = Filled(count, Names) BY DEF Filled
<1>6. D \subseteq Names /\ \A n \in D : count[n] = st.device[n].count OBVIOUS
<1>7. \A n \in Names, i \in 1..Len(list) : list[i] \in part[n] <=> list[i].name = n
  <2>1. \A i \in 1..Len(list) : list[i] \in Pool OBVIOUS
  <2> QED BY <2>1 DEF Named
<1> HIDE DEF count, part
<1>8. IsTable(list, Names, count, part) BY <1>1, <1>2, <1>3, <1>4 DEF IsTable
<1>9. /\ \A n \in Names : n \in D <=> \E i \in 1..Len(list) : list[i] \in part[n]
      /\ \A s \in Statuses : SumFunction(Column(count, D, s)) = Many(list, Having(s))
      /\ SumFunction(RowSums(count, D)) = Len(list)
  BY ONLY list \in Seq(Pool), <1>8, <1>5, TableAdds
<1>10. \A s : [n \in D |-> st.device[n].count[s]] = Column(count, D, s) BY <1>6 DEF Column
<1>11. [n \in D |-> SumFunction(st.device[n].count)] = RowSums(count, D) BY <1>6 DEF RowSums
<1> QED BY <1>7, <1>9, <1>10, <1>11

\* The table of tests
LEMMA TestsAdd ==
    ASSUME NEW list \in Seq(Pool), NEW st \in StatsType, Exact(st, list, Len(list)),
           NEW D, D = {t \in Tests : st.test[t].count # Zero}, NEW s \in Statuses
    PROVE  SumFunction([t \in D |-> st.test[t].count[s]]) = Many(list, Having(s))
<1> DEFINE count == [t \in Tests |-> st.test[t].count]
           part == [t \in Tests |-> Testing(t)]
<1>1. count \in [Tests -> [Statuses -> Nat]] BY DEF StatsType
<1>2. \A x, y \in Tests : x # y => part[x] \cap part[y] = {} BY DEF Testing
<1>3. \A r \in Pool : \E t \in Tests : r \in part[t] BY ResultFields DEF Testing
<1>4. \A t \in Tests, k \in Statuses : count[t][k] = Many(list, part[t] \cap Having(k))
  <2>1. \A t \in Tests, k \in Statuses : part[t] \cap Having(k) = ByTest(t, k)
    BY DEF Testing, Having, ByTest
  <2>2. \A t \in Tests, k \in Statuses : count[t][k] = Count(list, ByTest(t, k), Len(list)) BY DEF Exact
  <2> HIDE DEF count, part
  <2> QED BY <2>1, <2>2 DEF Many
<1>5. D = Filled(count, Tests) BY DEF Filled
<1>6. D \subseteq Tests /\ \A t \in D : count[t] = st.test[t].count OBVIOUS
<1> HIDE DEF count, part
<1>7. IsTable(list, Tests, count, part) BY <1>1, <1>2, <1>3, <1>4 DEF IsTable
<1>8. SumFunction(Column(count, D, s)) = Many(list, Having(s))
  BY ONLY list \in Seq(Pool), s \in Statuses, <1>7, <1>5, TableAdds
<1>9. [t \in D |-> st.test[t].count[s]] = Column(count, D, s) BY <1>6 DEF Column
<1> QED BY <1>8, <1>9

\* The columns of both summary tables add up.
LEMMA SummaryAdds ==
    ASSUME NEW list \in Seq(Pool), NEW st \in StatsType, Exact(st, list, Len(list)),
           NEW by \in {"device", "test"}, NEW s \in Columns
    PROVE  ColumnSum(Summary(by, st), s) = Many(list, Having(s))
<1>1. s \in Statuses BY DEF Columns
<1>2. CASE by = "device"
  <2> DEFINE D == {n \in Names : st.device[n].count # Zero}
             sum == Summary(by, st)
  <2>1. DOMAIN st.device = Names BY DEF StatsType
  <2>2. DOMAIN sum = D /\ \A n \in D : sum[n].count[s] = st.device[n].count[s]
    BY <1>2, <2>1 DEF Summary
  <2> HIDE DEF sum
  <2>3. [n \in DOMAIN sum |-> sum[n].count[s]] = [n \in D |-> st.device[n].count[s]] BY <2>2
  <2> HIDE DEF D
  <2>4. SumFunction([n \in D |-> st.device[n].count[s]]) = Many(list, Having(s))
    BY <1>1, DevicesAdd DEF D
  <2>5. ColumnSum(sum, s) = Many(list, Having(s)) BY <2>3, <2>4 DEF ColumnSum
  <2> QED BY <2>5 DEF sum
<1>3. CASE by = "test"
  <2> DEFINE D == {t \in Tests : st.test[t].count # Zero}
             sum == Summary(by, st)
  <2>1. DOMAIN st.test = Tests BY DEF StatsType
  <2>2. DOMAIN sum = D /\ \A t \in D : sum[t].count[s] = st.test[t].count[s]
    BY <1>3, <2>1 DEF Summary
  <2> HIDE DEF sum
  <2>3. [t \in DOMAIN sum |-> sum[t].count[s]] = [t \in D |-> st.test[t].count[s]] BY <2>2
  <2> HIDE DEF D
  <2>4. SumFunction([t \in D |-> st.test[t].count[s]]) = Many(list, Having(s))
    BY <1>1, TestsAdd DEF D
  <2>5. ColumnSum(sum, s) = Many(list, Having(s)) BY <2>3, <2>4 DEF ColumnSum
  <2> QED BY <2>5 DEF sum
<1> QED BY <1>2, <1>3

Hidden(hide) == IF hide = Null THEN {} ELSE hide

\* The manager that is shown has the results of the statuses that are not hidden.
LEMMA ShownCounts ==
    ASSUME IInv, ~ forgotten, NEW hide, NEW list \in Shown(hide)
    PROVE  /\ list \in Seq(Pool)
           /\ \A s \in Statuses, set \in SUBSET Pool :
                  Many(list, Having(s) \cap set) =
                      IF s \in Hidden(hide) THEN 0 ELSE Many(results, Having(s) \cap set)
<1>1. CASE hide = Null
  <2>1. list = results BY <1>1 DEF Shown
  <2> QED BY <1>1, <2>1 DEF IInv, TypeOK, Hidden
<1>2. CASE hide # Null
  <2>1. PICK order \in Orders(hide) : list = Kept(order) BY <1>2 DEF Shown
  <2>2. /\ Kept(order) \in Seq(Pool)
        /\ \A s \in Statuses : \A set :
               Many(Kept(order), Having(s) \cap set) = IF s \in hide THEN 0 ELSE Many(Read[s], set)
    <3>1. IsGrouping(Read) BY ReadIsGrouping
    <3>2. order \in Orders(hide) BY <2>1
    <3> HIDE DEF Read
    <3> QED BY ONLY <3>1, <3>2, KeptCounts
  <2>3. \A s \in Statuses, set \in SUBSET Pool : Many(Read[s], set) = Many(results, Having(s) \cap set)
    BY DEF IInv, Holds
  <2> QED BY <1>2, <2>1, <2>2, <2>3 DEF Hidden
<1> QED BY <1>1, <1>2

LEMMA RowsCount ==
    ASSUME NEW list, NEW r \in Pool
    PROVE  Rows(list)[r] = Many(list, {r})
<1>1. {i \in 1..Len(list) : list[i] = r} = At(list, {r}, Len(list)) BY DEF At
<1> QED BY <1>1 DEF Rows, Where, Many, Count

\* The rows of a report
LEMMA RowsAgree ==
    ASSUME IInv, ~ forgotten, NEW hide, NEW list \in Shown(hide), NEW expand, NEW r \in Pool,
           Alike(results', results)
    PROVE  TestResults(list, expand).rows[r] = IF r.result \in Hidden(hide) THEN 0 ELSE Rows(results')[r]
<1>1. r.result \in Statuses /\ Having(r.result) \cap {r} = {r} BY ResultFields DEF Having
<1>2. Many(list, Having(r.result) \cap {r}) =
          IF r.result \in Hidden(hide) THEN 0 ELSE Many(results, Having(r.result) \cap {r})
  <2>1. \A s \in Statuses, set \in SUBSET Pool :
            Many(list, Having(s) \cap set) = IF s \in Hidden(hide) THEN 0 ELSE Many(results, Having(s) \cap set)
    BY ShownCounts
  <2> QED BY <1>1, <2>1
<1>3. Many(list, {r}) = IF r.result \in Hidden(hide) THEN 0 ELSE Many(results, {r}) BY <1>1, <1>2
<1>4. Many(results, {r}) = Many(results', {r}) BY DEF Alike, Many
<1>5. TestResults(list, expand).rows = Rows(list) BY DEF TestResults
<1> QED BY <1>3, <1>4, <1>5, RowsCount

\* The results of a status, in the same results in another order
LEMMA NumberCounts ==
    ASSUME results' \in Seq(Pool), Alike(results', results), NEW s
    PROVE  Number(s)' = Many(results, Having(s))
<1>1. \A i \in 1..Len(results') : results'[i] \in Pool OBVIOUS
<1>2. {i \in 1..Len(results') : results'[i].result = s} = At(results', Having(s), Len(results'))
  BY <1>1 DEF At, Having
<1>3. Number(s)' = Many(results', Having(s)) BY <1>2 DEF Number, Where, Many, Count
<1> QED BY <1>3 DEF Alike, Many

\* What a report says agrees with the results, when it is written.
LEMMA PrintResultsAgrees ==
    ASSUME IInv, NEW hide \in Hides, NEW expand \in BOOLEAN, PrintResults(hide, expand)
    PROVE  ReportsAgree'
<1>1. PICK list \in Shown(hide) :
          report' = [kind |-> "results", hide |-> hide, tests |-> TestResults(list, expand)]
  BY DEF PrintResults
<1>2. report'.kind = "results" /\ report'.hide = hide /\ report'.tests = TestResults(list, expand)
  BY <1>1
<1>3. forgotten' = forgotten /\ results' \in Permuted(results) \cup {results}
  BY DEF PrintResults
<1>4. Alike(results', results) BY <1>3, PermutedCounts DEF IInv, TypeOK, Alike
<1>5. ASSUME ~ forgotten', NEW r \in Pool
      PROVE  report'.tests.rows[r] = IF r.result \in Hidden(hide) THEN 0 ELSE Rows(results')[r]
  BY <1>2, <1>3, <1>4, <1>5, RowsAgree
<1>6. "results" \notin {"device", "test"} /\ "results" # "markdown" OBVIOUS
<1> QED BY <1>2, <1>5, <1>6 DEF ReportsAgree, Hidden

\* A template report has every result, the hidden ones too.
LEMMA PrintTemplateAgrees ==
    ASSUME IInv, NEW hide \in Hides, PrintTemplate(hide)
    PROVE  ReportsAgree'
<1>1. report' = [kind |-> "template", hide |-> hide, tests |-> TestResults(results, TRUE)]
  BY DEF PrintTemplate
<1>2. report'.kind = "template" /\ report'.tests.rows = Rows(results)
  BY <1>1 DEF TestResults
<1>3. Rows(results') = Rows(results) BY DEF PrintTemplate, vars
<1>4. \A r \in Pool : report'.tests.rows[r] = Rows(results')[r] BY <1>2, <1>3
<1>5. "template" \notin {"device", "test"} /\ "template" \notin {"results", "markdown"} OBVIOUS
<1> QED BY <1>2, <1>4, <1>5 DEF ReportsAgree

LEMMA PrintSummaryAgrees ==
    ASSUME IInv, NEW hide \in Hides, NEW by \in {"device", "test"}, PrintSummary(hide, by)
    PROVE  ReportsAgree'
<1>1. UNCHANGED <<results, forgotten>> BY DEF PrintSummary
<1>2. results \in Seq(Pool) /\ results' \in Seq(Pool) /\ Alike(results', results)
  BY <1>1 DEF IInv, TypeOK, Alike
<1>3. ASSUME ~ forgotten
      PROVE  \E list \in Seq(Pool), st \in StatsType :
                 /\ Exact(st, list, Len(list))
                 /\ report' = [kind |-> by, hide |-> hide, summary |-> Summary(by, st)]
                 /\ \A s \in Statuses, set \in SUBSET Pool :
                        Many(list, Having(s) \cap set) =
                            IF s \in Hidden(hide) THEN 0 ELSE Many(results, Having(s) \cap set)
  <2>1. CASE hide = Null
    <3>1. report' = [kind |-> by, hide |-> hide, summary |-> Summary(by, StatsRead)]
      BY <2>1 DEF PrintSummary
    <3>2. StatsRead \in StatsType /\ Exact(StatsRead, results, Len(results)) BY ReadIsExact
    <3>3. results \in Shown(hide) BY <2>1 DEF Shown
    <3> HIDE DEF StatsRead
    <3> QED BY <1>2, <1>3, <3>1, <3>2, <3>3, ShownCounts
  <2>2. CASE hide # Null
    <3>1. PICK list \in Shown(hide) :
              report' = [kind |-> by, hide |-> hide, summary |-> Summary(by, Computed(NoStats, list))]
      BY <2>2 DEF PrintSummary
    <3>2. /\ list \in Seq(Pool)
          /\ \A s \in Statuses, set \in SUBSET Pool :
                 Many(list, Having(s) \cap set) =
                     IF s \in Hidden(hide) THEN 0 ELSE Many(results, Having(s) \cap set)
      BY <1>3, <3>1, ShownCounts
    <3>3. Computed(NoStats, list) \in StatsType /\ Exact(Computed(NoStats, list), list, Len(list))
      BY <3>2, ComputedIsExact
    <3> QED BY <3>1, <3>2, <3>3
  <2> QED BY <2>1, <2>2
<1>4. ASSUME ~ forgotten', NEW s \in Columns
      PROVE  ColumnSum(report'.summary, s) = IF s \in Hidden(hide) THEN 0 ELSE Number(s)'
  <2>1. PICK list \in Seq(Pool), st \in StatsType :
            /\ Exact(st, list, Len(list))
            /\ report' = [kind |-> by, hide |-> hide, summary |-> Summary(by, st)]
            /\ \A k \in Statuses, set \in SUBSET Pool :
                   Many(list, Having(k) \cap set) =
                       IF k \in Hidden(hide) THEN 0 ELSE Many(results, Having(k) \cap set)
    BY <1>1, <1>3, <1>4
  <2>2. s \in Statuses /\ Having(s) \cap Pool = Having(s) BY DEF Columns, Having
  <2>3. Many(list, Having(s)) = IF s \in Hidden(hide) THEN 0 ELSE Many(results, Having(s))
    BY <2>1, <2>2
  <2>4. report'.summary = Summary(by, st) BY <2>1
  <2>5. ColumnSum(Summary(by, st), s) = Many(list, Having(s)) BY <2>1, SummaryAdds
  <2>6. Number(s)' = Many(results, Having(s)) BY <1>2, NumberCounts
  <2> QED BY <2>3, <2>4, <2>5, <2>6
<1>5. report'.kind = by /\ report'.hide = hide BY DEF PrintSummary
<1>6. by \notin {"results", "markdown", "template"} OBVIOUS
<1> QED BY <1>4, <1>5, <1>6 DEF ReportsAgree, Hidden

\* The totals by status
LEMMA TotalsAdd ==
    ASSUME IInv, ~ forgotten
    PROVE  LET totals == SummaryTotals(Read)
           IN  /\ totals.total = Len(results)
               /\ \A s \in Columns : totals.count[s] = Many(results, Having(s))
<1> DEFINE len == [s \in Statuses |-> Len(Read[s])]
           part == [s \in Statuses |-> Having(s)]
<1>1. results \in Seq(Pool) BY DEF IInv, TypeOK
<1>2. IsGrouping(Read) /\ Holds(Read, results) BY ReadIsGrouping DEF IInv
<1>3. ASSUME NEW s \in Statuses PROVE len[s] = Many(results, part[s])
  <2> DEFINE g == Read
  <2> HIDE DEF g
  <2>1. g[s] \in Seq(Pool) BY <1>2 DEF IsGrouping, g
  <2>2. \A i \in 1..Len(g[s]) : g[s][i] \in Pool BY <2>1
  <2>3. Many(g[s], Pool) = Len(g[s]) BY <2>1, <2>2, CountAll
  <2>4. Many(g[s], Pool) = Many(results, Having(s) \cap Pool) BY <1>2 DEF Holds, g
  <2>5. Having(s) \cap Pool = Having(s) BY DEF Having
  <2>6. len[s] = Len(g[s]) BY DEF g
  <2> HIDE DEF len
  <2> QED BY <2>3, <2>4, <2>5, <2>6
<1>4. DOMAIN len = Statuses /\ \A x, y \in Statuses : x # y => part[x] \cap part[y] = {} BY DEF Having
<1>5. \A i \in 1..Len(results) : results[i] \in AllOf(part, Statuses)
  <2>1. \A i \in 1..Len(results) : results[i] \in part[results[i].result] /\ results[i].result \in Statuses
    BY <1>1, ResultFields DEF Having
  <2> QED BY <2>1 DEF AllOf
<1>6. Len(results) \in Nat BY <1>1
<1>7. \A s \in Statuses : part[s] = Having(s) OBVIOUS
<1>8. SummaryTotals(Read).total = SumFunction(len) /\ \A s \in Columns : SummaryTotals(Read).count[s] = len[s]
  <2>1. \A s \in Columns : s \in Statuses BY DEF Columns
  <2> HIDE DEF Read
  <2> QED BY <2>1 DEF SummaryTotals
<1> HIDE DEF len, part
<1>9. SumFunction(len) = Many(results, AllOf(part, Statuses))
  BY ONLY <1>3, <1>4, <1>6, FiniteStatuses, SumOfParts
<1>10. Many(results, AllOf(part, Statuses)) = Len(results) BY <1>1, <1>5, CountAll
<1>11. \A s \in Columns : len[s] = Many(results, Having(s)) BY <1>3, <1>7 DEF Columns
<1> QED BY <1>8, <1>9, <1>10, <1>11

\* The tables of devices and of categories
LEMMA MarkdownTablesAdd ==
    ASSUME NEW list \in Seq(Pool), NEW st \in StatsType, Exact(st, list, Len(list)),
           NEW table, table = SummaryTotalsDeviceUnderTest(st)
    PROVE  /\ SumFunction([n \in DOMAIN table |-> table[n].total]) = Len(list)
           /\ \A s \in Columns : ColumnSum(table, s) = Many(list, Having(s))
           /\ \A r \in ToSet(list) : CategoriesOf[r.test] \subseteq DOMAIN SummaryTotalsPerCategory(st)
           /\ \A n \in Names : (n \in DOMAIN table) <=> \E r \in ToSet(list) : r.name = n
<1> DEFINE D == {n \in Names : st.device[n].count # Zero}
<1>1. /\ DOMAIN table = D
      /\ \A n \in D : table[n].total = SumFunction(st.device[n].count)
      /\ \A n \in D, s \in Columns : table[n].count[s] = st.device[n].count[s]
  BY DEF SummaryTotalsDeviceUnderTest, Total
<1> HIDE DEF D
<1>2. /\ \A n \in Names : n \in D <=> \E i \in 1..Len(list) : list[i].name = n
      /\ \A s \in Statuses : SumFunction([n \in D |-> st.device[n].count[s]]) = Many(list, Having(s))
      /\ SumFunction([n \in D |-> SumFunction(st.device[n].count)]) = Len(list)
  BY DevicesAdd DEF D
<1>3. SumFunction([n \in DOMAIN table |-> table[n].total]) = Len(list)
  <2>1. [n \in DOMAIN table |-> table[n].total] = [n \in D |-> SumFunction(st.device[n].count)] BY <1>1
  <2> QED BY <1>2, <2>1
<1>4. ASSUME NEW s \in Columns PROVE ColumnSum(table, s) = Many(list, Having(s))
  <2>1. [n \in DOMAIN table |-> table[n].count[s]] = [n \in D |-> st.device[n].count[s]] BY <1>1
  <2>2. SumFunction([n \in D |-> st.device[n].count[s]]) = Many(list, Having(s)) BY <1>2 DEF Columns
  <2> QED BY <2>1, <2>2 DEF ColumnSum
<1>5. \A r : r \in ToSet(list) <=> \E i \in 1..Len(list) : list[i] = r BY DEF ToSet
<1>6. ASSUME NEW i \in 1..Len(list), NEW c \in CategoriesOf[list[i].test]
      PROVE  c \in DOMAIN SummaryTotalsPerCategory(st)
  <2> DEFINE s == list[i].result
  <2>1. list[i] \in Pool /\ Len(list) \in Nat OBVIOUS
  <2>2. s \in Statuses /\ c \in Categories BY <2>1, ResultFields
  <2>3. list[i] \in ByCategory(c, s) BY <2>1 DEF ByCategory
  <2> HIDE DEF s
  <2>4. Count(list, ByCategory(c, s), Len(list)) # 0 BY <2>1, <2>3, CountedIsThere
  <2>5. st.category[c][s] # 0 BY <2>2, <2>4 DEF Exact
  <2>6. st.category[c] # Zero BY <2>2, <2>5 DEF Zero
  <2> QED BY <2>2, <2>6 DEF SummaryTotalsPerCategory
<1>7. \A r \in ToSet(list) : CategoriesOf[r.test] \subseteq DOMAIN SummaryTotalsPerCategory(st)
  BY <1>5, <1>6
<1>8. \A n \in Names : (n \in DOMAIN table) <=> \E r \in ToSet(list) : r.name = n
  BY <1>1, <1>2, <1>5
<1> QED BY <1>3, <1>4, <1>7, <1>8

LEMMA MarkdownAgrees ==
    ASSUME IInv, NEW hide \in Hides, NEW expand \in BOOLEAN, SaveMarkdownReport(hide, expand)
    PROVE  ReportsAgree'
<1> SUFFICES ASSUME ~ forgotten' PROVE ReportsAgree'
  BY DEF ReportsAgree
<1>1. PICK list \in Shown(hide) :
          report' = [kind |-> "markdown", hide |-> hide,
                     totals     |-> SummaryTotals(Read),
                     devices    |-> SummaryTotalsDeviceUnderTest(stats'),
                     categories |-> SummaryTotalsPerCategory(stats'),
                     tests      |-> TestResults(list, expand)]
  BY DEF SaveMarkdownReport
<1>2. /\ report'.kind = "markdown" /\ report'.hide = hide
      /\ report'.totals = SummaryTotals(Read)
      /\ report'.devices = SummaryTotalsDeviceUnderTest(stats')
      /\ report'.categories = SummaryTotalsPerCategory(stats')
      /\ report'.tests = TestResults(list, expand)
  <2> HIDE DEF Read
  <2> QED BY <1>1
<1>3. ~ forgotten /\ results' \in Permuted(results) /\ stats' = StatsRead
  BY DEF SaveMarkdownReport
<1>4. /\ results \in Seq(Pool) /\ results' \in Seq(Pool) /\ Len(results') = Len(results)
      /\ Alike(results', results)
  BY <1>3, PermutedCounts DEF IInv, TypeOK, Alike
<1>5. ASSUME NEW r \in Pool
      PROVE  report'.tests.rows[r] = IF r.result \in Hidden(hide) THEN 0 ELSE Rows(results')[r]
  BY <1>2, <1>3, <1>4, RowsAgree
<1>6. stats' \in StatsType /\ Exact(stats', results', Len(results'))
  <2>1. stats' \in StatsType /\ Exact(stats', results, Len(results)) BY <1>3, ReadIsExact
  <2>2. \A set : Count(results', set, Len(results')) = Count(results, set, Len(results)) BY <1>4 DEF Alike
  <2> QED BY <2>1, <2>2 DEF Exact
<1>7. /\ SumFunction([n \in DOMAIN report'.devices |-> report'.devices[n].total]) = Len(results')
      /\ \A s \in Columns : ColumnSum(report'.devices, s) = Many(results', Having(s))
      /\ \A r \in ToSet(results') : CategoriesOf[r.test] \subseteq DOMAIN report'.categories
      /\ \A n \in Names : (n \in DOMAIN report'.devices) <=> \E r \in ToSet(results') : r.name = n
  BY <1>2, <1>4, <1>6, MarkdownTablesAdd
<1>8. /\ report'.totals.total = Len(results')
      /\ \A s \in Columns : report'.totals.count[s] = Many(results, Having(s))
  BY <1>2, <1>3, <1>4, TotalsAdd
<1>9. \A s : Number(s)' = Many(results, Having(s)) /\ Many(results', Having(s)) = Many(results, Having(s))
  BY <1>4, NumberCounts DEF Alike, Many
<1>10. /\ \A s \in Columns : report'.totals.count[s] = Number(s)'
       /\ \A s \in Columns : ColumnSum(report'.devices, s) = Number(s)'
  BY <1>7, <1>8, <1>9
<1>11. "markdown" \notin {"device", "test"} OBVIOUS
<1> QED BY <1>2, <1>5, <1>7, <1>8, <1>10, <1>11 DEF ReportsAgree, Hidden

LEMMA ReportNextAgrees == IInv /\ ReportsAgree /\ [ReportNext]_allVars => ReportsAgree'
<1> SUFFICES ASSUME IInv, ReportsAgree, [ReportNext]_allVars PROVE ReportsAgree'
  OBVIOUS
<1>1. CASE report' = Null BY <1>1 DEF ReportsAgree
<1>2. ASSUME NEW hide \in Hides, NEW expand \in BOOLEAN, PrintResults(hide, expand) PROVE ReportsAgree'
  BY <1>2, PrintResultsAgrees
<1>3. ASSUME NEW hide \in Hides, NEW expand \in BOOLEAN, SaveMarkdownReport(hide, expand) PROVE ReportsAgree'
  BY <1>3, MarkdownAgrees
<1>4. ASSUME NEW hide \in Hides, NEW by \in {"device", "test"}, PrintSummary(hide, by) PROVE ReportsAgree'
  BY <1>4, PrintSummaryAgrees
<1>5. CASE UNCHANGED allVars
  <2>1. UNCHANGED <<results, forgotten, report>> BY <1>5 DEF allVars, vars
  <2> QED BY <2>1 DEF ReportsAgree, Rows, Number, ColumnSum, Where
<1>6. ASSUME NEW hide \in Hides, PrintTemplate(hide) PROVE ReportsAgree'
  BY <1>6, PrintTemplateAgrees
<1> QED BY <1>1, <1>2, <1>3, <1>4, <1>5, <1>6 DEF ReportNext

-----------------------------------------------------------------------------
(* Theorems *)

\* The lists hold results of tests, the overall status is never "error", and what is cached
\* maps each status to a list, whatever is added, filtered, sorted and printed.
THEOREM TypeCorrect == ReportSpec => []TypeOK
BY Invariant, PTL DEF IInv

\* The overall status is the worst of the results, and error_status says whether one is an
\* error, in whatever order the results came.
THEOREM StatusWorst == ReportSpec => []StatusIsWorst
BY Invariant, PTL DEF IInv

\* Statistics in sync are the counts of the results that are in the list, and name the
\* failures, for lists of any length.
THEOREM StatsExact == ReportSpec => []StatsAreExact
BY Invariant, PTL DEF IInv

\* A reader of the cached grouping gets the results that are in the list, each as often,
\* unless the list was reset to the empty one after it was cached.
THEOREM GroupingCurrent == ReportSpec => []GroupingIsCurrent
<1>1. IInv => GroupingIsCurrent BY HoldsEach DEF IInv, TypeOK, GroupingIsCurrent
<1> QED BY <1>1, Invariant, PTL

\* The sections of a report agree with each other and with the results in the list: totals
\* and tables count the same results, and the rows are those that are not hidden; a template
\* report has those at least.
THEOREM ReportsAgreed == ReportSpec => []ReportsAgree
<1>1. ReportInit => ReportsAgree BY DEF ReportInit, ReportsAgree
<1> QED BY <1>1, Invariant, ReportNextAgrees, PTL DEF ReportSpec
=============================================================================
