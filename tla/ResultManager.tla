---------------------------- MODULE ResultManager ----------------------------
(***************************************************************************)
(* ResultManager (anta/result_manager/__init__.py): the list of results,   *)
(* the two statuses it keeps up to date, the cached grouping by status,    *)
(* and the statistics that are computed again when they are out of sync.   *)
(*                                                                         *)
(* A result is the name of its device, of its test, and its status; it     *)
(* belongs to the categories of its test.  Each call is one action.  The   *)
(* second cached property, results_by_category, is filled and dropped      *)
(* like the first and is left out.                                         *)
(***************************************************************************)
EXTENDS Integers, SequencesExt

CONSTANTS
    Names,          \* names of devices
    Tests,          \* names of tests
    Categories,
    CategoriesOf,   \* Tests -> SUBSET Categories
    Pool,           \* the results that tests produce
    MaxResults,     \* bound of the lists of results
    Null            \* Python's None

Statuses == {"unset", "success", "failure", "error", "skipped"}
Result == [name : Names, test : Tests, result : Statuses]

ASSUME ResultAssumption ==
    /\ CategoriesOf \in [Tests -> SUBSET Categories]
    /\ Pool \subseteq Result
    /\ MaxResults \in Nat
    /\ Null \notin [Statuses -> Seq(Result)]

VARIABLES
    results,        \* _results
    todo,           \* what the loop of the `results` setter has yet to add
    status,         \* status
    errorStatus,    \* error_status
    byStatus,       \* the cached property results_by_status, Null when not cached
    stats,          \* _device_stats, _category_stats, _test_stats
    inSync,         \* _stats_in_sync
    forgotten       \* history: the results were reset after the grouping was cached

vars == <<results, todo, status, errorStatus, byStatus, stats, inSync, forgotten>>

\* The indexes of the results of a list that have property P.
Where(list, P(_)) == {i \in 1..Len(list) : P(list[i])}

-----------------------------------------------------------------------------
(* Statuses *)

\* Mutant of Updated: a success hides an earlier failure.
UpdatedLatest(old, new) ==
    IF new = "error" \/ new = "unset" THEN old
    ELSE IF new = "skipped" /\ old # "unset" THEN old
    ELSE new

\* _update_status: the status after one more result.
Updated(old, new) ==
    IF new = "error" THEN old
    ELSE IF old = "unset" \/ (old = "skipped" /\ new \in {"success", "failure"}) THEN new
    ELSE IF old = "success" /\ new = "failure" THEN "failure"
    ELSE old

\* The results of a list that are in a set, in their order: the comprehensions of the
\* filters, and the loop of results_by_status.
Selected(list, set) ==
    LET upTo[i \in 0..Len(list)] ==
            IF i = 0 THEN <<>>
            ELSE IF list[i] \in set THEN Append(upTo[i - 1], list[i]) ELSE upTo[i - 1]
    IN  upTo[Len(list)]

Having(s) == {r \in Pool : r.result = s}

\* results_by_status, as it is computed
Grouping(list) == [s \in Statuses |-> Selected(list, Having(s))]

-----------------------------------------------------------------------------
(* Statistics *)

Zero == [s \in Statuses |-> 0]

NoStats ==
    [device   |-> [n \in Names |-> [count |-> Zero, failed |-> {}, failedCats |-> {}, skippedCats |-> {}]],
     category |-> [c \in Categories |-> Zero],
     test     |-> [t \in Tests |-> [count |-> Zero, failed |-> {}]]]

Bad == {"failure", "error"}

\* One more result of status s
More(count, s) == [count EXCEPT ![s] = @ + 1]

\* _update_stats: the statistics after one more result.
Counted(st, r) ==
    LET cats == CategoriesOf[r.test] IN
    [device   |-> [st.device EXCEPT ![r.name] =
                      [count       |-> More(@.count, r.result),
                       failed      |-> @.failed \cup (IF r.result \in Bad THEN {r.test} ELSE {}),
                       failedCats  |-> @.failedCats \cup (IF r.result \in Bad THEN cats ELSE {}),
                       skippedCats |-> @.skippedCats \cup (IF r.result = "skipped" THEN cats ELSE {})]],
     category |-> [c \in Categories |->
                      IF c \in cats THEN More(st.category[c], r.result) ELSE st.category[c]],
     test     |-> [st.test EXCEPT ![r.test] =
                      [count  |-> More(@.count, r.result),
                       failed |-> @.failed \cup (IF r.result \in Bad THEN {r.name} ELSE {})]]]

\* The loop of _compute_stats, from the statistics st.
Computed(st, list) ==
    LET upTo[i \in 0..Len(list)] == IF i = 0 THEN st ELSE Counted(upTo[i - 1], list[i])
    IN  upTo[Len(list)]

-----------------------------------------------------------------------------
(* Operations *)

\* Mutant of Put: the cached properties are not dropped.
PutOnly(r) ==
    /\ results' = Append(results, r)
    /\ status' = Updated(status, r.result)
    /\ errorStatus' = (errorStatus \/ r.result = "error")
    /\ inSync' = FALSE
    /\ UNCHANGED <<byStatus, stats, forgotten>>

\* The body of add.
Put(r) ==
    /\ results' = Append(results, r)
    /\ status' = Updated(status, r.result)
    /\ errorStatus' = (errorStatus \/ r.result = "error")
    /\ inSync' = FALSE
    /\ byStatus' = Null
    /\ forgotten' = FALSE
    /\ UNCHANGED stats

Add(r) ==
    /\ todo = <<>> /\ Len(results) < MaxResults
    /\ Put(r)
    /\ UNCHANGED todo

\* The attributes as reset leaves them; it does not know of the cached grouping.
Cleared ==
    /\ results' = <<>>
    /\ status' = "unset"
    /\ errorStatus' = FALSE
    /\ stats' = NoStats
    /\ inSync' = FALSE

\* The setter of `results`, and with an empty list reset: the loop comes after.
SetResults(list) ==
    /\ todo = <<>>
    /\ Cleared
    /\ todo' = list
    /\ forgotten' = (byStatus # Null)
    /\ UNCHANGED byStatus

\* One turn of the loop.
AddNext ==
    /\ todo # <<>>
    /\ Put(Head(todo))
    /\ todo' = Tail(todo)

\* filter, filter_by_..., merge_results: continue with the new manager they return.
Fresh(list) ==
    /\ todo = <<>>
    /\ Cleared
    /\ todo' = list
    /\ byStatus' = Null
    /\ forgotten' = FALSE

\* The grouping as a reader gets it.
Read == IF byStatus = Null THEN Grouping(results) ELSE byStatus

\* get_results and get_total_results with statuses
ReadByStatus ==
    /\ todo = <<>>
    /\ byStatus' = Read
    /\ UNCHANGED <<results, todo, status, errorStatus, stats, inSync, forgotten>>

\* get_results of the statuses that are not hidden, status by status, in the order of a
\* Python set, which is any.
Orders(hide) == SetToSeqs({s \in Statuses \ hide : Read[s] # <<>>})
Kept(order)  == FlattenSeq([i \in DOMAIN order |-> Read[order[i]]])

Filter(hide) == \E order \in Orders(hide) : Fresh(Kept(order))

\* filter_by_tests and filter_by_devices
FilterBy(keep) == Fresh(Selected(results, keep))

\* merge_results of this manager and of one that holds r
MergeWith(r) == Len(results) < MaxResults /\ Fresh(Append(results, r))

Permuted(list) == {[i \in DOMAIN list |-> list[p[i]]] : p \in SetToSeqs(DOMAIN list)}

\* sort: some order of the same results, whatever the fields are.
Sort ==
    /\ todo = <<>>
    /\ results' \in Permuted(results)
    /\ UNCHANGED <<todo, status, errorStatus, byStatus, stats, inSync, forgotten>>

\* Mutant of StatsRead: the statistics are counted on top of the old ones.
StatsReadAgain == IF inSync THEN stats ELSE Computed(stats, results)

\* _ensure_stats_in_sync: the statistics as a reader gets them
StatsRead == IF inSync THEN stats ELSE Computed(NoStats, results)

\* device_stats, category_stats and test_stats
ReadStats ==
    /\ todo = <<>>
    /\ stats' = StatsRead
    /\ inSync' = TRUE
    /\ UNCHANGED <<results, todo, status, errorStatus, byStatus, forgotten>>

-----------------------------------------------------------------------------

Init ==
    /\ results = <<>>
    /\ todo = <<>>
    /\ status = "unset"
    /\ errorStatus = FALSE
    /\ byStatus = Null
    /\ stats = NoStats
    /\ inSync = FALSE
    /\ forgotten = FALSE

Lists == {<<>>} \cup {<<r>> : r \in Pool} \cup {<<q, r>> : q, r \in Pool}

Next ==
    \/ \E r \in Pool : Add(r) \/ MergeWith(r)
    \/ \E list \in Lists : SetResults(list)
    \/ AddNext
    \/ \E hide \in SUBSET Statuses : Filter(hide)
    \/ \E keep \in SUBSET Pool : FilterBy(keep)
    \/ ReadByStatus \/ Sort \/ ReadStats

Spec == Init /\ [][Next]_vars

-----------------------------------------------------------------------------
(* Properties *)

TypeOK ==
    /\ results \in Seq(Pool) /\ todo \in Seq(Pool)
    /\ status \in Statuses \ {"error"}
    /\ errorStatus \in BOOLEAN /\ inSync \in BOOLEAN /\ forgotten \in BOOLEAN
    /\ byStatus \in [Statuses -> Seq(Pool)] \cup {Null}

Rank == [unset |-> 0, skipped |-> 1, success |-> 2, failure |-> 3]

\* The overall status is the worst status of the results, whatever the order in which
\* they were added, errors aside; error_status says whether one of them is an error.
StatusIsWorst ==
    /\ \A i \in 1..Len(results) :
           results[i].result # "error" => Rank[results[i].result] <= Rank[status]
    /\ status = "unset" \/ \E i \in 1..Len(results) : results[i].result = status
    /\ errorStatus <=> \E i \in 1..Len(results) : results[i].result = "error"

\* The statistics st count the results of a list, and name the failures among them.
Counts(st, list) ==
    /\ \A n \in Names, s \in Statuses :
           st.device[n].count[s] = Cardinality(Where(list, LAMBDA r : r.name = n /\ r.result = s))
    /\ \A t \in Tests, s \in Statuses :
           st.test[t].count[s] = Cardinality(Where(list, LAMBDA r : r.test = t /\ r.result = s))
    /\ \A c \in Categories, s \in Statuses :
           st.category[c][s] = Cardinality(Where(list, LAMBDA r : c \in CategoriesOf[r.test] /\ r.result = s))
    /\ \A n \in Names, t \in Tests :
           LET bad == \E i \in 1..Len(list) : list[i].name = n /\ list[i].test = t /\ list[i].result \in Bad
           IN  /\ t \in st.device[n].failed <=> bad
               /\ n \in st.test[t].failed <=> bad

\* Statistics that are in sync are those of the results that are in the list now.
StatsAreExact == inSync => Counts(stats, results)

\* A grouping holds the results of a list, each as often as the list does.
Groups(g, list) ==
    \A s \in Statuses, r \in Pool :
        Cardinality(Where(g[s], LAMBDA q : q = r)) =
            IF r.result = s THEN Cardinality(Where(list, LAMBDA q : q = r)) ELSE 0

\* A reader of the cached grouping sees the results that are in the list now, unless
\* the last change was a reset to an empty list.
GroupingIsCurrent == todo = <<>> /\ ~forgotten => Groups(Read, results)

=============================================================================
