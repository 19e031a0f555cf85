------------------------------- MODULE Reports -------------------------------
(***************************************************************************)
(* The reports of a result manager (anta/reporter, anta/cli/nrfu/utils.py):*)
(* tables, text, CSV and JSON of its results, the two summary tables, and  *)
(* the Markdown report, whose sections come from two managers: the results *)
(* that are not hidden, and all of them.                                   *)
(*                                                                         *)
(* A report reads the cached grouping and the statistics, and fills them;  *)
(* it may sort the manager in place.  The order, the wording and the       *)
(* layout of the rows are left out; so is a file that cannot be written    *)
(* (CommandLine).                                                          *)
(***************************************************************************)
EXTENDS ResultManager

CONSTANTS
    Atomics,    \* the statuses of the atomic results: Pool -> Seq(Statuses)
    Hides       \* what `--hide` may be: Null or a set of statuses

ASSUME ReportAssumption ==
    /\ Atomics \in [Pool -> Seq(Statuses)]
    /\ Hides \subseteq {Null} \cup SUBSET Statuses

VARIABLE report     \* what the last call printed or wrote, Null otherwise

allVars == <<vars, report>>

-----------------------------------------------------------------------------
(* Rows *)

\* One row for each result, in any order: how often a result is in the list.
Rows(list) == [r \in Pool |-> Cardinality(Where(list, LAMBDA q : q = r))]

\* The row of an expanded result: how many of its checks did not succeed, and one more
\* row for each; a result without checks is not expanded.
Expanded(r) ==
    [failed |-> Cardinality(Where(Atomics[r], LAMBDA s : s # "success")), atomics |-> Atomics[r]]

TestResults(list, expand) ==
    [rows   |-> Rows(list),
     checks |-> IF expand THEN [r \in {q \in ToSet(list) : Atomics[q] # <<>>} |-> Expanded(r)] ELSE <<>>]

\* Mutant of Total: a result that was never set is not counted.
TotalJudged(count) == SumFunctionOnSet(count, Statuses \ {"unset"})

Total(count) == SumFunction(count)

Columns == Statuses \ {"unset"}

\* get_total_results, of all and of each status that has a column
SummaryTotals(reading) ==
    [total |-> SumFunction([s \in Statuses |-> Len(reading[s])]),
     count |-> [s \in Columns |-> Len(reading[s])]]

SummaryTotalsDeviceUnderTest(st) ==
    [n \in {m \in Names : st.device[m].count # Zero} |->
        [total   |-> Total(st.device[n].count),
         count   |-> [s \in Columns |-> st.device[n].count[s]],
         skipped |-> st.device[n].skippedCats,
         failed  |-> st.device[n].failedCats]]

SummaryTotalsPerCategory(st) ==
    [c \in {d \in Categories : st.category[d] # Zero} |->
        [total |-> Total(st.category[c]), count |-> [s \in Columns |-> st.category[c][s]]]]

\* generate_summary_by_test and generate_summary_by_device: a row for each name in the
\* statistics, with those that failed.
Summary(by, st) ==
    LET table == IF by = "test" THEN st.test ELSE st.device IN
    [n \in {m \in DOMAIN table : table[m].count # Zero} |->
        [count |-> [s \in Columns |-> table[n].count[s]], failed |-> table[n].failed]]

-----------------------------------------------------------------------------
(* Reports *)

\* _get_result_manager: the lists of the manager that is shown, this one if nothing is
\* said about hiding; a filtered one leaves this one's grouping cached.
Shown(hide) == IF hide = Null THEN {results} ELSE {Kept(order) : order \in Orders(hide)}
Grouped(hide) == byStatus' = IF hide = Null THEN byStatus ELSE Read

\* ReportTable.generate and generate_expanded, print_text, CSV and JSON.  The table may be
\* sorted, which sorts this manager when it is the one that is shown.
PrintResults(hide, expand) ==
    /\ todo = <<>>
    /\ \E list \in Shown(hide) :
           report' = [kind |-> "results", hide |-> hide, tests |-> TestResults(list, expand)]
    /\ results' \in IF hide = Null THEN Permuted(results) ELSE {results}
    /\ Grouped(hide)
    /\ UNCHANGED <<todo, status, errorStatus, stats, inSync, forgotten>>

\* tpl-report (print_jinja): this manager, whatever is to be hidden; the data a template
\* gets has the atomic results.
PrintTemplate(hide) ==
    /\ todo = <<>>
    /\ report' = [kind |-> "template", hide |-> hide, tests |-> TestResults(results, TRUE)]
    /\ UNCHANGED vars

\* print_table with --group-by: the statistics of the manager that is shown.
PrintSummary(hide, by) ==
    /\ todo = <<>>
    /\ IF hide = Null
       THEN /\ report' = [kind |-> by, hide |-> hide, summary |-> Summary(by, StatsRead)]
            /\ stats' = StatsRead /\ inSync' = TRUE
       ELSE /\ \E list \in Shown(hide) :
                   report' = [kind |-> by, hide |-> hide, summary |-> Summary(by, Computed(NoStats, list))]
            /\ UNCHANGED <<stats, inSync>>
    /\ Grouped(hide)
    /\ UNCHANGED <<results, todo, status, errorStatus, forgotten>>

\* save_markdown_report: sort this manager, filter it, and write the sections, all but
\* the last from this one.  The overview of the run and the headings are left out.
SaveMarkdownReport(hide, expand) ==
    /\ todo = <<>>
    /\ results' \in Permuted(results)
    /\ byStatus' = IF byStatus = Null THEN Grouping(results') ELSE byStatus
    /\ stats' = StatsRead /\ inSync' = TRUE
    /\ \E list \in Shown(hide) :
           report' = [kind |-> "markdown", hide |-> hide,
                      totals     |-> SummaryTotals(Read),
                      devices    |-> SummaryTotalsDeviceUnderTest(stats'),
                      categories |-> SummaryTotalsPerCategory(stats'),
                      tests      |-> TestResults(list, expand)]
    /\ UNCHANGED <<todo, status, errorStatus, forgotten>>

-----------------------------------------------------------------------------

ReportInit == Init /\ report = Null

ReportNext ==
    \/ Next /\ report' = Null
    \/ \E hide \in Hides :
           \/ \E expand \in BOOLEAN : PrintResults(hide, expand) \/ SaveMarkdownReport(hide, expand)
           \/ \E by \in {"device", "test"} : PrintSummary(hide, by)
           \/ PrintTemplate(hide)

ReportSpec == ReportInit /\ [][ReportNext]_allVars

-----------------------------------------------------------------------------
(* Properties *)

\* The results of status s in the manager
Number(s) == Cardinality(Where(results, LAMBDA r : r.result = s))

\* The column s of a table
ColumnSum(table, s) == SumFunction([n \in DOMAIN table |-> table[n].count[s]])

\* The sections of one report agree with each other and with the results in the list
\* now: each table of devices or tests adds up to the totals, status by status, the
\* totals count results that were never set and hidden ones too, and the rows are the
\* results that are not hidden, none lost or repeated; whatever was added, filtered,
\* sorted or reported before (unless the results were reset after a report).  Of the
\* results that are to be hidden nothing is said in a template report, which shows
\* them (README, Findings).
ReportsAgree ==
    report # Null /\ ~forgotten =>
        LET hidden == IF report.hide = Null THEN {} ELSE report.hide IN
        /\ report.kind \in {"results", "markdown", "template"} =>
               \A r \in Pool : r.result \notin hidden => report.tests.rows[r] = Rows(results)[r]
        /\ report.kind \in {"results", "markdown"} =>
               \A r \in Pool : r.result \in hidden => report.tests.rows[r] = 0
        /\ report.kind \in {"device", "test"} =>
               \A s \in Columns : ColumnSum(report.summary, s) = IF s \in hidden THEN 0 ELSE Number(s)
        /\ report.kind = "markdown" =>
               /\ report.totals.total = Len(results)
               /\ SumFunction([n \in DOMAIN report.devices |-> report.devices[n].total]) = Len(results)
               /\ \A s \in Columns :
                      /\ report.totals.count[s] = Number(s)
                      /\ ColumnSum(report.devices, s) = Number(s)
               /\ \A r \in ToSet(results) : CategoriesOf[r.test] \subseteq DOMAIN report.categories
               /\ \A n \in Names : (n \in DOMAIN report.devices) <=> \E r \in ToSet(results) : r.name = n
=============================================================================
