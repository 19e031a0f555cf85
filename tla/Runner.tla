------------------------------- MODULE Runner -------------------------------
(***************************************************************************)
(* AntaRunner.run (anta/_runner.py): runs that share one inventory and one *)
(* catalog, one after the other or at the same time.                       *)
(*                                                                         *)
(* A run awaits in four places: connect_inventory, the semaphore of the    *)
(* tests, their collections, and disconnect_inventory.  Everything between *)
(* two awaits is one action, so the set-up of the tests (build_indexes and *)
(* the queries) cannot be split by another run.  A device is its httpx     *)
(* client (open or closed) and its `established` flag; a job is the        *)
(* coroutine of one test on one device, and ends with a verdict, cut off   *)
(* by a closed client (an error result), or, for a test written without    *)
(* the anta_test decorator, by raising.                                    *)
(*                                                                         *)
(* The catalog is that of Catalog, whose variables and operations come     *)
(* with it: a run builds its index and queries it, and never changes its   *)
(* tests.                                                                  *)
(***************************************************************************)
EXTENDS Integers, FiniteSets, Catalog

CONSTANTS
    Runs,           \* the calls of AntaRunner.run
    RunArgs,        \* the arguments they may get
    Devices,        \* names of the devices in the inventory
    Address,        \* device -> its (host, port), what AntaDevice equality compares
    DeviceTags,     \* device -> its tags, its own name among them
    Broken,         \* definitions whose test class raises when it is instantiated
    Raw,            \* definitions whose test() is not protected by anta_test
    MaxConcurrency  \* AntaRunnerSettings.max_concurrency

ASSUME RunnerAssumption ==
    /\ DeviceTags \in [Devices -> SUBSET Tags]
    /\ \A d \in Devices : d \in DeviceTags[d]
    /\ Broken \cup Raw \subseteq Definitions
    /\ MaxConcurrency \in Nat \ {0}
    /\ \A a \in RunArgs :
        /\ DOMAIN a = {"tags", "devices", "tests", "establishedOnly", "dryRun", "disconnect"}
        /\ a.tags = Null \/ a.tags \subseteq Tags
        /\ a.devices = Null \/ a.devices \subseteq Devices
        /\ a.tests \subseteq Names

VARIABLES
    client,         \* device -> "open" or "closed"
    established,    \* device -> its flag
    phase,          \* run -> where it is
    args,           \* run -> its arguments
    pending,        \* run -> devices whose refresh or disconnect it awaits
    selected,       \* run -> ctx.selected_inventory
    plan,           \* run -> ctx.selected_tests, as pairs
    job,            \* run -> device -> definition -> state of the coroutine
    report,         \* run -> what it added to its ResultManager
    crashed         \* history: runs whose gather raised

deviceVars  == <<client, established>>
runVars     == <<phase, args, pending, selected, plan, job, report, crashed>>
vars        == <<catalogVars, deviceVars, runVars>>

Pairs == Devices \X Definitions
Phases == {"idle", "connecting", "running", "closing", "ended"}
JobStates == {"none", "waiting", "active", "verdict", "cut", "raised"}
Outcomes == {"verdict", "cut", "unset"}

-----------------------------------------------------------------------------
(* Selection *)

\* Python's truth value of an optional set
Given(set) == set # Null /\ set # {}

\* ctx.filtered_inventory: get_inventory takes an empty set as a filter nothing passes.
Matching(a) ==
    IF Given(a.tags) \/ Given(a.devices)
    THEN {d \in Devices : /\ a.tags = Null \/ DeviceTags[d] \cap a.tags # {}
                          /\ a.devices = Null \/ d \in a.devices}
    ELSE Devices

\* Mutant of TestsFor: the tests without tags are forgotten.
TestsForTagged(a, d, idx) ==
    IF Given(a.tags)
    THEN IF a.tags \cap DeviceTags[d] = {} THEN {}
         ELSE TestsWithAny(idx, a.tags \cap DeviceTags[d])
    ELSE TestsWithAny(idx, DeviceTags[d])

\* The tests of one device, by the index as build_indexes leaves it.
TestsFor(a, d, idx) ==
    IF Given(a.tags)
    THEN IF a.tags \cap DeviceTags[d] = {} THEN {}
         ELSE TestsWithAny(idx, a.tags \cap DeviceTags[d])
    ELSE idx[Null] \cup TestsWithAny(idx, DeviceTags[d])

\* selected_tests is a dictionary of devices, and devices with one address are
\* equal: they share the entry of the one that was inserted first.
EntryOf(devices, d) == CHOOSE e \in devices : Address[e] = Address[d]

PlanFor(a, devices, idx) ==
    UNION {{EntryOf(devices, d)} \X TestsFor(a, d, idx) : d \in devices}

-----------------------------------------------------------------------------
(* Steps of a run *)

\* Mutant of Leave: only the selected devices are disconnected.
LeaveSelected(r, a) ==
    IF a.disconnect
    THEN /\ phase' = [phase EXCEPT ![r] = "closing"]
         /\ pending' = [pending EXCEPT ![r] = selected[r]]
    ELSE /\ phase' = [phase EXCEPT ![r] = "ended"]
         /\ pending' = [pending EXCEPT ![r] = {}]

\* The run is over but for the `finally` clause.
Leave(r, a) ==
    IF a.disconnect
    THEN /\ phase' = [phase EXCEPT ![r] = "closing"]
         /\ pending' = [pending EXCEPT ![r] = Matching(a)]
    ELSE /\ phase' = [phase EXCEPT ![r] = "ended"]
         /\ pending' = [pending EXCEPT ![r] = {}]

\* _setup_tests and _get_test_coroutines, then the dry run's results or the tests.
SetUpTests(r, a, devices) ==
    LET planned == PlanFor(a, devices, Extended(index, a.tests))
        coros   == {p \in planned : p[2] \notin Broken}
    IN  /\ BuildIndexes(a.tests)
        /\ plan' = [plan EXCEPT ![r] = planned]
        /\ IF planned = {}
           THEN Leave(r, a) /\ UNCHANGED <<job, report>>
           ELSE IF a.dryRun
           THEN /\ report' = [report EXCEPT ![r] = coros \X {"unset"}]
                /\ Leave(r, a) /\ UNCHANGED job
           ELSE /\ job' = [job EXCEPT ![r] = [p \in Pairs |-> IF p \in coros THEN "waiting" ELSE "none"]]
                /\ phase' = [phase EXCEPT ![r] = "running"]
                /\ UNCHANGED <<pending, report>>

\* run() up to its first await: nothing to do, a dry run, or connect_inventory.
Start(r, a) ==
    /\ phase[r] = "idle"
    /\ args' = [args EXCEPT ![r] = a]
    /\ IF tests = {} \/ Matching(a) = {}
       THEN /\ Leave(r, a)
            /\ UNCHANGED <<index, built, used, selected, plan, job, report>>
       ELSE IF a.dryRun
       THEN /\ selected' = [selected EXCEPT ![r] = Matching(a)]
            /\ SetUpTests(r, a, Matching(a))
       ELSE /\ phase' = [phase EXCEPT ![r] = "connecting"]
            /\ pending' = [pending EXCEPT ![r] = Matching(a)]
            /\ UNCHANGED <<index, built, used, selected, plan, job, report>>
    /\ UNCHANGED <<tests, deviceVars, crashed>>

\* One refresh() of connect_inventory: the client is opened again, and the flag is
\* set by what the device answers, or left as it was when refresh raises.
Refresh(r, d) ==
    /\ phase[r] = "connecting" /\ d \in pending[r]
    /\ pending' = [pending EXCEPT ![r] = @ \ {d}]
    /\ client' = [client EXCEPT ![d] = "open"]
    /\ \E up \in {TRUE, FALSE, established[d]} : established' = [established EXCEPT ![d] = up]
    /\ UNCHANGED <<catalogVars, phase, args, selected, plan, job, report, crashed>>

\* All devices were refreshed: select the devices, set up the tests.
Connected(r) ==
    LET a == args[r]
        reachable == {d \in Matching(a) : a.establishedOnly => established[d]}
    IN  /\ phase[r] = "connecting" /\ pending[r] = {}
        /\ selected' = [selected EXCEPT ![r] = reachable]
        /\ IF reachable = {}
           THEN Leave(r, a) /\ UNCHANGED <<index, built, used, plan, job, report>>
           ELSE SetUpTests(r, a, reachable)
        /\ UNCHANGED <<tests, deviceVars, args, crashed>>

JobsIn(r, states) == {p \in Pairs : job[r][p] \in states}

Becomes(r, p, state) == job' = [job EXCEPT ![r][p] = state]

\* Mutant of Admit: the semaphore is acquired and never released.
AdmitOnce(r, p) ==
    /\ job[r][p] = "waiting"
    /\ Cardinality(JobsIn(r, JobStates \ {"none", "waiting"})) < MaxConcurrency
    /\ Becomes(r, p, "active")
    /\ UNCHANGED <<catalogVars, deviceVars, phase, args, pending, selected, plan, report, crashed>>

\* run_with_sem: the semaphore admits a job.  It outlives a run that crashed.
Admit(r, p) ==
    /\ job[r][p] = "waiting"
    /\ Cardinality(JobsIn(r, {"active"})) < MaxConcurrency
    /\ Becomes(r, p, "active")
    /\ UNCHANGED <<catalogVars, deviceVars, phase, args, pending, selected, plan, report, crashed>>

\* The test ends: what it needed was collected or cached before the client closed,
\* or the closed client made it an error.
EndJob(r, p) ==
    /\ job[r][p] = "active"
    /\ \/ Becomes(r, p, "verdict")
       \/ client[p[1]] = "closed" /\ Becomes(r, p, "cut")
    /\ UNCHANGED <<catalogVars, deviceVars, phase, args, pending, selected, plan, report, crashed>>

\* Mutant of RaiseJob: the exception is swallowed.
RaiseJobQuietly(r, p) ==
    /\ job[r][p] = "active" /\ p[2] \in Raw
    /\ Becomes(r, p, "raised")
    /\ UNCHANGED <<catalogVars, deviceVars, phase, args, pending, selected, plan, report, crashed>>

\* gather has no return_exceptions: the first exception leaves run() at once, the
\* other jobs go on.
RaiseJob(r, p) ==
    /\ job[r][p] = "active" /\ p[2] \in Raw
    /\ Becomes(r, p, "raised")
    /\ IF phase[r] = "running"
       THEN Leave(r, args[r]) /\ crashed' = crashed \cup {r}
       ELSE UNCHANGED <<phase, pending, crashed>>
    /\ UNCHANGED <<catalogVars, deviceVars, args, selected, plan, report>>

\* gather returned: add every result to the manager.
Publish(r) ==
    /\ phase[r] = "running" /\ JobsIn(r, {"waiting", "active"}) = {}
    /\ report' = [report EXCEPT ![r] = {<<p, job[r][p]>> : p \in JobsIn(r, {"verdict", "cut"})}]
    /\ Leave(r, args[r])
    /\ UNCHANGED <<catalogVars, deviceVars, args, selected, plan, job, crashed>>

\* Mutant of Disconnect: the whole inventory is disconnected.
DisconnectAll(r, d) ==
    /\ phase[r] = "closing" /\ d \in pending[r]
    /\ pending' = [pending EXCEPT ![r] = @ \ {d}]
    /\ client' = [e \in Devices |-> "closed"]
    /\ established' = [e \in Devices |-> FALSE]
    /\ UNCHANGED <<catalogVars, phase, args, selected, plan, job, report, crashed>>

\* One disconnect() of disconnect_inventory; when aclose raises, the flag stays as it was.
Disconnect(r, d) ==
    /\ phase[r] = "closing" /\ d \in pending[r]
    /\ pending' = [pending EXCEPT ![r] = @ \ {d}]
    /\ client' = [client EXCEPT ![d] = "closed"]
    /\ \E up \in {FALSE, established[d]} : established' = [established EXCEPT ![d] = up]
    /\ UNCHANGED <<catalogVars, phase, args, selected, plan, job, report, crashed>>

End(r) ==
    /\ phase[r] = "closing" /\ pending[r] = {}
    /\ phase' = [phase EXCEPT ![r] = "ended"]
    /\ UNCHANGED <<catalogVars, deviceVars, args, pending, selected, plan, job, report, crashed>>

-----------------------------------------------------------------------------

Init ==
    /\ CatalogInit
    /\ client = [d \in Devices |-> "open"]
    /\ established = [d \in Devices |-> FALSE]
    /\ phase = [r \in Runs |-> "idle"]
    /\ args = [r \in Runs |-> Null]
    /\ pending = [r \in Runs |-> {}]
    /\ selected = [r \in Runs |-> {}]
    /\ plan = [r \in Runs |-> {}]
    /\ job = [r \in Runs |-> [p \in Pairs |-> "none"]]
    /\ report = [r \in Runs |-> {}]
    /\ crashed = {}

Jobs(r) == \E p \in Pairs : Admit(r, p) \/ EndJob(r, p) \/ RaiseJob(r, p)
Links(r) == \E d \in Devices : Refresh(r, d) \/ Disconnect(r, d)

Next ==
    \E r \in Runs :
        \/ \E a \in RunArgs : Start(r, a)
        \/ Links(r) \/ Connected(r) \/ Jobs(r) \/ Publish(r) \/ End(r)

Spec == Init /\ [][Next]_vars

\* The event loop runs what is ready, and refresh, disconnect and the collections
\* are bounded by the timeouts of httpx.
Fairness ==
    \A r \in Runs :
        /\ WF_vars(Links(r)) /\ WF_vars(Jobs(r))
        /\ WF_vars(Connected(r)) /\ WF_vars(Publish(r)) /\ WF_vars(End(r))

FairSpec == Spec /\ Fairness

-----------------------------------------------------------------------------
(* Properties *)

TypeOK ==
    /\ CatalogTypeOK
    /\ client \in [Devices -> {"open", "closed"}]
    /\ established \in [Devices -> BOOLEAN]
    /\ phase \in [Runs -> Phases]
    /\ args \in [Runs -> RunArgs \cup {Null}]
    /\ pending \in [Runs -> SUBSET Devices]
    /\ selected \in [Runs -> SUBSET Devices]
    /\ plan \in [Runs -> SUBSET Pairs]
    /\ job \in [Runs -> [Pairs -> JobStates]]
    /\ report \in [Runs -> SUBSET (Pairs \X Outcomes)]
    /\ crashed \subseteq Runs

\* What a user means by selecting test t for device d: with tags in the filters, the
\* tests that share one of them with the device; without, the tests without tags and
\* those that share a tag with the device.
Wanted(a, d, t) ==
    IF Given(a.tags) THEN TagsOf[t] \cap a.tags \cap DeviceTags[d] # {}
    ELSE TagsOf[t] = {} \/ TagsOf[t] \cap DeviceTags[d] # {}

Alone(d, devices) == \A e \in devices \ {d} : Address[e] # Address[d]

\* What the step that selects the devices of run r plans on them.
PlanFits(r) ==
    LET a == args'[r]  devices == selected'[r] IN
    /\ plan'[r] \subseteq devices \X tests
    /\ \A d \in devices, t \in tests :
        Alone(d, devices) =>
            /\ Passes(t, a.tests) /\ Wanted(a, d, t) => <<d, t>> \in plan'[r]
            /\ <<d, t>> \in plan'[r] => Wanted(a, d, t)
            /\ <<d, t>> \in plan'[r] /\ used \subseteq {a.tests} => Passes(t, a.tests)

\* The tests a run plans on a device are the wanted ones that its filter of test names
\* lets through, and no others (AntaRunFilters), whichever runs use the catalog.  Two
\* cases are left out (README, Findings): nothing is said of devices that share their
\* address with another selected one, nor of tests the filter does not let through when
\* an earlier run has built the index with another filter.
PlanIsExact == [][\A r \in Runs : selected'[r] # selected[r] => PlanFits(r)]_vars

\* The docstring of AntaRunFilters: `tests` is the set of test names to run.  A runner
\* being stateless between runs, a run must plan no test of another name.
OnlyNamedTests ==
    \A r \in Runs : \A p \in plan[r] : Passes(p[2], args[r].tests)

\* A run that is over has reported each planned test that could be instantiated,
\* once and with one outcome, and left none running; a run whose gather raised has
\* reported nothing, not even the tests that had ended.
ReportIsComplete ==
    \A r \in Runs :
        phase[r] \in {"closing", "ended"} =>
            IF r \in crashed THEN report[r] = {}
            ELSE /\ {x[1] : x \in report[r]} = {p \in plan[r] : p[2] \notin Broken}
                 /\ \A x, y \in report[r] : x[1] = y[1] => x = y
                 /\ JobsIn(r, {"waiting", "active"}) = {}

\* The only test cut off by a closed client is one whose device another run has
\* disconnected, or whose own run had crashed: a run on its own, with disconnect,
\* waits for its tests.
CutByAnother ==
    \A r \in Runs, p \in Pairs :
        job[r][p] = "cut" =>
            \/ r \in crashed /\ args[r].disconnect
            \/ \E q \in Runs \ {r} :
                  /\ phase[q] \in {"closing", "ended"} /\ args[q].disconnect
                  /\ p[1] \in Matching(args[q])

\* When every run was asked to disconnect and all are over, however they ended, no
\* device that one of them connected is left open.
NoConnectionLeft ==
    (\A r \in Runs : phase[r] = "ended" /\ args[r].disconnect) =>
        \A r \in Runs : \A d \in Matching(args[r]) : client[d] = "closed"

\* Every run that starts comes to its end, and so does every job.
EveryRunEnds ==
    \A r \in Runs :
        phase[r] # "idle" ~> phase[r] = "ended" /\ JobsIn(r, {"waiting", "active"}) = {}

=============================================================================
