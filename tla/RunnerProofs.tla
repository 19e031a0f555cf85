---------------------------- MODULE RunnerProofs ----------------------------
(***************************************************************************)
(* Catalog and Runner, for any runs, devices, tests and arguments: type    *)
(* correctness, an exact index, exact plans, complete reports, and         *)
(* connections that are closed.                                            *)
(*                                                                         *)
(* A step belongs to one run and leaves the state of the others alone      *)
(* (Only); what a run has at each stage is Stage.  From these follow the   *)
(* properties of one run; those about the clients, which all runs share,   *)
(* need to know who will still close an open client (Owes), and who may    *)
(* have closed one under a test (Excuse).                                  *)
(***************************************************************************)
EXTENDS Runner, TLAPS

\* A step of run r leaves the others where they are.
Only(r) ==
    \A q \in Runs \ {r} :
        /\ phase'[q] = phase[q] /\ args'[q] = args[q] /\ pending'[q] = pending[q]
        /\ plan'[q] = plan[q] /\ job'[q] = job[q] /\ report'[q] = report[q]
        /\ q \in crashed' <=> q \in crashed

\* What a finished run has reported.
Reported(r) ==
    IF r \in crashed THEN report[r] = {}
    ELSE /\ {x[1] : x \in report[r]} = {p \in plan[r] : p[2] \notin Broken}
         /\ \A x, y \in report[r] : x[1] = y[1] => x = y
         /\ \A p \in Pairs : job[r][p] \notin {"waiting", "active"}

\* What run r has at the stage it is at.
Stage(r) ==
    /\ phase[r] # "idle" => args[r] \in RunArgs
    /\ phase[r] \in {"idle", "connecting"} =>
           /\ plan[r] = {} /\ report[r] = {} /\ r \notin crashed
           /\ \A p \in Pairs : job[r][p] = "none"
    /\ phase[r] \in {"connecting", "closing"} => pending[r] \subseteq Matching(args[r])
    /\ phase[r] = "running" =>
           /\ report[r] = {} /\ r \notin crashed
           /\ \A p \in Pairs : /\ job[r][p] # "raised"
                               /\ job[r][p] # "none" <=> p \in plan[r] /\ p[2] \notin Broken
    /\ phase[r] = "closing" => args[r].disconnect
    /\ phase[r] \in {"closing", "ended"} => Reported(r)
    /\ \A p \in Pairs : job[r][p] # "none" => p[1] \in Matching(args[r])

StageInv == TypeOK /\ \A r \in Runs : Stage(r)

-----------------------------------------------------------------------------
(* The catalog: IndexIsExact is inductive, and makes the queries exact *)

\* Building the index keeps its type.
LEMMA ExtendedType ==
    ASSUME CatalogTypeOK, NEW f \in TestFilters
    PROVE  Extended(index, f) \in [Keys -> SUBSET Definitions]
BY DEF Extended, CatalogTypeOK

LEMMA CatalogNextType ==
    ASSUME CatalogTypeOK, [CatalogNext]_catalogVars
    PROVE  CatalogTypeOK'
<1>1. CASE UNCHANGED catalogVars
  BY <1>1 DEF catalogVars, CatalogTypeOK
<1>2. ASSUME NEW filter \in TestFilters, BuildIndexes(filter), UNCHANGED tests
      PROVE  CatalogTypeOK'
  BY <1>2, ExtendedType DEF BuildIndexes, CatalogTypeOK
<1>3. ASSUME ClearIndexes, tests' \subseteq Definitions
      PROVE  CatalogTypeOK'
  BY <1>3 DEF ClearIndexes, EmptyIndex, CatalogTypeOK
<1>4. CASE Clear \/ Set \/ Merge
  BY <1>3, <1>4 DEF Clear, Set, Merge, SetTests, MergeWith, CatalogTypeOK
<1> QED
  BY <1>1, <1>2, <1>4 DEF CatalogNext, Build

\* The operations of the catalog keep the types; in particular the index always maps
\* the tags, and the key None, to sets of tests.
THEOREM CatalogTyped == CatalogSpec => []CatalogTypeOK
<1>1. CatalogInit => CatalogTypeOK
  BY DEF CatalogInit, EmptyIndex, CatalogTypeOK
<1> QED
  BY <1>1, CatalogNextType, PTL DEF CatalogSpec

\* Building the index once more adds what passes the new filter.
LEMMA BuildIsExact ==
    ASSUME CatalogTypeOK, IndexIsExact, NEW filter \in TestFilters,
           BuildIndexes(filter), UNCHANGED tests
    PROVE  IndexIsExact'
<1>1. ASSUME NEW k \in Keys
      PROVE  index'[k] = {d \in tests : k \in KeysOf(d) /\ \E f \in used' : Passes(d, f)}
  <2>1. index'[k] = index[k] \cup {d \in tests : Passes(d, filter) /\ k \in KeysOf(d)}
    BY DEF BuildIndexes, Extended
  <2>2. index[k] = {d \in tests : k \in KeysOf(d) /\ \E f \in used : Passes(d, f)}
    BY DEF IndexIsExact
  <2>3. used' = used \cup {filter}
    BY DEF BuildIndexes
  <2> QED
    BY <2>1, <2>2, <2>3
<1>2. built' /\ used' # {}
  BY DEF BuildIndexes
<1> QED
  BY <1>1, <1>2 DEF IndexIsExact, KeysOf, Passes

\* Whatever the order of builds, clears, merges and assignments of `tests`, the index
\* holds what the current tests and the filters since the last clear call for.
THEOREM IndexExact == CatalogSpec => []IndexIsExact
<1>1. CatalogInit => IndexIsExact
  BY DEF CatalogInit, EmptyIndex, IndexIsExact
<1>2. CatalogTypeOK /\ IndexIsExact /\ [CatalogNext]_catalogVars => IndexIsExact'
  <2> SUFFICES ASSUME CatalogTypeOK, IndexIsExact, [CatalogNext]_catalogVars
               PROVE  IndexIsExact'
    OBVIOUS
  <2>1. CASE UNCHANGED catalogVars
    BY <2>1 DEF catalogVars, IndexIsExact, KeysOf, Passes
  <2>2. CASE Build
    BY <2>2, BuildIsExact DEF Build
  <2>3. CASE Clear \/ Set \/ Merge
    <3>1. ClearIndexes
      BY <2>3 DEF Clear, Set, Merge, SetTests, MergeWith
    <3> QED
      BY <3>1 DEF ClearIndexes, EmptyIndex, IndexIsExact
  <2> QED
    BY <2>1, <2>2, <2>3 DEF CatalogNext
<1> QED
  BY <1>1, <1>2, CatalogTyped, PTL DEF CatalogSpec

\* A test is indexed under a tag just in case it is indexed and carries the tag.
LEMMA UnderItsTags ==
    ASSUME CatalogTypeOK, IndexIsExact, NEW d \in Definitions, NEW t \in Tags
    PROVE  d \in index[t] <=> Indexed(d) /\ t \in TagsOf[d]
<1>1. TagsOf[d] \in SUBSET Tags /\ t # Null
  BY CatalogAssumption
<1>2. t \in KeysOf(d) <=> t \in TagsOf[d]
  BY <1>1 DEF KeysOf
<1>3. \A k \in Keys : d \in index[k] <=>
          d \in tests /\ k \in KeysOf(d) /\ \E f \in used : Passes(d, f)
  BY DEF IndexIsExact
<1>4. t \in Keys
  BY DEF Keys
<1> QED
  BY <1>2, <1>3, <1>4 DEF Indexed

\* The union query of get_tests_by_tags selects the indexed tests that share a tag with
\* the query; the strict query, if there are tests of each of its tags, those that carry
\* every one.
THEOREM QueriesExact == CatalogSpec => []QueriesAreExact
<1>1. CatalogTypeOK /\ IndexIsExact => QueriesAreExact
  <2> SUFFICES ASSUME CatalogTypeOK, IndexIsExact, NEW tags \in (SUBSET Tags) \ {{}}
               PROVE  /\ TestsWithAny(index, tags) =
                             {d \in Definitions : Indexed(d) /\ TagsOf[d] \cap tags # {}}
                      /\ (\A t \in tags : \E d \in Definitions : Indexed(d) /\ t \in TagsOf[d]) =>
                             TestsWithAll(index, tags) =
                                 {d \in Definitions : Indexed(d) /\ tags \subseteq TagsOf[d]}
    BY DEF QueriesAreExact
  <2>0. tags # {}
    OBVIOUS
  <2>1. \A t \in tags : t \in Tags /\ index[t] \subseteq Definitions
    BY DEF CatalogTypeOK, Keys
  <2>2. \A t \in tags, d \in Definitions : d \in index[t] <=> Indexed(d) /\ t \in TagsOf[d]
    BY <2>1, UnderItsTags
  <2>3. \A d : d \in UNION Found(index, tags) <=> \E t \in tags : d \in index[t]
    BY DEF Found
  <2>4. UNION Found(index, tags) = {d \in Definitions : Indexed(d) /\ TagsOf[d] \cap tags # {}}
    BY <2>1, <2>2, <2>3
  <2>5. TestsWithAny(index, tags) = {d \in Definitions : Indexed(d) /\ TagsOf[d] \cap tags # {}}
    BY <2>0, <2>4 DEF TestsWithAny
  <2>6. ASSUME \A t \in tags : \E d \in Definitions : Indexed(d) /\ t \in TagsOf[d]
        PROVE  TestsWithAll(index, tags) = {d \in Definitions : Indexed(d) /\ tags \subseteq TagsOf[d]}
    <3>1. \A t \in tags : index[t] # {}
      BY <2>2, <2>6
    <3>2. TestsWithAll(index, tags) = {d \in UNION Found(index, tags) : \A t \in tags : d \in index[t]}
      <4>1. Found(index, tags) = {index[t] : t \in tags}
        BY <3>1 DEF Found
      <4> QED BY <2>0, <4>1 DEF TestsWithAll
    <3>3. \A d \in Definitions : Indexed(d) =>
              ((\A t \in tags : d \in index[t]) <=> tags \subseteq TagsOf[d])
      BY <2>2
    <3>4. \A d \in Definitions : Indexed(d) /\ tags \subseteq TagsOf[d] => d \in UNION Found(index, tags)
      BY <2>0, <2>4
    <3> QED
      BY <2>4, <3>2, <3>3, <3>4
  <2> QED
    BY <2>5, <2>6
<1> QED
  BY <1>1, CatalogTyped, IndexExact, PTL

-----------------------------------------------------------------------------
(* Selection *)

LEMMA MatchingDevices == \A a \in RunArgs : Matching(a) \subseteq Devices
BY DEF Matching

\* The filters of a run are filters of the catalog.
LEMMA FiltersFit == \A a \in RunArgs : a.tests \in TestFilters
BY RunnerAssumption DEF TestFilters

\* Queries answer tests of the catalog.
LEMMA QueryType ==
    ASSUME NEW idx \in [Keys -> SUBSET Definitions], NEW tags \in SUBSET Tags
    PROVE  TestsWithAny(idx, tags) \subseteq Definitions
BY DEF TestsWithAny, Found, Keys

\* The entry of selected_tests that a device's tests go to is a selected device.
LEMMA EntrySelected ==
    ASSUME NEW devices, NEW d \in devices
    PROVE  EntryOf(devices, d) \in devices /\ Address[EntryOf(devices, d)] = Address[d]
BY DEF EntryOf

\* A plan has tests of the catalog on selected devices.
LEMMA PlanType ==
    ASSUME NEW idx \in [Keys -> SUBSET Definitions], NEW a \in RunArgs,
           NEW devices \in SUBSET Devices
    PROVE  PlanFor(a, devices, idx) \subseteq devices \X Definitions
<1>1. \A d \in devices : TestsFor(a, d, idx) \subseteq Definitions
  <2> SUFFICES ASSUME NEW d \in devices PROVE TestsFor(a, d, idx) \subseteq Definitions
    OBVIOUS
  <2>1. DeviceTags[d] \in SUBSET Tags BY RunnerAssumption
  <2>2. a.tags \cap DeviceTags[d] \in SUBSET Tags BY <2>1
  <2>3. idx[Null] \subseteq Definitions BY DEF Keys
  <2> QED BY <2>1, <2>2, <2>3, QueryType DEF TestsFor
<1> QED BY <1>1, EntrySelected DEF PlanFor

-----------------------------------------------------------------------------
(* The steps of a run *)

\* Leaving a run: it has only the devices it matched left to disconnect.
LEMMA LeaveKeeps ==
    ASSUME TypeOK, NEW r \in Runs, NEW a \in RunArgs, Leave(r, a)
    PROVE  /\ phase' \in [Runs -> Phases] /\ pending' \in [Runs -> SUBSET Devices]
           /\ phase'[r] \in {"closing", "ended"}
           /\ phase'[r] = "closing" => a.disconnect /\ pending'[r] \subseteq Matching(a)
           /\ a.disconnect => phase'[r] = "closing" /\ pending'[r] = Matching(a)
           /\ \A q \in Runs \ {r} : phase'[q] = phase[q] /\ pending'[q] = pending[q]
BY MatchingDevices DEF TypeOK, Leave, Phases

\* Setting up the tests: the run is at its end or its tests wait, and a run that
\* needs no test has reported all of its plan.
LEMMA SetUpKeeps ==
    ASSUME TypeOK, NEW r \in Runs, NEW a \in RunArgs, NEW devices \in SUBSET Matching(a),
           plan[r] = {}, report[r] = {}, r \notin crashed, \A p \in Pairs : job[r][p] = "none",
           SetUpTests(r, a, devices), UNCHANGED <<tests, crashed>>,
           args' \in [Runs -> RunArgs \cup {Null}], args'[r] = a,
           \A q \in Runs \ {r} : args'[q] = args[q]
    PROVE  /\ CatalogTypeOK' /\ phase' \in [Runs -> Phases] /\ pending' \in [Runs -> SUBSET Devices]
           /\ plan' \in [Runs -> SUBSET Pairs] /\ job' \in [Runs -> [Pairs -> JobStates]]
           /\ report' \in [Runs -> SUBSET (Pairs \X Outcomes)]
           /\ Stage(r)' /\ Only(r)
           /\ phase'[r] \in {"running", "closing", "ended"}
           /\ phase'[r] = "running" \/ Leave(r, a)
           /\ \A p \in Pairs : job'[r][p] \in {"none", "waiting"}
<1> DEFINE planned == PlanFor(a, devices, Extended(index, a.tests))
           coros == {p \in planned : p[2] \notin Broken}
<1>1. /\ BuildIndexes(a.tests)
      /\ plan' = [plan EXCEPT ![r] = planned]
      /\ \/ planned = {} /\ Leave(r, a) /\ UNCHANGED <<job, report>>
         \/ a.dryRun /\ report' = [report EXCEPT ![r] = coros \X {"unset"}] /\ Leave(r, a) /\ UNCHANGED job
         \/ /\ job' = [job EXCEPT ![r] = [p \in Pairs |-> IF p \in coros THEN "waiting" ELSE "none"]]
            /\ phase' = [phase EXCEPT ![r] = "running"]
            /\ UNCHANGED <<pending, report>>
  BY DEF SetUpTests
<1>2. devices \in SUBSET Devices BY MatchingDevices
<1>3. planned \subseteq devices \X Definitions
  BY <1>2, FiltersFit, ExtendedType, PlanType DEF TypeOK
<1>4. planned \subseteq Pairs /\ \A p \in planned : p[1] \in Matching(a)
  BY <1>2, <1>3 DEF Pairs
<1>5. CatalogTypeOK'
  BY <1>1, FiltersFit, ExtendedType DEF TypeOK, CatalogTypeOK, BuildIndexes
<1>6. plan' \in [Runs -> SUBSET Pairs] /\ plan'[r] = planned
      /\ \A q \in Runs \ {r} : plan'[q] = plan[q]
  BY <1>1, <1>4 DEF TypeOK
<1> HIDE DEF planned
<1>7. CASE planned = {} /\ Leave(r, a) /\ UNCHANGED <<job, report>>
  <2>1. Reported(r)' BY <1>7, <1>6 DEF Reported
  <2>2. job' = job /\ report' = report /\ Leave(r, a) BY <1>7
  <2>3. /\ phase' \in [Runs -> Phases] /\ pending' \in [Runs -> SUBSET Devices]
        /\ phase'[r] \in {"closing", "ended"}
        /\ phase'[r] = "closing" => a.disconnect /\ pending'[r] \subseteq Matching(a)
        /\ \A q \in Runs \ {r} : phase'[q] = phase[q] /\ pending'[q] = pending[q]
    BY <2>2, LeaveKeeps
  <2>4. Stage(r)' BY <2>1, <2>2, <2>3 DEF Stage
  <2> QED BY <2>2, <2>3, <2>4, <1>5, <1>6 DEF TypeOK, Only
<1>8. CASE a.dryRun /\ report' = [report EXCEPT ![r] = coros \X {"unset"}] /\ Leave(r, a) /\ UNCHANGED job
  <2>1. report' \in [Runs -> SUBSET (Pairs \X Outcomes)] /\ report'[r] = coros \X {"unset"}
        /\ \A q \in Runs \ {r} : report'[q] = report[q]
    BY <1>8, <1>4 DEF TypeOK, Outcomes
  <2>2. Reported(r)'
    <3> HIDE DEF coros
    <3>1. {x[1] : x \in coros \X {"unset"}} = coros
      <4> DEFINE rows == coros \X {"unset"}
      <4>1. \A p \in coros : \E x \in rows : x[1] = p
        <5> TAKE p \in coros
        <5>1. <<p, "unset">> \in rows /\ <<p, "unset">>[1] = p OBVIOUS
        <5> QED BY <5>1
      <4>2. \A x \in rows : x[1] \in coros OBVIOUS
      <4> HIDE DEF rows
      <4>3. {x[1] : x \in rows} = coros BY <4>1, <4>2
      <4> QED BY <4>3 DEF rows
    <3>4. coros = {p \in planned : p[2] \notin Broken} BY DEF coros
    <3>2. \A x, y \in coros \X {"unset"} : x[1] = y[1] => x = y OBVIOUS
    <3>3. job' = job /\ \A p \in Pairs : job[r][p] \notin {"waiting", "active"} BY <1>8
    <3> QED BY <2>1, <1>6, <3>1, <3>2, <3>3, <3>4 DEF Reported
  <2>3. /\ phase' \in [Runs -> Phases] /\ pending' \in [Runs -> SUBSET Devices]
        /\ phase'[r] \in {"closing", "ended"}
        /\ phase'[r] = "closing" => a.disconnect /\ pending'[r] \subseteq Matching(a)
        /\ \A q \in Runs \ {r} : phase'[q] = phase[q] /\ pending'[q] = pending[q]
    BY <1>8, LeaveKeeps
  <2>4. job' = job /\ Leave(r, a) BY <1>8
  <2>5. Stage(r)' BY <2>2, <2>3, <2>4 DEF Stage
  <2> QED BY <2>1, <2>3, <2>4, <2>5, <1>5, <1>6 DEF TypeOK, Only
<1>9. CASE /\ job' = [job EXCEPT ![r] = [p \in Pairs |-> IF p \in coros THEN "waiting" ELSE "none"]]
           /\ phase' = [phase EXCEPT ![r] = "running"]
           /\ UNCHANGED <<pending, report>>
  <2>1. /\ job' \in [Runs -> [Pairs -> JobStates]]
        /\ \A p \in Pairs : job'[r][p] = IF p \in coros THEN "waiting" ELSE "none"
        /\ \A q \in Runs \ {r} : job'[q] = job[q]
    BY <1>9 DEF TypeOK, JobStates
  <2>2. phase' \in [Runs -> Phases] /\ phase'[r] = "running" /\ \A q \in Runs \ {r} : phase'[q] = phase[q]
    BY <1>9 DEF TypeOK, Phases
  <2>3. Stage(r)' BY <2>1, <2>2, <1>4, <1>6, <1>9 DEF Stage
  <2> QED BY <2>1, <2>2, <2>3, <1>5, <1>6, <1>9 DEF TypeOK, Only
<1> QED BY <1>1, <1>7, <1>8, <1>9, <1>6

\* A step of run r that starts it, connects it or ends it.
LEMMA StartKeeps ==
    ASSUME TypeOK, NEW r \in Runs, NEW a \in RunArgs, Stage(r), Start(r, a)
    PROVE  TypeOK' /\ Stage(r)' /\ Only(r)
<1>1. /\ phase[r] = "idle" /\ args' = [args EXCEPT ![r] = a]
      /\ UNCHANGED <<tests, client, established, crashed>>
      /\ plan[r] = {} /\ report[r] = {} /\ r \notin crashed /\ \A p \in Pairs : job[r][p] = "none"
  BY DEF Start, Stage, deviceVars
<1>2. args' \in [Runs -> RunArgs \cup {Null}] /\ args'[r] = a
      /\ \A q \in Runs \ {r} : args'[q] = args[q]
  BY <1>1 DEF TypeOK
<1>3. CASE /\ Leave(r, a)
           /\ UNCHANGED <<index, built, used, selected, plan, job, report>>
  <2>1. /\ phase' \in [Runs -> Phases] /\ pending' \in [Runs -> SUBSET Devices]
        /\ phase'[r] \in {"closing", "ended"}
        /\ phase'[r] = "closing" => a.disconnect /\ pending'[r] \subseteq Matching(a)
        /\ \A q \in Runs \ {r} : phase'[q] = phase[q] /\ pending'[q] = pending[q]
    BY <1>3, LeaveKeeps
  <2>2. Reported(r)' BY <1>1, <1>3 DEF Reported
  <2>3. Stage(r)' BY <1>1, <1>2, <1>3, <2>1, <2>2 DEF Stage
  <2>4. CatalogTypeOK' BY <1>1, <1>3 DEF TypeOK, CatalogTypeOK
  <2> QED BY <1>1, <1>2, <1>3, <2>1, <2>3, <2>4 DEF TypeOK, Only
<1>4. CASE /\ selected' = [selected EXCEPT ![r] = Matching(a)]
           /\ SetUpTests(r, a, Matching(a))
  <2>1. selected' \in [Runs -> SUBSET Devices] BY <1>4, MatchingDevices DEF TypeOK
  <2>2. Matching(a) \in SUBSET Matching(a) OBVIOUS
  <2>3. /\ CatalogTypeOK' /\ phase' \in [Runs -> Phases] /\ pending' \in [Runs -> SUBSET Devices]
        /\ plan' \in [Runs -> SUBSET Pairs] /\ job' \in [Runs -> [Pairs -> JobStates]]
        /\ report' \in [Runs -> SUBSET (Pairs \X Outcomes)]
        /\ Stage(r)' /\ Only(r)
    BY <1>1, <1>2, <1>4, <2>2, SetUpKeeps
  <2> QED BY <1>1, <1>2, <2>1, <2>3 DEF TypeOK
<1>5. CASE /\ phase' = [phase EXCEPT ![r] = "connecting"]
           /\ pending' = [pending EXCEPT ![r] = Matching(a)]
           /\ UNCHANGED <<index, built, used, selected, plan, job, report>>
  <2>1. phase' \in [Runs -> Phases] /\ phase'[r] = "connecting"
        /\ pending' \in [Runs -> SUBSET Devices] /\ pending'[r] = Matching(a)
        /\ \A q \in Runs \ {r} : phase'[q] = phase[q] /\ pending'[q] = pending[q]
    BY <1>5, MatchingDevices DEF TypeOK, Phases
  <2>2. Stage(r)' BY <1>1, <1>2, <1>5, <2>1 DEF Stage
  <2>3. CatalogTypeOK' BY <1>1, <1>5 DEF TypeOK, CatalogTypeOK
  <2> QED BY <1>1, <1>2, <1>5, <2>1, <2>2, <2>3 DEF TypeOK, Only
<1> QED BY <1>3, <1>4, <1>5 DEF Start

LEMMA ConnectedKeeps ==
    ASSUME TypeOK, NEW r \in Runs, Stage(r), Connected(r)
    PROVE  TypeOK' /\ Stage(r)' /\ Only(r)
<1> DEFINE a == args[r]
           reachable == {d \in Matching(a) : a.establishedOnly => established[d]}
<1>1. /\ phase[r] = "connecting" /\ a \in RunArgs
      /\ UNCHANGED <<tests, client, established, args, crashed>>
      /\ selected' = [selected EXCEPT ![r] = reachable]
      /\ plan[r] = {} /\ report[r] = {} /\ r \notin crashed /\ \A p \in Pairs : job[r][p] = "none"
  BY DEF Connected, Stage, deviceVars
<1>2. reachable \in SUBSET Matching(a) OBVIOUS
<1>3. selected' \in [Runs -> SUBSET Devices] BY <1>1, MatchingDevices DEF TypeOK
<1>4. args' \in [Runs -> RunArgs \cup {Null}] /\ args'[r] = a
      /\ \A q \in Runs \ {r} : args'[q] = args[q]
  BY <1>1 DEF TypeOK
<1>5. CASE Leave(r, a) /\ UNCHANGED <<index, built, used, plan, job, report>>
  <2>1. /\ phase' \in [Runs -> Phases] /\ pending' \in [Runs -> SUBSET Devices]
        /\ phase'[r] \in {"closing", "ended"}
        /\ phase'[r] = "closing" => a.disconnect /\ pending'[r] \subseteq Matching(a)
        /\ \A q \in Runs \ {r} : phase'[q] = phase[q] /\ pending'[q] = pending[q]
    BY <1>1, <1>5, LeaveKeeps
  <2>2. Reported(r)' BY <1>1, <1>5 DEF Reported
  <2>3. Stage(r)' BY <1>1, <1>4, <1>5, <2>1, <2>2 DEF Stage
  <2>4. CatalogTypeOK' BY <1>1, <1>5 DEF TypeOK, CatalogTypeOK
  <2> QED BY <1>1, <1>3, <1>5, <2>1, <2>3, <2>4 DEF TypeOK, Only
<1>6. CASE SetUpTests(r, a, reachable)
  <2>1. /\ CatalogTypeOK' /\ phase' \in [Runs -> Phases] /\ pending' \in [Runs -> SUBSET Devices]
        /\ plan' \in [Runs -> SUBSET Pairs] /\ job' \in [Runs -> [Pairs -> JobStates]]
        /\ report' \in [Runs -> SUBSET (Pairs \X Outcomes)]
        /\ Stage(r)' /\ Only(r)
    BY <1>1, <1>2, <1>4, <1>6, SetUpKeeps
  <2> QED BY <1>1, <1>3, <1>4, <2>1 DEF TypeOK
<1> QED BY <1>5, <1>6 DEF Connected

\* The devices of a run are connected or disconnected, one by one.
LEMMA LinksKeep ==
    ASSUME TypeOK, NEW r \in Runs, Stage(r), Links(r)
    PROVE  TypeOK' /\ Stage(r)' /\ Only(r)
<1>1. PICK d \in Devices : Refresh(r, d) \/ Disconnect(r, d) BY DEF Links
<1>2. /\ phase[r] \in {"connecting", "closing"}
      /\ pending' = [pending EXCEPT ![r] = @ \ {d}]
      /\ UNCHANGED <<catalogVars, phase, args, selected, plan, job, report, crashed>>
  BY <1>1 DEF Refresh, Disconnect
<1>3. /\ client' \in [Devices -> {"open", "closed"}]
      /\ established' \in [Devices -> BOOLEAN]
  <2>1. PICK state \in {"open", "closed"}, up \in BOOLEAN :
            /\ client' = [client EXCEPT ![d] = state]
            /\ established' = [established EXCEPT ![d] = up]
    BY <1>1 DEF Refresh, Disconnect, TypeOK
  <2> QED BY <2>1 DEF TypeOK
<1>4. /\ pending' \in [Runs -> SUBSET Devices] /\ pending'[r] = pending[r] \ {d}
      /\ \A q \in Runs \ {r} : pending'[q] = pending[q]
  BY <1>2 DEF TypeOK
<1>5. Reported(r)' <=> Reported(r) BY <1>2 DEF Reported
<1>6. Stage(r)' BY <1>2, <1>4, <1>5 DEF Stage, Matching, Given
<1>7. CatalogTypeOK' BY <1>2 DEF TypeOK, CatalogTypeOK, catalogVars
<1> QED BY <1>2, <1>3, <1>4, <1>6, <1>7 DEF TypeOK, Only

LEMMA EndKeeps ==
    ASSUME TypeOK, NEW r \in Runs, Stage(r), End(r)
    PROVE  TypeOK' /\ Stage(r)' /\ Only(r)
<1>1. /\ phase[r] = "closing" /\ phase' = [phase EXCEPT ![r] = "ended"]
      /\ UNCHANGED <<tests, index, built, used, client, established, args, pending, selected,
                     plan, job, report, crashed>>
  BY DEF End, catalogVars, deviceVars
<1>2. phase' \in [Runs -> Phases] /\ phase'[r] = "ended" /\ \A q \in Runs \ {r} : phase'[q] = phase[q]
  BY <1>1 DEF TypeOK, Phases
<1>3. Reported(r)' <=> Reported(r) BY <1>1 DEF Reported
<1>4. Stage(r)' BY <1>1, <1>2, <1>3 DEF Stage, Matching, Given
<1> QED BY <1>1, <1>2, <1>4 DEF TypeOK, Only, CatalogTypeOK

\* One job moves on, and nothing else of its run unless it raises.
LEMMA BecomesKeeps ==
    ASSUME TypeOK, NEW r \in Runs, NEW p \in Pairs, NEW state \in JobStates, Becomes(r, p, state)
    PROVE  /\ job' \in [Runs -> [Pairs -> JobStates]]
           /\ \A q \in Pairs : job'[r][q] = IF q = p THEN state ELSE job[r][q]
           /\ \A q \in Runs \ {r} : job'[q] = job[q]
BY DEF TypeOK, Becomes

\* A job is admitted or ends, while its run waits or after its run has crashed.
LEMMA JobMoves ==
    ASSUME TypeOK, NEW r \in Runs, NEW p \in Pairs, Stage(r),
           NEW state \in {"active", "verdict", "cut"}, Becomes(r, p, state),
           job[r][p] \in {"waiting", "active"},
           UNCHANGED <<catalogVars, deviceVars, phase, args, pending, selected, plan, report, crashed>>
    PROVE  TypeOK' /\ Stage(r)' /\ Only(r)
<1>1. /\ job' \in [Runs -> [Pairs -> JobStates]]
      /\ \A q \in Pairs : job'[r][q] = IF q = p THEN state ELSE job[r][q]
      /\ \A q \in Runs \ {r} : job'[q] = job[q]
  BY BecomesKeeps DEF JobStates
<1>2. UNCHANGED <<tests, index, built, used, client, established, phase, args, pending, selected,
                  plan, report, crashed>>
  BY DEF catalogVars, deviceVars
<1>3. \A q \in Pairs : job'[r][q] # "none" <=> job[r][q] # "none" BY <1>1
<1>4. phase[r] \notin {"idle", "connecting"} BY DEF Stage
<1>5. Reported(r) => Reported(r)' BY <1>1, <1>2 DEF Reported
<1>6. Stage(r)' BY <1>1, <1>2, <1>3, <1>4, <1>5 DEF Stage, Matching, Given
<1> QED BY <1>1, <1>2, <1>6 DEF TypeOK, Only, CatalogTypeOK

\* The first job that raises ends its run, which reports nothing; the others raise
\* into the void.
LEMMA RaiseKeeps ==
    ASSUME TypeOK, NEW r \in Runs, NEW p \in Pairs, Stage(r), RaiseJob(r, p)
    PROVE  TypeOK' /\ Stage(r)' /\ Only(r)
<1>1. /\ job' \in [Runs -> [Pairs -> JobStates]]
      /\ \A q \in Pairs : job'[r][q] = IF q = p THEN "raised" ELSE job[r][q]
      /\ \A q \in Runs \ {r} : job'[q] = job[q]
  BY BecomesKeeps DEF RaiseJob, JobStates
<1>2. /\ job[r][p] = "active"
      /\ UNCHANGED <<tests, index, built, used, client, established, args, selected, plan, report>>
  BY DEF RaiseJob, catalogVars, deviceVars
<1>3. phase[r] \notin {"idle", "connecting"} /\ args[r] \in RunArgs BY <1>2 DEF Stage, TypeOK
<1>4. \A q \in Pairs : job'[r][q] # "none" <=> job[r][q] # "none" BY <1>1, <1>2
<1>5. CASE phase[r] = "running" /\ Leave(r, args[r]) /\ crashed' = crashed \cup {r}
  <2>1. /\ phase' \in [Runs -> Phases] /\ pending' \in [Runs -> SUBSET Devices]
        /\ phase'[r] \in {"closing", "ended"}
        /\ phase'[r] = "closing" => args[r].disconnect /\ pending'[r] \subseteq Matching(args[r])
        /\ \A q \in Runs \ {r} : phase'[q] = phase[q] /\ pending'[q] = pending[q]
    BY <1>3, <1>5, LeaveKeeps
  <2>2. report[r] = {} BY <1>5 DEF Stage
  <2>3. Reported(r)' BY <1>2, <1>5, <2>2 DEF Reported
  <2>4. Stage(r)' BY <1>2, <1>3, <1>4, <2>1, <2>3 DEF Stage, Matching, Given
  <2> QED BY <1>1, <1>2, <1>5, <2>1, <2>4 DEF TypeOK, Only, CatalogTypeOK
<1>6. CASE phase[r] # "running" /\ UNCHANGED <<phase, pending, crashed>>
  <2>1. r \in crashed BY <1>2, <1>3, <1>6 DEF Stage, Reported, TypeOK, Phases
  <2>2. Reported(r)' <=> report[r] = {} BY <1>2, <1>6, <2>1 DEF Reported
  <2>3. Reported(r) => report[r] = {} BY <2>1 DEF Reported
  <2>4. Stage(r)' BY <1>2, <1>3, <1>4, <1>6, <2>2, <2>3 DEF Stage, Matching, Given
  <2> QED BY <1>1, <1>2, <1>6, <2>4 DEF TypeOK, Only, CatalogTypeOK
<1> QED BY <1>5, <1>6 DEF RaiseJob

\* A run whose jobs have all ended reports each once, with how it ended.
LEMMA PublishKeeps ==
    ASSUME TypeOK, NEW r \in Runs, Stage(r), Publish(r)
    PROVE  TypeOK' /\ Stage(r)' /\ Only(r)
<1> DEFINE over == JobsIn(r, {"verdict", "cut"})
           rows == {<<p, job[r][p]>> : p \in over}
<1>1. /\ phase[r] = "running" /\ JobsIn(r, {"waiting", "active"}) = {}
      /\ report' = [report EXCEPT ![r] = rows] /\ Leave(r, args[r])
      /\ UNCHANGED <<tests, index, built, used, client, established, args, selected, plan, job, crashed>>
  BY DEF Publish, catalogVars, deviceVars
<1>2. args[r] \in RunArgs /\ r \notin crashed BY <1>1 DEF Stage
<1>3. /\ phase' \in [Runs -> Phases] /\ pending' \in [Runs -> SUBSET Devices]
      /\ phase'[r] \in {"closing", "ended"}
      /\ phase'[r] = "closing" => args[r].disconnect /\ pending'[r] \subseteq Matching(args[r])
      /\ \A q \in Runs \ {r} : phase'[q] = phase[q] /\ pending'[q] = pending[q]
  BY <1>1, <1>2, LeaveKeeps
<1>4. \A p \in Pairs : job[r][p] \notin {"waiting", "active"} BY <1>1 DEF JobsIn
<1>5. over = {p \in plan[r] : p[2] \notin Broken}
  <2>1. \A p \in Pairs : p \in over <=> job[r][p] # "none"
    BY <1>1, <1>4 DEF JobsIn, Stage, TypeOK, JobStates
  <2> QED BY <1>1, <2>1 DEF JobsIn, Stage, TypeOK
<1>6. over \subseteq Pairs /\ \A p \in over : job[r][p] \in Outcomes BY DEF JobsIn, Outcomes
<1> HIDE DEF over
<1>7. rows \subseteq Pairs \X Outcomes /\ \A x, y \in rows : x[1] = y[1] => x = y BY <1>6
<1>8. {x[1] : x \in rows} = over
  <2>1. \A p \in over : <<p, job[r][p]>> \in rows /\ <<p, job[r][p]>>[1] = p OBVIOUS
  <2>2. \A x \in rows : x[1] \in over OBVIOUS
  <2>3. \A p \in over : \E x \in rows : x[1] = p BY <2>1
  <2> HIDE DEF rows
  <2> QED BY <2>2, <2>3
<1> HIDE DEF rows
<1>9. /\ report' \in [Runs -> SUBSET (Pairs \X Outcomes)] /\ report'[r] = rows
      /\ \A q \in Runs \ {r} : report'[q] = report[q]
  BY <1>1, <1>7 DEF TypeOK
<1>10. Reported(r)' BY <1>1, <1>2, <1>4, <1>5, <1>7, <1>8, <1>9 DEF Reported
<1>11. Stage(r)' BY <1>1, <1>2, <1>3, <1>10 DEF Stage, Matching, Given
<1> QED BY <1>1, <1>3, <1>9, <1>11 DEF TypeOK, Only, CatalogTypeOK

\* Every step is one run's, and keeps what all of them have.
LEMMA RunKeeps ==
    ASSUME StageInv, Next
    PROVE  StageInv'
<1>1. PICK r \in Runs : \/ \E a \in RunArgs : Start(r, a)
                        \/ Links(r) \/ Connected(r) \/ Jobs(r) \/ Publish(r) \/ End(r)
  BY DEF Next
<1>2. TypeOK /\ Stage(r) BY DEF StageInv
<1>3. ASSUME Jobs(r) PROVE TypeOK' /\ Stage(r)' /\ Only(r)
  <2>1. PICK p \in Pairs : Admit(r, p) \/ EndJob(r, p) \/ RaiseJob(r, p) BY <1>3 DEF Jobs
  <2>2. CASE Admit(r, p) \/ EndJob(r, p)
    <3>1. PICK state \in {"active", "verdict", "cut"} : Becomes(r, p, state)
      BY <2>2 DEF Admit, EndJob
    <3>2. /\ job[r][p] \in {"waiting", "active"}
          /\ UNCHANGED <<catalogVars, deviceVars, phase, args, pending, selected, plan, report, crashed>>
      BY <2>2 DEF Admit, EndJob
    <3> QED BY <1>2, <3>1, <3>2, JobMoves
  <2>3. CASE RaiseJob(r, p) BY <1>2, <2>3, RaiseKeeps
  <2> QED BY <2>1, <2>2, <2>3
<1>4. TypeOK' /\ Stage(r)' /\ Only(r)
  <2>1. CASE \E a \in RunArgs : Start(r, a) BY <1>2, <2>1, StartKeeps
  <2> QED BY <1>1, <1>2, <1>3, <2>1, LinksKeep, ConnectedKeeps, PublishKeeps, EndKeeps
<1>5. ASSUME NEW q \in Runs \ {r} PROVE Stage(q)'
  <2>1. Stage(q) BY DEF StageInv
  <2>2. Reported(q)' <=> Reported(q) BY <1>4 DEF Only, Reported
  <2> QED BY <1>4, <2>1, <2>2 DEF Only, Stage, Matching, Given
<1> QED BY <1>4, <1>5 DEF StageInv

LEMMA InitStage == Init => StageInv
<1> SUFFICES ASSUME Init PROVE StageInv
  OBVIOUS
<1>1. CatalogTypeOK BY DEF Init, CatalogInit, EmptyIndex, CatalogTypeOK
<1>2. TypeOK BY <1>1 DEF Init, TypeOK, Phases, JobStates
<1>3. \A r \in Runs : Stage(r) BY DEF Init, Stage
<1> QED BY <1>2, <1>3 DEF StageInv

LEMMA StutterKeeps ==
    ASSUME StageInv, UNCHANGED vars
    PROVE  StageInv'
<1>1. UNCHANGED <<tests, index, built, used, client, established, phase, args, pending, selected,
                  plan, job, report, crashed>>
  BY DEF vars, catalogVars, deviceVars, runVars
<1>2. TypeOK' BY <1>1 DEF StageInv, TypeOK, CatalogTypeOK
<1>3. ASSUME NEW r \in Runs PROVE Stage(r)'
  BY <1>1 DEF StageInv, Stage, Reported, Matching, Given
<1> QED BY <1>2, <1>3 DEF StageInv

\* In every reachable state each run has what belongs to the stage it is at.
THEOREM Inductive == Spec => []StageInv
BY InitStage, RunKeeps, StutterKeeps, PTL DEF Spec

\* Type correctness of the runner, whatever the inventory, catalog and arguments.
THEOREM TypeCorrect == Spec => []TypeOK
<1>1. StageInv => TypeOK BY DEF StageInv
<1> QED BY Inductive, <1>1, PTL

\* A finished run has reported each planned test that could be instantiated, once, or
\* nothing at all if its gather raised (AntaRunner.run).
THEOREM ReportComplete == Spec => []ReportIsComplete
<1>1. StageInv => ReportIsComplete
  <2> SUFFICES ASSUME StageInv, NEW r \in Runs, phase[r] \in {"closing", "ended"}, Reported(r)
               PROVE  IF r \in crashed THEN report[r] = {}
                      ELSE /\ {x[1] : x \in report[r]} = {p \in plan[r] : p[2] \notin Broken}
                           /\ \A x, y \in report[r] : x[1] = y[1] => x = y
                           /\ JobsIn(r, {"waiting", "active"}) = {}
    BY DEF StageInv, Stage, ReportIsComplete
  <2> QED BY DEF Reported, JobsIn
<1> QED BY Inductive, <1>1, PTL

-----------------------------------------------------------------------------
(* The clients *)

Step(r) ==
    \/ \E a \in RunArgs : Start(r, a)
    \/ Links(r) \/ Connected(r) \/ Jobs(r) \/ Publish(r) \/ End(r)

\* Run q matched device d and has not disconnected it yet, or never will.
Owes(q, d) ==
    /\ phase[q] # "idle" /\ d \in Matching(args[q])
    /\ \/ phase[q] \in {"connecting", "running"}
       \/ phase[q] = "closing" /\ d \in pending[q]
       \/ ~args[q].disconnect

\* An open client of a device some run has matched: there is a run that owes it.
Accounted ==
    \A r \in Runs, d \in Devices :
        phase[r] # "idle" /\ d \in Matching(args[r]) /\ client[d] = "open" =>
            \E q \in Runs : Owes(q, d)

\* Steps belong to one run; the others keep what they have, and so does the catalog's
\* user.
LEMMA OneRunSteps ==
    ASSUME StageInv, Next
    PROVE  \E r \in Runs : Step(r) /\ Only(r) /\ Stage(r)' /\ TypeOK'
<1>1. PICK r \in Runs : Step(r) BY DEF Next, Step
<1>2. TypeOK /\ Stage(r) BY DEF StageInv
<1>3. StageInv' BY RunKeeps
<1>4. Only(r)
  <2>1. CASE \E a \in RunArgs : Start(r, a) BY <1>2, <2>1, StartKeeps
  <2>2. CASE Jobs(r)
    <3>1. UNCHANGED <<args, plan, report>> /\ \A q \in Runs \ {r} : job'[q] = job[q]
      BY <1>2, <2>2 DEF Jobs, Admit, EndJob, RaiseJob, Becomes, TypeOK
    <3>2. \A q \in Runs \ {r} : phase'[q] = phase[q] /\ pending'[q] = pending[q]
      BY <1>2, <2>2 DEF Jobs, Admit, EndJob, RaiseJob, Leave, TypeOK
    <3>3. \A q \in Runs \ {r} : q \in crashed' <=> q \in crashed
      BY <2>2 DEF Jobs, Admit, EndJob, RaiseJob
    <3> QED BY <3>1, <3>2, <3>3 DEF Only
  <2> QED BY <1>1, <1>2, <2>1, <2>2, LinksKeep, ConnectedKeeps, PublishKeeps, EndKeeps DEF Step
<1> QED BY <1>1, <1>3, <1>4 DEF StageInv

\* What a step of a run does to the run itself and to the clients.
LEMMA StepFacts ==
    ASSUME StageInv, NEW r \in Runs, Step(r)
    PROVE  /\ phase[r] # "idle" => args'[r] = args[r]
           /\ phase[r] \in {"closing", "ended"} => phase'[r] \in {"closing", "ended"}
           /\ r \in crashed => r \in crashed'
           /\ \A d \in Devices : client'[d] # client[d] =>
                  \/ /\ client'[d] = "open" /\ phase[r] = "connecting" /\ d \in pending[r]
                     /\ UNCHANGED <<phase, args, job, crashed>>
                     /\ d \notin pending'[r]
                  \/ /\ client'[d] = "closed" /\ phase[r] = "closing" /\ d \in pending[r]
                     /\ UNCHANGED <<phase, args, job, crashed>>
<1>1. TypeOK /\ Stage(r) BY DEF StageInv
<1>2. CASE \E a \in RunArgs : Start(r, a)
  <2>1. phase[r] = "idle" /\ UNCHANGED <<client, crashed>> BY <1>2 DEF Start, deviceVars
  <2> QED BY <2>1
<1>3. CASE Links(r)
  <2>1. PICK d \in Devices : Refresh(r, d) \/ Disconnect(r, d) BY <1>3 DEF Links
  <2>2. /\ UNCHANGED <<phase, args, job, crashed>> /\ d \in pending[r]
        /\ pending' = [pending EXCEPT ![r] = @ \ {d}]
        /\ \/ phase[r] = "connecting" /\ client' = [client EXCEPT ![d] = "open"]
           \/ phase[r] = "closing" /\ client' = [client EXCEPT ![d] = "closed"]
    BY <2>1 DEF Refresh, Disconnect
  <2>3. d \notin pending'[r] BY <1>1, <2>2 DEF TypeOK
  <2>4. \A e \in Devices : client'[e] # client[e] => e = d /\ client'[d] # client[d]
    BY <1>1, <2>2 DEF TypeOK
  <2>5. \/ phase[r] = "connecting" /\ client'[d] = "open"
        \/ phase[r] = "closing" /\ client'[d] = "closed"
    BY <1>1, <2>2 DEF TypeOK
  <2> QED BY <2>2, <2>3, <2>4, <2>5
<1>4. CASE Connected(r)
  BY <1>4 DEF Connected, deviceVars
<1>5. CASE Jobs(r)
  <2>1. PICK p \in Pairs : Admit(r, p) \/ EndJob(r, p) \/ RaiseJob(r, p) BY <1>5 DEF Jobs
  <2>2. UNCHANGED <<client, args>> /\ (r \in crashed => r \in crashed')
    BY <2>1 DEF Admit, EndJob, RaiseJob, deviceVars
  <2>3. phase' = phase \/ phase[r] = "running"
    BY <2>1 DEF Admit, EndJob, RaiseJob
  <2> QED BY <2>2, <2>3
<1>6. CASE Publish(r)
  BY <1>6 DEF Publish, deviceVars
<1>7. CASE End(r)
  <2>1. phase' = [phase EXCEPT ![r] = "ended"] /\ UNCHANGED <<client, args, crashed>>
    BY <1>7 DEF End, deviceVars
  <2> QED BY <1>1, <2>1 DEF TypeOK
<1> QED BY <1>2, <1>3, <1>4, <1>5, <1>6, <1>7 DEF Step

\* A run that is left owes what it matched, unless it was not asked to disconnect.
LEMMA LeaveOwes ==
    ASSUME TypeOK, NEW r \in Runs, NEW a \in RunArgs, Leave(r, a), args'[r] = a,
           NEW d \in Matching(a)
    PROVE  Owes(r, d)'
<1>1. /\ phase'[r] \in {"closing", "ended"}
      /\ a.disconnect => phase'[r] = "closing" /\ pending'[r] = Matching(a)
  BY LeaveKeeps
<1>2. Matching(args'[r]) = Matching(a) OBVIOUS
<1> QED BY <1>1, <1>2 DEF Owes, Matching, Given

\* A set-up that is not a departure leaves the run with its tests before it.
LEMMA SetUpOwes ==
    ASSUME TypeOK, NEW r \in Runs, NEW a \in RunArgs, NEW devices, SetUpTests(r, a, devices),
           args'[r] = a, NEW d \in Matching(a)
    PROVE  Owes(r, d)'
<1>1. CASE Leave(r, a) BY <1>1, LeaveOwes
<1>2. CASE phase' = [phase EXCEPT ![r] = "running"]
  <2>1. phase'[r] = "running" BY <1>2 DEF TypeOK
  <2> QED BY <2>1 DEF Owes, Matching, Given
<1> QED BY <1>1, <1>2 DEF SetUpTests

\* A step of a run keeps what it owes as long as the client is open, and a run that
\* starts, or opens a client, owes it.
LEMMA OwesLasts ==
    ASSUME StageInv, NEW r \in Runs, Step(r), NEW d \in Devices, client'[d] = "open"
    PROVE  /\ phase[r] = "idle" /\ phase'[r] # "idle" /\ d \in Matching(args'[r]) => Owes(r, d)'
           /\ client[d] # "open" => Owes(r, d)'
           /\ Owes(r, d) => Owes(r, d)'
<1>1. TypeOK /\ Stage(r) BY DEF StageInv
<1>2. CASE \E a \in RunArgs : Start(r, a)
  <2>1. PICK a \in RunArgs : Start(r, a) BY <1>2
  <2>2. phase[r] = "idle" /\ args'[r] = a /\ client' = client
    BY <1>1, <2>1 DEF Start, deviceVars, TypeOK
  <2>3. ASSUME d \in Matching(a) PROVE Owes(r, d)'
    <3>1. CASE Leave(r, a) BY <1>1, <2>2, <2>3, <3>1, LeaveOwes
    <3>2. CASE SetUpTests(r, a, Matching(a)) BY <1>1, <2>2, <2>3, <3>2, SetUpOwes
    <3>3. CASE phase' = [phase EXCEPT ![r] = "connecting"]
      <4>1. phase'[r] = "connecting" BY <1>1, <3>3 DEF TypeOK
      <4> QED BY <4>1, <2>2, <2>3 DEF Owes, Matching, Given
    <3> QED BY <2>1, <3>1, <3>2, <3>3 DEF Start
  <2> QED BY <2>2, <2>3 DEF Owes
<1>3. CASE Links(r)
  <2>1. PICK e \in Devices : Refresh(r, e) \/ Disconnect(r, e) BY <1>3 DEF Links
  <2>2. CASE Refresh(r, e)
    <3>1. /\ phase[r] = "connecting" /\ UNCHANGED <<phase, args>> /\ e \in pending[r]
          /\ client' = [client EXCEPT ![e] = "open"]
      BY <2>2 DEF Refresh
    <3>2. e \in Matching(args[r]) BY <1>1, <3>1 DEF Stage, TypeOK
    <3>3. client[d] # "open" => d = e BY <1>1, <3>1 DEF TypeOK
    <3>4. d \in Matching(args[r]) => Owes(r, d)' BY <3>1 DEF Owes, Matching, Given
    <3> QED BY <3>1, <3>2, <3>3, <3>4, <1>1 DEF Owes, Stage
  <2>3. CASE Disconnect(r, e)
    <3>1. /\ phase[r] = "closing" /\ UNCHANGED <<phase, args>>
          /\ pending' = [pending EXCEPT ![r] = @ \ {e}]
          /\ client' = [client EXCEPT ![e] = "closed"]
      BY <2>3 DEF Disconnect
    <3>2. client[d] = "open" /\ d # e BY <1>1, <3>1 DEF TypeOK
    <3>3. d \in pending[r] => d \in pending'[r] BY <1>1, <3>1, <3>2 DEF TypeOK
    <3> QED BY <3>1, <3>2, <3>3 DEF Owes, Matching, Given
  <2> QED BY <2>1, <2>2, <2>3
<1>4. CASE Connected(r)
  <2> DEFINE a == args[r]
             reachable == {e \in Matching(a) : a.establishedOnly => established[e]}
  <2>1. phase[r] = "connecting" /\ a \in RunArgs /\ args' = args /\ client' = client
    BY <1>1, <1>4 DEF Connected, deviceVars, Stage
  <2>2. ASSUME d \in Matching(a) PROVE Owes(r, d)'
    <3>1. CASE Leave(r, a) BY <1>1, <2>1, <2>2, <3>1, LeaveOwes
    <3>2. CASE SetUpTests(r, a, reachable) BY <1>1, <2>1, <2>2, <3>2, SetUpOwes
    <3> QED BY <1>4, <3>1, <3>2 DEF Connected
  <2> QED BY <2>1, <2>2 DEF Owes
<1>5. ASSUME Jobs(r) \/ Publish(r)
      PROVE  /\ phase[r] # "idle" /\ args' = args /\ client' = client
             /\ \/ UNCHANGED <<phase, pending>>
                \/ args[r] \in RunArgs /\ Leave(r, args[r])
  <2>1. CASE Jobs(r)
    <3>1. PICK p \in Pairs : Admit(r, p) \/ EndJob(r, p) \/ RaiseJob(r, p) BY <2>1 DEF Jobs
    <3>2. job[r][p] # "none" BY <3>1 DEF Admit, EndJob, RaiseJob
    <3> QED BY <1>1, <3>1, <3>2 DEF Admit, EndJob, RaiseJob, deviceVars, Stage
  <2>2. CASE Publish(r)
    <3>1. phase[r] = "running" /\ UNCHANGED <<client, args>> /\ Leave(r, args[r])
      BY <2>2 DEF Publish, deviceVars
    <3> QED BY <1>1, <3>1 DEF Stage
  <2> QED BY <1>5, <2>1, <2>2
<1>6. CASE Jobs(r) \/ Publish(r)
  <2>1. CASE UNCHANGED <<phase, pending>> BY <1>5, <1>6, <2>1 DEF Owes, Matching, Given
  <2>2. CASE args[r] \in RunArgs /\ Leave(r, args[r])
    BY <1>1, <1>5, <1>6, <2>2, LeaveOwes DEF Owes
  <2> QED BY <1>5, <1>6, <2>1, <2>2
<1>7. CASE End(r)
  <2>1. /\ phase[r] = "closing" /\ pending[r] = {} /\ phase' = [phase EXCEPT ![r] = "ended"]
        /\ UNCHANGED <<args, client>>
    BY <1>7 DEF End, deviceVars
  <2>2. phase'[r] = "ended" BY <1>1, <2>1 DEF TypeOK
  <2> QED BY <2>1, <2>2 DEF Owes, Matching, Given
<1> QED BY <1>2, <1>3, <1>4, <1>6, <1>7 DEF Step

LEMMA AccountedKeeps ==
    ASSUME StageInv, Accounted, Next
    PROVE  Accounted'
<1>1. PICK r \in Runs : Step(r) /\ Only(r) BY OneRunSteps
<1>2. \A q \in Runs \ {r}, d \in Devices : Owes(q, d) => Owes(q, d)'
  BY <1>1 DEF Only, Owes, Matching, Given
<1>3. SUFFICES ASSUME NEW s \in Runs, NEW d \in Devices,
                      phase'[s] # "idle", d \in Matching(args'[s]), client'[d] = "open"
               PROVE  \E q \in Runs : Owes(q, d)'
  BY DEF Accounted, Matching, Given
<1>4. /\ phase[r] = "idle" /\ phase'[r] # "idle" /\ d \in Matching(args'[r]) => Owes(r, d)'
      /\ client[d] # "open" => Owes(r, d)'
      /\ Owes(r, d) => Owes(r, d)'
  BY <1>1, <1>3, OwesLasts
<1>5. phase[r] # "idle" => args'[r] = args[r] BY <1>1, StepFacts
<1>6. CASE s = r /\ phase[r] = "idle" BY <1>3, <1>4, <1>6
<1>7. CASE client[d] # "open" BY <1>4, <1>7
<1>8. CASE client[d] = "open" /\ phase[s] # "idle" /\ args'[s] = args[s]
  <2>1. \E q \in Runs : Owes(q, d) BY <1>3, <1>8 DEF Accounted
  <2> QED BY <2>1, <1>2, <1>4
<1> QED BY <1>1, <1>3, <1>5, <1>6, <1>7, <1>8 DEF Only

\* When every run was asked to disconnect and all are over, no device that one of
\* them matched is left open, however they ended (the `finally` of AntaRunner.run).
THEOREM NothingStaysOpen == Spec => []NoConnectionLeft
<1>1. Init => Accounted BY DEF Init, Accounted
<1>2. Accounted /\ UNCHANGED vars => Accounted'
  BY DEF Accounted, Owes, vars, deviceVars, runVars, Matching, Given
<1>3. StageInv /\ Accounted => NoConnectionLeft
  <2> SUFFICES ASSUME StageInv, Accounted, \A r \in Runs : phase[r] = "ended" /\ args[r].disconnect,
                      NEW r \in Runs, NEW d \in Matching(args[r])
               PROVE  client[d] = "closed"
    BY DEF NoConnectionLeft
  <2>1. args[r] \in RunArgs BY DEF StageInv, Stage
  <2>2. d \in Devices BY <2>1, MatchingDevices
  <2>3. \A q \in Runs : ~Owes(q, d) BY DEF Owes
  <2>4. client[d] # "open" BY <2>2, <2>3 DEF Accounted
  <2> QED BY <2>2, <2>4 DEF StageInv, TypeOK
<1> QED BY Inductive, AccountedKeeps, <1>1, <1>2, <1>3, PTL DEF Spec

-----------------------------------------------------------------------------
(* Tests that are cut off *)

\* Why the client of d may be closed under a test of run r.
Excuse(r, d) ==
    \/ r \in crashed /\ args[r].disconnect
    \/ \E q \in Runs \ {r} :
          phase[q] \in {"closing", "ended"} /\ args[q].disconnect /\ d \in Matching(args[q])

\* Where run r is to use device d: it has opened its client, or has a job there.
Uses(r, d) ==
    \/ phase[r] = "connecting" /\ d \in Matching(args[r]) \ pending[r]
    \/ \E p \in Pairs : job[r][p] \in {"waiting", "active"} /\ p[1] = d

Excused ==
    /\ \A r \in Runs, d \in Devices : Uses(r, d) /\ client[d] = "closed" => Excuse(r, d)
    /\ \A r \in Runs, p \in Pairs : job[r][p] = "cut" => Excuse(r, p[1])

LEMMA ExcuseLasts ==
    ASSUME StageInv, NEW r \in Runs, Step(r), Only(r), NEW s \in Runs, NEW d \in Devices,
           Excuse(s, d)
    PROVE  Excuse(s, d)'
<1>1. /\ phase[r] # "idle" => args'[r] = args[r]
      /\ phase[r] \in {"closing", "ended"} => phase'[r] \in {"closing", "ended"}
      /\ r \in crashed => r \in crashed'
  BY StepFacts
<1>2. r \in crashed => phase[r] # "idle" BY DEF StageInv, Stage
<1>3. CASE s \in crashed /\ args[s].disconnect
  BY <1>1, <1>2, <1>3 DEF Excuse, Only
<1>4. ASSUME NEW q \in Runs \ {s},
             phase[q] \in {"closing", "ended"}, args[q].disconnect, d \in Matching(args[q])
      PROVE  phase'[q] \in {"closing", "ended"} /\ args'[q] = args[q]
  BY <1>1, <1>4 DEF Only
<1> QED BY <1>3, <1>4 DEF Excuse, Matching, Given

\* A set-up plans its jobs on devices the run is connected to.
LEMMA SetUpUses ==
    ASSUME TypeOK, NEW r \in Runs, NEW a \in RunArgs, NEW devices \in SUBSET Matching(a),
           \A p \in Pairs : job[r][p] = "none", SetUpTests(r, a, devices), NEW p \in Pairs,
           job'[r][p] # "none"
    PROVE  job'[r][p] = "waiting" /\ p[1] \in Matching(a)
<1> DEFINE planned == PlanFor(a, devices, Extended(index, a.tests))
<1>1. planned \subseteq devices \X Definitions
  BY FiltersFit, MatchingDevices, ExtendedType, PlanType DEF TypeOK
<1> HIDE DEF planned
<1>2. job' = [job EXCEPT ![r] = [q \in Pairs |-> IF q \in {x \in planned : x[2] \notin Broken}
                                                THEN "waiting" ELSE "none"]]
  BY DEF SetUpTests, planned
<1>3. job'[r][p] = IF p \in {x \in planned : x[2] \notin Broken} THEN "waiting" ELSE "none"
  BY <1>2 DEF TypeOK
<1> QED BY <1>1, <1>3

\* A device in use after a step was in use before it, or has just been opened; a job is
\* cut off when the client under it is closed.
LEMMA UsesBefore ==
    ASSUME StageInv, NEW r \in Runs, Step(r)
    PROVE  /\ \A d \in Devices : Uses(r, d)' => Uses(r, d) \/ client'[d] # "closed"
           /\ \A p \in Pairs : job'[r][p] = "cut" =>
                  job[r][p] = "cut" \/ (job[r][p] = "active" /\ client[p[1]] = "closed")
<1>1. TypeOK /\ Stage(r) BY DEF StageInv
<1>2. CASE \E a \in RunArgs : Start(r, a)
  <2>1. PICK a \in RunArgs : Start(r, a) BY <1>2
  <2>2. phase[r] = "idle" /\ args' = [args EXCEPT ![r] = a] /\ \A p \in Pairs : job[r][p] = "none"
    BY <1>1, <2>1 DEF Start, Stage
  <2>3. \/ job' = job /\ Leave(r, a)
        \/ job' = job /\ phase' = [phase EXCEPT ![r] = "connecting"]
           /\ pending' = [pending EXCEPT ![r] = Matching(a)]
    BY <2>1 DEF Start, SetUpTests
  <2>4. args'[r] = a BY <1>1, <2>2 DEF TypeOK
  <2>5. CASE Leave(r, a)
    <3>1. phase'[r] \in {"closing", "ended"} BY <1>1, <2>5, LeaveKeeps
    <3> QED BY <2>2, <2>3, <3>1 DEF Uses, Leave
  <2>6. CASE phase' = [phase EXCEPT ![r] = "connecting"]
             /\ pending' = [pending EXCEPT ![r] = Matching(a)]
    <3>1. pending'[r] = Matching(a) BY <1>1, <2>6 DEF TypeOK
    <3>2. Matching(args[r])' = Matching(a) BY <2>4 DEF Matching, Given
    <3>3. \A p \in Pairs : job'[r][p] = "none" BY <1>1, <2>2, <2>3, LeaveKeeps
    <3> QED BY <3>1, <3>2, <3>3 DEF Uses
  <2> QED BY <2>3, <2>5, <2>6
<1>3. CASE Links(r)
  <2>1. PICK e \in Devices : Refresh(r, e) \/ Disconnect(r, e) BY <1>3 DEF Links
  <2>2. UNCHANGED <<phase, args, job>> /\ pending' = [pending EXCEPT ![r] = @ \ {e}]
    BY <2>1 DEF Refresh, Disconnect
  <2>3. pending'[r] = pending[r] \ {e} BY <1>1, <2>2 DEF TypeOK
  <2>4. phase[r] = "connecting" => client'[e] = "open"
    BY <1>1, <2>1 DEF Refresh, Disconnect, TypeOK
  <2>5. \A d \in Devices : Uses(r, d)' => Uses(r, d) \/ (phase[r] = "connecting" /\ d = e)
    BY <2>2, <2>3 DEF Uses, Matching, Given
  <2> QED BY <2>2, <2>4, <2>5
<1>4. CASE Connected(r)
  <2> DEFINE a == args[r]
             reachable == {d \in Matching(a) : a.establishedOnly => established[d]}
  <2>1. /\ phase[r] = "connecting" /\ pending[r] = {} /\ a \in RunArgs /\ args' = args
        /\ \A p \in Pairs : job[r][p] = "none"
    BY <1>1, <1>4 DEF Connected, Stage
  <2>2. (Leave(r, a) /\ job' = job) \/ SetUpTests(r, a, reachable) BY <1>4 DEF Connected
  <2>3. phase'[r] # "connecting"
    <3>1. CASE Leave(r, a) BY <1>1, <2>1, <3>1, LeaveKeeps
    <3>2. CASE phase' = [phase EXCEPT ![r] = "running"] BY <1>1, <3>2 DEF TypeOK
    <3> QED BY <2>2, <3>1, <3>2 DEF SetUpTests
  <2>4. \A p \in Pairs : job'[r][p] # "none" => job'[r][p] = "waiting" /\ p[1] \in Matching(a)
    <3>1. reachable \in SUBSET Matching(a) OBVIOUS
    <3> HIDE DEF reachable
    <3> QED BY <1>1, <2>1, <2>2, <3>1, SetUpUses
  <2> QED BY <2>1, <2>3, <2>4 DEF Uses
<1>5. CASE Jobs(r)
  <2>1. PICK p \in Pairs : Admit(r, p) \/ EndJob(r, p) \/ RaiseJob(r, p) BY <1>5 DEF Jobs
  <2>2. PICK state \in {"active", "verdict", "cut", "raised"} :
            /\ Becomes(r, p, state)
            /\ job[r][p] \in {"waiting", "active"}
            /\ state = "cut" => job[r][p] = "active" /\ client[p[1]] = "closed"
    BY <2>1 DEF Admit, EndJob, RaiseJob
  <2>3. \A q \in Pairs : job'[r][q] = IF q = p THEN state ELSE job[r][q]
    BY <1>1, <2>2, BecomesKeeps DEF JobStates
  <2>4. phase'[r] # "connecting"
    <3>1. phase[r] # "connecting" BY <1>1, <2>2 DEF Stage
    <3>2. UNCHANGED phase \/ (args[r] \in RunArgs /\ Leave(r, args[r]))
      BY <1>1, <2>1 DEF Admit, EndJob, RaiseJob, Stage
    <3> QED BY <1>1, <3>1, <3>2, LeaveKeeps
  <2> QED BY <2>2, <2>3, <2>4 DEF Uses
<1>6. CASE Publish(r)
  <2>1. phase[r] = "running" /\ Leave(r, args[r]) /\ job' = job BY <1>6 DEF Publish
  <2>2. args[r] \in RunArgs BY <1>1, <2>1 DEF Stage
  <2>3. phase'[r] # "connecting" BY <1>1, <2>1, <2>2, LeaveKeeps
  <2> QED BY <2>1, <2>3 DEF Uses
<1>7. CASE End(r)
  <2>1. phase' = [phase EXCEPT ![r] = "ended"] /\ job' = job BY <1>7 DEF End
  <2>2. phase'[r] = "ended" BY <1>1, <2>1 DEF TypeOK
  <2> QED BY <2>1, <2>2 DEF Uses
<1> QED BY <1>2, <1>3, <1>4, <1>5, <1>6, <1>7 DEF Step

LEMMA ExcusedKeeps ==
    ASSUME StageInv, Excused, Next
    PROVE  Excused'
<1>1. PICK r \in Runs : Step(r) /\ Only(r) BY OneRunSteps
<1>2. \A s \in Runs, d \in Devices : Excuse(s, d) => Excuse(s, d)'
  BY <1>1, ExcuseLasts
<1>3. \A d \in Devices : Uses(r, d)' => Uses(r, d) \/ client'[d] # "closed"
  BY <1>1, UsesBefore
<1>4. \A s \in Runs \ {r}, d \in Devices : Uses(s, d)' <=> Uses(s, d)
  BY <1>1 DEF Uses, Only, Matching, Given
<1>5. ASSUME NEW s \in Runs, NEW d \in Devices, Uses(s, d)', client'[d] = "closed"
      PROVE  Excuse(s, d)'
  <2>1. Uses(s, d) BY <1>3, <1>4, <1>5
  <2>2. CASE client[d] = "closed"
    <3>1. Excuse(s, d) BY <2>1, <2>2 DEF Excused
    <3> QED BY <1>2, <3>1
  <2>3. CASE client[d] # "closed"
    <3>1. phase[r] = "closing" /\ d \in pending[r] /\ UNCHANGED <<phase, args, job, crashed>>
      BY <1>1, <1>5, <2>3, StepFacts
    <3>2. args[r].disconnect /\ d \in Matching(args[r]) /\ Reported(r)
      BY <3>1 DEF StageInv, Stage
    <3>3. s = r => r \in crashed BY <2>1, <3>1, <3>2 DEF Uses, Reported
    <3> QED BY <3>1, <3>2, <3>3 DEF Excuse, Matching, Given
  <2> QED BY <2>2, <2>3
<1>6. ASSUME NEW s \in Runs, NEW p \in Pairs, job'[s][p] = "cut"
      PROVE  Excuse(s, p[1])'
  <2>1. p[1] \in Devices BY DEF Pairs
  <2>2. job[s][p] = "cut" \/ (job[s][p] = "active" /\ client[p[1]] = "closed")
    BY <1>1, <1>6, UsesBefore DEF Only
  <2>3. Excuse(s, p[1])
    <3>1. CASE job[s][p] = "cut" BY <3>1 DEF Excused
    <3>2. CASE job[s][p] = "active" /\ client[p[1]] = "closed"
      BY <2>1, <3>2 DEF Excused, Uses
    <3> QED BY <2>2, <3>1, <3>2
  <2> QED BY <1>2, <2>1, <2>3
<1> QED BY <1>5, <1>6 DEF Excused

\* A test is cut off only by another run that disconnects its device, or after its own
\* run has crashed.
THEOREM CutsAreExcused == Spec => []CutByAnother
<1>1. Init => Excused BY DEF Init, Excused, Uses
<1>2. Excused /\ UNCHANGED vars => Excused'
  <2> SUFFICES ASSUME Excused, UNCHANGED vars PROVE Excused' OBVIOUS
  <2>1. UNCHANGED <<client, phase, args, pending, job, crashed>> BY DEF vars, deviceVars, runVars
  <2>2. \A s \in Runs, d \in Devices : Uses(s, d)' <=> Uses(s, d) BY <2>1 DEF Uses, Matching, Given
  <2>3. \A s \in Runs, d \in Devices : Excuse(s, d) => Excuse(s, d)' BY <2>1 DEF Excuse, Matching, Given
  <2> QED BY <2>1, <2>2, <2>3 DEF Excused, Pairs
<1>3. Excused => CutByAnother BY DEF Excused, Excuse, CutByAnother
<1> QED BY Inductive, ExcusedKeeps, <1>1, <1>2, <1>3, PTL DEF Spec

-----------------------------------------------------------------------------
(* The plan of a run: the index it queries is exact *)

\* A step plans nothing and selects nothing, or sets up the tests of a run.
LEMMA PlanSteps ==
    ASSUME StageInv, NEW r \in Runs, Step(r)
    PROVE  \/ /\ UNCHANGED <<catalogVars, plan>>
              /\ UNCHANGED selected \/ (selected'[r] = {} /\ plan[r] = {})
           \/ \E a \in RunArgs : \E devices \in SUBSET Matching(a) :
                 SetUpTests(r, a, devices) /\ selected'[r] = devices /\ args'[r] = a /\ UNCHANGED tests
<1>1. CASE \E a \in RunArgs : Start(r, a)
  <2>1. PICK a \in RunArgs : Start(r, a) BY <1>1
  <2>2. args'[r] = a /\ UNCHANGED tests BY <2>1 DEF Start, StageInv, TypeOK
  <2>3. CASE UNCHANGED <<index, built, used, selected, plan, job, report>>
    BY <2>2, <2>3 DEF catalogVars
  <2>4. CASE selected' = [selected EXCEPT ![r] = Matching(a)] /\ SetUpTests(r, a, Matching(a))
    <3>1. selected'[r] = Matching(a) BY <2>4 DEF StageInv, TypeOK
    <3>2. Matching(a) \in SUBSET Matching(a) OBVIOUS
    <3> QED BY <2>2, <2>4, <3>1, <3>2
  <2> QED BY <2>1, <2>3, <2>4 DEF Start
<1>2. CASE Connected(r)
  <2> DEFINE a == args[r]
             reachable == {d \in Matching(a) : a.establishedOnly => established[d]}
  <2>1. /\ a \in RunArgs /\ UNCHANGED <<tests, args>> /\ selected'[r] = reachable /\ plan[r] = {}
        /\ \/ reachable = {} /\ UNCHANGED <<index, built, used, plan>>
           \/ SetUpTests(r, a, reachable)
    BY <1>2 DEF Connected, StageInv, Stage, TypeOK
  <2>2. reachable \in SUBSET Matching(a) OBVIOUS
  <2> HIDE DEF reachable
  <2> QED BY <2>1, <2>2 DEF catalogVars
<1>3. CASE Links(r) \/ Jobs(r) \/ Publish(r) \/ End(r)
  BY <1>3 DEF Links, Refresh, Disconnect, Jobs, Admit, EndJob, RaiseJob, Publish, End, catalogVars
<1> QED BY <1>1, <1>2, <1>3 DEF Step

\* No run selects devices for another.
LEMMA SelectsForItself ==
    ASSUME StageInv, NEW r \in Runs, Step(r)
    PROVE  \A q \in Runs \ {r} : selected'[q] = selected[q]
<1>1. UNCHANGED selected \/ \E devices : selected' = [selected EXCEPT ![r] = devices]
  BY DEF Step, Start, Links, Refresh, Disconnect, Connected, Jobs, Admit, EndJob, RaiseJob, Publish, End
<1>2. selected \in [Runs -> SUBSET Devices] BY DEF StageInv, TypeOK
<1> QED BY <1>1, <1>2

\* What an exact index answers for a tag, and for None.
LEMMA UnderAKey ==
    ASSUME IndexIsExact', NEW t \in Definitions
    PROVE  LET let_through == t \in tests' /\ \E f \in used' : f = {} \/ NameOf[t] \in f
           IN  /\ t \in index'[Null] <=> TagsOf[t] = {} /\ let_through
               /\ \A tag \in Tags : t \in index'[tag] <=> tag \in TagsOf[t] /\ let_through
<1>1. \A k \in Keys : index'[k] = {d \in tests' : k \in KeysOf(d) /\ \E f \in used' : Passes(d, f)}
  BY DEF IndexIsExact, Keys, KeysOf, Passes
<1>2. Null \in Keys /\ \A tag \in Tags : tag \in Keys /\ tag # Null
  BY CatalogAssumption DEF Keys
<1>3. TagsOf[t] \in SUBSET Tags /\ Null \notin Tags
  BY CatalogAssumption
<1>4. /\ Null \in KeysOf(t) <=> TagsOf[t] = {}
      /\ \A tag \in Tags : tag \in KeysOf(t) <=> tag \in TagsOf[t]
  BY <1>3 DEF KeysOf
<1> QED BY <1>1, <1>2, <1>4 DEF Passes

\* A query with tags answers what is indexed under one of them.
LEMMA UnionOfTags ==
    ASSUME NEW idx, NEW tags, tags # {}, NEW t
    PROVE  t \in TestsWithAny(idx, tags) <=> \E tag \in tags : t \in idx[tag]
BY DEF TestsWithAny, Found

\* The tests a run takes for a device are the wanted ones its index let through.
LEMMA TestsAreWanted ==
    ASSUME IndexIsExact', NEW a \in RunArgs, NEW d \in Devices, NEW t \in Definitions
    PROVE  t \in TestsFor(a, d, index') <=>
               /\ t \in tests' /\ \E f \in used' : f = {} \/ NameOf[t] \in f
               /\ Wanted(a, d, t)
<1> DEFINE through == t \in tests' /\ \E f \in used' : f = {} \/ NameOf[t] \in f
<1>1. /\ t \in index'[Null] <=> TagsOf[t] = {} /\ through
      /\ \A tag \in Tags : t \in index'[tag] <=> tag \in TagsOf[t] /\ through
  BY UnderAKey
<1>2. DeviceTags[d] \in SUBSET Tags /\ d \in DeviceTags[d]
  BY RunnerAssumption
<1> HIDE DEF through
<1>3. ASSUME NEW tags \in SUBSET Tags, tags # {}
      PROVE  t \in TestsWithAny(index', tags) <=> TagsOf[t] \cap tags # {} /\ through
  BY <1>1, <1>3, UnionOfTags
<1>4. CASE Given(a.tags)
  <2>1. CASE a.tags \cap DeviceTags[d] = {} BY <1>4, <2>1 DEF TestsFor, Wanted
  <2>2. CASE a.tags \cap DeviceTags[d] # {}
    <3>1. a.tags \cap DeviceTags[d] \in SUBSET Tags BY <1>2
    <3>2. t \in TestsWithAny(index', a.tags \cap DeviceTags[d]) <=>
              TagsOf[t] \cap (a.tags \cap DeviceTags[d]) # {} /\ through
      BY <1>3, <2>2, <3>1
    <3>3. TestsFor(a, d, index') = TestsWithAny(index', a.tags \cap DeviceTags[d])
      BY <1>4, <2>2 DEF TestsFor
    <3>4. Wanted(a, d, t) <=> TagsOf[t] \cap (a.tags \cap DeviceTags[d]) # {}
      BY <1>4 DEF Wanted
    <3> QED BY <3>2, <3>3, <3>4 DEF through
  <2> QED BY <2>1, <2>2
<1>5. CASE ~ Given(a.tags)
  <2>1. TestsFor(a, d, index') = index'[Null] \cup TestsWithAny(index', DeviceTags[d])
    BY <1>5 DEF TestsFor
  <2>2. t \in TestsWithAny(index', DeviceTags[d]) <=> TagsOf[t] \cap DeviceTags[d] # {} /\ through
    BY <1>2, <1>3
  <2>3. Wanted(a, d, t) <=> TagsOf[t] = {} \/ TagsOf[t] \cap DeviceTags[d] # {}
    BY <1>5 DEF Wanted
  <2> QED BY <1>1, <2>1, <2>2, <2>3 DEF through
<1> QED BY <1>4, <1>5

\* A plan made of the answers of an exact index is the one the run should have: a
\* device that shares its address with no other has the tests that are wanted on it.
LEMMA PlanIsWanted ==
    ASSUME StageInv, IndexIsExact', NEW r \in Runs, NEW a \in RunArgs, NEW devices \in SUBSET Devices,
           plan'[r] = PlanFor(a, devices, index'), selected'[r] = devices, args'[r] = a,
           UNCHANGED tests, used' = used \cup {a.tests}
    PROVE  PlanFits(r)
<1>1. \A e, t : <<e, t>> \in plan'[r] <=>
          \E d \in devices : e = EntryOf(devices, d) /\ t \in TestsFor(a, d, index')
  BY DEF PlanFor
<1>2. tests \subseteq Definitions /\ \A k \in Keys : index'[k] \subseteq tests
  BY DEF StageInv, TypeOK, CatalogTypeOK, IndexIsExact
<1>3. ASSUME NEW d \in devices PROVE TestsFor(a, d, index') \subseteq tests
  <2>1. DeviceTags[d] \in SUBSET Tags /\ a.tags \cap DeviceTags[d] \in SUBSET Tags
    BY RunnerAssumption
  <2>2. \A tags \in SUBSET Tags : TestsWithAny(index', tags) \subseteq tests
    BY <1>2 DEF TestsWithAny, Found, Keys
  <2>3. index'[Null] \subseteq tests BY <1>2 DEF Keys
  <2> QED BY <2>1, <2>2, <2>3 DEF TestsFor
<1>4. plan'[r] \subseteq devices \X tests
  <2>1. \A d \in devices : EntryOf(devices, d) \in devices BY EntrySelected
  <2> QED BY <1>3, <2>1 DEF PlanFor
<1>5. ASSUME NEW d \in devices, NEW t \in tests, Alone(d, devices)
      PROVE  <<d, t>> \in plan'[r] <=>
                 (\E f \in used' : f = {} \/ NameOf[t] \in f) /\ Wanted(a, d, t)
  <2>1. \A e \in devices : d = EntryOf(devices, e) <=> e = d
    <3>1. \A e \in devices : EntryOf(devices, e) \in devices /\ Address[EntryOf(devices, e)] = Address[e]
      BY EntrySelected
    <3> QED BY <1>5, <3>1 DEF Alone
  <2>2. <<d, t>> \in plan'[r] <=> t \in TestsFor(a, d, index') BY <1>1, <2>1
  <2>3. t \in Definitions /\ t \in tests' BY <1>2
  <2> QED BY <2>2, <2>3, TestsAreWanted
<1>6. ASSUME NEW d \in devices, NEW t \in tests, Alone(d, devices)
      PROVE  /\ Passes(t, a.tests) /\ Wanted(a, d, t) => <<d, t>> \in plan'[r]
             /\ <<d, t>> \in plan'[r] => Wanted(a, d, t)
             /\ <<d, t>> \in plan'[r] /\ used \subseteq {a.tests} => Passes(t, a.tests)
  BY <1>5, <1>6 DEF Passes
<1> QED BY <1>4, <1>6 DEF PlanFits

\* The index stays exact, whichever runs build it, and a plan is made of its answers.
LEMMA PlanStep ==
    ASSUME StageInv, IndexIsExact, [Next]_vars
    PROVE  /\ IndexIsExact'
           /\ \A r \in Runs : selected'[r] # selected[r] => PlanFits(r)
<1>1. ASSUME UNCHANGED <<catalogVars, selected>>
      PROVE  IndexIsExact' /\ \A r \in Runs : selected'[r] = selected[r]
  BY <1>1 DEF catalogVars, IndexIsExact, KeysOf, Passes
<1>2. ASSUME NEW r \in Runs, Step(r), UNCHANGED <<catalogVars, plan>>, selected'[r] = {}, plan[r] = {}
      PROVE  IndexIsExact' /\ \A q \in Runs : selected'[q] # selected[q] => PlanFits(q)
  <2>1. IndexIsExact' BY <1>2 DEF catalogVars, IndexIsExact, KeysOf, Passes
  <2>2. PlanFits(r) BY <1>2 DEF PlanFits
  <2>3. \A q \in Runs \ {r} : selected'[q] = selected[q] BY <1>2, SelectsForItself
  <2> QED BY <2>1, <2>2, <2>3
<1>3. ASSUME NEW r \in Runs, Step(r), NEW a \in RunArgs, NEW devices \in SUBSET Matching(a),
             SetUpTests(r, a, devices), selected'[r] = devices, args'[r] = a, UNCHANGED tests
      PROVE  IndexIsExact' /\ \A q \in Runs : selected'[q] # selected[q] => PlanFits(q)
  <2>1. /\ BuildIndexes(a.tests) /\ index' = Extended(index, a.tests) /\ used' = used \cup {a.tests}
        /\ plan' = [plan EXCEPT ![r] = PlanFor(a, devices, Extended(index, a.tests))]
    BY <1>3 DEF SetUpTests, BuildIndexes
  <2>2. CatalogTypeOK /\ a.tests \in TestFilters BY FiltersFit DEF StageInv, TypeOK
  <2>3. IndexIsExact' BY <1>3, <2>1, <2>2, BuildIsExact
  <2>4. plan'[r] = PlanFor(a, devices, index') BY <2>1 DEF StageInv, TypeOK
  <2>5. devices \in SUBSET Devices BY MatchingDevices
  <2>6. PlanFits(r) BY <1>3, <2>1, <2>3, <2>4, <2>5, PlanIsWanted
  <2>7. \A q \in Runs \ {r} : selected'[q] = selected[q] BY <1>3, SelectsForItself
  <2> QED BY <2>3, <2>6, <2>7
<1>4. CASE Next
  <2>1. PICK r \in Runs : Step(r) BY <1>4 DEF Next, Step
  <2> QED BY <1>1, <1>2, <1>3, <2>1, PlanSteps
<1> QED BY <1>1, <1>4 DEF vars, runVars

\* Whatever runs share the catalog, in any order: a run plans on each device that has its
\* address for itself the tests its arguments call for, and no others unless an earlier
\* run built the index with another filter (_setup_tests, get_tests_by_tags).
THEOREM PlansAreExact == Spec => PlanIsExact
<1>1. Init => IndexIsExact
  BY DEF Init, CatalogInit, EmptyIndex, IndexIsExact
<1>2. StageInv /\ IndexIsExact /\ [Next]_vars =>
          IndexIsExact' /\ [\A r \in Runs : selected'[r] # selected[r] => PlanFits(r)]_vars
  BY PlanStep
<1> QED BY <1>1, <1>2, Inductive, PTL DEF Spec, PlanIsExact
=============================================================================
