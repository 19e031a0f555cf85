------------------------------- MODULE Catalog -------------------------------
(***************************************************************************)
(* AntaCatalog (anta/catalog.py): the tests of a catalog, and the index    *)
(* from tags to tests that a run builds and queries.                       *)
(*                                                                         *)
(* A test definition is a value; NameOf gives the name of its test class,  *)
(* TagsOf the tags of its `filters` input ({} for none).  `tag_to_tests`   *)
(* holds a non-empty set under every tag it has a key for, so a missing    *)
(* key is the empty set here.  All operations are synchronous: each is one *)
(* action.                                                                 *)
(***************************************************************************)
CONSTANTS
    Definitions,    \* the AntaTestDefinition instances
    Names,          \* names of test classes
    Tags,           \* tags
    NameOf,         \* Definitions -> Names
    TagsOf,         \* Definitions -> SUBSET Tags
    Null            \* Python's None, also the key of the tests without tags

ASSUME CatalogAssumption ==
    /\ NameOf \in [Definitions -> Names]
    /\ TagsOf \in [Definitions -> SUBSET Tags]
    /\ Null \notin Tags

VARIABLES
    tests,          \* _tests
    index,          \* tag_to_tests
    built,          \* indexes_built
    used            \* history: the filters indexed since the index was empty

catalogVars == <<tests, index, built, used>>

Keys == Tags \cup {Null}

\* `filtered_tests`: None or an empty set lets every test through.
TestFilters == SUBSET Names

Passes(d, filter) == filter = {} \/ NameOf[d] \in filter

\* The keys a definition is indexed under.
KeysOf(d) == IF TagsOf[d] = {} THEN {Null} ELSE TagsOf[d]

EmptyIndex == [k \in Keys |-> {}]

-----------------------------------------------------------------------------
(* Operations *)

\* What build_indexes makes of an index: it adds to it, whatever it holds.
Extended(idx, filter) ==
    [k \in Keys |-> idx[k] \cup {d \in tests : Passes(d, filter) /\ k \in KeysOf(d)}]

BuildIndexes(filter) ==
    /\ index' = Extended(index, filter)
    /\ built' = TRUE
    /\ used' = used \cup {filter}

\* Mutant of ClearIndexes: only the flag is reset.
ClearFlag ==
    /\ built' = FALSE
    /\ used' = {}
    /\ UNCHANGED index

\* clear_indexes (and _init_indexes)
ClearIndexes ==
    /\ index' = EmptyIndex
    /\ built' = FALSE
    /\ used' = {}

\* The setter of `tests` rebuilds nothing, it clears.
SetTests(value) ==
    /\ tests' = value
    /\ ClearIndexes

\* merge_catalogs and merge: a new catalog with the tests of both.
MergeWith(others) ==
    /\ tests' = tests \cup others
    /\ ClearIndexes

(* get_tests_by_tags, asked of an index that was built: it raises before that. *)

Found(idx, tags) == {idx[t] : t \in {t \in tags : idx[t] # {}}}

\* Mutant of TestsWithAny: the tests without tags always come along.
TestsWithAnyOrNone(idx, tags) == UNION Found(idx, tags) \cup idx[Null]

\* strict=False: the union
TestsWithAny(idx, tags) == IF tags = {} THEN idx[Null] ELSE UNION Found(idx, tags)

\* strict=True: the intersection, but tags without tests are left out of it first.
TestsWithAll(idx, tags) ==
    IF tags = {} THEN idx[Null]
    ELSE {d \in UNION Found(idx, tags) : \A s \in Found(idx, tags) : d \in s}

-----------------------------------------------------------------------------

CatalogInit ==
    /\ tests \in SUBSET Definitions
    /\ index = EmptyIndex
    /\ built = FALSE
    /\ used = {}

Build == \E filter \in TestFilters : BuildIndexes(filter) /\ UNCHANGED tests
Clear == ClearIndexes /\ UNCHANGED tests
Set   == \E value \in SUBSET Definitions : SetTests(value)
Merge == \E others \in SUBSET Definitions : MergeWith(others)

CatalogNext == Build \/ Clear \/ Set \/ Merge

CatalogSpec == CatalogInit /\ [][CatalogNext]_catalogVars

-----------------------------------------------------------------------------
(* Properties *)

CatalogTypeOK ==
    /\ tests \subseteq Definitions
    /\ index \in [Keys -> SUBSET Definitions]
    /\ built \in BOOLEAN
    /\ used \subseteq TestFilters

\* The index holds, under each key, exactly the tests of the catalog that pass one
\* of the filters it was built with since it was last empty: nothing of an earlier
\* list of tests, nothing missing, and nothing before it is built.
IndexIsExact ==
    /\ \A k \in Keys :
           index[k] = {d \in tests : k \in KeysOf(d) /\ \E f \in used : Passes(d, f)}
    /\ built <=> used # {}

Indexed(d) == \E k \in Keys : d \in index[k]

\* What a query answers (docstring of get_tests_by_tags): the union is the indexed tests
\* that share a tag with the query and no others, the intersection those that have every
\* tag of the query.  Of an intersection that names a tag without tests nothing is said:
\* the code leaves that tag out of it (README, Findings).
QueriesAreExact ==
    \A tags \in (SUBSET Tags) \ {{}} :
        /\ TestsWithAny(index, tags) = {d \in Definitions : Indexed(d) /\ TagsOf[d] \cap tags # {}}
        /\ (\A t \in tags : \E d \in Definitions : Indexed(d) /\ t \in TagsOf[d]) =>
               TestsWithAll(index, tags) = {d \in Definitions : Indexed(d) /\ tags \subseteq TagsOf[d]}

=============================================================================
