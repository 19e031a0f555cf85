------------------------------ MODULE Listing ------------------------------
(***************************************************************************)
(* anta get tests and anta get commands (anta/cli/get): the tests found in *)
(* a module or in the modules of a package, and what is told of them.      *)
(*                                                                         *)
(* The name of a module is the sequence of its dotted parts.               *)
(***************************************************************************)
EXTENDS Integers, Sequences, FiniteSets, SequencesExt

CONSTANTS
    Tree,       \* external: module names -> [kind, import, tests]: a "module", "package" or
                \* "namespace", how importing it ends, the test classes it defines or imports
    TopLevel,   \* external: names of top-level packages -> the modules below each
    Name,       \* external: test classes -> their names
    Begins,     \* external: texts -> the names that begin with each
    Commands,   \* external: test classes -> the texts of their commands and templates
    Example,    \* external: test classes -> "shown", "missing" or "other": their docstring
    None        \* Python's None

\* ExitCode: a ValueError is a USAGE_ERROR, any other exception leaves the command.
OK == "OK"
USAGE_ERROR == "USAGE_ERROR"
INTERNAL_ERROR == "INTERNAL_ERROR"

Found(tests) == [exit |-> OK, tests |-> tests]
Ends(exit) == [exit |-> exit, tests |-> <<>>]

\* importlib imports the packages around a module first; an ImportError is made a
\* ValueError by the code that imports.
Importing(m) ==
    LET bad == {k \in 1..Len(m) : SubSeq(m, 1, k) \in DOMAIN Tree /\ Tree[SubSeq(m, 1, k)].import # OK}
    IN  IF m = <<>> THEN OK ELSE IF m \notin DOMAIN Tree THEN USAGE_ERROR
        ELSE IF bad = {} THEN OK ELSE Tree[SubSeq(m, 1, Min(bad))].import

\* find_tests_in_module
FindTests(m, test) ==
    IF Importing(m) # OK THEN Ends(Importing(m))
    ELSE Found(SelectSeq(Tree[m].tests, LAMBDA c : test = None \/ Name[c] \in Begins[test]))

Children(m) ==
    {c \in DOMAIN Tree : Len(c) = Len(m) + 1 /\ Front(c) = m /\ Tree[c].kind # "namespace"}

\* Mutant of Walk: packages are left out.
WalkModules(m) == SetToSeq({c \in Children(m) : Tree[c].kind = "module"})

\* pkgutil.walk_packages without a prefix: it looks for more below a package under the
\* package's bare name, which may be that of another, top-level package.
Walk(m) ==
    SetToSeq(Children(m)) \o
    SetToSeq(UNION {{c \o sub : sub \in TopLevel[Last(c)]} :
                    c \in {p \in Children(m) : Tree[p].kind = "package" /\ Last(p) \in DOMAIN TopLevel}})

RECURSIVE Explore(_, _)
\* _explore_package: by the second attempt the current directory is on the path;
\* find_spec imports the packages around the module.
Explore(m, test) ==
    IF m \notin DOMAIN Tree THEN Ends(USAGE_ERROR)
    ELSE IF Importing(Front(m)) # OK THEN Ends(Importing(Front(m)))
    ELSE CASE Tree[m].kind = "namespace" -> Ends(USAGE_ERROR)
           [] Tree[m].kind = "module"    -> FindTests(m, test)
           [] Tree[m].kind = "package"   ->
                FoldLeft(LAMBDA found, q :
                            LET more == IF q \in DOMAIN Tree /\ Tree[q].kind = "package"
                                        THEN Explore(q, test) ELSE FindTests(q, test)
                            IN  IF found.exit # OK THEN found
                                ELSE IF more.exit # OK THEN more
                                ELSE Found(found.tests \o more.tests),
                         Found(<<>>), Walk(m))

\* _filter_tests_via_catalog: by name.
InCatalog(tests, catalog) ==
    IF catalog = None THEN tests
    ELSE SelectSeq(tests, LAMBDA c : Name[c] \in {Name[t] : t \in catalog})

\* print_tests and print_test: up to a test that has no example, a LookupError, or an
\* example of something else, a ValueError.
Printed(tests) ==
    LET bad == {i \in DOMAIN tests : Example[tests[i]] # "shown"} IN
    IF bad = {} THEN Found(tests)
    ELSE [exit  |-> IF Example[tests[Min(bad)]] = "missing" THEN INTERNAL_ERROR ELSE USAGE_ERROR,
          tests |-> SubSeq(tests, 1, Min(bad) - 1)]

\* anta get tests: counts, or prints.
GetTests(m, test, count) ==
    LET found == Explore(m, test)
    IN  IF found.exit = OK /\ ~count THEN Printed(found.tests) ELSE found

\* _get_unique_commands
UniqueCommands(tests) == UNION {Commands[c] : c \in ToSet(tests)}

\* anta get commands --unique
GetCommands(m, test, catalog) ==
    LET found == Explore(m, test)
    IN  [exit |-> found.exit, commands |-> UniqueCommands(InCatalog(found.tests, catalog))]
=============================================================================
