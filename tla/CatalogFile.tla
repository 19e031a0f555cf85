----------------------------- MODULE CatalogFile -----------------------------
(***************************************************************************)
(* From a catalog file to the tests of a catalog and back: AntaCatalogFile *)
(* and the constructors, merge and dump of AntaCatalog (anta/catalog.py).  *)
(*                                                                         *)
(* A file is a sequence of entries [name, inner, tests]: the name of a     *)
(* module, a sequence of dotted parts relative to the entry around it, and *)
(* either inner entries or tests, the other being None.  A test is a pair  *)
(* <<class, inputs>>; validation may store other inputs than the file      *)
(* spells.  The tests of a file are a function from modules to sequences   *)
(* of pairs: the order of the modules is left out.                         *)
(***************************************************************************)
EXTENDS Integers, Sequences, TLC, SequencesExt

CONSTANTS
    Modules,    \* external: importable modules -> the test classes they define or import
    Home,       \* external: test classes -> the module that defines them
    Name,       \* external: test classes -> their names
    Instantiate(_), \* external: a pair with validated inputs, or None
    None        \* Python's None, also a ValueError

-----------------------------------------------------------------------------
(* flatten_modules and check_tests *)

\* modules.update: a module given twice keeps the tests given last.
Update(modules, more) == IF modules = None \/ more = None THEN None ELSE more @@ modules

RECURSIVE FlattenAnew(_, _)
\* Mutant of Flatten: an inner package replaces what was gathered.
FlattenAnew(entries, package) ==
    FoldLeft(LAMBDA modules, e :
                LET path == package \o e.name IN
                IF path \notin DOMAIN Modules THEN None
                ELSE IF e.inner # None THEN FlattenAnew(e.inner, path)
                ELSE Update(modules, path :> e.tests),
             <<>>, entries)

RECURSIVE Flatten(_, _)
\* Every module with its list of tests; None when one cannot be imported.
Flatten(entries, package) ==
    FoldLeft(LAMBDA modules, e :
                LET path == package \o e.name IN
                IF path \notin DOMAIN Modules THEN None
                ELSE Update(modules, IF e.inner # None THEN Flatten(e.inner, path)
                                     ELSE path :> e.tests),
             <<>>, entries)

\* instantiate_inputs and check_inputs: the class is found and takes the inputs.
Defined(path, test) == IF test[1] \in Modules[path] THEN Instantiate(test) ELSE None

\* check_tests: one bad test refuses the file.
CheckTests(modules) ==
    IF modules = None THEN None
    ELSE LET made == [p \in DOMAIN modules |-> [i \in DOMAIN modules[p] |-> Defined(p, modules[p][i])]]
         IN  IF \E p \in DOMAIN made : None \in ToSet(made[p]) THEN None ELSE made

-----------------------------------------------------------------------------
(* AntaCatalog *)

ConcatOver(modules) ==
    FoldLeft(LAMBDA ts, p : ts \o modules[p], <<>>, SetToSeq(DOMAIN modules))

\* from_dict: an empty file is an empty catalog.
FromDict(file) ==
    LET modules == CheckTests(Flatten(file, <<>>))
    IN  IF modules = None THEN None ELSE ConcatOver(modules)

\* from_list
FromList(tuples) ==
    LET made == [i \in DOMAIN tuples |-> Instantiate(tuples[i])]
    IN  IF None \in ToSet(made) THEN None ELSE made

MergeCatalogs(catalogs) == FoldLeft(LAMBDA ts, c : ts \o c, <<>>, catalogs)

\* dump: the tests of each defining module, in their order.
Dump(tests) ==
    [h \in {Home[tests[i][1]] : i \in DOMAIN tests} |-> SelectSeq(tests, LAMBDA t : Home[t[1]] = h)]

\* serialize_model: a test is written under its name, with the inputs it stores.
Serialized(modules) ==
    SetToSeq({[name |-> m, inner |-> None,
               tests |-> [i \in DOMAIN modules[m] |-> <<Name[modules[m][i][1]], modules[m][i][2]>>]]
              : m \in DOMAIN modules})
=============================================================================
