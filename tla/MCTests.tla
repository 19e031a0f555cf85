------------------------------ MODULE MCTests ------------------------------
(***************************************************************************)
(* From the classes of tests, and the values a catalog spells, to catalogs *)
(* and lists of tests: values for InputTypes, commands for TestCommands,   *)
(* and the inputs of two kinds (a catalog file, a listing), the outcome of *)
(* each, and what the outcome must be.  They share the classes of tests.   *)
(***************************************************************************)
EXTENDS InputTypes, TestCommands, FiniteSetsExt, TLC

VARIABLES
    kind,       \* what is read
    input,      \* the input
    done,       \* the conversion is over
    output      \* its outcome

-----------------------------------------------------------------------------
(* Values of the types that convert *)

Interfaces == [word : {"eth", "ethernet", "po", "port-channel", "port-Channel", "lo", "loopback", "vl",
                       "dps", "management"},
               capital : BOOLEAN, id : {<<>>, <<1>>, <<1, 1>>, <<1, 1, 1, 1>>}, sub : BOOLEAN]
Caps == [words : Capabilities \cup DOMAIN OtherWords \cup {<<"ipv4">>}, eos : {FALSE}]
        \cup [words : Capabilities, eos : {TRUE}]
TextsOf(f) == DOMAIN f \cup {f[k] : k \in DOMAIN f} \cup {"other"}

ValuesOf(type) ==
    CASE type \in InterfaceTypes -> Interfaces
      [] type = "MultiProtocolCaps"     -> Caps
      [] type = "RedistributedAfiSafi"  -> TextsOf(AfiSafi)
      [] type = "ReloadCause"           -> TextsOf(ReloadCauses)
      [] type = "AAAAuthMethod"         -> {<<"local">>, <<"none">>, <<"tacacs+">>, <<"group">>, <<"group", "tacacs+">>}
      [] type = "IPv4RouteType"         -> TextsOf(RouteTypes) \cup AcceptedRoutes
      [] type = "RedistributedProtocol" -> Protocols \cup {"EOS SDK"}
      [] type = "SnmpVersionV3AuthType" -> TextsOf(V3Prefixed)

MCValues == UNION {[type : {t}, value : ValuesOf(t)] : t \in InputTypeNames}

-----------------------------------------------------------------------------
(* Classes of tests: B inherits from A without a name of its own, C sets one. *)

Class(class, parent, module, name) ==
    [class |-> class, parent |-> parent, module |-> module, name |-> name, description |-> None,
     doc |-> class, categories |-> IF parent = None THEN "some" ELSE None,
     commands |-> IF parent = None THEN "some" ELSE None]

\* G is no test: it has no categories.
MCStatements ==
    "A" :> Class("A", None, <<"t", "a">>, None)
    @@ "B" :> Class("B", "A", <<"t", "b">>, None)
    @@ "C" :> Class("C", None, <<"t", "a">>, "D")
    @@ "E" :> Class("E", None, <<"t">>, None)
    @@ "F" :> [Class("F", None, <<"t", "p", "f">>, None) EXCEPT !.doc = None, !.description = "set"]
    @@ "G" :> [Class("G", None, <<"t", "g">>, None) EXCEPT !.categories = None]

D == INSTANCE TestClasses WITH Statements <- MCStatements

Tests == {c \in DOMAIN MCStatements : D!IsTestClass(c)}
MCHome == [c \in Tests |-> MCStatements[c].module]
MCName == [c \in Tests |-> D!ClassName(c)]

-----------------------------------------------------------------------------
(* Commands of tests; versions and revisions are texts here, words of a text. *)

MCWords == {"show", "_", "latest", "NA", "1", "2", "json", "text"}
Templates == [pieces : {<<<<"text", <<"show">>>>, <<"var", "x">>>>,
                        <<<<"var", "x">>, <<"text", <<"_", "latest">>>>, <<"var", "y">>>>},
              version : {"1", "latest"}, revision : {NotSet, "1"}, ofmt : {"json"}]
PlainCommands == [command : {<<"show">>, <<"show", "_", "latest">>, <<"show", "_", "1">>},
          version : {"1", "latest"}, revision : {NotSet, "1", "2"}, ofmt : {"json", "text"}]
Params == {<<>>, "x" :> <<"_", "1">>, "x" :> <<>> @@ "y" :> <<"show">>, "x" :> <<"show">> @@ "y" :> <<>>}
MCCommandLists ==
    [commands : {<<p, t>> : p \in PlainCommands, t \in Templates} \cup {<<t>> : t \in Templates},
     params : {<<p>> : p \in Params} \cup {<<"x" :> <<"_", "1">>, p>> : p \in Params}]

-----------------------------------------------------------------------------
(* Catalog files: the package t, its modules a, b and g, its package p. *)

Members == <<"t">> :> {"E"} @@ <<"t", "a">> :> {"A", "C"} @@ <<"t", "b">> :> {"A", "B"}
           @@ <<"t", "g">> :> {"G"} @@ <<"t", "p">> :> {} @@ <<"t", "p", "f">> :> {"F"}
MCModules == [m \in {m \in DOMAIN Members : Members[m] \subseteq Tests} |-> Members[m]]

InputOf(c) == IF c = "F" THEN "IPv4RouteType" ELSE "ReloadCause"
MCInstantiate(test) ==
    LET stored == Validate(InputOf(test[1]), test[2])
    IN  IF stored = None THEN None ELSE <<test[1], stored>>

K == INSTANCE CatalogFile
     WITH Modules <- MCModules, Home <- MCHome, Name <- MCName, Instantiate <- MCInstantiate

Short == "USER"
Long  == "Reload requested by the user."
TestLists == {<<<<"A", Short>>>>, <<<<"A", Long>>, <<"B", Short>>, <<"A", Short>>>>, <<<<"C", Long>>>>,
              <<<<"F", "static">>, <<"A", Short>>>>}
RouteTests == {<<<<"F", "static">>>>, <<<<"F", "static">>, <<"F", "gRIBI">>>>, <<<<"F", "bogus">>>>}

\* A mapping of YAML has each key once.
Mapping(entries) == \A i, j \in DOMAIN entries : i # j => entries[i].name # entries[j].name
Leaves(names, tests) == [name : names, inner : {None}, tests : tests]
Entries ==
    Leaves({<<"t", "a">>, <<"t", "b">>, <<"t", "g">>}, TestLists)
    \cup Leaves({<<"t", "p", "f">>}, RouteTests) \cup Leaves({<<"t">>}, {<<<<"E", Short>>>>})
    \cup [name : {<<"t">>}, tests : {None},
          inner : {s \in SeqOf(Leaves({<<"a">>, <<"b">>}, TestLists), 2) : Mapping(s)}]

Catalogs == {s \in {<<e>> : e \in Entries} \cup
    {<<d, e>> : d \in {x \in Entries : x.inner = None}, e \in Entries} : Mapping(s)}

CatalogResult(in) ==
    LET tests == K!FromDict(in) IN
    [tests  |-> tests,
     again  |-> IF tests = None THEN None ELSE K!FromDict(K!Serialized(K!Dump(tests))),
     merged |-> IF tests = None THEN None ELSE K!MergeCatalogs(<<tests, K!FromList(<<<<"B", Short>>>>), tests>>)]

\* The lists of tests as the file spells them: <<module, tests>>.
Spelled(file) ==
    LET outer == SelectSeq(file, LAMBDA e : e.inner = None)
        inner == SelectSeq(file, LAMBDA e : e.inner # None)
        lists(package, es) == [i \in DOMAIN es |-> <<package \o es[i].name, es[i].tests>>]
    IN  lists(<<>>, outer) \o FoldLeft(LAMBDA l, e : l \o lists(e.name, e.inner), <<>>, inner)

AllTests == Tests \X {Short, Long} \cup {<<"F", r>> : r \in {"static", "gRIBI", "gribi"}}
Count(t, tests) == Cardinality({i \in DOMAIN tests : tests[i] = t})
Meant(t, l) == Cardinality({j \in DOMAIN l[2] : MCInstantiate(l[2][j]) = t})

\* A catalog has each test of its file as often as the file lists it, and the file is
\* refused when it has a test that is not there; of a module spelled twice, only one
\* list counts (flatten_modules).  Merging loses no test; nor does a dump that is parsed,
\* if the tests have the names of their classes and inputs that are accepted as stored.
CatalogIsComplete ==
    kind = "catalog" /\ done =>
        LET s == Spelled(input)
            bad(l) == l[1] \notin DOMAIN MCModules
                      \/ \E j \in DOMAIN l[2] : \/ MCInstantiate(l[2][j]) = None
                                                \/ l[2][j][1] \notin MCModules[l[1]]
            twice == \E i, j \in DOMAIN s : i # j /\ s[i][1] = s[j][1]
            keeps == \A t \in ToSet(output.tests) : MCName[t[1]] = t[1] /\ MCInstantiate(t) = t
        IN  /\ output.tests = None => \E i \in DOMAIN s : bad(s[i])
            /\ output.tests # None => \A t \in AllTests :
                /\ ~twice => Count(t, output.tests) = FoldLeft(LAMBDA n, l : n + Meant(t, l), 0, s)
                /\ keeps => Count(t, output.again) = Count(t, output.tests)
                /\ Count(t, output.merged) = 2 * Count(t, output.tests) + Count(t, <<<<"B", Long>>>>)

-----------------------------------------------------------------------------
(* Listings of the same package, which may have a broken module and a package with *)
(* the name of a top-level one. *)

Node(what, import, tests) == [kind |-> what, import |-> import, tests |-> tests]
Trees(bad) ==
    <<"t">> :> Node("package", "OK", <<"E">>)
    @@ <<"t", "a">> :> Node("module", "OK", <<"A", "C">>)
    @@ <<"t", "b">> :> Node("module", "OK", <<"A", "B">>)
    @@ <<"t", "n">> :> Node("namespace", "OK", <<>>)
    @@ <<"t", "p">> :> Node("package", bad, <<>>)
    @@ <<"t", "p", "f">> :> Node("module", "OK", <<"F">>)
MCBegins == "A" :> {"A"} @@ "D" :> {"D"}
MCCommands == [c \in Tests |-> IF c \in {"A", "B"} THEN {"c1", "c2"} ELSE {c}]

Listings == [bad : {"OK", "USAGE_ERROR", "INTERNAL_ERROR"}, below : {{}, {<<"f">>}, {<<"x">>}}, twin : BOOLEAN,
             module : {<<"t">>, <<"t", "p">>, <<"t", "b">>, <<"t", "n">>, <<"x">>}, test : {None, "A", "D"},
             catalog : {None, {"B"}, {"C", "F"}}, example : {"shown", "missing", "other"}]

ListingResult(in) ==
    LET MCTree == Trees(in.bad)
        MCTopLevel == IF in.twin THEN "p" :> in.below ELSE <<>>
        MCExample == [c \in Tests |-> IF c = "B" THEN in.example ELSE "shown"]
        L == INSTANCE Listing WITH Tree <- MCTree, TopLevel <- MCTopLevel, Name <- MCName,
                Begins <- MCBegins, Commands <- MCCommands, Example <- MCExample
    IN  [count |-> L!GetTests(in.module, in.test, TRUE), print |-> L!GetTests(in.module, in.test, FALSE),
         commands |-> L!GetCommands(in.module, in.test, in.catalog)]

\* The modules at or below the one that is asked for.
Below(m) == {n \in DOMAIN Trees("OK") : Len(n) >= Len(m) /\ SubSeq(n, 1, Len(m)) = m /\ Trees("OK")[n].kind = "module"}

\* The name a class gives itself, and whether it gives none and inherits one instead.
OwnName(c) == IF MCStatements[c].name # None THEN MCStatements[c].name ELSE c
Inherits(c) == MCStatements[c].name = None /\ MCStatements[c].parent # None

\* A listing that ends well has every test of every module below the one asked for that
\* has the name asked for, at least once for each module that has it, and no other; it
\* fails only for a module that is not there or not importable; the commands are those
\* of the listed tests that are in the catalog (_explore_package, _filter_tests_via_catalog).
\* Two cases are left open (README, Findings): how often a module is listed, and whether
\* the listing fails, when a package shares its name with a top-level one (walk_packages);
\* and what a filter by name makes of a class with an inherited name (__init_subclass__).
ListingIsComplete ==
    kind = "listing" /\ done =>
        LET m == input.module
            spoiled == input.twin /\ m = <<"t">> /\ input.below # {}
            broken == input.bad # "OK" /\ m \in {<<"t">>, <<"t", "p">>}
            found == ToSet(output.count.tests)
            listed(c) == Cardinality({n \in Below(m) : c \in ToSet(Trees("OK")[n].tests)})
            wanted(c) == input.test = None \/ input.test = OwnName(c)
            chosen == {c \in found : input.catalog = None \/ c \in input.catalog}
            inherited == {t \in found \cup (IF input.catalog = None THEN {} ELSE input.catalog) : Inherits(t)}
        IN  /\ ~spoiled => (output.count.exit = "OK" <=> Below(m) # {} /\ ~broken)
            /\ output.count.exit = "OK" =>
                /\ \A c \in Tests : input.test = None \/ ~Inherits(c) =>
                    LET n == Count(c, output.count.tests) IN
                    /\ n >= (IF wanted(c) THEN listed(c) ELSE 0)
                    /\ n > (IF wanted(c) THEN listed(c) ELSE 0) => spoiled /\ wanted(c)
                /\ UNION {MCCommands[c] : c \in chosen} \subseteq output.commands.commands
                /\ input.catalog = None \/ inherited = {} =>
                    output.commands.commands = UNION {MCCommands[c] : c \in chosen}
                /\ output.print.exit = "OK" <=> "B" \notin found \/ input.example = "shown"
                /\ output.print.exit = "OK" => output.print = output.count

-----------------------------------------------------------------------------
TestCases ==
    {<<"catalog", in>> : in \in Catalogs} \cup {<<"listing", in>> : in \in Listings}

TestResult == IF kind = "catalog" THEN CatalogResult(input) ELSE ListingResult(input)
=============================================================================
