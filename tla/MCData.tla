------------------------------- MODULE MCData -------------------------------
(***************************************************************************)
(* What ANTA reads, writes and asks: each behaviour makes one request      *)
(* (EapiClient), reads one inventory file and its dump (Inventory), uses a *)
(* configuration session (ConfigSession), reads one value (InputTypes),    *)
(* makes the commands of one test (TestCommands), builds, clears, sets and *)
(* merges a catalog (Catalog), or takes one input of one kind (an Ansible  *)
(* inventory, a catalog file, a listing) through the code and keeps the    *)
(* outcome.                                                                *)
(***************************************************************************)
EXTENDS Catalog, ConfigSession, EapiClient, Inventory, MCTests

CONSTANT Plain  \* a YAML value that is no mapping

-----------------------------------------------------------------------------
(* Configuration sessions: two values for one key, one for another. *)

Old   == <<"mtu", 1>>
New   == <<"mtu", 2>>
Other == <<"ntp", 1>>
MCContents == {<<Old>>, <<New, Empty, Other>>, <<Other, Old>>}

-----------------------------------------------------------------------------
(* eAPI answers: requests of up to three commands, some of which fail. *)

MCRequests == {<<>>, <<"enable", "c1">>, <<"c1">>, <<"c1", "c2", "c3">>}
MCDetails == {"", "d1"}

-----------------------------------------------------------------------------
(* The catalog of a run: two classes, one of them in it twice with different tags, and *)
(* a test without tags. *)

MCTagsOf == "uptime" :> {} @@ "mtu" :> {"leaf"} @@ "mtuSpine" :> {"spine"} @@ "both" :> {"leaf", "spine"}
MCNameOf == "mtu" :> "Mtu" @@ "mtuSpine" :> "Mtu" @@ "uptime" :> "Uptime" @@ "both" :> "Uptime"

-----------------------------------------------------------------------------
(* Inventories: addresses 1 to 5, so that a range can reach the last one. *)

MCLastAddress == "v4" :> 5 @@ "v6" :> 5
Leaf == <<"text", "leaf">>
Sw   == <<"text", "sw">>
Ip(n) == <<"v4", n>>

\* A text with a port, or with an underscore, is no name of a host.
MCHostNames == {Sw, Leaf} \cup {<<family, n>> : family \in {"v4", "v6"}, n \in 1..5}

Hosts == {
    [name |-> None, host |-> Sw,    port |-> None, tags |-> {Leaf}, disable_cache |-> FALSE],
    [name |-> None, host |-> Sw,    port |-> 8080, tags |-> None,   disable_cache |-> TRUE],
    [name |-> Sw,   host |-> Ip(2), port |-> 8080, tags |-> None,   disable_cache |-> FALSE],
    [name |-> None, host |-> Ip(2), port |-> None, tags |-> {Leaf}, disable_cache |-> TRUE],
    [name |-> <<"text", "leaf_1">>, host |-> Ip(3), port |-> None, tags |-> None, disable_cache |-> FALSE]}
Networks == {
    [first |-> Ip(1), size |-> 2, tags |-> None,   disable_cache |-> FALSE],
    [first |-> Ip(2), size |-> 1, tags |-> {Leaf}, disable_cache |-> TRUE]}
Ranges == {
    [start |-> Ip(2), end |-> Ip(3),      tags |-> {Leaf}, disable_cache |-> FALSE],
    [start |-> Ip(3), end |-> Ip(2),      tags |-> {Leaf}, disable_cache |-> FALSE],
    [start |-> Ip(4), end |-> Ip(5),      tags |-> None,   disable_cache |-> FALSE],
    [start |-> Ip(2), end |-> <<"v6", 3>>, tags |-> None,   disable_cache |-> FALSE]}

MCFiles == [hosts : SeqOf(Hosts, 2), networks : SeqOf(Networks, 1), ranges : SeqOf(Ranges, 1)]

-----------------------------------------------------------------------------
(* Ansible inventories: groups of two hosts, with and without variables. *)

A == INSTANCE InventoryImport

WithAddress == <<<<"ansible_host", Plain>>>>
WithOthers  == <<<<"ansible_user", Plain>>>>
Bodies == {Plain, WithAddress, WithOthers}
HostDicts == {<<<<"h1", b>>, <<"h2", c>>>> : b, c \in Bodies}
Inner == {<<<<"hosts", h>>>> : h \in HostDicts}
Outer == {<<<<"hosts", h>>, <<"children", <<<<"leaves", i>>>>>>>> : h \in HostDicts, i \in Inner}
    \cup {<<<<"vars", v>>, <<"children", <<<<"leaves", i>>>>>>>> : v \in {Plain, WithOthers}, i \in Inner}
AnsibleInventories ==
    [inventory : {<<<<"all", o>>>> : o \in Outer}, group : {"all", "leaves", "spines"}]

AnsibleResult(in) == A!CreateInventoryFromAnsible(in.inventory, in.group)

\* The value at a path of indexes, and whether a plain value comes before it.
At(data, path) == FoldLeft(LAMBDA v, i : IF v = Plain \/ i \notin DOMAIN v THEN Plain ELSE v[i][2], data, path)
Hidden(data, path) == \E k \in DOMAIN path : \E i \in 1..path[k] :
    At(data, Append(SubSeq(path, 1, k - 1), i)) = Plain
PathsOf(data) == {p \in SeqOf(1..2, 6) : p # <<>> /\ At(data, p) = WithAddress}

\* A host of the group that has an address is found, unless a plain value, such as a
\* host without variables, comes before it or before a group around it (deep_yaml_parsing).
AnsibleHostsFound ==
    kind = "ansible" /\ done =>
        LET group == IF input.group = "all" THEN input.inventory[1][2]
                     ELSE A!FindAnsibleGroup(input.inventory[1][2], input.group)
        IN  /\ output = None <=> group = None
            /\ output # None =>
                Len(output) = Cardinality({p \in PathsOf(group) : ~Hidden(group, p)})

-----------------------------------------------------------------------------
Cases == {<<"ansible", in>> : in \in AnsibleInventories} \cup TestCases

Kinds == {"answer", "inventory", "session", "value", "commands", "index"}

NoAnswer == asked = None /\ made = None
NoFile == file = None /\ off = FALSE /\ inventory = None /\ reloaded = None
NoValue == given = None /\ kept = <<>>
NoCommands == definition = None /\ instance = None
NoCatalog == tests = {} /\ index = EmptyIndex /\ built = FALSE /\ used = {}

Init ==
    /\ done = FALSE /\ output = None
    /\ SessionInit
    /\ \/ kind \in Kinds /\ input = None
       \/ \E c \in Cases : kind = c[1] /\ input = c[2]
    /\ IF kind = "answer" THEN ClientInit ELSE NoAnswer
    /\ IF kind = "inventory" THEN InventoryInit ELSE NoFile
    /\ IF kind = "value" THEN ValueInit ELSE NoValue
    /\ IF kind = "commands" THEN CommandsInit ELSE NoCommands
    /\ IF kind = "index" THEN CatalogInit ELSE NoCatalog

mcVars == <<kind, input, done, output>>

Evaluate ==
    /\ kind \notin Kinds /\ ~done
    /\ done' = TRUE
    /\ output' = IF kind = "ansible" THEN AnsibleResult(input) ELSE TestResult
    /\ UNCHANGED <<kind, input, clientVars, inventoryVars, sessionVars, valueVars, commandVars, catalogVars>>

TakeAnswer ==
    /\ kind = "answer" /\ Handle
    /\ UNCHANGED <<mcVars, inventoryVars, sessionVars, valueVars, commandVars, catalogVars>>

ReadInventory ==
    /\ kind = "inventory" /\ InventoryNext
    /\ UNCHANGED <<mcVars, clientVars, sessionVars, valueVars, commandVars, catalogVars>>

Configure ==
    /\ kind = "session" /\ SessionNext
    /\ UNCHANGED <<mcVars, clientVars, inventoryVars, valueVars, commandVars, catalogVars>>

TakeValue ==
    /\ kind = "value" /\ ValueNext
    /\ UNCHANGED <<mcVars, clientVars, inventoryVars, sessionVars, commandVars, catalogVars>>

InitTest ==
    /\ kind = "commands" /\ MakeCommands
    /\ UNCHANGED <<mcVars, clientVars, inventoryVars, sessionVars, valueVars, catalogVars>>

UseCatalog ==
    /\ kind = "index" /\ CatalogNext
    /\ UNCHANGED <<mcVars, clientVars, inventoryVars, sessionVars, valueVars, commandVars>>

Next == Evaluate \/ TakeAnswer \/ ReadInventory \/ Configure \/ TakeValue \/ InitTest \/ UseCatalog

Spec == Init /\ [][Next]_<<mcVars, clientVars, inventoryVars, sessionVars, valueVars, commandVars, catalogVars>>
=============================================================================
