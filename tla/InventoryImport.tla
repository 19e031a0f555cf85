--------------------------- MODULE InventoryImport ---------------------------
(***************************************************************************)
(* `anta get from-ansible` (anta/cli/get/utils.py): the hosts it takes     *)
(* from an Ansible inventory.                                              *)
(*                                                                         *)
(* A YAML value is Plain or a mapping: a sequence of pairs <<key, value>>, *)
(* in the order of the file.                                               *)
(***************************************************************************)
EXTENDS Integers, Sequences, SequencesExt, FiniteSetsExt

CONSTANTS
    Plain,      \* a value that is no mapping
    None        \* Python's None

IsDict(v)    == v # Plain
HasKey(v, k) == \E i \in DOMAIN v : v[i][1] = k

RECURSIVE FindAnsibleGroup(_, _)
\* The first group of that name, depth first.
FindAnsibleGroup(data, group) ==
    LET here(i) == data[i][1] = group /\ (HasKey(data[i][2], "children") \/ HasKey(data[i][2], "hosts"))
        deeper(i) == FindAnsibleGroup(data[i][2], group)
        found == {i \in DOMAIN data : IsDict(data[i][2]) /\ (here(i) \/ deeper(i) # None)}
    IN  IF found = {} THEN None
        ELSE IF here(Min(found)) THEN data[Min(found)][2] ELSE deeper(Min(found))

\* Mutant of Visited: the loop skips the plain values.
VisitedAll(data) == {i \in DOMAIN data : IsDict(data[i][2])}

\* The items the loop comes to: it returns at the first plain value.
Visited(data) == {i \in DOMAIN data : \A j \in 1..i : IsDict(data[j][2])}

RECURSIVE DeepYamlParsing(_)
\* The names of the hosts with an `ansible_host`, in the order of the file.
DeepYamlParsing(data) ==
    FoldLeft(LAMBDA hosts, i :
                IF i \notin Visited(data) THEN hosts
                ELSE IF HasKey(data[i][2], "ansible_host") THEN Append(hosts, data[i][1])
                ELSE hosts \o DeepYamlParsing(data[i][2]),
             <<>>, [i \in DOMAIN data |-> i])

\* create_inventory_from_ansible; None is the ValueError of an unknown group.
CreateInventoryFromAnsible(inventory, group) ==
    LET filtered == FindAnsibleGroup(inventory, group)
    IN  IF filtered = None THEN None ELSE DeepYamlParsing(filtered)
=============================================================================
