------------------------------ MODULE Inventory ------------------------------
(***************************************************************************)
(* AntaInventory (anta/inventory): how an inventory file becomes devices,  *)
(* how devices are selected, and how an inventory is dumped.               *)
(*                                                                         *)
(* An address is <<family, number>>, any other text <<"text", n>>; a text  *)
(* with a port has the port as a third element.  A network is given by its *)
(* first address and its size.  The entries of a section are a sequence,   *)
(* as in the file; the inventory is a dict from names to devices.  A       *)
(* behaviour reads one file, and then the dump of its inventory.           *)
(***************************************************************************)
EXTENDS Integers, Sequences, SequencesExt

CONSTANTS
    Files,          \* the inventory files
    LastAddress,    \* per address family: its last address
    DefaultPort,    \* external: the port of https
    HostNames,      \* the names the schema takes for a host: a hostname or an address
    Unset,          \* Python's None
    Refused         \* an exception: InventoryIncorrectSchemaError of parse, ValidationError of dump

\* What the schema makes sure of: three lists; an entry with a host, a network with its
\* size, or else a range of addresses.
IsFile(f) ==
    /\ \A entries \in {f.hosts, f.networks, f.ranges} :
        /\ entries \in Seq(ToSet(entries))
        /\ \A e \in ToSet(entries) : e.disable_cache \in BOOLEAN
    /\ \A h \in ToSet(f.hosts) : "host" \in DOMAIN h
    /\ \A n \in ToSet(f.networks) :
        /\ "host" \notin DOMAIN n /\ "size" \in DOMAIN n
        /\ n.first[2] \in Nat /\ n.size \in Nat
    /\ \A r \in ToSet(f.ranges) :
        /\ "host" \notin DOMAIN r /\ "size" \notin DOMAIN r
        /\ r.start[2] \in Nat /\ r.end[2] \in Nat

ASSUME InventoryAssumption == \A f \in Files : IsFile(f)

VARIABLES
    file,       \* the inventory file
    off,        \* the command line disables the cache
    inventory,  \* what parse made of the file
    reloaded    \* what parse made of the dump of the inventory

inventoryVars == <<file, off, inventory, reloaded>>

-----------------------------------------------------------------------------
(* AsyncEOSDevice.__init__ *)

DeviceName(name, host, port) ==
    IF name # Unset THEN name ELSE IF port # Unset THEN Append(host, port) ELSE host

\* `self.tags.add(self.name)`: devices given the same set object share what it holds.
DeviceTags(tags, siblings, name) ==
    IF tags = Unset THEN {name} ELSE tags \cup siblings

Device(name, host, port, tags, cached) ==
    [name |-> name, host |-> host, tags |-> tags, cached |-> cached, established |-> FALSE,
     port |-> IF port = Unset THEN DefaultPort ELSE port]

\* _update_disable_cache: the file or the command line may disable the cache.
Cached(entry, disabled) == ~(entry.disable_cache \/ disabled)

-----------------------------------------------------------------------------
(* _parse_hosts, _parse_networks, _parse_ranges *)

HostDevices(h, disabled) ==
    LET name == DeviceName(h.name, h.host, h.port)
    IN  <<Device(name, h.host, h.port, DeviceTags(h.tags, {name}, name), Cached(h, disabled))>>

\* One device per address; they all get the entry's set of tags.
AddressDevices(addresses, entry, disabled) ==
    [i \in 1..Len(addresses) |->
        LET a == addresses[i]
        IN  Device(a, a, Unset, DeviceTags(entry.tags, ToSet(addresses), a), Cached(entry, disabled))]

Addresses(family, from, to) == [i \in 1..(to - from + 1) |-> <<family, from + i - 1>>]

\* The network and broadcast addresses are devices too.
NetworkAddresses(n) == Addresses(n.first[1], n.first[2], n.first[2] + n.size - 1)

\* Mutant of RangeAddresses: the address after the end of the range is one of it.
RangeAddressesLong(r) == Addresses(r.start[1], r.start[2], r.end[2] + 1)

RangeAddresses(r) == Addresses(r.start[1], r.start[2], r.end[2])

\* The ends are of different families, or the loop steps past the last address.
RangeFails(r) ==
    \/ r.start[1] # r.end[1]
    \/ r.start[2] <= r.end[2] /\ r.end[2] = LastAddress[r.end[1]]

\* The devices in the order parse creates them, entry by entry.
Created(f, disabled) ==
    [i \in DOMAIN f.hosts |-> HostDevices(f.hosts[i], disabled)]
    \o [i \in DOMAIN f.networks |->
            AddressDevices(NetworkAddresses(f.networks[i]), f.networks[i], disabled)]
    \o [i \in DOMAIN f.ranges |->
            AddressDevices(RangeAddresses(f.ranges[i]), f.ranges[i], disabled)]

\* add_device: a later device takes the place of an earlier one of its name.
AddDevice(devices, d) ==
    [n \in DOMAIN devices \cup {d.name} |-> IF n = d.name THEN d ELSE devices[n]]

AddAll(devices, more) ==
    LET after[i \in 0..Len(more)] == IF i = 0 THEN devices ELSE AddDevice(after[i - 1], more[i])
    IN  after[Len(more)]

Built(lists) ==
    LET after[i \in 0..Len(lists)] == IF i = 0 THEN <<>> ELSE AddAll(after[i - 1], lists[i])
    IN  after[Len(lists)]

\* AntaInventory.parse
Parse(f, disabled) ==
    IF \E i \in DOMAIN f.ranges : RangeFails(f.ranges[i]) THEN Refused
    ELSE Built(Created(f, disabled))

-----------------------------------------------------------------------------
(* get_inventory and dump *)

Selected(d, established_only, tags, devices) ==
    /\ tags # Unset => d.tags \cap tags # {}
    /\ devices # Unset => d.name \in devices
    /\ established_only => d.established

GetInventory(all, established_only, tags, devices) ==
    LET kept == {n \in DOMAIN all :
                    Selected(all[n], established_only, tags, devices)}
    IN  [n \in kept |-> all[n]]

\* The hosts of a dump are validated: is every name one that a host may have?
Valid(all) == DOMAIN all \subseteq HostNames

\* Mutant of Dump: the setting of the cache is dumped the wrong way round.
DumpCached(all) ==
    LET host(n) == [name |-> n, host |-> n, port |-> Unset, tags |-> all[n].tags,
                    disable_cache |-> all[n].cached]
    IN  IF Valid(all)
        THEN [hosts |-> SetToSeq({host(n) : n \in DOMAIN all}), networks |-> <<>>, ranges |-> <<>>]
        ELSE Refused

\* AsyncEOSDevice has neither `host` nor `port`: is_base_class holds of every device
\* of a file, and its name is dumped as its host, if a host may have it.
Dump(all) ==
    LET host(n) == [name |-> n, host |-> n, port |-> Unset, tags |-> all[n].tags,
                    disable_cache |-> ~all[n].cached]
    IN  IF Valid(all)
        THEN [hosts |-> SetToSeq({host(n) : n \in DOMAIN all}), networks |-> <<>>, ranges |-> <<>>]
        ELSE Refused

-----------------------------------------------------------------------------
(* A file is read, and the dump of what it holds *)

InventoryInit ==
    /\ file \in Files /\ off \in BOOLEAN
    /\ inventory = Unset /\ reloaded = Unset

Load ==
    /\ inventory = Unset
    /\ inventory' = Parse(file, off)
    /\ UNCHANGED <<file, off, reloaded>>

Reload ==
    /\ inventory \notin {Unset, Refused} /\ reloaded = Unset
    /\ reloaded' = IF Valid(inventory) THEN Parse(Dump(inventory), off) ELSE Dump(inventory)
    /\ UNCHANGED <<file, off, inventory>>

InventoryNext == Load \/ Reload

InventorySpec == InventoryInit /\ [][InventoryNext]_inventoryVars

-----------------------------------------------------------------------------
(* Properties *)

\* The entries in the order they are read, and the names an entry gives.
FileEntries(f) == f.hosts \o f.networks \o f.ranges

Gives(e) ==
    IF "host" \in DOMAIN e THEN
        {IF e.name # Unset THEN e.name ELSE IF e.port # Unset THEN Append(e.host, e.port) ELSE e.host}
    ELSE IF "size" \in DOMAIN e THEN {<<e.first[1], i>> : i \in e.first[2]..(e.first[2] + e.size - 1)}
    ELSE {<<e.start[1], i>> : i \in e.start[2]..e.end[2]}

\* The tags there are: those an entry gives, and names of devices.
GivenTags(e) == IF e.tags = Unset THEN {} ELSE e.tags
TagsIn(f) == UNION {GivenTags(e) \cup Gives(e) : e \in ToSet(FileEntries(f))}

\* None is no set of tags.
ASSUME TagsAssumption == \A f \in Files : \A tags \in SUBSET TagsIn(f) : tags # Unset

\* A device that has the settings of the entry that gave its name, and no tag but those
\* of the entry and the names it gives.
Fits(d, n, e, disabled) ==
    /\ d.name = n
    /\ d.cached = ~(disabled \/ e.disable_cache)
    /\ GivenTags(e) \cup {n} \subseteq d.tags /\ d.tags \subseteq GivenTags(e) \cup Gives(e)
    /\ IF "host" \in DOMAIN e
       THEN d.host = e.host /\ d.port = (IF e.port = Unset THEN DefaultPort ELSE e.port)
       ELSE d.host = n /\ d.port = DefaultPort

\* A file becomes one device for every name it gives, with the settings of the entry
\* read last, or is refused because of a range that has no end or two families, which
\* is never let through (parse, _parse_ranges).
InventoryIsComplete ==
    inventory # Unset =>
        \/ /\ inventory = Refused
           /\ \E r \in ToSet(file.ranges) : r.start[1] # r.end[1] \/ r.end[2] = LastAddress[r.end[1]]
        \/ LET es == FileEntries(file) IN
           /\ \A r \in ToSet(file.ranges) : r.start[1] = r.end[1]
           /\ DOMAIN inventory = UNION {Gives(es[i]) : i \in DOMAIN es}
           /\ \A n \in DOMAIN inventory : \E i \in DOMAIN es :
                /\ n \in Gives(es[i]) /\ \A j \in DOMAIN es : j > i => n \notin Gives(es[j])
                /\ Fits(inventory[n], n, es[i], off)

\* A dumped inventory, parsed, has the same devices with the same tags and cache
\* settings, and a device with a host that is its name and the default port keeps them.
\* Only a name that no host may have makes dump fail.  Whether it should, and what
\* becomes of another host or port, is left open: they are lost (README, Findings).
DumpAndParse ==
    reloaded # Unset =>
        \/ reloaded = Refused /\ \E n \in DOMAIN inventory : n \notin HostNames
        \/ /\ DOMAIN reloaded = DOMAIN inventory
           /\ \A n \in DOMAIN reloaded :
                LET old == inventory[n]  new == reloaded[n] IN
                /\ new.tags = old.tags /\ new.cached = old.cached
                /\ old.host = n /\ old.port = DefaultPort => new.host = n /\ new.port = DefaultPort

\* docs/cli/tag-management.md: each device has its own name automatically added as a
\* tag.  When the files give nobody the name of a device as a tag, a name given as a
\* tag must select the device of that name alone (AsyncEOSDevice.__init__).
OwnNameSelectsOne ==
    inventory \notin {Unset, Refused} =>
        \A n \in DOMAIN inventory : DOMAIN GetInventory(inventory, FALSE, {n}, Unset) = {n}
=============================================================================
