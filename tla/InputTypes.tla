----------------------------- MODULE InputTypes -----------------------------
(***************************************************************************)
(* The types of test inputs that convert what a catalog spells             *)
(* (anta/custom_types.py): what each accepts and what it keeps.            *)
(*                                                                         *)
(* An interface is a record [word, capital, id, sub]: its word in lower    *)
(* case but for inner capitals, whether its first letter is a capital, its *)
(* numbers, and whether it is a subinterface.  A BGP capability is its     *)
(* words and whether they are written as EOS writes them; a method of AAA  *)
(* its words, at least one; other values are the text itself.  A behaviour reads a       *)
(* value, and then, as from a dump, the value that was kept.               *)
(***************************************************************************)
EXTENDS Integers, Sequences

CONSTANTS
    Values, \* what is read: [type, value]
    None    \* Python's None, also a ValueError

\* A table with these pairs of a key and what is there.
Table(pairs) == [k \in {p[1] : p \in pairs} |-> (CHOOSE p \in pairs : p[1] = k)[2]]

-----------------------------------------------------------------------------
(* Interfaces *)

\* The words that begin with an alias, and the name it stands for.
FullName == [
    w \in {"et", "eth", "ethernet", "po", "port-channel", "port-Channel", "lo", "loopback", "vl", "vlan"} |->
        CASE w \in {"et", "eth", "ethernet"}                 -> "ethernet"
          [] w \in {"po", "port-channel", "port-Channel"}    -> "port-Channel"
          [] w \in {"lo", "loopback"}                        -> "loopback"
          [] w \in {"vl", "vlan"}                            -> "vlan"]

\* interface_case_sensitivity: only the first letter.
Capitalized(i) == [i EXCEPT !.capital = TRUE]

\* interface_autocomplete: without a number, no interface; a full name has its capital.
Autocomplete(i) ==
    IF i.id = <<>> THEN None
    ELSE IF i.word \in DOMAIN FullName THEN Capitalized([i EXCEPT !.word = FullName[i.word]])
    ELSE i

InterfaceTypes ==
    {"Interface", "EthernetInterface", "PortChannelInterface", "VxlanSrcIntf", "ManagementInterface", "InterfaceType"}

\* The patterns of the types.
EosWords ==
    {"dps", "ethernet", "fabric", "loopback", "management", "port-Channel", "recirc-Channel", "tunnel", "vlan", "vxlan"}
Matches(type, i) ==
    /\ i.capital /\ i.word \in EosWords
    /\ (i.id = <<>>) <=> (type = "InterfaceType")
    /\ CASE type = "EthernetInterface"    -> i.word = "ethernet" /\ Len(i.id) <= 3
         [] type = "ManagementInterface"  -> i.word = "management" /\ Len(i.id) <= 3 /\ ~i.sub
         [] type = "PortChannelInterface" -> i.word = "port-Channel" /\ Len(i.id) = 1
         [] type = "VxlanSrcIntf"         -> /\ i.word = "loopback" \/ (i.word = "dps" /\ i.id = <<1>>)
                                             /\ Len(i.id) = 1 /\ ~i.sub
         [] OTHER                         -> TRUE

-----------------------------------------------------------------------------
(* BGP *)

\* bgp_multiprotocol_capabilities_abbreviations: other words for a capability.
OtherWords == Table({
    <<<<"dynamic", "path", "selection">>, <<"dps">>>>,
    <<<<"ipv4", "rt", "membership">>, <<"rt", "membership">>>>,
    <<<<"ipv4", "labeled", "unicast">>, <<"ipv4", "mpls", "labels">>>>,
    <<<<"ipv6", "labeled", "unicast">>, <<"ipv6", "mpls", "labels">>>>})
Capabilities ==
    {<<"dps">>, <<"l2", "vpn", "vpls">>, <<"l2", "vpn", "evpn">>, <<"link", "state">>,
     <<"rt", "membership">>, <<"ipv4", "mvpn">>}
    \cup {<<v>> \o c : v \in {"ipv4", "ipv6"}, c \in
            {<<"unicast">>, <<"multicast">>, <<"mpls", "labels">>, <<"sr", "te">>,
             <<"mpls", "vpn">>, <<"flow", "spec">>, <<"flow", "spec", "vpn">>}}

\* Whatever its case and separators, a capability gets the spelling of EOS.
Abbreviated(c) ==
    LET words == IF c.words \in DOMAIN OtherWords THEN OtherWords[c.words] ELSE c.words
    IN  IF words \in Capabilities THEN [words |-> words, eos |-> TRUE] ELSE c

\* bgp_redistributed_route_proto_abbreviations
AfiSafi == Table({
    <<"ipv4 unicast", "v4u">>, <<"ipv4 multicast", "v4m">>, <<"ipv6 unicast", "v6u">>,
    <<"ipv6 multicast", "v6m">>})

Protocols ==
    {"AttachedHost", "Bgp", "Connected", "DHCP", "Dynamic", "IS-IS", "OSPF Internal", "OSPF External",
     "OSPF Nssa-External", "OSPFv3 Internal", "OSPFv3 External", "OSPFv3 Nssa-External", "RIP",
     "Static", "User"}

-----------------------------------------------------------------------------
(* Routes, SNMP, reload causes, AAA methods *)

\* update_ipv4_route_type
RouteTypes == Table({
    <<"OSPF inter area", "ospfInterArea">>, <<"OSPF external type 1", "ospfExternalType1">>,
    <<"OSPF external type 2", "ospfExternalType2">>,
    <<"OSPF NSSA external type 1", "ospfNssaExternalType1">>,
    <<"OSPF NSSA external type2", "ospfNssaExternalType2">>, <<"Other BGP Routes", "BGP">>,
    <<"IS-IS level 1", "ISISLevel1">>, <<"IS-IS level 2", "ISISLevel2">>,
    <<"BGP Aggregate", "bgpAggregate">>, <<"OSPF Summary", "ospfSummary">>,
    <<"Nexthop Group Static Route", "nexthopGroupStaticRoute">>, <<"VXLAN Control Service", "vcs">>,
    <<"Martian", "martian">>, <<"DHCP client installed default route", "dhcp">>,
    <<"Dynamic Policy Route", "dynamicPolicy">>, <<"gRIBI", "gribi">>,
    <<"Route Cache Route", "routeCacheConnected">>, <<"CBF Leaked Route", "CBFLeaked">>,
    <<"Drop Route", "dropRoute">>})
AcceptedRoutes ==
    (DOMAIN RouteTypes \ {"Drop Route"})
    \cup {"connected", "static", "kernel", "OSPF", "iBGP", "eBGP", "RIP", "OSPFv3", "dropRoute"}

\* snmp_v3_prefix
V3Prefixed == Table({
    <<"auth", "v3Auth">>, <<"priv", "v3Priv">>, <<"noauth", "v3NoAuth">>})

\* convert_reload_cause: the key, in any case, or the text it stands for.
ReloadCauses == Table({
    <<"ZTP", "System reloaded due to Zero Touch Provisioning">>,
    <<"USER", "Reload requested by the user.">>, <<"FPGA", "Reload requested after FPGA upgrade">>,
    <<"USER_HITLESS", "Hitless reload requested by the user.">>})
ReloadTexts == {ReloadCauses[k] : k \in DOMAIN ReloadCauses}
ToCause(v) ==
    IF v \in ReloadTexts THEN v ELSE IF v \in DOMAIN ReloadCauses THEN ReloadCauses[v] ELSE None

\* Mutant of GroupPrefix: a prefix of the user is not seen.
GroupPrefixAlways(v) == IF v \in {<<"local">>, <<"none">>, <<"logging">>} THEN v ELSE <<"group">> \o v

\* aaa_group_prefix, on the words of a method.
GroupPrefix(v) ==
    IF v \in {<<"local">>, <<"none">>, <<"logging">>} \/ (Len(v) > 1 /\ v[1] = "group") THEN v
    ELSE <<"group">> \o v

-----------------------------------------------------------------------------
(* A type: what it converts before its pattern or list, what these accept, and what  *)
(* it converts after. *)

Before(type, v) ==
    CASE type \in InterfaceTypes \ {"ManagementInterface", "InterfaceType"} -> Autocomplete(Capitalized(v))
      [] type \in {"ManagementInterface", "InterfaceType"} -> Capitalized(v)
      [] type = "MultiProtocolCaps"    -> Abbreviated(v)
      [] type = "RedistributedAfiSafi" -> IF v \in DOMAIN AfiSafi THEN AfiSafi[v] ELSE v
      [] type = "ReloadCause"          -> ToCause(v)
      [] OTHER                         -> v

Accepts(type, v) ==
    CASE type \in InterfaceTypes -> Matches(type, v)
      [] type = "MultiProtocolCaps"     -> v.eos
      [] type = "RedistributedAfiSafi"  -> \E k \in DOMAIN AfiSafi : v = AfiSafi[k]
      [] type = "ReloadCause"           -> v \in ReloadTexts \cup DOMAIN ReloadCauses
      [] type = "RedistributedProtocol" -> v \in Protocols
      [] type = "IPv4RouteType"         -> v \in AcceptedRoutes
      [] type = "SnmpVersionV3AuthType" -> v \in DOMAIN V3Prefixed
      [] type = "AAAAuthMethod"         -> TRUE

After(type, v) ==
    CASE type = "AAAAuthMethod"         -> GroupPrefix(v)
      [] type = "RedistributedProtocol" -> IF v = "User" THEN "EOS SDK" ELSE v
      [] type = "IPv4RouteType"         -> IF v \in DOMAIN RouteTypes THEN RouteTypes[v] ELSE v
      [] type = "SnmpVersionV3AuthType" -> V3Prefixed[v]
      [] OTHER                          -> v

Validate(type, v) ==
    LET b == Before(type, v) IN
    IF b = None THEN None ELSE IF Accepts(type, b) THEN After(type, b) ELSE None

-----------------------------------------------------------------------------
(* A value that is read, and read again *)

\* The types that convert after their list has accepted the value.
ConvertedAfter == {"IPv4RouteType", "RedistributedProtocol", "SnmpVersionV3AuthType"}

InputTypeNames ==
    InterfaceTypes \cup ConvertedAfter
    \cup {"MultiProtocolCaps", "RedistributedAfiSafi", "ReloadCause", "AAAAuthMethod"}

\* The spellings of the values of a type.
IsSpelling(type, v) ==
    CASE type \in InterfaceTypes -> v \in [word : STRING, capital : BOOLEAN, id : Seq(Nat), sub : BOOLEAN]
      [] type = "MultiProtocolCaps" ->
            v \in [words : Seq(STRING), eos : BOOLEAN] /\ (v.eos => v.words \in Capabilities)
      [] type = "AAAAuthMethod"     -> v \in Seq(STRING) \ {<<>>}
      [] OTHER                      -> v \in STRING

ASSUME ValuesAssumption ==
    \A in \in Values : in.type \in InputTypeNames /\ IsSpelling(in.type, in.value)

VARIABLES
    given,  \* the type and the value that is read
    kept    \* what the readings kept

valueVars == <<given, kept>>

ValueInit == given \in Values /\ kept = <<>>

ReadValue ==
    /\ kept = <<>>
    /\ kept' = <<Validate(given.type, given.value)>>
    /\ UNCHANGED given

\* A catalog holds, and a dump has, what was kept.
ReadAgain ==
    /\ Len(kept) = 1 /\ kept[1] # None
    /\ kept' = Append(kept, Validate(given.type, kept[1]))
    /\ UNCHANGED given

ValueNext == ReadValue \/ ReadAgain

ValueSpec == ValueInit /\ [][ValueNext]_valueVars

\* A value that was kept, read again, is kept as it is, or the catalog it was written to
\* could not be loaded or would mean something else (the BeforeValidators of
\* custom_types); only the three types that convert after their list refuse it.
KeptIsKept ==
    Len(kept) = 2 =>
        \/ kept[2] = kept[1]
        \/ given.type \in ConvertedAfter /\ kept[2] = None /\ kept[1] # given.value
=============================================================================
