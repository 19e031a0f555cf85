------------------------------ MODULE MCRunner ------------------------------
(* Instances of Runner: two devices, and a second entry with the address of    *)
(* one of them; a test for all, a test for leaves that is not protected by     *)
(* anta_test, and a test class that cannot be instantiated.                    *)
EXTENDS Runner, TLC

CONSTANTS d1, d2, d3, any, mtu, bad, AnyTest, MtuTest, leaf, spine

MCDevices == {d1, d2, d3}
MCAddress == d1 :> 1 @@ d2 :> 2 @@ d3 :> 2
MCTags == {leaf, spine} \cup MCDevices
MCDeviceTags == d1 :> {leaf, d1} @@ d2 :> {spine, d2} @@ d3 :> {spine, d3}
MCDefinitions == {any, mtu, bad}
MCNames == {AnyTest, MtuTest}
MCNameOf == any :> AnyTest @@ mtu :> MtuTest @@ bad :> AnyTest
MCTagsOf == any :> {} @@ mtu :> {leaf} @@ bad :> {d2}
MCBroken == {bad}
MCRaw == {mtu}

Args(tags, devices, names, only, dry, disconnect) ==
    [tags |-> tags, devices |-> devices, tests |-> names,
     establishedOnly |-> only, dryRun |-> dry, disconnect |-> disconnect]

MCRunArgs ==
    { Args(Null, {d1, d2}, {}, TRUE, FALSE, TRUE),     \* two devices, and disconnect
      Args({leaf}, Null, {MtuTest}, TRUE, FALSE, FALSE),   \* --tags leaf --test MtuTest
      Args(Null, {d1}, {}, FALSE, FALSE, TRUE),        \* --device d1, reachable or not
      Args({}, {d1}, {}, TRUE, FALSE, FALSE),          \* an empty set of tags
      Args(Null, Null, {AnyTest}, TRUE, TRUE, TRUE) }      \* a dry run on everything

=============================================================================
