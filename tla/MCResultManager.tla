--------------------------- MODULE MCResultManager ---------------------------
(* An instance of Reports: two devices, two tests that share a category. *)
EXTENDS Reports, TLC

CONSTANTS d1, d2, mtu, vlan, l2, l3

MCNames == {d1, d2}
MCTests == {mtu, vlan}
MCCategories == {l2, l3}
MCCategoriesOf == mtu :> {l2, l3} @@ vlan :> {l2}

R(n, t, s) == [name |-> n, test |-> t, result |-> s]

MCPool == {R(d1, mtu, "success"), R(d1, vlan, "failure"), R(d2, vlan, "error"),
           R(d2, mtu, "skipped"), R(d1, mtu, "unset"), R(d2, vlan, "success")}

\* Two of them have atomic results.
MCAtomics == [r \in MCPool |->
    IF r.result = "failure" THEN <<"success", "failure">>
    ELSE IF r = R(d1, mtu, "success") THEN <<"success">> ELSE <<>>]

MCHides == {Null, {"success"}, {"failure", "error"}}
=============================================================================
