---------------------------- MODULE MCAdminPlane ----------------------------
(* Instances of AdminPlane for TLC: two tenants with a PBX, a condominium and *)
(* a trunk each, the first with a second condominium; "legacy" is a user of   *)
(* the legacy file, "long" a name of more than 128 characters.                *)
EXTENDS AdminPlane

Two == Permutations(Request)

A == <<None, "tenant_a">>
B == <<None, "tenant_b">>
PA == <<None, "host_a">>
PB == <<None, "host_b">>
\* A tenant that is restored, and its PBX.
D == <<None, "tenant_d">>
PD == <<None, "host_d">>
X == <<None, "x">>
Y == <<None, "y">>
Z == <<None, "z">>

Sip(user) == <<"internal-7060", user>>

Users == {"u1", "u2", "u3", "legacy", "long"}
LongUsers == {"long"}
LegacyUsers == {"legacy"}

Tenants == {[id |-> A, schema |-> "tenant_a", status |-> "active"],
            [id |-> B, schema |-> "tenant_b", status |-> "active"]}
Pbxs == {[id |-> PA, tenant |-> A, host |-> "host_a"],
         [id |-> PB, tenant |-> B, host |-> "host_b"]}
Condos == {[id |-> X, tenant |-> A, pbx |-> PA, name |-> "x", enabled |-> TRUE],
           [id |-> Z, tenant |-> A, pbx |-> PA, name |-> "z", enabled |-> TRUE],
           [id |-> Y, tenant |-> B, pbx |-> PB, name |-> "y", enabled |-> TRUE]}
Trunks == {[id |-> <<None, 1>>, tenant |-> A, pbx |-> PA, condo |-> X, prefix |-> "1",
            ident |-> Sip("u1"), enabled |-> TRUE, status |-> "unknown"],
           [id |-> <<None, 2>>, tenant |-> B, pbx |-> PB, condo |-> Y, prefix |-> "1",
            ident |-> Sip("u2"), enabled |-> TRUE, status |-> "registered"]}

Creation(condo, prefix, user, password) ==
    [op |-> "create", tenant |-> A, pbx |-> PA, enabled |-> TRUE,
     row |-> [ident |-> Sip(user), prefix |-> prefix, condo |-> condo, password |-> password]]

Patch(n, new) == [op |-> "update", tenant |-> A, pbx |-> PA, trunk |-> <<None, n>>, new |-> new]

Line(technology, user, prefix, condo) ==
    [technology |-> technology, user |-> user, password |-> "good", prefix |-> prefix, condo |-> condo]

Csv(lines, apply) ==
    [op |-> "csv", tenant |-> A, pbx |-> PA, enabled |-> FALSE, lines |-> lines, apply |-> apply]

Entry(number, user) ==
    [number |-> number, user |-> user, password |-> "good", pjsip7060 |-> TRUE, agrees |-> TRUE]

Batch(entries, names, apply) ==
    [op |-> "batch", tenant |-> A, pbx |-> PA, enabled |-> FALSE,
     entries |-> entries, names |-> names, apply |-> apply]

Single(entry, condo) ==
    [op |-> "json", tenant |-> A, pbx |-> PA, enabled |-> FALSE,
     entry |-> entry, condo |-> condo, apply |-> TRUE]

Provision(schema, restore) ==
    [op |-> "provision", schema |-> schema, host |-> "host_c", restore |-> restore, sync |-> TRUE]

Jobs == {
    Creation(X, None, "u3", "good"),
    Creation(X, "2", "legacy", "good"),
    [Creation(X, "2", "u3", "good") EXCEPT !.pbx = PB],
    Patch(1, [ident |-> Sip("u3"), condo |-> Z]),
    Patch(1, [enabled |-> TRUE, password |-> "good"]),
    Patch(1, [ident |-> Sip("legacy")]),
    Patch(2, [enabled |-> FALSE]),
    Csv(<<Line("virtual", None, None, None), Line("pjsip", "u2", None, None),
          Line("sip", "u3", "2", X), Line("pjsip", "u1", None, X)>>, TRUE),
    Batch(<<Entry(1, "u1"), Entry(2, "u3")>>, <<"x", "w">>, TRUE),
    Batch(<<Entry(1, "u3"), Entry(2, "legacy")>>, <<"x", "x">>, TRUE),
    Batch(<<Entry(1, "u3")>>, <<"w">>, FALSE),
    [Batch(<<Entry(1, "u3"), Entry(1, "u3")>>, <<"w">>, TRUE) EXCEPT !.tenant = D, !.pbx = PD],
    Single(Entry(1, "u1"), X),
    [op |-> "condo", tenant |-> None, pbx |-> None, names |-> <<"w">>],
    [op |-> "condo_update", tenant |-> A, condo |-> X, new |-> [enabled |-> FALSE]],
    [op |-> "lookup", ident |-> Sip("u1")],
    [op |-> "lookup", ident |-> Sip("legacy")],
    Provision("tenant_c", None),
    Provision("tenant_a", [tenant |-> B, pbx |-> PB]),
    Provision("tenant_d", [tenant |-> D, pbx |-> PD]),
    [op |-> "pbx_create", tenant |-> None, pbx |-> None, host |-> "host_d"]}

\* One batch whose second name is too long.
LongBatch == {Batch(<<Entry(1, "u3"), Entry(2, "long")>>, <<"x", "x">>, TRUE),
              Creation(X, None, "u3", "good")}
=============================================================================
