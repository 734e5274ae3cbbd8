--------------------------- MODULE AdminDatabase ---------------------------
(***************************************************************************)
(* What the administration of the system shares: the public tables of      *)
(* src/database/models.py, the repositories that write them, the legacy    *)
(* directory file, and the requests (HTTP handlers and scripts) that run   *)
(* over them at the same time.                                             *)
(*                                                                         *)
(* A request takes a step for each statement it sends; a commit is one     *)
(* step that checks the constraints of the table.  Identifiers are drawn   *)
(* by the request that creates the row, as UUIDs are.                      *)
(***************************************************************************)
EXTENDS Naturals, Sequences, FiniteSets, SequencesExt

CONSTANTS
    Request,        \* the requests, in any order and at the same time
    Work,           \* what a request may be asked to do
    User,           \* SIP user names
    Long,           \* those that do not fit auth_username, String(128)
    Prefix,         \* the well-formed prefixes
    None,
    InitTenants, InitPbxs, InitCondos, InitTrunks,  \* the tables at the start
    InitUsers,      \* the users of the legacy directory file at the start
    MaxChanges,     \* bound on what others change: registrations, file, tenant
    MaxFaults       \* bound on deaths and on statements that fail

ASSUME AdminAssumption ==
    /\ Long \subseteq User /\ InitUsers \subseteq User
    /\ None \notin Request \cup Prefix
    /\ MaxChanges \in Nat /\ MaxFaults \in Nat

Operations == {"create", "update", "csv", "json", "batch", "condo", "condo_update", "lookup",
               "provision", "pbx_create"}

\* An identity is the pair of SIP profile and user name.
UserOf(i) == i[2]

\* What the bodies of the handlers and the arguments of the scripts admit:
\* TrunkUpdate and CondominiumUpdate name no key and no status, and TrunkUpdate
\* takes only a name that fits its column; an import creates trunks disabled.
Admitted(w) ==
    /\ "op" \in DOMAIN w /\ w.op \in Operations
    /\ w.op \in {"update", "condo_update"} =>
          "new" \in DOMAIN w /\ DOMAIN w.new \cap {"id", "tenant", "pbx", "status"} = {}
    /\ w.op = "update" =>
          /\ "ident" \in DOMAIN w.new => UserOf(w.new.ident) \in User \ Long
          /\ "enabled" \in DOMAIN w.new => w.new.enabled \in BOOLEAN
    /\ w.op \in {"create", "csv", "json", "batch"} => "enabled" \in DOMAIN w /\ w.enabled \in BOOLEAN
    /\ w.op \in {"csv", "json", "batch"} => w.enabled = FALSE
    /\ w.op = "create" => "row" \in DOMAIN w /\ UserOf(w.row.ident) \in User
    /\ w.op = "json" => "entry" \in DOMAIN w /\ w.entry.user \in User \cup {None}
    /\ w.op = "csv" =>
          /\ "lines" \in DOMAIN w
          /\ w.lines \in Seq(ToSet(w.lines))
          /\ \A i \in DOMAIN w.lines : w.lines[i].user \in User \cup {None}
    /\ w.op = "batch" =>
          /\ "entries" \in DOMAIN w
          /\ w.entries \in Seq(ToSet(w.entries))
          /\ \A i \in DOMAIN w.entries : w.entries[i].user \in User \cup {None}
    /\ w.op = "provision" => {"schema", "restore"} \subseteq DOMAIN w /\ w.schema \in STRING

ASSUME WorkAssumption == \A w \in Work : Admitted(w)

\* Whose a trunk and a condominium are: of the tenant of their PBX.
Consistent(ps, cs, ks) ==
    /\ \A k \in ks :
          /\ \E p \in ps : p.id = k.pbx /\ p.tenant = k.tenant
          /\ \E c \in cs : c.id = k.condo /\ c.tenant = k.tenant /\ c.pbx = k.pbx
    /\ \A c \in cs : \E p \in ps : p.id = c.pbx /\ p.tenant = c.tenant

\* The PBXs of the deployment and their tenants, those that a job restores under
\* their old identifiers (_validate_restore_ids) among them.
Deployed == {<<p.id, p.tenant>> : p \in InitPbxs} \cup
            {<<w.restore.pbx, w.restore.tenant>> :
                w \in {v \in Work : v.op = "provision" /\ v.restore # None}}

\* The tables at the start respect their keys and belong together; no request
\* has drawn an identifier yet; and a PBX that is restored goes to its tenant.
ASSUME TablesAssumption ==
    /\ \A t \in InitTenants :
          /\ DOMAIN t = {"id", "schema", "status"}
          /\ t.schema \in STRING /\ t.status \in {"active", "suspended"}
    /\ \A t, o \in InitTenants : t.id = o.id \/ t.schema = o.schema => t = o
    /\ \A c \in InitCondos : DOMAIN c = {"id", "tenant", "pbx", "name", "enabled"}
    /\ \A k \in InitTrunks :
          DOMAIN k = {"id", "tenant", "pbx", "condo", "prefix", "ident", "enabled", "status"}
    /\ \A k \in InitTrunks :
          /\ k.prefix \in Prefix \cup {None} /\ UserOf(k.ident) \in User \ Long
          /\ k.enabled \in BOOLEAN /\ k.status \in {"unknown", "registered", "unregistered"}
    /\ \A c, d \in InitCondos : c.id = d.id => c = d
    /\ \A k, o \in InitTrunks :
          \/ k.id = o.id \/ k.ident = o.ident
          \/ k.prefix # None /\ <<k.tenant, k.prefix>> = <<o.tenant, o.prefix>>
          => k = o
    /\ \A x \in InitCondos \cup InitTrunks \cup InitTenants : x.id[1] \notin Request
    /\ \A x, y \in Deployed : {x[1][1], x[2][1]} \cap Request = {} /\ (x[1] = y[1] => x = y)
    /\ \A p \in InitPbxs : \E t \in InitTenants : t.id = p.tenant
    /\ Consistent(InitPbxs, InitCondos, InitTrunks)

VARIABLES
    tenants,    \* rows of tenants: id, schema, status
    pbxs,       \* rows of pbxs: id, tenant, host
    condos,     \* rows of condominiums: id, tenant, pbx, name, enabled
    trunks,     \* rows of ata_trunks: id, tenant, pbx, condo, prefix, ident, enabled, status
    schemas,    \* the PostgreSQL schemas of tenants
    legacy,     \* the legacy directory file: its users, and whether it can be parsed
    varsxml,    \* what vars.xml says of tenant and PBX
    pc,         \* where each request is
    job,        \* what it was asked
    mem,        \* its local variables
    hist,       \* what the others did while it ran (of no request's concern)
    changes, faults

tables == <<tenants, pbxs, condos, trunks>>
world == <<tables, schemas, legacy, varsxml>>
local == <<pc, job, mem>>
vars == <<world, local, hist, changes, faults>>

Ended == {"ok", "failed", "dead"}
Active(r) == pc[r] \notin Ended \cup {"idle"}

\* The rows of a table with an identifier: one or none.
Row(table, id) == {x \in table : x.id = id}

Blank == [rows |-> <<>>, n |-> 1, wrote |-> 0, seen |-> None, ids |-> <<>>,
          name |-> None, own |-> {}, answer |-> None]

Init ==
    /\ tenants = InitTenants /\ pbxs = InitPbxs
    /\ condos = InitCondos /\ trunks = InitTrunks
    /\ schemas = {t.schema : t \in InitTenants}
    /\ legacy = [ok |-> TRUE, users |-> InitUsers]
    /\ varsxml = None
    /\ pc = [r \in Request |-> "idle"]
    /\ job = [r \in Request |-> None]
    /\ mem = [r \in Request |-> Blank]
    /\ hist = [r \in Request |-> [moves |-> 0, edited |-> FALSE, right |-> {}, undone |-> FALSE]]
    /\ changes = 0 /\ faults = 0

-----------------------------------------------------------------------------
(* Steps of a request *)

At(r, label) == pc[r] = label
Goto(r, label) == pc' = [pc EXCEPT ![r] = label]

\* An exception that the handler or the script does not catch, or an answer
\* with an error status: either ends the request.
Fails(r) == Goto(r, "failed") /\ UNCHANGED mem

Fault == /\ faults < MaxFaults
         /\ faults' = faults + 1

\* A row of condominiums respects the constraints of its table.  The index on
\* external_id, which is NULL here, is never met.
CondominiumFits(c) ==
    /\ Row(tenants, c.tenant) # {} /\ Row(pbxs, c.pbx) # {}
    /\ \A o \in condos : o.id # c.id =>
          <<o.tenant, o.pbx, o.name>> # <<c.tenant, c.pbx, c.name>>

\* Mutant of TrunkFits: the index on profile and user name is missing.
TrunkFitsAny(k) ==
    /\ Row(tenants, k.tenant) # {} /\ Row(pbxs, k.pbx) # {} /\ Row(condos, k.condo) # {}
    /\ \A o \in trunks : o.id # k.id =>
          k.prefix = None \/ <<o.tenant, o.prefix>> # <<k.tenant, k.prefix>>

\* A row of ata_trunks respects the foreign keys and the unique indexes.
TrunkFits(k) ==
    /\ Row(tenants, k.tenant) # {} /\ Row(pbxs, k.pbx) # {} /\ Row(condos, k.condo) # {}
    /\ \A o \in trunks : o.id # k.id =>
          /\ o.ident # k.ident
          /\ k.prefix = None \/ <<o.tenant, o.prefix>> # <<k.tenant, k.prefix>>

\* Repository.update: the object keeps what the session first loaded, and the
\* UPDATE names only the columns whose new value differs from that.
Updated(now, loaded, new) ==
    [f \in DOMAIN now |-> IF f \in DOMAIN new /\ new[f] # loaded[f] THEN new[f] ELSE now[f]]

\* A dictionary with an entry for the key.
With(d, key, value) == [k \in DOMAIN d \cup {key} |-> IF k = key THEN value ELSE d[k]]

LegacyHas(user) == user \in legacy.users

-----------------------------------------------------------------------------
(* What happens to the tables and the file from outside *)

Change == /\ changes < MaxChanges
          /\ changes' = changes + 1
          /\ UNCHANGED <<local, faults, schemas, varsxml>>

\* The listener of EslListener writes what it is told of a trunk.
Register(k, status) ==
    /\ Change
    /\ k.status # status
    /\ trunks' = (trunks \ {k}) \cup {[k EXCEPT !.status = status]}
    /\ UNCHANGED <<tenants, pbxs, condos, legacy>>

\* An operator edits the legacy file, and may leave it half written.
EditLegacy(users, ok) ==
    /\ Change
    /\ legacy' = [ok |-> ok, users |-> users]
    /\ legacy' # legacy
    /\ UNCHANGED tables

\* An operator suspends a tenant or lets it go on.
SetTenant(t) ==
    /\ Change
    /\ tenants' = (tenants \ {t}) \cup
          {[t EXCEPT !.status = IF @ = "active" THEN "suspended" ELSE "active"]}
    /\ UNCHANGED <<pbxs, condos, trunks, legacy>>

Outside ==
    \/ \E k \in trunks, s \in {"registered", "unregistered"} : Register(k, s)
    \/ \E users \in {{}, InitUsers, User \ Long}, ok \in BOOLEAN : EditLegacy(users, ok)
    \/ \E t \in tenants : SetTenant(t)

\* The process of a request dies; what it has committed stays.
Die(r) ==
    /\ Active(r)
    /\ Fault
    /\ Goto(r, "dead")
    /\ UNCHANGED <<world, job, mem, changes>>
=============================================================================
