------------------------- MODULE TenantProvisioning -------------------------
(***************************************************************************)
(* scripts/provision_tenant.py: a tenant, its PBX and its schema are made  *)
(* in three commits, and undone by a fourth when one of them fails; then   *)
(* scripts/sync_vars_xml.py may write vars.xml.  With it the handler that  *)
(* adds a PBX.                                                             *)
(*                                                                         *)
(* A tenant is told from another by its schema, a PBX by its host and      *)
(* port.  Arguments that the script refuses at once are left out.          *)
(***************************************************************************)
EXTENDS AdminDatabase

TenantId(r) == mem[r].ids["tenant"]
PbxId(r) == mem[r].ids["pbx"]
Knows(r, what, id) == mem' = [mem EXCEPT ![r].ids = With(@, what, id)]
Made(r, what, id) == mem' = [mem EXCEPT ![r].ids = With(@, what, id), ![r].own = @ \cup {what}]

\* _validate_restore_ids: those of the restored rows, or new ones.
NewTenantId(r) == IF job[r].restore = None THEN <<r, job[r].schema>> ELSE job[r].restore.tenant
NewPbxId(r) == IF job[r].restore = None THEN <<r, job[r].host>> ELSE job[r].restore.pbx

\* A tenant with the schema is taken as it is, unless a restore says it has
\* another identifier.
FindTenant(r) ==
    LET existing == {t \in tenants : t.schema = job[r].schema}
    IN  /\ At(r, "provision")
        /\ \/ existing = {} /\ Goto(r, "tenant_insert") /\ UNCHANGED mem
           \/ \E t \in existing :
                IF job[r].restore # None /\ t.id # NewTenantId(r)
                  THEN Goto(r, "undo") /\ UNCHANGED mem
                  ELSE Knows(r, "tenant", t.id) /\ Goto(r, "pbx_find")
        /\ UNCHANGED <<world, job, faults>>

InsertTenant(r) ==
    LET t == [id |-> NewTenantId(r), schema |-> job[r].schema, status |-> "active"]
    IN  /\ At(r, "tenant_insert")
        /\ IF \A o \in tenants : o.id # t.id /\ o.schema # t.schema
             THEN tenants' = tenants \cup {t} /\ Made(r, "tenant", t.id) /\ Goto(r, "pbx_find")
             ELSE Goto(r, "undo") /\ UNCHANGED <<mem, tenants>>
        /\ UNCHANGED <<pbxs, condos, trunks, schemas, legacy, varsxml, job, faults>>

FindPbx(r) ==
    LET existing == {p \in pbxs : p.tenant = TenantId(r) /\ p.host = job[r].host}
    IN  /\ At(r, "pbx_find")
        /\ \/ existing = {} /\ Goto(r, "pbx_insert") /\ UNCHANGED mem
           \/ \E p \in existing :
                IF job[r].restore # None /\ p.id # NewPbxId(r)
                  THEN Goto(r, "undo") /\ UNCHANGED mem
                  ELSE Knows(r, "pbx", p.id) /\ Goto(r, "schema")
        /\ UNCHANGED <<world, job, faults>>

\* The tenant may be gone, when the run that made it has undone it; nothing
\* forbids a second PBX with the same host.
InsertPbx(r) ==
    LET p == [id |-> NewPbxId(r), tenant |-> TenantId(r), host |-> job[r].host]
    IN  /\ At(r, "pbx_insert")
        /\ IF Row(tenants, p.tenant) # {} /\ Row(pbxs, p.id) = {}
             THEN pbxs' = pbxs \cup {p} /\ Made(r, "pbx", p.id) /\ Goto(r, "schema")
             ELSE Goto(r, "undo") /\ UNCHANGED <<mem, pbxs>>
        /\ UNCHANGED <<tenants, condos, trunks, schemas, legacy, varsxml, job, faults>>

\* create_tenant_schema: all of it, or nothing.
CreateSchema(r) ==
    /\ At(r, "schema")
    /\ schemas' = schemas \cup {job[r].schema}
    /\ Goto(r, IF job[r].sync THEN "resolve" ELSE "ok")
    /\ UNCHANGED <<tables, legacy, varsxml, job, mem, faults>>

\* A statement fails and has done nothing: the compensation is next.  (Of a
\* commit that was carried out and whose answer is lost it would know nothing.)
StatementFails(r) ==
    /\ pc[r] \in {"provision", "tenant_insert", "pbx_find", "pbx_insert", "schema"}
    /\ Fault
    /\ Goto(r, "undo")
    /\ UNCHANGED <<world, job, mem>>

\* Mutant of Undone: the PBX is deleted, the tenant stays.
UndonePbx(r) == [tenant |-> {}, pbx |-> IF "pbx" \in mem[r].own THEN {PbxId(r)} ELSE {}]

\* What this run has created.
Undone(r) == [tenant |-> IF "tenant" \in mem[r].own THEN {TenantId(r)} ELSE {},
              pbx |-> IF "pbx" \in mem[r].own THEN {PbxId(r)} ELSE {}]

\* The compensation: it deletes it, and with it (ON DELETE CASCADE) whatever
\* others have put there meanwhile.  The schema stays.
Undo(r) ==
    LET gone == Undone(r)
        pbx == gone.pbx \cup {p.id : p \in {q \in pbxs : q.tenant \in gone.tenant}}
    IN  /\ At(r, "undo")
        /\ tenants' = {t \in tenants : t.id \notin gone.tenant}
        /\ pbxs' = {p \in pbxs : p.id \notin pbx}
        /\ condos' = {c \in condos : c.tenant \notin gone.tenant /\ c.pbx \notin pbx}
        /\ trunks' = {k \in trunks : /\ k.tenant \notin gone.tenant /\ k.pbx \notin pbx
                                     /\ Row(condos', k.condo) # {}}
        /\ mem' = [mem EXCEPT ![r].own = {}]
        /\ Goto(r, "failed")
        /\ UNCHANGED <<schemas, legacy, varsxml, job, faults>>

\* It fails too: what was created stays, as if the script had died.
UndoFails(r) ==
    /\ At(r, "undo")
    /\ Fault
    /\ Goto(r, "dead")
    /\ UNCHANGED <<world, job, mem>>

\* resolve_tenant_pbx: the tenant must have one PBX.
ResolveVars(r) ==
    LET mine == {p \in pbxs : \E t \in Row(tenants, p.tenant) : t.schema = job[r].schema}
    IN  /\ At(r, "resolve")
        /\ IF \E p \in mine : mine = {p}
             THEN \E p \in mine : mem' = [mem EXCEPT ![r].name = p.id] /\ Goto(r, "vars")
             ELSE Fails(r)
        /\ UNCHANGED <<world, job, faults>>

\* render_updated_vars_xml
Rendered(r) == <<job[r].schema, mem[r].name>>

\* sync: the file is replaced as a whole, if it says something else.
WriteVars(r) ==
    /\ At(r, "vars")
    /\ varsxml' = Rendered(r)
    /\ Goto(r, "ok")
    /\ UNCHANGED <<tables, schemas, legacy, job, mem, faults>>

-----------------------------------------------------------------------------
(* create_pbx *)

CheckTenant(r) ==
    /\ At(r, "pbx_create")
    /\ IF Row(tenants, job[r].tenant) # {} THEN Goto(r, "pbx_add") /\ UNCHANGED mem ELSE Fails(r)
    /\ UNCHANGED <<world, job, faults>>

AddPbx(r) ==
    LET p == [id |-> <<r, job[r].host>>, tenant |-> job[r].tenant, host |-> job[r].host]
    IN  /\ At(r, "pbx_add")
        /\ IF Row(tenants, p.tenant) # {}
             THEN pbxs' = pbxs \cup {p} /\ Goto(r, "ok") /\ UNCHANGED mem
             ELSE Fails(r) /\ UNCHANGED pbxs
        /\ UNCHANGED <<tenants, condos, trunks, schemas, legacy, varsxml, job, faults>>

-----------------------------------------------------------------------------
ProvisionStep(r) ==
    \/ FindTenant(r) \/ InsertTenant(r) \/ FindPbx(r) \/ InsertPbx(r)
    \/ CreateSchema(r) \/ StatementFails(r) \/ Undo(r) \/ UndoFails(r)
    \/ ResolveVars(r) \/ WriteVars(r) \/ CheckTenant(r) \/ AddPbx(r)
=============================================================================
