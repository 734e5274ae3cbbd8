--------------------------- MODULE AdminRunProofs ---------------------------
(***************************************************************************)
(* Proofs about whole runs of AdminPlane: what a run of the provisioning   *)
(* script, a directory lookup and a batch come to when they have ended, as *)
(* far as the history (hist) says that nobody interfered.                  *)
(***************************************************************************)
EXTENDS AdminPlaneProofs

(***************************************************************************)
(* The history                                                             *)
(***************************************************************************)

HistOK ==
    /\ DOMAIN hist = Request
    /\ \A r \in Request : /\ DOMAIN hist[r] = {"moves", "edited", "right", "undone"}
                          /\ hist[r].moves \in {0, 1, 2} /\ hist[r].undone \in BOOLEAN

Deleted == ~(Ids(tenants) \subseteq Ids(tenants') /\ Ids(pbxs) \subseteq Ids(pbxs'))
Moved == tables' # tables \/ legacy' # legacy

\* A step of somebody else's that deletes a row is remembered, and so is one
\* that changes anything; the answer that is right after a step is noted.
LEMMA HistoryOf ==
    ASSUME HistOK, NEW actor, Observe(actor)
    PROVE  /\ HistOK'
           /\ \A r \in Request :
                 /\ hist'[r].undone = FALSE => hist[r].undone = FALSE
                 /\ hist'[r].undone = FALSE /\ pc[r] # "idle" /\ r # actor => ~Deleted
                 /\ hist[r].moves <= hist'[r].moves
                 /\ Moved /\ pc[r] # "idle" /\ r # actor /\ hist[r].moves < 2 => hist[r].moves < hist'[r].moves
                 /\ hist[r].right \subseteq hist'[r].right \/ pc[r] = "idle"
                 /\ RightNow(r)' \subseteq hist'[r].right
  <1>1. ASSUME NEW r \in Request
        PROVE  /\ DOMAIN hist'[r] = {"moves", "edited", "right", "undone"}
               /\ hist'[r].moves \in {0, 1, 2} /\ hist'[r].undone \in BOOLEAN
               /\ hist'[r].undone = FALSE => hist[r].undone = FALSE
               /\ hist'[r].undone = FALSE /\ pc[r] # "idle" /\ r # actor => ~Deleted
               /\ hist[r].moves <= hist'[r].moves
               /\ Moved /\ pc[r] # "idle" /\ r # actor /\ hist[r].moves < 2 => hist[r].moves < hist'[r].moves
               /\ hist[r].right \subseteq hist'[r].right \/ pc[r] = "idle"
               /\ RightNow(r)' \subseteq hist'[r].right
    <2>0. /\ DOMAIN hist[r] = {"moves", "edited", "right", "undone"}
          /\ hist[r].moves \in {0, 1, 2} /\ hist[r].undone \in BOOLEAN
      BY DEF HistOK
    <2> DEFINE now == RightNow(r)'
    <2>1. CASE pc[r] = "idle"
      <3>1. hist'[r] = [hist[r] EXCEPT !.right = now]
        BY <2>1 DEF Observe, At
      <3> HIDE DEF now
      <3>2. /\ DOMAIN hist'[r] = {"moves", "edited", "right", "undone"}
            /\ hist'[r].moves = hist[r].moves /\ hist'[r].undone = hist[r].undone
            /\ hist'[r].right = now
        BY <2>0, <3>1
      <3>3. QED BY <2>0, <2>1, <3>2 DEF now
    <2>2. CASE pc[r] # "idle"
      <3> DEFINE undone == hist[r].undone \/ (Deleted /\ r # actor)
                 moves == IF Moved /\ r # actor /\ hist[r].moves < 2 THEN hist[r].moves + 1 ELSE hist[r].moves
                 edited == hist[r].edited \/ (Active(r) /\ legacy' # legacy)
      <3>1. hist'[r] = [moves |-> moves, edited |-> edited, right |-> hist[r].right \cup now, undone |-> undone]
        BY <2>2 DEF Observe, At, Deleted, Moved
      <3>2. /\ undone \in BOOLEAN
            /\ undone = FALSE => hist[r].undone = FALSE /\ (r # actor => ~Deleted)
        BY <2>0
      <3>3. /\ moves \in {0, 1, 2} /\ hist[r].moves <= moves
            /\ Moved /\ r # actor /\ hist[r].moves < 2 => hist[r].moves < moves
        BY <2>0
      <3> HIDE DEF now, undone, moves, edited
      <3>4. /\ DOMAIN hist'[r] = {"moves", "edited", "right", "undone"}
            /\ hist'[r].moves = moves /\ hist'[r].undone = undone
            /\ hist'[r].right = hist[r].right \cup now
        BY <3>1
      <3>5. hist'[r].undone \in BOOLEAN
        BY <3>2, <3>4, Zenon
      <3>6. QED BY <2>2, <3>2, <3>3, <3>4, <3>5 DEF now
    <2>3. QED BY <2>1, <2>2
  <1>2. DOMAIN hist' = Request
    BY DEF Observe
  <1>3. HistOK'
    BY <1>1, <1>2 DEF HistOK
  <1>4. QED BY <1>1, <1>3

LEMMA HistInit == Init => HistOK
  <1> SUFFICES ASSUME Init PROVE HistOK
    OBVIOUS
  <1>1. \A r \in Request : hist[r] = [moves |-> 0, edited |-> FALSE, right |-> {}, undone |-> FALSE]
    BY DEF Init
  <1>2. \A r \in Request : /\ DOMAIN hist[r] = {"moves", "edited", "right", "undone"}
                           /\ hist[r].moves = 0 /\ hist[r].undone = FALSE
    BY <1>1
  <1>3. \A r \in Request : hist[r].undone \in BOOLEAN
    BY <1>2, Zenon
  <1>4. DOMAIN hist = Request
    BY DEF Init
  <1>5. QED BY <1>2, <1>3, <1>4 DEF HistOK

(***************************************************************************)
(* Tenants and PBXs: drawn by one request, kept or deleted                 *)
(***************************************************************************)

\* A row that is not deleted is there, and a tenant keeps its schema.
RowsLast ==
    /\ \A t \in tenants : t.id \in Ids(tenants') => \E u \in tenants' : u.id = t.id /\ u.schema = t.schema
    /\ \A p \in pbxs : p.id \in Ids(pbxs') => p \in pbxs'
    /\ schemas \subseteq schemas'

\* A row that is new was drawn by the actor, or is restored.
DrawnBy(actor) ==
    /\ \A t \in tenants' : t.id[1] \in Request \ {actor} => t.id \in Ids(tenants)
    /\ \A p \in pbxs' : p.id[1] \in Request \ {actor} => p.id \in Ids(pbxs)

LEMMA DrawnIds ==
    ASSUME Shape, NEW r \in Request, pc[r] # "idle", job[r].op = "provision"
    PROVE  NewTenantId(r)[1] \notin Request \ {r} /\ NewPbxId(r)[1] \notin Request \ {r}
  <1>1. FromWork(job[r])
    BY DEF Shape, Mine
  <1>2. CASE job[r].restore = None
    BY <1>2 DEF NewTenantId, NewPbxId
  <1>3. CASE job[r].restore # None
    <2>1. <<job[r].restore.pbx, job[r].restore.tenant>> \in Deployed
      BY <1>1, <1>3, JobKnown
    <2> DEFINE x == <<job[r].restore.pbx, job[r].restore.tenant>>
    <2>2. x[1] = job[r].restore.pbx /\ x[2] = job[r].restore.tenant
      OBVIOUS
    <2> HIDE DEF x
    <2>3. {x[1][1], x[2][1]} \cap Request = {}
      BY <2>1, TablesAssumption DEF x
    <2>4. QED BY <1>3, <2>2, <2>3 DEF NewTenantId, NewPbxId
  <1>4. QED BY <1>2, <1>3

LEMMA ProvisionsAt ==
    ASSUME Shape, NEW r \in Request, pc[r] \in Stage["provision"]
    PROVE  Active(r) /\ job[r].op = "provision"
  <1>1. Active(r)
    BY DEF Stage, Active, Ended
  <1>2. FromWork(job[r]) /\ pc[r] \in Stage[job[r].op]
    BY <1>1 DEF Shape, Mine, Active
  <1>3. job[r].op \in Operations
    BY <1>2, JobKnown
  <1>4. QED BY <1>1, <1>2, <1>3 DEF Stage, RowLabels, Operations

\* The steps that change the tables of tenants and PBXs, or the schemas.
LEMMA ProvisionRows ==
    ASSUME Shape, NEW r \in Request, ProvisionStep(r)
    PROVE  RowsLast /\ DrawnBy(r)
  <1>0. Active(r)
    BY ProvisionMine
  <1>1. CASE InsertTenant(r)
    <2>1. job[r].op = "provision"
      BY <1>1, ProvisionsAt DEF InsertTenant, At, Stage
    <2>2. NewTenantId(r)[1] \notin Request \ {r}
      BY <1>0, <2>1, DrawnIds DEF Active
    <2> DEFINE t == [id |-> NewTenantId(r), schema |-> job[r].schema, status |-> "active"]
    <2>3. tenants' \in {tenants, tenants \cup {t}} /\ pbxs' = pbxs /\ schemas' = schemas
      BY <1>1 DEF InsertTenant
    <2>4. t.id = NewTenantId(r)
      OBVIOUS
    <2> HIDE DEF t
    <2>5. QED BY <2>2, <2>3, <2>4 DEF RowsLast, DrawnBy, Ids
  <1>2. CASE InsertPbx(r)
    <2>1. job[r].op = "provision"
      BY <1>2, ProvisionsAt DEF InsertPbx, At, Stage
    <2>2. NewPbxId(r)[1] \notin Request \ {r}
      BY <1>0, <2>1, DrawnIds DEF Active
    <2> DEFINE p == [id |-> NewPbxId(r), tenant |-> TenantId(r), host |-> job[r].host]
    <2>3. pbxs' \in {pbxs, pbxs \cup {p}} /\ tenants' = tenants /\ schemas' = schemas
      BY <1>2 DEF InsertPbx
    <2>4. p.id = NewPbxId(r)
      OBVIOUS
    <2> HIDE DEF p
    <2>5. QED BY <2>2, <2>3, <2>4 DEF RowsLast, DrawnBy, Ids
  <1>3. CASE AddPbx(r)
    <2> DEFINE p == [id |-> <<r, job[r].host>>, tenant |-> job[r].tenant, host |-> job[r].host]
    <2>1. pbxs' \in {pbxs, pbxs \cup {p}} /\ tenants' = tenants /\ schemas' = schemas
      BY <1>3 DEF AddPbx
    <2>2. p.id[1] = r
      OBVIOUS
    <2> HIDE DEF p
    <2>3. QED BY <2>1, <2>2 DEF RowsLast, DrawnBy, Ids
  <1>4. CASE Undo(r)
    <2> DEFINE gone == Undone(r).tenant
               pbx == Undone(r).pbx \cup {p.id : p \in {q \in pbxs : q.tenant \in gone}}
    <2>1. /\ tenants' = {t \in tenants : t.id \notin gone}
          /\ pbxs' = {p \in pbxs : p.id \notin pbx}
          /\ schemas' = schemas
      BY <1>4 DEF Undo
    <2> HIDE DEF gone, pbx
    <2>2. QED BY <2>1 DEF RowsLast, DrawnBy, Ids
  <1>5. CASE ~(InsertTenant(r) \/ InsertPbx(r) \/ AddPbx(r) \/ Undo(r))
    <2>1. tenants' = tenants /\ pbxs' = pbxs /\ schemas \subseteq schemas'
      BY <1>5 DEF ProvisionStep, FindTenant, FindPbx, CreateSchema, StatementFails, UndoFails,
         ResolveVars, WriteVars, CheckTenant, world, tables
    <2>2. QED BY <2>1 DEF RowsLast, DrawnBy, Ids
  <1>6. QED BY <1>1, <1>2, <1>3, <1>4, <1>5

LEMMA RequestRowsLast ==
    ASSUME Shape, NEW r \in Request, RequestStep(r)
    PROVE  RowsLast /\ DrawnBy(r)
  <1>1. CASE ProvisionStep(r)
    BY <1>1, ProvisionRows
  <1>2. CASE TrunkStep(r)
    <2>1. tenants' = tenants /\ pbxs' = pbxs /\ schemas' = schemas
      BY <1>2 DEF TrunkStep, CreateTrunk, CreateScope, CreateUnique, CreateLegacy, CreateInsert, Save,
         LoadTrunk, CheckMove, CheckIdentity, CheckClash, Find, ImportCsv, ImportOne,
         ListCondominiums, ImportJson, CheckRow, FindCondominium, InsertCondominium,
         LoadCondominium, SaveCondominium, LookupTrunk, LookupPlace, LookupTenant, LookupFile,
         world, tables
    <2>2. QED BY <2>1 DEF RowsLast, DrawnBy, Ids
  <1>3. CASE Begin(r) \/ Die(r)
    <2>1. tenants' = tenants /\ pbxs' = pbxs /\ schemas' = schemas
      BY <1>3 DEF Begin, Die, world, tables
    <2>2. QED BY <2>1 DEF RowsLast, DrawnBy, Ids
  <1>4. QED BY <1>1, <1>2, <1>3 DEF RequestStep

LEMMA OutsideRowsLast ==
    ASSUME TenantsTyped, Outside
    PROVE  RowsLast /\ DrawnBy(None)
  <1>1. pbxs' = pbxs /\ schemas' = schemas
    BY DEF Outside, Register, EditLegacy, SetTenant, Change, tables
  <1>2. CASE tenants' = tenants
    BY <1>1, <1>2 DEF RowsLast, DrawnBy, Ids
  <1>3. CASE tenants' # tenants
    <2>1. PICK t \in tenants : SetTenant(t)
      BY <1>3 DEF Outside, Register, EditLegacy, tables
    <2> DEFINE new == [t EXCEPT !.status = IF @ = "active" THEN "suspended" ELSE "active"]
    <2>2. tenants' = (tenants \ {t}) \cup {new}
      BY <2>1 DEF SetTenant
    <2>3. DOMAIN t = {"id", "schema", "status"}
      BY DEF TenantsTyped
    <2>4. new.id = t.id /\ new.schema = t.schema
      BY <2>3
    <2> HIDE DEF new
    <2>5. QED BY <1>1, <2>2, <2>4 DEF RowsLast, DrawnBy, Ids
  <1>4. QED BY <1>2, <1>3

(***************************************************************************)
(* Provisioning                                                            *)
(***************************************************************************)

Provisioning(r) == pc[r] # "idle" /\ job[r].op = "provision"

Undrawn(r) == \A x \in tenants \cup pbxs : x.id[1] # r

\* What a request has drawn it knows, and will undo.
Own(r) ==
    /\ pc[r] = "idle" => Undrawn(r)
    /\ Active(r) /\ Provisioning(r) =>
          /\ \A t \in tenants : t.id[1] = r =>
                /\ pc[r] \notin {"provision", "tenant_insert"}
                /\ "tenant" \in mem[r].own /\ t.id = TenantId(r)
          /\ \A p \in pbxs : p.id[1] = r =>
                /\ pc[r] \notin {"provision", "tenant_insert", "pbx_find", "pbx_insert"}
                /\ "pbx" \in mem[r].own /\ p.id = PbxId(r)

TenantThere(r) == \E t \in tenants : t.id = TenantId(r) /\ t.schema = job[r].schema
PbxThere(r) == \E p \in pbxs : p.tenant = TenantId(r) /\ p.host = job[r].host
Whole(r) == TenantThere(r) /\ PbxThere(r) /\ job[r].schema \in schemas

\* The ground a run stands on, unless another's compensation took it.
Ground(r) ==
    Provisioning(r) /\ hist[r].undone = FALSE =>
        /\ pc[r] \in {"pbx_find", "pbx_insert"} => TenantThere(r)
        /\ pc[r] = "schema" => TenantThere(r) /\ PbxThere(r)
        /\ pc[r] \in {"resolve", "vars", "ok"} => Whole(r)
        /\ pc[r] = "failed" => Undrawn(r) \/ Whole(r)

ProvisionInv == HistOK /\ \A r \in Request : Own(r) /\ Ground(r)

\* The steps of others.
LEMMA StillGrounded ==
    ASSUME NEW q \in Request, NEW actor, actor # q, Own(q), Ground(q), Unmoved(q), RowsLast, DrawnBy(actor),
           hist'[q].undone = FALSE => hist[q].undone = FALSE /\ (pc[q] # "idle" => ~Deleted)
    PROVE  Own(q)' /\ Ground(q)'
  <1>1. /\ \A t \in tenants' : t.id[1] = q => \E u \in tenants : u.id = t.id
        /\ \A p \in pbxs' : p.id[1] = q => \E u \in pbxs : u.id = p.id
    BY DEF DrawnBy, Ids
  <1>2. pc'[q] = pc[q] /\ job'[q] = job[q] /\ mem'[q] = mem[q]
    BY DEF Unmoved
  <1>3. Undrawn(q) => Undrawn(q)'
    BY <1>1 DEF Undrawn
  <1>4. Own(q)'
    BY <1>1, <1>2, <1>3 DEF Own, Active, Provisioning, TenantId, PbxId
  <1>5. ASSUME Provisioning(q), hist'[q].undone = FALSE
        PROVE  /\ TenantThere(q) => TenantThere(q)'
               /\ PbxThere(q) => PbxThere(q)'
               /\ Whole(q) => Whole(q)'
    <2>1. Ids(tenants) \subseteq Ids(tenants') /\ Ids(pbxs) \subseteq Ids(pbxs')
      BY <1>5 DEF Deleted, Provisioning
    <2>2. \A t \in tenants : \E u \in tenants' : u.id = t.id /\ u.schema = t.schema
      BY <2>1 DEF RowsLast, Ids
    <2>3. pbxs \subseteq pbxs' /\ schemas \subseteq schemas'
      BY <2>1 DEF RowsLast, Ids
    <2>4. QED BY <1>2, <2>2, <2>3 DEF TenantThere, PbxThere, Whole, TenantId
  <1>6. Ground(q)'
    BY <1>2, <1>3, <1>5 DEF Ground, Provisioning
  <1>7. QED BY <1>4, <1>6

\* The steps of a run itself.
LEMMA RunGrounded ==
    ASSUME Shape, NEW r \in Request, Provisioning(r), Active(r), Own(r), Ground(r), ProvisionStep(r), RowsLast,
           hist'[r].undone = FALSE => hist[r].undone = FALSE
    PROVE  Own(r)' /\ Ground(r)'
  <1>0. /\ job' = job /\ r \in DOMAIN pc /\ r \in DOMAIN mem
        /\ {"ids", "own", "name"} \subseteq DOMAIN mem[r]
        /\ pc[r] \in Stage["provision"]
    BY ProvisionMine DEF Shape, Mine, Local, Blank, Provisioning
  <1>1. ASSUME mem' = mem, tenants' = tenants, pbxs' = pbxs, schemas' = schemas
        PROVE  /\ TenantThere(r) => TenantThere(r)'
               /\ PbxThere(r) => PbxThere(r)'
               /\ Whole(r) => Whole(r)'
               /\ TenantId(r)' = TenantId(r) /\ PbxId(r)' = PbxId(r)
    BY <1>0, <1>1 DEF TenantThere, PbxThere, Whole, TenantId, PbxId
  <1>2. ASSUME mem' = mem, tenants' = tenants, pbxs' = pbxs, schemas' = schemas, pc'[r] \in {"undo", "dead"}
        PROVE  Own(r)' /\ Ground(r)'
    BY <1>0, <1>1, <1>2 DEF Own, Ground, Active, Provisioning, TenantId, PbxId
  <1>3. CASE FindTenant(r)
    <2>1. pc[r] = "provision" /\ UNCHANGED <<tenants, pbxs, schemas>>
      BY <1>3 DEF FindTenant, At, world, tables
    <2>2. CASE mem' = mem /\ pc' = [pc EXCEPT ![r] = "undo"]
      BY <1>0, <1>2, <2>1, <2>2
    <2>3. CASE mem' = mem /\ pc' = [pc EXCEPT ![r] = "tenant_insert"]
      BY <1>0, <2>1, <2>3 DEF Own, Ground, Active, Provisioning, Ended
    <2>4. CASE \E t \in tenants : /\ t.schema = job[r].schema
                                  /\ mem' = [mem EXCEPT ![r].ids = With(@, "tenant", t.id)]
                                  /\ pc' = [pc EXCEPT ![r] = "pbx_find"]
      <3>1. PICK t \in tenants : /\ t.schema = job[r].schema
                                 /\ mem' = [mem EXCEPT ![r].ids = With(@, "tenant", t.id)]
                                 /\ pc' = [pc EXCEPT ![r] = "pbx_find"]
        BY <2>4
      <3>2. mem'[r].ids = With(mem[r].ids, "tenant", t.id) /\ pc'[r] = "pbx_find"
        BY <1>0, <3>1
      <3>3. TenantId(r)' = t.id
        BY <3>2 DEF With, TenantId
      <3>4. TenantThere(r)'
        BY <1>0, <2>1, <3>1, <3>3 DEF TenantThere
      <3>5. QED BY <1>0, <2>1, <3>2, <3>4 DEF Own, Ground, Active, Provisioning, Ended
    <2>5. QED BY <1>3, <2>2, <2>3, <2>4 DEF FindTenant, Goto, Knows
  <1>4. CASE InsertTenant(r)
    <2> DEFINE t == [id |-> NewTenantId(r), schema |-> job[r].schema, status |-> "active"]
    <2>1. pc[r] = "tenant_insert" /\ UNCHANGED <<pbxs, schemas>>
      BY <1>4 DEF InsertTenant, At
    <2>2. CASE tenants' = tenants /\ mem' = mem /\ pc' = [pc EXCEPT ![r] = "undo"]
      BY <1>0, <1>2, <2>1, <2>2
    <2>3. CASE ~(tenants' = tenants /\ mem' = mem /\ pc' = [pc EXCEPT ![r] = "undo"])
      <3>1. /\ tenants' = tenants \cup {t} /\ pc' = [pc EXCEPT ![r] = "pbx_find"]
            /\ mem' = [mem EXCEPT ![r].ids = With(@, "tenant", NewTenantId(r)),
                                  ![r].own = @ \cup {"tenant"}]
        BY <1>4, <2>3 DEF InsertTenant, Goto, Made
      <3>2. t.id = NewTenantId(r) /\ t.schema = job[r].schema
        OBVIOUS
      <3> HIDE DEF t
      <3>3. /\ mem'[r].ids = With(mem[r].ids, "tenant", NewTenantId(r)) /\ pc'[r] = "pbx_find"
            /\ mem'[r].own = mem[r].own \cup {"tenant"}
        BY <1>0, <3>1
      <3>4. TenantId(r)' = NewTenantId(r)
        BY <3>3 DEF With, TenantId
      <3>5. TenantThere(r)'
        BY <1>0, <3>1, <3>2, <3>4 DEF TenantThere
      <3>6. Own(r)'
        BY <1>0, <2>1, <3>1, <3>2, <3>3, <3>4 DEF Own, Active, Provisioning, Ended
      <3>7. QED BY <3>3, <3>5, <3>6 DEF Ground
    <2>4. QED BY <2>2, <2>3
  <1>5. CASE FindPbx(r)
    <2>1. pc[r] = "pbx_find" /\ UNCHANGED <<tenants, pbxs, schemas>> /\ TenantKnown(r)
      BY <1>5 DEF FindPbx, At, world, tables, Shape, Mine
    <2>2. CASE mem' = mem /\ pc' = [pc EXCEPT ![r] = "undo"]
      BY <1>0, <1>2, <2>1, <2>2
    <2>3. CASE mem' = mem /\ pc' = [pc EXCEPT ![r] = "pbx_insert"]
      BY <1>0, <1>1, <2>1, <2>3 DEF Own, Ground, Active, Provisioning, Ended, TenantId
    <2>4. CASE \E p \in pbxs : /\ p.tenant = TenantId(r) /\ p.host = job[r].host
                               /\ mem' = [mem EXCEPT ![r].ids = With(@, "pbx", p.id)]
                               /\ pc' = [pc EXCEPT ![r] = "schema"]
      <3>1. PICK p \in pbxs : /\ p.tenant = TenantId(r) /\ p.host = job[r].host
                              /\ mem' = [mem EXCEPT ![r].ids = With(@, "pbx", p.id)]
                              /\ pc' = [pc EXCEPT ![r] = "schema"]
        BY <2>4
      <3>2. mem'[r].ids = With(mem[r].ids, "pbx", p.id) /\ pc'[r] = "schema" /\ mem'[r].own = mem[r].own
        BY <1>0, <3>1
      <3>3. TenantId(r)' = TenantId(r)
        BY <2>1, <3>2 DEF With, TenantId, TenantKnown
      <3>4. PbxThere(r)' /\ (TenantThere(r) => TenantThere(r)')
        BY <1>0, <2>1, <3>1, <3>3 DEF PbxThere, TenantThere
      <3>5. Own(r)'
        BY <1>0, <2>1, <3>2, <3>3 DEF Own, Active, Provisioning, Ended
      <3>6. QED BY <1>0, <2>1, <3>2, <3>4, <3>5 DEF Ground, Provisioning
    <2>5. QED BY <1>5, <2>2, <2>3, <2>4 DEF FindPbx, Goto, Knows
  <1>6. CASE InsertPbx(r)
    <2> DEFINE p == [id |-> NewPbxId(r), tenant |-> TenantId(r), host |-> job[r].host]
    <2>1. pc[r] = "pbx_insert" /\ UNCHANGED <<tenants, schemas>> /\ TenantKnown(r)
      BY <1>6 DEF InsertPbx, At, Shape, Mine
    <2>2. CASE pbxs' = pbxs /\ mem' = mem /\ pc' = [pc EXCEPT ![r] = "undo"]
      BY <1>0, <1>2, <2>1, <2>2
    <2>3. CASE ~(pbxs' = pbxs /\ mem' = mem /\ pc' = [pc EXCEPT ![r] = "undo"])
      <3>1. /\ pbxs' = pbxs \cup {p} /\ pc' = [pc EXCEPT ![r] = "schema"]
            /\ mem' = [mem EXCEPT ![r].ids = With(@, "pbx", NewPbxId(r)), ![r].own = @ \cup {"pbx"}]
        BY <1>6, <2>3 DEF InsertPbx, Goto, Made
      <3>2. p.id = NewPbxId(r) /\ p.tenant = TenantId(r) /\ p.host = job[r].host
        OBVIOUS
      <3> HIDE DEF p
      <3>3. /\ mem'[r].ids = With(mem[r].ids, "pbx", NewPbxId(r)) /\ pc'[r] = "schema"
            /\ mem'[r].own = mem[r].own \cup {"pbx"}
        BY <1>0, <3>1
      <3>4. TenantId(r)' = TenantId(r) /\ PbxId(r)' = NewPbxId(r)
        BY <2>1, <3>3 DEF With, TenantId, PbxId, TenantKnown
      <3>5. PbxThere(r)' /\ (TenantThere(r) => TenantThere(r)')
        BY <1>0, <2>1, <3>1, <3>2, <3>4 DEF PbxThere, TenantThere
      <3>6. Own(r)'
        BY <1>0, <2>1, <3>1, <3>2, <3>3, <3>4 DEF Own, Active, Provisioning, Ended
      <3>7. QED BY <1>0, <2>1, <3>3, <3>5, <3>6 DEF Ground, Provisioning
    <2>4. QED BY <2>2, <2>3
  <1>7. CASE CreateSchema(r)
    <2>1. /\ pc[r] = "schema" /\ pc'[r] \in {"resolve", "ok"} /\ mem' = mem
          /\ tenants' = tenants /\ pbxs' = pbxs /\ schemas' = schemas \cup {job[r].schema}
      BY <1>0, <1>7 DEF CreateSchema, At, Goto, tables
    <2>2. TenantThere(r) /\ PbxThere(r) => Whole(r)'
      BY <1>0, <2>1 DEF TenantThere, PbxThere, Whole, TenantId
    <2>3. QED BY <1>0, <2>1, <2>2 DEF Own, Ground, Active, Provisioning, TenantId, PbxId
  <1>8. CASE StatementFails(r) \/ UndoFails(r)
    <2>1. mem' = mem /\ UNCHANGED <<tenants, pbxs, schemas>> /\ pc'[r] \in {"undo", "dead"}
      BY <1>0, <1>8 DEF StatementFails, UndoFails, Goto, world, tables
    <2>2. QED BY <1>2, <2>1
  <1>9. CASE Undo(r)
    <2> DEFINE gone == Undone(r).tenant
               pbx == Undone(r).pbx \cup {p.id : p \in {q \in pbxs : q.tenant \in gone}}
    <2>1. /\ tenants' = {t \in tenants : t.id \notin gone}
          /\ pbxs' = {p \in pbxs : p.id \notin pbx}
          /\ pc'[r] = "failed"
      BY <1>0, <1>9 DEF Undo, Goto
    <2>2. /\ gone = IF "tenant" \in mem[r].own THEN {TenantId(r)} ELSE {}
          /\ Undone(r).pbx = IF "pbx" \in mem[r].own THEN {PbxId(r)} ELSE {}
      BY DEF Undone
    <2>3. Undone(r).pbx \subseteq pbx
      OBVIOUS
    <2> HIDE DEF gone, pbx
    <2>4. Undrawn(r)'
      BY <2>1, <2>2, <2>3 DEF Undrawn, Own
    <2>5. QED BY <2>1, <2>4 DEF Own, Ground, Active, Ended
  <1>10. CASE ResolveVars(r)
    <2>1. /\ pc[r] = "resolve" /\ pc'[r] \in {"vars", "failed"} /\ UNCHANGED <<tenants, pbxs, schemas>>
          /\ mem' = mem \/ \E x : mem' = [mem EXCEPT ![r].name = x]
      BY <1>0, <1>10 DEF ResolveVars, At, Goto, Fails, world, tables
    <2>2. mem'[r].ids = mem[r].ids /\ mem'[r].own = mem[r].own
      BY <1>0, <2>1
    <2>3. Whole(r) => Whole(r)'
      BY <1>0, <2>1, <2>2 DEF TenantThere, PbxThere, Whole, TenantId
    <2>4. QED BY <1>0, <2>1, <2>2, <2>3 DEF Own, Ground, Active, Provisioning, TenantId, PbxId
  <1>11. CASE WriteVars(r)
    <2>1. pc[r] = "vars" /\ pc'[r] = "ok" /\ UNCHANGED <<tenants, pbxs, schemas, mem>>
      BY <1>0, <1>11 DEF WriteVars, At, Goto, tables
    <2>2. QED BY <1>0, <1>1, <2>1 DEF Own, Ground, Active, Provisioning, Ended
  <1>12. CASE CheckTenant(r) \/ AddPbx(r)
    BY <1>0, <1>12 DEF CheckTenant, AddPbx, At, Stage
  <1>13. QED BY <1>3, <1>4, <1>5, <1>6, <1>7, <1>8, <1>9, <1>10, <1>11, <1>12 DEF ProvisionStep

LEMMA ProvisionStepInv ==
    ASSUME ScopeInv, TypeInv, ProvisionInv, [Next]_vars
    PROVE  ProvisionInv'
  <1>0. Shape /\ TenantsTyped /\ HistOK
    BY DEF ScopeInv, TypeInv, Typed, ProvisionInv
  <1>1. ASSUME NEW r \in Request, RequestStep(r)
        PROVE  ProvisionInv'
    <2>1. RowsLast /\ DrawnBy(r) /\ Shape' /\ \A q \in Request \ {r} : Unmoved(q)
      BY <1>0, <1>1, RequestRowsLast, RequestMoves
    <2>2. /\ HistOK'
          /\ \A q \in Request : /\ hist'[q].undone = FALSE => hist[q].undone = FALSE
                                /\ hist'[q].undone = FALSE /\ pc[q] # "idle" /\ q # r => ~Deleted
      BY <1>0, <1>1, HistoryOf DEF RequestStep
    <2>3. ASSUME NEW q \in Request \ {r} PROVE Own(q)' /\ Ground(q)'
      BY <2>1, <2>2, StillGrounded DEF ProvisionInv
    <2>4. Own(r)' /\ Ground(r)'
      <3>1. CASE Begin(r)
        <4>1. /\ pc[r] = "idle" /\ tenants' = tenants /\ pbxs' = pbxs
              /\ pc'[r] \in Operations
          BY <1>0, <3>1, BeginsAt DEF Begin, world, tables
        <4>2. /\ Undrawn(r)' /\ pc'[r] \notin {"idle", "pbx_find", "pbx_insert", "schema", "resolve", "vars"} \cup Ended
          BY <4>1 DEF ProvisionInv, Own, Undrawn, Operations, Ended
        <4>3. QED BY <4>2 DEF Own, Ground, Undrawn, Ended
      <3>2. CASE TrunkStep(r)
        <4>1. job' = job /\ job[r].op # "provision" /\ pc'[r] # "idle"
          BY <1>0, <3>2, TrunkStepOf, LocalMine DEF Local
        <4>2. QED BY <4>1 DEF Own, Ground, Provisioning
      <3>3. CASE ProvisionStep(r)
        <4>1. Active(r) /\ job' = job /\ pc'[r] # "idle"
          BY <1>0, <3>3, ProvisionMine, LocalMine DEF Local
        <4>2. CASE Provisioning(r)
          BY <1>0, <2>1, <2>2, <3>3, <4>1, <4>2, RunGrounded DEF ProvisionInv
        <4>3. CASE ~Provisioning(r)
          BY <4>1, <4>3 DEF Own, Ground, Provisioning, Active
        <4>4. QED BY <4>2, <4>3
      <3>4. CASE Die(r)
        <4>1. pc'[r] = "dead"
          BY <1>0, <3>4 DEF Die, Goto, Shape
        <4>2. QED BY <4>1 DEF Own, Ground, Active, Ended
      <3>5. QED BY <1>1, <3>1, <3>2, <3>3, <3>4 DEF RequestStep
    <2>5. QED BY <2>2, <2>3, <2>4 DEF ProvisionInv
  <1>2. CASE Outside /\ Observe(None)
    <2>1. RowsLast /\ DrawnBy(None) /\ \A q \in Request : Unmoved(q)
      BY <1>0, <1>2, OutsideRowsLast, OutsideMoves
    <2>2. None \notin Request
      BY AdminAssumption
    <2>3. /\ HistOK'
          /\ \A q \in Request : /\ hist'[q].undone = FALSE => hist[q].undone = FALSE
                                /\ hist'[q].undone = FALSE /\ pc[q] # "idle" /\ q # None => ~Deleted
      BY <1>0, <1>2, HistoryOf
    <2>4. ASSUME NEW q \in Request PROVE Own(q)' /\ Ground(q)'
      <3>1. q # None
        BY <2>2
      <3>2. QED BY <2>1, <2>3, <3>1, StillGrounded DEF ProvisionInv
    <2>5. QED BY <2>3, <2>4 DEF ProvisionInv
  <1>3. CASE UNCHANGED vars
    <2>1. UNCHANGED <<tenants, pbxs, schemas, hist, pc, job, mem>>
      BY <1>3 DEF vars, world, tables, local
    <2>2. QED BY <2>1 DEF ProvisionInv, HistOK, Own, Ground, Undrawn, Active, Provisioning, TenantThere,
                 PbxThere, Whole, TenantId, PbxId
  <1>4. QED BY <1>1, <1>2, <1>3 DEF Next

LEMMA ProvisionInit == Init => ProvisionInv
  <1> SUFFICES ASSUME Init PROVE ProvisionInv
    OBVIOUS
  <1>1. \A r \in Request : pc[r] = "idle"
    BY DEF Init
  <1>2. ASSUME NEW r \in Request PROVE Undrawn(r)
    <2>1. \A t \in InitTenants : t.id[1] \notin Request
      BY TablesAssumption
    <2>2. \A p \in InitPbxs : p.id[1] \notin Request
      <3>1. ASSUME NEW p \in InitPbxs PROVE p.id[1] \notin Request
        <4> DEFINE x == <<p.id, p.tenant>>
        <4>1. x \in Deployed /\ x[1] = p.id
          BY DEF Deployed
        <4> HIDE DEF x
        <4>2. {x[1][1], x[2][1]} \cap Request = {}
          BY <4>1, TablesAssumption
        <4>3. QED BY <4>1, <4>2
      <3>2. QED BY <3>1
    <2>3. QED BY <2>1, <2>2 DEF Init, Undrawn
  <1>3. \A r \in Request : Own(r) /\ Ground(r)
    BY <1>1, <1>2 DEF Own, Ground, Active, Provisioning
  <1>4. QED BY <1>3, HistInit DEF ProvisionInv

\* A run of the provisioning script that ended well, or whose vars.xml alone was
\* refused, has left tenant, PBX and schema, for any number of runs at the same
\* time, whatever statements fail, unless another's compensation has deleted
\* something meanwhile; a run that was undone has left nothing of its own.
THEOREM ProvisionsWhole == Spec => []ProvisionedOrNot
  <1>1. Init => ScopeInv /\ TypeInv /\ ProvisionInv
    BY ScopeInit, TypeInit, ProvisionInit
  <1>2. ScopeInv /\ TypeInv /\ ProvisionInv /\ [Next]_vars => ScopeInv' /\ TypeInv' /\ ProvisionInv'
    BY ScopeStep, TypeStep, ProvisionStepInv
  <1>3. ProvisionInv => ProvisionedOrNot
    <2>1. ASSUME ProvisionInv, NEW r \in Request, pc[r] \in {"ok", "failed"}, job[r].op = "provision",
                 ~hist[r].undone
          PROVE  \/ /\ job[r].schema \in schemas
                    /\ \E t \in tenants, p \in pbxs :
                          t.schema = job[r].schema /\ p.tenant = t.id /\ p.host = job[r].host
                 \/ At(r, "failed") /\ \A x \in tenants \cup pbxs : x.id[1] # r
      <3>1. hist[r].undone = FALSE
        BY <2>1 DEF ProvisionInv, HistOK
      <3>2. Whole(r) \/ (pc[r] = "failed" /\ Undrawn(r))
        BY <2>1, <3>1 DEF ProvisionInv, Ground, Provisioning
      <3>3. QED BY <3>2 DEF Whole, TenantThere, PbxThere, Undrawn, At
    <2>2. QED BY <2>1 DEF ProvisionedOrNot
  <1>4. QED BY <1>1, <1>2, <1>3, PTL DEF Spec

(***************************************************************************)
(* The directory                                                           *)
(***************************************************************************)

LookingUp(r) == pc[r] \notin {"idle", "dead"} /\ job[r].op = "lookup"

\* The trunk that a lookup of everything at once would find.
On(ident) == {k \in trunks : k.ident = ident /\ k.enabled /\ Placed(k) /\ TenantActive(k)}
Chosen(ident) == IF On(ident) = {} THEN None ELSE CHOOSE k \in On(ident) : TRUE

\* What a lookup would answer if it read now all that it has not read yet.
Finish(r) ==
    LET user == UserOf(job[r].ident)
    IN  CASE pc[r] = "lookup" -> Directory(job[r].ident)
          [] pc[r] = "place" ->
                Answer(IF Placed(mem[r].seen) /\ TenantActive(mem[r].seen) THEN mem[r].seen ELSE None, user)
          [] pc[r] = "tenant" -> Answer(IF TenantActive(mem[r].seen) THEN mem[r].seen ELSE None, user)
          [] pc[r] = "file" -> Answer(mem[r].seen, user)
          [] OTHER -> mem[r].answer

\* What it has read is still so.
Seen(r) == mem[r].seen \in trunks /\ mem[r].seen.ident = job[r].ident /\ mem[r].seen.enabled

Current(r) ==
    /\ pc[r] \in {"place", "tenant"} => Seen(r)
    /\ pc[r] = "tenant" => Placed(mem[r].seen)
    /\ pc[r] = "file" => mem[r].seen = Chosen(job[r].ident)

Linear(r) ==
    LookingUp(r) =>
        /\ pc[r] = "lookup" => mem[r].seen = None
        /\ hist[r].moves = 0 => Current(r)
        /\ hist[r].moves <= 1 => Finish(r) \in hist[r].right

LEMMA DirectoryChosen ==
    ASSUME NEW ident
    PROVE  Directory(ident) = Answer(Chosen(ident), UserOf(ident))
  BY DEF Directory, Chosen, On

\* An identity is of one trunk: with it the rest decides.
LEMMA OneChosen ==
    ASSUME TrunkKeys, NEW k \in trunks, k.enabled
    PROVE  Chosen(k.ident) = IF Placed(k) /\ TenantActive(k) THEN k ELSE None
  <1>1. \A o \in On(k.ident) : o = k
    BY DEF TrunkKeys, On
  <1>2. k \in On(k.ident) <=> Placed(k) /\ TenantActive(k)
    BY DEF On
  <1>3. QED BY <1>1, <1>2 DEF Chosen

\* A step changes one table, or two that a lookup reads at once, or the file,
\* unless it is a compensation.
LEMMA OneAtATime ==
    ASSUME Outside \/ \E q \in Request : RequestStep(q)
    PROVE  \/ UNCHANGED <<tenants, condos, pbxs, legacy>>
           \/ UNCHANGED <<tenants, trunks, legacy>>
           \/ UNCHANGED <<condos, pbxs, trunks, legacy>>
           \/ UNCHANGED tables
           \/ \E q \in Request : Undo(q)
  <1>1. CASE Outside
    BY <1>1 DEF Outside, Register, EditLegacy, SetTenant, tables
  <1>2. CASE \E q \in Request : RequestStep(q)
    <2>1. PICK q \in Request : RequestStep(q)
      BY <1>2
    <2>2. CASE TrunkStep(q)
      BY <2>2 DEF TrunkStep, CreateTrunk, CreateScope, CreateUnique, CreateLegacy, CreateInsert, Save,
         LoadTrunk, CheckMove, CheckIdentity, CheckClash, Find, ImportCsv, ImportOne,
         ListCondominiums, ImportJson, CheckRow, FindCondominium, InsertCondominium,
         LoadCondominium, SaveCondominium, LookupTrunk, LookupPlace, LookupTenant, LookupFile,
         world, tables
    <2>3. CASE ProvisionStep(q)
      BY <2>3 DEF ProvisionStep, FindTenant, InsertTenant, FindPbx, InsertPbx, CreateSchema,
         StatementFails, UndoFails, ResolveVars, WriteVars, CheckTenant, AddPbx, world, tables
    <2>4. CASE Begin(q) \/ Die(q)
      BY <2>4 DEF Begin, Die, world
    <2>5. QED BY <2>1, <2>2, <2>3, <2>4 DEF RequestStep
  <1>3. QED BY <1>1, <1>2

\* What a compensation does to a trunk that a lookup has read.
LEMMA UndoSeen ==
    ASSUME ScopeConsistent, NEW k \in trunks, NEW q \in Request, Undo(q)
    PROVE  /\ trunks' \subseteq trunks /\ legacy' = legacy
           /\ k \in trunks' /\ Placed(k) => Placed(k)'
           /\ k \notin trunks' => ~Placed(k)'
           /\ TenantActive(k)' => TenantActive(k)
  <1>1. PICK gone, pbx :
           /\ tenants' = {t \in tenants : t.id \notin gone}
           /\ pbxs' = {p \in pbxs : p.id \notin pbx}
           /\ \A p \in pbxs : p.tenant \in gone => p.id \in pbx
           /\ condos' = {c \in condos : c.tenant \notin gone /\ c.pbx \notin pbx}
           /\ trunks' = {o \in trunks : /\ o.tenant \notin gone /\ o.pbx \notin pbx
                                        /\ Row(condos', o.condo) # {}}
           /\ legacy' = legacy
    <2> DEFINE gone == Undone(q).tenant
               pbx == Undone(q).pbx \cup {p.id : p \in {o \in pbxs : o.tenant \in gone}}
    <2>1. /\ tenants' = {t \in tenants : t.id \notin gone}
          /\ pbxs' = {p \in pbxs : p.id \notin pbx}
          /\ \A p \in pbxs : p.tenant \in gone => p.id \in pbx
          /\ condos' = {c \in condos : c.tenant \notin gone /\ c.pbx \notin pbx}
          /\ trunks' = {o \in trunks : /\ o.tenant \notin gone /\ o.pbx \notin pbx
                                       /\ Row(condos', o.condo) # {}}
          /\ legacy' = legacy
      BY DEF Undo
    <2> HIDE DEF gone, pbx
    <2>2. QED BY <2>1
  <1>2. k \in trunks' /\ Placed(k) => Placed(k)'
    BY <1>1 DEF Placed, Row
  <1>3. k \notin trunks' => ~Placed(k)'
    BY <1>1 DEF Placed, Row
  <1>4. TenantActive(k)' => TenantActive(k)
    BY <1>1 DEF TenantActive, Row
  <1>5. QED BY <1>1, <1>2, <1>3, <1>4

\* Somebody else's step leaves what a lookup comes to, or makes it what a lookup
\* of everything at once would answer after it.
LEMMA Overtaken ==
    ASSUME ScopeInv, TrunkKeys', NEW r \in Request, Unmoved(r), LookingUp(r), Current(r),
           Outside \/ \E q \in Request : RequestStep(q),
           Active(r), pc[r] \in Stage["lookup"]
    PROVE  Finish(r)' = Finish(r) \/ Finish(r)' = Directory(job[r].ident)'
  <1>0. /\ pc'[r] = pc[r] /\ job'[r] = job[r] /\ mem'[r] = mem[r]
        /\ pc[r] \in {"lookup", "place", "tenant", "file"}
    BY DEF Unmoved, Stage
  <1>a. PICK k, ident : k = mem[r].seen /\ k = mem'[r].seen /\ ident = job[r].ident /\ ident = job'[r].ident
    BY <1>0
  <1> DEFINE user == UserOf(ident)
  <1>1. \/ UNCHANGED <<tenants, condos, pbxs, legacy>>
        \/ UNCHANGED <<tenants, trunks, legacy>>
        \/ UNCHANGED <<condos, pbxs, trunks, legacy>>
        \/ UNCHANGED tables
        \/ \E q \in Request : Undo(q)
    BY OneAtATime
  <1>2. Directory(ident)' = Answer(Chosen(ident), user)'
    BY <1>0, <1>a DEF Directory, Chosen, On
  <1>3. k \in trunks' /\ k.ident = ident /\ k.enabled =>
           Chosen(ident)' = (IF Placed(k) /\ TenantActive(k) THEN k ELSE None)'
    <2>1. ASSUME NEW o \in trunks', o.enabled
          PROVE  (CHOOSE x \in On(o.ident)' : TRUE) = o \/ o \notin On(o.ident)'
      BY <2>1 DEF TrunkKeys, On
    <2>2. QED BY <1>0, <1>a, <2>1 DEF Chosen, On, TrunkKeys
  <1>4. CASE pc[r] = "lookup"
    BY <1>0, <1>a, <1>4 DEF Finish
  <1>5. CASE pc[r] = "place"
    <2>1. Finish(r)' = Answer(IF Placed(k) /\ TenantActive(k) THEN k ELSE None, user)'
      BY <1>0, <1>a, <1>5 DEF Finish
    <2>2. Finish(r) = Answer(IF Placed(k) /\ TenantActive(k) THEN k ELSE None, user)
      BY <1>a, <1>5 DEF Finish
    <2>3. Seen(r)
      BY <1>a, <1>5 DEF Current
    <2>4. CASE k \in trunks'
      BY <1>a, <1>2, <1>3, <2>1, <2>3, <2>4 DEF Seen, Answer
    <2>5. CASE k \notin trunks' /\ UNCHANGED <<tenants, condos, pbxs, legacy>>
      BY <1>0, <1>a, <2>1, <2>2, <2>5 DEF Placed, TenantActive, Row, Answer, LegacyHas
    <2>6. CASE k \notin trunks' /\ \E q \in Request : Undo(q)
      <3>1. trunks' \subseteq trunks /\ ~Placed(k)'
        BY <1>a, <2>3, <2>6, UndoSeen DEF Seen, ScopeInv, Rows
      <3>2. On(ident)' = {}
        BY <1>a, <2>3, <2>6, <3>1, <1>0, <1>a DEF On, Seen, ScopeInv, Rows, TrunkKeys
      <3>3. QED BY <1>a, <1>2, <2>1, <3>1, <3>2 DEF Chosen, Answer
    <2>7. QED BY <1>a, <1>1, <2>3, <2>4, <2>5, <2>6 DEF Seen, tables
  <1>6. CASE pc[r] = "tenant"
    <2>1. Finish(r)' = Answer(IF TenantActive(k) THEN k ELSE None, user)'
      BY <1>0, <1>a, <1>6 DEF Finish
    <2>2. Finish(r) = Answer(IF TenantActive(k) THEN k ELSE None, user)
      BY <1>a, <1>6 DEF Finish
    <2>3. Seen(r) /\ Placed(k)
      BY <1>a, <1>6 DEF Current
    <2>4. CASE k \in trunks' /\ Placed(k)'
      BY <1>a, <1>2, <1>3, <2>1, <2>3, <2>4 DEF Seen, Answer
    <2>5. CASE UNCHANGED <<tenants, legacy>>
      BY <1>0, <1>a, <2>1, <2>2, <2>5 DEF TenantActive, Row, Answer, LegacyHas
    <2>6. CASE UNCHANGED <<condos, pbxs, trunks>>
      BY <1>a, <2>3, <2>4, <2>6 DEF Placed, Row, Seen
    <2>7. CASE ~(k \in trunks' /\ Placed(k)') /\ \E q \in Request : Undo(q)
      <3>1. /\ trunks' \subseteq trunks /\ k \notin trunks' /\ ~Placed(k)' /\ legacy' = legacy
            /\ TenantActive(k)' => TenantActive(k)
        BY <1>a, <2>3, <2>7, UndoSeen DEF Seen, ScopeInv, Rows
      <3>2. On(ident)' = {}
        BY <1>a, <2>3, <3>1, <1>0, <1>a DEF On, Seen, ScopeInv, Rows, TrunkKeys
      <3>3. CASE TenantActive(k)'
        BY <1>0, <1>a, <2>1, <2>2, <3>1, <3>3 DEF Answer, LegacyHas
      <3>4. CASE ~TenantActive(k)'
        BY <1>a, <1>2, <2>1, <3>2, <3>4 DEF Chosen, Answer
      <3>5. QED BY <3>3, <3>4
    <2>8. QED BY <1>1, <2>4, <2>5, <2>6, <2>7 DEF tables
  <1>7. CASE pc[r] = "file"
    <2>1. Finish(r)' = Answer(k, user)' /\ Finish(r) = Answer(k, user)
      BY <1>0, <1>a, <1>7 DEF Finish
    <2>2. k = Chosen(ident)
      BY <1>a, <1>7 DEF Current
    <2>3. CASE legacy' = legacy
      BY <1>0, <1>a, <2>1, <2>3 DEF Answer, LegacyHas
    <2>4. CASE UNCHANGED tables
      <3>1. Chosen(ident)' = k
        BY <1>0, <1>a, <2>2, <2>4 DEF Chosen, On, Placed, TenantActive, Row, tables
      <3>2. QED BY <1>0, <1>a, <1>2, <2>1, <3>1 DEF Answer
    <2>5. QED BY <1>1, <2>3, <2>4 DEF Undo
  <1>8. QED BY <1>0, <1>4, <1>5, <1>6, <1>7

\* The lookup's own steps read, and leave what it comes to.
LEMMA Looks ==
    ASSUME Shape, TrunkKeys, NEW r \in Request, Linear(r), LookingUp(r),
           LookupTrunk(r) \/ LookupPlace(r) \/ LookupTenant(r) \/ LookupFile(r)
    PROVE  /\ Finish(r)' = Finish(r) /\ pc'[r] # "lookup"
           /\ Current(r) => Current(r)'
  <1>0. /\ UNCHANGED <<tables, legacy, job>> /\ r \in DOMAIN pc /\ r \in DOMAIN mem
        /\ {"seen", "answer"} \subseteq DOMAIN mem[r]
    BY DEF LookupTrunk, LookupPlace, LookupTenant, LookupFile, world, Shape, Mine, Blank
  <1>1. /\ \A k : Placed(k)' = Placed(k) /\ TenantActive(k)' = TenantActive(k)
        /\ \A k, u : Answer(k, u)' = Answer(k, u)
        /\ \A i : On(i)' = On(i) /\ Chosen(i)' = Chosen(i)
    BY <1>0 DEF Placed, TenantActive, Row, Answer, LegacyHas, On, Chosen, tables
  <1>2. CASE LookupTrunk(r)
    <2> DEFINE ident == job[r].ident
               on == {k \in trunks : k.ident = ident /\ k.enabled}
    <2>1. pc[r] = "lookup" /\ mem[r].seen = None
      BY <1>2 DEF LookupTrunk, At, Linear
    <2>2. Finish(r) = Answer(Chosen(ident), UserOf(ident))
      BY <2>1, DirectoryChosen DEF Finish
    <2>3. CASE on = {} /\ pc' = [pc EXCEPT ![r] = "file"] /\ mem' = mem
      <3>1. Chosen(ident) = None
        BY <2>3 DEF Chosen, On
      <3>2. QED BY <1>0, <1>1, <2>1, <2>2, <2>3, <3>1 DEF Finish, Current
    <2>4. CASE \E k \in on : mem' = [mem EXCEPT ![r].seen = k] /\ pc' = [pc EXCEPT ![r] = "place"]
      <3>1. PICK k \in on : mem' = [mem EXCEPT ![r].seen = k] /\ pc' = [pc EXCEPT ![r] = "place"]
        BY <2>4
      <3>2. mem'[r].seen = k /\ pc'[r] = "place"
        BY <1>0, <3>1
      <3>3. Chosen(ident) = IF Placed(k) /\ TenantActive(k) THEN k ELSE None
        BY OneChosen
      <3>4. Finish(r)' = Answer(IF Placed(k) /\ TenantActive(k) THEN k ELSE None, UserOf(ident))
        BY <1>0, <1>1, <3>2 DEF Finish
      <3>5. Current(r)'
        BY <1>0, <3>2 DEF Current, Seen, tables
      <3>6. QED BY <2>2, <3>2, <3>3, <3>4, <3>5
    <2>5. QED BY <1>2, <2>3, <2>4 DEF LookupTrunk, Goto
  <1>3. CASE LookupPlace(r)
    <2>1. pc[r] = "place"
      BY <1>3 DEF LookupPlace, At
    <2>2. CASE Placed(mem[r].seen)
      <3>1. pc'[r] = "tenant" /\ mem' = mem
        BY <1>0, <1>3, <2>2 DEF LookupPlace, Goto
      <3>2. QED BY <1>0, <1>1, <2>1, <2>2, <3>1 DEF Finish, Current, Seen, tables
    <2>3. CASE ~Placed(mem[r].seen)
      <3>1. pc'[r] = "file" /\ mem'[r].seen = None
        BY <1>0, <1>3, <2>3 DEF LookupPlace, Goto
      <3>2. Finish(r)' = Finish(r)
        BY <1>0, <1>1, <2>1, <2>3, <3>1 DEF Finish
      <3>3. Current(r) => Current(r)'
        BY <1>0, <1>1, <2>1, <2>3, <3>1, OneChosen DEF Current, Seen
      <3>4. QED BY <3>1, <3>2, <3>3
    <2>4. QED BY <2>2, <2>3
  <1>4. CASE LookupTenant(r)
    <2>1. /\ pc[r] = "tenant" /\ pc'[r] = "file"
          /\ mem'[r].seen = IF TenantActive(mem[r].seen) THEN mem[r].seen ELSE None
      BY <1>0, <1>4 DEF LookupTenant, At, Goto
    <2>2. Finish(r)' = Finish(r)
      BY <1>0, <1>1, <2>1 DEF Finish
    <2>3. Current(r) => Current(r)'
      BY <1>0, <1>1, <2>1, OneChosen DEF Current, Seen
    <2>4. QED BY <2>1, <2>2, <2>3
  <1>5. CASE LookupFile(r)
    <2>1. /\ pc[r] = "file" /\ pc'[r] \in {"ok", "failed"}
          /\ mem'[r].answer = Answer(mem[r].seen, UserOf(job[r].ident))
      BY <1>0, <1>5 DEF LookupFile, At, Goto
    <2>2. QED BY <2>1 DEF Finish, Current
  <1>6. QED BY <1>2, <1>3, <1>4, <1>5

\* Somebody else's step.
LEMMA StillLinear ==
    ASSUME ScopeInv, HistOK, TrunkKeys', NEW actor, NEW r \in Request, r # actor, Unmoved(r), Linear(r),
           Observe(actor), Outside \/ \E q \in Request : RequestStep(q)
    PROVE  Linear(r)'
  <1>0. pc'[r] = pc[r] /\ job'[r] = job[r] /\ mem'[r] = mem[r]
    BY DEF Unmoved
  <1> SUFFICES ASSUME LookingUp(r), LookingUp(r)'
               PROVE  /\ hist'[r].moves = 0 => Current(r)'
                      /\ hist'[r].moves <= 1 => Finish(r)' \in hist'[r].right
    BY <1>0 DEF Linear, LookingUp
  <1>1. /\ hist[r].moves \in {0, 1, 2} /\ hist'[r].moves \in {0, 1, 2}
        /\ hist[r].moves <= hist'[r].moves
        /\ Moved /\ hist[r].moves < 2 => hist[r].moves < hist'[r].moves
        /\ hist[r].right \subseteq hist'[r].right
        /\ RightNow(r)' \subseteq hist'[r].right
    <2>1. /\ HistOK'
          /\ \A q \in Request :
                /\ hist[q].moves <= hist'[q].moves
                /\ Moved /\ pc[q] # "idle" /\ q # actor /\ hist[q].moves < 2 => hist[q].moves < hist'[q].moves
                /\ hist[q].right \subseteq hist'[q].right \/ pc[q] = "idle"
                /\ RightNow(q)' \subseteq hist'[q].right
      BY HistoryOf
    <2>2. QED BY <2>1 DEF HistOK, LookingUp
  <1>2. CASE ~Moved
    <2>1. UNCHANGED <<tables, legacy>>
      BY <1>2 DEF Moved
    <2>2. Current(r) => Current(r)'
      BY <1>0, <2>1 DEF Current, Seen, Chosen, On, Placed, TenantActive, Row, tables
    <2>3. Finish(r)' = Finish(r)
      BY <1>0, <2>1 DEF Finish, Directory, Answer, LegacyHas, Placed, TenantActive, Row, tables
    <2>4. QED BY <1>1, <2>2, <2>3 DEF Linear
  <1>3. CASE Moved
    <2>1. hist'[r].moves <= 1 => hist[r].moves = 0
      BY <1>1, <1>3
    <2>2. hist'[r].moves # 0
      BY <1>1, <1>3
    <2>3. CASE Active(r)
      <3>1. pc[r] \in Stage["lookup"]
        BY <2>3 DEF LookingUp, ScopeInv, Shape, Mine
      <3>2. hist[r].moves = 0 => Finish(r)' = Finish(r) \/ Finish(r)' = Directory(job[r].ident)'
        BY <2>3, <3>1, Overtaken DEF Linear
      <3>3. Directory(job[r].ident)' \in RightNow(r)'
        BY <1>0, <2>3 DEF RightNow, Active, LookingUp
      <3>4. QED BY <1>1, <2>1, <2>2, <3>2, <3>3 DEF Linear
    <2>4. CASE ~Active(r)
      <3>1. Finish(r)' = Finish(r)
        BY <1>0, <2>4 DEF Finish, Active, Ended, LookingUp
      <3>2. QED BY <1>1, <2>1, <2>2, <3>1 DEF Linear
    <2>5. QED BY <2>3, <2>4
  <1>4. QED BY <1>2, <1>3

\* Its own step, or the one that starts it.
LEMMA OwnLinear ==
    ASSUME ScopeInv, HistOK, TrunkKeys', NEW r \in Request, Linear(r), RequestStep(r)
    PROVE  Linear(r)'
  <1>0. /\ Shape /\ TrunkKeys /\ Observe(r)
        /\ hist[r].moves \in {0, 1, 2} /\ hist'[r].moves \in {0, 1, 2}
        /\ hist[r].moves <= hist'[r].moves
        /\ pc[r] # "idle" => hist[r].right \subseteq hist'[r].right
        /\ RightNow(r)' \subseteq hist'[r].right
    BY HistoryOf DEF HistOK, ScopeInv, Rows, RequestStep
  <1>1. CASE Begin(r)
    <2>1. pc'[r] = job'[r].op /\ mem'[r].seen = None
      <3>1. PICK w \in Work : \E j \in Placements(w) :
               job' = [job EXCEPT ![r] = j] /\ pc' = [pc EXCEPT ![r] = j.op] /\ mem' = mem
        BY <1>1 DEF Begin, Goto
      <3>2. PICK j \in Placements(w) :
               job' = [job EXCEPT ![r] = j] /\ pc' = [pc EXCEPT ![r] = j.op] /\ mem' = mem
        BY <3>1
      <3>3. mem[r] = Blank
        BY <1>0, <1>1 DEF Begin, Shape, Mine
      <3>4. QED BY <1>0, <3>2, <3>3 DEF Shape, Blank
    <2>2. job'[r].op = "lookup" => Finish(r)' = Directory(job[r].ident)' /\ Finish(r)' \in RightNow(r)'
      BY <2>1 DEF Finish, RightNow, Active, Ended
    <2>3. QED BY <1>0, <2>1, <2>2 DEF Linear, LookingUp, Current
  <1>2. CASE Active(r) /\ ~Begin(r) /\ pc'[r] # "dead"
    <2>1. CASE LookupTrunk(r) \/ LookupPlace(r) \/ LookupTenant(r) \/ LookupFile(r)
      <3>1. /\ job' = job
            /\ pc[r] \in {"lookup", "place", "tenant", "file"} /\ pc'[r] # "idle"
        BY <1>0, <2>1, LookupMine, LocalMine DEF LookupTrunk, LookupPlace, LookupTenant, LookupFile, At, Local
      <3>2. LookingUp(r)
        <4>1. Active(r) /\ Mine(r) /\ job[r].op \in Operations
          BY <1>0, <1>2, JobKnown DEF Shape, Mine, Active
        <4>2. QED BY <3>1, <4>1 DEF LookingUp, Mine, Stage, RowLabels, Operations
      <3>3. /\ Finish(r)' = Finish(r) /\ pc'[r] # "lookup"
            /\ Current(r) => Current(r)'
        BY <1>0, <2>1, <3>2, Looks
      <3>4. QED BY <1>0, <1>2, <3>2, <3>3 DEF Linear, Active
    <2>2. CASE ~(LookupTrunk(r) \/ LookupPlace(r) \/ LookupTenant(r) \/ LookupFile(r))
      <3>1. job[r].op # "lookup" /\ job' = job
        <4>1. Mine(r) /\ job' = job /\ (job[r].op = "lookup" => pc[r] \in {"lookup", "place", "tenant", "file"})
          <5>1. Local(r)
            BY <1>0, <1>2, TrunkStepOf, ProvisionMine, DieMine DEF RequestStep
          <5>2. Mine(r)
            BY <1>0 DEF Shape
          <5>3. QED BY <1>2, <5>1, <5>2 DEF Mine, Stage, Local
        <4>2. job[r].op # "lookup"
          <5>1. CASE TrunkStep(r)
            BY <2>2, <4>1, <5>1 DEF TrunkStep, CreateTrunk, CreateScope, CreateUnique, CreateLegacy,
               CreateInsert, Save, LoadTrunk, CheckMove, CheckIdentity, CheckClash, Find, ImportCsv,
               ImportOne, ListCondominiums, ImportJson, CheckRow, FindCondominium, InsertCondominium,
               LoadCondominium, SaveCondominium, At
          <5>2. CASE ProvisionStep(r)
            BY <4>1, <5>2 DEF ProvisionStep, FindTenant, InsertTenant, FindPbx, InsertPbx, CreateSchema,
               StatementFails, Undo, UndoFails, ResolveVars, WriteVars, CheckTenant, AddPbx, At
          <5>3. CASE Die(r)
            BY <1>0, <1>2, <5>3 DEF Die, Goto, Shape
          <5>4. QED BY <1>2, <5>1, <5>2, <5>3 DEF RequestStep
        <4>3. QED BY <4>1, <4>2
      <3>2. QED BY <3>1 DEF Linear, LookingUp
    <2>3. QED BY <2>1, <2>2
  <1>3. CASE pc'[r] = "dead"
    BY <1>3 DEF Linear, LookingUp
  <1>4. QED BY <1>0, <1>1, <1>2, <1>3, TrunkStepOf, ProvisionMine, DieMine DEF RequestStep

\* A lookup that meets one change of the trunks, their places, the tenants or the
\* legacy file, of any request's, listener's or operator's making, answers as if
\* it had read everything at one moment, although it reads them one by one.
THEOREM LookupsLinearize == Spec => []AnswersLinearize
  <1> DEFINE Inv == HistOK /\ \A r \in Request : Linear(r)
  <1>1. Init => ScopeInv /\ Inv
    <2>1. Init => \A r \in Request : Linear(r)
      BY DEF Init, Linear, LookingUp
    <2>2. QED BY <2>1, ScopeInit, HistInit
  <1>2. ScopeInv /\ Inv /\ [Next]_vars => ScopeInv' /\ Inv'
    <2> SUFFICES ASSUME ScopeInv, Inv, [Next]_vars PROVE ScopeInv' /\ Inv'
      OBVIOUS
    <2>1. ScopeInv' /\ TrunkKeys' /\ Shape
      BY ScopeStep DEF ScopeInv, Rows
    <2>2. ASSUME NEW q \in Request, RequestStep(q) PROVE Inv'
      <3>1. HistOK' /\ Observe(q) /\ \A r \in Request \ {q} : Unmoved(r)
        BY <2>1, <2>2, HistoryOf, RequestMoves DEF RequestStep
      <3>2. ASSUME NEW r \in Request, r # q PROVE Linear(r)'
        BY <2>1, <2>2, <3>1, <3>2, StillLinear
      <3>3. Linear(q)'
        BY <2>1, <2>2, OwnLinear
      <3>4. QED BY <3>1, <3>2, <3>3
    <2>3. CASE Outside /\ Observe(None)
      <3>1. HistOK' /\ \A r \in Request : Unmoved(r) /\ r # None
        BY <2>1, <2>3, HistoryOf, OutsideMoves, AdminAssumption
      <3>2. \A r \in Request : Linear(r)'
        BY <2>1, <2>3, <3>1, StillLinear
      <3>3. QED BY <2>1, <3>1, <3>2
    <2>4. CASE UNCHANGED vars
      <3>1. UNCHANGED <<tenants, pbxs, condos, trunks, legacy, pc, job, mem, hist>>
        BY <2>4 DEF vars, world, tables, local
      <3>2. /\ \A k : Placed(k)' = Placed(k) /\ TenantActive(k)' = TenantActive(k)
            /\ \A k, u : Answer(k, u)' = Answer(k, u)
            /\ \A i : Chosen(i)' = Chosen(i) /\ Directory(i)' = Directory(i)
        BY <3>1 DEF Placed, TenantActive, Row, Answer, LegacyHas, On, Chosen, Directory
      <3>3. \A r \in Request : Finish(r)' = Finish(r) /\ Current(r)' = Current(r)
        BY <3>1, <3>2 DEF Finish, Current, Seen
      <3>4. QED BY <2>1, <3>1, <3>3 DEF HistOK, Linear, LookingUp
    <2>5. QED BY <2>1, <2>2, <2>3, <2>4 DEF Next
  <1>3. Inv => AnswersLinearize
    BY DEF AnswersLinearize, Linear, LookingUp, Finish
  <1>4. QED BY <1>1, <1>2, <1>3, PTL DEF Spec

(***************************************************************************)
(* Batches                                                                 *)
(***************************************************************************)

\* A foreign key and an index of the tables that a commit relies on: the tenant
\* of a PBX is there, and a prefix is of one trunk of its tenant.
Joined ==
    /\ \A p \in pbxs : Row(tenants, p.tenant) # {}
    /\ \A k, o \in trunks : k.prefix # None /\ k.tenant = o.tenant /\ k.prefix = o.prefix => k = o

LEMMA PlacesStay ==
    ASSUME NEW r \in Request, RequestStep(r), ~InsertPbx(r), ~AddPbx(r), ~Undo(r)
    PROVE  pbxs' = pbxs /\ tenants \subseteq tenants'
  <1>1. CASE TrunkStep(r)
    BY <1>1 DEF TrunkStep, CreateTrunk, CreateScope, CreateUnique, CreateLegacy, CreateInsert, Save,
       LoadTrunk, CheckMove, CheckIdentity, CheckClash, Find, ImportCsv, ImportOne,
       ListCondominiums, ImportJson, CheckRow, FindCondominium, InsertCondominium,
       LoadCondominium, SaveCondominium, LookupTrunk, LookupPlace, LookupTenant, LookupFile,
       world, tables
  <1>2. CASE InsertTenant(r)
    <2> DEFINE t == [id |-> NewTenantId(r), schema |-> job[r].schema, status |-> "active"]
    <2>1. pbxs' = pbxs /\ (tenants' = tenants \/ tenants' = tenants \cup {t})
      BY <1>2 DEF InsertTenant
    <2> HIDE DEF t
    <2>2. QED BY <2>1
  <1>3. CASE ProvisionStep(r) /\ ~InsertTenant(r)
    BY <1>3 DEF ProvisionStep, FindTenant, FindPbx, CreateSchema,
       StatementFails, UndoFails, ResolveVars, WriteVars, CheckTenant, world, tables
  <1>4. CASE Begin(r) \/ Die(r)
    BY <1>4 DEF Begin, Die, world, tables
  <1>5. QED BY <1>1, <1>2, <1>3, <1>4 DEF RequestStep

LEMMA PbxsJoined ==
    ASSUME ScopeInv, TypeInv, Joined, Outside \/ \E r \in Request : RequestStep(r)
    PROVE  \A p \in pbxs' : Row(tenants', p.tenant) # {}
  <1>1. CASE \E r \in Request : InsertPbx(r) \/ AddPbx(r)
    <2>1. PICK r \in Request : InsertPbx(r) \/ AddPbx(r)
      BY <1>1
    <2>2. CASE InsertPbx(r)
      <3> DEFINE p == [id |-> NewPbxId(r), tenant |-> TenantId(r), host |-> job[r].host]
      <3>1. tenants' = tenants /\ (pbxs' = pbxs \/ (pbxs' = pbxs \cup {p} /\ Row(tenants, p.tenant) # {}))
        BY <2>2 DEF InsertPbx
      <3> HIDE DEF p
      <3>2. QED BY <3>1 DEF Joined
    <2>3. CASE AddPbx(r)
      <3> DEFINE p == [id |-> <<r, job[r].host>>, tenant |-> job[r].tenant, host |-> job[r].host]
      <3>1. tenants' = tenants /\ (pbxs' = pbxs \/ (pbxs' = pbxs \cup {p} /\ Row(tenants, p.tenant) # {}))
        BY <2>3 DEF AddPbx
      <3> HIDE DEF p
      <3>2. QED BY <3>1 DEF Joined
    <2>4. QED BY <2>1, <2>2, <2>3
  <1>2. CASE \E r \in Request : Undo(r)
    <2>1. PICK r \in Request : Undo(r)
      BY <1>2
    <2> DEFINE gone == Undone(r).tenant
               pbx == Undone(r).pbx \cup {p.id : p \in {o \in pbxs : o.tenant \in gone}}
    <2>2. /\ tenants' = {t \in tenants : t.id \notin gone}
          /\ pbxs' = {p \in pbxs : p.id \notin pbx}
      BY <2>1 DEF Undo
    <2>3. \A p \in pbxs' : p.tenant \notin gone
      BY <2>2
    <2> HIDE DEF gone, pbx
    <2>4. QED BY <2>2, <2>3 DEF Joined, Row
  <1>3. CASE ~\E r \in Request : InsertPbx(r) \/ AddPbx(r) \/ Undo(r)
    <2>1. pbxs' = pbxs
      <3>1. CASE Outside
        BY <3>1 DEF Outside, Register, EditLegacy, SetTenant, tables
      <3>2. CASE \E r \in Request : RequestStep(r)
        BY <1>3, <3>2, PlacesStay
      <3>3. QED BY <3>1, <3>2
    <2>2. \A t \in tenants : \E u \in tenants' : u.id = t.id
      <3>1. CASE Outside
        <4>1. CASE tenants' = tenants
          BY <4>1
        <4>2. CASE tenants' # tenants
          <5>1. PICK t \in tenants : SetTenant(t)
            BY <3>1, <4>2 DEF Outside, Register, EditLegacy, tables
          <5> DEFINE new == [t EXCEPT !.status = IF @ = "active" THEN "suspended" ELSE "active"]
          <5>2. tenants' = (tenants \ {t}) \cup {new} /\ DOMAIN t = {"id", "schema", "status"}
            BY <5>1 DEF SetTenant, TypeInv, Typed, TenantsTyped
          <5>3. new.id = t.id
            BY <5>2
          <5> HIDE DEF new
          <5>4. QED BY <5>2, <5>3
        <4>3. QED BY <4>1, <4>2
      <3>2. CASE \E r \in Request : RequestStep(r)
        <4>1. tenants \subseteq tenants'
          BY <1>3, <3>2, PlacesStay
        <4>2. QED BY <4>1
      <3>3. QED BY <3>1, <3>2
    <2>3. QED BY <2>1, <2>2 DEF Joined, Row
  <1>4. QED BY <1>1, <1>2, <1>3

\* What becomes of a trunk that is in the way of no other.
\* Of the trunks after a step only u is new, and its prefix is no other's.
Comes(u) ==
    \A o \in trunks' :
        \/ o = u
        \/ o \in trunks /\ (u.prefix = None \/ o.tenant # u.tenant \/ o.prefix # u.prefix)

LEMMA PrefixesKept ==
    ASSUME Joined, NEW u, Comes(u)
    PROVE  \A k, o \in trunks' : k.prefix # None /\ k.tenant = o.tenant /\ k.prefix = o.prefix => k = o
  BY DEF Joined, Comes

LEMMA PrefixesJoined ==
    ASSUME ScopeInv, Joined, Outside \/ \E r \in Request : RequestStep(r)
    PROVE  \A k, o \in trunks' : k.prefix # None /\ k.tenant = o.tenant /\ k.prefix = o.prefix => k = o
  <1>1. CASE \E r \in Request : CreateInsert(r)
    <2>1. PICK r \in Request : CreateInsert(r)
      BY <1>1
    <2>2. CASE trunks' = trunks
      BY <2>2 DEF Joined
    <2>3. CASE trunks' # trunks
      <3> DEFINE u == NewTrunk(r)
      <3>2. TrunkFits(u) /\ trunks' = trunks \cup {u} /\ pc[r] = "insert"
        BY <2>1, <2>3 DEF CreateInsert, At
      <3>3. \A o \in trunks : o.id # u.id
        <4>1. u.id = <<r, mem[r].n>>
          BY DEF NewTrunk
        <4>2. ASSUME NEW o \in trunks, o.id = <<r, mem[r].n>> PROVE FALSE
          <5>1. TrunkDrawn(o.id) /\ mem[r].n \in Nat
            BY DEF ScopeInv, Rows, TrunkKeys, Shape, Mine
          <5>2. mem[r].n < mem[r].n
            BY <3>2, <4>2, <5>1 DEF TrunkDrawn, RowLabels
          <5>3. QED BY <5>1, <5>2
        <4>3. QED BY <4>1, <4>2
      <3>4. \A o \in trunks : u.prefix = None \/ o.tenant # u.tenant \/ o.prefix # u.prefix
        BY <3>2, <3>3 DEF TrunkFits
      <3> HIDE DEF u
      <3>5. \A o \in trunks' : o = u \/ o \in trunks
        BY <3>2
      <3>6. Comes(u)
        BY <3>4, <3>5 DEF Comes
      <3>7. QED BY <3>6, PrefixesKept
    <2>4. QED BY <2>2, <2>3
  <1>2. CASE \E r \in Request : Save(r)
    <2>1. PICK r \in Request : Save(r)
      BY <1>2
    <2>2. CASE trunks' = trunks
      BY <2>2 DEF Joined
    <2>3. CASE trunks' # trunks
      <3>1. PICK k \in trunks :
              /\ k.id = mem[r].seen.id
              /\ TrunkFits(Updated(k, mem[r].seen, Updates(r)))
              /\ trunks' = (trunks \ {k}) \cup {Updated(k, mem[r].seen, Updates(r))}
        BY <2>1, <2>3, SaveReplaces
      <3> DEFINE u == Updated(k, mem[r].seen, Updates(r))
      <3>2. u.id = k.id
        BY <2>1, <3>1, SavedTrunk
      <3>3. \A o \in trunks \ {k} : o.id # u.id
        BY <3>2 DEF ScopeInv, Rows, TrunkKeys
      <3>4. \A o \in trunks \ {k} : u.prefix = None \/ o.tenant # u.tenant \/ o.prefix # u.prefix
        BY <3>1, <3>3 DEF TrunkFits
      <3>5. \A o \in trunks' : o = u \/ o \in trunks \ {k}
        BY <3>1
      <3> HIDE DEF u
      <3>6. Comes(u)
        BY <3>4, <3>5 DEF Comes
      <3>7. QED BY <3>6, PrefixesKept
    <2>4. QED BY <2>2, <2>3
  <1>3. CASE \E k \in trunks, s \in {"registered", "unregistered"} : Register(k, s)
    <2>1. PICK k \in trunks, s \in {"registered", "unregistered"} : Register(k, s)
      BY <1>3
    <2> DEFINE u == [k EXCEPT !.status = s]
    <2>2. trunks' = (trunks \ {k}) \cup {u} /\ DOMAIN k = TrunkColumns
      BY <2>1 DEF Register, ScopeInv, Rows, Homes, TrunksHome
    <2>3. u.prefix = k.prefix /\ u.tenant = k.tenant
      BY <2>2 DEF TrunkColumns
    <2> HIDE DEF u
    <2>4. \A o \in trunks \ {k} : u.prefix = None \/ o.tenant # u.tenant \/ o.prefix # u.prefix
      BY <2>3 DEF Joined
    <2>5. \A o \in trunks' : o = u \/ o \in trunks \ {k}
      BY <2>2
    <2>6. Comes(u)
      BY <2>4, <2>5 DEF Comes
    <2>7. QED BY <2>6, PrefixesKept
  <1>4. CASE ~(\/ \E r \in Request : CreateInsert(r) \/ Save(r)
               \/ \E k \in trunks, s \in {"registered", "unregistered"} : Register(k, s))
    <2>1. trunks' \subseteq trunks
      <3>1. CASE Outside
        BY <1>4, <3>1 DEF Outside, EditLegacy, SetTenant, tables
      <3>2. CASE \E r \in Request : RequestStep(r)
        <4>1. PICK r \in Request : RequestStep(r)
          BY <3>2
        <4>2. ~CreateInsert(r) /\ ~Save(r)
          BY <1>4
        <4>3. CASE TrunkStep(r)
          BY <4>2, <4>3 DEF TrunkStep, CreateTrunk, CreateScope, CreateUnique, CreateLegacy,
             LoadTrunk, CheckMove, CheckIdentity, CheckClash, Find, ImportCsv, ImportOne,
             ListCondominiums, ImportJson, CheckRow, FindCondominium, InsertCondominium,
             LoadCondominium, SaveCondominium, LookupTrunk, LookupPlace, LookupTenant, LookupFile,
             world, tables
        <4>4. CASE ProvisionStep(r)
          BY <4>4 DEF ProvisionStep, FindTenant, InsertTenant, FindPbx, InsertPbx, CreateSchema,
             StatementFails, Undo, UndoFails, ResolveVars, WriteVars, CheckTenant, AddPbx, world, tables
        <4>5. CASE Begin(r) \/ Die(r)
          BY <4>5 DEF Begin, Die, world, tables
        <4>6. QED BY <4>1, <4>3, <4>4, <4>5 DEF RequestStep
      <3>3. QED BY <3>1, <3>2
    <2>2. QED BY <2>1 DEF Joined
  <1>5. QED BY <1>1, <1>2, <1>3, <1>4

LEMMA JoinedStep ==
    ASSUME ScopeInv, TypeInv, Joined, [Next]_vars
    PROVE  Joined'
  <1>1. CASE Outside \/ \E r \in Request : RequestStep(r)
    BY <1>1, PbxsJoined, PrefixesJoined DEF Joined, Row
  <1>2. CASE UNCHANGED vars
    BY <1>2 DEF vars, world, tables, Joined, Row
  <1>3. QED BY <1>1, <1>2 DEF Next

LEMMA JoinedInit == Init => Joined
  BY TablesAssumption DEF Init, Joined, Row

Batching(r) == pc[r] \notin {"idle", "dead"} /\ job[r].op = "batch" /\ job[r].apply

\* Where a batch is before it has rows, and before it writes.
Before == {"batch", "condo", "condo_insert", "parse"}

Short(r) == \A x \in ToSet(mem[r].rows) : UserOf(x.ident) \notin Long
Written(r, x) == \E k \in trunks : k.ident = x.ident /\ k.enabled = FALSE /\ k.tenant = job[r].tenant

\* What the row in hand has met so far is still so.
InHand(r) ==
    /\ pc[r] \in {"scope"} \cup Placing => ~IdentityTaken(RowOf(r).ident)
    /\ pc[r] = "save" =>
          mem[r].seen \in trunks /\ mem[r].seen.ident = RowOf(r).ident /\ mem[r].seen.tenant = job[r].tenant

\* Nothing can refuse a row that was validated, as long as nobody interferes:
\* the rows before it do not either.
Alone(r) ==
    Batching(r) /\ hist[r].moves = 0 =>
        /\ pc[r] \in Before \cup {"check"} => mem[r].wrote = 0
        /\ pc[r] \in Listed =>
              DOMAIN mem[r].rows = 1 .. Len(mem[r].rows) /\ \A x \in ToSet(mem[r].rows) : x.prefix = None
        /\ pc[r] = "check" => \A i \in 1 .. Len(mem[r].rows) : i < mem[r].n => Importable(r, mem[r].rows[i])
        /\ Short(r) =>
              /\ pc[r] \in RowLabels =>
                    /\ \A x \in ToSet(mem[r].rows) : Importable(r, x)
                    /\ \A i \in 1 .. Len(mem[r].rows) : i < mem[r].n => Written(r, mem[r].rows[i])
                    /\ InHand(r)
              /\ pc[r] = "ok" => \A x \in ToSet(mem[r].rows) : Written(r, x)
              /\ pc[r] = "failed" => mem[r].wrote = 0

LEMMA StillAlone ==
    ASSUME HistOK, NEW actor, NEW r \in Request, r # actor, Unmoved(r), Alone(r), Observe(actor)
    PROVE  Alone(r)'
  <1>0. pc'[r] = pc[r] /\ job'[r] = job[r] /\ mem'[r] = mem[r]
    BY DEF Unmoved
  <1>1. /\ HistOK'
        /\ \A q \in Request :
              /\ hist[q].moves <= hist'[q].moves
              /\ Moved /\ pc[q] # "idle" /\ q # actor /\ hist[q].moves < 2 => hist[q].moves < hist'[q].moves
    BY HistoryOf
  <1>2. CASE Batching(r) /\ hist'[r].moves = 0
    <2>1. hist[r].moves = 0 /\ UNCHANGED <<tables, legacy>>
      BY <1>1, <1>2 DEF HistOK, Moved, Batching
    <2>2. /\ \A x : Written(r, x) => Written(r, x)'
          /\ \A x : Importable(r, x) => Importable(r, x)'
          /\ InHand(r) => InHand(r)'
      <3>1. \A x : Written(r, x) => Written(r, x)'
        BY <1>0, <2>1 DEF Written, tables
      <3>2. \A x : Importable(r, x) => Importable(r, x)'
        BY <1>0, <2>1 DEF Importable, InScope, PrefixTaken, LegacyClash, LegacyHas, Row, tables
      <3>3. InHand(r) => InHand(r)'
        BY <1>0, <2>1 DEF InHand, IdentityTaken, RowOf, tables
      <3>4. QED BY <3>1, <3>2, <3>3
    <2>3. QED BY <1>0, <1>2, <2>1, <2>2 DEF Alone, Batching, Short
  <1>3. CASE ~(Batching(r) /\ hist'[r].moves = 0)
    BY <1>0, <1>3 DEF Alone, Batching
  <1>4. QED BY <1>2, <1>3

\* A row that is written takes no other row's place.
LEMMA RowWritten ==
    ASSUME NEW r \in Request, UNCHANGED <<pbxs, condos, legacy>>, job' = job,
           NEW old, NEW u, trunks' = (trunks \ old) \cup {u},
           u.tenant = job[r].tenant, u.enabled = FALSE, \A o \in old : o.ident = u.ident
    PROVE  /\ \A x : Written(r, x) => Written(r, x)'
           /\ \A x : x.ident = u.ident => Written(r, x)'
           /\ \A x : x.prefix = None /\ Importable(r, x) => Importable(r, x)'
  <1>1. \A x : x.ident = u.ident => Written(r, x)'
    BY DEF Written
  <1>2. ASSUME NEW x, Written(r, x) PROVE Written(r, x)'
    BY <1>2 DEF Written
  <1>3. ASSUME NEW x, x.prefix = None, Importable(r, x) PROVE Importable(r, x)'
    <2>1. x.password = "good"
      BY <1>3 DEF Importable
    <2>2. CASE x.ident = u.ident
      BY <1>3, <2>1, <2>2 DEF Importable
    <2>3. CASE x.ident # u.ident
      <3>1. {k \in trunks' : k.ident = x.ident} = {k \in trunks : k.ident = x.ident}
        BY <2>3
      <3>2. QED BY <1>3, <3>1 DEF Importable, InScope, PrefixTaken, LegacyClash, LegacyHas, Row
    <2>4. QED BY <2>2, <2>3
  <1>4. QED BY <1>1, <1>2, <1>3

\* The commit of a row, and the next row or the end.
LEMMA CommitAlone ==
    ASSUME Shape, NEW r \in Request, Active(r), RowsFit(r), Batching(r), hist[r].moves = 0, Alone(r),
           pc[r] \in {"insert", "save"}, Advance(r, 1),
           UNCHANGED <<pbxs, condos, legacy>>, job' = job,
           NEW old, NEW u, trunks' = (trunks \ old) \cup {u},
           Short(r) => /\ u.tenant = job[r].tenant /\ u.enabled = FALSE /\ u.ident = RowOf(r).ident
                       /\ \A o \in old : o.ident = u.ident
    PROVE  Alone(r)'
  <1>0. PICK rows, n : rows = mem[r].rows /\ n = mem[r].n
    OBVIOUS
  <1>1. /\ mem'[r].rows = rows /\ mem'[r].n = n + 1 /\ n \in 1 .. Len(rows) /\ Len(rows) \in Nat
        /\ pc'[r] = IF n < Len(rows) THEN "find" ELSE "ok"
    <2>1. Mine(r) /\ r \in DOMAIN mem /\ r \in DOMAIN pc
      BY DEF Shape
    <2>2. QED BY <1>0, <2>1 DEF Advance, Goto, Mine, Blank, RowsFit, Listed, RowLabels
  <1>2. DOMAIN rows = 1 .. Len(rows) /\ \A x \in ToSet(rows) : x.prefix = None
    BY <1>0 DEF Alone, Listed, RowLabels
  <1>3. ASSUME Short(r)
        PROVE  /\ \A x \in ToSet(rows) : Importable(r, x)'
               /\ \A i \in 1 .. Len(rows) : i < n + 1 => Written(r, rows[i])'
    <2>1. /\ \A x \in ToSet(rows) : Importable(r, x)
          /\ \A i \in 1 .. Len(rows) : i < n => Written(r, rows[i])
      BY <1>0, <1>3 DEF Alone, RowLabels
    <2>2. /\ \A x : Written(r, x) => Written(r, x)'
          /\ \A x : x.ident = u.ident => Written(r, x)'
          /\ \A x : x.prefix = None /\ Importable(r, x) => Importable(r, x)'
      BY <1>3, RowWritten
    <2>3. Written(r, rows[n])'
      BY <1>0, <1>3, <2>2 DEF RowOf
    <2>4. \A i \in 1 .. Len(rows) : i < n + 1 => i < n \/ i = n
      BY <1>1
    <2>5. ASSUME NEW i \in 1 .. Len(rows), i < n + 1 PROVE Written(r, rows[i])'
      BY <2>1, <2>2, <2>3, <2>4, <2>5
    <2>6. QED BY <1>2, <2>1, <2>2, <2>5
  <1>4. CASE n < Len(rows)
    <2>1. pc'[r] = "find"
      BY <1>1, <1>4
    <2>2. InHand(r)'
      BY <2>1 DEF InHand, Placing
    <2>3. QED BY <1>0, <1>1, <1>2, <1>3, <2>1, <2>2 DEF Alone, Short, Before
  <1>5. CASE ~(n < Len(rows))
    <2>1. pc'[r] = "ok" /\ \A i \in 1 .. Len(rows) : i < n + 1
      BY <1>1, <1>5
    <2>2. \A x \in ToSet(rows) : \E i \in 1 .. Len(rows) : x = rows[i]
      BY <1>2 DEF ToSet
    <2>3. Short(r) => \A x \in ToSet(rows) : Written(r, x)'
      BY <1>3, <2>1, <2>2
    <2>4. QED BY <1>0, <1>1, <2>1, <2>3 DEF Alone, Short, Before, Listed, RowLabels
  <1>6. QED BY <1>4, <1>5

\* From label to label with the same rows and tables.
LEMMA AlongAlone ==
    ASSUME NEW r \in Request, Batching(r), hist[r].moves = 0, Alone(r), job' = job,
           UNCHANGED <<trunks, pbxs, condos, legacy>>,
           pc[r] \in RowLabels, pc'[r] \in RowLabels,
           mem'[r].rows = mem[r].rows, mem'[r].n = mem[r].n,
           Short(r) => InHand(r)'
    PROVE  Alone(r)'
  <1>1. /\ \A x : Written(r, x) => Written(r, x)'
        /\ \A x : Importable(r, x) => Importable(r, x)'
    BY DEF Written, Importable, InScope, PrefixTaken, LegacyClash, LegacyHas, Row
  <1>2. pc'[r] \notin Before \cup {"check", "ok", "failed"}
    BY DEF RowLabels, Before
  <1>3. pc[r] \in Listed
    BY DEF Listed
  <1>4. DOMAIN mem[r].rows = 1 .. Len(mem[r].rows) /\ \A x \in ToSet(mem[r].rows) : x.prefix = None
    BY <1>3 DEF Alone
  <1>5. ASSUME Short(r)
        PROVE  /\ \A x \in ToSet(mem[r].rows) : Importable(r, x)'
               /\ \A i \in 1 .. Len(mem[r].rows) : i < mem[r].n => Written(r, mem[r].rows[i])'
    BY <1>1, <1>5 DEF Alone
  <1>6. QED BY <1>2, <1>4, <1>5 DEF Alone, Short

\* The steps of a row that was validated.
LEMMA RowAlone ==
    ASSUME ScopeInv, TypeInv, Joined, NEW r \in Request, Batching(r), hist[r].moves = 0, Alone(r),
           \/ Find(r) \/ CreateScope(r) \/ CreateUnique(r) \/ CreateLegacy(r) \/ CreateInsert(r) \/ Save(r)
    PROVE  Alone(r)'
  <1>0. /\ Shape /\ Active(r) /\ Mine(r) /\ RowsFit(r) /\ job' = job /\ r \in DOMAIN pc /\ r \in DOMAIN mem
        /\ pc[r] \in RowLabels /\ Admitted(job[r]) /\ job[r].op = "batch"
    <2>1. Shape /\ Active(r) /\ job' = job /\ pc[r] \in RowLabels
      BY CreateMine, UpdateMine, ImportMine DEF ScopeInv, Local, Find, CreateScope, CreateUnique, CreateLegacy,
         CreateInsert, Save, At, RowLabels
    <2>2. QED BY <2>1, JobAdmitted DEF Shape, TypeInv, Mine, Active, Batching
  <1>1. /\ mem[r].n \in DOMAIN mem[r].rows /\ RowOf(r) \in ToSet(mem[r].rows) /\ RowOf(r).prefix = None
    BY <1>0 DEF Alone, RowsFit, Listed, RowOf, ToSet
  <1>2. CASE ~Short(r)
    <2>1. mem'[r].rows = mem[r].rows /\ pc'[r] \in RowLabels \cup Ended
      <3>1. CASE Refused(r) \/ Advance(r, 0) \/ Advance(r, 1)
        BY <1>0, <3>1, AdvanceMine, RefusedMine, EndsMine DEF Refused, Fails, Goto, RowLabels, Ended
      <3>2. CASE ~(Refused(r) \/ Advance(r, 0) \/ Advance(r, 1))
        BY <1>0, <3>2 DEF Find, CreateScope, CreateUnique, CreateLegacy, CreateInsert, Save, Vanished, Goto, Fails,
           RowLabels, Ended, Mine, Blank
      <3>3. QED BY <3>1, <3>2
    <2>2. pc'[r] \notin Before \cup {"check"}
      BY <2>1 DEF RowLabels, Ended, Before
    <2>3. DOMAIN mem[r].rows = 1 .. Len(mem[r].rows) /\ \A x \in ToSet(mem[r].rows) : x.prefix = None
      BY <1>0 DEF Alone, Listed
    <2>4. QED BY <1>2, <2>1, <2>2, <2>3 DEF Alone, Short
  <1>3. CASE Short(r)
    <2>0. /\ Importable(r, RowOf(r)) /\ InHand(r) /\ RowOf(r).password = "good"
          /\ UserOf(RowOf(r).ident) \notin Long
      BY <1>0, <1>1, <1>3 DEF Alone, Importable, Short
    <2>1. CASE Find(r)
      <3>1. UNCHANGED <<trunks, pbxs, condos, legacy>> /\ pc[r] = "find"
        BY <2>1 DEF Find, world, tables, At
      <3>2. CASE /\ {k \in trunks : k.ident = RowOf(r).ident} = {}
                 /\ pc' = [pc EXCEPT ![r] = "scope"] /\ mem' = mem
        <4>1. pc'[r] = "scope" /\ InHand(r)'
          BY <1>0, <3>1, <3>2 DEF InHand, IdentityTaken, RowOf
        <4>2. QED BY <1>0, <3>1, <3>2, <4>1, AlongAlone DEF RowLabels
      <3>3. CASE \E k \in trunks : /\ k.ident = RowOf(r).ident /\ k.tenant = job[r].tenant
                                   /\ mem' = [mem EXCEPT ![r].seen = k] /\ pc' = [pc EXCEPT ![r] = "save"]
        <4>1. PICK k \in trunks : /\ k.ident = RowOf(r).ident /\ k.tenant = job[r].tenant
                                  /\ mem' = [mem EXCEPT ![r].seen = k] /\ pc' = [pc EXCEPT ![r] = "save"]
          BY <3>3
        <4>2. /\ mem'[r].seen = k /\ mem'[r].rows = mem[r].rows /\ mem'[r].n = mem[r].n /\ pc'[r] = "save"
          BY <1>0, <4>1 DEF Mine, Blank
        <4>3. InHand(r)'
          BY <1>0, <3>1, <4>1, <4>2 DEF InHand, RowOf, Placing
        <4>4. QED BY <1>0, <3>1, <4>2, <4>3, AlongAlone DEF RowLabels
      <3>4. QED BY <2>0, <2>1, <3>2, <3>3 DEF Find, Goto, Importable
    <2>2. CASE CreateScope(r) \/ CreateUnique(r) \/ CreateLegacy(r)
      <3>1. UNCHANGED <<trunks, pbxs, condos, legacy>> /\ pc[r] \in {"scope", "unique", "legacy"}
        BY <2>2 DEF CreateScope, CreateUnique, CreateLegacy, world, tables, At
      <3>2. ~IdentityTaken(RowOf(r).ident)
        BY <2>0, <3>1 DEF InHand, Placing
      <3>3. {k \in trunks : k.ident = RowOf(r).ident} = {}
        BY <3>2 DEF IdentityTaken
      <3>4. /\ InScope(r, RowOf(r).condo) /\ WellFormed(RowOf(r).prefix)
            /\ ~PrefixTaken(job[r].tenant, RowOf(r).prefix) /\ ~LegacyClash(RowOf(r).ident)
        BY <2>0, <3>3 DEF Importable
      <3>5. mem' = mem /\ \E l \in Placing : pc' = [pc EXCEPT ![r] = l]
        BY <2>0, <2>2, <3>2, <3>4 DEF CreateScope, CreateUnique, CreateLegacy, Goto, Placing
      <3>6. pc'[r] \in Placing
        BY <1>0, <3>5
      <3>7. InHand(r)'
        BY <3>1, <3>2, <3>5, <3>6 DEF InHand, IdentityTaken, RowOf, Placing
      <3>8. QED BY <1>0, <3>1, <3>5, <3>6, <3>7, AlongAlone DEF RowLabels, Placing
    <2>3. CASE CreateInsert(r)
      <3>1. pc[r] = "insert" /\ UNCHANGED <<pbxs, condos, legacy>>
        BY <2>3 DEF CreateInsert, At
      <3>2. ~IdentityTaken(RowOf(r).ident)
        BY <2>0, <3>1 DEF InHand, Placing
      <3>3. {k \in trunks : k.ident = RowOf(r).ident} = {}
        BY <3>2 DEF IdentityTaken
      <3>4. InScope(r, RowOf(r).condo)
        BY <2>0, <3>3 DEF Importable
      <3> DEFINE u == NewTrunk(r)
      <3>5. /\ u.tenant = job[r].tenant /\ u.pbx = job[r].pbx /\ u.condo = RowOf(r).condo /\ u.prefix = None
            /\ u.ident = RowOf(r).ident /\ u.enabled = FALSE
        BY <1>0, <1>1 DEF NewTrunk, Admitted
      <3>6. TrunkFits(u)
        <4>1. Row(pbxs, u.pbx) # {} /\ Row(condos, u.condo) # {}
          BY <3>4, <3>5 DEF InScope
        <4>2. Row(tenants, u.tenant) # {}
          BY <3>4, <3>5 DEF InScope, Joined, Row
        <4>3. QED BY <3>2, <3>5, <4>1, <4>2 DEF TrunkFits, IdentityTaken
      <3>7. trunks' = (trunks \ {}) \cup {u} /\ Advance(r, 1)
        BY <2>0, <2>3, <3>5, <3>6 DEF CreateInsert
      <3> HIDE DEF u
      <3>8. QED BY <1>0, <3>1, <3>5, <3>7, CommitAlone
    <2>4. CASE Save(r)
      <3>1. pc[r] = "save" /\ UNCHANGED <<pbxs, condos, legacy>>
        BY <2>4 DEF Save, At
      <3>a. PICK k : k = mem[r].seen
        OBVIOUS
      <3>2. k \in trunks /\ k.ident = RowOf(r).ident /\ k.tenant = job[r].tenant
        BY <2>0, <3>1, <3>a DEF InHand
      <3>3. Row(trunks, k.id) = {k} /\ DOMAIN k = TrunkColumns /\ k.enabled \in BOOLEAN
        BY <3>2 DEF Row, ScopeInv, Rows, TrunkKeys, Homes, TrunksHome, TypeInv, Typed, TrunkTyped
      <3> DEFINE u == Updated(k, k, Updates(r))
      <3>4. /\ DOMAIN Updates(r) = {"enabled", "password", "status"} /\ Updates(r)["enabled"] = FALSE
        BY <1>0 DEF Updates, Asked, IdentityChanges
      <3>5. /\ u.id = k.id /\ u.tenant = k.tenant /\ u.pbx = k.pbx /\ u.condo = k.condo
            /\ u.prefix = k.prefix /\ u.ident = k.ident /\ u.enabled = FALSE
        BY <3>3, <3>4, UpdatedRow DEF TrunkColumns
      <3>6. TrunkFits(u)
        <4>1. Row(pbxs, k.pbx) # {} /\ Row(condos, k.condo) # {} /\ Row(tenants, k.tenant) # {}
          BY <3>2 DEF Row, Joined, ScopeInv, Rows, ScopeConsistent, Consistent
        <4>2. \A o \in trunks : o.id # k.id =>
                 o.ident # k.ident /\ (k.prefix = None \/ <<o.tenant, o.prefix>> # <<k.tenant, k.prefix>>)
          BY <3>2 DEF Joined, ScopeInv, Rows, TrunkKeys
        <4>3. QED BY <3>5, <4>1, <4>2 DEF TrunkFits
      <3>7. {Updated(o, mem[r].seen, Updates(r)) : o \in Row(trunks, mem[r].seen.id)} = {u}
        BY <3>a, <3>3
      <3>8. trunks' = (trunks \ {k}) \cup {u} /\ Advance(r, 1)
        BY <2>4, <3>a, <3>3, <3>6, <3>7 DEF Save
      <3> HIDE DEF u
      <3>9. QED BY <1>0, <3>1, <3>2, <3>5, <3>8, CommitAlone
    <2>5. QED BY <2>1, <2>2, <2>3, <2>4
  <1>4. QED BY <1>2, <1>3

\* A batch that has no rows yet has written nothing.
LEMMA BeforeAlone ==
    ASSUME NEW r \in Request, Batching(r), hist[r].moves = 0, Alone(r), job' = job, pc[r] \in Before,
           pc'[r] \in Before \cup {"failed"}, mem'[r].wrote = mem[r].wrote
    PROVE  Alone(r)'
  <1>1. mem'[r].wrote = 0
    BY DEF Alone
  <1>2. pc'[r] \notin Listed \cup {"ok", "check"}
    BY DEF Before, Listed, RowLabels
  <1>3. QED BY <1>1, <1>2 DEF Alone, Listed

\* No row of a batch has a prefix of its own.
LEMMA NoPrefix ==
    ASSUME NEW entries, entries \in Seq(ToSet(entries)), NEW names,
           NEW parsed, parsed = ParsedJson(entries, names), parsed # None,
           NEW rows, DOMAIN rows = DOMAIN parsed, \A i \in DOMAIN rows : rows[i].prefix = parsed[i].prefix
    PROVE  DOMAIN rows = 1 .. Len(rows) /\ \A x \in ToSet(rows) : x.prefix = None
  <1>1. parsed = [i \in DOMAIN entries |-> FromJson(entries[i], names[entries[i].number])]
    BY DEF ParsedJson
  <1>2. DOMAIN entries = 1 .. Len(entries) /\ Len(entries) \in Nat
    OBVIOUS
  <1>3. DOMAIN rows = 1 .. Len(entries) /\ Len(rows) = Len(entries)
    BY <1>1, <1>2
  <1>4. ASSUME NEW i \in DOMAIN rows PROVE rows[i].prefix = None
    <2>1. parsed[i] = FromJson(entries[i], names[entries[i].number])
      BY <1>1, <1>2, <1>3
    <2>2. parsed[i].prefix = None
      BY <2>1 DEF FromJson
    <2>3. QED BY <2>2
  <1>5. QED BY <1>3, <1>4 DEF ToSet

\* The steps before the first row is written.
LEMMA PlanAlone ==
    ASSUME ScopeInv, TypeInv, NEW r \in Request, Batching(r), hist[r].moves = 0, Alone(r),
           \/ ListCondominiums(r) \/ FindCondominium(r) \/ InsertCondominium(r)
           \/ ImportJson(r) \/ CheckRow(r)
    PROVE  Alone(r)'
  <1>0. /\ Shape /\ Active(r) /\ Mine(r) /\ RowsFit(r) /\ job' = job /\ r \in DOMAIN pc /\ r \in DOMAIN mem
        /\ Admitted(job[r]) /\ job[r].op = "batch" /\ job[r].apply
    <2>1. Shape /\ Active(r) /\ job' = job
      BY ImportMine, CondominiumMine DEF ScopeInv, Local
    <2>2. QED BY <2>1, JobAdmitted DEF Shape, TypeInv, Mine, Active, Batching
  <1>1. CASE ListCondominiums(r) \/ FindCondominium(r) \/ InsertCondominium(r)
    <2>1. /\ pc[r] \in Before /\ pc'[r] \in Before \cup {"failed"}
          /\ \/ mem' = mem
             \/ \E x : mem' = [mem EXCEPT ![r].ids = x]
             \/ \E x : mem' = [mem EXCEPT ![r].name = x]
      BY <1>0, <1>1 DEF ListCondominiums, FindCondominium, InsertCondominium, Found, Fails, Goto, At, Before
    <2>2. mem'[r].wrote = mem[r].wrote
      BY <1>0, <2>1 DEF Mine, Blank
    <2>3. QED BY <1>0, <2>1, <2>2, BeforeAlone
  <1>2. CASE ImportJson(r)
    <2>a. PICK entries, names, ids :
             entries = job[r].entries /\ names = job[r].names /\ ids = mem[r].ids
      OBVIOUS
    <2>b. PICK parsed : parsed = ParsedJson(entries, names)
      OBVIOUS
    <2>c. PICK rows : rows = [i \in DOMAIN parsed |-> [parsed[i] EXCEPT !.condo = ids[@]]]
      OBVIOUS
    <2>1. pc[r] = "parse"
      BY <1>2 DEF ImportJson, At
    <2>2. CASE pc' = [pc EXCEPT ![r] = "failed"] /\ mem' = mem
      BY <1>0, <2>1, <2>2, BeforeAlone DEF Before
    <2>3. CASE ~(pc' = [pc EXCEPT ![r] = "failed"] /\ mem' = mem)
      <3>1. parsed # None /\ mem' = [mem EXCEPT ![r].rows = rows] /\ pc' = [pc EXCEPT ![r] = "check"]
        BY <1>0, <1>2, <2>3, <2>a, <2>b, <2>c DEF ImportJson, Goto, Fails
      <3>2. entries \in Seq(ToSet(entries))
        BY <1>0, <2>a DEF Admitted
      <3>3. DOMAIN rows = 1 .. Len(rows) /\ \A x \in ToSet(rows) : x.prefix = None
        <4>1. \A i \in DOMAIN parsed : "prefix" \in DOMAIN parsed[i]
          BY <3>1, <2>b DEF ParsedJson, FromJson
        <4>2. DOMAIN rows = DOMAIN parsed /\ \A i \in DOMAIN rows : rows[i].prefix = parsed[i].prefix
          BY <4>1, <2>c
        <4>3. QED BY <3>1, <3>2, <4>2, <2>b, NoPrefix
      <3>4. /\ mem'[r].rows = rows /\ pc'[r] = "check"
            /\ mem'[r].n = mem[r].n /\ mem'[r].wrote = mem[r].wrote
        BY <1>0, <3>1 DEF Mine, Blank
      <3>5. mem[r].n = 1 /\ mem[r].wrote = 0
        BY <1>0, <2>1 DEF RowsFit, Listed, RowLabels, Alone, Before
      <3>6. \A i \in 1 .. Len(rows) : ~(i < 1)
        OBVIOUS
      <3>7. QED BY <3>3, <3>4, <3>5, <3>6 DEF Alone, RowLabels
    <2>4. QED BY <2>2, <2>3
  <1>3. CASE CheckRow(r)
    <2>a. PICK rows, n : rows = mem[r].rows /\ n = mem[r].n
      OBVIOUS
    <2>1. /\ pc[r] = "check" /\ UNCHANGED <<trunks, pbxs, condos, legacy>>
          /\ n \in 1 .. Len(rows) /\ Len(rows) \in Nat
      BY <1>0, <1>3, <2>a DEF CheckRow, At, RowsFit, Listed, world, tables
    <2>2. /\ mem[r].wrote = 0
          /\ DOMAIN rows = 1 .. Len(rows) /\ \A x \in ToSet(rows) : x.prefix = None
          /\ \A i \in 1 .. Len(rows) : i < n => Importable(r, rows[i])
      BY <2>a, <2>1 DEF Alone, Listed
    <2>3. \A x : Importable(r, x) => Importable(r, x)'
      BY <1>0, <2>1 DEF Importable, InScope, PrefixTaken, LegacyClash, LegacyHas, Row
    <2>4. CASE ~Importable(r, RowOf(r))
      <3>1. pc'[r] = "failed" /\ mem' = mem
        BY <1>0, <1>3, <2>4 DEF CheckRow, Fails, Goto
      <3>2. QED BY <2>2, <3>1 DEF Alone, Listed, RowLabels
    <2>5. CASE Importable(r, RowOf(r))
      <3>1. /\ mem' = [mem EXCEPT ![r].n = IF n = Len(rows) THEN 1 ELSE n + 1]
            /\ pc' = [pc EXCEPT ![r] = IF n = Len(rows) THEN "find" ELSE "check"]
        BY <1>3, <2>5, <2>a DEF CheckRow, Goto
      <3>2. /\ mem'[r].rows = rows /\ mem'[r].wrote = 0
            /\ mem'[r].n = IF n = Len(rows) THEN 1 ELSE n + 1
            /\ pc'[r] = IF n = Len(rows) THEN "find" ELSE "check"
        BY <1>0, <2>a, <2>2, <3>1 DEF Mine, Blank
      <3>3. ASSUME NEW i \in 1 .. Len(rows), i < n + 1 PROVE Importable(r, rows[i])'
        <4>1. i < n \/ i = n
          BY <2>1, <3>3
        <4>2. Importable(r, rows[i])
          BY <2>a, <2>2, <2>5, <4>1 DEF RowOf
        <4>3. QED BY <2>3, <4>2
      <3>4. CASE n = Len(rows)
        <4>1. pc'[r] = "find" /\ mem'[r].n = 1 /\ \A i \in 1 .. Len(rows) : i < n + 1 /\ ~(i < 1)
          BY <2>1, <3>2, <3>4
        <4>2. \A x \in ToSet(rows) : \E i \in 1 .. Len(rows) : x = rows[i]
          BY <2>2 DEF ToSet
        <4>3. \A x \in ToSet(rows) : Importable(r, x)'
          BY <3>3, <4>1, <4>2
        <4>4. InHand(r)'
          BY <4>1 DEF InHand, Placing
        <4>5. QED BY <2>2, <3>2, <4>1, <4>3, <4>4 DEF Alone, Before
      <3>5. CASE n # Len(rows)
        <4>1. pc'[r] = "check" /\ mem'[r].n = n + 1
          BY <3>2, <3>5
        <4>2. QED BY <2>2, <3>2, <3>3, <4>1 DEF Alone, RowLabels
      <3>6. QED BY <3>4, <3>5
    <2>6. QED BY <2>4, <2>5
  <1>4. QED BY <1>1, <1>2, <1>3

\* A step of the batch itself, or the one that starts it.
LEMMA OwnAlone ==
    ASSUME ScopeInv, TypeInv, Joined, HistOK, NEW r \in Request, Alone(r), RequestStep(r)
    PROVE  Alone(r)'
  <1>0. /\ Shape
        /\ hist[r].moves \in {0, 1, 2} /\ hist'[r].moves \in {0, 1, 2} /\ hist[r].moves <= hist'[r].moves
    BY HistoryOf DEF HistOK, ScopeInv, RequestStep
  <1>1. CASE Begin(r)
    <2>1. pc'[r] = job'[r].op /\ mem'[r] = Blank
      <3>1. PICK w \in Work : \E j \in Placements(w) :
               job' = [job EXCEPT ![r] = j] /\ pc' = [pc EXCEPT ![r] = j.op] /\ mem' = mem
        BY <1>1 DEF Begin, Goto
      <3>2. PICK j \in Placements(w) :
               job' = [job EXCEPT ![r] = j] /\ pc' = [pc EXCEPT ![r] = j.op] /\ mem' = mem
        BY <3>1
      <3>3. mem[r] = Blank
        BY <1>0, <1>1 DEF Begin, Shape, Mine
      <3>4. QED BY <1>0, <3>2, <3>3 DEF Shape
    <2>2. mem'[r].wrote = 0
      BY <2>1 DEF Blank
    <2>3. QED BY <2>1, <2>2 DEF Alone, Batching, Listed, RowLabels
  <1>2. CASE ~Begin(r) /\ Batching(r) /\ hist[r].moves = 0
    <2>1. Active(r) /\ Mine(r) /\ job' = job /\ job[r].op = "batch"
      BY <1>0, <1>2, TrunkStepOf, ProvisionMine, DieMine DEF RequestStep, Shape, Local, Batching
    <2>2. pc[r] \in Stage["batch"]
      BY <2>1 DEF Mine
    <2>3. CASE Die(r)
      BY <1>0, <2>3 DEF Die, Goto, Shape, Alone, Batching
    <2>4. CASE TrunkStep(r)
      <3>1. \/ Find(r) \/ CreateScope(r) \/ CreateUnique(r) \/ CreateLegacy(r) \/ CreateInsert(r) \/ Save(r)
            \/ ListCondominiums(r) \/ FindCondominium(r) \/ InsertCondominium(r)
            \/ ImportJson(r) \/ CheckRow(r)
        BY <2>2, <2>4 DEF TrunkStep, CreateTrunk, LoadTrunk, CheckMove, CheckIdentity, CheckClash,
           ImportCsv, ImportOne, LoadCondominium, SaveCondominium,
           LookupTrunk, LookupPlace, LookupTenant, LookupFile, At, Stage, RowLabels
      <3>2. QED BY <1>2, <3>1, RowAlone, PlanAlone
    <2>5. CASE ProvisionStep(r)
      BY <2>2, <2>5 DEF ProvisionStep, FindTenant, InsertTenant, FindPbx, InsertPbx, CreateSchema,
         StatementFails, Undo, UndoFails, ResolveVars, WriteVars, CheckTenant, AddPbx, At, Stage, RowLabels
    <2>6. QED BY <1>2, <2>3, <2>4, <2>5 DEF RequestStep
  <1>3. CASE ~Begin(r) /\ ~(Batching(r) /\ hist[r].moves = 0)
    <2>1. job' = job /\ pc[r] \notin {"idle", "dead"}
      BY <1>0, <1>3, TrunkStepOf, ProvisionMine, DieMine DEF RequestStep, Local, Active, Ended
    <2>2. hist'[r].moves = 0 => hist[r].moves = 0
      BY <1>0
    <2>3. QED BY <1>3, <2>1, <2>2 DEF Alone, Batching
  <1>4. QED BY <1>1, <1>2, <1>3

\* A batch that nobody interferes with, and whose names fit their column, is
\* written whole or not at all, for any number of entries and whatever the tables
\* hold at its start: what was validated before the first write is not refused
\* after it, by the rows it has written itself either.
THEOREM BatchesWhole == Spec => []AloneIsAtomic
  <1> DEFINE Inv == HistOK /\ Joined /\ \A r \in Request : Alone(r)
  <1>1. Init => ScopeInv /\ TypeInv /\ Inv
    <2>1. Init => \A r \in Request : Alone(r)
      BY DEF Init, Alone, Batching
    <2>2. QED BY <2>1, ScopeInit, TypeInit, HistInit, JoinedInit
  <1>2. ScopeInv /\ TypeInv /\ Inv /\ [Next]_vars => ScopeInv' /\ TypeInv' /\ Inv'
    <2> SUFFICES ASSUME ScopeInv, TypeInv, Inv, [Next]_vars PROVE ScopeInv' /\ TypeInv' /\ Inv'
      OBVIOUS
    <2>1. ScopeInv' /\ TypeInv' /\ Joined' /\ Shape
      BY ScopeStep, TypeStep, JoinedStep DEF ScopeInv
    <2>2. ASSUME NEW q \in Request, RequestStep(q) PROVE Inv'
      <3>1. HistOK' /\ Observe(q) /\ \A r \in Request \ {q} : Unmoved(r)
        BY <2>1, <2>2, HistoryOf, RequestMoves DEF RequestStep
      <3>2. ASSUME NEW r \in Request, r # q PROVE Alone(r)'
        BY <3>1, <3>2, StillAlone
      <3>3. Alone(q)'
        BY <2>2, OwnAlone
      <3>4. QED BY <2>1, <3>1, <3>2, <3>3
    <2>3. CASE Outside /\ Observe(None)
      <3>1. HistOK' /\ \A r \in Request : Unmoved(r) /\ r # None
        BY <2>1, <2>3, HistoryOf, OutsideMoves, AdminAssumption
      <3>2. \A r \in Request : Alone(r)'
        BY <2>3, <3>1, StillAlone
      <3>3. QED BY <2>1, <3>1, <3>2
    <2>4. CASE UNCHANGED vars
      <3>1. UNCHANGED <<tenants, pbxs, condos, trunks, legacy, pc, job, mem, hist>>
        BY <2>4 DEF vars, world, tables, local
      <3>2. /\ \A r, x : Written(r, x)' = Written(r, x)
            /\ \A r, x : Importable(r, x)' = Importable(r, x)
            /\ \A r : InHand(r)' = InHand(r)
        BY <3>1 DEF Written, Importable, InScope, PrefixTaken, LegacyClash, LegacyHas, Row, InHand,
           IdentityTaken, RowOf
      <3>3. \A r \in Request : Alone(r)'
        BY <3>1, <3>2 DEF Alone, Batching, Short
      <3>4. QED BY <2>1, <3>1, <3>3 DEF HistOK
    <2>5. QED BY <2>1, <2>2, <2>3, <2>4 DEF Next
  <1>3. Inv => AloneIsAtomic
    <2>1. ASSUME Inv, NEW r \in Request, pc[r] \in {"ok", "failed"}, job[r].op = "batch", job[r].apply,
                 hist[r].moves = 0, \A x \in ToSet(mem[r].rows) : UserOf(x.ident) \notin Long
          PROVE  IF pc[r] = "ok"
                   THEN \A x \in ToSet(mem[r].rows) : \E k \in trunks :
                           k.ident = x.ident /\ ~k.enabled /\ k.tenant = job[r].tenant
                   ELSE mem[r].wrote = 0
      BY <2>1 DEF Alone, Batching, Short, Written
    <2>2. QED BY <2>1 DEF AloneIsAtomic
  <1>4. QED BY <1>1, <1>2, <1>3, PTL DEF Spec

=============================================================================
