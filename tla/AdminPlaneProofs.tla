-------------------------- MODULE AdminPlaneProofs --------------------------
(***************************************************************************)
(* Proofs about AdminPlane: for any requests and any number of them at the *)
(* same time, with deaths, failing statements, registrations, edits and    *)
(* suspensions in between, the tables keep tenants apart.                  *)
(*                                                                         *)
(* The checks a request makes are of rows that may be gone when it         *)
(* commits; what remains true is whose an identifier is.  That is settled  *)
(* when the request that draws it is given its job, or at the start        *)
(* (CondoIs, TrunkIs, PbxIs), and a row that is there agrees with it.      *)
(***************************************************************************)
EXTENDS AdminPlane, FiniteSetTheorems, TLAPS

(***************************************************************************)
(* The steps of a request                                                  *)
(***************************************************************************)

\* Where a request can be that has a row of its own to write.
RowLabels == {"find", "scope", "unique", "legacy", "insert", "save"}

Stage == [create |-> RowLabels \cup {"create"},
          csv |-> RowLabels \cup {"csv"},
          json |-> RowLabels \cup {"json"},
          batch |-> RowLabels \cup {"batch", "condo", "condo_insert", "parse", "check"},
          condo |-> {"condo", "condo_insert"},
          condo_update |-> {"condo_update", "condo_save"},
          lookup |-> {"lookup", "place", "tenant", "file"},
          update |-> {"update", "move", "identity", "clash", "save"},
          provision |-> {"provision", "tenant_insert", "pbx_find", "pbx_insert", "schema", "undo",
                         "resolve", "vars"},
          pbx_create |-> {"pbx_create", "pbx_add"}]

\* A job is as it was asked, but for the tenant and the PBX it may be given.
FromWork(j) ==
    \E w \in Work : \A f \in DOMAIN w \ {"tenant", "pbx"} : f \in DOMAIN j /\ j[f] = w[f]

\* The tenant of a provisioning run is known, and is the one to restore.
TenantKnown(r) ==
    /\ "tenant" \in DOMAIN mem[r].ids
    /\ job[r].restore # None => TenantId(r) = job[r].restore.tenant

Mine(r) ==
    /\ DOMAIN mem[r] = DOMAIN Blank /\ mem[r].n \in Nat /\ mem[r].wrote \in Nat
    /\ pc[r] = "idle" => mem[r] = Blank
    /\ pc[r] # "idle" => FromWork(job[r])
    /\ Active(r) => pc[r] \in Stage[job[r].op]
    /\ Active(r) /\ job[r].op = "update" =>
          mem[r].n = 1 /\ (pc[r] = "update" \/ mem[r].rows = <<job[r].new>>)
    /\ pc[r] \in {"pbx_find", "pbx_insert", "schema"} => TenantKnown(r)

Shape == /\ DOMAIN pc = Request /\ DOMAIN job = Request /\ DOMAIN mem = Request
         /\ \A r \in Request : Mine(r)

Unmoved(r) == pc'[r] = pc[r] /\ job'[r] = job[r] /\ mem'[r] = mem[r]

\* What is known of a job.
LEMMA JobAdmitted ==
    ASSUME NEW j, FromWork(j)
    PROVE  Admitted(j)
  <1>1. PICK w \in Work : \A f \in DOMAIN w \ {"tenant", "pbx"} : f \in DOMAIN j /\ j[f] = w[f]
    BY DEF FromWork
  <1>2. Admitted(w)
    BY WorkAssumption
  <1>3. "op" \in DOMAIN w /\ "op" \in DOMAIN j /\ j.op = w.op
    BY <1>1, <1>2 DEF Admitted
  <1>4. \A f \in {"new", "enabled", "row", "entry", "lines", "entries", "schema", "restore"} :
           f \in DOMAIN w => f \in DOMAIN j /\ j[f] = w[f]
    BY <1>1
  <1>5. QED BY <1>2, <1>3, <1>4 DEF Admitted

LEMMA JobKnown ==
    ASSUME NEW j, FromWork(j)
    PROVE  /\ j.op \in Operations
           /\ j.op \in {"update", "condo_update"} =>
                 DOMAIN j.new \cap {"id", "tenant", "pbx", "status"} = {}
           /\ j.op = "provision" /\ j.restore # None =>
                 <<j.restore.pbx, j.restore.tenant>> \in Deployed
  <1>1. PICK w \in Work : \A f \in DOMAIN w \ {"tenant", "pbx"} : f \in DOMAIN j /\ j[f] = w[f]
    BY DEF FromWork
  <1>2. Admitted(w) /\ j.op = w.op
    BY <1>1, WorkAssumption DEF Admitted
  <1>3. j.op = "provision" => j.restore = w.restore
    BY <1>1, <1>2 DEF Admitted
  <1>4. j.op = "provision" /\ j.restore # None => <<j.restore.pbx, j.restore.tenant>> \in Deployed
    BY <1>2, <1>3 DEF Deployed
  <1>5. QED BY <1>4, JobAdmitted DEF Admitted

\* What a step does to the request that takes it.
LEMMA BeginMine ==
    ASSUME Shape, NEW r \in Request, Begin(r)
    PROVE  Mine(r)' /\ pc'[r] # "idle" /\ \A q \in Request \ {r} : Unmoved(q)
  <1>0. PICK w \in Work : \E j \in Placements(w) :
           job' = [job EXCEPT ![r] = j] /\ pc' = [pc EXCEPT ![r] = j.op] /\ mem' = mem
    BY DEF Begin, Goto
  <1>1. PICK j \in Placements(w) :
           job' = [job EXCEPT ![r] = j] /\ pc' = [pc EXCEPT ![r] = j.op] /\ mem' = mem
    BY <1>0
  <1>2. FromWork(j)
    BY <1>1 DEF Placements, FromWork
  <1>3. j.op \in Operations
    BY <1>2, JobKnown
  <1>4. job'[r] = j /\ pc'[r] = j.op /\ mem'[r] = Blank
    BY <1>1 DEF Shape, Mine, Begin
  <1>5. j.op \in Stage[j.op] /\ j.op \notin {"idle", "pbx_find", "pbx_insert", "schema"}
    BY <1>3 DEF Operations, Stage, RowLabels
  <1>6. mem[r] = Blank
    BY DEF Shape, Mine, Begin
  <1>7. Mine(r)'
    BY <1>2, <1>4, <1>5, <1>6 DEF Mine, Blank, Active, TenantKnown, Shape, Begin
  <1>8. QED BY <1>1, <1>4, <1>5, <1>7 DEF Unmoved, Shape
\* A step of an active request to a label of its operation, or to its end, that
\* changes nobody else's memory.
Local(r) ==
    /\ job' = job /\ DOMAIN pc' = Request
    /\ pc'[r] \in Stage[job[r].op] \cup Ended
    /\ DOMAIN mem' = Request /\ DOMAIN mem'[r] = DOMAIN Blank
    /\ mem'[r].n \in Nat /\ mem'[r].wrote \in Nat
    /\ \A q \in Request \ {r} : pc'[q] = pc[q] /\ mem'[q] = mem[q]

\* What the memory of a request keeps of its operation.
Keeps(r) ==
    /\ job[r].op = "update" =>
          \/ pc'[r] \in Ended
          \/ mem'[r].n = 1 /\ mem'[r].rows = <<job[r].new>>
    /\ pc'[r] \in {"pbx_find", "pbx_insert", "schema"} => TenantKnown(r)'

LEMMA LocalMine ==
    ASSUME Shape, NEW r \in Request, Active(r), Local(r), Keeps(r)
    PROVE  /\ Mine(r)' /\ pc'[r] # "idle" /\ DOMAIN pc' = Request
           /\ \A q \in Request \ {r} : Unmoved(q)
  <1>1. pc'[r] # "idle" /\ DOMAIN pc' = Request /\ \A q \in Request \ {r} : Unmoved(q)
    <2>1. "idle" \notin Stage[job[r].op] \cup Ended
      <3>1. job[r].op \in Operations
        BY JobKnown DEF Shape, Mine, Active
      <3>2. QED BY <3>1 DEF Operations, Stage, RowLabels, Ended
    <2>2. QED BY <2>1 DEF Local, Unmoved, Shape
  <1>2. Mine(r)'
    BY <1>1 DEF Shape, Mine, Local, Keeps, Active
  <1>3. QED BY <1>1, <1>2

\* A request that ends.
LEMMA EndsMine ==
    ASSUME Shape, NEW r \in Request, Active(r), job' = job, mem' = mem,
           NEW l \in Ended, pc' = [pc EXCEPT ![r] = l]
    PROVE  Local(r) /\ Keeps(r)
  BY DEF Shape, Mine, Local, Keeps, Ended

\* The step of a row to the next, or to the end.
LEMMA AdvanceMine ==
    ASSUME Shape, NEW r \in Request, Active(r), job' = job, NEW k \in Nat, Advance(r, k),
           pc[r] \in RowLabels
    PROVE  /\ Local(r) /\ Keeps(r)
           /\ mem'[r].wrote = mem[r].wrote + k /\ mem'[r].rows = mem[r].rows
           /\ mem'[r].ids = mem[r].ids /\ pc'[r] \in {"find", "ok"}
           /\ job[r].op = "update" => pc'[r] = "ok"
  <1>1. /\ mem' = [mem EXCEPT ![r].n = @ + 1, ![r].wrote = @ + k, ![r].seen = None]
        /\ pc' = [pc EXCEPT ![r] = IF mem[r].n < Len(mem[r].rows) THEN "find" ELSE "ok"]
    BY DEF Advance, Goto
  <1>2. Mine(r) /\ job[r].op \in Operations
    BY JobKnown DEF Shape, Mine, Active
  <1>3. /\ mem'[r].n = mem[r].n + 1 /\ mem'[r].wrote = mem[r].wrote + k
        /\ mem'[r].rows = mem[r].rows /\ mem'[r].ids = mem[r].ids
        /\ DOMAIN mem' = Request /\ DOMAIN mem'[r] = DOMAIN Blank
        /\ \A q \in Request \ {r} : mem'[q] = mem[q]
    BY <1>1, <1>2 DEF Shape, Mine, Blank
  <1>4. job[r].op = "update" => Len(mem[r].rows) = 1 /\ mem[r].n = 1
    BY <1>2 DEF Mine, RowLabels
  <1>5. pc'[r] \in {"find", "ok"} /\ (job[r].op = "update" => pc'[r] = "ok")
    <2>1. pc'[r] = IF mem[r].n < Len(mem[r].rows) THEN "find" ELSE "ok"
      BY <1>1 DEF Shape
    <2>2. job[r].op = "update" => ~(mem[r].n < Len(mem[r].rows))
      <3>1. ~(1 < 1)
        OBVIOUS
      <3>2. QED BY <1>4, <3>1, Zenon
    <2>3. QED BY <2>1, <2>2
  <1>6. pc'[r] \in Stage[job[r].op] \cup Ended
    BY <1>2, <1>5 DEF Mine, Stage, RowLabels, Operations, Ended, Active
  <1>7. QED BY <1>1, <1>2, <1>3, <1>5, <1>6 DEF Local, Keeps, Ended, Mine, Shape

LEMMA RefusedMine ==
    ASSUME Shape, NEW r \in Request, Active(r), job' = job, Refused(r), pc[r] \in RowLabels
    PROVE  /\ Local(r) /\ Keeps(r)
           /\ mem'[r].wrote = mem[r].wrote
           /\ pc'[r] \in {"find", "ok", "failed"}
           /\ job[r].op = "update" => pc'[r] = "failed"
  <1>1. CASE job[r].op = "csv"
    BY <1>1, AdvanceMine DEF Refused, Shape, Mine
  <1>2. CASE job[r].op # "csv"
    BY <1>2, EndsMine DEF Refused, Fails, Goto, Ended, Shape
  <1>3. QED BY <1>1, <1>2

\* A step to another label that changes no memory.
LEMMA GotoMine ==
    ASSUME Shape, NEW r \in Request, Active(r), job' = job, mem' = mem,
           NEW l, pc' = [pc EXCEPT ![r] = l], l \in Stage[job[r].op],
           l \notin {"pbx_find", "pbx_insert"},
           l = "schema" => pc[r] = "pbx_find",
           pc[r] # "update"
    PROVE  Local(r) /\ Keeps(r)
  <1>1. Mine(r) /\ job[r].op \in Operations
    BY JobKnown DEF Shape, Mine, Active
  <1>2. pc'[r] = l
    BY DEF Shape
  <1>3. QED BY <1>1, <1>2 DEF Shape, Mine, Local, Keeps, TenantKnown, TenantId, Active

\* Every operation keeps what is known of its request.
LEMMA CreateMine ==
    ASSUME Shape, NEW r \in Request,
           CreateTrunk(r) \/ CreateScope(r) \/ CreateUnique(r) \/ CreateLegacy(r) \/ CreateInsert(r)
    PROVE  Active(r) /\ Local(r) /\ Keeps(r)
  <1>0. Active(r) /\ job' = job /\ Mine(r) /\ job[r].op \in Operations
    <2>1. Active(r) /\ job' = job
      BY DEF CreateTrunk, CreateScope, CreateUnique, CreateLegacy, CreateInsert, At, Active, Ended, world
    <2>2. QED BY <2>1, JobKnown DEF Shape, Mine, Active
  <1>1. CASE CreateTrunk(r)
    <2>1. /\ mem' = [mem EXCEPT ![r].rows = <<job[r].row>>]
          /\ pc' = [pc EXCEPT ![r] = "scope"] /\ pc[r] = "create"
      BY <1>1 DEF CreateTrunk, Goto, At
    <2>2. job[r].op = "create"
      BY <1>0, <2>1 DEF Mine, Stage, RowLabels, Operations
    <2>3. QED BY <1>0, <2>1, <2>2 DEF Local, Keeps, Shape, Mine, Stage, RowLabels, Blank, Ended
  <1>2. CASE CreateScope(r)
    <2>1. pc[r] = "scope" /\ (Refused(r) \/ (pc' = [pc EXCEPT ![r] = "unique"] /\ mem' = mem))
      BY <1>2 DEF CreateScope, Goto, At
    <2>2. "unique" \in Stage[job[r].op]
      BY <1>0, <2>1 DEF Mine, Stage, RowLabels, Operations
    <2>3. QED BY <1>0, <2>1, <2>2, RefusedMine, GotoMine DEF RowLabels
  <1>3. CASE CreateUnique(r)
    <2>1. pc[r] = "unique" /\ (Refused(r) \/ (pc' = [pc EXCEPT ![r] = "legacy"] /\ mem' = mem))
      BY <1>3 DEF CreateUnique, Goto, At
    <2>2. "legacy" \in Stage[job[r].op]
      BY <1>0, <2>1 DEF Mine, Stage, RowLabels, Operations
    <2>3. QED BY <1>0, <2>1, <2>2, RefusedMine, GotoMine DEF RowLabels
  <1>4. CASE CreateLegacy(r)
    <2>1. pc[r] = "legacy" /\ (Refused(r) \/ (pc' = [pc EXCEPT ![r] = "insert"] /\ mem' = mem))
      BY <1>4 DEF CreateLegacy, Goto, At
    <2>2. "insert" \in Stage[job[r].op]
      BY <1>0, <2>1 DEF Mine, Stage, RowLabels, Operations
    <2>3. QED BY <1>0, <2>1, <2>2, RefusedMine, GotoMine DEF RowLabels
  <1>5. CASE CreateInsert(r)
    BY <1>0, <1>5, RefusedMine, AdvanceMine, EndsMine
       DEF CreateInsert, Fails, Goto, At, RowLabels, Ended
  <1>6. QED BY <1>0, <1>1, <1>2, <1>3, <1>4, <1>5

LEMMA UpdateMine ==
    ASSUME Shape, NEW r \in Request,
           LoadTrunk(r) \/ CheckMove(r) \/ CheckIdentity(r) \/ CheckClash(r) \/ Save(r)
    PROVE  Active(r) /\ Local(r) /\ Keeps(r)
  <1>0. Active(r) /\ job' = job /\ Mine(r) /\ job[r].op \in Operations
    <2>1. Active(r) /\ job' = job
      BY DEF LoadTrunk, CheckMove, CheckIdentity, CheckClash, Save, At, Active, Ended, world
    <2>2. QED BY <2>1, JobKnown DEF Shape, Mine, Active
  <1>1. CASE LoadTrunk(r)
    <2>1. CASE pc' = [pc EXCEPT ![r] = "failed"] /\ mem' = mem
      BY <1>0, <2>1, EndsMine DEF Ended
    <2>2. CASE ~(pc' = [pc EXCEPT ![r] = "failed"] /\ mem' = mem)
      <3>1. PICK k : /\ mem' = [mem EXCEPT ![r].seen = k, ![r].rows = <<job[r].new>>]
                     /\ pc' = [pc EXCEPT ![r] = "move"] /\ pc[r] = "update"
        BY <1>1, <2>2 DEF LoadTrunk, Fails, Goto, At
      <3>2. job[r].op = "update"
        BY <1>0, <3>1 DEF Mine, Stage, RowLabels, Operations
      <3>3. mem'[r].n = 1 /\ mem'[r].rows = <<job[r].new>> /\ mem'[r].wrote = mem[r].wrote
        BY <1>0, <3>1, <3>2 DEF Shape, Mine, Blank
      <3>4. QED BY <1>0, <3>1, <3>2, <3>3 DEF Local, Keeps, Shape, Mine, Stage, Blank, Ended
    <2>3. QED BY <2>1, <2>2
  <1>2. CASE CheckMove(r)
    <2>1. pc[r] = "move" /\ mem' = mem
          /\ (pc' = [pc EXCEPT ![r] = "failed"] \/ pc' = [pc EXCEPT ![r] = "identity"])
      BY <1>2 DEF CheckMove, Goto, At, Fails
    <2>2. "identity" \in Stage[job[r].op]
      BY <1>0, <2>1 DEF Mine, Stage, RowLabels, Operations
    <2>3. QED BY <1>0, <2>1, <2>2, EndsMine, GotoMine DEF Ended
  <1>3. CASE CheckIdentity(r)
    <2>1. pc[r] = "identity" /\ mem' = mem
          /\ (pc' = [pc EXCEPT ![r] = "failed"] \/ pc' = [pc EXCEPT ![r] = "clash"])
      BY <1>3 DEF CheckIdentity, Goto, At, Fails
    <2>2. "clash" \in Stage[job[r].op]
      BY <1>0, <2>1 DEF Mine, Stage, RowLabels, Operations
    <2>3. QED BY <1>0, <2>1, <2>2, EndsMine, GotoMine DEF Ended
  <1>4. CASE CheckClash(r)
    <2>1. pc[r] = "clash" /\ mem' = mem
          /\ (pc' = [pc EXCEPT ![r] = "failed"] \/ pc' = [pc EXCEPT ![r] = "save"])
      BY <1>4 DEF CheckClash, Goto, At, Fails
    <2>2. "save" \in Stage[job[r].op]
      BY <1>0, <2>1 DEF Mine, Stage, RowLabels, Operations
    <2>3. QED BY <1>0, <2>1, <2>2, EndsMine, GotoMine DEF Ended
  <1>5. CASE Save(r)
    <2>1. CASE Refused(r) \/ Advance(r, 0) \/ Advance(r, 1)
      BY <1>0, <1>5, <2>1, RefusedMine, AdvanceMine DEF Save, At, RowLabels
    <2>2. CASE Fails(r)
      BY <1>0, <2>2, EndsMine DEF Fails, Goto, Ended
    <2>3. QED BY <1>5, <2>1, <2>2 DEF Save, Vanished
  <1>6. QED BY <1>0, <1>1, <1>2, <1>3, <1>4, <1>5

LEMMA ImportMine ==
    ASSUME Shape, NEW r \in Request,
           \/ Find(r) \/ ImportCsv(r) \/ ImportOne(r)
           \/ ListCondominiums(r) \/ ImportJson(r) \/ CheckRow(r)
    PROVE  Active(r) /\ Local(r) /\ Keeps(r)
  <1>0. Active(r) /\ job' = job /\ Mine(r) /\ job[r].op \in Operations
    <2>1. Active(r) /\ job' = job
      BY DEF Find, ImportCsv, ImportOne, ListCondominiums, ImportJson, CheckRow, At, Active, Ended, world
    <2>2. QED BY <2>1, JobKnown DEF Shape, Mine, Active
  <1>1. CASE Find(r)
    <2>0. pc[r] = "find"
      BY <1>1 DEF Find, At
    <2>1. CASE Refused(r)
      BY <1>0, <2>0, <2>1, RefusedMine DEF RowLabels
    <2>2. CASE pc' = [pc EXCEPT ![r] = "scope"] /\ mem' = mem
      <3>1. "scope" \in Stage[job[r].op]
        BY <1>0, <2>0 DEF Mine, Stage, RowLabels, Operations
      <3>2. QED BY <1>0, <2>0, <2>2, <3>1 DEF Local, Keeps, Shape, Mine
    <2>3. CASE \E k \in trunks : mem' = [mem EXCEPT ![r].seen = k] /\ pc' = [pc EXCEPT ![r] = "save"]
      <3>1. "save" \in Stage[job[r].op] /\ job[r].op # "update"
        BY <1>0, <2>0 DEF Mine, Stage, RowLabels, Operations
      <3>2. QED BY <1>0, <2>3, <3>1 DEF Local, Keeps, Shape, Mine, Blank
    <2>4. QED BY <1>1, <2>1, <2>2, <2>3 DEF Find, Goto
  <1>2. CASE ImportCsv(r)
    <2>1. /\ pc[r] = "csv"
          /\ \/ mem' = mem /\ pc' = [pc EXCEPT ![r] = "failed"]
             \/ \E x : \E l \in {"find", "ok"} :
                   mem' = [mem EXCEPT ![r].rows = x] /\ pc' = [pc EXCEPT ![r] = l]
      BY <1>2 DEF ImportCsv, Goto, At, Fails
    <2>2. job[r].op = "csv"
      BY <1>0, <2>1 DEF Mine, Stage, RowLabels, Operations
    <2>3. CASE mem' = mem /\ pc' = [pc EXCEPT ![r] = "failed"]
      BY <1>0, <2>3, EndsMine DEF Ended
    <2>4. CASE ~(mem' = mem /\ pc' = [pc EXCEPT ![r] = "failed"])
      <3>1. PICK x, l : l \in {"find", "ok"} /\ mem' = [mem EXCEPT ![r].rows = x] /\ pc' = [pc EXCEPT ![r] = l]
        BY <2>1, <2>4
      <3>2. QED BY <1>0, <2>2, <3>1 DEF Local, Keeps, Shape, Mine, Blank, Stage, RowLabels, Ended
    <2>5. QED BY <2>3, <2>4
  <1>3. CASE ImportOne(r)
    <2>1. /\ pc[r] = "json"
          /\ \/ mem' = mem /\ pc' = [pc EXCEPT ![r] = "failed"]
             \/ \E x : \E l \in {"find", "ok"} :
                   mem' = [mem EXCEPT ![r].rows = x] /\ pc' = [pc EXCEPT ![r] = l]
      BY <1>3 DEF ImportOne, Goto, At, Fails
    <2>2. job[r].op = "json"
      BY <1>0, <2>1 DEF Mine, Stage, RowLabels, Operations
    <2>3. CASE mem' = mem /\ pc' = [pc EXCEPT ![r] = "failed"]
      BY <1>0, <2>3, EndsMine DEF Ended
    <2>4. CASE ~(mem' = mem /\ pc' = [pc EXCEPT ![r] = "failed"])
      <3>1. PICK x, l : l \in {"find", "ok"} /\ mem' = [mem EXCEPT ![r].rows = x] /\ pc' = [pc EXCEPT ![r] = l]
        BY <2>1, <2>4
      <3>2. QED BY <1>0, <2>2, <3>1 DEF Local, Keeps, Shape, Mine, Blank, Stage, RowLabels, Ended
    <2>5. QED BY <2>3, <2>4
  <1>4. CASE ListCondominiums(r)
    <2>1. /\ pc[r] = "batch"
          /\ \E x : \E l \in {"condo", "parse"} :
                mem' = [mem EXCEPT ![r].ids = x] /\ pc' = [pc EXCEPT ![r] = l]
      BY <1>4 DEF ListCondominiums, Goto, At
    <2>2. job[r].op = "batch"
      BY <1>0, <2>1 DEF Mine, Stage, RowLabels, Operations
    <2>3. PICK x, l : l \in {"condo", "parse"} /\ mem' = [mem EXCEPT ![r].ids = x] /\ pc' = [pc EXCEPT ![r] = l]
      BY <2>1
    <2>4. QED BY <1>0, <2>2, <2>3 DEF Local, Keeps, Shape, Mine, Blank, Stage, RowLabels, Ended
  <1>5. CASE ImportJson(r)
    <2>1. /\ pc[r] = "parse"
          /\ \/ mem' = mem /\ pc' = [pc EXCEPT ![r] = "failed"]
             \/ mem' = mem /\ pc' = [pc EXCEPT ![r] = "ok"]
             \/ \E x : mem' = [mem EXCEPT ![r].rows = x] /\ pc' = [pc EXCEPT ![r] = "check"]
      BY <1>5 DEF ImportJson, Goto, At, Fails
    <2>2. job[r].op = "batch"
      BY <1>0, <2>1 DEF Mine, Stage, RowLabels, Operations
    <2>3. CASE mem' = mem /\ (pc' = [pc EXCEPT ![r] = "failed"] \/ pc' = [pc EXCEPT ![r] = "ok"])
      BY <1>0, <2>3, EndsMine DEF Ended
    <2>4. CASE \E x : mem' = [mem EXCEPT ![r].rows = x] /\ pc' = [pc EXCEPT ![r] = "check"]
      BY <1>0, <2>2, <2>4 DEF Local, Keeps, Shape, Mine, Blank, Stage, RowLabels, Ended
    <2>5. QED BY <2>1, <2>3, <2>4
  <1>6. CASE CheckRow(r)
    <2>1. /\ pc[r] = "check"
          /\ \/ mem' = mem /\ pc' = [pc EXCEPT ![r] = "failed"]
             \/ \E x \in {1, mem[r].n + 1} : \E l \in {"find", "check"} :
                   mem' = [mem EXCEPT ![r].n = x] /\ pc' = [pc EXCEPT ![r] = l]
      BY <1>6 DEF CheckRow, Goto, At, Fails
    <2>2. job[r].op = "batch"
      BY <1>0, <2>1 DEF Mine, Stage, RowLabels, Operations
    <2>3. CASE mem' = mem /\ pc' = [pc EXCEPT ![r] = "failed"]
      BY <1>0, <2>3, EndsMine DEF Ended
    <2>4. CASE ~(mem' = mem /\ pc' = [pc EXCEPT ![r] = "failed"])
      <3>1. PICK x, l : /\ x \in {1, mem[r].n + 1} /\ l \in {"find", "check"}
                        /\ mem' = [mem EXCEPT ![r].n = x] /\ pc' = [pc EXCEPT ![r] = l]
        BY <2>1, <2>4
      <3>2. x \in Nat
        BY <1>0, <3>1 DEF Mine
      <3>3. QED BY <1>0, <2>2, <3>1, <3>2 DEF Local, Keeps, Shape, Mine, Blank, Stage, RowLabels, Ended
    <2>5. QED BY <2>3, <2>4
  <1>7. QED BY <1>0, <1>1, <1>2, <1>3, <1>4, <1>5, <1>6

LEMMA CondominiumMine ==
    ASSUME Shape, NEW r \in Request,
           FindCondominium(r) \/ InsertCondominium(r) \/ LoadCondominium(r) \/ SaveCondominium(r)
    PROVE  Active(r) /\ Local(r) /\ Keeps(r)
  <1>0. Active(r) /\ job' = job /\ Mine(r) /\ job[r].op \in Operations
    <2>1. Active(r) /\ job' = job
      BY DEF FindCondominium, InsertCondominium, LoadCondominium, SaveCondominium, At, Active, Ended, world
    <2>2. QED BY <2>1, JobKnown DEF Shape, Mine, Active
  <1> SUFFICES Local(r) /\ Keeps(r)
    BY <1>0
  <1>1. ASSUME mem' = mem, pc' = [pc EXCEPT ![r] = "failed"] \/ pc' = [pc EXCEPT ![r] = "ok"]
        PROVE  Local(r) /\ Keeps(r)
    BY <1>0, <1>1, EndsMine DEF Ended
  <1>2. CASE FindCondominium(r)
    <2>1. /\ pc[r] = "condo"
          /\ \/ mem' = mem /\ (pc' = [pc EXCEPT ![r] = "failed"] \/ pc' = [pc EXCEPT ![r] = "ok"])
             \/ job[r].op = "batch" /\ mem' = mem /\ pc' = [pc EXCEPT ![r] = "parse"]
             \/ \E x : mem' = [mem EXCEPT ![r].name = x] /\ pc' = [pc EXCEPT ![r] = "condo_insert"]
             \/ \E x : mem' = [mem EXCEPT ![r].ids = x] /\ pc' = pc
      BY <1>2 DEF FindCondominium, Found, Goto, At, Fails
    <2>2. job[r].op \in {"batch", "condo"}
      BY <1>0, <2>1 DEF Mine, Stage, RowLabels, Operations
    <2>3. CASE job[r].op = "batch" /\ mem' = mem /\ pc' = [pc EXCEPT ![r] = "parse"]
      BY <1>0, <2>3 DEF Local, Keeps, Shape, Mine, Stage
    <2>4. CASE \E x : mem' = [mem EXCEPT ![r].name = x] /\ pc' = [pc EXCEPT ![r] = "condo_insert"]
      BY <1>0, <2>2, <2>4 DEF Local, Keeps, Shape, Mine, Stage, Blank
    <2>5. CASE \E x : mem' = [mem EXCEPT ![r].ids = x] /\ pc' = pc
      BY <1>0, <2>1, <2>2, <2>5 DEF Local, Keeps, Shape, Mine, Stage, Blank
    <2>6. QED BY <1>1, <2>1, <2>3, <2>4, <2>5
  <1>3. CASE InsertCondominium(r)
    <2>1. /\ pc[r] = "condo_insert"
          /\ \/ mem' = mem /\ pc' = [pc EXCEPT ![r] = "failed"]
             \/ \E x : mem' = [mem EXCEPT ![r].ids = x] /\ pc' = [pc EXCEPT ![r] = "condo"]
      BY <1>3 DEF InsertCondominium, Found, Goto, At, Fails
    <2>2. job[r].op \in {"batch", "condo"}
      BY <1>0, <2>1 DEF Mine, Stage, RowLabels, Operations
    <2>3. CASE \E x : mem' = [mem EXCEPT ![r].ids = x] /\ pc' = [pc EXCEPT ![r] = "condo"]
      BY <1>0, <2>2, <2>3 DEF Local, Keeps, Shape, Mine, Stage, Blank
    <2>4. QED BY <1>1, <2>1, <2>3
  <1>4. CASE LoadCondominium(r)
    <2>1. /\ pc[r] = "condo_update"
          /\ \/ mem' = mem /\ pc' = [pc EXCEPT ![r] = "failed"]
             \/ \E x : mem' = [mem EXCEPT ![r].seen = x] /\ pc' = [pc EXCEPT ![r] = "condo_save"]
      BY <1>4 DEF LoadCondominium, Goto, At, Fails
    <2>2. job[r].op = "condo_update"
      BY <1>0, <2>1 DEF Mine, Stage, RowLabels, Operations
    <2>3. CASE \E x : mem' = [mem EXCEPT ![r].seen = x] /\ pc' = [pc EXCEPT ![r] = "condo_save"]
      BY <1>0, <2>2, <2>3 DEF Local, Keeps, Shape, Mine, Stage, Blank
    <2>4. QED BY <1>1, <2>1, <2>3
  <1>5. CASE SaveCondominium(r)
    BY <1>1, <1>5 DEF SaveCondominium, Fails, Goto
  <1>6. QED BY <1>2, <1>3, <1>4, <1>5

LEMMA LookupMine ==
    ASSUME Shape, NEW r \in Request,
           LookupTrunk(r) \/ LookupPlace(r) \/ LookupTenant(r) \/ LookupFile(r)
    PROVE  Active(r) /\ Local(r) /\ Keeps(r)
  <1>0. Active(r) /\ job' = job /\ Mine(r) /\ job[r].op \in Operations
    <2>1. Active(r) /\ job' = job
      BY DEF LookupTrunk, LookupPlace, LookupTenant, LookupFile, At, Active, Ended, world
    <2>2. QED BY <2>1, JobKnown DEF Shape, Mine, Active
  <1> SUFFICES Local(r) /\ Keeps(r)
    BY <1>0
  <1>1. /\ pc[r] \in {"lookup", "place", "tenant", "file"}
        /\ \E l \in {"file", "place", "tenant", "ok", "failed"} :
              /\ pc' = [pc EXCEPT ![r] = l]
              /\ \/ mem' = mem
                 \/ \E x : mem' = [mem EXCEPT ![r].seen = x]
                 \/ \E x : mem' = [mem EXCEPT ![r].answer = x]
    <2>1. CASE LookupTrunk(r)
      BY <2>1 DEF LookupTrunk, At, Goto
    <2>2. CASE LookupPlace(r)
      BY <2>2 DEF LookupPlace, At, Goto
    <2>3. CASE LookupTenant(r)
      BY <2>3 DEF LookupTenant, At, Goto
    <2>4. CASE LookupFile(r)
      BY <2>4 DEF LookupFile, At, Goto
    <2>5. QED BY <2>1, <2>2, <2>3, <2>4
  <1>2. job[r].op = "lookup"
    BY <1>0, <1>1 DEF Mine, Stage, RowLabels, Operations
  <1>3. PICK l \in {"file", "place", "tenant", "ok", "failed"} :
              /\ pc' = [pc EXCEPT ![r] = l]
              /\ \/ mem' = mem
                 \/ \E x : mem' = [mem EXCEPT ![r].seen = x]
                 \/ \E x : mem' = [mem EXCEPT ![r].answer = x]
    BY <1>1
  <1>4. /\ DOMAIN mem' = Request /\ DOMAIN mem'[r] = DOMAIN Blank
        /\ mem'[r].n = mem[r].n /\ mem'[r].wrote = mem[r].wrote
        /\ \A q \in Request \ {r} : mem'[q] = mem[q]
    BY <1>0, <1>3 DEF Shape, Mine, Blank
  <1>5. pc'[r] = l /\ DOMAIN pc' = Request /\ \A q \in Request \ {r} : pc'[q] = pc[q]
    BY <1>3 DEF Shape
  <1>6. QED BY <1>0, <1>2, <1>3, <1>4, <1>5 DEF Local, Keeps, Mine, Stage, Ended

LEMMA ProvisionMine ==
    ASSUME Shape, NEW r \in Request, ProvisionStep(r)
    PROVE  Active(r) /\ Local(r) /\ Keeps(r)
  <1>0. Active(r) /\ job' = job /\ Mine(r) /\ job[r].op \in Operations
    <2>1. Active(r) /\ job' = job
      BY DEF ProvisionStep, FindTenant, InsertTenant, FindPbx, InsertPbx, CreateSchema, StatementFails,
             Undo, UndoFails, ResolveVars, WriteVars, CheckTenant, AddPbx, At, Active, Ended, world
    <2>2. QED BY <2>1, JobKnown DEF Shape, Mine, Active
  <1> SUFFICES Local(r) /\ Keeps(r)
    BY <1>0
  <1>1. ASSUME mem' = mem, \E l \in Ended : pc' = [pc EXCEPT ![r] = l]
        PROVE  Local(r) /\ Keeps(r)
    BY <1>0, <1>1, EndsMine
  <1>2. ASSUME job[r].op = "provision", mem' = mem, pc' = [pc EXCEPT ![r] = "undo"]
        PROVE  Local(r) /\ Keeps(r)
    BY <1>0, <1>2 DEF Local, Keeps, Shape, Mine, Stage
  <1>3. pc[r] \in {"provision", "tenant_insert", "pbx_find", "pbx_insert", "schema", "undo",
                   "resolve", "vars"} => job[r].op = "provision"
    BY <1>0 DEF Mine, Stage, RowLabels, Operations
  <1>4. CASE FindTenant(r)
    <2>1. pc[r] = "provision"
      BY <1>4 DEF FindTenant, At
    <2>2. CASE mem' = mem /\ pc' = [pc EXCEPT ![r] = "tenant_insert"]
      BY <1>0, <1>3, <2>1, <2>2 DEF Local, Keeps, Shape, Mine, Stage
    <2>3. CASE mem' = mem /\ pc' = [pc EXCEPT ![r] = "undo"]
      BY <1>2, <1>3, <2>1, <2>3
    <2>4. CASE \E x : /\ job[r].restore # None => x = NewTenantId(r)
                      /\ mem' = [mem EXCEPT ![r].ids = With(@, "tenant", x)]
                      /\ pc' = [pc EXCEPT ![r] = "pbx_find"]
      <3>1. PICK x : /\ job[r].restore # None => x = NewTenantId(r)
                     /\ mem' = [mem EXCEPT ![r].ids = With(@, "tenant", x)]
                     /\ pc' = [pc EXCEPT ![r] = "pbx_find"]
        BY <2>4
      <3>2. mem'[r].ids = With(mem[r].ids, "tenant", x)
        BY <1>0, <3>1 DEF Shape, Mine, Blank
      <3>3. "tenant" \in DOMAIN mem'[r].ids /\ mem'[r].ids["tenant"] = x
        BY <3>2 DEF With
      <3>4. TenantKnown(r)'
        BY <1>0, <3>1, <3>3 DEF TenantKnown, TenantId, NewTenantId
      <3>5. QED BY <1>0, <1>3, <2>1, <3>1, <3>4 DEF Local, Keeps, Shape, Mine, Stage, Blank
    <2>5. QED BY <1>4, <2>2, <2>3, <2>4 DEF FindTenant, Goto, Knows
  <1>5. CASE InsertTenant(r)
    <2>1. pc[r] = "tenant_insert"
      BY <1>5 DEF InsertTenant, At
    <2>2. CASE mem' = mem /\ pc' = [pc EXCEPT ![r] = "undo"]
      BY <1>2, <1>3, <2>1, <2>2
    <2>3. CASE /\ mem' = [mem EXCEPT ![r].ids = With(@, "tenant", NewTenantId(r)),
                                     ![r].own = @ \cup {"tenant"}]
               /\ pc' = [pc EXCEPT ![r] = "pbx_find"]
      <3>1. mem'[r].ids = With(mem[r].ids, "tenant", NewTenantId(r))
        BY <1>0, <2>3 DEF Shape, Mine, Blank
      <3>2. "tenant" \in DOMAIN mem'[r].ids /\ mem'[r].ids["tenant"] = NewTenantId(r)
        BY <3>1 DEF With
      <3>3. TenantKnown(r)'
        BY <1>0, <3>2 DEF TenantKnown, TenantId, NewTenantId
      <3>4. QED BY <1>0, <1>3, <2>1, <2>3, <3>3 DEF Local, Keeps, Shape, Mine, Stage, Blank
    <2>4. QED BY <1>5, <2>2, <2>3 DEF InsertTenant, Goto, Made
  <1>6. CASE FindPbx(r)
    <2>1. pc[r] = "pbx_find" /\ TenantKnown(r)
      BY <1>0, <1>6 DEF FindPbx, At, Mine
    <2>2. CASE mem' = mem /\ pc' = [pc EXCEPT ![r] = "pbx_insert"]
      BY <1>0, <1>3, <2>1, <2>2 DEF Local, Keeps, Shape, Mine, Stage, TenantKnown, TenantId
    <2>3. CASE mem' = mem /\ pc' = [pc EXCEPT ![r] = "undo"]
      BY <1>2, <1>3, <2>1, <2>3
    <2>4. CASE \E x : /\ mem' = [mem EXCEPT ![r].ids = With(@, "pbx", x)]
                      /\ pc' = [pc EXCEPT ![r] = "schema"]
      <3>1. PICK x : mem' = [mem EXCEPT ![r].ids = With(@, "pbx", x)]
        BY <2>4
      <3>2. mem'[r].ids = With(mem[r].ids, "pbx", x)
        BY <1>0, <3>1 DEF Shape, Mine, Blank
      <3>3. "tenant" \in DOMAIN mem'[r].ids /\ mem'[r].ids["tenant"] = mem[r].ids["tenant"]
        BY <2>1, <3>2 DEF With, TenantKnown
      <3>4. TenantKnown(r)'
        BY <1>0, <2>1, <3>3 DEF TenantKnown, TenantId
      <3>5. QED BY <1>0, <1>3, <2>1, <2>4, <3>4 DEF Local, Keeps, Shape, Mine, Stage, Blank
    <2>5. QED BY <1>6, <2>2, <2>3, <2>4 DEF FindPbx, Goto, Knows
  <1>7. CASE InsertPbx(r)
    <2>1. pc[r] = "pbx_insert" /\ TenantKnown(r)
      BY <1>0, <1>7 DEF InsertPbx, At, Mine
    <2>2. CASE mem' = mem /\ pc' = [pc EXCEPT ![r] = "undo"]
      BY <1>2, <1>3, <2>1, <2>2
    <2>3. CASE /\ mem' = [mem EXCEPT ![r].ids = With(@, "pbx", NewPbxId(r)), ![r].own = @ \cup {"pbx"}]
               /\ pc' = [pc EXCEPT ![r] = "schema"]
      <3>1. mem'[r].ids = With(mem[r].ids, "pbx", NewPbxId(r))
        BY <1>0, <2>3 DEF Shape, Mine, Blank
      <3>2. "tenant" \in DOMAIN mem'[r].ids /\ mem'[r].ids["tenant"] = mem[r].ids["tenant"]
        BY <2>1, <3>1 DEF With, TenantKnown
      <3>3. TenantKnown(r)'
        BY <1>0, <2>1, <3>2 DEF TenantKnown, TenantId
      <3>4. QED BY <1>0, <1>3, <2>1, <2>3, <3>3 DEF Local, Keeps, Shape, Mine, Stage, Blank
    <2>4. QED BY <1>7, <2>2, <2>3 DEF InsertPbx, Goto, Made
  <1>8. CASE CreateSchema(r)
    <2>1. CASE mem' = mem /\ pc' = [pc EXCEPT ![r] = "resolve"]
      BY <1>0, <1>3, <1>8, <2>1 DEF CreateSchema, At, Local, Keeps, Shape, Mine, Stage
    <2>2. QED BY <1>1, <1>8, <2>1 DEF CreateSchema, Goto, Ended
  <1>9. CASE StatementFails(r) \/ UndoFails(r)
    BY <1>1, <1>2, <1>3, <1>9 DEF StatementFails, UndoFails, Goto, Ended
  <1>10. CASE Undo(r)
    <2>1. mem' = [mem EXCEPT ![r].own = {}] /\ pc' = [pc EXCEPT ![r] = "failed"]
      BY <1>10 DEF Undo, Goto
    <2>2. QED BY <1>0, <2>1 DEF Local, Keeps, Shape, Mine, Blank, Ended
  <1>11. CASE ResolveVars(r)
    <2>1. pc[r] = "resolve"
      BY <1>11 DEF ResolveVars, At
    <2>2. CASE \E x : mem' = [mem EXCEPT ![r].name = x] /\ pc' = [pc EXCEPT ![r] = "vars"]
      BY <1>0, <1>3, <2>1, <2>2 DEF Local, Keeps, Shape, Mine, Stage, Blank
    <2>3. QED BY <1>1, <1>11, <2>2 DEF ResolveVars, Goto, Fails, Ended
  <1>12. CASE WriteVars(r) \/ AddPbx(r)
    BY <1>1, <1>12 DEF WriteVars, AddPbx, Goto, Fails, Ended
  <1>13. CASE CheckTenant(r)
    <2>1. pc[r] = "pbx_create"
      BY <1>13 DEF CheckTenant, At
    <2>2. job[r].op = "pbx_create"
      BY <1>0, <2>1 DEF Mine, Stage, RowLabels, Operations
    <2>3. CASE mem' = mem /\ pc' = [pc EXCEPT ![r] = "pbx_add"]
      BY <1>0, <2>2, <2>3 DEF Local, Keeps, Shape, Mine, Stage
    <2>4. QED BY <1>1, <1>13, <2>3 DEF CheckTenant, Goto, Fails, Ended
  <1>14. QED BY <1>4, <1>5, <1>6, <1>7, <1>8, <1>9, <1>10, <1>11, <1>12, <1>13 DEF ProvisionStep

-----------------------------------------------------------------------------
(***************************************************************************)
(* What no step of anybody undoes                                          *)
(***************************************************************************)

\* The tenant of what the request may create is settled.
Settled(q) ==
    /\ pc[q] # "idle"
    /\ job[q].op = "provision" =>
          pc[q] \notin {"provision", "tenant_insert"} /\ "tenant" \in DOMAIN mem[q].ids

TenantOf(q) == IF job[q].op = "provision" THEN TenantId(q) ELSE job[q].tenant

Steady(q) ==
    /\ pc[q] # "idle" => pc'[q] # "idle" /\ job'[q] = job[q]
    /\ Settled(q) => Settled(q)' /\ TenantOf(q)' = TenantOf(q)

\* TrunkStep is of requests that provision nothing.
LEMMA TrunkStepOf ==
    ASSUME Shape, NEW r \in Request, TrunkStep(r)
    PROVE  Active(r) /\ Local(r) /\ Keeps(r) /\ job[r].op # "provision"
  <1>1. Active(r) /\ Local(r) /\ Keeps(r)
    BY CreateMine, UpdateMine, ImportMine, CondominiumMine, LookupMine DEF TrunkStep
  <1>2. pc[r] \in RowLabels \cup {"create", "update", "move", "identity", "clash", "csv", "json", "batch",
                  "parse", "check", "condo", "condo_insert", "condo_update", "condo_save",
                  "lookup", "place", "tenant", "file"}
    BY DEF TrunkStep, CreateTrunk, CreateScope, CreateUnique, CreateLegacy, CreateInsert,
           LoadTrunk, CheckMove, CheckIdentity, CheckClash, Save, Find, ImportCsv, ImportOne,
           ListCondominiums, ImportJson, CheckRow, FindCondominium, InsertCondominium,
           LoadCondominium, SaveCondominium, LookupTrunk, LookupPlace, LookupTenant, LookupFile,
           At, RowLabels
  <1>3. job[r].op # "provision"
    BY <1>1, <1>2 DEF Shape, Mine, Stage, RowLabels
  <1>4. QED BY <1>1, <1>3

LEMMA DieMine ==
    ASSUME Shape, NEW r \in Request, Die(r)
    PROVE  Active(r) /\ Local(r) /\ Keeps(r) /\ mem' = mem
  BY EndsMine DEF Die, Goto, Ended

\* A settled tenant stays: no step of the run itself changes it either.
LEMMA ProvisionSteady ==
    ASSUME Shape, NEW r \in Request, ProvisionStep(r), Settled(r), job[r].op = "provision"
    PROVE  Settled(r)' /\ TenantOf(r)' = TenantOf(r)
  <1>0. /\ Active(r) /\ Mine(r) /\ job' = job /\ DOMAIN mem = Request /\ DOMAIN pc = Request
        /\ pc'[r] # "idle"
    BY ProvisionMine, LocalMine DEF Local, Shape
  <1>1. pc[r] \notin {"provision", "tenant_insert"} /\ "tenant" \in DOMAIN mem[r].ids
    BY DEF Settled
  <1>2. \/ mem'[r].ids = mem[r].ids
        \/ \E x : mem'[r].ids = With(mem[r].ids, "pbx", x)
    <2>1. CASE FindPbx(r) \/ InsertPbx(r)
      <3>1. \/ mem' = mem
            \/ \E x : mem' = [mem EXCEPT ![r].ids = With(@, "pbx", x)]
            \/ \E x : mem' = [mem EXCEPT ![r].ids = With(@, "pbx", x), ![r].own = @ \cup {"pbx"}]
        BY <2>1 DEF FindPbx, InsertPbx, Knows, Made
      <3>2. "ids" \in DOMAIN mem[r] /\ r \in DOMAIN mem
        BY <1>0 DEF Mine, Blank
      <3>3. CASE mem' = mem
        BY <3>3
      <3>4. CASE \E x : mem' = [mem EXCEPT ![r].ids = With(@, "pbx", x)]
        BY <3>2, <3>4
      <3>5. CASE \E x : mem' = [mem EXCEPT ![r].ids = With(@, "pbx", x), ![r].own = @ \cup {"pbx"}]
        BY <3>2, <3>5
      <3>6. QED BY <3>1, <3>3, <3>4, <3>5
    <2>2. CASE CreateSchema(r) \/ StatementFails(r) \/ UndoFails(r) \/ WriteVars(r)
      BY <2>2 DEF CreateSchema, StatementFails, UndoFails, WriteVars
    <2>3. CASE Undo(r)
      <3>1. mem' = [mem EXCEPT ![r].own = {}]
        BY <2>3 DEF Undo
      <3>2. QED BY <1>0, <3>1 DEF Mine, Blank
    <2>4. CASE ResolveVars(r)
      <3>1. mem' = mem \/ \E x : mem' = [mem EXCEPT ![r].name = x]
        BY <2>4 DEF ResolveVars, Fails
      <3>2. QED BY <1>0, <3>1 DEF Mine, Blank
    <2>5. CASE CheckTenant(r) \/ AddPbx(r)
      BY <1>0, <2>5 DEF CheckTenant, AddPbx, At, Mine, Stage
    <2>6. QED
      BY <1>1, <2>1, <2>2, <2>3, <2>4, <2>5 DEF ProvisionStep, FindTenant, InsertTenant, At
  <1>3. "tenant" \in DOMAIN mem'[r].ids /\ mem'[r].ids["tenant"] = mem[r].ids["tenant"]
    BY <1>1, <1>2 DEF With
  <1>4. pc'[r] \notin {"provision", "tenant_insert"}
    BY <1>0, <1>1 DEF ProvisionStep, FindTenant, InsertTenant, FindPbx, InsertPbx, CreateSchema,
       StatementFails, Undo, UndoFails, ResolveVars, WriteVars, CheckTenant, AddPbx, At, Goto, Fails
  <1>5. QED BY <1>0, <1>3, <1>4 DEF Settled, TenantOf, TenantId

\* A step of a request: its shape, and that nobody else moves.
LEMMA RequestMoves ==
    ASSUME Shape, NEW r \in Request, RequestStep(r)
    PROVE  /\ Shape' /\ \A q \in Request \ {r} : Unmoved(q)
           /\ \A q \in Request : Steady(q)
  <1>1. CASE Begin(r)
    <2>1. Mine(r)' /\ pc'[r] # "idle" /\ \A q \in Request \ {r} : Unmoved(q)
      BY <1>1, BeginMine
    <2>2. Shape'
      BY <1>1, <2>1 DEF Shape, Begin, Goto, Unmoved, Mine, Active, TenantKnown, TenantId, FromWork
    <2>3. \A q \in Request : Steady(q)
      BY <1>1, <2>1 DEF Begin, Steady, Settled, TenantOf, TenantId, Unmoved
    <2>4. QED BY <2>1, <2>2, <2>3
  <1>2. CASE TrunkStep(r) \/ ProvisionStep(r) \/ Die(r)
    <2>1. Active(r) /\ Local(r) /\ Keeps(r)
      BY <1>2, TrunkStepOf, ProvisionMine, DieMine
    <2>2. /\ Mine(r)' /\ pc'[r] # "idle" /\ DOMAIN pc' = Request
          /\ \A q \in Request \ {r} : Unmoved(q)
      BY <2>1, LocalMine
    <2>3. Shape'
      BY <2>1, <2>2 DEF Shape, Local, Unmoved, Mine, Active, TenantKnown, TenantId, FromWork
    <2>4. ASSUME NEW q \in Request PROVE Steady(q)
      <3>1. CASE q # r
        BY <2>2, <3>1 DEF Unmoved, Steady, Settled, TenantOf, TenantId
      <3>2. CASE q = r /\ job[r].op # "provision"
        BY <2>1, <2>2, <3>2 DEF Local, Steady, Settled, TenantOf
      <3>3. CASE q = r /\ job[r].op = "provision"
        <4>1. CASE ProvisionStep(r)
          BY <2>1, <2>2, <3>3, <4>1, ProvisionSteady DEF Local, Steady
        <4>2. CASE Die(r)
          <5>1. mem' = mem /\ pc'[r] = "dead"
            BY <4>2 DEF Die, Goto, Shape
          <5>2. QED BY <2>1, <2>2, <3>3, <5>1 DEF Local, Steady, Settled, TenantOf, TenantId
        <4>3. QED BY <1>2, <3>3, <4>1, <4>2, TrunkStepOf
      <3>4. QED BY <3>1, <3>2, <3>3
    <2>5. QED BY <2>2, <2>3, <2>4
  <1>3. QED BY <1>1, <1>2 DEF RequestStep

LEMMA OutsideMoves ==
    ASSUME Shape, Outside \/ UNCHANGED vars
    PROVE  Shape' /\ \A q \in Request : Unmoved(q) /\ Steady(q)
  <1>1. UNCHANGED <<pc, job, mem>>
    BY DEF Outside, Register, EditLegacy, SetTenant, Change, local, vars
  <1>2. QED BY <1>1 DEF Shape, Mine, Unmoved, Steady, Settled, TenantOf, TenantId, TenantKnown,
              Active, FromWork

-----------------------------------------------------------------------------
(***************************************************************************)
(* Identifiers are drawn once                                              *)
(***************************************************************************)

Naming == {"condo", "condo_insert"}

\* A request that writes rows goes on to the next, or ends; one that makes
\* condominiums forgets none.
Onward(q) ==
    /\ pc[q] \in Ended => pc'[q] \in Ended
    /\ pc[q] \in RowLabels => pc'[q] \in RowLabels \cup Ended /\ mem[q].n <= mem'[q].n
    /\ pc[q] \notin {"idle", "batch"} => pc'[q] \notin {"idle", "batch"}
    /\ pc[q] \notin {"idle", "batch"} /\ pc'[q] \in Naming =>
          pc[q] \in Naming /\ DOMAIN mem[q].ids \subseteq DOMAIN mem'[q].ids

LEMMA StillOnward ==
    ASSUME Shape, NEW q \in Request, Unmoved(q)
    PROVE  Onward(q)
  BY DEF Shape, Mine, Unmoved, Onward

\* A row of the request: refused, advanced, or one label further.
LEMMA RowOnward ==
    ASSUME Shape, NEW r \in Request, TrunkStep(r), pc[r] \in RowLabels
    PROVE  pc'[r] \in RowLabels \cup Ended /\ mem[r].n <= mem'[r].n
  <1>0. Active(r) /\ job' = job /\ Mine(r) /\ r \in DOMAIN pc /\ r \in DOMAIN mem
    BY TrunkStepOf DEF Local, Shape
  <1>1. CASE mem' = mem /\ pc'[r] \in RowLabels \cup Ended
    BY <1>0, <1>1 DEF Mine
  <1>2. CASE \E k \in Nat : Advance(r, k)
    <2>1. PICK k \in Nat : Advance(r, k)
      BY <1>2
    <2>2. mem'[r].n = mem[r].n + 1
      BY <1>0, <2>1 DEF Advance, Mine, Blank
    <2>3. pc'[r] \in RowLabels \cup Ended
      BY <1>0, <2>1 DEF Advance, Goto, RowLabels, Ended
    <2>4. QED BY <1>0, <2>2, <2>3 DEF Mine
  <1>3. CASE Refused(r)
    BY <1>0, <1>1, <1>2, <1>3 DEF Refused, Fails, Goto, Ended
  <1>4. CASE \E k : mem' = [mem EXCEPT ![r].seen = k] /\ pc' = [pc EXCEPT ![r] = "save"]
    <2>1. mem'[r].n = mem[r].n
      BY <1>0, <1>4 DEF Mine, Blank
    <2>2. QED BY <1>0, <1>4, <2>1 DEF Mine, RowLabels
  <1>5. CASE CreateScope(r) \/ CreateUnique(r) \/ CreateLegacy(r)
    BY <1>0, <1>1, <1>3, <1>5 DEF CreateScope, CreateUnique, CreateLegacy, Goto, RowLabels
  <1>6. CASE CreateInsert(r) \/ Save(r)
    BY <1>0, <1>1, <1>2, <1>3, <1>6 DEF CreateInsert, Save, Vanished, Fails, Goto, Ended
  <1>7. CASE Find(r)
    BY <1>0, <1>1, <1>3, <1>4, <1>7 DEF Find, Goto, RowLabels
  <1>8. pc[r] \notin {"create", "update", "move", "identity", "clash", "csv", "json", "batch",
                  "parse", "check", "condo", "condo_insert", "condo_update", "condo_save",
                  "lookup", "place", "tenant", "file"}
    BY DEF RowLabels
  <1>9. QED
    BY <1>5, <1>6, <1>7, <1>8 DEF TrunkStep, CreateTrunk, LoadTrunk, CheckMove, CheckIdentity,
       CheckClash, ImportCsv, ImportOne, ListCondominiums, ImportJson, CheckRow, FindCondominium,
       InsertCondominium, LoadCondominium, SaveCondominium, LookupTrunk, LookupPlace, LookupTenant,
       LookupFile, At

\* The names a request has found stay found.
LEMMA NamingOnward ==
    ASSUME Shape, NEW r \in Request, TrunkStep(r), pc[r] # "batch", pc'[r] \in Naming
    PROVE  pc[r] \in Naming /\ DOMAIN mem[r].ids \subseteq DOMAIN mem'[r].ids
  <1>0. Active(r) /\ job' = job /\ Mine(r) /\ r \in DOMAIN pc /\ r \in DOMAIN mem
    BY TrunkStepOf DEF Local, Shape
  <1>1. CASE FindCondominium(r) \/ InsertCondominium(r)
    <2>1. pc[r] \in Naming
      BY <1>1 DEF FindCondominium, InsertCondominium, At, Naming
    <2>2. \/ mem' = mem
          \/ \E x : mem' = [mem EXCEPT ![r].name = x]
          \/ \E x, y : mem' = [mem EXCEPT ![r].ids = With(@, x, y)]
      BY <1>1 DEF FindCondominium, InsertCondominium, Fails, Found
    <2>3. \/ mem'[r].ids = mem[r].ids
          \/ \E x, y : mem'[r].ids = With(mem[r].ids, x, y)
      <3>1. CASE mem' = mem
        BY <3>1
      <3>2. CASE \E x : mem' = [mem EXCEPT ![r].name = x]
        BY <1>0, <3>2 DEF Mine, Blank
      <3>3. CASE \E x, y : mem' = [mem EXCEPT ![r].ids = With(@, x, y)]
        BY <1>0, <3>3 DEF Mine, Blank
      <3>4. QED BY <2>2, <3>1, <3>2, <3>3
    <2>4. QED BY <2>1, <2>3 DEF With
  <1>2. CASE ~(FindCondominium(r) \/ InsertCondominium(r))
    <2>1. pc'[r] \notin Naming
      <3>1. CASE pc[r] \in RowLabels
        BY <3>1, RowOnward DEF RowLabels, Ended, Naming
      <3>2. CASE pc[r] \notin RowLabels
        BY <1>0, <1>2, <3>2 DEF RowLabels, Naming, TrunkStep, CreateTrunk, CreateScope, CreateUnique,
           CreateLegacy, CreateInsert, LoadTrunk, CheckMove, CheckIdentity, CheckClash, Save, Find,
           ImportCsv, ImportOne, ListCondominiums, ImportJson, CheckRow, LoadCondominium,
           SaveCondominium, LookupTrunk, LookupPlace, LookupTenant, LookupFile, At, Goto, Fails
      <3>3. QED BY <3>1, <3>2
    <2>2. QED BY <2>1
  <1>3. QED BY <1>1, <1>2

LEMMA RequestOnward ==
    ASSUME Shape, NEW r \in Request, RequestStep(r)
    PROVE  \A q \in Request : Onward(q)
  <1>1. \A q \in Request \ {r} : Onward(q)
    BY RequestMoves, StillOnward
  <1>2. CASE Begin(r)
    BY <1>1, <1>2 DEF Begin, Onward, Ended, RowLabels
  <1>3. CASE TrunkStep(r)
    <2>1. Active(r) /\ Mine(r) /\ Local(r)
      BY <1>3, TrunkStepOf DEF Shape
    <2>2. pc'[r] \notin {"idle", "batch"}
      <3>1. pc'[r] # "idle"
        BY <2>1, <1>3, LocalMine, TrunkStepOf
      <3>2. pc'[r] # "batch"
        <4>1. CASE pc[r] \in RowLabels
          BY <1>3, <4>1, RowOnward DEF RowLabels, Ended
        <4>2. CASE pc[r] \notin RowLabels
          BY <1>3, <2>1, <4>2 DEF RowLabels, Shape, TrunkStep, CreateTrunk, CreateScope, CreateUnique,
             CreateLegacy, CreateInsert, LoadTrunk, CheckMove, CheckIdentity, CheckClash, Save, Find,
             ImportCsv, ImportOne, ListCondominiums, ImportJson, CheckRow, FindCondominium,
             InsertCondominium, LoadCondominium, SaveCondominium,
             LookupTrunk, LookupPlace, LookupTenant, LookupFile, At, Goto, Fails
        <4>3. QED BY <4>1, <4>2
      <3>3. QED BY <3>1, <3>2
    <2>3. QED BY <1>1, <1>3, <2>1, <2>2, RowOnward, NamingOnward DEF Onward, Active
  <1>4. CASE ProvisionStep(r) \/ Die(r)
    <2>1. Active(r) /\ Local(r) /\ Keeps(r) /\ Mine(r)
      BY <1>4, ProvisionMine, DieMine DEF Shape
    <2>2. CASE Die(r)
      <3>1. mem' = mem /\ pc'[r] = "dead"
        BY <2>2 DEF Die, Goto, Shape
      <3>2. QED BY <1>1, <2>1, <3>1 DEF Onward, Active, Ended, Naming, Mine
    <2>3. CASE ProvisionStep(r)
      <3>1. /\ pc[r] \in Stage["provision"] \cup Stage["pbx_create"]
            /\ pc'[r] \in {"tenant_insert", "pbx_find", "pbx_insert", "schema", "undo", "resolve", "vars",
                           "pbx_add", "ok", "failed", "dead"}
        BY <2>3 DEF Shape, ProvisionStep, FindTenant, InsertTenant, FindPbx, InsertPbx, CreateSchema,
           StatementFails, Undo, UndoFails, ResolveVars, WriteVars, CheckTenant, AddPbx, Fails, Goto,
           At, Stage
      <3>2. QED BY <1>1, <2>1, <3>1 DEF Onward, Active, Ended, Naming, Stage, RowLabels
    <2>4. QED BY <1>4, <2>2, <2>3
  <1>5. QED BY <1>2, <1>3, <1>4, <1>1 DEF RequestStep

-----------------------------------------------------------------------------
(***************************************************************************)
(* Whose an identifier is                                                  *)
(***************************************************************************)

CondoIs(id, tenant, pbx) ==
    IF id[1] \in Request
      THEN pc[id[1]] # "idle" /\ job[id[1]].tenant = tenant /\ job[id[1]].pbx = pbx
      ELSE \E c \in InitCondos : c.id = id /\ c.tenant = tenant /\ c.pbx = pbx

TrunkIs(id, tenant, pbx) ==
    IF id[1] \in Request
      THEN pc[id[1]] # "idle" /\ job[id[1]].tenant = tenant /\ job[id[1]].pbx = pbx
      ELSE \E k \in InitTrunks : k.id = id /\ k.tenant = tenant /\ k.pbx = pbx

PbxIs(id, tenant) ==
    IF id[1] \in Request
      THEN Settled(id[1]) /\ TenantOf(id[1]) = tenant
      ELSE <<id, tenant>> \in Deployed

\* The rows that are there agree.
CondoColumns == {"id", "tenant", "pbx", "name", "enabled"}
TrunkColumns == {"id", "tenant", "pbx", "condo", "prefix", "ident", "enabled", "status"}

CondosHome == \A c \in condos : DOMAIN c = CondoColumns /\ CondoIs(c.id, c.tenant, c.pbx)
TrunksHome == \A k \in trunks : DOMAIN k = TrunkColumns /\ TrunkIs(k.id, k.tenant, k.pbx)
PbxsHome == \A p \in pbxs : PbxIs(p.id, p.tenant)

\* What a request has found out before it writes.
Placing == {"unique", "legacy", "insert"}
Moving == {"identity", "clash", "save"}

Checked(r) ==
    /\ pc[r] \in Placing => CondoIs(RowOf(r).condo, job[r].tenant, job[r].pbx)
    /\ pc[r] \in Moving \cup {"move"} =>
          TrunkIs(mem[r].seen.id, mem[r].seen.tenant, mem[r].seen.pbx) /\ mem[r].seen.tenant = job[r].tenant
    /\ pc[r] \in Moving /\ "condo" \in DOMAIN Asked(r) /\ Asked(r).condo # mem[r].seen.condo =>
          CondoIs(Asked(r).condo, job[r].tenant, mem[r].seen.pbx)
    /\ pc[r] = "condo_insert" => PbxIs(job[r].pbx, job[r].tenant)

Homes == CondosHome /\ TrunksHome /\ PbxsHome

\* An identifier is of one row; the next that a request draws is of none.
TrunkDrawn(id) ==
    id[1] \in Request =>
        /\ pc[id[1]] \in RowLabels \cup Ended /\ id[2] \in Nat
        /\ pc[id[1]] \in RowLabels => id[2] < mem[id[1]].n

CondoDrawn(id) ==
    id[1] \in Request =>
        /\ pc[id[1]] \notin {"idle", "batch"}
        /\ pc[id[1]] \in Naming => id[2] \in DOMAIN mem[id[1]].ids

TrunkKeys ==
    /\ \A k, o \in trunks : k.id = o.id \/ k.ident = o.ident => k = o
    /\ \A k \in trunks : TrunkDrawn(k.id)

CondoKeys ==
    /\ \A c, o \in condos : c.id = o.id => c = o
    /\ \A c \in condos : CondoDrawn(c.id)

NameIsNew(r) == pc[r] = "condo_insert" => mem[r].name \notin DOMAIN mem[r].ids

Rows == Homes /\ TrunkKeys /\ CondoKeys /\ ScopeConsistent

ScopeInv == Shape /\ Rows /\ \A r \in Request : Checked(r) /\ NameIsNew(r)

\* An identifier has one tenant and one PBX.
LEMMA CondoOne ==
    ASSUME NEW id, NEW t, NEW p, NEW u, NEW q, CondoIs(id, t, p), CondoIs(id, u, q)
    PROVE  t = u /\ p = q
  BY TablesAssumption DEF CondoIs

LEMMA TrunkOne ==
    ASSUME NEW id, NEW t, NEW p, NEW u, NEW q, TrunkIs(id, t, p), TrunkIs(id, u, q)
    PROVE  t = u /\ p = q
  BY TablesAssumption DEF TrunkIs

LEMMA PbxOne ==
    ASSUME NEW id, NEW t, NEW u, PbxIs(id, t), PbxIs(id, u)
    PROVE  t = u
  <1>1. CASE id[1] \in Request
    BY <1>1 DEF PbxIs
  <1>2. CASE id[1] \notin Request
    <2>1. <<id, t>> \in Deployed /\ <<id, u>> \in Deployed
      BY <1>2 DEF PbxIs
    <2>2. <<id, t>> = <<id, u>>
      <3>1. \A x, y \in Deployed : x[1] = y[1] => x = y
        BY TablesAssumption
      <3>2. QED BY <2>1, <3>1
    <2>3. QED BY <2>2
  <1>3. QED BY <1>1, <1>2

\* And keeps them.
LEMMA HomesStay ==
    ASSUME \A q \in Request : Steady(q)
    PROVE  /\ \A id, t, p : CondoIs(id, t, p) => CondoIs(id, t, p)'
           /\ \A id, t, p : TrunkIs(id, t, p) => TrunkIs(id, t, p)'
           /\ \A id, t : PbxIs(id, t) => PbxIs(id, t)'
  BY DEF CondoIs, TrunkIs, PbxIs, Steady

LEMMA CheckedStays ==
    ASSUME NEW r \in Request, Unmoved(r), Checked(r), \A q \in Request : Steady(q)
    PROVE  Checked(r)'
  BY HomesStay DEF Unmoved, Checked, RowOf, Asked

LEMMA Elsewhere ==
    ASSUME NEW r \in Request, pc'[r] \notin Placing \cup Moving \cup {"move", "condo_insert"}
    PROVE  Checked(r)'
  BY DEF Checked

\* A refusal, or the next row, is nowhere that something was checked.
LEMMA RefusedChecked ==
    ASSUME Shape, NEW r \in Request, Active(r), job' = job, Refused(r), pc[r] \in RowLabels
    PROVE  Checked(r)'
  BY RefusedMine, Elsewhere DEF Placing, Moving

\* The requests' own steps.
LEMMA CreateChecked ==
    ASSUME ScopeInv, NEW r \in Request, \A q \in Request : Steady(q),
           CreateTrunk(r) \/ CreateScope(r) \/ CreateUnique(r) \/ CreateLegacy(r) \/ CreateInsert(r)
    PROVE  Checked(r)'
  <1>0. Active(r) /\ Local(r) /\ job' = job /\ Shape /\ Checked(r) /\ r \in DOMAIN pc
    BY CreateMine DEF ScopeInv, Local, Shape
  <1>1. CASE CreateTrunk(r)
    BY <1>0, <1>1, Elsewhere DEF CreateTrunk, Goto, Placing, Moving
  <1>2. CASE CreateScope(r)
    <2>1. CASE Refused(r)
      BY <1>0, <1>2, <2>1, RefusedChecked DEF CreateScope, At, RowLabels
    <2>2. CASE InScope(r, RowOf(r).condo) /\ mem' = mem /\ pc' = [pc EXCEPT ![r] = "unique"]
      <3>1. CondoIs(RowOf(r).condo, job[r].tenant, job[r].pbx)
        BY <2>2 DEF InScope, Row, ScopeInv, Rows, Homes, CondosHome
      <3>2. CondoIs(RowOf(r).condo, job[r].tenant, job[r].pbx)'
        BY <1>0, <2>2, <3>1, HomesStay DEF RowOf
      <3>3. QED BY <1>0, <2>2, <3>2 DEF Checked, Placing, Moving
    <2>3. QED BY <1>2, <2>1, <2>2 DEF CreateScope, Goto
  <1>3. CASE CreateUnique(r) \/ CreateLegacy(r)
    <2>1. pc[r] \in {"unique", "legacy"}
      BY <1>3 DEF CreateUnique, CreateLegacy, At
    <2>2. CASE Refused(r)
      BY <1>0, <2>1, <2>2, RefusedChecked DEF RowLabels
    <2>3. CASE mem' = mem /\ pc'[r] \in {"legacy", "insert"}
      <3>1. CondoIs(RowOf(r).condo, job[r].tenant, job[r].pbx)'
        BY <1>0, <2>1, <2>3, HomesStay DEF RowOf, Checked, Placing
      <3>2. QED BY <2>3, <3>1 DEF Checked, Placing, Moving
    <2>4. QED BY <1>0, <1>3, <2>2, <2>3 DEF CreateUnique, CreateLegacy, Goto
  <1>4. CASE CreateInsert(r)
    <2>1. CASE Fails(r)
      BY <1>0, <2>1, Elsewhere DEF Fails, Goto, Placing, Moving
    <2>2. CASE Advance(r, 1)
      BY <1>0, <1>4, <2>2, AdvanceMine, Elsewhere DEF CreateInsert, At, RowLabels, Placing, Moving
    <2>3. CASE Refused(r)
      BY <1>0, <1>4, <2>3, RefusedChecked DEF CreateInsert, At, RowLabels
    <2>4. QED BY <1>4, <2>1, <2>2, <2>3 DEF CreateInsert
  <1>5. QED BY <1>1, <1>2, <1>3, <1>4

LEMMA UpdateChecked ==
    ASSUME ScopeInv, NEW r \in Request, \A q \in Request : Steady(q),
           LoadTrunk(r) \/ CheckMove(r) \/ CheckIdentity(r) \/ CheckClash(r) \/ Save(r)
    PROVE  Checked(r)'
  <1>0. Active(r) /\ Local(r) /\ job' = job /\ Shape /\ Mine(r) /\ Checked(r) /\ r \in DOMAIN pc
    BY UpdateMine DEF ScopeInv, Local, Shape
  <1>1. ASSUME pc' = [pc EXCEPT ![r] = "failed"] PROVE Checked(r)'
    BY <1>0, <1>1, Elsewhere DEF Placing, Moving
  <1>2. CASE LoadTrunk(r)
    <2>1. CASE Fails(r)
      BY <1>1, <2>1 DEF Fails, Goto
    <2>2. CASE ~Fails(r)
      <3>1. PICK k \in trunks :
               /\ k.tenant = job[r].tenant
               /\ mem' = [mem EXCEPT ![r].seen = k, ![r].rows = <<job[r].new>>]
               /\ pc' = [pc EXCEPT ![r] = "move"]
        <4>1. /\ ~\A k \in Row(trunks, job[r].trunk) : k.tenant # job[r].tenant
              /\ \E k \in Row(trunks, job[r].trunk) :
                    /\ mem' = [mem EXCEPT ![r].seen = k, ![r].rows = <<job[r].new>>]
                    /\ pc' = [pc EXCEPT ![r] = "move"]
          BY <1>2, <2>2 DEF LoadTrunk, Goto
        <4>2. PICK h \in Row(trunks, job[r].trunk) : h.tenant = job[r].tenant
          BY <4>1
        <4>3. PICK k \in Row(trunks, job[r].trunk) :
                    /\ mem' = [mem EXCEPT ![r].seen = k, ![r].rows = <<job[r].new>>]
                    /\ pc' = [pc EXCEPT ![r] = "move"]
          BY <4>1
        <4>4. h \in trunks /\ k \in trunks /\ h.id = k.id
          BY <4>2, <4>3 DEF Row
        <4>5. k.tenant = h.tenant
          BY <4>4, TrunkOne DEF ScopeInv, Rows, Homes, TrunksHome
        <4>6. QED BY <4>2, <4>3, <4>4, <4>5
      <3>2. mem'[r].seen = k /\ pc'[r] = "move"
        BY <1>0, <3>1 DEF Shape, Mine, Blank
      <3>3. TrunkIs(k.id, k.tenant, k.pbx)'
        BY HomesStay DEF ScopeInv, Rows, Homes, TrunksHome
      <3>4. QED BY <1>0, <3>1, <3>2, <3>3 DEF Checked, Placing, Moving
    <2>3. QED BY <2>1, <2>2
  <1>3. CASE CheckMove(r)
    <2>1. CASE Fails(r)
      BY <1>1, <2>1 DEF Fails, Goto
    <2>2. CASE ~Fails(r)
      <3>1. /\ pc[r] = "move" /\ mem' = mem /\ pc' = [pc EXCEPT ![r] = "identity"]
            /\ "condo" \in DOMAIN Asked(r) /\ Asked(r).condo # mem[r].seen.condo =>
                 \E c \in condos : /\ c.id = Asked(r).condo /\ c.tenant = job[r].tenant
                                   /\ c.pbx = mem[r].seen.pbx
        BY <1>3, <2>2 DEF CheckMove, Goto, At, Row
      <3>2. "condo" \in DOMAIN Asked(r) /\ Asked(r).condo # mem[r].seen.condo =>
                CondoIs(Asked(r).condo, job[r].tenant, mem[r].seen.pbx)
        BY <3>1 DEF ScopeInv, Rows, Homes, CondosHome
      <3>3. TrunkIs(mem[r].seen.id, mem[r].seen.tenant, mem[r].seen.pbx) /\ mem[r].seen.tenant = job[r].tenant
        BY <1>0, <3>1 DEF Checked
      <3>4. Asked(r)' = Asked(r)
        BY <1>0, <3>1 DEF Asked, RowOf
      <3>5. pc'[r] = "identity"
        BY <1>0, <3>1
      <3>6. QED BY <1>0, <3>1, <3>2, <3>3, <3>4, <3>5, HomesStay DEF Checked, Placing, Moving
    <2>3. QED BY <2>1, <2>2
  <1>4. CASE CheckIdentity(r) \/ CheckClash(r)
    <2>1. CASE Fails(r)
      BY <1>1, <2>1 DEF Fails, Goto
    <2>2. CASE ~Fails(r)
      <3>1. /\ pc[r] \in {"identity", "clash"} /\ mem' = mem /\ pc'[r] \in {"clash", "save"}
        BY <1>0, <1>4, <2>2 DEF CheckIdentity, CheckClash, Goto, At
      <3>2. Asked(r)' = Asked(r)
        BY <1>0, <3>1 DEF Asked, RowOf
      <3>3. QED BY <1>0, <3>1, <3>2, HomesStay DEF Checked, Placing, Moving
    <2>3. QED BY <2>1, <2>2
  <1>5. CASE Save(r)
    <2>1. CASE Advance(r, 0) \/ Advance(r, 1)
      BY <1>0, <1>5, <2>1, AdvanceMine, Elsewhere DEF Save, At, RowLabels, Placing, Moving
    <2>2. CASE Refused(r)
      BY <1>0, <1>5, <2>2, RefusedChecked DEF Save, At, RowLabels
    <2>3. CASE Fails(r)
      BY <1>1, <2>3 DEF Fails, Goto
    <2>4. QED BY <1>5, <2>1, <2>2, <2>3 DEF Save, Vanished
  <1>6. QED BY <1>2, <1>3, <1>4, <1>5

LEMMA ImportChecked ==
    ASSUME ScopeInv, NEW r \in Request, \A q \in Request : Steady(q),
           \/ Find(r) \/ ImportCsv(r) \/ ImportOne(r)
           \/ ListCondominiums(r) \/ ImportJson(r) \/ CheckRow(r)
    PROVE  Checked(r)'
  <1>0. /\ Active(r) /\ Local(r) /\ job' = job /\ Shape /\ Mine(r) /\ Checked(r)
        /\ r \in DOMAIN pc /\ job[r].op \in Operations
    BY ImportMine, JobKnown DEF ScopeInv, Local, Shape, Mine, Active
  <1>1. CASE Find(r)
    <2>0. pc[r] = "find" /\ job[r].op # "update"
      BY <1>0, <1>1 DEF Find, At, Mine, Stage, RowLabels
    <2>1. CASE Refused(r)
      BY <1>0, <2>0, <2>1, RefusedChecked DEF RowLabels
    <2>2. CASE pc' = [pc EXCEPT ![r] = "scope"]
      BY <1>0, <2>2, Elsewhere DEF Placing, Moving
    <2>3. CASE ~Refused(r) /\ pc' # [pc EXCEPT ![r] = "scope"]
      <3>1. PICK k \in trunks :
               /\ k.tenant = job[r].tenant
               /\ mem' = [mem EXCEPT ![r].seen = k]
               /\ pc' = [pc EXCEPT ![r] = "save"]
        BY <1>1, <2>3 DEF Find, Goto
      <3>2. mem'[r].seen = k /\ pc'[r] = "save"
        BY <1>0, <3>1 DEF Shape, Mine, Blank
      <3>3. TrunkIs(k.id, k.tenant, k.pbx)'
        BY HomesStay DEF ScopeInv, Rows, Homes, TrunksHome
      <3>4. "condo" \notin DOMAIN Asked(r)'
        BY <1>0, <2>0 DEF Asked
      <3>5. QED BY <1>0, <3>1, <3>2, <3>3, <3>4 DEF Checked, Placing, Moving
    <2>4. QED BY <2>1, <2>2, <2>3
  <1>2. CASE ImportCsv(r) \/ ImportOne(r) \/ ListCondominiums(r) \/ ImportJson(r) \/ CheckRow(r)
    <2>1. pc'[r] \in {"find", "ok", "failed", "condo", "parse", "check"}
      BY <1>0, <1>2 DEF ImportCsv, ImportOne, ListCondominiums, ImportJson, CheckRow, Goto, Fails
    <2>2. QED BY <2>1, Elsewhere DEF Placing, Moving
  <1>3. QED BY <1>1, <1>2

LEMMA OtherChecked ==
    ASSUME ScopeInv, NEW r \in Request, \A q \in Request : Steady(q),
           \/ FindCondominium(r) \/ InsertCondominium(r) \/ LoadCondominium(r) \/ SaveCondominium(r)
           \/ LookupTrunk(r) \/ LookupPlace(r) \/ LookupTenant(r) \/ LookupFile(r)
           \/ ProvisionStep(r) \/ Die(r)
    PROVE  Checked(r)'
  <1>0. /\ Active(r) /\ Local(r) /\ job' = job /\ Shape /\ Mine(r) /\ r \in DOMAIN pc
    BY CondominiumMine, LookupMine, ProvisionMine, DieMine DEF ScopeInv, Local, Shape
  <1>1. CASE FindCondominium(r)
    <2>1. pc[r] = "condo"
      BY <1>1 DEF FindCondominium, At
    <2>2. CASE pc'[r] = "condo_insert"
      <3>1. \E p \in pbxs : p.id = job[r].pbx /\ p.tenant = job[r].tenant
        BY <1>0, <1>1, <2>1, <2>2 DEF FindCondominium, Row, Fails, Goto
      <3>2. PbxIs(job[r].pbx, job[r].tenant)
        BY <3>1 DEF ScopeInv, Rows, Homes, PbxsHome
      <3>3. QED BY <1>0, <2>2, <3>2, HomesStay DEF Checked, Placing, Moving
    <2>3. CASE pc'[r] # "condo_insert"
      <3>1. pc'[r] \in {"condo", "parse", "ok", "failed"}
        BY <1>0, <1>1, <2>1, <2>3 DEF FindCondominium, Fails, Goto
      <3>2. QED BY <3>1, Elsewhere DEF Placing, Moving
    <2>4. QED BY <2>2, <2>3
  <1>2. CASE InsertCondominium(r) \/ LoadCondominium(r) \/ SaveCondominium(r)
    <2>1. pc'[r] \in {"condo", "condo_save", "ok", "failed"}
      BY <1>0, <1>2 DEF InsertCondominium, LoadCondominium, SaveCondominium, Fails, Goto
    <2>2. QED BY <2>1, Elsewhere DEF Placing, Moving
  <1>3. CASE LookupTrunk(r) \/ LookupPlace(r) \/ LookupTenant(r) \/ LookupFile(r)
    <2>1. pc'[r] \in {"file", "place", "tenant", "ok", "failed"}
      BY <1>0, <1>3 DEF LookupTrunk, LookupPlace, LookupTenant, LookupFile, Goto
    <2>2. QED BY <2>1, Elsewhere DEF Placing, Moving
  <1>4. CASE ProvisionStep(r)
    <2>1. pc'[r] \in {"tenant_insert", "pbx_find", "pbx_insert", "schema", "undo", "resolve", "vars",
                      "pbx_add", "ok", "failed", "dead"}
      BY <1>0, <1>4 DEF ProvisionStep, FindTenant, InsertTenant, FindPbx, InsertPbx, CreateSchema,
         StatementFails, Undo, UndoFails, ResolveVars, WriteVars, CheckTenant, AddPbx, Fails, Goto
    <2>2. QED BY <2>1, Elsewhere DEF Placing, Moving
  <1>5. CASE Die(r)
    BY <1>0, <1>5, Elsewhere DEF Die, Goto, Placing, Moving
  <1>6. QED BY <1>1, <1>2, <1>3, <1>4, <1>5

LEMMA BeginsAt ==
    ASSUME Shape, NEW r \in Request, Begin(r)
    PROVE  pc'[r] \in Operations
  <1>1. PICK w \in Work : \E j \in Placements(w) : pc' = [pc EXCEPT ![r] = j.op]
    BY DEF Begin, Goto
  <1>2. PICK j \in Placements(w) : pc' = [pc EXCEPT ![r] = j.op]
    BY <1>1
  <1>3. FromWork(j)
    BY DEF Placements, FromWork
  <1>4. QED BY <1>2, <1>3, JobKnown DEF Shape

LEMMA BeginChecked ==
    ASSUME ScopeInv, NEW r \in Request, Begin(r)
    PROVE  Checked(r)'
  BY BeginsAt, Elsewhere DEF ScopeInv, Operations, Placing, Moving

-----------------------------------------------------------------------------
(***************************************************************************)
(* The commits                                                             *)
(***************************************************************************)

LEMMA DrawnStays ==
    ASSUME Shape, Shape', \A q \in Request : Onward(q)
    PROVE  /\ \A id : TrunkDrawn(id) => TrunkDrawn(id)'
           /\ \A id : CondoDrawn(id) => CondoDrawn(id)'
  <1>1. ASSUME NEW id, TrunkDrawn(id), id[1] \in Request
        PROVE  TrunkDrawn(id)'
    <2>1. pc'[id[1]] \in RowLabels \cup Ended /\ id[2] \in Nat
      BY <1>1 DEF TrunkDrawn, Onward
    <2>2. ASSUME pc'[id[1]] \in RowLabels PROVE id[2] < mem'[id[1]].n
      <3>1. pc[id[1]] \in RowLabels
        BY <1>1, <2>2 DEF TrunkDrawn, Onward, Ended, RowLabels
      <3>2. id[2] < mem[id[1]].n /\ mem[id[1]].n <= mem'[id[1]].n
        BY <1>1, <3>1 DEF TrunkDrawn, Onward
      <3>3. mem[id[1]].n \in Nat /\ mem'[id[1]].n \in Nat /\ id[2] \in Nat
        BY <1>1, <2>1 DEF Shape, Mine
      <3>4. QED BY <3>2, <3>3
    <2>3. QED BY <2>1, <2>2 DEF TrunkDrawn
  <1>2. \A id : TrunkDrawn(id) => TrunkDrawn(id)'
    BY <1>1 DEF TrunkDrawn
  <1>3. \A id : CondoDrawn(id) => CondoDrawn(id)'
    BY DEF CondoDrawn, Onward
  <1>4. QED BY <1>2, <1>3

\* A step of somebody: the shape is kept, and nothing settled is undone.
Kept == Shape' /\ \A q \in Request : Steady(q) /\ Onward(q)

LEMMA SameRows ==
    ASSUME Shape, Rows, Kept, UNCHANGED <<pbxs, condos, trunks>>
    PROVE  Rows'
  <1>1. Homes' /\ ScopeConsistent'
    BY HomesStay DEF Kept, Rows, Homes, CondosHome, TrunksHome, PbxsHome, ScopeConsistent
  <1>2. TrunkKeys' /\ CondoKeys'
    BY DrawnStays DEF Kept, Rows, TrunkKeys, CondoKeys
  <1>3. QED BY <1>1, <1>2 DEF Rows

\* An UPDATE changes no column that it does not name.
LEMMA UpdatedRow ==
    ASSUME NEW now, NEW loaded, NEW new
    PROVE  /\ DOMAIN Updated(now, loaded, new) = DOMAIN now
           /\ \A f \in DOMAIN now : Updated(now, loaded, new)[f] =
                 IF f \in DOMAIN new /\ new[f] # loaded[f] THEN new[f] ELSE now[f]
  BY DEF Updated

\* A row of trunks is replaced by one of the same key, tenant and PBX.
LEMMA ReplacedTrunk ==
    ASSUME Shape, Rows, Kept, UNCHANGED <<pbxs, condos>>, NEW k \in trunks, NEW u,
           trunks' = (trunks \ {k}) \cup {u},
           DOMAIN u = TrunkColumns, u.id = k.id, u.tenant = k.tenant, u.pbx = k.pbx,
           u.ident = k.ident \/ \A o \in trunks : o.id # k.id => o.ident # u.ident,
           u.condo = k.condo \/ \E c \in condos : c.id = u.condo /\ c.tenant = k.tenant /\ c.pbx = k.pbx
    PROVE  Rows'
  <1>1. CondosHome' /\ PbxsHome' /\ CondoKeys'
    BY HomesStay, DrawnStays DEF Kept, Rows, Homes, CondosHome, PbxsHome, CondoKeys
  <1>2. TrunksHome'
    BY HomesStay DEF Kept, Rows, Homes, TrunksHome
  <1>3. TrunkKeys'
    <2>1. \A o \in trunks \ {k} : o.id # u.id /\ o.ident # u.ident
      BY DEF Rows, TrunkKeys
    <2>2. \A o \in trunks' : TrunkDrawn(o.id)'
      BY DrawnStays DEF Kept, Rows, TrunkKeys
    <2>3. QED BY <2>1, <2>2 DEF Rows, TrunkKeys
  <1>4. ScopeConsistent'
    <2>1. \E p \in pbxs : p.id = u.pbx /\ p.tenant = u.tenant
      BY DEF Rows, ScopeConsistent, Consistent
    <2>2. \E c \in condos : c.id = u.condo /\ c.tenant = u.tenant /\ c.pbx = u.pbx
      BY DEF Rows, ScopeConsistent, Consistent
    <2>3. QED BY <2>1, <2>2 DEF Rows, ScopeConsistent, Consistent
  <1>5. QED BY <1>1, <1>2, <1>3, <1>4 DEF Rows, Homes

LEMMA NewTrunkScope ==
    ASSUME ScopeInv, NEW r \in Request, Kept, CreateInsert(r), trunks' # trunks
    PROVE  Rows' /\ trunks' = trunks \cup {NewTrunk(r)}
  <1>1. /\ pc[r] = "insert" /\ TrunkFits(NewTrunk(r)) /\ trunks' = trunks \cup {NewTrunk(r)}
        /\ UNCHANGED <<pbxs, condos, job>> /\ Advance(r, 1)
    BY DEF CreateInsert, At
  <1>2. /\ NewTrunk(r).id = <<r, mem[r].n>> /\ DOMAIN NewTrunk(r) = TrunkColumns
        /\ NewTrunk(r).tenant = job[r].tenant /\ NewTrunk(r).pbx = job[r].pbx
        /\ NewTrunk(r).condo = RowOf(r).condo
    BY DEF NewTrunk, TrunkColumns
  <1>3. CondoIs(RowOf(r).condo, job[r].tenant, job[r].pbx)
    BY <1>1 DEF ScopeInv, Checked, Placing
  <1>4. PICK c \in condos : c.id = RowOf(r).condo
    BY <1>1, <1>2 DEF TrunkFits, Row
  <1>5. c.tenant = job[r].tenant /\ c.pbx = job[r].pbx
    BY <1>3, <1>4, CondoOne DEF ScopeInv, Rows, Homes, CondosHome
  <1>6. PICK p \in pbxs : p.id = job[r].pbx /\ p.tenant = job[r].tenant
    BY <1>5 DEF ScopeInv, Rows, ScopeConsistent, Consistent
  <1>7. ScopeConsistent'
    BY <1>1, <1>2, <1>4, <1>5, <1>6 DEF ScopeInv, Rows, ScopeConsistent, Consistent
  <1>8. TrunkIs(NewTrunk(r).id, NewTrunk(r).tenant, NewTrunk(r).pbx)
    BY <1>1, <1>2 DEF TrunkIs
  <1>9. Homes'
    BY <1>1, <1>2, <1>8, HomesStay DEF Kept, ScopeInv, Rows, Homes, CondosHome, TrunksHome, PbxsHome
  <1>10. TrunkKeys'
    <2>1. /\ mem'[r].n = mem[r].n + 1 /\ mem[r].n \in Nat
          /\ pc'[r] \in RowLabels \cup Ended
      BY <1>1 DEF Advance, Goto, ScopeInv, Shape, Mine, Blank, RowLabels, Ended
    <2>2. \A id : id = NewTrunk(r).id => TrunkDrawn(id)'
      BY <1>2, <2>1 DEF TrunkDrawn
    <2>3. \A o \in trunks : o.id # NewTrunk(r).id
      <3>1. ASSUME NEW o \in trunks, o.id = <<r, mem[r].n>> PROVE FALSE
        <4>1. TrunkDrawn(o.id)
          BY DEF ScopeInv, Rows, TrunkKeys
        <4>2. mem[r].n < mem[r].n
          BY <1>1, <3>1, <4>1 DEF TrunkDrawn, RowLabels
        <4>3. QED BY <2>1, <4>2
      <3>2. QED BY <1>2, <3>1
    <2>4. \A o \in trunks : o.ident # NewTrunk(r).ident
      BY <1>1, <2>3 DEF TrunkFits
    <2>5. \A o \in trunks : TrunkDrawn(o.id)'
      BY DrawnStays DEF Kept, ScopeInv, Rows, TrunkKeys
    <2>6. \A k \in trunks' : TrunkDrawn(k.id)'
      <3>1. ASSUME NEW k \in trunks' PROVE TrunkDrawn(k.id)'
        BY <1>1, <2>2, <2>5
      <3>2. QED BY <3>1
    <2>7. \A k, o \in trunks' : k.id = o.id \/ k.ident = o.ident => k = o
      BY <1>1, <2>3, <2>4 DEF ScopeInv, Rows, TrunkKeys
    <2>8. QED BY <2>6, <2>7 DEF TrunkKeys
  <1>11. CondoKeys'
    BY <1>1, DrawnStays DEF Kept, ScopeInv, Rows, CondoKeys
  <1>12. QED BY <1>1, <1>7, <1>9, <1>10, <1>11 DEF Rows

\* The row that Save writes, and that it is the tenant's.
LEMMA SavedTrunk ==
    ASSUME ScopeInv, NEW r \in Request, Save(r), NEW k \in trunks, k.id = mem[r].seen.id
    PROVE  /\ k.tenant = job[r].tenant /\ k.pbx = mem[r].seen.pbx
           /\ DOMAIN Updated(k, mem[r].seen, Updates(r)) = TrunkColumns
           /\ Updated(k, mem[r].seen, Updates(r)).id = k.id
           /\ Updated(k, mem[r].seen, Updates(r)).tenant = k.tenant
           /\ Updated(k, mem[r].seen, Updates(r)).pbx = k.pbx
           /\ \/ Updated(k, mem[r].seen, Updates(r)).condo = k.condo
              \/ CondoIs(Updated(k, mem[r].seen, Updates(r)).condo, k.tenant, k.pbx)
  <1>1. /\ pc[r] = "save" /\ Mine(r) /\ Active(r) /\ DOMAIN k = TrunkColumns
        /\ TrunkIs(k.id, k.tenant, k.pbx)
    BY DEF Save, At, ScopeInv, Shape, Rows, Homes, TrunksHome, Active, Ended
  <1>2. /\ TrunkIs(mem[r].seen.id, mem[r].seen.tenant, mem[r].seen.pbx)
        /\ mem[r].seen.tenant = job[r].tenant
        /\ "condo" \in DOMAIN Asked(r) /\ Asked(r).condo # mem[r].seen.condo =>
               CondoIs(Asked(r).condo, job[r].tenant, mem[r].seen.pbx)
    BY <1>1 DEF ScopeInv, Checked, Moving
  <1>3. k.tenant = job[r].tenant /\ k.pbx = mem[r].seen.pbx /\ k.tenant = mem[r].seen.tenant
    BY <1>1, <1>2, TrunkOne
  <1>4. DOMAIN Asked(r) \cap {"id", "tenant", "pbx"} = {}
    <2>1. CASE job[r].op = "update"
      BY <1>1, <2>1, JobKnown DEF Mine, Active, Asked
    <2>2. CASE job[r].op # "update"
      BY <2>2 DEF Asked
    <2>3. QED BY <2>1, <2>2
  <1>5. /\ DOMAIN Updates(r) \cap {"id", "tenant", "pbx"} = {}
        /\ "condo" \in DOMAIN Updates(r) => "condo" \in DOMAIN Asked(r) /\ Updates(r).condo = Asked(r).condo
    BY <1>4 DEF Updates
  <1>6. QED BY <1>1, <1>2, <1>3, <1>5, UpdatedRow DEF TrunkColumns

\* What Save does to the table: nothing, or it replaces the row it has loaded.
LEMMA SaveReplaces ==
    ASSUME ScopeInv, NEW r \in Request, Save(r), trunks' # trunks
    PROVE  \E k \in trunks :
              /\ k.id = mem[r].seen.id
              /\ TrunkFits(Updated(k, mem[r].seen, Updates(r)))
              /\ trunks' = (trunks \ {k}) \cup {Updated(k, mem[r].seen, Updates(r))}
              /\ Advance(r, 1)
  <1> DEFINE now == Row(trunks, mem[r].seen.id)
             new == {Updated(k, mem[r].seen, Updates(r)) : k \in now}
  <1>1. (\E k \in new : TrunkFits(k)) /\ trunks' = (trunks \ now) \cup new /\ Advance(r, 1)
    BY DEF Save
  <1>2. PICK k \in now : TrunkFits(Updated(k, mem[r].seen, Updates(r)))
    BY <1>1
  <1>3. k \in trunks /\ k.id = mem[r].seen.id
    BY DEF Row
  <1>4. now = {k}
    BY <1>3 DEF Row, ScopeInv, Rows, TrunkKeys
  <1>5. new = {Updated(k, mem[r].seen, Updates(r))}
    BY <1>4
  <1>6. QED BY <1>1, <1>2, <1>3, <1>4, <1>5

LEMMA SaveScope ==
    ASSUME ScopeInv, NEW r \in Request, Kept, Save(r)
    PROVE  Rows'
  <1>1. UNCHANGED <<pbxs, condos>>
    BY DEF Save
  <1>2. CASE trunks' = trunks
    BY <1>1, <1>2, SameRows DEF ScopeInv
  <1>3. CASE trunks' # trunks
    <2>1. PICK k \in trunks :
              /\ k.id = mem[r].seen.id
              /\ TrunkFits(Updated(k, mem[r].seen, Updates(r)))
              /\ trunks' = (trunks \ {k}) \cup {Updated(k, mem[r].seen, Updates(r))}
      BY <1>3, SaveReplaces
    <2> DEFINE u == Updated(k, mem[r].seen, Updates(r))
    <2>2. /\ DOMAIN u = TrunkColumns /\ u.id = k.id /\ u.tenant = k.tenant /\ u.pbx = k.pbx
          /\ u.condo = k.condo \/ CondoIs(u.condo, k.tenant, k.pbx)
      BY <2>1, SavedTrunk
    <2>3. \A o \in trunks : o.id # k.id => o.ident # u.ident
      BY <2>1, <2>2 DEF TrunkFits
    <2>4. ASSUME CondoIs(u.condo, k.tenant, k.pbx)
          PROVE  \E c \in condos : c.id = u.condo /\ c.tenant = k.tenant /\ c.pbx = k.pbx
      <3>1. PICK c \in condos : c.id = u.condo
        BY <2>1 DEF TrunkFits, Row
      <3>2. CondoIs(u.condo, c.tenant, c.pbx)
        BY <3>1 DEF ScopeInv, Rows, Homes, CondosHome
      <3>3. QED BY <2>4, <3>1, <3>2, CondoOne
    <2>5. QED BY <1>1, <2>1, <2>2, <2>3, <2>4, ReplacedTrunk DEF ScopeInv
  <1>4. QED BY <1>2, <1>3

LEMMA RegisterScope ==
    ASSUME ScopeInv, Kept, NEW k \in trunks, NEW s, Register(k, s)
    PROVE  Rows'
  <1> DEFINE u == [k EXCEPT !.status = s]
  <1>1. trunks' = (trunks \ {k}) \cup {u} /\ UNCHANGED <<pbxs, condos>>
    BY DEF Register
  <1>2. DOMAIN k = TrunkColumns
    BY DEF ScopeInv, Rows, Homes, TrunksHome
  <1>3. /\ DOMAIN u = TrunkColumns /\ u.id = k.id /\ u.tenant = k.tenant /\ u.pbx = k.pbx
        /\ u.ident = k.ident /\ u.condo = k.condo
    BY <1>2 DEF TrunkColumns
  <1>4. QED BY <1>1, <1>3, ReplacedTrunk DEF ScopeInv

LEMMA NewCondominiumScope ==
    ASSUME ScopeInv, NEW r \in Request, Kept, InsertCondominium(r)
    PROVE  Rows'
  <1>1. CASE condos' = condos
    BY <1>1, SameRows DEF InsertCondominium, ScopeInv
  <1>2. CASE condos' # condos
    <2> DEFINE c == [id |-> <<r, mem[r].name>>, tenant |-> job[r].tenant, pbx |-> job[r].pbx,
                     name |-> mem[r].name, enabled |-> TRUE]
    <2>1. /\ pc[r] = "condo_insert" /\ CondominiumFits(c) /\ condos' = condos \cup {c}
          /\ Found(r, c.name, c.id) /\ Goto(r, "condo") /\ UNCHANGED <<pbxs, trunks, job>>
      BY <1>2 DEF InsertCondominium, At
    <2> HIDE DEF c
    <2>2. /\ DOMAIN c = CondoColumns /\ c.id = <<r, mem[r].name>> /\ c.tenant = job[r].tenant
          /\ c.pbx = job[r].pbx /\ c.name = mem[r].name
      BY DEF c, CondoColumns
    <2>3. \E p \in pbxs : p.id = c.pbx /\ p.tenant = c.tenant
      <3>1. PICK p \in pbxs : p.id = c.pbx
        BY <2>1 DEF CondominiumFits, Row
      <3>2. PbxIs(p.id, p.tenant)
        BY DEF ScopeInv, Rows, Homes, PbxsHome
      <3>3. PbxIs(c.pbx, c.tenant)
        BY <2>1, <2>2 DEF ScopeInv, Checked
      <3>4. QED BY <3>1, <3>2, <3>3, PbxOne
    <2>4. CondoIs(c.id, c.tenant, c.pbx)
      BY <2>1, <2>2 DEF CondoIs
    <2>5. ScopeConsistent'
      BY <2>1, <2>3 DEF ScopeInv, Rows, ScopeConsistent, Consistent
    <2>6. Homes'
      BY <2>1, <2>2, <2>4, HomesStay DEF Kept, ScopeInv, Rows, Homes, CondosHome, TrunksHome, PbxsHome
    <2>7. /\ pc'[r] = "condo" /\ mem'[r].ids = With(mem[r].ids, c.name, c.id)
      BY <2>1 DEF Found, Goto, ScopeInv, Shape, Mine, Blank
    <2>8. c.name \in DOMAIN mem'[r].ids
      BY <2>7 DEF With
    <2>9. \A id : id = c.id => CondoDrawn(id)'
      BY <2>2, <2>7, <2>8 DEF CondoDrawn
    <2>10. \A o \in condos : o.id # c.id
      BY <2>1, <2>2 DEF ScopeInv, Rows, CondoKeys, CondoDrawn, NameIsNew, Naming
    <2>11. \A o \in condos : CondoDrawn(o.id)'
      BY DrawnStays DEF Kept, ScopeInv, Rows, CondoKeys
    <2>12. CondoKeys'
      <3>1. ASSUME NEW o \in condos' PROVE CondoDrawn(o.id)'
        BY <2>1, <2>9, <2>11
      <3>2. \A d, o \in condos' : d.id = o.id => d = o
        BY <2>1, <2>10 DEF ScopeInv, Rows, CondoKeys
      <3>3. QED BY <3>1, <3>2 DEF CondoKeys
    <2>13. TrunkKeys'
      BY <2>1, DrawnStays DEF Kept, ScopeInv, Rows, TrunkKeys
    <2>14. QED BY <2>5, <2>6, <2>12, <2>13 DEF Rows
  <1>3. QED BY <1>1, <1>2

LEMMA SaveCondominiumScope ==
    ASSUME ScopeInv, NEW r \in Request, Kept, SaveCondominium(r)
    PROVE  Rows'
  <1>1. UNCHANGED <<pbxs, trunks>>
    BY DEF SaveCondominium
  <1>2. CASE condos' = condos
    BY <1>1, <1>2, SameRows DEF ScopeInv
  <1>3. CASE condos' # condos
    <2> DEFINE now == Row(condos, mem[r].seen.id)
    <2>1. /\ \E c \in now : CondominiumFits(Updated(c, mem[r].seen, job[r].new))
          /\ condos' = (condos \ now) \cup {Updated(c, mem[r].seen, job[r].new) : c \in now}
          /\ pc[r] = "condo_save"
      BY <1>3 DEF SaveCondominium, At
    <2>2. PICK c \in now : TRUE
      BY <2>1
    <2>3. c \in condos /\ now = {c}
      BY DEF Row, ScopeInv, Rows, CondoKeys
    <2> DEFINE u == Updated(c, mem[r].seen, job[r].new)
    <2>4. condos' = (condos \ {c}) \cup {u}
      BY <2>1, <2>3
    <2>5. job[r].op = "condo_update" /\ FromWork(job[r])
      <3>1. Mine(r) /\ Active(r) /\ FromWork(job[r])
        BY <2>1 DEF ScopeInv, Shape, Mine, Active, Ended
      <3>2. job[r].op \in Operations
        BY <3>1, JobKnown
      <3>3. QED BY <2>1, <3>1, <3>2 DEF Mine, Stage, RowLabels, Operations
    <2>6. DOMAIN job[r].new \cap {"id", "tenant", "pbx", "status"} = {}
      BY <2>5, JobKnown
    <2>7. DOMAIN c = CondoColumns /\ CondoIs(c.id, c.tenant, c.pbx)
      BY <2>3 DEF ScopeInv, Rows, Homes, CondosHome
    <2>8. DOMAIN u = CondoColumns /\ u.id = c.id /\ u.tenant = c.tenant /\ u.pbx = c.pbx
      BY <2>6, <2>7, UpdatedRow DEF CondoColumns
    <2> HIDE DEF u
    <2>9. ScopeConsistent'
      BY <1>1, <2>3, <2>4, <2>8 DEF ScopeInv, Rows, ScopeConsistent, Consistent
    <2>10. Homes'
      BY <1>1, <2>4, <2>7, <2>8, HomesStay
         DEF Kept, ScopeInv, Rows, Homes, CondosHome, TrunksHome, PbxsHome
    <2>11. TrunkKeys'
      BY <1>1, DrawnStays DEF Kept, ScopeInv, Rows, TrunkKeys
    <2>12. CondoKeys'
      <3>1. \A o \in condos : CondoDrawn(o.id)'
        BY DrawnStays DEF Kept, ScopeInv, Rows, CondoKeys
      <3>2. \A o \in condos \ {c} : o.id # c.id
        BY <2>3 DEF ScopeInv, Rows, CondoKeys
      <3>3. QED BY <2>3, <2>4, <2>8, <3>1, <3>2 DEF ScopeInv, Rows, CondoKeys
    <2>13. QED BY <2>9, <2>10, <2>11, <2>12 DEF Rows
  <1>4. QED BY <1>2, <1>3

\* A new PBX, of whichever request.
LEMMA NewPbx ==
    ASSUME Shape, Rows, Kept, UNCHANGED <<condos, trunks>>,
           NEW p, PbxIs(p.id, p.tenant), pbxs' = pbxs \cup {p}
    PROVE  Rows'
  <1>1. Homes' /\ ScopeConsistent'
    BY HomesStay DEF Kept, Rows, Homes, CondosHome, TrunksHome, PbxsHome, ScopeConsistent, Consistent
  <1>2. TrunkKeys' /\ CondoKeys'
    BY DrawnStays DEF Kept, Rows, TrunkKeys, CondoKeys
  <1>3. QED BY <1>1, <1>2 DEF Rows

LEMMA InsertPbxScope ==
    ASSUME ScopeInv, NEW r \in Request, Kept, InsertPbx(r)
    PROVE  Rows'
  <1> DEFINE p == [id |-> NewPbxId(r), tenant |-> TenantId(r), host |-> job[r].host]
  <1>1. pc[r] = "pbx_insert" /\ UNCHANGED <<condos, trunks>>
        /\ (pbxs' = pbxs \/ pbxs' = pbxs \cup {p})
    BY DEF InsertPbx, At
  <1>2. /\ job[r].op = "provision" /\ FromWork(job[r]) /\ TenantKnown(r)
    <2>1. Mine(r) /\ Active(r) /\ FromWork(job[r]) /\ TenantKnown(r)
      BY <1>1 DEF ScopeInv, Shape, Mine, Active, Ended
    <2>2. job[r].op \in Operations
      BY <2>1, JobKnown
    <2>3. QED BY <1>1, <2>1, <2>2 DEF Mine, Stage, RowLabels, Operations
  <1>3. PbxIs(p.id, p.tenant)
    <2>1. CASE job[r].restore = None
      BY <1>1, <1>2, <2>1 DEF PbxIs, NewPbxId, Settled, TenantOf, TenantKnown
    <2>2. CASE job[r].restore # None
      <3>1. <<job[r].restore.pbx, job[r].restore.tenant>> \in Deployed
        BY <1>2, <2>2, JobKnown
      <3>2. job[r].restore.pbx[1] \notin Request
        BY <3>1, TablesAssumption
      <3>3. QED BY <1>2, <2>2, <3>1, <3>2 DEF PbxIs, NewPbxId, TenantKnown
    <2>3. QED BY <2>1, <2>2
  <1>4. CASE pbxs' = pbxs
    BY <1>1, <1>4, SameRows DEF ScopeInv
  <1>5. CASE pbxs' = pbxs \cup {p}
    BY <1>1, <1>3, <1>5, NewPbx DEF ScopeInv
  <1>6. QED BY <1>1, <1>4, <1>5

LEMMA AddPbxScope ==
    ASSUME ScopeInv, NEW r \in Request, Kept, AddPbx(r)
    PROVE  Rows'
  <1> DEFINE p == [id |-> <<r, job[r].host>>, tenant |-> job[r].tenant, host |-> job[r].host]
  <1>1. pc[r] = "pbx_add" /\ UNCHANGED <<condos, trunks>>
        /\ (pbxs' = pbxs \/ pbxs' = pbxs \cup {p})
    BY DEF AddPbx, At
  <1>2. job[r].op # "provision"
    BY <1>1 DEF ScopeInv, Shape, Mine, Stage, Active, Ended
  <1>3. PbxIs(p.id, p.tenant)
    BY <1>1, <1>2 DEF PbxIs, Settled, TenantOf
  <1>4. CASE pbxs' = pbxs
    BY <1>1, <1>4, SameRows DEF ScopeInv
  <1>5. CASE pbxs' = pbxs \cup {p}
    BY <1>1, <1>3, <1>5, NewPbx DEF ScopeInv
  <1>6. QED BY <1>1, <1>4, <1>5

\* The compensation takes a PBX with all that is on it, and a condominium with
\* its trunks.
LEMMA UndoScope ==
    ASSUME ScopeInv, NEW r \in Request, Kept, Undo(r)
    PROVE  Rows'
  <1>1. PICK gone, pbx :
           /\ pbxs' = {p \in pbxs : p.id \notin pbx}
           /\ condos' = {c \in condos : c.tenant \notin gone /\ c.pbx \notin pbx}
           /\ trunks' = {k \in trunks : /\ k.tenant \notin gone /\ k.pbx \notin pbx
                                        /\ Row(condos', k.condo) # {}}
    BY DEF Undo
  <1>2. pbxs' \subseteq pbxs /\ condos' \subseteq condos /\ trunks' \subseteq trunks
    BY <1>1
  <1>3. Homes'
    BY <1>2, HomesStay DEF Kept, ScopeInv, Rows, Homes, CondosHome, TrunksHome, PbxsHome
  <1>4. TrunkKeys' /\ CondoKeys'
    BY <1>2, DrawnStays DEF Kept, ScopeInv, Rows, TrunkKeys, CondoKeys
  <1>5. ScopeConsistent'
    <2>1. ASSUME NEW k \in trunks'
          PROVE  /\ \E p \in pbxs' : p.id = k.pbx /\ p.tenant = k.tenant
                 /\ \E c \in condos' : c.id = k.condo /\ c.tenant = k.tenant /\ c.pbx = k.pbx
      BY <1>1 DEF ScopeInv, Rows, ScopeConsistent, Consistent
    <2>2. ASSUME NEW c \in condos'
          PROVE  \E p \in pbxs' : p.id = c.pbx /\ p.tenant = c.tenant
      BY <1>1 DEF ScopeInv, Rows, ScopeConsistent, Consistent
    <2>3. QED BY <2>1, <2>2 DEF ScopeConsistent, Consistent
  <1>6. QED BY <1>3, <1>4, <1>5 DEF Rows

\* Every other step leaves the three tables.
LEMMA RequestRows ==
    ASSUME ScopeInv, NEW r \in Request, Kept, RequestStep(r)
    PROVE  Rows'
  <1>1. CASE CreateInsert(r)
    <2>1. CASE trunks' = trunks
      BY <1>1, <2>1, SameRows DEF CreateInsert, ScopeInv
    <2>2. QED BY <1>1, <2>1, NewTrunkScope
  <1>2. CASE Save(r) \/ InsertCondominium(r) \/ SaveCondominium(r) \/ InsertPbx(r) \/ AddPbx(r) \/ Undo(r)
    BY <1>2, SaveScope, NewCondominiumScope, SaveCondominiumScope, InsertPbxScope, AddPbxScope, UndoScope
  <1>3. CASE Begin(r) \/ Die(r)
    BY <1>3, SameRows DEF Begin, Die, world, tables, ScopeInv
  <1>4. CASE \/ CreateTrunk(r) \/ CreateScope(r) \/ CreateUnique(r) \/ CreateLegacy(r)
             \/ LoadTrunk(r) \/ CheckMove(r) \/ CheckIdentity(r) \/ CheckClash(r)
             \/ Find(r) \/ ImportCsv(r) \/ ImportOne(r) \/ ListCondominiums(r) \/ ImportJson(r)
             \/ CheckRow(r) \/ FindCondominium(r) \/ LoadCondominium(r)
             \/ LookupTrunk(r) \/ LookupPlace(r) \/ LookupTenant(r) \/ LookupFile(r)
    <2>1. UNCHANGED world
      BY <1>4 DEF CreateTrunk, CreateScope, CreateUnique, CreateLegacy, LoadTrunk, CheckMove,
         CheckIdentity, CheckClash, Find, ImportCsv, ImportOne, ListCondominiums, ImportJson, CheckRow,
         FindCondominium, LoadCondominium, LookupTrunk, LookupPlace, LookupTenant, LookupFile
    <2>2. QED BY <2>1, SameRows DEF world, tables, ScopeInv
  <1>5. CASE \/ FindTenant(r) \/ InsertTenant(r) \/ FindPbx(r) \/ CreateSchema(r) \/ StatementFails(r)
             \/ UndoFails(r) \/ ResolveVars(r) \/ WriteVars(r) \/ CheckTenant(r)
    <2>1. UNCHANGED <<pbxs, condos, trunks>>
      BY <1>5 DEF FindTenant, InsertTenant, FindPbx, CreateSchema, StatementFails, UndoFails,
         ResolveVars, WriteVars, CheckTenant, world, tables
    <2>2. QED BY <2>1, SameRows DEF ScopeInv
  <1>6. QED BY <1>1, <1>2, <1>3, <1>4, <1>5 DEF RequestStep, TrunkStep, ProvisionStep

LEMMA NameStaysNew ==
    ASSUME Shape, NEW r \in Request, RequestStep(r)
    PROVE  NameIsNew(r)'
  <1>1. CASE FindCondominium(r) /\ pc'[r] = "condo_insert"
    <2>1. Mine(r) /\ r \in DOMAIN mem /\ r \in DOMAIN pc /\ pc[r] = "condo"
      BY <1>1 DEF Shape, FindCondominium, At
    <2>2. PICK name \in Missing(r) : mem' = [mem EXCEPT ![r].name = name]
      BY <1>1, <2>1 DEF FindCondominium, Fails, Goto
    <2>3. mem'[r].name = name /\ mem'[r].ids = mem[r].ids
      BY <2>1, <2>2 DEF Mine, Blank
    <2>4. QED BY <2>2, <2>3 DEF NameIsNew, Missing
  <1>2. CASE ~FindCondominium(r) /\ TrunkStep(r)
    <2>1. pc'[r] # "condo_insert"
      <3>1. CASE pc[r] \in RowLabels
        BY <1>2, <3>1, RowOnward DEF RowLabels, Ended
      <3>2. CASE pc[r] \notin RowLabels
        BY <1>2, <3>2 DEF Shape, RowLabels, TrunkStep, CreateTrunk, CreateScope, CreateUnique,
           CreateLegacy, CreateInsert, LoadTrunk, CheckMove, CheckIdentity, CheckClash, Save, Find,
           ImportCsv, ImportOne, ListCondominiums, ImportJson, CheckRow, InsertCondominium,
           LoadCondominium, SaveCondominium, LookupTrunk, LookupPlace, LookupTenant, LookupFile,
           At, Goto, Fails
      <3>3. QED BY <3>1, <3>2
    <2>2. QED BY <2>1 DEF NameIsNew
  <1>3. CASE ProvisionStep(r) \/ Die(r)
    <2>1. pc'[r] \in {"tenant_insert", "pbx_find", "pbx_insert", "schema", "undo", "resolve", "vars",
                      "pbx_add", "ok", "failed", "dead"}
      BY <1>3 DEF Shape, ProvisionStep, FindTenant, InsertTenant, FindPbx, InsertPbx, CreateSchema,
         StatementFails, Undo, UndoFails, ResolveVars, WriteVars, CheckTenant, AddPbx, Fails, Goto, Die
    <2>2. QED BY <2>1 DEF NameIsNew
  <1>4. CASE Begin(r)
    <2>1. mem'[r] = Blank
      BY <1>4 DEF Begin, Shape, Mine
    <2>2. QED BY <2>1 DEF NameIsNew, Blank
  <1>5. QED BY <1>1, <1>2, <1>3, <1>4 DEF RequestStep, NameIsNew

LEMMA ScopeInit ==
    ASSUME Init
    PROVE  ScopeInv
  <1>1. Shape
    BY DEF Init, Shape, Mine, Blank, Active
  <1>2. Homes
    <2>1. CondosHome
      BY TablesAssumption DEF Init, CondosHome, CondoIs, CondoColumns
    <2>2. TrunksHome
      BY TablesAssumption DEF Init, TrunksHome, TrunkIs, TrunkColumns
    <2>3. \A p \in pbxs : <<p.id, p.tenant>> \in Deployed
      BY DEF Init, Deployed
    <2>4. \A x \in Deployed : x[1][1] \notin Request
      BY TablesAssumption
    <2>5. PbxsHome
      BY <2>3, <2>4 DEF PbxsHome, PbxIs
    <2>6. QED BY <2>1, <2>2, <2>5 DEF Homes
  <1>3. TrunkKeys /\ CondoKeys /\ ScopeConsistent
    BY TablesAssumption DEF Init, TrunkKeys, CondoKeys, TrunkDrawn, CondoDrawn, ScopeConsistent
  <1>4. \A r \in Request : Checked(r) /\ NameIsNew(r)
    BY DEF Init, Checked, NameIsNew, Placing, Moving
  <1>5. QED BY <1>1, <1>2, <1>3, <1>4 DEF ScopeInv, Rows

LEMMA ScopeStep ==
    ASSUME ScopeInv, [Next]_vars
    PROVE  ScopeInv'
  <1>1. CASE \E r \in Request : RequestStep(r)
    <2>1. PICK r \in Request : RequestStep(r)
      BY <1>1
    <2>2. Kept /\ \A q \in Request \ {r} : Unmoved(q)
      BY <2>1, RequestMoves, RequestOnward DEF Kept, ScopeInv
    <2>3. Checked(r)'
      BY <2>1, <2>2, CreateChecked, UpdateChecked, ImportChecked, OtherChecked, BeginChecked
         DEF Kept, RequestStep, TrunkStep
    <2>4. NameIsNew(r)'
      BY <2>1, NameStaysNew DEF ScopeInv
    <2>5. ASSUME NEW q \in Request \ {r} PROVE Checked(q)' /\ NameIsNew(q)'
      BY <2>2, CheckedStays DEF Kept, ScopeInv, NameIsNew, Unmoved
    <2>6. Rows'
      BY <2>1, <2>2, RequestRows
    <2>7. QED BY <2>2, <2>3, <2>4, <2>5, <2>6 DEF ScopeInv, Kept
  <1>2. CASE Outside \/ UNCHANGED vars
    <2>1. Kept /\ \A q \in Request : Unmoved(q)
      BY <1>2, OutsideMoves, StillOnward DEF Kept, ScopeInv
    <2>2. \A q \in Request : Checked(q)' /\ NameIsNew(q)'
      BY <2>1, CheckedStays DEF Kept, ScopeInv, NameIsNew, Unmoved
    <2>3. Rows'
      <3>1. CASE \E k \in trunks, s \in {"registered", "unregistered"} : Register(k, s)
        BY <2>1, <3>1, RegisterScope
      <3>2. CASE UNCHANGED <<pbxs, condos, trunks>>
        BY <2>1, <3>2, SameRows DEF ScopeInv
      <3>3. QED
        BY <1>2, <3>1, <3>2 DEF Outside, EditLegacy, SetTenant, vars, world, tables
    <2>4. QED BY <2>1, <2>2, <2>3 DEF ScopeInv, Kept
  <1>3. QED BY <1>1, <1>2 DEF Next

\* For any requests at the same time: the rows are the tenants', the checks a
\* request made still hold of the identifiers when it commits.
THEOREM ScopeInvariance == Spec => []ScopeInv
  <1>1. QED BY ScopeInit, ScopeStep, PTL DEF Spec

\* The tables always agree on whose a trunk and a condominium are, although no
\* foreign key says so, a check and its commit are two steps, and a compensation
\* may delete what the check has seen.
THEOREM ScopeKept == Spec => []ScopeConsistent
  <1>1. ScopeInv => ScopeConsistent
    BY DEF ScopeInv, Rows
  <1>2. QED BY <1>1, ScopeInvariance, PTL

\* Who leaves "insert" or "save" commits, or dies.
LEMMA Writer ==
    ASSUME Shape, Next, NEW r \in Request, Writes(r, {"insert", "save"})
    PROVE  /\ RequestStep(r)
           /\ pc[r] = "insert" => CreateInsert(r) \/ Die(r)
           /\ pc[r] = "save" => Save(r) \/ Die(r)
           /\ CreateInsert(r) \/ Save(r) \/ Die(r)
  <1>1. RequestStep(r)
    <2>1. ASSUME NEW q \in Request, RequestStep(q) PROVE q = r
      BY <2>1, RequestMoves DEF Unmoved, Writes
    <2>2. ASSUME Outside PROVE FALSE
      BY <2>2, OutsideMoves DEF Unmoved, Writes
    <2>3. QED BY <2>1, <2>2 DEF Next
  <1>2. pc[r] \in {"insert", "save"}
    BY DEF Writes
  <1>3. ASSUME TrunkStep(r)
        PROVE  (pc[r] = "insert" => CreateInsert(r)) /\ (pc[r] = "save" => Save(r))
    BY <1>2, <1>3 DEF TrunkStep, CreateTrunk, CreateScope, CreateUnique,
       CreateLegacy, CreateInsert, LoadTrunk, CheckMove, CheckIdentity, CheckClash, Save, Find,
       ImportCsv, ImportOne, ListCondominiums, ImportJson, CheckRow, FindCondominium,
       InsertCondominium, LoadCondominium, SaveCondominium,
       LookupTrunk, LookupPlace, LookupTenant, LookupFile, At
  <1>4. ASSUME ProvisionStep(r) PROVE FALSE
    BY <1>2, <1>4 DEF ProvisionStep, FindTenant, InsertTenant, FindPbx, InsertPbx, CreateSchema,
       StatementFails, Undo, UndoFails, ResolveVars, WriteVars, CheckTenant, AddPbx, At
  <1>5. QED BY <1>1, <1>2, <1>3, <1>4 DEF RequestStep, Begin

LEMMA IsolatedStep ==
    ASSUME ScopeInv, [Next]_vars
    PROVE  [\A r \in Request : Writes(r, {"insert", "save"}) =>
               \A k \in (trunks' \ trunks) \cup (trunks \ trunks') : k.tenant = job[r].tenant]_vars
  <1>1. SUFFICES ASSUME Next, NEW r \in Request, Writes(r, {"insert", "save"}),
                        NEW k \in (trunks' \ trunks) \cup (trunks \ trunks')
                 PROVE  k.tenant = job[r].tenant
    OBVIOUS
  <1>4. CreateInsert(r) \/ Save(r) \/ Die(r)
    BY <1>1, Writer DEF ScopeInv
  <1>5. CASE CreateInsert(r)
    BY <1>1, <1>5 DEF CreateInsert, NewTrunk
  <1>6. CASE Save(r)
    <2>1. PICK o \in trunks :
              /\ o.id = mem[r].seen.id
              /\ trunks' = (trunks \ {o}) \cup {Updated(o, mem[r].seen, Updates(r))}
      BY <1>1, <1>6, SaveReplaces
    <2>2. o.tenant = job[r].tenant /\ Updated(o, mem[r].seen, Updates(r)).tenant = job[r].tenant
      BY <1>6, <2>1, SavedTrunk
    <2>3. QED BY <1>1, <2>1, <2>2
  <1>7. CASE Die(r)
    BY <1>1, <1>7 DEF Die, world, tables
  <1>8. QED BY <1>4, <1>5, <1>6, <1>7

\* A request for a tenant never writes a trunk of another's, whatever identity
\* it imports and whatever trunk it names.
THEOREM TenantsIsolated == Spec => TenantIsolation
  <1>1. ScopeInv /\ [Next]_vars =>
           [\A r \in Request : Writes(r, {"insert", "save"}) =>
               \A k \in (trunks' \ trunks) \cup (trunks \ trunks') : k.tenant = job[r].tenant]_vars
    BY IsolatedStep
  <1>2. QED BY <1>1, ScopeInvariance, PTL DEF Spec, TenantIsolation

-----------------------------------------------------------------------------
(***************************************************************************)
(* What an import writes                                                   *)
(***************************************************************************)

LEMMA ImportedStep ==
    ASSUME ScopeInv, [Next]_vars
    PROVE  [\A r \in Request : Writes(r, {"save"}) /\ job[r].op # "update" =>
               \A k \in trunks' : k.id = mem[r].seen.id /\ mem'[r].wrote > mem[r].wrote =>
                  /\ k.enabled => ~mem[r].seen.enabled
                  /\ k.status # "unknown" => mem[r].seen.status = "unknown"]_vars
  <1>1. SUFFICES ASSUME Next, NEW r \in Request, Writes(r, {"save"}), job[r].op # "update",
                        NEW k \in trunks', k.id = mem[r].seen.id, mem'[r].wrote > mem[r].wrote
                 PROVE  /\ k.enabled => ~mem[r].seen.enabled
                        /\ k.status # "unknown" => mem[r].seen.status = "unknown"
    OBVIOUS
  <1>2. pc[r] = "save" /\ (Save(r) \/ Die(r)) /\ mem[r].wrote \in Nat
    BY <1>1, Writer DEF Writes, ScopeInv, Shape, Mine
  <1>3. mem'[r].wrote # mem[r].wrote
    BY <1>1, <1>2
  <1>4. Save(r)
    BY <1>2, <1>3 DEF Die
  <1>5. ~Refused(r)
    <2>1. Active(r) /\ job' = job
      BY <1>2, <1>4 DEF Save, Active, Ended
    <2>2. QED BY <1>2, <1>3, <2>1, RefusedMine DEF ScopeInv, RowLabels
  <1> DEFINE now == Row(trunks, mem[r].seen.id)
  <1>6. trunks' = (trunks \ now) \cup {Updated(o, mem[r].seen, Updates(r)) : o \in now}
    BY <1>4, <1>5 DEF Save
  <1>7. PICK o \in now : k = Updated(o, mem[r].seen, Updates(r))
    BY <1>1, <1>6 DEF Row
  <1>8. DOMAIN o = TrunkColumns
    BY DEF Row, ScopeInv, Rows, Homes, TrunksHome
  <1>9. /\ {"enabled", "status"} \subseteq DOMAIN Updates(r)
        /\ Updates(r).enabled = FALSE /\ Updates(r).status = "unknown"
    BY <1>1 DEF Updates, Asked
  <1>10. /\ k.enabled = IF FALSE # mem[r].seen.enabled THEN FALSE ELSE o.enabled
         /\ k.status = IF "unknown" # mem[r].seen.status THEN "unknown" ELSE o.status
    <2>1. /\ k.enabled = IF "enabled" \in DOMAIN Updates(r) /\ Updates(r).enabled # mem[r].seen.enabled
                            THEN Updates(r).enabled ELSE o.enabled
          /\ k.status = IF "status" \in DOMAIN Updates(r) /\ Updates(r).status # mem[r].seen.status
                           THEN Updates(r).status ELSE o.status
      BY <1>7, <1>8, UpdatedRow DEF TrunkColumns
    <2>2. "enabled" \in DOMAIN Updates(r) /\ "status" \in DOMAIN Updates(r)
      BY <1>9
    <2>3. QED BY <1>9, <2>1, <2>2, Zenon
  <1>11. QED BY <1>10

\* A trunk whose credentials an import has replaced is off, whatever another
\* did to its other columns meanwhile.
THEOREM ImportsSwitchOff == Spec => ImportedIsOff
  <1>1. ScopeInv /\ [Next]_vars =>
           [\A r \in Request : Writes(r, {"save"}) /\ job[r].op # "update" =>
               \A k \in trunks' : k.id = mem[r].seen.id /\ mem'[r].wrote > mem[r].wrote =>
                  /\ k.enabled => ~mem[r].seen.enabled
                  /\ k.status # "unknown" => mem[r].seen.status = "unknown"]_vars
    BY ImportedStep
  <1>2. QED BY <1>1, ScopeInvariance, PTL DEF Spec, ImportedIsOff

-----------------------------------------------------------------------------
(***************************************************************************)
(* The legacy directory                                                    *)
(***************************************************************************)

HistShape ==
    /\ DOMAIN hist = Request
    /\ \A r \in Request : DOMAIN hist[r] = {"moves", "edited", "right", "undone"}
                          /\ hist[r].edited \in BOOLEAN

\* What the file was asked about still holds, if nobody has edited it.
Unclashed(r) ==
    hist[r].edited = FALSE =>
        /\ pc[r] = "insert" => ~LegacyHas(UserOf(RowOf(r).ident))
        /\ pc[r] = "save" /\ job[r].op = "update" /\ IdentityChanges(r) =>
              ~LegacyHas(UserOf(Asked(r).ident))

ClashInv == HistShape /\ \A r \in Request : Unclashed(r)

\* The history of a step: an edit of the file is remembered.
LEMMA Observed ==
    ASSUME HistShape, NEW actor, Observe(actor)
    PROVE  /\ HistShape'
           /\ \A r \in Request : hist'[r].edited = FALSE =>
                 hist[r].edited = FALSE /\ (Active(r) => legacy' = legacy)
  <1>1. ASSUME NEW r \in Request
        PROVE  /\ DOMAIN hist'[r] = {"moves", "edited", "right", "undone"}
               /\ hist'[r].edited \in BOOLEAN
               /\ hist'[r].edited = FALSE =>
                     hist[r].edited = FALSE /\ (Active(r) => legacy' = legacy)
    <2>1. CASE At(r, "idle")
      <3>1. \E x : hist'[r] = [hist[r] EXCEPT !.right = x]
        BY <2>1 DEF Observe
      <3>2. QED BY <2>1, <3>1 DEF HistShape, At, Active
    <2>2. CASE ~At(r, "idle")
      <3>1. \E x, y, z : hist'[r] =
               [moves |-> x, edited |-> hist[r].edited \/ (Active(r) /\ legacy' # legacy),
                right |-> y, undone |-> z]
        BY <2>2 DEF Observe
      <3>2. hist[r].edited \in BOOLEAN
        BY DEF HistShape
      <3>3. /\ DOMAIN hist'[r] = {"moves", "edited", "right", "undone"}
            /\ hist'[r].edited = (hist[r].edited \/ (Active(r) /\ legacy' # legacy))
        BY <3>1
      <3>4. QED BY <3>2, <3>3, Zenon
    <2>3. QED BY <2>1, <2>2
  <1>2. DOMAIN hist' = Request
    BY DEF Observe
  <1>3. QED BY <1>1, <1>2 DEF HistShape

\* A request asks the file, and keeps what it wants to write.
LEMMA AskedFile ==
    ASSUME Shape, NEW r \in Request, RequestStep(r), legacy' = legacy,
           hist'[r].edited = FALSE => hist[r].edited = FALSE, Unclashed(r)
    PROVE  Unclashed(r)'
  <1>0. SUFFICES ASSUME hist'[r].edited = FALSE
                 PROVE  /\ pc'[r] = "insert" => ~LegacyHas(UserOf(RowOf(r).ident))'
                        /\ pc'[r] = "save" /\ job'[r].op = "update" /\ IdentityChanges(r)' =>
                              ~LegacyHas(UserOf(Asked(r).ident))'
    BY DEF Unclashed
  <1>1. CASE pc'[r] \notin {"insert", "save"}
    BY <1>1
  <1>2. CASE pc'[r] \in {"insert", "save"}
    <2>1. CreateLegacy(r) \/ CheckClash(r) \/ Find(r)
      <3>1. CASE Refused(r) /\ TrunkStep(r) /\ pc[r] \in RowLabels
        BY <1>2, <3>1, TrunkStepOf, RefusedMine DEF Local
      <3>2. CASE (Advance(r, 0) \/ Advance(r, 1)) /\ TrunkStep(r) /\ pc[r] \in RowLabels
        BY <1>2, <3>2, TrunkStepOf, AdvanceMine DEF Local
      <3>3. CASE TrunkStep(r) /\ ~(pc[r] \in RowLabels /\ (Refused(r) \/ Advance(r, 0) \/ Advance(r, 1)))
        BY <1>2, <3>3 DEF Shape, RowLabels, TrunkStep, CreateTrunk, CreateScope, CreateUnique,
           CreateLegacy, CreateInsert, LoadTrunk, CheckMove, CheckIdentity, CheckClash, Save, Find,
           ImportCsv, ImportOne, ListCondominiums, ImportJson, CheckRow, FindCondominium,
           InsertCondominium, LoadCondominium, SaveCondominium,
           LookupTrunk, LookupPlace, LookupTenant, LookupFile, At, Goto, Fails, Vanished
      <3>4. ~(ProvisionStep(r) \/ Die(r))
        BY <1>2 DEF Shape, ProvisionStep, FindTenant, InsertTenant, FindPbx, InsertPbx, CreateSchema,
           StatementFails, Undo, UndoFails, ResolveVars, WriteVars, CheckTenant, AddPbx, Fails, Goto, Die
      <3>5. ~Begin(r)
        <4>1. ASSUME Begin(r) PROVE pc'[r] \in Operations
          BY <4>1, BeginsAt
        <4>2. QED BY <1>2, <4>1 DEF Operations
      <3>6. QED BY <3>1, <3>2, <3>3, <3>4, <3>5 DEF RequestStep
    <2>2. Active(r) /\ Local(r) /\ Mine(r) /\ r \in DOMAIN pc /\ job[r].op \in Operations /\ TrunkStep(r)
      BY <2>1, TrunkStepOf, JobKnown DEF TrunkStep, Shape, Mine, Active
    <2>3. CASE CreateLegacy(r)
      <3>1. ~Refused(r)
        BY <1>2, <2>2, <2>3, RefusedMine DEF Local, CreateLegacy, At, RowLabels
      <3>2. ~LegacyClash(RowOf(r).ident) /\ mem' = mem /\ pc'[r] = "insert"
        BY <2>2, <2>3, <3>1 DEF CreateLegacy, Goto
      <3>3. QED BY <3>2 DEF LegacyClash, LegacyHas, RowOf
    <2>4. CASE CheckClash(r)
      <3>1. /\ ~(IdentityChanges(r) /\ LegacyClash(Asked(r).ident))
            /\ mem' = mem /\ job' = job /\ pc'[r] = "save"
        BY <1>2, <2>2, <2>4 DEF CheckClash, Goto, Fails
      <3>2. IdentityChanges(r)' = IdentityChanges(r) /\ Asked(r)' = Asked(r)
        BY <3>1 DEF IdentityChanges, Asked, RowOf
      <3>3. QED BY <3>1, <3>2 DEF LegacyClash, LegacyHas
    <2>5. CASE Find(r)
      <3>1. job[r].op # "update" /\ job' = job
        BY <2>2, <2>5 DEF Find, At, Mine, Stage, Operations, RowLabels
      <3>2. pc'[r] # "insert"
        <4>1. ~Refused(r)
          BY <1>2, <2>2, <2>5, RefusedMine DEF Local, Find, At, RowLabels
        <4>2. QED BY <2>2, <2>5, <4>1 DEF Find, Goto
      <3>3. QED BY <3>1, <3>2
    <2>6. QED BY <2>1, <2>3, <2>4, <2>5
  <1>3. QED BY <1>1, <1>2

LEMMA ClashInit ==
    ASSUME Init
    PROVE  ClashInv
  BY DEF Init, ClashInv, HistShape, Unclashed

LEMMA ClashStep ==
    ASSUME Shape, ClashInv, [Next]_vars
    PROVE  ClashInv'
  <1>1. CASE \E r \in Request : RequestStep(r)
    <2>1. PICK r \in Request : RequestStep(r)
      BY <1>1
    <2>2. legacy' = legacy
      <3>1. CASE TrunkStep(r)
        BY <3>1 DEF TrunkStep, CreateTrunk, CreateScope, CreateUnique, CreateLegacy, CreateInsert,
           LoadTrunk, CheckMove, CheckIdentity, CheckClash, Save, Find, ImportCsv, ImportOne,
           ListCondominiums, ImportJson, CheckRow, FindCondominium, InsertCondominium,
           LoadCondominium, SaveCondominium, LookupTrunk, LookupPlace, LookupTenant, LookupFile, world
      <3>2. CASE ProvisionStep(r)
        BY <3>2 DEF ProvisionStep, FindTenant, InsertTenant, FindPbx, InsertPbx, CreateSchema,
           StatementFails, Undo, UndoFails, ResolveVars, WriteVars, CheckTenant, AddPbx, world
      <3>3. QED BY <2>1, <3>1, <3>2 DEF RequestStep, Begin, Die, world
    <2>3. HistShape' /\ \A q \in Request : hist'[q].edited = FALSE => hist[q].edited = FALSE
      BY <2>1, Observed DEF RequestStep, ClashInv
    <2>4. Unclashed(r)'
      BY <2>1, <2>2, <2>3, AskedFile DEF ClashInv
    <2>5. ASSUME NEW q \in Request \ {r} PROVE Unclashed(q)'
      <3>1. Unmoved(q)
        BY <2>1, RequestMoves
      <3>2. QED BY <2>2, <2>3, <3>1
             DEF ClashInv, Unclashed, Unmoved, RowOf, Asked, IdentityChanges, LegacyHas
    <2>6. QED BY <2>3, <2>4, <2>5 DEF ClashInv
  <1>2. CASE Outside /\ Observe(None)
    <2>1. HistShape' /\ \A q \in Request : hist'[q].edited = FALSE =>
                 hist[q].edited = FALSE /\ (Active(q) => legacy' = legacy)
      BY <1>2, Observed DEF ClashInv
    <2>2. \A q \in Request : Unmoved(q)
      BY <1>2, OutsideMoves
    <2>3. ASSUME NEW q \in Request PROVE Unclashed(q)'
      <3>1. CASE ~Active(q)
        BY <2>2, <3>1 DEF Active, Unclashed, Unmoved, Ended
      <3>2. CASE Active(q)
        BY <2>1, <2>2, <3>2
           DEF ClashInv, Unclashed, Unmoved, RowOf, Asked, IdentityChanges, LegacyHas
      <3>3. QED BY <3>1, <3>2
    <2>4. QED BY <2>1, <2>3 DEF ClashInv
  <1>3. CASE UNCHANGED vars
    BY <1>3 DEF vars, world, local, ClashInv, HistShape, Unclashed, RowOf, Asked, IdentityChanges,
       LegacyHas
  <1>4. QED BY <1>1, <1>2, <1>3 DEF Next

LEMMA ClashStepProperty ==
    ASSUME ScopeInv, ClashInv, [Next]_vars
    PROVE  [\A r \in Request : Writes(r, {"insert", "save"}) =>
               \A k \in trunks' \ trunks :
                  LegacyHas(UserOf(k.ident)) =>
                     hist[r].edited \/ \E o \in trunks : o.id = k.id /\ o.ident = k.ident]_vars
  <1>1. SUFFICES ASSUME Next, NEW r \in Request, Writes(r, {"insert", "save"}), NEW k \in trunks' \ trunks,
                        LegacyHas(UserOf(k.ident)), ~hist[r].edited
                 PROVE  \E o \in trunks : o.id = k.id /\ o.ident = k.ident
    OBVIOUS
  <1>2. CreateInsert(r) \/ Save(r) \/ Die(r)
    BY <1>1, Writer DEF ScopeInv
  <1>3. hist[r].edited = FALSE /\ Unclashed(r)
    BY <1>1 DEF ClashInv, HistShape
  <1>4. CASE CreateInsert(r)
    <2>1. k = NewTrunk(r) /\ pc[r] = "insert"
      BY <1>1, <1>4 DEF CreateInsert, At
    <2>2. k.ident = RowOf(r).ident
      BY <2>1 DEF NewTrunk
    <2>3. QED BY <1>1, <1>3, <2>1, <2>2 DEF Unclashed
  <1>5. CASE Save(r)
    <2>1. PICK o \in trunks :
              /\ o.id = mem[r].seen.id
              /\ trunks' = (trunks \ {o}) \cup {Updated(o, mem[r].seen, Updates(r))}
      BY <1>1, <1>5, SaveReplaces
    <2>2. k = Updated(o, mem[r].seen, Updates(r)) /\ k.id = o.id
      BY <1>1, <1>5, <2>1, SavedTrunk
    <2>3. DOMAIN o = TrunkColumns
      BY DEF ScopeInv, Rows, Homes, TrunksHome
    <2>4. k.ident = IF "ident" \in DOMAIN Updates(r) /\ Updates(r).ident # mem[r].seen.ident
                      THEN Updates(r).ident ELSE o.ident
      BY <2>2, <2>3, UpdatedRow DEF TrunkColumns
    <2>5. "ident" \in DOMAIN Updates(r) =>
             "ident" \in DOMAIN Asked(r) /\ Updates(r).ident = Asked(r).ident /\ job[r].op = "update"
      BY DEF Updates, Asked
    <2>6. CASE k.ident = o.ident
      BY <2>2, <2>6
    <2>7. CASE k.ident # o.ident
      <3>1. IdentityChanges(r) /\ k.ident = Asked(r).ident /\ job[r].op = "update"
        BY <2>4, <2>5, <2>7 DEF IdentityChanges
      <3>2. pc[r] = "save"
        BY <1>5 DEF Save, At
      <3>3. QED BY <1>1, <1>3, <3>1, <3>2 DEF Unclashed
    <2>8. QED BY <2>6, <2>7
  <1>6. CASE Die(r)
    BY <1>1, <1>6 DEF Die, world, tables
  <1>7. QED BY <1>2, <1>4, <1>5, <1>6

\* As long as nobody edits the file while a request runs, that request gives no
\* trunk a user name that the file has.
THEOREM LegacyKeptApart == Spec => NoNewClash
  <1>1. Init => ScopeInv /\ ClashInv
    BY ScopeInit, ClashInit
  <1>2. ScopeInv /\ ClashInv /\ [Next]_vars => (ScopeInv /\ ClashInv)'
    BY ScopeStep, ClashStep DEF ScopeInv
  <1>3. ScopeInv /\ ClashInv /\ [Next]_vars =>
           [\A r \in Request : Writes(r, {"insert", "save"}) =>
               \A k \in trunks' \ trunks :
                  LegacyHas(UserOf(k.ident)) =>
                     hist[r].edited \/ \E o \in trunks : o.id = k.id /\ o.ident = k.ident]_vars
    BY ClashStepProperty
  <1>4. QED BY <1>1, <1>2, <1>3, PTL DEF Spec, NoNewClash

-----------------------------------------------------------------------------
(***************************************************************************)
(* Types                                                                   *)
(***************************************************************************)

Listed == RowLabels \cup {"check"}
OfRows == {"create", "csv", "json", "batch"}

\* The row in hand is one of the list, its user is a user, and its prefix was
\* looked at before it is written.
RowsFit(r) ==
    Active(r) =>
        /\ Len(mem[r].rows) \in Nat
        /\ pc[r] \in Listed => mem[r].n \in 1 .. Len(mem[r].rows)
        /\ pc[r] \notin Listed => mem[r].n = 1
        /\ job[r].op \in OfRows =>
              \A i \in 1 .. Len(mem[r].rows) : UserOf(mem[r].rows[i].ident) \in User
        /\ pc[r] \in Placing => WellFormed(RowOf(r).prefix)
        /\ pc[r] \in Moving /\ "prefix" \in DOMAIN Asked(r) => WellFormed(Asked(r).prefix)

TenantsTyped ==
    /\ \A t \in tenants : DOMAIN t = {"id", "schema", "status"} /\ t.status \in {"active", "suspended"}
    /\ \A t, o \in tenants : t.id = o.id \/ t.schema = o.schema => t = o
    /\ \A s \in schemas : s \in STRING

TrunkTyped(k) ==
    /\ WellFormed(k.prefix) /\ UserOf(k.ident) \in User \ Long
    /\ k.enabled \in BOOLEAN /\ k.status \in {"unknown", "registered", "unregistered"}

RestTyped == /\ DOMAIN legacy = {"ok", "users"} /\ legacy.users \subseteq User /\ legacy.ok \in BOOLEAN
             /\ changes \in 0 .. MaxChanges /\ faults \in 0 .. MaxFaults

Typed == TenantsTyped /\ (\A k \in trunks : TrunkTyped(k)) /\ RestTyped

TypeInv == Typed /\ \A r \in Request : RowsFit(r)

LEMMA TypeImplied ==
    ASSUME ScopeInv, TypeInv
    PROVE  TypeOK
  <1>1. \A r \in Request : Active(r) => mem[r].n \in 1 .. Len(mem[r].rows) + 1
    <2>1. ASSUME NEW r \in Request, Active(r) PROVE mem[r].n \in 1 .. Len(mem[r].rows) + 1
      <3>1. Len(mem[r].rows) \in Nat /\ (mem[r].n \in 1 .. Len(mem[r].rows) \/ mem[r].n = 1)
        BY <2>1 DEF TypeInv, RowsFit
      <3>2. QED BY <3>1
    <2>2. QED BY <2>1
  <1>2. QED
    BY <1>1 DEF TypeInv, Typed, TenantsTyped, TrunkTyped, RestTyped, TypeOK, ScopeInv, Rows, TrunkKeys, CondoKeys

LEMMA TypeInit ==
    ASSUME Init
    PROVE  TypeInv
  <1>1. TenantsTyped
    BY TablesAssumption DEF Init, TenantsTyped
  <1>2. \A k \in trunks : TrunkTyped(k)
    BY TablesAssumption DEF Init, TrunkTyped, WellFormed
  <1>3. RestTyped
    BY AdminAssumption DEF Init, RestTyped
  <1>4. \A r \in Request : RowsFit(r)
    BY DEF Init, RowsFit, Active
  <1>5. QED BY <1>1, <1>2, <1>3, <1>4 DEF TypeInv, Typed

-----------------------------------------------------------------------------
\* The lists that the parsers make.
LEMMA SubsetCounted ==
    ASSUME NEW n \in Nat, NEW S, S \subseteq 1 .. n
    PROVE  Cardinality(S) \in Nat
  <1>1. IsFiniteSet(1 .. n)
    BY FS_Interval
  <1>2. IsFiniteSet(S)
    BY <1>1, FS_Subset
  <1>3. QED BY <1>2, FS_CardinalityType

LEMMA CsvRows ==
    ASSUME NEW lines, lines \in Seq(ToSet(lines)),
           \A i \in DOMAIN lines : lines[i].user \in User \cup {None},
           ~CsvRefused(lines),
           NEW order \in InOrder(SipLines(lines)),
           NEW rows, rows = [n \in DOMAIN order |-> FromLine(lines[order[n]])]
    PROVE  /\ Len(rows) \in Nat
           /\ \A i \in 1 .. Len(rows) : UserOf(rows[i].ident) \in User
           /\ order # <<>> => Len(rows) > 0
  <1> DEFINE sip == SipLines(lines)
             N == Cardinality(sip)
  <1>1. sip \subseteq 1 .. Len(lines) /\ Len(lines) \in Nat
    BY DEF SipLines
  <1>2. N \in Nat
    BY <1>1, SubsetCounted
  <1>3. order \in [1 .. N -> sip]
    BY DEF InOrder
  <1> HIDE DEF N, sip
  <1>4. Len(rows) = N /\ Len(order) = N
    BY <1>2, <1>3
  <1>5. ASSUME NEW i \in 1 .. N PROVE UserOf(rows[i].ident) \in User
    <2>1. rows[i] = FromLine(lines[order[i]]) /\ order[i] \in sip
      BY <1>3
    <2>2. rows[i].ident[2] = lines[order[i]].user
      BY <2>1 DEF FromLine
    <2>3. lines[order[i]].user \in User
      BY <2>1 DEF CsvRefused, SipLines, sip
    <2>4. QED BY <2>2, <2>3 DEF UserOf
  <1>6. order # <<>> => N # 0
    BY <1>3
  <1>7. QED BY <1>2, <1>4, <1>5, <1>6

LEMMA JsonRow ==
    ASSUME NEW e, NEW condo, e.user \in User \cup {None}, ParsedOne(e, condo) # None
    PROVE  UserOf(ParsedOne(e, condo).ident) \in User
  <1>1. Normal(e) /\ ParsedOne(e, condo) = FromJson(e, condo)
    BY DEF ParsedOne
  <1>2. FromJson(e, condo).ident[2] = e.user
    BY DEF FromJson
  <1>3. QED BY <1>1, <1>2 DEF Normal, UserOf

LEMMA JsonRows ==
    ASSUME NEW entries, entries \in Seq(ToSet(entries)), NEW names,
           \A i \in DOMAIN entries : entries[i].user \in User \cup {None},
           NEW parsed, parsed = ParsedJson(entries, names), parsed # None
    PROVE  /\ Len(entries) \in Nat /\ Len(entries) > 0
           /\ DOMAIN parsed = 1 .. Len(entries)
           /\ \A i \in 1 .. Len(entries) :
                 "ident" \in DOMAIN parsed[i] /\ UserOf(parsed[i].ident) \in User
  <1>1. Len(entries) \in Nat /\ DOMAIN entries = 1 .. Len(entries)
    OBVIOUS
  <1>2. /\ entries # <<>> /\ \A e \in ToSet(entries) : Normal(e)
        /\ parsed = [i \in DOMAIN entries |-> FromJson(entries[i], names[entries[i].number])]
    BY DEF ParsedJson
  <1>3. Len(entries) # 0
    BY <1>2
  <1>4. ASSUME NEW i \in 1 .. Len(entries)
        PROVE  "ident" \in DOMAIN parsed[i] /\ UserOf(parsed[i].ident) \in User
    <2>1. parsed[i] = FromJson(entries[i], names[entries[i].number])
      BY <1>1, <1>2
    <2>2. "ident" \in DOMAIN parsed[i] /\ parsed[i].ident[2] = entries[i].user
      BY <2>1 DEF FromJson
    <2>3. entries[i] \in ToSet(entries)
      BY <1>1 DEF ToSet
    <2>4. entries[i].user \in User
      BY <1>1, <1>2, <2>3 DEF Normal
    <2>5. QED BY <2>2, <2>4 DEF UserOf
  <1>5. QED BY <1>1, <1>2, <1>3, <1>4

-----------------------------------------------------------------------------
LEMMA EndedFits ==
    ASSUME NEW r \in Request, pc'[r] \in Ended
    PROVE  RowsFit(r)'
  BY DEF RowsFit, Active

LEMMA StillFits ==
    ASSUME NEW r \in Request, RowsFit(r), Unmoved(r)
    PROVE  RowsFit(r)'
  BY DEF RowsFit, Unmoved, Active, RowOf, Asked

\* A step to a label that has no row in hand, with the list as it was.
LEMMA BesideFits ==
    ASSUME NEW r \in Request, RowsFit(r), Active(r), job' = job, pc[r] \notin Listed,
           pc'[r] \notin Listed \cup Moving,
           mem'[r].rows = mem[r].rows, mem'[r].n = mem[r].n
    PROVE  RowsFit(r)'
  BY DEF RowsFit, Listed, RowLabels, Placing

\* A step among the labels of a row, with the list as it was.
LEMMA AlongFits ==
    ASSUME Shape, NEW r \in Request, RowsFit(r), Active(r), job' = job,
           pc[r] \in RowLabels, pc'[r] \in RowLabels,
           mem'[r].rows = mem[r].rows, mem'[r].n = mem[r].n,
           pc'[r] \in Placing => WellFormed(RowOf(r).prefix),
           pc'[r] \in Moving => job[r].op # "update"
    PROVE  RowsFit(r)'
  <1>1. RowOf(r)' = RowOf(r)
    BY DEF RowOf
  <1>2. pc'[r] \in Moving => "prefix" \notin DOMAIN Asked(r)'
    BY DEF Asked
  <1>3. QED BY <1>1, <1>2 DEF RowsFit, Listed

\* The next row, or the end.
LEMMA AdvanceFits ==
    ASSUME Shape, NEW r \in Request, RowsFit(r), Active(r), job' = job, NEW k \in Nat, Advance(r, k),
           pc[r] \in RowLabels
    PROVE  RowsFit(r)'
  <1>1. Mine(r) /\ r \in DOMAIN mem /\ r \in DOMAIN pc
    BY DEF Shape
  <1>2. /\ mem'[r].rows = mem[r].rows /\ mem'[r].n = mem[r].n + 1
        /\ pc'[r] = IF mem[r].n < Len(mem[r].rows) THEN "find" ELSE "ok"
    BY <1>1 DEF Advance, Goto, Mine, Blank
  <1>3. Len(mem[r].rows) \in Nat /\ mem[r].n \in 1 .. Len(mem[r].rows)
    BY DEF RowsFit, Listed
  <1>4. CASE mem[r].n < Len(mem[r].rows)
    <2>1. pc'[r] = "find" /\ mem'[r].n \in 1 .. Len(mem'[r].rows)
      BY <1>2, <1>3, <1>4
    <2>2. QED BY <1>2, <1>3, <2>1 DEF RowsFit, Listed, RowLabels, Placing, Moving
  <1>5. CASE ~(mem[r].n < Len(mem[r].rows))
    BY <1>2, <1>5, EndedFits DEF Ended
  <1>6. QED BY <1>4, <1>5

LEMMA RefusedFits ==
    ASSUME Shape, NEW r \in Request, RowsFit(r), Active(r), job' = job, Refused(r), pc[r] \in RowLabels
    PROVE  RowsFit(r)'
  <1>1. CASE job[r].op = "csv"
    BY <1>1, AdvanceFits DEF Refused
  <1>2. CASE job[r].op # "csv"
    BY <1>2, EndedFits DEF Refused, Fails, Goto, Ended, Shape
  <1>3. QED BY <1>1, <1>2

\* A list is made, and the first row of it taken in hand.
LEMMA ListedFits ==
    ASSUME Shape, NEW r \in Request, RowsFit(r), Active(r), job' = job, pc[r] \notin Listed,
           NEW rows, NEW l, mem' = [mem EXCEPT ![r].rows = rows], pc' = [pc EXCEPT ![r] = l],
           Len(rows) \in Nat, Len(rows) > 0, l \in {"find", "scope", "check"},
           \A i \in 1 .. Len(rows) : UserOf(rows[i].ident) \in User
    PROVE  RowsFit(r)'
  <1>1. Mine(r) /\ r \in DOMAIN mem /\ r \in DOMAIN pc
    BY DEF Shape
  <1>2. mem'[r].rows = rows /\ mem'[r].n = mem[r].n /\ pc'[r] = l
    BY <1>1 DEF Mine, Blank
  <1>3. mem[r].n = 1 /\ 1 \in 1 .. Len(rows)
    BY DEF RowsFit
  <1>4. QED BY <1>2, <1>3 DEF RowsFit, Listed, RowLabels, Placing, Moving

LEMMA CreateFits ==
    ASSUME Shape, NEW r \in Request, RowsFit(r),
           CreateTrunk(r) \/ CreateScope(r) \/ CreateUnique(r) \/ CreateLegacy(r) \/ CreateInsert(r)
    PROVE  RowsFit(r)'
  <1>0. Active(r) /\ job' = job /\ Mine(r) /\ r \in DOMAIN pc /\ Admitted(job[r])
    BY CreateMine, JobAdmitted DEF Shape, Local, Mine, Active
  <1>1. CASE CreateTrunk(r)
    <2>1. /\ mem' = [mem EXCEPT ![r].rows = <<job[r].row>>]
          /\ pc' = [pc EXCEPT ![r] = "scope"] /\ pc[r] = "create"
      BY <1>1 DEF CreateTrunk, Goto, At
    <2>2. job[r].op = "create"
      BY <1>0, <2>1 DEF Mine, Stage, RowLabels, Operations, Admitted
    <2>3. UserOf(job[r].row.ident) \in User
      BY <1>0, <2>2 DEF Admitted
    <2> DEFINE rows == <<job[r].row>>
    <2>4. Len(rows) = 1 /\ rows[1] = job[r].row
      OBVIOUS
    <2> HIDE DEF rows
    <2>5. Len(rows) \in Nat /\ Len(rows) > 0 /\ \A i \in 1 .. Len(rows) : UserOf(rows[i].ident) \in User
      BY <2>3, <2>4
    <2>6. mem' = [mem EXCEPT ![r].rows = rows]
      BY <2>1 DEF rows
    <2>7. QED BY <1>0, <2>1, <2>5, <2>6, ListedFits DEF Listed, RowLabels
  <1>2. CASE CreateScope(r)
    <2>1. pc[r] = "scope"
      BY <1>2 DEF CreateScope, At
    <2>2. CASE Refused(r)
      BY <1>0, <2>1, <2>2, RefusedFits DEF RowLabels
    <2>3. CASE ~Refused(r)
      <3>1. WellFormed(RowOf(r).prefix) /\ mem' = mem /\ pc'[r] = "unique"
        BY <1>0, <1>2, <2>3 DEF CreateScope, Goto
      <3>2. QED BY <1>0, <2>1, <3>1, AlongFits DEF RowLabels, Moving
    <2>4. QED BY <2>2, <2>3
  <1>3. CASE CreateUnique(r) \/ CreateLegacy(r)
    <2>1. pc[r] \in {"unique", "legacy"}
      BY <1>3 DEF CreateUnique, CreateLegacy, At
    <2>2. CASE Refused(r)
      BY <1>0, <2>1, <2>2, RefusedFits DEF RowLabels
    <2>3. CASE ~Refused(r)
      <3>1. mem' = mem /\ pc'[r] \in {"legacy", "insert"}
        BY <1>0, <1>3, <2>3 DEF CreateUnique, CreateLegacy, Goto
      <3>2. WellFormed(RowOf(r).prefix)
        BY <1>0, <2>1 DEF RowsFit, Placing
      <3>3. QED BY <1>0, <2>1, <3>1, <3>2, AlongFits DEF RowLabels, Moving
    <2>4. QED BY <2>2, <2>3
  <1>4. CASE CreateInsert(r)
    <2>1. pc[r] = "insert"
      BY <1>4 DEF CreateInsert, At
    <2>2. CASE Fails(r)
      BY <1>0, <2>2, EndedFits DEF Fails, Goto, Ended
    <2>3. CASE Refused(r) \/ Advance(r, 1)
      BY <1>0, <2>1, <2>3, RefusedFits, AdvanceFits DEF RowLabels
    <2>4. QED BY <1>4, <2>2, <2>3 DEF CreateInsert
  <1>5. QED BY <1>1, <1>2, <1>3, <1>4

LEMMA UpdateFits ==
    ASSUME Shape, NEW r \in Request, RowsFit(r),
           LoadTrunk(r) \/ CheckMove(r) \/ CheckIdentity(r) \/ CheckClash(r) \/ Save(r)
    PROVE  RowsFit(r)'
  <1>0. Active(r) /\ job' = job /\ Mine(r) /\ r \in DOMAIN pc /\ Admitted(job[r])
    BY UpdateMine, JobAdmitted DEF Shape, Local, Mine, Active
  <1>1. CASE Fails(r)
    BY <1>0, <1>1, EndedFits DEF Fails, Goto, Ended
  <1>2. CASE LoadTrunk(r) /\ ~Fails(r)
    <2>1. PICK k : /\ mem' = [mem EXCEPT ![r].seen = k, ![r].rows = <<job[r].new>>]
                   /\ pc' = [pc EXCEPT ![r] = "move"] /\ pc[r] = "update"
      BY <1>2 DEF LoadTrunk, Goto, At
    <2>2. job[r].op = "update"
      BY <1>0, <2>1 DEF Mine, Stage, RowLabels, Operations, Admitted
    <2>3. mem'[r].rows = <<job[r].new>> /\ mem'[r].n = 1 /\ pc'[r] = "move"
      BY <1>0, <2>1, <2>2 DEF Shape, Mine, Blank
    <2>4. Len(mem'[r].rows) = 1
      BY <2>3
    <2>5. QED BY <1>0, <2>2, <2>3, <2>4 DEF RowsFit, Listed, RowLabels, Placing, Moving, OfRows
  <1>3. CASE (CheckMove(r) \/ CheckIdentity(r) \/ CheckClash(r)) /\ ~Fails(r)
    <2>1. /\ mem' = mem /\ pc[r] \in {"move", "identity", "clash"}
          /\ pc'[r] \in Moving
          /\ pc[r] = "move" /\ "prefix" \in DOMAIN Asked(r) => WellFormed(Asked(r).prefix)
      BY <1>0, <1>3 DEF CheckMove, CheckIdentity, CheckClash, Goto, At, Moving
    <2>2. job[r].op = "update"
      BY <1>0, <2>1 DEF Mine, Stage, RowLabels, Operations, Admitted
    <2>3. Len(mem[r].rows) = 1 /\ mem[r].n = 1
      BY <1>0, <2>1, <2>2 DEF Mine
    <2>4. "prefix" \in DOMAIN Asked(r) => WellFormed(Asked(r).prefix)
      BY <1>0, <2>1 DEF RowsFit, Moving
    <2>5. Asked(r)' = Asked(r)
      BY <1>0, <2>1 DEF Asked, RowOf
    <2>6. Len(mem'[r].rows) = 1 /\ mem'[r].n = 1 /\ job'[r].op \notin OfRows
      BY <1>0, <2>1, <2>2, <2>3 DEF OfRows
    <2>7. pc'[r] \notin Placing
      BY <2>1 DEF Placing, Moving
    <2>8. QED BY <2>4, <2>5, <2>6, <2>7 DEF RowsFit
  <1>4. CASE Save(r)
    BY <1>0, <1>1, <1>4, RefusedFits, AdvanceFits DEF Save, Vanished, At, RowLabels
  <1>5. QED BY <1>1, <1>2, <1>3, <1>4

LEMMA ImportFits ==
    ASSUME Shape, NEW r \in Request, RowsFit(r),
           Find(r) \/ ImportCsv(r) \/ ImportOne(r) \/ ImportJson(r) \/ CheckRow(r)
    PROVE  RowsFit(r)'
  <1>0. /\ Active(r) /\ job' = job /\ Mine(r) /\ r \in DOMAIN pc /\ r \in DOMAIN mem
        /\ Admitted(job[r])
    BY ImportMine, JobAdmitted DEF Shape, Local, Mine, Active
  <1>1. CASE Fails(r) \/ pc' = [pc EXCEPT ![r] = "ok"]
    BY <1>0, <1>1, EndedFits DEF Fails, Goto, Ended
  <1>2. CASE Find(r)
    <2>0. pc[r] = "find" /\ job[r].op # "update"
      BY <1>0, <1>2 DEF Find, At, Mine, Stage, RowLabels
    <2>1. CASE Refused(r)
      BY <1>0, <2>0, <2>1, RefusedFits DEF RowLabels
    <2>2. CASE ~Refused(r)
      <3>1. \/ mem' = mem /\ pc'[r] = "scope"
            \/ pc'[r] = "save" /\ \E k : mem' = [mem EXCEPT ![r].seen = k]
        BY <1>0, <1>2, <2>2 DEF Find, Goto
      <3>2. mem'[r].rows = mem[r].rows /\ mem'[r].n = mem[r].n
        BY <1>0, <3>1 DEF Mine, Blank
      <3>3. QED BY <1>0, <2>0, <3>1, <3>2, AlongFits DEF RowLabels, Placing
    <2>3. QED BY <2>1, <2>2
  <1>3. CASE ImportCsv(r) /\ ~(Fails(r) \/ pc' = [pc EXCEPT ![r] = "ok"])
    <2>1. pc[r] = "csv"
      BY <1>3 DEF ImportCsv, At
    <2>2. job[r].op = "csv"
      BY <1>0, <2>1 DEF Mine, Stage, RowLabels, Operations, Admitted
    <2>3. ~CsvRefused(job[r].lines)
      BY <1>3 DEF ImportCsv
    <2>4. PICK order \in InOrder(SipLines(job[r].lines)) :
             /\ mem' = [mem EXCEPT ![r].rows = [n \in DOMAIN order |-> FromLine(job[r].lines[order[n]])]]
             /\ pc' = [pc EXCEPT ![r] = "find"] /\ order # <<>>
      BY <1>3 DEF ImportCsv, Goto
    <2> DEFINE rows == [n \in DOMAIN order |-> FromLine(job[r].lines[order[n]])]
    <2>5. /\ job[r].lines \in Seq(ToSet(job[r].lines))
          /\ \A i \in DOMAIN job[r].lines : job[r].lines[i].user \in User \cup {None}
      BY <1>0, <2>2 DEF Admitted
    <2>6. /\ Len(rows) \in Nat /\ Len(rows) > 0
          /\ \A i \in 1 .. Len(rows) : UserOf(rows[i].ident) \in User
      BY <2>3, <2>4, <2>5, CsvRows
    <2> HIDE DEF rows
    <2>7. mem' = [mem EXCEPT ![r].rows = rows]
      BY <2>4 DEF rows
    <2>8. QED BY <1>0, <2>1, <2>4, <2>6, <2>7, ListedFits DEF Listed, RowLabels
  <1>4. CASE ImportOne(r) /\ ~(Fails(r) \/ pc' = [pc EXCEPT ![r] = "ok"])
    <2>1. pc[r] = "json"
      BY <1>4 DEF ImportOne, At
    <2>2. job[r].op = "json"
      BY <1>0, <2>1 DEF Mine, Stage, RowLabels, Operations, Admitted
    <2> DEFINE row == ParsedOne(job[r].entry, job[r].condo)
    <2>3. row # None /\ mem' = [mem EXCEPT ![r].rows = <<row>>] /\ pc' = [pc EXCEPT ![r] = "find"]
      BY <1>4 DEF ImportOne, Goto
    <2>4. UserOf(row.ident) \in User
      BY <1>0, <2>2, <2>3, JsonRow DEF Admitted
    <2> HIDE DEF row
    <2> DEFINE rows == <<row>>
    <2>5. Len(rows) = 1 /\ rows[1] = row
      OBVIOUS
    <2>6. mem' = [mem EXCEPT ![r].rows = rows]
      BY <2>3
    <2> HIDE DEF rows
    <2>7. Len(rows) \in Nat /\ Len(rows) > 0 /\ \A i \in 1 .. Len(rows) : UserOf(rows[i].ident) \in User
      BY <2>4, <2>5
    <2>8. QED BY <1>0, <2>1, <2>3, <2>6, <2>7, ListedFits DEF Listed, RowLabels
  <1>5. CASE ImportJson(r) /\ ~(Fails(r) \/ pc' = [pc EXCEPT ![r] = "ok"])
    <2>1. pc[r] = "parse"
      BY <1>5 DEF ImportJson, At
    <2>2. job[r].op = "batch"
      BY <1>0, <2>1 DEF Mine, Stage, RowLabels, Operations, Admitted
    <2> DEFINE parsed == ParsedJson(job[r].entries, job[r].names)
               rows == [i \in DOMAIN parsed |-> [parsed[i] EXCEPT !.condo = mem[r].ids[@]]]
    <2>3. parsed # None /\ mem' = [mem EXCEPT ![r].rows = rows] /\ pc' = [pc EXCEPT ![r] = "check"]
      BY <1>5 DEF ImportJson, Goto
    <2>4. /\ job[r].entries \in Seq(ToSet(job[r].entries))
          /\ \A i \in DOMAIN job[r].entries : job[r].entries[i].user \in User \cup {None}
      BY <1>0, <2>2 DEF Admitted
    <2> HIDE DEF parsed
    <2>5. /\ Len(rows) \in Nat /\ Len(rows) > 0
          /\ \A i \in 1 .. Len(rows) : UserOf(rows[i].ident) \in User
      <3> DEFINE N == Len(job[r].entries)
      <3>1. /\ N \in Nat /\ N > 0 /\ DOMAIN parsed = 1 .. N
            /\ \A i \in 1 .. N : "ident" \in DOMAIN parsed[i] /\ UserOf(parsed[i].ident) \in User
        BY <2>3, <2>4, JsonRows DEF parsed
      <3> HIDE DEF N
      <3>2. Len(rows) = N /\ \A i \in 1 .. N : rows[i] = [parsed[i] EXCEPT !.condo = mem[r].ids[@]]
        BY <3>1
      <3>3. \A i \in 1 .. N : rows[i].ident = parsed[i].ident
        BY <3>1, <3>2
      <3>4. QED BY <3>1, <3>2, <3>3
    <2> HIDE DEF rows
    <2>6. QED BY <1>0, <2>1, <2>3, <2>5, ListedFits DEF Listed, RowLabels
  <1>6. CASE CheckRow(r) /\ ~Fails(r)
    <2> DEFINE last == mem[r].n = Len(mem[r].rows)
    <2>1. /\ pc[r] = "check"
          /\ mem' = [mem EXCEPT ![r].n = IF last THEN 1 ELSE @ + 1]
          /\ pc' = [pc EXCEPT ![r] = IF last THEN "find" ELSE "check"]
      BY <1>6 DEF CheckRow, Goto, At
    <2>2. /\ mem'[r].rows = mem[r].rows
          /\ mem'[r].n = IF last THEN 1 ELSE mem[r].n + 1
          /\ pc'[r] \in {"find", "check"}
      BY <1>0, <2>1 DEF Mine, Blank
    <2>3. Len(mem[r].rows) \in Nat /\ mem[r].n \in 1 .. Len(mem[r].rows)
      BY <1>0, <2>1 DEF RowsFit, Listed
    <2>4. mem'[r].n \in 1 .. Len(mem'[r].rows)
      BY <2>2, <2>3
    <2>5. QED BY <1>0, <2>2, <2>3, <2>4 DEF RowsFit, Listed, RowLabels, Placing, Moving
  <1>7. QED BY <1>1, <1>2, <1>3, <1>4, <1>5, <1>6

\* The others have no list, or have not made it yet.
LEMMA OtherFits ==
    ASSUME Shape, NEW r \in Request, RowsFit(r),
           \/ ListCondominiums(r)
           \/ FindCondominium(r) \/ InsertCondominium(r) \/ LoadCondominium(r) \/ SaveCondominium(r)
           \/ LookupTrunk(r) \/ LookupPlace(r) \/ LookupTenant(r) \/ LookupFile(r)
           \/ ProvisionStep(r)
    PROVE  RowsFit(r)'
  <1>0. /\ Active(r) /\ job' = job /\ Mine(r) /\ r \in DOMAIN pc /\ r \in DOMAIN mem
    BY ImportMine, CondominiumMine, LookupMine, ProvisionMine DEF Shape, Local
  <1>1. /\ pc[r] \notin Listed /\ pc'[r] \notin Listed \cup Moving
        /\ \/ mem' = mem
           \/ \E x : mem' = [mem EXCEPT ![r].ids = x]
           \/ \E x : mem' = [mem EXCEPT ![r].name = x]
           \/ \E x : mem' = [mem EXCEPT ![r].seen = x]
           \/ \E x : mem' = [mem EXCEPT ![r].answer = x]
           \/ \E x : mem' = [mem EXCEPT ![r].own = x]
           \/ \E x, y : mem' = [mem EXCEPT ![r].ids = x, ![r].own = y]
    <2>1. CASE \/ ListCondominiums(r) \/ FindCondominium(r) \/ InsertCondominium(r)
               \/ LoadCondominium(r) \/ SaveCondominium(r)
      <3>1. \/ mem' = mem
            \/ \E x : mem' = [mem EXCEPT ![r].ids = x]
            \/ \E x : mem' = [mem EXCEPT ![r].name = x]
            \/ \E x : mem' = [mem EXCEPT ![r].seen = x]
        BY <2>1 DEF ListCondominiums, FindCondominium, InsertCondominium, LoadCondominium,
           SaveCondominium, Found, Fails
      <3>2. /\ pc[r] \in {"batch", "condo", "condo_insert", "condo_update", "condo_save"}
            /\ pc'[r] \in {"condo", "parse", "condo_insert", "condo_save", "ok", "failed"}
        BY <1>0, <2>1 DEF ListCondominiums, FindCondominium, InsertCondominium, LoadCondominium,
           SaveCondominium, Fails, Goto, At
      <3>3. QED BY <3>1, <3>2 DEF Listed, RowLabels, Moving
    <2>2. CASE LookupTrunk(r) \/ LookupPlace(r) \/ LookupTenant(r) \/ LookupFile(r)
      <3>1. \/ mem' = mem
            \/ \E x : mem' = [mem EXCEPT ![r].seen = x]
            \/ \E x : mem' = [mem EXCEPT ![r].answer = x]
        BY <2>2 DEF LookupTrunk, LookupPlace, LookupTenant, LookupFile
      <3>2. /\ pc[r] \in {"lookup", "place", "tenant", "file"}
            /\ pc'[r] \in {"place", "tenant", "file", "ok", "failed"}
        BY <1>0, <2>2 DEF LookupTrunk, LookupPlace, LookupTenant, LookupFile, Goto, At
      <3>3. QED BY <3>1, <3>2 DEF Listed, RowLabels, Moving
    <2>3. CASE ProvisionStep(r)
      <3>1. \/ mem' = mem
            \/ \E x : mem' = [mem EXCEPT ![r].ids = x]
            \/ \E x : mem' = [mem EXCEPT ![r].name = x]
            \/ \E x : mem' = [mem EXCEPT ![r].own = x]
            \/ \E x, y : mem' = [mem EXCEPT ![r].ids = x, ![r].own = y]
        BY <2>3 DEF ProvisionStep, FindTenant, InsertTenant, FindPbx, InsertPbx, CreateSchema,
           StatementFails, Undo, UndoFails, ResolveVars, WriteVars, CheckTenant, AddPbx, Fails,
           Knows, Made
      <3>2. /\ pc[r] \in Stage["provision"] \cup Stage["pbx_create"]
            /\ pc'[r] \in {"tenant_insert", "pbx_find", "pbx_insert", "schema", "undo", "resolve", "vars",
                           "pbx_add", "ok", "failed", "dead"}
        BY <1>0, <2>3 DEF ProvisionStep, FindTenant, InsertTenant, FindPbx, InsertPbx, CreateSchema,
           StatementFails, Undo, UndoFails, ResolveVars, WriteVars, CheckTenant, AddPbx, Fails, Goto,
           At, Stage
      <3>3. QED BY <3>1, <3>2 DEF Listed, RowLabels, Moving, Stage
    <2>4. QED BY <2>1, <2>2, <2>3
  <1>2. mem'[r].rows = mem[r].rows /\ mem'[r].n = mem[r].n
    <2>1. {"rows", "n", "ids", "name", "seen", "answer", "own"} \subseteq DOMAIN mem[r]
      BY <1>0 DEF Mine, Blank
    <2>2. ASSUME NEW x, mem' = [mem EXCEPT ![r].ids = x]
          PROVE  mem'[r].rows = mem[r].rows /\ mem'[r].n = mem[r].n
      BY <1>0, <2>1, <2>2
    <2>3. ASSUME NEW x, mem' = [mem EXCEPT ![r].name = x]
          PROVE  mem'[r].rows = mem[r].rows /\ mem'[r].n = mem[r].n
      BY <1>0, <2>1, <2>3
    <2>4. ASSUME NEW x, mem' = [mem EXCEPT ![r].seen = x]
          PROVE  mem'[r].rows = mem[r].rows /\ mem'[r].n = mem[r].n
      BY <1>0, <2>1, <2>4
    <2>5. ASSUME NEW x, mem' = [mem EXCEPT ![r].answer = x]
          PROVE  mem'[r].rows = mem[r].rows /\ mem'[r].n = mem[r].n
      BY <1>0, <2>1, <2>5
    <2>6. ASSUME NEW x, mem' = [mem EXCEPT ![r].own = x]
          PROVE  mem'[r].rows = mem[r].rows /\ mem'[r].n = mem[r].n
      BY <1>0, <2>1, <2>6
    <2>7. ASSUME NEW x, NEW y, mem' = [mem EXCEPT ![r].ids = x, ![r].own = y]
          PROVE  mem'[r].rows = mem[r].rows /\ mem'[r].n = mem[r].n
      BY <1>0, <2>1, <2>7
    <2>8. QED BY <1>1, <2>2, <2>3, <2>4, <2>5, <2>6, <2>7
  <1>3. QED BY <1>0, <1>1, <1>2, BesideFits

LEMMA BeginFits ==
    ASSUME Shape, NEW r \in Request, Begin(r)
    PROVE  RowsFit(r)'
  <1>1. mem'[r] = Blank /\ pc'[r] \in Operations
    BY BeginsAt DEF Begin, Shape, Mine
  <1>2. mem'[r].rows = <<>> /\ mem'[r].n = 1 /\ Len(mem'[r].rows) = 0
    BY <1>1 DEF Blank
  <1>3. pc'[r] \notin Listed \cup Moving \cup Placing
    BY <1>1 DEF Operations, Listed, RowLabels, Moving, Placing
  <1>4. QED BY <1>2, <1>3 DEF RowsFit

LEMMA RequestFits ==
    ASSUME Shape, NEW r \in Request, RowsFit(r), RequestStep(r)
    PROVE  RowsFit(r)'
  <1>1. CASE TrunkStep(r)
    BY <1>1, CreateFits, UpdateFits, ImportFits, OtherFits DEF TrunkStep
  <1>2. CASE ProvisionStep(r)
    BY <1>2, OtherFits
  <1>3. CASE Die(r)
    BY <1>3, EndedFits DEF Die, Goto, Shape, Ended
  <1>4. CASE Begin(r)
    BY <1>4, BeginFits
  <1>5. QED BY <1>1, <1>2, <1>3, <1>4 DEF RequestStep

-----------------------------------------------------------------------------
\* The rows of trunks that are written.
LEMMA TrunksTyped ==
    ASSUME ScopeInv, TypeInv, NEW r \in Request, RequestStep(r)
    PROVE  \A k \in trunks' : TrunkTyped(k)
  <1>1. CASE CreateInsert(r)
    <2>1. \A k \in trunks : TrunkTyped(k)
      BY DEF TypeInv, Typed
    <2>2. CASE trunks' = trunks
      BY <2>1, <2>2
    <2>3. CASE trunks' # trunks
      <3>1. /\ trunks' = trunks \cup {NewTrunk(r)} /\ UserOf(NewTrunk(r).ident) \notin Long
            /\ pc[r] = "insert" /\ Active(r)
        BY <1>1, <2>3 DEF CreateInsert, At, Active, Ended
      <3>2. Mine(r) /\ RowsFit(r) /\ Admitted(job[r])
        BY <3>1, JobAdmitted DEF ScopeInv, Shape, TypeInv, Mine, Active
      <3>3. job[r].op \in OfRows
        BY <3>1, <3>2 DEF Mine, Stage, RowLabels, Operations, Admitted, OfRows
      <3>4. UserOf(RowOf(r).ident) \in User /\ WellFormed(RowOf(r).prefix)
        BY <3>1, <3>2, <3>3 DEF RowsFit, Listed, RowLabels, Placing, RowOf
      <3>5. job[r].enabled \in BOOLEAN
        BY <3>2, <3>3 DEF Admitted, OfRows
      <3>6. /\ NewTrunk(r).prefix = RowOf(r).prefix /\ NewTrunk(r).ident = RowOf(r).ident
            /\ NewTrunk(r).enabled = job[r].enabled /\ NewTrunk(r).status = "unknown"
        BY DEF NewTrunk
      <3>7. TrunkTyped(NewTrunk(r))
        <4>1. NewTrunk(r).enabled \in BOOLEAN
          BY <3>5, <3>6, Zenon
        <4>2. QED BY <3>1, <3>4, <3>6, <4>1 DEF TrunkTyped
      <3>8. QED BY <2>1, <3>1, <3>7
    <2>4. QED BY <2>2, <2>3
  <1>2. CASE Save(r)
    <2>1. \A k \in trunks : TrunkTyped(k)
      BY DEF TypeInv, Typed
    <2>2. CASE trunks' = trunks
      BY <2>1, <2>2
    <2>3. CASE trunks' # trunks
      <3>1. PICK o \in trunks :
              /\ o.id = mem[r].seen.id
              /\ trunks' = (trunks \ {o}) \cup {Updated(o, mem[r].seen, Updates(r))}
        BY <1>2, <2>3, SaveReplaces
      <3>2. pc[r] = "save" /\ Active(r) /\ Mine(r) /\ RowsFit(r) /\ Admitted(job[r])
        BY <1>2, JobAdmitted DEF Save, At, Active, Ended, ScopeInv, Shape, TypeInv, Mine
      <3>3. DOMAIN o = TrunkColumns
        BY DEF ScopeInv, Rows, Homes, TrunksHome
      <3>4. /\ "prefix" \in DOMAIN Updates(r) => "prefix" \in DOMAIN Asked(r) /\ Updates(r).prefix = Asked(r).prefix
            /\ "ident" \in DOMAIN Updates(r) => "ident" \in DOMAIN Asked(r) /\ Updates(r).ident = Asked(r).ident
            /\ "enabled" \in DOMAIN Updates(r) => "enabled" \in DOMAIN Asked(r) /\ Updates(r).enabled = Asked(r).enabled
        BY DEF Updates
      <3>5. "status" \in DOMAIN Updates(r) => Updates(r).status = "unknown"
        BY DEF Updates
      <3>6. /\ "prefix" \in DOMAIN Asked(r) => WellFormed(Asked(r).prefix)
            /\ "ident" \in DOMAIN Asked(r) => UserOf(Asked(r).ident) \in User \ Long
        <4>1. "prefix" \in DOMAIN Asked(r) => WellFormed(Asked(r).prefix)
          BY <3>2 DEF RowsFit, Moving
        <4>2. "ident" \in DOMAIN Asked(r) => UserOf(Asked(r).ident) \in User \ Long
          BY <3>2 DEF Asked, Admitted
        <4>3. QED BY <4>1, <4>2
      <3>7. "enabled" \in DOMAIN Asked(r) => Asked(r).enabled \in BOOLEAN
        <4>1. CASE job[r].op = "update"
          <5>1. Asked(r) = job[r].new
            BY <4>1 DEF Asked
          <5>2. "enabled" \in DOMAIN job[r].new => job[r].new.enabled \in BOOLEAN
            BY <3>2, <4>1 DEF Admitted
          <5>3. QED BY <5>1, <5>2, Zenon
        <4>2. CASE job[r].op # "update"
          <5>1. Asked(r).enabled = FALSE
            BY <4>2 DEF Asked
          <5>2. QED BY <5>1, Zenon
        <4>3. QED BY <4>1, <4>2
      <3> DEFINE u == Updated(o, mem[r].seen, Updates(r))
      <3>8. /\ u.prefix = o.prefix \/ ("prefix" \in DOMAIN Updates(r) /\ u.prefix = Updates(r).prefix)
            /\ u.ident = o.ident \/ ("ident" \in DOMAIN Updates(r) /\ u.ident = Updates(r).ident)
            /\ u.enabled = o.enabled \/ ("enabled" \in DOMAIN Updates(r) /\ u.enabled = Updates(r).enabled)
            /\ u.status = o.status \/ ("status" \in DOMAIN Updates(r) /\ u.status = Updates(r).status)
        BY <3>3, UpdatedRow DEF TrunkColumns
      <3> HIDE DEF u
      <3>9. TrunkTyped(o)
        BY <2>1
      <3>10. WellFormed(u.prefix) /\ UserOf(u.ident) \in User \ Long
        BY <3>4, <3>6, <3>8, <3>9 DEF TrunkTyped
      <3>11. u.status \in {"unknown", "registered", "unregistered"}
        BY <3>5, <3>8, <3>9 DEF TrunkTyped
      <3>12. u.enabled \in BOOLEAN
        <4>1. o.enabled \in BOOLEAN
          BY <3>9 DEF TrunkTyped
        <4>2. QED BY <3>4, <3>7, <3>8, <4>1, Zenon
      <3>13. TrunkTyped(u)
        BY <3>10, <3>11, <3>12 DEF TrunkTyped
      <3>14. QED BY <2>1, <3>1, <3>13 DEF u
    <2>4. QED BY <2>2, <2>3
  <1>3. CASE ~(CreateInsert(r) \/ Save(r))
    <2>1. trunks' \subseteq trunks
      <3>1. CASE TrunkStep(r)
        BY <1>3, <3>1 DEF TrunkStep, CreateTrunk, CreateScope, CreateUnique, CreateLegacy,
           LoadTrunk, CheckMove, CheckIdentity, CheckClash, Find, ImportCsv, ImportOne,
           ListCondominiums, ImportJson, CheckRow, FindCondominium, InsertCondominium,
           LoadCondominium, SaveCondominium, LookupTrunk, LookupPlace, LookupTenant, LookupFile,
           world, tables
      <3>2. CASE ProvisionStep(r)
        BY <3>2 DEF ProvisionStep, FindTenant, InsertTenant, FindPbx, InsertPbx, CreateSchema,
           StatementFails, Undo, UndoFails, ResolveVars, WriteVars, CheckTenant, AddPbx, world, tables
      <3>3. CASE Begin(r) \/ Die(r)
        BY <3>3 DEF Begin, Die, world, tables
      <3>4. QED BY <3>1, <3>2, <3>3 DEF RequestStep
    <2>2. QED BY <2>1 DEF TypeInv, Typed
  <1>4. QED BY <1>1, <1>2, <1>3

\* What a request does to everything else.
LEMMA RestStays ==
    ASSUME RestTyped, NEW r \in Request, RequestStep(r)
    PROVE  RestTyped'
  <1>1. legacy' = legacy /\ changes' = changes /\ (faults' = faults \/ Fault)
    <2>1. CASE TrunkStep(r) /\ UNCHANGED <<changes, faults>>
      BY <2>1 DEF TrunkStep, CreateTrunk, CreateScope, CreateUnique, CreateLegacy, CreateInsert, Save,
         LoadTrunk, CheckMove, CheckIdentity, CheckClash, Find, ImportCsv, ImportOne,
         ListCondominiums, ImportJson, CheckRow, FindCondominium, InsertCondominium,
         LoadCondominium, SaveCondominium, LookupTrunk, LookupPlace, LookupTenant, LookupFile, world
    <2>2. CASE ProvisionStep(r) /\ UNCHANGED changes
      BY <2>2 DEF ProvisionStep, FindTenant, InsertTenant, FindPbx, InsertPbx, CreateSchema,
         StatementFails, Undo, UndoFails, ResolveVars, WriteVars, CheckTenant, AddPbx, world
    <2>3. CASE Begin(r) \/ Die(r)
      BY <2>3 DEF Begin, Die, world
    <2>4. QED BY <2>1, <2>2, <2>3 DEF RequestStep
  <1>2. faults' \in 0 .. MaxFaults
    BY <1>1, AdminAssumption DEF RestTyped, Fault
  <1>3. QED BY <1>1, <1>2 DEF RestTyped

LEMMA TenantsStayTyped ==
    ASSUME Shape, TenantsTyped, NEW r \in Request, RequestStep(r)
    PROVE  TenantsTyped'
  <1>1. CASE InsertTenant(r)
    <2> DEFINE t == [id |-> NewTenantId(r), schema |-> job[r].schema, status |-> "active"]
    <2>1. CASE tenants' = tenants
      BY <1>1, <2>1 DEF InsertTenant, TenantsTyped
    <2>2. CASE tenants' # tenants
      <3>1. /\ tenants' = tenants \cup {t} /\ schemas' = schemas
            /\ \A o \in tenants : o.id # t.id /\ o.schema # t.schema
        BY <1>1, <2>2 DEF InsertTenant
      <3>2. DOMAIN t = {"id", "schema", "status"} /\ t.status = "active"
        OBVIOUS
      <3> HIDE DEF t
      <3>3. QED BY <3>1, <3>2 DEF TenantsTyped
    <2>3. QED BY <2>1, <2>2
  <1>2. CASE CreateSchema(r)
    <2>1. pc[r] = "schema" /\ tenants' = tenants /\ schemas' = schemas \cup {job[r].schema}
      BY <1>2 DEF CreateSchema, At, tables
    <2>2. FromWork(job[r]) /\ Admitted(job[r]) /\ pc[r] \in Stage[job[r].op]
      BY <2>1, JobAdmitted DEF Shape, Mine, Active, Ended
    <2>3. job[r].op = "provision"
      BY <2>1, <2>2 DEF Stage, RowLabels, Operations, Admitted
    <2>4. job[r].schema \in STRING
      BY <2>2, <2>3 DEF Admitted
    <2>5. QED BY <2>1, <2>4 DEF TenantsTyped
  <1>3. CASE ~(InsertTenant(r) \/ CreateSchema(r))
    <2>1. tenants' \subseteq tenants /\ schemas' = schemas
      <3>1. CASE TrunkStep(r)
        BY <3>1 DEF TrunkStep, CreateTrunk, CreateScope, CreateUnique, CreateLegacy, CreateInsert, Save,
           LoadTrunk, CheckMove, CheckIdentity, CheckClash, Find, ImportCsv, ImportOne,
           ListCondominiums, ImportJson, CheckRow, FindCondominium, InsertCondominium,
           LoadCondominium, SaveCondominium, LookupTrunk, LookupPlace, LookupTenant, LookupFile,
           world, tables
      <3>2. CASE ProvisionStep(r)
        BY <1>3, <3>2 DEF ProvisionStep, FindTenant, FindPbx, InsertPbx,
           StatementFails, Undo, UndoFails, ResolveVars, WriteVars, CheckTenant, AddPbx, world, tables
      <3>3. CASE Begin(r) \/ Die(r)
        BY <3>3 DEF Begin, Die, world, tables
      <3>4. QED BY <3>1, <3>2, <3>3 DEF RequestStep
    <2>2. QED BY <2>1 DEF TenantsTyped
  <1>4. QED BY <1>1, <1>2, <1>3

\* What others write of trunks, of the file and of tenants.
LEMMA OutsideTyped ==
    ASSUME ScopeInv, Typed, Outside
    PROVE  Typed'
  <1>0. /\ changes' \in 0 .. MaxChanges /\ faults' \in 0 .. MaxFaults
        /\ schemas' = schemas
    BY AdminAssumption DEF Outside, Register, EditLegacy, SetTenant, Change, Typed, RestTyped
  <1>1. ASSUME NEW k \in trunks, NEW s \in {"registered", "unregistered"}, Register(k, s)
        PROVE  Typed'
    <2>1. tenants' = tenants /\ legacy' = legacy /\ trunks' = (trunks \ {k}) \cup {[k EXCEPT !.status = s]}
      BY <1>1 DEF Register
    <2>2. DOMAIN k = TrunkColumns /\ TrunkTyped(k)
      BY DEF ScopeInv, Rows, Homes, TrunksHome, Typed
    <2> DEFINE new == [k EXCEPT !.status = s]
    <2>3. new.prefix = k.prefix /\ new.ident = k.ident /\ new.enabled = k.enabled /\ new.status = s
      BY <2>2 DEF TrunkColumns
    <2> HIDE DEF new
    <2>4. new.enabled \in BOOLEAN
      <3>1. k.enabled \in BOOLEAN
        BY <2>2 DEF TrunkTyped
      <3>2. QED BY <2>3, <3>1, Zenon
    <2>5. TrunkTyped(new)
      BY <2>2, <2>3, <2>4 DEF TrunkTyped
    <2>6. \A o \in trunks' : TrunkTyped(o)
      BY <2>1, <2>5 DEF Typed, new
    <2>7. TenantsTyped' /\ RestTyped'
      BY <1>0, <2>1 DEF Typed, TenantsTyped, RestTyped
    <2>8. QED BY <2>6, <2>7 DEF Typed
  <1>2. ASSUME NEW users \in {{}, InitUsers, User \ Long}, NEW ok \in BOOLEAN, EditLegacy(users, ok)
        PROVE  Typed'
    <2>1. tenants' = tenants /\ trunks' = trunks /\ legacy' = [ok |-> ok, users |-> users]
      BY <1>2 DEF EditLegacy, tables
    <2>2. users \subseteq User
      BY AdminAssumption
    <2>3. DOMAIN legacy' = {"ok", "users"} /\ legacy'.users = users /\ legacy'.ok = ok
      BY <2>1
    <2>4. legacy'.ok \in BOOLEAN
      BY <2>3, Zenon
    <2>5. RestTyped'
      BY <1>0, <2>2, <2>3, <2>4 DEF RestTyped
    <2>6. QED BY <1>0, <2>1, <2>5 DEF Typed, TenantsTyped
  <1>3. ASSUME NEW t \in tenants, SetTenant(t)
        PROVE  Typed'
    <2> DEFINE new == [t EXCEPT !.status = IF @ = "active" THEN "suspended" ELSE "active"]
    <2>1. tenants' = (tenants \ {t}) \cup {new} /\ trunks' = trunks /\ legacy' = legacy
      BY <1>3 DEF SetTenant
    <2>2. DOMAIN t = {"id", "schema", "status"}
      BY DEF Typed, TenantsTyped
    <2>3. /\ DOMAIN new = {"id", "schema", "status"} /\ new.status \in {"active", "suspended"}
          /\ new.id = t.id /\ new.schema = t.schema
      BY <2>2
    <2> HIDE DEF new
    <2>4. TenantsTyped'
      BY <1>0, <2>1, <2>3 DEF Typed, TenantsTyped
    <2>5. QED BY <1>0, <2>1, <2>4 DEF Typed, RestTyped
  <1>4. QED BY <1>1, <1>2, <1>3 DEF Outside

LEMMA TypeStep ==
    ASSUME ScopeInv, TypeInv, [Next]_vars
    PROVE  TypeInv'
  <1>1. ASSUME NEW r \in Request, RequestStep(r)
        PROVE  TypeInv'
    <2>1. Typed'
      BY <1>1, RestStays, TenantsStayTyped, TrunksTyped DEF ScopeInv, TypeInv, Typed
    <2>2. ASSUME NEW q \in Request PROVE RowsFit(q)'
      <3>1. CASE q = r
        BY <1>1, <3>1, RequestFits DEF ScopeInv, TypeInv
      <3>2. CASE q # r
        <4>1. Unmoved(q)
          BY <1>1, <3>2, RequestMoves DEF ScopeInv
        <4>2. QED BY <4>1, StillFits DEF TypeInv
      <3>3. QED BY <3>1, <3>2
    <2>3. QED BY <2>1, <2>2 DEF TypeInv
  <1>2. CASE Outside
    <2>1. Typed'
      BY <1>2, OutsideTyped DEF TypeInv
    <2>2. \A q \in Request : Unmoved(q)
      BY <1>2, OutsideMoves DEF ScopeInv
    <2>3. QED BY <2>1, <2>2, StillFits DEF TypeInv
  <1>3. CASE UNCHANGED vars
    <2>1. UNCHANGED <<tenants, schemas, trunks, legacy, changes, faults>>
      BY <1>3 DEF vars, world, tables
    <2>2. Typed'
      BY <2>1 DEF TypeInv, Typed, TenantsTyped, TrunkTyped, RestTyped
    <2>3. \A q \in Request : Unmoved(q)
      BY <1>3 DEF vars, local, Unmoved
    <2>4. QED BY <2>2, <2>3, StillFits DEF TypeInv
  <1>4. QED BY <1>1, <1>2, <1>3 DEF Next

\* The tables keep their keys and their unique indexes, whatever the requests
\* write; an identity has at most one trunk; the prefix of a trunk is well
\* formed and its user name fits its column, though neither is looked at again
\* when it is written; and a list of rows is never read beyond its end.
THEOREM TypeCorrect == Spec => []TypeOK
  <1>1. Init => ScopeInv /\ TypeInv
    BY ScopeInit, TypeInit
  <1>2. ScopeInv /\ TypeInv /\ [Next]_vars => ScopeInv' /\ TypeInv'
    BY ScopeStep, TypeStep
  <1>3. ScopeInv /\ TypeInv => TypeOK
    BY TypeImplied
  <1>4. QED BY <1>1, <1>2, <1>3, PTL DEF Spec

=============================================================================
