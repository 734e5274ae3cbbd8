----------------------------- MODULE AdminPlane -----------------------------
(***************************************************************************)
(* TrunkRegistry and TenantProvisioning over one database: any requests at *)
(* the same time, with what the listener, an operator and a crash do in    *)
(* between.                                                                *)
(***************************************************************************)
EXTENDS TrunkRegistry, TenantProvisioning

TypeOK ==
    /\ \A t \in tenants : t.status \in {"active", "suspended"}
    /\ \A s \in schemas : s \in STRING
    /\ \A k \in trunks :
          /\ WellFormed(k.prefix) /\ UserOf(k.ident) \in User \ Long
          /\ k.enabled \in BOOLEAN /\ k.status \in {"unknown", "registered", "unregistered"}
    \* the primary keys and the unique indexes
    /\ \A k, o \in trunks : k.id = o.id \/ k.ident = o.ident => k = o
    /\ \A c, o \in condos : c.id = o.id => c = o
    /\ \A t, o \in tenants : t.id = o.id \/ t.schema = o.schema => t = o
    /\ legacy.users \subseteq User /\ legacy.ok \in BOOLEAN
    /\ \A r \in Request : Active(r) => mem[r].n \in 1 .. Len(mem[r].rows) + 1
    /\ changes \in 0 .. MaxChanges /\ faults \in 0 .. MaxFaults

-----------------------------------------------------------------------------
(* A PBX that a job does not name is any of the moment. *)
Placements(w) ==
    IF "pbx" \in DOMAIN w /\ w.pbx = None
      THEN {[w EXCEPT !.tenant = p.tenant, !.pbx = p.id] : p \in pbxs}
      ELSE {w}

\* A handler is called, or a script is started.
Begin(r) ==
    /\ pc[r] = "idle"
    /\ \E w \in Work : \E j \in Placements(w) :
          /\ job' = [job EXCEPT ![r] = j]
          /\ Goto(r, j.op)
    /\ UNCHANGED <<world, mem, changes, faults>>

(* hist: what others changed while r ran (two stands for more), whether the  *)
(* legacy file was edited, whether they deleted something, and, for a lookup,*)
(* the answers that were right meanwhile.                                    *)
RightNow(r) == IF Active(r) /\ job[r].op = "lookup" THEN {Directory(job[r].ident)} ELSE {}

Ids(table) == {x.id : x \in table}

Observe(actor) ==
    LET moved == tables' # tables \/ legacy' # legacy
        deleted == ~(Ids(tenants) \subseteq Ids(tenants') /\ Ids(pbxs) \subseteq Ids(pbxs'))
    IN  hist' = [r \in Request |->
            IF At(r, "idle")
              THEN [hist[r] EXCEPT !.right = RightNow(r)']
              ELSE [moves |-> IF moved /\ r # actor /\ hist[r].moves < 2
                                THEN hist[r].moves + 1 ELSE hist[r].moves,
                    edited |-> hist[r].edited \/ (Active(r) /\ legacy' # legacy),
                    right |-> hist[r].right \cup RightNow(r)',
                    undone |-> hist[r].undone \/ (deleted /\ r # actor)]]

RequestStep(r) ==
    /\ \/ Begin(r)
       \/ TrunkStep(r) /\ UNCHANGED <<changes, faults>>
       \/ ProvisionStep(r) /\ UNCHANGED changes
       \/ Die(r)
    /\ Observe(r)

Next ==
    \/ \E r \in Request : RequestStep(r)
    \/ Outside /\ Observe(None)

Spec == Init /\ [][Next]_vars

-----------------------------------------------------------------------------
(* Properties *)

Writes(r, labels) == pc[r] \in labels /\ pc[r] # pc'[r]

\* The tables agree on whose a trunk is: its condominium and its PBX are of its
\* tenant, and the condominium is of that PBX.  The foreign keys do not say so;
\* the services check it before they write, and cascades take all or nothing.
ScopeConsistent == Consistent(pbxs, condos, trunks)

\* What a request for a tenant writes of trunks is that tenant's, whoever owns
\* the identity that it imports or the trunk that it names.
TenantIsolation ==
    [][\A r \in Request : Writes(r, {"insert", "save"}) =>
          \A k \in (trunks' \ trunks) \cup (trunks \ trunks') : k.tenant = job[r].tenant]_vars

\* A trunk whose credentials were imported comes out disabled and with no
\* registration, except where another wrote that very column after the import
\* had read it.
ImportedIsOff ==
    [][\A r \in Request : Writes(r, {"save"}) /\ job[r].op # "update" =>
          \A k \in trunks' : k.id = mem[r].seen.id /\ mem'[r].wrote > mem[r].wrote =>
             /\ k.enabled => ~mem[r].seen.enabled
             /\ k.status # "unknown" => mem[r].seen.status = "unknown"]_vars

\* No request gives a trunk a user name that the legacy file has, as long as
\* nobody edits the file while the request runs.
NoNewClash ==
    [][\A r \in Request : Writes(r, {"insert", "save"}) =>
          \A k \in trunks' \ trunks :
             LegacyHas(UserOf(k.ident)) =>
                hist[r].edited \/ \E o \in trunks : o.id = k.id /\ o.ident = k.ident]_vars

\* A batch nobody interferes with, whose names fit their column, is written
\* whole or not at all, and whole means that every identity is there, disabled.
\* The same holds of the batch that is run again after one that died.
AloneIsAtomic ==
    \A r \in Request :
        /\ pc[r] \in {"ok", "failed"} /\ job[r].op = "batch" /\ job[r].apply
        /\ hist[r].moves = 0
        /\ \A x \in ToSet(mem[r].rows) : UserOf(x.ident) \notin Long
        => IF pc[r] = "ok"
             THEN \A x \in ToSet(mem[r].rows) : \E k \in trunks :
                     k.ident = x.ident /\ ~k.enabled /\ k.tenant = job[r].tenant
             ELSE mem[r].wrote = 0

\* "para nunca deixar o lote parcialmente escrito": a batch that fails has
\* written nothing.
AllOrNothing ==
    \A r \in Request : At(r, "failed") /\ job[r].op = "batch" => mem[r].wrote = 0

\* The directory reads the trunk, its place, its tenant and the file one after
\* the other; if not more than one of them changes meanwhile, the answer was
\* right at some moment of the lookup.
AnswersLinearize ==
    \A r \in Request :
        /\ pc[r] \in {"ok", "failed"} /\ job[r].op = "lookup" /\ hist[r].moves <= 1
        => mem[r].answer \in hist[r].right

\* Provisioning is "atomicamente observável": a run that ended well, or whose
\* vars.xml alone was refused, has left tenant, PBX and schema, unless another's
\* compensation took the ground from it; a run that was undone has left nothing.
ProvisionedOrNot ==
    \A r \in Request : pc[r] \in {"ok", "failed"} /\ job[r].op = "provision" =>
        \/ hist[r].undone
        \/ /\ job[r].schema \in schemas
           /\ \E t \in tenants, p \in pbxs :
                 t.schema = job[r].schema /\ p.tenant = t.id /\ p.host = job[r].host
        \/ At(r, "failed") /\ \A x \in tenants \cup pbxs : x.id[1] # r
=============================================================================
