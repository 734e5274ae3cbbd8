--------------------------- MODULE TrunkRegistry ---------------------------
(***************************************************************************)
(* Condominiums and ATA trunks: src/services/trunks.py with the imports of *)
(* src/services/trunk_import.py, the directory lookups FreeSWITCH makes,   *)
(* and the handlers and the script that call them.                         *)
(*                                                                         *)
(* Passwords are "good" or "blank"; ciphering them is left out, and so are *)
(* error codes: a refusal is a ValueError, which the CSV import notes and  *)
(* goes on from, a failure is anything else.                               *)
(***************************************************************************)
EXTENDS AdminDatabase

WellFormed(prefix) == prefix \in Prefix \cup {None}

RowOf(r) == mem[r].rows[mem[r].n]

-----------------------------------------------------------------------------
(* Parsers *)

\* The lines of other technologies are ignored ...
SipLines(lines) == {i \in DOMAIN lines : lines[i].technology \in {"sip", "pjsip"}}

\* ... and the order of the rest is kept.
InOrder(set) == {s \in [1 .. Cardinality(set) -> set] : \A i, j \in DOMAIN s : i < j => s[i] < s[j]}

FromLine(line) ==
    [ident |-> <<IF line.technology = "pjsip" THEN "internal-7060" ELSE "internal", line.user>>,
     prefix |-> line.prefix, condo |-> line.condo, password |-> line.password]

\* parse_trunk_csv: one SIP line without user or password refuses the file.
CsvRefused(lines) == \E i \in SipLines(lines) : None \in {lines[i].user, lines[i].password}

\* _normalize_trunk_entry: PJSIP on port 7060, with the user and the secret of
\* both sides the same.
Normal(e) == e.pjsip7060 /\ e.agrees /\ None \notin {e.user, e.password}

FromJson(e, condo) ==
    [ident |-> <<"internal-7060", e.user>>, prefix |-> None, condo |-> condo, password |-> e.password]

\* parse_trunk_json
ParsedOne(e, condo) == IF Normal(e) THEN FromJson(e, condo) ELSE None

\* parse_trunk_json_batch: each entry needs its condominium in the map.
ParsedJson(entries, names) ==
    IF entries = <<>> \/ \E e \in ToSet(entries) : ~Normal(e) \/ e.number \notin DOMAIN names
      THEN None
      ELSE [i \in DOMAIN entries |-> FromJson(entries[i], names[entries[i].number])]

-----------------------------------------------------------------------------
(* The steps that single requests and imports share *)

\* The row is done with: the next one, or the answer.
Advance(r, written) ==
    /\ mem' = [mem EXCEPT ![r].n = @ + 1, ![r].wrote = @ + written, ![r].seen = None]
    /\ Goto(r, IF mem[r].n < Len(mem[r].rows) THEN "find" ELSE "ok")

\* A ValueError: import_trunk_csv notes it and goes on.
Refused(r) == IF job[r].op = "csv" THEN Advance(r, 0) ELSE Fails(r)

\* _validate_scope
InScope(r, condo) ==
    /\ \E p \in Row(pbxs, job[r].pbx) : p.tenant = job[r].tenant
    /\ \E c \in Row(condos, condo) : c.tenant = job[r].tenant /\ c.pbx = job[r].pbx

\* Mutant of CreateScope: the PBX is not compared with the condominium's.
CreateScopeTenant(r) ==
    /\ At(r, "scope")
    /\ IF /\ \E c \in Row(condos, RowOf(r).condo) : c.tenant = job[r].tenant
          /\ WellFormed(RowOf(r).prefix) /\ RowOf(r).password = "good"
         THEN Goto(r, "unique") /\ UNCHANGED mem
         ELSE Refused(r)
    /\ UNCHANGED <<world, job>>

\* _validate_create_inputs, as far as the uniqueness checks.
CreateScope(r) ==
    /\ At(r, "scope")
    /\ IF InScope(r, RowOf(r).condo) /\ WellFormed(RowOf(r).prefix) /\ RowOf(r).password = "good"
         THEN Goto(r, "unique") /\ UNCHANGED mem
         ELSE Refused(r)
    /\ UNCHANGED <<world, job>>

IdentityTaken(ident) == \E o \in trunks : o.ident = ident
PrefixTaken(tenant, prefix) ==
    prefix # None /\ \E o \in trunks : o.tenant = tenant /\ o.prefix = prefix

\* _ensure_unique on the table
CreateUnique(r) ==
    /\ At(r, "unique")
    /\ IF IdentityTaken(RowOf(r).ident) \/ PrefixTaken(job[r].tenant, RowOf(r).prefix)
         THEN Refused(r)
         ELSE Goto(r, "legacy") /\ UNCHANGED mem
    /\ UNCHANGED <<world, job>>

\* Mutant of LegacyClash: the file is asked for the "internal" profile only.
LegacyClashInternal(ident) == legacy.ok => ident[1] = "internal" /\ LegacyHas(UserOf(ident))

\* LegacyDirectoryProvider.contains: a file that cannot be parsed raises a
\* ValueError, which refuses the row as a clash does.
LegacyClash(ident) == legacy.ok => LegacyHas(UserOf(ident))

CreateLegacy(r) ==
    /\ At(r, "legacy")
    /\ IF LegacyClash(RowOf(r).ident)
         THEN Refused(r)
         ELSE Goto(r, "insert") /\ UNCHANGED mem
    /\ UNCHANGED <<world, job>>

NewTrunk(r) ==
    [id |-> <<r, mem[r].n>>, tenant |-> job[r].tenant, pbx |-> job[r].pbx,
     condo |-> RowOf(r).condo, prefix |-> RowOf(r).prefix, ident |-> RowOf(r).ident,
     enabled |-> job[r].enabled, status |-> "unknown"]

\* The commit of a new trunk.  A name too long for its column is a DataError,
\* which nobody translates.
CreateInsert(r) ==
    LET k == NewTrunk(r)
    IN  /\ At(r, "insert")
        /\ IF UserOf(k.ident) \in Long
             THEN Fails(r) /\ UNCHANGED trunks
             ELSE IF TrunkFits(k)
               THEN trunks' = trunks \cup {k} /\ Advance(r, 1)
               ELSE Refused(r) /\ UNCHANGED trunks
        /\ UNCHANGED <<tenants, pbxs, condos, schemas, legacy, varsxml, job>>

\* What a request asks of the columns of an existing trunk.
Asked(r) ==
    IF job[r].op = "update" THEN job[r].new ELSE [enabled |-> FALSE, password |-> RowOf(r).password]

IdentityChanges(r) == "ident" \in DOMAIN Asked(r) /\ Asked(r).ident # mem[r].seen.ident

\* Mutant of Updates: a new password leaves the state of the registration.
UpdatesKeepStatus(r) ==
    [f \in DOMAIN Asked(r) \cup (IF IdentityChanges(r) THEN {"status"} ELSE {}) |->
        IF f = "status" THEN "unknown" ELSE Asked(r)[f]]

\* TrunkService.update: a new identity or password forgets the registration.
Updates(r) ==
    LET reset == IF IdentityChanges(r) \/ "password" \in DOMAIN Asked(r) THEN {"status"} ELSE {}
    IN  [f \in DOMAIN Asked(r) \cup reset |-> IF f = "status" THEN "unknown" ELSE Asked(r)[f]]

GoodPassword(r) == "password" \in DOMAIN Asked(r) => Asked(r).password = "good"

\* Another's compensation has deleted the trunk: the service misses it, or
\* Repository.update does and an import is none the wiser, or the UPDATE finds no
\* row and raises what nobody catches.
Vanished(r) == Refused(r) \/ Fails(r) \/ (job[r].op # "update" /\ Advance(r, 0))

\* The commit of a changed trunk.
Save(r) ==
    LET now == Row(trunks, mem[r].seen.id)
        new == {Updated(k, mem[r].seen, Updates(r)) : k \in now}
    IN  /\ At(r, "save")
        /\ IF \E k \in new : TrunkFits(k)
             THEN trunks' = (trunks \ now) \cup new /\ Advance(r, 1)
             ELSE (IF now = {} THEN Vanished(r) ELSE Refused(r)) /\ UNCHANGED trunks
        /\ UNCHANGED <<tenants, pbxs, condos, schemas, legacy, varsxml, job>>

-----------------------------------------------------------------------------
(* create_trunk and update_trunk *)

CreateTrunk(r) ==
    /\ At(r, "create")
    /\ mem' = [mem EXCEPT ![r].rows = <<job[r].row>>]
    /\ Goto(r, "scope")
    /\ UNCHANGED <<world, job>>

\* Mutant of LoadTrunk: the tenant of the trunk is not compared.
LoadTrunkOfAny(r) ==
    /\ At(r, "update")
    /\ IF Row(trunks, job[r].trunk) = {}
         THEN Fails(r)
         ELSE \E k \in Row(trunks, job[r].trunk) :
                /\ mem' = [mem EXCEPT ![r].seen = k, ![r].rows = <<job[r].new>>]
                /\ Goto(r, "move")
    /\ UNCHANGED <<world, job>>

\* The trunk is loaded and must be the tenant's; it stays as loaded in the
\* session.
LoadTrunk(r) ==
    /\ At(r, "update")
    /\ IF \A k \in Row(trunks, job[r].trunk) : k.tenant # job[r].tenant
         THEN Fails(r)
         ELSE \E k \in Row(trunks, job[r].trunk) :
                /\ mem' = [mem EXCEPT ![r].seen = k, ![r].rows = <<job[r].new>>]
                /\ Goto(r, "move")
    /\ UNCHANGED <<world, job>>

\* Another condominium must be of the trunk's PBX and tenant; then the prefix.
CheckMove(r) ==
    LET moves == "condo" \in DOMAIN Asked(r) /\ Asked(r).condo # mem[r].seen.condo
        there == \E c \in Row(condos, Asked(r).condo) :
                    c.tenant = job[r].tenant /\ c.pbx = mem[r].seen.pbx
    IN  /\ At(r, "move")
        /\ IF /\ moves => there
              /\ "prefix" \in DOMAIN Asked(r) => WellFormed(Asked(r).prefix)
             THEN Goto(r, "identity") /\ UNCHANGED mem
             ELSE Fails(r)
        /\ UNCHANGED <<world, job>>

\* Another identity must not be another trunk's.
CheckIdentity(r) ==
    /\ At(r, "identity")
    /\ IF IdentityChanges(r) /\ \E o \in trunks : o.ident = Asked(r).ident /\ o.id # mem[r].seen.id
         THEN Fails(r)
         ELSE Goto(r, "clash") /\ UNCHANGED mem
    /\ UNCHANGED <<world, job>>

\* Nor a legacy user's.
CheckClash(r) ==
    /\ At(r, "clash")
    /\ IF (IdentityChanges(r) /\ LegacyClash(Asked(r).ident)) \/ ~GoodPassword(r)
         THEN Fails(r)
         ELSE Goto(r, "save") /\ UNCHANGED mem
    /\ UNCHANGED <<world, job>>

-----------------------------------------------------------------------------
(* upsert_imported, and the two imports that call it *)

\* A trunk that has the identity is updated, if it is the tenant's and the
\* password is one; the legacy file is not asked again.
Find(r) ==
    LET existing == {k \in trunks : k.ident = RowOf(r).ident}
    IN  /\ At(r, "find")
        /\ \/ existing = {} /\ Goto(r, "scope") /\ UNCHANGED mem
           \/ \E k \in existing :
                IF k.tenant = job[r].tenant /\ RowOf(r).password = "good"
                  THEN mem' = [mem EXCEPT ![r].seen = k] /\ Goto(r, "save")
                  ELSE Refused(r)
        /\ UNCHANGED <<world, job>>

\* import_trunk_csv
ImportCsv(r) ==
    /\ At(r, "csv")
    /\ IF CsvRefused(job[r].lines)
         THEN Fails(r)
         ELSE \E order \in InOrder(SipLines(job[r].lines)) :
                /\ mem' = [mem EXCEPT ![r].rows = [n \in DOMAIN order |-> FromLine(job[r].lines[order[n]])]]
                /\ Goto(r, IF job[r].apply /\ order # <<>> THEN "find" ELSE "ok")
    /\ UNCHANGED <<world, job>>

\* import_trunk_json: one trunk, nothing to validate first.
ImportOne(r) ==
    LET row == ParsedOne(job[r].entry, job[r].condo)
    IN  /\ At(r, "json")
        /\ IF row = None \/ (job[r].apply /\ job[r].condo = None)
             THEN Fails(r)
             ELSE /\ mem' = [mem EXCEPT ![r].rows = <<row>>]
                  /\ Goto(r, IF job[r].apply THEN "find" ELSE "ok")
        /\ UNCHANGED <<world, job>>

\* CondominiumService.list
CondominiumsOf(tenant, pbx) == {c \in condos : c.tenant = tenant /\ c.pbx = pbx}

\* The script lists the condominiums it was given names of.
ListCondominiums(r) ==
    LET wanted == {c \in CondominiumsOf(job[r].tenant, job[r].pbx) : c.name \in ToSet(job[r].names)}
    IN  /\ At(r, "batch")
        /\ mem' = [mem EXCEPT ![r].ids = [n \in {c.name : c \in wanted} |->
                                            (CHOOSE c \in wanted : c.name = n).id]]
        /\ Goto(r, IF job[r].apply THEN "condo" ELSE "parse")
        /\ UNCHANGED <<world, job>>

\* import_trunk_json_batch parses once the condominiums are there.
ImportJson(r) ==
    LET rows == ParsedJson(job[r].entries, job[r].names)
    IN  /\ At(r, "parse")
        /\ IF rows = None \/ (job[r].apply /\ \E x \in ToSet(rows) : x.condo \notin DOMAIN mem[r].ids)
             THEN Fails(r)
             ELSE IF ~job[r].apply
               THEN Goto(r, "ok") /\ UNCHANGED mem
               ELSE /\ mem' = [mem EXCEPT ![r].rows =
                                 [i \in DOMAIN rows |-> [rows[i] EXCEPT !.condo = mem[r].ids[@]]]]
                    /\ Goto(r, "check")
        /\ UNCHANGED <<world, job>>

\* validate_importable: would upsert_imported accept the row?
Importable(r, x) ==
    LET existing == {k \in trunks : k.ident = x.ident}
    IN  IF existing # {}
          THEN x.password = "good" /\ \A k \in existing : k.tenant = job[r].tenant
          ELSE /\ InScope(r, x.condo) /\ WellFormed(x.prefix) /\ x.password = "good"
               /\ ~PrefixTaken(job[r].tenant, x.prefix)
               /\ ~LegacyClash(x.ident)

\* Mutant of CheckRow: only the first row is validated before the writes.
CheckFirst(r) ==
    /\ At(r, "check")
    /\ IF Importable(r, RowOf(r))
         THEN Goto(r, "find") /\ UNCHANGED mem
         ELSE Fails(r)
    /\ UNCHANGED <<world, job>>

\* Every row is validated before the first is written.
CheckRow(r) ==
    LET last == mem[r].n = Len(mem[r].rows)
    IN  /\ At(r, "check")
        /\ IF Importable(r, RowOf(r))
             THEN /\ mem' = [mem EXCEPT ![r].n = IF last THEN 1 ELSE @ + 1]
                  /\ Goto(r, IF last THEN "find" ELSE "check")
             ELSE Fails(r)
        /\ UNCHANGED <<world, job>>

-----------------------------------------------------------------------------
(* Condominiums *)

\* The names a request still needs the identifier of.
Missing(r) == ToSet(job[r].names) \ DOMAIN mem[r].ids

Found(r, name, id) == mem' = [mem EXCEPT ![r].ids = With(@, name, id)]

\* CondominiumService.create: the PBX must be the tenant's; one that has the
\* name is the answer.
FindCondominium(r) ==
    /\ At(r, "condo")
    /\ \/ /\ Missing(r) = {}
          /\ Goto(r, IF job[r].op = "batch" THEN "parse" ELSE "ok")
          /\ UNCHANGED mem
       \/ \E name \in Missing(r) :
            LET same == {c \in condos : <<c.tenant, c.pbx, c.name>> = <<job[r].tenant, job[r].pbx, name>>}
            IN  \/ /\ \A p \in Row(pbxs, job[r].pbx) : p.tenant # job[r].tenant
                   /\ Fails(r)
                \/ /\ \E p \in Row(pbxs, job[r].pbx) : p.tenant = job[r].tenant
                   /\ IF same = {}
                        THEN Goto(r, "condo_insert") /\ mem' = [mem EXCEPT ![r].name = name]
                        ELSE UNCHANGED pc /\ \E c \in same : Found(r, name, c.id)
    /\ UNCHANGED <<world, job>>

InsertCondominium(r) ==
    LET c == [id |-> <<r, mem[r].name>>, tenant |-> job[r].tenant, pbx |-> job[r].pbx,
              name |-> mem[r].name, enabled |-> TRUE]
    IN  /\ At(r, "condo_insert")
        /\ IF CondominiumFits(c)
             THEN condos' = condos \cup {c} /\ Found(r, c.name, c.id) /\ Goto(r, "condo")
             ELSE Fails(r) /\ UNCHANGED condos
        /\ UNCHANGED <<tenants, pbxs, trunks, schemas, legacy, varsxml, job>>

\* CondominiumService.update loads the row ...
LoadCondominium(r) ==
    /\ At(r, "condo_update")
    /\ IF \A c \in Row(condos, job[r].condo) : c.tenant # job[r].tenant
         THEN Fails(r)
         ELSE \E c \in Row(condos, job[r].condo) :
                mem' = [mem EXCEPT ![r].seen = c] /\ Goto(r, "condo_save")
    /\ UNCHANGED <<world, job>>

\* ... and commits the columns that differ from it.
SaveCondominium(r) ==
    LET now == Row(condos, mem[r].seen.id)
    IN  /\ At(r, "condo_save")
        /\ IF \E c \in now : CondominiumFits(Updated(c, mem[r].seen, job[r].new))
             THEN /\ condos' = (condos \ now) \cup {Updated(c, mem[r].seen, job[r].new) : c \in now}
                  /\ Goto(r, "ok") /\ UNCHANGED mem
             ELSE Fails(r) /\ UNCHANGED condos
        /\ UNCHANGED <<tenants, pbxs, trunks, schemas, legacy, varsxml, job>>

-----------------------------------------------------------------------------
(* freeswitch_directory *)

Placed(k) ==
    /\ \E c \in Row(condos, k.condo) : c.enabled /\ c.tenant = k.tenant /\ c.pbx = k.pbx
    /\ \E p \in Row(pbxs, k.pbx) : p.tenant = k.tenant

TenantActive(k) == \E t \in Row(tenants, k.tenant) : t.status = "active"

\* What the directory says of a trunk (or None) and the file.
Answer(k, user) ==
    CASE ~legacy.ok -> <<"error", None>>
      [] legacy.ok /\ k # None /\ LegacyHas(user) -> <<"ambiguous", None>>
      [] legacy.ok /\ k # None /\ ~LegacyHas(user) -> <<"trunk", k.id>>
      [] legacy.ok /\ k = None /\ LegacyHas(user) -> <<"legacy", None>>
      [] OTHER -> <<"unknown", None>>

\* What it would say if it read everything at once.
Directory(ident) ==
    LET on == {k \in trunks : k.ident = ident /\ k.enabled /\ Placed(k) /\ TenantActive(k)}
    IN  Answer(IF on = {} THEN None ELSE CHOOSE k \in on : TRUE, UserOf(ident))

\* lookup_directory_identity: the trunk must be enabled ...
LookupTrunk(r) ==
    LET on == {k \in trunks : k.ident = job[r].ident /\ k.enabled}
    IN  /\ At(r, "lookup")
        /\ \/ on = {} /\ Goto(r, "file") /\ UNCHANGED mem
           \/ \E k \in on : mem' = [mem EXCEPT ![r].seen = k] /\ Goto(r, "place")
        /\ UNCHANGED <<world, job>>

\* Mutant of LookupPlace: the condominium need not be enabled.
LookupAnyPlace(r) ==
    /\ At(r, "place")
    /\ Goto(r, "tenant") /\ UNCHANGED mem
    /\ UNCHANGED <<world, job>>

\* ... its condominium too, and of the same PBX and tenant ...
LookupPlace(r) ==
    /\ At(r, "place")
    /\ IF Placed(mem[r].seen)
         THEN Goto(r, "tenant") /\ UNCHANGED mem
         ELSE Goto(r, "file") /\ mem' = [mem EXCEPT ![r].seen = None]
    /\ UNCHANGED <<world, job>>

\* ... and its tenant active.
LookupTenant(r) ==
    /\ At(r, "tenant")
    /\ mem' = [mem EXCEPT ![r].seen = IF TenantActive(@) THEN @ ELSE None]
    /\ Goto(r, "file")
    /\ UNCHANGED <<world, job>>

\* Then the file is asked.  An identity that both have is not found.
LookupFile(r) ==
    /\ At(r, "file")
    /\ mem' = [mem EXCEPT ![r].answer = Answer(mem[r].seen, UserOf(job[r].ident))]
    /\ Goto(r, IF ~legacy.ok THEN "failed" ELSE "ok")
    /\ UNCHANGED <<world, job>>

-----------------------------------------------------------------------------
TrunkStep(r) ==
    \/ CreateTrunk(r) \/ CreateScope(r) \/ CreateUnique(r) \/ CreateLegacy(r) \/ CreateInsert(r)
    \/ LoadTrunk(r) \/ CheckMove(r) \/ CheckIdentity(r) \/ CheckClash(r) \/ Save(r)
    \/ Find(r) \/ ImportCsv(r) \/ ImportOne(r) \/ ListCondominiums(r) \/ ImportJson(r) \/ CheckRow(r)
    \/ FindCondominium(r) \/ InsertCondominium(r) \/ LoadCondominium(r) \/ SaveCondominium(r)
    \/ LookupTrunk(r) \/ LookupPlace(r) \/ LookupTenant(r) \/ LookupFile(r)
=============================================================================
