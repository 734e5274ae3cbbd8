------------------------ MODULE RecordingLeaseProofs ------------------------
(***************************************************************************)
(* Theorems about RecordingLease, for every set of owners, every lease TTL *)
(* and every shorter heartbeat period.                                     *)
(***************************************************************************)
EXTENDS RecordingLease, TLAPS

USE LeaseAssumption

(***************************************************************************)
(* Facts about the lease files.                                            *)
(***************************************************************************)

\* A fresh lease is a lease, and so is one that has aged by a tick; releasing
\* a lease leaves lease files behind.
LEMMA LeaseTypes ==
    /\ NoLease \in Lease
    /\ \A o \in Owner : FreshLease(o) \in Lease
    /\ \A l \in Lease : Aged(l) \in Lease /\ Aged(l).owner = l.owner
                        /\ (Aged(l).left > 0 => l.left > 0)
  <1>1. NoLease \in Lease
    BY DEF NoLease, Lease
  <1>2. ASSUME NEW o \in Owner PROVE FreshLease(o) \in Lease
    BY DEF FreshLease, Lease
  <1>3. ASSUME NEW l \in Lease
        PROVE  Aged(l) \in Lease /\ Aged(l).owner = l.owner
               /\ (Aged(l).left > 0 => l.left > 0)
    BY DEF Aged, Lease
  <1>4. QED BY <1>1, <1>2, <1>3

\* Every step keeps the types.
LEMMA TypeStep == TypeOK /\ [Next]_vars => TypeOK'
  <1> SUFFICES ASSUME TypeOK, [Next]_vars PROVE TypeOK'
    OBVIOUS
  <1>1. ASSUME NEW o \in Owner, NEW s \in Stage, Begin(o, s) PROVE TypeOK'
    BY <1>1, LeaseTypes DEF Begin, TypeOK, Stage, NoStage, FreshLease, Lease
  <1>2. ASSUME NEW o \in Owner, BeginConversion(o) PROVE TypeOK'
    BY <1>2, LeaseTypes DEF BeginConversion, TypeOK, Stage, NoStage, FreshLease, Lease
  <1>3. ASSUME NEW o \in Owner, EndConversion(o) PROVE TypeOK'
    BY <1>3, LeaseTypes DEF EndConversion, Released, Owns, TypeOK, Stage, NoStage, NoLease, Lease
  <1>4. ASSUME NEW o \in Owner, Renew(o) PROVE TypeOK'
    BY <1>4, LeaseTypes DEF Renew, Running, TypeOK, Stage, NoStage, FreshLease, Lease
  <1>5. ASSUME NEW o \in Owner, RenewRefused(o) PROVE TypeOK'
    BY <1>5 DEF RenewRefused, Running, TypeOK
  <1>6. ASSUME NEW o \in Owner, End(o) PROVE TypeOK'
    <2>1. /\ lease' \in [Stage -> Lease]
          /\ \A s \in Stage : lease'[s].left > 0 => lease'[s].owner \in Owner
      BY <1>6, LeaseTypes DEF End, Released, Owns, Running, TypeOK, NoLease, Lease
    <2>2. op' \in [Owner -> Stage \cup {NoStage}]
      BY <1>6 DEF End, TypeOK
    <2>3. nested' \in SUBSET {p \in Owner : op'[p] = "smb"}
      BY <1>6 DEF End, TypeOK, Running
    <2>4. lost' \in SUBSET {p \in Owner : op'[p] # NoStage}
      BY <1>6 DEF End, TypeOK
    <2>5. QED BY <2>1, <2>2, <2>3, <2>4 DEF TypeOK
  <1>7. ASSUME NEW o \in Owner, Crash(o) PROVE TypeOK'
    BY <1>7 DEF Crash, TypeOK, Running
  <1>8. CASE Tick
    BY <1>8, LeaseTypes DEF Tick, TypeOK
  <1>9. CASE UNCHANGED vars
    BY <1>9 DEF vars, TypeOK
  <1>10. QED
    BY <1>1, <1>2, <1>3, <1>4, <1>5, <1>6, <1>7, <1>8, <1>9 DEF Next, OwnerStep

\* The variables keep their types: in particular only operations that are
\* running are nested or have lost their heartbeat.
THEOREM TypeCorrect == Spec => []TypeOK
  <1>1. Init => TypeOK
    BY LeaseTypes DEF Init, TypeOK, NoLease, NoStage, Stage, Lease
  <1>2. QED
    BY <1>1, TypeStep, PTL DEF Spec

(***************************************************************************)
(* Exclusion.  What a step does to the set of active owners is all that    *)
(* the two theorems below need to know about it.                           *)
(***************************************************************************)

\* Releasing a lease, the passing of time and the steps that leave the files
\* alone make nobody active.
Shrinks == \A s \in Stage : lease'[s].left > 0 => Valid(s) /\ lease'[s].owner = lease[s].owner

\* A step that writes a lease leaves its author the only active owner.
Seizes(o) == /\ \A s \in Stage : Valid(s) => lease[s].owner = o
             /\ \A s \in Stage : lease'[s].left > 0 => lease'[s].owner = o
             /\ \E s \in Stage : lease'[s].left > 0

LEMMA StepShape ==
    ASSUME TypeOK, [Next]_vars
    PROVE  Shrinks \/ \E o \in Owner : Seizes(o)
  <1>1. ASSUME NEW o \in Owner, NEW s \in Stage, Begin(o, s) PROVE Seizes(o)
    BY <1>1 DEF Begin, Seizes, HasValidLease, Valid, TypeOK, FreshLease, Stage
  <1>2. ASSUME NEW o \in Owner, BeginConversion(o) PROVE Seizes(o)
    BY <1>2 DEF BeginConversion, Seizes, BusyFor, Valid, TypeOK, FreshLease, Stage
  <1>3. ASSUME NEW o \in Owner, Renew(o) PROVE Seizes(o)
    BY <1>3 DEF Renew, Running, Seizes, BusyFor, Valid, TypeOK, FreshLease, NoStage
  <1>4. ASSUME NEW o \in Owner, EndConversion(o) PROVE Shrinks
    BY <1>4 DEF EndConversion, Released, Shrinks, Valid, TypeOK, NoLease, Stage
  <1>5. ASSUME NEW o \in Owner, End(o) PROVE Shrinks
    BY <1>5 DEF End, Running, Released, Shrinks, Valid, TypeOK, NoLease, NoStage
  <1>6. ASSUME NEW o \in Owner, RenewRefused(o) \/ Crash(o) PROVE Shrinks
    BY <1>6 DEF RenewRefused, Crash, Shrinks, Valid
  <1>7. CASE Tick
    <2>1. \A s \in Stage : lease'[s] = Aged(lease[s]) /\ lease[s] \in Lease
      BY <1>7 DEF Tick, TypeOK
    <2>2. QED BY <2>1, LeaseTypes DEF Shrinks, Valid
  <1>8. CASE UNCHANGED vars
    BY <1>8 DEF vars, Shrinks, Valid
  <1>9. QED
    BY <1>1, <1>2, <1>3, <1>4, <1>5, <1>6, <1>7, <1>8 DEF Next, OwnerStep

LEMMA OneActiveOwnerStep ==
    TypeOK /\ OneActiveOwner /\ [Next]_vars => OneActiveOwner'
  BY StepShape DEF OneActiveOwner, Shrinks, Seizes, Valid

\* At any time the valid lease files of a call directory, of whatever stages,
\* belong to one owner.
THEOREM Exclusive == Spec => []OneActiveOwner
  <1>1. Init => OneActiveOwner
    BY DEF Init, OneActiveOwner, Valid, NoLease
  <1>2. QED
    BY <1>1, OneActiveOwnerStep, TypeCorrect, PTL DEF Spec

\* The lease files implement the abstract exclusion promise: nobody becomes
\* active while another owner is.
THEOREM ImplementsExclusion == Spec => ExclusionSpec
  <1>1. Init => Exclusion!Init
    BY DEF Init, Exclusion!Init, Active, Valid, NoLease
  <1>2. TypeOK /\ OneActiveOwner /\ [Next]_vars => [Exclusion!Next]_Active
    <2> SUFFICES ASSUME TypeOK, OneActiveOwner, [Next]_vars
                 PROVE  Exclusion!Next \/ Active' = Active
      OBVIOUS
    <2>1. CASE Shrinks
      <3>1. Active' \subseteq Active
        BY <2>1 DEF Shrinks, Active, Valid
      <3>2. \A o, p \in Active : o = p
        BY DEF Active, OneActiveOwner
      <3>3. CASE Active' = {}
        <4>1. CASE Active = {}
          BY <3>3, <4>1
        <4>2. CASE Active # {}
          <5>1. PICK o \in Active : TRUE
            BY <4>2
          <5>2. Active = {o} /\ o \in Owner
            BY <5>1, <3>2 DEF Active
          <5>3. QED BY <5>2, <3>3 DEF Exclusion!Next, Exclusion!Drop
        <4>3. QED BY <4>1, <4>2
      <3>4. CASE Active' # {}
        BY <3>1, <3>2, <3>4
      <3>5. QED BY <3>3, <3>4
    <2>2. ASSUME NEW o \in Owner, Seizes(o)
          PROVE  Exclusion!Next \/ Active' = Active
      <3>1. Active' = {o}
        BY <2>2 DEF Seizes, Active, Valid
      <3>2. Active = {} \/ Active = {o}
        BY <2>2 DEF Seizes, Active
      <3>3. QED BY <3>1, <3>2 DEF Exclusion!Next, Exclusion!Take
    <2>3. QED BY <2>1, <2>2, StepShape
  <1>3. QED
    BY <1>1, <1>2, TypeCorrect, Exclusive, PTL DEF Spec, ExclusionSpec, Exclusion!Spec

(***************************************************************************)
(* Owner-safe release.                                                     *)
(***************************************************************************)

\* No step of another worker removes a lease that still has time left.
THEOREM OwnerSafe == Spec => ReleasedOnlyByOwner
  <1> DEFINE Safe(s) ==
        lease[s].left > 1 /\ lease'[s].left = 0
          => LET o == lease[s].owner
             IN  op'[o] # op[o] \/ (o \in nested /\ o \notin nested')
  <1>1. ASSUME TypeOK, [Next]_vars, NEW s \in Stage PROVE Safe(s)
    <2>1. ASSUME NEW o \in Owner, NEW t \in Stage, Begin(o, t) PROVE Safe(s)
      BY <2>1, <1>1 DEF Begin, TypeOK, FreshLease
    <2>2. ASSUME NEW o \in Owner, BeginConversion(o) \/ Renew(o) PROVE Safe(s)
      BY <2>2, <1>1 DEF BeginConversion, Renew, TypeOK, FreshLease
    <2>3. ASSUME NEW o \in Owner, EndConversion(o) PROVE Safe(s)
      BY <2>3, <1>1 DEF EndConversion, Released, Owns, TypeOK
    <2>4. ASSUME NEW o \in Owner, End(o) PROVE Safe(s)
      BY <2>4, <1>1 DEF End, Running, Released, Owns, TypeOK, NoStage, Stage
    <2>5. ASSUME NEW o \in Owner, RenewRefused(o) \/ Crash(o) PROVE Safe(s)
      BY <2>5 DEF RenewRefused, Crash
    <2>6. CASE Tick
      <3>1. lease'[s] = Aged(lease[s]) /\ lease[s] \in Lease
        BY <2>6, <1>1 DEF Tick, TypeOK
      <3>2. lease[s].left > 1 => lease'[s].left > 0
        BY <3>1 DEF Aged, Lease
      <3>3. QED BY <3>1, <3>2 DEF Lease
    <2>7. CASE UNCHANGED vars
      BY <2>7 DEF vars
    <2>8. QED
      BY <1>1, <2>1, <2>2, <2>3, <2>4, <2>5, <2>6, <2>7 DEF Next, OwnerStep
  <1>2. TypeOK /\ [Next]_vars => [\A s \in Stage : Safe(s)]_vars
    BY <1>1
  <1>3. QED
    BY <1>2, TypeCorrect, PTL DEF Spec, ReleasedOnlyByOwner

(***************************************************************************)
(* With prompt heartbeats the files protect the operations.                *)
(***************************************************************************)

\* Every running operation has its own, valid lease: none has been displaced.
Protected ==
    \A o \in Running : Owns(o, op[o]) /\ lease[op[o]].left >= LeaseTTL - HeartbeatPeriod

PromptInv == TypeOK /\ OneActiveOwner /\ lost = {} /\ Protected

\* A protected operation is active.
LEMMA ProtectedIsActive ==
    ASSUME PromptInv, NEW o \in Running
    PROVE  o \in Owner /\ op[o] \in Stage /\ Valid(op[o]) /\ Owns(o, op[o])
  BY DEF PromptInv, Protected, Running, TypeOK, Valid, NoStage, Lease

\* Two running operations are one.
LEMMA ProtectedExclusion == PromptInv => OneOperation
  <1> SUFFICES ASSUME PromptInv, NEW o \in Running, NEW p \in Running PROVE o = p
    BY DEF OneOperation
  <1>1. QED
    BY ProtectedIsActive DEF PromptInv, OneActiveOwner, Owns

LEMMA PromptStep == PromptInv /\ [Next]_vars /\ Prompt' => PromptInv'
  <1> SUFFICES ASSUME PromptInv, [Next]_vars, Prompt' PROVE PromptInv'
    OBVIOUS
  <1>2. TypeOK' /\ OneActiveOwner'
    BY TypeStep, OneActiveOwnerStep DEF PromptInv
  <1> USE DEF PromptInv
  <1>3. ASSUME NEW o \in Owner, NEW s \in Stage, Begin(o, s)
        PROVE  (lost = {} /\ Protected)'
    <2>1. Running = {}
      BY <1>3, ProtectedIsActive DEF Begin, HasValidLease
    <2>2. Running' = {o} /\ op'[o] = s
      BY <1>3, <2>1 DEF Begin, Running, TypeOK, Stage, NoStage
    <2>3. QED BY <1>3, <2>2 DEF Begin, Protected, Owns, FreshLease, TypeOK
  <1>4. ASSUME NEW o \in Owner, BeginConversion(o)
        PROVE  (lost = {} /\ Protected)'
    <2>1. \A p \in Running : p = o
      BY <1>4, ProtectedIsActive DEF BeginConversion, BusyFor, Owns
    <2>2. QED
      BY <1>4, <2>1 DEF BeginConversion, Protected, Running, Owns, TypeOK, FreshLease, Stage
  <1>5. ASSUME NEW o \in Owner, EndConversion(o)
        PROVE  (lost = {} /\ Protected)'
    <2>1. o \in Running /\ op[o] = "smb"
      BY <1>5 DEF EndConversion, Running, TypeOK, NoStage
    <2>2. \A p \in Running : p = o
      BY <2>1, ProtectedExclusion DEF OneOperation
    <2>3. lease'["smb"] = lease["smb"] /\ op' = op /\ lost' = lost
      BY <1>5 DEF EndConversion, Released, TypeOK, Stage
    <2>4. QED
      BY <2>1, <2>2, <2>3 DEF Protected, Running, Owns
  <1>6. ASSUME NEW o \in Owner, Renew(o)
        PROVE  (lost = {} /\ Protected)'
    <2>1. \A p \in Running : p = o
      BY <1>6, ProtectedExclusion DEF OneOperation, Renew
    <2>2. QED
      BY <1>6, <2>1 DEF Renew, Protected, Running, Owns, TypeOK, FreshLease
  <1>7. ASSUME NEW o \in Owner, RenewRefused(o) PROVE FALSE
    <2>1. Owns(o, op[o]) /\ ~BusyFor(o)
      BY <1>7, ProtectedIsActive DEF RenewRefused, BusyFor, OneActiveOwner, Owns
    <2>2. QED BY <2>1, <1>7 DEF RenewRefused
  <1>8. ASSUME NEW o \in Owner, End(o) \/ Crash(o)
        PROVE  (lost = {} /\ Protected)'
    <2>1. o \in Running
      BY <1>8 DEF End, Crash
    <2>2. \A p \in Running : p = o
      BY <2>1, ProtectedExclusion DEF OneOperation
    <2>3. Running' = {}
      BY <1>8, <2>2 DEF End, Crash, Running, TypeOK
    <2>4. QED BY <1>8, <2>3 DEF End, Crash, Protected
  <1>9. ASSUME Tick PROVE (lost = {} /\ Protected)'
    <2>1. Running' = Running /\ op' = op /\ lost' = {}
      BY <1>9 DEF Tick, Running
    <2>2. ASSUME NEW o \in Running
          PROVE  Owns(o, op[o])' /\ lease'[op[o]].left >= LeaseTTL - HeartbeatPeriod
      <3>1. op[o] \in Stage /\ Owns(o, op[o])
        BY ProtectedIsActive
      <3>2. lease'[op[o]] = Aged(lease[op[o]]) /\ lease[op[o]] \in Lease
        BY <1>9, <3>1 DEF Tick, TypeOK
      <3>3. lease'[op[o]].owner = o
        BY <3>1, <3>2, LeaseTypes DEF Owns
      <3>4. lease'[op[o]].left >= LeaseTTL - HeartbeatPeriod
        BY <2>1 DEF Prompt
      <3>5. QED BY <3>3, <3>4, <2>1 DEF Owns
    <2>3. QED BY <2>1, <2>2 DEF Protected
  <1>10. CASE UNCHANGED vars
    BY <1>10, <1>2 DEF vars, Protected, Running, Owns
  <1>11. QED
    BY <1>2, <1>3, <1>4, <1>5, <1>6, <1>7, <1>8, <1>9, <1>10 DEF Next, OwnerStep

\* When heartbeats run on time no two operations ever overlap on a recording.
THEOREM PromptExclusion == Spec => PromptlyExclusive
  <1>1. Init => PromptInv
    BY LeaseTypes DEF Init, PromptInv, TypeOK, OneActiveOwner, Protected, Running, Valid,
                      NoLease, NoStage, Stage, Lease
  <1>2. QED
    BY <1>1, PromptStep, ProtectedExclusion, PTL DEF Spec, PromptlyExclusive
=============================================================================
