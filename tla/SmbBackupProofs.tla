-------------------------- MODULE SmbBackupProofs --------------------------
(***************************************************************************)
(* Proofs about SmbBackup: for any number of calls, any clash of names,    *)
(* any threshold and bound on retries, and any number of faults, the share *)
(* is a write-once store and the log is truthful.                          *)
(***************************************************************************)
EXTENDS SmbBackup, FiniteSetTheorems, TLAPS

USE BackupAssumption

(***************************************************************************)
(* The call the cycle is at                                                *)
(***************************************************************************)

\* A set of call directories that is not empty has a first one.
LEMMA FirstCall ==
    ASSUME NEW S \in SUBSET Call, S # {}
    PROVE  Min(S) \in S
  <1> DEFINE upTo(x) == 1 .. x
             T == {upTo(x) : x \in S}
  <1>1. IsWellFoundedOn(StrictSubsetOrdering(Call), SUBSET Call)
    <2>1. IsFiniteSet(Call)
      BY FS_Interval DEF Call
    <2>2. QED BY <2>1, FS_StrictSubsetOrderingWellFounded, FS_FiniteSubsetsOfFinite
  <1>2. \A x \in S : upTo(x) \in SUBSET Call
    BY DEF Call
  <1>3. T \subseteq SUBSET Call /\ T # {}
    <2>1. PICK x \in S : TRUE
      OBVIOUS
    <2>2. upTo(x) \in T
      BY <2>1
    <2>3. QED BY <1>2, <2>2
  <1> HIDE DEF T
  <1>4. PICK t \in T : \A u \in T : ~ (<<u, t>> \in StrictSubsetOrdering(Call))
    BY <1>1, <1>3, WFMin
  <1>5. PICK x \in S : t = upTo(x)
    BY <1>4 DEF T
  <1>6. ASSUME NEW y \in S PROVE x <= y
    <2>1. upTo(y) \in T /\ upTo(y) \in SUBSET Call /\ upTo(x) \in SUBSET Call
      BY <1>2 DEF T
    <2>2. ~(upTo(y) \subseteq upTo(x) /\ upTo(y) # upTo(x))
      BY <2>1, <1>4, <1>5 DEF StrictSubsetOrdering
    <2>3. y < x => x \in upTo(x) /\ x \notin upTo(y)
      BY DEF Call
    <2>4. QED BY <2>2, <2>3 DEF Call
  <1>7. QED BY <1>5, <1>6 DEF Min

LEMMA CurrentIsCall ==
    ASSUME TypeOK, todo # {}
    PROVE  Current \in todo /\ Current \in Call
  BY FirstCall DEF TypeOK, Current

(***************************************************************************)
(* Types                                                                   *)
(***************************************************************************)

\* What a failing request leaves on the share are recordings or parts of them.
LEMMA LandedType ==
    ASSUME TypeOK, Landed \/ LandedAndDropped, pc \notin {"idle", "loop"}
    PROVE  final' \in [Name -> Content] /\ temp' \in [Name -> Content]
  <1>1. Current \in Content /\ Part \in Content /\ Nothing \in Content
    BY CurrentIsCall DEF TypeOK, Content
  <1>2. QED
    BY <1>1 DEF TypeOK, Landed, LandedAndDropped, Renamed, share

LEMMA OutcomeType ==
    ASSUME TypeOK, todo # {}, NEW status \in {"none", "pending", "failed", "done"},
           NEW candidates \in SUBSET Name, Outcome(status, candidates)
    PROVE  /\ log' \in [Call -> {"none", "pending", "failed", "done"}]
           /\ noted' \in [Call -> SUBSET Name] /\ due' \in [Call -> SUBSET Name]
           /\ \A c \in Call : due'[c] \subseteq noted'[c]
           /\ todo' \in SUBSET Call /\ pc' \in Labels
           /\ pc' = "loop"
           /\ want' = want /\ name' = name /\ attempt' = attempt
           /\ seen' = seen /\ broken' = broken
  BY CurrentIsCall DEF TypeOK, Outcome, Labels

LEMMA CountType ==
    ASSUME TypeOK, CountFailure \/ UNCHANGED breaker \/ Reset
    PROVE  /\ failures' \in 0 .. Threshold /\ open' \in {"no", "yes", "cooled"}
           /\ open' # "no" => failures' = Threshold
  BY DEF TypeOK, CountFailure, breaker, Reset

LEMMA AllowsType ==
    ASSUME TypeOK, AllowsRequest
    PROVE  CountFailure \/ UNCHANGED breaker \/ Reset
  BY DEF AllowsRequest

LEMMA FaultType ==
    ASSUME TypeOK, Fault \/ UNCHANGED faults
    PROVE  faults' \in 0 .. MaxFaults
  BY DEF TypeOK, Fault

LEMMA AttemptType ==
    ASSUME TypeOK, AttemptFails \/ RefusedByServer
    PROVE  attempt' \in 0 .. Retries /\ pc' \in {"resolve", "error"}
  BY DEF TypeOK, AttemptFails, RefusedByServer

LEMMA NamesType ==
    \A c \in Call : NamesOf(c) \subseteq Name \X Name
  BY DEF NamesOf

LEMMA TypeStep == TypeOK /\ [Next]_vars => TypeOK'
  <1> SUFFICES ASSUME TypeOK, [Next]_vars PROVE TypeOK'
    OBVIOUS
  <1>1. CASE StartCycle
    BY <1>1, AllowsType, CountType DEF StartCycle, TypeOK, share, logVars, Labels
  <1>2. CASE TakeCall
    <2>1. Current \in todo /\ Current \in Call
      BY <1>2, CurrentIsCall DEF TakeCall
    <2>2. want' \in Name \X Name /\ todo' \in SUBSET Call /\ pc' \in Labels
          /\ (pc' \notin {"idle", "loop"} => todo' # {})
      <3>1. CASE log[Current] = "done"
        BY <1>2, <2>1, <3>1 DEF TakeCall, TypeOK, Labels
      <3>2. CASE log[Current] # "done"
        <4>1. want' \in NamesOf(Current) /\ pc' = "mix" /\ todo' = todo
          BY <1>2, <3>2 DEF TakeCall
        <4>2. QED BY <2>1, <4>1, NamesType DEF TypeOK, Labels, Working
      <3>3. QED BY <3>1, <3>2
    <2>3. attempt' \in 0 .. Retries /\ seen' \in SUBSET Name
      BY <1>2, <2>1 DEF TakeCall, TypeOK
    <2>4. QED
      BY <1>2, <2>2, <2>3, AllowsType, CountType DEF TakeCall, TypeOK, share, logVars
  <1>3. CASE EndCycle
    BY <1>3 DEF EndCycle, TypeOK, share, logVars, breaker, Labels
  <1>4. CASE SkipCall
    BY <1>4, FaultType DEF SkipCall, TypeOK, share, logVars, breaker, Labels
  <1>5. CASE MixCall
    BY <1>5 DEF MixCall, TypeOK, share, logVars, breaker, Labels, Working, Publishing
  <1>6. CASE MixFails
    BY <1>6, FaultType DEF MixFails, TypeOK, share, logVars, breaker, Labels
  <1>7. CASE TidyCall
    <2>1. temp' \in [Name -> Content] /\ seen' \in SUBSET Name
      BY <1>7 DEF TidyCall, TypeOK, Wanted, Content
    <2>2. QED
      BY <1>7, <2>1 DEF TidyCall, TypeOK, logVars, breaker, Labels, Working, Publishing
  <1>8. CASE Resolve
    <2>1. name' \in Name
      BY <1>8 DEF Resolve, TypeOK
    <2>2. pc' \in Labels
      BY <1>8 DEF Resolve, Labels, Working, Publishing
    <2>3. QED BY <1>8, <2>1, <2>2 DEF Resolve, TypeOK, share, logVars, breaker
  <1>9. CASE ConnectFails
    BY <1>9, FaultType, AttemptType
       DEF ConnectFails, TypeOK, share, logVars, breaker, Labels, Working, Publishing
  <1>10. CASE StoreFirst
    BY <1>10 DEF StoreFirst, TypeOK, Content, logVars, breaker, Labels, Working, Publishing
  <1>11. CASE StoreLast
    <2>1. temp' \in [Name -> Content]
      BY <1>11, CurrentIsCall DEF StoreLast, TypeOK, Content
    <2>2. faults' \in 0 .. MaxFaults
      BY <1>11, FaultType DEF StoreLast
    <2>3. QED
      BY <1>11, <2>1, <2>2 DEF StoreLast, TypeOK, logVars, breaker, Labels, Working, Publishing
  <1>12. CASE Verify
    <2>1. temp' \in [Name -> Content]
      BY <1>12 DEF Verify, TypeOK, Content
    <2>2. attempt' \in 0 .. Retries /\ pc' \in {"rename", "resolve", "error"}
      BY <1>12, AttemptType DEF Verify, TypeOK
    <2>3. QED
      BY <1>12, <2>1, <2>2 DEF Verify, TypeOK, logVars, breaker, Labels, Working, Publishing
  <1>13. CASE Rename
    BY <1>13 DEF Rename, Renamed, TypeOK, Content, logVars, breaker, Labels, Working, Publishing
  <1>14. CASE Check
    <2>1. final' \in [Name -> Content]
      BY <1>14 DEF Check, TypeOK, Content
    <2>2. attempt' \in 0 .. Retries /\ pc' \in {"done", "resolve", "error"}
      BY <1>14, AttemptType DEF Check, TypeOK
    <2>3. QED
      BY <1>14, <2>1, <2>2 DEF Check, TypeOK, logVars, breaker, Labels, Working, Publishing
  <1>15. CASE CallDone
    <2>1. todo # {} /\ seen \in SUBSET Name
      BY <1>15 DEF CallDone, TypeOK
    <2>2. QED
      BY <1>15, <2>1, OutcomeType, CountType DEF CallDone, TypeOK, share
  <1>16. CASE CallCollides
    <2>1. todo # {} /\ seen \in SUBSET Name
      BY <1>16 DEF CallCollides, TypeOK
    <2>2. QED
      BY <1>16, <2>1, OutcomeType, CountType DEF CallCollides, TypeOK, share
  <1>17. CASE CallFails
    <2>1. todo # {} /\ seen \in SUBSET Name
      BY <1>17 DEF CallFails, TypeOK
    <2>2. QED
      BY <1>17, <2>1, OutcomeType, CountType DEF CallFails, TypeOK, share
  <1>18. CASE PublishFails
    BY <1>18, LandedType, FaultType, AttemptType
       DEF PublishFails, TypeOK, logVars, breaker, Labels, Working, Publishing
  <1>19. CASE TidyFails
    <2>1. temp' \in [Name -> Content]
      BY <1>19 DEF TidyFails, TypeOK, Content
    <2>2. QED
      BY <1>19, <2>1, FaultType DEF TidyFails, TypeOK, logVars, breaker, Labels
  <1>20. CASE TimesOut
    <2>1. /\ pc \notin {"idle", "loop"} /\ todo # {}
          /\ Landed /\ Fault /\ Outcome("pending", {})
          /\ CountFailure
      BY <1>20 DEF TimesOut, Working, Publishing, TypeOK
    <2>2. QED
      BY <2>1, LandedType, FaultType, OutcomeType, CountType DEF TypeOK
  <1>21. CASE CycleAborted \/ Crash
    <2>1. final' \in [Name -> Content] /\ temp' \in [Name -> Content]
      <3>1. CASE pc \in {"idle", "loop"}
        BY <1>21, <3>1
           DEF CycleAborted, Crash, Landed, LandedAndDropped, Publishing, TypeOK, share
      <3>2. CASE pc \notin {"idle", "loop"}
        BY <1>21, <3>2, LandedType DEF CycleAborted, Crash
      <3>3. QED BY <3>1, <3>2
    <2>2. QED
      BY <1>21, <2>1, FaultType, CountType DEF CycleAborted, Crash, TypeOK, logVars, Labels
  <1>22. CASE ForgetCalls
    <2>1. PICK cs : /\ log' = [c \in Call |-> IF c \in cs THEN "none" ELSE log[c]]
                    /\ noted' = [c \in Call |-> IF c \in cs THEN {} ELSE noted[c]]
                    /\ due' = [c \in Call |-> IF c \in cs THEN {} ELSE due[c]]
      BY <1>22 DEF ForgetCalls
    <2>2. /\ log' \in [Call -> {"none", "pending", "failed", "done"}]
          /\ noted' \in [Call -> SUBSET Name] /\ due' \in [Call -> SUBSET Name]
          /\ \A c \in Call : due'[c] \subseteq noted'[c]
      BY <2>1 DEF TypeOK
    <2>3. QED
      BY <1>22, <2>2, FaultType DEF ForgetCalls, TypeOK, share, breaker, work
  <1>23. CASE BreakerCools
    BY <1>23 DEF BreakerCools, TypeOK, share, logVars, work
  <1>24. CASE RoundElapses
    BY <1>24 DEF RoundElapses, TypeOK, share, breaker, work
  <1>25. CASE UNCHANGED vars
    BY <1>25 DEF vars, TypeOK, share, logVars, breaker, work
  <1>26. QED
    BY <1>1, <1>2, <1>3, <1>4, <1>5, <1>6, <1>7, <1>8, <1>9, <1>10, <1>11, <1>12, <1>13,
       <1>14, <1>15, <1>16, <1>17, <1>18, <1>19, <1>20, <1>21, <1>22, <1>23, <1>24, <1>25
       DEF Next, Progress

\* The variables keep their types: in particular the breaker is open only after
\* as many failures as its threshold, and a call is worked on only in a cycle
\* that has it still to do.
THEOREM TypeCorrect == Spec => []TypeOK
  <1>1. Init => TypeOK
    <2> SUFFICES ASSUME Init PROVE TypeOK
      OBVIOUS
    <2>1. final \in [Name -> Content] /\ temp \in [Name -> Content]
      BY DEF Init, Content
    <2>2. want \in Name \X Name /\ name \in Name
      BY DEF Init, Call
    <2>3. broken \in SUBSET Call
      BY DEF Init
    <2>4. QED BY <2>1, <2>2, <2>3 DEF Init, TypeOK, Labels
  <1>2. QED
    BY <1>1, TypeStep, PTL DEF Spec

(***************************************************************************)
(* The share is written once, and the log tells the truth                  *)
(***************************************************************************)

\* The requests between the choice of a name and the rename.
Sending == {"store", "storing", "verify", "rename"}

\* While a call is worked on, its names are those of its row or, without a row,
\* of its guess; the name that was resolved is one of them.
Chosen ==
    /\ pc \notin {"idle", "loop"} => want \in NamesOf(Current)
    /\ pc \in Sending \cup {"check", "done"} => name \in Wanted

\* What is sent is nowhere yet: the name is free, and is the collision name only
\* if the base name is not; a call with a row is under no name.
Unpublished ==
    pc \in Sending =>
        /\ final[name] = Nothing
        /\ name = want[1] \/ final[want[1]] # Nothing
        /\ Current \notin Rowless => \A n \in Name : final[n] # Current

\* What is renamed was verified, and is there afterwards.
Verified ==
    /\ pc = "rename" => temp[name] = Current
    /\ pc \in {"check", "done"} => final[name] = Current

\* The share has whole recordings; those of calls with a row are under names
\* of theirs, and under the collision name only where the base name is taken.
OwnNames ==
    /\ \A n \in Name : final[n] # Part
    /\ \A c \in Call \ Rowless :
          /\ \A n \in Name : final[n] = c => n \in {Base[c], Collision[c]}
          /\ final[Collision[c]] = c => final[Base[c]] # Nothing

IInv == TypeOK /\ Chosen /\ Unpublished /\ Verified /\ OwnNames /\ DoneIsPublished

\* The one step that changes what readers of the share see.
Publishes == /\ pc = "rename"
             /\ final' = [final EXCEPT ![name] = Current]

LEMMA LandedPublishes ==
    ASSUME IInv, Landed \/ LandedAndDropped
    PROVE  UNCHANGED final \/ Publishes
  BY DEF IInv, Verified, Landed, LandedAndDropped, Renamed, Publishes, share

LEMMA FinalStep ==
    ASSUME IInv, [Next]_vars
    PROVE  UNCHANGED final \/ Publishes
  <1>1. CASE Rename
    BY <1>1 DEF Rename, Renamed, Publishes, IInv, Verified
  <1>2. CASE Check
    BY <1>2 DEF Check, RemoteSha, IInv, Verified
  <1>3. CASE PublishFails \/ TimesOut \/ CycleAborted \/ Crash
    BY <1>3, LandedPublishes DEF PublishFails, TimesOut, CycleAborted, Crash
  <1>4. CASE ~(Rename \/ Check \/ PublishFails \/ TimesOut \/ CycleAborted \/ Crash)
    BY <1>4 DEF Next, Progress, StartCycle, TakeCall, EndCycle, MixCall, MixFails, TidyCall,
                Resolve, StoreFirst, StoreLast, Verify, CallDone, CallCollides, CallFails,
                SkipCall, ConnectFails, TidyFails, ForgetCalls, BreakerCools, RoundElapses,
                vars, share
  <1>5. QED BY <1>1, <1>2, <1>3, <1>4

\* Publishing puts a recording where nothing was, and nowhere else.
LEMMA PublishesOne ==
    ASSUME IInv, Publishes
    PROVE  /\ Current \in Call /\ Current # Nothing /\ Current # Part
           /\ name \in Wanted /\ want \in NamesOf(Current) /\ name \in Name
           /\ final[name] = Nothing /\ final'[name] = Current
           /\ \A n \in Name : n # name => final'[n] = final[n]
           /\ name = want[1] \/ final[want[1]] # Nothing
  <1>1. Current \in Call /\ Current # Nothing /\ Current # Part
    BY CurrentIsCall DEF IInv, Publishes, TypeOK, Call, Nothing, Part
  <1>2. QED
    BY <1>1 DEF IInv, Publishes, TypeOK, Chosen, Unpublished, Sending

LEMMA OwnNamesStep ==
    ASSUME IInv, [Next]_vars
    PROVE  OwnNames'
  <1>1. CASE UNCHANGED final
    BY <1>1 DEF IInv, OwnNames
  <1>2. CASE Publishes
    <2>1. \A n \in Name : final'[n] # Part
      BY <1>2, PublishesOne DEF IInv, OwnNames
    <2>2. ASSUME NEW c \in Call \ Rowless
          PROVE  /\ \A n \in Name : final'[n] = c => n \in {Base[c], Collision[c]}
                 /\ final'[Collision[c]] = c => final'[Base[c]] # Nothing
      <3>1. CASE c = Current
        <4>1. want = <<Base[c], Collision[c]>>
          BY <1>2, <3>1, PublishesOne DEF NamesOf
        <4>2. \A n \in Name : final'[n] = c => n = name
          BY <1>2, <3>1, PublishesOne DEF IInv, Unpublished, Publishes, Sending
        <4>3. QED BY <1>2, <3>1, <4>1, <4>2, PublishesOne DEF Wanted
      <3>2. CASE c # Current
        BY <1>2, <3>2, PublishesOne DEF IInv, OwnNames
      <3>3. QED BY <3>1, <3>2
    <2>3. QED BY <2>1, <2>2 DEF OwnNames
  <1>3. QED BY <1>1, <1>2, FinalStep

LEMMA DoneStep ==
    ASSUME IInv, [Next]_vars
    PROVE  DoneIsPublished'
  <1>1. ASSUME NEW c \in Call, Published(c) PROVE Published(c)'
    <2>1. PICK n \in Name : final[n] = c
      BY <1>1 DEF Published
    <2>2. CASE UNCHANGED final
      BY <2>1, <2>2 DEF Published
    <2>3. CASE Publishes
      <3>1. c # Nothing
        BY DEF Call, Nothing
      <3>2. final'[n] = c
        BY <2>1, <2>3, <3>1, PublishesOne
      <3>3. QED BY <3>2 DEF Published
    <2>4. QED BY <2>2, <2>3, FinalStep
  <1>2. ASSUME NEW c \in Call, log'[c] = "done" PROVE Published(c)
    <2>1. CASE log[c] = "done"
      BY <2>1 DEF IInv, DoneIsPublished
    <2>2. CASE log[c] # "done"
      <3>1. CallDone
        BY <1>2, <2>2 DEF Next, Progress, StartCycle, TakeCall, EndCycle, MixCall, MixFails,
            TidyCall, Resolve, StoreFirst, StoreLast, Verify, Rename, Check, CallDone,
            CallCollides, CallFails, SkipCall, ConnectFails, PublishFails, TidyFails, TimesOut,
            CycleAborted, Crash, ForgetCalls, BreakerCools, RoundElapses,
            Outcome, vars, logVars, IInv, TypeOK
      <3>2. c = Current /\ name \in Name /\ final[name] = Current
        BY <1>2, <2>2, <3>1 DEF CallDone, Outcome, IInv, TypeOK, Verified
      <3>3. QED BY <3>2 DEF Published
    <2>3. QED BY <2>1, <2>2
  <1>3. QED BY <1>1, <1>2 DEF DoneIsPublished

\* A step that goes on with the same call keeps its names.
LEMMA SameCall ==
    ASSUME todo' = todo, want' = want
    PROVE  /\ Current' = Current /\ Wanted' = Wanted
           /\ NamesOf(Current)' = NamesOf(Current)
  BY DEF Current, Wanted, NamesOf

\* The names and the progress of the call that is worked on.
LEMMA ControlStep ==
    ASSUME IInv, [Next]_vars
    PROVE  (Chosen /\ Unpublished /\ Verified)'
  <1> DEFINE Control == Chosen /\ Unpublished /\ Verified
  <1> SUFFICES Control'
    OBVIOUS
  <1>0. ASSUME pc' \in {"idle", "loop"} PROVE Control'
    BY <1>0 DEF Chosen, Unpublished, Verified, Sending
  <1>1. ASSUME pc' \in {"mix", "tidy", "resolve", "error", "collision"},
               want' \in NamesOf(Current)'
        PROVE  Control'
    BY <1>1 DEF Chosen, Unpublished, Verified, Sending
  <1>2. ASSUME pc \notin {"idle", "loop"}, todo' = todo, want' = want
        PROVE  want' \in NamesOf(Current)' /\ Current' = Current /\ Wanted' = Wanted
    BY <1>2, SameCall DEF IInv, Chosen
  <1>3. CASE TakeCall
    <2>1. CASE log[Current] = "done"
      BY <1>0, <1>3, <2>1 DEF TakeCall
    <2>2. CASE log[Current] # "done"
      <3>1. todo' = todo /\ want' \in NamesOf(Current) /\ pc' = "mix"
        BY <1>3, <2>2 DEF TakeCall
      <3>2. Current' = Current
        BY <3>1 DEF Current
      <3>3. NamesOf(Current)' = NamesOf(Current)
        BY <3>2 DEF NamesOf
      <3>4. QED BY <1>1, <3>1, <3>3
    <2>3. QED BY <2>1, <2>2
  <1>4. CASE MixCall \/ MixFails \/ TidyCall \/ TidyFails \/ ConnectFails
    <2>1. /\ pc \notin {"idle", "loop"} /\ todo' = todo /\ want' = want
          /\ pc' \in {"tidy", "resolve", "error"}
      BY <1>4 DEF MixCall, MixFails, TidyCall, TidyFails, ConnectFails, AttemptFails,
                  RefusedByServer
    <2>2. QED BY <1>1, <1>2, <2>1
  <1>5. CASE Resolve
    <2>1. pc = "resolve" /\ todo' = todo /\ want' = want /\ final' = final
      BY <1>5 DEF Resolve, share
    <2>2. CASE Usable = {}
      BY <1>1, <1>2, <1>5, <2>1, <2>2 DEF Resolve
    <2>3. CASE Usable # {}
      <3>1. /\ name' = IF want[1] \in Usable THEN want[1] ELSE want[2]
            /\ pc' = IF final[name'] = Current THEN "done" ELSE "store"
        BY <1>5, <2>1, <2>3 DEF Resolve, RemoteSha
      <3>2. name' \in Usable /\ name' \in Wanted
        BY <2>3, <3>1 DEF Usable, Wanted
      <3>3. Chosen'
        BY <1>2, <2>1, <3>2 DEF Chosen
      <3>4. Verified'
        BY <1>2, <2>1, <3>1 DEF Verified
      <3>5. ASSUME pc' = "store"
            PROVE  /\ final[name'] = Nothing
                   /\ name' = want[1] \/ final[want[1]] # Nothing
                   /\ Current \notin Rowless => \A n \in Name : final[n] # Current
        <4>1. final[name'] # Current
          BY <3>1, <3>5
        <4>2. final[name'] = Nothing
          BY <3>2, <4>1 DEF Usable, RemoteSha
        <4>3. name' = want[1] \/ final[want[1]] \notin {Nothing, Current}
          BY <3>1 DEF Usable, Wanted, RemoteSha
        <4>4. ASSUME Current \notin Rowless, NEW n \in Name, final[n] = Current
              PROVE  FALSE
          <5>1. Current \in Call
            BY <2>1, CurrentIsCall DEF IInv, TypeOK
          <5>2. want = <<Base[Current], Collision[Current]>>
            BY <2>1, <4>4 DEF IInv, Chosen, NamesOf
          <5>3. n \in {want[1], want[2]}
            BY <4>4, <5>1, <5>2 DEF IInv, OwnNames
          <5>4. n = want[2] => final[want[1]] # Nothing
            BY <4>4, <5>1, <5>2 DEF IInv, OwnNames
          <5>5. QED BY <3>1, <4>1, <4>2, <4>3, <4>4, <5>3, <5>4
        <4>5. QED BY <4>2, <4>3, <4>4
      <3>6. Unpublished'
        BY <1>2, <2>1, <3>1, <3>5 DEF Unpublished, Sending
      <3>7. QED BY <3>3, <3>4, <3>6
    <2>4. QED BY <2>2, <2>3
  <1>6. CASE StoreFirst \/ StoreLast
    <2>1. /\ pc \in {"store", "storing"} /\ pc' \in {"storing", "verify"}
          /\ todo' = todo /\ want' = want /\ final' = final /\ name' = name
      BY <1>6 DEF StoreFirst, StoreLast
    <2>2. QED
      BY <1>2, <2>1 DEF IInv, Chosen, Unpublished, Verified, Sending
  <1>7. CASE Verify
    <2>1. pc = "verify" /\ todo' = todo /\ want' = want /\ final' = final /\ name' = name
      BY <1>7 DEF Verify
    <2>2. CASE temp[name] = Current
      BY <1>2, <1>7, <2>1, <2>2 DEF Verify, IInv, Chosen, Unpublished, Verified, Sending
    <2>3. CASE temp[name] # Current
      BY <1>1, <1>2, <1>7, <2>1, <2>3 DEF Verify, AttemptFails
    <2>4. QED BY <2>2, <2>3
  <1>8. CASE Rename
    <2>1. /\ pc = "rename" /\ pc' = "check" /\ todo' = todo /\ want' = want /\ name' = name
          /\ final' = [final EXCEPT ![name] = Current]
      BY <1>8 DEF Rename, Renamed, IInv, Verified
    <2>2. final'[name] = Current
      BY <2>1 DEF IInv, TypeOK
    <2>3. QED
      BY <1>2, <2>1, <2>2 DEF IInv, Chosen, Unpublished, Verified, Sending
  <1>9. CASE Check
    <2>1. pc = "check" /\ pc' = "done" /\ todo' = todo /\ want' = want /\ name' = name
          /\ final' = final
      BY <1>9 DEF Check, RemoteSha, IInv, Verified
    <2>2. QED
      BY <1>2, <2>1 DEF IInv, Chosen, Unpublished, Verified, Sending
  <1>10. CASE PublishFails
    <2>1. /\ pc \notin {"idle", "loop"} /\ todo' = todo /\ want' = want
          /\ pc' \in {"resolve", "error"}
      BY <1>10 DEF PublishFails, Publishing, AttemptFails, RefusedByServer
    <2>2. QED BY <1>1, <1>2, <2>1
  <1>11. CASE ForgetCalls
    BY <1>0, <1>11 DEF ForgetCalls, work
  <1>12. CASE BreakerCools \/ RoundElapses \/ UNCHANGED vars
    <2>1. UNCHANGED <<share, work>>
      BY <1>12 DEF BreakerCools, RoundElapses, vars
    <2>2. QED
      BY <2>1, SameCall DEF IInv, Chosen, Unpublished, Verified, share, work
  <1>13. CASE StartCycle \/ EndCycle \/ SkipCall \/ CallDone \/ CallCollides \/ CallFails
              \/ TimesOut \/ CycleAborted \/ Crash
    <2>1. pc' \in {"idle", "loop"}
      BY <1>13 DEF StartCycle, EndCycle, SkipCall, CallDone, CallCollides, CallFails, TimesOut,
                   CycleAborted, Crash, Outcome
    <2>2. QED BY <1>0, <2>1
  <1>14. QED
    BY <1>3, <1>4, <1>5, <1>6, <1>7, <1>8, <1>9, <1>10, <1>11, <1>12, <1>13
       DEF Next, Progress

\* The invariant behind what the share and the log promise.
THEOREM Invariance == Spec => []IInv
  <1>1. Init => Chosen /\ Unpublished /\ Verified /\ OwnNames /\ DoneIsPublished
    <2> SUFFICES ASSUME Init
                 PROVE  Chosen /\ Unpublished /\ Verified /\ OwnNames /\ DoneIsPublished
      OBVIOUS
    <2>1. \A c \in Call : c # Nothing /\ Base[c] \in Name /\ Collision[c] \in Name
      BY DEF Call, Nothing
    <2>2. OwnNames
      BY <2>1 DEF Init, OwnNames, Nothing, Part
    <2>3. QED
      BY <2>2 DEF Init, Chosen, Unpublished, Verified, DoneIsPublished, Sending
  <1>2. IInv /\ [Next]_vars => IInv'
    BY TypeStep, ControlStep, OwnNamesStep, DoneStep DEF IInv
  <1>3. QED
    BY <1>1, <1>2, TypeCorrect, PTL DEF Spec, IInv

\* A log entry says done only of a call that is on the share.
THEOREM LogIsTruthful == Spec => []DoneIsPublished
  BY Invariance, PTL DEF IInv

\* The share implements the write-once store: whatever fails, is repeated or
\* collides, each step of the worker puts one whole recording under a free name,
\* that of a call with a row once, or leaves what readers see as it is.
THEOREM ImplementsWriteOnce == Spec => WriteOnce
  <1>1. Init => Store!Init
    BY DEF Init, Store!Init
  <1>2. IInv /\ [Next]_vars => [Store!Next]_final
    <2> SUFFICES ASSUME IInv, [Next]_vars
                 PROVE  Store!Next \/ UNCHANGED final
      OBVIOUS
    <2>1. ASSUME Publishes PROVE Store!Put(name, Current)
      BY <2>1, PublishesOne DEF Store!Put, Publishes, IInv, Unpublished, Sending
    <2>2. QED
      BY <2>1, FinalStep, PublishesOne DEF Store!Next
  <1>3. QED
    BY <1>1, <1>2, Invariance, PTL DEF Spec, WriteOnce, Store!Spec
=============================================================================
