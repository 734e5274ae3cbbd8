---------------------- MODULE RecordingCapacityProofs -----------------------
(***************************************************************************)
(* Proofs about RecordingCapacity: for any number of calls, any sizes and  *)
(* any thresholds, the guard never overcommits the filesystem by more than *)
(* what it does not provision for.                                         *)
(*                                                                         *)
(* A step changes the bytes of one call, and so each of the guard's sums   *)
(* by what it changes of that call's summand (SumChange).  What a call     *)
(* adds to the commitment, less its overrun, is its reservation at most,   *)
(* and only admission makes it more (ShareIs).                             *)
(***************************************************************************)
EXTENDS RecordingCapacity, FiniteSetTheorems, TLAPS

(***************************************************************************)
(* Sums over the calls                                                     *)
(***************************************************************************)

Column(c, n) == {c} \X (1 .. n)

LEMMA ColumnSize ==
    ASSUME NEW c, NEW n \in Nat
    PROVE  IsFiniteSet(Column(c, n)) /\ Cardinality(Column(c, n)) = n
  <1> DEFINE number == [i \in 1 .. n |-> <<c, i>>]
  <1>1. number \in Bijection(1 .. n, Column(c, n))
    <2>1. number \in [1 .. n -> Column(c, n)]
      BY DEF Column
    <2>2. \A i, j \in 1 .. n : number[i] = number[j] => i = j
      OBVIOUS
    <2>3. \A u \in Column(c, n) : u[2] \in 1 .. n /\ number[u[2]] = u
      BY DEF Column
    <2> HIDE DEF number
    <2>4. QED BY <2>1, <2>2, <2>3 DEF Bijection, Injection, IsInjective, Surjection
  <1>2. IsFiniteSet(1 .. n) /\ Cardinality(1 .. n) = n
    <2>1. 1 \in Int /\ n \in Int /\ (IF 1 > n THEN 0 ELSE n - 1 + 1) = n
      OBVIOUS
    <2>2. QED BY <2>1, FS_Interval
  <1>3. QED BY <1>1, <1>2, FS_Bijection DEF ExistsBijection

LEMMA UnitsFinite ==
    ASSUME NEW K \in Nat, NEW size \in [Call -> 0 .. K]
    PROVE  IsFiniteSet(Units(size)) /\ Sum(size) \in Nat
  <1>1. IsFiniteSet(Call \X (1 .. K))
    <2>1. IsFiniteSet(1 .. K)
      BY FS_Interval
    <2>2. QED BY <2>1, CapacityAssumption, FS_Product DEF CapacityAssumption
  <1>2. Units(size) \subseteq Call \X (1 .. K)
    BY DEF Units
  <1>3. QED BY <1>1, <1>2, FS_Subset, FS_CardinalityType DEF Sum

\* Without its column for c, a sum is less by the size of c.
LEMMA SumWithout ==
    ASSUME NEW K \in Nat, NEW size \in [Call -> 0 .. K], NEW c \in Call
    PROVE  Sum(size) = Cardinality({u \in Units(size) : u[1] # c}) + size[c]
  <1> DEFINE rest == {u \in Units(size) : u[1] # c}
             column == Column(c, size[c])
  <1>. size[c] \in Nat
    OBVIOUS
  <1>1. IsFiniteSet(rest) /\ IsFiniteSet(column) /\ Cardinality(column) = size[c]
        /\ Cardinality(rest) \in Nat
    BY UnitsFinite, FS_Subset, FS_CardinalityType, ColumnSize
  <1>2. Units(size) = rest \cup column
    BY DEF Units, Column
  <1>3. rest \cap column = {}
    BY DEF Column
  <1> HIDE DEF rest, column
  <1>4. Cardinality(rest \cup column) = Cardinality(rest) + Cardinality(column) - 0
    BY <1>1, <1>3, FS_Union, FS_EmptySet
  <1>5. Sum(size) = Cardinality(rest) + size[c]
    BY <1>1, <1>2, <1>4 DEF Sum
  <1>6. QED BY <1>5 DEF rest

\* A sum changes by what the summand of the one call that changes does.
LEMMA SumChange ==
    ASSUME NEW K \in Nat, NEW old \in [Call -> 0 .. K], NEW new \in [Call -> 0 .. K],
           NEW c \in Call, \A d \in Call \ {c} : new[d] = old[d]
    PROVE  Sum(new) = Sum(old) - old[c] + new[c]
  <1>1. {u \in Units(new) : u[1] # c} = {u \in Units(old) : u[1] # c}
    BY DEF Units
  <1>2. Cardinality({u \in Units(old) : u[1] # c}) \in Nat
    BY UnitsFinite, FS_Subset, FS_CardinalityType
  <1>3. QED BY <1>1, <1>2, SumWithout

(***************************************************************************)
(* Types                                                                   *)
(***************************************************************************)

\* The WAV file is never longer than the raw one, and as long once converted;
\* nor is the mix.
Shape ==
    \A c \in Call :
        /\ stage[c] = "raw" => wav[c] < raw[c]
        /\ stage[c] \in {"wav", "mixing"} => wav[c] = raw[c] /\ mix[c] <= raw[c]

IInv == TypeOK /\ Shape /\ OvercommitBounded

\* A step is one call's.
OnlyOf(c) ==
    \A d \in Call \ {c} : /\ stage'[d] = stage[d] /\ raw'[d] = raw[d]
                          /\ wav'[d] = wav[d] /\ mix'[d] = mix[d]

Step(c) == Admit(c) \/ Refuse(c) \/ Write(c) \/ End(c) \/ Process(c) \/ Reclaim(c)

LEMMA StepType ==
    ASSUME TypeOK, Shape, NEW c \in Call, Step(c)
    PROVE  TypeOK' /\ Shape' /\ OnlyOf(c)
  <1> USE CapacityAssumption DEF CapacityAssumption, TypeOK, Shape, OnlyOf, Bytes
  <1>1. CASE Admit(c)
    BY <1>1 DEF Admit
  <1>2. CASE Refuse(c)
    BY <1>2 DEF Refuse
  <1>3. CASE Write(c)
    BY <1>3 DEF Write
  <1>4. CASE End(c)
    BY <1>4 DEF End
  <1>5. CASE Convert(c)
    BY <1>5 DEF Convert
  <1>6. CASE Mix(c)
    BY <1>6 DEF Mix
  <1>7. CASE NoSpace(c)
    BY <1>7 DEF NoSpace
  <1>8. CASE Reclaim(c)
    BY <1>8 DEF Reclaim
  <1>9. QED
    BY <1>1, <1>2, <1>3, <1>4, <1>5, <1>6, <1>7, <1>8 DEF Step, Process

(***************************************************************************)
(* What a call adds to the commitment                                      *)
(***************************************************************************)

UsedBy == [c \in Call |-> raw[c] + wav[c] + mix[c]]
RemainingBy == [c \in Call |-> IF stage[c] = "live" THEN Positive(PerCall - raw[c]) ELSE 0]
PendingBy == [c \in Call |-> IF stage[c] = "raw" THEN raw[c] - wav[c] ELSE 0]
OverrunBy == [c \in Call |-> mix[c] + CASE stage[c] = "none" -> 0
                                         [] stage[c] = "live" -> Positive(raw[c] - PerCall)
                                         [] OTHER -> Positive(2 * raw[c] - PerCall)]

Share(c) == UsedBy[c] + RemainingBy[c] + PendingBy[c] - OverrunBy[c]

SummandsOK ==
           /\ UsedBy \in [Call -> 0 .. 3 * Longest] /\ RemainingBy \in [Call -> 0 .. 3 * Longest]
           /\ PendingBy \in [Call -> 0 .. 3 * Longest] /\ OverrunBy \in [Call -> 0 .. 3 * Longest]
           /\ Used = Sum(UsedBy) /\ Remaining = Sum(RemainingBy)
           /\ Pending = Sum(PendingBy) /\ Overrun = Sum(OverrunBy)
           /\ {Used, Remaining, Pending, Overrun} \subseteq Nat

LEMMA Summands == TypeOK /\ Shape => SummandsOK
  <1> SUFFICES ASSUME TypeOK, Shape PROVE SummandsOK
    OBVIOUS
  <1>1. /\ UsedBy \in [Call -> 0 .. 3 * Longest] /\ RemainingBy \in [Call -> 0 .. 3 * Longest]
        /\ PendingBy \in [Call -> 0 .. 3 * Longest]
    BY CapacityAssumption DEF CapacityAssumption, TypeOK, Shape, Bytes, UsedBy, RemainingBy, PendingBy, Positive
  <1>2. OverrunBy \in [Call -> 0 .. 3 * Longest]
    BY CapacityAssumption DEF CapacityAssumption, TypeOK, Shape, Bytes, OverrunBy, Positive
  <1>3. /\ Used = Sum(UsedBy) /\ Remaining = Sum(RemainingBy)
        /\ Pending = Sum(PendingBy) /\ Overrun = Sum(OverrunBy)
    BY DEF Used, Remaining, Pending, Overrun, UsedBy, RemainingBy, PendingBy, OverrunBy
  <1>4. 3 * Longest \in Nat
    BY CapacityAssumption DEF CapacityAssumption
  <1>5. QED BY <1>1, <1>2, <1>3, <1>4, UnitsFinite DEF SummandsOK

\* The share of a call is no more than it reserved.
Deserved(c) == IF stage[c] = "none" THEN 0
               ELSE IF stage[c] = "live" \/ PerCall <= 2 * raw[c] THEN PerCall ELSE 2 * raw[c]

SharesOK == \A c \in Call : Share(c) = Deserved(c)

LEMMA ShareIs == TypeOK /\ Shape => SharesOK
  <1> SUFFICES ASSUME TypeOK, Shape, NEW c \in Call
               PROVE  Share(c) = Deserved(c)
    BY DEF SharesOK
  <1> USE CapacityAssumption DEF CapacityAssumption, TypeOK, Shape, Bytes, Share, UsedBy, RemainingBy, PendingBy, OverrunBy, Positive, Deserved
  <1>1. CASE stage[c] = "none"
    BY <1>1
  <1>2. CASE stage[c] = "live"
    BY <1>2
  <1>3. CASE stage[c] = "raw"
    <2>1. /\ UsedBy[c] = raw[c] + wav[c] /\ RemainingBy[c] = 0
          /\ PendingBy[c] = raw[c] - wav[c] /\ OverrunBy[c] = Positive(2 * raw[c] - PerCall)
      BY <1>3
    <2>2. QED BY <1>3, <2>1
  <1>4. CASE stage[c] \in {"wav", "mixing"}
    BY <1>4
  <1>5. QED BY <1>1, <1>2, <1>3, <1>4

LEMMA CommitmentChange ==
    ASSUME TypeOK, Shape, NEW c \in Call, Step(c)
    PROVE  (Committed - Overrun)' = (Committed - Overrun) - Share(c) + Share(c)'
  <1>1. TypeOK' /\ Shape' /\ OnlyOf(c)
    BY StepType
  <1>2. \A d \in Call \ {c} : /\ UsedBy'[d] = UsedBy[d] /\ RemainingBy'[d] = RemainingBy[d]
                              /\ PendingBy'[d] = PendingBy[d] /\ OverrunBy'[d] = OverrunBy[d]
    BY <1>1 DEF OnlyOf, UsedBy, RemainingBy, PendingBy, OverrunBy
  <1>3. PICK K \in Nat : K = 3 * Longest
    BY CapacityAssumption DEF CapacityAssumption
  <1>4. SummandsOK /\ SummandsOK'
    BY <1>1, Summands, PTL
  <1>5. Used' = Used - UsedBy[c] + UsedBy'[c]
    <2>1. UsedBy \in [Call -> 0 .. K] /\ UsedBy' \in [Call -> 0 .. K]
      BY <1>3, <1>4 DEF SummandsOK
    <2>2. Sum(UsedBy') = Sum(UsedBy) - UsedBy[c] + UsedBy'[c]
      BY <1>2, <2>1, SumChange
    <2>3. QED BY <1>4, <2>2 DEF SummandsOK
  <1>6. Remaining' = Remaining - RemainingBy[c] + RemainingBy'[c]
    <2>1. RemainingBy \in [Call -> 0 .. K] /\ RemainingBy' \in [Call -> 0 .. K]
      BY <1>3, <1>4 DEF SummandsOK
    <2>2. Sum(RemainingBy') = Sum(RemainingBy) - RemainingBy[c] + RemainingBy'[c]
      BY <1>2, <2>1, SumChange
    <2>3. QED BY <1>4, <2>2 DEF SummandsOK
  <1>7. Pending' = Pending - PendingBy[c] + PendingBy'[c]
    <2>1. PendingBy \in [Call -> 0 .. K] /\ PendingBy' \in [Call -> 0 .. K]
      BY <1>3, <1>4 DEF SummandsOK
    <2>2. Sum(PendingBy') = Sum(PendingBy) - PendingBy[c] + PendingBy'[c]
      BY <1>2, <2>1, SumChange
    <2>3. QED BY <1>4, <2>2 DEF SummandsOK
  <1>8. Overrun' = Overrun - OverrunBy[c] + OverrunBy'[c]
    <2>1. OverrunBy \in [Call -> 0 .. K] /\ OverrunBy' \in [Call -> 0 .. K]
      BY <1>3, <1>4 DEF SummandsOK
    <2>2. Sum(OverrunBy') = Sum(OverrunBy) - OverrunBy[c] + OverrunBy'[c]
      BY <1>2, <2>1, SumChange
    <2>3. QED BY <1>4, <2>2 DEF SummandsOK
  <1>9. /\ {UsedBy[c], RemainingBy[c], PendingBy[c], OverrunBy[c]} \subseteq Nat
        /\ {UsedBy'[c], RemainingBy'[c], PendingBy'[c], OverrunBy'[c]} \subseteq Nat
    BY <1>4 DEF SummandsOK
  <1>10. QED BY <1>5, <1>6, <1>7, <1>8, <1>4, <1>9 DEF SummandsOK, Committed, Share

LEMMA TimesIsMonotone ==
    ASSUME NEW t \in Nat, NEW a \in Nat, NEW b \in Nat, a <= b
    PROVE  t * a <= t * b
  <1>1. t * b = t * a + t * (b - a)
    OBVIOUS
  <1>2. t * (b - a) >= 0
    OBVIOUS
  <1>3. QED BY <1>1, <1>2

LEMMA BoundStep ==
    ASSUME IInv, NEW c \in Call, Step(c)
    PROVE  OvercommitBounded'
  <1> SUFFICES ASSUME MinFree > 0, (\E d \in Call : stage[d] # "none")'
               PROVE  100 * (Total - (Committed' + Headroom - Overrun')) >= Total * MinFree
    BY DEF OvercommitBounded
  <1> USE CapacityAssumption DEF CapacityAssumption
  <1>1. TypeOK /\ Shape /\ TypeOK' /\ Shape' /\ OnlyOf(c)
    BY StepType DEF IInv
  <1>2. /\ Committed' - Overrun' = (Committed - Overrun) - Share(c) + Share(c)'
        /\ {Committed, Overrun, Committed', Overrun'} \subseteq Nat
    <2>1. SummandsOK /\ SummandsOK'
      BY <1>1, Summands, PTL
    <2>2. (Committed - Overrun)' = (Committed - Overrun) - Share(c) + Share(c)'
      BY <1>1, CommitmentChange
    <2>3. QED BY <2>1, <2>2 DEF Committed, SummandsOK
  <1>3. SharesOK /\ SharesOK'
    BY <1>1, ShareIs, PTL
  <1>4. Share(c) = Deserved(c) /\ Share(c)' = Deserved(c)'
    BY <1>3 DEF SharesOK
  <1>5. CASE Admit(c)
    <2>1. Share(c) = 0 /\ Share(c)' = PerCall
      BY <1>1, <1>4, <1>5 DEF Admit, TypeOK, Deserved
    <2>2. Projected = Committed + PerCall + Headroom
      BY <1>1, Summands DEF Projected, Committed, SummandsOK
    <2>3. Threshold \in Nat /\ MinFree <= Threshold /\ Threshold > 0
      BY DEF Threshold
    <2>4. 100 * (Total - Projected) >= Total * Threshold
      <3>1. Total * Threshold \in Int /\ 100 * (Total - Projected) \in Int
        BY <1>2, <2>2, <2>3
      <3>2. QED BY <1>5, <2>3, <3>1 DEF Admit, Refused
    <2>5. Total * MinFree <= Total * Threshold
      BY <2>3, TimesIsMonotone
    <2>6. Total * MinFree \in Int /\ Total * Threshold \in Int
      BY <2>3
    <2>7. QED BY <1>2, <2>1, <2>2, <2>4, <2>5, <2>6
  <1>6. CASE ~Admit(c)
    <2>1. /\ stage'[c] # "none" => stage[c] # "none"
          /\ \/ stage'[c] = "none"
             \/ stage'[c] = "live" /\ stage[c] = "live"
             \/ stage'[c] \notin {"none", "live"} /\ stage[c] # "none" /\ raw'[c] = raw[c]
      BY <1>1, <1>6 DEF Step, Process, Refuse, Write, End, Convert, Mix, NoSpace, Reclaim, TypeOK
    <2>2. Share(c)' <= Share(c) /\ {Share(c), Share(c)'} \subseteq Nat
      BY <1>1, <1>4, <2>1 DEF TypeOK, Bytes, Deserved
    <2>3. \E d \in Call : stage[d] # "none"
      BY <1>1, <2>1 DEF OnlyOf
    <2>4. 100 * (Total - (Committed + Headroom - Overrun)) >= Total * MinFree
      BY <2>3 DEF IInv, OvercommitBounded
    <2>5. Total * MinFree \in Int
      OBVIOUS
    <2>6. QED BY <1>2, <2>2, <2>4, <2>5
  <1>7. QED BY <1>5, <1>6

\* The invariant: the types, what is never longer than what it is made of, and
\* the bound.
THEOREM Invariance == Spec => []IInv
  <1>1. Init => IInv
    <2> SUFFICES ASSUME Init PROVE IInv
      OBVIOUS
    <2>1. 0 \in Bytes
      BY CapacityAssumption DEF CapacityAssumption, Bytes
    <2>2. TypeOK /\ Shape
      BY <2>1 DEF Init, TypeOK, Shape
    <2>3. OvercommitBounded
      BY DEF Init, OvercommitBounded
    <2>4. QED BY <2>2, <2>3 DEF IInv
  <1>2. IInv /\ [Next]_vars => IInv'
    <2> SUFFICES ASSUME IInv, [Next]_vars PROVE IInv'
      OBVIOUS
    <2>1. CASE UNCHANGED vars
      BY <2>1 DEF vars, IInv, TypeOK, Shape, OvercommitBounded, Committed, Used, Remaining, Pending,
                  Overrun
    <2>2. ASSUME NEW c \in Call, Step(c) PROVE IInv'
      BY <2>2, StepType, BoundStep DEF IInv
    <2>3. QED BY <2>1, <2>2 DEF Next, Step
  <1>3. QED BY <1>1, <1>2, PTL DEF Spec

\* RecordingCapacity keeps its types.
THEOREM TypeCorrect == Spec => []TypeOK
  <1>1. IInv => TypeOK
    BY DEF IInv
  <1>2. QED BY <1>1, Invariance, PTL

\* reserve never overcommits, over any number of calls that grow, end and are
\* processed between its answers: the margin is undercut by no more than what
\* the guard does not provision.
THEOREM NeverOvercommits == Spec => []OvercommitBounded
  <1>1. IInv => OvercommitBounded
    BY DEF IInv
  <1>2. QED BY <1>1, Invariance, PTL
=============================================================================
