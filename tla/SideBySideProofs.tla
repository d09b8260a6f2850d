-------------------------- MODULE SideBySideProofs --------------------------
(***************************************************************************)
(* Proofs about the protocols of MCSideBySide, for any number of attempts, *)
(* codes, logins and processes, any limits and any times.  First each part *)
(* on its own, and at the end the composition of them.                     *)
(*                                                                         *)
(* The login throttle comes first: MCSideBySide extends it.                *)
(***************************************************************************)
EXTENDS MCSideBySide, FiniteSetTheorems, WellFoundedInduction, TLAPS


(* An attempt has a reservation from the second read to the release.       *)
Fits == \A o \in Op :
    /\ pc[o] \in {"idle", "reserve", "previous"} => ~req[o].reserved
    /\ pc[o] = "release" => req[o].reserved

(* The inductive invariant: a counter stays above zero because it is exact *)
(* and its attempts know what they hold.                                   *)
IInv == TypeOK /\ Fits /\ SlotsExact

LEMMA NoRequestType == NoRequest \in Request
  BY ThrottleAssumption, SMT DEF NoRequest, Request, Bucket

-----------------------------------------------------------------------------
(* Counting the holders.                                                   *)

(* The other attempts stand still.                                         *)
Others(o) == \A p \in Op \ {o} : pc'[p] = pc[p] /\ req'[p] = req[p]

LEMMA HoldersFinite ==
  ASSUME NEW b
  PROVE  IsFiniteSet(Holders(b)) /\ Cardinality(Holders(b)) \in Nat
  BY FS_Subset, FS_CardinalityType, ThrottleAssumption DEF Holders

(* Nobody takes a slot or gives one back.                                  *)
LEMMA HoldersStay ==
  ASSUME \A p \in Op : Holds(p)' <=> Holds(p),
         \A p \in Op : Holds(p) => req'[p].bucket = req[p].bucket
  PROVE  \A b \in Bucket : Cardinality(Holders(b))' = Cardinality(Holders(b))
  <1>1. \A b \in Bucket : Holders(b)' = Holders(b)
    BY DEF Holders
  <1> QED
    BY <1>1

(* One attempt takes a slot.                                               *)
LEMMA HoldersJoin ==
  ASSUME NEW o \in Op, Others(o), ~Holds(o), Holds(o)'
  PROVE  \A b \in Bucket : Cardinality(Holders(b))' =
            Cardinality(Holders(b)) + (IF b = req'[o].bucket THEN 1 ELSE 0)
  <1> SUFFICES ASSUME NEW b \in Bucket
               PROVE  Cardinality(Holders(b)') =
                        Cardinality(Holders(b)) + (IF b = req'[o].bucket THEN 1 ELSE 0)
    OBVIOUS
  <1>1. o \notin Holders(b)
    BY DEF Holders
  <1>2. \A p \in Op \ {o} : p \in Holders(b)' <=> p \in Holders(b)
    BY DEF Holders, Holds, Others
  <1>3. CASE b = req'[o].bucket
    <2>1. Holders(b)' = Holders(b) \union {o}
      BY <1>2, <1>3 DEF Holders
    <2> QED
      BY <2>1, <1>1, <1>3, HoldersFinite, FS_AddElement
  <1>4. CASE b # req'[o].bucket
    <2>1. Holders(b)' = Holders(b)
      BY <1>1, <1>2, <1>4 DEF Holders
    <2> QED
      BY <2>1, <1>4, HoldersFinite
  <1> QED
    BY <1>3, <1>4

(* One attempt gives a slot back, or loses it.                             *)
LEMMA HoldersLeave ==
  ASSUME NEW o \in Op, Others(o), Holds(o), ~Holds(o)'
  PROVE  \A b \in Bucket : Cardinality(Holders(b))' =
            Cardinality(Holders(b)) - (IF b = req[o].bucket THEN 1 ELSE 0)
  <1> SUFFICES ASSUME NEW b \in Bucket
               PROVE  Cardinality(Holders(b)') =
                        Cardinality(Holders(b)) - (IF b = req[o].bucket THEN 1 ELSE 0)
    OBVIOUS
  <1>1. o \notin Holders(b)'
    BY DEF Holders
  <1>2. \A p \in Op \ {o} : p \in Holders(b)' <=> p \in Holders(b)
    BY DEF Holders, Holds, Others
  <1>3. CASE b = req[o].bucket
    <2>1. Holders(b)' = Holders(b) \ {o} /\ o \in Holders(b)
      BY <1>1, <1>2, <1>3 DEF Holders
    <2> QED
      BY <2>1, <1>3, HoldersFinite, FS_RemoveElement
  <1>4. CASE b # req[o].bucket
    <2>1. Holders(b)' = Holders(b)
      BY <1>1, <1>2, <1>4 DEF Holders
    <2> QED
      BY <2>1, <1>4, HoldersFinite
  <1> QED
    BY <1>3, <1>4

(* Whoever holds a slot is counted.                                        *)
LEMMA HolderCounts ==
  ASSUME TypeOK, SlotsExact, NEW o \in Op, Holds(o)
  PROVE  slot[req[o].bucket] > 0
  <1>1. req[o].bucket \in Bucket /\ o \in Holders(req[o].bucket)
    BY DEF TypeOK, Request, Holders
  <1>2. Cardinality(Holders(req[o].bucket)) # 0
    BY <1>1, HoldersFinite, FS_EmptySet
  <1> QED
    BY <1>1, <1>2, HoldersFinite DEF SlotsExact, TypeOK

-----------------------------------------------------------------------------
(* The attempts and what is counted beside the slots.                      *)
Counted ==
    /\ bucket \in Bucket
    /\ rows \in Nat
    /\ pc \in [Op -> Label]
    /\ req \in [Op -> Request]
    /\ leaked \in [Bucket -> Nat]
    /\ blind \in Nat

(* Every step leaves the attempts well formed, and with what they hold.    *)
LEMMA CountedStep ==
  ASSUME TypeOK, Fits, [Next]_vars
  PROVE  Counted' /\ Fits'
  <1> USE DEF TypeOK, Counted, Fits, Label, Request
  <1>0. NoRequest \in Request /\ ~NoRequest.reserved
    BY NoRequestType DEF NoRequest
  <1>1. ASSUME NEW o \in Op, Begin(o) \/ Reserve(o) \/ ReserveFails(o) \/ ReadPrevious(o)
                                \/ ReadPreviousFails(o)
        PROVE  Counted' /\ Fits'
    <2>1. CASE Begin(o)
      BY <2>1 DEF Begin, Goto
    <2>2. CASE Reserve(o)
      BY <2>2 DEF Reserve, Goto
    <2>3. CASE ReserveFails(o)
      BY <2>3 DEF ReserveFails, Goto
    <2>4. CASE ReadPrevious(o)
      BY <2>4 DEF ReadPrevious, Goto, Previous, Reported
    <2>5. CASE ReadPreviousFails(o)
      BY <2>5 DEF ReadPreviousFails, Goto
    <2> QED
      BY <1>1, <2>1, <2>2, <2>3, <2>4, <2>5
  <1>2. ASSUME NEW o \in Op, Admit(o) \/ Refuse(o) \/ Succeed(o) \/ Mistake(o) \/ Record(o)
        \/ RecordFails(o)
        PROVE  Counted' /\ Fits'
    <2>1. CASE Admit(o)
      BY <2>1, <1>0 DEF Admit, Goto
    <2>2. CASE Refuse(o)
      BY <2>2, <1>0 DEF Refuse, Leave, Goto, End
    <2>3. CASE Succeed(o)
      BY <2>3, <1>0 DEF Succeed, Leave, Goto, End
    <2>4. CASE Mistake(o)
      BY <2>4, <1>0 DEF Mistake, Goto
    <2>5. CASE Record(o)
      BY <2>5, <1>0 DEF Record, Leave, Goto, End
    <2>6. CASE RecordFails(o)
      BY <2>6, <1>0 DEF RecordFails, Leave, Goto, End
    <2> QED
      BY <1>2, <2>1, <2>2, <2>3, <2>4, <2>5, <2>6
  <1>3. ASSUME NEW o \in Op, Release(o) \/ ReleaseFails(o) \/ Crash(o)
        PROVE  Counted' /\ Fits'
    <2>1. CASE Release(o)
      BY <2>1, <1>0 DEF Release, Goto, End
    <2>2. CASE ReleaseFails(o)
      BY <2>2, <1>0 DEF ReleaseFails, Goto, End
    <2>3. CASE Crash(o)
      BY <2>3, <1>0 DEF Crash, Goto, End
    <2> QED
      BY <1>3, <2>1, <2>2, <2>3
  <1>4. CASE Slide \/ Tick \/ UNCHANGED vars
    BY <1>4, ThrottleAssumption DEF Slide, Tick, vars, Bucket
  <1> QED
    BY <1>1, <1>2, <1>3, <1>4 DEF Next

(* Every step leaves the counters exact.                                   *)
LEMMA SlotsStep ==
  ASSUME IInv, Counted', Fits', [Next]_vars
  PROVE  SlotsExact' /\ slot' \in [Bucket -> Nat]
  <1>1. \A b \in Bucket : Cardinality(Holders(b))' \in Nat /\ Cardinality(Holders(b)) \in Nat
    <2>1. \A b : IsFiniteSet(Holders(b)') /\ Cardinality(Holders(b)') \in Nat
      BY FS_Subset, FS_CardinalityType, ThrottleAssumption DEF Holders
    <2> QED
      BY <2>1, HoldersFinite
  <1>2. SUFFICES SlotsExact' /\ slot' \in [Bucket -> Int]
    BY <1>1 DEF SlotsExact, Counted
  <1>3. ASSUME NEW o \in Op, Begin(o) \/ ReserveFails(o) \/ ReadPrevious(o) \/ Admit(o)
        \/ Refuse(o)
                                \/ Succeed(o) \/ Mistake(o) \/ Record(o) \/ RecordFails(o)
        PROVE  SlotsExact' /\ slot' \in [Bucket -> Int]
    <2>1. Others(o) /\ (Holds(o)' <=> Holds(o)) /\ (Holds(o) => req'[o].bucket = req[o].bucket)
      BY <1>3 DEF IInv, TypeOK, Fits, Holds, Others, Request, Begin, ReserveFails, ReadPrevious, Admit,
                  Refuse, Succeed, Mistake, Record, RecordFails, Leave, Goto, End, NoRequest
    <2>2. \A b \in Bucket : Cardinality(Holders(b))' = Cardinality(Holders(b))
      BY <2>1, HoldersStay DEF Holds, Others
    <2>3. slot' = slot /\ leaked' = leaked
      BY <1>3 DEF Begin, ReserveFails, ReadPrevious, Admit, Refuse, Succeed, Mistake, Record, RecordFails
    <2> QED
      BY <2>2, <2>3 DEF IInv, TypeOK, SlotsExact
  <1>4. ASSUME NEW o \in Op, Reserve(o)
        PROVE  SlotsExact' /\ slot' \in [Bucket -> Int]
    <2>1. Others(o) /\ ~Holds(o) /\ Holds(o)' /\ req'[o].bucket = req[o].bucket
      BY <1>4 DEF IInv, TypeOK, Fits, Holds, Others, Request, Reserve, Goto
    <2>2. \A b \in Bucket : Cardinality(Holders(b))' =
             Cardinality(Holders(b)) + (IF b = req[o].bucket THEN 1 ELSE 0)
      BY <2>1, HoldersJoin
    <2> QED
      BY <1>1, <2>2, <1>4 DEF IInv, TypeOK, SlotsExact, Reserve, Request
  <1>5. ASSUME NEW o \in Op, Holds(o), ReadPreviousFails(o) \/ Release(o) \/ ReleaseFails(o)
        \/ Crash(o)
        PROVE  SlotsExact' /\ slot' \in [Bucket -> Int]
    <2>1. Others(o) /\ ~Holds(o)'
      BY <1>5 DEF IInv, TypeOK, Fits, Holds, Others, Request, ReadPreviousFails, Release, ReleaseFails,
                  Crash, Goto, End, NoRequest
    <2>2. \A b \in Bucket : Cardinality(Holders(b))' =
             Cardinality(Holders(b)) - (IF b = req[o].bucket THEN 1 ELSE 0)
      BY <2>1, <1>5, HoldersLeave
    <2>3. CASE Release(o)
      BY <1>1, <2>2, <2>3 DEF IInv, TypeOK, SlotsExact, Release, Request
    <2>4. CASE ReadPreviousFails(o) \/ ReleaseFails(o) \/ Crash(o)
      <3>1. slot' = slot /\ leaked' = [leaked EXCEPT ![req[o].bucket] = @ + 1]
        BY <2>4, <1>5 DEF ReadPreviousFails, ReleaseFails, Crash
      <3> QED
        BY <1>1, <2>2, <3>1 DEF IInv, TypeOK, SlotsExact, Request
    <2> QED
      BY <1>5, <2>3, <2>4
  <1>6. ASSUME NEW o \in Op, ReadPreviousFails(o) \/ Release(o) \/ ReleaseFails(o)
        PROVE  Holds(o)
    BY <1>6 DEF IInv, Fits, Holds, ReadPreviousFails, Release, ReleaseFails
  <1>7. ASSUME NEW o \in Op, ~Holds(o), Crash(o)
        PROVE  SlotsExact' /\ slot' \in [Bucket -> Int]
    <2>1. Others(o) /\ ~Holds(o)' /\ slot' = slot /\ leaked' = leaked
      BY <1>7 DEF IInv, TypeOK, Fits, Holds, Others, Request, Crash, Goto, End, NoRequest
    <2>2. \A b \in Bucket : Cardinality(Holders(b))' = Cardinality(Holders(b))
      BY <1>7, <2>1, HoldersStay DEF Holds, Others
    <2> QED
      BY <2>1, <2>2 DEF IInv, TypeOK, SlotsExact
  <1>8. CASE Slide \/ Tick \/ UNCHANGED vars
    <2>1. pc' = pc /\ req' = req /\ slot' = slot /\ leaked' = leaked
      BY <1>8 DEF Slide, Tick, vars
    <2>2. \A b \in Bucket : Cardinality(Holders(b))' = Cardinality(Holders(b))
      BY <2>1, HoldersStay DEF Holds
    <2> QED
      BY <2>1, <2>2 DEF IInv, TypeOK, SlotsExact
  <1> QED
    BY <1>3, <1>4, <1>5, <1>6, <1>7, <1>8 DEF Next

LEMMA InitHolds == Init => IInv
  <1> SUFFICES ASSUME Init PROVE IInv
    OBVIOUS
  <1>1. TypeOK
    BY NoRequestType, ThrottleAssumption DEF Init, TypeOK, Bucket, Label
  <1>2. Fits
    BY DEF Init, Fits, NoRequest
  <1>3. \A b : Holders(b) = {}
    BY DEF Init, Holders, Holds, NoRequest
  <1> QED
    BY <1>1, <1>2, <1>3, FS_EmptySet DEF IInv, SlotsExact, Init

(* The inductive invariant holds in every reachable state.                 *)
THEOREM Inductive == Spec => []IInv
  <1>1. IInv /\ [Next]_vars => IInv'
    BY CountedStep, SlotsStep DEF IInv, TypeOK, Counted
  <1> QED
    BY InitHolds, <1>1, PTL DEF Spec

(* The counters and the attempts are well formed, for any number of        *)
(* attempts, any threshold and any faults: no counter goes below zero.     *)
THEOREM TypeCorrect == Spec => []TypeOK
  <1>1. IInv => TypeOK
    BY DEF IInv
  <1> QED
    BY Inductive, <1>1, PTL

(* Every counter is exact: one for each attempt that took a slot and has   *)
(* not ended, one for each slot a fault lost.                              *)
THEOREM CountersExact == Spec => []SlotsExact
  <1>1. IInv => SlotsExact
    BY DEF IInv
  <1> QED
    BY Inductive, <1>1, PTL

-----------------------------------------------------------------------------
(* The threshold.  The cache orders the attempts by their increments, and  *)
(* an attempt sees every earlier one that still holds its slot.  One that  *)
(* is admitted before an earlier one has counted that one as well: the     *)
(* earlier one is due, its place is taken already.  The order is not in    *)
(* the state, and the invariant says that there is one.                    *)

Holding == {o \in Op : Holds(o)}
Pending == {o \in Op : Holds(o) /\ pc[o] \in {"previous", "count"}}
Counting == {o \in Running : req[o].reserved}
Unseen == {o \in Running : ~req[o].reserved}

(* Bucket and phase of an attempt fit the clock.                           *)
Near == \A o \in Op : pc[o] # "idle" =>
    /\ req[o].bucket \in {bucket, bucket - 1}
    /\ pc[o] = "reserve" => req[o].bucket = bucket

Ordered(ahead) ==
    /\ \A o, p \in Holding : o # p => (o \in ahead[p] <=> p \notin ahead[o])
    /\ \A o, p, q \in Holding : o \in ahead[p] /\ p \in ahead[q] => o \in ahead[q]
    /\ \A o \in Op : o \notin ahead[o]

Before(ahead, o) == ahead[o] \intersect Holding
BeforeNow(ahead, o) == {p \in Before(ahead, o) : req[p].bucket = req[o].bucket}

(* What an attempt has seen so far.                                        *)
Informed(ahead) == \A o \in Pending :
    /\ \A p \in Before(ahead, o) : req[p].bucket \in {req[o].bucket, req[o].bucket - 1}
    /\ pc[o] = "count" => Cardinality(Before(ahead, o)) <= req[o].inflight
    /\ pc[o] = "previous" => Cardinality(BeforeNow(ahead, o)) <= req[o].inflight

(* Who is not due comes after everybody who is, or was admitted.           *)
Due(ahead, due) ==
    /\ due \subseteq Pending
    /\ \A o \in Pending \ due : due \union Counting \subseteq ahead[o]

Room(due) ==
    /\ Cardinality(Unseen) <= blind
    /\ rows + Cardinality(Running) + Cardinality(due) <= Threshold + blind

Queue(ahead, due) == Ordered(ahead) /\ Informed(ahead) /\ Due(ahead, due) /\ Room(due)

QInv == \E ahead \in [Op -> SUBSET Op], due \in SUBSET Op : Queue(ahead, due)

(* Sets of attempts and their sizes.                                       *)
LEMMA Sizes ==
  ASSUME NEW T, T \subseteq Op, NEW S, S \subseteq T
  PROVE  /\ Cardinality(S) \in Nat /\ Cardinality(T) \in Nat
         /\ Cardinality(S) <= Cardinality(T)
  BY FS_Subset, FS_CardinalityType, ThrottleAssumption

LEMMA SizesAdd ==
  ASSUME NEW S, S \subseteq Op, NEW o, o \notin S
  PROVE  Cardinality(S \union {o}) = Cardinality(S) + 1
  BY FS_Subset, FS_AddElement, ThrottleAssumption

LEMMA SizesDrop ==
  ASSUME NEW S, S \subseteq Op, NEW o \in S
  PROVE  Cardinality(S \ {o}) = Cardinality(S) - 1
  BY FS_Subset, FS_RemoveElement, ThrottleAssumption

LEMMA SizesSum ==
  ASSUME NEW S, S \subseteq Op, NEW T, T \subseteq Op
  PROVE  /\ Cardinality(S \union T) <= Cardinality(S) + Cardinality(T)
         /\ S \intersect T = {} => Cardinality(S \union T) = Cardinality(S) + Cardinality(T)
  <1>1. IsFiniteSet(S) /\ IsFiniteSet(T)
    BY FS_Subset, ThrottleAssumption
  <1>2. Cardinality(S \union T) = Cardinality(S) + Cardinality(T) - Cardinality(S \intersect T)
    BY <1>1, FS_Union
  <1>3. IsFiniteSet(S \intersect T)
    BY <1>1, FS_Intersection
  <1>4. /\ Cardinality(S) \in Nat /\ Cardinality(T) \in Nat
        /\ Cardinality(S \intersect T) \in Nat
    BY <1>1, <1>3, FS_CardinalityType
  <1>5. S \intersect T = {} => Cardinality(S \intersect T) = 0
    BY FS_EmptySet
  <1> QED
    BY <1>2, <1>4, <1>5

(* Every attempt is of this bucket or of the one before.                   *)
LEMMA NearStep ==
  ASSUME Gap = FALSE, TypeOK, Near, [Next]_vars
  PROVE  Near'
  <1> USE DEF TypeOK, Near, Request, Bucket
  <1>1. ASSUME NEW o \in Op, Begin(o) \/ Reserve(o) \/ ReserveFails(o) \/ ReadPrevious(o)
                                \/ ReadPreviousFails(o)
        PROVE  Near'
    <2>1. CASE Begin(o)
      BY <2>1 DEF Begin, Goto
    <2>2. CASE Reserve(o)
      BY <2>2 DEF Reserve, Goto
    <2>3. CASE ReserveFails(o)
      BY <2>3 DEF ReserveFails, Goto
    <2>4. CASE ReadPrevious(o)
      BY <2>4 DEF ReadPrevious, Goto
    <2>5. CASE ReadPreviousFails(o)
      BY <2>5 DEF ReadPreviousFails, Goto
    <2> QED
      BY <1>1, <2>1, <2>2, <2>3, <2>4, <2>5
  <1>2. ASSUME NEW o \in Op, Admit(o) \/ Refuse(o) \/ Succeed(o) \/ Mistake(o) \/ Record(o)
                                \/ RecordFails(o)
        PROVE  Near'
    BY <1>2 DEF Admit, Refuse, Succeed, Mistake, Record, RecordFails, Leave, Goto, End
  <1>3. ASSUME NEW o \in Op, Release(o) \/ ReleaseFails(o) \/ Crash(o)
        PROVE  Near'
    BY <1>3 DEF Release, ReleaseFails, Crash, Goto, End
  <1>4. CASE Slide \/ UNCHANGED vars
    BY <1>4 DEF Slide, vars
  <1>5. CASE Tick
    BY <1>5 DEF Tick
  <1> QED
    BY <1>1, <1>2, <1>3, <1>4, <1>5 DEF Next

(* Attempts that leave the queue, or what is admitted, leave it in order.  *)
LEMMA QueueLess ==
  ASSUME QInv, Counted, Counted',
         Holding' \subseteq Holding, Pending' \subseteq Pending,
         Counting' \subseteq Counting, Unseen' \subseteq Unseen, blind' = blind,
         \A o \in Holding' : req'[o].bucket = req[o].bucket,
         \A o \in Pending' : pc'[o] = pc[o] /\ req'[o].inflight = req[o].inflight,
         rows' + Cardinality(Running)' <= rows + Cardinality(Running)
  PROVE  QInv'
  <1>1. PICK ahead \in [Op -> SUBSET Op], due \in SUBSET Op : Queue(ahead, due)
    BY DEF QInv
  <1>2. PICK left \in SUBSET Op : left = due \intersect Pending'
    OBVIOUS
  <1>3. Ordered(ahead)'
    BY <1>1 DEF Queue, Ordered
  <1>4. Informed(ahead)'
    <2> SUFFICES ASSUME NEW o \in Pending'
                 PROVE  /\ \A p \in Before(ahead, o)' : req'[p].bucket \in {req'[o].bucket, req'[o].bucket - 1}
                        /\ pc'[o] = "count" => Cardinality(Before(ahead, o)') <= req'[o].inflight
                        /\ pc'[o] = "previous"
                           => Cardinality(BeforeNow(ahead, o)') <= req'[o].inflight
      BY DEF Informed
    <2>1. o \in Pending /\ o \in Op /\ o \in Holding'
      BY DEF Pending, Holding
    <2>2. Before(ahead, o)' \subseteq Before(ahead, o) /\ Before(ahead, o) \subseteq Op
          /\ Before(ahead, o)' \subseteq Holding'
      BY DEF Before, Holding
    <2>3. BeforeNow(ahead, o)' \subseteq BeforeNow(ahead, o) /\ BeforeNow(ahead, o) \subseteq Op
      BY <2>1, <2>2 DEF BeforeNow
    <2>4. /\ Cardinality(Before(ahead, o)') <= Cardinality(Before(ahead, o))
          /\ Cardinality(Before(ahead, o)') \in Nat /\ Cardinality(Before(ahead, o)) \in Nat
      BY <2>2, Sizes
    <2>5. /\ Cardinality(BeforeNow(ahead, o)') <= Cardinality(BeforeNow(ahead, o))
          /\ Cardinality(BeforeNow(ahead, o)') \in Nat /\ Cardinality(BeforeNow(ahead, o)) \in Nat
      BY <2>3, Sizes
    <2>6. req[o].inflight \in Nat /\ pc'[o] = pc[o] /\ req'[o].inflight = req[o].inflight
          /\ req'[o].bucket = req[o].bucket
      BY <2>1 DEF Counted, Request
    <2>7. \A p \in Before(ahead, o)' : req'[p].bucket = req[p].bucket /\ p \in Before(ahead, o)
      BY <2>2
    <2>8. /\ \A p \in Before(ahead, o) : req[p].bucket \in {req[o].bucket, req[o].bucket - 1}
          /\ pc[o] = "count" => Cardinality(Before(ahead, o)) <= req[o].inflight
          /\ pc[o] = "previous" => Cardinality(BeforeNow(ahead, o)) <= req[o].inflight
      BY <1>1, <2>1 DEF Queue, Informed
    <2> QED
      BY <2>4, <2>5, <2>6, <2>7, <2>8
  <1>5. Due(ahead, left)'
    BY <1>1, <1>2 DEF Queue, Due
  <1>6. Room(left)'
    <2>1. /\ Cardinality(left) <= Cardinality(due) /\ Cardinality(left) \in Nat
          /\ Cardinality(due) \in Nat
      BY <1>2, Sizes
    <2>2. /\ Cardinality(Unseen') <= Cardinality(Unseen) /\ Cardinality(Unseen') \in Nat
          /\ Cardinality(Unseen) \in Nat
      BY Sizes DEF Unseen, Running
    <2>3. Cardinality(Running) \in Nat /\ Cardinality(Running') \in Nat
      BY Sizes DEF Running
    <2> QED
      BY <1>1, <2>1, <2>2, <2>3, ThrottleAssumption DEF Queue, Room, Counted
  <1> QED
    BY <1>3, <1>4, <1>5, <1>6 DEF QInv, Queue

(* A reservation puts an attempt behind everybody who holds a slot.        *)
LEMMA QueueReserve ==
  ASSUME IInv, Near, QInv, NEW o \in Op, Reserve(o)
  PROVE  QInv'
  <1>1. PICK ahead \in [Op -> SUBSET Op], due \in SUBSET Op : Queue(ahead, due)
    BY DEF QInv
  <1>2. PICK next \in [Op -> SUBSET Op] :
           next = [p \in Op |-> IF p = o THEN Holding ELSE ahead[p] \ {o}]
    BY DEF Holding
  <1>3. /\ o \notin Holding /\ Holding' = Holding \union {o} /\ Pending' = Pending \union {o}
        /\ Running' = Running /\ Counting' = Counting /\ Unseen' = Unseen
        /\ o \notin Running
    BY DEF Reserve, Goto, IInv, TypeOK, Request, Fits, Holding, Pending, Counting, Unseen, Running, Holds
  <1>4. /\ \A p \in Op : req'[p].bucket = req[p].bucket
        /\ \A p \in Op \ {o} : pc'[p] = pc[p] /\ req'[p] = req[p]
        /\ pc'[o] = "previous" /\ req'[o].inflight = slot[req[o].bucket]
        /\ rows' = rows /\ blind' = blind
    BY DEF Reserve, Goto, IInv, TypeOK, Request
  <1>5. Ordered(next)'
    BY <1>1, <1>2, <1>3 DEF Queue, Ordered, Holding
  <1>6. Informed(next)'
    <2> SUFFICES ASSUME NEW p \in Pending'
                 PROVE  /\ \A q \in Before(next, p)' : req'[q].bucket \in {req'[p].bucket, req'[p].bucket - 1}
                        /\ pc'[p] = "count" => Cardinality(Before(next, p)') <= req'[p].inflight
                        /\ pc'[p] = "previous"
                           => Cardinality(BeforeNow(next, p)') <= req'[p].inflight
      BY DEF Informed
    <2>1. CASE p # o
      <3>1. p \in Pending /\ p \in Op /\ Before(next, p)' = Before(ahead, p)
            /\ Before(ahead, p) \subseteq Op
        BY <1>2, <1>3, <2>1 DEF Before, Pending, Holding
      <3>2. BeforeNow(next, p)' = BeforeNow(ahead, p)
        BY <3>1, <1>4 DEF BeforeNow
      <3>3. req'[p] = req[p] /\ pc'[p] = pc[p]
        BY <3>1, <2>1, <1>4
      <3>4. /\ \A q \in Before(ahead, p) : req[q].bucket \in {req[p].bucket, req[p].bucket - 1}
            /\ pc[p] = "count" => Cardinality(Before(ahead, p)) <= req[p].inflight
            /\ pc[p] = "previous" => Cardinality(BeforeNow(ahead, p)) <= req[p].inflight
        BY <1>1, <3>1 DEF Queue, Informed
      <3>5. \A q \in Before(ahead, p) : req'[q].bucket = req[q].bucket
        BY <3>1, <1>4
      <3> QED
        BY <3>1, <3>2, <3>3, <3>4, <3>5
    <2>2. CASE p = o
      <3>1. Before(next, o)' = Holding
        BY <1>2, <1>3 DEF Before
      <3>2. \A q \in Holding : q \in Op /\ q # o /\ pc[q] # "idle"
            /\ req'[q].bucket = req[q].bucket
        BY <1>3, <1>4 DEF Holding, Holds, IInv, Fits
      <3>3. pc[o] = "reserve"
        BY DEF Reserve
      <3>4. /\ \A q \in Holding : req'[q].bucket \in {bucket, bucket - 1}
            /\ req'[o].bucket = bucket
        BY <3>2, <3>3, <1>4 DEF Near
      <3>5. BeforeNow(next, o)' = Holders(req[o].bucket)
        BY <3>1, <3>2, <1>3, <1>4 DEF BeforeNow, Holders, Holding
      <3>6. Cardinality(Holders(req[o].bucket)) <= slot[req[o].bucket]
        <4>1. req[o].bucket \in Bucket
          BY DEF IInv, TypeOK, Request
        <4> QED
          BY <4>1, HoldersFinite DEF IInv, TypeOK, SlotsExact
      <3> QED
        BY <2>2, <3>1, <3>4, <3>5, <3>6, <1>4
    <2> QED
      BY <2>1, <2>2
  <1>7. Due(next, due)'
    <2>1. due \subseteq Pending /\ o \notin due /\ due \subseteq Holding
          /\ Counting \subseteq Holding
      BY <1>1, <1>3 DEF Queue, Due, Pending, Holding, Counting, Running, Holds
    <2> QED
      BY <1>1, <1>2, <1>3, <2>1 DEF Queue, Due, Pending
  <1>8. Room(due)'
    BY <1>1, <1>3, <1>4 DEF Queue, Room
  <1> QED
    BY <1>5, <1>6, <1>7, <1>8 DEF QInv, Queue

(* The second read completes what an attempt sees.                         *)
LEMMA QueueReadPrevious ==
  ASSUME IInv, QInv, NEW o \in Op, ReadPrevious(o)
  PROVE  QInv'
  <1>1. PICK ahead \in [Op -> SUBSET Op], due \in SUBSET Op : Queue(ahead, due)
    BY DEF QInv
  <1>2. /\ Holding' = Holding /\ Pending' = Pending /\ o \in Pending
        /\ Running' = Running /\ Counting' = Counting /\ Unseen' = Unseen
    BY DEF ReadPrevious, Goto, IInv, TypeOK, Request, Holding, Pending, Counting, Unseen, Running, Holds
  <1>3. /\ \A p \in Op : req'[p].bucket = req[p].bucket
        /\ \A p \in Op \ {o} : pc'[p] = pc[p] /\ req'[p] = req[p]
        /\ pc[o] = "previous" /\ pc'[o] = "count"
        /\ req'[o].inflight = Reported(req[o].inflight + Previous(req[o].bucket))
        /\ rows' = rows /\ blind' = blind
    BY DEF ReadPrevious, Goto, IInv, TypeOK, Request
  <1>4. \A p \in Op : Before(ahead, p)' = Before(ahead, p)
        /\ BeforeNow(ahead, p)' = BeforeNow(ahead, p)
    BY <1>2, <1>3 DEF Before, BeforeNow, Holding
  <1>5. Informed(ahead)
    BY <1>1 DEF Queue
  <1>6. Cardinality(Before(ahead, o)) <= req'[o].inflight
    <2> DEFINE b == req[o].bucket
               Earlier == {p \in Before(ahead, o) : req[p].bucket = b - 1}
    <2>1. Before(ahead, o) = BeforeNow(ahead, o) \union Earlier /\ Before(ahead, o) \subseteq Op
      BY <1>2, <1>5 DEF Informed, BeforeNow, Before, Holding
    <2>2. Cardinality(Before(ahead, o)) <= Cardinality(BeforeNow(ahead, o)) + Cardinality(Earlier)
      BY <2>1, SizesSum
    <2>3. b \in Bucket /\ b \in Nat /\ req[o].inflight \in Nat
      BY DEF IInv, TypeOK, Request, Bucket
    <2>4. Cardinality(Earlier) <= Previous(b) /\ Previous(b) \in Nat
          /\ Cardinality(Earlier) \in Nat
      <3>1. CASE b = 0
        <4>1. Earlier = {}
          BY <3>1, <2>1 DEF IInv, TypeOK, Request, Bucket
        <4>2. Cardinality(Earlier) = 0 /\ Previous(b) = 0
          BY <4>1, <3>1, FS_EmptySet DEF Previous
        <4> QED
          BY <4>2
      <3>2. CASE b # 0
        <4>1. b - 1 \in Bucket
          BY <3>2, <2>3, ThrottleAssumption DEF Bucket
        <4>2. Earlier \subseteq Holders(b - 1) /\ Holders(b - 1) \subseteq Op
          BY DEF Before, Holding, Holders
        <4>3. /\ Cardinality(Earlier) <= Cardinality(Holders(b - 1))
              /\ Cardinality(Earlier) \in Nat /\ Cardinality(Holders(b - 1)) \in Nat
          BY <4>2, Sizes
        <4>4. slot[b - 1] = leaked[b - 1] + Cardinality(Holders(b - 1)) /\ slot[b - 1] \in Nat
              /\ leaked[b - 1] \in Nat
          BY <4>1 DEF IInv, TypeOK, SlotsExact
        <4> HIDE DEF b, Earlier
        <4> QED
          BY <4>3, <4>4, <3>2 DEF Previous
      <3> QED
        BY <3>1, <3>2
    <2>5. Cardinality(BeforeNow(ahead, o)) <= req[o].inflight
      BY <1>2, <1>3, <1>5 DEF Informed
    <2>6. Cardinality(BeforeNow(ahead, o)) \in Nat /\ Cardinality(Before(ahead, o)) \in Nat
      BY <2>1, Sizes
    <2>7. req'[o].inflight = req[o].inflight + Previous(b)
      BY <1>3, <2>3, <2>4 DEF Reported
    <2> HIDE DEF b, Earlier
    <2> QED
      BY <2>2, <2>3, <2>4, <2>5, <2>6, <2>7
  <1>7. Informed(ahead)'
    <2> SUFFICES ASSUME NEW p \in Pending
                 PROVE  /\ \A q \in Before(ahead, p) : req'[q].bucket \in {req'[p].bucket, req'[p].bucket - 1}
                        /\ pc'[p] = "count" => Cardinality(Before(ahead, p)) <= req'[p].inflight
                        /\ pc'[p] = "previous"
                           => Cardinality(BeforeNow(ahead, p)) <= req'[p].inflight
      BY <1>2, <1>4 DEF Informed, Pending
    <2>1. p \in Op /\ \A q \in Before(ahead, p) : req'[q].bucket = req[q].bucket
      BY <1>3 DEF Pending, Before, Holding
    <2> QED
      BY <2>1, <1>3, <1>5, <1>6 DEF Informed
  <1>8. Ordered(ahead)' /\ Due(ahead, due)' /\ Room(due)'
    BY <1>1, <1>2, <1>3 DEF Queue, Ordered, Due, Room
  <1> QED
    BY <1>7, <1>8 DEF QInv, Queue

(* An attempt that is admitted joins the running ones.  If it was due, its *)
(* place was kept; if not, everybody it counted becomes due, and they all  *)
(* fit below the threshold with it.                                        *)
LEMMA QueueAdmit ==
  ASSUME IInv, QInv, NEW o \in Op, Admit(o)
  PROVE  QInv'
  <1>1. PICK ahead \in [Op -> SUBSET Op], due \in SUBSET Op : Queue(ahead, due)
    BY DEF QInv
  <1>2. /\ Holding' = Holding /\ Pending' = Pending \ {o}
        /\ Running' = Running \union {o} /\ o \notin Running
    BY DEF Admit, Goto, IInv, TypeOK, Holding, Pending, Running, Holds
  <1>3. /\ req' = req /\ rows' = rows /\ pc[o] = "count"
        /\ \A p \in Op \ {o} : pc'[p] = pc[p]
        /\ rows + req[o].inflight < Threshold
        /\ rows \in Nat /\ blind \in Nat /\ req[o].inflight \in Nat /\ Threshold \in Nat
    BY ThrottleAssumption DEF Admit, Goto, Full, IInv, TypeOK, Request
  <1>4. Ordered(ahead)'
    BY <1>1, <1>2 DEF Queue, Ordered
  <1>5. Informed(ahead)'
    <2> SUFFICES ASSUME NEW p \in Pending \ {o}
                 PROVE  /\ \A q \in Before(ahead, p) : req[q].bucket \in {req[p].bucket, req[p].bucket - 1}
                        /\ pc[p] = "count" => Cardinality(Before(ahead, p)) <= req[p].inflight
                        /\ pc[p] = "previous"
                           => Cardinality(BeforeNow(ahead, p)) <= req[p].inflight
      BY <1>2, <1>3 DEF Informed, Before, BeforeNow, Pending
    <2> QED
      BY <1>1 DEF Queue, Informed
  <1>6. /\ Cardinality(Running') = Cardinality(Running) + 1 /\ Cardinality(Running) \in Nat
        /\ Cardinality(Unseen) \in Nat /\ Cardinality(due) \in Nat
           /\ Cardinality(Counting) \in Nat
    <2>1. Running \subseteq Op /\ Unseen \subseteq Op /\ due \subseteq Op /\ Counting \subseteq Op
      BY DEF Running, Unseen, Counting
    <2> QED
      BY <1>2, <2>1, Sizes, SizesAdd
  <1>7. Room(due) /\ Due(ahead, due) /\ Ordered(ahead)
    BY <1>1 DEF Queue
  <1>8. CASE ~req[o].reserved
    <2>1. /\ Unseen' = Unseen \union {o} /\ Counting' = Counting /\ Pending' = Pending
             /\ blind' = blind + 1
          /\ o \notin Unseen /\ Unseen \subseteq Op
      BY <1>2, <1>3, <1>8 DEF Admit, Unseen, Counting, Pending, Running, Holds
    <2>2. Cardinality(Unseen') = Cardinality(Unseen) + 1
      BY <2>1, SizesAdd
    <2>3. Due(ahead, due)'
      BY <1>7, <2>1 DEF Due
    <2>4. Room(due)'
      BY <1>3, <1>6, <1>7, <2>1, <2>2 DEF Room
    <2> QED
      BY <1>4, <1>5, <2>3, <2>4 DEF QInv, Queue
  <1>9. CASE req[o].reserved
    <2>1. /\ Unseen' = Unseen /\ Counting' = Counting \union {o} /\ blind' = blind
             /\ o \in Pending
      BY <1>2, <1>3, <1>9 DEF Admit, Unseen, Counting, Pending, Running, Holds
    <2>2. CASE o \in due
      <3>1. PICK left \in SUBSET Op : left = due \ {o}
        OBVIOUS
      <3>2. Cardinality(left) = Cardinality(due) - 1
        BY <2>2, <3>1, SizesDrop
      <3>3. Due(ahead, left)'
        BY <1>2, <1>7, <2>1, <2>2, <3>1 DEF Due
      <3>4. Room(left)'
        BY <1>3, <1>6, <1>7, <2>1, <3>2 DEF Room
      <3> QED
        BY <1>4, <1>5, <3>3, <3>4 DEF QInv, Queue
    <2>3. CASE o \notin due
      <3>1. PICK left \in SUBSET Op : left = ahead[o] \intersect (Pending \ {o})
        BY DEF Pending
      <3>2. Pending \subseteq Holding /\ Counting \subseteq Holding /\ o \in Holding
            /\ Holding \subseteq Op
        BY <2>1 DEF Pending, Holding, Counting, Running, Holds
      <3>3. due \union Counting \subseteq ahead[o]
        BY <1>7, <2>1, <2>3 DEF Due
      <3>4. Due(ahead, left)'
        <4> SUFFICES ASSUME NEW q \in (Pending \ {o}) \ left
                     PROVE  left \union Counting \union {o} \subseteq ahead[q]
          BY <1>2, <2>1, <3>1 DEF Due
        <4>1. o \in ahead[q] /\ q \in Holding
          BY <1>7, <3>1, <3>2 DEF Ordered
        <4> QED
          BY <1>7, <4>1, <3>1, <3>2, <3>3 DEF Ordered
      <3>5. Cardinality(Counting) + Cardinality(left) <= req[o].inflight
            /\ Cardinality(left) \in Nat
        <4>1. Counting \intersect left = {} /\ Counting \union left \subseteq Before(ahead, o)
              /\ Counting \subseteq Op /\ Before(ahead, o) \subseteq Op
          BY <3>1, <3>2, <3>3 DEF Before, Counting, Pending, Running
        <4>2. Cardinality(Counting \union left) = Cardinality(Counting) + Cardinality(left)
          BY <4>1, SizesSum
        <4>3. /\ Cardinality(Counting \union left) <= Cardinality(Before(ahead, o))
              /\ Cardinality(Before(ahead, o)) \in Nat /\ Cardinality(left) \in Nat
              /\ Cardinality(Counting \union left) \in Nat
          BY <4>1, Sizes
        <4>4. Cardinality(Before(ahead, o)) <= req[o].inflight
          BY <1>1, <1>3, <2>1 DEF Queue, Informed
        <4> QED
          BY <1>3, <1>6, <4>2, <4>3, <4>4
      <3>6. Cardinality(Running) = Cardinality(Counting) + Cardinality(Unseen)
        <4>1. Running = Counting \union Unseen /\ Counting \intersect Unseen = {}
              /\ Counting \subseteq Op /\ Unseen \subseteq Op
          BY DEF Running, Counting, Unseen
        <4> QED
          BY <4>1, SizesSum
      <3>7. Room(left)'
        BY <1>3, <1>6, <1>7, <2>1, <3>5, <3>6 DEF Room
      <3> QED
        BY <1>4, <1>5, <3>4, <3>7 DEF QInv, Queue
    <2> QED
      BY <2>2, <2>3
  <1> QED
    BY <1>8, <1>9

(* The queue survives every step.                                          *)
LEMMA QueueStep ==
  ASSUME IInv, IInv', Near, QInv, [Next]_vars
  PROVE  QInv'
  <1>0. Counted /\ Counted' /\ Fits /\ NoRequest.reserved = FALSE
    BY DEF IInv, TypeOK, Counted, NoRequest
  <1>1. ASSUME NEW o \in Op, Begin(o) \/ ReserveFails(o) \/ ReadPreviousFails(o) \/ Refuse(o)
                                \/ Mistake(o) \/ Release(o) \/ ReleaseFails(o)
        PROVE  QInv'
    <2>1. /\ Holding' \subseteq Holding /\ Pending' \subseteq Pending /\ Running' = Running
          /\ Counting' = Counting /\ Unseen' = Unseen /\ blind' = blind /\ rows' = rows
          /\ \A p \in Holding' : req'[p].bucket = req[p].bucket
          /\ \A p \in Pending' : pc'[p] = pc[p] /\ req'[p].inflight = req[p].inflight
      <3> USE <1>0 DEF Counted, Fits, Holding, Pending, Counting, Unseen, Running, Holds, Request, Goto
      <3>1. CASE Begin(o)
        BY <3>1 DEF Begin
      <3>2. CASE ReserveFails(o)
        BY <3>2 DEF ReserveFails
      <3>3. CASE ReadPreviousFails(o)
        BY <3>3 DEF ReadPreviousFails
      <3>4. CASE Refuse(o)
        BY <3>4 DEF Refuse, Leave, End
      <3>5. CASE Mistake(o)
        BY <3>5 DEF Mistake
      <3>6. CASE Release(o)
        BY <3>6 DEF Release, End
      <3>7. CASE ReleaseFails(o)
        BY <3>7 DEF ReleaseFails, End
      <3> QED
        BY <1>1, <3>1, <3>2, <3>3, <3>4, <3>5, <3>6, <3>7
    <2>2. rows' + Cardinality(Running)' <= rows + Cardinality(Running)
      BY <1>0, <2>1, Sizes DEF Counted, Running
    <2> QED
      BY <1>0, <2>1, <2>2, QueueLess
  <1>2. ASSUME NEW o \in Op, Succeed(o) \/ Record(o) \/ RecordFails(o) \/ Crash(o)
        PROVE  QInv'
    <2>1. /\ Holding' \subseteq Holding /\ Pending' \subseteq Pending /\ Running' = Running \ {o}
          /\ Counting' \subseteq Counting /\ Unseen' \subseteq Unseen /\ blind' = blind
          /\ \A p \in Holding' : req'[p].bucket = req[p].bucket
          /\ \A p \in Pending' : pc'[p] = pc[p] /\ req'[p].inflight = req[p].inflight
          /\ rows' = rows \/ (rows' = rows + 1 /\ o \in Running)
      <3> USE <1>0 DEF Counted, Fits, Holding, Pending, Counting, Unseen, Running, Holds, Request, Goto, End
      <3>1. CASE Succeed(o)
        BY <3>1 DEF Succeed, Leave
      <3>2. CASE Record(o)
        BY <3>2 DEF Record, Leave
      <3>3. CASE RecordFails(o)
        BY <3>3 DEF RecordFails, Leave
      <3>4. CASE Crash(o)
        BY <3>4 DEF Crash
      <3> QED
        BY <1>2, <3>1, <3>2, <3>3, <3>4
    <2>2. Running \subseteq Op /\ Running' \subseteq Running
      BY <2>1 DEF Running
    <2>3. /\ Cardinality(Running') <= Cardinality(Running)
          /\ Cardinality(Running') \in Nat /\ Cardinality(Running) \in Nat
      BY <2>2, Sizes
    <2>4. o \in Running => Cardinality(Running') = Cardinality(Running) - 1
      BY <2>1, <2>2, SizesDrop
    <2>5. rows' + Cardinality(Running)' <= rows + Cardinality(Running)
      BY <1>0, <2>1, <2>3, <2>4 DEF Counted
    <2> QED
      BY <1>0, <2>1, <2>5, QueueLess
  <1>3. ASSUME NEW o \in Op, Reserve(o) \/ ReadPrevious(o) \/ Admit(o)
        PROVE  QInv'
    BY <1>3, QueueReserve, QueueReadPrevious, QueueAdmit
  <1>4. CASE Slide \/ Tick \/ UNCHANGED vars
    <2>1. pc' = pc /\ req' = req /\ blind' = blind /\ (rows' = rows \/ rows' = rows - 1)
      BY <1>4 DEF Slide, Tick, vars
    <2>2. /\ Holding' = Holding /\ Pending' = Pending /\ Running' = Running
          /\ Counting' = Counting /\ Unseen' = Unseen
      BY <2>1 DEF Holding, Pending, Counting, Unseen, Running, Holds
    <2>3. rows' + Cardinality(Running)' <= rows + Cardinality(Running)
      BY <1>0, <2>1, <2>2, Sizes DEF Counted, Running
    <2> QED
      BY <1>0, <2>1, <2>2, <2>3, QueueLess
  <1> QED
    BY <1>1, <1>2, <1>3, <1>4 DEF Next

(* Nobody holds a slot at first, and the queue is empty.                   *)
LEMMA QueueInit == Init => Near /\ QInv
  <1> SUFFICES ASSUME Init PROVE Near /\ QInv
    OBVIOUS
  <1>1. Near
    BY DEF Init, Near
  <1>2. PICK ahead \in [Op -> SUBSET Op] : ahead = [o \in Op |-> {}]
    OBVIOUS
  <1>3. /\ Holding = {} /\ Pending = {} /\ Running = {} /\ Unseen = {}
    BY DEF Init, Holding, Pending, Running, Unseen, Holds, NoRequest
  <1>4. Ordered(ahead) /\ Informed(ahead) /\ Due(ahead, {})
    BY <1>2, <1>3 DEF Ordered, Informed, Due
  <1>5. Room({})
    BY <1>3, FS_EmptySet, ThrottleAssumption DEF Room, Init
  <1> QED
    BY <1>1, <1>4, <1>5 DEF QInv, Queue

(* The failures of a window and the passwords being checked stay within    *)
(* the threshold together, for any number of concurrent attempts, any      *)
(* faults of the cache, the store and the process, and one more for every  *)
(* attempt that was admitted without a reservation: as long as no bucket   *)
(* ends between the reading of the clock and the increment.                *)
THEOREM ThresholdKept ==
  ASSUME Gap = FALSE
  PROVE  Spec => []WithinThreshold
  <1>1. Init => IInv /\ Near /\ QInv
    BY InitHolds, QueueInit
  <1>2. ASSUME IInv, Near, QInv, [Next]_vars
        PROVE  IInv' /\ Near' /\ QInv'
    <2>1. IInv'
      BY <1>2, CountedStep, SlotsStep DEF IInv, TypeOK, Counted
    <2>2. Near'
      BY <1>2, NearStep DEF IInv
    <2> QED
      BY <1>2, <2>1, <2>2, QueueStep
  <1>3. ASSUME IInv, QInv
        PROVE  WithinThreshold
    <2>1. PICK due \in SUBSET Op : Room(due)
      BY <1>3 DEF QInv, Queue
    <2>2. Cardinality(due) \in Nat /\ Cardinality(Running) \in Nat
      BY Sizes DEF Running
    <2> QED
      BY <1>3, <2>1, <2>2, ThrottleAssumption DEF Room, WithinThreshold, IInv, TypeOK
  <1> QED
    BY <1>1, <1>2, <1>3, PTL DEF Spec

-----------------------------------------------------------------------------
(* The lookup throttle of the device grant: the misses of a window.        *)

LEMMA OpFinite == IsFiniteSet(Op)
BY ThrottleAssumption DEF ThrottleAssumption

LEMMA SameSizes == \A S : Lookups!Cardinality(S) = Cardinality(S)
BY Zenon DEF Lookups!Cardinality, Cardinality

(* A request that has passed the throttle and may still count a miss.      *)
Guessing(o) ==
    \/ lookupPc[o] \in {"findIndex", "judge", "miss"}
    \/ lookupPc[o] \in {"find", "findDecision"} /\ lookup[o].kind # "poll"

(* The misses that do not reach the limit.                                 *)
Short == IF misses < Limit THEN misses ELSE Limit - 1

Dropping == {o \in Op : lookupPc[o] = "drop"}

(* Every miss is one of those forgiven, one short of the limit, or one of  *)
(* a request that is not going to count another.                           *)
Accounted(over, past) ==
    /\ guessed <= Cardinality(over) + past + Short
    /\ \A o \in over : lookupPc[o] \in {"lock", "failed"} \/ (locked /\ ~Guessing(o))
    /\ ~forgiven \/ Dropping # {} => past = 0

MissInv ==
    \/ flushed /\ Lookups!MissesBounded
    \/ /\ \A o, p \in Dropping : o = p
       /\ ~forgiven => Dropping = {}
       /\ \E over \in SUBSET Op, past \in 0 .. (Limit - 1) : Accounted(over, past)

LEMMA MissTyped ==
  ASSUME Lookups!TypeOK
  PROVE  /\ Limit \in Nat \ {0} /\ misses \in Nat /\ guessed \in Nat
         /\ Short \in Nat /\ Short <= Limit - 1
         /\ \A over \in SUBSET Op : /\ Cardinality(over) \in Nat
                                    /\ Cardinality(over) <= Cardinality(Op)
         /\ Cardinality(Op) \in Nat
         /\ \A over \in SUBSET Op : \A o \in Op \ over :
              Cardinality(over \union {o}) = Cardinality(over) + 1
  <1>1. Limit \in Nat \ {0} /\ misses \in Nat /\ guessed \in Nat
    BY LookupsTyped DEF Lookups!DeviceAssumption, Lookups!TypeOK
  <1>2. Short \in Nat /\ Short <= Limit - 1
    BY <1>1 DEF Short
  <1>3. Cardinality(Op) \in Nat
    BY OpFinite, FS_CardinalityType
  <1>4. ASSUME NEW over \in SUBSET Op
        PROVE  IsFiniteSet(over) /\ Cardinality(over) \in Nat
              /\ Cardinality(over) <= Cardinality(Op)
    BY OpFinite, FS_Subset, FS_CardinalityType
  <1>5. ASSUME NEW over \in SUBSET Op, NEW o \in Op \ over
        PROVE  Cardinality(over \union {o}) = Cardinality(over) + 1
    BY <1>4, FS_AddElement
  <1> QED
    BY <1>1, <1>2, <1>3, <1>4, <1>5

(* The misses of a window are bounded.                                     *)
LEMMA MissSafe == ASSUME Lookups!TypeOK, MissInv PROVE Lookups!MissesBounded
  <1>1. CASE flushed /\ Lookups!MissesBounded
    BY <1>1
  <1>2. ASSUME NEW over \in SUBSET Op, NEW past \in 0 .. (Limit - 1), Accounted(over, past)
        PROVE  Lookups!MissesBounded
    BY <1>2, SameSizes, MissTyped DEF Accounted, Lookups!MissesBounded
  <1> QED
    BY <1>1, <1>2 DEF MissInv

(* A step of a request that counts nothing and passes no throttle.         *)
LEMMA MissQuiet ==
  ASSUME Lookups!TypeOK, MissInv, NEW o \in Op,
         \A p \in Op \ {o} : lookupPc'[p] = lookupPc[p] /\ lookup'[p] = lookup[p],
         UNCHANGED <<misses, locked, guessed, flushed, forgiven>>,
         Guessing(o)' => Guessing(o),
         lookupPc[o] = "lock" => lookupPc'[o] = "failed",
         lookupPc[o] = "failed" => lookupPc'[o] = "failed",
         lookupPc'[o] # "drop"
  PROVE  MissInv'
  <1>1. CASE flushed /\ Lookups!MissesBounded
    BY <1>1 DEF MissInv, Lookups!MissesBounded
  <1>2. CASE /\ \A a, b \in Dropping : a = b
             /\ ~forgiven => Dropping = {}
             /\ \E over \in SUBSET Op, past \in 0 .. (Limit - 1) : Accounted(over, past)
    <2>1. PICK over \in SUBSET Op, past \in 0 .. (Limit - 1) : Accounted(over, past)
      BY <1>2
    <2>2. Dropping' \subseteq Dropping
      BY DEF Dropping
    <2>3. \A p \in Op : Guessing(p)' => Guessing(p)
      BY DEF Guessing
    <2>4. \A p \in Op : lookupPc[p] \in {"lock", "failed"} => lookupPc'[p] \in {"lock", "failed"}
      OBVIOUS
    <2>5. Short' = Short
      BY DEF Short
    <2>6. Accounted(over, past)'
      BY <2>1, <2>2, <2>3, <2>4, <2>5 DEF Accounted
    <2> QED
      BY <1>2, <2>2, <2>6 DEF MissInv
  <1> QED
    BY <1>1, <1>2 DEF MissInv

LEMMA MissMoves ==
  ASSUME Lookups!TypeOK, NEW o \in Op
  PROVE  /\ \A l : Lookups!Goto(o, l) => lookupPc'[o] = l /\ \A p \in Op \ {o} : lookupPc'[p] = lookupPc[p]
         /\ Lookups!Finish(o) => lookup'[o] = Lookups!NoRequest
            /\ \A p \in Op \ {o} : lookup'[p] = lookup[p]
         /\ \A r : lookup' = [lookup EXCEPT ![o] = r] => lookup'[o] = r
            /\ \A p \in Op \ {o} : lookup'[p] = lookup[p]
  BY DEF Lookups!TypeOK, Lookups!Goto, Lookups!Finish

LEMMA CountMissStep ==
  ASSUME Lookups!TypeOK, MissInv, NEW o \in Op, Lookups!CountMiss(o)
  PROVE  MissInv'
  <1>0. /\ lookupPc[o] = "miss" /\ misses' = misses + 1 /\ UNCHANGED <<locked, forgiven, flushed>>
        /\ guessed' = IF flushed THEN guessed ELSE guessed + 1
        /\ misses + 1 >= Limit => lookupPc'[o] = "lock"
        /\ lookupPc'[o] \in {"lock", "idle"}
        /\ \A p \in Op \ {o} : lookupPc'[p] = lookupPc[p] /\ lookup'[p] = lookup[p]
    BY MissMoves DEF Lookups!CountMiss, Lookups!AtLimit, Lookups!Finish
  <1>1. CASE flushed
    <2>1. Lookups!MissesBounded
      BY MissSafe
    <2> QED
      BY <1>0, <1>1, <2>1 DEF MissInv, Lookups!MissesBounded
  <1>2. CASE ~flushed
    <2>1. PICK over \in SUBSET Op, past \in 0 .. (Limit - 1) : Accounted(over, past)
      BY <1>2 DEF MissInv
    <2>2. o \notin over
      BY <1>0, <2>1 DEF Accounted, Guessing
    <2>3. Dropping' = Dropping
      BY <1>0 DEF Dropping
    <2>4. \A p \in Op : Guessing(p)' => Guessing(p)
      BY <1>0 DEF Guessing
    <2>5. CASE misses + 1 >= Limit
      <3>1. Short' = Limit - 1
        BY <1>0, <2>5, MissTyped DEF Short
      <3>2. guessed' <= Cardinality(over \union {o}) + past + Short'
        BY <1>0, <1>2, <2>1, <2>2, <3>1, MissTyped DEF Accounted
      <3>3. Accounted(over \union {o}, past)'
        BY <1>0, <2>1, <2>3, <2>4, <2>5, <3>2 DEF Accounted
      <3> QED
        BY <1>0, <1>2, <2>3, <3>3 DEF MissInv
    <2>6. CASE misses + 1 < Limit
      <3>1. Short' = Short + 1
        BY <1>0, <2>6, MissTyped DEF Short
      <3>2. guessed' <= Cardinality(over) + past + Short'
        BY <1>0, <1>2, <2>1, <3>1, MissTyped DEF Accounted
      <3>3. Accounted(over, past)'
        BY <1>0, <2>1, <2>2, <2>3, <2>4, <3>2 DEF Accounted
      <3> QED
        BY <1>0, <1>2, <2>3, <3>3 DEF MissInv
    <2> QED
      BY <2>5, <2>6, MissTyped
  <1> QED
    BY <1>1, <1>2

LEMMA LockStep ==
  ASSUME Lookups!TypeOK, MissInv, NEW o \in Op, Lookups!Lock(o)
  PROVE  MissInv'
  <1>0. /\ lookupPc[o] = "lock" /\ lookupPc'[o] = "idle" /\ locked' = TRUE
        /\ UNCHANGED <<misses, guessed, flushed, forgiven>>
        /\ \A p \in Op \ {o} : lookupPc'[p] = lookupPc[p] /\ lookup'[p] = lookup[p]
    BY MissMoves DEF Lookups!Lock, Lookups!Finish
  <1>1. CASE flushed /\ Lookups!MissesBounded
    BY <1>0, <1>1 DEF MissInv, Lookups!MissesBounded
  <1>2. CASE ~(flushed /\ Lookups!MissesBounded)
    <2>1. PICK over \in SUBSET Op, past \in 0 .. (Limit - 1) : Accounted(over, past)
      BY <1>2 DEF MissInv
    <2>2. Dropping' = Dropping
      BY <1>0 DEF Dropping
    <2>3. \A p \in over : lookupPc'[p] \in {"lock", "failed"} \/ (locked' /\ ~Guessing(p)')
      <3> SUFFICES ASSUME NEW p \in over
                   PROVE  lookupPc'[p] \in {"lock", "failed"} \/ ~Guessing(p)'
        BY <1>0
      <3>1. CASE p = o
        BY <1>0, <3>1 DEF Guessing
      <3>2. CASE p # o
        BY <1>0, <2>1, <3>2 DEF Guessing, Accounted
      <3> QED
        BY <3>1, <3>2
    <2>4. Accounted(over, past)'
      BY <1>0, <2>1, <2>2, <2>3 DEF Accounted, Short
    <2> QED
      BY <1>0, <1>2, <2>2, <2>4 DEF MissInv
  <1> QED
    BY <1>1, <1>2

(* The window is forgiven once.                                            *)
LEMMA ClaimResetStep ==
  ASSUME Lookups!TypeOK, MissInv, NEW o \in Op, Lookups!ClaimReset(o)
  PROVE  MissInv'
  <1>0. /\ lookupPc[o] = "claim" /\ forgiven' = TRUE
           /\ UNCHANGED <<misses, locked, guessed, flushed>>
        /\ lookupPc'[o] \in {"idle", "drop"} /\ (lookupPc'[o] = "drop" => ~forgiven)
        /\ \A p \in Op \ {o} : lookupPc'[p] = lookupPc[p] /\ lookup'[p] = lookup[p]
    BY MissMoves DEF Lookups!ClaimReset, Lookups!Finish
  <1>1. CASE flushed /\ Lookups!MissesBounded
    BY <1>0, <1>1 DEF MissInv, Lookups!MissesBounded
  <1>2. CASE ~(flushed /\ Lookups!MissesBounded)
    <2>1. PICK over \in SUBSET Op, past \in 0 .. (Limit - 1) : Accounted(over, past)
      BY <1>2 DEF MissInv
    <2>2. Dropping' \subseteq Dropping \union {o}
          /\ (o \in Dropping' => Dropping' \subseteq {o} /\ ~forgiven)
      BY <1>0, <1>2 DEF MissInv, Dropping
    <2>3. \A p \in over : lookupPc'[p] \in {"lock", "failed"} \/ (locked' /\ ~Guessing(p)')
      BY <1>0, <2>1 DEF Guessing, Accounted
    <2>4. Dropping' # {} => past = 0
      BY <2>1, <2>2 DEF Accounted
    <2>5. Accounted(over, past)'
      BY <1>0, <2>1, <2>3, <2>4 DEF Accounted, Short
    <2>6. \A a, b \in Dropping' : a = b
      BY <1>2, <2>2 DEF MissInv
    <2> QED
      BY <1>0, <2>5, <2>6 DEF MissInv
  <1> QED
    BY <1>1, <1>2

LEMMA DropMissesStep ==
  ASSUME Lookups!TypeOK, MissInv, NEW o \in Op, Lookups!DropMisses(o)
  PROVE  MissInv'
  <1>0. /\ lookupPc[o] = "drop" /\ lookupPc'[o] = "idle" /\ misses' = 0
        /\ UNCHANGED <<locked, guessed, flushed, forgiven>>
        /\ \A p \in Op \ {o} : lookupPc'[p] = lookupPc[p] /\ lookup'[p] = lookup[p]
    BY MissMoves DEF Lookups!DropMisses, Lookups!Finish
  <1>1. CASE flushed /\ Lookups!MissesBounded
    BY <1>0, <1>1 DEF MissInv, Lookups!MissesBounded
  <1>2. CASE ~(flushed /\ Lookups!MissesBounded)
    <2>1. PICK over \in SUBSET Op, past \in 0 .. (Limit - 1) : Accounted(over, past)
      BY <1>2 DEF MissInv
    <2>2. o \in Dropping /\ Dropping' = {} /\ forgiven /\ past = 0
      BY <1>0, <1>2, <2>1 DEF MissInv, Dropping, Accounted
    <2>3. \A p \in over : lookupPc'[p] \in {"lock", "failed"} \/ (locked' /\ ~Guessing(p)')
      BY <1>0, <2>1 DEF Guessing, Accounted
    <2>4. Short' = 0 /\ Short \in 0 .. (Limit - 1)
      BY <1>0, MissTyped DEF Short
    <2>5. guessed' <= Cardinality(over) + Short + Short'
      BY <1>0, <2>1, <2>2, <2>4, MissTyped DEF Accounted
    <2>6. PICK s \in 0 .. (Limit - 1) : s = Short
      BY <2>4
    <2>7. guessed' <= Cardinality(over) + s + Short'
      BY <2>5, <2>6
    <2>8. Accounted(over, s)'
      BY <1>0, <2>2, <2>3, <2>7 DEF Accounted
    <2> QED
      BY <1>0, <2>2, <2>8 DEF MissInv
  <1> QED
    BY <1>1, <1>2

(* The throttle lets a request in only while nobody is locked out.         *)
LEMMA LookupThrottleStep ==
  ASSUME Lookups!TypeOK, MissInv, NEW o \in Op, Lookups!LookupThrottle(o)
  PROVE  MissInv'
  <1>0. /\ lookupPc[o] = "throttle" /\ lookupPc'[o] \in {"idle", "findIndex"}
        /\ lookupPc'[o] = "findIndex" => ~locked
        /\ UNCHANGED <<misses, locked, guessed, flushed, forgiven>>
        /\ \A p \in Op \ {o} : lookupPc'[p] = lookupPc[p] /\ lookup'[p] = lookup[p]
    BY MissMoves DEF Lookups!LookupThrottle, Lookups!Finish, Lookups!throttle
  <1>1. CASE flushed /\ Lookups!MissesBounded
    BY <1>0, <1>1 DEF MissInv, Lookups!MissesBounded
  <1>2. CASE ~(flushed /\ Lookups!MissesBounded)
    <2>1. PICK over \in SUBSET Op, past \in 0 .. (Limit - 1) : Accounted(over, past)
      BY <1>2 DEF MissInv
    <2>2. Dropping' = Dropping
      BY <1>0 DEF Dropping
    <2>3. \A p \in over : lookupPc'[p] \in {"lock", "failed"} \/ (locked' /\ ~Guessing(p)')
      BY <1>0, <2>1 DEF Guessing, Accounted
    <2>4. Accounted(over, past)'
      BY <1>0, <2>1, <2>2, <2>3 DEF Accounted, Short
    <2> QED
      BY <1>0, <1>2, <2>2, <2>4 DEF MissInv
  <1> QED
    BY <1>1, <1>2

(* The calls that leave the throttle alone.                                *)
LEMMA MissCalls ==
  ASSUME Lookups!TypeOK, MissInv, NEW o \in Op,
         \/ \E c \in Code : Lookups!Poll(o, c) \/ \E u \in UserCode : Lookups!Issue(o, c, u)
         \/ \E u \in UserCode : Lookups!Redraw(o, u) \/ \E k \in Kinds : Lookups!Enter(o, k, u)
         \/ Lookups!AddIndex(o) \/ Lookups!Store(o) \/ Lookups!FindByUserCode(o)
            \/ Lookups!FindRequest(o) \/ Lookups!FindDecision(o)
         \/ Lookups!JudgeMiss(o) \/ Lookups!JudgeRefuse(o) \/ Lookups!JudgePass(o)
         \/ Lookups!Decide(o) \/ Lookups!DecideRefused(o) \/ Lookups!RemoveUserCode(o)
            \/ Lookups!HasMisses(o)
         \/ Lookups!Remove(o) \/ Lookups!TouchPoll(o) \/ Lookups!PopRequest(o)
            \/ Lookups!PopDecision(o) \/ Lookups!DropPoll(o)
         \/ Lookups!Fail(o)
  PROVE  MissInv'
  <1> DEFINE Quiet == /\ \A p \in Op \ {o} : lookupPc'[p] = lookupPc[p] /\ lookup'[p] = lookup[p]
                      /\ UNCHANGED <<misses, locked, guessed, flushed, forgiven>>
                      /\ Guessing(o)' => Guessing(o)
                      /\ lookupPc[o] = "lock" => lookupPc'[o] = "failed"
                      /\ lookupPc[o] = "failed" => lookupPc'[o] = "failed"
                      /\ lookupPc'[o] # "drop"
  <1>1. ASSUME NEW c \in Code, Lookups!Poll(o, c) PROVE Quiet
    BY <1>1, MissMoves DEF Lookups!Poll, Lookups!throttle, Guessing, Lookups!TypeOK,
       Lookups!Goto, Lookups!NoRequest
  <1>2. ASSUME NEW c \in Code, NEW u \in UserCode, Lookups!Issue(o, c, u) PROVE Quiet
    BY <1>2, MissMoves DEF Lookups!Issue, Lookups!throttle, Guessing, Lookups!TypeOK, Lookups!Goto
  <1>3. ASSUME NEW u \in UserCode, Lookups!Redraw(o, u) PROVE Quiet
    BY <1>3, MissMoves DEF Lookups!Redraw, Lookups!throttle, Guessing, Lookups!TypeOK,
       Lookups!Goto, Lookups!Finish
  <1>4. ASSUME NEW u \in UserCode, NEW k \in Kinds, Lookups!Enter(o, k, u) PROVE Quiet
    BY <1>4, MissMoves DEF Lookups!Enter, Lookups!throttle, Guessing, Lookups!TypeOK, Lookups!Goto
  <1>5. ASSUME Lookups!AddIndex(o) \/ Lookups!Store(o) PROVE Quiet
    BY <1>5, MissMoves DEF Lookups!AddIndex, Lookups!Store, Lookups!throttle, Guessing,
       Lookups!Finish
  <1>6. ASSUME Lookups!FindByUserCode(o) PROVE Quiet
    BY <1>6, MissMoves DEF Lookups!FindByUserCode, Lookups!throttle, Guessing, Lookups!Finish,
       Lookups!TypeOK, Lookups!Goto
  <1>7. ASSUME Lookups!FindRequest(o) PROVE Quiet
    BY <1>7, MissMoves DEF Lookups!FindRequest, Lookups!throttle, Guessing, Lookups!Finish
  <1>8. ASSUME Lookups!FindDecision(o) PROVE Quiet
    BY <1>8, MissMoves DEF Lookups!FindDecision, Lookups!throttle, Guessing, Lookups!Finish,
       Lookups!TypeOK, Lookups!Goto
  <1>9. ASSUME Lookups!JudgeMiss(o) PROVE Quiet
    BY <1>9, MissMoves DEF Lookups!JudgeMiss, Lookups!throttle, Guessing, Lookups!Finish
  <1>10. ASSUME Lookups!JudgeRefuse(o) PROVE Quiet
    BY <1>10, MissMoves DEF Lookups!JudgeRefuse, Lookups!throttle, Guessing, Lookups!Finish
  <1>11. ASSUME Lookups!JudgePass(o) PROVE Quiet
    BY <1>11, MissMoves DEF Lookups!JudgePass, Lookups!throttle, Guessing, Lookups!Finish
  <1>12. ASSUME Lookups!Decide(o) PROVE Quiet
    BY <1>12, MissMoves DEF Lookups!Decide, Lookups!throttle, Guessing, Lookups!Finish
  <1>13. ASSUME Lookups!DecideRefused(o) PROVE Quiet
    BY <1>13, MissMoves DEF Lookups!DecideRefused, Lookups!throttle, Guessing, Lookups!Finish
  <1>14. ASSUME Lookups!RemoveUserCode(o) PROVE Quiet
    BY <1>14, MissMoves DEF Lookups!RemoveUserCode, Lookups!throttle, Guessing, Lookups!Finish
  <1>15. ASSUME Lookups!HasMisses(o) PROVE Quiet
    BY <1>15, MissMoves DEF Lookups!HasMisses, Lookups!throttle, Guessing, Lookups!Finish
  <1>16. ASSUME Lookups!Remove(o) PROVE Quiet
    BY <1>16, MissMoves DEF Lookups!Remove, Lookups!throttle, Guessing, Lookups!Finish
  <1>17. ASSUME Lookups!TouchPoll(o) PROVE Quiet
    BY <1>17, MissMoves DEF Lookups!TouchPoll, Lookups!throttle, Guessing, Lookups!Finish
  <1>18. ASSUME Lookups!PopRequest(o) PROVE Quiet
    BY <1>18, MissMoves DEF Lookups!PopRequest, Lookups!throttle, Guessing, Lookups!Finish
  <1>19. ASSUME Lookups!PopDecision(o) PROVE Quiet
    BY <1>19, MissMoves DEF Lookups!PopDecision, Lookups!throttle, Guessing, Lookups!Finish,
       Lookups!TypeOK, Lookups!Goto
  <1>20. ASSUME Lookups!DropPoll(o) PROVE Quiet
    BY <1>20, MissMoves DEF Lookups!DropPoll, Lookups!throttle, Guessing, Lookups!Finish
  <1>21. ASSUME Lookups!Fail(o) PROVE Quiet
    BY <1>21, MissMoves DEF Lookups!Fail, Lookups!throttle, Guessing, Lookups!Finish
  <1>22. Quiet
    <2> HIDE DEF Quiet
    <2> QED
      BY <1>1, <1>2, <1>3, <1>4, <1>5, <1>6, <1>7, <1>8, <1>9, <1>10, <1>11, <1>12, <1>13,
         <1>14, <1>15, <1>16, <1>17, <1>18, <1>19, <1>20, <1>21
  <1> QED
    BY <1>22, MissQuiet

LEMMA MissStep == ASSUME Lookups!TypeOK, MissInv, [Lookups!Next]_(Lookups!vars) PROVE MissInv'
  <1>1. ASSUME UNCHANGED <<Lookups!throttle, lookupPc, lookup>> PROVE MissInv'
    BY <1>1 DEF Lookups!throttle, MissInv, Lookups!MissesBounded, Dropping, Accounted, Short,
       Guessing
  <1>2. ASSUME Lookups!CacheLoss PROVE MissInv'
    BY <1>2, MissSafe DEF Lookups!CacheLoss, MissInv, Lookups!MissesBounded
  <1>3. ASSUME Lookups!Tick \/ UNCHANGED Lookups!vars
        PROVE  UNCHANGED <<Lookups!throttle, lookupPc, lookup>>
    BY <1>3 DEF Lookups!Tick, Lookups!vars
  <1> QED
    BY <1>1, <1>2, <1>3, MissCalls, LookupThrottleStep, CountMissStep, LockStep, ClaimResetStep,
       DropMissesStep DEF Lookups!Next, Lookups!Step

LEMMA MissStart == ASSUME Lookups!Init PROVE MissInv
  <1>1. Dropping = {} /\ guessed = 0 /\ misses = 0 /\ ~forgiven
    BY DEF Lookups!Init, Dropping
  <1>2. Limit \in Nat \ {0} /\ Cardinality({}) = 0
    BY LookupsTyped, FS_EmptySet DEF Lookups!DeviceAssumption
  <1>3. Accounted({}, 0)
    BY <1>1, <1>2 DEF Accounted, Short
  <1> QED
    BY <1>1, <1>2, <1>3 DEF MissInv

-----------------------------------------------------------------------------
(* The lock file of the command line.                                      *)

(* A command under way holds a token.                                      *)
Carried == \A p \in Process : hostPc[p] # "idle" => mem[p] # Host!NoToken

(* Whoever is inside made the file that is there, and is still in time.    *)
Owned == \A p \in Process : Host!Inside(p) => file = p /\ ~old

(* The stored token was not exchanged, but for the moment before the new   *)
(* one is written.                                                         *)
Unspent ==
    /\ stored \in spent => \E p \in Process : hostPc[p] = "write"
    /\ \A p \in Process : hostPc[p] = "write" => mem[p] \notin spent
    /\ \A p \in Process : hostPc[p] = "exchange" => stored \in {Host!NoToken, mem[p]}
    /\ ~replayed

HostInv ==
    /\ Host!TypeOK /\ Carried
    /\ outlived \/ raced \/ Owned
    /\ outlived \/ raced \/ cut \/ Unspent

LEMMA HostTypeStep ==
  ASSUME Host!TypeOK, Carried, [Host!Next]_(Host!vars)
  PROVE  Host!TypeOK' /\ Carried'
<1> USE HostTyped DEF Host!HostAssumption, Host!TypeOK, Carried, Host!Goto, Host!NoToken,
   Host!locks, Host!tokens, Host!ghosts
<1>1. ASSUME NEW p \in Process, Host!Start(p) PROVE Host!TypeOK' /\ Carried'
  BY <1>1 DEF Host!Start
<1>2. ASSUME NEW p \in Process, Host!Revoke(p) PROVE Host!TypeOK' /\ Carried'
  BY <1>2 DEF Host!Revoke
<1>3. ASSUME NEW p \in Process, Host!Open(p) PROVE Host!TypeOK' /\ Carried'
  BY <1>3 DEF Host!Open
<1>4. ASSUME NEW p \in Process, Host!Stat(p) PROVE Host!TypeOK' /\ Carried'
  BY <1>4 DEF Host!Stat
<1>5. ASSUME NEW p \in Process, Host!GiveUp(p) PROVE Host!TypeOK' /\ Carried'
  BY <1>5 DEF Host!GiveUp
<1>6. ASSUME NEW p \in Process, Host!Steal(p) PROVE Host!TypeOK' /\ Carried'
  BY <1>6 DEF Host!Steal
<1>7. ASSUME NEW p \in Process, Host!Read(p) PROVE Host!TypeOK' /\ Carried'
  BY <1>7 DEF Host!Read, Host!Foreign
<1>8. ASSUME NEW p \in Process, Host!Exchange(p) PROVE Host!TypeOK' /\ Carried'
  <2>0. cut' \in BOOLEAN /\ UNCHANGED <<file, old, stored, kind, died, outlived, raced>>
    BY <1>8 DEF Host!Exchange
  <2>1. CASE mem[p] = live /\ hostIssued < MaxToken /\ live' = hostIssued + 1
             /\ hostIssued' = hostIssued + 1 /\ spent' = spent \union {live}
             /\ (mem' = [mem EXCEPT ![p] = hostIssued + 1] \/ UNCHANGED mem) /\ UNCHANGED replayed
    <3>1. hostIssued \in Nat /\ hostIssued' \in 1 .. MaxToken /\ live \in 1 .. hostIssued'
      BY <1>8, <2>1 DEF Host!Exchange
    <3>2. /\ 0 .. hostIssued \subseteq 0 .. hostIssued'
          /\ 1 .. hostIssued \subseteq 1 .. hostIssued'
      BY <2>1, <3>1
    <3>3. /\ live' \in 0 .. hostIssued' /\ hostIssued + 1 \in 0 .. hostIssued'
          /\ stored' \in 0 .. hostIssued'
      BY <2>0, <2>1, <3>1, <3>2
    <3>4. spent' \subseteq 1 .. hostIssued'
      BY <2>1, <3>1, <3>2
    <3>5. mem' \in [Process -> 0 .. hostIssued']
      BY <2>1, <3>2, <3>3
    <3> QED
      BY <1>8, <2>0, <2>1, <3>1, <3>3, <3>4, <3>5 DEF Host!Exchange
  <2>2. CASE UNCHANGED <<hostIssued, spent, mem>>
    <3>1. live' \in 0 .. hostIssued'
      BY <1>8, <2>2 DEF Host!Exchange
    <3>2. replayed' \in {replayed, replayed \/ stored # Host!NoToken}
      BY <1>8, <2>2 DEF Host!Exchange
    <3>3. replayed' \in BOOLEAN
      BY <3>2, Zenon
    <3> QED
      BY <1>8, <2>0, <2>2, <3>1, <3>3 DEF Host!Exchange
  <2> QED
    BY <1>8, <2>1, <2>2 DEF Host!Exchange
<1>9. ASSUME NEW p \in Process, Host!Write(p) PROVE Host!TypeOK' /\ Carried'
  BY <1>9 DEF Host!Write
<1>10. ASSUME NEW p \in Process, Host!Remove(p) PROVE Host!TypeOK' /\ Carried'
  BY <1>10 DEF Host!Remove
<1>11. ASSUME NEW p \in Process, Host!Unlink(p) PROVE Host!TypeOK' /\ Carried'
  BY <1>11 DEF Host!Unlink
<1>12. ASSUME NEW p \in Process, Host!Die(p) PROVE Host!TypeOK' /\ Carried'
  BY <1>12 DEF Host!Die
<1>13. CASE Host!Age
  BY <1>13 DEF Host!Age
<1>14. CASE UNCHANGED Host!vars
  BY <1>14 DEF Host!vars
<1>15. ASSUME NEW p \in Process, Host!Again(p) PROVE Host!TypeOK' /\ Carried'
  BY <1>15 DEF Host!Again
<1>16. ASSUME NEW p \in Process, Host!Reject(p) PROVE Host!TypeOK' /\ Carried'
  BY <1>16 DEF Host!Reject
<1> QED
  BY <1>1, <1>2, <1>3, <1>4, <1>5, <1>6, <1>7, <1>8, <1>9, <1>10, <1>11, <1>12, <1>13, <1>14,
     <1>15, <1>16 DEF Host!Next

LEMMA HostOwned ==
  ASSUME Host!TypeOK, Owned, [Host!Next]_(Host!vars), ~outlived', ~raced'
  PROVE  Owned'
<1> USE HostTyped DEF Host!HostAssumption, Host!TypeOK, Owned, Host!Inside, Host!Goto,
   Host!locks, Host!tokens, Host!ghosts
<1>1. ASSUME NEW p \in Process, Host!Start(p) PROVE Owned'
  BY <1>1 DEF Host!Start
<1>2. ASSUME NEW p \in Process, Host!Revoke(p) PROVE Owned'
  BY <1>2 DEF Host!Revoke
<1>3. ASSUME NEW p \in Process, Host!Open(p) PROVE Owned'
  BY <1>3 DEF Host!Open
<1>4. ASSUME NEW p \in Process, Host!Stat(p) PROVE Owned'
  BY <1>4 DEF Host!Stat
<1>5. ASSUME NEW p \in Process, Host!GiveUp(p) PROVE Owned'
  BY <1>5 DEF Host!GiveUp
<1>6. ASSUME NEW p \in Process, Host!Steal(p) PROVE Owned'
  BY <1>6 DEF Host!Steal
<1>7. ASSUME NEW p \in Process, Host!Read(p) PROVE Owned'
  BY <1>7 DEF Host!Read
<1>8. ASSUME NEW p \in Process, Host!Exchange(p) PROVE Owned'
  BY <1>8 DEF Host!Exchange
<1>9. ASSUME NEW p \in Process, Host!Write(p) PROVE Owned'
  BY <1>9 DEF Host!Write
<1>10. ASSUME NEW p \in Process, Host!Remove(p) PROVE Owned'
  BY <1>10 DEF Host!Remove
<1>11. ASSUME NEW p \in Process, Host!Unlink(p) PROVE Owned'
  BY <1>11 DEF Host!Unlink
<1>12. ASSUME NEW p \in Process, Host!Die(p) PROVE Owned'
  BY <1>12 DEF Host!Die
<1>13. CASE Host!Age
  BY <1>13 DEF Host!Age
<1>14. CASE UNCHANGED Host!vars
  BY <1>14 DEF Host!vars
<1>15. ASSUME NEW p \in Process, Host!Again(p) PROVE Owned'
  BY <1>15 DEF Host!Again
<1>16. ASSUME NEW p \in Process, Host!Reject(p) PROVE Owned'
  BY <1>16 DEF Host!Reject
<1> QED
  BY <1>1, <1>2, <1>3, <1>4, <1>5, <1>6, <1>7, <1>8, <1>9, <1>10, <1>11, <1>12, <1>13, <1>14,
     <1>15, <1>16 DEF Host!Next

LEMMA HostUnspent ==
  ASSUME Host!TypeOK, Carried, Owned, Unspent, [Host!Next]_(Host!vars), ~cut'
  PROVE  Unspent'
<1>a. \A p, q \in Process : Host!Inside(p) /\ Host!Inside(q) => p = q
  BY DEF Owned
<1> USE <1>a, HostTyped DEF Host!HostAssumption, Host!TypeOK, Unspent, Host!Inside, Host!Goto,
   Host!NoToken, Host!locks, Host!tokens, Host!ghosts
<1>1. ASSUME NEW p \in Process, Host!Start(p) PROVE Unspent'
  BY <1>1 DEF Host!Start
<1>2. ASSUME NEW p \in Process, Host!Revoke(p) PROVE Unspent'
  BY <1>2 DEF Host!Revoke
<1>3. ASSUME NEW p \in Process, Host!Open(p) PROVE Unspent'
  BY <1>3 DEF Host!Open
<1>4. ASSUME NEW p \in Process, Host!Stat(p) PROVE Unspent'
  BY <1>4 DEF Host!Stat
<1>5. ASSUME NEW p \in Process, Host!GiveUp(p) PROVE Unspent'
  BY <1>5 DEF Host!GiveUp
<1>6. ASSUME NEW p \in Process, Host!Steal(p) PROVE Unspent'
  BY <1>6 DEF Host!Steal
<1>7. ASSUME NEW p \in Process, Host!Read(p) PROVE Unspent'
  BY <1>7 DEF Host!Read, Host!Foreign
<1>8. ASSUME NEW p \in Process, Host!Exchange(p) PROVE Unspent'
  BY <1>8 DEF Host!Exchange, Carried
<1>9. ASSUME NEW p \in Process, Host!Write(p) PROVE Unspent'
  BY <1>9 DEF Host!Write
<1>10. ASSUME NEW p \in Process, Host!Remove(p) PROVE Unspent'
  BY <1>10 DEF Host!Remove
<1>11. ASSUME NEW p \in Process, Host!Unlink(p) PROVE Unspent'
  BY <1>11 DEF Host!Unlink
<1>12. ASSUME NEW p \in Process, Host!Die(p) PROVE Unspent'
  BY <1>12 DEF Host!Die
<1>13. CASE Host!Age
  BY <1>13 DEF Host!Age
<1>14. CASE UNCHANGED Host!vars
  BY <1>14 DEF Host!vars
<1>15. ASSUME NEW p \in Process, Host!Again(p) PROVE Unspent'
  BY <1>15 DEF Host!Again
<1>16. ASSUME NEW p \in Process, Host!Reject(p) PROVE Unspent'
  BY <1>16 DEF Host!Reject
<1> QED
  BY <1>1, <1>2, <1>3, <1>4, <1>5, <1>6, <1>7, <1>8, <1>9, <1>10, <1>11, <1>12, <1>13, <1>14,
     <1>15, <1>16 DEF Host!Next

(* Nothing takes back what broke the lock.                                 *)
LEMMA HostGhosts ==
  ASSUME Host!TypeOK, [Host!Next]_(Host!vars)
  PROVE  (outlived => outlived') /\ (raced => raced') /\ (cut => cut')
<1>1. ASSUME NEW p \in Process,
             \/ Host!Start(p) \/ Host!Again(p) \/ Host!Revoke(p) \/ Host!Open(p) \/ Host!Stat(p)
                \/ Host!GiveUp(p) \/ Host!Read(p)
             \/ Host!Write(p) \/ Host!Remove(p) \/ Host!Unlink(p)
      PROVE  UNCHANGED Host!ghosts
  BY <1>1 DEF Host!Start, Host!Again, Host!Revoke, Host!Open, Host!Stat, Host!GiveUp, Host!Read,
     Host!Write, Host!Remove, Host!Unlink
<1>2. ASSUME NEW p \in Process, Host!Steal(p)
      PROVE  (raced => raced') /\ UNCHANGED <<outlived, cut>>
  BY <1>2 DEF Host!Steal
<1>3. ASSUME NEW p \in Process, Host!Exchange(p) \/ Host!Reject(p) \/ Host!Die(p)
      PROVE  (cut => cut') /\ UNCHANGED <<outlived, raced>>
  <2>1. cut' = cut \/ cut' = TRUE \/ cut' = (cut \/ hostPc[p] = "write")
    BY <1>3 DEF Host!Exchange, Host!Reject, Host!Die
  <2>2. cut => cut'
    BY <2>1, Zenon
  <2> QED
    BY <1>3, <2>2 DEF Host!Exchange, Host!Reject, Host!Die
<1>4. CASE Host!Age
  BY <1>4 DEF Host!Age
<1>5. CASE UNCHANGED Host!vars
  BY <1>5 DEF Host!vars, Host!ghosts
<1> QED
  <2>1. ASSUME NEW p \in Process,
               \/ Host!Start(p) \/ Host!Again(p) \/ Host!Revoke(p) \/ Host!Open(p)
                  \/ Host!Stat(p) \/ Host!GiveUp(p) \/ Host!Steal(p)
               \/ Host!Read(p) \/ Host!Exchange(p) \/ Host!Write(p) \/ Host!Remove(p)
                  \/ Host!Unlink(p) \/ Host!Reject(p) \/ Host!Die(p)
        PROVE  (outlived => outlived') /\ (raced => raced') /\ (cut => cut')
    BY <1>1, <1>2, <1>3, <2>1, Zenon DEF Host!ghosts
  <2> QED
    BY <1>4, <1>5, <2>1, Zenon DEF Host!Next, Host!ghosts

LEMMA HostStep == ASSUME HostInv, [Host!Next]_(Host!vars) PROVE HostInv'
<1>0. /\ {outlived, raced, cut} \subseteq BOOLEAN
      /\ {outlived', raced', cut'} \subseteq BOOLEAN
  BY HostTypeStep DEF HostInv, Host!TypeOK
<1>1. Host!TypeOK' /\ Carried'
  BY HostTypeStep DEF HostInv
<1>2. outlived' \/ raced' \/ Owned'
  BY <1>0, HostOwned, HostGhosts DEF HostInv
<1>3. outlived' \/ raced' \/ cut' \/ Unspent'
  BY <1>0, HostUnspent, HostGhosts DEF HostInv
<1> QED
  BY <1>1, <1>2, <1>3 DEF HostInv

LEMMA HostStart == Host!Init => HostInv
<1> SUFFICES ASSUME Host!Init PROVE HostInv
  OBVIOUS
<1>1. {replayed, outlived, raced, cut} \subseteq BOOLEAN
  BY DEF Host!Init
<1>2. Host!TypeOK
  <2>1. /\ file \in Process \union {Host!NoFile} /\ hostIssued \in 1 .. MaxToken
        /\ stored \in 0 .. hostIssued /\ live \in 0 .. hostIssued
           /\ spent \subseteq 1 .. hostIssued
        /\ died \in 0 .. Deaths
    BY HostTyped DEF Host!HostAssumption, Host!Init, Host!NoToken
  <2>2. /\ hostPc \in [Process -> {"idle", "revoke", "open", "steal", "read", "exchange", "write",
                             "remove", "unlink"}]
        /\ mem \in [Process -> 0 .. hostIssued] /\ kind \in [Process -> {"refresh", "logout"}]
    BY DEF Host!Init, Host!NoToken
  <2>3. old \in BOOLEAN
    BY DEF Host!Init
  <2> QED
    BY <1>1, <2>1, <2>2, <2>3 DEF Host!TypeOK
<1>3. Carried /\ Owned /\ Unspent
  <2>1. Carried /\ Owned
    BY DEF Host!Init, Carried, Owned, Host!Inside
  <2>2. ~replayed
    BY DEF Host!Init
  <2>3. stored \notin spent /\ \A p \in Process : hostPc[p] \notin {"write", "exchange"}
    BY DEF Host!Init
  <2> QED
    BY <2>1, <2>2, <2>3 DEF Unspent
<1> QED
  BY <1>2, <1>3 DEF HostInv

LEMMA HostSafe == HostInv => Host!OneInside /\ Host!NeverReplays
BY DEF HostInv, Owned, Unspent, Host!OneInside, Host!NeverReplays

-----------------------------------------------------------------------------
(* The rollups of the event log.                                           *)

LEMMA SameLengths == \A S : Rollups!Cardinality(S) = Cardinality(S)
BY Zenon DEF Rollups!Cardinality, Cardinality

Pass == [today : 0 .. Rollups!DayOf(LastPart), start : Rollups!Instant, day : 0 .. Rollups!DayOf(LastPart),
         read : SUBSET Rollups!Instant, over : BOOLEAN, todo : SUBSET Rollups!Day,
         stop : 0 .. Rollups!Unset]

(* The log and the rows of the rollups.                                    *)
LogTyped ==
    /\ day \in Rollups!Instant /\ DayLength <= day
    /\ recorded \subseteq Rollups!Instant /\ events \subseteq recorded
    /\ rollup \in [Rollups!Day -> [of : SUBSET Rollups!Instant, over : BOOLEAN]]
    /\ settled \subseteq recorded
    /\ early \subseteq Rollups!Day /\ contested \subseteq Rollups!Day
    /\ passPc \in [Aggregator -> {"idle", "count", "replace", "look"}]
    /\ pass \in [Aggregator -> Pass]
    /\ cursor \in [Aggregator -> 0 .. Rollups!Unset]

(* A pass is as long as a part of a day: it has today and yesterday first, *)
(* and then the days it found missing.                                     *)
Sound(l, q) ==
    /\ l \in {"idle", "count", "replace", "look"} /\ q \in Pass
    /\ l # "idle" => /\ q.today = Rollups!DayOf(q.start) /\ 2 <= q.today
                     /\ q.start <= day /\ day <= q.start + 1
    /\ l \in {"count", "replace"} => q.day \in Rollups!Day /\ q.day <= q.today
    /\ l # "idle" /\ q.today - 1 <= q.day => q.todo = {}
    /\ \A d \in q.todo : d < q.today - 1
    /\ l = "look" => q.day = q.today - 1
    /\ q.day \notin q.todo
    /\ l = "replace" => \A t \in q.read : t \in recorded /\ Rollups!DayOf(t) = q.day

Underway == \A a \in Aggregator : Sound(passPc[a], pass[a])

(* The database lock has one process replace rows at a time.               *)
Alone == \A a, b \in Aggregator : passPc[a] = "replace" /\ passPc[b] = "replace" => a = b

(* What a pass has read of a day that was over by then is all there is.    *)
ReadAll(l, q) ==
    l = "replace" /\ q.over
      => Rollups!EndOf(q.day) <= day /\ Rollups!EventsOf(q.day) \subseteq q.read

Complete ==
    /\ \A d \in Rollups!Day : rollup[d].over => Rollups!EndOf(d) <= day
    /\ \A d \in Rollups!Day \ early : rollup[d].over => Rollups!EventsOf(d) \subseteq rollup[d].of
    /\ \A a \in Aggregator : ReadAll(passPc[a], pass[a])

(* An event is among S, or two processes filled its day and it is gone.    *)
KeptIn(t, S) == t \in S \/ (Rollups!DayOf(t) \in contested /\ t \notin events)

(* A pass that has a settled day to fill shares it with another, and one   *)
(* that is about to replace it has read what was counted.                  *)
Spares(l, q) ==
    /\ \A t \in settled : Rollups!DayOf(t) \in q.todo => Rollups!DayOf(t) \in contested
    /\ l = "count" /\ q.day < q.today - 1 =>
         \A t \in settled : Rollups!DayOf(t) = q.day => q.day \in contested
    /\ l = "replace" => \A t \in settled : Rollups!DayOf(t) = q.day => KeptIn(t, q.read)

(* Only events past their retention are gone.                              *)
CountedLog ==
    /\ \A t \in recorded \ events : t + EventsKept <= day
    /\ \A t \in settled : /\ KeptIn(t, rollup[Rollups!DayOf(t)].of)
                          /\ rollup[Rollups!DayOf(t)].over
    /\ \A a \in Aggregator : Spares(passPc[a], pass[a])

(* Days and the instants in them.                                          *)
LEMMA DivBounds ==
  ASSUME NEW t \in Nat, NEW n \in Nat \ {0}
  PROVE  /\ t \div n \in Nat
         /\ n * (t \div n) <= t /\ t < n * ((t \div n) + 1)
  OBVIOUS

LEMMA ProductMonotone ==
  ASSUME NEW n \in Nat \ {0}, NEW p \in Int, NEW q \in Int, p <= q
  PROVE  p * n <= q * n
  OBVIOUS

LEMMA DayBounds ==
  ASSUME NEW t \in Nat
  PROVE  /\ Rollups!DayOf(t) \in Nat \ {0}
         /\ (Rollups!DayOf(t) - 1) * DayLength <= t
         /\ t < Rollups!EndOf(Rollups!DayOf(t))
  <1>1. DayLength \in Nat \ {0}
    BY RollupsTyped DEF Rollups!RollupAssumption
  <1>2. t \div DayLength \in Nat
    BY <1>1, DivBounds
  <1> DEFINE q == t \div DayLength
  <1>3. q \in Nat /\ DayLength * q <= t /\ t < DayLength * (q + 1)
    BY <1>1, DivBounds
  <1>4. Rollups!DayOf(t) = q + 1
    BY DEF Rollups!DayOf
  <1> HIDE DEF q
  <1> QED
    BY <1>1, <1>3, <1>4 DEF Rollups!EndOf

LEMMA DayMonotone ==
  ASSUME NEW t \in Nat, NEW u \in Nat, t <= u
  PROVE  Rollups!DayOf(t) <= Rollups!DayOf(u)
  <1>1. DayLength \in Nat \ {0}
    BY RollupsTyped DEF Rollups!RollupAssumption
  <1>2. SUFFICES ASSUME Rollups!DayOf(u) < Rollups!DayOf(t) PROVE FALSE
    BY DayBounds
  <1>3. Rollups!EndOf(Rollups!DayOf(u)) <= (Rollups!DayOf(t) - 1) * DayLength
    BY <1>1, <1>2, DayBounds, ProductMonotone DEF Rollups!EndOf
  <1> QED
    BY <1>1, <1>3, DayBounds DEF Rollups!EndOf

LEMMA DaysTyped ==
  /\ Rollups!DayOf(LastPart) \in Nat \ {0} /\ 2 <= Rollups!DayOf(LastPart)
  /\ \A t \in Rollups!Instant : Rollups!DayOf(t) \in Rollups!Day /\ t \in Nat
  /\ \A t \in Rollups!Instant : DayLength <= t => 2 <= Rollups!DayOf(t)
  /\ \A d \in Rollups!Day : Rollups!EndOf(d) \in Nat /\ Rollups!EndOf(d) > 0
  <1>1. DayLength \in Nat \ {0} /\ LastPart \in Nat /\ DayLength <= LastPart
    BY RollupsTyped DEF Rollups!RollupAssumption
  <1>2. Rollups!DayOf(DayLength) = 2
    BY <1>1, DivBounds DEF Rollups!DayOf
  <1>3. Rollups!DayOf(LastPart) \in Nat \ {0} /\ 2 <= Rollups!DayOf(LastPart)
    BY <1>1, <1>2, DayBounds, DayMonotone
  <1>4. ASSUME NEW t \in Rollups!Instant PROVE Rollups!DayOf(t) \in Rollups!Day /\ t \in Nat
    BY <1>1, <1>3, <1>4, DayBounds, DayMonotone DEF Rollups!Instant, Rollups!Day
  <1>5. ASSUME NEW t \in Rollups!Instant, DayLength <= t PROVE 2 <= Rollups!DayOf(t)
    BY <1>1, <1>2, <1>4, <1>5, DayMonotone
  <1>6. ASSUME NEW d \in Rollups!Day PROVE Rollups!EndOf(d) \in Nat /\ Rollups!EndOf(d) > 0
    BY <1>1, <1>3 DEF Rollups!Day, Rollups!EndOf
  <1> QED
    BY <1>3, <1>4, <1>5, <1>6

(* A set of naturals has a least element.                                  *)
LEMMA LeastNatural == ASSUME NEW S, S \subseteq Nat, S # {} PROVE \E n \in S : \A m \in S : n <= m
  <1> DEFINE Less == OpToRel(<, Nat)
  <1>1. PICK n \in S : \A m \in S : <<m, n>> \notin Less
    <2>1. IsWellFoundedOn(Less, Nat)
      BY NatLessThanWellFounded
    <2> HIDE DEF Less
    <2> QED
      BY <2>1, WFMin
  <1>2. \A m \in S : ~(m < n)
    BY <1>1 DEF OpToRel
  <1> QED
    BY <1>2

(* The latest of some days is one of them, and so is the earliest of some  *)
(* instants.                                                               *)
LEMMA MaxIsIn == ASSUME NEW S, S \subseteq Rollups!Day, S # {} PROVE Rollups!Max(S) \in S
  <1>1. Rollups!DayOf(LastPart) \in Nat
    BY DaysTyped
  <1> DEFINE T == {Rollups!DayOf(LastPart) - d : d \in S}
  <1>2. T \in SUBSET Nat /\ T # {}
    BY <1>1 DEF Rollups!Day
  <1>3. PICK n \in T : \A m \in T : n <= m
    BY <1>2, LeastNatural
  <1>4. PICK d \in S : n = Rollups!DayOf(LastPart) - d
    BY <1>3
  <1>5. \A e \in S : d >= e
    BY <1>1, <1>3, <1>4 DEF Rollups!Day
  <1> QED
    BY <1>5 DEF Rollups!Max

LEMMA MinIsIn == ASSUME NEW S, S \subseteq Nat, S # {} PROVE Rollups!Min(S) \in S
  <1>1. PICK n \in S : \A m \in S : n <= m
    BY LeastNatural
  <1> QED
    BY <1>1 DEF Rollups!Min
LEMMA NoPassTyped == Rollups!NoPass \in Pass /\ Rollups!NoPass.todo = {} /\ Rollups!NoPass.day = 0
  <1>1. 0 \in Rollups!Instant /\ Rollups!Unset \in 0 .. Rollups!Unset
    BY DaysTyped, RollupsTyped DEF Rollups!RollupAssumption, Rollups!Instant, Rollups!Unset
  <1>2. 0 \in 0 .. Rollups!DayOf(LastPart)
    BY DaysTyped
  <1> QED
    BY <1>1, <1>2 DEF Rollups!NoPass, Pass, Rollups!NoDay

LEMMA PassGoesOn ==
  ASSUME NEW q \in Pass, NEW d, NEW S
  PROVE  [q EXCEPT !.day = d, !.todo = S]
           = [today |-> q.today, start |-> q.start, day |-> d, read |-> q.read,
              over |-> q.over, todo |-> S, stop |-> q.stop]
  <1> DEFINE p == [q EXCEPT !.day = d]
  <1>1. p = [today |-> q.today, start |-> q.start, day |-> d, read |-> q.read,
             over |-> q.over, todo |-> q.todo, stop |-> q.stop]
    BY DEF Pass
  <1>2. [q EXCEPT !.day = d, !.todo = S] = [p EXCEPT !.todo = S]
    BY DEF Pass
  <1> HIDE DEF p
  <1> QED
    BY <1>1, <1>2

LEMMA PassBegins ==
  ASSUME NEW d, NEW t
  PROVE  [Rollups!NoPass EXCEPT !.today = d, !.start = t, !.day = d]
           = [today |-> d, start |-> t, day |-> d, read |-> {}, over |-> FALSE, todo |-> {},
              stop |-> Rollups!Unset]
  <1> DEFINE no == FALSE  none == {}
             n == [today |-> Rollups!NoDay, start |-> 0, day |-> Rollups!NoDay, read |-> none,
                   over |-> no, todo |-> none, stop |-> Rollups!Unset]
  <1>1. n = Rollups!NoPass
    BY DEF Rollups!NoPass
  <1> HIDE DEF no, none
  <1>2. [n EXCEPT !.today = d, !.start = t, !.day = d]
           = [today |-> d, start |-> t, day |-> d, read |-> none, over |-> no, todo |-> none,
              stop |-> Rollups!Unset]
    <2> DEFINE p == [n EXCEPT !.today = d]  r == [p EXCEPT !.start = t]
    <2>1. p = [today |-> d, start |-> 0, day |-> Rollups!NoDay, read |-> none, over |-> no,
               todo |-> none, stop |-> Rollups!Unset]
      OBVIOUS
    <2>2. [n EXCEPT !.today = d, !.start = t, !.day = d] = [r EXCEPT !.day = d]
      OBVIOUS
    <2> HIDE DEF p
    <2>3. r = [today |-> d, start |-> t, day |-> Rollups!NoDay, read |-> none, over |-> no,
               todo |-> none, stop |-> Rollups!Unset]
      BY <2>1
    <2> HIDE DEF r
    <2> QED
      BY <2>2, <2>3
  <1> HIDE DEF n
  <1> QED
    BY <1>1, <1>2 DEF no, none

(* What the walk looks for: the days it starts and ends at, the missing    *)
(* ones between, those it fills and where it stops.                        *)
From(a) == IF cursor[a] < pass[a].today - 1 THEN cursor[a] ELSE pass[a].today - 2
Oldest == Rollups!DayOf(Rollups!Min(events))
Missing(a) == (Oldest .. From(a)) \ Rollups!Present(Oldest, From(a))
Filled(a) == {d \in Missing(a) : Rollups!Cardinality({e \in Missing(a) : e > d}) < Fill}
StopAt(a) == IF Rollups!Cardinality(Filled(a)) = Fill THEN Rollups!Min(Filled(a)) - 1 ELSE Oldest - 1

LEMMA Walk ==
  ASSUME LogTyped, Underway, NEW a \in Aggregator, passPc[a] = "look", events # {}
  PROVE  /\ \A d \in Filled(a) : d \in Rollups!Day /\ d < pass[a].today - 1 /\ ~Rollups!Final(d)
         /\ StopAt(a) \in 0 .. Rollups!Unset
         /\ Filled(a) # {} => Rollups!Max(Filled(a)) \in Filled(a)
  <1>0. Rollups!DayOf(LastPart) \in Nat /\ Fill \in Nat \ {0}
        /\ pass[a].today \in 2 .. Rollups!DayOf(LastPart) /\ cursor[a] \in 0 .. Rollups!Unset
    <2>1. Sound(passPc[a], pass[a])
      BY DEF Underway
    <2> QED
      BY <2>1, DaysTyped, RollupsTyped DEF Rollups!RollupAssumption, LogTyped, Sound, Pass
  <1>1. Oldest \in Rollups!Day
    <2>1. events \subseteq Nat /\ events \subseteq Rollups!Instant
      BY RollupsTyped DEF Rollups!RollupAssumption, LogTyped, Rollups!Instant
    <2>2. Rollups!Min(events) \in Rollups!Instant
      BY <2>1, MinIsIn
    <2> QED
      BY <2>2, DaysTyped DEF Oldest
  <1>2. From(a) \in Int /\ From(a) < pass[a].today - 1
    BY <1>0 DEF Rollups!Unset, From
  <1>3. \A d \in Filled(a) : d \in Rollups!Day /\ d < pass[a].today - 1 /\ ~Rollups!Final(d)
    BY <1>0, <1>1, <1>2 DEF Rollups!Day, Rollups!Present, Filled, Missing
  <1>4. Filled(a) # {} => Rollups!Min(Filled(a)) \in Filled(a)
    <2>1. Filled(a) \subseteq Nat
      BY <1>0, <1>3 DEF Rollups!Day
    <2> QED
      BY <2>1, MinIsIn
  <1>5. Rollups!Cardinality(Filled(a)) = Fill => Filled(a) # {}
    BY <1>0, SameLengths, FS_EmptySet
  <1>6. StopAt(a) \in 0 .. Rollups!Unset
    BY <1>0, <1>1, <1>3, <1>4, <1>5 DEF Rollups!Day, Rollups!Unset, StopAt
  <1>7. Filled(a) # {} => Rollups!Max(Filled(a)) \in Filled(a)
    BY <1>3, MaxIsIn
  <1> QED
    BY <1>3, <1>6, <1>7

(* The pass of one process moves.                                          *)
LEMMA GoMoves ==
  ASSUME LogTyped, NEW a \in Aggregator, NEW l, NEW q, NEW c, Rollups!Go(a, l, q, c)
  PROVE  /\ passPc'[a] = l /\ pass'[a] = q /\ cursor'[a] = c
         /\ \A b \in Aggregator \ {a} :
              passPc'[b] = passPc[b] /\ pass'[b] = pass[b] /\ cursor'[b] = cursor[b]
  BY DEF Rollups!Go, LogTyped

LEMMA Resting == Sound("idle", Rollups!NoPass)
  BY NoPassTyped DEF Sound

(* Where the pass of a process goes from where it is.                      *)
Moved(a) ==
    \E l \in {"idle", "count", "replace", "look"}, q \in Pass, c \in 0 .. Rollups!Unset :
       Rollups!Go(a, l, q, c) /\ Sound(l, q)

LEMMA EndsPass ==
  ASSUME LogTyped, NEW c \in 0 .. Rollups!Unset, NEW a, Rollups!Go(a, "idle", Rollups!NoPass, c)
  PROVE  Moved(a)
  BY Resting, NoPassTyped DEF Moved

LEMMA BeginMoves ==
  ASSUME LogTyped, Underway, NEW a \in Aggregator, Rollups!Begin(a)
  PROVE  \E q \in Pass : /\ Rollups!Go(a, "count", q, cursor[a]) /\ Sound("count", q)
                         /\ q.todo = {} /\ q.day = q.today
  <1>1. /\ Rollups!DayOf(day) \in Rollups!Day /\ Rollups!DayOf(LastPart) \in Nat
        /\ Rollups!DayOf(day) \in 0 .. Rollups!DayOf(LastPart) /\ 2 <= Rollups!DayOf(day)
        /\ day \in Rollups!Instant /\ Rollups!Unset \in 0 .. Rollups!Unset /\ day \in Nat
    BY DaysTyped DEF LogTyped, Rollups!Day, Rollups!Unset
  <1> DEFINE today == Rollups!DayOf(day)
             q == [today |-> today, start |-> day, day |-> today, read |-> {}, over |-> FALSE,
                   todo |-> {}, stop |-> Rollups!Unset]
  <1>2. Rollups!Go(a, "count", q, cursor[a])
    <2>1. [Rollups!NoPass EXCEPT !.today = today, !.start = day, !.day = today] = q
      BY PassBegins
    <2> QED
      BY <2>1 DEF Rollups!Begin
  <1>3. q \in Pass
    <2> HIDE DEF today
    <2> QED
      BY <1>1 DEF Pass, today
  <1>4. /\ q.today = Rollups!DayOf(q.start) /\ q.start = day /\ q.day = q.today /\ q.todo = {}
        /\ q.day = Rollups!DayOf(day)
    OBVIOUS
  <1> HIDE DEF q
  <1>5. Sound("count", q)
    BY <1>1, <1>3, <1>4 DEF Sound, Rollups!Day
  <1> QED
    BY <1>2, <1>3, <1>4, <1>5

LEMMA CountMoves ==
  ASSUME LogTyped, Underway, NEW a \in Aggregator, Rollups!Count(a)
  PROVE  \E q \in Pass : /\ Rollups!Go(a, "replace", q, cursor[a]) /\ Sound("replace", q)
                         /\ q.todo = pass[a].todo /\ q.day = pass[a].day
                         /\ q.today = pass[a].today
                         /\ q.read = Rollups!EventsOf(pass[a].day)
                         /\ q.over = (day >= Rollups!EndOf(pass[a].day))
  <1> DEFINE p == pass[a]
             q == [p EXCEPT !.read = Rollups!EventsOf(p.day), !.over = Rollups!Over(p.day)]
  <1>1. Rollups!Go(a, "replace", q, cursor[a]) /\ passPc[a] = "count"
    BY DEF Rollups!Count
  <1>2. p \in Pass /\ Sound("count", p)
    BY <1>1 DEF Underway, LogTyped
  <1>3. Rollups!EventsOf(p.day) \in SUBSET Rollups!Instant /\ Rollups!Over(p.day) \in BOOLEAN
    BY DEF LogTyped, Rollups!EventsOf, Rollups!Over
  <1> HIDE DEF p
  <1>4. /\ q \in Pass /\ q.todo = p.todo /\ q.day = p.day /\ q.today = p.today
        /\ q.start = p.start /\ q.read = Rollups!EventsOf(p.day) /\ q.over = Rollups!Over(p.day)
    BY <1>2, <1>3 DEF Pass
  <1> HIDE DEF q
  <1>5. Sound("replace", q)
    BY <1>2, <1>4 DEF Sound, Rollups!EventsOf, LogTyped
  <1> QED
    BY <1>1, <1>4, <1>5 DEF p, Rollups!Over

(* What the pass does after a day.                                         *)
LEMMA ReplaceMoves ==
  ASSUME LogTyped, Underway, NEW a \in Aggregator, Rollups!Replace(a)
  PROVE  \E l \in {"idle", "count", "look"}, q \in Pass, c \in 0 .. Rollups!Unset :
            /\ Rollups!Go(a, l, q, c) /\ Sound(l, q)
            /\ q.todo \subseteq pass[a].todo
            /\ l = "count" /\ q.day < q.today - 1 => q.day \in pass[a].todo
  <1> DEFINE p == pass[a]
             r == [p EXCEPT !.read = {}, !.over = FALSE]
  <1>0. /\ Rollups!DayOf(LastPart) \in Nat /\ cursor[a] \in 0 .. Rollups!Unset
        /\ p \in Pass /\ Sound("replace", p) /\ Rollups!NextDay(a)
    BY DaysTyped DEF Underway, LogTyped, Rollups!Replace
  <1>1. /\ r \in Pass /\ r.today = p.today /\ r.start = p.start /\ r.day = p.day
        /\ r.todo = p.todo /\ r.stop = p.stop
    BY <1>0 DEF Pass
  <1>2. \/ r.day = r.today /\ Rollups!Go(a, "count", [r EXCEPT !.day = r.today - 1], cursor[a])
        \/ r.day # r.today /\ r.day = r.today - 1 /\ Rollups!Go(a, "look", r, cursor[a])
        \/ /\ r.day \notin {r.today, r.today - 1} /\ r.todo # {}
           /\ Rollups!Go(a, "count", [r EXCEPT !.day = Rollups!Max(r.todo),
                                     !.todo = @ \ {Rollups!Max(r.todo)}], cursor[a])
        \/ Rollups!Go(a, "idle", Rollups!NoPass, r.stop)
    BY <1>0 DEF Rollups!NextDay
  <1> HIDE DEF p, r
  <1>3. /\ p.today \in 2 .. Rollups!DayOf(LastPart) /\ p.day \in Rollups!Day /\ p.day <= p.today
        /\ p.todo \subseteq Rollups!Day /\ p.stop \in 0 .. Rollups!Unset
        /\ p.today = Rollups!DayOf(p.start) /\ p.start <= day /\ day <= p.start + 1
        /\ p.today - 1 <= p.day => p.todo = {}
        /\ \A d \in p.todo : d < p.today - 1
    BY <1>0 DEF Sound, Pass
  <1> SUFFICES \E l \in {"idle", "count", "look"}, q \in Pass, c \in 0 .. Rollups!Unset :
            /\ Rollups!Go(a, l, q, c) /\ Sound(l, q)
            /\ q.todo \subseteq p.todo
            /\ l = "count" /\ q.day < q.today - 1 => q.day \in p.todo
    BY DEF p
  <1>4. CASE r.day = r.today /\ Rollups!Go(a, "count", [r EXCEPT !.day = r.today - 1], cursor[a])
    <2> DEFINE q == [r EXCEPT !.day = r.today - 1]
    <2>1. r.today - 1 \in Rollups!Day /\ r.today - 1 \in 0 .. Rollups!DayOf(LastPart)
      BY <1>0, <1>1, <1>3 DEF Rollups!Day
    <2>2. /\ q \in Pass /\ q.today = p.today /\ q.start = p.start /\ q.day = p.today - 1
          /\ q.todo = {}
      BY <1>0, <1>1, <1>3, <1>4, <2>1 DEF Pass
    <2>3. Rollups!Go(a, "count", q, cursor[a])
      BY <1>4
    <2> HIDE DEF q
    <2>4. Sound("count", q)
      BY <1>1, <1>3, <2>1, <2>2 DEF Sound
    <2> QED
      BY <1>0, <1>3, <2>2, <2>3, <2>4
  <1>5. CASE r.day # r.today /\ r.day = r.today - 1 /\ Rollups!Go(a, "look", r, cursor[a])
    <2>1. Sound("look", r)
      BY <1>0, <1>1, <1>3, <1>5 DEF Sound
    <2> QED
      BY <1>0, <1>1, <1>5, <2>1
  <1>6. CASE /\ r.day \notin {r.today, r.today - 1} /\ r.todo # {}
             /\ Rollups!Go(a, "count", [r EXCEPT !.day = Rollups!Max(r.todo),
                                       !.todo = @ \ {Rollups!Max(r.todo)}], cursor[a])
    <2> DEFINE m == Rollups!Max(r.todo)
               q == [r EXCEPT !.day = m, !.todo = @ \ {m}]
    <2>1. Rollups!Go(a, "count", q, cursor[a])
      BY <1>6
    <2>2. m \in p.todo /\ m \in Rollups!Day
      BY <1>1, <1>3, <1>6, MaxIsIn
    <2> HIDE DEF m
    <2>a. r \in Pass
      BY <1>1
    <2>3. /\ q = [today |-> r.today, start |-> r.start, day |-> m, read |-> r.read,
                  over |-> r.over, todo |-> r.todo \ {m}, stop |-> r.stop]
      BY <2>a, PassGoesOn
    <2> HIDE DEF q
    <2>4. m \in 0 .. Rollups!DayOf(LastPart) /\ r.todo \ {m} \in SUBSET Rollups!Day
      BY <1>0, <1>1, <1>3, <2>2 DEF Rollups!Day
    <2>5. q \in Pass
      BY <1>1, <2>3, <2>4 DEF Pass
    <2>6. /\ q.today = p.today /\ q.start = p.start /\ q.day = m /\ q.todo = p.todo \ {m}
      BY <1>1, <2>3
    <2>7. p.today \in Nat /\ m \in Nat /\ m < p.today - 1
      BY <1>0, <1>3, <2>2 DEF Rollups!Day
    <2>8. Sound("count", q)
      BY <1>3, <2>2, <2>5, <2>6, <2>7 DEF Sound
    <2> QED
      BY <1>0, <2>1, <2>2, <2>5, <2>6, <2>8
  <1>7. CASE Rollups!Go(a, "idle", Rollups!NoPass, r.stop)
    BY <1>1, <1>3, <1>7, NoPassTyped, Resting
  <1> QED
    BY <1>2, <1>4, <1>5, <1>6, <1>7

(* The walk finds nothing to do, or the days it is going to fill.          *)
LEMMA LookMoves ==
  ASSUME LogTyped, Underway, NEW a \in Aggregator, Rollups!Look(a)
  PROVE  \/ \E c \in 0 .. Rollups!Unset : Rollups!Go(a, "idle", Rollups!NoPass, c)
         \/ \E q \in Pass :
              /\ Rollups!Go(a, "count", q, cursor[a]) /\ Sound("count", q)
              /\ \A d \in q.todo \union {q.day} : d \in Rollups!Day /\ ~Rollups!Final(d)
  <1> DEFINE p == pass[a]
             m == Rollups!Max(Filled(a))
             q == [p EXCEPT !.day = m, !.todo = Filled(a) \ {m}, !.stop = StopAt(a)]
  <1>0. /\ Rollups!DayOf(LastPart) \in Nat /\ cursor[a] \in 0 .. Rollups!Unset
        /\ p \in Pass /\ Sound("look", p) /\ passPc[a] = "look"
    BY DaysTyped DEF Underway, LogTyped, Rollups!Look
  <1>1. \/ Rollups!Go(a, "idle", Rollups!NoPass, cursor[a])
        \/ events # {} /\ Rollups!Go(a, "idle", Rollups!NoPass, StopAt(a))
        \/ events # {} /\ Filled(a) # {} /\ Rollups!Go(a, "count", q, cursor[a])
    BY DEF Rollups!Look, From, Oldest, Missing, Filled, StopAt
  <1>2. CASE Rollups!Go(a, "idle", Rollups!NoPass, cursor[a])
    BY <1>0, <1>2
  <1>3. CASE events # {} /\ Rollups!Go(a, "idle", Rollups!NoPass, StopAt(a))
    BY <1>0, <1>3, Walk
  <1>4. CASE events # {} /\ Filled(a) # {} /\ Rollups!Go(a, "count", q, cursor[a])
    <2>1. /\ m \in Filled(a) /\ StopAt(a) \in 0 .. Rollups!Unset
          /\ \A d \in Filled(a) : d \in Rollups!Day /\ d < p.today - 1 /\ ~Rollups!Final(d)
      BY <1>0, <1>4, Walk
    <2>2. p.today \in Nat /\ 2 <= p.today /\ p.today = Rollups!DayOf(p.start)
          /\ p.start <= day /\ day <= p.start + 1
      BY <1>0 DEF Sound, Pass
    <2>3. Rollups!Go(a, "count", q, cursor[a])
      BY <1>4
    <2> HIDE DEF m, p
    <2>a. p \in Pass
      BY <1>0
    <2>4. q = [today |-> p.today, start |-> p.start, day |-> m, read |-> p.read, over |-> p.over,
               todo |-> Filled(a) \ {m}, stop |-> StopAt(a)]
      <3> DEFINE S == Filled(a) \ {m}  s == StopAt(a)  r == [p EXCEPT !.day = m, !.todo = S]
      <3> HIDE DEF S, s
      <3>1. r = [today |-> p.today, start |-> p.start, day |-> m, read |-> p.read,
                 over |-> p.over, todo |-> S, stop |-> p.stop]
        BY <2>a, PassGoesOn
      <3>2. [p EXCEPT !.day = m, !.todo = S, !.stop = s] = [r EXCEPT !.stop = s]
        BY <2>a DEF Pass
      <3> HIDE DEF r
      <3>3. [r EXCEPT !.stop = s]
              = [today |-> p.today, start |-> p.start, day |-> m, read |-> p.read,
                 over |-> p.over, todo |-> S, stop |-> s]
        BY <3>1
      <3> QED
        BY <3>2, <3>3 DEF S, s
    <2> HIDE DEF q
    <2>5. m \in Rollups!Day /\ m \in 0 .. Rollups!DayOf(LastPart)
          /\ Filled(a) \ {m} \in SUBSET Rollups!Day /\ m < p.today - 1 /\ m \in Nat
      BY <1>0, <2>1 DEF Rollups!Day
    <2>6. q \in Pass
      BY <1>0, <2>1, <2>4, <2>5 DEF Pass
    <2>7. /\ q.today = p.today /\ q.start = p.start /\ q.day = m /\ q.todo = Filled(a) \ {m}
      BY <2>4
    <2>8. Sound("count", q)
      <3>1. /\ q.day \notin q.todo /\ ~(q.today - 1 <= q.day)
            /\ q.day \in Rollups!Day /\ q.day <= q.today
        BY <2>2, <2>5, <2>7
      <3>2. \A d \in q.todo : d < q.today - 1
        BY <2>1, <2>7
      <3> QED
        BY <2>2, <2>6, <2>7, <3>1, <3>2 DEF Sound
    <2>9. \A d \in q.todo \union {q.day} : d \in Rollups!Day /\ ~Rollups!Final(d)
      BY <2>1, <2>7
    <2> QED
      BY <2>3, <2>6, <2>8, <2>9
  <1> QED
    BY <1>1, <1>2, <1>3, <1>4

(* A step of one process leaves the clock and the log as they are.         *)
Steps(a) == Rollups!Begin(a) \/ Rollups!Count(a) \/ Rollups!Replace(a) \/ Rollups!Look(a)
            \/ Rollups!Fail(a) \/ Rollups!Restart(a)

LEMMA PassMoves ==
  ASSUME LogTyped, Underway, NEW a \in Aggregator, Steps(a)
  PROVE  Moved(a) /\ UNCHANGED <<day, events, recorded>>
  <1>0. cursor[a] \in 0 .. Rollups!Unset /\ Rollups!Unset \in 0 .. Rollups!Unset
    BY DaysTyped DEF LogTyped, Rollups!Unset
  <1>1. UNCHANGED <<day, events, recorded>>
    BY DEF Steps, Rollups!Begin, Rollups!Count, Rollups!Replace, Rollups!Look, Rollups!Fail,
       Rollups!Restart, Rollups!log
  <1>2. CASE Rollups!Begin(a)
    BY <1>0, <1>1, <1>2, BeginMoves DEF Moved
  <1>3. CASE Rollups!Count(a)
    BY <1>0, <1>1, <1>3, CountMoves DEF Moved
  <1>4. CASE Rollups!Replace(a)
    BY <1>1, <1>4, ReplaceMoves DEF Moved
  <1>5. CASE Rollups!Look(a)
    <2>1. CASE \E c \in 0 .. Rollups!Unset : Rollups!Go(a, "idle", Rollups!NoPass, c)
      BY <1>1, <2>1, EndsPass
    <2>2. CASE \E q \in Pass : Rollups!Go(a, "count", q, cursor[a]) /\ Sound("count", q)
      BY <1>0, <1>1, <2>2 DEF Moved
    <2> QED
      BY <1>5, <2>1, <2>2, LookMoves
  <1>6. CASE Rollups!Fail(a)
    BY <1>0, <1>1, <1>6, EndsPass DEF Rollups!Fail
  <1>7. CASE Rollups!Restart(a)
    BY <1>0, <1>1, <1>7, EndsPass DEF Rollups!Restart
  <1> QED
    BY <1>1, <1>2, <1>3, <1>4, <1>5, <1>6, <1>7 DEF Steps

(* A step of the log leaves the passes as they are.                        *)
Logs == Rollups!Record \/ Rollups!Sweep \/ Rollups!Tick

LEMMA RollupCases ==
  ASSUME [Rollups!Next]_(Rollups!vars)
  PROVE  Logs \/ (\E a \in Aggregator : Steps(a)) \/ UNCHANGED Rollups!vars
  BY DEF Rollups!Next, Logs, Steps

LEMMA LogStays ==
  ASSUME Logs
  PROVE  UNCHANGED <<rollup, passPc, pass, cursor, settled, early, contested>>
  BY DEF Logs, Rollups!Record, Rollups!Sweep, Rollups!Tick, Rollups!ghosts

LEMMA LogStep == ASSUME LogTyped, Underway, [Rollups!Next]_(Rollups!vars) PROVE LogTyped'
  <1>0. LastPart \in Nat /\ DayLength \in Nat \ {0} /\ Rollups!DayOf(LastPart) \in Nat
    BY DaysTyped, RollupsTyped DEF Rollups!RollupAssumption
  <1>1. CASE Logs
    <2>1. /\ day' \in Rollups!Instant /\ DayLength <= day' /\ recorded \subseteq recorded'
          /\ recorded' \subseteq Rollups!Instant /\ events' \subseteq recorded'
      <3>1. day \in 0 .. LastPart /\ DayLength <= day /\ recorded \subseteq 0 .. LastPart
            /\ events \subseteq recorded
        BY DEF LogTyped, Rollups!Instant
      <3>2. CASE Rollups!Record
        BY <3>1, <3>2 DEF Rollups!Record, Rollups!Instant
      <3>3. CASE Rollups!Sweep
        BY <3>1, <3>3 DEF Rollups!Sweep, Rollups!Instant
      <3>4. CASE Rollups!Tick
        BY <1>0, <3>1, <3>4 DEF Rollups!Tick, Rollups!Instant
      <3> QED
        BY <1>1, <3>2, <3>3, <3>4 DEF Logs
    <2> QED
      BY <1>1, <2>1, LogStays DEF LogTyped
  <1>2. ASSUME NEW a \in Aggregator, Steps(a) PROVE LogTyped'
    <2>1. UNCHANGED <<day, events, recorded>>
      BY <1>2, PassMoves
    <2>2. PICK l \in {"idle", "count", "replace", "look"}, q \in Pass, c \in 0 .. Rollups!Unset :
             Rollups!Go(a, l, q, c)
      BY <1>2, PassMoves DEF Moved
    <2>3. /\ passPc' \in [Aggregator -> {"idle", "count", "replace", "look"}]
          /\ pass' \in [Aggregator -> Pass] /\ cursor' \in [Aggregator -> 0 .. Rollups!Unset]
      BY <2>2 DEF Rollups!Go, LogTyped
    <2>4. /\ rollup' \in [Rollups!Day -> [of : SUBSET Rollups!Instant, over : BOOLEAN]]
          /\ settled' \subseteq recorded
          /\ early' \subseteq Rollups!Day /\ contested' \subseteq Rollups!Day
      <3>1. CASE Rollups!Replace(a)
        <4> DEFINE d == pass[a].day  S == pass[a].read
        <4>1. d \in Rollups!Day /\ S \in SUBSET Rollups!Instant /\ S \subseteq recorded
          <5>1. Sound("replace", pass[a])
            BY <3>1 DEF Rollups!Replace, Underway
          <5> QED
            BY <5>1 DEF Sound, Pass
        <4>2. [of |-> S, over |-> Rollups!Over(d)] \in [of : SUBSET Rollups!Instant, over : BOOLEAN]
          BY <4>1 DEF Rollups!Over
        <4>3. rollup' = [rollup EXCEPT ![d] = [of |-> S, over |-> Rollups!Over(d)]]
          BY <3>1 DEF Rollups!Replace
        <4>4. /\ settled' \in {settled, settled \union S}
              /\ early' \in {early \union {d}, early \ {d}}
              /\ contested' \in {contested, contested \union {d}}
          BY <3>1 DEF Rollups!Replace
        <4> HIDE DEF d, S
        <4> QED
          BY <4>1, <4>2, <4>3, <4>4 DEF LogTyped
      <3>2. CASE ~Rollups!Replace(a)
        BY <1>2, <3>2 DEF Steps, Rollups!Begin, Rollups!Count, Rollups!Look, Rollups!Fail,
           Rollups!Restart, Rollups!ghosts, LogTyped
      <3> QED
        BY <3>1, <3>2
    <2> QED
      BY <2>1, <2>3, <2>4 DEF LogTyped
  <1>3. CASE UNCHANGED Rollups!vars
    BY <1>3 DEF Rollups!vars, Rollups!log, Rollups!ghosts, LogTyped
  <1> QED
    BY <1>1, <1>2, <1>3, RollupCases

LEMMA UnderwayStep == ASSUME LogTyped, Underway, [Rollups!Next]_(Rollups!vars) PROVE Underway'
  <1>1. CASE Logs
    <2>1. UNCHANGED <<passPc, pass>>
      BY <1>1, LogStays
    <2>2. ASSUME NEW a \in Aggregator PROVE Sound(passPc[a], pass[a])'
      <3>1. Sound(passPc[a], pass[a])
        BY DEF Underway
      <3>2. recorded \subseteq recorded'
        BY <1>1 DEF Logs, Rollups!Record, Rollups!Sweep, Rollups!Tick
      <3>3. passPc[a] # "idle" => pass[a].start <= day' /\ day' <= pass[a].start + 1
        <4>1. day \in Nat /\ pass[a].start \in Nat
          BY <3>1, DaysTyped DEF Sound, Pass, LogTyped
        <4>2. day' = day \/ (day' = day + 1 /\ (passPc[a] = "idle" \/ day = pass[a].start))
          BY <1>1 DEF Logs, Rollups!Record, Rollups!Sweep, Rollups!Tick
        <4> QED
          BY <3>1, <4>1, <4>2 DEF Sound
      <3> QED
        BY <2>1, <3>1, <3>2, <3>3 DEF Sound
    <2> QED
      BY <2>2 DEF Underway
  <1>2. ASSUME NEW a \in Aggregator, Steps(a) PROVE Underway'
    <2>1. UNCHANGED <<day, recorded>>
      BY <1>2, PassMoves
    <2>2. PICK l \in {"idle", "count", "replace", "look"}, q \in Pass, c \in 0 .. Rollups!Unset :
             Rollups!Go(a, l, q, c) /\ Sound(l, q)
      BY <1>2, PassMoves DEF Moved
    <2>3. ASSUME NEW b \in Aggregator PROVE Sound(passPc[b], pass[b])'
      <3>1. CASE b = a
        BY <2>1, <2>2, <3>1, GoMoves DEF Sound
      <3>2. CASE b # a
        <4>1. passPc'[b] = passPc[b] /\ pass'[b] = pass[b] /\ Sound(passPc[b], pass[b])
          BY <2>2, <3>2, GoMoves DEF Underway
        <4> QED
          BY <2>1, <4>1 DEF Sound
      <3> QED
        BY <3>1, <3>2
    <2> QED
      BY <2>3 DEF Underway
  <1>3. CASE UNCHANGED Rollups!vars
    BY <1>3 DEF Rollups!vars, Rollups!log, Underway, Sound
  <1> QED
    BY <1>1, <1>2, <1>3, RollupCases

LEMMA AloneStep == ASSUME LogTyped, Underway, Alone, [Rollups!Next]_(Rollups!vars) PROVE Alone'
  <1>1. CASE Logs
    BY <1>1, LogStays DEF Alone
  <1>2. ASSUME NEW a \in Aggregator, Steps(a) PROVE Alone'
    <2>1. PICK l, q, c : Rollups!Go(a, l, q, c) /\ (l = "replace" => Rollups!Count(a))
      <3>1. CASE Rollups!Count(a)
        BY <1>2, <3>1 DEF Rollups!Count
      <3>2. CASE Rollups!Replace(a)
        BY <3>2, ReplaceMoves
      <3>3. CASE Rollups!Look(a)
        BY <3>3, LookMoves
      <3>4. CASE Rollups!Begin(a) \/ Rollups!Fail(a) \/ Rollups!Restart(a)
        BY <3>4 DEF Rollups!Begin, Rollups!Fail, Rollups!Restart
      <3> QED
        BY <1>2, <3>1, <3>2, <3>3, <3>4 DEF Steps
    <2>2. /\ passPc'[a] = l
          /\ \A b \in Aggregator \ {a} : passPc'[b] = passPc[b]
      BY <2>1, GoMoves
    <2>3. Rollups!Count(a) => \A b \in Aggregator : passPc[b] # "replace"
      BY DEF Rollups!Count, Rollups!Locked
    <2> QED
      BY <2>1, <2>2, <2>3 DEF Alone
  <1>3. CASE UNCHANGED Rollups!vars
    BY <1>3 DEF Rollups!vars, Alone
  <1> QED
    BY <1>1, <1>2, <1>3, RollupCases

(* The rows of a day are replaced by what its pass has read.               *)
LEMMA Replaces ==
  ASSUME LogTyped, Underway, NEW a \in Aggregator, Rollups!Replace(a)
  PROVE  LET d == pass[a].day IN
         /\ d \in Rollups!Day /\ passPc[a] = "replace" /\ Sound("replace", pass[a])
         /\ rollup'[d].of = pass[a].read /\ rollup'[d].over = Rollups!Over(d)
         /\ \A e \in Rollups!Day \ {d} : rollup'[e] = rollup[e]
         /\ \A t \in settled' : t \in settled \/ (t \in pass[a].read /\ Rollups!Over(d))
         /\ settled \subseteq settled' /\ contested \subseteq contested'
         /\ \A e \in Rollups!Day \ {d} : e \notin early' => e \notin early
         /\ d \notin early' /\ Rollups!Over(d) => pass[a].over
         /\ Rollups!Over(d) /\ (\E b \in Aggregator \ {a} : Rollups!Filling(b, d))
              => d \in contested'
  <1> DEFINE d == pass[a].day
  <1>1. passPc[a] = "replace" /\ Sound("replace", pass[a])
    BY DEF Rollups!Replace, Underway
  <1>2. d \in Rollups!Day
    BY <1>1 DEF Sound
  <1>3. rollup' = [rollup EXCEPT ![d] = [of |-> pass[a].read, over |-> Rollups!Over(d)]]
    BY DEF Rollups!Replace
  <1>4. settled' = IF Rollups!Over(d) THEN settled \union pass[a].read ELSE settled
    BY DEF Rollups!Replace
  <1>5. early' = IF Rollups!Over(d) /\ ~pass[a].over THEN early \union {d} ELSE early \ {d}
    BY DEF Rollups!Replace
  <1>6. contested' = IF Rollups!Over(d) /\ \E b \in Aggregator \ {a} : Rollups!Filling(b, d)
                     THEN contested \union {d} ELSE contested
    BY DEF Rollups!Replace
  <1> HIDE DEF d
  <1>7. /\ rollup'[d].of = pass[a].read /\ rollup'[d].over = Rollups!Over(d)
        /\ \A e \in Rollups!Day \ {d} : rollup'[e] = rollup[e]
    BY <1>2, <1>3 DEF LogTyped
  <1>8. /\ \A t \in settled' : t \in settled \/ (t \in pass[a].read /\ Rollups!Over(d))
        /\ settled \subseteq settled' /\ contested \subseteq contested'
    BY <1>4, <1>6
  <1>9. /\ \A e \in Rollups!Day \ {d} : e \notin early' => e \notin early
        /\ d \notin early' /\ Rollups!Over(d) => pass[a].over
    BY <1>5
  <1>10. Rollups!Over(d) /\ (\E b \in Aggregator \ {a} : Rollups!Filling(b, d)) => d \in contested'
    BY <1>6
  <1> QED
    BY <1>1, <1>2, <1>7, <1>8, <1>9, <1>10 DEF d

(* The steps that leave the rows as they are.                              *)
Lets(a) == Rollups!Begin(a) \/ Rollups!Count(a) \/ Rollups!Look(a) \/ Rollups!Fail(a)
           \/ Rollups!Restart(a)

LEMMA LetsStay ==
  ASSUME NEW a, Lets(a)
  PROVE  UNCHANGED <<day, events, recorded, rollup, settled, early, contested>>
  BY DEF Lets, Rollups!Begin, Rollups!Count, Rollups!Look, Rollups!Fail, Rollups!Restart,
     Rollups!log, Rollups!ghosts

LEMMA CompleteStep ==
  ASSUME LogTyped, Underway, Complete, [Rollups!Next]_(Rollups!vars)
  PROVE  Complete'
  <1>0. LastPart \in Nat /\ day \in Nat /\ \A d \in Rollups!Day : Rollups!EndOf(d) \in Nat
    BY DaysTyped, RollupsTyped DEF Rollups!RollupAssumption, LogTyped, Rollups!Instant
  <1>1. CASE Logs
    <2>0. UNCHANGED <<rollup, passPc, pass, early>>
      BY <1>1, LogStays
    <2>1. day' \in Nat /\ day <= day'
      BY <1>0, <1>1 DEF Logs, Rollups!Record, Rollups!Sweep, Rollups!Tick
    <2>2. \A d \in Rollups!Day : Rollups!EndOf(d) <= day
            => Rollups!EventsOf(d)' \subseteq Rollups!EventsOf(d)
      <3>1. Rollups!DayOf(day) \in Nat /\ day < Rollups!EndOf(Rollups!DayOf(day))
            /\ Rollups!DayOf(day) \in Rollups!Day
        BY <1>0, DayBounds, DaysTyped DEF LogTyped
      <3>2. events' \subseteq events \union {day}
        BY <1>1 DEF Logs, Rollups!Record, Rollups!Sweep, Rollups!Tick
      <3>3. \A d \in Rollups!Day : Rollups!EndOf(d) <= day => d # Rollups!DayOf(day)
        BY <1>0, <3>1
      <3> QED
        BY <3>2, <3>3 DEF Rollups!EventsOf
    <2>3. \A d \in Rollups!Day : Rollups!EndOf(d) <= day => Rollups!EndOf(d) <= day'
      BY <1>0, <2>1
    <2>4. ASSUME NEW a \in Aggregator PROVE ReadAll(passPc[a], pass[a])'
      <3>1. ReadAll(passPc[a], pass[a]) /\ Sound(passPc[a], pass[a])
        BY DEF Complete, Underway
      <3>2. passPc[a] = "replace" => pass[a].day \in Rollups!Day
        BY <3>1 DEF Sound
      <3>3. SUFFICES ASSUME passPc[a] = "replace", pass[a].over
                     PROVE  /\ Rollups!EndOf(pass[a].day) <= day'
                            /\ Rollups!EventsOf(pass[a].day)' \subseteq pass[a].read
        BY <2>0 DEF ReadAll, Rollups!EventsOf, Rollups!EndOf
      <3>4. PICK d \in Rollups!Day : d = pass[a].day
        BY <3>2, <3>3
      <3>5. Rollups!EndOf(d) <= day /\ Rollups!EventsOf(d) \subseteq pass[a].read
        BY <3>1, <3>3, <3>4 DEF ReadAll
      <3>6. Rollups!EndOf(d) <= day' /\ Rollups!EventsOf(d)' \subseteq pass[a].read
        BY <2>2, <2>3, <3>5
      <3>7. Rollups!EventsOf(pass[a].day)' = Rollups!EventsOf(d)'
        BY <2>0, <3>4 DEF Rollups!EventsOf
      <3> QED
        BY <3>4, <3>6, <3>7
    <2>5. ASSUME NEW d \in Rollups!Day, rollup'[d].over
          PROVE  /\ Rollups!EndOf(d) <= day'
                 /\ d \notin early' => Rollups!EventsOf(d)' \subseteq rollup'[d].of
      BY <2>0, <2>2, <2>3, <2>5 DEF Complete
    <2> QED
      BY <2>0, <2>4, <2>5 DEF Complete, Rollups!EndOf
  <1>2. ASSUME NEW a \in Aggregator, Steps(a) PROVE Complete'
    <2>1. UNCHANGED <<day, events>>
      BY <1>2, PassMoves
    <2>2. PICK l, q, c : Rollups!Go(a, l, q, c) /\ ReadAll(l, q)
      <3>1. CASE Rollups!Count(a)
        <4>1. PICK q \in Pass : /\ Rollups!Go(a, "replace", q, cursor[a])
                                /\ q.day = pass[a].day /\ q.read = Rollups!EventsOf(pass[a].day)
                                /\ q.over = (day >= Rollups!EndOf(pass[a].day))
          BY <3>1, CountMoves
        <4>2. pass[a].day \in Rollups!Day
          BY <3>1 DEF Rollups!Count, Underway, Sound
        <4>3. ReadAll("replace", q)
          BY <1>0, <4>1, <4>2 DEF ReadAll
        <4> QED
          BY <4>1, <4>3
      <3>2. CASE Rollups!Replace(a)
        <4>1. PICK l \in {"idle", "count", "look"}, q \in Pass, c \in 0 .. Rollups!Unset : Rollups!Go(a, l, q, c)
          BY <3>2, ReplaceMoves
        <4> QED
          BY <4>1 DEF ReadAll
      <3>3. CASE Rollups!Look(a)
        BY <3>3, LookMoves DEF ReadAll
      <3>4. CASE Rollups!Begin(a)
        BY <3>4, BeginMoves DEF ReadAll
      <3>5. CASE Rollups!Fail(a) \/ Rollups!Restart(a)
        BY <3>5 DEF Rollups!Fail, Rollups!Restart, ReadAll
      <3> QED
        BY <1>2, <3>1, <3>2, <3>3, <3>4, <3>5 DEF Steps
    <2>3. ASSUME NEW b \in Aggregator PROVE ReadAll(passPc[b], pass[b])'
      <3>1. \/ passPc'[b] = l /\ pass'[b] = q
            \/ passPc'[b] = passPc[b] /\ pass'[b] = pass[b] /\ ReadAll(passPc[b], pass[b])
        BY <2>2, GoMoves DEF Complete
      <3> QED
        BY <2>1, <2>2, <3>1 DEF ReadAll, Rollups!EventsOf, Rollups!EndOf
    <2>4. ASSUME NEW d \in Rollups!Day, rollup'[d].over
          PROVE  /\ Rollups!EndOf(d) <= day
                 /\ d \notin early' => Rollups!EventsOf(d) \subseteq rollup'[d].of
      <3>1. CASE Lets(a)
        BY <2>4, <3>1, LetsStay DEF Complete
      <3>2. CASE Rollups!Replace(a) /\ d # pass[a].day
        BY <2>4, <3>2, Replaces DEF Complete
      <3>3. CASE Rollups!Replace(a) /\ d = pass[a].day
        <4>1. /\ passPc[a] = "replace" /\ rollup'[d].of = pass[a].read
              /\ Rollups!Over(d) /\ (d \notin early' => pass[a].over)
          BY <2>4, <3>3, Replaces
        <4>2. ReadAll(passPc[a], pass[a])
          BY DEF Complete
        <4> QED
          BY <1>0, <3>3, <4>1, <4>2 DEF ReadAll, Rollups!Over
      <3> QED
        BY <1>2, <3>1, <3>2, <3>3 DEF Steps, Lets
    <2> QED
      BY <2>1, <2>3, <2>4 DEF Complete, Rollups!EventsOf, Rollups!EndOf
  <1>3. CASE UNCHANGED Rollups!vars
    BY <1>3 DEF Rollups!vars, Rollups!log, Rollups!ghosts, Complete, ReadAll, Rollups!EventsOf,
       Rollups!EndOf
  <1> QED
    BY <1>1, <1>2, <1>3, RollupCases

(* An event of today or of yesterday is not expired while the pass is at   *)
(* it.                                                                     *)
LEMMA StillThere ==
  ASSUME LogTyped, CountedLog, 2 * DayLength < EventsKept,
         NEW l, NEW q, l # "idle", Sound(l, q), q.today - 1 <= q.day, q.day \in Rollups!Day,
         NEW t \in settled, Rollups!DayOf(t) = q.day
  PROVE  t \in events
  <1>0. DayLength \in Nat \ {0} /\ EventsKept \in Nat /\ LastPart \in Nat /\ day \in Nat
    BY RollupsTyped DEF Rollups!RollupAssumption, LogTyped, Rollups!Instant
  <1>1. t \in recorded /\ t \in Nat
    BY <1>0 DEF LogTyped, Rollups!Instant
  <1>2. SUFFICES ASSUME t + EventsKept <= day PROVE FALSE
    BY <1>1 DEF CountedLog
  <1> DEFINE T == q.today  d == q.day  s == q.start
  <1>3. T \in Nat /\ d \in Nat /\ s \in Nat /\ T - 1 <= d /\ T = Rollups!DayOf(s) /\ day <= s + 1
    BY <1>0, DaysTyped DEF Sound, Pass, Rollups!Instant
  <1>4. (d - 1) * DayLength <= t
    BY <1>1, DayBounds
  <1>5. (T - 2) * DayLength <= (d - 1) * DayLength
    BY <1>0, <1>3, ProductMonotone
  <1>6. s < T * DayLength
    BY <1>3, DayBounds DEF Rollups!EndOf
  <1> HIDE DEF T, d, s
  <1>7. (T - 2) * DayLength = T * DayLength - 2 * DayLength
    BY <1>0, <1>3
  <1>8. /\ T * DayLength \in Int /\ (T - 2) * DayLength \in Int /\ (d - 1) * DayLength \in Int
    BY <1>0, <1>3
  <1> QED
    BY <1>0, <1>1, <1>2, <1>3, <1>4, <1>5, <1>6, <1>7, <1>8

LEMMA CountedLogStep ==
  ASSUME LogTyped, Underway, Alone, Complete, CountedLog, [Rollups!Next]_(Rollups!vars),
         2 * DayLength < EventsKept
  PROVE  CountedLog'
  <1>0. EventsKept \in Nat /\ day \in Nat /\ recorded \subseteq Nat /\ settled \subseteq recorded
        /\ \A t \in settled : Rollups!DayOf(t) \in Rollups!Day
    BY RollupsTyped, DaysTyped DEF Rollups!RollupAssumption, LogTyped, Rollups!Instant
  <1>1. CASE Logs
    <2>1. UNCHANGED <<rollup, passPc, pass, settled, contested>>
      BY <1>1, LogStays
    <2>2. \A t \in settled : t \notin events => t \notin events'
      BY <1>0, <1>1 DEF Logs, Rollups!Record, Rollups!Sweep, Rollups!Tick
    <2>3. ASSUME NEW t \in recorded' \ events' PROVE t + EventsKept <= day'
      <3>1. day' \in Nat /\ day <= day'
        BY <1>0, <1>1 DEF Logs, Rollups!Record, Rollups!Sweep, Rollups!Tick
      <3>2. t \in recorded /\ (t \notin events \/ ~(t + EventsKept > day))
        BY <1>1, <2>3 DEF Logs, Rollups!Record, Rollups!Sweep, Rollups!Tick
      <3>3. t \in Nat /\ (t \notin events => t + EventsKept <= day)
        BY <1>0, <3>2 DEF CountedLog
      <3>4. t + EventsKept <= day
        BY <1>0, <3>2, <3>3
      <3> QED
        BY <1>0, <3>1, <3>3, <3>4
    <2>4. \A t \in settled : \A S : KeptIn(t, S) => KeptIn(t, S)'
      BY <2>1, <2>2 DEF KeptIn, Rollups!DayOf
    <2>5. ASSUME NEW t \in settled'
          PROVE  KeptIn(t, rollup[Rollups!DayOf(t)].of)' /\ rollup'[Rollups!DayOf(t)].over
      BY <2>1, <2>2 DEF CountedLog, KeptIn, Rollups!DayOf
    <2>6. ASSUME NEW a \in Aggregator PROVE Spares(passPc[a], pass[a])'
      <3>1. Spares(passPc[a], pass[a])
        BY DEF CountedLog
      <3> QED
        BY <2>1, <2>2, <3>1 DEF Spares, KeptIn, Rollups!DayOf
    <2> QED
      BY <2>3, <2>5, <2>6 DEF CountedLog, Rollups!DayOf
  <1>2. ASSUME NEW a \in Aggregator, Lets(a) PROVE CountedLog'
    <2>1. UNCHANGED <<day, events, recorded, rollup, settled, contested>>
      BY <1>2, LetsStay
    <2>2. PICK l, q, c : Rollups!Go(a, l, q, c) /\ Spares(l, q)
      <3>1. CASE Rollups!Count(a)
        <4>1. PICK q \in Pass : /\ Rollups!Go(a, "replace", q, cursor[a]) /\ Sound("replace", q)
                                /\ q.todo = pass[a].todo /\ q.day = pass[a].day
                                /\ q.today = pass[a].today /\ q.read = Rollups!EventsOf(pass[a].day)
          BY <3>1, CountMoves
        <4>2. Spares("count", pass[a]) /\ q.day \in Rollups!Day
          BY <3>1, <4>1 DEF Rollups!Count, CountedLog, Sound
        <4>3. ASSUME NEW t \in settled, Rollups!DayOf(t) = q.day PROVE KeptIn(t, q.read)
          <5>1. q.day \in Nat /\ q.today \in Nat
            BY <4>1, <4>2, DaysTyped DEF Pass, Rollups!Day
          <5>2. CASE q.day < q.today - 1
            BY <4>1, <4>2, <4>3, <5>2 DEF Spares, KeptIn, Rollups!EventsOf
          <5>3. CASE q.today - 1 <= q.day
            <6>1. t \in events
              BY <4>1, <4>2, <4>3, <5>3, StillThere
            <6> QED
              BY <4>1, <4>3, <6>1 DEF KeptIn, Rollups!EventsOf
          <5> QED
            BY <5>1, <5>2, <5>3
        <4>4. Spares("replace", q)
          BY <4>1, <4>2, <4>3 DEF Spares
        <4> QED
          BY <4>1, <4>4
      <3>2. CASE Rollups!Begin(a)
        <4>1. PICK q \in Pass : /\ Rollups!Go(a, "count", q, cursor[a])
                                /\ q.todo = {} /\ q.day = q.today
          BY <3>2, BeginMoves
        <4>2. q.today \in Nat
          BY <4>1, DaysTyped DEF Pass
        <4> QED
          BY <4>1, <4>2 DEF Spares
      <3>3. CASE Rollups!Look(a)
        <4>1. CASE \E c \in 0 .. Rollups!Unset : Rollups!Go(a, "idle", Rollups!NoPass, c)
          BY <4>1, NoPassTyped DEF Spares
        <4>2. CASE \E q \in Pass :
                     /\ Rollups!Go(a, "count", q, cursor[a]) /\ Sound("count", q)
                     /\ \A d \in q.todo \union {q.day} : d \in Rollups!Day /\ ~Rollups!Final(d)
          <5>1. PICK q \in Pass :
                     /\ Rollups!Go(a, "count", q, cursor[a])
                     /\ \A d \in q.todo \union {q.day} : d \in Rollups!Day /\ ~Rollups!Final(d)
            BY <4>2
          <5>2. ASSUME NEW t \in settled, Rollups!DayOf(t) \in q.todo \union {q.day}
                PROVE  Rollups!DayOf(t) \in contested
            BY <5>1, <5>2 DEF CountedLog, KeptIn, Rollups!Final
          <5>3. Spares("count", q)
            BY <5>2 DEF Spares
          <5> QED
            BY <5>1, <5>3
        <4> QED
          BY <3>3, <4>1, <4>2, LookMoves
      <3>4. CASE Rollups!Fail(a) \/ Rollups!Restart(a)
        <4>1. Spares("idle", Rollups!NoPass)
          BY NoPassTyped DEF Spares
        <4> QED
          BY <3>4, <4>1 DEF Rollups!Fail, Rollups!Restart
      <3> QED
        BY <1>2, <3>1, <3>2, <3>3, <3>4 DEF Lets
    <2>3. ASSUME NEW b \in Aggregator PROVE Spares(passPc[b], pass[b])'
      <3>1. \/ passPc'[b] = l /\ pass'[b] = q
            \/ passPc'[b] = passPc[b] /\ pass'[b] = pass[b] /\ Spares(passPc[b], pass[b])
        BY <2>2, GoMoves DEF CountedLog
      <3> QED
        BY <2>1, <2>2, <3>1 DEF Spares, KeptIn, Rollups!DayOf
    <2>4. ASSUME NEW t \in settled'
          PROVE  KeptIn(t, rollup[Rollups!DayOf(t)].of)' /\ rollup'[Rollups!DayOf(t)].over
      BY <2>1 DEF CountedLog, KeptIn, Rollups!DayOf
    <2> QED
      BY <2>1, <2>3, <2>4 DEF CountedLog, Rollups!DayOf
  <1>3. ASSUME NEW a \in Aggregator, Rollups!Replace(a) PROVE CountedLog'
    <2> DEFINE d == pass[a].day
    <2>0. UNCHANGED <<day, events, recorded>>
      BY <1>3 DEF Rollups!Replace, Rollups!log
    <2>1. /\ d \in Rollups!Day /\ passPc[a] = "replace"
          /\ rollup'[d].of = pass[a].read /\ rollup'[d].over = Rollups!Over(d)
          /\ \A e \in Rollups!Day \ {d} : rollup'[e] = rollup[e]
          /\ \A t \in settled' : t \in settled \/ (t \in pass[a].read /\ Rollups!Over(d))
          /\ contested \subseteq contested'
          /\ Rollups!Over(d) /\ (\E b \in Aggregator \ {a} : Rollups!Filling(b, d))
               => d \in contested'
          /\ \A t \in pass[a].read : Rollups!DayOf(t) = d
          /\ d \notin pass[a].todo
      BY <1>3, Replaces DEF Sound
    <2> HIDE DEF d
    <2>2. \A t, S : KeptIn(t, S) => KeptIn(t, S)'
      BY <2>0, <2>1 DEF KeptIn, Rollups!DayOf
    <2>3. ASSUME NEW t \in settled'
          PROVE  KeptIn(t, rollup[Rollups!DayOf(t)].of)' /\ rollup'[Rollups!DayOf(t)].over
      <3>1. CASE t \in settled /\ Rollups!DayOf(t) # d
        <4>1. rollup'[Rollups!DayOf(t)] = rollup[Rollups!DayOf(t)]
          BY <1>0, <2>1, <3>1
        <4>2. KeptIn(t, rollup[Rollups!DayOf(t)].of) /\ rollup[Rollups!DayOf(t)].over
          BY <3>1 DEF CountedLog
        <4> QED
          BY <2>0, <2>1, <4>1, <4>2 DEF KeptIn, Rollups!DayOf
      <3>2. CASE t \in settled /\ Rollups!DayOf(t) = d
        <4>1. KeptIn(t, pass[a].read)
          BY <2>1, <3>2 DEF CountedLog, Spares, d
        <4>2. Rollups!Over(d)
          BY <1>0, <2>1, <3>2, DaysTyped DEF CountedLog, Complete, Rollups!Over
        <4> QED
          BY <2>0, <2>1, <3>2, <4>1, <4>2 DEF KeptIn, Rollups!DayOf
      <3>3. CASE t \in pass[a].read /\ Rollups!Over(d)
        BY <2>1, <3>3 DEF KeptIn, Rollups!DayOf
      <3> QED
        BY <2>1, <2>3, <3>1, <3>2, <3>3
    <2>4. ASSUME NEW b \in Aggregator PROVE Spares(passPc[b], pass[b])'
      <3>1. CASE b = a
        <4>1. PICK l \in {"idle", "count", "look"}, q \in Pass, c \in 0 .. Rollups!Unset :
                 /\ Rollups!Go(a, l, q, c) /\ q.todo \subseteq pass[a].todo
                 /\ l = "count" /\ q.day < q.today - 1 => q.day \in pass[a].todo
          BY <1>3, ReplaceMoves
        <4>2. \A t \in settled' : Rollups!DayOf(t) \in pass[a].todo
                => Rollups!DayOf(t) \in contested'
          BY <2>1 DEF CountedLog, Spares
        <4>3. passPc'[a] = l /\ pass'[a] = q
          BY <4>1, GoMoves
        <4> QED
          BY <3>1, <4>1, <4>2, <4>3 DEF Spares, Rollups!DayOf
      <3>2. CASE b # a
        <4>1. passPc'[b] = passPc[b] /\ pass'[b] = pass[b] /\ passPc[b] # "replace"
          <5>1. PICK l, q, c : Rollups!Go(a, l, q, c)
            BY <1>3, ReplaceMoves
          <5> QED
            BY <2>1, <3>2, <5>1, GoMoves DEF Alone
        <4>2. Spares(passPc[b], pass[b])
          BY DEF CountedLog
        <4>3. ASSUME NEW t \in settled', Rollups!DayOf(t) \in pass[b].todo
              PROVE  Rollups!DayOf(t) \in contested'
          BY <2>1, <3>2, <4>2, <4>3 DEF Spares, Rollups!Filling
        <4>4. ASSUME NEW t \in settled', passPc[b] = "count", pass[b].day < pass[b].today - 1,
                     Rollups!DayOf(t) = pass[b].day
              PROVE  pass[b].day \in contested'
          BY <2>1, <3>2, <4>2, <4>4 DEF Spares, Rollups!Filling
        <4> QED
          BY <4>1, <4>3, <4>4 DEF Spares, Rollups!DayOf
      <3> QED
        BY <3>1, <3>2
    <2> QED
      BY <2>0, <2>3, <2>4 DEF CountedLog, Rollups!DayOf
  <1>4. CASE UNCHANGED Rollups!vars
    BY <1>4 DEF Rollups!vars, Rollups!log, Rollups!ghosts, CountedLog, Spares, KeptIn, Rollups!DayOf
  <1> QED
    BY <1>1, <1>2, <1>3, <1>4, RollupCases DEF Steps, Lets

LEMMA RollupStart ==
  ASSUME Rollups!Init
  PROVE  LogTyped /\ Underway /\ Alone /\ Complete /\ CountedLog
  <1>1. /\ DayLength \in Nat \ {0} /\ LastPart \in Nat /\ DayLength <= LastPart
        /\ DayLength \in Rollups!Instant /\ 0 \in Rollups!Instant
           /\ Rollups!Unset \in 0 .. Rollups!Unset
    BY DaysTyped, RollupsTyped DEF Rollups!RollupAssumption, Rollups!Instant, Rollups!Unset
  <1>2. /\ \A d \in Rollups!Day : rollup[d] = Rollups!NoRows
        /\ \A a \in Aggregator : passPc[a] = "idle" /\ pass[a] = Rollups!NoPass
    BY DEF Rollups!Init
  <1>3. LogTyped
    <2>1. Rollups!NoRows \in [of : SUBSET Rollups!Instant, over : BOOLEAN]
      BY DEF Rollups!NoRows
    <2> QED
      BY <1>1, <2>1, NoPassTyped DEF Rollups!Init, LogTyped
  <1>4. Underway
    BY <1>2, Resting DEF Underway
  <1>5. Alone
    BY <1>2 DEF Alone
  <1>6. Complete
    BY <1>2 DEF Complete, ReadAll, Rollups!NoRows
  <1>7. CountedLog
    BY <1>2 DEF Rollups!Init, CountedLog, Spares
  <1> QED
    BY <1>3, <1>4, <1>5, <1>6, <1>7

LEMMA RollupSafe ==
  /\ LogTyped /\ Underway => Rollups!TypeOK
  /\ Complete => Rollups!FinalIsFull
  /\ CountedLog => Rollups!CountedIsKept
  <1>1. ASSUME LogTyped, Underway PROVE Rollups!TypeOK
    BY <1>1 DEF LogTyped, Pass, Rollups!TypeOK
  <1>2. ASSUME Complete PROVE Rollups!FinalIsFull
    BY <1>2 DEF Complete, Rollups!FinalIsFull, Rollups!Final
  <1>3. ASSUME CountedLog PROVE Rollups!CountedIsKept
    BY <1>3 DEF CountedLog, KeptIn, Rollups!CountedIsKept
  <1> QED
    BY <1>1, <1>2, <1>3

-----------------------------------------------------------------------------
(* The store of the web kit.  Both parts of the composition are steps of    *)
(* one store that may lose a revocation and has room for either bound.     *)

Tab == INSTANCE ClientStore
    WITH pc <- storePc, req <- storeReq, MaxGen <- MaxGen + LossyGen,
         Faults <- {"answer", "revoke", "end"}

LEMMA TabTyped == Tab!ClientAssumption
BY StoreTyped DEF Tab!ClientAssumption, Store!ClientAssumption, LossyStore!ClientAssumption

(* The pairs issued, the sessions torn down, and the steps of a login that *)
(* carries a pair.                                                         *)
Issued == 1 .. issued
Torn == {t[1] : t \in torn}
Labels == {"idle", "grant", "granted", "drain", "stage", "staged", "failed", "refresh",
           "refreshed"}
Carrying == {"granted", "drain", "stage", "staged", "failed"}

(* What each task may be doing, and what it carries then.                  *)
Tasked ==
    /\ \A o \in Login :
         /\ storePc[o] \in {"idle", "grant"} \union Carrying
         /\ storePc[o] \notin Carrying => storeReq[o].pair = Tab!NoGrant
    /\ storePc["resolve"] \in {"idle", "refresh", "refreshed", "stage", "staged", "failed"}
    /\ storePc["hook"] \in {"idle", "refresh", "refreshed"}
    /\ \A p \in {"resolve", "hook"} :
         /\ storePc[p] = "refresh" => storeReq[p].pair = Tab!NoGrant
         /\ storePc[p] \in {"refresh", "refreshed"} => storeReq[p].sent # Tab!NoGrant
    /\ storePc["resolve"] \in {"stage", "staged", "failed"}
       => storeReq["resolve"].pair # Tab!NoGrant
    /\ \A p \in Tab!Tasks : storeReq[p].gen <= generation

(* Pairs belong to sessions that were opened, and a token that was         *)
(* exchanged is not valid.                                                 *)
Numbered ==
    /\ \A g \in Issued : of[g] \in Issued
    /\ torn \subseteq Issued \X (0 .. MaxGrant)
    /\ fresh \intersect consumed = {}
    /\ \A p \in {"resolve", "hook"} :
         storePc[p] = "refreshed" /\ storeReq[p].pair # Tab!NoGrant =>
            storeReq[p].sent \in consumed /\ of[storeReq[p].pair] = of[storeReq[p].sent]
    /\ storePc["resolve"] = "refreshed" /\ storePc["hook"] = "refreshed"
         /\ storeReq["resolve"].pair # Tab!NoGrant /\ storeReq["hook"].pair # Tab!NoGrant =>
            storeReq["resolve"].sent # storeReq["hook"].sent

(* The pair of a login that has not committed is its own.                  *)
Own ==
    \A o \in Login : storePc[o] \in Carrying =>
      LET g == storeReq[o].pair IN
      /\ g \in Issued /\ of[g] = g
      /\ \A f \in Issued : of[f] = g => f = g
      /\ access # g /\ refresh # g /\ subject # g
      /\ \A p \in Tab!Tasks \ {o} : storeReq[p].pair # g
      /\ \A p \in {"resolve", "hook"} : storeReq[p].sent # g

(* Its session is not torn down while it may still commit.                 *)
Alive ==
    \A o \in Login :
      /\ storePc[o] = "granted" => storeReq[o].pair \notin Torn
      /\ o \in Tab!Staging /\ Tab!Current(o) => storeReq[o].pair \notin Torn

(* A login that may still commit finds the store empty, and is alone.      *)
Emptied ==
    \A o \in Tab!Staging :
      /\ Tab!Current(o) => access = Tab!NoGrant /\ refresh = Tab!NoGrant /\ subject = Tab!NoGrant
      /\ \A q \in Tab!Staging \ {o} : storeReq[q].gen # storeReq[o].gen

(* A resolve that may still write works on the session the store holds.    *)
Held ==
    LET r == storeReq["resolve"] IN
    Tab!Current("resolve") =>
      /\ storePc["resolve"] \in {"refresh", "refreshed"} =>
           refresh # Tab!NoGrant /\ of[refresh] = of[r.sent]
      /\ storePc["resolve"] = "refresh" => refresh = r.sent \/ r.sent \notin fresh
      /\ storePc["resolve"] = "refreshed" /\ r.pair # Tab!NoGrant => refresh = r.sent
      /\ storePc["resolve"] \in {"stage", "staged", "failed"} =>
           access # Tab!NoGrant /\ of[access] = of[r.pair]
      /\ storePc["resolve"] \in {"stage", "staged"} => r.pair = access \/ stale

Looked == \A p \in Login \union {"resolve"} : storePc[p] = "staged"
      => storeReq[p].pair \in checked

(* A live refresh token is somebody's.                                     *)
Kept ==
    \A g \in fresh \ lost :
        \/ g = refresh
        \/ <<"refresh", g>> \in dropping
        \/ \E o \in Login : storePc[o] \in Carrying /\ storeReq[o].pair = g
        \/ \E p \in {"resolve", "hook"} : storePc[p] = "refreshed" /\ storeReq[p].pair = g

StoreInv ==
    /\ Tab!TypeOK /\ Tasked /\ Numbered /\ Own /\ Alive /\ Emptied /\ Held /\ Looked /\ Kept
    /\ Tab!TornStaysTorn /\ Tab!OneIdentity /\ Tab!UncheckedIsStale

OtherTasks(p) == \A q \in Tab!Tasks \ {p} : storePc'[q] = storePc[q] /\ storeReq'[q] = storeReq[q]

LEMMA Numbers ==
  ASSUME Tab!TypeOK
  PROVE  /\ issued \in Nat \ {0} /\ MaxGrant \in Nat \ {0} /\ (MaxGen + LossyGen) \in Nat /\ generation \in Nat
         /\ Tab!NoGrant \notin Issued /\ \A g : g \in 0 .. issued <=> g = Tab!NoGrant
            \/ g \in Issued
         /\ Issued \subseteq Tab!Pair /\ \A g \in Tab!Pair : g \in 0 .. MaxGrant
         /\ "resolve" \in Tab!Tasks /\ "hook" \in Tab!Tasks /\ Login \subseteq Tab!Tasks
         /\ "resolve" \notin Login /\ "hook" \notin Login
         /\ access \in 0 .. issued /\ refresh \in 0 .. issued /\ subject \in 0 .. issued
         /\ \A p \in Tab!Tasks : storeReq[p].pair \in 0 .. issued
            /\ storeReq[p].sent \in 0 .. issued
                             /\ storeReq[p].gen \in Nat
  BY TabTyped DEF Tab!ClientAssumption, Tab!TypeOK, Tab!Pair, Issued, Tab!NoGrant, Tab!Tasks

LEMMA SessionTyped ==
  ASSUME Tab!TypeOK, Numbered, NEW g \in 0 .. issued
  PROVE  Tab!Session(g) \in 0 .. issued /\ Tab!Session(g) \in 0 .. MaxGrant
  <1>1. CASE g = Tab!NoGrant
    <2>1. Tab!Session(g) = g
      BY <1>1 DEF Tab!Session
    <2>2. g \in 0 .. MaxGrant
      <3>1. MaxGrant \in Nat /\ g = 0
        BY <1>1, Numbers DEF Tab!NoGrant
      <3> QED
        BY <3>1
    <2> QED
      BY <2>1, <2>2
  <1>2. CASE g # Tab!NoGrant
    <2>1. Tab!Session(g) = of[g] /\ g \in Issued
      BY <1>2, Numbers DEF Tab!Session
    <2>2. of[g] \in Issued
      BY <2>1 DEF Numbered
    <2> QED
      BY <2>1, <2>2, Numbers
  <1> QED
    BY <1>1, <1>2

(* What a new pair of a session changes: nothing about the pairs there     *)
(* were.                                                                   *)
LEMMA Issuing ==
  ASSUME Tab!TypeOK, NEW s \in 0 .. issued, Tab!Issue(s)
  PROVE  /\ issued' = issued + 1 /\ issued' \in Tab!Pair /\ issued \in Nat
         /\ of' \in [Tab!Pair -> 0 .. MaxGrant] /\ \A g \in 0 .. issued : g \in 0 .. issued'
         /\ \A g \in Issued : of'[g] = of[g]
         /\ of'[issued'] = IF s = Tab!NoGrant THEN issued' ELSE s
         /\ Issued' = Issued \union {issued'} /\ issued' \notin Issued /\ issued' # Tab!NoGrant
         /\ \A g \in 0 .. issued : Tab!Session(g)' = Tab!Session(g)
  <1>1. MaxGrant \in Nat \ {0} /\ issued \in Nat /\ issued >= 1 /\ issued < MaxGrant
    BY TabTyped DEF Tab!ClientAssumption, Tab!TypeOK, Tab!Pair, Tab!Issue
  <1>2. issued' = issued + 1 /\ issued' \in Tab!Pair /\ issued' \in Nat
    BY <1>1 DEF Tab!Issue, Tab!Pair
  <1>3. of' = [of EXCEPT ![issued + 1] = IF s = Tab!NoGrant THEN issued + 1 ELSE s]
    BY DEF Tab!Issue
  <1>4. (IF s = Tab!NoGrant THEN issued + 1 ELSE s) \in 0 .. MaxGrant
    BY <1>1
  <1>5. of' \in [Tab!Pair -> 0 .. MaxGrant]
    BY <1>3, <1>4 DEF Tab!TypeOK
  <1>6. \A g \in Issued : of'[g] = of[g] /\ g \in Tab!Pair
    BY <1>1, <1>3 DEF Tab!TypeOK, Issued, Tab!Pair
  <1>7. of'[issued'] = IF s = Tab!NoGrant THEN issued' ELSE s
    BY <1>1, <1>2, <1>3 DEF Tab!TypeOK
  <1>8. Issued' = Issued \union {issued'} /\ issued' \notin Issued /\ issued' # Tab!NoGrant
    BY <1>1, <1>2 DEF Issued, Tab!NoGrant
  <1>9. \A g \in 0 .. issued : Tab!Session(g)' = Tab!Session(g)
    BY <1>1, <1>6 DEF Tab!Session, Issued, Tab!NoGrant
  <1> QED
    BY <1>1, <1>2, <1>5, <1>6, <1>7, <1>8, <1>9

(* A teardown: the store is empty, and of the logins that carry a pair only *)
(* the staged ones lose their session.                                     *)
LEMMA Cleaning ==
  ASSUME StoreInv, NEW cause \in 0 .. MaxGrant, Tab!Cleanup(cause), UNCHANGED <<issued, of>>
  PROVE  /\ access' = Tab!NoGrant /\ refresh' = Tab!NoGrant /\ subject' = Tab!NoGrant
         /\ validated' = FALSE /\ stale' = FALSE
         /\ generation' = generation + 1 /\ generation \in Nat
         /\ torn' \subseteq Issued \X (0 .. MaxGrant)
         /\ torn' \subseteq Tab!Pair \X (0 .. MaxGrant)
         /\ dropping' \subseteq {"access", "refresh"} \X Tab!Pair /\ dropping \subseteq dropping'
         /\ refresh # Tab!NoGrant => <<"refresh", refresh>> \in dropping'
         /\ \A q \in Login \ Tab!Staging :
              storePc[q] \in Carrying /\ storeReq[q].pair \notin Torn
                    => storeReq[q].pair \notin Torn'
  <1>0. /\ Tab!TypeOK /\ Numbered /\ Own /\ Tasked
    BY DEF StoreInv
  <1> DEFINE X == Tab!Shown \union {Tab!Session(storeReq[o].pair) : o \in Tab!Staging}
  <1>1. X \subseteq Issued
    <2>1. \A g \in 0 .. issued : Tab!Session(g) \in 0 .. issued
      BY <1>0, Numbers DEF Tab!Session, Numbered
    <2>2. Tab!Shown \subseteq Issued
      BY <1>0, <2>1, Numbers DEF Tab!Shown
    <2>3. \A q \in Tab!Staging : storeReq[q].pair \in Issued
      BY <1>0 DEF Own, Tab!Staging, Carrying
    <2>4. \A q \in Tab!Staging : Tab!Session(storeReq[q].pair) \in Issued
      BY <1>0, <2>3, Numbers DEF Tab!Session, Numbered
    <2> QED
      BY <2>2, <2>4
  <1>2. torn' = torn \union (X \X {cause})
    BY DEF Tab!Cleanup
  <1>3. \A q \in Login \ Tab!Staging : storePc[q] \in Carrying => storeReq[q].pair \notin X
    <2> SUFFICES ASSUME NEW q \in Login \ Tab!Staging, storePc[q] \in Carrying, storeReq[q].pair \in X
                 PROVE  FALSE
      OBVIOUS
    <2> DEFINE g == storeReq[q].pair
    <2>1. /\ g \in Issued /\ g # Tab!NoGrant /\ \A f \in Issued : of[f] = g => f = g
          /\ access # g /\ refresh # g /\ subject # g
          /\ \A p \in Tab!Tasks \ {q} : storeReq[p].pair # g
      BY <1>0, Numbers DEF Own
    <2> HIDE DEF g
    <2>2. g \notin Tab!Shown
      BY <1>0, <2>1, Numbers DEF Tab!Shown, Tab!Session
    <2>3. ASSUME NEW o \in Tab!Staging PROVE Tab!Session(storeReq[o].pair) # g
      <3>1. o \in Login /\ o # q /\ o \in Tab!Tasks
        BY <1>0, Numbers DEF Tab!Staging
      <3>2. storeReq[o].pair # g /\ storeReq[o].pair \in 0 .. issued
        BY <1>0, <2>1, <3>1, Numbers
      <3> QED
        BY <1>0, <2>1, <3>2, Numbers DEF Tab!Session
    <2>4. g \notin {Tab!Session(storeReq[o].pair) : o \in Tab!Staging}
      BY <2>3
    <2> QED
      BY <2>2, <2>4 DEF g
  <1> HIDE DEF X
  <1>4. torn' \subseteq Issued \X (0 .. MaxGrant)
    BY <1>0, <1>1, <1>2 DEF Numbered
  <1>5. Torn' \subseteq Torn \union X
    <2>1. \A t \in X \X {cause} : t[1] \in X
      OBVIOUS
    <2>2. ASSUME NEW t \in torn' PROVE t[1] \in Torn \union X
      BY <1>2, <2>1, <2>2 DEF Torn
    <2> QED
      BY <2>2 DEF Torn
  <1>6. /\ dropping' = dropping \union Tab!Halves(access, refresh)
        /\ Tab!Halves(access, refresh) \subseteq {"access", "refresh"} \X Tab!Pair
        /\ refresh # Tab!NoGrant => <<"refresh", refresh>> \in Tab!Halves(access, refresh)
    BY <1>0, Numbers DEF Tab!Cleanup, Tab!Halves
  <1>7. torn' \subseteq Tab!Pair \X (0 .. MaxGrant)
    BY <1>0, <1>4, Numbers
  <1>8. dropping \subseteq {"access", "refresh"} \X Tab!Pair
    BY <1>0 DEF Tab!TypeOK
  <1>9. generation' = generation + 1 /\ generation \in Nat
    BY <1>0 DEF Tab!Cleanup, Tab!TypeOK
  <1> QED
    BY <1>3, <1>4, <1>5, <1>6, <1>7, <1>8, <1>9 DEF Tab!Cleanup

LEMMA GrantServedStep == ASSUME StoreInv, NEW o \in Login, Tab!GrantServed(o) PROVE StoreInv'
  <1>0. /\ Tab!TypeOK /\ Tasked /\ Numbered /\ Own /\ Alive /\ Emptied /\ Held /\ Looked /\ Kept
        /\ Tab!TornStaysTorn /\ Tab!OneIdentity /\ Tab!UncheckedIsStale
    BY DEF StoreInv
  <1>1. /\ storePc[o] = "grant" /\ o \in Tab!Tasks /\ storePc' = [storePc EXCEPT ![o] = "granted"]
        /\ storeReq' = [storeReq EXCEPT ![o].pair = issued'] /\ Tab!Issue(Tab!NoGrant)
        /\ fresh' = fresh \union {issued'} /\ good' = good \union {issued'}
        /\ UNCHANGED <<consumed, access, refresh, subject, generation, validated, stale,
                       dropping, torn, checked, lost>>
    BY <1>0 DEF Tab!GrantServed, Tab!Issue, Tab!Goto, Tab!Tasks, Tab!tab
  <1>2. /\ issued' = issued + 1 /\ issued' \in Tab!Pair /\ issued \in Nat
        /\ of' \in [Tab!Pair -> 0 .. MaxGrant] /\ \A g \in 0 .. issued : g \in 0 .. issued'
        /\ \A g \in Issued : of'[g] = of[g]
        /\ of'[issued'] = issued'
        /\ Issued' = Issued \union {issued'} /\ issued' \notin Issued /\ issued' # Tab!NoGrant
        /\ \A g \in 0 .. issued : Tab!Session(g)' = Tab!Session(g)
    <2>1. Tab!NoGrant \in 0 .. issued
      BY <1>0, Numbers DEF Tab!NoGrant
    <2> QED
      BY <1>0, <1>1, <2>1, Issuing
  <1>3. /\ storePc'[o] = "granted" /\ storeReq'[o] = [storeReq[o] EXCEPT !.pair = issued']
        /\ storeReq'[o].pair = issued' /\ storeReq'[o].sent = storeReq[o].sent
        /\ storeReq'[o].gen = storeReq[o].gen /\ OtherTasks(o) /\ storeReq[o].pair = Tab!NoGrant
    BY <1>0, <1>1 DEF Tab!TypeOK, OtherTasks, Tasked, Carrying
  <1>t. Tab!TypeOK'
    <2>1. storeReq' \in [Tab!Tasks -> [pair : 0 .. issued', sent : 0 .. issued', gen : Nat, again : BOOLEAN]]
      BY <1>0, <1>1, <1>2 DEF Tab!TypeOK
    <2>2. /\ fresh' \subseteq 1 .. issued' /\ consumed' \subseteq 1 .. issued'
          /\ good' \subseteq 1 .. issued'
      BY <1>0, <1>1, <1>2 DEF Tab!TypeOK
    <2>3. access' \in 0 .. issued' /\ refresh' \in 0 .. issued' /\ subject' \in 0 .. issued'
      BY <1>0, <1>1, <1>2 DEF Tab!TypeOK
    <2>4. storePc' \in [Tab!Tasks -> Labels]
      BY <1>0, <1>1 DEF Tab!TypeOK, Labels
    <2>5. /\ issued' \in Tab!Pair /\ of' \in [Tab!Pair -> 0 .. MaxGrant]
          /\ generation' \in Nat /\ validated' \in BOOLEAN /\ stale' \in BOOLEAN
          /\ dropping' \subseteq {"access", "refresh"} \X Tab!Pair
          /\ torn' \subseteq Tab!Pair \X (0 .. MaxGrant) /\ checked' \subseteq Tab!Pair
             /\ lost' \subseteq Tab!Pair
      BY <1>0, <1>1, <1>2 DEF Tab!TypeOK
    <2> QED
      BY <2>1, <2>2, <2>3, <2>4, <2>5 DEF Tab!TypeOK, Labels
  <1>a. Tasked'
    BY <1>0, <1>1, <1>3 DEF Tasked, OtherTasks, Tab!Tasks, Carrying
  <1>b. Numbered'
    <2>1. torn \subseteq Issued' \X (0 .. MaxGrant)
      BY <1>0, <1>2 DEF Numbered
    <2>2. fresh' \intersect consumed' = {}
      BY <1>0, <1>1, <1>2 DEF Numbered, Tab!TypeOK, Issued
    <2>3. \A p \in {"resolve", "hook"} : storePc'[p] = storePc[p] /\ storeReq'[p] = storeReq[p]
      BY <1>0, <1>3, Numbers DEF OtherTasks
    <2>4. \A g \in Issued' : of'[g] \in Issued'
      BY <1>0, <1>2 DEF Numbered
    <2>5. \A p \in {"resolve", "hook"} :
             storePc[p] = "refreshed" /\ storeReq[p].pair # Tab!NoGrant =>
                /\ of'[storeReq[p].pair] = of[storeReq[p].pair]
                   /\ of'[storeReq[p].sent] = of[storeReq[p].sent]
      BY <1>0, <1>2, Numbers DEF Tasked
    <2> QED
      BY <1>0, <1>1, <2>1, <2>2, <2>3, <2>4, <2>5 DEF Numbered
  <1>c. Own'
    BY <1>0, <1>1, <1>2, <1>3, Numbers DEF Own, OtherTasks, Numbered, Carrying
  <1>d. Alive' /\ Emptied'
    BY <1>0, <1>1, <1>2, <1>3, Numbers DEF Alive, Emptied, Numbered, OtherTasks, Torn,
       Tab!Staging, Tab!Current
  <1>e. Held'
    BY <1>0, <1>1, <1>2, <1>3, Numbers DEF Held, OtherTasks, Tab!Current, Tasked
  <1>f. Looked' /\ Kept'
    BY <1>0, <1>1, <1>2, <1>3 DEF Looked, Kept, OtherTasks, Tab!Tasks, Carrying
  <1>g. Tab!TornStaysTorn' /\ Tab!OneIdentity' /\ Tab!UncheckedIsStale'
    BY <1>0, <1>1, <1>2, <1>3, Numbers DEF Tab!TornStaysTorn, Tab!OneIdentity,
       Tab!UncheckedIsStale, Tab!Shown
  <1> QED
    BY <1>t, <1>a, <1>b, <1>c, <1>d, <1>e, <1>f, <1>g DEF StoreInv

LEMMA GrantRefusedStep == ASSUME StoreInv, NEW o \in Login, Tab!GrantRefused(o) PROVE StoreInv'
  <1>0. /\ Tab!TypeOK /\ Tasked /\ Numbered /\ Own /\ Alive /\ Emptied /\ Held /\ Looked /\ Kept
        /\ Tab!TornStaysTorn /\ Tab!OneIdentity /\ Tab!UncheckedIsStale
    BY DEF StoreInv
  <1>1. /\ storePc[o] = "grant" /\ o \in Tab!Tasks /\ storePc' = [storePc EXCEPT ![o] = "idle"]
        /\ storeReq' = [storeReq EXCEPT ![o] = Tab!NoRequest] /\ storeReq[o].pair = Tab!NoGrant
        /\ UNCHANGED <<issued, of, fresh, consumed, good, access, refresh,
                       subject, generation, validated, stale, dropping, torn,
                       checked, lost>>
    BY <1>0, Numbers DEF Tab!GrantRefused, Tab!Finish, Tab!Goto, Tasked, Carrying, Tab!server,
       Tab!tab
  <1>2. Issued' = Issued /\ Torn' = Torn /\ \A g : Tab!Session(g)' = Tab!Session(g)
    BY <1>1 DEF Issued, Torn, Tab!Session
  <1>3. storePc'[o] = "idle" /\ storeReq'[o] = Tab!NoRequest /\ OtherTasks(o)
    BY <1>0, <1>1, Numbers DEF Tab!TypeOK, OtherTasks, Tab!NoRequest
  <1>t. Tab!TypeOK'
    BY <1>0, <1>1, Numbers DEF Tab!TypeOK, Tab!NoRequest
  <1>a. Tasked'
    BY <1>0, <1>1, <1>2, <1>3, Numbers DEF Tasked, OtherTasks, Carrying, Tab!NoRequest
  <1>b. Numbered'
    BY <1>0, <1>1, <1>2, <1>3, Numbers DEF Numbered, OtherTasks
  <1>c. Own'
    BY <1>0, <1>1, <1>2, <1>3, Numbers DEF Own, OtherTasks, Carrying, Tab!NoRequest
  <1>d. Alive' /\ Emptied'
    BY <1>0, <1>1, <1>2, <1>3, Numbers DEF Alive, Emptied, OtherTasks, Tab!Staging, Tab!Current
  <1>e. Held'
    BY <1>0, <1>1, <1>2, <1>3, Numbers DEF Held, OtherTasks, Tab!Current
  <1>f. Looked' /\ Kept'
    BY <1>0, <1>1, <1>2, <1>3, Numbers DEF Looked, Kept, OtherTasks, Carrying
  <1>g. Tab!TornStaysTorn' /\ Tab!OneIdentity' /\ Tab!UncheckedIsStale'
    BY <1>0, <1>1, <1>2, <1>3, Numbers DEF Tab!TornStaysTorn, Tab!OneIdentity,
       Tab!UncheckedIsStale, Tab!Shown, Torn
  <1> QED
    BY <1>t, <1>a, <1>b, <1>c, <1>d, <1>e, <1>f, <1>g DEF StoreInv

LEMMA LoginStartsStep == ASSUME StoreInv, NEW o \in Login, Tab!LoginStarts(o) PROVE StoreInv'
  <1>0. /\ Tab!TypeOK /\ Tasked /\ Numbered /\ Own /\ Alive /\ Emptied /\ Held /\ Looked /\ Kept
        /\ Tab!TornStaysTorn /\ Tab!OneIdentity /\ Tab!UncheckedIsStale
    BY DEF StoreInv
  <1>1. /\ storePc[o] = "idle" /\ o \in Tab!Tasks /\ storePc' = [storePc EXCEPT ![o] = "grant"]
           /\ storeReq' = storeReq
        /\ storeReq[o].pair = Tab!NoGrant
        /\ UNCHANGED <<issued, of, fresh, consumed, good, access, refresh,
                       subject, generation, validated, stale, dropping, torn,
                       checked, lost>>
    BY <1>0, Numbers DEF Tab!LoginStarts, Tab!Goto, Tasked, Carrying, Tab!server, Tab!tab
  <1>2. Issued' = Issued /\ Torn' = Torn /\ \A g : Tab!Session(g)' = Tab!Session(g)
    BY <1>1 DEF Issued, Torn, Tab!Session
  <1>3. storePc'[o] = "grant" /\ OtherTasks(o)
    BY <1>0, <1>1, Numbers DEF Tab!TypeOK, OtherTasks, Tab!NoRequest
  <1>t. Tab!TypeOK'
    BY <1>0, <1>1, Numbers DEF Tab!TypeOK, Tab!NoRequest
  <1>a. Tasked'
    BY <1>0, <1>1, <1>2, <1>3, Numbers DEF Tasked, OtherTasks, Carrying, Tab!NoRequest
  <1>b. Numbered'
    BY <1>0, <1>1, <1>2, <1>3, Numbers DEF Numbered, OtherTasks
  <1>c. Own'
    BY <1>0, <1>1, <1>2, <1>3, Numbers DEF Own, OtherTasks, Carrying, Tab!NoRequest
  <1>d. Alive' /\ Emptied'
    BY <1>0, <1>1, <1>2, <1>3, Numbers DEF Alive, Emptied, OtherTasks, Tab!Staging, Tab!Current
  <1>e. Held'
    BY <1>0, <1>1, <1>2, <1>3, Numbers DEF Held, OtherTasks, Tab!Current
  <1>f. Looked' /\ Kept'
    BY <1>0, <1>1, <1>2, <1>3, Numbers DEF Looked, Kept, OtherTasks, Carrying
  <1>g. Tab!TornStaysTorn' /\ Tab!OneIdentity' /\ Tab!UncheckedIsStale'
    BY <1>0, <1>1, <1>2, <1>3, Numbers DEF Tab!TornStaysTorn, Tab!OneIdentity,
       Tab!UncheckedIsStale, Tab!Shown, Torn
  <1> QED
    BY <1>t, <1>a, <1>b, <1>c, <1>d, <1>e, <1>f, <1>g DEF StoreInv

LEMMA DrainedStep == ASSUME StoreInv, NEW o \in Login, Tab!Drained(o) PROVE StoreInv'
  <1>0. /\ Tab!TypeOK /\ Tasked /\ Numbered /\ Own /\ Alive /\ Emptied /\ Held /\ Looked /\ Kept
        /\ Tab!TornStaysTorn /\ Tab!OneIdentity /\ Tab!UncheckedIsStale
    BY DEF StoreInv
  <1>1. /\ storePc[o] = "drain" /\ o \in Tab!Tasks /\ storePc' = [storePc EXCEPT ![o] = "stage"]
           /\ storeReq' = storeReq
        /\ UNCHANGED <<issued, of, fresh, consumed, good, access, refresh,
                       subject, generation, validated, stale, dropping, torn,
                       checked, lost>>
    BY <1>0, Numbers DEF Tab!Drained, Tab!Goto, Tab!server, Tab!tab
  <1>2. Issued' = Issued /\ Torn' = Torn /\ \A g : Tab!Session(g)' = Tab!Session(g)
    BY <1>1 DEF Issued, Torn, Tab!Session
  <1>3. storePc'[o] = "stage" /\ OtherTasks(o)
    BY <1>0, <1>1, Numbers DEF Tab!TypeOK, OtherTasks, Tab!NoRequest
  <1>t. Tab!TypeOK'
    BY <1>0, <1>1, Numbers DEF Tab!TypeOK, Tab!NoRequest
  <1>a. Tasked'
    BY <1>0, <1>1, <1>2, <1>3, Numbers DEF Tasked, OtherTasks, Carrying, Tab!NoRequest
  <1>b. Numbered'
    BY <1>0, <1>1, <1>2, <1>3, Numbers DEF Numbered, OtherTasks
  <1>c. Own'
    BY <1>0, <1>1, <1>2, <1>3, Numbers DEF Own, OtherTasks, Carrying, Tab!NoRequest
  <1>d. Alive' /\ Emptied'
    BY <1>0, <1>1, <1>2, <1>3, Numbers DEF Alive, Emptied, OtherTasks, Tab!Staging, Tab!Current
  <1>e. Held'
    BY <1>0, <1>1, <1>2, <1>3, Numbers DEF Held, OtherTasks, Tab!Current
  <1>f. Looked' /\ Kept'
    BY <1>0, <1>1, <1>2, <1>3, Numbers DEF Looked, Kept, OtherTasks, Carrying
  <1>g. Tab!TornStaysTorn' /\ Tab!OneIdentity' /\ Tab!UncheckedIsStale'
    BY <1>0, <1>1, <1>2, <1>3, Numbers DEF Tab!TornStaysTorn, Tab!OneIdentity,
       Tab!UncheckedIsStale, Tab!Shown, Torn
  <1> QED
    BY <1>t, <1>a, <1>b, <1>c, <1>d, <1>e, <1>f, <1>g DEF StoreInv

LEMMA GrantedStep == ASSUME StoreInv, NEW o \in Login, Tab!Granted(o) PROVE StoreInv'
  <1>0. /\ Tab!TypeOK /\ Tasked /\ Numbered /\ Own /\ Alive /\ Emptied /\ Held /\ Looked /\ Kept
        /\ Tab!TornStaysTorn /\ Tab!OneIdentity /\ Tab!UncheckedIsStale
    BY DEF StoreInv
  <1>1. /\ storePc[o] = "granted" /\ o \in Tab!Tasks /\ storePc' = [storePc EXCEPT ![o] = "drain"]
        /\ storeReq' = [storeReq EXCEPT ![o].gen = generation + 1, ![o].sent = refresh]
        /\ Tab!Cleanup(Tab!NoGrant) /\ Tab!NoGrant \in 0 .. MaxGrant
        /\ UNCHANGED <<issued, of, fresh, consumed, good, checked, lost>>
    BY <1>0, Numbers DEF Tab!Granted, Tab!Goto, Tab!server, Tab!NoGrant
  <1>2. /\ access' = Tab!NoGrant /\ refresh' = Tab!NoGrant /\ subject' = Tab!NoGrant
        /\ validated' = FALSE /\ stale' = FALSE
        /\ generation' = generation + 1 /\ generation \in Nat
        /\ torn' \subseteq Issued \X (0 .. MaxGrant)
        /\ torn' \subseteq Tab!Pair \X (0 .. MaxGrant)
        /\ dropping' \subseteq {"access", "refresh"} \X Tab!Pair /\ dropping \subseteq dropping'
        /\ refresh # Tab!NoGrant => <<"refresh", refresh>> \in dropping'
        /\ \A q \in Login \ Tab!Staging :
             storePc[q] \in Carrying /\ storeReq[q].pair \notin Torn
                   => storeReq[q].pair \notin Torn'
        /\ Issued' = Issued /\ \A g : Tab!Session(g)' = Tab!Session(g)
    BY <1>1, Cleaning DEF Issued, Tab!Session
  <1>4. storePc[o] = "granted" /\ o \in Tab!Tasks
        /\ UNCHANGED <<issued, of, fresh, consumed, checked, lost>>
    BY <1>1
  <1>3. /\ storePc'[o] = "drain" /\ storeReq'[o].pair = storeReq[o].pair
           /\ storeReq'[o].sent = refresh
        /\ storeReq'[o].gen = generation + 1 /\ OtherTasks(o)
    BY <1>0, <1>1, Numbers DEF Tab!TypeOK, OtherTasks, Tab!NoRequest
  <1>t. Tab!TypeOK'
    <2> DEFINE TaskRequest == [pair : 0 .. issued, sent : 0 .. issued, gen : Nat, again : BOOLEAN]
    <2>2. storeReq \in [Tab!Tasks -> TaskRequest] /\ storeReq[o] \in TaskRequest
      BY <1>0, <1>1 DEF Tab!TypeOK
    <2>4. storeReq'[o] = [pair |-> storeReq[o].pair, sent |-> refresh, gen |-> generation + 1,
                     again |-> storeReq[o].again]
      BY <1>1, <2>2
    <2>3. storeReq'[o] \in TaskRequest
      BY <1>0, <1>2, <2>2, <2>4, Numbers
    <2>1. storeReq' \in [Tab!Tasks -> TaskRequest]
      BY <1>1, <1>3, <2>2, <2>3 DEF OtherTasks
    <2> QED
      BY <1>0, <1>1, <1>2, <2>1, Numbers DEF Tab!TypeOK
  <1>a. Tasked'
    BY <1>0, <1>2, <1>3, <1>4, Numbers DEF Tasked, OtherTasks, Carrying
  <1>b. Numbered'
    BY <1>0, <1>2, <1>3, <1>4, Numbers DEF Numbered, OtherTasks
  <1>c. Own'
    BY <1>0, <1>2, <1>3, <1>4, Numbers DEF Own, OtherTasks, Carrying
  <1>d. Alive' /\ Emptied'
    <2>1. o \in Login \ Tab!Staging /\ storePc[o] \in Carrying /\ storeReq[o].pair \notin Torn
      BY <1>0, <1>1 DEF Tab!Staging, Carrying, Alive
    <2>2. \A q \in Login \ {o} : storeReq'[q].gen <= generation /\ storeReq'[q].gen \in Nat
      BY <1>0, <1>3, Numbers DEF Tasked, OtherTasks
    <2>3. \A q \in Login : storePc'[q] = "granted" => q \in Login \ Tab!Staging
          /\ storePc[q] \in Carrying
      BY <1>0, <1>3, Numbers DEF OtherTasks, Tab!Staging, Carrying
    <2>4. Alive'
      BY <1>0, <1>2, <1>3, <2>1, <2>2, <2>3, Numbers DEF Alive, OtherTasks, Tab!Current
    <2>5. Emptied'
      BY <1>0, <1>2, <1>3, <2>2, Numbers DEF Emptied, OtherTasks, Tab!Staging, Tab!Current
    <2> QED
      BY <2>4, <2>5
  <1>e. Held'
    BY <1>0, <1>2, <1>3, Numbers DEF Held, Tasked, OtherTasks, Tab!Current
  <1>f. Looked' /\ Kept'
    BY <1>0, <1>2, <1>3, <1>4, Numbers DEF Looked, Kept, OtherTasks, Carrying
  <1>g. Tab!TornStaysTorn' /\ Tab!OneIdentity' /\ Tab!UncheckedIsStale'
    BY <1>2 DEF Tab!TornStaysTorn, Tab!OneIdentity, Tab!UncheckedIsStale, Tab!Shown, Tab!Session
  <1> QED
    BY <1>t, <1>a, <1>b, <1>c, <1>d, <1>e, <1>f, <1>g DEF StoreInv

LEMMA LoginAbortsStep == ASSUME StoreInv, NEW o \in Login, Tab!LoginAborts(o) PROVE StoreInv'
  <1>0. /\ Tab!TypeOK /\ Tasked /\ Numbered /\ Own /\ Alive /\ Emptied /\ Held /\ Looked /\ Kept
        /\ Tab!TornStaysTorn /\ Tab!OneIdentity /\ Tab!UncheckedIsStale
    BY DEF StoreInv
  <1>1. /\ storePc[o] \in {"failed", "staged"} /\ o \in Tab!Tasks
           /\ storePc' = [storePc EXCEPT ![o] = "idle"]
        /\ storeReq' = [storeReq EXCEPT ![o] = Tab!NoRequest] /\ storeReq[o].pair \in Issued
        /\ dropping' = dropping \union {<<"access", storeReq[o].pair>>, <<"refresh", storeReq[o].pair>>}
        /\ UNCHANGED <<issued, of, fresh, consumed, good, access, refresh,
                       subject, generation, validated, stale, torn, checked,
                       lost>>
    BY <1>0, Numbers DEF Tab!LoginAborts, Tab!Finish, Tab!Goto, Tasked, Own, Carrying,
       Tab!Halves, Tab!server, Tab!tab
  <1>2. Issued' = Issued /\ Torn' = Torn /\ \A g : Tab!Session(g)' = Tab!Session(g)
    BY <1>1 DEF Issued, Torn, Tab!Session
  <1>3. storePc'[o] = "idle" /\ storeReq'[o] = Tab!NoRequest /\ OtherTasks(o)
    BY <1>0, <1>1, Numbers DEF Tab!TypeOK, OtherTasks, Tab!NoRequest
  <1>t. Tab!TypeOK'
    BY <1>0, <1>1, Numbers DEF Tab!TypeOK, Tab!NoRequest
  <1>a. Tasked'
    BY <1>0, <1>1, <1>2, <1>3, Numbers DEF Tasked, OtherTasks, Carrying, Tab!NoRequest
  <1>b. Numbered'
    BY <1>0, <1>1, <1>2, <1>3, Numbers DEF Numbered, OtherTasks
  <1>c. Own'
    BY <1>0, <1>1, <1>2, <1>3, Numbers DEF Own, OtherTasks, Carrying, Tab!NoRequest
  <1>d. Alive' /\ Emptied'
    BY <1>0, <1>1, <1>2, <1>3, Numbers DEF Alive, Emptied, OtherTasks, Tab!Staging, Tab!Current
  <1>e. Held'
    BY <1>0, <1>1, <1>2, <1>3, Numbers DEF Held, OtherTasks, Tab!Current
  <1>f. Looked' /\ Kept'
    BY <1>0, <1>1, <1>2, <1>3, Numbers DEF Looked, Kept, OtherTasks, Carrying
  <1>g. Tab!TornStaysTorn' /\ Tab!OneIdentity' /\ Tab!UncheckedIsStale'
    BY <1>0, <1>1, <1>2, <1>3, Numbers DEF Tab!TornStaysTorn, Tab!OneIdentity,
       Tab!UncheckedIsStale, Tab!Shown, Torn
  <1> QED
    BY <1>t, <1>a, <1>b, <1>c, <1>d, <1>e, <1>f, <1>g DEF StoreInv

LEMMA LoginCommitsStep == ASSUME StoreInv, NEW o \in Login, Tab!LoginCommits(o) PROVE StoreInv'
  <1>0. /\ Tab!TypeOK /\ Tasked /\ Numbered /\ Own /\ Alive /\ Emptied /\ Held /\ Looked /\ Kept
        /\ Tab!TornStaysTorn /\ Tab!OneIdentity /\ Tab!UncheckedIsStale
    BY DEF StoreInv
  <1>1. /\ storePc[o] = "staged" /\ Tab!Current(o) /\ o \in Tab!Tasks
           /\ storePc' = [storePc EXCEPT ![o] = "idle"]
        /\ storeReq' = [storeReq EXCEPT ![o] = Tab!NoRequest] /\ storeReq[o].pair \in Issued
        /\ o \in Tab!Staging /\ of[storeReq[o].pair] = storeReq[o].pair
        /\ access' = storeReq[o].pair /\ refresh' = storeReq[o].pair
           /\ subject' = storeReq[o].pair
        /\ validated' = TRUE /\ stale' = FALSE
        /\ access = Tab!NoGrant /\ refresh = Tab!NoGrant /\ storeReq[o].pair \in checked
        /\ UNCHANGED <<issued, of, fresh, consumed, good, generation,
                       dropping, torn, checked, lost>>
    BY <1>0, Numbers DEF Tab!LoginCommits, Tab!Finish, Tab!Goto, Own, Carrying, Tab!Staging,
       Emptied, Looked, Tab!Session, Tab!server, Tab!NoGrant
  <1>2. Issued' = Issued /\ Torn' = Torn /\ \A g : Tab!Session(g)' = Tab!Session(g)
    BY <1>1 DEF Issued, Torn, Tab!Session
  <1>3. storePc'[o] = "idle" /\ storeReq'[o] = Tab!NoRequest /\ OtherTasks(o)
    BY <1>0, <1>1, Numbers DEF Tab!TypeOK, OtherTasks, Tab!NoRequest
  <1>t. Tab!TypeOK'
    BY <1>0, <1>1, Numbers DEF Tab!TypeOK, Tab!NoRequest
  <1>a. Tasked'
    BY <1>0, <1>1, <1>2, <1>3, Numbers DEF Tasked, OtherTasks, Carrying, Tab!NoRequest
  <1>b. Numbered'
    BY <1>0, <1>1, <1>2, <1>3, Numbers DEF Numbered, OtherTasks
  <1>c. Own'
    BY <1>0, <1>1, <1>2, <1>3, Numbers DEF Own, OtherTasks, Carrying, Tab!NoRequest
  <1>d. Alive' /\ Emptied'
    BY <1>0, <1>1, <1>2, <1>3, Numbers DEF Alive, Emptied, Own, OtherTasks, Tab!Staging,
       Tab!Current, Carrying
  <1>e. Held'
    BY <1>0, <1>1, <1>2, <1>3, Numbers DEF Held, OtherTasks, Tab!Current
  <1>f. Looked' /\ Kept'
    <2>1. Looked'
      BY <1>0, <1>1, <1>3, Numbers DEF Looked, OtherTasks
    <2>2. ASSUME NEW g \in fresh \ lost, g # storeReq[o].pair
          PROVE  \/ <<"refresh", g>> \in dropping
                 \/ \E q \in Login : storePc'[q] \in Carrying /\ storeReq'[q].pair = g
                 \/ \E q \in {"resolve", "hook"} : storePc'[q] = "refreshed"
                    /\ storeReq'[q].pair = g
      <3>1. g # refresh
        BY <1>0, <1>1, Numbers DEF Tab!TypeOK, Issued
      <3>2. \A q \in {"resolve", "hook"} : storePc'[q] = storePc[q] /\ storeReq'[q] = storeReq[q]
        BY <1>0, <1>3, Numbers DEF OtherTasks
      <3>3. \A q \in Login : storeReq[q].pair = g => storePc'[q] = storePc[q]
            /\ storeReq'[q] = storeReq[q]
        BY <1>0, <1>3, <2>2, Numbers DEF OtherTasks
      <3> QED
        BY <1>0, <2>2, <3>1, <3>2, <3>3 DEF Kept
    <2>3. Kept'
      BY <1>1, <2>2 DEF Kept
    <2> QED
      BY <2>1, <2>3
  <1>g. Tab!TornStaysTorn' /\ Tab!OneIdentity' /\ Tab!UncheckedIsStale'
    BY <1>0, <1>1, <1>2, <1>3, Numbers DEF Tab!TornStaysTorn, Tab!OneIdentity,
       Tab!UncheckedIsStale, Tab!Shown, Tab!Session, Torn, Alive
  <1> QED
    BY <1>t, <1>a, <1>b, <1>c, <1>d, <1>e, <1>f, <1>g DEF StoreInv

LEMMA StageServedStep ==
  ASSUME StoreInv, NEW p \in Login \union {"resolve"}, Tab!StageServed(p)
  PROVE  StoreInv'
  <1>0. /\ Tab!TypeOK /\ Tasked /\ Numbered /\ Own /\ Alive /\ Emptied /\ Held /\ Looked /\ Kept
        /\ Tab!TornStaysTorn /\ Tab!OneIdentity /\ Tab!UncheckedIsStale
    BY DEF StoreInv
  <1>1. /\ storePc[p] = "stage" /\ p \in Tab!Tasks /\ storeReq' = storeReq
        /\ \/ /\ storeReq[p].pair \in good /\ checked' = checked \union {storeReq[p].pair}
              /\ storePc' = [storePc EXCEPT ![p] = "staged"]
           \/ checked' = checked /\ storePc' = [storePc EXCEPT ![p] = "failed"]
        /\ UNCHANGED <<issued, of, fresh, consumed, good, access, refresh,
                       subject, generation, validated, stale, dropping, torn,
                       lost>>
    BY <1>0, Numbers DEF Tab!StageServed, Tab!Goto, Tab!server, Tab!tab
  <1>2. Issued' = Issued /\ Torn' = Torn /\ \A g : Tab!Session(g)' = Tab!Session(g)
    BY <1>1 DEF Issued, Torn, Tab!Session
  <1>3. /\ OtherTasks(p) /\ storePc'[p] \in {"staged", "failed"} /\ checked \subseteq checked'
        /\ storePc'[p] = "staged" => storeReq[p].pair \in checked'
    BY <1>0, <1>1, Numbers DEF Tab!TypeOK, OtherTasks, Tab!NoRequest
  <1>t. Tab!TypeOK'
    <2>1. good \subseteq Tab!Pair
      BY <1>0, Numbers DEF Tab!TypeOK, Issued
    <2>2. checked' \subseteq Tab!Pair
      <3>1. checked \subseteq Tab!Pair /\ checked' \subseteq checked \union {storeReq[p].pair}
            /\ (checked' = checked \/ storeReq[p].pair \in Tab!Pair)
        BY <1>0, <1>1, <2>1 DEF Tab!TypeOK
      <3> QED
        BY <3>1
    <2>3. storePc' \in [Tab!Tasks -> Labels]
      BY <1>0, <1>1 DEF Tab!TypeOK, Labels
    <2> QED
      BY <1>0, <1>1, <2>2, <2>3 DEF Tab!TypeOK, Labels
  <1>a. Tasked'
    BY <1>0, <1>1, <1>2, <1>3, Numbers DEF Tasked, OtherTasks, Carrying, Tab!NoRequest
  <1>b. Numbered'
    BY <1>0, <1>1, <1>2, <1>3, Numbers DEF Numbered, OtherTasks
  <1>c. Own'
    BY <1>0, <1>1, <1>2, <1>3, Numbers DEF Own, OtherTasks, Carrying, Tab!NoRequest
  <1>d. Alive' /\ Emptied'
    BY <1>0, <1>1, <1>2, <1>3, Numbers DEF Alive, Emptied, OtherTasks, Tab!Staging, Tab!Current
  <1>e. Held'
    BY <1>0, <1>1, <1>2, <1>3, Numbers DEF Held, OtherTasks, Tab!Current
  <1>f. Looked' /\ Kept'
    BY <1>0, <1>1, <1>2, <1>3, Numbers DEF Looked, Kept, OtherTasks, Carrying
  <1>g. Tab!TornStaysTorn' /\ Tab!OneIdentity' /\ Tab!UncheckedIsStale'
    BY <1>0, <1>1, <1>2, <1>3, Numbers DEF Tab!TornStaysTorn, Tab!OneIdentity,
       Tab!UncheckedIsStale, Tab!Shown, Torn
  <1> QED
    BY <1>t, <1>a, <1>b, <1>c, <1>d, <1>e, <1>f, <1>g DEF StoreInv

LEMMA RefreshServedStep ==
  ASSUME StoreInv, NEW p \in {"resolve", "hook"}, Tab!RefreshServed(p)
  PROVE  StoreInv'
  <1>0. /\ Tab!TypeOK /\ Tasked /\ Numbered /\ Own /\ Alive /\ Emptied /\ Held /\ Looked /\ Kept
        /\ Tab!TornStaysTorn /\ Tab!OneIdentity /\ Tab!UncheckedIsStale
    BY DEF StoreInv
  <1>1. /\ storePc[p] = "refresh" /\ p \in Tab!Tasks
           /\ storePc' = [storePc EXCEPT ![p] = "refreshed"]
        /\ storeReq[p].pair = Tab!NoGrant /\ storeReq[p].sent \in fresh
           /\ storeReq[p].sent \in Issued
        /\ of[storeReq[p].sent] \in Issued /\ Tab!Issue(of[storeReq[p].sent])
        /\ good' = good \union {issued'}
        /\ fresh' = (fresh \ {storeReq[p].sent}) \union {issued'}
        /\ consumed' = consumed \union {storeReq[p].sent}
        /\ \/ storeReq' = [storeReq EXCEPT ![p].pair = issued'] /\ lost' = lost
           \/ storeReq' = storeReq /\ lost' = lost \union {issued'}
        /\ UNCHANGED <<access, refresh, subject, generation, validated,
                       stale, dropping, torn, checked>>
    BY <1>0, Numbers DEF Tab!RefreshServed, Tab!Issue, Tab!Goto, Tasked, Numbered, Tab!TypeOK,
       Issued, Tab!tab, Tab!NoGrant
  <1>2. /\ issued' = issued + 1 /\ issued' \in Tab!Pair /\ issued \in Nat
        /\ of' \in [Tab!Pair -> 0 .. MaxGrant] /\ \A g \in 0 .. issued : g \in 0 .. issued'
        /\ \A g \in Issued : of'[g] = of[g]
        /\ of'[issued'] = of[storeReq[p].sent]
        /\ Issued' = Issued \union {issued'} /\ issued' \notin Issued /\ issued' # Tab!NoGrant
        /\ \A g \in 0 .. issued : Tab!Session(g)' = Tab!Session(g)
    <2>1. of[storeReq[p].sent] \in 0 .. issued /\ of[storeReq[p].sent] # Tab!NoGrant
      BY <1>0, <1>1, Numbers
    <2> QED
      BY <1>0, <1>1, <2>1, Issuing
  <1>3. /\ storePc'[p] = "refreshed" /\ OtherTasks(p)
        /\ storeReq'[p].sent = storeReq[p].sent /\ storeReq'[p].gen = storeReq[p].gen
        /\ \/ storeReq'[p].pair = issued' /\ lost' = lost
           \/ storeReq'[p].pair = Tab!NoGrant /\ lost' = lost \union {issued'}
    BY <1>0, <1>1, <1>2, Numbers DEF Tab!TypeOK, OtherTasks
  <1>t. Tab!TypeOK'
    <2>1. storeReq' \in [Tab!Tasks -> [pair : 0 .. issued', sent : 0 .. issued', gen : Nat, again : BOOLEAN]]
      BY <1>0, <1>1, <1>2 DEF Tab!TypeOK
    <2>2. /\ fresh' \subseteq 1 .. issued' /\ consumed' \subseteq 1 .. issued'
          /\ good' \subseteq 1 .. issued'
      BY <1>0, <1>1, <1>2 DEF Tab!TypeOK, Issued
    <2>3. access' \in 0 .. issued' /\ refresh' \in 0 .. issued' /\ subject' \in 0 .. issued'
      BY <1>0, <1>1, <1>2 DEF Tab!TypeOK
    <2>4. storePc' \in [Tab!Tasks -> Labels]
      BY <1>0, <1>1 DEF Tab!TypeOK, Labels
    <2>5. /\ issued' \in Tab!Pair /\ of' \in [Tab!Pair -> 0 .. MaxGrant]
          /\ generation' \in Nat /\ validated' \in BOOLEAN /\ stale' \in BOOLEAN
          /\ dropping' \subseteq {"access", "refresh"} \X Tab!Pair
          /\ torn' \subseteq Tab!Pair \X (0 .. MaxGrant) /\ checked' \subseteq Tab!Pair
             /\ lost' \subseteq Tab!Pair
      BY <1>0, <1>1, <1>2 DEF Tab!TypeOK
    <2> QED
      BY <2>1, <2>2, <2>3, <2>4, <2>5 DEF Tab!TypeOK, Labels
  <1>a. Tasked'
    BY <1>0, <1>1, <1>2, <1>3, Numbers DEF Tasked, OtherTasks, Carrying, Tab!NoRequest
  <1>b. Numbered'
    <2>1. torn \subseteq Issued' \X (0 .. MaxGrant)
      BY <1>0, <1>2 DEF Numbered
    <2>2. fresh' \intersect consumed' = {}
      BY <1>0, <1>1, <1>2 DEF Numbered, Tab!TypeOK, Issued
    <2>3. \A g \in Issued' : of'[g] \in Issued'
      BY <1>0, <1>1, <1>2 DEF Numbered
    <2>4. ASSUME NEW q \in {"resolve", "hook"}, storePc'[q] = "refreshed",
          storeReq'[q].pair # Tab!NoGrant
          PROVE  /\ storeReq'[q].sent \in consumed' /\ of'[storeReq'[q].pair] = of'[storeReq'[q].sent]
                 /\ q # p => storeReq'[q].sent # storeReq[p].sent
      <3>1. CASE q = p
        BY <1>1, <1>2, <1>3, <2>4, <3>1
      <3>2. CASE q # p
        <4>1. storeReq'[q] = storeReq[q] /\ storePc'[q] = storePc[q]
          BY <1>0, <1>3, <3>2, Numbers DEF OtherTasks
        <4>2. storeReq[q].sent \in consumed /\ of[storeReq[q].pair] = of[storeReq[q].sent]
          BY <1>0, <2>4, <4>1 DEF Numbered
        <4>3. storeReq[q].sent \in Issued /\ storeReq[q].pair \in Issued
          BY <1>0, <2>4, <4>1, Numbers DEF Tasked
        <4>4. storeReq[q].sent # storeReq[p].sent
          BY <1>0, <1>1, <4>2 DEF Numbered
        <4> QED
          BY <1>1, <1>2, <4>1, <4>2, <4>3, <4>4
      <3> QED
        BY <3>1, <3>2
    <2>5. storePc'["resolve"] = "refreshed" /\ storePc'["hook"] = "refreshed"
          /\ storeReq'["resolve"].pair # Tab!NoGrant /\ storeReq'["hook"].pair # Tab!NoGrant =>
             storeReq'["resolve"].sent # storeReq'["hook"].sent
      BY <1>3, <2>4
    <2> QED
      BY <1>1, <2>1, <2>2, <2>3, <2>4, <2>5 DEF Numbered
  <1>c. Own'
    <2> SUFFICES ASSUME NEW o \in Login, storePc'[o] \in Carrying
                 PROVE  LET g == storeReq'[o].pair IN
                        /\ g \in Issued' /\ of'[g] = g
                        /\ \A f \in Issued' : of'[f] = g => f = g
                        /\ access # g /\ refresh # g /\ subject # g
                        /\ \A q \in Tab!Tasks \ {o} : storeReq'[q].pair # g
                        /\ \A q \in {"resolve", "hook"} : storeReq'[q].sent # g
      BY <1>1 DEF Own
    <2> DEFINE g == storeReq[o].pair
    <2>1. o # p /\ o \in Tab!Tasks /\ storeReq'[o] = storeReq[o] /\ storePc'[o] = storePc[o]
      BY <1>0, <1>3, Numbers DEF OtherTasks
    <2>2. /\ g \in Issued /\ of[g] = g /\ \A f \in Issued : of[f] = g => f = g
          /\ access # g /\ refresh # g /\ subject # g
          /\ \A q \in Tab!Tasks \ {o} : storeReq[q].pair # g
          /\ \A q \in {"resolve", "hook"} : storeReq[q].sent # g
      BY <1>0, <2>1 DEF Own
    <2> HIDE DEF g
    <2>3. of[storeReq[p].sent] # g /\ issued' # g /\ g # Tab!NoGrant
      BY <1>0, <1>1, <1>2, <2>2, Numbers
    <2>4. \A f \in Issued' : of'[f] = g => f = g
      BY <1>1, <1>2, <2>2, <2>3
    <2>5. \A q \in Tab!Tasks \ {o} : storeReq'[q].pair # g
      BY <1>3, <2>2, <2>3 DEF OtherTasks
    <2>6. \A q \in {"resolve", "hook"} : storeReq'[q].sent # g
      BY <1>0, <1>3, <2>2, Numbers DEF OtherTasks
    <2> QED
      BY <1>2, <2>1, <2>2, <2>4, <2>5, <2>6 DEF g
  <1>d. Alive' /\ Emptied'
    BY <1>0, <1>1, <1>2, <1>3, Numbers DEF Alive, Emptied, OtherTasks, Tab!Staging, Tab!Current,
       Torn
  <1>e. Held'
    <2>1. CASE p = "hook"
      BY <1>0, <1>1, <1>2, <1>3, <2>1, Numbers DEF Held, OtherTasks, Tab!Current, Tasked,
         Tab!TypeOK, Issued
    <2>2. CASE p = "resolve"
      BY <1>0, <1>1, <1>2, <1>3, <2>2, Numbers DEF Held, Tab!Current
    <2> QED
      BY <2>1, <2>2
  <1>f. Looked' /\ Kept'
    <2>1. Looked'
      BY <1>0, <1>1, <1>3, Numbers DEF Looked, OtherTasks
    <2>2. ASSUME NEW g \in fresh' \ lost', g # issued'
          PROVE  \/ g = refresh \/ <<"refresh", g>> \in dropping
                 \/ \E q \in Login : storePc'[q] \in Carrying /\ storeReq'[q].pair = g
                 \/ \E q \in {"resolve", "hook"} : storePc'[q] = "refreshed"
                    /\ storeReq'[q].pair = g
      <3>1. g \in fresh \ lost
        BY <1>1, <2>2
      <3>2. \A q \in {"resolve", "hook"} : storePc[q] = "refreshed" =>
               storePc'[q] = storePc[q] /\ storeReq'[q] = storeReq[q]
        BY <1>0, <1>1, <1>3, Numbers DEF OtherTasks
      <3>3. \A q \in Login : storePc'[q] = storePc[q] /\ storeReq'[q] = storeReq[q]
        BY <1>0, <1>3, Numbers DEF OtherTasks
      <3> QED
        BY <1>0, <3>1, <3>2, <3>3 DEF Kept
    <2>3. issued' \notin lost' => storePc'[p] = "refreshed" /\ storeReq'[p].pair = issued'
      BY <1>3
    <2>4. Kept'
      BY <1>1, <2>2, <2>3 DEF Kept
    <2> QED
      BY <2>1, <2>4
  <1>g. Tab!TornStaysTorn' /\ Tab!OneIdentity' /\ Tab!UncheckedIsStale'
    BY <1>0, <1>1, <1>2, <1>3, Numbers DEF Tab!TornStaysTorn, Tab!OneIdentity,
       Tab!UncheckedIsStale, Tab!Shown, Torn
  <1> QED
    BY <1>t, <1>a, <1>b, <1>c, <1>d, <1>e, <1>f, <1>g DEF StoreInv

LEMMA RefreshRefusedStep ==
  ASSUME StoreInv, NEW p \in {"resolve", "hook"}, Tab!RefreshRefused(p)
  PROVE  StoreInv'
  <1>0. /\ Tab!TypeOK /\ Tasked /\ Numbered /\ Own /\ Alive /\ Emptied /\ Held /\ Looked /\ Kept
        /\ Tab!TornStaysTorn /\ Tab!OneIdentity /\ Tab!UncheckedIsStale
    BY DEF StoreInv
  <1>1. /\ storePc[p] = "refresh" /\ p \in Tab!Tasks
           /\ storePc' = [storePc EXCEPT ![p] = "refreshed"] /\ storeReq' = storeReq
        /\ fresh' \subseteq fresh /\ good' \subseteq good /\ storeReq[p].pair = Tab!NoGrant
        /\ UNCHANGED <<issued, of, consumed, access, refresh, subject,
                       generation, validated, stale, dropping, torn, checked,
                       lost>>
    BY <1>0, Numbers DEF Tab!RefreshRefused, Tab!Goto, Tasked, Tab!tab
  <1>2. Issued' = Issued /\ Torn' = Torn /\ \A g : Tab!Session(g)' = Tab!Session(g)
    BY <1>1 DEF Issued, Torn, Tab!Session
  <1>3. storePc'[p] = "refreshed" /\ OtherTasks(p)
    BY <1>0, <1>1, Numbers DEF Tab!TypeOK, OtherTasks, Tab!NoRequest
  <1>t. Tab!TypeOK'
    <2>1. storePc' \in [Tab!Tasks -> Labels]
      BY <1>0, <1>1 DEF Tab!TypeOK, Labels
    <2> QED
      BY <1>0, <1>1, <2>1 DEF Tab!TypeOK, Labels
  <1>a. Tasked'
    BY <1>0, <1>1, <1>2, <1>3, Numbers DEF Tasked, OtherTasks, Carrying, Tab!NoRequest
  <1>b. Numbered'
    BY <1>0, <1>1, <1>2, <1>3, Numbers DEF Numbered, OtherTasks
  <1>c. Own'
    BY <1>0, <1>1, <1>2, <1>3, Numbers DEF Own, OtherTasks, Carrying, Tab!NoRequest
  <1>d. Alive' /\ Emptied'
    BY <1>0, <1>1, <1>2, <1>3, Numbers DEF Alive, Emptied, OtherTasks, Tab!Staging, Tab!Current
  <1>e. Held'
    BY <1>0, <1>1, <1>2, <1>3, Numbers DEF Held, OtherTasks, Tab!Current
  <1>f. Looked' /\ Kept'
    BY <1>0, <1>1, <1>2, <1>3, Numbers DEF Looked, Kept, OtherTasks, Carrying
  <1>g. Tab!TornStaysTorn' /\ Tab!OneIdentity' /\ Tab!UncheckedIsStale'
    BY <1>0, <1>1, <1>2, <1>3, Numbers DEF Tab!TornStaysTorn, Tab!OneIdentity,
       Tab!UncheckedIsStale, Tab!Shown, Torn
  <1> QED
    BY <1>t, <1>a, <1>b, <1>c, <1>d, <1>e, <1>f, <1>g DEF StoreInv

LEMMA RevokedStep == ASSUME StoreInv, NEW h \in dropping, Tab!Revoked(h) PROVE StoreInv'
  <1>0. /\ Tab!TypeOK /\ Tasked /\ Numbered /\ Own /\ Alive /\ Emptied /\ Held /\ Looked /\ Kept
        /\ Tab!TornStaysTorn /\ Tab!OneIdentity /\ Tab!UncheckedIsStale
    BY DEF StoreInv
  <1>1. /\ h \in {"access", "refresh"} \X Tab!Pair /\ dropping' = dropping \ {h}
        /\ fresh' \subseteq fresh /\ good' \subseteq good
        /\ lost' \in {lost, lost \union {h[2]}}
        /\ h[1] = "refresh" => h[2] \notin fresh' \/ h[2] \in lost'
        /\ UNCHANGED <<issued, of, consumed, access, refresh, subject,
                       generation, validated, stale, storePc, storeReq, torn, checked>>
    BY <1>0, Numbers DEF Tab!Revoked, Tab!TypeOK, Tab!tab
  <1>2. Issued' = Issued /\ Torn' = Torn /\ \A g : Tab!Session(g)' = Tab!Session(g)
    BY <1>1 DEF Issued, Torn, Tab!Session
  <1>t. Tab!TypeOK'
    BY <1>0, <1>1, Numbers DEF Tab!TypeOK
  <1>a. Tasked' /\ Own' /\ Looked'
    BY <1>0, <1>1, <1>2, Numbers DEF Tasked, Own, Looked
  <1>b. Numbered' /\ Alive' /\ Emptied'
    BY <1>0, <1>1, <1>2, Numbers DEF Numbered, Alive, Emptied, Tab!Staging, Tab!Current
  <1>e. Held'
    BY <1>0, <1>1, <1>2, Numbers DEF Held, Tab!Current
  <1>f. Kept'
    <2>1. \A g \in fresh' \ lost' : g \in fresh \ lost /\ <<"refresh", g>> # h
      BY <1>1
    <2> QED
      BY <1>0, <1>1, <2>1 DEF Kept
  <1>g. Tab!TornStaysTorn' /\ Tab!OneIdentity' /\ Tab!UncheckedIsStale'
    BY <1>0, <1>1, <1>2, Numbers DEF Tab!TornStaysTorn, Tab!OneIdentity, Tab!UncheckedIsStale,
       Tab!Shown, Torn
  <1> QED
    BY <1>t, <1>a, <1>b, <1>e, <1>f, <1>g DEF StoreInv

LEMMA SessionEndsStep == ASSUME StoreInv, NEW s, Tab!SessionEnds(s) PROVE StoreInv'
  <1>0. /\ Tab!TypeOK /\ Tasked /\ Numbered /\ Own /\ Alive /\ Emptied /\ Held /\ Looked /\ Kept
        /\ Tab!TornStaysTorn /\ Tab!OneIdentity /\ Tab!UncheckedIsStale
    BY DEF StoreInv
  <1>1. /\ fresh' \subseteq fresh /\ good' \subseteq good
        /\ UNCHANGED <<issued, of, consumed, access, refresh, subject,
                       generation, validated, stale, storePc, storeReq, dropping, torn,
                       checked, lost>>
    BY <1>0, Numbers DEF Tab!SessionEnds, Tab!tab
  <1>2. Issued' = Issued /\ Torn' = Torn /\ \A g : Tab!Session(g)' = Tab!Session(g)
    BY <1>1 DEF Issued, Torn, Tab!Session
  <1>t. Tab!TypeOK'
    BY <1>0, <1>1, Numbers DEF Tab!TypeOK
  <1>a. Tasked' /\ Own' /\ Looked'
    BY <1>0, <1>1, <1>2, Numbers DEF Tasked, Own, Looked
  <1>b. Numbered' /\ Alive' /\ Emptied'
    BY <1>0, <1>1, <1>2, Numbers DEF Numbered, Alive, Emptied, Tab!Staging, Tab!Current
  <1>e. Held'
    BY <1>0, <1>1, <1>2, Numbers DEF Held, Tab!Current
  <1>f. Kept'
    BY <1>0, <1>1, <1>2, Numbers DEF Kept
  <1>g. Tab!TornStaysTorn' /\ Tab!OneIdentity' /\ Tab!UncheckedIsStale'
    BY <1>0, <1>1, <1>2, Numbers DEF Tab!TornStaysTorn, Tab!OneIdentity, Tab!UncheckedIsStale,
       Tab!Shown, Torn
  <1> QED
    BY <1>t, <1>a, <1>b, <1>e, <1>f, <1>g DEF StoreInv

LEMMA ResolveFailedStep == ASSUME StoreInv, Tab!ResolveFailed PROVE StoreInv'
  <1>0. /\ Tab!TypeOK /\ Tasked /\ Numbered /\ Own /\ Alive /\ Emptied /\ Held /\ Looked /\ Kept
        /\ Tab!TornStaysTorn /\ Tab!OneIdentity /\ Tab!UncheckedIsStale
    BY DEF StoreInv
  <1>1. /\ storePc["resolve"] = "refreshed" /\ storeReq["resolve"].pair = Tab!NoGrant
           /\ Tab!Cleanup(Tab!NoGrant)
        /\ storePc' = [storePc EXCEPT !["resolve"] = "idle"]
           /\ storeReq' = [storeReq EXCEPT !["resolve"] = Tab!NoRequest]
        /\ Tab!NoGrant \in 0 .. MaxGrant
        /\ UNCHANGED <<issued, of, fresh, consumed, good, checked, lost>>
    BY <1>0, Numbers DEF Tab!ResolveFailed, Tab!Finish, Tab!Goto, Tab!server, Tab!NoGrant
  <1>2. /\ access' = Tab!NoGrant /\ refresh' = Tab!NoGrant /\ subject' = Tab!NoGrant
        /\ validated' = FALSE /\ stale' = FALSE
        /\ generation' = generation + 1 /\ generation \in Nat
        /\ torn' \subseteq Issued \X (0 .. MaxGrant)
        /\ torn' \subseteq Tab!Pair \X (0 .. MaxGrant)
        /\ dropping' \subseteq {"access", "refresh"} \X Tab!Pair /\ dropping \subseteq dropping'
        /\ refresh # Tab!NoGrant => <<"refresh", refresh>> \in dropping'
        /\ \A q \in Login \ Tab!Staging :
             storePc[q] \in Carrying /\ storeReq[q].pair \notin Torn
                   => storeReq[q].pair \notin Torn'
        /\ Issued' = Issued /\ \A g : Tab!Session(g)' = Tab!Session(g)
    BY <1>1, Cleaning DEF Issued, Tab!Session
  <1>3. /\ storePc["resolve"] = "refreshed" /\ storeReq["resolve"].pair = Tab!NoGrant
        /\ storePc'["resolve"] = "idle" /\ storeReq'["resolve"] = Tab!NoRequest
           /\ OtherTasks("resolve")
        /\ UNCHANGED <<issued, of, fresh, consumed, checked, lost>>
    BY <1>0, <1>1, Numbers DEF Tab!TypeOK, OtherTasks
  <1>t. Tab!TypeOK'
    <2>1. storePc' \in [Tab!Tasks -> Labels]
      BY <1>0, <1>1 DEF Tab!TypeOK, Labels
    <2>2. storeReq' \in [Tab!Tasks -> [pair : 0 .. issued, sent : 0 .. issued, gen : Nat, again : BOOLEAN]]
      BY <1>0, <1>1, Numbers DEF Tab!TypeOK, Tab!NoRequest
    <2>3. good' = good
      BY <1>1
    <2>4. /\ issued' \in Tab!Pair /\ of' \in [Tab!Pair -> 0 .. MaxGrant]
          /\ fresh' \subseteq 1 .. issued' /\ consumed' \subseteq 1 .. issued'
          /\ good' \subseteq 1 .. issued' /\ checked' \subseteq Tab!Pair
             /\ lost' \subseteq Tab!Pair
      BY <1>0, <1>3, <2>3 DEF Tab!TypeOK
    <2>5. Tab!NoGrant \in 0 .. issued /\ generation + 1 \in Nat
      BY <1>0, Numbers
    <2> QED
      BY <1>2, <1>3, <2>1, <2>2, <2>4, <2>5 DEF Tab!TypeOK, Labels
  <1>a. Tasked'
    BY <1>0, <1>2, <1>3, Numbers DEF OtherTasks, Tab!NoRequest, Tasked, Carrying
  <1>b. Numbered'
    BY <1>0, <1>2, <1>3, Numbers DEF OtherTasks, Tab!NoRequest, Numbered
  <1>c. Own'
    BY <1>0, <1>2, <1>3, Numbers DEF OtherTasks, Tab!NoRequest, Own, Carrying
  <1>d. Alive' /\ Emptied'
    <2>1. \A q \in Login : /\ storePc'[q] = storePc[q] /\ storeReq'[q] = storeReq[q]
                           /\ storeReq[q].gen <= generation /\ storeReq[q].gen \in Nat
      BY <1>0, <1>3, Numbers DEF Tasked, OtherTasks
    <2>2. Alive'
      BY <1>0, <1>2, <2>1, Numbers DEF Alive, Tab!Current, Tab!Staging, Carrying
    <2>3. Emptied'
      BY <1>0, <1>2, <2>1, Numbers DEF Emptied, Tab!Current, Tab!Staging
    <2> QED
      BY <2>2, <2>3
  <1>e. Held'
    BY <1>0, <1>2, <1>3, Numbers DEF OtherTasks, Held, Tasked, Tab!Current
  <1>f. Looked' /\ Kept'
    BY <1>0, <1>2, <1>3, Numbers DEF OtherTasks, Tab!NoRequest, Looked, Kept, Carrying
  <1>g. Tab!TornStaysTorn' /\ Tab!OneIdentity' /\ Tab!UncheckedIsStale'
    BY <1>2 DEF Tab!TornStaysTorn, Tab!OneIdentity, Tab!UncheckedIsStale, Tab!Shown, Tab!Session
  <1> QED
    BY <1>t, <1>a, <1>b, <1>c, <1>d, <1>e, <1>f, <1>g DEF StoreInv

LEMMA HookFailedStep == ASSUME StoreInv, Tab!HookFailed PROVE StoreInv'
  <1>0. /\ Tab!TypeOK /\ Tasked /\ Numbered /\ Own /\ Alive /\ Emptied /\ Held /\ Looked /\ Kept
        /\ Tab!TornStaysTorn /\ Tab!OneIdentity /\ Tab!UncheckedIsStale
    BY DEF StoreInv
  <1>1. /\ storePc["hook"] = "refreshed" /\ storeReq["hook"].pair = Tab!NoGrant
        /\ Tab!Cleanup(Tab!Session(storeReq["hook"].sent))
        /\ storePc' = [storePc EXCEPT !["hook"] = "idle"]
           /\ storeReq' = [storeReq EXCEPT !["hook"] = Tab!NoRequest]
        /\ storeReq["hook"].sent \in 0 .. issued
        /\ UNCHANGED <<issued, of, fresh, consumed, good, checked, lost>>
    BY <1>0, Numbers DEF Tab!HookFailed, Tab!Finish, Tab!Goto, Tab!server
  <1>2. /\ access' = Tab!NoGrant /\ refresh' = Tab!NoGrant /\ subject' = Tab!NoGrant
        /\ validated' = FALSE /\ stale' = FALSE
        /\ generation' = generation + 1 /\ generation \in Nat
        /\ torn' \subseteq Issued \X (0 .. MaxGrant)
        /\ torn' \subseteq Tab!Pair \X (0 .. MaxGrant)
        /\ dropping' \subseteq {"access", "refresh"} \X Tab!Pair /\ dropping \subseteq dropping'
        /\ refresh # Tab!NoGrant => <<"refresh", refresh>> \in dropping'
        /\ \A q \in Login \ Tab!Staging :
             storePc[q] \in Carrying /\ storeReq[q].pair \notin Torn
                   => storeReq[q].pair \notin Torn'
        /\ Issued' = Issued /\ \A g : Tab!Session(g)' = Tab!Session(g)
    BY <1>0, <1>1, SessionTyped, Cleaning DEF Issued, Tab!Session
  <1>3. /\ storePc["hook"] = "refreshed" /\ storeReq["hook"].pair = Tab!NoGrant
        /\ storePc'["hook"] = "idle" /\ storeReq'["hook"] = Tab!NoRequest /\ OtherTasks("hook")
        /\ UNCHANGED <<issued, of, fresh, consumed, checked, lost>>
    BY <1>0, <1>1, Numbers DEF Tab!TypeOK, OtherTasks
  <1>t. Tab!TypeOK'
    <2>1. storePc' \in [Tab!Tasks -> Labels]
      BY <1>0, <1>1 DEF Tab!TypeOK, Labels
    <2>2. storeReq' \in [Tab!Tasks -> [pair : 0 .. issued, sent : 0 .. issued, gen : Nat, again : BOOLEAN]]
      BY <1>0, <1>1, Numbers DEF Tab!TypeOK, Tab!NoRequest
    <2>3. good' = good
      BY <1>1
    <2>4. /\ issued' \in Tab!Pair /\ of' \in [Tab!Pair -> 0 .. MaxGrant]
          /\ fresh' \subseteq 1 .. issued' /\ consumed' \subseteq 1 .. issued'
          /\ good' \subseteq 1 .. issued' /\ checked' \subseteq Tab!Pair
             /\ lost' \subseteq Tab!Pair
      BY <1>0, <1>3, <2>3 DEF Tab!TypeOK
    <2>5. Tab!NoGrant \in 0 .. issued /\ generation + 1 \in Nat
      BY <1>0, Numbers
    <2> QED
      BY <1>2, <1>3, <2>1, <2>2, <2>4, <2>5 DEF Tab!TypeOK, Labels
  <1>a. Tasked'
    BY <1>0, <1>2, <1>3, Numbers DEF OtherTasks, Tab!NoRequest, Tasked, Carrying
  <1>b. Numbered'
    BY <1>0, <1>2, <1>3, Numbers DEF OtherTasks, Tab!NoRequest, Numbered
  <1>c. Own'
    BY <1>0, <1>2, <1>3, Numbers DEF OtherTasks, Tab!NoRequest, Own, Carrying
  <1>d. Alive' /\ Emptied'
    <2>1. \A q \in Login : /\ storePc'[q] = storePc[q] /\ storeReq'[q] = storeReq[q]
                           /\ storeReq[q].gen <= generation /\ storeReq[q].gen \in Nat
      BY <1>0, <1>3, Numbers DEF Tasked, OtherTasks
    <2>2. Alive'
      BY <1>0, <1>2, <2>1, Numbers DEF Alive, Tab!Current, Tab!Staging, Carrying
    <2>3. Emptied'
      BY <1>0, <1>2, <2>1, Numbers DEF Emptied, Tab!Current, Tab!Staging
    <2> QED
      BY <2>2, <2>3
  <1>e. Held'
    BY <1>0, <1>2, <1>3, Numbers DEF OtherTasks, Held, Tasked, Tab!Current
  <1>f. Looked' /\ Kept'
    BY <1>0, <1>2, <1>3, Numbers DEF OtherTasks, Tab!NoRequest, Looked, Kept, Carrying
  <1>g. Tab!TornStaysTorn' /\ Tab!OneIdentity' /\ Tab!UncheckedIsStale'
    BY <1>2 DEF Tab!TornStaysTorn, Tab!OneIdentity, Tab!UncheckedIsStale, Tab!Shown, Tab!Session
  <1> QED
    BY <1>t, <1>a, <1>b, <1>c, <1>d, <1>e, <1>f, <1>g DEF StoreInv

LEMMA LogoutStep == ASSUME StoreInv, Tab!Logout PROVE StoreInv'
  <1>0. /\ Tab!TypeOK /\ Tasked /\ Numbered /\ Own /\ Alive /\ Emptied /\ Held /\ Looked /\ Kept
        /\ Tab!TornStaysTorn /\ Tab!OneIdentity /\ Tab!UncheckedIsStale
    BY DEF StoreInv
  <1>1. /\ Tab!Cleanup(Tab!NoGrant) /\ Tab!NoGrant \in 0 .. MaxGrant
        /\ UNCHANGED <<issued, of, fresh, consumed, good, storePc, storeReq, checked,
                       lost>>
    BY <1>0, Numbers DEF Tab!Logout, Tab!server, Tab!NoGrant
  <1>2. /\ access' = Tab!NoGrant /\ refresh' = Tab!NoGrant /\ subject' = Tab!NoGrant
        /\ validated' = FALSE /\ stale' = FALSE
        /\ generation' = generation + 1 /\ generation \in Nat
        /\ torn' \subseteq Issued \X (0 .. MaxGrant)
        /\ torn' \subseteq Tab!Pair \X (0 .. MaxGrant)
        /\ dropping' \subseteq {"access", "refresh"} \X Tab!Pair /\ dropping \subseteq dropping'
        /\ refresh # Tab!NoGrant => <<"refresh", refresh>> \in dropping'
        /\ \A q \in Login \ Tab!Staging :
             storePc[q] \in Carrying /\ storeReq[q].pair \notin Torn
                   => storeReq[q].pair \notin Torn'
        /\ Issued' = Issued /\ \A g : Tab!Session(g)' = Tab!Session(g)
    BY <1>1, Cleaning DEF Issued, Tab!Session
  <1>3. UNCHANGED <<issued, of, fresh, consumed, checked, lost, storePc, storeReq>>
    BY <1>1
  <1>t. Tab!TypeOK'
    <2>1. storePc' \in [Tab!Tasks -> Labels]
      BY <1>0, <1>1 DEF Tab!TypeOK, Labels
    <2>2. storeReq' \in [Tab!Tasks -> [pair : 0 .. issued, sent : 0 .. issued, gen : Nat, again : BOOLEAN]]
      BY <1>0, <1>1, Numbers DEF Tab!TypeOK
    <2>3. good' = good
      BY <1>1
    <2>4. /\ issued' \in Tab!Pair /\ of' \in [Tab!Pair -> 0 .. MaxGrant]
          /\ fresh' \subseteq 1 .. issued' /\ consumed' \subseteq 1 .. issued'
          /\ good' \subseteq 1 .. issued' /\ checked' \subseteq Tab!Pair
             /\ lost' \subseteq Tab!Pair
      BY <1>0, <1>3, <2>3 DEF Tab!TypeOK
    <2>5. Tab!NoGrant \in 0 .. issued /\ generation + 1 \in Nat
      BY <1>0, Numbers
    <2> QED
      BY <1>2, <1>3, <2>1, <2>2, <2>4, <2>5 DEF Tab!TypeOK, Labels
  <1>a. Tasked'
    BY <1>0, <1>2, <1>3, Numbers DEF Tasked, Carrying
  <1>b. Numbered'
    BY <1>0, <1>2, <1>3, Numbers DEF Numbered
  <1>c. Own'
    BY <1>0, <1>2, <1>3, Numbers DEF Own, Carrying
  <1>d. Alive' /\ Emptied'
    <2>1. \A q \in Login : /\ storePc'[q] = storePc[q] /\ storeReq'[q] = storeReq[q]
                           /\ storeReq[q].gen <= generation /\ storeReq[q].gen \in Nat
      BY <1>0, <1>3, Numbers DEF Tasked
    <2>2. Alive'
      BY <1>0, <1>2, <2>1, Numbers DEF Alive, Tab!Current, Tab!Staging, Carrying
    <2>3. Emptied'
      BY <1>0, <1>2, <2>1, Numbers DEF Emptied, Tab!Current, Tab!Staging
    <2> QED
      BY <2>2, <2>3
  <1>e. Held'
    BY <1>0, <1>2, <1>3, Numbers DEF Held, Tasked, Tab!Current
  <1>f. Looked' /\ Kept'
    BY <1>0, <1>2, <1>3, Numbers DEF Looked, Kept, Carrying
  <1>g. Tab!TornStaysTorn' /\ Tab!OneIdentity' /\ Tab!UncheckedIsStale'
    BY <1>2 DEF Tab!TornStaysTorn, Tab!OneIdentity, Tab!UncheckedIsStale, Tab!Shown, Tab!Session
  <1> QED
    BY <1>t, <1>a, <1>b, <1>c, <1>d, <1>e, <1>f, <1>g DEF StoreInv

LEMMA ResolveStartsStep == ASSUME StoreInv, Tab!ResolveStarts PROVE StoreInv'
  <1>0. /\ Tab!TypeOK /\ Tasked /\ Numbered /\ Own /\ Alive /\ Emptied /\ Held /\ Looked /\ Kept
        /\ Tab!TornStaysTorn /\ Tab!OneIdentity /\ Tab!UncheckedIsStale
    BY DEF StoreInv
  <1>1. /\ storePc["resolve"] = "idle"
        /\ \/ /\ access = Tab!NoGrant /\ refresh # Tab!NoGrant
              /\ storePc' = [storePc EXCEPT !["resolve"] = "refresh"]
              /\ storeReq' = [storeReq EXCEPT !["resolve"] =
                     [pair |-> Tab!NoGrant, sent |-> refresh, gen |-> generation, again |-> FALSE]]
           \/ /\ access # Tab!NoGrant /\ storePc' = [storePc EXCEPT !["resolve"] = "stage"]
              /\ storeReq' = [storeReq EXCEPT !["resolve"] =
                     [pair |-> access, sent |-> Tab!NoGrant, gen |-> generation, again |-> FALSE]]
        /\ UNCHANGED <<issued, of, fresh, consumed, good, access, refresh,
                       subject, generation, validated, stale, dropping, torn,
                       checked, lost>>
    BY <1>0, Numbers DEF Tab!ResolveStarts, Tab!NoRequest, Tab!Goto, Tab!server, Tab!tab
  <1>2. Issued' = Issued /\ Torn' = Torn /\ \A g : Tab!Session(g)' = Tab!Session(g)
    BY <1>1 DEF Issued, Torn, Tab!Session
  <1>3. /\ OtherTasks("resolve") /\ storeReq'["resolve"].gen = generation
        /\ \/ /\ access = Tab!NoGrant /\ refresh # Tab!NoGrant
              /\ storePc'["resolve"] = "refresh" /\ storeReq'["resolve"].sent = refresh
              /\ storeReq'["resolve"].pair = Tab!NoGrant
           \/ /\ access # Tab!NoGrant /\ storePc'["resolve"] = "stage"
              /\ storeReq'["resolve"].pair = access /\ storeReq'["resolve"].sent = Tab!NoGrant
    BY <1>0, <1>1, Numbers DEF Tab!TypeOK, OtherTasks, Tab!NoRequest
  <1>t. Tab!TypeOK'
    <2>1. storePc' \in [Tab!Tasks -> Labels]
      BY <1>0, <1>1, Numbers DEF Tab!TypeOK, Labels
    <2> DEFINE TaskRequest == [pair : 0 .. issued, sent : 0 .. issued, gen : Nat, again : BOOLEAN]
    <2>5. /\ storeReq \in [Tab!Tasks -> TaskRequest] /\ Tab!NoGrant \in 0 .. issued /\ 0 \in Nat
          /\ generation \in Nat /\ refresh \in 0 .. issued /\ access \in 0 .. issued
      BY <1>0, Numbers DEF Tab!TypeOK
    <2>6. /\ [pair |-> Tab!NoGrant, sent |-> refresh, gen |-> generation, again |-> FALSE] \in TaskRequest
          /\ [pair |-> access, sent |-> Tab!NoGrant, gen |-> generation, again |-> FALSE] \in TaskRequest
      BY <2>5 DEF Tab!NoRequest
    <2> HIDE DEF TaskRequest
    <2>7. storeReq' \in [Tab!Tasks -> TaskRequest]
      BY <1>0, <1>1, <2>5, <2>6, Numbers
    <2>2. storeReq' \in [Tab!Tasks -> [pair : 0 .. issued, sent : 0 .. issued, gen : Nat, again : BOOLEAN]]
      BY <2>7 DEF TaskRequest
    <2>3. /\ subject' \in 0 .. issued /\ access' \in 0 .. issued /\ refresh' \in 0 .. issued
          /\ stale' \in BOOLEAN /\ validated' \in BOOLEAN
      BY <1>0, <1>1, Numbers DEF Tab!TypeOK, Numbered
    <2>4. dropping' \subseteq {"access", "refresh"} \X Tab!Pair
      BY <1>0, <1>1, Numbers DEF Tab!TypeOK
    <2> QED
      BY <1>0, <1>1, <2>1, <2>2, <2>3, <2>4 DEF Tab!TypeOK, Labels
  <1>a. Tasked'
    BY <1>0, <1>1, <1>2, <1>3, Numbers DEF Tasked, OtherTasks, Carrying, Tab!NoRequest
  <1>b. Numbered'
    BY <1>0, <1>1, <1>2, <1>3, Numbers DEF Numbered, OtherTasks
  <1>c. Own'
    BY <1>0, <1>1, <1>2, <1>3, Numbers DEF Own, OtherTasks, Carrying, Tab!NoRequest
  <1>d. Alive' /\ Emptied'
    BY <1>0, <1>1, <1>2, <1>3, Numbers DEF Alive, Emptied, OtherTasks, Tab!Staging, Tab!Current
  <1>e. Held'
    BY <1>0, <1>1, <1>2, <1>3, Numbers DEF Held, OtherTasks, Tab!Current
  <1>f. Looked' /\ Kept'
    BY <1>0, <1>1, <1>2, <1>3, Numbers DEF Looked, Kept, OtherTasks, Carrying
  <1>g. Tab!TornStaysTorn' /\ Tab!OneIdentity' /\ Tab!UncheckedIsStale'
    BY <1>0, <1>1, <1>2, <1>3, Numbers DEF Tab!TornStaysTorn, Tab!OneIdentity,
       Tab!UncheckedIsStale, Tab!Shown, Torn
  <1> QED
    BY <1>t, <1>a, <1>b, <1>c, <1>d, <1>e, <1>f, <1>g DEF StoreInv

LEMMA ResolveRefreshedStep == ASSUME StoreInv, Tab!ResolveRefreshed PROVE StoreInv'
  <1>0. /\ Tab!TypeOK /\ Tasked /\ Numbered /\ Own /\ Alive /\ Emptied /\ Held /\ Looked /\ Kept
        /\ Tab!TornStaysTorn /\ Tab!OneIdentity /\ Tab!UncheckedIsStale
    BY DEF StoreInv
  <1>1. /\ storePc["resolve"] = "refreshed" /\ Tab!Current("resolve")
           /\ storeReq["resolve"].pair \in Issued
        /\ storePc' = [storePc EXCEPT !["resolve"] = "stage"] /\ storeReq' = storeReq
        /\ access' = storeReq["resolve"].pair /\ refresh' = storeReq["resolve"].pair
           /\ stale' = TRUE
        /\ refresh # Tab!NoGrant /\ refresh = storeReq["resolve"].sent /\ refresh \notin fresh
        /\ of[storeReq["resolve"].pair] = of[refresh]
        /\ UNCHANGED <<issued, of, fresh, consumed, good, subject,
                       generation, validated, dropping, torn, checked, lost>>
    BY <1>0, Numbers DEF Tab!ResolveRefreshed, Tab!Apply, Tab!Goto, Numbered, Held, Tab!server
  <1>2. Issued' = Issued /\ Torn' = Torn /\ \A g : Tab!Session(g)' = Tab!Session(g)
    BY <1>1 DEF Issued, Torn, Tab!Session
  <1>3. /\ storePc'["resolve"] = "stage" /\ OtherTasks("resolve")
    BY <1>0, <1>1, Numbers DEF Tab!TypeOK, OtherTasks, Tab!NoRequest
  <1>t. Tab!TypeOK'
    BY <1>0, <1>1, Numbers DEF Tab!TypeOK, Tab!NoRequest
  <1>a. Tasked'
    BY <1>0, <1>1, <1>2, <1>3, Numbers DEF Tasked, OtherTasks, Carrying, Tab!NoRequest
  <1>b. Numbered'
    BY <1>0, <1>1, <1>2, <1>3, Numbers DEF Numbered, OtherTasks
  <1>c. Own'
    BY <1>0, <1>1, <1>2, <1>3, Numbers DEF Own, OtherTasks, Carrying, Tab!NoRequest
  <1>d. Alive' /\ Emptied'
    BY <1>0, <1>1, <1>2, <1>3, Numbers DEF Alive, Emptied, OtherTasks, Tab!Staging, Tab!Current
  <1>e. Held'
    BY <1>0, <1>1, <1>2, <1>3, Numbers DEF Held, OtherTasks, Tab!Current
  <1>f. Looked' /\ Kept'
    BY <1>0, <1>1, <1>2, <1>3, Numbers DEF Looked, Kept, OtherTasks, Carrying
  <1>g. Tab!TornStaysTorn' /\ Tab!OneIdentity' /\ Tab!UncheckedIsStale'
    <2> DEFINE s == of[refresh]
    <2>1. /\ Tab!Session(access)' = s /\ Tab!Session(refresh)' = s /\ Tab!Session(refresh) = s
          /\ Tab!Session(subject)' = Tab!Session(subject) /\ s # Tab!NoGrant
      BY <1>0, <1>1, Numbers DEF Tab!Session, Numbered
    <2>2. s \notin Torn /\ subject \notin Torn \ {Tab!NoGrant}
      BY <1>0, <2>1 DEF Tab!TornStaysTorn, Tab!Shown, Torn
    <2>3. Tab!Shown' \subseteq {s, subject} \ {Tab!NoGrant}
      BY <1>1, <2>1 DEF Tab!Shown
    <2>4. Tab!TornStaysTorn'
      BY <1>2, <2>2, <2>3 DEF Tab!TornStaysTorn, Torn
    <2>5. subject # Tab!NoGrant => subject = s
      <3>1. Tab!Session(access) = Tab!NoGrant \/ Tab!Session(access) = Tab!Session(refresh)
        BY <1>0 DEF Tab!OneIdentity, Tab!Session
      <3> QED
        BY <1>0, <2>1, <3>1 DEF Tab!OneIdentity
    <2>6. Tab!OneIdentity' /\ Tab!UncheckedIsStale'
      BY <1>0, <1>1, <2>1, <2>5 DEF Tab!OneIdentity, Tab!UncheckedIsStale
    <2> QED
      BY <2>4, <2>6
  <1> QED
    BY <1>t, <1>a, <1>b, <1>c, <1>d, <1>e, <1>f, <1>g DEF StoreInv

LEMMA ResolveLateStep == ASSUME StoreInv, Tab!ResolveLate PROVE StoreInv'
  <1>0. /\ Tab!TypeOK /\ Tasked /\ Numbered /\ Own /\ Alive /\ Emptied /\ Held /\ Looked /\ Kept
        /\ Tab!TornStaysTorn /\ Tab!OneIdentity /\ Tab!UncheckedIsStale
    BY DEF StoreInv
  <1>1. /\ storePc["resolve"] = "refreshed"
        /\ storePc' = [storePc EXCEPT !["resolve"] = "idle"]
           /\ storeReq' = [storeReq EXCEPT !["resolve"] = Tab!NoRequest]
        /\ dropping' = dropping \union Tab!Halves(storeReq["resolve"].pair, storeReq["resolve"].pair)
        /\ Tab!Halves(storeReq["resolve"].pair, storeReq["resolve"].pair) \subseteq {"access", "refresh"} \X Tab!Pair
        /\ storeReq["resolve"].pair # Tab!NoGrant
           => <<"refresh", storeReq["resolve"].pair>> \in dropping'
        /\ UNCHANGED <<issued, of, fresh, consumed, good, access, refresh,
                       subject, generation, validated, stale, torn, checked,
                       lost>>
    BY <1>0, Numbers DEF Tab!ResolveLate, Tab!Finish, Tab!Goto, Tab!Halves, Tab!server, Tab!tab
  <1>2. Issued' = Issued /\ Torn' = Torn /\ \A g : Tab!Session(g)' = Tab!Session(g)
    BY <1>1 DEF Issued, Torn, Tab!Session
  <1>3. storePc'["resolve"] = "idle" /\ storeReq'["resolve"] = Tab!NoRequest
        /\ OtherTasks("resolve")
    BY <1>0, <1>1, Numbers DEF Tab!TypeOK, OtherTasks, Tab!NoRequest
  <1>t. Tab!TypeOK'
    BY <1>0, <1>1, Numbers DEF Tab!TypeOK, Tab!NoRequest
  <1>a. Tasked'
    BY <1>0, <1>1, <1>2, <1>3, Numbers DEF Tasked, OtherTasks, Carrying, Tab!NoRequest
  <1>b. Numbered'
    BY <1>0, <1>1, <1>2, <1>3, Numbers DEF Numbered, OtherTasks
  <1>c. Own'
    BY <1>0, <1>1, <1>2, <1>3, Numbers DEF Own, OtherTasks, Carrying, Tab!NoRequest
  <1>d. Alive' /\ Emptied'
    BY <1>0, <1>1, <1>2, <1>3, Numbers DEF Alive, Emptied, OtherTasks, Tab!Staging, Tab!Current
  <1>e. Held'
    BY <1>0, <1>1, <1>2, <1>3, Numbers DEF Held, OtherTasks, Tab!Current
  <1>f. Looked' /\ Kept'
    <2>1. Looked'
      BY <1>0, <1>1, <1>3, Numbers DEF Looked, OtherTasks
    <2>2. ASSUME NEW g \in fresh \ lost, g # refresh
          PROVE  \/ <<"refresh", g>> \in dropping'
                 \/ \E q \in Login : storePc'[q] \in Carrying /\ storeReq'[q].pair = g
                 \/ \E q \in {"resolve", "hook"} : storePc'[q] = "refreshed"
                    /\ storeReq'[q].pair = g
      <3>1. \A q \in Login \union {"hook"} : storePc'[q] = storePc[q]
            /\ storeReq'[q] = storeReq[q]
        BY <1>0, <1>3, Numbers DEF OtherTasks
      <3>2. g # Tab!NoGrant
        BY <1>0, <2>2, Numbers DEF Tab!TypeOK, Issued
      <3>3. dropping \subseteq dropping'
        BY <1>1
      <3> QED
        BY <1>0, <1>1, <2>2, <3>1, <3>2, <3>3 DEF Kept
    <2>3. Kept'
      BY <1>1, <2>2 DEF Kept
    <2> QED
      BY <2>1, <2>3
  <1>g. Tab!TornStaysTorn' /\ Tab!OneIdentity' /\ Tab!UncheckedIsStale'
    BY <1>0, <1>1, <1>2, <1>3, Numbers DEF Tab!TornStaysTorn, Tab!OneIdentity,
       Tab!UncheckedIsStale, Tab!Shown, Torn
  <1> QED
    BY <1>t, <1>a, <1>b, <1>c, <1>d, <1>e, <1>f, <1>g DEF StoreInv

LEMMA ResolveCommitsStep == ASSUME StoreInv, Tab!ResolveCommits PROVE StoreInv'
  <1>0. /\ Tab!TypeOK /\ Tasked /\ Numbered /\ Own /\ Alive /\ Emptied /\ Held /\ Looked /\ Kept
        /\ Tab!TornStaysTorn /\ Tab!OneIdentity /\ Tab!UncheckedIsStale
    BY DEF StoreInv
  <1>1. /\ storePc["resolve"] = "staged"
        /\ storePc' = [storePc EXCEPT !["resolve"] = "idle"]
           /\ storeReq' = [storeReq EXCEPT !["resolve"] = Tab!NoRequest]
        /\ \/ /\ Tab!Current("resolve") /\ storeReq["resolve"].pair \in Issued
              /\ subject' = of[storeReq["resolve"].pair] /\ validated' = TRUE
              /\ stale' = (stale /\ storeReq["resolve"].pair # access)
              /\ access \in Issued /\ of[access] = of[storeReq["resolve"].pair]
           \/ UNCHANGED <<subject, validated, stale>>
        /\ UNCHANGED <<issued, of, fresh, consumed, good, access, refresh,
                       generation, dropping, torn, checked, lost>>
    BY <1>0, Numbers DEF Tab!ResolveCommits, Tab!TokenCurrent, Tab!Finish, Tab!Goto,
       Tab!Session, Tasked, Held, Tab!server
  <1>2. Issued' = Issued /\ Torn' = Torn /\ \A g : Tab!Session(g)' = Tab!Session(g)
    BY <1>1 DEF Issued, Torn, Tab!Session
  <1>3. /\ storePc["resolve"] = "staged" /\ storePc'["resolve"] = "idle"
           /\ storeReq'["resolve"] = Tab!NoRequest
        /\ OtherTasks("resolve")
    BY <1>0, <1>1, Numbers DEF Tab!TypeOK, OtherTasks, Tab!NoRequest
  <1>t. Tab!TypeOK'
    <2>1. storePc' \in [Tab!Tasks -> Labels]
      BY <1>0, <1>1, Numbers DEF Tab!TypeOK, Labels
    <2>2. storeReq' \in [Tab!Tasks -> [pair : 0 .. issued, sent : 0 .. issued, gen : Nat, again : BOOLEAN]]
      BY <1>0, <1>1, Numbers DEF Tab!TypeOK, Tab!NoRequest
    <2>3. /\ subject' \in 0 .. issued /\ access' \in 0 .. issued /\ refresh' \in 0 .. issued
          /\ stale' \in BOOLEAN /\ validated' \in BOOLEAN
      BY <1>0, <1>1, Numbers DEF Tab!TypeOK, Numbered
    <2>4. dropping' \subseteq {"access", "refresh"} \X Tab!Pair
      BY <1>0, <1>1, Numbers DEF Tab!TypeOK
    <2> QED
      BY <1>0, <1>1, <2>1, <2>2, <2>3, <2>4 DEF Tab!TypeOK, Labels
  <1>a. Tasked'
    BY <1>0, <1>1, <1>2, <1>3, Numbers DEF Tasked, OtherTasks, Carrying, Tab!NoRequest
  <1>b. Numbered'
    BY <1>0, <1>1, <1>2, <1>3, Numbers DEF Numbered, OtherTasks
  <1>c. Own'
    BY <1>0, <1>1, <1>2, <1>3, Numbers DEF Own, OtherTasks, Carrying, Tab!NoRequest
  <1>d. Alive' /\ Emptied'
    BY <1>0, <1>1, <1>2, <1>3, Numbers DEF Alive, Emptied, OtherTasks, Tab!Staging, Tab!Current
  <1>e. Held'
    BY <1>0, <1>1, <1>2, <1>3, Numbers DEF Held, OtherTasks, Tab!Current
  <1>f. Looked' /\ Kept'
    BY <1>0, <1>1, <1>2, <1>3, Numbers DEF Looked, Kept, OtherTasks, Carrying
  <1>g. Tab!TornStaysTorn' /\ Tab!OneIdentity' /\ Tab!UncheckedIsStale'
    <2>1. CASE Tab!Current("resolve") /\ subject' = of[storeReq["resolve"].pair]
          /\ validated' = TRUE
               /\ stale' = (stale /\ storeReq["resolve"].pair # access)
               /\ access \in Issued /\ of[access] = of[storeReq["resolve"].pair]
      <3>1. Tab!Session(access) = of[access] /\ Tab!Session(access)' = Tab!Session(access)
            /\ Tab!Session(refresh)' = Tab!Session(refresh) /\ of[access] # Tab!NoGrant
        BY <1>0, <1>1, <2>1, Numbers DEF Tab!Session, Numbered
      <3>2. Tab!Shown' \subseteq Tab!Shown
        BY <2>1, <3>1 DEF Tab!Shown
      <3>3. Tab!TornStaysTorn'
        BY <1>0, <1>2, <3>2 DEF Tab!TornStaysTorn, Torn
      <3>4. Tab!OneIdentity'
        BY <1>0, <1>1, <2>1, <3>1 DEF Tab!OneIdentity
      <3>5. stale \/ storeReq["resolve"].pair = access
        BY <1>0, <1>3, <2>1 DEF Held
      <3>6. storeReq["resolve"].pair \in checked
        BY <1>0, <1>3 DEF Looked
      <3>7. ~stale' => storeReq["resolve"].pair = access
        BY <2>1, <3>5
      <3>8. Tab!UncheckedIsStale'
        BY <1>1, <3>6, <3>7 DEF Tab!UncheckedIsStale
      <3> QED
        BY <3>3, <3>4, <3>8
    <2>2. CASE UNCHANGED <<subject, validated, stale>>
      BY <1>0, <1>1, <1>2, <2>2 DEF Tab!TornStaysTorn, Tab!OneIdentity, Tab!UncheckedIsStale,
         Tab!Shown, Torn
    <2> QED
      BY <1>1, <2>1, <2>2
  <1> QED
    BY <1>t, <1>a, <1>b, <1>c, <1>d, <1>e, <1>f, <1>g DEF StoreInv

LEMMA ResolveRecoversStep == ASSUME StoreInv, Tab!ResolveRecovers PROVE StoreInv'
  <1>0. /\ Tab!TypeOK /\ Tasked /\ Numbered /\ Own /\ Alive /\ Emptied /\ Held /\ Looked /\ Kept
        /\ Tab!TornStaysTorn /\ Tab!OneIdentity /\ Tab!UncheckedIsStale
    BY DEF StoreInv
  <1>1. /\ storePc["resolve"] = "failed"
        /\ \/ /\ refresh # Tab!NoGrant /\ storePc' = [storePc EXCEPT !["resolve"] = "refresh"]
              /\ storeReq' = [storeReq EXCEPT !["resolve"] =
                     [pair |-> Tab!NoGrant, sent |-> refresh, gen |-> generation, again |-> TRUE]]
           \/ /\ storePc' = [storePc EXCEPT !["resolve"] = "idle"]
              /\ storeReq' = [storeReq EXCEPT !["resolve"] = Tab!NoRequest]
        /\ UNCHANGED <<issued, of, fresh, consumed, good, access, refresh,
                       subject, generation, validated, stale, dropping, torn,
                       checked, lost>>
    BY <1>0, Numbers DEF Tab!ResolveRecovers, Tab!NoRequest, Tab!Finish, Tab!Goto, Tab!server,
       Tab!tab
  <1>2. Issued' = Issued /\ Torn' = Torn /\ \A g : Tab!Session(g)' = Tab!Session(g)
    BY <1>1 DEF Issued, Torn, Tab!Session
  <1>3. /\ OtherTasks("resolve") /\ storePc["resolve"] = "failed"
           /\ storeReq'["resolve"].pair = Tab!NoGrant
        /\ \/ /\ refresh # Tab!NoGrant /\ storePc'["resolve"] = "refresh"
              /\ storeReq'["resolve"].sent = refresh /\ storeReq'["resolve"].gen = generation
           \/ storePc'["resolve"] = "idle" /\ storeReq'["resolve"] = Tab!NoRequest
    <2>1. OtherTasks("resolve")
      BY <1>0, <1>1, Numbers DEF Tab!TypeOK, OtherTasks
    <2>2. \A r, a : /\ [storePc EXCEPT !["resolve"] = a]["resolve"] = a
                  /\ [storeReq EXCEPT !["resolve"] = r]["resolve"] = r
      BY <1>0, Numbers DEF Tab!TypeOK
    <2>3. CASE /\ refresh # Tab!NoGrant /\ storePc' = [storePc EXCEPT !["resolve"] = "refresh"]
               /\ storeReq' = [storeReq EXCEPT !["resolve"] =
                      [pair |-> Tab!NoGrant, sent |-> refresh, gen |-> generation, again |-> TRUE]]
      BY <1>1, <2>1, <2>2, <2>3
    <2>4. CASE /\ storePc' = [storePc EXCEPT !["resolve"] = "idle"]
               /\ storeReq' = [storeReq EXCEPT !["resolve"] = Tab!NoRequest]
      BY <1>1, <2>1, <2>2, <2>4 DEF Tab!NoRequest
    <2> QED
      BY <1>1, <2>3, <2>4
  <1>t. Tab!TypeOK'
    <2>1. storePc' \in [Tab!Tasks -> Labels]
      BY <1>0, <1>1, Numbers DEF Tab!TypeOK, Labels
    <2> DEFINE TaskRequest == [pair : 0 .. issued, sent : 0 .. issued, gen : Nat, again : BOOLEAN]
    <2>5. /\ storeReq \in [Tab!Tasks -> TaskRequest] /\ Tab!NoGrant \in 0 .. issued /\ 0 \in Nat
          /\ generation \in Nat /\ refresh \in 0 .. issued /\ access \in 0 .. issued
      BY <1>0, Numbers DEF Tab!TypeOK
    <2>6. /\ [pair |-> Tab!NoGrant, sent |-> refresh, gen |-> generation, again |-> TRUE] \in TaskRequest
          /\ Tab!NoRequest \in TaskRequest
      BY <2>5 DEF Tab!NoRequest
    <2> HIDE DEF TaskRequest
    <2>7. storeReq' \in [Tab!Tasks -> TaskRequest]
      BY <1>0, <1>1, <2>5, <2>6, Numbers
    <2>2. storeReq' \in [Tab!Tasks -> [pair : 0 .. issued, sent : 0 .. issued, gen : Nat, again : BOOLEAN]]
      BY <2>7 DEF TaskRequest
    <2>3. /\ subject' \in 0 .. issued /\ access' \in 0 .. issued /\ refresh' \in 0 .. issued
          /\ stale' \in BOOLEAN /\ validated' \in BOOLEAN
      BY <1>0, <1>1, Numbers DEF Tab!TypeOK, Numbered
    <2>4. dropping' \subseteq {"access", "refresh"} \X Tab!Pair
      BY <1>0, <1>1, Numbers DEF Tab!TypeOK
    <2> QED
      BY <1>0, <1>1, <2>1, <2>2, <2>3, <2>4 DEF Tab!TypeOK, Labels
  <1>a. Tasked'
    BY <1>0, <1>1, <1>2, <1>3, Numbers DEF Tasked, OtherTasks, Carrying, Tab!NoRequest
  <1>b. Numbered'
    BY <1>0, <1>1, <1>2, <1>3, Numbers DEF Numbered, OtherTasks
  <1>c. Own'
    BY <1>0, <1>1, <1>2, <1>3, Numbers DEF Own, OtherTasks, Carrying, Tab!NoRequest
  <1>d. Alive' /\ Emptied'
    BY <1>0, <1>1, <1>2, <1>3, Numbers DEF Alive, Emptied, OtherTasks, Tab!Staging, Tab!Current
  <1>e. Held'
    BY <1>0, <1>1, <1>2, <1>3, Numbers DEF Held, OtherTasks, Tab!Current
  <1>f. Looked' /\ Kept'
    BY <1>0, <1>1, <1>2, <1>3, Numbers DEF Looked, Kept, OtherTasks, Carrying
  <1>g. Tab!TornStaysTorn' /\ Tab!OneIdentity' /\ Tab!UncheckedIsStale'
    BY <1>0, <1>1, <1>2, <1>3, Numbers DEF Tab!TornStaysTorn, Tab!OneIdentity,
       Tab!UncheckedIsStale, Tab!Shown, Torn
  <1> QED
    BY <1>t, <1>a, <1>b, <1>c, <1>d, <1>e, <1>f, <1>g DEF StoreInv

LEMMA HookStartsStep == ASSUME StoreInv, Tab!HookStarts PROVE StoreInv'
  <1>0. /\ Tab!TypeOK /\ Tasked /\ Numbered /\ Own /\ Alive /\ Emptied /\ Held /\ Looked /\ Kept
        /\ Tab!TornStaysTorn /\ Tab!OneIdentity /\ Tab!UncheckedIsStale
    BY DEF StoreInv
  <1>1. /\ storePc["hook"] = "idle" /\ refresh # Tab!NoGrant
        /\ storePc' = [storePc EXCEPT !["hook"] = "refresh"]
        /\ storeReq' = [storeReq EXCEPT !["hook"] = [Tab!NoRequest EXCEPT !.sent = refresh]]
        /\ UNCHANGED <<issued, of, fresh, consumed, good, access, refresh,
                       subject, generation, validated, stale, dropping, torn,
                       checked, lost>>
    BY <1>0, Numbers DEF Tab!HookStarts, Tab!Goto, Tab!server, Tab!tab
  <1>2. Issued' = Issued /\ Torn' = Torn /\ \A g : Tab!Session(g)' = Tab!Session(g)
    BY <1>1 DEF Issued, Torn, Tab!Session
  <1>3. /\ OtherTasks("hook") /\ storePc'["hook"] = "refresh"
           /\ storeReq'["hook"].pair = Tab!NoGrant
        /\ storeReq'["hook"].sent = refresh /\ storeReq'["hook"].gen = 0
    BY <1>0, <1>1, Numbers DEF Tab!TypeOK, OtherTasks, Tab!NoRequest
  <1>t. Tab!TypeOK'
    BY <1>0, <1>1, Numbers DEF Tab!TypeOK, Tab!NoRequest
  <1>a. Tasked'
    BY <1>0, <1>1, <1>2, <1>3, Numbers DEF Tasked, OtherTasks, Carrying, Tab!NoRequest
  <1>b. Numbered'
    BY <1>0, <1>1, <1>2, <1>3, Numbers DEF Numbered, OtherTasks
  <1>c. Own'
    BY <1>0, <1>1, <1>2, <1>3, Numbers DEF Own, OtherTasks, Carrying, Tab!NoRequest
  <1>d. Alive' /\ Emptied'
    BY <1>0, <1>1, <1>2, <1>3, Numbers DEF Alive, Emptied, OtherTasks, Tab!Staging, Tab!Current
  <1>e. Held'
    BY <1>0, <1>1, <1>2, <1>3, Numbers DEF Held, OtherTasks, Tab!Current
  <1>f. Looked' /\ Kept'
    BY <1>0, <1>1, <1>2, <1>3, Numbers DEF Looked, Kept, OtherTasks, Carrying
  <1>g. Tab!TornStaysTorn' /\ Tab!OneIdentity' /\ Tab!UncheckedIsStale'
    BY <1>0, <1>1, <1>2, <1>3, Numbers DEF Tab!TornStaysTorn, Tab!OneIdentity,
       Tab!UncheckedIsStale, Tab!Shown, Torn
  <1> QED
    BY <1>t, <1>a, <1>b, <1>c, <1>d, <1>e, <1>f, <1>g DEF StoreInv

LEMMA HookRefreshedStep == ASSUME StoreInv, Tab!HookRefreshed PROVE StoreInv'
  <1>0. /\ Tab!TypeOK /\ Tasked /\ Numbered /\ Own /\ Alive /\ Emptied /\ Held /\ Looked /\ Kept
        /\ Tab!TornStaysTorn /\ Tab!OneIdentity /\ Tab!UncheckedIsStale
    BY DEF StoreInv
  <1>1. /\ storePc["hook"] = "refreshed" /\ storeReq["hook"].pair \in Issued
        /\ storePc' = [storePc EXCEPT !["hook"] = "idle"]
           /\ storeReq' = [storeReq EXCEPT !["hook"] = Tab!NoRequest]
        /\ \/ /\ refresh # storeReq["hook"].sent
              /\ dropping' = dropping \union {<<"access", storeReq["hook"].pair>>, <<"refresh", storeReq["hook"].pair>>}
              /\ UNCHANGED <<access, refresh, stale>>
           \/ /\ refresh = storeReq["hook"].sent /\ dropping' = dropping
              /\ access' = storeReq["hook"].pair /\ refresh' = storeReq["hook"].pair
                 /\ stale' = TRUE
              /\ refresh \in Issued /\ refresh \notin fresh
              /\ of[storeReq["hook"].pair] = of[refresh]
        /\ UNCHANGED <<issued, of, fresh, consumed, good, subject,
                       generation, validated, torn, checked, lost>>
    BY <1>0, Numbers DEF Tab!HookRefreshed, Tab!Replaced, Tab!Apply, Tab!Finish, Tab!Goto,
       Tab!Halves, Tasked, Numbered, Tab!server, Tab!tab
  <1>2. Issued' = Issued /\ Torn' = Torn /\ \A g : Tab!Session(g)' = Tab!Session(g)
    BY <1>1 DEF Issued, Torn, Tab!Session
  <1>3. /\ storePc["hook"] = "refreshed" /\ storePc'["hook"] = "idle"
           /\ storeReq'["hook"] = Tab!NoRequest
        /\ OtherTasks("hook")
    BY <1>0, <1>1, Numbers DEF Tab!TypeOK, OtherTasks, Tab!NoRequest
  <1>t. Tab!TypeOK'
    <2>1. storePc' \in [Tab!Tasks -> Labels]
      BY <1>0, <1>1, Numbers DEF Tab!TypeOK, Labels
    <2>2. storeReq' \in [Tab!Tasks -> [pair : 0 .. issued, sent : 0 .. issued, gen : Nat, again : BOOLEAN]]
      BY <1>0, <1>1, Numbers DEF Tab!TypeOK, Tab!NoRequest
    <2>3. /\ subject' \in 0 .. issued /\ access' \in 0 .. issued /\ refresh' \in 0 .. issued
          /\ stale' \in BOOLEAN /\ validated' \in BOOLEAN
      BY <1>0, <1>1, Numbers DEF Tab!TypeOK, Numbered
    <2>4. dropping' \subseteq {"access", "refresh"} \X Tab!Pair
      BY <1>0, <1>1, Numbers DEF Tab!TypeOK
    <2> QED
      BY <1>0, <1>1, <2>1, <2>2, <2>3, <2>4 DEF Tab!TypeOK, Labels
  <1>a. Tasked'
    BY <1>0, <1>1, <1>2, <1>3, Numbers DEF Tasked, OtherTasks, Carrying, Tab!NoRequest
  <1>b. Numbered'
    BY <1>0, <1>1, <1>2, <1>3, Numbers DEF Numbered, OtherTasks
  <1>c. Own'
    BY <1>0, <1>1, <1>2, <1>3, Numbers DEF Own, OtherTasks, Carrying, Tab!NoRequest
  <1>d. Alive' /\ Emptied'
    BY <1>0, <1>1, <1>2, <1>3, Numbers DEF Alive, Emptied, OtherTasks, Tab!Staging, Tab!Current
  <1>e. Held'
    <2>1. CASE UNCHANGED <<access, refresh, stale>>
      BY <1>0, <1>1, <1>2, <1>3, <2>1, Numbers DEF Held, OtherTasks, Tab!Current
    <2>2. CASE /\ refresh = storeReq["hook"].sent /\ access' = storeReq["hook"].pair
               /\ refresh' = storeReq["hook"].pair /\ stale' = TRUE
               /\ refresh \in Issued /\ refresh \notin fresh
               /\ of[storeReq["hook"].pair] = of[refresh]
      <3>1. storePc'["resolve"] = storePc["resolve"] /\ storeReq'["resolve"] = storeReq["resolve"]
        BY <1>0, <1>3, Numbers DEF OtherTasks
      <3>2. access # Tab!NoGrant => of[access] = of[refresh]
        BY <1>0, <1>1, <2>2, Numbers DEF Tab!OneIdentity, Tab!Session
      <3>3. storeReq["hook"].pair # Tab!NoGrant
        BY <1>0, <1>1, Numbers
      <3>4. ~(storePc["resolve"] = "refreshed" /\ storeReq["resolve"].pair # Tab!NoGrant /\ refresh = storeReq["resolve"].sent)
        BY <1>0, <1>3, <2>2, <3>3 DEF Numbered
      <3> QED
        BY <1>0, <1>1, <2>2, <3>1, <3>2, <3>3, <3>4 DEF Held, Tab!Current
    <2> QED
      BY <1>1, <2>1, <2>2
  <1>f. Looked' /\ Kept'
    BY <1>0, <1>1, <1>2, <1>3, Numbers DEF Looked, Kept, OtherTasks, Carrying
  <1>g. Tab!TornStaysTorn' /\ Tab!OneIdentity' /\ Tab!UncheckedIsStale'
    <2>1. CASE UNCHANGED <<access, refresh, stale>>
      BY <1>0, <1>1, <1>2, <2>1 DEF Tab!TornStaysTorn, Tab!OneIdentity, Tab!UncheckedIsStale,
         Tab!Shown, Torn
    <2>2. CASE /\ refresh = storeReq["hook"].sent /\ access' = storeReq["hook"].pair
               /\ refresh' = storeReq["hook"].pair /\ stale' = TRUE
               /\ refresh \in Issued /\ refresh \notin fresh
               /\ of[storeReq["hook"].pair] = of[refresh]
      <3> DEFINE s == of[refresh]
      <3>1. /\ Tab!Session(access)' = s /\ Tab!Session(refresh)' = s /\ Tab!Session(refresh) = s
            /\ Tab!Session(subject)' = Tab!Session(subject) /\ s # Tab!NoGrant
        BY <1>0, <1>1, <2>2, Numbers DEF Tab!Session, Numbered
      <3>2. s \notin Torn /\ subject \notin Torn \ {Tab!NoGrant}
        BY <1>0, <3>1 DEF Tab!TornStaysTorn, Tab!Shown, Torn
      <3>3. Tab!Shown' \subseteq {s, subject} \ {Tab!NoGrant}
        BY <1>1, <2>2, <3>1 DEF Tab!Shown
      <3>4. Tab!TornStaysTorn'
        BY <1>2, <3>2, <3>3 DEF Tab!TornStaysTorn, Torn
      <3>5. subject # Tab!NoGrant => subject = s
        <4>1. Tab!Session(access) = Tab!NoGrant \/ Tab!Session(access) = Tab!Session(refresh)
          BY <1>0 DEF Tab!OneIdentity, Tab!Session
        <4> QED
          BY <1>0, <3>1, <4>1 DEF Tab!OneIdentity
      <3>6. Tab!OneIdentity' /\ Tab!UncheckedIsStale'
        BY <1>0, <1>1, <2>2, <3>1, <3>5 DEF Tab!OneIdentity, Tab!UncheckedIsStale
      <3> QED
        BY <3>4, <3>6
    <2> QED
      BY <1>1, <2>1, <2>2
  <1> QED
    BY <1>t, <1>a, <1>b, <1>c, <1>d, <1>e, <1>f, <1>g DEF StoreInv

LEMMA StoreStep == ASSUME StoreInv, [Tab!Next]_(Tab!vars) PROVE StoreInv'
  <1>1. ASSUME UNCHANGED Tab!vars PROVE StoreInv'
    <2>1. /\ UNCHANGED <<issued, of, fresh, consumed, good>>
          /\ UNCHANGED <<access, refresh, subject, generation, validated, stale>>
          /\ UNCHANGED <<storePc, storeReq, dropping, torn, checked, lost>>
      BY <1>1 DEF Tab!vars, Tab!server, Tab!tab
    <2>2. Issued' = Issued /\ Torn' = Torn /\ Tab!Staging' = Tab!Staging
          /\ \A g : Tab!Session(g)' = Tab!Session(g)
      BY <2>1 DEF Issued, Torn, Tab!Staging, Tab!Session
    <2>3. Tab!TypeOK' /\ Tasked' /\ Numbered'
      BY <2>1, <2>2 DEF StoreInv, Tab!TypeOK, Tasked, Numbered
    <2>4. Own' /\ Alive' /\ Emptied'
      BY <2>1, <2>2 DEF StoreInv, Own, Alive, Emptied, Tab!Current
    <2>5. Held' /\ Looked' /\ Kept'
      BY <2>1, <2>2 DEF StoreInv, Held, Looked, Kept, Tab!Current
    <2>6. Tab!TornStaysTorn' /\ Tab!OneIdentity' /\ Tab!UncheckedIsStale'
      BY <2>1, <2>2 DEF StoreInv, Tab!TornStaysTorn, Tab!OneIdentity, Tab!UncheckedIsStale,
         Tab!Shown
    <2> QED
      BY <2>3, <2>4, <2>5, <2>6 DEF StoreInv
  <1> QED
    BY <1>1, GrantServedStep, GrantRefusedStep, LoginStartsStep, GrantedStep, DrainedStep,
       LoginCommitsStep, LoginAbortsStep, RefreshServedStep, RefreshRefusedStep, StageServedStep,
       RevokedStep, SessionEndsStep, ResolveStartsStep, ResolveRefreshedStep, ResolveLateStep,
       ResolveFailedStep, ResolveCommitsStep, ResolveRecoversStep, LogoutStep, HookStartsStep,
       HookRefreshedStep, HookFailedStep DEF Tab!Next

LEMMA StoreStart == ASSUME Tab!Init PROVE StoreInv
  <1>1. 1 \in Tab!Pair /\ issued = 1 /\ Issued = {1} /\ Tab!NoGrant \notin Issued
        /\ Tab!Pair \subseteq Nat /\ MaxGrant \in Nat /\ "resolve" \in Tab!Tasks
           /\ "hook" \in Tab!Tasks
        /\ Login \subseteq Tab!Tasks
    BY TabTyped DEF Tab!ClientAssumption, Tab!Pair, Tab!Init, Issued, Tab!NoGrant, Tab!Tasks
  <1>2. Tab!TypeOK
    <2>1. of \in [Tab!Pair -> 0 .. MaxGrant]
      BY <1>1, TabTyped DEF Tab!ClientAssumption, Tab!Init, Tab!NoGrant, Tab!Pair
    <2>2. storePc \in [Tab!Tasks -> Labels]
      BY DEF Tab!Init, Labels
    <2>3. storeReq \in [Tab!Tasks -> [pair : 0 .. issued, sent : 0 .. issued, gen : Nat, again : BOOLEAN]]
      BY <1>1 DEF Tab!Init, Tab!NoRequest, Tab!NoGrant
    <2>4. /\ fresh \subseteq 1 .. issued /\ consumed \subseteq 1 .. issued
             /\ good \subseteq 1 .. issued
          /\ access \in 0 .. issued /\ refresh \in 0 .. issued /\ subject \in 0 .. issued
      BY <1>1 DEF Tab!Init, Tab!NoGrant
    <2>5. /\ generation \in Nat /\ validated \in BOOLEAN /\ stale \in BOOLEAN
          /\ dropping \subseteq {"access", "refresh"} \X Tab!Pair
          /\ torn \subseteq Tab!Pair \X (0 .. MaxGrant) /\ checked \subseteq Tab!Pair
             /\ lost \subseteq Tab!Pair
      BY <1>1 DEF Tab!Init
    <2> QED
      BY <1>1, <2>1, <2>2, <2>3, <2>4, <2>5 DEF Tab!TypeOK, Labels
  <1>3. Tasked
    BY <1>1 DEF Tab!Init, Tasked, Carrying, Tab!NoRequest
  <1>4. Numbered
    BY <1>1 DEF Tab!Init, Numbered
  <1>5. Own /\ Alive /\ Emptied
    BY <1>1 DEF Tab!Init, Own, Alive, Emptied, Carrying, Tab!Staging
  <1>6. Held /\ Looked /\ Kept
    BY <1>1 DEF Tab!Init, Held, Looked, Kept, Tab!NoRequest, Tab!NoGrant
  <1>7. Tab!TornStaysTorn /\ Tab!OneIdentity /\ Tab!UncheckedIsStale
    BY <1>1 DEF Tab!Init, Tab!TornStaysTorn, Tab!OneIdentity, Tab!UncheckedIsStale, Tab!Session,
       Tab!NoGrant
  <1> QED
    BY <1>2, <1>3, <1>4, <1>5, <1>6, <1>7 DEF StoreInv

LEMMA StoreSafe ==
  ASSUME StoreInv
  PROVE  Tab!TypeOK /\ Tab!TornStaysTorn /\ Tab!OneIdentity /\ Tab!UncheckedIsStale
        /\ Tab!NoOrphan
  <1>1. Tab!NoOrphan
    BY TabTyped DEF StoreInv, Kept, Tab!NoOrphan, Carrying, Tab!Tasks
  <1> QED
    BY <1>1 DEF StoreInv

-----------------------------------------------------------------------------
(* The composition.  The device grant is typed as DeviceGrantProofs shows. *)

Device == INSTANCE DeviceGrantProofs WITH pc <- lookupPc, req <- lookup

LEMMA DeviceTyped == Device!DeviceAssumption
BY LookupsTyped DEF Device!DeviceAssumption, Lookups!DeviceAssumption, Device!NoCode,
   Lookups!NoCode

LEMMA SameLookupStart == Lookups!Init <=> Device!Init
BY DEF Lookups!Init, Device!Init, Lookups!NoCode, Device!NoCode, Lookups!NoRequest,
   Device!NoRequest, Lookups!Undecided, Device!Undecided

LEMMA SameLookupStep == Lookups!Next => Device!Next
BY DEF Lookups!store, Device!store, Lookups!throttle, Device!throttle, Lookups!told,
   Device!told, Lookups!vars, Device!vars, Lookups!NoRequest, Device!NoRequest,
   Lookups!Goto, Device!Goto, Lookups!Finish, Device!Finish, Lookups!Indexed,
   Device!Indexed, Lookups!Stored, Device!Stored, Lookups!Expired, Device!Expired,
   Lookups!Decided, Device!Decided, Lookups!Issue, Device!Issue, Lookups!AddIndex,
   Device!AddIndex, Lookups!Redraw, Device!Redraw, Lookups!Store, Device!Store,
   Lookups!Enter, Device!Enter, Lookups!LookupThrottle, Device!LookupThrottle,
   Lookups!FindByUserCode, Device!FindByUserCode, Lookups!FindRequest, Device!FindRequest,
   Lookups!FindDecision, Device!FindDecision, Lookups!Pending, Device!Pending,
   Lookups!JudgeMiss, Device!JudgeMiss, Lookups!JudgeRefuse, Device!JudgeRefuse,
   Lookups!JudgePass, Device!JudgePass, Lookups!AtLimit, Device!AtLimit, Lookups!CountMiss,
   Device!CountMiss, Lookups!Lock, Device!Lock, Lookups!MayDecide, Device!MayDecide,
   Lookups!Given, Device!Given, Lookups!Decide, Device!Decide, Lookups!DecideRefused,
   Device!DecideRefused, Lookups!RemoveUserCode, Device!RemoveUserCode, Lookups!HasMisses,
   Device!HasMisses, Lookups!ClaimReset, Device!ClaimReset, Lookups!DropMisses,
   Device!DropMisses, Lookups!Poll, Device!Poll, Lookups!Remove, Device!Remove,
   Lookups!TouchPoll, Device!TouchPoll, Lookups!PopRequest, Device!PopRequest,
   Lookups!PopDecision, Device!PopDecision, Lookups!DropPoll, Device!DropPoll, Lookups!Fail,
   Device!Fail, Lookups!CacheLoss, Device!CacheLoss, Lookups!Tick, Device!Tick,
   Lookups!Step, Device!Step, Lookups!Next, Device!Next, Lookups!NoCode, Device!NoCode,
   Lookups!Undecided, Device!Undecided

LEMMA SameLookupSpec == Lookups!Spec => Device!Spec
<1>1. [Lookups!Next]_(Lookups!vars) => [Device!Next]_(Device!vars)
  BY SameLookupStep DEF Lookups!vars, Device!vars, Lookups!store, Device!store,
     Lookups!throttle, Device!throttle, Lookups!told, Device!told
<1> QED
  BY SameLookupStart, <1>1, PTL DEF Lookups!Spec, Device!Spec

(* The misses of a window stay bounded.                                    *)
LEMMA LookupsSafe == Lookups!Spec => [](Lookups!TypeOK /\ Lookups!MissesBounded)
<1>1. Device!TypeOK => Lookups!TypeOK
  BY DEF Device!TypeOK, Lookups!TypeOK, Device!NoCode, Lookups!NoCode, Device!Undecided,
     Lookups!Undecided, Device!Verdict, Lookups!Verdict, Device!Label, Lookups!Label,
     Device!Request, Lookups!Request
<1>2. Lookups!Spec => []Lookups!TypeOK
  BY SameLookupSpec, DeviceTyped, Device!TypeCorrect, <1>1, PTL
<1>3. Lookups!Init => MissInv
  BY MissStart
<1>4. Lookups!TypeOK /\ MissInv /\ [Lookups!Next]_(Lookups!vars) => MissInv'
  BY MissStep
<1>5. Lookups!TypeOK /\ MissInv => Lookups!MissesBounded
  BY MissSafe
<1> QED
  BY <1>2, <1>3, <1>4, <1>5, PTL DEF Lookups!Spec

(* The lock file.                                                          *)
LEMMA HostInductive == Host!Spec => []HostInv
BY HostStart, HostStep, PTL DEF Host!Spec

(* The rollups.                                                            *)
RollupInv == LogTyped /\ Underway /\ Alone /\ Complete

LEMMA RollupsInductive == Rollups!Spec => []RollupInv
<1>1. Rollups!Init => RollupInv
  BY RollupStart DEF RollupInv
<1>2. RollupInv /\ [Rollups!Next]_(Rollups!vars) => RollupInv'
  BY LogStep, UnderwayStep, AloneStep, CompleteStep DEF RollupInv
<1> QED
  BY <1>1, <1>2, PTL DEF Rollups!Spec

LEMMA CountedInductive ==
  ASSUME 2 * DayLength < EventsKept
  PROVE  Rollups!Spec => []CountedLog
<1>1. Rollups!Init => CountedLog
  BY RollupStart
<1>2. RollupInv /\ CountedLog /\ [Rollups!Next]_(Rollups!vars) => CountedLog'
  BY CountedLogStep DEF RollupInv
<1> QED
  BY RollupsInductive, <1>1, <1>2, PTL DEF Rollups!Spec

(* A step of either part of the store is a step of the store of a tab.     *)
LEMMA StoreMoves == ASSUME generation \in Nat, Store!Next PROVE Tab!Next
<1>1. ASSUME NEW cause, Store!Cleanup(cause) PROVE Tab!Cleanup(cause)
  <2>1. generation < MaxGen + LossyGen
    BY <1>1, StoreTyped DEF Store!Cleanup, Store!ClientAssumption, LossyStore!ClientAssumption
  <2> QED
    BY <1>1, <2>1 DEF Store!Cleanup, Tab!Cleanup, Store!NoGrant, Tab!NoGrant, Store!Halves, Tab!Halves,
       Store!Shown, Tab!Shown, Store!Session, Tab!Session, Store!Staging, Tab!Staging
<1>2. ASSUME NEW o \in Login, Store!GrantServed(o) PROVE Tab!GrantServed(o)
  BY <1>2 DEF Store!GrantServed, Tab!GrantServed, Store!NoGrant, Tab!NoGrant, Store!tab,
     Tab!tab, Store!Goto, Tab!Goto, Store!Issue, Tab!Issue
<1>3. ASSUME NEW o \in Login, Store!GrantRefused(o) PROVE Tab!GrantRefused(o)
  BY <1>3 DEF Store!GrantRefused, Tab!GrantRefused, Store!server, Tab!server, Store!tab,
     Tab!tab, Store!Finish, Tab!Finish, Store!NoRequest, Tab!NoRequest, Store!Goto, Tab!Goto,
     Store!NoGrant, Tab!NoGrant
<1>4. ASSUME NEW o \in Login, Store!LoginStarts(o) PROVE Tab!LoginStarts(o)
  BY <1>4 DEF Store!LoginStarts, Tab!LoginStarts, Store!server, Tab!server, Store!tab,
     Tab!tab, Store!Goto, Tab!Goto
<1>5. ASSUME NEW o \in Login, Store!Granted(o) PROVE Tab!Granted(o)
  BY <1>1, <1>5 DEF Store!Granted, Tab!Granted, Store!NoGrant, Tab!NoGrant, Store!server,
     Tab!server, Store!Goto, Tab!Goto
<1>6. ASSUME NEW o \in Login, Store!Drained(o) PROVE Tab!Drained(o)
  BY <1>6 DEF Store!Drained, Tab!Drained, Store!server, Tab!server, Store!tab, Tab!tab,
     Store!Halves, Tab!Halves, Store!Goto, Tab!Goto, Store!NoGrant, Tab!NoGrant
<1>7. ASSUME NEW o \in Login, Store!LoginCommits(o) PROVE Tab!LoginCommits(o)
  BY <1>7 DEF Store!LoginCommits, Tab!LoginCommits, Store!server, Tab!server, Store!Session,
     Tab!Session, Store!Finish, Tab!Finish, Store!Current, Tab!Current, Store!NoRequest,
     Tab!NoRequest, Store!Goto, Tab!Goto, Store!NoGrant, Tab!NoGrant
<1>8. ASSUME NEW o \in Login, Store!LoginAborts(o) PROVE Tab!LoginAborts(o)
  BY <1>8 DEF Store!LoginAborts, Tab!LoginAborts, Store!server, Tab!server, Store!tab,
     Tab!tab, Store!Halves, Tab!Halves, Store!Finish, Tab!Finish, Store!Current, Tab!Current,
     Store!NoRequest, Tab!NoRequest, Store!Goto, Tab!Goto, Store!NoGrant, Tab!NoGrant
<1>9. ASSUME NEW p \in {"resolve", "hook"}, Store!RefreshServed(p) PROVE Tab!RefreshServed(p)
  BY <1>9 DEF Store!RefreshServed, Tab!RefreshServed, Store!tab, Tab!tab, Store!Goto,
     Tab!Goto, Store!Issue, Tab!Issue, Store!NoGrant, Tab!NoGrant
<1>10. ASSUME NEW p \in {"resolve", "hook"}, Store!RefreshRefused(p) PROVE Tab!RefreshRefused(p)
  BY <1>10 DEF Store!RefreshRefused, Tab!RefreshRefused, Store!tab, Tab!tab, Store!Goto,
     Tab!Goto, Store!Family, Tab!Family, Store!Pair, Tab!Pair
<1>11. ASSUME NEW p \in Login \union {"resolve"}, Store!StageServed(p) PROVE Tab!StageServed(p)
  BY <1>11 DEF Store!StageServed, Tab!StageServed, Store!server, Tab!server, Store!tab,
     Tab!tab, Store!Goto, Tab!Goto
<1>12. ASSUME NEW h \in dropping, Store!Revoked(h) PROVE Tab!Revoked(h)
  BY <1>12 DEF Store!Revoked, Tab!Revoked, Store!tab, Tab!tab
<1>13. ASSUME NEW s \in {of[g] : g \in fresh}, Store!SessionEnds(s) PROVE Tab!SessionEnds(s)
  BY <1>13 DEF Store!SessionEnds, Tab!SessionEnds, Store!tab, Tab!tab, Store!Family,
     Tab!Family, Store!Pair, Tab!Pair
<1>14. ASSUME Store!ResolveStarts PROVE Tab!ResolveStarts
  BY <1>14 DEF Store!ResolveStarts, Tab!ResolveStarts, Store!NoGrant, Tab!NoGrant,
     Store!server, Tab!server, Store!tab, Tab!tab, Store!NoRequest, Tab!NoRequest, Store!Goto,
     Tab!Goto
<1>15. ASSUME Store!ResolveRefreshed PROVE Tab!ResolveRefreshed
  BY <1>15 DEF Store!ResolveRefreshed, Tab!ResolveRefreshed, Store!NoGrant, Tab!NoGrant,
     Store!server, Tab!server, Store!Goto, Tab!Goto, Store!Apply, Tab!Apply, Store!Current,
     Tab!Current
<1>16. ASSUME Store!ResolveLate PROVE Tab!ResolveLate
  BY <1>16 DEF Store!ResolveLate, Tab!ResolveLate, Store!server, Tab!server, Store!tab,
     Tab!tab, Store!Halves, Tab!Halves, Store!Finish, Tab!Finish, Store!Current, Tab!Current,
     Store!NoRequest, Tab!NoRequest, Store!Goto, Tab!Goto, Store!NoGrant, Tab!NoGrant
<1>17. ASSUME Store!ResolveFailed PROVE Tab!ResolveFailed
  BY <1>1, <1>17 DEF Store!ResolveFailed, Tab!ResolveFailed, Store!NoGrant, Tab!NoGrant,
     Store!server, Tab!server, Store!Finish, Tab!Finish, Store!Current, Tab!Current,
     Store!NoRequest, Tab!NoRequest, Store!Goto, Tab!Goto
<1>18. ASSUME Store!ResolveCommits PROVE Tab!ResolveCommits
  BY <1>18 DEF Store!ResolveCommits, Tab!ResolveCommits, Store!server, Tab!server,
     Store!Session, Tab!Session, Store!Finish, Tab!Finish, Store!Current, Tab!Current,
     Store!TokenCurrent, Tab!TokenCurrent, Store!NoRequest, Tab!NoRequest, Store!Goto,
     Tab!Goto, Store!NoGrant, Tab!NoGrant
<1>19. ASSUME Store!ResolveRecovers PROVE Tab!ResolveRecovers
  BY <1>19 DEF Store!ResolveRecovers, Tab!ResolveRecovers, Store!NoGrant, Tab!NoGrant,
     Store!server, Tab!server, Store!tab, Tab!tab, Store!NoRequest, Tab!NoRequest, Store!Goto,
     Tab!Goto, Store!Finish, Tab!Finish
<1>20. ASSUME Store!Logout PROVE Tab!Logout
  BY <1>1, <1>20 DEF Store!Logout, Tab!Logout, Store!NoGrant, Tab!NoGrant, Store!server,
     Tab!server, Store!Staging, Tab!Staging
<1>21. ASSUME Store!HookStarts PROVE Tab!HookStarts
  BY <1>21 DEF Store!HookStarts, Tab!HookStarts, Store!NoGrant, Tab!NoGrant, Store!server,
     Tab!server, Store!tab, Tab!tab, Store!NoRequest, Tab!NoRequest, Store!Goto, Tab!Goto
<1>22. ASSUME Store!HookRefreshed PROVE Tab!HookRefreshed
  BY <1>22 DEF Store!HookRefreshed, Tab!HookRefreshed, Store!NoGrant, Tab!NoGrant,
     Store!server, Tab!server, Store!tab, Tab!tab, Store!Halves, Tab!Halves, Store!Finish,
     Tab!Finish, Store!Apply, Tab!Apply, Store!Replaced, Tab!Replaced, Store!NoRequest,
     Tab!NoRequest, Store!Goto, Tab!Goto
<1>23. ASSUME Store!HookFailed PROVE Tab!HookFailed
  BY <1>1, <1>23 DEF Store!HookFailed, Tab!HookFailed, Store!NoGrant, Tab!NoGrant,
     Store!server, Tab!server, Store!Session, Tab!Session, Store!Finish, Tab!Finish,
     Store!NoRequest, Tab!NoRequest, Store!Goto, Tab!Goto
<1> QED
  BY <1>2, <1>3, <1>4, <1>5, <1>6, <1>7, <1>8, <1>9, <1>10, <1>11, <1>12, <1>13, <1>14, <1>15,
     <1>16, <1>17, <1>18, <1>19, <1>20, <1>21, <1>22, <1>23 DEF Store!Next, Tab!Next

LEMMA LossyMoves == ASSUME generation \in Nat, LossyStore!Next PROVE Tab!Next
<1>1. ASSUME NEW cause, LossyStore!Cleanup(cause) PROVE Tab!Cleanup(cause)
  <2>1. generation < MaxGen + LossyGen
    BY <1>1, StoreTyped DEF LossyStore!Cleanup, Store!ClientAssumption, LossyStore!ClientAssumption
  <2> QED
    BY <1>1, <2>1 DEF LossyStore!Cleanup, Tab!Cleanup, LossyStore!NoGrant, Tab!NoGrant, LossyStore!Halves, Tab!Halves,
       LossyStore!Shown, Tab!Shown, LossyStore!Session, Tab!Session, LossyStore!Staging, Tab!Staging
<1>2. ASSUME NEW o \in Login, LossyStore!GrantServed(o) PROVE Tab!GrantServed(o)
  BY <1>2 DEF LossyStore!GrantServed, Tab!GrantServed, LossyStore!NoGrant, Tab!NoGrant,
     LossyStore!tab, Tab!tab, LossyStore!Goto, Tab!Goto, LossyStore!Issue, Tab!Issue
<1>3. ASSUME NEW o \in Login, LossyStore!GrantRefused(o) PROVE Tab!GrantRefused(o)
  BY <1>3 DEF LossyStore!GrantRefused, Tab!GrantRefused, LossyStore!server, Tab!server,
     LossyStore!tab, Tab!tab, LossyStore!Finish, Tab!Finish, LossyStore!NoRequest,
     Tab!NoRequest, LossyStore!Goto, Tab!Goto, LossyStore!NoGrant, Tab!NoGrant
<1>4. ASSUME NEW o \in Login, LossyStore!LoginStarts(o) PROVE Tab!LoginStarts(o)
  BY <1>4 DEF LossyStore!LoginStarts, Tab!LoginStarts, LossyStore!server, Tab!server,
     LossyStore!tab, Tab!tab, LossyStore!Goto, Tab!Goto
<1>5. ASSUME NEW o \in Login, LossyStore!Granted(o) PROVE Tab!Granted(o)
  BY <1>1, <1>5 DEF LossyStore!Granted, Tab!Granted, LossyStore!NoGrant, Tab!NoGrant,
     LossyStore!server, Tab!server, LossyStore!Goto, Tab!Goto
<1>6. ASSUME NEW o \in Login, LossyStore!Drained(o) PROVE Tab!Drained(o)
  BY <1>6 DEF LossyStore!Drained, Tab!Drained, LossyStore!server, Tab!server, LossyStore!tab,
     Tab!tab, LossyStore!Halves, Tab!Halves, LossyStore!Goto, Tab!Goto, LossyStore!NoGrant,
     Tab!NoGrant
<1>7. ASSUME NEW o \in Login, LossyStore!LoginCommits(o) PROVE Tab!LoginCommits(o)
  BY <1>7 DEF LossyStore!LoginCommits, Tab!LoginCommits, LossyStore!server, Tab!server,
     LossyStore!Session, Tab!Session, LossyStore!Finish, Tab!Finish, LossyStore!Current,
     Tab!Current, LossyStore!NoRequest, Tab!NoRequest, LossyStore!Goto, Tab!Goto,
     LossyStore!NoGrant, Tab!NoGrant
<1>8. ASSUME NEW o \in Login, LossyStore!LoginAborts(o) PROVE Tab!LoginAborts(o)
  BY <1>8 DEF LossyStore!LoginAborts, Tab!LoginAborts, LossyStore!server, Tab!server,
     LossyStore!tab, Tab!tab, LossyStore!Halves, Tab!Halves, LossyStore!Finish, Tab!Finish,
     LossyStore!Current, Tab!Current, LossyStore!NoRequest, Tab!NoRequest, LossyStore!Goto,
     Tab!Goto, LossyStore!NoGrant, Tab!NoGrant
<1>9. ASSUME NEW p \in {"resolve", "hook"}, LossyStore!RefreshServed(p) PROVE Tab!RefreshServed(p)
  BY <1>9 DEF LossyStore!RefreshServed, Tab!RefreshServed, LossyStore!tab, Tab!tab,
     LossyStore!Goto, Tab!Goto, LossyStore!Issue, Tab!Issue, LossyStore!NoGrant, Tab!NoGrant
<1>10. ASSUME NEW p \in {"resolve", "hook"}, LossyStore!RefreshRefused(p)
       PROVE  Tab!RefreshRefused(p)
  BY <1>10 DEF LossyStore!RefreshRefused, Tab!RefreshRefused, LossyStore!tab, Tab!tab,
     LossyStore!Goto, Tab!Goto, LossyStore!Family, Tab!Family, LossyStore!Pair, Tab!Pair
<1>11. ASSUME NEW p \in Login \union {"resolve"}, LossyStore!StageServed(p)
       PROVE  Tab!StageServed(p)
  BY <1>11 DEF LossyStore!StageServed, Tab!StageServed, LossyStore!server, Tab!server,
     LossyStore!tab, Tab!tab, LossyStore!Goto, Tab!Goto
<1>12. ASSUME NEW h \in dropping, LossyStore!Revoked(h) PROVE Tab!Revoked(h)
  BY <1>12 DEF LossyStore!Revoked, Tab!Revoked, LossyStore!tab, Tab!tab
<1>13. ASSUME NEW s \in {of[g] : g \in fresh}, LossyStore!SessionEnds(s) PROVE Tab!SessionEnds(s)
  BY <1>13 DEF LossyStore!SessionEnds, Tab!SessionEnds, LossyStore!tab, Tab!tab,
     LossyStore!Family, Tab!Family, LossyStore!Pair, Tab!Pair
<1>14. ASSUME LossyStore!ResolveStarts PROVE Tab!ResolveStarts
  BY <1>14 DEF LossyStore!ResolveStarts, Tab!ResolveStarts, LossyStore!NoGrant, Tab!NoGrant,
     LossyStore!server, Tab!server, LossyStore!tab, Tab!tab, LossyStore!NoRequest,
     Tab!NoRequest, LossyStore!Goto, Tab!Goto
<1>15. ASSUME LossyStore!ResolveRefreshed PROVE Tab!ResolveRefreshed
  BY <1>15 DEF LossyStore!ResolveRefreshed, Tab!ResolveRefreshed, LossyStore!NoGrant,
     Tab!NoGrant, LossyStore!server, Tab!server, LossyStore!Goto, Tab!Goto, LossyStore!Apply,
     Tab!Apply, LossyStore!Current, Tab!Current
<1>16. ASSUME LossyStore!ResolveLate PROVE Tab!ResolveLate
  BY <1>16 DEF LossyStore!ResolveLate, Tab!ResolveLate, LossyStore!server, Tab!server,
     LossyStore!tab, Tab!tab, LossyStore!Halves, Tab!Halves, LossyStore!Finish, Tab!Finish,
     LossyStore!Current, Tab!Current, LossyStore!NoRequest, Tab!NoRequest, LossyStore!Goto,
     Tab!Goto, LossyStore!NoGrant, Tab!NoGrant
<1>17. ASSUME LossyStore!ResolveFailed PROVE Tab!ResolveFailed
  BY <1>1, <1>17 DEF LossyStore!ResolveFailed, Tab!ResolveFailed, LossyStore!NoGrant,
     Tab!NoGrant, LossyStore!server, Tab!server, LossyStore!Finish, Tab!Finish,
     LossyStore!Current, Tab!Current, LossyStore!NoRequest, Tab!NoRequest, LossyStore!Goto,
     Tab!Goto
<1>18. ASSUME LossyStore!ResolveCommits PROVE Tab!ResolveCommits
  BY <1>18 DEF LossyStore!ResolveCommits, Tab!ResolveCommits, LossyStore!server, Tab!server,
     LossyStore!Session, Tab!Session, LossyStore!Finish, Tab!Finish, LossyStore!Current,
     Tab!Current, LossyStore!TokenCurrent, Tab!TokenCurrent, LossyStore!NoRequest,
     Tab!NoRequest, LossyStore!Goto, Tab!Goto, LossyStore!NoGrant, Tab!NoGrant
<1>19. ASSUME LossyStore!ResolveRecovers PROVE Tab!ResolveRecovers
  BY <1>19 DEF LossyStore!ResolveRecovers, Tab!ResolveRecovers, LossyStore!NoGrant,
     Tab!NoGrant, LossyStore!server, Tab!server, LossyStore!tab, Tab!tab,
     LossyStore!NoRequest, Tab!NoRequest, LossyStore!Goto, Tab!Goto, LossyStore!Finish,
     Tab!Finish
<1>20. ASSUME LossyStore!Logout PROVE Tab!Logout
  BY <1>1, <1>20 DEF LossyStore!Logout, Tab!Logout, LossyStore!NoGrant, Tab!NoGrant,
     LossyStore!server, Tab!server, LossyStore!Staging, Tab!Staging
<1>21. ASSUME LossyStore!HookStarts PROVE Tab!HookStarts
  BY <1>21 DEF LossyStore!HookStarts, Tab!HookStarts, LossyStore!NoGrant, Tab!NoGrant,
     LossyStore!server, Tab!server, LossyStore!tab, Tab!tab, LossyStore!NoRequest,
     Tab!NoRequest, LossyStore!Goto, Tab!Goto
<1>22. ASSUME LossyStore!HookRefreshed PROVE Tab!HookRefreshed
  BY <1>22 DEF LossyStore!HookRefreshed, Tab!HookRefreshed, LossyStore!NoGrant, Tab!NoGrant,
     LossyStore!server, Tab!server, LossyStore!tab, Tab!tab, LossyStore!Halves, Tab!Halves,
     LossyStore!Finish, Tab!Finish, LossyStore!Apply, Tab!Apply, LossyStore!Replaced,
     Tab!Replaced, LossyStore!NoRequest, Tab!NoRequest, LossyStore!Goto, Tab!Goto
<1>23. ASSUME LossyStore!HookFailed PROVE Tab!HookFailed
  BY <1>1, <1>23 DEF LossyStore!HookFailed, Tab!HookFailed, LossyStore!NoGrant, Tab!NoGrant,
     LossyStore!server, Tab!server, LossyStore!Session, Tab!Session, LossyStore!Finish,
     Tab!Finish, LossyStore!NoRequest, Tab!NoRequest, LossyStore!Goto, Tab!Goto
<1> QED
  BY <1>2, <1>3, <1>4, <1>5, <1>6, <1>7, <1>8, <1>9, <1>10, <1>11, <1>12, <1>13, <1>14, <1>15,
     <1>16, <1>17, <1>18, <1>19, <1>20, <1>21, <1>22, <1>23 DEF LossyStore!Next, Tab!Next

LEMMA SideStep ==
  ASSUME [SideNext]_<<part, throttleVars, lookupVars, storeVars, hostVars, rollupVars>>
  PROVE  /\ part' = part
         /\ [Next]_vars
         /\ [Lookups!Next]_(Lookups!vars)
         /\ [Store!Next \/ LossyStore!Next]_(Tab!vars)
         /\ [Host!Next]_(Host!vars)
         /\ [Rollups!Next]_(Rollups!vars)
BY DEF SideNext, throttleVars, lookupVars, storeVars, hostVars, rollupVars, Lookups!vars,
   Lookups!store, Lookups!throttle, Lookups!told, Tab!vars, Tab!server, Tab!tab, Host!vars,
   Host!locks, Host!tokens, Host!ghosts, Rollups!vars, Rollups!log, Rollups!ghosts

(* Every part moves as it does alone, or stands still.                     *)
LEMMA SideParts == SideSpec => Spec /\ Lookups!Spec /\ Host!Spec /\ Rollups!Spec
<1>1. SideInit => Init /\ Lookups!Init /\ Host!Init /\ Rollups!Init
  BY DEF SideInit
<1> QED
  BY <1>1, SideStep, PTL DEF SideSpec, Spec, Lookups!Spec, Host!Spec, Rollups!Spec

LEMMA SideStore == SideSpec => []StoreInv
<1>1. SideInit => StoreInv
  <2>1. SideInit => Tab!Init
    BY DEF SideInit, Store!Init, Tab!Init, Store!NoGrant, Tab!NoGrant, Store!Pair, Tab!Pair,
       Store!Tasks, Tab!Tasks, Store!NoRequest, Tab!NoRequest
  <2> QED
    BY <2>1, StoreStart
<1>2. StoreInv /\ [SideNext]_<<part, throttleVars, lookupVars, storeVars, hostVars, rollupVars>>
        => StoreInv'
  <2>1. StoreInv => generation \in Nat
    BY DEF StoreInv, Tab!TypeOK
  <2> QED
    BY <2>1, SideStep, StoreMoves, LossyMoves, StoreStep
<1> QED
  BY <1>1, <1>2, PTL DEF SideSpec

Chosen == part \in {"throttle", "lookups", "store", "lossy store", "host", "rollups"}

LEMMA SideChosen == SideSpec => []Chosen
<1>1. SideInit => Chosen
  BY DEF SideInit, Chosen
<1>2. Chosen /\ [SideNext]_<<part, throttleVars, lookupVars, storeVars, hostVars, rollupVars>>
        => Chosen'
  BY SideStep DEF Chosen
<1> QED
  BY <1>1, <1>2, PTL DEF SideSpec

(* Every part is well typed.                                               *)
THEOREM SideTyped == SideSpec => []PartsTypeOK
<1>1. StoreInv => Store!TypeOK /\ LossyStore!TypeOK
  BY DEF StoreInv, Tab!TypeOK, Store!TypeOK, LossyStore!TypeOK, Tab!Pair, Store!Pair,
     LossyStore!Pair, Tab!Tasks, Store!Tasks, LossyStore!Tasks
<1>2. TypeOK /\ Lookups!TypeOK /\ StoreInv /\ HostInv /\ RollupInv => PartsTypeOK
  BY <1>1, RollupSafe DEF PartsTypeOK, HostInv, RollupInv
<1> QED
  BY <1>2, SideParts, SideStore, TypeCorrect, LookupsSafe, HostInductive, RollupsInductive, PTL

(* The lookup throttle lets a bounded number of misses through, whatever   *)
(* requests race and whatever the cache loses                              *)
(* (OAuth2DeviceCodeRepository, DeviceAuthorizationService.lookup).        *)
THEOREM MissesBoundedHolds == SideSpec => []MissesBounded
<1>1. Lookups!MissesBounded => MissesBounded
  BY DEF MissesBounded
<1> QED
  BY <1>1, SideParts, LookupsSafe, PTL

(* A session that was torn down, by a logout, a failed refresh or another  *)
(* login, is never written into the store again (create.ts).               *)
THEOREM TornStaysTornHolds == SideSpec => []TornStaysTorn
<1>1. StoreInv => TornStaysTorn
  BY DEF StoreInv, TornStaysTorn, Tab!TornStaysTorn, Store!TornStaysTorn, Tab!Shown,
     Store!Shown, Tab!Session, Store!Session, Tab!NoGrant, Store!NoGrant
<1> QED
  BY <1>1, SideStore, PTL

(* The user shown is the subject of the tokens sent, and a token nobody    *)
(* looked up yet is marked stale, whatever refreshes, logins and resolves  *)
(* overlap (create.ts).                                                    *)
THEOREM OneIdentityHolds == SideSpec => []OneIdentity
<1>1. StoreInv => OneIdentity
  BY DEF StoreInv, OneIdentity, Tab!OneIdentity, Store!OneIdentity, Tab!UncheckedIsStale,
     Store!UncheckedIsStale, Tab!Session, Store!Session, Tab!NoGrant, Store!NoGrant
<1> QED
  BY <1>1, SideStore, PTL

(* A live refresh token is held by the store, carried by a request or      *)
(* being revoked, unless an answer or a revocation was lost (create.ts).   *)
THEOREM NoOrphanHolds == SideSpec => []NoOrphan
<1>1. StoreInv => NoOrphan
  BY StoreSafe DEF NoOrphan, Tab!NoOrphan, Store!NoOrphan, Tab!Tasks, Store!Tasks
<1> QED
  BY <1>1, SideStore, PTL

(* Two processes are never inside the lock file at a time and no refresh   *)
(* token is presented twice, unless a holder outlived its lock, a waiter   *)
(* removed a newer one, or the server exchanged a token, or may yet, and   *)
(* the new one was not stored: the process died, the write failed or no    *)
(* answer came (withHostLock, createHostClient).                           *)
THEOREM LockKeptHolds == SideSpec => []LockKept
<1>1. HostInv => LockKept
  BY HostSafe DEF LockKept
<1> QED
  BY <1>1, SideParts, HostInductive, PTL

(* A final rollup misses no event of its day (EventAggregator).            *)
THEOREM FinalIsFullHolds == SideSpec => []FinalIsFull
<1>1. RollupInv => FinalIsFull
  BY RollupSafe DEF FinalIsFull, RollupInv
<1> QED
  BY <1>1, SideParts, RollupsInductive, PTL

(* An event a final rollup counted stays counted, if events are kept for   *)
(* more than two days; but for an event that expired, of a day that became *)
(* final while another process had it to fill (EventAggregator).           *)
THEOREM CountedIsKeptHolds ==
  ASSUME 2 * DayLength < EventsKept
  PROVE  SideSpec => []CountedIsKept
<1>1. CountedLog => CountedIsKept
  BY RollupSafe DEF CountedIsKept
<1> QED
  BY <1>1, SideParts, CountedInductive, PTL

(* The counters of the login throttle are exact beside the other parts as  *)
(* well (LoginThrottleService.reserve, release).                           *)
THEOREM SideSlotsExact == SideSpec => []SlotsExact
BY SideParts, CountersExact, PTL

(* And the threshold holds beside them, as long as no bucket ends between  *)
(* the reading of the clock and the increment.                             *)
THEOREM SideThreshold ==
  ASSUME Gap = FALSE
  PROVE  SideSpec => []WithinThreshold
BY SideParts, ThresholdKept, PTL

=============================================================================
