-------------------------- MODULE DeviceGrantProofs --------------------------
(***************************************************************************)
(* Proofs about DeviceGrant, for any number of codes and requests, any     *)
(* lifetimes and any clock.                                                *)
(***************************************************************************)
EXTENDS DeviceGrant, TLAPS

(* The calls of a request that has read the request of its code.           *)
Past == {"findDecision", "judge", "decide", "unindex", "remove", "touch",
         "pop", "popDecision", "dropPoll"}
Popping == {"popDecision", "dropPoll"}
Minting == {"index", "store"}

(* Nothing is known of a code before its user code is stored.              *)
Untouched(c) ==
    kept[c] = 0 /\ decision[c] = Undecided /\ first[c] = Undecided /\ redeemed[c] = 0

(* A request knows the user code it works on, and the device code.         *)
Coded == \A o \in Op :
    /\ pc[o] \in {"index", "throttle", "findIndex"} => req[o].label \in UserCode
    /\ pc[o] \in Minting \union Past \union {"find"} => req[o].code \in Code

(* A code has one mint, which nobody has read from and which is stored     *)
(* before anything is written under its keys.                              *)
Fresh ==
    /\ \A c \in Code : label[c] = NoCode => Untouched(c)
    /\ \A o \in Op : pc[o] = "index" => label[req[o].code] = NoCode
    /\ \A o \in Op : pc[o] = "store" =>
         Untouched(req[o].code) /\ label[req[o].code] # NoCode
    /\ \A o, p \in Op : pc[o] \in Minting /\ pc[p] \in Minting /\ o # p =>
         req[o].code # req[p].code
    /\ \A o, p \in Op : pc[o] \in Minting /\ pc[p] \in Past =>
         req[o].code # req[p].code
    /\ \A o \in Op : pc[o] \in Past => label[req[o].code] # NoCode

(* As long as a request is stored its decision is the first one and it has *)
(* not been redeemed; a poll that read an approval then read that one.     *)
Bound ==
    /\ \A c \in Code : kept[c] # 0 => decision[c] = first[c] /\ redeemed[c] = 0
    /\ \A o \in Op : /\ pc[o] \in {"touch", "pop"}
                     /\ req[o].seen = "approved"
                     /\ kept[req[o].code] # 0
                     => first[req[o].code] = "approved"

(* Whoever popped a request is alone with it.                              *)
Taken ==
    /\ \A o \in Op : pc[o] \in Popping =>
         /\ kept[req[o].code] = 0
         /\ redeemed[req[o].code] = 0
         /\ req[o].seen = "approved" => first[req[o].code] = "approved"
    /\ \A o, p \in Op : pc[o] \in Popping /\ pc[p] \in Popping /\ o # p =>
         req[o].code # req[p].code

(* The inductive invariant.                                                *)
IInv == TypeOK /\ Coded /\ Fresh /\ Bound /\ Taken /\ RedeemedOnce

-----------------------------------------------------------------------------
(* An idle request is well typed, and so is one that starts.               *)
LEMMA NoRequestType == NoRequest \in Request
  BY DEF NoRequest, Request, NoCode, Undecided

(* What the keys hold.                                                     *)
KeysTyped ==
    /\ now \in Nat
    /\ index \in [UserCode -> Code \union {NoCode}]
    /\ until \in [UserCode -> Nat]
    /\ kept \in [Code -> Nat]
    /\ label \in [Code -> UserCode \union {NoCode}]
    /\ expires \in [Code -> Nat]
    /\ decision \in [Code -> Verdict \union {Undecided}]
    /\ polled \in [Code -> Nat]
    /\ first \in [Code -> Verdict \union {Undecided}]
    /\ redeemed \in [Code -> Nat]

ThrottleTyped ==
    /\ misses \in Nat /\ guessed \in Nat
    /\ locked \in BOOLEAN /\ forgiven \in BOOLEAN /\ flushed \in BOOLEAN

(* Every step goes to a call that exists.                                  *)
LEMMA PcStep ==
  ASSUME pc \in [Op -> Label], [Next]_vars
  PROVE  pc' \in [Op -> Label]
<1>1. ASSUME NEW o \in Op, NEW c \in Code, NEW u \in UserCode, Issue(o, c, u)
      PROVE  pc' \in [Op -> Label]
  BY <1>1 DEF Label, Issue, Goto, NoRequest
<1>2. ASSUME NEW o \in Op, AddIndex(o) PROVE pc' \in [Op -> Label]
  BY <1>2 DEF Label, AddIndex, Goto, Indexed
<1>3. ASSUME NEW o \in Op, NEW u \in UserCode, Redraw(o, u)
      PROVE  pc' \in [Op -> Label]
  BY <1>3 DEF Label, Redraw, Goto, Finish
<1>4. ASSUME NEW o \in Op, Store(o) PROVE pc' \in [Op -> Label]
  BY <1>4 DEF Label, Store, Goto, Finish
<1>5. ASSUME NEW o \in Op, NEW k \in Kinds, NEW u \in UserCode, Enter(o, k, u)
      PROVE  pc' \in [Op -> Label]
  BY <1>5 DEF Label, Enter, Goto, NoRequest
<1>6. ASSUME NEW o \in Op, LookupThrottle(o) PROVE pc' \in [Op -> Label]
  BY <1>6 DEF Label, LookupThrottle, Goto, Finish
<1>7. ASSUME NEW o \in Op, FindByUserCode(o) PROVE pc' \in [Op -> Label]
  BY <1>7 DEF Label, FindByUserCode, Goto, Indexed
<1>8. ASSUME NEW o \in Op, FindRequest(o) PROVE pc' \in [Op -> Label]
  BY <1>8 DEF Label, FindRequest, Goto, Stored, Finish
<1>9. ASSUME NEW o \in Op, FindDecision(o) PROVE pc' \in [Op -> Label]
  BY <1>9 DEF Label, FindDecision, Goto, Decided
<1>10. ASSUME NEW o \in Op, JudgeMiss(o) PROVE pc' \in [Op -> Label]
  BY <1>10 DEF Label, JudgeMiss, Goto
<1>11. ASSUME NEW o \in Op, JudgeRefuse(o) PROVE pc' \in [Op -> Label]
  BY <1>11 DEF Label, JudgeRefuse, Goto, Finish
<1>12. ASSUME NEW o \in Op, JudgePass(o) PROVE pc' \in [Op -> Label]
  BY <1>12 DEF Label, JudgePass, Goto
<1>13. ASSUME NEW o \in Op, CountMiss(o) PROVE pc' \in [Op -> Label]
  BY <1>13 DEF Label, CountMiss, Goto, Finish
<1>14. ASSUME NEW o \in Op, Lock(o) PROVE pc' \in [Op -> Label]
  BY <1>14 DEF Label, Lock, Goto, Finish
<1>15. ASSUME NEW o \in Op, Decide(o) PROVE pc' \in [Op -> Label]
  BY <1>15 DEF Label, Decide, Goto, MayDecide, Given
<1>16. ASSUME NEW o \in Op, DecideRefused(o) PROVE pc' \in [Op -> Label]
  BY <1>16 DEF Label, DecideRefused, Goto, Finish
<1>17. ASSUME NEW o \in Op, RemoveUserCode(o) PROVE pc' \in [Op -> Label]
  BY <1>17 DEF Label, RemoveUserCode, Goto
<1>18. ASSUME NEW o \in Op, HasMisses(o) PROVE pc' \in [Op -> Label]
  BY <1>18 DEF Label, HasMisses, Goto, Finish
<1>19. ASSUME NEW o \in Op, ClaimReset(o) PROVE pc' \in [Op -> Label]
  BY <1>19 DEF Label, ClaimReset, Goto, Finish
<1>20. ASSUME NEW o \in Op, DropMisses(o) PROVE pc' \in [Op -> Label]
  BY <1>20 DEF Label, DropMisses, Goto, Finish
<1>21. ASSUME NEW o \in Op, NEW c \in Code, Poll(o, c) PROVE pc' \in [Op -> Label]
  BY <1>21 DEF Label, Poll, Goto, NoRequest
<1>22. ASSUME NEW o \in Op, Remove(o) PROVE pc' \in [Op -> Label]
  BY <1>22 DEF Label, Remove, Goto, Finish
<1>23. ASSUME NEW o \in Op, TouchPoll(o) PROVE pc' \in [Op -> Label]
  BY <1>23 DEF Label, TouchPoll, Goto, Finish
<1>24. ASSUME NEW o \in Op, PopRequest(o) PROVE pc' \in [Op -> Label]
  BY <1>24 DEF Label, PopRequest, Goto, Stored, Finish
<1>25. ASSUME NEW o \in Op, PopDecision(o) PROVE pc' \in [Op -> Label]
  BY <1>25 DEF Label, PopDecision, Goto, Decided
<1>26. ASSUME NEW o \in Op, DropPoll(o) PROVE pc' \in [Op -> Label]
  BY <1>26 DEF Label, DropPoll, Goto, Finish
<1>27. ASSUME NEW o \in Op, Fail(o) PROVE pc' \in [Op -> Label]
  BY <1>27 DEF Label, Fail, Goto
<1>28. CASE CacheLoss
  BY <1>28 DEF Label, CacheLoss, told
<1>29. CASE Tick
  BY <1>29 DEF Label, Tick
<1>30. CASE UNCHANGED vars
  BY <1>30 DEF Label, vars
<1> QED
  BY <1>1, <1>2, <1>3, <1>4, <1>5, <1>6, <1>7, <1>8, <1>9, <1>10, <1>11,
       <1>12, <1>13, <1>14, <1>15, <1>16, <1>17, <1>18, <1>19, <1>20, <1>21,
       <1>22, <1>23, <1>24, <1>25, <1>26, <1>27, <1>28, <1>29, <1>30
     DEF Next, Step

(* Every step keeps the requests well formed.                              *)
LEMMA ReqStep ==
  ASSUME TypeOK, Coded, [Next]_vars
  PROVE  req' \in [Op -> Request]
<1>0. req \in [Op -> Request]
  BY DEF TypeOK
<1> USE <1>0
<1>1. ASSUME NEW o \in Op, NEW c \in Code, NEW u \in UserCode, Issue(o, c, u)
      PROVE  req' \in [Op -> Request]
  <2>1. [NoRequest EXCEPT !.kind = "issue", !.code = c, !.label = u] \in Request
    BY <1>1, NoRequestType DEF Request, Issue
  <2> QED
    BY <1>1, <2>1 DEF Issue
<1>2. ASSUME NEW o \in Op, AddIndex(o) PROVE req' \in [Op -> Request]
  BY <1>2, NoRequestType
     DEF AddIndex, Indexed
<1>3. ASSUME NEW o \in Op, NEW u \in UserCode, Redraw(o, u)
      PROVE  req' \in [Op -> Request]
  <2>1. req[o] \in Request /\ req[o].n + 1 \in Nat
    BY DEF Request
  <2>2. [req[o] EXCEPT !.label = u, !.n = req[o].n + 1] \in Request
    BY <2>1 DEF Request
  <2> QED
    BY <1>3, <2>2, NoRequestType DEF Redraw, Finish
<1>4. ASSUME NEW o \in Op, Store(o) PROVE req' \in [Op -> Request]
  BY <1>4, NoRequestType
     DEF Store, Finish
<1>5. ASSUME NEW o \in Op, NEW k \in Kinds, NEW u \in UserCode, Enter(o, k, u)
      PROVE  req' \in [Op -> Request]
  <2>1. [NoRequest EXCEPT !.kind = k, !.label = u] \in Request
    BY <1>5, NoRequestType DEF Request, Enter
  <2> QED
    BY <1>5, <2>1 DEF Enter
<1>6. ASSUME NEW o \in Op, LookupThrottle(o) PROVE req' \in [Op -> Request]
  BY <1>6, NoRequestType
     DEF LookupThrottle, Finish
<1>7. ASSUME NEW o \in Op, FindByUserCode(o) PROVE req' \in [Op -> Request]
  <2>1. req[o].label \in UserCode
    BY <1>7 DEF Coded, FindByUserCode
  <2>2. Indexed(req[o].label) => [req[o] EXCEPT !.code = index[req[o].label]] \in Request
    BY <2>1 DEF TypeOK, Request, Indexed
  <2> QED
    BY <1>7, <2>2 DEF FindByUserCode
<1>8. ASSUME NEW o \in Op, FindRequest(o) PROVE req' \in [Op -> Request]
  BY <1>8, NoRequestType
     DEF FindRequest, Stored, Finish
<1>9. ASSUME NEW o \in Op, FindDecision(o) PROVE req' \in [Op -> Request]
  <2>1. req[o].code \in Code
    BY <1>9 DEF Coded, FindDecision, Past
  <2>2. [req[o] EXCEPT !.seen = Decided(req[o].code)] \in Request
    BY <2>1 DEF TypeOK, Request, Decided
  <2> QED
    BY <1>9, <2>2 DEF FindDecision
<1>10. ASSUME NEW o \in Op, JudgeMiss(o) PROVE req' \in [Op -> Request]
  BY <1>10, NoRequestType DEF JudgeMiss, Goto
<1>11. ASSUME NEW o \in Op, JudgeRefuse(o) PROVE req' \in [Op -> Request]
  BY <1>11, NoRequestType
     DEF JudgeRefuse, Finish
<1>12. ASSUME NEW o \in Op, JudgePass(o) PROVE req' \in [Op -> Request]
  BY <1>12, NoRequestType DEF JudgePass, Goto
<1>13. ASSUME NEW o \in Op, CountMiss(o) PROVE req' \in [Op -> Request]
  BY <1>13, NoRequestType
     DEF CountMiss, Finish
<1>14. ASSUME NEW o \in Op, Lock(o) PROVE req' \in [Op -> Request]
  BY <1>14, NoRequestType
     DEF Lock, Finish
<1>15. ASSUME NEW o \in Op, Decide(o) PROVE req' \in [Op -> Request]
  BY <1>15, NoRequestType
     DEF Decide, MayDecide, Given
<1>16. ASSUME NEW o \in Op, DecideRefused(o) PROVE req' \in [Op -> Request]
  BY <1>16, NoRequestType
     DEF DecideRefused, Finish
<1>17. ASSUME NEW o \in Op, RemoveUserCode(o) PROVE req' \in [Op -> Request]
  BY <1>17, NoRequestType
     DEF RemoveUserCode, Goto
<1>18. ASSUME NEW o \in Op, HasMisses(o) PROVE req' \in [Op -> Request]
  BY <1>18, NoRequestType
     DEF HasMisses, Finish
<1>19. ASSUME NEW o \in Op, ClaimReset(o) PROVE req' \in [Op -> Request]
  BY <1>19, NoRequestType
     DEF ClaimReset, Finish
<1>20. ASSUME NEW o \in Op, DropMisses(o) PROVE req' \in [Op -> Request]
  BY <1>20, NoRequestType
     DEF DropMisses, Finish
<1>21. ASSUME NEW o \in Op, NEW c \in Code, Poll(o, c) PROVE req' \in [Op -> Request]
  <2>1. [NoRequest EXCEPT !.kind = "poll", !.code = c] \in Request
    BY <1>21, NoRequestType DEF Request, Poll
  <2> QED
    BY <1>21, <2>1 DEF Poll
<1>22. ASSUME NEW o \in Op, Remove(o) PROVE req' \in [Op -> Request]
  BY <1>22, NoRequestType
     DEF Remove, Finish
<1>23. ASSUME NEW o \in Op, TouchPoll(o) PROVE req' \in [Op -> Request]
  BY <1>23, NoRequestType
     DEF TouchPoll, Finish
<1>24. ASSUME NEW o \in Op, PopRequest(o) PROVE req' \in [Op -> Request]
  BY <1>24, NoRequestType
     DEF PopRequest, Stored, Finish
<1>25. ASSUME NEW o \in Op, PopDecision(o) PROVE req' \in [Op -> Request]
  <2>1. req[o].code \in Code
    BY <1>25 DEF Coded, PopDecision, Past
  <2>2. [req[o] EXCEPT !.seen = IF @ = "approved" THEN Decided(req[o].code) ELSE @] \in Request
    BY <2>1 DEF TypeOK, Request, Decided
  <2> QED
    BY <1>25, <2>2 DEF PopDecision
<1>26. ASSUME NEW o \in Op, DropPoll(o) PROVE req' \in [Op -> Request]
  BY <1>26, NoRequestType
     DEF DropPoll, Finish
<1>27. ASSUME NEW o \in Op, Fail(o) PROVE req' \in [Op -> Request]
  BY <1>27, NoRequestType DEF Fail, Goto
<1>28. CASE CacheLoss
  BY <1>28, NoRequestType DEF CacheLoss, told
<1>29. CASE Tick
  BY <1>29, NoRequestType DEF Tick
<1>30. CASE UNCHANGED vars
  BY <1>30, NoRequestType DEF vars
<1> QED
  BY <1>1, <1>2, <1>3, <1>4, <1>5, <1>6, <1>7, <1>8, <1>9, <1>10, <1>11,
       <1>12, <1>13, <1>14, <1>15, <1>16, <1>17, <1>18, <1>19, <1>20, <1>21,
       <1>22, <1>23, <1>24, <1>25, <1>26, <1>27, <1>28, <1>29, <1>30
     DEF Next, Step

(* Every step keeps the keys well formed.                                  *)
LEMMA KeysStep ==
  ASSUME TypeOK, Coded, [Next]_vars
  PROVE  KeysTyped'
<1>0. KeysTyped
  BY DEF TypeOK, KeysTyped
<1> USE <1>0
<1>1. ASSUME NEW o \in Op, NEW c \in Code, NEW u \in UserCode, Issue(o, c, u)
      PROVE  KeysTyped'
  BY <1>1, DeviceAssumption
     DEF KeysTyped, Issue, store, told, NoRequest
<1>2. ASSUME NEW o \in Op, AddIndex(o) PROVE KeysTyped'
  <2>1. now + Lifetime \in Nat /\ req[o].code \in Code /\ req[o].label \in UserCode
    BY <1>2, DeviceAssumption DEF KeysTyped, Coded, AddIndex, Minting
  <2>2. index' \in [UserCode -> Code \union {NoCode}]
    BY <1>2, <2>1 DEF KeysTyped, AddIndex
  <2>3. until' \in [UserCode -> Nat]
    BY <1>2, <2>1 DEF KeysTyped, AddIndex
  <2>4. label' \in [Code -> UserCode \union {NoCode}]
    BY <1>2, <2>1 DEF KeysTyped, AddIndex
  <2>5. expires' \in [Code -> Nat]
    BY <1>2, <2>1 DEF KeysTyped, AddIndex
  <2> QED
    BY <1>2, <2>2, <2>3, <2>4, <2>5 DEF KeysTyped, AddIndex, told
<1>3. ASSUME NEW o \in Op, NEW u \in UserCode, Redraw(o, u) PROVE KeysTyped'
  BY <1>3, DeviceAssumption
     DEF KeysTyped, Redraw, store, told
<1>4. ASSUME NEW o \in Op, Store(o) PROVE KeysTyped'
  <2>1. now + Lifetime + Retention \in Nat /\ req[o].code \in Code
    BY <1>4, DeviceAssumption DEF KeysTyped, Coded, Store, Minting
  <2>2. kept' \in [Code -> Nat]
    BY <1>4, <2>1 DEF KeysTyped, Store
  <2> QED
    BY <1>4, <2>2 DEF KeysTyped, Store, told
<1>5. ASSUME NEW o \in Op, NEW k \in Kinds, NEW u \in UserCode, Enter(o, k, u)
      PROVE  KeysTyped'
  BY <1>5, DeviceAssumption
     DEF KeysTyped, Enter, store, told, NoRequest
<1>6. ASSUME NEW o \in Op, LookupThrottle(o) PROVE KeysTyped'
  BY <1>6, DeviceAssumption
     DEF KeysTyped, LookupThrottle, store, told
<1>7. ASSUME NEW o \in Op, FindByUserCode(o) PROVE KeysTyped'
  BY <1>7, DeviceAssumption
     DEF KeysTyped, FindByUserCode, store, told, Indexed
<1>8. ASSUME NEW o \in Op, FindRequest(o) PROVE KeysTyped'
  BY <1>8, DeviceAssumption
     DEF KeysTyped, FindRequest, store, told, Stored
<1>9. ASSUME NEW o \in Op, FindDecision(o) PROVE KeysTyped'
  BY <1>9, DeviceAssumption
     DEF KeysTyped, FindDecision, store, told, Decided
<1>10. ASSUME NEW o \in Op, JudgeMiss(o) PROVE KeysTyped'
  BY <1>10, DeviceAssumption
     DEF KeysTyped, JudgeMiss, store, told
<1>11. ASSUME NEW o \in Op, JudgeRefuse(o) PROVE KeysTyped'
  BY <1>11, DeviceAssumption
     DEF KeysTyped, JudgeRefuse, store, told
<1>12. ASSUME NEW o \in Op, JudgePass(o) PROVE KeysTyped'
  BY <1>12, DeviceAssumption
     DEF KeysTyped, JudgePass, store, told
<1>13. ASSUME NEW o \in Op, CountMiss(o) PROVE KeysTyped'
  BY <1>13, DeviceAssumption
     DEF KeysTyped, CountMiss, store, told
<1>14. ASSUME NEW o \in Op, Lock(o) PROVE KeysTyped'
  BY <1>14, DeviceAssumption
     DEF KeysTyped, Lock, store, told
<1>15. ASSUME NEW o \in Op, Decide(o) PROVE KeysTyped'
  <2>1. Given(o) \in Verdict /\ req[o].code \in Code
    BY <1>15 DEF Coded, Decide, Given, Verdict, Past
  <2>3. first' \in [Code -> Verdict \union {Undecided}]
    BY <1>15, <2>1 DEF KeysTyped, Decide
  <2>4. decision' \in [Code -> Verdict \union {Undecided}]
    BY <1>15, <2>1 DEF KeysTyped, Decide
  <2> QED
    BY <1>15, <2>3, <2>4 DEF KeysTyped, Decide
<1>16. ASSUME NEW o \in Op, DecideRefused(o) PROVE KeysTyped'
  BY <1>16, DeviceAssumption
     DEF KeysTyped, DecideRefused, store, told
<1>17. ASSUME NEW o \in Op, RemoveUserCode(o) PROVE KeysTyped'
  BY <1>17, DeviceAssumption
     DEF KeysTyped, RemoveUserCode, store, told
<1>18. ASSUME NEW o \in Op, HasMisses(o) PROVE KeysTyped'
  BY <1>18, DeviceAssumption
     DEF KeysTyped, HasMisses, store, told
<1>19. ASSUME NEW o \in Op, ClaimReset(o) PROVE KeysTyped'
  BY <1>19, DeviceAssumption
     DEF KeysTyped, ClaimReset, store, told
<1>20. ASSUME NEW o \in Op, DropMisses(o) PROVE KeysTyped'
  BY <1>20, DeviceAssumption
     DEF KeysTyped, DropMisses, store, told
<1>21. ASSUME NEW o \in Op, NEW c \in Code, Poll(o, c) PROVE KeysTyped'
  BY <1>21, DeviceAssumption
     DEF KeysTyped, Poll, store, told, NoRequest
<1>22. ASSUME NEW o \in Op, Remove(o) PROVE KeysTyped'
  BY <1>22, DeviceAssumption
     DEF KeysTyped, Remove, store, told
<1>23. ASSUME NEW o \in Op, TouchPoll(o) PROVE KeysTyped'
  BY <1>23, DeviceAssumption
     DEF KeysTyped, TouchPoll, store, told
<1>24. ASSUME NEW o \in Op, PopRequest(o) PROVE KeysTyped'
  BY <1>24, DeviceAssumption
     DEF KeysTyped, PopRequest, store, told, Stored
<1>25. ASSUME NEW o \in Op, PopDecision(o) PROVE KeysTyped'
  BY <1>25, DeviceAssumption
     DEF KeysTyped, PopDecision, store, told, Decided
<1>26. ASSUME NEW o \in Op, DropPoll(o) PROVE KeysTyped'
  <2>1. req[o].code \in Code
    BY <1>26 DEF Coded, DropPoll, Past
  <2>2. redeemed' \in [Code -> Nat]
    BY <1>26, <2>1 DEF KeysTyped, DropPoll
  <2> QED
    BY <1>26, <2>1, <2>2 DEF KeysTyped, DropPoll
<1>27. ASSUME NEW o \in Op, Fail(o) PROVE KeysTyped'
  BY <1>27, DeviceAssumption DEF KeysTyped, Fail, store, told
<1>28. CASE CacheLoss
  BY <1>28, DeviceAssumption DEF KeysTyped, CacheLoss, told
<1>29. CASE Tick
  BY <1>29, DeviceAssumption DEF KeysTyped, Tick, store, told
<1>30. CASE UNCHANGED vars
  BY <1>30, DeviceAssumption DEF KeysTyped, vars, store, told
<1> QED
  BY <1>1, <1>2, <1>3, <1>4, <1>5, <1>6, <1>7, <1>8, <1>9, <1>10, <1>11,
       <1>12, <1>13, <1>14, <1>15, <1>16, <1>17, <1>18, <1>19, <1>20, <1>21,
       <1>22, <1>23, <1>24, <1>25, <1>26, <1>27, <1>28, <1>29, <1>30
     DEF Next, Step

(* Every step keeps the throttle well formed.                              *)
LEMMA ThrottleStep ==
  ASSUME TypeOK, [Next]_vars
  PROVE  ThrottleTyped'
<1>0. ThrottleTyped
  BY DEF TypeOK, ThrottleTyped
<1> USE <1>0
<1>1. ASSUME NEW o \in Op, NEW c \in Code, NEW u \in UserCode, Issue(o, c, u)
      PROVE  ThrottleTyped'
  BY <1>1 DEF ThrottleTyped, Issue, throttle, NoRequest
<1>2. ASSUME NEW o \in Op, AddIndex(o) PROVE ThrottleTyped'
  BY <1>2 DEF ThrottleTyped, AddIndex, throttle, Indexed
<1>3. ASSUME NEW o \in Op, NEW u \in UserCode, Redraw(o, u) PROVE ThrottleTyped'
  BY <1>3 DEF ThrottleTyped, Redraw, throttle
<1>4. ASSUME NEW o \in Op, Store(o) PROVE ThrottleTyped'
  BY <1>4 DEF ThrottleTyped, Store, throttle
<1>5. ASSUME NEW o \in Op, NEW k \in Kinds, NEW u \in UserCode, Enter(o, k, u)
      PROVE  ThrottleTyped'
  BY <1>5 DEF ThrottleTyped, Enter, throttle, NoRequest
<1>6. ASSUME NEW o \in Op, LookupThrottle(o) PROVE ThrottleTyped'
  BY <1>6
     DEF ThrottleTyped, LookupThrottle, throttle
<1>7. ASSUME NEW o \in Op, FindByUserCode(o) PROVE ThrottleTyped'
  BY <1>7
     DEF ThrottleTyped, FindByUserCode, throttle, Indexed
<1>8. ASSUME NEW o \in Op, FindRequest(o) PROVE ThrottleTyped'
  BY <1>8
     DEF ThrottleTyped, FindRequest, throttle, Stored,
          Finish
<1>9. ASSUME NEW o \in Op, FindDecision(o) PROVE ThrottleTyped'
  BY <1>9
     DEF ThrottleTyped, FindDecision, throttle, Decided
<1>10. ASSUME NEW o \in Op, JudgeMiss(o) PROVE ThrottleTyped'
  BY <1>10 DEF ThrottleTyped, JudgeMiss, throttle
<1>11. ASSUME NEW o \in Op, JudgeRefuse(o) PROVE ThrottleTyped'
  BY <1>11 DEF ThrottleTyped, JudgeRefuse, throttle
<1>12. ASSUME NEW o \in Op, JudgePass(o) PROVE ThrottleTyped'
  BY <1>12 DEF ThrottleTyped, JudgePass, throttle
<1>13. ASSUME NEW o \in Op, CountMiss(o) PROVE ThrottleTyped'
  BY <1>13 DEF ThrottleTyped, CountMiss, throttle
<1>14. ASSUME NEW o \in Op, Lock(o) PROVE ThrottleTyped'
  BY <1>14 DEF ThrottleTyped, Lock, throttle
<1>15. ASSUME NEW o \in Op, Decide(o) PROVE ThrottleTyped'
  BY <1>15
     DEF ThrottleTyped, Decide, throttle, MayDecide, Given
<1>16. ASSUME NEW o \in Op, DecideRefused(o) PROVE ThrottleTyped'
  BY <1>16
     DEF ThrottleTyped, DecideRefused, throttle
<1>17. ASSUME NEW o \in Op, RemoveUserCode(o) PROVE ThrottleTyped'
  BY <1>17 DEF ThrottleTyped, RemoveUserCode, throttle
<1>18. ASSUME NEW o \in Op, HasMisses(o) PROVE ThrottleTyped'
  BY <1>18 DEF ThrottleTyped, HasMisses, throttle
<1>19. ASSUME NEW o \in Op, ClaimReset(o) PROVE ThrottleTyped'
  BY <1>19 DEF ThrottleTyped, ClaimReset, throttle
<1>20. ASSUME NEW o \in Op, DropMisses(o) PROVE ThrottleTyped'
  BY <1>20 DEF ThrottleTyped, DropMisses, throttle
<1>21. ASSUME NEW o \in Op, NEW c \in Code, Poll(o, c) PROVE ThrottleTyped'
  BY <1>21 DEF ThrottleTyped, Poll, throttle, NoRequest
<1>22. ASSUME NEW o \in Op, Remove(o) PROVE ThrottleTyped'
  BY <1>22 DEF ThrottleTyped, Remove, throttle
<1>23. ASSUME NEW o \in Op, TouchPoll(o) PROVE ThrottleTyped'
  BY <1>23 DEF ThrottleTyped, TouchPoll, throttle
<1>24. ASSUME NEW o \in Op, PopRequest(o) PROVE ThrottleTyped'
  BY <1>24
     DEF ThrottleTyped, PopRequest, throttle, Stored,
          Finish
<1>25. ASSUME NEW o \in Op, PopDecision(o) PROVE ThrottleTyped'
  BY <1>25
     DEF ThrottleTyped, PopDecision, throttle, Decided
<1>26. ASSUME NEW o \in Op, DropPoll(o) PROVE ThrottleTyped'
  BY <1>26 DEF ThrottleTyped, DropPoll, throttle
<1>27. ASSUME NEW o \in Op, Fail(o) PROVE ThrottleTyped'
  BY <1>27 DEF ThrottleTyped, Fail, throttle
<1>28. CASE CacheLoss
  BY <1>28 DEF ThrottleTyped, CacheLoss, told
<1>29. CASE Tick
  BY <1>29 DEF ThrottleTyped, Tick, throttle
<1>30. CASE UNCHANGED vars
  BY <1>30 DEF ThrottleTyped, vars, throttle
<1> QED
  BY <1>1, <1>2, <1>3, <1>4, <1>5, <1>6, <1>7, <1>8, <1>9, <1>10, <1>11,
       <1>12, <1>13, <1>14, <1>15, <1>16, <1>17, <1>18, <1>19, <1>20, <1>21,
       <1>22, <1>23, <1>24, <1>25, <1>26, <1>27, <1>28, <1>29, <1>30
     DEF Next, Step

LEMMA TypeStep ==
  ASSUME TypeOK, Coded, [Next]_vars
  PROVE  TypeOK'
<1>1. pc' \in [Op -> Label]
  BY PcStep DEF TypeOK
<1>2. req' \in [Op -> Request]
  BY ReqStep
<1>3. KeysTyped' /\ ThrottleTyped'
  BY KeysStep, ThrottleStep
<1> QED
  BY <1>1, <1>2, <1>3 DEF TypeOK, KeysTyped, ThrottleTyped

(* Every step knows its codes.                                             *)
LEMMA CodedStep ==
  ASSUME TypeOK, Coded, [Next]_vars
  PROVE  Coded'
<1>0. /\ pc \in [Op -> Label] /\ req \in [Op -> Request]
      /\ index \in [UserCode -> Code \union {NoCode}]
  BY DEF TypeOK
<1> USE <1>0 DEF Request
<1>1. ASSUME NEW o \in Op, NEW c \in Code, NEW u \in UserCode, Issue(o, c, u)
      PROVE  Coded'
  BY <1>1, NoRequestType
     DEF Coded, Past, Minting, Issue, Goto, store, throttle, told, NoRequest
<1>2. ASSUME NEW o \in Op, AddIndex(o) PROVE Coded'
  BY <1>2, NoRequestType
     DEF Coded, Past, Minting, AddIndex, Goto, store, throttle, told, Indexed
<1>3. ASSUME NEW o \in Op, NEW u \in UserCode, Redraw(o, u) PROVE Coded'
  BY <1>3, NoRequestType
     DEF Coded, Past, Minting, Redraw, Goto, store, throttle, told, Finish
<1>4. ASSUME NEW o \in Op, Store(o) PROVE Coded'
  BY <1>4, NoRequestType
     DEF Coded, Past, Minting, Store, Goto, store, throttle, told, Finish
<1>5. ASSUME NEW o \in Op, NEW k \in Kinds, NEW u \in UserCode, Enter(o, k, u)
      PROVE  Coded'
  BY <1>5, NoRequestType
     DEF Coded, Past, Minting, Enter, Goto, store, throttle, told, NoRequest
<1>6. ASSUME NEW o \in Op, LookupThrottle(o) PROVE Coded'
  BY <1>6, NoRequestType
     DEF Coded, Past, Minting, LookupThrottle, Goto, store, throttle, told,
          Finish
<1>7. ASSUME NEW o \in Op, FindByUserCode(o) PROVE Coded'
  BY <1>7, NoRequestType
     DEF Coded, Past, Minting, FindByUserCode, Goto, store, throttle, told,
          Indexed
<1>8. ASSUME NEW o \in Op, FindRequest(o) PROVE Coded'
  BY <1>8, NoRequestType
     DEF Coded, Past, Minting, FindRequest, Goto, store, throttle, told,
          Stored, Finish
<1>9. ASSUME NEW o \in Op, FindDecision(o) PROVE Coded'
  BY <1>9, NoRequestType
     DEF Coded, Past, Minting, FindDecision, Goto, store, throttle, told,
          Decided
<1>10. ASSUME NEW o \in Op, JudgeMiss(o) PROVE Coded'
  BY <1>10, NoRequestType
     DEF Coded, Past, Minting, JudgeMiss, Goto, store, throttle, told
<1>11. ASSUME NEW o \in Op, JudgeRefuse(o) PROVE Coded'
  BY <1>11, NoRequestType
     DEF Coded, Past, Minting, JudgeRefuse, Goto, store, throttle, told,
          Finish
<1>12. ASSUME NEW o \in Op, JudgePass(o) PROVE Coded'
  BY <1>12, NoRequestType
     DEF Coded, Past, Minting, JudgePass, Goto, store, throttle, told
<1>13. ASSUME NEW o \in Op, CountMiss(o) PROVE Coded'
  BY <1>13, NoRequestType
     DEF Coded, Past, Minting, CountMiss, Goto, store, throttle, told, Finish
<1>14. ASSUME NEW o \in Op, Lock(o) PROVE Coded'
  BY <1>14, NoRequestType
     DEF Coded, Past, Minting, Lock, Goto, store, throttle, told, Finish
<1>15. ASSUME NEW o \in Op, Decide(o) PROVE Coded'
  BY <1>15, NoRequestType
     DEF Coded, Past, Minting, Decide, Goto, store, throttle, told, MayDecide,
          Given
<1>16. ASSUME NEW o \in Op, DecideRefused(o) PROVE Coded'
  BY <1>16, NoRequestType
     DEF Coded, Past, Minting, DecideRefused, Goto, store, throttle, told,
          Finish
<1>17. ASSUME NEW o \in Op, RemoveUserCode(o) PROVE Coded'
  BY <1>17, NoRequestType
     DEF Coded, Past, Minting, RemoveUserCode, Goto, store, throttle, told
<1>18. ASSUME NEW o \in Op, HasMisses(o) PROVE Coded'
  BY <1>18, NoRequestType
     DEF Coded, Past, Minting, HasMisses, Goto, store, throttle, told, Finish
<1>19. ASSUME NEW o \in Op, ClaimReset(o) PROVE Coded'
  BY <1>19, NoRequestType
     DEF Coded, Past, Minting, ClaimReset, Goto, store, throttle, told, Finish
<1>20. ASSUME NEW o \in Op, DropMisses(o) PROVE Coded'
  BY <1>20, NoRequestType
     DEF Coded, Past, Minting, DropMisses, Goto, store, throttle, told, Finish
<1>21. ASSUME NEW o \in Op, NEW c \in Code, Poll(o, c) PROVE Coded'
  BY <1>21, NoRequestType
     DEF Coded, Past, Minting, Poll, Goto, store, throttle, told, NoRequest
<1>22. ASSUME NEW o \in Op, Remove(o) PROVE Coded'
  BY <1>22, NoRequestType
     DEF Coded, Past, Minting, Remove, Goto, store, throttle, told, Finish
<1>23. ASSUME NEW o \in Op, TouchPoll(o) PROVE Coded'
  BY <1>23, NoRequestType
     DEF Coded, Past, Minting, TouchPoll, Goto, store, throttle, told, Finish
<1>24. ASSUME NEW o \in Op, PopRequest(o) PROVE Coded'
  BY <1>24, NoRequestType
     DEF Coded, Past, Minting, PopRequest, Goto, store, throttle, told,
          Stored, Finish
<1>25. ASSUME NEW o \in Op, PopDecision(o) PROVE Coded'
  BY <1>25, NoRequestType
     DEF Coded, Past, Minting, PopDecision, Goto, store, throttle, told,
          Decided
<1>26. ASSUME NEW o \in Op, DropPoll(o) PROVE Coded'
  BY <1>26, NoRequestType
     DEF Coded, Past, Minting, DropPoll, Goto, store, throttle, told, Finish
<1>27. ASSUME NEW o \in Op, Fail(o) PROVE Coded'
  BY <1>27, NoRequestType
     DEF Coded, Past, Minting, Fail, Goto, store, throttle, told
<1>28. CASE CacheLoss
  BY <1>28, NoRequestType DEF Coded, Past, Minting, CacheLoss, told
<1>29. CASE Tick
  BY <1>29, NoRequestType
     DEF Coded, Past, Minting, Tick, store, throttle, told
<1>30. CASE UNCHANGED vars
  BY <1>30, NoRequestType
     DEF Coded, Past, Minting, vars, store, throttle, told
<1> QED
  BY <1>1, <1>2, <1>3, <1>4, <1>5, <1>6, <1>7, <1>8, <1>9, <1>10, <1>11,
       <1>12, <1>13, <1>14, <1>15, <1>16, <1>17, <1>18, <1>19, <1>20, <1>21,
       <1>22, <1>23, <1>24, <1>25, <1>26, <1>27, <1>28, <1>29, <1>30
     DEF Next, Step

-----------------------------------------------------------------------------
(* No other request moves.                                                 *)
Others(o) == \A p \in Op \ {o} : pc'[p] = pc[p] /\ req'[p] = req[p]

(* A request leaves for a call where it holds on to nothing.               *)
Quiet(o) ==
    /\ Others(o)
    /\ pc'[o] \notin Minting \union Past \union {"find"}
    /\ UNCHANGED <<kept, label, decision, first, redeemed>>

Safe == Fresh /\ Bound /\ Taken /\ RedeemedOnce

LEMMA QuietKeeps ==
  ASSUME IInv, NEW o \in Op, Quiet(o)
  PROVE  Safe'
<1> USE DEF IInv, Quiet, Others
<1>1. Fresh'
  BY DEF Fresh, Untouched, Minting, Past
<1>2. Bound'
  BY DEF Bound, Past
<1>3. Taken'
  BY DEF Taken, Popping, Past
<1>4. RedeemedOnce'
  BY DEF RedeemedOnce
<1> QED
  BY <1>1, <1>2, <1>3, <1>4 DEF Safe

(* The calls after which a request holds on to nothing that binds others.  *)
LEMMA QuietCalls ==
  ASSUME TypeOK, NEW o \in Op,
         LookupThrottle(o) \/ JudgeMiss(o) \/ JudgeRefuse(o) \/ CountMiss(o)
           \/ Lock(o) \/ DecideRefused(o) \/ RemoveUserCode(o) \/ HasMisses(o)
           \/ ClaimReset(o) \/ DropMisses(o) \/ Fail(o)
  PROVE  Quiet(o)
<1>0. pc \in [Op -> Label] /\ req \in [Op -> Request]
  BY DEF TypeOK
<1> USE <1>0 DEF Quiet, Others, Minting, Past, Goto, store, told
<1>1. CASE LookupThrottle(o)
  BY <1>1 DEF LookupThrottle, Finish
<1>2. CASE JudgeMiss(o)
  BY <1>2 DEF JudgeMiss
<1>3. CASE JudgeRefuse(o)
  BY <1>3 DEF JudgeRefuse, Finish
<1>4. CASE CountMiss(o)
  BY <1>4 DEF CountMiss, Finish
<1>5. CASE Lock(o)
  BY <1>5 DEF Lock, Finish
<1>6. CASE DecideRefused(o)
  BY <1>6 DEF DecideRefused, Finish
<1>7. CASE RemoveUserCode(o)
  BY <1>7 DEF RemoveUserCode
<1>8. CASE HasMisses(o)
  BY <1>8 DEF HasMisses, Finish
<1>9. CASE ClaimReset(o)
  BY <1>9 DEF ClaimReset, Finish
<1>10. CASE DropMisses(o)
  BY <1>10 DEF DropMisses, Finish
<1>11. CASE Fail(o)
  BY <1>11 DEF Fail, throttle
<1> QED
  BY <1>1, <1>2, <1>3, <1>4, <1>5, <1>6, <1>7, <1>8, <1>9, <1>10, <1>11

LEMMA IssueKeeps ==
  ASSUME IInv, TypeOK', NEW o \in Op, NEW c \in Code, NEW u \in UserCode, Issue(o, c, u)
  PROVE  Safe'
<1>0. /\ pc \in [Op -> Label] /\ req \in [Op -> Request]
      /\ kept \in [Code -> Nat] /\ redeemed \in [Code -> Nat]
      /\ label \in [Code -> UserCode \union {NoCode}]
  BY DEF IInv, TypeOK
<1>1. /\ Others(o) /\ pc'[o] = "index" /\ req'[o].code = c /\ label[c] = NoCode
      /\ \A p \in Op : req[p].code # c
      /\ UNCHANGED <<kept, label, decision, first, redeemed>>
  BY <1>0, DeviceAssumption
     DEF Issue, Request, IInv, TypeOK, Others, Goto, store, told, NoRequest
<1>2. Fresh'
  BY <1>1, <1>0 DEF IInv, Coded, Fresh, Others, Untouched, Minting, Past
<1>3. Bound'
  BY <1>1, <1>0
     DEF IInv, Coded, Fresh, Bound, Taken, Others, Untouched, Past, Popping,
          Minting, Undecided
<1>4. Taken'
  BY <1>1, <1>0
     DEF IInv, Coded, Fresh, Bound, Taken, Others, Untouched, Popping, Past,
          Minting, Undecided
<1>5. RedeemedOnce'
  BY <1>1, <1>0 DEF IInv, Coded, Taken, RedeemedOnce, Popping, Past, Undecided
<1> QED
  BY <1>2, <1>3, <1>4, <1>5 DEF Safe

LEMMA AddIndexKeeps ==
  ASSUME IInv, TypeOK', NEW o \in Op, AddIndex(o)
  PROVE  Safe'
<1>0. /\ pc \in [Op -> Label] /\ req \in [Op -> Request]
      /\ kept \in [Code -> Nat] /\ redeemed \in [Code -> Nat]
      /\ label \in [Code -> UserCode \union {NoCode}]
  BY DEF IInv, TypeOK
<1>1. /\ Others(o) /\ pc[o] = "index" /\ pc'[o] = "store" /\ req' = req
      /\ req[o].code \in Code /\ req[o].label # NoCode
      /\ label' = [label EXCEPT ![req[o].code] = req[o].label]
      /\ UNCHANGED <<kept, decision, first, redeemed>>
  BY <1>0, DeviceAssumption
     DEF AddIndex, Request, IInv, TypeOK, Others, Goto, store, told, Coded,
          Minting
<1>2. Fresh'
  BY <1>1, <1>0 DEF IInv, Coded, Fresh, Others, Untouched, Minting, Past
<1>3. Bound'
  BY <1>1, <1>0
     DEF IInv, Coded, Fresh, Bound, Taken, Others, Untouched, Past, Popping,
          Minting, Undecided
<1>4. Taken'
  BY <1>1, <1>0
     DEF IInv, Coded, Fresh, Bound, Taken, Others, Untouched, Popping, Past,
          Minting, Undecided
<1>5. RedeemedOnce'
  BY <1>1, <1>0 DEF IInv, Coded, Taken, RedeemedOnce, Popping, Past, Undecided
<1> QED
  BY <1>2, <1>3, <1>4, <1>5 DEF Safe

LEMMA RedrawKeeps ==
  ASSUME IInv, TypeOK', NEW o \in Op, NEW u \in UserCode, Redraw(o, u)
  PROVE  Safe'
<1>0. /\ pc \in [Op -> Label] /\ req \in [Op -> Request]
      /\ kept \in [Code -> Nat] /\ redeemed \in [Code -> Nat]
      /\ label \in [Code -> UserCode \union {NoCode}]
  BY DEF IInv, TypeOK
<1>1. \/ Quiet(o)
      \/ /\ Others(o) /\ pc[o] = "index" /\ pc'[o] = "index"
         /\ req'[o].code = req[o].code
         /\ UNCHANGED <<kept, label, decision, first, redeemed>>
  BY <1>0, DeviceAssumption
     DEF Redraw, Request, IInv, TypeOK, Quiet, Others, Finish, Goto, store,
          told, Minting, Past
<1>q. CASE Quiet(o)
  BY <1>q, QuietKeeps
<1>m. CASE ~Quiet(o)
  <2>1. Fresh'
    BY <1>1, <1>m, <1>0
       DEF IInv, Coded, Fresh, Others, Untouched, Minting, Past
  <2>2. Bound'
    BY <1>1, <1>m, <1>0
       DEF IInv, Coded, Fresh, Bound, Taken, Others, Untouched, Past, Popping,
            Minting, Undecided
  <2>3. Taken'
    BY <1>1, <1>m, <1>0
       DEF IInv, Coded, Fresh, Bound, Taken, Others, Untouched, Popping, Past,
            Minting, Undecided
  <2>4. RedeemedOnce'
    BY <1>1, <1>m, <1>0
       DEF IInv, Coded, Taken, RedeemedOnce, Popping, Past, Undecided
  <2> QED
    BY <2>1, <2>2, <2>3, <2>4 DEF Safe
<1> QED
  BY <1>q, <1>m

LEMMA StoreKeeps ==
  ASSUME IInv, TypeOK', NEW o \in Op, Store(o)
  PROVE  Safe'
<1>0. /\ pc \in [Op -> Label] /\ req \in [Op -> Request]
      /\ kept \in [Code -> Nat] /\ redeemed \in [Code -> Nat]
      /\ label \in [Code -> UserCode \union {NoCode}]
  BY DEF IInv, TypeOK
<1>1. /\ Others(o) /\ pc[o] = "store" /\ pc'[o] = "idle" /\ req[o].code \in Code
      /\ \A c \in Code : c # req[o].code => kept'[c] = kept[c]
      /\ UNCHANGED <<label, decision, first, redeemed>>
  BY <1>0, DeviceAssumption
     DEF Store, Request, IInv, TypeOK, Others, Finish, Goto, store, told,
          Coded, Minting
<1>2. Fresh'
  BY <1>1, <1>0 DEF IInv, Coded, Fresh, Others, Untouched, Minting, Past
<1>3. Bound'
  BY <1>1, <1>0
     DEF IInv, Coded, Fresh, Bound, Taken, Others, Untouched, Past, Popping,
          Minting, Undecided
<1>4. Taken'
  BY <1>1, <1>0
     DEF IInv, Coded, Fresh, Bound, Taken, Others, Untouched, Popping, Past,
          Minting, Undecided
<1>5. RedeemedOnce'
  BY <1>1, <1>0 DEF IInv, Coded, Taken, RedeemedOnce, Popping, Past, Undecided
<1> QED
  BY <1>2, <1>3, <1>4, <1>5 DEF Safe

LEMMA FindByUserCodeKeeps ==
  ASSUME IInv, TypeOK', NEW o \in Op, FindByUserCode(o)
  PROVE  Safe'
<1>0. /\ pc \in [Op -> Label] /\ req \in [Op -> Request]
      /\ kept \in [Code -> Nat] /\ redeemed \in [Code -> Nat]
      /\ label \in [Code -> UserCode \union {NoCode}]
  BY DEF IInv, TypeOK
<1>1. \/ Quiet(o)
      \/ /\ Others(o) /\ pc'[o] = "find" /\ req'[o].code \in Code
         /\ UNCHANGED <<kept, label, decision, first, redeemed>>
  BY <1>0, DeviceAssumption
     DEF FindByUserCode, Request, IInv, TypeOK, Quiet, Others, Goto, store,
          told, Coded, Minting, Past, Indexed
<1>q. CASE Quiet(o)
  BY <1>q, QuietKeeps
<1>m. CASE ~Quiet(o)
  <2>1. Fresh'
    BY <1>1, <1>m, <1>0
       DEF IInv, Coded, Fresh, Others, Untouched, Minting, Past
  <2>2. Bound'
    BY <1>1, <1>m, <1>0
       DEF IInv, Coded, Fresh, Bound, Taken, Others, Untouched, Past, Popping,
            Minting, Undecided
  <2>3. Taken'
    BY <1>1, <1>m, <1>0
       DEF IInv, Coded, Fresh, Bound, Taken, Others, Untouched, Popping, Past,
            Minting, Undecided
  <2>4. RedeemedOnce'
    BY <1>1, <1>m, <1>0
       DEF IInv, Coded, Taken, RedeemedOnce, Popping, Past, Undecided
  <2> QED
    BY <2>1, <2>2, <2>3, <2>4 DEF Safe
<1> QED
  BY <1>q, <1>m

LEMMA FindRequestKeeps ==
  ASSUME IInv, TypeOK', NEW o \in Op, FindRequest(o)
  PROVE  Safe'
<1>0. /\ pc \in [Op -> Label] /\ req \in [Op -> Request]
      /\ kept \in [Code -> Nat] /\ redeemed \in [Code -> Nat]
      /\ label \in [Code -> UserCode \union {NoCode}]
  BY DEF IInv, TypeOK
<1>1. \/ Quiet(o)
      \/ /\ Others(o) /\ pc[o] = "find" /\ pc'[o] = "findDecision" /\ req' = req
         /\ req[o].code \in Code /\ kept[req[o].code] # 0
         /\ UNCHANGED <<kept, label, decision, first, redeemed>>
  BY <1>0, DeviceAssumption
     DEF FindRequest, Request, IInv, TypeOK, Quiet, Others, Finish, Goto,
          store, told, Coded, Minting, Past, Stored
<1>q. CASE Quiet(o)
  BY <1>q, QuietKeeps
<1>m. CASE ~Quiet(o)
  <2>1. Fresh'
    BY <1>1, <1>m, <1>0
       DEF IInv, Coded, Fresh, Others, Untouched, Minting, Past
  <2>2. Bound'
    BY <1>1, <1>m, <1>0
       DEF IInv, Coded, Fresh, Bound, Taken, Others, Untouched, Past, Popping,
            Minting, Undecided
  <2>3. Taken'
    BY <1>1, <1>m, <1>0
       DEF IInv, Coded, Fresh, Bound, Taken, Others, Untouched, Popping, Past,
            Minting, Undecided
  <2>4. RedeemedOnce'
    BY <1>1, <1>m, <1>0
       DEF IInv, Coded, Taken, RedeemedOnce, Popping, Past, Undecided
  <2> QED
    BY <2>1, <2>2, <2>3, <2>4 DEF Safe
<1> QED
  BY <1>q, <1>m

LEMMA FindDecisionKeeps ==
  ASSUME IInv, TypeOK', NEW o \in Op, FindDecision(o)
  PROVE  Safe'
<1>0. /\ pc \in [Op -> Label] /\ req \in [Op -> Request]
      /\ kept \in [Code -> Nat] /\ redeemed \in [Code -> Nat]
      /\ label \in [Code -> UserCode \union {NoCode}]
  BY DEF IInv, TypeOK
<1>1. /\ Others(o) /\ pc[o] = "findDecision" /\ pc'[o] \in {"judge", "remove", "touch"}
      /\ req[o].code \in Code /\ req'[o].code = req[o].code
      /\ req'[o].seen \in {Undecided, decision[req[o].code]}
      /\ UNCHANGED <<kept, label, decision, first, redeemed>>
  BY <1>0, DeviceAssumption
     DEF FindDecision, Request, IInv, TypeOK, Others, Goto, store, told,
          Coded, Past, Decided
<1>2. Fresh'
  BY <1>1, <1>0 DEF IInv, Coded, Fresh, Others, Untouched, Minting, Past
<1>3. Bound'
  BY <1>1, <1>0
     DEF IInv, Coded, Fresh, Bound, Taken, Others, Untouched, Past, Popping,
          Minting, Undecided
<1>4. Taken'
  BY <1>1, <1>0
     DEF IInv, Coded, Fresh, Bound, Taken, Others, Untouched, Popping, Past,
          Minting, Undecided
<1>5. RedeemedOnce'
  BY <1>1, <1>0 DEF IInv, Coded, Taken, RedeemedOnce, Popping, Past, Undecided
<1> QED
  BY <1>2, <1>3, <1>4, <1>5 DEF Safe

LEMMA JudgePassKeeps ==
  ASSUME IInv, TypeOK', NEW o \in Op, JudgePass(o)
  PROVE  Safe'
<1>0. /\ pc \in [Op -> Label] /\ req \in [Op -> Request]
      /\ kept \in [Code -> Nat] /\ redeemed \in [Code -> Nat]
      /\ label \in [Code -> UserCode \union {NoCode}]
  BY DEF IInv, TypeOK
<1>1. /\ Others(o) /\ pc[o] = "judge" /\ pc'[o] = "decide" /\ req' = req
      /\ UNCHANGED <<kept, label, decision, first, redeemed>>
  BY <1>0, DeviceAssumption
     DEF JudgePass, Request, IInv, TypeOK, Others, Goto, store, told
<1>2. Fresh'
  BY <1>1, <1>0 DEF IInv, Coded, Fresh, Others, Untouched, Minting, Past
<1>3. Bound'
  BY <1>1, <1>0
     DEF IInv, Coded, Fresh, Bound, Taken, Others, Untouched, Past, Popping,
          Minting, Undecided
<1>4. Taken'
  BY <1>1, <1>0
     DEF IInv, Coded, Fresh, Bound, Taken, Others, Untouched, Popping, Past,
          Minting, Undecided
<1>5. RedeemedOnce'
  BY <1>1, <1>0 DEF IInv, Coded, Taken, RedeemedOnce, Popping, Past, Undecided
<1> QED
  BY <1>2, <1>3, <1>4, <1>5 DEF Safe

LEMMA DecideKeeps ==
  ASSUME IInv, TypeOK', NEW o \in Op, Decide(o)
  PROVE  Safe'
<1>0. /\ pc \in [Op -> Label] /\ req \in [Op -> Request]
      /\ kept \in [Code -> Nat] /\ redeemed \in [Code -> Nat]
      /\ label \in [Code -> UserCode \union {NoCode}]
  BY DEF IInv, TypeOK
<1>1. /\ Others(o) /\ pc[o] = "decide" /\ pc'[o] = "unindex" /\ req' = req
      /\ req[o].code \in Code /\ decision[req[o].code] = Undecided
      /\ first[req[o].code] = Undecided => first'[req[o].code] = decision'[req[o].code]
      /\ first[req[o].code] # Undecided => first'[req[o].code] = first[req[o].code]
      /\ \A c \in Code : c # req[o].code => decision'[c] = decision[c] /\ first'[c] = first[c]
      /\ UNCHANGED <<kept, label, redeemed>>
  BY <1>0, DeviceAssumption
     DEF Decide, Request, IInv, TypeOK, Others, Goto, store, told, Coded,
          Past, MayDecide
<1>2. Fresh'
  BY <1>1, <1>0 DEF IInv, Coded, Fresh, Others, Untouched, Minting, Past
<1>3. Bound'
  BY <1>1, <1>0, SMTT(40)
     DEF IInv, Coded, Fresh, Bound, Taken, Others, Untouched, Past, Popping,
          Minting, Undecided
<1>4. Taken'
  BY <1>1, <1>0
     DEF IInv, Coded, Fresh, Bound, Taken, Others, Untouched, Popping, Past,
          Minting, Undecided
<1>5. RedeemedOnce'
  BY <1>1, <1>0 DEF IInv, Coded, Taken, RedeemedOnce, Popping, Past, Undecided
<1> QED
  BY <1>2, <1>3, <1>4, <1>5 DEF Safe

LEMMA PollKeeps ==
  ASSUME IInv, TypeOK', NEW o \in Op, NEW c \in Code, Poll(o, c)
  PROVE  Safe'
<1>0. /\ pc \in [Op -> Label] /\ req \in [Op -> Request]
      /\ kept \in [Code -> Nat] /\ redeemed \in [Code -> Nat]
      /\ label \in [Code -> UserCode \union {NoCode}]
  BY DEF IInv, TypeOK
<1>1. /\ Others(o) /\ pc'[o] = "find" /\ req'[o].code \in Code
      /\ UNCHANGED <<kept, label, decision, first, redeemed>>
  BY <1>0, DeviceAssumption
     DEF Poll, Request, IInv, TypeOK, Others, Goto, store, told, NoRequest
<1>2. Fresh'
  BY <1>1, <1>0 DEF IInv, Coded, Fresh, Others, Untouched, Minting, Past
<1>3. Bound'
  BY <1>1, <1>0
     DEF IInv, Coded, Fresh, Bound, Taken, Others, Untouched, Past, Popping,
          Minting, Undecided
<1>4. Taken'
  BY <1>1, <1>0
     DEF IInv, Coded, Fresh, Bound, Taken, Others, Untouched, Popping, Past,
          Minting, Undecided
<1>5. RedeemedOnce'
  BY <1>1, <1>0 DEF IInv, Coded, Taken, RedeemedOnce, Popping, Past, Undecided
<1> QED
  BY <1>2, <1>3, <1>4, <1>5 DEF Safe

LEMMA RemoveKeeps ==
  ASSUME IInv, TypeOK', NEW o \in Op, Remove(o)
  PROVE  Safe'
<1>0. /\ pc \in [Op -> Label] /\ req \in [Op -> Request]
      /\ kept \in [Code -> Nat] /\ redeemed \in [Code -> Nat]
      /\ label \in [Code -> UserCode \union {NoCode}]
  BY DEF IInv, TypeOK
<1>1. /\ Others(o) /\ pc[o] = "remove" /\ pc'[o] = "idle" /\ req[o].code \in Code
      /\ kept'[req[o].code] = 0 /\ decision'[req[o].code] = Undecided
      /\ \A c \in Code : c # req[o].code => kept'[c] = kept[c] /\ decision'[c] = decision[c]
      /\ UNCHANGED <<label, first, redeemed>>
  BY <1>0, DeviceAssumption
     DEF Remove, Request, IInv, TypeOK, Others, Finish, Goto, store, told,
          Coded, Past
<1>2. Fresh'
  BY <1>1, <1>0 DEF IInv, Coded, Fresh, Others, Untouched, Minting, Past
<1>3. Bound'
  BY <1>1, <1>0
     DEF IInv, Coded, Fresh, Bound, Taken, Others, Untouched, Past, Popping,
          Minting, Undecided
<1>4. Taken'
  BY <1>1, <1>0
     DEF IInv, Coded, Fresh, Bound, Taken, Others, Untouched, Popping, Past,
          Minting, Undecided
<1>5. RedeemedOnce'
  BY <1>1, <1>0 DEF IInv, Coded, Taken, RedeemedOnce, Popping, Past, Undecided
<1> QED
  BY <1>2, <1>3, <1>4, <1>5 DEF Safe

LEMMA TouchPollKeeps ==
  ASSUME IInv, TypeOK', NEW o \in Op, TouchPoll(o)
  PROVE  Safe'
<1>0. /\ pc \in [Op -> Label] /\ req \in [Op -> Request]
      /\ kept \in [Code -> Nat] /\ redeemed \in [Code -> Nat]
      /\ label \in [Code -> UserCode \union {NoCode}]
  BY DEF IInv, TypeOK
<1>1. \/ Quiet(o)
      \/ /\ Others(o) /\ pc[o] = "touch" /\ pc'[o] = "pop" /\ req' = req
         /\ UNCHANGED <<kept, label, decision, first, redeemed>>
  BY <1>0, DeviceAssumption
     DEF TouchPoll, Request, IInv, TypeOK, Quiet, Others, Finish, Goto, store,
          told, Minting, Past
<1>q. CASE Quiet(o)
  BY <1>q, QuietKeeps
<1>m. CASE ~Quiet(o)
  <2>1. Fresh'
    BY <1>1, <1>m, <1>0
       DEF IInv, Coded, Fresh, Others, Untouched, Minting, Past
  <2>2. Bound'
    BY <1>1, <1>m, <1>0
       DEF IInv, Coded, Fresh, Bound, Taken, Others, Untouched, Past, Popping,
            Minting, Undecided
  <2>3. Taken'
    BY <1>1, <1>m, <1>0
       DEF IInv, Coded, Fresh, Bound, Taken, Others, Untouched, Popping, Past,
            Minting, Undecided
  <2>4. RedeemedOnce'
    BY <1>1, <1>m, <1>0
       DEF IInv, Coded, Taken, RedeemedOnce, Popping, Past, Undecided
  <2> QED
    BY <2>1, <2>2, <2>3, <2>4 DEF Safe
<1> QED
  BY <1>q, <1>m

LEMMA PopRequestKeeps ==
  ASSUME IInv, TypeOK', NEW o \in Op, PopRequest(o)
  PROVE  Safe'
<1>0. /\ pc \in [Op -> Label] /\ req \in [Op -> Request]
      /\ kept \in [Code -> Nat] /\ redeemed \in [Code -> Nat]
      /\ label \in [Code -> UserCode \union {NoCode}]
  BY DEF IInv, TypeOK
<1>1. /\ Others(o) /\ pc[o] = "pop" /\ req[o].code \in Code
      /\ pc'[o] = "idle" \/ (pc'[o] = "popDecision" /\ req' = req /\ kept[req[o].code] # 0)
      /\ kept'[req[o].code] = 0 /\ \A c \in Code : c # req[o].code => kept'[c] = kept[c]
      /\ UNCHANGED <<label, decision, first, redeemed>>
  <2>1. Others(o) /\ pc[o] = "pop" /\ req[o].code \in Code
    BY <1>0 DEF PopRequest, IInv, Coded, Others, Finish, Goto, Past
  <2>2. CASE Stored(req[o].code)
    <3>1. kept[req[o].code] # 0
      BY <2>1, <2>2 DEF IInv, TypeOK, Stored
    <3> QED
      BY <1>0, <2>1, <2>2, <3>1 DEF PopRequest, Goto, told
  <2>3. CASE ~Stored(req[o].code)
    BY <1>0, <2>1, <2>3 DEF PopRequest, Finish, Goto, told
  <2> QED
    BY <2>2, <2>3
<1>2. Fresh'
  BY <1>1, <1>0 DEF IInv, Coded, Fresh, Others, Untouched, Minting, Past
<1>3. Bound'
  BY <1>1, <1>0
     DEF IInv, Coded, Fresh, Bound, Taken, Others, Untouched, Past, Popping,
          Minting, Undecided
<1>4. Taken'
  BY <1>1, <1>0
     DEF IInv, Coded, Fresh, Bound, Taken, Others, Untouched, Popping, Past,
          Minting, Undecided
<1>5. RedeemedOnce'
  BY <1>1, <1>0 DEF IInv, Coded, Taken, RedeemedOnce, Popping, Past, Undecided
<1> QED
  BY <1>2, <1>3, <1>4, <1>5 DEF Safe

LEMMA PopDecisionKeeps ==
  ASSUME IInv, TypeOK', NEW o \in Op, PopDecision(o)
  PROVE  Safe'
<1>0. /\ pc \in [Op -> Label] /\ req \in [Op -> Request]
      /\ kept \in [Code -> Nat] /\ redeemed \in [Code -> Nat]
      /\ label \in [Code -> UserCode \union {NoCode}]
  BY DEF IInv, TypeOK
<1>1. /\ Others(o) /\ pc[o] = "popDecision" /\ pc'[o] = "dropPoll"
      /\ req[o].code \in Code /\ req'[o].code = req[o].code
      /\ req'[o].seen = "approved" => req[o].seen = "approved"
      /\ decision'[req[o].code] = Undecided
      /\ \A c \in Code : c # req[o].code => decision'[c] = decision[c]
      /\ UNCHANGED <<kept, label, first, redeemed>>
  BY <1>0, DeviceAssumption
     DEF PopDecision, Request, IInv, TypeOK, Others, Goto, store, told, Coded,
          Past
<1>2. Fresh'
  BY <1>1, <1>0 DEF IInv, Coded, Fresh, Others, Untouched, Minting, Past
<1>3. Bound'
  BY <1>1, <1>0
     DEF IInv, Coded, Fresh, Bound, Taken, Others, Untouched, Past, Popping,
          Minting, Undecided
<1>4. Taken'
  BY <1>1, <1>0
     DEF IInv, Coded, Fresh, Bound, Taken, Others, Untouched, Popping, Past,
          Minting, Undecided
<1>5. RedeemedOnce'
  BY <1>1, <1>0 DEF IInv, Coded, Taken, RedeemedOnce, Popping, Past, Undecided
<1> QED
  BY <1>2, <1>3, <1>4, <1>5 DEF Safe

LEMMA DropPollKeeps ==
  ASSUME IInv, TypeOK', NEW o \in Op, DropPoll(o)
  PROVE  Safe'
<1>0. /\ pc \in [Op -> Label] /\ req \in [Op -> Request]
      /\ kept \in [Code -> Nat] /\ redeemed \in [Code -> Nat]
      /\ label \in [Code -> UserCode \union {NoCode}]
  BY DEF IInv, TypeOK
<1>1. /\ Others(o) /\ pc[o] = "dropPoll" /\ pc'[o] = "idle" /\ req[o].code \in Code
      /\ redeemed'[req[o].code] = (IF req[o].seen = "approved" THEN redeemed[req[o].code] + 1
                                  ELSE redeemed[req[o].code])
      /\ \A c \in Code : c # req[o].code => redeemed'[c] = redeemed[c]
      /\ UNCHANGED <<kept, label, decision, first>>
  BY <1>0, DeviceAssumption
     DEF DropPoll, Request, IInv, TypeOK, Others, Finish, Goto, store, told,
          Coded, Past
<1>2. Fresh'
  BY <1>1, <1>0 DEF IInv, Coded, Fresh, Others, Untouched, Minting, Past
<1>3. Bound'
  BY <1>1, <1>0
     DEF IInv, Coded, Fresh, Bound, Taken, Others, Untouched, Past, Popping,
          Minting, Undecided
<1>4. Taken'
  BY <1>1, <1>0
     DEF IInv, Coded, Fresh, Bound, Taken, Others, Untouched, Popping, Past,
          Minting, Undecided
<1>5. RedeemedOnce'
  BY <1>1, <1>0 DEF IInv, Coded, Taken, RedeemedOnce, Popping, Past, Undecided
<1> QED
  BY <1>2, <1>3, <1>4, <1>5 DEF Safe

(* The cache is lost, the clock moves, or nothing happens.                 *)
LEMMA IdleKeeps ==
  ASSUME IInv, CacheLoss \/ Tick \/ UNCHANGED vars
  PROVE  Safe'
<1> USE DEF IInv, store, told
<1>1. /\ pc' = pc /\ req' = req /\ label' = label /\ first' = first /\ redeemed' = redeemed
      /\ \A c \in Code : \/ kept'[c] = kept[c] /\ decision'[c] = decision[c]
                         \/ kept'[c] = 0 /\ decision'[c] = Undecided
  BY DEF CacheLoss, Tick, vars
<1>2. Fresh'
  BY <1>1 DEF Coded, Fresh, Untouched, Minting, Past
<1>3. Bound'
  BY <1>1 DEF Coded, Bound, Past
<1>4. Taken'
  BY <1>1 DEF Coded, Taken, Popping, Past
<1>5. RedeemedOnce'
  BY <1>1 DEF RedeemedOnce
<1> QED
  BY <1>2, <1>3, <1>4, <1>5 DEF Safe

(* Every step keeps the invariant.                                         *)
LEMMA SafeStep ==
  ASSUME IInv, TypeOK', [Next]_vars
  PROVE  Safe'
<1> USE IssueKeeps, AddIndexKeeps, RedrawKeeps, StoreKeeps,
     FindByUserCodeKeeps, FindRequestKeeps, FindDecisionKeeps, JudgePassKeeps,
     DecideKeeps, PollKeeps, RemoveKeeps, TouchPollKeeps, PopRequestKeeps,
     PopDecisionKeeps, DropPollKeeps, QuietKeeps, IdleKeeps
<1>1. CASE \E o \in Op, c \in Code : Poll(o, c) \/ \E u \in UserCode : Issue(o, c, u)
  BY <1>1
<1>2. CASE \E o \in Op, u \in UserCode : Redraw(o, u)
  BY <1>2
<1>3. ASSUME NEW o \in Op, NEW k \in Kinds, NEW u \in UserCode, Enter(o, k, u)
      PROVE  Quiet(o)
  BY <1>3
     DEF IInv, TypeOK, Enter, Quiet, Others, Goto, store, told, Minting, Past
<1>4. ASSUME NEW o \in Op, Step(o) \/ Fail(o) PROVE Safe'
  BY <1>4, QuietCalls DEF IInv, Step
<1> QED
  BY <1>1, <1>2, <1>3, <1>4 DEF Next

-----------------------------------------------------------------------------
LEMMA InitHolds == Init => IInv
<1> SUFFICES ASSUME Init PROVE IInv
  OBVIOUS
<1>1. TypeOK
  BY NoRequestType DEF Init, TypeOK, Label, Undecided
<1> QED
  BY <1>1
     DEF Init, IInv, Coded, Fresh, Untouched, Bound, Taken, RedeemedOnce,
          Past, Minting, Popping

(* The inductive invariant holds in every reachable state.                 *)
THEOREM Inductive == Spec => []IInv
<1>1. Init => IInv
  BY InitHolds
<1>2. IInv /\ [Next]_vars => IInv'
  BY TypeStep, CodedStep, SafeStep DEF IInv, Safe
<1> QED
  BY <1>1, <1>2, PTL DEF Spec

(* The keys and the requests in flight are well formed, for any number of  *)
(* codes and requests.                                                     *)
THEOREM TypeCorrect == Spec => []TypeOK
<1>1. IInv => TypeOK
  BY DEF IInv
<1> QED
  BY <1>1, Inductive, PTL

(* A device code buys tokens at most once, and only after an approval was  *)
(* the first verdict on it.                                                *)
THEOREM RedeemedAtMostOnce == Spec => []RedeemedOnce
<1>1. IInv => RedeemedOnce
  BY DEF IInv
<1> QED
  BY <1>1, Inductive, PTL

(* What the device reads of a live request is the first decision on it.    *)
THEOREM FirstDecisionBinds == Spec => []DecisionBinds
<1>1. IInv => DecisionBinds
  BY DEF IInv, TypeOK, Bound, DecisionBinds, Stored
<1> QED
  BY <1>1, Inductive, PTL

-----------------------------------------------------------------------------
(* ApprovalKept: what holds of an approval between the page and the device.  *)

(* A request outlives its expiry in the cache: it is stored after its user *)
(* code, and for longer.                                                   *)
Lasting ==
    /\ \A c \in Code : expires[c] <= now + Lifetime
    /\ \A c \in Code : kept[c] # 0 => expires[c] <= kept[c]

(* What a request has read of a code, while others decide on it.           *)
Reading ==
    /\ \A c \in Code : decision[c] # Undecided => first[c] # Undecided
    /\ \A o \in Op : pc[o] \in {"remove", "touch", "pop"} \union Popping => req[o].kind = "poll"
    /\ \A o \in Op : pc[o] = "remove" => Expired(req[o].code)
    /\ \A o \in Op : pc[o] = "pop" => req[o].seen # Undecided
    /\ \A o \in Op : pc[o] \in {"touch", "pop"} /\ req[o].seen # Undecided =>
         /\ first[req[o].code] # Undecided
         /\ kept[req[o].code] # 0 => req[o].seen = first[req[o].code]

(* A live request goes with a verdict or not at all.                       *)
Alive(c) == ~flushed /\ ~Expired(c)
Undropped == \A o \in Op :
    /\ pc[o] \in {"findDecision", "judge", "decide"}
    /\ Alive(req[o].code)
    /\ first[req[o].code] = Undecided
    => kept[req[o].code] # 0

(* Whoever popped a live request answers with the first verdict on it.     *)
Answering == \A o \in Op :
    /\ pc[o] = "popDecision" => req[o].seen = first[req[o].code] /\ req[o].seen # Undecided
    /\ pc[o] = "popDecision" /\ Alive(req[o].code) => decision[req[o].code] = first[req[o].code]
    /\ pc[o] = "dropPoll" /\ Alive(req[o].code) =>
         req[o].seen = first[req[o].code] /\ req[o].seen # Undecided

Holder(c, p) ==
    /\ req[p].kind = "poll"
    /\ req[p].code = c
    /\ pc[p] \in Popping \union {"failed"}
Awaited == \A c \in Code : first[c] = "approved" /\ redeemed[c] = 0 /\ Alive(c) =>
    kept[c] # 0 \/ \E p \in Op : Holder(c, p)

Waiting == Lasting /\ Reading /\ Undropped /\ Answering /\ Awaited

(* A step that leaves a request without a code, and every code alone.      *)
Calm(o) ==
    /\ Others(o)
    /\ pc'[o] \notin Past
    /\ pc[o] \in Popping \union {"failed"} => pc'[o] = "failed" /\ req'[o] = req[o]
    /\ UNCHANGED <<now, kept, expires, decision, first, redeemed, flushed>>

LEMMA CalmKeeps == ASSUME IInv, Waiting, NEW o \in Op, Calm(o) PROVE Waiting'
<1> USE DEF Waiting, Calm, Others, Past, Popping
<1>1. Lasting'
  BY DEF Lasting
<1>2. Reading'
  BY DEF Reading, Expired
<1>3. Undropped'
  BY DEF Undropped, Alive, Expired
<1>4. Answering'
  BY DEF Answering, Alive, Expired
<1>5. Awaited'
  BY DEF Awaited, Alive, Expired, Holder
<1> QED
  BY <1>1, <1>2, <1>3, <1>4, <1>5

LEMMA CalmCalls ==
  ASSUME TypeOK, NEW o \in Op,
         \/ LookupThrottle(o) \/ FindByUserCode(o) \/ JudgeMiss(o) \/ JudgeRefuse(o)
         \/ CountMiss(o) \/ Lock(o) \/ DecideRefused(o) \/ RemoveUserCode(o)
         \/ HasMisses(o) \/ ClaimReset(o) \/ DropMisses(o) \/ Fail(o)
         \/ \E c \in Code : Poll(o, c) \/ \E u \in UserCode : Issue(o, c, u)
         \/ \E u \in UserCode : Redraw(o, u) \/ \E k \in Kinds : Enter(o, k, u)
  PROVE  Calm(o)
<1>0. pc \in [Op -> Label] /\ req \in [Op -> Request]
  BY DEF TypeOK
<1> USE <1>0 DEF Calm, Others, Past, Popping, Goto, Finish, store, throttle, told
<1>1. CASE LookupThrottle(o)
  BY <1>1 DEF LookupThrottle
<1>2. CASE FindByUserCode(o)
  BY <1>2 DEF FindByUserCode
<1>3. CASE JudgeMiss(o)
  BY <1>3 DEF JudgeMiss
<1>4. CASE JudgeRefuse(o)
  BY <1>4 DEF JudgeRefuse
<1>5. CASE CountMiss(o)
  BY <1>5 DEF CountMiss
<1>6. CASE Lock(o)
  BY <1>6 DEF Lock
<1>7. CASE DecideRefused(o)
  BY <1>7 DEF DecideRefused
<1>8. CASE RemoveUserCode(o)
  BY <1>8 DEF RemoveUserCode
<1>9. CASE HasMisses(o)
  BY <1>9 DEF HasMisses
<1>10. CASE ClaimReset(o)
  BY <1>10 DEF ClaimReset
<1>11. CASE DropMisses(o)
  BY <1>11 DEF DropMisses
<1>12. CASE Fail(o)
  BY <1>12 DEF Fail
<1>13. ASSUME NEW c \in Code, Poll(o, c) PROVE Calm(o)
  BY <1>13 DEF Poll
<1>14. ASSUME NEW c \in Code, NEW u \in UserCode, Issue(o, c, u) PROVE Calm(o)
  BY <1>14 DEF Issue
<1>15. ASSUME NEW u \in UserCode, Redraw(o, u) PROVE Calm(o)
  BY <1>15 DEF Redraw
<1>16. ASSUME NEW u \in UserCode, NEW k \in Kinds, Enter(o, k, u) PROVE Calm(o)
  BY <1>16 DEF Enter
<1> QED
  BY <1>1, <1>2, <1>3, <1>4, <1>5, <1>6, <1>7, <1>8,
     <1>9, <1>10, <1>11, <1>12, <1>13, <1>14, <1>15, <1>16

(* The user code is indexed: the clock of a fresh code starts.             *)
LEMMA AddIndexWaits ==
  ASSUME IInv, Waiting, TypeOK', NEW o \in Op, AddIndex(o) PROVE Waiting'
<1>0. /\ pc \in [Op -> Label] /\ req \in [Op -> Request] /\ now \in Nat
      /\ kept \in [Code -> Nat] /\ expires \in [Code -> Nat] /\ redeemed \in [Code -> Nat]
      /\ decision \in [Code -> Verdict \union {Undecided}]
      /\ first \in [Code -> Verdict \union {Undecided}]
      /\ Lifetime \in Nat /\ Retention \in Nat
  BY DeviceAssumption DEF IInv, TypeOK
<1>n. /\ pc' \in [Op -> Label] /\ now' \in Nat
      /\ kept' \in [Code -> Nat] /\ expires' \in [Code -> Nat] /\ redeemed' \in [Code -> Nat]
      /\ decision' \in [Code -> Verdict \union {Undecided}]
      /\ first' \in [Code -> Verdict \union {Undecided}]
  BY DEF TypeOK
<1>1. /\ Others(o) /\ pc[o] = "index" /\ pc'[o] = "store" /\ req' = req /\ req[o].code \in Code
      /\ Untouched(req[o].code)
      /\ expires'[req[o].code] = now + Lifetime
      /\ \A c \in Code : c # req[o].code => expires'[c] = expires[c]
      /\ UNCHANGED <<now, kept, decision, first, redeemed, flushed>>
  BY <1>0 DEF AddIndex, IInv, TypeOK, Others, Goto, Coded, Minting, Fresh, throttle, told
<1>2. Lasting'
  BY <1>0, <1>n, <1>1
     DEF IInv, Coded, Fresh, Bound, Taken, Waiting, Others, Past, Popping, Minting,
         Untouched, Undecided, Lasting
<1>3. Reading'
  BY <1>0, <1>n, <1>1
     DEF IInv, Coded, Fresh, Bound, Taken, Waiting, Others, Past, Popping, Minting,
         Untouched, Undecided, Reading, Undropped, Expired, Decided
<1>4. Undropped'
  BY <1>0, <1>n, <1>1
     DEF IInv, Coded, Fresh, Bound, Taken, Waiting, Others, Past, Popping, Minting,
         Untouched, Undecided, Undropped, Reading, Alive, Expired
<1>5. Answering'
  BY <1>0, <1>n, <1>1
     DEF IInv, Coded, Fresh, Bound, Taken, Waiting, Others, Past, Popping, Minting,
         Untouched, Undecided, Answering, Reading, Alive, Expired, Decided
<1>6. Awaited'
  BY <1>0, <1>n, <1>1
     DEF IInv, Coded, Fresh, Bound, Taken, Waiting, Others, Past, Popping, Minting,
         Untouched, Undecided, Awaited, Reading, Undropped, Answering, Lasting, Alive,
         Expired, Holder
<1> QED
  BY <1>2, <1>3, <1>4, <1>5, <1>6 DEF Waiting

(* The request is stored, for longer than its user code.                   *)
LEMMA StoreWaits ==
  ASSUME IInv, Waiting, TypeOK', NEW o \in Op, Store(o) PROVE Waiting'
<1>0. /\ pc \in [Op -> Label] /\ req \in [Op -> Request] /\ now \in Nat
      /\ kept \in [Code -> Nat] /\ expires \in [Code -> Nat] /\ redeemed \in [Code -> Nat]
      /\ decision \in [Code -> Verdict \union {Undecided}]
      /\ first \in [Code -> Verdict \union {Undecided}]
      /\ Lifetime \in Nat /\ Retention \in Nat
  BY DeviceAssumption DEF IInv, TypeOK
<1>n. /\ pc' \in [Op -> Label] /\ now' \in Nat
      /\ kept' \in [Code -> Nat] /\ expires' \in [Code -> Nat] /\ redeemed' \in [Code -> Nat]
      /\ decision' \in [Code -> Verdict \union {Undecided}]
      /\ first' \in [Code -> Verdict \union {Undecided}]
  BY DEF TypeOK
<1>1. /\ Others(o) /\ pc[o] = "store" /\ pc'[o] = "idle" /\ req[o].code \in Code
      /\ Untouched(req[o].code)
      /\ kept'[req[o].code] = now + Lifetime + Retention
      /\ \A c \in Code : c # req[o].code => kept'[c] = kept[c]
      /\ UNCHANGED <<now, expires, decision, first, redeemed, flushed>>
  BY <1>0 DEF Store, IInv, TypeOK, Others, Finish, Goto, Coded, Minting, Fresh, throttle, told
<1>2. Lasting'
  BY <1>0, <1>n, <1>1
     DEF IInv, Coded, Fresh, Bound, Taken, Waiting, Others, Past, Popping, Minting,
         Untouched, Undecided, Lasting
<1>3. Reading'
  BY <1>0, <1>n, <1>1
     DEF IInv, Coded, Fresh, Bound, Taken, Waiting, Others, Past, Popping, Minting,
         Untouched, Undecided, Reading, Undropped, Expired, Decided
<1>4. Undropped'
  BY <1>0, <1>n, <1>1
     DEF IInv, Coded, Fresh, Bound, Taken, Waiting, Others, Past, Popping, Minting,
         Untouched, Undecided, Undropped, Reading, Alive, Expired
<1>5. Answering'
  BY <1>0, <1>n, <1>1
     DEF IInv, Coded, Fresh, Bound, Taken, Waiting, Others, Past, Popping, Minting,
         Untouched, Undecided, Answering, Reading, Alive, Expired, Decided
<1>6. Awaited'
  BY <1>0, <1>n, <1>1
     DEF IInv, Coded, Fresh, Bound, Taken, Waiting, Others, Past, Popping, Minting,
         Untouched, Undecided, Awaited, Reading, Undropped, Answering, Lasting, Alive,
         Expired, Holder
<1> QED
  BY <1>2, <1>3, <1>4, <1>5, <1>6 DEF Waiting

(* A request that is stored is found.                                      *)
LEMMA FindRequestWaits ==
  ASSUME IInv, Waiting, TypeOK', NEW o \in Op, FindRequest(o) PROVE Waiting'
<1>0. /\ pc \in [Op -> Label] /\ req \in [Op -> Request] /\ now \in Nat
      /\ kept \in [Code -> Nat] /\ expires \in [Code -> Nat] /\ redeemed \in [Code -> Nat]
      /\ decision \in [Code -> Verdict \union {Undecided}]
      /\ first \in [Code -> Verdict \union {Undecided}]
      /\ Lifetime \in Nat /\ Retention \in Nat
  BY DeviceAssumption DEF IInv, TypeOK
<1>n. /\ pc' \in [Op -> Label] /\ now' \in Nat
      /\ kept' \in [Code -> Nat] /\ expires' \in [Code -> Nat] /\ redeemed' \in [Code -> Nat]
      /\ decision' \in [Code -> Verdict \union {Undecided}]
      /\ first' \in [Code -> Verdict \union {Undecided}]
  BY DEF TypeOK
<1>1. /\ Others(o) /\ pc[o] = "find" /\ req[o].code \in Code
      /\ pc'[o] \notin Past \/ (pc'[o] = "findDecision" /\ req'[o] = req[o] /\ kept[req[o].code] # 0)
      /\ UNCHANGED <<now, kept, expires, decision, first, redeemed, flushed>>
  BY <1>0 DEF FindRequest, IInv, TypeOK, Others, Finish, Goto, Coded, Past, Stored, store, throttle, told
<1>2. Lasting'
  BY <1>0, <1>n, <1>1
     DEF IInv, Coded, Fresh, Bound, Taken, Waiting, Others, Past, Popping, Minting,
         Untouched, Undecided, Lasting
<1>3. Reading'
  BY <1>0, <1>n, <1>1
     DEF IInv, Coded, Fresh, Bound, Taken, Waiting, Others, Past, Popping, Minting,
         Untouched, Undecided, Reading, Undropped, Expired, Decided
<1>4. Undropped'
  BY <1>0, <1>n, <1>1
     DEF IInv, Coded, Fresh, Bound, Taken, Waiting, Others, Past, Popping, Minting,
         Untouched, Undecided, Undropped, Reading, Alive, Expired
<1>5. Answering'
  BY <1>0, <1>n, <1>1
     DEF IInv, Coded, Fresh, Bound, Taken, Waiting, Others, Past, Popping, Minting,
         Untouched, Undecided, Answering, Reading, Alive, Expired, Decided
<1>6. Awaited'
  BY <1>0, <1>n, <1>1
     DEF IInv, Coded, Fresh, Bound, Taken, Waiting, Others, Past, Popping, Minting,
         Untouched, Undecided, Awaited, Reading, Undropped, Answering, Lasting, Alive,
         Expired, Holder
<1> QED
  BY <1>2, <1>3, <1>4, <1>5, <1>6 DEF Waiting

(* The decision is read with the expiry.                                   *)
LEMMA FindDecisionWaits ==
  ASSUME IInv, Waiting, TypeOK', NEW o \in Op, FindDecision(o) PROVE Waiting'
<1>0. /\ pc \in [Op -> Label] /\ req \in [Op -> Request] /\ now \in Nat
      /\ kept \in [Code -> Nat] /\ expires \in [Code -> Nat] /\ redeemed \in [Code -> Nat]
      /\ decision \in [Code -> Verdict \union {Undecided}]
      /\ first \in [Code -> Verdict \union {Undecided}]
      /\ Lifetime \in Nat /\ Retention \in Nat
  BY DeviceAssumption DEF IInv, TypeOK
<1>n. /\ pc' \in [Op -> Label] /\ now' \in Nat
      /\ kept' \in [Code -> Nat] /\ expires' \in [Code -> Nat] /\ redeemed' \in [Code -> Nat]
      /\ decision' \in [Code -> Verdict \union {Undecided}]
      /\ first' \in [Code -> Verdict \union {Undecided}]
  BY DEF TypeOK
<1>1. /\ Others(o) /\ pc[o] = "findDecision" /\ req[o].code \in Code
      /\ req'[o].code = req[o].code /\ req'[o].kind = req[o].kind /\ req'[o].seen = Decided(req[o].code)
      /\ \/ pc'[o] = "judge"
         \/ req[o].kind = "poll" /\ pc'[o] = "remove" /\ Expired(req[o].code)
         \/ req[o].kind = "poll" /\ pc'[o] = "touch"
      /\ UNCHANGED <<now, kept, expires, decision, first, redeemed, flushed>>
  BY <1>0 DEF FindDecision, IInv, TypeOK, Others, Goto, Coded, Past, Request, store, throttle, told
<1>2. Lasting'
  BY <1>0, <1>n, <1>1
     DEF IInv, Coded, Fresh, Bound, Taken, Waiting, Others, Past, Popping, Minting,
         Untouched, Undecided, Lasting
<1>3. Reading'
  BY <1>0, <1>n, <1>1
     DEF IInv, Coded, Fresh, Bound, Taken, Waiting, Others, Past, Popping, Minting,
         Untouched, Undecided, Reading, Undropped, Expired, Decided
<1>4. Undropped'
  BY <1>0, <1>n, <1>1
     DEF IInv, Coded, Fresh, Bound, Taken, Waiting, Others, Past, Popping, Minting,
         Untouched, Undecided, Undropped, Reading, Alive, Expired
<1>5. Answering'
  BY <1>0, <1>n, <1>1
     DEF IInv, Coded, Fresh, Bound, Taken, Waiting, Others, Past, Popping, Minting,
         Untouched, Undecided, Answering, Reading, Alive, Expired, Decided
<1>6. Awaited'
  BY <1>0, <1>n, <1>1
     DEF IInv, Coded, Fresh, Bound, Taken, Waiting, Others, Past, Popping, Minting,
         Untouched, Undecided, Awaited, Reading, Undropped, Answering, Lasting, Alive,
         Expired, Holder
<1> QED
  BY <1>2, <1>3, <1>4, <1>5, <1>6 DEF Waiting

(* The person may decide.                                                  *)
LEMMA JudgePassWaits ==
  ASSUME IInv, Waiting, TypeOK', NEW o \in Op, JudgePass(o) PROVE Waiting'
<1>0. /\ pc \in [Op -> Label] /\ req \in [Op -> Request] /\ now \in Nat
      /\ kept \in [Code -> Nat] /\ expires \in [Code -> Nat] /\ redeemed \in [Code -> Nat]
      /\ decision \in [Code -> Verdict \union {Undecided}]
      /\ first \in [Code -> Verdict \union {Undecided}]
      /\ Lifetime \in Nat /\ Retention \in Nat
  BY DeviceAssumption DEF IInv, TypeOK
<1>n. /\ pc' \in [Op -> Label] /\ now' \in Nat
      /\ kept' \in [Code -> Nat] /\ expires' \in [Code -> Nat] /\ redeemed' \in [Code -> Nat]
      /\ decision' \in [Code -> Verdict \union {Undecided}]
      /\ first' \in [Code -> Verdict \union {Undecided}]
  BY DEF TypeOK
<1>1. /\ Others(o) /\ pc[o] = "judge" /\ pc'[o] = "decide" /\ req' = req /\ req[o].code \in Code
      /\ UNCHANGED <<now, kept, expires, decision, first, redeemed, flushed>>
  BY <1>0 DEF JudgePass, IInv, TypeOK, Others, Goto, Coded, Past, store, throttle, told
<1>2. Lasting'
  BY <1>0, <1>n, <1>1
     DEF IInv, Coded, Fresh, Bound, Taken, Waiting, Others, Past, Popping, Minting,
         Untouched, Undecided, Lasting
<1>3. Reading'
  BY <1>0, <1>n, <1>1
     DEF IInv, Coded, Fresh, Bound, Taken, Waiting, Others, Past, Popping, Minting,
         Untouched, Undecided, Reading, Undropped, Expired, Decided
<1>4. Undropped'
  BY <1>0, <1>n, <1>1
     DEF IInv, Coded, Fresh, Bound, Taken, Waiting, Others, Past, Popping, Minting,
         Untouched, Undecided, Undropped, Reading, Alive, Expired
<1>5. Answering'
  BY <1>0, <1>n, <1>1
     DEF IInv, Coded, Fresh, Bound, Taken, Waiting, Others, Past, Popping, Minting,
         Untouched, Undecided, Answering, Reading, Alive, Expired, Decided
<1>6. Awaited'
  BY <1>0, <1>n, <1>1
     DEF IInv, Coded, Fresh, Bound, Taken, Waiting, Others, Past, Popping, Minting,
         Untouched, Undecided, Awaited, Reading, Undropped, Answering, Lasting, Alive,
         Expired, Holder
<1> QED
  BY <1>2, <1>3, <1>4, <1>5, <1>6 DEF Waiting

(* The decision is written.                                                *)
LEMMA DecideWaits ==
  ASSUME IInv, Waiting, TypeOK', NEW o \in Op, Decide(o) PROVE Waiting'
<1>0. /\ pc \in [Op -> Label] /\ req \in [Op -> Request] /\ now \in Nat
      /\ kept \in [Code -> Nat] /\ expires \in [Code -> Nat] /\ redeemed \in [Code -> Nat]
      /\ decision \in [Code -> Verdict \union {Undecided}]
      /\ first \in [Code -> Verdict \union {Undecided}]
      /\ Lifetime \in Nat /\ Retention \in Nat
  BY DeviceAssumption DEF IInv, TypeOK
<1>n. /\ pc' \in [Op -> Label] /\ now' \in Nat
      /\ kept' \in [Code -> Nat] /\ expires' \in [Code -> Nat] /\ redeemed' \in [Code -> Nat]
      /\ decision' \in [Code -> Verdict \union {Undecided}]
      /\ first' \in [Code -> Verdict \union {Undecided}]
  BY DEF TypeOK
<1>1. /\ Others(o) /\ pc[o] = "decide" /\ pc'[o] = "unindex" /\ req' = req /\ req[o].code \in Code
      /\ ~Expired(req[o].code) /\ decision[req[o].code] = Undecided
      /\ decision'[req[o].code] = Given(o) /\ Given(o) \in Verdict
      /\ first'[req[o].code] = IF first[req[o].code] = Undecided THEN Given(o) ELSE first[req[o].code]
      /\ \A c \in Code : c # req[o].code => decision'[c] = decision[c] /\ first'[c] = first[c]
      /\ UNCHANGED <<now, kept, expires, redeemed, flushed>>
  BY <1>0 DEF Decide, IInv, TypeOK, Others, Goto, Coded, Past, throttle, MayDecide, Given, Verdict, Undecided
<1>2. Lasting'
  BY <1>0, <1>n, <1>1
     DEF IInv, Coded, Fresh, Bound, Taken, Waiting, Others, Past, Popping, Minting,
         Untouched, Undecided, Lasting
<1>3. Reading'
  BY <1>0, <1>n, <1>1
     DEF IInv, Coded, Fresh, Bound, Taken, Waiting, Others, Past, Popping, Minting,
         Untouched, Undecided, Reading, Undropped, Expired, Decided
<1>4. Undropped'
  BY <1>0, <1>n, <1>1
     DEF IInv, Coded, Fresh, Bound, Taken, Waiting, Others, Past, Popping, Minting,
         Untouched, Undecided, Undropped, Reading, Alive, Expired
<1>5. Answering'
  BY <1>0, <1>n, <1>1
     DEF IInv, Coded, Fresh, Bound, Taken, Waiting, Others, Past, Popping, Minting,
         Untouched, Undecided, Answering, Reading, Alive, Expired, Decided
<1>6. Awaited'
  BY <1>0, <1>n, <1>1
     DEF IInv, Coded, Fresh, Bound, Taken, Waiting, Others, Past, Popping, Minting,
         Untouched, Undecided, Awaited, Reading, Undropped, Answering, Lasting, Alive,
         Expired, Holder
<1> QED
  BY <1>2, <1>3, <1>4, <1>5, <1>6 DEF Waiting

(* An expired request is removed.                                          *)
LEMMA RemoveWaits ==
  ASSUME IInv, Waiting, TypeOK', NEW o \in Op, Remove(o) PROVE Waiting'
<1>0. /\ pc \in [Op -> Label] /\ req \in [Op -> Request] /\ now \in Nat
      /\ kept \in [Code -> Nat] /\ expires \in [Code -> Nat] /\ redeemed \in [Code -> Nat]
      /\ decision \in [Code -> Verdict \union {Undecided}]
      /\ first \in [Code -> Verdict \union {Undecided}]
      /\ Lifetime \in Nat /\ Retention \in Nat
  BY DeviceAssumption DEF IInv, TypeOK
<1>n. /\ pc' \in [Op -> Label] /\ now' \in Nat
      /\ kept' \in [Code -> Nat] /\ expires' \in [Code -> Nat] /\ redeemed' \in [Code -> Nat]
      /\ decision' \in [Code -> Verdict \union {Undecided}]
      /\ first' \in [Code -> Verdict \union {Undecided}]
  BY DEF TypeOK
<1>1. /\ Others(o) /\ pc[o] = "remove" /\ pc'[o] = "idle" /\ req[o].code \in Code
      /\ kept'[req[o].code] = 0 /\ decision'[req[o].code] = Undecided
      /\ \A c \in Code : c # req[o].code => kept'[c] = kept[c] /\ decision'[c] = decision[c]
      /\ UNCHANGED <<now, expires, first, redeemed, flushed>>
  BY <1>0 DEF Remove, IInv, TypeOK, Others, Finish, Goto, Coded, Past, throttle, told
<1>2. Lasting'
  BY <1>0, <1>n, <1>1
     DEF IInv, Coded, Fresh, Bound, Taken, Waiting, Others, Past, Popping, Minting,
         Untouched, Undecided, Lasting
<1>3. Reading'
  BY <1>0, <1>n, <1>1
     DEF IInv, Coded, Fresh, Bound, Taken, Waiting, Others, Past, Popping, Minting,
         Untouched, Undecided, Reading, Undropped, Expired, Decided
<1>4. Undropped'
  BY <1>0, <1>n, <1>1
     DEF IInv, Coded, Fresh, Bound, Taken, Waiting, Others, Past, Popping, Minting,
         Untouched, Undecided, Undropped, Reading, Alive, Expired
<1>5. Answering'
  BY <1>0, <1>n, <1>1
     DEF IInv, Coded, Fresh, Bound, Taken, Waiting, Others, Past, Popping, Minting,
         Untouched, Undecided, Answering, Reading, Alive, Expired, Decided
<1>6. Awaited'
  BY <1>0, <1>n, <1>1
     DEF IInv, Coded, Fresh, Bound, Taken, Waiting, Others, Past, Popping, Minting,
         Untouched, Undecided, Awaited, Reading, Undropped, Answering, Lasting, Alive,
         Expired, Holder
<1> QED
  BY <1>2, <1>3, <1>4, <1>5, <1>6 DEF Waiting

(* A poll that read a verdict goes on to take the request.                 *)
LEMMA TouchPollWaits ==
  ASSUME IInv, Waiting, TypeOK', NEW o \in Op, TouchPoll(o) PROVE Waiting'
<1>0. /\ pc \in [Op -> Label] /\ req \in [Op -> Request] /\ now \in Nat
      /\ kept \in [Code -> Nat] /\ expires \in [Code -> Nat] /\ redeemed \in [Code -> Nat]
      /\ decision \in [Code -> Verdict \union {Undecided}]
      /\ first \in [Code -> Verdict \union {Undecided}]
      /\ Lifetime \in Nat /\ Retention \in Nat
  BY DeviceAssumption DEF IInv, TypeOK
<1>n. /\ pc' \in [Op -> Label] /\ now' \in Nat
      /\ kept' \in [Code -> Nat] /\ expires' \in [Code -> Nat] /\ redeemed' \in [Code -> Nat]
      /\ decision' \in [Code -> Verdict \union {Undecided}]
      /\ first' \in [Code -> Verdict \union {Undecided}]
  BY DEF TypeOK
<1>1. /\ Others(o) /\ pc[o] = "touch" /\ req[o].code \in Code
      /\ pc'[o] = "idle" \/ (pc'[o] = "pop" /\ req'[o] = req[o] /\ req[o].seen # Undecided)
      /\ UNCHANGED <<now, kept, expires, decision, first, redeemed, flushed>>
  BY <1>0 DEF TouchPoll, IInv, TypeOK, Others, Finish, Goto, Coded, Past, throttle, told
<1>2. Lasting'
  BY <1>0, <1>n, <1>1
     DEF IInv, Coded, Fresh, Bound, Taken, Waiting, Others, Past, Popping, Minting,
         Untouched, Undecided, Lasting
<1>3. Reading'
  BY <1>0, <1>n, <1>1
     DEF IInv, Coded, Fresh, Bound, Taken, Waiting, Others, Past, Popping, Minting,
         Untouched, Undecided, Reading, Undropped, Expired, Decided
<1>4. Undropped'
  BY <1>0, <1>n, <1>1
     DEF IInv, Coded, Fresh, Bound, Taken, Waiting, Others, Past, Popping, Minting,
         Untouched, Undecided, Undropped, Reading, Alive, Expired
<1>5. Answering'
  BY <1>0, <1>n, <1>1
     DEF IInv, Coded, Fresh, Bound, Taken, Waiting, Others, Past, Popping, Minting,
         Untouched, Undecided, Answering, Reading, Alive, Expired, Decided
<1>6. Awaited'
  BY <1>0, <1>n, <1>1
     DEF IInv, Coded, Fresh, Bound, Taken, Waiting, Others, Past, Popping, Minting,
         Untouched, Undecided, Awaited, Reading, Undropped, Answering, Lasting, Alive,
         Expired, Holder
<1> QED
  BY <1>2, <1>3, <1>4, <1>5, <1>6 DEF Waiting

(* The request is taken, by one poll.                                      *)
LEMMA PopRequestWaits ==
  ASSUME IInv, Waiting, TypeOK', NEW o \in Op, PopRequest(o) PROVE Waiting'
<1>0. /\ pc \in [Op -> Label] /\ req \in [Op -> Request] /\ now \in Nat
      /\ kept \in [Code -> Nat] /\ expires \in [Code -> Nat] /\ redeemed \in [Code -> Nat]
      /\ decision \in [Code -> Verdict \union {Undecided}]
      /\ first \in [Code -> Verdict \union {Undecided}]
      /\ Lifetime \in Nat /\ Retention \in Nat
  BY DeviceAssumption DEF IInv, TypeOK
<1>n. /\ pc' \in [Op -> Label] /\ now' \in Nat
      /\ kept' \in [Code -> Nat] /\ expires' \in [Code -> Nat] /\ redeemed' \in [Code -> Nat]
      /\ decision' \in [Code -> Verdict \union {Undecided}]
      /\ first' \in [Code -> Verdict \union {Undecided}]
  BY DEF TypeOK
<1>1. /\ Others(o) /\ pc[o] = "pop" /\ req[o].code \in Code
      /\ \/ pc'[o] = "idle" /\ kept[req[o].code] <= now
         \/ pc'[o] = "popDecision" /\ req'[o] = req[o] /\ kept[req[o].code] # 0
      /\ kept'[req[o].code] = 0
      /\ \A c \in Code : c # req[o].code => kept'[c] = kept[c]
      /\ UNCHANGED <<now, expires, decision, first, redeemed, flushed>>
  BY <1>0 DEF PopRequest, IInv, TypeOK, Others, Finish, Goto, Coded, Past, throttle, told, Stored
<1>2. Lasting'
  BY <1>0, <1>n, <1>1
     DEF IInv, Coded, Fresh, Bound, Taken, Waiting, Others, Past, Popping, Minting,
         Untouched, Undecided, Lasting
<1>3. Reading'
  BY <1>0, <1>n, <1>1
     DEF IInv, Coded, Fresh, Bound, Taken, Waiting, Others, Past, Popping, Minting,
         Untouched, Undecided, Reading, Undropped, Expired, Decided
<1>4. Undropped'
  BY <1>0, <1>n, <1>1
     DEF IInv, Coded, Fresh, Bound, Taken, Waiting, Others, Past, Popping, Minting,
         Untouched, Undecided, Undropped, Reading, Alive, Expired
<1>5. Answering'
  BY <1>0, <1>n, <1>1
     DEF IInv, Coded, Fresh, Bound, Taken, Waiting, Others, Past, Popping, Minting,
         Untouched, Undecided, Answering, Reading, Alive, Expired, Decided
<1>6. Awaited'
  BY <1>0, <1>n, <1>1
     DEF IInv, Coded, Fresh, Bound, Taken, Waiting, Others, Past, Popping, Minting,
         Untouched, Undecided, Awaited, Reading, Undropped, Answering, Lasting, Alive,
         Expired, Holder
<1> QED
  BY <1>2, <1>3, <1>4, <1>5, <1>6 DEF Waiting

(* The decision is taken with it.                                          *)
LEMMA PopDecisionWaits ==
  ASSUME IInv, Waiting, TypeOK', NEW o \in Op, PopDecision(o) PROVE Waiting'
<1>0. /\ pc \in [Op -> Label] /\ req \in [Op -> Request] /\ now \in Nat
      /\ kept \in [Code -> Nat] /\ expires \in [Code -> Nat] /\ redeemed \in [Code -> Nat]
      /\ decision \in [Code -> Verdict \union {Undecided}]
      /\ first \in [Code -> Verdict \union {Undecided}]
      /\ Lifetime \in Nat /\ Retention \in Nat
  BY DeviceAssumption DEF IInv, TypeOK
<1>n. /\ pc' \in [Op -> Label] /\ now' \in Nat
      /\ kept' \in [Code -> Nat] /\ expires' \in [Code -> Nat] /\ redeemed' \in [Code -> Nat]
      /\ decision' \in [Code -> Verdict \union {Undecided}]
      /\ first' \in [Code -> Verdict \union {Undecided}]
  BY DEF TypeOK
<1>1. /\ Others(o) /\ pc[o] = "popDecision" /\ pc'[o] = "dropPoll" /\ req[o].code \in Code
      /\ req'[o].code = req[o].code /\ req'[o].kind = req[o].kind
      /\ req'[o].seen = IF req[o].seen = "approved" THEN Decided(req[o].code) ELSE req[o].seen
      /\ decision'[req[o].code] = Undecided
      /\ \A c \in Code : c # req[o].code => decision'[c] = decision[c]
      /\ UNCHANGED <<now, kept, expires, first, redeemed, flushed>>
  BY <1>0 DEF PopDecision, IInv, TypeOK, Others, Goto, Coded, Past, Request, throttle, told
<1>2. Lasting'
  BY <1>0, <1>n, <1>1
     DEF IInv, Coded, Fresh, Bound, Taken, Waiting, Others, Past, Popping, Minting,
         Untouched, Undecided, Lasting
<1>3. Reading'
  BY <1>0, <1>n, <1>1
     DEF IInv, Coded, Fresh, Bound, Taken, Waiting, Others, Past, Popping, Minting,
         Untouched, Undecided, Reading, Undropped, Expired, Decided
<1>4. Undropped'
  BY <1>0, <1>n, <1>1
     DEF IInv, Coded, Fresh, Bound, Taken, Waiting, Others, Past, Popping, Minting,
         Untouched, Undecided, Undropped, Reading, Alive, Expired
<1>5. Answering'
  BY <1>0, <1>n, <1>1
     DEF IInv, Coded, Fresh, Bound, Taken, Waiting, Others, Past, Popping, Minting,
         Untouched, Undecided, Answering, Reading, Alive, Expired, Decided
<1>6. Awaited'
  BY <1>0, <1>n, <1>1
     DEF IInv, Coded, Fresh, Bound, Taken, Waiting, Others, Past, Popping, Minting,
         Untouched, Undecided, Awaited, Reading, Undropped, Answering, Lasting, Alive,
         Expired, Holder
<1> QED
  BY <1>2, <1>3, <1>4, <1>5, <1>6 DEF Waiting

(* An approved request is answered with tokens.                            *)
LEMMA DropPollWaits ==
  ASSUME IInv, Waiting, TypeOK', NEW o \in Op, DropPoll(o) PROVE Waiting'
<1>0. /\ pc \in [Op -> Label] /\ req \in [Op -> Request] /\ now \in Nat
      /\ kept \in [Code -> Nat] /\ expires \in [Code -> Nat] /\ redeemed \in [Code -> Nat]
      /\ decision \in [Code -> Verdict \union {Undecided}]
      /\ first \in [Code -> Verdict \union {Undecided}]
      /\ Lifetime \in Nat /\ Retention \in Nat
  BY DeviceAssumption DEF IInv, TypeOK
<1>n. /\ pc' \in [Op -> Label] /\ now' \in Nat
      /\ kept' \in [Code -> Nat] /\ expires' \in [Code -> Nat] /\ redeemed' \in [Code -> Nat]
      /\ decision' \in [Code -> Verdict \union {Undecided}]
      /\ first' \in [Code -> Verdict \union {Undecided}]
  BY DEF TypeOK
<1>1. /\ Others(o) /\ pc[o] = "dropPoll" /\ pc'[o] = "idle" /\ req[o].code \in Code
      /\ redeemed'[req[o].code] = IF req[o].seen = "approved" THEN redeemed[req[o].code] + 1
                                   ELSE redeemed[req[o].code]
      /\ \A c \in Code : c # req[o].code => redeemed'[c] = redeemed[c]
      /\ UNCHANGED <<now, kept, expires, decision, first, flushed>>
  BY <1>0 DEF DropPoll, IInv, TypeOK, Others, Finish, Goto, Coded, Past, throttle, told
<1>2. Lasting'
  BY <1>0, <1>n, <1>1
     DEF IInv, Coded, Fresh, Bound, Taken, Waiting, Others, Past, Popping, Minting,
         Untouched, Undecided, Lasting
<1>3. Reading'
  BY <1>0, <1>n, <1>1
     DEF IInv, Coded, Fresh, Bound, Taken, Waiting, Others, Past, Popping, Minting,
         Untouched, Undecided, Reading, Undropped, Expired, Decided
<1>4. Undropped'
  BY <1>0, <1>n, <1>1
     DEF IInv, Coded, Fresh, Bound, Taken, Waiting, Others, Past, Popping, Minting,
         Untouched, Undecided, Undropped, Reading, Alive, Expired
<1>5. Answering'
  BY <1>0, <1>n, <1>1
     DEF IInv, Coded, Fresh, Bound, Taken, Waiting, Others, Past, Popping, Minting,
         Untouched, Undecided, Answering, Reading, Alive, Expired, Decided
<1>6. Awaited'
  BY <1>0, <1>n, <1>1
     DEF IInv, Coded, Fresh, Bound, Taken, Waiting, Others, Past, Popping, Minting,
         Untouched, Undecided, Awaited, Reading, Undropped, Answering, Lasting, Alive,
         Expired, Holder
<1> QED
  BY <1>2, <1>3, <1>4, <1>5, <1>6 DEF Waiting

(* The cache is lost, the clock moves, or nothing happens.                 *)
LEMMA IdleWaits ==
  ASSUME IInv, Waiting, TypeOK', CacheLoss \/ Tick \/ UNCHANGED vars PROVE Waiting'
<1>0. /\ pc \in [Op -> Label] /\ req \in [Op -> Request] /\ now \in Nat
      /\ kept \in [Code -> Nat] /\ expires \in [Code -> Nat] /\ redeemed \in [Code -> Nat]
      /\ decision \in [Code -> Verdict \union {Undecided}]
      /\ first \in [Code -> Verdict \union {Undecided}]
      /\ Lifetime \in Nat /\ Retention \in Nat
  BY DeviceAssumption DEF IInv, TypeOK
<1>n. /\ pc' \in [Op -> Label] /\ now' \in Nat
      /\ kept' \in [Code -> Nat] /\ expires' \in [Code -> Nat] /\ redeemed' \in [Code -> Nat]
      /\ decision' \in [Code -> Verdict \union {Undecided}]
      /\ first' \in [Code -> Verdict \union {Undecided}]
  BY DEF TypeOK
<1>1. CASE CacheLoss
  <2>1. /\ flushed' /\ UNCHANGED <<now, expires, first, redeemed, pc, req>>
        /\ \A c \in Code : kept'[c] = 0 /\ decision'[c] = Undecided
    BY <1>1 DEF CacheLoss, told
  <2> QED
    BY <1>0, <2>1 DEF IInv, Coded, Waiting, Lasting, Reading, Undropped, Answering, Awaited, Alive,
                      Expired, Past, Popping
<1>2. CASE Tick \/ UNCHANGED vars
  <2>1. /\ now <= now' /\ UNCHANGED <<kept, expires, decision, first, redeemed, flushed, pc, req>>
    BY <1>0, <1>2 DEF Tick, vars, store, told, throttle
  <2>2. \A c \in Code : Alive(c)' => Alive(c)
    BY <1>0, <1>n, <2>1 DEF Alive, Expired
  <2>3. \A c \in Code : Expired(c) => Expired(c)'
    BY <1>0, <1>n, <2>1 DEF Expired
  <2>4. Lasting'
    BY <1>0, <1>n, <2>1 DEF Waiting, Lasting
  <2>5. Reading'
    BY <1>0, <2>1, <2>3 DEF IInv, Coded, Past, Waiting, Reading
  <2>6. Undropped'
    BY <2>1, <2>2 DEF IInv, Coded, Past, Waiting, Undropped
  <2>7. Answering'
    BY <2>1, <2>2 DEF IInv, Coded, Past, Waiting, Answering
  <2>8. Awaited'
    BY <2>1, <2>2 DEF Waiting, Awaited, Holder
  <2> QED
    BY <2>4, <2>5, <2>6, <2>7, <2>8 DEF Waiting
<1> QED
  BY <1>1, <1>2

LEMMA WaitingStep == ASSUME IInv, Waiting, TypeOK', [Next]_vars PROVE Waiting'
<1> USE AddIndexWaits, StoreWaits, FindRequestWaits, FindDecisionWaits, JudgePassWaits, DecideWaits,
     RemoveWaits, TouchPollWaits, PopRequestWaits, PopDecisionWaits, DropPollWaits, IdleWaits
<1>0. TypeOK
  BY DEF IInv
<1>1. ASSUME NEW o \in Op,
             \/ \E c \in Code : Poll(o, c) \/ \E u \in UserCode : Issue(o, c, u)
             \/ \E u \in UserCode : Redraw(o, u) \/ \E k \in Kinds : Enter(o, k, u)
      PROVE  Waiting'
  BY <1>0, <1>1, CalmCalls, CalmKeeps
<1>2. ASSUME NEW o \in Op, Step(o) \/ Fail(o) PROVE Waiting'
  BY <1>0, <1>2, CalmCalls, CalmKeeps DEF Step
<1> QED
  BY <1>1, <1>2 DEF Next

(* An approval waits for the device until the request expires, lost only   *)
(* to a poll that failed half way and to a cache loss.                     *)
THEOREM ApprovalWaits == Spec => []ApprovalKept
<1>1. Init => Waiting
  BY DeviceAssumption
     DEF Init, Waiting, Lasting, Reading, Undropped, Answering, Awaited, Popping, Undecided
<1>2. IInv /\ Waiting /\ IInv' /\ [Next]_vars => Waiting'
  BY WaitingStep DEF IInv
<1>3. ASSUME IInv, Waiting, NEW c \in Code,
             first[c] = "approved", redeemed[c] = 0, ~Expired(c), ~flushed
      PROVE  \/ Stored(c) /\ decision[c] = "approved"
             \/ \E p \in Op : Holder(c, p)
  <2>1. CASE kept[c] # 0
    <3>1. decision[c] = "approved"
      BY <1>3, <2>1 DEF IInv, Bound
    <3>2. Stored(c)
      BY <1>3, <2>1 DEF IInv, TypeOK, Waiting, Lasting, Stored, Expired
    <3> QED
      BY <3>1, <3>2
  <2>2. CASE kept[c] = 0
    BY <1>3, <2>2 DEF Waiting, Awaited, Alive
  <2> QED
    BY <2>1, <2>2
<1>4. IInv /\ Waiting => ApprovalKept
  BY <1>3 DEF ApprovalKept, Holder, Popping
<1> QED
  BY <1>1, <1>2, <1>4, Inductive, PTL DEF Spec

=============================================================================
