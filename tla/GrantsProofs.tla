---------------------------- MODULE GrantsProofs ----------------------------
(***************************************************************************)
(* Proofs about the credentials that pay out once, for any number of       *)
(* codes, tickets, sets and requests: the inductive invariants of FactorUse*)
(* and MfaTicket, the refinement of Voucher by the ticket, and every       *)
(* property of MCGrants for the composition of the four parts.             *)
(***************************************************************************)
EXTENDS MCGrants, DeviceGrantProofs

-----------------------------------------------------------------------------
(* The recovery code.                                                      *)

(* A verification holds a copy of the row, and has marked its code in it.  *)
Copying == {"match", "renew", "hook", "renewAgain", "save"}
Marked == {"renew", "hook", "renewAgain", "save"}

(* A lease is held by a request between its lock and its release; a code   *)
(* it marked is of the set it copied, and of a set that was enrolled.      *)
Leased ==
    /\ \A o \in owned : usePc[o] \notin {"idle", "lock"}
    /\ \A o \in Op : use[o].set <= sets /\ use[o].copy.set <= sets
    /\ \A o \in Op : usePc[o] # "idle" => use[o].set \in Uses!Set
    /\ \A o \in Op : usePc[o] \in Marked =>
          use[o].copy.set = use[o].set /\ use[o].code \in use[o].copy.used
    /\ \A c \in Uses!Set \X RecoveryCode : accepted[c] # 0 => c[1] <= sets

(* What a copy shows as used was stamped, but for the code just marked.    *)
Stamped ==
    \A o \in Op, k \in RecoveryCode :
        usePc[o] \in Copying /\ k \in use[o].copy.used =>
            \/ <<use[o].copy.set, k>> \in proofs
            \/ usePc[o] \in {"renew", "hook"} /\ k = use[o].code

(* Saved and about to be answered; saved, answered or not.                 *)
Unanswered(c) == \E o \in Op : usePc[o] = "reset" /\ <<use[o].set, use[o].code>> = c
Burnt(c) == accepted[c] # 0 \/ Unanswered(c)

(* A code that was saved as used is used wherever its set is: in the row   *)
(* and in the copy of whoever holds the lease, who presents another one.   *)
BurntEverywhere ==
    \A c \in Uses!Set \X RecoveryCode : Burnt(c) =>
        /\ recovery.set = c[1] => c[2] \in recovery.used
        /\ \A o \in owned : usePc[o] \in Copying /\ use[o].copy.set = c[1] =>
              c[2] \in use[o].copy.used /\ (usePc[o] \in Marked => use[o].code # c[2])

AnsweredOnceEach ==
    /\ \A c \in Uses!Set \X RecoveryCode :
          accepted[c] <= 1 /\ (Unanswered(c) => accepted[c] = 0)
    /\ \A o, p \in Op :
          /\ usePc[o] = "reset" /\ usePc[p] = "reset"
          /\ use[o].set = use[p].set /\ use[o].code = use[p].code
          => o = p

UseInv ==
    /\ Uses!TypeOK /\ Uses!OneHolder /\ Leased /\ Stamped /\ Uses!UsedOnlyWithProof
    /\ slipped \/ (BurntEverywhere /\ AnsweredOnceEach)

LEMMA NoUse ==
  /\ Uses!NoRow \in Uses!Row /\ Uses!NoRow.set = 0 /\ Uses!NoRow.used = {}
  /\ Uses!NoRequest \in [set : 0 .. MaxSet, code : RecoveryCode, copy : Uses!Row]
  /\ Uses!NoRequest.set = 0 /\ Uses!NoRequest.copy = Uses!NoRow
BY UsesTyped DEF Uses!UseAssumption, Uses!NoRow, Uses!Row, Uses!NoRequest, Uses!NoSet

LEMMA UseInit == ASSUME Uses!Init PROVE UseInv
<1>1. Uses!TypeOK
  <2>1. MaxSet \in Nat /\ recovery \in Uses!Row /\ recovery.set = 0
    BY NoUse, UsesTyped DEF Uses!Init, Uses!UseAssumption
  <2>2. use \in [Op -> [set : 0 .. MaxSet, code : RecoveryCode, copy : Uses!Row]]
    BY NoUse DEF Uses!Init
  <2>3. accepted \in [Uses!Set \X RecoveryCode -> Nat]
    BY DEF Uses!Init
  <2>4. sets = 0 /\ recovery.set <= sets /\ sets \in 0 .. MaxSet /\ retired \subseteq 1 .. sets
    BY <2>1 DEF Uses!Init
  <2>5. /\ armed \in BOOLEAN /\ slipped \in BOOLEAN /\ owned \subseteq Op
        /\ lock \in Op \union {Uses!Free}
        /\ usePc \in [Op -> {"idle", "lock", "read", "match", "renew", "hook",
                            "renewAgain", "save", "reset", "release"}]
        /\ proofs \subseteq Uses!Set \X RecoveryCode
    BY DEF Uses!Init
  <2> QED
    BY <2>1, <2>2, <2>3, <2>4, <2>5 DEF Uses!TypeOK
<1>2. Uses!OneHolder /\ Leased /\ Stamped /\ Uses!UsedOnlyWithProof
  BY NoUse, UsesTyped DEF Uses!Init, Uses!UseAssumption, Uses!OneHolder, Leased, Stamped, Copying, Marked,
     Uses!UsedOnlyWithProof, Uses!Set
<1>3. BurntEverywhere /\ AnsweredOnceEach
  BY NoUse, UsesTyped DEF Uses!Init, BurntEverywhere, AnsweredOnceEach, Burnt, Unanswered
<1> QED
  BY <1>1, <1>2, <1>3 DEF UseInv

LEMMA ResetTyped ==
  ASSUME UseInv, NEW o \in Op, Uses!Reset(o)
  PROVE  Uses!TypeOK'
<1>1. <<use[o].set, use[o].code>> \in Uses!Set \X RecoveryCode
  BY DEF UseInv, Uses!TypeOK, Leased, Uses!Reset
<1>2. accepted' \in [Uses!Set \X RecoveryCode -> Nat]
  BY <1>1 DEF UseInv, Uses!TypeOK, Uses!Reset
<1> QED
  BY <1>2 DEF UseInv, Uses!TypeOK, Uses!Reset, Uses!Goto

LEMMA PresentTyped ==
  ASSUME UseInv, NEW o \in Op, NEW n \in Uses!Set, NEW k \in RecoveryCode, Uses!Present(o, n, k)
  PROVE  Uses!TypeOK'
<1> DEFINE r == [Uses!NoRequest EXCEPT !.set = n]
           R == [set : 0 .. MaxSet, code : RecoveryCode, copy : Uses!Row]
<1>1. r \in R
  BY NoUse DEF Uses!Set
<1>2. [r EXCEPT !.code = k] \in R
  <2> HIDE DEF r
  <2> QED
    BY <1>1
<1>3. [Uses!NoRequest EXCEPT !.set = n, !.code = k] \in R
  BY <1>2
<1> QED
  BY <1>3 DEF UseInv, Uses!TypeOK, Uses!Present, Uses!Goto, Uses!ghosts

(* Every step keeps the types; an action to a step of the proof, as below  *)
(* for the lease, the stamp and the answers.                               *)
LEMMA UseTyped ==
  ASSUME UseInv, Uses!Next
  PROVE  Uses!TypeOK'
<1> USE NoUse, UsesTyped DEF UseInv, Uses!TypeOK, Uses!Row, Leased, Uses!Goto,
      Uses!ghosts, Uses!Unlock, Uses!Set, Uses!UseAssumption
<1>1. ASSUME NEW o \in Op, NEW n \in Uses!Set, NEW k \in RecoveryCode, Uses!Present(o, n, k)
      PROVE  Uses!TypeOK'
  BY <1>1, PresentTyped
<1>2. ASSUME NEW o \in Op, Uses!Acquire(o)
      PROVE  Uses!TypeOK'
  BY <1>2 DEF Uses!Acquire
<1>3. ASSUME NEW o \in Op, Uses!Busy(o)
      PROVE  Uses!TypeOK'
  BY <1>3 DEF Uses!Busy
<1>4. ASSUME NEW o \in Op, Uses!Read(o)
      PROVE  Uses!TypeOK'
  BY <1>4 DEF Uses!Read
<1>5. ASSUME NEW o \in Op, Uses!Match(o)
      PROVE  Uses!TypeOK'
  BY <1>5 DEF Uses!Match
<1>6. ASSUME NEW o \in Op, Uses!Mismatch(o)
      PROVE  Uses!TypeOK'
  BY <1>6 DEF Uses!Mismatch
<1>7. ASSUME NEW o \in Op, Uses!Renew(o)
      PROVE  Uses!TypeOK'
  BY <1>7 DEF Uses!Renew, Uses!After
<1>8. ASSUME NEW o \in Op, Uses!LeaseLost(o)
      PROVE  Uses!TypeOK'
  BY <1>8 DEF Uses!LeaseLost
<1>9. ASSUME NEW o \in Op, Uses!Hook(o)
      PROVE  Uses!TypeOK'
  BY <1>9 DEF Uses!Hook
<1>10. ASSUME NEW o \in Op, Uses!Save(o)
      PROVE  Uses!TypeOK'
  BY <1>10 DEF Uses!Save
<1>11. ASSUME NEW o \in Op, Uses!Reset(o)
      PROVE  Uses!TypeOK'
  BY <1>11, ResetTyped
<1>12. ASSUME NEW o \in Op, Uses!Release(o)
      PROVE  Uses!TypeOK'
  BY <1>12 DEF Uses!Release
<1>13. ASSUME NEW o \in Op, Uses!Reject(o)
      PROVE  Uses!TypeOK'
  BY <1>13 DEF Uses!Reject
<1>14. ASSUME NEW o \in Op, Uses!Crash(o)
      PROVE  Uses!TypeOK'
  BY <1>14 DEF Uses!Crash
<1>15. ASSUME NEW o \in Op, Uses!RenewalFails(o)
      PROVE  Uses!TypeOK'
  BY <1>15 DEF Uses!RenewalFails
<1>16. CASE Uses!Enroll
  BY <1>16 DEF Uses!Enroll
<1>17. CASE Uses!Delete
  BY <1>17 DEF Uses!Delete
<1>18. CASE Uses!LockLapses
  BY <1>18 DEF Uses!LockLapses
<1>19. CASE Uses!ThrottleLapses
  BY <1>19 DEF Uses!ThrottleLapses
<1> QED
  BY <1>1, <1>2, <1>3, <1>4, <1>5, <1>6, <1>7, <1>8, <1>9, <1>10, <1>11,
     <1>12, <1>13, <1>14, <1>15, <1>16, <1>17, <1>18, <1>19 DEF Uses!Next

LEMMA EnrollLeased ==
  ASSUME UseInv, Uses!Enroll
  PROVE  Uses!OneHolder' /\ Leased'
<1>1. sets \in Nat /\ sets' = sets + 1 /\ UNCHANGED <<lock, owned, usePc, use, accepted>>
  BY DEF UseInv, Uses!TypeOK, Uses!Enroll, Uses!UseAssumption, Uses!ghosts
<1>2. \A o \in Op : use[o].set <= sets' /\ use[o].copy.set <= sets'
  BY <1>1 DEF UseInv, Uses!TypeOK, Uses!Row, Leased, Uses!UseAssumption
<1>3. \A c \in Uses!Set \X RecoveryCode : accepted[c] # 0 => c[1] <= sets'
  <2>1. \A c \in Uses!Set \X RecoveryCode : c[1] \in Nat
    BY DEF Uses!Set, Uses!UseAssumption
  <2> QED
    BY <1>1, <2>1 DEF UseInv, Leased
<1> QED
  BY <1>1, <1>2, <1>3 DEF UseInv, Leased, Uses!OneHolder

(* Only the owner of the lock believes in its lease.                       *)
LEMMA UseLeased ==
  ASSUME UseInv, Uses!Next
  PROVE  Uses!OneHolder' /\ Leased'
<1> USE NoUse, UsesTyped DEF UseInv, Uses!TypeOK, Uses!OneHolder,
      Uses!UseAssumption, Leased, Marked, Uses!Goto, Uses!ghosts, Uses!Holds,
      Uses!After, Uses!Unlock, Uses!Set
<1>1. ASSUME NEW o \in Op, NEW n \in Uses!Set, NEW k \in RecoveryCode, Uses!Present(o, n, k)
      PROVE  Uses!OneHolder' /\ Leased'
  BY <1>1 DEF Uses!Present
<1>2. ASSUME NEW o \in Op, Uses!Acquire(o)
      PROVE  Uses!OneHolder' /\ Leased'
  BY <1>2 DEF Uses!Acquire
<1>3. ASSUME NEW o \in Op, Uses!Busy(o)
      PROVE  Uses!OneHolder' /\ Leased'
  BY <1>3 DEF Uses!Busy
<1>4. ASSUME NEW o \in Op, Uses!Read(o)
      PROVE  Uses!OneHolder' /\ Leased'
  BY <1>4 DEF Uses!Read
<1>5. ASSUME NEW o \in Op, Uses!Match(o)
      PROVE  Uses!OneHolder' /\ Leased'
  BY <1>5 DEF Uses!Match
<1>6. ASSUME NEW o \in Op, Uses!Mismatch(o)
      PROVE  Uses!OneHolder' /\ Leased'
  BY <1>6 DEF Uses!Mismatch
<1>7. ASSUME NEW o \in Op, Uses!Renew(o)
      PROVE  Uses!OneHolder' /\ Leased'
  BY <1>7 DEF Uses!Renew
<1>8. ASSUME NEW o \in Op, Uses!LeaseLost(o)
      PROVE  Uses!OneHolder' /\ Leased'
  BY <1>8 DEF Uses!LeaseLost
<1>9. ASSUME NEW o \in Op, Uses!Hook(o)
      PROVE  Uses!OneHolder' /\ Leased'
  BY <1>9 DEF Uses!Hook
<1>10. ASSUME NEW o \in Op, Uses!Save(o)
      PROVE  Uses!OneHolder' /\ Leased'
  BY <1>10 DEF Uses!Save
<1>11. ASSUME NEW o \in Op, Uses!Reset(o)
      PROVE  Uses!OneHolder' /\ Leased'
  BY <1>11 DEF Uses!Reset
<1>12. ASSUME NEW o \in Op, Uses!Release(o)
      PROVE  Uses!OneHolder' /\ Leased'
  BY <1>12 DEF Uses!Release
<1>13. ASSUME NEW o \in Op, Uses!Reject(o)
      PROVE  Uses!OneHolder' /\ Leased'
  BY <1>13 DEF Uses!Reject
<1>14. ASSUME NEW o \in Op, Uses!Crash(o)
      PROVE  Uses!OneHolder' /\ Leased'
  BY <1>14 DEF Uses!Crash
<1>15. ASSUME NEW o \in Op, Uses!RenewalFails(o)
      PROVE  Uses!OneHolder' /\ Leased'
  BY <1>15 DEF Uses!RenewalFails
<1>16. CASE Uses!Enroll
  BY <1>16, EnrollLeased
<1>17. CASE Uses!Delete
  BY <1>17 DEF Uses!Delete
<1>18. CASE Uses!LockLapses
  BY <1>18 DEF Uses!LockLapses
<1>19. CASE Uses!ThrottleLapses
  BY <1>19 DEF Uses!ThrottleLapses
<1> QED
  BY <1>1, <1>2, <1>3, <1>4, <1>5, <1>6, <1>7, <1>8, <1>9, <1>10, <1>11,
     <1>12, <1>13, <1>14, <1>15, <1>16, <1>17, <1>18, <1>19 DEF Uses!Next

LEMMA SaveStamped ==
  ASSUME UseInv, NEW o \in Op, Uses!Save(o)
  PROVE  Stamped' /\ Uses!UsedOnlyWithProof'
<1>1. /\ usePc[o] = "save" /\ recovery' = use[o].copy
      /\ usePc' = [usePc EXCEPT ![o] = "reset"] /\ UNCHANGED <<use, proofs>>
  BY DEF Uses!Save, Uses!Goto
<1>2. \A k \in RecoveryCode : k \in use[o].copy.used => <<use[o].copy.set, k>> \in proofs
  BY <1>1 DEF UseInv, Stamped, Copying
<1>3. use[o].copy.used \subseteq RecoveryCode
  BY DEF UseInv, Uses!TypeOK, Uses!Row
<1> QED
  BY <1>1, <1>2, <1>3 DEF UseInv, Uses!TypeOK, Stamped, Uses!UsedOnlyWithProof, Copying

(* A code is used up in the row for a stamped session only.                *)
LEMMA UseStamped ==
  ASSUME UseInv, Uses!Next
  PROVE  Stamped' /\ Uses!UsedOnlyWithProof'
<1> USE NoUse, UsesTyped DEF UseInv, Uses!TypeOK, Stamped,
      Uses!UsedOnlyWithProof, Leased, Copying, Marked, Uses!Goto, Uses!ghosts,
      Uses!After, Uses!Set
<1>1. ASSUME NEW o \in Op, NEW n \in Uses!Set, NEW k \in RecoveryCode, Uses!Present(o, n, k)
      PROVE  Stamped' /\ Uses!UsedOnlyWithProof'
  BY <1>1 DEF Uses!Present
<1>2. ASSUME NEW o \in Op, Uses!Acquire(o)
      PROVE  Stamped' /\ Uses!UsedOnlyWithProof'
  BY <1>2 DEF Uses!Acquire
<1>3. ASSUME NEW o \in Op, Uses!Busy(o)
      PROVE  Stamped' /\ Uses!UsedOnlyWithProof'
  BY <1>3 DEF Uses!Busy
<1>4. ASSUME NEW o \in Op, Uses!Read(o)
      PROVE  Stamped' /\ Uses!UsedOnlyWithProof'
  BY <1>4 DEF Uses!Read
<1>5. ASSUME NEW o \in Op, Uses!Match(o)
      PROVE  Stamped' /\ Uses!UsedOnlyWithProof'
  BY <1>5 DEF Uses!Match
<1>6. ASSUME NEW o \in Op, Uses!Mismatch(o)
      PROVE  Stamped' /\ Uses!UsedOnlyWithProof'
  BY <1>6 DEF Uses!Mismatch
<1>7. ASSUME NEW o \in Op, Uses!Renew(o)
      PROVE  Stamped' /\ Uses!UsedOnlyWithProof'
  BY <1>7 DEF Uses!Renew
<1>8. ASSUME NEW o \in Op, Uses!LeaseLost(o)
      PROVE  Stamped' /\ Uses!UsedOnlyWithProof'
  BY <1>8 DEF Uses!LeaseLost
<1>9. ASSUME NEW o \in Op, Uses!Hook(o)
      PROVE  Stamped' /\ Uses!UsedOnlyWithProof'
  BY <1>9 DEF Uses!Hook
<1>10. ASSUME NEW o \in Op, Uses!Save(o)
      PROVE  Stamped' /\ Uses!UsedOnlyWithProof'
  BY <1>10, SaveStamped
<1>11. ASSUME NEW o \in Op, Uses!Reset(o)
      PROVE  Stamped' /\ Uses!UsedOnlyWithProof'
  BY <1>11 DEF Uses!Reset
<1>12. ASSUME NEW o \in Op, Uses!Release(o)
      PROVE  Stamped' /\ Uses!UsedOnlyWithProof'
  BY <1>12 DEF Uses!Release
<1>13. ASSUME NEW o \in Op, Uses!Reject(o)
      PROVE  Stamped' /\ Uses!UsedOnlyWithProof'
  BY <1>13 DEF Uses!Reject
<1>14. ASSUME NEW o \in Op, Uses!Crash(o)
      PROVE  Stamped' /\ Uses!UsedOnlyWithProof'
  BY <1>14 DEF Uses!Crash
<1>15. ASSUME NEW o \in Op, Uses!RenewalFails(o)
      PROVE  Stamped' /\ Uses!UsedOnlyWithProof'
  BY <1>15 DEF Uses!RenewalFails
<1>16. CASE Uses!Enroll
  BY <1>16 DEF Uses!Enroll
<1>17. CASE Uses!Delete
  BY <1>17 DEF Uses!Delete
<1>18. CASE Uses!LockLapses
  BY <1>18 DEF Uses!LockLapses
<1>19. CASE Uses!ThrottleLapses
  BY <1>19 DEF Uses!ThrottleLapses
<1> QED
  BY <1>1, <1>2, <1>3, <1>4, <1>5, <1>6, <1>7, <1>8, <1>9, <1>10, <1>11,
     <1>12, <1>13, <1>14, <1>15, <1>16, <1>17, <1>18, <1>19 DEF Uses!Next

LEMMA SaveBurnt ==
  ASSUME UseInv, NEW o \in Op, Uses!Save(o)
  PROVE  ~slipped' => BurntEverywhere' /\ AnsweredOnceEach'
<1> SUFFICES ASSUME ~slipped, o \in owned PROVE BurntEverywhere' /\ AnsweredOnceEach'
  BY DEF Uses!Save
<1> DEFINE c == <<use[o].set, use[o].code>>
<1>1. /\ usePc[o] = "save" /\ recovery' = use[o].copy
      /\ usePc' = [usePc EXCEPT ![o] = "reset"]
      /\ UNCHANGED <<use, owned, accepted, lock>>
  BY DEF Uses!Save, Uses!Goto
<1>2. /\ c \in Uses!Set \X RecoveryCode
      /\ use[o].copy.set = use[o].set /\ use[o].code \in use[o].copy.used
  BY <1>1 DEF UseInv, Uses!TypeOK, Leased, Marked
<1>3. \A p \in owned : p = o
  BY DEF UseInv, Uses!OneHolder
<1>4. ~Burnt(c)
  <2>1. BurntEverywhere
    BY DEF UseInv
  <2> QED
    BY <1>1, <1>2, <2>1 DEF BurntEverywhere, Copying, Marked
<1>5. \A d : Unanswered(d)' => Unanswered(d) \/ d = c
  BY <1>1 DEF UseInv, Uses!TypeOK, Unanswered
<1>6. \A d \in Uses!Set \X RecoveryCode : Burnt(d)' => Burnt(d) \/ d = c
  BY <1>1, <1>5 DEF Burnt
<1>7. ASSUME NEW d \in Uses!Set \X RecoveryCode, Burnt(d)', recovery'.set = d[1]
      PROVE  d[2] \in recovery'.used
  <2>1. CASE Burnt(d)
    BY <1>1, <1>7, <2>1 DEF UseInv, BurntEverywhere, Copying
  <2>2. CASE d = c
    BY <1>1, <1>2, <2>2
  <2> QED
    BY <1>6, <1>7, <2>1, <2>2
<1>8. BurntEverywhere'
  <2>1. \A p \in owned' : usePc'[p] \notin Copying
    BY <1>1, <1>3 DEF UseInv, Uses!TypeOK, Copying
  <2> QED
    BY <1>7, <2>1 DEF BurntEverywhere
<1>9. accepted[c] = 0 /\ ~Unanswered(c)
  BY <1>4 DEF Burnt
<1>10. \A d \in Uses!Set \X RecoveryCode : accepted'[d] <= 1 /\ (Unanswered(d)' => accepted'[d] = 0)
  <2> HIDE DEF c
  <2> QED
    BY <1>1, <1>5, <1>9 DEF UseInv, AnsweredOnceEach
<1>11. \A p \in Op : usePc'[p] = "reset" => p = o \/ (usePc[p] = "reset" /\ <<use[p].set, use[p].code>> # c)
  BY <1>1, <1>9 DEF UseInv, Uses!TypeOK, Unanswered
<1> QED
  BY <1>1, <1>8, <1>10, <1>11 DEF UseInv, AnsweredOnceEach

LEMMA ResetBurnt ==
  ASSUME UseInv, NEW o \in Op, Uses!Reset(o)
  PROVE  ~slipped' => BurntEverywhere' /\ AnsweredOnceEach'
<1> SUFFICES ASSUME ~slipped PROVE BurntEverywhere' /\ AnsweredOnceEach'
  BY DEF Uses!Reset
<1> DEFINE c == <<use[o].set, use[o].code>>
<1>1. c \in Uses!Set \X RecoveryCode /\ usePc[o] = "reset" /\ Unanswered(c)
  BY DEF UseInv, Uses!TypeOK, Leased, Uses!Reset, Unanswered
<1>2. accepted[c] = 0 /\ accepted' = [accepted EXCEPT ![c] = 1]
  <2>1. accepted[c] = 0
    BY <1>1 DEF UseInv, AnsweredOnceEach
  <2>2. accepted' = [accepted EXCEPT ![c] = accepted[c] + 1]
    BY <1>1 DEF UseInv, Uses!TypeOK, Uses!Reset
  <2> QED
    BY <2>1, <2>2
<1>3. /\ usePc' = [usePc EXCEPT ![o] = "release"]
      /\ UNCHANGED <<recovery, owned, use>>
  BY DEF Uses!Reset, Uses!Goto
<1>4. \A d : Unanswered(d)' => Unanswered(d) /\ d # c
  BY <1>1, <1>3 DEF UseInv, Uses!TypeOK, AnsweredOnceEach, Unanswered
<1>5. \A d \in Uses!Set \X RecoveryCode : Burnt(d)' => Burnt(d)
  BY <1>1, <1>2, <1>4 DEF Burnt, UseInv, Uses!TypeOK
<1>6. BurntEverywhere'
  <2>1. BurntEverywhere
    BY DEF UseInv
  <2>2. \A p \in owned : usePc'[p] \in Copying => usePc[p] \in Copying
    BY <1>3 DEF UseInv, Uses!TypeOK, Copying
  <2>3. \A p \in owned : usePc'[p] \in Marked => usePc[p] \in Marked
    BY <1>3 DEF UseInv, Uses!TypeOK, Marked
  <2> QED
    BY <1>3, <1>5, <2>1, <2>2, <2>3 DEF BurntEverywhere
<1>7. \A d \in Uses!Set \X RecoveryCode :
        accepted'[d] <= 1 /\ (Unanswered(d)' => accepted'[d] = 0)
  <2>1. \A d \in Uses!Set \X RecoveryCode : accepted[d] <= 1 /\ (Unanswered(d) => accepted[d] = 0)
    BY DEF UseInv, AnsweredOnceEach
  <2>2. \A d \in Uses!Set \X RecoveryCode : accepted'[d] = IF d = c THEN 1 ELSE accepted[d]
    BY <1>1, <1>2 DEF UseInv, Uses!TypeOK
  <2> HIDE DEF c
  <2> QED
    BY <1>4, <2>1, <2>2
<1>8. \A p, q \in Op : usePc'[p] = "reset" => usePc[p] = "reset"
  BY <1>3 DEF UseInv, Uses!TypeOK
<1> QED
  BY <1>3, <1>6, <1>7, <1>8 DEF UseInv, AnsweredOnceEach

(* As long as no lease that ended wrote back, a code that was saved as used *)
(* stays used for whoever verifies next, and nobody else answers it.       *)
LEMMA UseBurnt ==
  ASSUME UseInv, Uses!Next
  PROVE  ~slipped' => BurntEverywhere' /\ AnsweredOnceEach'
<1> USE NoUse, UsesTyped DEF UseInv, Uses!TypeOK, Uses!OneHolder, Leased,
      Copying, Marked, BurntEverywhere, AnsweredOnceEach, Burnt, Unanswered,
      Uses!Goto, Uses!ghosts, Uses!Holds, Uses!After, Uses!Set
<1>1. ASSUME NEW o \in Op, NEW n \in Uses!Set, NEW k \in RecoveryCode, Uses!Present(o, n, k)
      PROVE  ~slipped' => BurntEverywhere' /\ AnsweredOnceEach'
  BY <1>1 DEF Uses!Present
<1>2. ASSUME NEW o \in Op, Uses!Acquire(o)
      PROVE  ~slipped' => BurntEverywhere' /\ AnsweredOnceEach'
  BY <1>2 DEF Uses!Acquire
<1>3. ASSUME NEW o \in Op, Uses!Busy(o)
      PROVE  ~slipped' => BurntEverywhere' /\ AnsweredOnceEach'
  BY <1>3 DEF Uses!Busy
<1>4. ASSUME NEW o \in Op, Uses!Read(o)
      PROVE  ~slipped' => BurntEverywhere' /\ AnsweredOnceEach'
  BY <1>4 DEF Uses!Read
<1>5. ASSUME NEW o \in Op, Uses!Match(o)
      PROVE  ~slipped' => BurntEverywhere' /\ AnsweredOnceEach'
  BY <1>5 DEF Uses!Match
<1>6. ASSUME NEW o \in Op, Uses!Mismatch(o)
      PROVE  ~slipped' => BurntEverywhere' /\ AnsweredOnceEach'
  BY <1>6 DEF Uses!Mismatch
<1>7. ASSUME NEW o \in Op, Uses!Renew(o)
      PROVE  ~slipped' => BurntEverywhere' /\ AnsweredOnceEach'
  BY <1>7 DEF Uses!Renew
<1>8. ASSUME NEW o \in Op, Uses!LeaseLost(o)
      PROVE  ~slipped' => BurntEverywhere' /\ AnsweredOnceEach'
  BY <1>8 DEF Uses!LeaseLost
<1>9. ASSUME NEW o \in Op, Uses!Hook(o)
      PROVE  ~slipped' => BurntEverywhere' /\ AnsweredOnceEach'
  BY <1>9 DEF Uses!Hook
<1>10. ASSUME NEW o \in Op, Uses!Save(o)
      PROVE  ~slipped' => BurntEverywhere' /\ AnsweredOnceEach'
  BY <1>10, SaveBurnt
<1>11. ASSUME NEW o \in Op, Uses!Reset(o)
      PROVE  ~slipped' => BurntEverywhere' /\ AnsweredOnceEach'
  BY <1>11, ResetBurnt
<1>12. ASSUME NEW o \in Op, Uses!Release(o)
      PROVE  ~slipped' => BurntEverywhere' /\ AnsweredOnceEach'
  BY <1>12 DEF Uses!Release
<1>13. ASSUME NEW o \in Op, Uses!Reject(o)
      PROVE  ~slipped' => BurntEverywhere' /\ AnsweredOnceEach'
  BY <1>13 DEF Uses!Reject
<1>14. ASSUME NEW o \in Op, Uses!Crash(o)
      PROVE  ~slipped' => BurntEverywhere' /\ AnsweredOnceEach'
  BY <1>14 DEF Uses!Crash
<1>15. ASSUME NEW o \in Op, Uses!RenewalFails(o)
      PROVE  ~slipped' => BurntEverywhere' /\ AnsweredOnceEach'
  BY <1>15 DEF Uses!RenewalFails
<1>16. CASE Uses!Enroll
  BY <1>16 DEF Uses!Enroll
<1>17. CASE Uses!Delete
  BY <1>17 DEF Uses!Delete
<1>18. CASE Uses!LockLapses
  BY <1>18 DEF Uses!LockLapses
<1>19. CASE Uses!ThrottleLapses
  BY <1>19 DEF Uses!ThrottleLapses
<1> QED
  BY <1>1, <1>2, <1>3, <1>4, <1>5, <1>6, <1>7, <1>8, <1>9, <1>10, <1>11,
     <1>12, <1>13, <1>14, <1>15, <1>16, <1>17, <1>18, <1>19 DEF Uses!Next

(* The inductive invariant of FactorUse.                                   *)
LEMMA UseInductive == Uses!Spec => []UseInv
<1>1. ASSUME UseInv, [Uses!Next]_(Uses!vars)
      PROVE  UseInv'
  <2>1. CASE Uses!Next
    BY <1>1, <2>1, UseTyped, UseLeased, UseStamped, UseBurnt DEF UseInv, Uses!TypeOK
  <2>2. CASE UNCHANGED Uses!vars
    BY <1>1, <2>2 DEF UseInv, Uses!vars, Uses!TypeOK, Uses!OneHolder, Leased, Stamped,
       Uses!UsedOnlyWithProof, BurntEverywhere, AnsweredOnceEach, Burnt, Unanswered
  <2> QED
    BY <1>1, <2>1, <2>2
<1> QED
  BY UseInit, <1>1, PTL DEF Uses!Spec

-----------------------------------------------------------------------------
(* The login ticket.                                                       *)

(* A request that completes has proved the factor of its session; a ticket *)
(* is issued once, behind a session that was made before; it is claimed by *)
(* one completion, which nobody was paid for before.                       *)
TicketInv ==
    /\ Tickets!TypeOK /\ Tickets!ExtendedOnlyProved
    /\ \A o \in Op : ticketPc[o] \in {"refresh", "claim", "access", "token"} => tk[o] \in proved
    /\ \A t \in Ticket : pending[t] = "none" => ticket[t] = "none"
    /\ \A o \in Op : ticketPc[o] = "issue" =>
          ticket[tk[o]] = "none" /\ pending[tk[o]] # "none"
    /\ \A o \in Op : ticketPc[o] \in {"find", "verify", "refresh", "claim"} =>
          ticket[tk[o]] # "none"
    /\ \A o \in Op : ticketPc[o] \in {"access", "token"} =>
          ticket[tk[o]] = "used" /\ completed[tk[o]] = 0
    /\ \A o, p \in Op : tk[o] = tk[p] /\ ticketPc[o] = "issue" /\ ticketPc[p] = "issue" => o = p
    /\ \A o, p \in Op :
          /\ tk[o] = tk[p]
          /\ ticketPc[o] \in {"access", "token"} /\ ticketPc[p] \in {"access", "token"}
          => o = p
    /\ \A t \in Ticket : completed[t] <= 1 /\ (ticket[t] # "used" => completed[t] = 0)

LEMMA AnyTicketIsOne == Tickets!AnyTicket \in Ticket
BY TicketsExist DEF Tickets!AnyTicket, Tickets!TicketAssumption

LEMMA TicketInit == Tickets!Init => TicketInv
BY AnyTicketIsOne DEF Tickets!Init, TicketInv, Tickets!TypeOK, Tickets!ExtendedOnlyProved

LEMMA TicketStep ==
  ASSUME TicketInv, [Tickets!Next]_(Tickets!vars)
  PROVE  TicketInv'
<1> USE AnyTicketIsOne DEF TicketInv, Tickets!TypeOK, Tickets!ExtendedOnlyProved, Tickets!Goto,
      Tickets!Finish
<1>1. ASSUME NEW o \in Op, NEW t \in Ticket, Tickets!Pend(o, t)
      PROVE  TicketInv'
  BY <1>1 DEF Tickets!Pend
<1>2. ASSUME NEW o \in Op, NEW t \in Ticket, Tickets!Present(o, t)
      PROVE  TicketInv'
  BY <1>2 DEF Tickets!Present
<1>3. ASSUME NEW o \in Op, Tickets!IssueTicket(o)
      PROVE  TicketInv'
  BY <1>3 DEF Tickets!IssueTicket
<1>4. ASSUME NEW o \in Op, Tickets!FindSession(o)
      PROVE  TicketInv'
  BY <1>4 DEF Tickets!FindSession
<1>5. ASSUME NEW o \in Op, Tickets!Verify(o)
      PROVE  TicketInv'
  BY <1>5 DEF Tickets!Verify
<1>6. ASSUME NEW o \in Op, Tickets!Refresh(o)
      PROVE  TicketInv'
  BY <1>6 DEF Tickets!Refresh
<1>7. ASSUME NEW o \in Op, Tickets!Claim(o)
      PROVE  TicketInv'
  BY <1>7 DEF Tickets!Claim
<1>8. ASSUME NEW o \in Op, Tickets!Access(o)
      PROVE  TicketInv'
  BY <1>8 DEF Tickets!Access
<1>9. ASSUME NEW o \in Op, Tickets!Answer(o)
      PROVE  TicketInv'
  BY <1>9 DEF Tickets!Answer
<1>10. ASSUME NEW o \in Op, Tickets!Fail(o)
      PROVE  TicketInv'
  BY <1>10 DEF Tickets!Fail
<1>11. ASSUME NEW t \in Ticket, Tickets!Expire(t)
      PROVE  TicketInv'
  BY <1>11 DEF Tickets!Expire
<1>12. ASSUME NEW t \in Ticket, Tickets!End(t)
      PROVE  TicketInv'
  BY <1>12 DEF Tickets!End
<1>13. CASE UNCHANGED Tickets!vars
  BY <1>13 DEF Tickets!vars
<1> QED
  BY <1>1, <1>2, <1>3, <1>4, <1>5, <1>6, <1>7, <1>8, <1>9, <1>10, <1>11, <1>12, <1>13 DEF Tickets!Next

(* The inductive invariant of MfaTicket.                                   *)
LEMMA TicketInductive == Tickets!Spec => []TicketInv
BY TicketInit, TicketStep, PTL DEF Tickets!Spec

(* The abstract state of a ticket.                                         *)
Completing(t) == \E o \in Op : ticketPc[o] \in {"access", "token"} /\ tk[o] = t

TicketState(t) ==
    CASE ticket[t] = "none" -> "new"
      [] ticket[t] = "open" -> "open"
      [] completed[t] > 0 -> IF completed[t] = 1 THEN "paid" ELSE "overpaid"
      [] OTHER -> IF Completing(t) THEN "taken" ELSE "void"

LEMMA TicketStates ==
  /\ \A t : Tickets!State(t) = TicketState(t)
  /\ \A t : Tickets!State(t)' = TicketState(t)'
BY DEF Tickets!State, TicketState, Completing

LEMMA TicketMoves ==
  ASSUME NEW t \in Ticket, \A u \in Ticket \ {t} : TicketState(u)' = TicketState(u),
         \/ TicketState(t) = "new" /\ TicketState(t)' = "open"
         \/ TicketState(t) = "open" /\ TicketState(t)' = "taken"
         \/ TicketState(t) = "taken" /\ TicketState(t)' = "paid"
         \/ TicketState(t) = "taken" /\ TicketState(t)' = "void"
  PROVE  Tickets!Tickets!Next
<1> DEFINE st == [u \in Ticket |-> Tickets!State(u)]
<1>1. st' = [st EXCEPT ![t] = TicketState(t)']
  BY TicketStates
<1>2. st[t] = TicketState(t)
  BY TicketStates
<1> HIDE DEF st
<1>3. \/ Tickets!Tickets!Move(t, "new", "open") \/ Tickets!Tickets!Move(t, "open", "taken")
      \/ Tickets!Tickets!Move(t, "taken", "paid") \/ Tickets!Tickets!Move(t, "taken", "void")
  BY <1>1, <1>2 DEF Tickets!Tickets!Move, st
<1> QED
  BY <1>3 DEF Tickets!Tickets!Next, Tickets!Tickets!Issue, Tickets!Tickets!Take,
     Tickets!Tickets!Pay, Tickets!Tickets!Forfeit

LEMMA TicketStutters ==
  ASSUME ticket' = ticket, completed' = completed,
         \A t \in Ticket : Completing(t)' <=> Completing(t)
  PROVE  UNCHANGED Tickets!Tickets!vars
<1>1. \A t \in Ticket : TicketState(t)' = TicketState(t)
  BY DEF TicketState
<1>2. \A t \in Ticket : Tickets!State(t)' = Tickets!State(t)
  BY <1>1, TicketStates
<1> QED
  BY <1>2 DEF Tickets!Tickets!vars

(* A request that leaves forfeits the ticket it has claimed.               *)
LEMMA TicketLeaves ==
  ASSUME TicketInv, NEW o \in Op, Tickets!Finish(o), ticket' = ticket, completed' = completed
  PROVE  [Tickets!Tickets!Next]_(Tickets!Tickets!vars)
<1>c. PICK c \in Ticket : c = tk[o]
  BY DEF TicketInv, Tickets!TypeOK
<1>1. ticketPc'[o] = "idle" /\ \A p \in Op \ {o} : ticketPc'[p] = ticketPc[p] /\ tk'[p] = tk[p]
  BY DEF TicketInv, Tickets!TypeOK, Tickets!Finish
<1>2. ASSUME NEW t \in Ticket \ {c} PROVE TicketState(t)' = TicketState(t)
  <2>1. Completing(t)' <=> Completing(t)
    BY <1>c, <1>1 DEF Completing
  <2> QED
    BY <2>1 DEF TicketState
<1>3. CASE ticketPc[o] \in {"access", "token"}
  <2>1. Completing(c) /\ ~Completing(c)'
    BY <1>c, <1>1, <1>3 DEF Completing, TicketInv
  <2>2. ticket[c] = "used" /\ completed[c] = 0
    BY <1>c, <1>3 DEF TicketInv
  <2>3. TicketState(c) = "taken" /\ TicketState(c)' = "void"
    BY <2>1, <2>2 DEF TicketState
  <2> QED
    BY <1>2, <2>3, TicketMoves
<1>4. CASE ticketPc[o] \notin {"access", "token"}
  <2>1. \A t \in Ticket : Completing(t)' <=> Completing(t)
    BY <1>1, <1>4 DEF Completing
  <2> QED
    BY <2>1, TicketStutters
<1> QED
  BY <1>3, <1>4

LEMMA TicketIssued ==
  ASSUME TicketInv, NEW o \in Op, Tickets!IssueTicket(o)
  PROVE  Tickets!Tickets!Next
<1>c. PICK c \in Ticket : c = tk[o]
  BY DEF TicketInv, Tickets!TypeOK
<1>1. /\ ticketPc[o] = "issue" /\ ticketPc'[o] = "idle"
      /\ \A p \in Op \ {o} : ticketPc'[p] = ticketPc[p] /\ tk'[p] = tk[p]
      /\ ticket[c] = "none" /\ ticket'[c] = "open" /\ completed' = completed
      /\ \A t \in Ticket \ {c} : ticket'[t] = ticket[t]
  BY <1>c DEF TicketInv, Tickets!TypeOK, Tickets!IssueTicket, Tickets!Finish
<1>2. ASSUME NEW t \in Ticket \ {c} PROVE TicketState(t)' = TicketState(t)
  <2>1. Completing(t)' <=> Completing(t)
    BY <1>1 DEF Completing
  <2> QED
    BY <1>1, <2>1 DEF TicketState
<1>3. completed[c] = 0
  BY <1>1 DEF TicketInv
<1>4. TicketState(c) = "new" /\ TicketState(c)' = "open"
  BY <1>1, <1>3 DEF TicketState
<1> QED
  BY <1>2, <1>4, TicketMoves

LEMMA TicketClaimed ==
  ASSUME TicketInv, NEW o \in Op, Tickets!Claim(o)
  PROVE  [Tickets!Tickets!Next]_(Tickets!Tickets!vars)
<1>c. PICK c \in Ticket : c = tk[o]
  BY DEF TicketInv, Tickets!TypeOK
<1>1. CASE ticket[c] # "open"
  <2>1. ticket' = ticket
    BY <1>c, <1>1 DEF TicketInv, Tickets!TypeOK, Tickets!Claim
  <2> QED
    BY <1>c, <1>1, <2>1, TicketLeaves DEF Tickets!Claim
<1>2. CASE ticket[c] = "open"
  <2>1. /\ ticketPc[o] = "claim" /\ ticketPc'[o] = "access" /\ tk' = tk
        /\ \A p \in Op \ {o} : ticketPc'[p] = ticketPc[p]
        /\ ticket'[c] = "used" /\ completed' = completed
        /\ \A t \in Ticket \ {c} : ticket'[t] = ticket[t]
    BY <1>c, <1>2 DEF TicketInv, Tickets!TypeOK, Tickets!Claim, Tickets!Goto
  <2>2. ASSUME NEW t \in Ticket \ {c} PROVE TicketState(t)' = TicketState(t)
    <3>1. Completing(t)' <=> Completing(t)
      BY <1>c, <2>1 DEF Completing
    <3> QED
      BY <2>1, <3>1 DEF TicketState
  <2>3. completed[c] = 0 /\ Completing(c)'
    BY <1>c, <1>2, <2>1 DEF TicketInv, Completing
  <2>4. TicketState(c) = "open" /\ TicketState(c)' = "taken"
    BY <1>2, <2>1, <2>3 DEF TicketState
  <2> QED
    BY <2>2, <2>4, TicketMoves
<1> QED
  BY <1>1, <1>2

LEMMA TicketAnswered ==
  ASSUME TicketInv, NEW o \in Op, Tickets!Answer(o)
  PROVE  [Tickets!Tickets!Next]_(Tickets!Tickets!vars)
<1>c. PICK c \in Ticket : c = tk[o]
  BY DEF TicketInv, Tickets!TypeOK
<1>1. CASE pending[c] # "live"
  BY <1>c, <1>1, TicketLeaves DEF Tickets!Answer
<1>2. CASE pending[c] = "live"
  <2>1. /\ ticketPc[o] = "token" /\ ticketPc'[o] = "idle" /\ ticket' = ticket
        /\ \A p \in Op \ {o} : ticketPc'[p] = ticketPc[p] /\ tk'[p] = tk[p]
        /\ \A t \in Ticket \ {c} : completed'[t] = completed[t]
    BY <1>c, <1>2 DEF TicketInv, Tickets!TypeOK, Tickets!Answer, Tickets!Finish
  <2>2. ticket[c] = "used" /\ completed[c] = 0 /\ Completing(c)
    BY <1>c, <2>1 DEF TicketInv, Completing
  <2>3. completed'[c] = 1
    BY <1>c, <1>2, <2>2 DEF TicketInv, Tickets!TypeOK, Tickets!Answer
  <2>4. ASSUME NEW t \in Ticket \ {c} PROVE TicketState(t)' = TicketState(t)
    <3>1. Completing(t)' <=> Completing(t)
      BY <1>c, <2>1 DEF Completing
    <3> QED
      BY <2>1, <3>1 DEF TicketState
  <2>5. TicketState(c) = "taken" /\ TicketState(c)' = "paid"
    BY <2>1, <2>2, <2>3 DEF TicketState
  <2> QED
    BY <2>4, <2>5, TicketMoves
<1> QED
  BY <1>1, <1>2

LEMMA TicketRefines ==
  ASSUME TicketInv, [Tickets!Next]_(Tickets!vars)
  PROVE  [Tickets!Tickets!Next]_(Tickets!Tickets!vars)
<1> DEFINE Still == /\ ticket' = ticket /\ completed' = completed
                    /\ \A t \in Ticket : Completing(t)' <=> Completing(t)
<1>1. ASSUME NEW o \in Op, NEW t \in Ticket, Tickets!Pend(o, t) \/ Tickets!Present(o, t)
      PROVE  Still
  <2>1. /\ ticket' = ticket /\ completed' = completed
        /\ ticketPc[o] = "idle" /\ ticketPc'[o] \in {"issue", "find"}
        /\ \A p \in Op \ {o} : ticketPc'[p] = ticketPc[p] /\ tk'[p] = tk[p]
    BY <1>1 DEF TicketInv, Tickets!TypeOK, Tickets!Pend, Tickets!Present
  <2> QED
    BY <2>1 DEF Completing
<1>2. ASSUME NEW o \in Op, Tickets!FindSession(o) \/ Tickets!Verify(o) \/ Tickets!Refresh(o)
                           \/ Tickets!Access(o)
      PROVE  Still \/ (Tickets!Finish(o) /\ ticket' = ticket /\ completed' = completed)
  <2>1. SUFFICES ASSUME ~Tickets!Finish(o) PROVE Still
    BY <1>2 DEF Tickets!FindSession, Tickets!Verify, Tickets!Refresh, Tickets!Access
  <2>2. /\ ticket' = ticket /\ completed' = completed /\ tk' = tk
        /\ ticketPc'[o] \in {"access", "token"} <=> ticketPc[o] \in {"access", "token"}
        /\ \A p \in Op \ {o} : ticketPc'[p] = ticketPc[p]
    BY <1>2, <2>1 DEF TicketInv, Tickets!TypeOK, Tickets!FindSession, Tickets!Verify,
       Tickets!Refresh, Tickets!Access, Tickets!Goto
  <2> QED
    BY <2>2 DEF Completing
<1>3. ASSUME NEW o \in Op, Tickets!Fail(o)
      PROVE  [Tickets!Tickets!Next]_(Tickets!Tickets!vars)
  BY <1>3, TicketLeaves DEF Tickets!Fail
<1>4. ASSUME NEW t \in Ticket, Tickets!Expire(t) \/ Tickets!End(t) PROVE Still
  BY <1>4 DEF Tickets!Expire, Tickets!End, Completing
<1>5. CASE UNCHANGED Tickets!vars
  <2>1. Still
    BY <1>5 DEF Tickets!vars, Completing
  <2> QED
    BY <2>1, TicketStutters
<1>6. ASSUME Still PROVE UNCHANGED Tickets!Tickets!vars
  BY <1>6, TicketStutters
<1> HIDE DEF Still
<1> QED
  BY <1>1, <1>2, <1>3, <1>4, <1>5, <1>6, TicketLeaves, TicketIssued, TicketClaimed,
     TicketAnswered DEF Tickets!Next

(* The ticket implements the voucher.                                      *)
LEMMA TicketVoucher == Tickets!Spec => Tickets!TicketIsVoucher
<1>1. Tickets!Init => Tickets!Tickets!Init
  <2>1. Tickets!Init => \A t \in Ticket : TicketState(t) = "new"
    BY DEF Tickets!Init, TicketState
  <2> QED
    BY <2>1, TicketStates DEF Tickets!Tickets!Init
<1>2. TicketInv /\ [Tickets!Next]_(Tickets!vars) => [Tickets!Tickets!Next]_(Tickets!Tickets!vars)
  BY TicketRefines
<1> QED
  BY <1>1, <1>2, TicketInductive, PTL DEF Tickets!Spec, Tickets!TicketIsVoucher,
     Tickets!Tickets!Spec

-----------------------------------------------------------------------------
(* The authorization code: the theorems of AuthorizationCodeProofs, about  *)
(* the instance the grants are composed with.                              *)

CodeTheorems == INSTANCE AuthorizationCodeProofs
    WITH Code <- AuthCode, pc <- codePc, req <- codeReq

LEMMA SameStart == AuthorizationCodes!Init <=> CodeTheorems!Init
BY DEF AuthorizationCodes!Init, CodeTheorems!Init, AuthorizationCodes!NoRequest,
   CodeTheorems!NoRequest, AuthorizationCodes!NoSession, CodeTheorems!NoSession

LEMMA SameStep == AuthorizationCodes!Next => CodeTheorems!Next
BY DEF AuthorizationCodes!Next, CodeTheorems!Next, AuthorizationCodes!Admit,
   CodeTheorems!Admit, AuthorizationCodes!Present, CodeTheorems!Present,
   AuthorizationCodes!Save, CodeTheorems!Save, AuthorizationCodes!Redeem,
   CodeTheorems!Redeem, AuthorizationCodes!Fail, CodeTheorems!Fail,
   AuthorizationCodes!Login, CodeTheorems!Login, AuthorizationCodes!End,
   CodeTheorems!End, AuthorizationCodes!Lapse, CodeTheorems!Lapse,
   AuthorizationCodes!Deactivate, CodeTheorems!Deactivate,
   AuthorizationCodes!Factor, CodeTheorems!Factor, AuthorizationCodes!Pop,
   CodeTheorems!Pop, AuthorizationCodes!Policy, CodeTheorems!Policy,
   AuthorizationCodes!Subject, CodeTheorems!Subject,
   AuthorizationCodes!Find, CodeTheorems!Find, AuthorizationCodes!Refresh,
   CodeTheorems!Refresh, AuthorizationCodes!Recheck, CodeTheorems!Recheck,
   AuthorizationCodes!Revoke, CodeTheorems!Revoke,
   AuthorizationCodes!Create, CodeTheorems!Create,
   AuthorizationCodes!Access, CodeTheorems!Access,
   AuthorizationCodes!Answer, CodeTheorems!Answer,
   AuthorizationCodes!Orphaned, CodeTheorems!Orphaned,
   AuthorizationCodes!Goto, CodeTheorems!Goto, AuthorizationCodes!Finish,
   CodeTheorems!Finish, AuthorizationCodes!NoRequest,
   CodeTheorems!NoRequest, AuthorizationCodes!NoSession,
   CodeTheorems!NoSession, AuthorizationCodes!env, CodeTheorems!env,
   AuthorizationCodes!vars, CodeTheorems!vars, AuthorizationCodes!Row,
   CodeTheorems!Row, AuthorizationCodes!Readable, CodeTheorems!Readable

LEMMA SameSpec == AuthorizationCodes!Spec => CodeTheorems!Spec
<1>1. [AuthorizationCodes!Next]_(AuthorizationCodes!vars) => [CodeTheorems!Next]_(CodeTheorems!vars)
  BY SameStep DEF AuthorizationCodes!vars, CodeTheorems!vars, AuthorizationCodes!env,
     CodeTheorems!env
<1> QED
  BY SameStart, <1>1, PTL DEF AuthorizationCodes!Spec, CodeTheorems!Spec

LEMMA CodesAreApart == CodeTheorems!CodeAssumption
BY CodesApart DEF AuthorizationCodes!CodeAssumption, CodeTheorems!CodeAssumption,
   AuthorizationCodes!NoSession, CodeTheorems!NoSession

LEMMA CodeSafety ==
  AuthorizationCodes!Spec => /\ []AuthorizationCodes!TypeOK
                             /\ []AuthorizationCodes!RevokedCodeRefused
                             /\ []AuthorizationCodes!FactorOwedRefused
<1>1. CodeTheorems!TypeOK => AuthorizationCodes!TypeOK
  BY DEF CodeTheorems!TypeOK, AuthorizationCodes!TypeOK, CodeTheorems!NoSession,
     AuthorizationCodes!NoSession
<1>2. CodeTheorems!RevokedCodeRefused => AuthorizationCodes!RevokedCodeRefused
  BY DEF CodeTheorems!RevokedCodeRefused, AuthorizationCodes!RevokedCodeRefused,
     CodeTheorems!NoSession, AuthorizationCodes!NoSession, CodeTheorems!Readable, AuthorizationCodes!Readable, CodeTheorems!Row, AuthorizationCodes!Row
<1>3. CodeTheorems!FactorOwedRefused => AuthorizationCodes!FactorOwedRefused
  BY DEF CodeTheorems!FactorOwedRefused, AuthorizationCodes!FactorOwedRefused, CodeTheorems!NoSession, AuthorizationCodes!NoSession
<1>4. CodeTheorems!Spec => /\ []CodeTheorems!TypeOK
                           /\ []CodeTheorems!RevokedCodeRefused
                           /\ []CodeTheorems!FactorOwedRefused
  BY CodesAreApart, CodeTheorems!CodeTypeCorrect, CodeTheorems!RevokedCodeRefusedHolds,
     CodeTheorems!FactorOwedRefusedHolds
<1> QED
  BY SameSpec, <1>1, <1>2, <1>3, <1>4, PTL

LEMMA CodeVoucher == AuthorizationCodes!Spec => AuthorizationCodes!ImplementsVoucher
<1>1. CodeTheorems!Codes!Init => AuthorizationCodes!Codes!Init
  BY DEF CodeTheorems!Codes!Init, AuthorizationCodes!Codes!Init, CodeTheorems!State,
     AuthorizationCodes!State, CodeTheorems!Redeeming, AuthorizationCodes!Redeeming
<1>2. [CodeTheorems!Codes!Next]_(CodeTheorems!Codes!vars)
        => [AuthorizationCodes!Codes!Next]_(AuthorizationCodes!Codes!vars)
  BY DEF AuthorizationCodes!Codes!Next, CodeTheorems!Codes!Next,
     AuthorizationCodes!Codes!vars, CodeTheorems!Codes!vars,
     AuthorizationCodes!Codes!Issue, CodeTheorems!Codes!Issue,
     AuthorizationCodes!Codes!Take, CodeTheorems!Codes!Take,
     AuthorizationCodes!Codes!Waste, CodeTheorems!Codes!Waste,
     AuthorizationCodes!Codes!Pay, CodeTheorems!Codes!Pay,
     AuthorizationCodes!Codes!Forfeit, CodeTheorems!Codes!Forfeit,
     AuthorizationCodes!Codes!Move, CodeTheorems!Codes!Move,
     AuthorizationCodes!State, CodeTheorems!State,
     AuthorizationCodes!Redeeming, CodeTheorems!Redeeming
<1>3. CodeTheorems!Spec => CodeTheorems!ImplementsVoucher
  BY CodesAreApart, CodeTheorems!CodeIsVoucher
<1> QED
  BY SameSpec, <1>1, <1>2, <1>3, PTL DEF CodeTheorems!ImplementsVoucher,
     AuthorizationCodes!ImplementsVoucher, CodeTheorems!Codes!Spec, AuthorizationCodes!Codes!Spec

-----------------------------------------------------------------------------
(* The composition: every part moves as it does alone, or stands still.    *)
LEMMA PartSpecs ==
  GrantsSpec => Spec /\ AuthorizationCodes!Spec /\ Tickets!Spec /\ Uses!Spec
<1>1. GrantsInit => Init /\ AuthorizationCodes!Init /\ Tickets!Init /\ Uses!Init
  BY DEF GrantsInit
<1>2. ASSUME [GrantsNext]_<<part, deviceVars, codeVars, ticketVars, useVars>>
      PROVE  /\ [Next]_vars
             /\ [AuthorizationCodes!Next]_(AuthorizationCodes!vars)
             /\ [Tickets!Next]_(Tickets!vars)
             /\ [Uses!Next]_(Uses!vars)
  BY <1>2 DEF GrantsNext, deviceVars, codeVars, ticketVars, useVars, AuthorizationCodes!vars,
     AuthorizationCodes!env, Tickets!vars, Uses!vars
<1> QED
  BY <1>1, <1>2, PTL DEF GrantsSpec, Spec, AuthorizationCodes!Spec, Tickets!Spec, Uses!Spec

(* Every part is well typed.                                               *)
THEOREM GrantsTyped == GrantsSpec => []PartsTypeOK
<1> DEFINE Chosen == part \in {"device", "code", "ticket", "recovery"}
<1>1. TypeOK /\ AuthorizationCodes!TypeOK /\ TicketInv /\ UseInv /\ Chosen => PartsTypeOK
  BY DEF PartsTypeOK, TicketInv, UseInv
<1>2. GrantsInit => Chosen
  BY DEF GrantsInit
<1>3. Chosen /\ [GrantsNext]_<<part, deviceVars, codeVars, ticketVars, useVars>> => Chosen'
  BY DEF GrantsNext
<1>4. GrantsSpec => []Chosen
  <2> HIDE DEF Chosen
  <2> QED
    BY <1>2, <1>3, PTL DEF GrantsSpec
<1> HIDE DEF Chosen
<1> QED
  BY <1>1, <1>4, PartSpecs, TypeCorrect, CodeSafety, TicketInductive, UseInductive, PTL

(* No redemption of an authorization code is about to be answered on a     *)
(* session that was revoked before it, nor on a new one that owes a factor *)
(* (OAuth2AuthorizeGrant.resolveSession, BaseGrant.revokeIfSecondFactorOwed). *)
THEOREM NothingForRefusedHolds == GrantsSpec => []NothingForRefused
<1>1. AuthorizationCodes!RevokedCodeRefused /\ AuthorizationCodes!FactorOwedRefused
        => NothingForRefused
  BY DEF NothingForRefused
<1> QED
  BY <1>1, PartSpecs, CodeSafety, PTL

(* Whichever completions of a ticket race, a session is slid to the full   *)
(* lifetime only when its factor was proved (OAuth2MfaLoginService.complete). *)
THEOREM ExtendedOnlyProvedHolds == GrantsSpec => []ExtendedOnlyProved
<1>1. TicketInv => ExtendedOnlyProved
  BY DEF TicketInv, ExtendedOnlyProved
<1> QED
  BY <1>1, PartSpecs, TicketInductive, PTL

(* A recovery code is answered with success once unless a lease that had   *)
(* ended wrote the row back, burns only for a stamped session, and a       *)
(* verification that believes its lease owns the lock                      *)
(* (UserAuthenticatorService.verify).                                      *)
THEOREM CodesSpentOnceHolds == GrantsSpec => []CodesSpentOnce
<1>1. UseInv => CodesSpentOnce
  BY DEF UseInv, CodesSpentOnce, Uses!AcceptedOnce, AnsweredOnceEach
<1> QED
  BY <1>1, PartSpecs, UseInductive, PTL

(* Authorization codes and login tickets implement Voucher: one request    *)
(* takes them, one is paid at most, and they are never given back.         *)
THEOREM VouchersImplemented == GrantsSpec => ImplementsVouchers
BY PartSpecs, CodeVoucher, TicketVoucher, PTL DEF ImplementsVouchers

=============================================================================
