------------------------------ MODULE FactorUse ------------------------------
(***************************************************************************)
(* Using a single-use factor up: UserAuthenticatorService.verify against   *)
(* itself and against the replacement and the deletion of the factor       *)
(* (core/entities/user-authenticator/service.ts), for one user and the one *)
(* row of recovery codes the user holds.                                   *)
(*                                                                         *)
(* A verification reads the row, stamps the session that waits for the     *)
(* proof and writes the row back, under a lock in the cache that it renews *)
(* while it runs.  Enrolling and deleting take the row lock of the user in *)
(* the database and know nothing of that lock.                             *)
(***************************************************************************)
EXTENDS Naturals, FiniteSets

CONSTANTS
    Code,    \* the codes of a set
    Op,      \* requests in flight
    Kinds,   \* the kinds of request an instance has
    Faults,  \* {"renew"} when the renewal of a lease may be rejected
    MaxSet   \* bound of the sets enrolled

NoSet == 0
Free == "free"

UseAssumption ==
    /\ Kinds \subseteq {"verify", "enroll", "delete"}
    /\ Faults \subseteq {"renew"}
    /\ MaxSet \in Nat
    /\ Free \notin Op
    /\ Code # {}

VARIABLES
    row,       \* the recovery row: the set it holds and the codes used up
    sets,      \* how many sets were enrolled
    retired,   \* sets replaced or deleted
    armed,     \* the deadline of the attempt throttle is set
    lock,      \* the owner of the verify lock
    owned,     \* requests whose lease believes it owns the lock
    pc,        \* pc[o]: the call request o makes next
    req,       \* req[o]: what request o holds between two awaits
    proofs,    \* codes a session was stamped for
    accepted,  \* accepted[n, k]: how often code k of set n was answered with success
    slipped    \* a write back was made by a lease that had ended

vars == <<row, sets, retired, armed, lock, owned, pc, req, proofs, accepted, slipped>>
ghosts == <<proofs, accepted, slipped>>

Set == 1 .. MaxSet
Row == [set : 0 .. MaxSet, used : SUBSET Code]
NoRow == [set |-> NoSet, used |-> {}]
NoRequest == [set |-> NoSet, code |-> CHOOSE k \in Code : TRUE, copy |-> NoRow]

Init ==
    /\ row = NoRow
    /\ sets = 0
    /\ retired = {}
    /\ armed = FALSE
    /\ lock = Free
    /\ owned = {}
    /\ pc = [o \in Op |-> "idle"]
    /\ req = [o \in Op |-> NoRequest]
    /\ proofs = {}
    /\ accepted = [c \in Set \X Code |-> 0]
    /\ slipped = FALSE

Goto(o, label) == pc' = [pc EXCEPT ![o] = label]

-----------------------------------------------------------------------------
(* verify.                                                                 *)

(* A code of a set that was enrolled is presented.  assertNotThrottled: a  *)
(* deadline that is set, or cannot be read, refuses.                       *)
Present(o, n, k) ==
    /\ "verify" \in Kinds
    /\ pc[o] = "idle"
    /\ n \in 1 .. sets
    /\ ~armed
    /\ req' = [req EXCEPT ![o] = [NoRequest EXCEPT !.set = n, !.code = k]]
    /\ Goto(o, "lock")
    /\ UNCHANGED <<row, sets, retired, armed, lock, owned, ghosts>>

(* Mutant of Acquire: the lock is read, not added.                         *)
AcquireAnyway(o) ==
    /\ pc[o] = "lock"
    /\ lock' = o
    /\ owned' = owned \union {o}
    /\ Goto(o, "read")
    /\ UNCHANGED <<row, sets, retired, armed, req, ghosts>>

(* acquireVerifyLock adds its owner token if the key is absent.            *)
Acquire(o) ==
    /\ pc[o] = "lock"
    /\ lock = Free
    /\ lock' = o
    /\ owned' = owned \union {o}
    /\ Goto(o, "read")
    /\ UNCHANGED <<row, sets, retired, armed, req, ghosts>>

(* The lock is held, or the cache is down: refused without penalty.        *)
Busy(o) ==
    /\ pc[o] = "lock"
    /\ Goto(o, "idle")
    /\ UNCHANGED <<row, sets, retired, armed, lock, owned, req, ghosts>>

Read(o) ==
    /\ pc[o] = "read"
    /\ req' = [req EXCEPT ![o].copy = row]
    /\ Goto(o, "match")
    /\ UNCHANGED <<row, sets, retired, armed, lock, owned, ghosts>>

(* verifyRecovery marks the entry that matches in the copy.                *)
Match(o) ==
    LET r == req[o] IN
    /\ pc[o] = "match"
    /\ r.copy.set = r.set /\ r.code \notin r.copy.used
    /\ req' = [req EXCEPT ![o].copy.used = @ \union {r.code}]
    /\ Goto(o, "renew")
    /\ UNCHANGED <<row, sets, retired, armed, lock, owned, ghosts>>

(* bumpAttempts: counted, and the deadline set.                            *)
Mismatch(o) ==
    LET r == req[o] IN
    /\ pc[o] = "match"
    /\ ~(r.copy.set = r.set /\ r.code \notin r.copy.used)
    /\ armed' = TRUE
    /\ Goto(o, "release")
    /\ UNCHANGED <<row, sets, retired, lock, owned, req, ghosts>>

(* renewIfValue renews a lock that still carries the token.                *)
Holds(o) == o \in owned /\ lock = o

(* Mutant of After: the code is used up before the session is stamped.     *)
AfterSave(label) == "save"

After(label) == IF label = "renew" THEN "hook" ELSE "save"

(* lease.renew, before the hook and again before the write.                *)
Renew(o) ==
    /\ pc[o] \in {"renew", "renewAgain"}
    /\ Holds(o)
    /\ Goto(o, After(pc[o]))
    /\ UNCHANGED <<row, sets, retired, armed, lock, owned, req, ghosts>>

LeaseLost(o) ==
    /\ pc[o] \in {"renew", "renewAgain"}
    /\ ~Holds(o)
    /\ owned' = owned \ {o}
    /\ Goto(o, "release")
    /\ UNCHANGED <<row, sets, retired, armed, lock, req, ghosts>>

(* onVerified stamps the session before anything is used up.               *)
Hook(o) ==
    /\ pc[o] = "hook"
    /\ proofs' = proofs \union {<<req[o].set, req[o].code>>}
    /\ Goto(o, "renewAgain")
    /\ UNCHANGED <<row, sets, retired, armed, lock, owned, req, accepted, slipped>>

(* save writes every column of the copy, the secret ones included, and     *)
(* inserts a row that is missing.                                          *)
Save(o) ==
    /\ pc[o] = "save"
    /\ row' = req[o].copy
    /\ slipped' = (slipped \/ o \notin owned)
    /\ Goto(o, "reset")
    /\ UNCHANGED <<sets, retired, armed, lock, owned, req, proofs, accepted>>

(* resetAttempts, and success is answered.                                 *)
Reset(o) ==
    /\ pc[o] = "reset"
    /\ armed' = FALSE
    /\ accepted' = [accepted EXCEPT ![<<req[o].set, req[o].code>>] = @ + 1]
    /\ Goto(o, "release")
    /\ UNCHANGED <<row, sets, retired, lock, owned, req, proofs, slipped>>

(* Mutant of Unlock: drop instead of dropIfValue.                          *)
UnlockAny(o) == Free

(* releaseVerifyLock drops the key if it still carries the token.          *)
Unlock(o) == IF lock = o THEN Free ELSE lock

Release(o) ==
    /\ pc[o] = "release"
    /\ lock' = Unlock(o)
    /\ owned' = owned \ {o}
    /\ Goto(o, "idle")
    /\ req' = [req EXCEPT ![o] = NoRequest]
    /\ UNCHANGED <<row, sets, retired, armed, ghosts>>

(* A call of the critical section rejects: the finally block runs.         *)
Reject(o) ==
    /\ pc[o] \in {"read", "match", "hook", "save", "reset"}
    /\ Goto(o, "release")
    /\ UNCHANGED <<row, sets, retired, armed, lock, owned, req, ghosts>>

(* The process dies: nothing renews or releases the lock any more.         *)
Crash(o) ==
    /\ pc[o] # "idle"
    /\ owned' = owned \ {o}
    /\ Goto(o, "idle")
    /\ req' = [req EXCEPT ![o] = NoRequest]
    /\ UNCHANGED <<row, sets, retired, armed, lock, ghosts>>

-----------------------------------------------------------------------------
(* enroll and delete: one transaction each, under the row lock of the user *)

(* Mutant of Enroll: the set is stored before it is drawn.                 *)
EnrollUndrawn ==
    /\ "enroll" \in Kinds
    /\ sets < MaxSet
    /\ row' = [set |-> sets + 1, used |-> {}]
    /\ retired' = 1 .. sets
    /\ UNCHANGED <<sets, armed, lock, owned, pc, req, ghosts>>

(* enrollRecovery puts a fresh set into the existing row or a new one.     *)
Enroll ==
    /\ "enroll" \in Kinds
    /\ sets < MaxSet
    /\ sets' = sets + 1
    /\ row' = [set |-> sets + 1, used |-> {}]
    /\ retired' = 1 .. sets
    /\ UNCHANGED <<armed, lock, owned, pc, req, ghosts>>

Delete ==
    /\ "delete" \in Kinds
    /\ row # NoRow
    /\ row' = NoRow
    /\ retired' = 1 .. sets
    /\ UNCHANGED <<sets, armed, lock, owned, pc, req, ghosts>>

-----------------------------------------------------------------------------
(* The cache and its clock.                                                *)

(* The interval timer renews the lease every third of its ttl; a renewal   *)
(* that is rejected ends it, and nothing renews it again.                  *)
RenewalFails(o) ==
    /\ "renew" \in Faults
    /\ o \in owned
    /\ owned' = owned \ {o}
    /\ UNCHANGED <<row, sets, retired, armed, lock, pc, req, ghosts>>

(* A lock nobody renews lapses.                                            *)
LockLapses ==
    /\ lock # Free
    /\ lock \notin owned
    /\ lock' = Free
    /\ UNCHANGED <<row, sets, retired, armed, owned, pc, req, ghosts>>

ThrottleLapses ==
    /\ armed
    /\ armed' = FALSE
    /\ UNCHANGED <<row, sets, retired, lock, owned, pc, req, ghosts>>

Next ==
    \/ \E o \in Op :
         \/ \E n \in Set, k \in Code : Present(o, n, k)
         \/ Acquire(o) \/ Busy(o) \/ Read(o) \/ Match(o) \/ Mismatch(o)
         \/ Renew(o) \/ LeaseLost(o) \/ Hook(o) \/ Save(o) \/ Reset(o) \/ Release(o)
         \/ Reject(o) \/ Crash(o) \/ RenewalFails(o)
    \/ Enroll \/ Delete
    \/ LockLapses \/ ThrottleLapses

Spec == Init /\ [][Next]_vars

-----------------------------------------------------------------------------
TypeOK ==
    /\ row \in Row /\ row.set <= sets
    /\ sets \in 0 .. MaxSet
    /\ retired \subseteq 1 .. sets
    /\ armed \in BOOLEAN /\ slipped \in BOOLEAN
    /\ lock \in Op \union {Free}
    /\ owned \subseteq Op
    /\ pc \in [Op -> {"idle", "lock", "read", "match", "renew", "hook", "renewAgain",
                      "save", "reset", "release"}]
    /\ req \in [Op -> [set : 0 .. MaxSet, code : Code, copy : Row]]
    /\ proofs \subseteq Set \X Code
    /\ accepted \in [Set \X Code -> Nat]

(* A code is accepted once, whatever verifications run at a time, are      *)
(* rejected or crash; only a write back that outlived its lease opens the  *)
(* way for a second one.                                                   *)
AcceptedOnce == slipped \/ \A c \in Set \X Code : accepted[c] <= 1

(* A code is never used up unless the session that waited for it was       *)
(* stamped before: a failing stamp burns nothing.                          *)
UsedOnlyWithProof == \A k \in row.used : <<row.set, k>> \in proofs

(* A verification that believes its lease does own the lock: no request    *)
(* that lost its own takes or drops the lock of another.                   *)
OneHolder == owned \subseteq {lock}

(* A set of codes that was replaced, or whose row was deleted, never comes *)
(* back.                                                                   *)
RetiredStaysRetired == row.set \notin retired

=============================================================================
