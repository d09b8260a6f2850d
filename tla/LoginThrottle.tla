---------------------------- MODULE LoginThrottle ----------------------------
(***************************************************************************)
(* The login throttle (core/authentication/login-throttle) around the      *)
(* password grant, for one pair of identifier and address: the failures    *)
(* are audit rows, the attempts in flight are slots in cache counters, one *)
(* counter per bucket of time, and no lock covers the two.                 *)
(***************************************************************************)
EXTENDS Integers, FiniteSets

CONSTANTS
    Op,         \* concurrent attempts
    Threshold,  \* config.loginAttemptThreshold
    MaxBucket,  \* bound of the clock, in buckets of INFLIGHT_BUCKET_MS
    Gap,        \* a bucket may end between currentBucket() and the increment
    Faults      \* what fails: "cache", "count", "record" or "crash"

ASSUME ThrottleAssumption ==
    /\ IsFiniteSet(Op)
    /\ Threshold \in Nat \ {0}
    /\ MaxBucket \in Nat
    /\ Gap \in BOOLEAN
    /\ Faults \subseteq {"cache", "count", "record", "crash"}

VARIABLES
    bucket,  \* the current bucket
    slot,    \* slot[b]: the counter of bucket b
    rows,    \* LOGIN_FAILED rows of the pair in the window
    pc,      \* pc[o]: what attempt o does next
    req,     \* req[o]: what attempt o holds
    leaked,  \* leaked[b]: slots of bucket b that nobody will give back
    blind    \* attempts the cache did not reserve for, admitted so far

vars == <<bucket, slot, rows, pc, req, leaked, blind>>

Bucket == 0 .. MaxBucket
NoRequest == [bucket |-> 0, reserved |-> FALSE, inflight |-> 0]

Init ==
    /\ bucket = 0
    /\ slot = [b \in Bucket |-> 0]
    /\ rows = 0
    /\ pc = [o \in Op |-> "idle"]
    /\ req = [o \in Op |-> NoRequest]
    /\ leaked = [b \in Bucket |-> 0]
    /\ blind = 0

Goto(o, l) == pc' = [pc EXCEPT ![o] = l]

End(o) ==
    /\ Goto(o, "idle")
    /\ req' = [req EXCEPT ![o] = NoRequest]

(* The throttle gives back what it reserved before it throws, the grant    *)
(* does so in its finally.                                                 *)
Leave(o) ==
    IF req[o].reserved THEN Goto(o, "release") /\ UNCHANGED req ELSE End(o)

-----------------------------------------------------------------------------
(* assertNotThrottled                                                      *)

Begin(o) ==
    /\ pc[o] = "idle"
    /\ req' = [req EXCEPT ![o].bucket = bucket]
    /\ Goto(o, "reserve")
    /\ UNCHANGED <<bucket, slot, rows, leaked, blind>>

(* The cache does not answer: nothing is reserved and the rows decide.     *)
ReserveFails(o) ==
    /\ "cache" \in Faults
    /\ pc[o] = "reserve"
    /\ Goto(o, "count")
    /\ UNCHANGED <<bucket, slot, rows, req, leaked, blind>>

(* Mutant of Reserve: the counter is read and written back.                *)
ReserveStale(o) ==
    LET b == req[o].bucket IN
    /\ pc[o] = "reserve"
    /\ slot' = [slot EXCEPT ![b] = 1]
    /\ req' = [req EXCEPT ![o].inflight = slot[b]]
    /\ Goto(o, "previous")
    /\ UNCHANGED <<bucket, rows, leaked, blind>>

Reserve(o) ==
    LET b == req[o].bucket IN
    /\ pc[o] = "reserve"
    /\ slot' = [slot EXCEPT ![b] = @ + 1]
    /\ req' = [req EXCEPT ![o].inflight = slot[b]]
    /\ Goto(o, "previous")
    /\ UNCHANGED <<bucket, rows, leaked, blind>>

Previous(b) == IF b = 0 THEN 0 ELSE slot[b - 1]
Reported(n) == IF n < 0 THEN 0 ELSE n

(* Mutant of ReadPrevious: only the current bucket counts.                 *)
ReadPreviousNone(o) ==
    /\ pc[o] = "previous"
    /\ req' = [req EXCEPT ![o].inflight = Reported(@), ![o].reserved = TRUE]
    /\ Goto(o, "count")
    /\ UNCHANGED <<bucket, slot, rows, leaked, blind>>

ReadPrevious(o) ==
    /\ pc[o] = "previous"
    /\ req' = [req EXCEPT ![o].inflight = Reported(@ + Previous(req[o].bucket)),
                          ![o].reserved = TRUE]
    /\ Goto(o, "count")
    /\ UNCHANGED <<bucket, slot, rows, leaked, blind>>

(* The second read fails: the slot stays taken, the attempt holds none.    *)
ReadPreviousFails(o) ==
    /\ "cache" \in Faults
    /\ pc[o] = "previous"
    /\ req' = [req EXCEPT ![o].inflight = 0]
    /\ leaked' = [leaked EXCEPT ![req[o].bucket] = @ + 1]
    /\ Goto(o, "count")
    /\ UNCHANGED <<bucket, slot, rows, blind>>

(* Failures and attempts in flight fill the threshold together.            *)
Full(o) == rows + req[o].inflight >= Threshold

Admit(o) ==
    /\ pc[o] = "count"
    /\ ~Full(o)
    /\ Goto(o, "authenticate")
    /\ blind' = IF req[o].reserved THEN blind ELSE blind + 1
    /\ UNCHANGED <<bucket, slot, rows, req, leaked>>

Refuse(o) ==
    /\ pc[o] = "count"
    /\ Full(o) \/ "count" \in Faults
    /\ Leave(o)
    /\ UNCHANGED <<bucket, slot, rows, leaked, blind>>

-----------------------------------------------------------------------------
(* The password grant: authenticate, record a failure, release at last.    *)

Succeed(o) ==
    /\ pc[o] = "authenticate"
    /\ Leave(o)
    /\ UNCHANGED <<bucket, slot, rows, leaked, blind>>

Mistake(o) ==
    /\ pc[o] = "authenticate"
    /\ Goto(o, "record")
    /\ UNCHANGED <<bucket, slot, rows, req, leaked, blind>>

Record(o) ==
    /\ pc[o] = "record"
    /\ rows' = rows + 1
    /\ Leave(o)
    /\ UNCHANGED <<bucket, slot, leaked, blind>>

(* The event service logs a failed insert and goes on.                     *)
RecordFails(o) ==
    /\ "record" \in Faults
    /\ pc[o] = "record"
    /\ Leave(o)
    /\ UNCHANGED <<bucket, slot, rows, leaked, blind>>

(* Mutant of Release: the slot goes back to the current bucket.            *)
ReleaseCurrent(o) ==
    /\ pc[o] = "release"
    /\ slot' = [slot EXCEPT ![bucket] = @ - 1]
    /\ End(o)
    /\ UNCHANGED <<bucket, rows, leaked, blind>>

Release(o) ==
    /\ pc[o] = "release"
    /\ slot' = [slot EXCEPT ![req[o].bucket] = @ - 1]
    /\ End(o)
    /\ UNCHANGED <<bucket, rows, leaked, blind>>

-----------------------------------------------------------------------------
(* A slot is taken by an attempt from its increment to its release.        *)
Holds(o) == pc[o] = "previous" \/ req[o].reserved
Holders(b) == {o \in Op : Holds(o) /\ req[o].bucket = b}

ReleaseFails(o) ==
    /\ "cache" \in Faults
    /\ pc[o] = "release"
    /\ leaked' = [leaked EXCEPT ![req[o].bucket] = @ + 1]
    /\ End(o)
    /\ UNCHANGED <<bucket, slot, rows, blind>>

Crash(o) ==
    /\ "crash" \in Faults
    /\ pc[o] # "idle"
    /\ leaked' = [leaked EXCEPT ![req[o].bucket] = IF Holds(o) THEN @ + 1 ELSE @]
    /\ End(o)
    /\ UNCHANGED <<bucket, slot, rows, blind>>

(* The window slides past a row.                                           *)
Slide ==
    /\ rows > 0
    /\ rows' = rows - 1
    /\ UNCHANGED <<bucket, slot, pc, req, leaked, blind>>

(* "An attempt runs for moments, so two buckets cover it": one begun in a  *)
(* bucket ends before the next one does.  A counter lapses no earlier than *)
(* it stops being read.                                                    *)
Tick ==
    /\ bucket < MaxBucket
    /\ \A o \in Op : pc[o] # "idle" => req[o].bucket = bucket /\ (pc[o] = "reserve" => Gap)
    /\ bucket' = bucket + 1
    /\ UNCHANGED <<slot, rows, pc, req, leaked, blind>>

Next ==
    \/ \E o \in Op :
        \/ Begin(o) \/ Reserve(o) \/ ReserveFails(o) \/ ReadPrevious(o) \/ ReadPreviousFails(o)
        \/ Admit(o) \/ Refuse(o) \/ Succeed(o) \/ Mistake(o) \/ Record(o) \/ RecordFails(o)
        \/ Release(o) \/ ReleaseFails(o) \/ Crash(o)
    \/ Slide
    \/ Tick

Spec == Init /\ [][Next]_vars

-----------------------------------------------------------------------------
(* Properties.                                                             *)

Label == {"idle", "reserve", "previous", "count", "authenticate", "record", "release"}
Request == [bucket : Bucket, reserved : BOOLEAN, inflight : Nat]

(* The counters and the attempts are well formed: no counter goes below    *)
(* zero, and the reports of an attempt fit.                                *)
TypeOK ==
    /\ bucket \in Bucket
    /\ slot \in [Bucket -> Nat]
    /\ rows \in Nat
    /\ pc \in [Op -> Label]
    /\ req \in [Op -> Request]
    /\ leaked \in [Bucket -> Nat]
    /\ blind \in Nat

(* A counter holds one for every attempt that took a slot of its bucket    *)
(* and has not ended, and one for every slot lost to a fault: nothing is   *)
(* released twice, to another bucket, or by an attempt that took nothing.  *)
SlotsExact == \A b \in Bucket : slot[b] = leaked[b] + Cardinality(Holders(b))

Running == {o \in Op : pc[o] \in {"authenticate", "record"}}

(* The failures of a window and the attempts whose password is being       *)
(* checked never exceed the threshold together: concurrent attempts buy no *)
(* guess, but for the ones a cache that did not answer left uncounted.     *)
(* "Throw when recent LOGIN_FAILED audit events plus the attempts still in *)
(* flight for the (identifier, ip) pair hit the threshold."                *)
WithinThreshold == rows + Cardinality(Running) <= Threshold + blind

=============================================================================
