---------------------------- MODULE MCSideBySide ----------------------------
(***************************************************************************)
(* Protocols that run side by side and share nothing: the login throttle,  *)
(* the lookup throttle of the device grant, the store of the web kit, the  *)
(* lock file of the command line and the rollups of the event log.  Each   *)
(* is checked in states of its own: the initial state chooses the part     *)
(* that moves.                                                             *)
(***************************************************************************)
EXTENDS LoginThrottle, TLC

CONSTANTS
    (* the lookups of the device grant *)
    Code, UserCode, Kinds, Limit, Lifetime, Retention, Interval, Draws, MaxTime,
    (* the store of the web kit *)
    Login, MaxGrant, MaxGen,
    LossyGen,   \* MaxGen where a revocation may be lost as well
    (* the lock file of the command line *)
    Process, MaxToken, Deaths,
    (* the rollups of the event log *)
    Aggregator,
    LastPart,   \* the parts of a day the clock counts
    EventsKept, \* how long an event is kept
    DayLength, Fill, MaxEvents

VARIABLES
    part,
    now, index, until, kept, label, expires, decision, polled, misses, locked, forgiven,
    first, redeemed, guessed, flushed, lookupPc, lookup,
    issued, of, fresh, consumed, good, access, refresh, subject, generation, validated,
    stale, storePc, storeReq, dropping, torn, checked, lost,
    file, old, stored, hostPc, mem, kind, hostIssued, live, spent, replayed, died,
    outlived, raced, cut,
    day, events, recorded, rollup, passPc, pass, cursor, settled, early, contested

Lookups == INSTANCE DeviceGrant
    WITH pc <- lookupPc, req <- lookup
Store == INSTANCE ClientStore
    WITH pc <- storePc, req <- storeReq, Faults <- {"answer", "end"}
LossyStore == INSTANCE ClientStore
    WITH pc <- storePc, req <- storeReq, MaxGen <- LossyGen,
         Faults <- {"answer", "revoke", "end"}
Host == INSTANCE HostLock
    WITH pc <- hostPc, issued <- hostIssued, consumed <- spent, torn <- cut
Rollups == INSTANCE EventRollup
    WITH now <- day, pc <- passPc, MaxTime <- LastPart, Retention <- EventsKept

throttleVars == vars
lookupVars == <<now, index, until, kept, label, expires, decision, polled, misses, locked,
    forgiven, first, redeemed, guessed, flushed, lookupPc, lookup>>
storeVars == <<issued, of, fresh, consumed, good, access, refresh, subject, generation,
    validated, stale, storePc, storeReq, dropping, torn, checked, lost>>
hostVars == <<file, old, stored, hostPc, mem, kind, hostIssued, live, spent, replayed,
    died, outlived, raced, cut>>
rollupVars == <<day, events, recorded, rollup, passPc, pass, cursor, settled, early,
    contested>>

SideInit ==
    /\ part \in {"throttle", "lookups", "store", "lossy store", "host", "rollups"}
    /\ Init /\ Lookups!Init /\ Host!Init /\ Rollups!Init
    /\ Store!Init
    /\ part \in {"store", "lossy store"} \/ refresh = 0

SideNext ==
    /\ UNCHANGED part
    /\ \/ part = "throttle" /\ Next
          /\ UNCHANGED <<lookupVars, storeVars, hostVars, rollupVars>>
       \/ part = "lookups" /\ Lookups!Next
          /\ UNCHANGED <<throttleVars, storeVars, hostVars, rollupVars>>
       \/ part = "store" /\ Store!Next
          /\ UNCHANGED <<throttleVars, lookupVars, hostVars, rollupVars>>
       \/ part = "lossy store" /\ LossyStore!Next
          /\ UNCHANGED <<throttleVars, lookupVars, hostVars, rollupVars>>
       \/ part = "host" /\ Host!Next
          /\ UNCHANGED <<throttleVars, lookupVars, storeVars, rollupVars>>
       \/ part = "rollups" /\ Rollups!Next
          /\ UNCHANGED <<throttleVars, lookupVars, storeVars, hostVars>>

SideSpec == SideInit /\ [][SideNext]_<<part, throttleVars, lookupVars, storeVars,
                                       hostVars, rollupVars>>

ASSUME LookupsTyped == Lookups!DeviceAssumption
ASSUME StoreTyped == Store!ClientAssumption /\ LossyStore!ClientAssumption
ASSUME HostTyped == Host!HostAssumption
ASSUME RollupsTyped == Rollups!RollupAssumption

(* Requests are interchangeable.                                           *)
Symmetric == Permutations(Op)

(* Bound of the slots lost to faults and of the attempts not counted.      *)
FewFaults == blind <= 1 /\ \A b \in Bucket : leaked[b] <= 1

(* Past a lock that was outlived or raced nothing is claimed of the host.  *)
LockStands == ~outlived /\ ~raced

(* The type invariants of the parts.                                       *)
PartsTypeOK ==
    /\ part = "throttle" => TypeOK
    /\ part = "lookups" => Lookups!TypeOK
    /\ part = "store" => Store!TypeOK
    /\ part = "lossy store" => LossyStore!TypeOK
    /\ part = "host" => Host!TypeOK
    /\ part = "rollups" => Rollups!TypeOK

(* The lookup throttle lets a bounded number of misses through.            *)
MissesBounded == part = "lookups" => Lookups!MissesBounded

(* A session that was torn down never comes back into the store.           *)
TornStaysTorn == part \in {"store", "lossy store"} => Store!TornStaysTorn

(* The user shown is the subject of the tokens sent, and a token nobody    *)
(* looked up yet is marked stale.                                          *)
OneIdentity ==
    part \in {"store", "lossy store"} => Store!OneIdentity /\ Store!UncheckedIsStale

(* A refused commit or a dropped refresh leaves no session behind.         *)
NoOrphan == part \in {"store", "lossy store"} => Store!NoOrphan

(* Two processes are never inside the lock file at a time, and no refresh  *)
(* token is presented twice, but for a lock that was outlived or raced for *)
(* and, of the tokens, an exchange whose new token was not stored.         *)
LockKept == part = "host" => Host!OneInside /\ Host!NeverReplays

(* A final rollup misses no event of its day.                              *)
FinalIsFull == part = "rollups" => Rollups!FinalIsFull

(* An event a final rollup counted stays counted, but where two processes  *)
(* fill one day.                                                           *)
CountedIsKept == part = "rollups" => Rollups!CountedIsKept

=============================================================================
