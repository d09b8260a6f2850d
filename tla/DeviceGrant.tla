----------------------------- MODULE DeviceGrant -----------------------------
(***************************************************************************)
(* The device authorization grant (core/oauth2/device-authorization): a    *)
(* device mints a pair of codes, a person decides on the user code, the    *)
(* device polls with the device code.                                      *)
(*                                                                         *)
(* All of it lives in the cache (OAuth2DeviceCodeRepository), one key per  *)
(* fact, with set-if-absent and get-and-delete but no compare-and-set: an  *)
(* action is one cache call, and the requests interleave between them.     *)
(* The lookups belong to one person, for the misses that person is         *)
(* throttled by, within one attempt window: the keys of two persons have   *)
(* nothing in common.                                                      *)
(***************************************************************************)
EXTENDS Naturals, FiniteSets

CONSTANTS
    Code,      \* device codes, drawn once
    UserCode,  \* user codes, few enough to collide
    Op,        \* requests in flight
    Kinds,     \* the kinds of request an instance has; "flush" is a cache loss
    Lifetime,  \* OAUTH2_DEVICE_CODE_MAX_AGE
    Retention, \* OAUTH2_DEVICE_CODE_GRACE
    Interval,  \* OAUTH2_DEVICE_CODE_INTERVAL
    Draws,     \* OAUTH2_DEVICE_USER_CODE_MINT_ATTEMPTS
    Limit,     \* OAUTH2_DEVICE_LOOKUP_ATTEMPTS_PER_ACTOR
    MaxTime    \* bound of the clock

Verdict == {"approved", "denied"}
Undecided == "none"
NoCode == "none"

ASSUME DeviceAssumption ==
    /\ NoCode \notin Code \union UserCode
    /\ Kinds \subseteq {"issue", "lookup", "approve", "deny", "poll", "flush"}
    /\ Lifetime \in Nat \ {0} /\ Interval \in Nat \ {0}
    /\ Draws \in Nat \ {0} /\ Limit \in Nat \ {0}
    /\ Retention \in Nat /\ MaxTime \in Nat

VARIABLES
    now,       \* the clock
    index,     \* index[u]: the device code behind user code u, or NoCode
    until,     \* until[u]: when that entry lapses
    kept,      \* kept[c]: when the stored request of c lapses, 0 without one
    label,     \* label[c]: the user code minted with c
    expires,   \* expires[c]: expires_at of the request, 0 before it is minted
    decision,  \* decision[c]: the value of the decision key
    polled,    \* polled[c]: when the poll key of c lapses
    misses,    \* the attempt counter of the person
    locked,    \* the lock of the person is armed
    forgiven,  \* the one forgiveness of the window is spent
    pc,        \* pc[o]: the call request o makes next
    req,       \* req[o]: what request o holds between two awaits
    first,     \* first[c]: the first verdict a caller was told it had given
    redeemed,  \* redeemed[c]: how many polls were answered with tokens
    guessed,   \* misses counted in the window, forgiven too, until a loss
    flushed    \* the cache has been lost

store == <<index, until, kept, label, expires, decision, polled>>
throttle == <<misses, locked, forgiven, guessed, flushed>>
told == <<first, redeemed>>
vars == <<now, store, throttle, pc, req, told>>

NoRequest == [kind |-> "none", code |-> NoCode, label |-> NoCode, seen |-> Undecided, n |-> 0]

Init ==
    /\ now = 1
    /\ index = [u \in UserCode |-> NoCode]
    /\ until = [u \in UserCode |-> 0]
    /\ kept = [c \in Code |-> 0]
    /\ label = [c \in Code |-> NoCode]
    /\ expires = [c \in Code |-> 0]
    /\ decision = [c \in Code |-> Undecided]
    /\ polled = [c \in Code |-> 0]
    /\ misses = 0
    /\ locked = FALSE
    /\ forgiven = FALSE
    /\ pc = [o \in Op |-> "idle"]
    /\ req = [o \in Op |-> NoRequest]
    /\ first = [c \in Code |-> Undecided]
    /\ redeemed = [c \in Code |-> 0]
    /\ guessed = 0
    /\ flushed = FALSE

Goto(o, l) == pc' = [pc EXCEPT ![o] = l]

Finish(o) ==
    /\ Goto(o, "idle")
    /\ req' = [req EXCEPT ![o] = NoRequest]

Indexed(u) == index[u] # NoCode /\ now < until[u]
Stored(c) == now < kept[c]
Expired(c) == expires[c] <= now

(* What a read of the decision key gives: it lapses with the retention.    *)
Decided(c) == IF now < expires[c] + Retention THEN decision[c] ELSE Undecided

-----------------------------------------------------------------------------
(* POST /device_authorization: issue, save.                                *)

Issue(o, c, u) ==
    /\ "issue" \in Kinds
    /\ pc[o] = "idle"
    /\ label[c] = NoCode
    /\ \A p \in Op : req[p].code # c
    /\ req' = [req EXCEPT ![o] = [NoRequest EXCEPT !.kind = "issue", !.code = c, !.label = u]]
    /\ Goto(o, "index")
    /\ UNCHANGED <<now, store, throttle, told>>

AddIndex(o) ==
    LET c == req[o].code
        u == req[o].label
    IN
    /\ pc[o] = "index"
    /\ ~Indexed(u)
    /\ index' = [index EXCEPT ![u] = c]
    /\ until' = [until EXCEPT ![u] = now + Lifetime]
    /\ label' = [label EXCEPT ![c] = u]
    /\ expires' = [expires EXCEPT ![c] = now + Lifetime]
    /\ Goto(o, "store")
    /\ UNCHANGED <<now, kept, decision, polled, throttle, req, told>>

(* The user code is taken: another is drawn, a few times.                  *)
Redraw(o, u) ==
    /\ pc[o] = "index"
    /\ Indexed(req[o].label)
    /\ IF req[o].n + 1 < Draws
       THEN req' = [req EXCEPT ![o].label = u, ![o].n = @ + 1] /\ UNCHANGED pc
       ELSE Finish(o)
    /\ UNCHANGED <<now, store, throttle, told>>

Store(o) ==
    LET c == req[o].code IN
    /\ pc[o] = "store"
    /\ kept' = [kept EXCEPT ![c] = now + Lifetime + Retention]
    /\ Finish(o)
    /\ UNCHANGED <<now, index, until, label, expires, decision, polled, throttle, told>>

-----------------------------------------------------------------------------
(* The page: lookup, approve and deny resolve the user code first.         *)

Enter(o, k, u) ==
    /\ k \in Kinds \intersect {"lookup", "approve", "deny"}
    /\ pc[o] = "idle"
    /\ req' = [req EXCEPT ![o] = [NoRequest EXCEPT !.kind = k, !.label = u]]
    /\ Goto(o, "throttle")
    /\ UNCHANGED <<now, store, throttle, told>>

LookupThrottle(o) ==
    /\ pc[o] = "throttle"
    /\ IF locked THEN Finish(o) ELSE Goto(o, "findIndex") /\ UNCHANGED req
    /\ UNCHANGED <<now, store, throttle, told>>

FindByUserCode(o) ==
    LET u == req[o].label IN
    /\ pc[o] = "findIndex"
    /\ IF Indexed(u)
       THEN Goto(o, "find") /\ req' = [req EXCEPT ![o].code = index[u]]
       ELSE Goto(o, "miss") /\ UNCHANGED req
    /\ UNCHANGED <<now, store, throttle, told>>

(* findOneById reads the request, then the decision.  A poll on nothing is *)
(* refused, a lookup of nothing is a miss.                                 *)
FindRequest(o) ==
    /\ pc[o] = "find"
    /\ IF Stored(req[o].code) THEN Goto(o, "findDecision") /\ UNCHANGED req
       ELSE IF req[o].kind = "poll" THEN Finish(o)
       ELSE Goto(o, "miss") /\ UNCHANGED req
    /\ UNCHANGED <<now, store, throttle, told>>

FindDecision(o) ==
    LET c == req[o].code IN
    /\ pc[o] = "findDecision"
    /\ req' = [req EXCEPT ![o].seen = Decided(c)]
    /\ Goto(o, IF req[o].kind # "poll" THEN "judge"
               ELSE IF Expired(c) THEN "remove" ELSE "touch")
    /\ UNCHANGED <<now, store, throttle, told>>

Pending(o) == req[o].seen = Undecided /\ ~Expired(req[o].code)

(* A decided or expired request is a miss, and so is one whose client is   *)
(* missing or inactive.                                                    *)
JudgeMiss(o) ==
    /\ pc[o] = "judge"
    /\ Goto(o, "miss")
    /\ UNCHANGED <<now, store, throttle, req, told>>

(* The realm binding or, for an approval, the gate refuses; a lookup ends. *)
JudgeRefuse(o) ==
    /\ pc[o] = "judge"
    /\ Pending(o)
    /\ Finish(o)
    /\ UNCHANGED <<now, store, throttle, told>>

JudgePass(o) ==
    /\ pc[o] = "judge"
    /\ req[o].kind # "lookup"
    /\ Pending(o)
    /\ Goto(o, "decide")
    /\ UNCHANGED <<now, store, throttle, req, told>>

(* Mutant of AtLimit: the misses are counted and the lock is never armed.  *)
NeverAtLimit(n) == FALSE

AtLimit(n) == n >= Limit

CountMiss(o) ==
    /\ pc[o] = "miss"
    /\ misses' = misses + 1
    /\ guessed' = IF flushed THEN guessed ELSE guessed + 1
    /\ IF AtLimit(misses + 1) THEN Goto(o, "lock") /\ UNCHANGED req ELSE Finish(o)
    /\ UNCHANGED <<now, store, locked, forgiven, flushed, told>>

Lock(o) ==
    /\ pc[o] = "lock"
    /\ locked' = TRUE
    /\ Finish(o)
    /\ UNCHANGED <<now, store, misses, forgiven, guessed, flushed, told>>

-----------------------------------------------------------------------------
(* The decision: written once, then the user code goes and the misses are  *)
(* forgiven once a window.                                                 *)

(* Mutant of MayDecide: the key is overwritten.                            *)
MayDecideAgain(c) == ~Expired(c)

MayDecide(c) == ~Expired(c) /\ decision[c] = Undecided

(* Mutant of Given: the name of the operation is stored.                   *)
GivenName(o) == req[o].kind

Given(o) == IF req[o].kind = "approve" THEN "approved" ELSE "denied"

Decide(o) ==
    LET c == req[o].code IN
    /\ pc[o] = "decide"
    /\ MayDecide(c)
    /\ decision' = [decision EXCEPT ![c] = Given(o)]
    /\ first' = [first EXCEPT ![c] = IF @ = Undecided THEN Given(o) ELSE @]
    /\ Goto(o, "unindex")
    /\ UNCHANGED <<now, index, until, kept, label, expires, polled, throttle, req, redeemed>>

DecideRefused(o) ==
    /\ pc[o] = "decide"
    /\ ~MayDecide(req[o].code)
    /\ Finish(o)
    /\ UNCHANGED <<now, store, throttle, told>>

RemoveUserCode(o) ==
    /\ pc[o] = "unindex"
    /\ index' = [index EXCEPT ![label[req[o].code]] = NoCode]
    /\ Goto(o, "forgive")
    /\ UNCHANGED <<now, until, kept, label, expires, decision, polled, throttle, req, told>>

HasMisses(o) ==
    /\ pc[o] = "forgive"
    /\ IF misses > 0 THEN Goto(o, "claim") /\ UNCHANGED req ELSE Finish(o)
    /\ UNCHANGED <<now, store, throttle, told>>

ClaimReset(o) ==
    /\ pc[o] = "claim"
    /\ forgiven' = TRUE
    /\ IF forgiven THEN Finish(o) ELSE Goto(o, "drop") /\ UNCHANGED req
    /\ UNCHANGED <<now, store, misses, locked, guessed, flushed, told>>

DropMisses(o) ==
    /\ pc[o] = "drop"
    /\ misses' = 0
    /\ Finish(o)
    /\ UNCHANGED <<now, store, locked, forgiven, guessed, flushed, told>>

-----------------------------------------------------------------------------
(* The poll: OAuth2DeviceCodeVerifier.verify, by the client the code was   *)
(* answered to: a poll of another is refused after the reads.              *)

Poll(o, c) ==
    /\ "poll" \in Kinds
    /\ pc[o] = "idle"
    /\ expires[c] # 0
    /\ \A p \in Op : ~(req[p].kind = "issue" /\ req[p].code = c)
    /\ req' = [req EXCEPT ![o] = [NoRequest EXCEPT !.kind = "poll", !.code = c]]
    /\ Goto(o, "find")
    /\ UNCHANGED <<now, store, throttle, told>>

Remove(o) ==
    LET c == req[o].code IN
    /\ pc[o] = "remove"
    /\ kept' = [kept EXCEPT ![c] = 0]
    /\ decision' = [decision EXCEPT ![c] = Undecided]
    /\ polled' = [polled EXCEPT ![c] = 0]
    /\ Finish(o)
    /\ UNCHANGED <<now, index, until, label, expires, throttle, told>>

(* Mutant of TouchPoll: a pending request is popped as well.               *)
TouchPollEager(o) ==
    LET c == req[o].code IN
    /\ pc[o] = "touch"
    /\ IF now < polled[c]
       THEN Finish(o) /\ UNCHANGED polled
       ELSE /\ polled' = [polled EXCEPT ![c] = now + Interval]
            /\ Goto(o, "pop") /\ UNCHANGED req
    /\ UNCHANGED <<now, index, until, kept, label, expires, decision, throttle, told>>

TouchPoll(o) ==
    LET c == req[o].code IN
    /\ pc[o] = "touch"
    /\ IF now < polled[c]
       THEN Finish(o) /\ UNCHANGED polled
       ELSE /\ polled' = [polled EXCEPT ![c] = now + Interval]
            /\ IF req[o].seen = Undecided THEN Finish(o) ELSE Goto(o, "pop") /\ UNCHANGED req
    /\ UNCHANGED <<now, index, until, kept, label, expires, decision, throttle, told>>

(* Mutant of PopRequest: a read where the request must be taken.           *)
PopRequestKept(o) ==
    /\ pc[o] = "pop"
    /\ IF Stored(req[o].code) THEN Goto(o, "popDecision") /\ UNCHANGED req ELSE Finish(o)
    /\ UNCHANGED <<now, store, throttle, told>>

PopRequest(o) ==
    LET c == req[o].code IN
    /\ pc[o] = "pop"
    /\ IF Stored(c) THEN Goto(o, "popDecision") /\ UNCHANGED req ELSE Finish(o)
    /\ kept' = [kept EXCEPT ![c] = 0]
    /\ UNCHANGED <<now, index, until, label, expires, decision, polled, throttle, told>>

(* An approval is answered by what is popped; a denial stays a denial.     *)
PopDecision(o) ==
    LET c == req[o].code IN
    /\ pc[o] = "popDecision"
    /\ decision' = [decision EXCEPT ![c] = Undecided]
    /\ req' = [req EXCEPT ![o].seen = IF @ = "approved" THEN Decided(c) ELSE @]
    /\ Goto(o, "dropPoll")
    /\ UNCHANGED <<now, index, until, kept, label, expires, polled, throttle, told>>

(* The last call of the pop; an approved request is exchanged for tokens.  *)
DropPoll(o) ==
    LET c == req[o].code IN
    /\ pc[o] = "dropPoll"
    /\ polled' = [polled EXCEPT ![c] = 0]
    /\ redeemed' = [redeemed EXCEPT ![c] = IF req[o].seen = "approved" THEN @ + 1 ELSE @]
    /\ Finish(o)
    /\ UNCHANGED <<now, index, until, kept, label, expires, decision, throttle, first>>

-----------------------------------------------------------------------------
(* Any awaited call may reject and the process may die between two.        *)
Fail(o) ==
    /\ pc[o] \notin {"idle", "failed"}
    /\ Goto(o, "failed")
    /\ UNCHANGED <<now, store, throttle, req, told>>

(* The cache is flushed: every flow in it is gone.                         *)
CacheLoss ==
    /\ "flush" \in Kinds
    /\ index' = [u \in UserCode |-> NoCode]
    /\ kept' = [c \in Code |-> 0]
    /\ decision' = [c \in Code |-> Undecided]
    /\ polled' = [c \in Code |-> 0]
    /\ misses' = 0
    /\ flushed' = TRUE
    /\ locked' = FALSE
    /\ forgiven' = FALSE
    /\ UNCHANGED <<now, until, label, expires, guessed, pc, req, told>>

Tick ==
    /\ now < MaxTime
    /\ now' = now + 1
    /\ UNCHANGED <<store, throttle, pc, req, told>>

Step(o) ==
    \/ AddIndex(o) \/ Store(o)
    \/ LookupThrottle(o) \/ FindByUserCode(o) \/ FindRequest(o) \/ FindDecision(o)
    \/ JudgeMiss(o) \/ JudgeRefuse(o) \/ JudgePass(o) \/ CountMiss(o) \/ Lock(o)
    \/ Decide(o) \/ DecideRefused(o) \/ RemoveUserCode(o)
    \/ HasMisses(o) \/ ClaimReset(o) \/ DropMisses(o)
    \/ Remove(o) \/ TouchPoll(o) \/ PopRequest(o) \/ PopDecision(o) \/ DropPoll(o)

Next ==
    \/ \E o \in Op, c \in Code : Poll(o, c) \/ \E u \in UserCode : Issue(o, c, u)
    \/ \E o \in Op, u \in UserCode : Redraw(o, u) \/ \E k \in Kinds : Enter(o, k, u)
    \/ \E o \in Op : Step(o) \/ Fail(o)
    \/ CacheLoss
    \/ Tick

Spec == Init /\ [][Next]_vars

-----------------------------------------------------------------------------
(* Properties.                                                             *)

Label == {"idle", "failed", "index", "store", "throttle", "findIndex", "find", "findDecision",
          "judge", "miss", "lock", "decide", "unindex", "forgive", "claim", "drop",
          "remove", "touch", "pop", "popDecision", "dropPoll"}
Request == [kind : Kinds \union {"none"}, code : Code \union {NoCode},
            label : UserCode \union {NoCode}, seen : Verdict \union {Undecided}, n : Nat]

(* The keys and the requests in flight are well formed.                    *)
TypeOK ==
    /\ now \in Nat
    /\ index \in [UserCode -> Code \union {NoCode}]
    /\ until \in [UserCode -> Nat]
    /\ kept \in [Code -> Nat]
    /\ label \in [Code -> UserCode \union {NoCode}]
    /\ expires \in [Code -> Nat]
    /\ decision \in [Code -> Verdict \union {Undecided}]
    /\ polled \in [Code -> Nat]
    /\ misses \in Nat /\ guessed \in Nat
    /\ locked \in BOOLEAN /\ forgiven \in BOOLEAN /\ flushed \in BOOLEAN
    /\ pc \in [Op -> Label]
    /\ req \in [Op -> Request]
    /\ first \in [Code -> Verdict \union {Undecided}]
    /\ redeemed \in [Code -> Nat]

(* A device code is exchanged for tokens at most once, and only when the   *)
(* first verdict given on it was an approval: polls, approvals, denials    *)
(* and the expiry may race in any order.                                   *)
RedeemedOnce == \A c \in Code : redeemed[c] <= 1 /\ (redeemed[c] = 1 => first[c] = "approved")

(* As long as the request can be redeemed, the decision the device reads   *)
(* is the first one given: no later decision, and no concurrent poll,      *)
(* changes or removes it under a request that is still there.              *)
DecisionBinds == \A c \in Code : Stored(c) /\ ~Expired(c) => decision[c] = first[c]

(* An approval waits for the device until the request expires: no early    *)
(* poll, no poll that is told to slow down and no second decision loses    *)
(* it.  It is lost to a poll that failed half way and to a cache loss.     *)
ApprovalKept == \A c \in Code :
    first[c] = "approved" /\ redeemed[c] = 0 /\ ~Expired(c) /\ ~flushed =>
        \/ Stored(c) /\ decision[c] = "approved"
        \/ \E p \in Op : /\ req[p].kind = "poll"
                         /\ req[p].code = c
                         /\ pc[p] \in {"popDecision", "dropPoll", "failed"}

(* Misses a person may have counted in a window: the limit, one forgiven   *)
(* round short of it, and one for every other lookup that passed the       *)
(* throttle before the lock was armed or failed to arm it.  A comment of   *)
(* the repository puts it at 19 for a limit of 10, as for one at a time.   *)
MissesBounded == guessed <= 2 * Limit - 1 + (Cardinality(Op) - 1)

=============================================================================
