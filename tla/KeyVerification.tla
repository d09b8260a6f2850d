--------------------------- MODULE KeyVerification ---------------------------
(***************************************************************************)
(* Token verification by a signing key that an administrator disables,     *)
(* enables again or deletes (core/oauth2/token/verifier, KeyService,       *)
(* OAuth2TokenRepository).                                                 *)
(*                                                                         *)
(* The key's row is the authority, but a payload that was verified once is *)
(* cached by its token and served without asking the key.  A mark in the   *)
(* cache makes up for that, and another one ends a single token.  Each of  *)
(* the three entries lapses on its own.  An action is one cache or         *)
(* database call.                                                          *)
(***************************************************************************)
EXTENDS Naturals

CONSTANTS
    Token,     \* tokens of the one key
    Op,        \* requests in flight
    Lifetime,  \* what buildExp adds, the longest maxAge configured
    Fallback,  \* CLAIMS_FALLBACK_TTL
    Leeway,    \* clock leeway of the JWT library
    MaxTime    \* bound of the clock

NoToken == "none"
Unset == "unset"
Stopped == {"disabled", "gone"}
Status == {"active", "passive"} \union Stopped

ASSUME KeyAssumption ==
    /\ NoToken \notin Token
    /\ Lifetime \in Nat \ {0} /\ Fallback \in Nat \ {0}
    /\ Leeway \in Nat /\ MaxTime \in Nat

VARIABLES
    now,       \* the clock
    status,    \* the status of the key's row, "gone" once it is deleted
    mark,      \* when KEY_INACTIVE lapses, 0 without one
    exp,       \* exp[t]: the exp of t, 0 before it is signed
    claims,    \* claims[t]: when the payload cached for t lapses
    inactive,  \* inactive[t]: when TOKEN_INACTIVE of t lapses
    revoked,   \* tokens whose revocation was answered
    pc,        \* pc[o]: the call request o makes next
    req,       \* req[o]: what request o holds between two awaits
    orderly    \* no update of the key met another, or one that failed half way

vars == <<now, status, mark, exp, claims, inactive, revoked, pc, req, orderly>>
row == <<status, mark, orderly>>
tokens == <<exp, claims, inactive, revoked>>

(* "late", "dead" and "spent": the request began after the key had         *)
(* stopped, after its token had been revoked, after that had expired.      *)
NoRequest == [kind |-> "none", tok |-> NoToken, exp |-> 0, from |-> Unset, to |-> Unset,
              late |-> FALSE, dead |-> FALSE, spent |-> FALSE]

Init ==
    /\ now = 1
    /\ status = "active"
    /\ mark = 0
    /\ exp = [t \in Token |-> 0]
    /\ claims = [t \in Token |-> 0]
    /\ inactive = [t \in Token |-> 0]
    /\ revoked = {}
    /\ pc = [o \in Op |-> "idle"]
    /\ req = [o \in Op |-> NoRequest]
    /\ orderly = TRUE

Goto(o, l) == pc' = [pc EXCEPT ![o] = l]

Finish(o) ==
    /\ Goto(o, "idle")
    /\ req' = [req EXCEPT ![o] = NoRequest]

(* Mutant of Ttl: every entry is kept for the fallback.                    *)
TtlFallback(e) == Fallback

(* buildTTL: the rest of the token's life, or the fallback.                *)
Ttl(e) == IF e > now THEN e - now ELSE Fallback

(* Mutant of MarkAge: the lifetime of the tokens is not looked at.         *)
MarkAgeFallback == Fallback

MarkAge == IF Lifetime > Fallback THEN Lifetime ELSE Fallback

(* No update or delete of the key is under way, or failed half way.        *)
Administering == {"update", "delete"}
Settled == \A o \in Op : req[o].kind \notin Administering

-----------------------------------------------------------------------------
(* An issuer draws the exp, signs with the active key, caches the payload. *)

Issue(o, t) ==
    /\ pc[o] = "idle"
    /\ exp[t] = 0
    /\ \A p \in Op : req[p].tok # t
    /\ req' = [req EXCEPT ![o] = [NoRequest EXCEPT !.kind = "issue", !.tok = t,
                                                   !.exp = now + Lifetime]]
    /\ Goto(o, "sign")
    /\ UNCHANGED <<now, row, tokens>>

(* Without an active key the signing fails or falls to another key.        *)
Sign(o) ==
    /\ pc[o] = "sign"
    /\ IF status = "active"
       THEN /\ exp' = [exp EXCEPT ![req[o].tok] = req[o].exp]
            /\ Goto(o, "cache") /\ UNCHANGED req
       ELSE Finish(o) /\ UNCHANGED exp
    /\ UNCHANGED <<now, row, claims, inactive, revoked>>

CacheIssued(o) ==
    LET t == req[o].tok IN
    /\ pc[o] = "cache"
    /\ claims' = [claims EXCEPT ![t] = now + Ttl(exp[t])]
    /\ Finish(o)
    /\ UNCHANGED <<now, row, exp, inactive, revoked>>

-----------------------------------------------------------------------------
(* OAuth2TokenVerifier.verify, for a bearer and, without regard to exp and *)
(* TOKEN_INACTIVE, for POST /token/revoke.                                 *)

Lives(t) == now < exp[t] + Leeway

Present(o, t, k) ==
    /\ pc[o] = "idle"
    /\ exp[t] # 0
    /\ \A p \in Op : ~(req[p].kind = "issue" /\ req[p].tok = t)
    /\ req' = [req EXCEPT ![o] =
                 [NoRequest EXCEPT !.kind = k, !.tok = t,
                                   !.late = Settled /\ status \in Stopped,
                                   !.dead = t \in revoked,
                                   !.spent = ~Lives(t)]]
    /\ Goto(o, "keyMark")
    /\ UNCHANGED <<now, row, tokens>>

CheckKeyMark(o) ==
    /\ pc[o] = "keyMark"
    /\ IF now < mark THEN Finish(o) ELSE Goto(o, "claims") /\ UNCHANGED req
    /\ UNCHANGED <<now, row, tokens>>

FindClaims(o) ==
    /\ pc[o] = "claims"
    /\ Goto(o, IF now >= claims[req[o].tok] THEN "key"
               ELSE IF req[o].kind = "revoke" THEN "revoke" ELSE "inactive")
    /\ UNCHANGED <<now, row, tokens, req>>

(* The key is read and the signature and, for a bearer, exp are verified.  *)
ResolveKey(o) ==
    /\ pc[o] = "key"
    /\ IF status \in Stopped \/ (req[o].kind = "bearer" /\ ~Lives(req[o].tok))
       THEN Finish(o)
       ELSE Goto(o, IF req[o].kind = "bearer" THEN "save" ELSE "revoke") /\ UNCHANGED req
    /\ UNCHANGED <<now, row, tokens>>

SaveClaims(o) ==
    LET t == req[o].tok IN
    /\ pc[o] = "save"
    /\ claims' = [claims EXCEPT ![t] = now + Ttl(exp[t])]
    /\ Goto(o, "inactive")
    /\ UNCHANGED <<now, row, exp, inactive, revoked, req>>

CheckInactive(o) ==
    /\ pc[o] = "inactive"
    /\ IF now < inactive[req[o].tok] THEN Finish(o) ELSE Goto(o, "answer") /\ UNCHANGED req
    /\ UNCHANGED <<now, row, tokens>>

(* The payload is handed to the caller.                                    *)
Answer(o) ==
    /\ pc[o] = "answer"
    /\ Finish(o)
    /\ UNCHANGED <<now, row, tokens>>

(* OAuth2TokenRevoker: TOKEN_INACTIVE is set, and the caller answered.     *)
RevokeToken(o) ==
    LET t == req[o].tok IN
    /\ pc[o] = "revoke"
    /\ inactive' = [inactive EXCEPT ![t] = now + Ttl(exp[t])]
    /\ revoked' = revoked \union {t}
    /\ Finish(o)
    /\ UNCHANGED <<now, row, exp, claims>>

(* A token whose session is gone is not revoked, and answered the same.    *)
RevokeNothing(o) ==
    /\ pc[o] = "revoke"
    /\ Finish(o)
    /\ UNCHANGED <<now, row, tokens>>

-----------------------------------------------------------------------------
(* KeyService.update and delete.  There is no lock: what is said of them   *)
(* below is said of updates that are orderly.                              *)

Administer(o, k, s) ==
    /\ pc[o] = "idle"
    /\ orderly' = (orderly /\ Settled)
    /\ req' = [req EXCEPT ![o] = [NoRequest EXCEPT !.kind = k, !.to = s]]
    /\ Goto(o, "find")
    /\ UNCHANGED <<now, status, mark, tokens>>

Update(o, s) == s \in {"active", "passive", "disabled", Unset} /\ Administer(o, "update", s)
Delete(o) == Administer(o, "delete", "gone")

FindKey(o) ==
    /\ pc[o] = "find"
    /\ IF status = "gone" THEN Finish(o)
       ELSE req' = [req EXCEPT ![o].from = status] /\ Goto(o, "store")
    /\ UNCHANGED <<now, row, tokens>>

(* Mutant of Merged: a status that is not given is written.                *)
MergedBlind(o) == req[o].to

(* An update need not name a status, for one that renames the key.         *)
Merged(o) == IF req[o].to = Unset THEN req[o].from ELSE req[o].to

(* The row is written, then the mark follows where the key stopped or      *)
(* verifies again.  A key that verifies again makes no request late.       *)
StoreKey(o) ==
    LET to == Merged(o)
        from == req[o].from
    IN
    /\ pc[o] = "store"
    /\ status' = to
    /\ req' = [p \in Op |-> IF p = o /\ to = from THEN NoRequest
                            ELSE [req[p] EXCEPT !.late = @ /\ to \in Stopped]]
    /\ Goto(o, IF to = from THEN "idle" ELSE IF to \in Stopped THEN "mark" ELSE "lift")
    /\ UNCHANGED <<now, mark, tokens, orderly>>

SetKeyInactive(o) ==
    /\ pc[o] = "mark"
    /\ mark' = now + MarkAge
    /\ Finish(o)
    /\ UNCHANGED <<now, status, tokens, orderly>>

(* Mutant of DropKeyInactive: only a key that is used again is unmarked.   *)
DropKeyInactiveActive(o) ==
    /\ pc[o] = "lift"
    /\ mark' = IF status = "active" THEN 0 ELSE mark
    /\ Finish(o)
    /\ UNCHANGED <<now, status, tokens, orderly>>

DropKeyInactive(o) ==
    /\ pc[o] = "lift"
    /\ mark' = IF req[o].from = "disabled" THEN 0 ELSE mark
    /\ Finish(o)
    /\ UNCHANGED <<now, status, tokens, orderly>>

-----------------------------------------------------------------------------
(* Any awaited call may reject and the process may die between two.        *)
Fail(o) ==
    /\ pc[o] \notin {"idle", "failed"}
    /\ Goto(o, "failed")
    /\ UNCHANGED <<now, row, tokens, req>>

(* An issuance takes less than the life of its token.                      *)
Tick ==
    /\ now < MaxTime
    /\ \A o \in Op : pc[o] \in {"sign", "cache"} => now + 1 < req[o].exp
    /\ now' = now + 1
    /\ UNCHANGED <<row, tokens, pc, req>>

Step(o) ==
    \/ Sign(o) \/ CacheIssued(o)
    \/ CheckKeyMark(o) \/ FindClaims(o) \/ ResolveKey(o) \/ SaveClaims(o) \/ CheckInactive(o)
    \/ Answer(o) \/ RevokeToken(o) \/ RevokeNothing(o)
    \/ FindKey(o) \/ StoreKey(o) \/ SetKeyInactive(o) \/ DropKeyInactive(o)

Next ==
    \/ \E o \in Op, t \in Token : Issue(o, t) \/ \E k \in {"bearer", "revoke"} : Present(o, t, k)
    \/ \E o \in Op : Step(o) \/ Fail(o) \/ Delete(o) \/ \E s \in Status \union {Unset} : Update(o, s)
    \/ Tick

Spec == Init /\ [][Next]_vars

-----------------------------------------------------------------------------
(* Properties.                                                             *)

Label == {"idle", "failed", "sign", "cache", "keyMark", "claims", "key", "save", "inactive",
          "answer", "revoke", "find", "store", "mark", "lift"}
Request == [kind : {"none", "issue", "bearer", "revoke", "update", "delete"},
            tok : Token \union {NoToken}, exp : Nat, from : Status \union {Unset},
            to : Status \union {Unset}, late : BOOLEAN, dead : BOOLEAN, spent : BOOLEAN]

(* The key, the cache entries and the requests in flight are well formed.  *)
TypeOK ==
    /\ now \in Nat
    /\ status \in Status
    /\ mark \in Nat
    /\ exp \in [Token -> Nat]
    /\ claims \in [Token -> Nat]
    /\ inactive \in [Token -> Nat]
    /\ revoked \subseteq Token
    /\ pc \in [Op -> Label]
    /\ req \in [Op -> Request]
    /\ orderly \in BOOLEAN

(* "A key that stopped verifying (disabled or deleted) has to be refused   *)
(* here, including an entry a verify that resolved the key just before     *)
(* wrote just after": a token that has not expired is not served to a      *)
(* request that began when its key had stopped.                            *)
StopBinds == orderly => \A o \in Op :
    pc[o] = "answer" /\ req[o].late => exp[req[o].tok] <= now

(* A token that has not expired is not served to a request that began when *)
(* its revocation had been answered, whatever had been cached for it and   *)
(* whenever.                                                               *)
RevokeBinds == \A o \in Op :
    pc[o] = "answer" /\ req[o].dead => exp[req[o].tok] <= now

(* Between two updates the mark agrees with the row: a key that verifies   *)
(* is not marked, and the mark of one that stopped outlasts every token it *)
(* signed, the ones whose signing overlapped the update too.               *)
MarkFollowsStatus ==
    orderly /\ Settled => IF status \in Stopped THEN \A t \in Token : exp[t] <= mark ELSE mark <= now

(* "Never populate the shared signature-keyed claims cache on the          *)
(* exp-ignoring path: an expired token would otherwise be re-cached with   *)
(* buildTTL's 1h fallback, and the cache-first branch returns it with no   *)
(* exp re-check" (OAuth2TokenVerifier): a token that had expired when a    *)
(* request began is not served to it.                                      *)
ExpiredRefused == \A o \in Op : pc[o] = "answer" => ~req[o].spent

=============================================================================
