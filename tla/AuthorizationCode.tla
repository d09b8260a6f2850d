-------------------------- MODULE AuthorizationCode --------------------------
(***************************************************************************)
(* The authorization code grant: a code is minted at /authorize for the    *)
(* session of the browser, or for none (HTTP Basic), and redeemed at the   *)
(* token endpoint (core/oauth2/authorization/code, grant-types/authorize). *)
(*                                                                         *)
(* A code is a cache entry.  Its session may be revoked, its subject       *)
(* deactivated and a second factor confirmed between any two awaits of a   *)
(* redemption.  Codes, sessions and requests are of one subject: the       *)
(* comparisons of subject and realm (isTokenSession) hold throughout.      *)
(***************************************************************************)
EXTENDS Naturals, FiniteSets

CONSTANTS
    Code,     \* authorization codes, drawn once
    Session,  \* session ids, drawn once
    Op        \* requests in flight

NoSession == "none"

CodeAssumption == Code # {} /\ NoSession \notin Session

VARIABLES
    entry,    \* entry[c]: the cache entry of code c
    names,    \* names[c]: the session_id on the code, or NoSession
    session,  \* session[s]: its row and cached copy
    active,   \* the subject is active
    owed,     \* the subject holds a confirmed second factor
    pc,       \* pc[o]: the call request o makes next
    req,      \* req[o]: what request o holds between two awaits
    paid      \* paid[c]: how many redemptions were answered with tokens

env == <<session, active, owed>>
vars == <<entry, names, env, pc, req, paid>>

NoRequest == [code |-> CHOOSE c \in Code : TRUE, fits |-> FALSE, sid |-> NoSession,
              late |-> FALSE, warned |-> FALSE]

Init ==
    /\ entry = [c \in Code |-> "none"]
    /\ names = [c \in Code |-> NoSession]
    /\ session = [s \in Session |-> "free"]
    /\ active = TRUE
    /\ owed = FALSE
    /\ pc = [o \in Op |-> "idle"]
    /\ req = [o \in Op |-> NoRequest]
    /\ paid = [c \in Code |-> 0]

Goto(o, label) == pc' = [pc EXCEPT ![o] = label]

(* The request is answered or refused: what it held is garbage.            *)
Finish(o) ==
    /\ Goto(o, "idle")
    /\ req' = [req EXCEPT ![o] = NoRequest]

(* A session whose row is removed stays readable while its copy is cached. *)
Row(s) == session[s] = "live"
Readable(s) == session[s] \in {"live", "cached"}

-----------------------------------------------------------------------------
(* POST /authorize: OAuth2AuthorizationGate.evaluate, then                 *)
(* OAuth2AuthorizationCodeIssuer.issue.  A browser whose session proved    *)
(* its factor is admitted; a request without a session cannot carry one.   *)

Admit(o, c, s) ==
    /\ pc[o] = "idle"
    /\ entry[c] = "none"
    /\ \A p \in Op : pc[p] = "save" => req[p].code # c
    /\ active
    /\ IF s = NoSession THEN ~owed ELSE Readable(s)
    /\ req' = [req EXCEPT ![o] = [NoRequest EXCEPT !.code = c, !.sid = s]]
    /\ Goto(o, "save")
    /\ UNCHANGED <<entry, names, env, paid>>

Save(o) ==
    LET c == req[o].code IN
    /\ pc[o] = "save"
    /\ entry' = [entry EXCEPT ![c] = "open"]
    /\ names' = [names EXCEPT ![c] = req[o].sid]
    /\ Finish(o)
    /\ UNCHANGED <<env, paid>>

-----------------------------------------------------------------------------
(* POST /token: HTTPOAuth2AuthorizeGrant, OAuth2AuthorizationCodeVerifier. *)

(* The client is authenticated.  fits: the client, the redirect URI and    *)
(* the PKCE verifier are the ones of the code.                             *)
Present(o, c, fits) ==
    /\ pc[o] = "idle"
    /\ entry[c] # "none"
    /\ req' = [req EXCEPT ![o] =
                 [NoRequest EXCEPT !.code = c, !.fits = fits,
                     !.late = names[c] # NoSession /\ session[names[c]] = "gone"]]
    /\ Goto(o, "pop")
    /\ UNCHANGED <<entry, names, env, paid>>

(* Mutant of Pop: findOneById, which leaves the entry to lapse.            *)
PopKept(o) ==
    /\ pc[o] = "pop"
    /\ IF entry[req[o].code] = "open" /\ req[o].fits
       THEN Goto(o, "policy") /\ UNCHANGED req
       ELSE Finish(o)
    /\ UNCHANGED <<entry, names, env, paid>>

(* popOneById reads and removes in one call, before anything is compared:  *)
(* an attempt that does not fit uses the code up.                          *)
Pop(o) ==
    LET c == req[o].code IN
    /\ pc[o] = "pop"
    /\ entry' = [entry EXCEPT ![c] = "gone"]
    /\ IF entry[c] = "open" /\ req[o].fits
       THEN Goto(o, "policy") /\ UNCHANGED req
       ELSE Finish(o)
    /\ UNCHANGED <<names, env, paid>>

(* assertAccessPolicyBackstop: the application may refuse the subject.     *)
Policy(o) ==
    /\ pc[o] = "policy"
    /\ \/ Goto(o, "subject") /\ UNCHANGED req
       \/ Finish(o)
    /\ UNCHANGED <<entry, names, env, paid>>

Subject(o) ==
    /\ pc[o] = "subject"
    /\ IF active
       THEN Goto(o, IF names[req[o].code] = NoSession THEN "create" ELSE "find") /\ UNCHANGED req
       ELSE Finish(o)
    /\ UNCHANGED <<entry, names, env, paid>>

-----------------------------------------------------------------------------
(* OAuth2AuthorizeGrant.resolveSession.                                    *)

(* Mutant of Find: a code whose session is gone gets a session of its own. *)
FindOrCreate(o) ==
    LET s == names[req[o].code] IN
    /\ pc[o] = "find"
    /\ IF Readable(s)
       THEN Goto(o, "refresh") /\ req' = [req EXCEPT ![o].sid = s]
       ELSE Goto(o, "create") /\ UNCHANGED req
    /\ UNCHANGED <<entry, names, env, paid>>

Find(o) ==
    LET s == names[req[o].code] IN
    /\ pc[o] = "find"
    /\ IF Readable(s)
       THEN Goto(o, "refresh") /\ req' = [req EXCEPT ![o].sid = s]
       ELSE Finish(o)
    /\ UNCHANGED <<entry, names, env, paid>>

(* The update meets no row when the session was revoked meanwhile: the JWT *)
(* error is answered as invalid_grant.                                     *)
Refresh(o) ==
    /\ pc[o] = "refresh"
    /\ IF Row(req[o].sid) THEN Goto(o, "access") /\ UNCHANGED req ELSE Finish(o)
    /\ UNCHANGED <<entry, names, env, paid>>

Create(o, s) ==
    /\ pc[o] = "create"
    /\ session[s] = "free"
    /\ session' = [session EXCEPT ![s] = "live"]
    /\ req' = [req EXCEPT ![o].sid = s, ![o].warned = owed]
    /\ Goto(o, "recheck")
    /\ UNCHANGED <<entry, names, active, owed, paid>>

(* Mutant of Recheck: the gate of /authorize is relied upon.               *)
NoRecheck(o) ==
    /\ pc[o] = "recheck"
    /\ Goto(o, "access")
    /\ UNCHANGED <<entry, names, env, req, paid>>

(* revokeIfSecondFactorOwed: a factor confirmed before this read is owed.  *)
Recheck(o) ==
    /\ pc[o] = "recheck"
    /\ Goto(o, IF owed THEN "revoke" ELSE "access")
    /\ UNCHANGED <<entry, names, env, req, paid>>

Revoke(o) ==
    /\ pc[o] = "revoke"
    /\ session' = [session EXCEPT ![req[o].sid] = "gone"]
    /\ Finish(o)
    /\ UNCHANGED <<entry, names, active, owed, paid>>

-----------------------------------------------------------------------------
(* Both tokens: each inserts its auth_session_tokens row, which references *)
(* the session row.  The insert of a session that went away fails.         *)

Access(o) ==
    /\ pc[o] = "access"
    /\ Row(req[o].sid)
    /\ Goto(o, "token")
    /\ UNCHANGED <<entry, names, env, req, paid>>

Answer(o) ==
    /\ pc[o] = "token"
    /\ Row(req[o].sid)
    /\ paid' = [paid EXCEPT ![req[o].code] = @ + 1]
    /\ Finish(o)
    /\ UNCHANGED <<entry, names, env>>

Orphaned(o) ==
    /\ pc[o] \in {"access", "token"}
    /\ ~Row(req[o].sid)
    /\ Finish(o)
    /\ UNCHANGED <<entry, names, env, paid>>

(* Any awaited call may reject: the request ends where it is, and what it  *)
(* wrote stays.                                                            *)
Fail(o) ==
    /\ pc[o] # "idle"
    /\ Finish(o)
    /\ UNCHANGED <<entry, names, env, paid>>

-----------------------------------------------------------------------------
(* What happens around the requests: a login, a revocation in its two      *)
(* steps, a deactivation, a factor confirmed and removed, an entry lapsed. *)

Login(s) ==
    /\ session[s] = "free"
    /\ session' = [session EXCEPT ![s] = "live"]
    /\ UNCHANGED <<entry, names, active, owed, pc, req, paid>>

End(s) ==
    /\ session' = [session EXCEPT ![s] =
                     CASE @ = "live" -> "cached" [] @ = "cached" -> "gone" [] OTHER -> @]
    /\ session[s] \in {"live", "cached"}
    /\ UNCHANGED <<entry, names, active, owed, pc, req, paid>>

Deactivate ==
    /\ active
    /\ active' = FALSE
    /\ UNCHANGED <<entry, names, session, owed, pc, req, paid>>

(* Removing the factor excuses the redemptions it would have stopped.      *)
Factor ==
    /\ owed' = ~owed
    /\ req' = IF owed THEN [o \in Op |-> [req[o] EXCEPT !.warned = FALSE]] ELSE req
    /\ UNCHANGED <<entry, names, session, active, pc, paid>>

Lapse(c) ==
    /\ entry[c] = "open"
    /\ entry' = [entry EXCEPT ![c] = "gone"]
    /\ UNCHANGED <<names, env, pc, req, paid>>

Redeem(o) ==
    \/ Pop(o) \/ Policy(o) \/ Subject(o)
    \/ Find(o) \/ Refresh(o) \/ Recheck(o) \/ Revoke(o)
    \/ \E s \in Session : Create(o, s)
    \/ Access(o) \/ Answer(o) \/ Orphaned(o)

Next ==
    \/ \E o \in Op, c \in Code :
         \/ \E s \in Session \union {NoSession} : Admit(o, c, s)
         \/ \E fits \in BOOLEAN : Present(o, c, fits)
    \/ \E o \in Op : Save(o) \/ Redeem(o) \/ Fail(o)
    \/ \E s \in Session : Login(s) \/ End(s)
    \/ \E c \in Code : Lapse(c)
    \/ Deactivate
    \/ Factor

Spec == Init /\ [][Next]_vars

-----------------------------------------------------------------------------
TypeOK ==
    /\ entry \in [Code -> {"none", "open", "gone"}]
    /\ names \in [Code -> Session \union {NoSession}]
    /\ session \in [Session -> {"free", "live", "cached", "gone"}]
    /\ active \in BOOLEAN /\ owed \in BOOLEAN
    /\ pc \in [Op -> {"idle", "save", "pop", "policy", "subject", "find", "refresh",
                      "create", "recheck", "revoke", "access", "token"}]
    /\ req \in [Op -> [code : Code, fits : BOOLEAN, sid : Session \union {NoSession},
                       late : BOOLEAN, warned : BOOLEAN]]
    /\ paid \in [Code -> Nat]

(* A redemption that began once the session its code names was revoked is  *)
(* never about to be answered: no session is minted in its place.          *)
RevokedCodeRefused ==
    \A o \in Op : pc[o] \in {"create", "recheck", "access", "token"} => ~req[o].late

(* A redemption that inserted its own session while the second factor was  *)
(* confirmed is never about to be answered on it, unless the factor was    *)
(* removed since: such a session cannot carry the proof.                   *)
FactorOwedRefused ==
    \A o \in Op : pc[o] \in {"access", "token"} => ~req[o].warned

(* The codes are vouchers: one redemption takes a code, and it is answered *)
(* once at most, whatever the other redemptions of it do.                  *)
Redeeming(c) ==
    \E o \in Op : pc[o] \notin {"idle", "save", "pop"} /\ req[o].code = c

State(c) ==
    CASE entry[c] = "none" -> "new"
      [] entry[c] = "open" -> "open"
      [] paid[c] > 0 -> IF paid[c] = 1 THEN "paid" ELSE "overpaid"
      [] OTHER -> IF Redeeming(c) THEN "taken" ELSE "void"

Codes == INSTANCE Voucher WITH Item <- Code, state <- [c \in Code |-> State(c)]

ImplementsVoucher == Codes!Spec

=============================================================================
