--------------------------- MODULE RefreshRotation ---------------------------
(***************************************************************************)
(* Refresh token rotation (core/oauth2/grant-types/refresh-token.ts) for   *)
(* one session: the token family, the concurrent requests presenting its   *)
(* tokens, the reaction to a replay, and what else ends tokens.            *)
(*                                                                         *)
(* The inventory row of a token is the authority; the cache only carries   *)
(* the inactive marks introspection reads.  The requests interleave at     *)
(* every awaited call.  What the session itself goes through is            *)
(* SessionStore; here it is present or not, and its rows cascade with it.  *)
(***************************************************************************)
EXTENDS Naturals, FiniteSets

CONSTANTS
    Token,    \* jtis of the family's refresh tokens
    Root,     \* the one the login issued
    Op,       \* requests in flight
    Grace,    \* tokenRefreshGracePeriod, 0 when the window is off
    MaxTime   \* bound of the clock

NoToken == "none"

ASSUME RotationAssumption ==
    /\ Root \in Token
    /\ NoToken \notin Token
    /\ Grace \in Nat
    /\ MaxTime \in Nat

VARIABLES
    now,        \* the clock
    alive,      \* the auth_sessions row exists
    row,        \* refresh tokens whose auth_session_tokens row exists
    consumedAt, \* consumedAt[t]: when the row was consumed, 0 if not
    revoked,    \* rows with revokedAt set
    parent,     \* parent[t]: the token t was rotated from
    inactive,   \* tokens marked inactive in the cache
    held,       \* token strings clients hold and may present
    pc,         \* pc[o]: the call request o makes next
    req         \* req[o]: what request o holds between two awaits

vars == <<now, alive, row, consumedAt, revoked, parent, inactive, held, pc, req>>
store == <<row, consumedAt, revoked, parent>>

Drawn == {c \in Token : parent[c] # NoToken} \union {Root}

NoRequest == [tok |-> Root, new |-> Root, at |-> 0, seen |-> {}, late |-> FALSE]

Init ==
    /\ now = 1
    /\ alive = TRUE
    /\ row = {Root}
    /\ consumedAt = [t \in Token |-> 0]
    /\ revoked = {}
    /\ parent = [t \in Token |-> NoToken]
    /\ inactive = {}
    /\ held = {Root}
    /\ pc = [o \in Op |-> "idle"]
    /\ req = [o \in Op |-> NoRequest]

Goto(o, label) == pc' = [pc EXCEPT ![o] = label]

Finish(o) ==
    /\ Goto(o, "idle")
    /\ req' = [req EXCEPT ![o] = NoRequest]

-----------------------------------------------------------------------------
Spent(t) == consumedAt[t] # 0
HasConsumedChild(t) == \E c \in row : parent[c] = t /\ Spent(c)

Lapsed(t, at) == at > consumedAt[t] + Grace

(* A token that must never be exchanged again: its session is gone, it was *)
(* revoked, or it was spent and the grace window does not cover it.        *)
Stale(t) ==
    \/ ~alive
    \/ t \in revoked
    \/ Spent(t) /\ (Grace = 0 \/ Lapsed(t, now) \/ HasConsumedChild(t))

(* A client, or whoever else holds the string, presents a token.  The      *)
(* checks that read no family state (signature, expiry, kind, subject)     *)
(* refuse a request before it gets here.                                   *)
Present(o, t) ==
    /\ pc[o] = "idle"
    /\ t \in held
    /\ req' = [req EXCEPT ![o] = [NoRequest EXCEPT !.tok = t, !.late = Stale(t)]]
    /\ Goto(o, "lookup")
    /\ UNCHANGED <<now, alive, store, inactive, held>>

Lookup(o) ==
    LET t == req[o].tok IN
    /\ pc[o] = "lookup"
    /\ IF t \in row /\ t \notin revoked
       THEN Goto(o, "session") /\ UNCHANGED req
       ELSE Finish(o)
    /\ UNCHANGED <<now, alive, store, inactive, held>>

(* The session may still answer from the cache after its row is gone (see  *)
(* SessionStore), so finding it proves nothing.  The time the token is     *)
(* consumed at is read here, before the UPDATE that stores it.             *)
FindSession(o) ==
    /\ pc[o] = "session"
    /\ req' = [req EXCEPT ![o].at = now]
    /\ Goto(o, "consume")
    /\ UNCHANGED <<now, alive, store, inactive, held>>

SessionGone(o) ==
    /\ pc[o] = "session"
    /\ ~alive
    /\ Finish(o)
    /\ UNCHANGED <<now, alive, store, inactive, held>>

-----------------------------------------------------------------------------
(* markRefreshConsumed: one conditional UPDATE.  Losing it is a replay, or *)
(* with a grace window perhaps a benign race.                              *)

(* Mutant of Consumable: the UPDATE without its consumedAt IS NULL.        *)
ConsumableSpent(t) == t \in row /\ t \notin revoked

Consumable(t) == t \in row /\ ~Spent(t) /\ t \notin revoked

Consume(o) ==
    LET t == req[o].tok IN
    /\ pc[o] = "consume"
    /\ Consumable(t)
    /\ consumedAt' = [consumedAt EXCEPT ![t] = req[o].at]
    /\ Goto(o, "block")
    /\ UNCHANGED <<now, alive, row, revoked, parent, inactive, held, req>>

ConsumeLost(o) ==
    /\ pc[o] = "consume"
    /\ ~Consumable(req[o].tok)
    /\ Goto(o, IF Grace = 0 THEN "family" ELSE "grace")
    /\ UNCHANGED <<now, alive, store, inactive, held, req>>

(* Mutant of GraceRow: the window is never over.                           *)
GraceRowAlways(o) ==
    LET t == req[o].tok IN
    /\ pc[o] = "grace"
    /\ Goto(o, IF t \in row /\ t \notin revoked /\ Spent(t) THEN "child" ELSE "family")
    /\ UNCHANGED <<now, alive, store, inactive, held, req>>

(* isWithinGraceWindow re-reads the row, then looks for a consumed child.  *)
GraceRow(o) ==
    LET t == req[o].tok IN
    /\ pc[o] = "grace"
    /\ Goto(o, IF t \in row /\ t \notin revoked /\ Spent(t) /\ ~Lapsed(t, req[o].at)
               THEN "child" ELSE "family")
    /\ UNCHANGED <<now, alive, store, inactive, held, req>>

GraceChild(o) ==
    /\ pc[o] = "child"
    /\ Goto(o, IF HasConsumedChild(req[o].tok) THEN "family" ELSE "block")
    /\ UNCHANGED <<now, alive, store, inactive, held, req>>

-----------------------------------------------------------------------------
(* The presented token is marked inactive, the session verified and slid.  *)

(* Mutant of Block: the presented token is not marked.                     *)
BlockNothing(o) ==
    /\ pc[o] = "block"
    /\ Goto(o, "verify")
    /\ UNCHANGED <<now, alive, store, inactive, held, req>>

Block(o) ==
    /\ pc[o] = "block"
    /\ inactive' = inactive \union {req[o].tok}
    /\ Goto(o, "verify")
    /\ UNCHANGED <<now, alive, store, held, req>>

Verify(o) ==
    /\ pc[o] = "verify"
    /\ Goto(o, "slide")
    /\ UNCHANGED <<now, alive, store, inactive, held, req>>

(* Mutant of EndSession: the token rows stay behind.                       *)
EndSessionOnly ==
    /\ alive' = FALSE
    /\ UNCHANGED store

(* Every way a session ends: its row goes and the token rows cascade.      *)
EndSession ==
    /\ alive' = FALSE
    /\ row' = {}
    /\ UNCHANGED <<consumedAt, revoked, parent>>

VerifyExpired(o) ==
    /\ pc[o] = "verify"
    /\ EndSession
    /\ Finish(o)
    /\ UNCHANGED <<now, inactive, held>>

(* The update of a session without a row is refused (invalid_grant).       *)
Slide(o) ==
    /\ pc[o] = "slide"
    /\ IF alive THEN Goto(o, "rotate") /\ UNCHANGED req ELSE Finish(o)
    /\ UNCHANGED <<now, alive, store, inactive, held>>

(* Mutant of IssueRefresh: the row does not refer to the session.          *)
IssueRefreshLoose(o) ==
    /\ pc[o] = "rotate"
    /\ \E c \in Token \ Drawn :
         /\ row' = row \union {c}
         /\ parent' = [parent EXCEPT ![c] = req[o].tok]
         /\ req' = [req EXCEPT ![o].new = c]
    /\ Goto(o, "access")
    /\ UNCHANGED <<now, alive, consumedAt, revoked, inactive, held>>

(* The successor: its row refers to the session, so the insert fails when  *)
(* the session has gone meanwhile (SessionTokenRelationMissingError).      *)
IssueRefresh(o) ==
    /\ pc[o] = "rotate"
    /\ alive
    /\ \E c \in Token \ Drawn :
         /\ row' = row \union {c}
         /\ parent' = [parent EXCEPT ![c] = req[o].tok]
         /\ req' = [req EXCEPT ![o].new = c]
    /\ Goto(o, "access")
    /\ UNCHANGED <<now, alive, consumedAt, revoked, inactive, held>>

(* The access token's row refers to the session as well.                   *)
IssueAccess(o) ==
    /\ pc[o] = "access"
    /\ alive
    /\ Goto(o, "answer")
    /\ UNCHANGED <<now, alive, store, inactive, held, req>>

IssueRefused(o) ==
    /\ pc[o] \in {"rotate", "access"}
    /\ ~alive
    /\ Finish(o)
    /\ UNCHANGED <<now, alive, store, inactive, held>>

(* The answer reaches the client; a lost one is Fail.                      *)
Answer(o) ==
    /\ pc[o] = "answer"
    /\ held' = held \union {req[o].new}
    /\ Finish(o)
    /\ UNCHANGED <<now, alive, store, inactive>>

-----------------------------------------------------------------------------
(* revokeFamily: select the rows, revoke them, mark them inactive, end the *)
(* session.                                                                *)

(* Mutant of FamilySelect: the lineage column is selected, not the id.     *)
FamilySelectParents(o) ==
    /\ pc[o] = "family"
    /\ req' = [req EXCEPT ![o].seen = {parent[t] : t \in row}]
    /\ Goto(o, "revoke")
    /\ UNCHANGED <<now, alive, store, inactive, held>>

FamilySelect(o) ==
    /\ pc[o] = "family"
    /\ req' = [req EXCEPT ![o].seen = row]
    /\ Goto(o, "revoke")
    /\ UNCHANGED <<now, alive, store, inactive, held>>

FamilyRevoke(o) ==
    /\ pc[o] = "revoke"
    /\ revoked' = revoked \union (req[o].seen \intersect row)
    /\ Goto(o, "mark")
    /\ UNCHANGED <<now, alive, row, consumedAt, parent, inactive, held, req>>

(* Best effort: a rejected mark does not stop the revocation.              *)
FamilyMark(o) ==
    /\ pc[o] = "mark"
    /\ \E marked \in {{}, req[o].seen} : inactive' = inactive \union marked
    /\ Goto(o, "end")
    /\ UNCHANGED <<now, alive, store, held, req>>

(* Mutant of FamilyEnd: the rows are revoked, the session stays.           *)
FamilyEndNothing(o) ==
    /\ pc[o] = "end"
    /\ Finish(o)
    /\ UNCHANGED <<now, alive, store, inactive, held>>

FamilyEnd(o) ==
    /\ pc[o] = "end"
    /\ EndSession
    /\ Finish(o)
    /\ UNCHANGED <<now, inactive, held>>

-----------------------------------------------------------------------------
(* POST /token/revoke (OAuth2TokenRevoker): the cache first, then the row. *)

RevokeToken(o, t) ==
    /\ pc[o] = "idle"
    /\ t \in held
    /\ inactive' = inactive \union {t}
    /\ req' = [req EXCEPT ![o] = [NoRequest EXCEPT !.tok = t]]
    /\ Goto(o, "revokeRow")
    /\ UNCHANGED <<now, alive, store, held>>

RevokeRow(o) ==
    /\ pc[o] = "revokeRow"
    /\ revoked' = revoked \union ({req[o].tok} \intersect row)
    /\ Finish(o)
    /\ UNCHANGED <<now, alive, row, consumedAt, parent, inactive, held>>

(* Logout, force logout, deactivation, the session sweep.                  *)
SessionEnds ==
    /\ alive
    /\ EndSession
    /\ UNCHANGED <<now, inactive, held, pc, req>>

(* A token expires and its row is swept.  A token outlives the one it was  *)
(* rotated from, by more than a request presenting that one takes.         *)
SweepRow(t) ==
    /\ t \in row
    /\ parent[t] \notin row
    /\ \A o \in Op : pc[o] # "idle" => req[o].tok # parent[t]
    /\ row' = row \ {t}
    /\ held' = held \ {t}
    /\ UNCHANGED <<now, alive, consumedAt, revoked, parent, inactive, pc, req>>

(* Any awaited call may reject, the process die or the answer get lost.    *)
Fail(o) ==
    /\ pc[o] \notin {"idle", "failed"}
    /\ Goto(o, "failed")
    /\ UNCHANGED <<now, alive, store, inactive, held, req>>

Tick ==
    /\ now < MaxTime
    /\ now' = now + 1
    /\ UNCHANGED <<alive, store, inactive, held, pc, req>>

-----------------------------------------------------------------------------
Step(o) ==
    \/ Lookup(o) \/ FindSession(o) \/ SessionGone(o)
    \/ Consume(o) \/ ConsumeLost(o) \/ GraceRow(o) \/ GraceChild(o)
    \/ Block(o) \/ Verify(o) \/ VerifyExpired(o) \/ Slide(o)
    \/ IssueRefresh(o) \/ IssueAccess(o) \/ IssueRefused(o) \/ Answer(o)
    \/ FamilySelect(o) \/ FamilyRevoke(o) \/ FamilyMark(o) \/ FamilyEnd(o)
    \/ RevokeRow(o)

Next ==
    \/ \E o \in Op, t \in Token : Present(o, t) \/ RevokeToken(o, t)
    \/ \E o \in Op : Step(o) \/ Fail(o)
    \/ \E t \in Token : SweepRow(t)
    \/ SessionEnds
    \/ Tick

Spec == Init /\ [][Next]_vars

(* Awaited calls are answered: a running request keeps running.            *)
FairSpec == Spec /\ \A o \in Op : WF_vars(Step(o))

-----------------------------------------------------------------------------
(* Properties.                                                             *)

(* Between the consume and the insert of the successor.                    *)
Pipeline == {"block", "verify", "slide", "rotate"}
Label == Pipeline \union {"idle", "failed", "lookup", "session", "consume", "grace", "child",
                          "access", "answer", "family", "revoke", "mark", "end", "revokeRow"}
Request == [tok : Token, new : Token, at : Nat, seen : SUBSET Token, late : BOOLEAN]

(* The stores and the requests in flight are well formed.                  *)
TypeOK ==
    /\ now \in Nat
    /\ alive \in BOOLEAN
    /\ row \subseteq Token
    /\ consumedAt \in [Token -> Nat]
    /\ revoked \subseteq Token
    /\ parent \in [Token -> Token \union {NoToken}]
    /\ inactive \subseteq Token
    /\ held \subseteq Token
    /\ pc \in [Op -> Label]
    /\ req \in [Op -> Request]

(* Nothing of the family outlives the session: once its row is gone no     *)
(* rotation in flight brings back a token row, whatever it had done by     *)
(* then.  Restoring one would let an ended session be refreshed again.     *)
RowsNeedSession == ~alive => row = {}

(* With the grace window off a token is exchanged at most once, however    *)
(* many requests present it at the same time.                              *)
SingleSuccessor ==
    \A c, d \in Token : parent[c] = parent[d] /\ parent[c] # NoToken => c = d

(* A request that presents a token its session, a revocation or a later    *)
(* use has already ended is never answered with tokens.                    *)
LateNeverAnswered == \A o \in Op : pc[o] \in {"access", "answer"} => ~req[o].late

(* By the time a client holds a successor, introspection already reports   *)
(* the token it replaced inactive: the mark precedes the successor.        *)
PredecessorInactive ==
    \A c \in held : parent[c] # NoToken => parent[c] \in inactive

(* The reaction to a replay ends the session, also when the request races  *)
(* rotations, revocations and other reactions, unless it dies on the way.  *)
ReplayEndsFamily ==
    \A o \in Op : (pc[o] = "session" /\ req[o].late) ~> (~alive \/ pc[o] = "failed")

(* Rotation implements what TokenFamily promises, with the window off.     *)
Exchangeable == {t \in row : ~Spent(t) /\ t \notin revoked}
Owed == {t \in Token : \E o \in Op : pc[o] \in Pipeline /\ req[o].tok = t}

Family == INSTANCE TokenFamily WITH open <- alive, fresh <- Exchangeable, owed <- Owed
ImplementsFamily == Family!Spec

=============================================================================
