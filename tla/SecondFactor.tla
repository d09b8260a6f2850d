---------------------------- MODULE SecondFactor ----------------------------
(***************************************************************************)
(* The second factors of one user against the user's logins: enrolling,    *)
(* confirming and deleting a factor (core/entities/user-authenticator),    *)
(* and the logins that owe one when a factor is confirmed                  *)
(* (core/oauth2/grant-types/base, password, authorize).                    *)
(*                                                                         *)
(* A factor changes under the row lock of the user (withUserLock, on the   *)
(* databases that have row locks); a login inserts its session outside it. *)
(* A session is proved when it passed a factor or comes from an external   *)
(* identity provider.  Using a factor up is FactorUse.                     *)
(***************************************************************************)
EXTENDS Naturals, FiniteSets

CONSTANTS
    TwoStep,  \* factors confirmed by a code after enrolment: TOTP, WebAuthn
    OneStep,  \* factors confirmed at once, one row of each: recovery, email
    Mailed,   \* the email factors among them: others may enrol these
    Session,  \* session ids, drawn once
    Op        \* requests in flight

Device == TwoStep \union OneStep

(* The actor is not the owner: an administrator.                           *)
NoSession == "none"

FactorAssumption ==
    /\ TwoStep \intersect OneStep = {} /\ Mailed \subseteq OneStep
    /\ NoSession \notin Session
    /\ Device # {}

VARIABLES
    device,   \* device[d]: the auth_user_authenticators row
    session,  \* session[s]: the auth_sessions row
    proved,   \* sessions with mfaAt, or of an external provider
    served,   \* sessions whose login was answered with tokens
    kept,     \* sessions a first factor was enrolled from
    missed,   \* sessions whose revocation failed: logged, not raised
    pc,       \* pc[o]: the call request o makes next
    req       \* req[o]: what request o holds between two awaits

rows == <<device, session, proved, served, kept, missed>>
vars == <<rows, pc, req>>

NoRequest == [kind |-> "none", dev |-> CHOOSE d \in Device : TRUE, sid |-> NoSession,
              sure |-> FALSE, todo |-> {}]

Init ==
    /\ device = [d \in Device |-> "none"]
    /\ session = [s \in Session |-> "free"]
    /\ proved = {}
    /\ served = {}
    /\ kept = {}
    /\ missed = {}
    /\ pc = [o \in Op |-> "idle"]
    /\ req = [o \in Op |-> NoRequest]

Goto(o, label) == pc' = [pc EXCEPT ![o] = label]

Finish(o) ==
    /\ Goto(o, "idle")
    /\ req' = [req EXCEPT ![o] = NoRequest]

Live(s) == s # NoSession /\ session[s] = "live"
HasConfirmed == \E d \in Device : device[d] = "confirmed"

-----------------------------------------------------------------------------
(* Logins.                                                                 *)

(* A password login: verifySecondFactor asks for a factor when one is      *)
(* confirmed.  sure: the one it was given is right.                        *)
Login(o) ==
    /\ pc[o] = "idle"
    /\ \E sure \in BOOLEAN :
         /\ sure = HasConfirmed
         /\ req' = [req EXCEPT ![o] = [NoRequest EXCEPT !.kind = "login", !.sure = sure]]
    /\ Goto(o, "create")
    /\ UNCHANGED rows

(* The redemption of a code without a session proves nothing; a federated  *)
(* login counts as proved.                                                 *)
LoginElsewhere(o) ==
    /\ pc[o] = "idle"
    /\ \E sure \in BOOLEAN :
         req' = [req EXCEPT ![o] = [NoRequest EXCEPT !.kind = "login", !.sure = sure]]
    /\ Goto(o, "create")
    /\ UNCHANGED rows

Create(o, s) ==
    /\ pc[o] = "create"
    /\ session[s] = "free"
    /\ session' = [session EXCEPT ![s] = "live"]
    /\ proved' = IF req[o].sure THEN proved \union {s} ELSE proved
    /\ req' = [req EXCEPT ![o].sid = s]
    /\ Goto(o, IF req[o].sure THEN "answer" ELSE "recheck")
    /\ UNCHANGED <<device, served, kept, missed>>

(* Mutant of Recheck: what was decided before the insert stands.           *)
NoRecheck(o) ==
    /\ pc[o] = "recheck"
    /\ Goto(o, "answer")
    /\ UNCHANGED <<rows, req>>

(* revokeIfSecondFactorOwed: an existence check, then the challenge.       *)
Recheck(o) ==
    /\ pc[o] = "recheck"
    /\ Goto(o, IF HasConfirmed THEN "challenge" ELSE "answer")
    /\ UNCHANGED <<rows, req>>

Challenge(o) ==
    /\ pc[o] = "challenge"
    /\ Goto(o, IF HasConfirmed THEN "revoke" ELSE "answer")
    /\ UNCHANGED <<rows, req>>

RevokeOwn(o) ==
    /\ pc[o] = "revoke"
    /\ session' = [session EXCEPT ![req[o].sid] = "gone"]
    /\ Finish(o)
    /\ UNCHANGED <<device, proved, served, kept, missed>>

(* The rows of the tokens reference the session: without it they fail.     *)
Answer(o) ==
    /\ pc[o] = "answer"
    /\ served' = IF Live(req[o].sid) THEN served \union {req[o].sid} ELSE served
    /\ Finish(o)
    /\ UNCHANGED <<device, session, proved, kept, missed>>

-----------------------------------------------------------------------------
(* Managing the factors.                                                   *)

(* enroll, confirm or delete, by the owner from a session or by another    *)
(* actor, who may enrol an email factor only.  Factors confirmed at once   *)
(* are enrolled again in place.                                            *)
Manage(o, k, d, s) ==
    /\ pc[o] = "idle"
    /\ k \in {"enroll", "confirm", "delete"}
    /\ k = "enroll" => (d \in TwoStep => device[d] = "none") /\ (s = NoSession => d \in Mailed)
    /\ k = "confirm" => device[d] = "pending"
    /\ k = "delete" => device[d] # "none"
    /\ s # NoSession => s \in served /\ Live(s)
    /\ req' = [req EXCEPT ![o] = [NoRequest EXCEPT !.kind = k, !.dev = d, !.sid = s]]
    /\ Goto(o, IF s = NoSession THEN "look" ELSE "assert")
    /\ UNCHANGED rows

(* assertSessionProvedFactor: a session only gains its proof, so the two   *)
(* reads are one step.                                                     *)
AssertProved(o) ==
    /\ pc[o] = "assert"
    /\ IF HasConfirmed /\ ~(Live(req[o].sid) /\ req[o].sid \in proved)
       THEN Finish(o)
       ELSE Goto(o, "look") /\ UNCHANGED req
    /\ UNCHANGED rows

(* The session is read before the transaction.  A confirmation has         *)
(* compared its code by then: a wrong one ends here.                       *)
Look(o) ==
    /\ pc[o] = "look"
    /\ \/ /\ req' = [req EXCEPT ![o].sure =
                       \/ req[o].sid = NoSession
                       \/ Live(req[o].sid) /\ req[o].sid \in proved]
          /\ Goto(o, "commit")
       \/ req[o].kind = "confirm" /\ Finish(o)
    /\ UNCHANGED rows

Confirms(o) ==
    \/ req[o].kind = "enroll" /\ req[o].dev \in OneStep
    \/ req[o].kind = "confirm" /\ device[req[o].dev] = "pending"

(* Mutant of MayCommit: the guard read before the lock stands.             *)
MayCommitUnlocked(o) ==
    req[o].kind = "enroll" \/ device[req[o].dev] # "none"

(* Inside the lock: a factor confirmed meanwhile is owed, and the row a    *)
(* confirmation or a deletion is about must still be there.                *)
MayCommit(o) ==
    /\ HasConfirmed => req[o].sure
    /\ req[o].kind = "enroll" \/ device[req[o].dev] # "none"

(* The commit stores the first confirmed factor.                           *)
First(o) == Confirms(o) /\ ~HasConfirmed

(* Mutant of Stored: every enrolment waits for a code.                     *)
StoredPending(o) ==
    CASE req[o].kind = "delete" -> "none"
      [] req[o].kind = "enroll" -> "pending"
      [] OTHER -> "confirmed"

Stored(o) ==
    CASE req[o].kind = "delete" -> "none"
      [] req[o].kind = "enroll" /\ req[o].dev \in TwoStep -> "pending"
      [] OTHER -> "confirmed"

(* withFactorLock: one transaction under the row lock.                     *)
Commit(o) ==
    /\ pc[o] = "commit"
    /\ MayCommit(o)
    /\ device' = [device EXCEPT ![req[o].dev] = Stored(o)]
    /\ IF First(o)
       THEN /\ Goto(o, "list")
            /\ kept' = IF req[o].sid # NoSession THEN kept \union {req[o].sid} ELSE kept
            /\ UNCHANGED req
       ELSE Finish(o) /\ UNCHANGED kept
    /\ UNCHANGED <<session, proved, served, missed>>

Refuse(o) ==
    /\ pc[o] = "commit"
    /\ ~MayCommit(o)
    /\ Finish(o)
    /\ UNCHANGED rows

Listed(o) == {s \in Session : Live(s)} \ {req[o].sid}

(* revokePreFactorSessions: the sessions found now, but for the one the    *)
(* owner enrolled from.                                                    *)
List(o) ==
    /\ pc[o] = "list"
    /\ req' = [req EXCEPT ![o].todo = Listed(o)]
    /\ Goto(o, "revokeMany")
    /\ UNCHANGED rows

(* Each is revoked on its own; one that fails is logged.                   *)
RevokeOne(o, s) ==
    /\ pc[o] = "revokeMany"
    /\ s \in req[o].todo
    /\ \/ session' = [session EXCEPT ![s] = "gone"] /\ UNCHANGED missed
       \/ missed' = missed \union {s} /\ UNCHANGED session
    /\ req' = [req EXCEPT ![o].todo = @ \ {s}]
    /\ UNCHANGED <<device, proved, served, kept, pc>>

Revoked(o) ==
    /\ pc[o] = "revokeMany"
    /\ req[o].todo = {}
    /\ Finish(o)
    /\ UNCHANGED rows

-----------------------------------------------------------------------------
(* An awaited call rejects or the process dies: the revocation it owes is  *)
(* not made up for.                                                        *)
Fail(o) ==
    /\ pc[o] # "idle"
    /\ missed' = missed \union (CASE pc[o] = "list" -> Listed(o)
                                  [] pc[o] = "revokeMany" -> req[o].todo
                                  [] OTHER -> {})
    /\ Finish(o)
    /\ UNCHANGED <<device, session, proved, served, kept>>

(* POST /authenticators/challenge: a session passes a confirmed factor.    *)
Prove(s) ==
    /\ HasConfirmed
    /\ Live(s) /\ s \in served
    /\ proved' = proved \union {s}
    /\ UNCHANGED <<device, session, served, kept, missed, pc, req>>

SignOut(s) ==
    /\ Live(s)
    /\ session' = [session EXCEPT ![s] = "gone"]
    /\ UNCHANGED <<device, proved, served, kept, missed, pc, req>>

Step(o) ==
    \/ \E s \in Session : Create(o, s) \/ RevokeOne(o, s)
    \/ Recheck(o) \/ Challenge(o) \/ RevokeOwn(o) \/ Answer(o)
    \/ AssertProved(o) \/ Look(o) \/ Commit(o) \/ Refuse(o) \/ List(o) \/ Revoked(o)

Next ==
    \/ \E o \in Op : Login(o) \/ LoginElsewhere(o) \/ Step(o) \/ Fail(o)
    \/ \E o \in Op, d \in Device, s \in Session \union {NoSession} :
         \E k \in {"enroll", "confirm", "delete"} : Manage(o, k, d, s)
    \/ \E s \in Session : Prove(s) \/ SignOut(s)

Spec == Init /\ [][Next]_vars

-----------------------------------------------------------------------------
Kind == {"none", "login", "enroll", "confirm", "delete"}
Label == {"idle", "create", "recheck", "challenge", "revoke", "answer",
          "assert", "look", "commit", "list", "revokeMany"}

TypeOK ==
    /\ device \in [Device -> {"none", "pending", "confirmed"}]
    /\ \A d \in OneStep : device[d] # "pending"
    /\ session \in [Session -> {"free", "live", "gone"}]
    /\ proved \subseteq Session /\ served \subseteq Session
    /\ kept \subseteq Session /\ missed \subseteq Session
    /\ pc \in [Op -> Label]
    /\ req \in [Op -> [kind : Kind, dev : Device, sid : Session \union {NoSession},
                       sure : BOOLEAN, todo : SUBSET Session]]

(* A revocation in flight is going to end session s.                       *)
Doomed(s) ==
    \E o \in Op : \/ pc[o] = "list" /\ s # req[o].sid
                  \/ pc[o] = "revokeMany" /\ s \in req[o].todo

(* A live session that got its tokens without a factor.                    *)
Unproved(s) == s \in served /\ Live(s) /\ s \notin proved

Excused(s) == s \in kept \union missed

(* While a factor is confirmed, a session that never proved one is the     *)
(* session a first factor was enrolled from, is about to be revoked, or    *)
(* its revocation failed: a login that races the first factor is caught by *)
(* the revocation or by its own second look.                               *)
NoUnprovedOutlives ==
    HasConfirmed => \A s \in Session : Unproved(s) => Excused(s) \/ Doomed(s)

(* While a factor is confirmed, the owner changes the factors only from a  *)
(* session that proved one, also when the factor was confirmed by another  *)
(* request after this one was admitted.                                    *)
OwnChangeProved ==
    [][\A o \in Op :
         /\ pc[o] = "commit" /\ pc'[o] # "commit"
         /\ device' # device
         /\ req[o].sid # NoSession
         /\ HasConfirmed
         => req[o].sid \in proved]_vars

=============================================================================
