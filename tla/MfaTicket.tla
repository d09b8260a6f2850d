------------------------------ MODULE MfaTicket ------------------------------
(***************************************************************************)
(* The MFA login ticket: a password login that owes a second factor is     *)
(* answered with a ticket and a pending session behind it; presenting the  *)
(* ticket with a factor completes the login (core/oauth2/mfa-login and the *)
(* challenge controller).                                                  *)
(*                                                                         *)
(* A ticket and its pending session are made together and stand for each   *)
(* other here.  The factor itself is SecondFactor and FactorUse: a request *)
(* presents one that is accepted or one that is not.                       *)
(***************************************************************************)
EXTENDS Naturals, FiniteSets

CONSTANTS
    Ticket,  \* tickets, each with its pending session
    Op       \* requests in flight

TicketAssumption == Ticket # {}

VARIABLES
    ticket,    \* ticket[t]: whether it was handed out, and whether it is marked used
    expired,   \* tickets past their exp
    session,   \* session[t]: the pending session behind the ticket
    proved,    \* sessions with mfaAt
    extended,  \* sessions slid to the full lifetime
    pc,        \* pc[o]: the call request o makes next
    tk,        \* tk[o]: the ticket request o presents
    paid       \* paid[t]: how many requests were answered with tokens

vars == <<ticket, expired, session, proved, extended, pc, tk, paid>>

AnyTicket == CHOOSE t \in Ticket : TRUE

Init ==
    /\ ticket = [t \in Ticket |-> "none"]
    /\ expired = {}
    /\ session = [t \in Ticket |-> "none"]
    /\ proved = {}
    /\ extended = {}
    /\ pc = [o \in Op |-> "idle"]
    /\ tk = [o \in Op |-> AnyTicket]
    /\ paid = [t \in Ticket |-> 0]

Goto(o, label) == pc' = [pc EXCEPT ![o] = label] /\ UNCHANGED tk

Finish(o) ==
    /\ pc' = [pc EXCEPT ![o] = "idle"]
    /\ tk' = [tk EXCEPT ![o] = AnyTicket]

-----------------------------------------------------------------------------
(* issueTicket: the pending session first, then the ticket that names it,  *)
(* both with one expiry.                                                   *)

Pend(o, t) ==
    /\ pc[o] = "idle"
    /\ session[t] = "none"
    /\ session' = [session EXCEPT ![t] = "live"]
    /\ pc' = [pc EXCEPT ![o] = "issue"]
    /\ tk' = [tk EXCEPT ![o] = t]
    /\ UNCHANGED <<ticket, expired, proved, extended, paid>>

IssueTicket(o) ==
    /\ pc[o] = "issue"
    /\ ticket' = [ticket EXCEPT ![tk[o]] = "open"]
    /\ Finish(o)
    /\ UNCHANGED <<expired, session, proved, extended, paid>>

-----------------------------------------------------------------------------
(* POST /authenticators/challenge with a ticket.                           *)

(* verifyMfaLoginTicket: the token is neither expired nor marked used, and *)
(* its session is there.                                                   *)
Present(o, t) ==
    /\ pc[o] = "idle"
    /\ ticket[t] = "open"
    /\ t \notin expired
    /\ session[t] = "live"
    /\ pc' = [pc EXCEPT ![o] = "find"]
    /\ tk' = [tk EXCEPT ![o] = t]
    /\ UNCHANGED <<ticket, expired, session, proved, extended, paid>>

FindSession(o) ==
    /\ pc[o] = "find"
    /\ IF session[tk[o]] = "live" THEN Goto(o, "verify") ELSE Finish(o)
    /\ UNCHANGED <<ticket, expired, session, proved, extended, paid>>

(* Mutant of Verify: complete() does not wait for the verdict.             *)
VerifyUnchecked(o) ==
    /\ pc[o] = "verify"
    /\ \/ session[tk[o]] = "live" /\ proved' = proved \union {tk[o]}
       \/ UNCHANGED proved
    /\ Goto(o, "refresh")
    /\ UNCHANGED <<ticket, expired, session, extended, paid>>

(* UserAuthenticatorService.verify: a factor that matches stamps the       *)
(* session (onVerified), which fails when its row is gone.                 *)
Verify(o) ==
    /\ pc[o] = "verify"
    /\ \/ /\ session[tk[o]] = "live"
          /\ proved' = proved \union {tk[o]}
          /\ Goto(o, "refresh")
       \/ Finish(o) /\ UNCHANGED proved
    /\ UNCHANGED <<ticket, expired, session, extended, paid>>

(* complete: the session is slid to the regular lifetime...                *)
Refresh(o) ==
    /\ pc[o] = "refresh"
    /\ IF session[tk[o]] = "live"
       THEN extended' = extended \union {tk[o]} /\ Goto(o, "claim")
       ELSE Finish(o) /\ UNCHANGED extended
    /\ UNCHANGED <<ticket, expired, session, proved, paid>>

(* Mutant of Claim: setInactive, which tells nobody apart.                 *)
Mark(o) ==
    /\ pc[o] = "claim"
    /\ ticket' = [ticket EXCEPT ![tk[o]] = "used"]
    /\ Goto(o, "access")
    /\ UNCHANGED <<expired, session, proved, extended, paid>>

(* ...and the ticket claimed, by a write that only the first one makes     *)
(* (claimInactive).                                                        *)
Claim(o) ==
    /\ pc[o] = "claim"
    /\ ticket' = [ticket EXCEPT ![tk[o]] = "used"]
    /\ IF ticket[tk[o]] = "open" THEN Goto(o, "access") ELSE Finish(o)
    /\ UNCHANGED <<expired, session, proved, extended, paid>>

(* Both tokens, whose rows reference the session.                          *)
Access(o) ==
    /\ pc[o] = "access"
    /\ IF session[tk[o]] = "live" THEN Goto(o, "token") ELSE Finish(o)
    /\ UNCHANGED <<ticket, expired, session, proved, extended, paid>>

Answer(o) ==
    /\ pc[o] = "token"
    /\ paid' = IF session[tk[o]] = "live" THEN [paid EXCEPT ![tk[o]] = @ + 1] ELSE paid
    /\ Finish(o)
    /\ UNCHANGED <<ticket, expired, session, proved, extended>>

Fail(o) ==
    /\ pc[o] # "idle"
    /\ Finish(o)
    /\ UNCHANGED <<ticket, expired, session, proved, extended, paid>>

-----------------------------------------------------------------------------
(* The ticket reaches its exp; its session does at the same time, unless   *)
(* it was extended.  Any session may be revoked.                           *)

Expire(t) ==
    /\ ticket[t] # "none"
    /\ t \notin expired
    /\ expired' = expired \union {t}
    /\ UNCHANGED <<ticket, session, proved, extended, pc, tk, paid>>

End(t) ==
    /\ session[t] = "live"
    /\ session' = [session EXCEPT ![t] = "gone"]
    /\ UNCHANGED <<ticket, expired, proved, extended, pc, tk, paid>>

Next ==
    \/ \E o \in Op, t \in Ticket : Pend(o, t) \/ Present(o, t)
    \/ \E o \in Op :
         \/ IssueTicket(o) \/ FindSession(o) \/ Verify(o) \/ Refresh(o)
         \/ Claim(o) \/ Access(o) \/ Answer(o) \/ Fail(o)
    \/ \E t \in Ticket : Expire(t) \/ End(t)

Spec == Init /\ [][Next]_vars

-----------------------------------------------------------------------------
TypeOK ==
    /\ ticket \in [Ticket -> {"none", "open", "used"}]
    /\ session \in [Ticket -> {"none", "live", "gone"}]
    /\ expired \subseteq Ticket /\ proved \subseteq Ticket /\ extended \subseteq Ticket
    /\ pc \in [Op -> {"idle", "issue", "find", "verify", "refresh", "claim", "access", "token"}]
    /\ tk \in [Op -> Ticket]
    /\ paid \in [Ticket -> Nat]

(* A pending session outlives its ticket only when its login proved the    *)
(* second factor, whichever completion slid it: the session is extended    *)
(* before the claim tells the completions apart.                           *)
ExtendedOnlyProved == extended \subseteq proved

(* A ticket is a voucher, taken by the claim: one completion is answered   *)
(* with tokens at most, also when several prove a factor at once.          *)
State(t) ==
    CASE ticket[t] = "none" -> "new"
      [] ticket[t] = "open" -> "open"
      [] paid[t] > 0 -> IF paid[t] = 1 THEN "paid" ELSE "overpaid"
      [] OTHER -> IF \E o \in Op : pc[o] \in {"access", "token"} /\ tk[o] = t
                  THEN "taken" ELSE "void"

Tickets == INSTANCE Voucher WITH Item <- Ticket, state <- [t \in Ticket |-> State(t)]

TicketIsVoucher == Tickets!Spec

=============================================================================
