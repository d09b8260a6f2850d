------------------------------ MODULE MCGrants ------------------------------
(***************************************************************************)
(* The credentials that pay out once: the device code, the authorization   *)
(* code, the MFA login ticket and the recovery code.  They share nothing,  *)
(* so each is checked in states of its own: the initial state chooses the  *)
(* part that moves.                                                        *)
(***************************************************************************)
EXTENDS DeviceGrant, TLC

CONSTANTS AuthCode, Session, Ticket, RecoveryCode, MaxSet

VARIABLES
    part,
    entry, names, session, active, owed, codePc, codeReq, paid,
    ticket, expired, pending, proved, extended, ticketPc, tk, completed,
    recovery, sets, retired, armed, lock, owned, usePc, use, proofs, accepted, slipped

AuthorizationCodes == INSTANCE AuthorizationCode
    WITH Code <- AuthCode, pc <- codePc, req <- codeReq
Tickets == INSTANCE MfaTicket
    WITH session <- pending, pc <- ticketPc, paid <- completed
Uses == INSTANCE FactorUse
    WITH row <- recovery, Code <- RecoveryCode, pc <- usePc, req <- use,
         Kinds <- {"verify", "enroll", "delete"}, Faults <- {"renew"}

deviceVars == vars
codeVars == <<entry, names, session, active, owed, codePc, codeReq, paid>>
ticketVars == <<ticket, expired, pending, proved, extended, ticketPc, tk, completed>>
useVars == <<recovery, sets, retired, armed, lock, owned, usePc, use, proofs, accepted,
    slipped>>

GrantsInit ==
    /\ part \in {"device", "code", "ticket", "recovery"}
    /\ Init
    /\ AuthorizationCodes!Init
    /\ Tickets!Init
    /\ Uses!Init

GrantsNext ==
    /\ UNCHANGED part
    /\ \/ part = "device" /\ Next /\ UNCHANGED <<codeVars, ticketVars, useVars>>
       \/ part = "code" /\ AuthorizationCodes!Next
          /\ UNCHANGED <<deviceVars, ticketVars, useVars>>
       \/ part = "ticket" /\ Tickets!Next
          /\ UNCHANGED <<deviceVars, codeVars, useVars>>
       \/ part = "recovery" /\ Uses!Next
          /\ UNCHANGED <<deviceVars, codeVars, ticketVars>>

GrantsSpec ==
    GrantsInit /\ [][GrantsNext]_<<part, deviceVars, codeVars, ticketVars, useVars>>

ASSUME CodesApart == AuthorizationCodes!CodeAssumption
ASSUME TicketsExist == Tickets!TicketAssumption
ASSUME UsesTyped == Uses!UseAssumption

(* Requests are interchangeable.                                           *)
Symmetric == Permutations(Op)

(* The type invariants of the parts.                                       *)
PartsTypeOK ==
    CASE part = "device" -> TypeOK
      [] part = "code" -> AuthorizationCodes!TypeOK
      [] part = "ticket" -> Tickets!TypeOK
      [] part = "recovery" -> Uses!TypeOK

(* A redemption is about to be answered neither on a session that was      *)
(* revoked before it nor on a new one that owes a factor confirmed since.  *)
NothingForRefused == part = "code" =>
    /\ AuthorizationCodes!RevokedCodeRefused
    /\ AuthorizationCodes!FactorOwedRefused

(* A ticket extends no session whose factor was not proved.                *)
ExtendedOnlyProved == part = "ticket" => Tickets!ExtendedOnlyProved

(* A recovery code is accepted once and only used up for a session that    *)
(* was stamped, by the one verification that owns the lock.                *)
CodesSpentOnce == part = "recovery" =>
    Uses!AcceptedOnce /\ Uses!UsedOnlyWithProof /\ Uses!OneHolder

(* Authorization codes and login tickets are vouchers: taken by one        *)
(* request, paid once at most, never given back.                           *)
ImplementsVouchers == AuthorizationCodes!ImplementsVoucher /\ Tickets!TicketIsVoucher

=============================================================================
