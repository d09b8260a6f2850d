--------------------------- MODULE MCStrictLogin ---------------------------
(***************************************************************************)
(* Two strict rules of a login: with its grace window off a refresh token  *)
(* has one successor, and no login without the second factor outlives the  *)
(* confirmation of one.  RefreshRotation and SecondFactor share nothing    *)
(* here, so each is checked in states of its own: the initial state        *)
(* chooses the part that moves.                                            *)
(***************************************************************************)
EXTENDS RefreshRotation, TLC

CONSTANTS TwoStep, OneStep, Mailed, Session

VARIABLES part, device, session, proved, served, kept, missed, factorPc, factorReq

Factors == INSTANCE SecondFactor WITH pc <- factorPc, req <- factorReq

rotationVars == vars
factorVars == <<device, session, proved, served, kept, missed, factorPc, factorReq>>

StrictInit ==
    /\ part \in {"rotation", "factors"}
    /\ Init
    /\ Factors!Init

StrictNext ==
    /\ UNCHANGED part
    /\ \/ part = "rotation" /\ Next /\ UNCHANGED factorVars
       \/ part = "factors" /\ Factors!Next /\ UNCHANGED rotationVars

StrictSpec == StrictInit /\ [][StrictNext]_<<part, rotationVars, factorVars>>

ASSUME FactorsApart == Factors!FactorAssumption

(* Requests are interchangeable, and so are sessions.                      *)
Symmetric == Permutations(Op) \union Permutations(Session)

(* The type invariants of the two parts.                                   *)
PartsTypeOK == IF part = "rotation" THEN TypeOK ELSE Factors!TypeOK

(* Once a factor is confirmed, no session that never proved one outlives   *)
(* it unnoticed.                                                           *)
NoUnprovedOutlives == part = "factors" => Factors!NoUnprovedOutlives

(* The owner of a confirmed factor changes the factors with a session that *)
(* proved one.                                                             *)
OwnChangeProved == Factors!OwnChangeProved

=============================================================================
