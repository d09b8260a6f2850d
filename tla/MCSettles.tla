----------------------------- MODULE MCSettles -----------------------------
(***************************************************************************)
(* Ends that must take effect while requests race them: a replay ends its  *)
(* token family, a removed session becomes unreadable.  RefreshRotation    *)
(* and SessionStore share nothing here: the initial state chooses the part *)
(* that moves, the other one stays in its initial state, where no request  *)
(* runs and so its fairness asks for nothing.                              *)
(***************************************************************************)
EXTENDS RefreshRotation

CONSTANTS Session, Sweeper, Kinds, Lifetimes, MaxAge, PingThreshold, BatchSize

VARIABLES part, storeNow, sessionRow, cache, fate, returned, storePc, storeReq, batch

Sessions == INSTANCE SessionStore WITH
    now <- storeNow, row <- sessionRow, pc <- storePc, req <- storeReq

sessionVars == <<storeNow, sessionRow, cache, fate, returned, storePc, storeReq, batch>>

SettlesInit ==
    /\ part \in {"rotation", "sessions"}
    /\ Init
    /\ Sessions!Init

SettlesNext ==
    /\ UNCHANGED part
    /\ \/ part = "rotation" /\ Next /\ UNCHANGED sessionVars
       \/ part = "sessions" /\ Sessions!Next /\ UNCHANGED vars

RotationStep(o) == part = "rotation" /\ Step(o)
SessionStep(o) == part = "sessions" /\ Sessions!Step(o)

(* Awaited calls are answered, in both parts.                              *)
SettlesSpec ==
    /\ SettlesInit
    /\ [][SettlesNext]_<<part, vars, sessionVars>>
    /\ \A o \in Op : WF_vars(RotationStep(o)) /\ WF_sessionVars(SessionStep(o))

(* Once a session is removed, it becomes unreadable, or a request on it    *)
(* failed half way.                                                        *)
EndedBecomesUnreadable == Sessions!EndedBecomesUnreadable

=============================================================================
