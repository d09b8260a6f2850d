----------------------------- MODULE MCRequest -----------------------------
(***************************************************************************)
(* What a request meets: the verification of its token while the signing   *)
(* key is administered, and the rows its permissions let it list.          *)
(* KeyVerification and PermissionReach share nothing here: the initial     *)
(* state chooses the part that moves.                                      *)
(***************************************************************************)
EXTENDS KeyVerification, TLC

CONSTANTS Realm, Wide, Held, WidePolicies, HeldPolicies

VARIABLES part, tree, grants, actor, junction, verdict, shown

(* Trees of several policies over one grant, and one over several grants.  *)
WideReach == INSTANCE PermissionReach WITH
    Policies <- WidePolicies, MaxChildren <- Wide, MaxGrants <- 1
HeldReach == INSTANCE PermissionReach WITH
    Policies <- HeldPolicies, MaxChildren <- Held, MaxGrants <- 2

listVars == <<tree, grants, actor, junction, verdict, shown>>

RequestInit ==
    /\ Init
    /\ \/ part = "key"
          /\ tree = [children |-> {}, strategy |-> "unanimous", invert |-> FALSE]
          /\ grants = {} /\ actor = WideReach!Nobody /\ junction = FALSE
          /\ verdict = "asked" /\ shown = {}
       \/ part = "wide" /\ WideReach!Init
       \/ part = "held" /\ HeldReach!Init

RequestNext ==
    /\ UNCHANGED part
    /\ \/ part = "key" /\ Next /\ UNCHANGED listVars
       \/ part = "wide" /\ WideReach!Next /\ UNCHANGED vars
       \/ part = "held" /\ HeldReach!Next /\ UNCHANGED vars

RequestSpec == RequestInit /\ [][RequestNext]_<<part, vars, listVars>>

ASSUME ReachTyped == WideReach!ReachAssumption /\ HeldReach!ReachAssumption

(* Requests are interchangeable, and so are tokens.                        *)
Symmetric == Permutations(Op) \union Permutations(Token)

(* One update of the key at a time, and none after one that failed.        *)
Orderly == orderly

(* A list shows the rows a check of each would grant.                      *)
ListedIsGranted ==
    CASE part = "key" -> TRUE
      [] part = "wide" -> WideReach!ListedIsGranted
      [] part = "held" -> HeldReach!ListedIsGranted

=============================================================================
