----------------------------- MODULE TokenFamily -----------------------------
(***************************************************************************)
(* What rotation promises of one token family without a grace window: a    *)
(* refresh token is spent at most once, a spend grants at most one         *)
(* successor, and a closed family grants nothing more.                     *)
(***************************************************************************)
CONSTANTS Token, Root

VARIABLES
    open,     \* the family has not been ended
    fresh,    \* tokens that may be exchanged
    owed,     \* tokens spent whose successor is not granted yet
    parent    \* parent[c]: the token c was granted for, or NoToken

vars == <<open, fresh, owed, parent>>

NoToken == "none"
Granted == {c \in Token : parent[c] # NoToken} \union {Root}

Init ==
    /\ open = TRUE
    /\ fresh = {Root}
    /\ owed = {}
    /\ parent = [c \in Token |-> NoToken]

Spend(t) ==
    /\ open
    /\ t \in fresh
    /\ fresh' = fresh \ {t}
    /\ owed' = owed \union {t}
    /\ UNCHANGED <<open, parent>>

Grant(t, c) ==
    /\ open
    /\ t \in owed
    /\ c \notin Granted
    /\ fresh' = fresh \union {c}
    /\ owed' = owed \ {t}
    /\ parent' = [parent EXCEPT ![c] = t]
    /\ UNCHANGED open

(* A spend that will grant nothing: the request was refused or failed.     *)
Forfeit(t) ==
    /\ t \in owed
    /\ owed' = owed \ {t}
    /\ UNCHANGED <<open, fresh, parent>>

(* Tokens revoked or expired before they were spent.                       *)
Withdraw(gone) ==
    /\ fresh' = fresh \ gone
    /\ UNCHANGED <<open, owed, parent>>

(* The family ends; the request that ends it may be one that had spent.    *)
Close(t) ==
    /\ open' = FALSE
    /\ fresh' = {}
    /\ owed' \in {owed, owed \ {t}}
    /\ UNCHANGED parent

Next ==
    \/ \E gone \in SUBSET Token : Withdraw(gone)
    \/ \E t \in Token : Spend(t) \/ Forfeit(t) \/ Close(t) \/ \E c \in Token : Grant(t, c)

Spec == Init /\ [][Next]_vars

(* A token has at most one successor.                                      *)
OneSuccessor ==
    \A c, d \in Token : parent[c] = parent[d] /\ parent[c] # NoToken => c = d

=============================================================================
