--------------------------- MODULE PermissionReach ---------------------------
(***************************************************************************)
(* The rows a list request may show (core/query/scope.ts), decided by the  *)
(* evaluation of one permission (packages/access): the gate in front of    *)
(* the query, the condition compiled into it or the check of each row it   *)
(* returns, all three the same walk over the permission's policy tree with *)
(* more or less of the data at hand.                                       *)
(*                                                                         *)
(* A condition is the set of rows it selects; negating it selects the      *)
(* others.  A tree is a composite of leaves, any of them inverted.         *)
(***************************************************************************)
EXTENDS Naturals, FiniteSets

CONSTANTS
    Realm,       \* realm ids
    Policies,    \* the policies a grant may carry, NoPolicy among them
    MaxChildren, \* bound of the policies in a tree
    MaxGrants    \* bound of the grants of an actor

Global == "global"   \* the realm of a row, or of an actor, without one
Nobody == "nobody"   \* the actor of an anonymous request
NoRow == [realm |-> Nobody, match |-> FALSE]
NoPolicy == "none"

Row == [realm : Realm \union {Global}, match : BOOLEAN]
Scope == {"none", "own", "ownOrNull", "any"}
Strategy == {"affirmative", "unanimous", "consensus"}

(* "time" is out of its window; "attributes" reads the row and lowers,     *)
(* "names" reads it and does not; "realm" compares the row's realm as an   *)
(* attribute, "reach" as a scope; "binding" asks for the actor's grants.   *)
Leaf == {"identity", "time", "attributes", "names", "realm", "reach", "binding"}

ReachAssumption ==
    /\ Realm \intersect {Global, Nobody} = {}
    /\ Policies \subseteq Leaf \union {NoPolicy}
    /\ MaxChildren \in Nat /\ MaxGrants \in Nat

VARIABLES
    tree,      \* the policy tree of the permission
    grants,    \* the grants of the permission the actor holds
    actor,     \* the actor's realm, or Nobody
    junction,  \* the caller names another realm column (realmAttributeName)
    verdict,   \* what the gate and the compilation said, "asked" before
    shown      \* the rows listed

vars == <<tree, grants, actor, junction, verdict, shown>>

Child == [leaf : Leaf, invert : BOOLEAN]
Tree == [children : {cs \in SUBSET Child : Cardinality(cs) <= MaxChildren},
         strategy : Strategy, invert : BOOLEAN]
Grant == [scope : Scope, policy : Policies]

-----------------------------------------------------------------------------
(* PolicyEvaluationResult: settled, or open with or without a condition.   *)
Settled(b) == [is |-> IF b THEN "yes" ELSE "no", lowers |-> FALSE, rows |-> {}]
Open == [is |-> "open", lowers |-> FALSE, rows |-> {}]
OpenOn(rows) == [is |-> "open", lowers |-> TRUE, rows |-> rows]

(* maybeInvertPolicyOutcome, and not() of a condition: what is open stays  *)
(* so.                                                                     *)
Inverted(outcome, invert) ==
    IF ~invert THEN outcome
    ELSE IF outcome.lowers THEN OpenOn(Row \ outcome.rows)
    ELSE IF outcome.is = "open" THEN Open
    ELSE Settled(outcome.is = "no")

(* A policy that passes for these rows: answered with a row, open without, *)
(* and open with a condition when one is asked for.                        *)
OnRow(rows, row, lower) ==
    IF row # NoRow THEN Settled(row \in rows)
    ELSE IF lower THEN OpenOn(rows) ELSE Open

(* How many of the children came out so.                                   *)
Number(outcome, is) == Cardinality({c \in DOMAIN outcome : outcome[c].is = is})

(* A composite settles only when its open children cannot change it.       *)
Verdict(strategy, yes, no, open) ==
    CASE strategy = "affirmative" ->
            IF yes > 0 THEN "yes" ELSE IF open > 0 THEN "open" ELSE "no"
      [] strategy = "unanimous" ->
            IF no > 0 THEN "no" ELSE IF open > 0 THEN "open" ELSE "yes"
      [] strategy = "consensus" ->
            IF yes > no + open THEN "yes" ELSE IF yes + open <= no THEN "no" ELSE "open"

(* Mutant of Lowers: an open child without a condition is left out.        *)
LowersPartly(strategy, outcome, open) ==
    strategy # "consensus" /\ \E c \in open : outcome[c].lowers

(* The condition of what is left open: all of it, or none.                 *)
Lowers(strategy, outcome, open) ==
    strategy # "consensus" /\ \A c \in open : outcome[c].lowers

Residual(strategy, outcome) ==
    LET open == {c \in DOMAIN outcome : outcome[c].is = "open"}
        rows == {r \in Row : IF strategy = "affirmative"
                             THEN \E c \in open : r \in outcome[c].rows
                             ELSE \A c \in open : r \in outcome[c].rows}
    IN IF Lowers(strategy, outcome, open)
       THEN OpenOn(rows)
       ELSE Open

(* One without children is refused, inverted or not.                       *)
Composite(strategy, invert, outcome) ==
    LET is == Verdict(strategy, Number(outcome, "yes"), Number(outcome, "no"),
                      Number(outcome, "open"))
    IN IF DOMAIN outcome = {} THEN Settled(FALSE)
       ELSE Inverted(IF is = "open" THEN Residual(strategy, outcome) ELSE Settled(is = "yes"),
                     invert)

-----------------------------------------------------------------------------
(* realmScopeMatches: the reach of a grant of an actor over a row.         *)
Reaches(scope, who, row) ==
    \/ scope = "any"
    \/ /\ scope \in {"own", "ownOrNull"}
       /\ who # Global
       /\ row.realm \in (IF scope = "ownOrNull" THEN {who, Global} ELSE {who})

(* Scope mode: without the row the reach passes, inverted or not, and only *)
(* a compilation takes it for open.                                        *)
Reach(scope, invert, who, row, lower) ==
    IF row = NoRow /\ ~lower THEN Settled(TRUE)
    ELSE Inverted(OnRow({r \in Row : Reaches(scope, who, r)}, row, lower), invert)

Matching == {r \in Row : r.match}

(* Without an actor whatever asks for one stays open.                      *)
Plain(leaf, who, row, lower) ==
    IF leaf = "time" THEN Settled(FALSE)
    ELSE IF leaf \in {"attributes", "names"}
    THEN OnRow(Matching, row, lower /\ leaf = "attributes")
    ELSE IF who = Nobody THEN Open
    ELSE IF leaf = "realm" THEN OnRow({r \in Row : r.realm = who}, row, lower)
    ELSE Settled(TRUE)

LeafOutcome(c, who, row, lower) ==
    IF c.leaf = "reach" /\ who # Nobody
    THEN Reach("own", c.invert, who, row, lower)
    ELSE Inverted(Plain(c.leaf, who, row, lower), c.invert)

(* What one grant says: its reach and its policy.  A policy's condition is *)
(* about the default columns, so it is not used for other ones, and a      *)
(* policy that asks for the grants again is refused.                       *)
GrantOutcome(g, who, row, lower, other) ==
    LET reach == Reach(g.scope, FALSE, who, row, lower)
        policy == IF g.policy = NoPolicy THEN Settled(TRUE)
                  ELSE IF g.policy = "binding" THEN Settled(FALSE)
                  ELSE LeafOutcome([leaf |-> g.policy, invert |-> FALSE], who, row, lower)
    IN IF "no" \in {reach.is, policy.is} \/ (g.scope = "none" /\ reach.is = "open")
       THEN Settled(FALSE)
       ELSE IF policy.is = "yes"
       THEN IF g.scope = "any" THEN Settled(TRUE) ELSE reach
       ELSE IF policy.lowers /\ ~other
       THEN OpenOn(policy.rows \intersect (IF reach.is = "open" THEN reach.rows ELSE Row))
       ELSE Open

(* The actor's grants are alternatives; without an identity there is none, *)
(* inverted or not.                                                        *)
Binding(invert, who, row, lower) ==
    LET outcome == [g \in grants |-> GrantOutcome(g, who, row, lower, junction)]
    IN IF who = Nobody THEN Settled(FALSE)
       ELSE IF grants = {} THEN Settled(invert)
       ELSE Composite("affirmative", invert, outcome)

(* PermissionEvaluator: the walk with the data at hand.                    *)
Evaluate(row, lower) ==
    Composite(tree.strategy, tree.invert,
              [c \in tree.children |->
                 IF c.leaf = "binding" THEN Binding(c.invert, actor, row, lower)
                 ELSE LeafOutcome(c, actor, row, lower)])

(* The check of a single record (evaluateRecord).                          *)
Granted == {r \in Row : Evaluate(r, FALSE).is = "yes"}

-----------------------------------------------------------------------------
AsksForGrants == \E c \in tree.children : c.leaf = "binding"

Init ==
    /\ tree \in Tree
    /\ grants \in {gs \in SUBSET Grant : Cardinality(gs) <= MaxGrants}
    /\ actor \in Realm \union {Global, Nobody}
    /\ junction \in BOOLEAN
    /\ AsksForGrants \/ (grants = {} /\ ~junction)
    /\ verdict = "asked"
    /\ shown = {}

(* preEvaluateOneOf: what is open passes.                                  *)
Gate ==
    /\ verdict = "asked"
    /\ verdict' = IF Evaluate(NoRow, FALSE).is = "no" THEN "refused" ELSE "gated"
    /\ UNCHANGED <<tree, grants, actor, junction, shown>>

Compile ==
    /\ verdict = "gated"
    /\ LET found == Evaluate(NoRow, TRUE)
       IN CASE found.is = "yes" -> verdict' = "allow" /\ shown' = Row
            [] found.is = "no" -> verdict' = "deny" /\ shown' = {}
            [] found.lowers -> verdict' = "conditional" /\ shown' = found.rows
            [] OTHER -> verdict' = "post" /\ UNCHANGED shown
    /\ UNCHANGED <<tree, grants, actor, junction>>

(* The condition could not be pushed down: each row is checked.            *)
CheckRows ==
    /\ verdict = "post"
    /\ verdict' = "checked"
    /\ shown' = Granted
    /\ UNCHANGED <<tree, grants, actor, junction>>

Next == Gate \/ Compile \/ CheckRows

Spec == Init /\ [][Next]_vars

-----------------------------------------------------------------------------
TypeOK ==
    /\ tree \in Tree /\ grants \subseteq Grant
    /\ actor \in Realm \union {Global, Nobody} /\ junction \in BOOLEAN
    /\ verdict \in {"asked", "gated", "refused", "allow", "deny", "conditional",
                    "post", "checked"}
    /\ shown \subseteq Row

Answered == verdict \notin {"asked", "gated", "post"}

(* A node above a reach is inverted: what passes for want of a row counts  *)
(* against the request.                                                    *)
Masked ==
    \E c \in tree.children :
        \/ tree.invert /\ c.leaf \in {"reach", "binding"}
        \/ c.invert /\ c.leaf = "binding"

(* A list shows the rows a check of each would grant, whatever the gate    *)
(* and the compilation know of them; what the gate refuses has none, but   *)
(* for a tree that is Masked.                                              *)
ListedIsGranted ==
    Answered => shown = Granted \/ (verdict = "refused" /\ Masked)

(* The gate refuses no request the check of a record would grant.          *)
GateRefusesNothingGranted == verdict = "refused" => Granted = {}

=============================================================================
