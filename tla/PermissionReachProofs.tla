----------------------- MODULE PermissionReachProofs -----------------------
(***************************************************************************)
(* A list shows what a check of each row would grant, for any set of       *)
(* policies in the tree, any grants of the actor and any realms: what the  *)
(* walk settles without a row stays settled once there is one, and what it *)
(* lowers selects exactly the rows that pass.                              *)
(***************************************************************************)
EXTENDS PermissionReach, FunctionTheorems, FiniteSetTheorems, TLAPS

Outcome == [is : {"yes", "no", "open"}, lowers : BOOLEAN, rows : SUBSET Row]

Proper(a) == a \in Outcome /\ (a.lowers => a.is = "open")

(* a is what a walk finds with less of the data than b has.                *)
NoKept(a, b) == a.is = "no" => b.is = "no"
YesKept(a, b) == a.is = "yes" => b.is = "yes"
Exact(a, b, r) == a.lowers => b.is \in {"yes", "no"} /\ (b.is = "yes" <=> r \in a.rows)

Sound(a, b, r) == NoKept(a, b) /\ YesKept(a, b) /\ Exact(a, b, r)

-----------------------------------------------------------------------------
LEMMA ProperBasics ==
  /\ \A b \in BOOLEAN : Proper(Settled(b))
  /\ Proper(Open)
  /\ \A rows \in SUBSET Row : Proper(OpenOn(rows))
BY DEF Proper, Outcome, Settled, Open, OpenOn

LEMMA InvertedProper ==
  ASSUME NEW a, NEW i \in BOOLEAN, Proper(a) PROVE Proper(Inverted(a, i))
BY DEF Proper, Outcome, Inverted, Settled, Open, OpenOn

LEMMA InvertedSound ==
  ASSUME NEW a, NEW b, NEW r \in Row, NEW i \in BOOLEAN, Proper(a), Proper(b), Sound(a, b, r)
  PROVE  Sound(Inverted(a, i), Inverted(b, i), r)
BY DEF Proper, Outcome, Sound, NoKept, YesKept, Exact, Inverted, Settled, Open, OpenOn

(* Inverting swaps what is kept.                                           *)
LEMMA InvertedNoKept ==
  ASSUME NEW a, NEW b, NEW i \in BOOLEAN, Proper(a), Proper(b), NoKept(a, b),
         i => YesKept(a, b)
  PROVE  NoKept(Inverted(a, i), Inverted(b, i))
BY DEF Proper, Outcome, NoKept, YesKept, Inverted, Settled, Open, OpenOn

-----------------------------------------------------------------------------
(* Counting the outcomes of the children.                                  *)

LEMMA DisjointCount ==
  ASSUME NEW S, NEW T, IsFiniteSet(S), IsFiniteSet(T), S \intersect T = {}
  PROVE  /\ IsFiniteSet(S \union T)
         /\ Cardinality(S \union T) = Cardinality(S) + Cardinality(T)
<1>1. IsFiniteSet(S \union T)
      /\ Cardinality(S \union T) = Cardinality(S) + Cardinality(T) - Cardinality(S \intersect T)
  BY FS_Union
<1>2. Cardinality(S \intersect T) = 0
  BY FS_EmptySet
<1>3. Cardinality(S) \in Nat /\ Cardinality(T) \in Nat
  BY FS_CardinalityType
<1> QED
  BY <1>1, <1>2, <1>3

LEMMA NumberType ==
  ASSUME NEW f, IsFiniteSet(DOMAIN f), NEW is
  PROVE  /\ IsFiniteSet({c \in DOMAIN f : f[c].is = is})
         /\ Number(f, is) \in Nat
         /\ Number(f, is) = 0 <=> \A c \in DOMAIN f : f[c].is # is
<1> DEFINE S == {c \in DOMAIN f : f[c].is = is}
<1>1. IsFiniteSet(S)
  <2>1. S \subseteq DOMAIN f
    OBVIOUS
  <2> QED
    BY <2>1, FS_Subset
<1>2. Cardinality(S) \in Nat /\ (Cardinality(S) = 0 <=> S = {})
  BY <1>1, FS_CardinalityType, FS_EmptySet
<1> QED
  BY <1>1, <1>2 DEF Number

LEMMA NumbersAddUp ==
  ASSUME NEW f, IsFiniteSet(DOMAIN f), \A c \in DOMAIN f : Proper(f[c])
  PROVE  Number(f, "yes") + Number(f, "no") + Number(f, "open") = Cardinality(DOMAIN f)
<1> DEFINE Y == {c \in DOMAIN f : f[c].is = "yes"}
           N == {c \in DOMAIN f : f[c].is = "no"}
           O == {c \in DOMAIN f : f[c].is = "open"}
<1>1. IsFiniteSet(Y) /\ IsFiniteSet(N) /\ IsFiniteSet(O)
  BY NumberType
<1>2. Y \intersect N = {} /\ (Y \union N) \intersect O = {}
  OBVIOUS
<1>3. (Y \union N) \union O = DOMAIN f
  BY DEF Proper, Outcome
<1>4. IsFiniteSet(Y \union N) /\ Cardinality(Y \union N) = Cardinality(Y) + Cardinality(N)
  <2> HIDE DEF Y, N, O
  <2> QED
    BY <1>1, <1>2, DisjointCount
<1>5. Cardinality((Y \union N) \union O) = Cardinality(Y \union N) + Cardinality(O)
  <2> HIDE DEF Y, N, O
  <2> QED
    BY <1>1, <1>2, <1>4, DisjointCount
<1>6. Number(f, "yes") = Cardinality(Y) /\ Number(f, "no") = Cardinality(N)
      /\ Number(f, "open") = Cardinality(O)
  BY DEF Number
<1> QED
  <2> HIDE DEF Y, N, O
  <2> QED
    BY <1>3, <1>4, <1>5, <1>6

LEMMA NumberGrows ==
  ASSUME NEW f, NEW g, DOMAIN f = DOMAIN g, IsFiniteSet(DOMAIN f), NEW is,
         \A c \in DOMAIN f : f[c].is = is => g[c].is = is
  PROVE  Number(f, is) <= Number(g, is)
<1>1. {c \in DOMAIN f : f[c].is = is} \subseteq {c \in DOMAIN g : g[c].is = is}
  OBVIOUS
<1>2. IsFiniteSet({c \in DOMAIN g : g[c].is = is})
  BY FS_Subset
<1> QED
  BY <1>1, <1>2, FS_Subset DEF Number

LEMMA VerdictType ==
  ASSUME NEW s \in Strategy, NEW y, NEW n, NEW o
  PROVE  Verdict(s, y, n, o) \in {"yes", "no", "open"}
BY DEF Verdict, Strategy

-----------------------------------------------------------------------------
(* A composite, over the outcomes f of its children and then over g, what  *)
(* the same children come to with the row at hand.                         *)

Votes(s, f) == Verdict(s, Number(f, "yes"), Number(f, "no"), Number(f, "open"))

Weighed(s, f) == IF Votes(s, f) = "open" THEN Residual(s, f) ELSE Settled(Votes(s, f) = "yes")

LEMMA CompositeIsWeighed ==
  ASSUME NEW s, NEW i, NEW f
  PROVE  Composite(s, i, f) =
           IF DOMAIN f = {} THEN Settled(FALSE) ELSE Inverted(Weighed(s, f), i)
BY DEF Composite, Weighed, Votes

LEMMA WeighedShape ==
  ASSUME NEW s \in Strategy, NEW f, IsFiniteSet(DOMAIN f), \A c \in DOMAIN f : Proper(f[c])
  PROVE  /\ Votes(s, f) \in {"yes", "no", "open"}
         /\ Proper(Weighed(s, f))
         /\ Weighed(s, f).is = Votes(s, f)
<1>1. Votes(s, f) \in {"yes", "no", "open"}
  BY VerdictType DEF Votes
<1>2. Proper(Residual(s, f)) /\ Residual(s, f).is = "open"
  BY DEF Residual, Proper, Outcome, Open, OpenOn
<1> QED
  BY <1>1, <1>2, ProperBasics DEF Weighed, Settled

LEMMA WeighedKeeps ==
  ASSUME NEW s \in Strategy, NEW f, NEW g, DOMAIN f = DOMAIN g, IsFiniteSet(DOMAIN f),
         \A c \in DOMAIN f : Proper(f[c]) /\ Proper(g[c])
  PROVE  /\ (\A c \in DOMAIN f : NoKept(f[c], g[c])) => NoKept(Weighed(s, f), Weighed(s, g))
         /\ (\A c \in DOMAIN f : YesKept(f[c], g[c])) => YesKept(Weighed(s, f), Weighed(s, g))
<1>1. /\ Number(f, "yes") + Number(f, "no") + Number(f, "open") = Cardinality(DOMAIN f)
      /\ Number(g, "yes") + Number(g, "no") + Number(g, "open") = Cardinality(DOMAIN f)
  BY NumbersAddUp
<1>2. /\ Number(f, "yes") \in Nat /\ Number(f, "no") \in Nat /\ Number(f, "open") \in Nat
      /\ Number(g, "yes") \in Nat /\ Number(g, "no") \in Nat /\ Number(g, "open") \in Nat
  BY NumberType
<1> DEFINE Fewer(a, b) == Votes(s, f) = a => Votes(s, g) = b
<1>6. /\ Number(f, "no") <= Number(g, "no") => Fewer("no", "no")
      /\ Number(f, "yes") <= Number(g, "yes") => Fewer("yes", "yes")
  <2> DEFINE y == Number(f, "yes")  n == Number(f, "no")  o == Number(f, "open")
             y2 == Number(g, "yes") n2 == Number(g, "no") o2 == Number(g, "open")
  <2>1. /\ y \in Nat /\ n \in Nat /\ o \in Nat /\ y2 \in Nat /\ n2 \in Nat /\ o2 \in Nat
        /\ y + n + o = y2 + n2 + o2
    BY <1>1, <1>2
  <2>2. Votes(s, f) = Verdict(s, y, n, o) /\ Votes(s, g) = Verdict(s, y2, n2, o2)
    BY DEF Votes
  <2> HIDE DEF y, n, o, y2, n2, o2
  <2>3. /\ n <= n2 => Fewer("no", "no")
        /\ y <= y2 => Fewer("yes", "yes")
    <3>1. CASE s = "affirmative"
      BY <2>1, <2>2, <3>1 DEF Verdict
    <3>2. CASE s = "unanimous"
      BY <2>1, <2>2, <3>2 DEF Verdict
    <3>3. CASE s = "consensus"
      BY <2>1, <2>2, <3>3 DEF Verdict
    <3> QED
      BY <3>1, <3>2, <3>3 DEF Strategy
  <2> QED
    BY <2>3 DEF y, n, y2, n2
<1>3. ASSUME \A c \in DOMAIN f : NoKept(f[c], g[c]), Votes(s, f) = "no"
      PROVE  Votes(s, g) = "no"
  <2>1. Number(f, "no") <= Number(g, "no")
    BY <1>3, NumberGrows DEF NoKept
  <2> QED
    BY <1>3, <1>6, <2>1
<1>4. ASSUME \A c \in DOMAIN f : YesKept(f[c], g[c]), Votes(s, f) = "yes"
      PROVE  Votes(s, g) = "yes"
  <2>1. Number(f, "yes") <= Number(g, "yes")
    BY <1>4, NumberGrows DEF YesKept
  <2> QED
    BY <1>4, <1>6, <2>1
<1>5. Weighed(s, f).is = Votes(s, f) /\ Weighed(s, g).is = Votes(s, g)
  BY WeighedShape
<1> QED
  BY <1>3, <1>4, <1>5 DEF NoKept, YesKept

(* What all the open children lower, taken together, selects the rows      *)
(* that pass.                                                              *)
LEMMA WeighedExact ==
  ASSUME NEW s \in Strategy, NEW f, NEW g, DOMAIN f = DOMAIN g, IsFiniteSet(DOMAIN f),
         NEW r \in Row, \A c \in DOMAIN f : Proper(f[c]) /\ Proper(g[c]) /\ Sound(f[c], g[c], r)
  PROVE  Exact(Weighed(s, f), Weighed(s, g), r)
<1> SUFFICES ASSUME Weighed(s, f).lowers
             PROVE  Weighed(s, g).is \in {"yes", "no"}
                    /\ (Weighed(s, g).is = "yes" <=> r \in Weighed(s, f).rows)
  BY DEF Exact
<1> DEFINE open == {c \in DOMAIN f : f[c].is = "open"}
<1>1. Votes(s, f) = "open" /\ Weighed(s, f) = Residual(s, f)
  BY DEF Weighed, Settled
<1>2. s # "consensus" /\ \A c \in open : f[c].lowers
  BY <1>1 DEF Residual, Lowers, Open
<1>3. r \in Weighed(s, f).rows <=>
        IF s = "affirmative" THEN \E c \in open : r \in f[c].rows
        ELSE \A c \in open : r \in f[c].rows
  BY <1>1, <1>2 DEF Residual, Lowers, OpenOn
<1>4. \A c \in open : g[c].is \in {"yes", "no"} /\ (g[c].is = "yes" <=> r \in f[c].rows)
  BY <1>2 DEF Sound, Exact
<1>5. \A c \in DOMAIN f \ open : f[c].is \in {"yes", "no"} /\ g[c].is = f[c].is
  BY DEF Sound, NoKept, YesKept, Proper, Outcome
<1>6. \A c \in DOMAIN g : g[c].is # "open"
  BY <1>4, <1>5
<1>7. /\ \A is : Number(f, is) \in Nat /\ (Number(f, is) = 0 <=> \A c \in DOMAIN f : f[c].is # is)
      /\ \A is : Number(g, is) \in Nat /\ (Number(g, is) = 0 <=> \A c \in DOMAIN g : g[c].is # is)
  BY NumberType
<1>8. Number(g, "open") = 0
  BY <1>6, <1>7
<1>9. Weighed(s, g).is = Votes(s, g)
  BY WeighedShape
<1>10. CASE s = "affirmative"
  <2>1. Number(f, "yes") = 0
    BY <1>1, <1>7, <1>10 DEF Votes, Verdict
  <2>2. Votes(s, g) = IF Number(g, "yes") > 0 THEN "yes" ELSE "no"
    BY <1>7, <1>8, <1>10 DEF Votes, Verdict
  <2>3. Number(g, "yes") > 0 <=> \E c \in DOMAIN g : g[c].is = "yes"
    BY <1>7
  <2>4. (\E c \in DOMAIN g : g[c].is = "yes") <=> \E c \in open : r \in f[c].rows
    BY <2>1, <1>4, <1>5, <1>7
  <2> QED
    BY <1>3, <1>9, <1>10, <2>2, <2>3, <2>4
<1>11. CASE s = "unanimous"
  <2>1. Number(f, "no") = 0
    BY <1>1, <1>7, <1>11 DEF Votes, Verdict
  <2>2. Votes(s, g) = IF Number(g, "no") > 0 THEN "no" ELSE "yes"
    BY <1>7, <1>8, <1>11 DEF Votes, Verdict
  <2>3. Number(g, "no") > 0 <=> \E c \in DOMAIN g : g[c].is = "no"
    BY <1>7
  <2>4. (\E c \in DOMAIN g : g[c].is = "no") <=> ~ \A c \in open : r \in f[c].rows
    BY <2>1, <1>4, <1>5, <1>7
  <2> QED
    BY <1>3, <1>9, <1>11, <2>2, <2>3, <2>4
<1> QED
  BY <1>2, <1>10, <1>11 DEF Strategy

LEMMA CompositeProper ==
  ASSUME NEW s \in Strategy, NEW i \in BOOLEAN, NEW f, IsFiniteSet(DOMAIN f),
         \A c \in DOMAIN f : Proper(f[c])
  PROVE  Proper(Composite(s, i, f))
BY CompositeIsWeighed, WeighedShape, InvertedProper, ProperBasics

LEMMA CompositeSound ==
  ASSUME NEW s \in Strategy, NEW i \in BOOLEAN, NEW f, NEW g, DOMAIN f = DOMAIN g,
         IsFiniteSet(DOMAIN f), NEW r \in Row,
         \A c \in DOMAIN f : Proper(f[c]) /\ Proper(g[c]) /\ Sound(f[c], g[c], r)
  PROVE  Sound(Composite(s, i, f), Composite(s, i, g), r)
<1>1. CASE DOMAIN f = {}
  BY <1>1, CompositeIsWeighed DEF Sound, NoKept, YesKept, Exact, Settled
<1>2. CASE DOMAIN f # {}
  <2>1. Sound(Weighed(s, f), Weighed(s, g), r)
    BY WeighedKeeps, WeighedExact DEF Sound
  <2>2. Proper(Weighed(s, f)) /\ Proper(Weighed(s, g))
    BY WeighedShape
  <2> QED
    BY <1>2, <2>1, <2>2, CompositeIsWeighed, InvertedSound
<1> QED
  BY <1>1, <1>2

LEMMA CompositeNoKept ==
  ASSUME NEW s \in Strategy, NEW i \in BOOLEAN, NEW f, NEW g, DOMAIN f = DOMAIN g,
         IsFiniteSet(DOMAIN f),
         \A c \in DOMAIN f : /\ Proper(f[c]) /\ Proper(g[c])
                             /\ NoKept(f[c], g[c]) /\ (i => YesKept(f[c], g[c]))
  PROVE  NoKept(Composite(s, i, f), Composite(s, i, g))
<1>1. CASE DOMAIN f = {}
  BY <1>1, CompositeIsWeighed DEF NoKept, Settled
<1>2. CASE DOMAIN f # {}
  <2>1. NoKept(Weighed(s, f), Weighed(s, g)) /\ (i => YesKept(Weighed(s, f), Weighed(s, g)))
    BY WeighedKeeps
  <2>2. Proper(Weighed(s, f)) /\ Proper(Weighed(s, g))
    BY WeighedShape
  <2> QED
    BY <1>2, <2>1, <2>2, CompositeIsWeighed, InvertedNoKept
<1> QED
  BY <1>1, <1>2

-----------------------------------------------------------------------------
(* The leaves and the grants, without the row and with it.                 *)

LEMMA NoRowIsNone == ASSUME ReachAssumption PROVE NoRow \notin Row
BY DEF ReachAssumption, NoRow, Row, Nobody, Global

LEMMA OnRowSound ==
  ASSUME ReachAssumption, NEW rows \in SUBSET Row, NEW r \in Row, NEW lower \in BOOLEAN
  PROVE  /\ Proper(OnRow(rows, NoRow, lower)) /\ Proper(OnRow(rows, r, FALSE))
         /\ Sound(OnRow(rows, NoRow, lower), OnRow(rows, r, FALSE), r)
<1>1. r # NoRow
  BY NoRowIsNone
<1> QED
  BY <1>1, ProperBasics DEF OnRow, Sound, NoKept, YesKept, Exact, Settled, Open, OpenOn

LEMMA SameSound ==
  ASSUME NEW a, NEW r, ~a.lowers PROVE Sound(a, a, r)
BY DEF Sound, NoKept, YesKept, Exact

LEMMA PlainSound ==
  ASSUME ReachAssumption, NEW leaf \in Leaf, NEW who, NEW r \in Row, NEW lower \in BOOLEAN
  PROVE  /\ Proper(Plain(leaf, who, NoRow, lower)) /\ Proper(Plain(leaf, who, r, FALSE))
         /\ Sound(Plain(leaf, who, NoRow, lower), Plain(leaf, who, r, FALSE), r)
<1>1. \A b \in BOOLEAN : Proper(Settled(b)) /\ Sound(Settled(b), Settled(b), r)
  BY ProperBasics, SameSound DEF Settled
<1>2. Proper(Open) /\ Sound(Open, Open, r)
  BY ProperBasics, SameSound DEF Open
<1>3. CASE leaf = "time"
  BY <1>1, <1>3 DEF Plain
<1>4. CASE leaf \in {"attributes", "names"}
  <2>1. Matching \in SUBSET Row /\ (lower /\ leaf = "attributes") \in BOOLEAN
    BY DEF Matching
  <2>2. /\ Plain(leaf, who, NoRow, lower) = OnRow(Matching, NoRow, lower /\ leaf = "attributes")
        /\ Plain(leaf, who, r, FALSE) = OnRow(Matching, r, FALSE)
    BY <1>4 DEF Plain, OnRow
  <2> QED
    BY <2>1, <2>2, OnRowSound
<1>5. CASE leaf \notin {"time", "attributes", "names"} /\ who = Nobody
  BY <1>2, <1>5 DEF Plain
<1>6. CASE leaf = "realm" /\ who # Nobody
  <2>1. {x \in Row : x.realm = who} \in SUBSET Row
    OBVIOUS
  <2> QED
    BY <1>6, <2>1, OnRowSound DEF Plain
<1>7. CASE leaf \notin {"time", "attributes", "names", "realm"} /\ who # Nobody
  BY <1>1, <1>7 DEF Plain
<1> QED
  BY <1>3, <1>4, <1>5, <1>6, <1>7

LEMMA ReachSound ==
  ASSUME ReachAssumption, NEW scope, NEW i \in BOOLEAN, NEW who, NEW r \in Row
  PROVE  /\ \A lower \in BOOLEAN : Proper(Reach(scope, i, who, NoRow, lower))
         /\ Proper(Reach(scope, i, who, r, FALSE))
         /\ Sound(Reach(scope, i, who, NoRow, TRUE), Reach(scope, i, who, r, FALSE), r)
         /\ Reach(scope, i, who, NoRow, FALSE) = Settled(TRUE)
<1> DEFINE rows == {x \in Row : Reaches(scope, who, x)}
<1>1. rows \in SUBSET Row /\ r # NoRow
  BY NoRowIsNone
<1>2. /\ Reach(scope, i, who, NoRow, TRUE) = Inverted(OnRow(rows, NoRow, TRUE), i)
      /\ Reach(scope, i, who, r, FALSE) = Inverted(OnRow(rows, r, FALSE), i)
      /\ Reach(scope, i, who, NoRow, FALSE) = Settled(TRUE)
  BY <1>1 DEF Reach
<1>3. /\ Proper(OnRow(rows, NoRow, TRUE)) /\ Proper(OnRow(rows, r, FALSE))
      /\ Sound(OnRow(rows, NoRow, TRUE), OnRow(rows, r, FALSE), r)
  <2> HIDE DEF rows
  <2> QED
    BY <1>1, OnRowSound
<1>4. /\ Proper(Inverted(OnRow(rows, NoRow, TRUE), i)) /\ Proper(Inverted(OnRow(rows, r, FALSE), i))
      /\ Sound(Inverted(OnRow(rows, NoRow, TRUE), i), Inverted(OnRow(rows, r, FALSE), i), r)
  <2> HIDE DEF rows
  <2> QED
    BY <1>3, InvertedProper, InvertedSound
<1> QED
  BY <1>2, <1>4, ProperBasics

(* A leaf other than a reach keeps to what it said before the row was      *)
(* known; a reach does so once it is compiled, and passes the gate.        *)
LEMMA LeafSound ==
  ASSUME ReachAssumption, NEW c \in Child, NEW who, NEW r \in Row
  PROVE  /\ \A lower \in BOOLEAN : Proper(LeafOutcome(c, who, NoRow, lower))
         /\ Proper(LeafOutcome(c, who, r, FALSE))
         /\ Sound(LeafOutcome(c, who, NoRow, TRUE), LeafOutcome(c, who, r, FALSE), r)
         /\ NoKept(LeafOutcome(c, who, NoRow, FALSE), LeafOutcome(c, who, r, FALSE))
         /\ c.leaf # "reach" =>
              Sound(LeafOutcome(c, who, NoRow, FALSE), LeafOutcome(c, who, r, FALSE), r)
<1>1. c.leaf \in Leaf /\ c.invert \in BOOLEAN
  BY DEF Child
<1>2. CASE c.leaf = "reach" /\ who # Nobody
  <2>1. \A row, lower : LeafOutcome(c, who, row, lower) = Reach("own", c.invert, who, row, lower)
    BY <1>2 DEF LeafOutcome
  <2>2. NoKept(Settled(TRUE), LeafOutcome(c, who, r, FALSE))
    BY DEF NoKept, Settled
  <2> QED
    BY <1>1, <1>2, <2>1, <2>2, ReachSound
<1>3. CASE ~(c.leaf = "reach" /\ who # Nobody)
  <2>1. \A row, lower : LeafOutcome(c, who, row, lower)
                          = Inverted(Plain(c.leaf, who, row, lower), c.invert)
    BY <1>3 DEF LeafOutcome
  <2>2. \A lower \in BOOLEAN :
          /\ Proper(Plain(c.leaf, who, NoRow, lower)) /\ Proper(Plain(c.leaf, who, r, FALSE))
          /\ Sound(Plain(c.leaf, who, NoRow, lower), Plain(c.leaf, who, r, FALSE), r)
    BY <1>1, PlainSound
  <2>3. \A lower \in BOOLEAN :
          /\ Proper(LeafOutcome(c, who, NoRow, lower)) /\ Proper(LeafOutcome(c, who, r, FALSE))
          /\ Sound(LeafOutcome(c, who, NoRow, lower), LeafOutcome(c, who, r, FALSE), r)
    BY <1>1, <2>1, <2>2, InvertedProper, InvertedSound
  <2> QED
    BY <2>3 DEF Sound
<1> QED
  BY <1>2, <1>3

(* A grant's policy, and what it says together with the grant's reach.     *)
OfPolicy(g, who, row, lower) ==
    IF g.policy = NoPolicy THEN Settled(TRUE)
    ELSE IF g.policy = "binding" THEN Settled(FALSE)
    ELSE LeafOutcome([leaf |-> g.policy, invert |-> FALSE], who, row, lower)

Together(scope, other, reach, policy) ==
    IF "no" \in {reach.is, policy.is} \/ (scope = "none" /\ reach.is = "open")
    THEN Settled(FALSE)
    ELSE IF policy.is = "yes"
    THEN IF scope = "any" THEN Settled(TRUE) ELSE reach
    ELSE IF policy.lowers /\ ~other
    THEN OpenOn(policy.rows \intersect (IF reach.is = "open" THEN reach.rows ELSE Row))
    ELSE Open

LEMMA GrantIsTogether ==
  ASSUME NEW g, NEW who, NEW row, NEW lower, NEW other
  PROVE  GrantOutcome(g, who, row, lower, other) =
           Together(g.scope, other, Reach(g.scope, FALSE, who, row, lower),
                    OfPolicy(g, who, row, lower))
BY DEF GrantOutcome, Together, OfPolicy

LEMMA OfPolicySound ==
  ASSUME ReachAssumption, NEW g \in Grant, NEW who, NEW r \in Row
  PROVE  /\ \A lower \in BOOLEAN : Proper(OfPolicy(g, who, NoRow, lower))
         /\ Proper(OfPolicy(g, who, r, FALSE))
         /\ Sound(OfPolicy(g, who, NoRow, TRUE), OfPolicy(g, who, r, FALSE), r)
         /\ NoKept(OfPolicy(g, who, NoRow, FALSE), OfPolicy(g, who, r, FALSE))
<1>1. CASE g.policy = NoPolicy
  BY <1>1, ProperBasics DEF OfPolicy, Sound, NoKept, YesKept, Exact, Settled
<1>2. CASE g.policy # NoPolicy /\ g.policy = "binding"
  BY <1>2, ProperBasics DEF OfPolicy, Sound, NoKept, YesKept, Exact, Settled
<1>3. CASE g.policy # NoPolicy /\ g.policy # "binding"
  <2> DEFINE c == [leaf |-> g.policy, invert |-> FALSE]
  <2>1. c \in Child
    BY <1>3 DEF Grant, Child, ReachAssumption
  <2>2. \A row, lower : OfPolicy(g, who, row, lower) = LeafOutcome(c, who, row, lower)
    BY <1>3 DEF OfPolicy
  <2> HIDE DEF c
  <2> QED
    BY <2>1, <2>2, LeafSound
<1> QED
  BY <1>1, <1>2, <1>3

LEMMA TogetherProper ==
  ASSUME NEW scope, NEW other, NEW re, NEW po, Proper(re), Proper(po)
  PROVE  Proper(Together(scope, other, re, po))
<1>1. \A rows : (po.rows \intersect (IF re.is = "open" THEN re.rows ELSE Row)) \in SUBSET Row
  BY DEF Proper, Outcome
<1> QED
  BY <1>1, ProperBasics DEF Together

LEMMA TogetherSound ==
  ASSUME NEW scope, NEW other, NEW r \in Row, NEW reached \in SUBSET Row,
         NEW po, NEW checked, Proper(po), Proper(checked), Sound(po, checked, r),
         scope = "any" => reached = Row, scope = "none" => reached = {}
  PROVE  Sound(Together(scope, other, OpenOn(reached), po),
               Together(scope, other, Settled(r \in reached), checked), r)
<1> DEFINE a == Together(scope, other, OpenOn(reached), po)
           b == Together(scope, other, Settled(r \in reached), checked)
<1>1. CASE po.is = "no" \/ scope = "none"
  <2>1. a = Settled(FALSE) /\ b = Settled(FALSE)
    BY <1>1 DEF Together, OpenOn, Settled, Sound, NoKept
  <2> QED
    BY <2>1, SameSound DEF Settled
<1>2. CASE po.is = "yes" /\ scope # "none"
  <2>1. checked.is = "yes"
    BY <1>2 DEF Sound, YesKept
  <2>2. CASE scope = "any"
    <3>1. a = Settled(TRUE) /\ b = Settled(TRUE)
      BY <1>2, <2>1, <2>2 DEF Together, OpenOn, Settled
    <3> QED
      BY <3>1, SameSound DEF Settled
  <2>3. CASE scope # "any"
    <3>1. a = OpenOn(reached) /\ b = Settled(r \in reached)
      BY <1>2, <2>1, <2>3 DEF Together, OpenOn, Settled
    <3> QED
      BY <3>1 DEF Sound, NoKept, YesKept, Exact, OpenOn, Settled
  <2> QED
    BY <2>2, <2>3
<1>3. CASE po.is = "open" /\ scope # "none"
  <2>1. CASE po.lowers /\ ~other
    <3>1. a = OpenOn(po.rows \intersect reached)
      BY <1>3, <2>1 DEF Together, OpenOn
    <3>2. checked.is \in {"yes", "no"} /\ (checked.is = "yes" <=> r \in po.rows)
      BY <2>1 DEF Sound, Exact
    <3>3. b.is \in {"yes", "no"} /\ (b.is = "yes" <=> r \in po.rows \intersect reached)
      BY <1>3, <3>2 DEF Together, Settled
    <3> QED
      BY <3>1, <3>3 DEF Sound, NoKept, YesKept, Exact, OpenOn
  <2>2. CASE ~(po.lowers /\ ~other)
    <3>1. a = Open
      BY <1>3, <2>2 DEF Together, OpenOn
    <3> QED
      BY <3>1 DEF Sound, NoKept, YesKept, Exact, Open
  <2> QED
    BY <2>1, <2>2
<1> QED
  BY <1>1, <1>2, <1>3 DEF Proper, Outcome

LEMMA GrantSound ==
  ASSUME ReachAssumption, NEW g \in Grant, NEW who, NEW r \in Row, NEW other
  PROVE  /\ \A lower \in BOOLEAN : Proper(GrantOutcome(g, who, NoRow, lower, other))
         /\ Proper(GrantOutcome(g, who, r, FALSE, other))
         /\ Sound(GrantOutcome(g, who, NoRow, TRUE, other), GrantOutcome(g, who, r, FALSE, other), r)
         /\ NoKept(GrantOutcome(g, who, NoRow, FALSE, other), GrantOutcome(g, who, r, FALSE, other))
<1>1. \A lower \in BOOLEAN : Proper(GrantOutcome(g, who, NoRow, lower, other))
  BY GrantIsTogether, ReachSound, OfPolicySound, TogetherProper
<1>2. Proper(GrantOutcome(g, who, r, FALSE, other))
  BY GrantIsTogether, ReachSound, OfPolicySound, TogetherProper
<1>3. Sound(GrantOutcome(g, who, NoRow, TRUE, other), GrantOutcome(g, who, r, FALSE, other), r)
  <2> DEFINE reached == {x \in Row : Reaches(g.scope, who, x)}
  <2>1. /\ Reach(g.scope, FALSE, who, NoRow, TRUE) = OpenOn(reached)
        /\ Reach(g.scope, FALSE, who, r, FALSE) = Settled(r \in reached)
    BY NoRowIsNone DEF Reach, Inverted, OnRow
  <2>2. /\ reached \in SUBSET Row
        /\ g.scope = "any" => reached = Row
        /\ g.scope = "none" => reached = {}
    BY DEF Reaches
  <2> HIDE DEF reached
  <2>3. Sound(Together(g.scope, other, OpenOn(reached), OfPolicy(g, who, NoRow, TRUE)),
              Together(g.scope, other, Settled(r \in reached), OfPolicy(g, who, r, FALSE)), r)
    BY <2>2, OfPolicySound, TogetherSound
  <2> QED
    BY <2>1, <2>3, GrantIsTogether
<1>4. NoKept(GrantOutcome(g, who, NoRow, FALSE, other), GrantOutcome(g, who, r, FALSE, other))
  <2> SUFFICES ASSUME GrantOutcome(g, who, NoRow, FALSE, other).is = "no"
               PROVE  GrantOutcome(g, who, r, FALSE, other).is = "no"
    BY DEF NoKept
  <2>1. Together(g.scope, other, Settled(TRUE), OfPolicy(g, who, NoRow, FALSE)).is = "no"
    BY ReachSound, GrantIsTogether
  <2>2. OfPolicy(g, who, NoRow, FALSE).is = "no"
    BY <2>1 DEF Together, Settled, Open, OpenOn
  <2>3. OfPolicy(g, who, r, FALSE).is = "no"
    BY <2>2, OfPolicySound DEF NoKept
  <2>4. GrantOutcome(g, who, r, FALSE, other) = Settled(FALSE)
    BY <2>3, GrantIsTogether DEF Together
  <2>5. Settled(FALSE).is = "no"
    BY DEF Settled
  <2> QED
    BY <2>4, <2>5
<1> QED
  BY <1>1, <1>2, <1>3, <1>4

-----------------------------------------------------------------------------
(* The tree.                                                               *)

LEMMA LeavesFinite == IsFiniteSet(Leaf)
<1> DEFINE A == {"identity"}  B == A \union {"time"}  C == B \union {"attributes"}
           D == C \union {"names"}  E == D \union {"realm"}  F == E \union {"reach"}
           G == F \union {"binding"}
<1>1. IsFiniteSet(A)
  BY FS_Singleton
<1>2. IsFiniteSet(B) /\ IsFiniteSet(C)
  BY <1>1, FS_AddElement
<1>3. IsFiniteSet(D) /\ IsFiniteSet(E)
  BY <1>2, FS_AddElement
<1>4. IsFiniteSet(F) /\ IsFiniteSet(G)
  BY <1>3, FS_AddElement
<1>5. Leaf = G
  BY DEF Leaf
<1> QED
  BY <1>4, <1>5

LEMMA ChildrenFinite == IsFiniteSet(Child)
<1> DEFINE pair == [c \in Child |-> <<c.leaf, c.invert>>]
<1>1. pair \in Injection(Child, Leaf \X BOOLEAN)
  <2>1. pair \in [Child -> Leaf \X BOOLEAN]
    BY DEF Child
  <2>2. \A a, b \in Child : pair[a] = pair[b] => a = b
    BY DEF Child
  <2> HIDE DEF pair
  <2> QED
    BY <2>1, <2>2, Fun_IsInj
<1>2. IsFiniteSet(BOOLEAN)
  <2>1. BOOLEAN = {TRUE} \union {FALSE}
    OBVIOUS
  <2>2. IsFiniteSet({TRUE}) /\ IsFiniteSet({TRUE} \union {FALSE})
    BY FS_Singleton, FS_AddElement
  <2> QED
    BY <2>1, <2>2
<1>3. IsFiniteSet(Leaf \X BOOLEAN)
  BY <1>2, LeavesFinite, FS_Product
<1> QED
  <2> HIDE DEF pair
  <2> QED
    BY <1>1, <1>3, FS_Injection

LEMMA GrantsFinite == ASSUME ReachAssumption PROVE IsFiniteSet(Grant)
<1> DEFINE pair == [g \in Grant |-> <<g.scope, g.policy>>]
<1>1. pair \in Injection(Grant, Scope \X Policies)
  <2>1. pair \in [Grant -> Scope \X Policies]
    BY DEF Grant
  <2>2. \A a, b \in Grant : pair[a] = pair[b] => a = b
    BY DEF Grant
  <2> HIDE DEF pair
  <2> QED
    BY <2>1, <2>2, Fun_IsInj
<1>2. IsFiniteSet(Scope)
  <2> DEFINE A == {"none"} \union {"own"}  B == A \union {"ownOrNull"}  C == B \union {"any"}
  <2>1. IsFiniteSet(A)
    BY FS_Singleton, FS_AddElement
  <2>2. IsFiniteSet(B) /\ IsFiniteSet(C)
    BY <2>1, FS_AddElement
  <2>3. Scope = C
    BY DEF Scope
  <2> QED
    BY <2>2, <2>3
<1>3. IsFiniteSet(Policies)
  <2>1. IsFiniteSet(Leaf \union {NoPolicy})
    BY LeavesFinite, FS_AddElement
  <2>2. Policies \subseteq Leaf \union {NoPolicy}
    BY DEF ReachAssumption
  <2> QED
    BY <2>1, <2>2, FS_Subset
<1>4. IsFiniteSet(Scope \X Policies)
  BY <1>2, <1>3, FS_Product
<1> QED
  <2> HIDE DEF pair
  <2> QED
    BY <1>1, <1>4, FS_Injection

Alternatives(who, row, lower) ==
    [g \in grants |-> GrantOutcome(g, who, row, lower, junction)]

LEMMA BindingSound ==
  ASSUME ReachAssumption, grants \subseteq Grant, NEW i \in BOOLEAN, NEW who, NEW r \in Row
  PROVE  /\ \A lower \in BOOLEAN : Proper(Binding(i, who, NoRow, lower))
         /\ Proper(Binding(i, who, r, FALSE))
         /\ Sound(Binding(i, who, NoRow, TRUE), Binding(i, who, r, FALSE), r)
         /\ ~i => NoKept(Binding(i, who, NoRow, FALSE), Binding(i, who, r, FALSE))
<1>1. CASE who = Nobody \/ grants = {}
  <2>1. PICK b \in BOOLEAN : \A row, lower : Binding(i, who, row, lower) = Settled(b)
    BY <1>1 DEF Binding
  <2>2. Proper(Settled(b)) /\ Sound(Settled(b), Settled(b), r)
    BY ProperBasics, SameSound DEF Settled
  <2> QED
    BY <2>1, <2>2 DEF Sound
<1>2. CASE who # Nobody /\ grants # {}
  <2>1. \A row, lower : Binding(i, who, row, lower)
                          = Composite("affirmative", i, Alternatives(who, row, lower))
    BY <1>2 DEF Binding, Alternatives
  <2>2. \A row, lower : /\ DOMAIN Alternatives(who, row, lower) = grants
                        /\ \A g \in grants : Alternatives(who, row, lower)[g]
                              = GrantOutcome(g, who, row, lower, junction)
    BY DEF Alternatives
  <2>3. IsFiniteSet(grants) /\ "affirmative" \in Strategy
    BY GrantsFinite, FS_Subset DEF Strategy
  <2>4. \A g \in grants :
          /\ \A lower \in BOOLEAN : Proper(GrantOutcome(g, who, NoRow, lower, junction))
          /\ Proper(GrantOutcome(g, who, r, FALSE, junction))
          /\ Sound(GrantOutcome(g, who, NoRow, TRUE, junction), GrantOutcome(g, who, r, FALSE, junction), r)
          /\ NoKept(GrantOutcome(g, who, NoRow, FALSE, junction), GrantOutcome(g, who, r, FALSE, junction))
    BY GrantSound
  <2>5. /\ \A lower \in BOOLEAN : Proper(Binding(i, who, NoRow, lower))
        /\ Proper(Binding(i, who, r, FALSE))
    <3>1. \A row, lower : (\A g \in grants : Proper(Alternatives(who, row, lower)[g]))
            => Proper(Binding(i, who, row, lower))
      <4> SUFFICES ASSUME NEW row, NEW lower,
                          \A g \in grants : Proper(Alternatives(who, row, lower)[g])
                   PROVE  Proper(Composite("affirmative", i, Alternatives(who, row, lower)))
        BY <2>1
      <4> DEFINE f == Alternatives(who, row, lower)
      <4>1. IsFiniteSet(DOMAIN f) /\ \A g \in DOMAIN f : Proper(f[g])
        BY <2>2, <2>3
      <4> HIDE DEF f
      <4>2. Proper(Composite("affirmative", i, f))
        BY <2>3, <4>1, CompositeProper
      <4> QED
        BY <4>2 DEF f
    <3> QED
      BY <3>1, <2>2, <2>4
  <2>6. Sound(Binding(i, who, NoRow, TRUE), Binding(i, who, r, FALSE), r)
    <3> DEFINE f == Alternatives(who, NoRow, TRUE)
               g == Alternatives(who, r, FALSE)
    <3>1. DOMAIN f = DOMAIN g /\ IsFiniteSet(DOMAIN f)
      BY <2>2, <2>3
    <3>2. \A c \in DOMAIN f : Proper(f[c]) /\ Proper(g[c]) /\ Sound(f[c], g[c], r)
      BY <2>2, <2>4
    <3>3. Binding(i, who, NoRow, TRUE) = Composite("affirmative", i, f)
          /\ Binding(i, who, r, FALSE) = Composite("affirmative", i, g)
      BY <2>1
    <3> HIDE DEF f, g
    <3> QED
      BY <2>3, <3>1, <3>2, <3>3, CompositeSound
  <2>7. ASSUME ~i PROVE NoKept(Binding(i, who, NoRow, FALSE), Binding(i, who, r, FALSE))
    <3> DEFINE f == Alternatives(who, NoRow, FALSE)
               g == Alternatives(who, r, FALSE)
    <3>1. DOMAIN f = DOMAIN g /\ IsFiniteSet(DOMAIN f)
      BY <2>2, <2>3
    <3>2. \A c \in DOMAIN f : /\ Proper(f[c]) /\ Proper(g[c])
                              /\ NoKept(f[c], g[c]) /\ (i => YesKept(f[c], g[c]))
      BY <2>2, <2>4, <2>7
    <3>3. Binding(i, who, NoRow, FALSE) = Composite("affirmative", i, f)
          /\ Binding(i, who, r, FALSE) = Composite("affirmative", i, g)
      BY <2>1
    <3> HIDE DEF f, g
    <3> QED
      BY <2>3, <3>1, <3>2, <3>3, CompositeNoKept
  <2> QED
    BY <2>5, <2>6, <2>7
<1> QED
  BY <1>1, <1>2

Branches(row, lower) ==
    [c \in tree.children |->
       IF c.leaf = "binding" THEN Binding(c.invert, actor, row, lower)
       ELSE LeafOutcome(c, actor, row, lower)]

LEMMA BranchSound ==
  ASSUME ReachAssumption, TypeOK, NEW c \in tree.children, NEW r \in Row
  PROVE  /\ \A lower \in BOOLEAN : Proper(Branches(NoRow, lower)[c])
         /\ Proper(Branches(r, FALSE)[c])
         /\ Sound(Branches(NoRow, TRUE)[c], Branches(r, FALSE)[c], r)
         /\ ~(c.leaf = "binding" /\ c.invert) =>
              NoKept(Branches(NoRow, FALSE)[c], Branches(r, FALSE)[c])
         /\ c.leaf \notin {"reach", "binding"} =>
              YesKept(Branches(NoRow, FALSE)[c], Branches(r, FALSE)[c])
<1>1. c \in Child /\ c.invert \in BOOLEAN /\ grants \subseteq Grant
  BY DEF TypeOK, Tree, Child
<1>2. CASE c.leaf = "binding"
  <2>1. \A row, lower : Branches(row, lower)[c] = Binding(c.invert, actor, row, lower)
    BY <1>2 DEF Branches
  <2> DEFINE B(row, lower) == Binding(c.invert, actor, row, lower)
  <2>2. /\ \A lower \in BOOLEAN : Proper(B(NoRow, lower))
        /\ Proper(B(r, FALSE))
        /\ Sound(B(NoRow, TRUE), B(r, FALSE), r)
        /\ ~c.invert => NoKept(B(NoRow, FALSE), B(r, FALSE))
    BY <1>1, BindingSound
  <2>3. \A row, lower : Branches(row, lower)[c] = B(row, lower)
    BY <2>1
  <2> HIDE DEF B
  <2>4. /\ \A lower \in BOOLEAN : Proper(Branches(NoRow, lower)[c])
        /\ Proper(Branches(r, FALSE)[c])
    BY <2>2, <2>3
  <2>5. Sound(Branches(NoRow, TRUE)[c], Branches(r, FALSE)[c], r)
    BY <2>2, <2>3
  <2>6. ~c.invert => NoKept(Branches(NoRow, FALSE)[c], Branches(r, FALSE)[c])
    BY <2>2, <2>3
  <2> QED
    BY <1>2, <2>4, <2>5, <2>6
<1>3. CASE c.leaf # "binding"
  <2>1. \A row, lower : Branches(row, lower)[c] = LeafOutcome(c, actor, row, lower)
    BY <1>3 DEF Branches
  <2> DEFINE L(row, lower) == LeafOutcome(c, actor, row, lower)
  <2>2. /\ \A lower \in BOOLEAN : Proper(L(NoRow, lower))
        /\ Proper(L(r, FALSE))
        /\ Sound(L(NoRow, TRUE), L(r, FALSE), r)
        /\ NoKept(L(NoRow, FALSE), L(r, FALSE))
        /\ c.leaf # "reach" => YesKept(L(NoRow, FALSE), L(r, FALSE))
    BY <1>1, LeafSound DEF Sound
  <2>3. \A row, lower : Branches(row, lower)[c] = L(row, lower)
    BY <2>1
  <2> HIDE DEF L
  <2>4. /\ \A lower \in BOOLEAN : Proper(Branches(NoRow, lower)[c])
        /\ Proper(Branches(r, FALSE)[c])
    BY <2>2, <2>3
  <2>5. Sound(Branches(NoRow, TRUE)[c], Branches(r, FALSE)[c], r)
    BY <2>2, <2>3
  <2>6. /\ NoKept(Branches(NoRow, FALSE)[c], Branches(r, FALSE)[c])
        /\ c.leaf # "reach" => YesKept(Branches(NoRow, FALSE)[c], Branches(r, FALSE)[c])
    BY <2>2, <2>3
  <2> QED
    BY <2>4, <2>5, <2>6
<1> QED
  BY <1>2, <1>3

LEMMA TreeShape ==
  ASSUME TypeOK
  PROVE  /\ tree.strategy \in Strategy /\ tree.invert \in BOOLEAN
         /\ IsFiniteSet(tree.children)
         /\ \A row, lower : /\ DOMAIN Branches(row, lower) = tree.children
                            /\ Evaluate(row, lower)
                                 = Composite(tree.strategy, tree.invert, Branches(row, lower))
<1>1. tree.strategy \in Strategy /\ tree.invert \in BOOLEAN /\ tree.children \subseteq Child
  BY DEF TypeOK, Tree
<1>2. IsFiniteSet(tree.children)
  BY <1>1, ChildrenFinite, FS_Subset
<1> QED
  BY <1>1, <1>2 DEF Branches, Evaluate

(* What a compilation settles or lowers is what the check of each row says. *)
LEMMA CompiledIsChecked ==
  ASSUME ReachAssumption, TypeOK, NEW r \in Row
  PROVE  /\ Proper(Evaluate(NoRow, TRUE))
         /\ Sound(Evaluate(NoRow, TRUE), Evaluate(r, FALSE), r)
<1> DEFINE f == Branches(NoRow, TRUE)
           g == Branches(r, FALSE)
<1>1. DOMAIN f = DOMAIN g /\ IsFiniteSet(DOMAIN f)
  BY TreeShape
<1>2. \A c \in DOMAIN f : Proper(f[c]) /\ Proper(g[c]) /\ Sound(f[c], g[c], r)
  BY TreeShape, BranchSound
<1>3. /\ Evaluate(NoRow, TRUE) = Composite(tree.strategy, tree.invert, f)
      /\ Evaluate(r, FALSE) = Composite(tree.strategy, tree.invert, g)
      /\ tree.strategy \in Strategy /\ tree.invert \in BOOLEAN
  BY TreeShape
<1> HIDE DEF f, g
<1> QED
  BY <1>1, <1>2, <1>3, CompositeProper, CompositeSound

(* What the gate refuses no check of a row grants, unless a node above a   *)
(* reach is inverted.                                                      *)
LEMMA GateIsChecked ==
  ASSUME ReachAssumption, TypeOK, ~Masked, NEW r \in Row
  PROVE  NoKept(Evaluate(NoRow, FALSE), Evaluate(r, FALSE))
<1> DEFINE f == Branches(NoRow, FALSE)
           g == Branches(r, FALSE)
<1>1. DOMAIN f = DOMAIN g /\ IsFiniteSet(DOMAIN f)
  BY TreeShape
<1>2. \A c \in DOMAIN f : /\ Proper(f[c]) /\ Proper(g[c])
                          /\ NoKept(f[c], g[c]) /\ (tree.invert => YesKept(f[c], g[c]))
  <2>1. \A c \in tree.children : ~(c.leaf = "binding" /\ c.invert)
          /\ (tree.invert => c.leaf \notin {"reach", "binding"})
    BY DEF Masked
  <2> QED
    BY <2>1, TreeShape, BranchSound
<1>3. /\ Evaluate(NoRow, FALSE) = Composite(tree.strategy, tree.invert, f)
      /\ Evaluate(r, FALSE) = Composite(tree.strategy, tree.invert, g)
      /\ tree.strategy \in Strategy /\ tree.invert \in BOOLEAN
  BY TreeShape
<1> HIDE DEF f, g
<1> QED
  BY <1>1, <1>2, <1>3, CompositeNoKept

-----------------------------------------------------------------------------
(* The inductive invariant: nothing is shown before the request is         *)
(* answered.                                                               *)
Inv ==
    /\ TypeOK
    /\ ~Answered => shown = {}
    /\ ListedIsGranted

LEMMA InitHolds == Init => Inv
BY DEF Init, Inv, TypeOK, Answered, ListedIsGranted

LEMMA RequestKept ==
  ASSUME UNCHANGED <<tree, grants, actor, junction>>
  PROVE  Granted' = Granted /\ Masked' = Masked
BY DEF Granted, Evaluate, Binding, Masked

LEMMA GateHolds == ASSUME ReachAssumption, Inv, Gate PROVE Inv'
<1>1. TypeOK' /\ shown' = {} /\ verdict' \in {"refused", "gated"}
  BY DEF Inv, Gate, TypeOK, Answered
<1>2. verdict' = "refused" /\ ~Masked => Granted = {}
  <2> SUFFICES ASSUME verdict' = "refused", ~Masked, NEW r \in Granted PROVE FALSE
    OBVIOUS
  <2>1. r \in Row /\ Evaluate(r, FALSE).is = "yes"
    BY DEF Granted
  <2>2. Evaluate(NoRow, FALSE).is = "no"
    BY DEF Gate
  <2>3. Evaluate(r, FALSE).is = "no"
    BY <2>1, <2>2, GateIsChecked DEF Inv, NoKept
  <2> QED
    BY <2>1, <2>3
<1>3. Granted' = Granted /\ Masked' = Masked
  BY RequestKept DEF Gate
<1> QED
  BY <1>1, <1>2, <1>3 DEF Inv, Answered, ListedIsGranted

LEMMA CompileHolds == ASSUME ReachAssumption, Inv, Compile PROVE Inv'
<1> DEFINE found == Evaluate(NoRow, TRUE)
<1>1. Granted' = Granted
  BY RequestKept DEF Compile
<1>2. \A r \in Row : Proper(found) /\ Sound(found, Evaluate(r, FALSE), r)
  BY CompiledIsChecked DEF Inv
<1>3. Row # {}
  <2>1. [realm |-> Global, match |-> TRUE] \in Row
    BY DEF Row
  <2> QED
    BY <2>1
<1>4. Proper(found)
  BY <1>2, <1>3
<1>5. TypeOK /\ ~Answered /\ shown = {}
  BY DEF Inv, Compile, Answered
<1>6. /\ found.is = "yes" => Granted = Row
      /\ found.is = "no" => Granted = {}
      /\ found.lowers => Granted = found.rows
  <2> HIDE DEF found
  <2> QED
    BY <1>2, <1>4 DEF Sound, NoKept, YesKept, Exact, Granted, Proper, Outcome
<1>7. UNCHANGED <<tree, grants, actor, junction>>
  BY DEF Compile
<1>8. \/ verdict' = "allow" /\ found.is = "yes" /\ shown' = Row
      \/ verdict' = "deny" /\ found.is = "no" /\ shown' = {}
      \/ verdict' = "conditional" /\ found.lowers /\ shown' = found.rows
      \/ verdict' = "post" /\ shown' = shown
  BY DEF Compile
<1>9. found.rows \subseteq Row
  BY <1>4 DEF Proper, Outcome
<1> HIDE DEF found
<1>10. TypeOK'
  BY <1>5, <1>7, <1>8, <1>9 DEF TypeOK
<1> QED
  BY <1>1, <1>5, <1>6, <1>8, <1>10 DEF Inv, Answered, ListedIsGranted

LEMMA CheckRowsHolds == ASSUME Inv, CheckRows PROVE Inv'
<1>1. Granted' = Granted /\ Granted \subseteq Row
  BY RequestKept DEF CheckRows, Granted
<1> QED
  BY <1>1 DEF Inv, CheckRows, TypeOK, Answered, ListedIsGranted

LEMMA NextHolds == ASSUME ReachAssumption, Inv, [Next]_vars PROVE Inv'
<1>1. CASE UNCHANGED vars
  <2>1. Granted' = Granted /\ Masked' = Masked
    BY <1>1, RequestKept DEF vars
  <2> QED
    BY <1>1, <2>1 DEF vars, Inv, TypeOK, Answered, ListedIsGranted
<1> QED
  BY <1>1, GateHolds, CompileHolds, CheckRowsHolds DEF Next

LEMMA InvHolds == ASSUME ReachAssumption PROVE Spec => []Inv
<1>1. Inv /\ [Next]_vars => Inv'
  BY NextHolds
<1> QED
  BY InitHolds, <1>1, PTL DEF Spec

(* The request's variables keep their types.                               *)
THEOREM ReachTypeCorrect == ASSUME ReachAssumption PROVE Spec => []TypeOK
<1>1. Inv => TypeOK
  BY DEF Inv
<1> QED
  BY InvHolds, <1>1, PTL

(* A list shows exactly the rows the check of each would grant, for every  *)
(* policy tree, whatever the grants, the realms and the bounds: the gate   *)
(* refuses nothing and the condition selects nothing else, but for a tree  *)
(* that is Masked (scope.ts, PermissionEvaluator).                         *)
THEOREM ListedIsGrantedHolds == ASSUME ReachAssumption PROVE Spec => []ListedIsGranted
<1>1. Inv => ListedIsGranted
  BY DEF Inv
<1> QED
  BY InvHolds, <1>1, PTL

=============================================================================
