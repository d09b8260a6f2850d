-------------------------- MODULE StrictLoginProofs --------------------------
(***************************************************************************)
(* Proofs about the strict rules of a login, for any number of tokens,     *)
(* factors, sessions and requests: rotation with and without its grace     *)
(* window, its refinement of the token family, the second factors of a     *)
(* user against the user's logins, and the composition of both.            *)
(***************************************************************************)
EXTENDS MCStrictLogin, TLAPS

(* The clock started above zero, and a request holds the time it read.     *)
Clocked ==
    /\ now # 0
    /\ \A o \in Op : pc[o] = "consume" => req[o].at # 0

(* What was never drawn was never stored, exchanged or revoked.            *)
DrawnOnly ==
    /\ row \subseteq Drawn
    /\ revoked \subseteq Drawn
    /\ \A t \in Token : Spent(t) => t \in Drawn

(* A request past the consume presents a token that is spent, and so is    *)
(* every token that has a successor.  The window is asked only when on.    *)
SpentFirst ==
    /\ \A o \in Op : pc[o] \in Pipeline \union {"child"} => Spent(req[o].tok)
    /\ \A o \in Op : pc[o] \in {"grace", "child"} => Grace # 0
    /\ \A c \in Token : parent[c] # NoToken => Spent(parent[c])

(* With the window off, a request past the consume is the only one there   *)
(* with its token, and that token has no successor yet.                    *)
Alone ==
    \A o \in Op : pc[o] \in Pipeline =>
      /\ \A c \in Token : parent[c] # req[o].tok
      /\ \A q \in Op : pc[q] \in Pipeline /\ req[q].tok = req[o].tok => q = o

(* Why the token of a late request was no longer exchangeable, at time at. *)
Doomed(o, at) ==
    \/ ~alive
    \/ Spent(req[o].tok) /\
         (Grace = 0 \/ Lapsed(req[o].tok, at) \/ HasConsumedChild(req[o].tok))

(* How far a late request may come, and what must hold for it there.       *)
LateStopped ==
    \A o \in Op : req[o].late =>
      /\ pc[o] = "lookup" => req[o].tok \in revoked \/ Doomed(o, now)
      /\ pc[o] = "session" => Doomed(o, now)
      /\ pc[o] \in {"consume", "grace"} => Doomed(o, req[o].at)
      /\ pc[o] = "child" => ~alive \/ HasConsumedChild(req[o].tok)
      /\ pc[o] \in Pipeline => ~alive
      /\ pc[o] \notin {"access", "answer"}

(* The inductive invariant.                                                *)
IInv == TypeOK /\ RowsNeedSession /\ Clocked /\ DrawnOnly /\ SpentFirst

-----------------------------------------------------------------------------
(* An idle request is well typed.                                          *)
LEMMA NoRequestType == NoRequest \in Request
  BY RotationAssumption DEF NoRequest, Request

(* Every step keeps the types.                                           *)
LEMMA TypeStep == ASSUME TypeOK, [Next]_vars PROVE TypeOK'
<1> USE DEF Request
<1>1. ASSUME NEW o \in Op, Lookup(o) PROVE TypeOK'
  BY <1>1, NoRequestType, RotationAssumption
     DEF TypeOK, Label, Pipeline, Lookup, Goto, store, Finish
<1>2. ASSUME NEW o \in Op, FindSession(o) PROVE TypeOK'
  BY <1>2, NoRequestType, RotationAssumption
     DEF TypeOK, Label, Pipeline, FindSession, Goto, store
<1>3. ASSUME NEW o \in Op, SessionGone(o) PROVE TypeOK'
  BY <1>3, NoRequestType, RotationAssumption
     DEF TypeOK, Label, Pipeline, SessionGone, Goto, store, Finish
<1>4. ASSUME NEW o \in Op, Consume(o) PROVE TypeOK'
  BY <1>4, NoRequestType, RotationAssumption
     DEF TypeOK, Label, Pipeline, Consume, Goto, store, Consumable
<1>5. ASSUME NEW o \in Op, ConsumeLost(o) PROVE TypeOK'
  BY <1>5, NoRequestType, RotationAssumption
     DEF TypeOK, Label, Pipeline, ConsumeLost, Goto, store, Consumable
<1>6. ASSUME NEW o \in Op, GraceRow(o) PROVE TypeOK'
  BY <1>6, NoRequestType, RotationAssumption
     DEF TypeOK, Label, Pipeline, GraceRow, Goto, store
<1>7. ASSUME NEW o \in Op, GraceChild(o) PROVE TypeOK'
  BY <1>7, NoRequestType, RotationAssumption
     DEF TypeOK, Label, Pipeline, GraceChild, Goto, store
<1>8. ASSUME NEW o \in Op, Block(o) PROVE TypeOK'
  BY <1>8, NoRequestType, RotationAssumption
     DEF TypeOK, Label, Pipeline, Block, Goto, store
<1>9. ASSUME NEW o \in Op, Verify(o) PROVE TypeOK'
  BY <1>9, NoRequestType, RotationAssumption
     DEF TypeOK, Label, Pipeline, Verify, Goto, store
<1>10. ASSUME NEW o \in Op, VerifyExpired(o) PROVE TypeOK'
  BY <1>10, NoRequestType, RotationAssumption
     DEF TypeOK, Label, Pipeline, VerifyExpired, Goto, store, Finish,
          EndSession
<1>11. ASSUME NEW o \in Op, Slide(o) PROVE TypeOK'
  BY <1>11, NoRequestType, RotationAssumption
     DEF TypeOK, Label, Pipeline, Slide, Goto, store, Finish
<1>12. ASSUME NEW o \in Op, IssueRefresh(o) PROVE TypeOK'
  BY <1>12, NoRequestType, RotationAssumption
     DEF TypeOK, Label, Pipeline, IssueRefresh, Goto, store, Drawn
<1>13. ASSUME NEW o \in Op, IssueAccess(o) PROVE TypeOK'
  BY <1>13, NoRequestType, RotationAssumption
     DEF TypeOK, Label, Pipeline, IssueAccess, Goto, store
<1>14. ASSUME NEW o \in Op, IssueRefused(o) PROVE TypeOK'
  BY <1>14, NoRequestType, RotationAssumption
     DEF TypeOK, Label, Pipeline, IssueRefused, Goto, store, Finish
<1>15. ASSUME NEW o \in Op, Answer(o) PROVE TypeOK'
  BY <1>15, NoRequestType, RotationAssumption
     DEF TypeOK, Label, Pipeline, Answer, Goto, store, Finish
<1>16. ASSUME NEW o \in Op, FamilySelect(o) PROVE TypeOK'
  BY <1>16, NoRequestType, RotationAssumption
     DEF TypeOK, Label, Pipeline, FamilySelect, Goto, store
<1>17. ASSUME NEW o \in Op, FamilyRevoke(o) PROVE TypeOK'
  BY <1>17, NoRequestType, RotationAssumption
     DEF TypeOK, Label, Pipeline, FamilyRevoke, Goto, store
<1>18. ASSUME NEW o \in Op, FamilyMark(o) PROVE TypeOK'
  BY <1>18, NoRequestType, RotationAssumption
     DEF TypeOK, Label, Pipeline, FamilyMark, Goto, store
<1>19. ASSUME NEW o \in Op, FamilyEnd(o) PROVE TypeOK'
  BY <1>19, NoRequestType, RotationAssumption
     DEF TypeOK, Label, Pipeline, FamilyEnd, Goto, store, Finish, EndSession
<1>20. ASSUME NEW o \in Op, RevokeRow(o) PROVE TypeOK'
  BY <1>20, NoRequestType, RotationAssumption
     DEF TypeOK, Label, Pipeline, RevokeRow, Goto, store, Finish
<1>21. ASSUME NEW o \in Op, NEW t \in Token, Present(o, t) PROVE TypeOK'
  <2>1. Stale(t) \in BOOLEAN
    BY DEF Stale, HasConsumedChild, Lapsed, Spent
  <2> QED
    BY <1>21, <2>1, NoRequestType, RotationAssumption
       DEF TypeOK, Label, Pipeline, Present, Goto, store, NoRequest
<1>22. ASSUME NEW o \in Op, NEW t \in Token, RevokeToken(o, t) PROVE TypeOK'
  <2>1. [NoRequest EXCEPT !.tok = t] \in Request
    BY NoRequestType
  <2> QED
    BY <1>22, <2>1 DEF TypeOK, Label, Pipeline, RevokeToken, Goto, store
<1>23. ASSUME NEW o \in Op, Fail(o) PROVE TypeOK'
  BY <1>23, NoRequestType, RotationAssumption
     DEF TypeOK, Label, Pipeline, Fail, Goto, store
<1>24. ASSUME NEW t \in Token, SweepRow(t) PROVE TypeOK'
  BY <1>24, NoRequestType, RotationAssumption
     DEF TypeOK, Label, Pipeline, SweepRow, store
<1>25. CASE SessionEnds
  BY <1>25, NoRequestType, RotationAssumption
     DEF TypeOK, Label, Pipeline, SessionEnds, EndSession
<1>26. CASE Tick
  BY <1>26, NoRequestType, RotationAssumption
     DEF TypeOK, Label, Pipeline, Tick, store
<1>27. CASE UNCHANGED vars
  BY <1>27, NoRequestType, RotationAssumption
     DEF TypeOK, Label, Pipeline, vars
<1> QED
  BY <1>1, <1>2, <1>3, <1>4, <1>5, <1>6, <1>7, <1>8, <1>9, <1>10, <1>11,
       <1>12, <1>13, <1>14, <1>15, <1>16, <1>17, <1>18, <1>19, <1>20, <1>21,
       <1>22, <1>23, <1>24, <1>25, <1>26, <1>27
     DEF Next, Step

(* No step leaves a token row behind a session that is gone.             *)
LEMMA RowsStep == ASSUME RowsNeedSession, [Next]_vars PROVE RowsNeedSession'
<1>1. ASSUME NEW o \in Op, Lookup(o) PROVE RowsNeedSession'
  BY <1>1 DEF RowsNeedSession, Lookup, Goto, store, Finish
<1>2. ASSUME NEW o \in Op, FindSession(o) PROVE RowsNeedSession'
  BY <1>2 DEF RowsNeedSession, FindSession, Goto, store
<1>3. ASSUME NEW o \in Op, SessionGone(o) PROVE RowsNeedSession'
  BY <1>3 DEF RowsNeedSession, SessionGone, Goto, store, Finish
<1>4. ASSUME NEW o \in Op, Consume(o) PROVE RowsNeedSession'
  BY <1>4 DEF RowsNeedSession, Consume, Goto, store, Consumable
<1>5. ASSUME NEW o \in Op, ConsumeLost(o) PROVE RowsNeedSession'
  BY <1>5 DEF RowsNeedSession, ConsumeLost, Goto, store, Consumable
<1>6. ASSUME NEW o \in Op, GraceRow(o) PROVE RowsNeedSession'
  BY <1>6 DEF RowsNeedSession, GraceRow, Goto, store
<1>7. ASSUME NEW o \in Op, GraceChild(o) PROVE RowsNeedSession'
  BY <1>7 DEF RowsNeedSession, GraceChild, Goto, store
<1>8. ASSUME NEW o \in Op, Block(o) PROVE RowsNeedSession'
  BY <1>8 DEF RowsNeedSession, Block, Goto, store
<1>9. ASSUME NEW o \in Op, Verify(o) PROVE RowsNeedSession'
  BY <1>9 DEF RowsNeedSession, Verify, Goto, store
<1>10. ASSUME NEW o \in Op, VerifyExpired(o) PROVE RowsNeedSession'
  BY <1>10 DEF RowsNeedSession, VerifyExpired, Goto, store, Finish, EndSession
<1>11. ASSUME NEW o \in Op, Slide(o) PROVE RowsNeedSession'
  BY <1>11 DEF RowsNeedSession, Slide, Goto, store, Finish
<1>12. ASSUME NEW o \in Op, IssueRefresh(o) PROVE RowsNeedSession'
  BY <1>12 DEF RowsNeedSession, IssueRefresh, Goto, store, Drawn
<1>13. ASSUME NEW o \in Op, IssueAccess(o) PROVE RowsNeedSession'
  BY <1>13 DEF RowsNeedSession, IssueAccess, Goto, store
<1>14. ASSUME NEW o \in Op, IssueRefused(o) PROVE RowsNeedSession'
  BY <1>14 DEF RowsNeedSession, IssueRefused, Goto, store, Finish
<1>15. ASSUME NEW o \in Op, Answer(o) PROVE RowsNeedSession'
  BY <1>15 DEF RowsNeedSession, Answer, Goto, store, Finish
<1>16. ASSUME NEW o \in Op, FamilySelect(o) PROVE RowsNeedSession'
  BY <1>16 DEF RowsNeedSession, FamilySelect, Goto, store
<1>17. ASSUME NEW o \in Op, FamilyRevoke(o) PROVE RowsNeedSession'
  BY <1>17 DEF RowsNeedSession, FamilyRevoke, Goto, store
<1>18. ASSUME NEW o \in Op, FamilyMark(o) PROVE RowsNeedSession'
  BY <1>18 DEF RowsNeedSession, FamilyMark, Goto, store
<1>19. ASSUME NEW o \in Op, FamilyEnd(o) PROVE RowsNeedSession'
  BY <1>19 DEF RowsNeedSession, FamilyEnd, Goto, store, Finish, EndSession
<1>20. ASSUME NEW o \in Op, RevokeRow(o) PROVE RowsNeedSession'
  BY <1>20 DEF RowsNeedSession, RevokeRow, Goto, store, Finish
<1>21. ASSUME NEW o \in Op, NEW t \in Token, Present(o, t) PROVE RowsNeedSession'
  BY <1>21 DEF RowsNeedSession, Present, Goto, store, NoRequest
<1>22. ASSUME NEW o \in Op, NEW t \in Token, RevokeToken(o, t) PROVE RowsNeedSession'
  BY <1>22 DEF RowsNeedSession, RevokeToken, Goto, store, NoRequest
<1>23. ASSUME NEW o \in Op, Fail(o) PROVE RowsNeedSession'
  BY <1>23 DEF RowsNeedSession, Fail, Goto, store
<1>24. ASSUME NEW t \in Token, SweepRow(t) PROVE RowsNeedSession'
  BY <1>24 DEF RowsNeedSession, SweepRow, store
<1>25. CASE SessionEnds
  BY <1>25 DEF RowsNeedSession, SessionEnds, EndSession
<1>26. CASE Tick
  BY <1>26 DEF RowsNeedSession, Tick, store
<1>27. CASE UNCHANGED vars
  BY <1>27 DEF RowsNeedSession, vars
<1> QED
  BY <1>1, <1>2, <1>3, <1>4, <1>5, <1>6, <1>7, <1>8, <1>9, <1>10, <1>11,
       <1>12, <1>13, <1>14, <1>15, <1>16, <1>17, <1>18, <1>19, <1>20, <1>21,
       <1>22, <1>23, <1>24, <1>25, <1>26, <1>27
     DEF Next, Step

(* The clock never goes back to zero.                                    *)
LEMMA ClockStep == ASSUME TypeOK, Clocked, [Next]_vars PROVE Clocked'
<1> USE DEF Request
<1>1. ASSUME NEW o \in Op, Lookup(o) PROVE Clocked'
  BY <1>1, NoRequestType DEF TypeOK, Clocked, Lookup, Goto, store, Finish
<1>2. ASSUME NEW o \in Op, FindSession(o) PROVE Clocked'
  BY <1>2, NoRequestType DEF TypeOK, Clocked, FindSession, Goto, store
<1>3. ASSUME NEW o \in Op, SessionGone(o) PROVE Clocked'
  BY <1>3, NoRequestType DEF TypeOK, Clocked, SessionGone, Goto, store, Finish
<1>4. ASSUME NEW o \in Op, Consume(o) PROVE Clocked'
  BY <1>4, NoRequestType DEF TypeOK, Clocked, Consume, Goto, store, Consumable
<1>5. ASSUME NEW o \in Op, ConsumeLost(o) PROVE Clocked'
  BY <1>5, NoRequestType
     DEF TypeOK, Clocked, ConsumeLost, Goto, store, Consumable
<1>6. ASSUME NEW o \in Op, GraceRow(o) PROVE Clocked'
  BY <1>6, NoRequestType DEF TypeOK, Clocked, GraceRow, Goto, store
<1>7. ASSUME NEW o \in Op, GraceChild(o) PROVE Clocked'
  BY <1>7, NoRequestType DEF TypeOK, Clocked, GraceChild, Goto, store
<1>8. ASSUME NEW o \in Op, Block(o) PROVE Clocked'
  BY <1>8, NoRequestType DEF TypeOK, Clocked, Block, Goto, store
<1>9. ASSUME NEW o \in Op, Verify(o) PROVE Clocked'
  BY <1>9, NoRequestType DEF TypeOK, Clocked, Verify, Goto, store
<1>10. ASSUME NEW o \in Op, VerifyExpired(o) PROVE Clocked'
  BY <1>10, NoRequestType
     DEF TypeOK, Clocked, VerifyExpired, Goto, store, Finish, EndSession
<1>11. ASSUME NEW o \in Op, Slide(o) PROVE Clocked'
  BY <1>11, NoRequestType DEF TypeOK, Clocked, Slide, Goto, store, Finish
<1>12. ASSUME NEW o \in Op, IssueRefresh(o) PROVE Clocked'
  BY <1>12, NoRequestType
     DEF TypeOK, Clocked, IssueRefresh, Goto, store, Drawn
<1>13. ASSUME NEW o \in Op, IssueAccess(o) PROVE Clocked'
  BY <1>13, NoRequestType DEF TypeOK, Clocked, IssueAccess, Goto, store
<1>14. ASSUME NEW o \in Op, IssueRefused(o) PROVE Clocked'
  BY <1>14, NoRequestType
     DEF TypeOK, Clocked, IssueRefused, Goto, store, Finish
<1>15. ASSUME NEW o \in Op, Answer(o) PROVE Clocked'
  BY <1>15, NoRequestType DEF TypeOK, Clocked, Answer, Goto, store, Finish
<1>16. ASSUME NEW o \in Op, FamilySelect(o) PROVE Clocked'
  BY <1>16, NoRequestType DEF TypeOK, Clocked, FamilySelect, Goto, store
<1>17. ASSUME NEW o \in Op, FamilyRevoke(o) PROVE Clocked'
  BY <1>17, NoRequestType DEF TypeOK, Clocked, FamilyRevoke, Goto, store
<1>18. ASSUME NEW o \in Op, FamilyMark(o) PROVE Clocked'
  BY <1>18, NoRequestType DEF TypeOK, Clocked, FamilyMark, Goto, store
<1>19. ASSUME NEW o \in Op, FamilyEnd(o) PROVE Clocked'
  BY <1>19, NoRequestType
     DEF TypeOK, Clocked, FamilyEnd, Goto, store, Finish, EndSession
<1>20. ASSUME NEW o \in Op, RevokeRow(o) PROVE Clocked'
  BY <1>20, NoRequestType DEF TypeOK, Clocked, RevokeRow, Goto, store, Finish
<1>21. ASSUME NEW o \in Op, NEW t \in Token, Present(o, t) PROVE Clocked'
  BY <1>21, NoRequestType DEF TypeOK, Clocked, Present, Goto, store, NoRequest
<1>22. ASSUME NEW o \in Op, NEW t \in Token, RevokeToken(o, t) PROVE Clocked'
  BY <1>22, NoRequestType
     DEF TypeOK, Clocked, RevokeToken, Goto, store, NoRequest
<1>23. ASSUME NEW o \in Op, Fail(o) PROVE Clocked'
  BY <1>23, NoRequestType DEF TypeOK, Clocked, Fail, Goto, store
<1>24. ASSUME NEW t \in Token, SweepRow(t) PROVE Clocked'
  BY <1>24, NoRequestType DEF TypeOK, Clocked, SweepRow, store
<1>25. CASE SessionEnds
  BY <1>25, NoRequestType DEF TypeOK, Clocked, SessionEnds, EndSession
<1>26. CASE Tick
  BY <1>26, NoRequestType DEF TypeOK, Clocked, Tick, store
<1>27. CASE UNCHANGED vars
  BY <1>27, NoRequestType DEF TypeOK, Clocked, vars
<1> QED
  BY <1>1, <1>2, <1>3, <1>4, <1>5, <1>6, <1>7, <1>8, <1>9, <1>10, <1>11,
       <1>12, <1>13, <1>14, <1>15, <1>16, <1>17, <1>18, <1>19, <1>20, <1>21,
       <1>22, <1>23, <1>24, <1>25, <1>26, <1>27
     DEF Next, Step

(* Only drawn tokens are stored.                                         *)
LEMMA DrawnStep == ASSUME TypeOK, DrawnOnly, [Next]_vars PROVE DrawnOnly'
<1> USE DEF Request
<1>1. ASSUME NEW o \in Op, Lookup(o) PROVE DrawnOnly'
  BY <1>1, RotationAssumption
     DEF TypeOK, DrawnOnly, Drawn, Spent, Lookup, Goto, store, Finish
<1>2. ASSUME NEW o \in Op, FindSession(o) PROVE DrawnOnly'
  BY <1>2, RotationAssumption
     DEF TypeOK, DrawnOnly, Drawn, Spent, FindSession, Goto, store
<1>3. ASSUME NEW o \in Op, SessionGone(o) PROVE DrawnOnly'
  BY <1>3, RotationAssumption
     DEF TypeOK, DrawnOnly, Drawn, Spent, SessionGone, Goto, store, Finish
<1>4. ASSUME NEW o \in Op, Consume(o) PROVE DrawnOnly'
  BY <1>4, RotationAssumption
     DEF TypeOK, DrawnOnly, Drawn, Spent, Consume, Goto, store, Consumable
<1>5. ASSUME NEW o \in Op, ConsumeLost(o) PROVE DrawnOnly'
  BY <1>5, RotationAssumption
     DEF TypeOK, DrawnOnly, Drawn, Spent, ConsumeLost, Goto, store, Consumable
<1>6. ASSUME NEW o \in Op, GraceRow(o) PROVE DrawnOnly'
  BY <1>6, RotationAssumption
     DEF TypeOK, DrawnOnly, Drawn, Spent, GraceRow, Goto, store
<1>7. ASSUME NEW o \in Op, GraceChild(o) PROVE DrawnOnly'
  BY <1>7, RotationAssumption
     DEF TypeOK, DrawnOnly, Drawn, Spent, GraceChild, Goto, store
<1>8. ASSUME NEW o \in Op, Block(o) PROVE DrawnOnly'
  BY <1>8, RotationAssumption
     DEF TypeOK, DrawnOnly, Drawn, Spent, Block, Goto, store
<1>9. ASSUME NEW o \in Op, Verify(o) PROVE DrawnOnly'
  BY <1>9, RotationAssumption
     DEF TypeOK, DrawnOnly, Drawn, Spent, Verify, Goto, store
<1>10. ASSUME NEW o \in Op, VerifyExpired(o) PROVE DrawnOnly'
  BY <1>10, RotationAssumption
     DEF TypeOK, DrawnOnly, Drawn, Spent, VerifyExpired, Goto, store, Finish,
          EndSession
<1>11. ASSUME NEW o \in Op, Slide(o) PROVE DrawnOnly'
  BY <1>11, RotationAssumption
     DEF TypeOK, DrawnOnly, Drawn, Spent, Slide, Goto, store, Finish
<1>12. ASSUME NEW o \in Op, IssueRefresh(o) PROVE DrawnOnly'
  BY <1>12, RotationAssumption
     DEF TypeOK, DrawnOnly, Drawn, Spent, IssueRefresh, Goto, store, Drawn
<1>13. ASSUME NEW o \in Op, IssueAccess(o) PROVE DrawnOnly'
  BY <1>13, RotationAssumption
     DEF TypeOK, DrawnOnly, Drawn, Spent, IssueAccess, Goto, store
<1>14. ASSUME NEW o \in Op, IssueRefused(o) PROVE DrawnOnly'
  BY <1>14, RotationAssumption
     DEF TypeOK, DrawnOnly, Drawn, Spent, IssueRefused, Goto, store, Finish
<1>15. ASSUME NEW o \in Op, Answer(o) PROVE DrawnOnly'
  BY <1>15, RotationAssumption
     DEF TypeOK, DrawnOnly, Drawn, Spent, Answer, Goto, store, Finish
<1>16. ASSUME NEW o \in Op, FamilySelect(o) PROVE DrawnOnly'
  BY <1>16, RotationAssumption
     DEF TypeOK, DrawnOnly, Drawn, Spent, FamilySelect, Goto, store
<1>17. ASSUME NEW o \in Op, FamilyRevoke(o) PROVE DrawnOnly'
  BY <1>17, RotationAssumption
     DEF TypeOK, DrawnOnly, Drawn, Spent, FamilyRevoke, Goto, store
<1>18. ASSUME NEW o \in Op, FamilyMark(o) PROVE DrawnOnly'
  BY <1>18, RotationAssumption
     DEF TypeOK, DrawnOnly, Drawn, Spent, FamilyMark, Goto, store
<1>19. ASSUME NEW o \in Op, FamilyEnd(o) PROVE DrawnOnly'
  BY <1>19, RotationAssumption
     DEF TypeOK, DrawnOnly, Drawn, Spent, FamilyEnd, Goto, store, Finish,
          EndSession
<1>20. ASSUME NEW o \in Op, RevokeRow(o) PROVE DrawnOnly'
  BY <1>20, RotationAssumption
     DEF TypeOK, DrawnOnly, Drawn, Spent, RevokeRow, Goto, store, Finish
<1>21. ASSUME NEW o \in Op, NEW t \in Token, Present(o, t) PROVE DrawnOnly'
  BY <1>21, RotationAssumption
     DEF TypeOK, DrawnOnly, Drawn, Spent, Present, Goto, store, NoRequest
<1>22. ASSUME NEW o \in Op, NEW t \in Token, RevokeToken(o, t) PROVE DrawnOnly'
  BY <1>22, RotationAssumption
     DEF TypeOK, DrawnOnly, Drawn, Spent, RevokeToken, Goto, store, NoRequest
<1>23. ASSUME NEW o \in Op, Fail(o) PROVE DrawnOnly'
  BY <1>23, RotationAssumption
     DEF TypeOK, DrawnOnly, Drawn, Spent, Fail, Goto, store
<1>24. ASSUME NEW t \in Token, SweepRow(t) PROVE DrawnOnly'
  BY <1>24, RotationAssumption
     DEF TypeOK, DrawnOnly, Drawn, Spent, SweepRow, store
<1>25. CASE SessionEnds
  BY <1>25, RotationAssumption
     DEF TypeOK, DrawnOnly, Drawn, Spent, SessionEnds, EndSession
<1>26. CASE Tick
  BY <1>26, RotationAssumption
     DEF TypeOK, DrawnOnly, Drawn, Spent, Tick, store
<1>27. CASE UNCHANGED vars
  BY <1>27, RotationAssumption DEF TypeOK, DrawnOnly, Drawn, Spent, vars
<1> QED
  BY <1>1, <1>2, <1>3, <1>4, <1>5, <1>6, <1>7, <1>8, <1>9, <1>10, <1>11,
       <1>12, <1>13, <1>14, <1>15, <1>16, <1>17, <1>18, <1>19, <1>20, <1>21,
       <1>22, <1>23, <1>24, <1>25, <1>26, <1>27
     DEF Next, Step

(* A token is spent before anything follows from it.                     *)
LEMMA SpentStep == ASSUME TypeOK, Clocked, SpentFirst, [Next]_vars PROVE SpentFirst'
<1> USE DEF Request
<1>1. ASSUME NEW o \in Op, Lookup(o) PROVE SpentFirst'
  BY <1>1, RotationAssumption
     DEF TypeOK, Clocked, SpentFirst, Spent, Pipeline, Lookup, Goto, store,
          Finish
<1>2. ASSUME NEW o \in Op, FindSession(o) PROVE SpentFirst'
  BY <1>2, RotationAssumption
     DEF TypeOK, Clocked, SpentFirst, Spent, Pipeline, FindSession, Goto,
          store
<1>3. ASSUME NEW o \in Op, SessionGone(o) PROVE SpentFirst'
  BY <1>3, RotationAssumption
     DEF TypeOK, Clocked, SpentFirst, Spent, Pipeline, SessionGone, Goto,
          store, Finish
<1>4. ASSUME NEW o \in Op, Consume(o) PROVE SpentFirst'
  BY <1>4, RotationAssumption
     DEF TypeOK, Clocked, SpentFirst, Spent, Pipeline, Consume, Goto, store,
          Consumable
<1>5. ASSUME NEW o \in Op, ConsumeLost(o) PROVE SpentFirst'
  BY <1>5, RotationAssumption
     DEF TypeOK, Clocked, SpentFirst, Spent, Pipeline, ConsumeLost, Goto,
          store, Consumable
<1>6. ASSUME NEW o \in Op, GraceRow(o) PROVE SpentFirst'
  BY <1>6, RotationAssumption
     DEF TypeOK, Clocked, SpentFirst, Spent, Pipeline, GraceRow, Goto, store
<1>7. ASSUME NEW o \in Op, GraceChild(o) PROVE SpentFirst'
  BY <1>7, RotationAssumption
     DEF TypeOK, Clocked, SpentFirst, Spent, Pipeline, GraceChild, Goto, store
<1>8. ASSUME NEW o \in Op, Block(o) PROVE SpentFirst'
  BY <1>8, RotationAssumption
     DEF TypeOK, Clocked, SpentFirst, Spent, Pipeline, Block, Goto, store
<1>9. ASSUME NEW o \in Op, Verify(o) PROVE SpentFirst'
  BY <1>9, RotationAssumption
     DEF TypeOK, Clocked, SpentFirst, Spent, Pipeline, Verify, Goto, store
<1>10. ASSUME NEW o \in Op, VerifyExpired(o) PROVE SpentFirst'
  BY <1>10, RotationAssumption
     DEF TypeOK, Clocked, SpentFirst, Spent, Pipeline, VerifyExpired, Goto,
          store, Finish, EndSession
<1>11. ASSUME NEW o \in Op, Slide(o) PROVE SpentFirst'
  BY <1>11, RotationAssumption
     DEF TypeOK, Clocked, SpentFirst, Spent, Pipeline, Slide, Goto, store,
          Finish
<1>12. ASSUME NEW o \in Op, IssueRefresh(o) PROVE SpentFirst'
  BY <1>12, RotationAssumption
     DEF TypeOK, Clocked, SpentFirst, Spent, Pipeline, IssueRefresh, Goto,
          store, Drawn
<1>13. ASSUME NEW o \in Op, IssueAccess(o) PROVE SpentFirst'
  BY <1>13, RotationAssumption
     DEF TypeOK, Clocked, SpentFirst, Spent, Pipeline, IssueAccess, Goto,
          store
<1>14. ASSUME NEW o \in Op, IssueRefused(o) PROVE SpentFirst'
  BY <1>14, RotationAssumption
     DEF TypeOK, Clocked, SpentFirst, Spent, Pipeline, IssueRefused, Goto,
          store, Finish
<1>15. ASSUME NEW o \in Op, Answer(o) PROVE SpentFirst'
  BY <1>15, RotationAssumption
     DEF TypeOK, Clocked, SpentFirst, Spent, Pipeline, Answer, Goto, store,
          Finish
<1>16. ASSUME NEW o \in Op, FamilySelect(o) PROVE SpentFirst'
  BY <1>16, RotationAssumption
     DEF TypeOK, Clocked, SpentFirst, Spent, Pipeline, FamilySelect, Goto,
          store
<1>17. ASSUME NEW o \in Op, FamilyRevoke(o) PROVE SpentFirst'
  BY <1>17, RotationAssumption
     DEF TypeOK, Clocked, SpentFirst, Spent, Pipeline, FamilyRevoke, Goto,
          store
<1>18. ASSUME NEW o \in Op, FamilyMark(o) PROVE SpentFirst'
  BY <1>18, RotationAssumption
     DEF TypeOK, Clocked, SpentFirst, Spent, Pipeline, FamilyMark, Goto, store
<1>19. ASSUME NEW o \in Op, FamilyEnd(o) PROVE SpentFirst'
  BY <1>19, RotationAssumption
     DEF TypeOK, Clocked, SpentFirst, Spent, Pipeline, FamilyEnd, Goto, store,
          Finish, EndSession
<1>20. ASSUME NEW o \in Op, RevokeRow(o) PROVE SpentFirst'
  BY <1>20, RotationAssumption
     DEF TypeOK, Clocked, SpentFirst, Spent, Pipeline, RevokeRow, Goto, store,
          Finish
<1>21. ASSUME NEW o \in Op, NEW t \in Token, Present(o, t) PROVE SpentFirst'
  BY <1>21, RotationAssumption
     DEF TypeOK, Clocked, SpentFirst, Spent, Pipeline, Present, Goto, store,
          NoRequest
<1>22. ASSUME NEW o \in Op, NEW t \in Token, RevokeToken(o, t) PROVE SpentFirst'
  BY <1>22, RotationAssumption
     DEF TypeOK, Clocked, SpentFirst, Spent, Pipeline, RevokeToken, Goto,
          store, NoRequest
<1>23. ASSUME NEW o \in Op, Fail(o) PROVE SpentFirst'
  BY <1>23, RotationAssumption
     DEF TypeOK, Clocked, SpentFirst, Spent, Pipeline, Fail, Goto, store
<1>24. ASSUME NEW t \in Token, SweepRow(t) PROVE SpentFirst'
  BY <1>24, RotationAssumption
     DEF TypeOK, Clocked, SpentFirst, Spent, Pipeline, SweepRow, store
<1>25. CASE SessionEnds
  BY <1>25, RotationAssumption
     DEF TypeOK, Clocked, SpentFirst, Spent, Pipeline, SessionEnds, EndSession
<1>26. CASE Tick
  BY <1>26, RotationAssumption
     DEF TypeOK, Clocked, SpentFirst, Spent, Pipeline, Tick, store
<1>27. CASE UNCHANGED vars
  BY <1>27, RotationAssumption
     DEF TypeOK, Clocked, SpentFirst, Spent, Pipeline, vars
<1> QED
  BY <1>1, <1>2, <1>3, <1>4, <1>5, <1>6, <1>7, <1>8, <1>9, <1>10, <1>11,
       <1>12, <1>13, <1>14, <1>15, <1>16, <1>17, <1>18, <1>19, <1>20, <1>21,
       <1>22, <1>23, <1>24, <1>25, <1>26, <1>27
     DEF Next, Step

(* With the window off the pipeline is entered once per token.           *)
LEMMA AloneStep == ASSUME Grace = 0, TypeOK, SpentFirst, Alone, [Next]_vars PROVE Alone'
<1> USE DEF Request
<1>1. ASSUME NEW o \in Op, Lookup(o) PROVE Alone'
  BY <1>1, RotationAssumption
     DEF TypeOK, SpentFirst, Alone, Spent, Pipeline, Lookup, Goto, store,
          Finish
<1>2. ASSUME NEW o \in Op, FindSession(o) PROVE Alone'
  BY <1>2, RotationAssumption
     DEF TypeOK, SpentFirst, Alone, Spent, Pipeline, FindSession, Goto, store
<1>3. ASSUME NEW o \in Op, SessionGone(o) PROVE Alone'
  BY <1>3, RotationAssumption
     DEF TypeOK, SpentFirst, Alone, Spent, Pipeline, SessionGone, Goto, store,
          Finish
<1>4. ASSUME NEW o \in Op, Consume(o) PROVE Alone'
  BY <1>4, RotationAssumption
     DEF TypeOK, SpentFirst, Alone, Spent, Pipeline, Consume, Goto, store,
          Consumable
<1>5. ASSUME NEW o \in Op, ConsumeLost(o) PROVE Alone'
  BY <1>5, RotationAssumption
     DEF TypeOK, SpentFirst, Alone, Spent, Pipeline, ConsumeLost, Goto, store,
          Consumable
<1>6. ASSUME NEW o \in Op, GraceRow(o) PROVE Alone'
  BY <1>6, RotationAssumption
     DEF TypeOK, SpentFirst, Alone, Spent, Pipeline, GraceRow, Goto, store
<1>7. ASSUME NEW o \in Op, GraceChild(o) PROVE Alone'
  BY <1>7, RotationAssumption
     DEF TypeOK, SpentFirst, Alone, Spent, Pipeline, GraceChild, Goto, store
<1>8. ASSUME NEW o \in Op, Block(o) PROVE Alone'
  BY <1>8, RotationAssumption
     DEF TypeOK, SpentFirst, Alone, Spent, Pipeline, Block, Goto, store
<1>9. ASSUME NEW o \in Op, Verify(o) PROVE Alone'
  BY <1>9, RotationAssumption
     DEF TypeOK, SpentFirst, Alone, Spent, Pipeline, Verify, Goto, store
<1>10. ASSUME NEW o \in Op, VerifyExpired(o) PROVE Alone'
  BY <1>10, RotationAssumption
     DEF TypeOK, SpentFirst, Alone, Spent, Pipeline, VerifyExpired, Goto,
          store, Finish, EndSession
<1>11. ASSUME NEW o \in Op, Slide(o) PROVE Alone'
  BY <1>11, RotationAssumption
     DEF TypeOK, SpentFirst, Alone, Spent, Pipeline, Slide, Goto, store,
          Finish
<1>12. ASSUME NEW o \in Op, IssueRefresh(o) PROVE Alone'
  BY <1>12, RotationAssumption
     DEF TypeOK, SpentFirst, Alone, Spent, Pipeline, IssueRefresh, Goto,
          store, Drawn
<1>13. ASSUME NEW o \in Op, IssueAccess(o) PROVE Alone'
  BY <1>13, RotationAssumption
     DEF TypeOK, SpentFirst, Alone, Spent, Pipeline, IssueAccess, Goto, store
<1>14. ASSUME NEW o \in Op, IssueRefused(o) PROVE Alone'
  BY <1>14, RotationAssumption
     DEF TypeOK, SpentFirst, Alone, Spent, Pipeline, IssueRefused, Goto,
          store, Finish
<1>15. ASSUME NEW o \in Op, Answer(o) PROVE Alone'
  BY <1>15, RotationAssumption
     DEF TypeOK, SpentFirst, Alone, Spent, Pipeline, Answer, Goto, store,
          Finish
<1>16. ASSUME NEW o \in Op, FamilySelect(o) PROVE Alone'
  BY <1>16, RotationAssumption
     DEF TypeOK, SpentFirst, Alone, Spent, Pipeline, FamilySelect, Goto, store
<1>17. ASSUME NEW o \in Op, FamilyRevoke(o) PROVE Alone'
  BY <1>17, RotationAssumption
     DEF TypeOK, SpentFirst, Alone, Spent, Pipeline, FamilyRevoke, Goto, store
<1>18. ASSUME NEW o \in Op, FamilyMark(o) PROVE Alone'
  BY <1>18, RotationAssumption
     DEF TypeOK, SpentFirst, Alone, Spent, Pipeline, FamilyMark, Goto, store
<1>19. ASSUME NEW o \in Op, FamilyEnd(o) PROVE Alone'
  BY <1>19, RotationAssumption
     DEF TypeOK, SpentFirst, Alone, Spent, Pipeline, FamilyEnd, Goto, store,
          Finish, EndSession
<1>20. ASSUME NEW o \in Op, RevokeRow(o) PROVE Alone'
  BY <1>20, RotationAssumption
     DEF TypeOK, SpentFirst, Alone, Spent, Pipeline, RevokeRow, Goto, store,
          Finish
<1>21. ASSUME NEW o \in Op, NEW t \in Token, Present(o, t) PROVE Alone'
  BY <1>21, RotationAssumption
     DEF TypeOK, SpentFirst, Alone, Spent, Pipeline, Present, Goto, store,
          NoRequest
<1>22. ASSUME NEW o \in Op, NEW t \in Token, RevokeToken(o, t) PROVE Alone'
  BY <1>22, RotationAssumption
     DEF TypeOK, SpentFirst, Alone, Spent, Pipeline, RevokeToken, Goto, store,
          NoRequest
<1>23. ASSUME NEW o \in Op, Fail(o) PROVE Alone'
  BY <1>23, RotationAssumption
     DEF TypeOK, SpentFirst, Alone, Spent, Pipeline, Fail, Goto, store
<1>24. ASSUME NEW t \in Token, SweepRow(t) PROVE Alone'
  BY <1>24, RotationAssumption
     DEF TypeOK, SpentFirst, Alone, Spent, Pipeline, SweepRow, store
<1>25. CASE SessionEnds
  BY <1>25, RotationAssumption
     DEF TypeOK, SpentFirst, Alone, Spent, Pipeline, SessionEnds, EndSession
<1>26. CASE Tick
  BY <1>26, RotationAssumption
     DEF TypeOK, SpentFirst, Alone, Spent, Pipeline, Tick, store
<1>27. CASE UNCHANGED vars
  BY <1>27, RotationAssumption
     DEF TypeOK, SpentFirst, Alone, Spent, Pipeline, vars
<1> QED
  BY <1>1, <1>2, <1>3, <1>4, <1>5, <1>6, <1>7, <1>8, <1>9, <1>10, <1>11,
       <1>12, <1>13, <1>14, <1>15, <1>16, <1>17, <1>18, <1>19, <1>20, <1>21,
       <1>22, <1>23, <1>24, <1>25, <1>26, <1>27
     DEF Next, Step

(* A late request gets no further than its session lets it.              *)
LEMMA LateStep == ASSUME IInv, LateStopped, [Next]_vars PROVE LateStopped'
<1> USE DEF Request
<1>1. ASSUME NEW o \in Op, Lookup(o) PROVE LateStopped'
  BY <1>1, RotationAssumption
     DEF IInv, TypeOK, RowsNeedSession, SpentFirst, LateStopped, Doomed,
          Lapsed, HasConsumedChild, Spent, Pipeline, Lookup, Goto, store,
          Finish
<1>2. ASSUME NEW o \in Op, FindSession(o) PROVE LateStopped'
  BY <1>2, RotationAssumption
     DEF IInv, TypeOK, RowsNeedSession, SpentFirst, LateStopped, Doomed,
          Lapsed, HasConsumedChild, Spent, Pipeline, FindSession, Goto, store
<1>3. ASSUME NEW o \in Op, SessionGone(o) PROVE LateStopped'
  BY <1>3, RotationAssumption
     DEF IInv, TypeOK, RowsNeedSession, SpentFirst, LateStopped, Doomed,
          Lapsed, HasConsumedChild, Spent, Pipeline, SessionGone, Goto, store,
          Finish
<1>4. ASSUME NEW o \in Op, Consume(o) PROVE LateStopped'
  BY <1>4, RotationAssumption
     DEF IInv, TypeOK, RowsNeedSession, SpentFirst, LateStopped, Doomed,
          Lapsed, HasConsumedChild, Spent, Pipeline, Consume, Goto, store,
          Consumable
<1>5. ASSUME NEW o \in Op, ConsumeLost(o) PROVE LateStopped'
  BY <1>5, RotationAssumption
     DEF IInv, TypeOK, RowsNeedSession, SpentFirst, LateStopped, Doomed,
          Lapsed, HasConsumedChild, Spent, Pipeline, ConsumeLost, Goto, store,
          Consumable
<1>6. ASSUME NEW o \in Op, GraceRow(o) PROVE LateStopped'
  BY <1>6, RotationAssumption
     DEF IInv, TypeOK, RowsNeedSession, SpentFirst, LateStopped, Doomed,
          Lapsed, HasConsumedChild, Spent, Pipeline, GraceRow, Goto, store
<1>7. ASSUME NEW o \in Op, GraceChild(o) PROVE LateStopped'
  BY <1>7, RotationAssumption
     DEF IInv, TypeOK, RowsNeedSession, SpentFirst, LateStopped, Doomed,
          Lapsed, HasConsumedChild, Spent, Pipeline, GraceChild, Goto, store
<1>8. ASSUME NEW o \in Op, Block(o) PROVE LateStopped'
  BY <1>8, RotationAssumption
     DEF IInv, TypeOK, RowsNeedSession, SpentFirst, LateStopped, Doomed,
          Lapsed, HasConsumedChild, Spent, Pipeline, Block, Goto, store
<1>9. ASSUME NEW o \in Op, Verify(o) PROVE LateStopped'
  BY <1>9, RotationAssumption
     DEF IInv, TypeOK, RowsNeedSession, SpentFirst, LateStopped, Doomed,
          Lapsed, HasConsumedChild, Spent, Pipeline, Verify, Goto, store
<1>10. ASSUME NEW o \in Op, VerifyExpired(o) PROVE LateStopped'
  BY <1>10, RotationAssumption
     DEF IInv, TypeOK, RowsNeedSession, SpentFirst, LateStopped, Doomed,
          Lapsed, HasConsumedChild, Spent, Pipeline, VerifyExpired, Goto,
          store, Finish, EndSession
<1>11. ASSUME NEW o \in Op, Slide(o) PROVE LateStopped'
  BY <1>11, RotationAssumption
     DEF IInv, TypeOK, RowsNeedSession, SpentFirst, LateStopped, Doomed,
          Lapsed, HasConsumedChild, Spent, Pipeline, Slide, Goto, store,
          Finish
<1>12. ASSUME NEW o \in Op, IssueRefresh(o) PROVE LateStopped'
  BY <1>12, RotationAssumption
     DEF IInv, TypeOK, RowsNeedSession, SpentFirst, LateStopped, Doomed,
          Lapsed, HasConsumedChild, Spent, Pipeline, IssueRefresh, Goto,
          store, Drawn
<1>13. ASSUME NEW o \in Op, IssueAccess(o) PROVE LateStopped'
  BY <1>13, RotationAssumption
     DEF IInv, TypeOK, RowsNeedSession, SpentFirst, LateStopped, Doomed,
          Lapsed, HasConsumedChild, Spent, Pipeline, IssueAccess, Goto, store
<1>14. ASSUME NEW o \in Op, IssueRefused(o) PROVE LateStopped'
  BY <1>14, RotationAssumption
     DEF IInv, TypeOK, RowsNeedSession, SpentFirst, LateStopped, Doomed,
          Lapsed, HasConsumedChild, Spent, Pipeline, IssueRefused, Goto,
          store, Finish
<1>15. ASSUME NEW o \in Op, Answer(o) PROVE LateStopped'
  BY <1>15, RotationAssumption
     DEF IInv, TypeOK, RowsNeedSession, SpentFirst, LateStopped, Doomed,
          Lapsed, HasConsumedChild, Spent, Pipeline, Answer, Goto, store,
          Finish
<1>16. ASSUME NEW o \in Op, FamilySelect(o) PROVE LateStopped'
  BY <1>16, RotationAssumption
     DEF IInv, TypeOK, RowsNeedSession, SpentFirst, LateStopped, Doomed,
          Lapsed, HasConsumedChild, Spent, Pipeline, FamilySelect, Goto, store
<1>17. ASSUME NEW o \in Op, FamilyRevoke(o) PROVE LateStopped'
  BY <1>17, RotationAssumption
     DEF IInv, TypeOK, RowsNeedSession, SpentFirst, LateStopped, Doomed,
          Lapsed, HasConsumedChild, Spent, Pipeline, FamilyRevoke, Goto, store
<1>18. ASSUME NEW o \in Op, FamilyMark(o) PROVE LateStopped'
  BY <1>18, RotationAssumption
     DEF IInv, TypeOK, RowsNeedSession, SpentFirst, LateStopped, Doomed,
          Lapsed, HasConsumedChild, Spent, Pipeline, FamilyMark, Goto, store
<1>19. ASSUME NEW o \in Op, FamilyEnd(o) PROVE LateStopped'
  BY <1>19, RotationAssumption
     DEF IInv, TypeOK, RowsNeedSession, SpentFirst, LateStopped, Doomed,
          Lapsed, HasConsumedChild, Spent, Pipeline, FamilyEnd, Goto, store,
          Finish, EndSession
<1>20. ASSUME NEW o \in Op, RevokeRow(o) PROVE LateStopped'
  BY <1>20, RotationAssumption
     DEF IInv, TypeOK, RowsNeedSession, SpentFirst, LateStopped, Doomed,
          Lapsed, HasConsumedChild, Spent, Pipeline, RevokeRow, Goto, store,
          Finish
<1>21. ASSUME NEW o \in Op, NEW t \in Token, Present(o, t) PROVE LateStopped'
  <2>1. /\ req'[o].tok = t /\ (req'[o].late => Stale(t))
        /\ pc'[o] = "lookup"
        /\ \A q \in Op : q # o => req'[q] = req[q] /\ pc'[q] = pc[q]
        /\ UNCHANGED <<now, alive, store>>
    BY <1>21 DEF IInv, TypeOK, Present, Goto, NoRequest
  <2> QED
    BY <1>21, <2>1
       DEF IInv, TypeOK, LateStopped, Doomed, Stale, Lapsed, HasConsumedChild,
            Spent, Pipeline, store
<1>22. ASSUME NEW o \in Op, NEW t \in Token, RevokeToken(o, t) PROVE LateStopped'
  BY <1>22, RotationAssumption
     DEF IInv, TypeOK, RowsNeedSession, SpentFirst, LateStopped, Doomed,
          Lapsed, HasConsumedChild, Spent, Pipeline, RevokeToken, Goto, store,
          NoRequest
<1>23. ASSUME NEW o \in Op, Fail(o) PROVE LateStopped'
  BY <1>23, RotationAssumption
     DEF IInv, TypeOK, RowsNeedSession, SpentFirst, LateStopped, Doomed,
          Lapsed, HasConsumedChild, Spent, Pipeline, Fail, Goto, store
<1>24. ASSUME NEW t \in Token, SweepRow(t) PROVE LateStopped'
  BY <1>24, RotationAssumption
     DEF IInv, TypeOK, RowsNeedSession, SpentFirst, LateStopped, Doomed,
          Lapsed, HasConsumedChild, Spent, Pipeline, SweepRow, store
<1>25. CASE SessionEnds
  BY <1>25, RotationAssumption
     DEF IInv, TypeOK, RowsNeedSession, SpentFirst, LateStopped, Doomed,
          Lapsed, HasConsumedChild, Spent, Pipeline, SessionEnds, EndSession
<1>26. CASE Tick
  BY <1>26, RotationAssumption
     DEF IInv, TypeOK, RowsNeedSession, SpentFirst, LateStopped, Doomed,
          Lapsed, HasConsumedChild, Spent, Pipeline, Tick, store
<1>27. CASE UNCHANGED vars
  BY <1>27, RotationAssumption
     DEF IInv, TypeOK, RowsNeedSession, SpentFirst, LateStopped, Doomed,
          Lapsed, HasConsumedChild, Spent, Pipeline, vars
<1> QED
  BY <1>1, <1>2, <1>3, <1>4, <1>5, <1>6, <1>7, <1>8, <1>9, <1>10, <1>11,
       <1>12, <1>13, <1>14, <1>15, <1>16, <1>17, <1>18, <1>19, <1>20, <1>21,
       <1>22, <1>23, <1>24, <1>25, <1>26, <1>27
     DEF Next, Step

-----------------------------------------------------------------------------
LEMMA InitHolds == Init => IInv /\ Alone /\ LateStopped
<1> SUFFICES ASSUME Init PROVE IInv /\ Alone /\ LateStopped
  OBVIOUS
<1>1. TypeOK
  BY NoRequestType, RotationAssumption DEF Init, TypeOK, Label
<1> QED
  BY <1>1, RotationAssumption
     DEF Init, IInv, RowsNeedSession, Clocked, DrawnOnly, Drawn, SpentFirst,
         Spent, Pipeline, Alone, LateStopped

(* The inductive invariant holds in every reachable state.                 *)
THEOREM Inductive == Spec => []IInv
<1>1. Init => IInv
  BY InitHolds
<1>2. IInv /\ [Next]_vars => IInv'
  BY TypeStep, RowsStep, ClockStep, DrawnStep, SpentStep DEF IInv
<1> QED
  BY <1>1, <1>2, PTL DEF Spec

(* The stores and the requests in flight are well formed, for any number   *)
(* of tokens, requests and any window.                                     *)
THEOREM TypeCorrect == Spec => []TypeOK
<1>1. IInv => TypeOK
  BY DEF IInv
<1> QED
  BY <1>1, Inductive, PTL

(* Nothing of the family outlives its session: revokeFamily and every      *)
(* other end of the session win over a rotation in flight.                 *)
THEOREM RowsFollowSession == Spec => []RowsNeedSession
<1>1. IInv => RowsNeedSession
  BY DEF IInv
<1> QED
  BY <1>1, Inductive, PTL

(* A request that presents a token already ended by its session, by a      *)
(* revocation or by a later use is never answered with tokens.             *)
THEOREM LateRefused == Spec => []LateNeverAnswered
<1>1. Init => LateStopped
  BY InitHolds
<1>2. IInv /\ LateStopped /\ [Next]_vars => LateStopped'
  BY LateStep
<1>3. LateStopped => LateNeverAnswered
  BY DEF LateStopped, LateNeverAnswered
<1> QED
  BY <1>1, <1>2, <1>3, Inductive, PTL DEF Spec

-----------------------------------------------------------------------------
(* What every proof of a step below starts from.                           *)
Known == IInv /\ Alone /\ IInv'

(* A step of a request out of the pipeline and not into it changes neither *)
(* what is exchangeable nor what is owed, when it leaves the rows alone.   *)
LEMMA OwedSame ==
  ASSUME Known, NEW o \in Op, pc[o] \notin Pipeline,
         NEW l \in Label \ Pipeline, pc' = [pc EXCEPT ![o] = l],
         \A q \in Op \ {o} : req'[q] = req[q]
  PROVE  Owed' = Owed
<1>1. pc' \in [Op -> Label] /\ pc'[o] = l /\ \A q \in Op \ {o} : pc'[q] = pc[q]
  BY DEF Known, IInv, TypeOK
<1> QED
  BY <1>1 DEF Owed

(* A step within the pipeline keeps the debt.                              *)
LEMMA OwedKept ==
  ASSUME Known, NEW o \in Op, pc[o] \in Pipeline,
         NEW l \in Pipeline, pc' = [pc EXCEPT ![o] = l], UNCHANGED req
  PROVE  Owed' = Owed
<1>1. pc' \in [Op -> Label] /\ pc'[o] = l /\ \A q \in Op \ {o} : pc'[q] = pc[q]
  BY DEF Known, IInv, TypeOK, Label
<1> QED
  BY <1>1 DEF Owed

(* A step out of the pipeline takes its token off what is owed: no other   *)
(* request is there with it.                                               *)
LEMMA OwedLeft ==
  ASSUME Known, NEW o \in Op, pc[o] \in Pipeline,
         NEW l \in Label \ Pipeline, pc' = [pc EXCEPT ![o] = l],
         \A q \in Op \ {o} : req'[q] = req[q]
  PROVE  Owed' = Owed \ {req[o].tok} /\ req[o].tok \in Owed
<1>1. pc' \in [Op -> Label] /\ pc'[o] = l /\ \A q \in Op \ {o} : pc'[q] = pc[q]
  BY DEF Known, IInv, TypeOK
<1>2. req[o].tok \in Token
  BY DEF Known, IInv, TypeOK, Request
<1>3. \A q \in Op : pc[q] \in Pipeline /\ req[q].tok = req[o].tok => q = o
  BY DEF Known, Alone
<1> QED
  BY <1>1, <1>2, <1>3 DEF Owed

(* The session ends: the family closes, whoever ended it.                  *)
LEMMA ClosesFamily ==
  ASSUME EndSession, NEW t \in Token, Owed' \in {Owed, Owed \ {t}}
  PROVE  Family!Close(t)
  BY DEF EndSession, Family!Close, Exchangeable, Spent

(* A step that maps to nothing.                                            *)
LEMMA Stutters ==
  ASSUME UNCHANGED <<alive, row, consumedAt, revoked, parent>>, Owed' = Owed
  PROVE  UNCHANGED Family!vars
  BY DEF Family!vars, Exchangeable, Spent

(* A spend that will grant nothing.                                        *)
LEMMA Forfeits ==
  ASSUME UNCHANGED <<alive, row, consumedAt, revoked, parent>>,
         NEW t, t \in Owed, Owed' = Owed \ {t}
  PROVE  [Family!Next]_(Family!vars)
<1>1. Exchangeable' = Exchangeable
  BY DEF Exchangeable, Spent
<1>2. t \in Token /\ Family!Forfeit(t)
  BY <1>1 DEF Owed, Family!Forfeit
<1> QED
  BY <1>2 DEF Family!Next

(* Every step of the program is a step of the family, or none.             *)
LEMMA RefinesStep ==
  ASSUME Grace = 0, Known, [Next]_vars
  PROVE  [Family!Next]_(Family!vars)
<1> DEFINE Goal == [Family!Next]_(Family!vars)
<1> USE DEF Label, Pipeline
<1>1. ASSUME NEW o \in Op, Lookup(o) PROVE Goal
  <2>1. /\ pc[o] \notin Pipeline
        /\ \E l \in {"session", "idle"} : pc' = [pc EXCEPT ![o] = l]
        /\ \A q \in Op \ {o} : req'[q] = req[q]
        /\ UNCHANGED <<alive, row, consumedAt, revoked, parent>>
    BY <1>1 DEF Known, IInv, TypeOK, Lookup, Goto, store, Finish
  <2>2. Owed' = Owed
    BY <2>1, OwedSame
  <2> QED
    BY <2>1, <2>2, Stutters
<1>2. ASSUME NEW o \in Op, FindSession(o) PROVE Goal
  <2>1. /\ pc[o] \notin Pipeline
        /\ pc' = [pc EXCEPT ![o] = "consume"]
        /\ \A q \in Op \ {o} : req'[q] = req[q]
        /\ UNCHANGED <<alive, row, consumedAt, revoked, parent>>
    BY <1>2 DEF Known, IInv, TypeOK, FindSession, Goto, store
  <2>2. Owed' = Owed
    BY <2>1, OwedSame
  <2> QED
    BY <2>1, <2>2, Stutters
<1>3. ASSUME NEW o \in Op, SessionGone(o) PROVE Goal
  <2>1. /\ pc[o] \notin Pipeline
        /\ pc' = [pc EXCEPT ![o] = "idle"]
        /\ \A q \in Op \ {o} : req'[q] = req[q]
        /\ UNCHANGED <<alive, row, consumedAt, revoked, parent>>
    BY <1>3 DEF Known, IInv, TypeOK, SessionGone, Goto, store, Finish
  <2>2. Owed' = Owed
    BY <2>1, OwedSame
  <2> QED
    BY <2>1, <2>2, Stutters
<1>4. ASSUME NEW o \in Op, Consume(o) PROVE Goal
  <2> DEFINE t == req[o].tok
  <2>1. /\ t \in Token /\ t \in Exchangeable /\ alive
        /\ req[o].at # 0
    BY <1>4
       DEF Known, IInv, TypeOK, Request, RowsNeedSession, Clocked, Consume,
            Consumable, Exchangeable
  <2>2. /\ consumedAt' = [consumedAt EXCEPT ![t] = req[o].at]
        /\ pc' = [pc EXCEPT ![o] = "block"]
        /\ UNCHANGED <<alive, row, revoked, parent, req>>
    BY <1>4 DEF Consume, Goto
  <2>3. Exchangeable' = Exchangeable \ {t}
    BY <2>1, <2>2 DEF Known, IInv, TypeOK, Exchangeable, Spent
  <2>4. Owed' = Owed \union {t}
    <3>1. pc'[o] = "block" /\ \A q \in Op \ {o} : pc'[q] = pc[q]
      BY <2>2 DEF Known, IInv, TypeOK
    <3>2. pc[o] \notin Pipeline
      BY <1>4 DEF Consume
    <3> QED
      BY <2>1, <2>2, <3>1, <3>2 DEF Owed
  <2>5. Family!Spend(t)
    BY <2>1, <2>2, <2>3, <2>4 DEF Family!Spend
  <2> QED
    BY <2>1, <2>5 DEF Family!Next
<1>5. ASSUME NEW o \in Op, ConsumeLost(o) PROVE Goal
  <2>1. /\ pc[o] \notin Pipeline
        /\ pc' = [pc EXCEPT ![o] = "family"]
        /\ \A q \in Op \ {o} : req'[q] = req[q]
        /\ UNCHANGED <<alive, row, consumedAt, revoked, parent>>
    BY <1>5 DEF Known, IInv, TypeOK, ConsumeLost, Goto, store
  <2>2. Owed' = Owed
    BY <2>1, OwedSame
  <2> QED
    BY <2>1, <2>2, Stutters
<1>6. ASSUME NEW o \in Op, GraceRow(o) PROVE Goal
  BY <1>6 DEF Known, IInv, SpentFirst, GraceRow
<1>7. ASSUME NEW o \in Op, GraceChild(o) PROVE Goal
  BY <1>7 DEF Known, IInv, SpentFirst, GraceChild
<1>8. ASSUME NEW o \in Op, Block(o) PROVE Goal
  <2>1. /\ pc[o] \in Pipeline
        /\ pc' = [pc EXCEPT ![o] = "verify"]
        /\ UNCHANGED <<alive, row, consumedAt, revoked, parent>> /\ UNCHANGED req
    BY <1>8 DEF Block, Goto, store
  <2>2. Owed' = Owed
    BY <2>1, OwedKept
  <2> QED
    BY <2>1, <2>2, Stutters
<1>9. ASSUME NEW o \in Op, Verify(o) PROVE Goal
  <2>1. /\ pc[o] \in Pipeline
        /\ pc' = [pc EXCEPT ![o] = "slide"]
        /\ UNCHANGED <<alive, row, consumedAt, revoked, parent>> /\ UNCHANGED req
    BY <1>9 DEF Verify, Goto, store
  <2>2. Owed' = Owed
    BY <2>1, OwedKept
  <2> QED
    BY <2>1, <2>2, Stutters
<1>10. ASSUME NEW o \in Op, VerifyExpired(o) PROVE Goal
  <2>1. /\ pc[o] \in Pipeline /\ EndSession
        /\ pc' = [pc EXCEPT ![o] = "idle"]
        /\ \A q \in Op \ {o} : req'[q] = req[q]
    BY <1>10 DEF Known, IInv, TypeOK, VerifyExpired, Finish, Goto
  <2>2. Owed' = Owed \ {req[o].tok} /\ req[o].tok \in Token
    BY <2>1, OwedLeft DEF Owed
  <2>3. Family!Close(req[o].tok)
    BY <2>1, <2>2, ClosesFamily
  <2> QED
    BY <2>2, <2>3 DEF Family!Next
<1>11. ASSUME NEW o \in Op, Slide(o) PROVE Goal
  <2>1. /\ pc[o] \in Pipeline
        /\ UNCHANGED <<alive, row, consumedAt, revoked, parent>>
    BY <1>11 DEF Slide, store
  <2>2. CASE alive
    <3>1. pc' = [pc EXCEPT ![o] = "rotate"] /\ UNCHANGED req
      BY <1>11, <2>2 DEF Slide, Goto
    <3>2. Owed' = Owed
      BY <2>1, <3>1, OwedKept
    <3> QED
      BY <2>1, <3>2, Stutters
  <2>3. CASE ~alive
    <3>1. /\ pc' = [pc EXCEPT ![o] = "idle"]
          /\ \A q \in Op \ {o} : req'[q] = req[q]
      BY <1>11, <2>3 DEF Known, IInv, TypeOK, Slide, Finish, Goto
    <3>2. Owed' = Owed \ {req[o].tok} /\ req[o].tok \in Owed
      BY <2>1, <3>1, OwedLeft
    <3> QED
      BY <2>1, <3>2, Forfeits
  <2> QED
    BY <2>2, <2>3
<1>12. ASSUME NEW o \in Op, IssueRefresh(o) PROVE Goal
  <2> DEFINE t == req[o].tok
  <2>1. PICK c \in Token \ Drawn :
          /\ row' = row \union {c}
          /\ parent' = [parent EXCEPT ![c] = t]
          /\ req' = [req EXCEPT ![o].new = c]
    BY <1>12 DEF IssueRefresh
  <2>2. /\ alive /\ pc[o] \in Pipeline
        /\ pc' = [pc EXCEPT ![o] = "access"]
        /\ \A q \in Op \ {o} : req'[q] = req[q]
        /\ UNCHANGED <<alive, consumedAt, revoked>>
    BY <1>12 DEF Known, IInv, TypeOK, IssueRefresh, Goto
  <2>3. Owed' = Owed \ {t} /\ t \in Owed
    BY <2>2, OwedLeft
  <2>4. ~Spent(c) /\ c \notin revoked
    BY DEF Known, IInv, DrawnOnly
  <2>5. Exchangeable' = Exchangeable \union {c}
    BY <2>1, <2>2, <2>4 DEF Exchangeable, Spent
  <2>6. c \notin Family!Granted
    BY DEF Family!Granted, Family!NoToken, Drawn, NoToken
  <2>7. Family!Grant(t, c)
    BY <2>1, <2>2, <2>3, <2>5, <2>6 DEF Family!Grant
  <2>8. t \in Token /\ c \in Token
    BY <2>3 DEF Owed
  <2> HIDE DEF t
  <2> QED
    BY <2>7, <2>8 DEF Family!Next
<1>13. ASSUME NEW o \in Op, IssueAccess(o) PROVE Goal
  <2>1. /\ pc[o] \notin Pipeline
        /\ pc' = [pc EXCEPT ![o] = "answer"]
        /\ \A q \in Op \ {o} : req'[q] = req[q]
        /\ UNCHANGED <<alive, row, consumedAt, revoked, parent>>
    BY <1>13 DEF Known, IInv, TypeOK, IssueAccess, Goto, store
  <2>2. Owed' = Owed
    BY <2>1, OwedSame
  <2> QED
    BY <2>1, <2>2, Stutters
<1>14. ASSUME NEW o \in Op, IssueRefused(o) PROVE Goal
  <2>1. /\ pc' = [pc EXCEPT ![o] = "idle"]
        /\ \A q \in Op \ {o} : req'[q] = req[q]
        /\ UNCHANGED <<alive, row, consumedAt, revoked, parent>>
    BY <1>14 DEF Known, IInv, TypeOK, IssueRefused, Finish, Goto, store
  <2>2. CASE pc[o] \in Pipeline
    BY <2>1, <2>2, OwedLeft, Forfeits
  <2>3. CASE pc[o] \notin Pipeline
    BY <2>1, <2>3, OwedSame, Stutters
  <2> QED
    BY <2>2, <2>3
<1>15. ASSUME NEW o \in Op, Answer(o) PROVE Goal
  <2>1. /\ pc[o] \notin Pipeline
        /\ pc' = [pc EXCEPT ![o] = "idle"]
        /\ \A q \in Op \ {o} : req'[q] = req[q]
        /\ UNCHANGED <<alive, row, consumedAt, revoked, parent>>
    BY <1>15 DEF Known, IInv, TypeOK, Answer, Goto, store, Finish
  <2>2. Owed' = Owed
    BY <2>1, OwedSame
  <2> QED
    BY <2>1, <2>2, Stutters
<1>16. ASSUME NEW o \in Op, FamilySelect(o) PROVE Goal
  <2>1. /\ pc[o] \notin Pipeline
        /\ pc' = [pc EXCEPT ![o] = "revoke"]
        /\ \A q \in Op \ {o} : req'[q] = req[q]
        /\ UNCHANGED <<alive, row, consumedAt, revoked, parent>>
    BY <1>16 DEF Known, IInv, TypeOK, FamilySelect, Goto, store
  <2>2. Owed' = Owed
    BY <2>1, OwedSame
  <2> QED
    BY <2>1, <2>2, Stutters
<1>17. ASSUME NEW o \in Op, FamilyRevoke(o) PROVE Goal
  <2> DEFINE gone == req[o].seen \intersect row
  <2>1. /\ pc[o] \notin Pipeline
        /\ pc' = [pc EXCEPT ![o] = "mark"]
        /\ \A q \in Op \ {o} : req'[q] = req[q]
        /\ revoked' = revoked \union gone
        /\ UNCHANGED <<alive, row, consumedAt, parent>>
    BY <1>17 DEF Known, IInv, TypeOK, FamilyRevoke, Goto
  <2>2. Owed' = Owed
    BY <2>1, OwedSame
  <2>3. Exchangeable' = Exchangeable \ gone
    BY <2>1 DEF Exchangeable, Spent
  <2>4. gone \in SUBSET Token
    BY DEF Known, IInv, TypeOK
  <2>5. Family!Withdraw(gone)
    BY <2>1, <2>2, <2>3 DEF Family!Withdraw
  <2> QED
    BY <2>4, <2>5 DEF Family!Next
<1>18. ASSUME NEW o \in Op, FamilyMark(o) PROVE Goal
  <2>1. /\ pc[o] \notin Pipeline
        /\ pc' = [pc EXCEPT ![o] = "end"]
        /\ \A q \in Op \ {o} : req'[q] = req[q]
        /\ UNCHANGED <<alive, row, consumedAt, revoked, parent>>
    BY <1>18 DEF Known, IInv, TypeOK, FamilyMark, Goto, store
  <2>2. Owed' = Owed
    BY <2>1, OwedSame
  <2> QED
    BY <2>1, <2>2, Stutters
<1>19. ASSUME NEW o \in Op, FamilyEnd(o) PROVE Goal
  <2>1. /\ pc[o] \notin Pipeline /\ EndSession
        /\ pc' = [pc EXCEPT ![o] = "idle"]
        /\ \A q \in Op \ {o} : req'[q] = req[q]
    BY <1>19 DEF Known, IInv, TypeOK, FamilyEnd, Finish, Goto
  <2>2. Owed' = Owed
    BY <2>1, OwedSame
  <2>3. Family!Close(Root)
    BY <2>1, <2>2, ClosesFamily, RotationAssumption
  <2> QED
    BY <2>3, RotationAssumption DEF Family!Next
<1>20. ASSUME NEW o \in Op, RevokeRow(o) PROVE Goal
  <2> DEFINE gone == {req[o].tok} \intersect row
  <2>1. /\ pc[o] \notin Pipeline
        /\ pc' = [pc EXCEPT ![o] = "idle"]
        /\ \A q \in Op \ {o} : req'[q] = req[q]
        /\ revoked' = revoked \union gone
        /\ UNCHANGED <<alive, row, consumedAt, parent>>
    BY <1>20 DEF Known, IInv, TypeOK, RevokeRow, Goto, Finish
  <2>2. Owed' = Owed
    BY <2>1, OwedSame
  <2>3. Exchangeable' = Exchangeable \ gone
    BY <2>1 DEF Exchangeable, Spent
  <2>4. gone \in SUBSET Token
    BY DEF Known, IInv, TypeOK
  <2>5. Family!Withdraw(gone)
    BY <2>1, <2>2, <2>3 DEF Family!Withdraw
  <2> QED
    BY <2>4, <2>5 DEF Family!Next
<1>21. ASSUME NEW o \in Op, NEW t \in Token, Present(o, t) PROVE Goal
  <2>1. /\ pc[o] \notin Pipeline
        /\ pc' = [pc EXCEPT ![o] = "lookup"]
        /\ \A q \in Op \ {o} : req'[q] = req[q]
        /\ UNCHANGED <<alive, row, consumedAt, revoked, parent>>
    BY <1>21 DEF Known, IInv, TypeOK, Present, Goto, store
  <2>2. Owed' = Owed
    BY <2>1, OwedSame
  <2> QED
    BY <2>1, <2>2, Stutters
<1>22. ASSUME NEW o \in Op, NEW t \in Token, RevokeToken(o, t) PROVE Goal
  <2>1. /\ pc[o] \notin Pipeline
        /\ pc' = [pc EXCEPT ![o] = "revokeRow"]
        /\ \A q \in Op \ {o} : req'[q] = req[q]
        /\ UNCHANGED <<alive, row, consumedAt, revoked, parent>>
    BY <1>22 DEF Known, IInv, TypeOK, RevokeToken, Goto, store
  <2>2. Owed' = Owed
    BY <2>1, OwedSame
  <2> QED
    BY <2>1, <2>2, Stutters
<1>23. ASSUME NEW o \in Op, Fail(o) PROVE Goal
  <2>1. /\ pc' = [pc EXCEPT ![o] = "failed"]
        /\ \A q \in Op \ {o} : req'[q] = req[q]
        /\ UNCHANGED <<alive, row, consumedAt, revoked, parent>>
    BY <1>23 DEF Fail, Goto, store
  <2>2. CASE pc[o] \in Pipeline
    BY <2>1, <2>2, OwedLeft, Forfeits
  <2>3. CASE pc[o] \notin Pipeline
    BY <2>1, <2>3, OwedSame, Stutters
  <2> QED
    BY <2>2, <2>3
<1>24. ASSUME NEW t \in Token, SweepRow(t) PROVE Goal
  <2>1. Exchangeable' = Exchangeable \ {t} /\ Owed' = Owed
    BY <1>24 DEF SweepRow, Exchangeable, Owed, Spent
  <2>2. Family!Withdraw({t})
    BY <1>24, <2>1 DEF SweepRow, Family!Withdraw
  <2> QED
    BY <2>2 DEF Family!Next
<1>25. ASSUME SessionEnds PROVE Goal
  <2>1. EndSession /\ Owed' = Owed
    BY <1>25 DEF SessionEnds, Owed
  <2>2. Family!Close(Root)
    BY <2>1, ClosesFamily, RotationAssumption
  <2> QED
    BY <2>2, RotationAssumption DEF Family!Next
<1>26. ASSUME Tick PROVE Goal
  <2>1. Owed' = Owed
    BY <1>26 DEF Tick, Owed
  <2> QED
    BY <1>26, <2>1, Stutters DEF Tick, store
<1>27. ASSUME UNCHANGED vars PROVE Goal
  <2>1. Owed' = Owed
    BY <1>27 DEF vars, Owed
  <2> QED
    BY <1>27, <2>1, Stutters DEF vars
<1> QED
  BY <1>1, <1>2, <1>3, <1>4, <1>5, <1>6, <1>7, <1>8, <1>9, <1>10, <1>11,
       <1>12, <1>13, <1>14, <1>15, <1>16, <1>17, <1>18, <1>19, <1>20, <1>21,
       <1>22, <1>23, <1>24, <1>25, <1>26, <1>27
     DEF Next, Step

-----------------------------------------------------------------------------
(* With the grace window off, rotation implements the token family: every  *)
(* interleaving of the grant's awaited calls is a sequence of single       *)
(* spends, grants and withdrawals.                                         *)
THEOREM RotationImplementsFamily ==
  ASSUME Grace = 0 PROVE Spec => ImplementsFamily
<1>1. Init => Alone /\ Family!Init
  <2> SUFFICES ASSUME Init PROVE Family!Init
    BY InitHolds
  <2>1. Exchangeable = {Root} /\ Owed = {}
    BY RotationAssumption DEF Init, Exchangeable, Owed, Spent, Pipeline
  <2> QED
    BY <2>1 DEF Init, Family!Init, NoToken, Family!NoToken
<1>2. IInv /\ Alone /\ [Next]_vars => Alone'
  BY AloneStep DEF IInv
<1>3. IInv /\ IInv' /\ Alone /\ [Next]_vars => [Family!Next]_(Family!vars)
  BY RefinesStep DEF Known
<1> QED
  BY <1>1, <1>2, <1>3, Inductive, PTL DEF Spec, ImplementsFamily, Family!Spec

(* A token that may still be exchanged, or whose successor is due, has no  *)
(* successor yet.                                                          *)
FInv ==
    /\ Exchangeable \subseteq Token
    /\ Owed \subseteq Token
    /\ parent \in [Token -> Token \union {Family!NoToken}]
    /\ Exchangeable \intersect Owed = {}
    /\ \A c \in Token : parent[c] \notin Exchangeable \union Owed
    /\ (Exchangeable \union Owed) \subseteq Family!Granted
    /\ \A c \in Token : parent[c] # Family!NoToken => parent[c] \in Family!Granted
    /\ Family!OneSuccessor

(* No token of the family ever has two successors, whatever is exchanged,  *)
(* revoked or abandoned.                                                   *)
LEMMA FamilyOneSuccessor == Family!Spec => []Family!OneSuccessor
<1>1. Family!Init => FInv
  BY RotationAssumption DEF FInv, NoToken, Family!NoToken, Family!Init, Family!Granted,
     Family!OneSuccessor
<1>2. FInv /\ [Family!Next]_(Family!vars) => FInv'
  <2> SUFFICES ASSUME FInv, [Family!Next]_(Family!vars) PROVE FInv'
    OBVIOUS
  <2>1. ASSUME NEW t \in Token, Family!Spend(t) PROVE FInv'
    BY <2>1 DEF FInv, Family!Spend, Family!Granted, Family!OneSuccessor
  <2>2. ASSUME NEW t \in Token, Family!Forfeit(t) PROVE FInv'
    BY <2>2 DEF FInv, Family!Forfeit, Family!Granted, Family!OneSuccessor
  <2>3. ASSUME NEW t \in Token, Family!Close(t) PROVE FInv'
    BY <2>3 DEF FInv, Family!Close, Family!Granted, Family!OneSuccessor
  <2>4. ASSUME NEW t \in Token, NEW c \in Token, Family!Grant(t, c) PROVE FInv'
    <3>1. /\ t \in Owed /\ t # Family!NoToken /\ c # t
          /\ parent[c] = Family!NoToken /\ c \notin Exchangeable \union Owed
          /\ \A d \in Token : parent[d] # t /\ parent[d] # c
      BY <2>4, RotationAssumption DEF FInv, Family!Grant, Family!Granted, NoToken, Family!NoToken
    <3>2. /\ parent' \in [Token -> Token \union {Family!NoToken}]
          /\ \A d \in Token : parent'[d] = IF d = c THEN t ELSE parent[d]
      BY <2>4 DEF FInv, Family!Grant
    <3>3. /\ Exchangeable' = Exchangeable \union {c}
          /\ Owed' = Owed \ {t}
      BY <2>4 DEF Family!Grant
    <3>4. Family!OneSuccessor'
      BY <3>1, <3>2 DEF FInv, Family!OneSuccessor
    <3>5. (Exchangeable \union Owed)' \subseteq Family!Granted'
      BY <3>1, <3>2, <3>3 DEF FInv, Family!Granted
    <3>6. \A d \in Token : parent'[d] \notin (Exchangeable \union Owed)'
      BY <3>1, <3>2, <3>3 DEF FInv
    <3>7. \A d \in Token : parent'[d] # Family!NoToken => parent'[d] \in Family!Granted'
      BY <3>1, <3>2 DEF FInv, Family!Granted
    <3>8. /\ Exchangeable' \subseteq Token /\ Owed' \subseteq Token
          /\ Exchangeable' \intersect Owed' = {}
      BY <3>1, <3>3 DEF FInv
    <3> QED
      BY <3>2, <3>4, <3>5, <3>6, <3>7, <3>8 DEF FInv
  <2>5. ASSUME NEW gone \in SUBSET Token, Family!Withdraw(gone) PROVE FInv'
    BY <2>5 DEF FInv, Family!Withdraw, Family!Granted, Family!OneSuccessor
  <2>6. CASE UNCHANGED Family!vars
    BY <2>6 DEF FInv, Family!vars, Family!Granted, Family!OneSuccessor
  <2> QED
    BY <2>1, <2>2, <2>3, <2>4, <2>5, <2>6 DEF Family!Next
<1>3. FInv => Family!OneSuccessor
  BY DEF FInv
<1> QED
  BY <1>1, <1>2, <1>3, PTL DEF Family!Spec

(* With the grace window off a token is exchanged at most once, however    *)
(* many requests present it at the same time: what TokenFamily promises    *)
(* carries over along the refinement.                                      *)
THEOREM SingleSuccessorHolds == ASSUME Grace = 0 PROVE Spec => []SingleSuccessor
<1>1. Family!OneSuccessor => SingleSuccessor
  BY DEF Family!OneSuccessor, Family!NoToken, NoToken, SingleSuccessor
<1> QED
  BY <1>1, RotationImplementsFamily, FamilyOneSuccessor, PTL DEF ImplementsFamily

-----------------------------------------------------------------------------
(* A successor is granted by a request that marked the token it replaces.  *)
Blocked ==
    /\ \A o \in Op : pc[o] \in {"verify", "slide", "rotate"} => req[o].tok \in inactive
    /\ \A c \in Token : parent[c] # NoToken => parent[c] \in inactive

LEMMA BlockedStep == ASSUME TypeOK, Blocked, [Next]_vars PROVE Blocked'
<1> USE RotationAssumption DEF Blocked, TypeOK, Request, Goto, Finish, store, NoRequest
<1>1. ASSUME NEW o \in Op, IssueRefresh(o) PROVE Blocked'
  <2>1. PICK c \in Token \ Drawn : /\ parent' = [parent EXCEPT ![c] = req[o].tok]
                                   /\ req' = [req EXCEPT ![o].new = c]
    BY <1>1 DEF IssueRefresh
  <2>2. req[o].tok \in inactive /\ inactive' = inactive
    BY <1>1 DEF IssueRefresh
  <2>3. \A d \in Token : parent'[d] # NoToken => parent'[d] \in inactive'
    BY <2>1, <2>2
  <2>4. \A p \in Op : req'[p].tok = req[p].tok
    BY <2>1
  <2>5. \A p \in Op : pc'[p] \in {"verify", "slide", "rotate"} => pc'[p] = pc[p]
    BY <1>1 DEF IssueRefresh
  <2> QED
    BY <2>2, <2>3, <2>4, <2>5
<1>2. ASSUME NEW o \in Op, Block(o) \/ Verify(o) \/ Slide(o) PROVE Blocked'
  BY <1>2 DEF Block, Verify, Slide
<1>3. ASSUME NEW o \in Op, \/ Lookup(o) \/ FindSession(o) \/ SessionGone(o) \/ Consume(o)
                           \/ ConsumeLost(o) \/ GraceRow(o) \/ GraceChild(o)
      PROVE  Blocked'
  BY <1>3 DEF Lookup, FindSession, SessionGone, Consume, ConsumeLost, GraceRow, GraceChild
<1>4. ASSUME NEW o \in Op, \/ VerifyExpired(o) \/ IssueAccess(o) \/ IssueRefused(o)
                           \/ Answer(o) \/ FamilySelect(o) \/ FamilyRevoke(o)
                           \/ FamilyMark(o) \/ FamilyEnd(o) \/ RevokeRow(o) \/ Fail(o)
      PROVE  Blocked'
  BY <1>4 DEF VerifyExpired, IssueAccess, IssueRefused, Answer, FamilySelect, FamilyRevoke,
     FamilyMark, FamilyEnd, RevokeRow, Fail, EndSession
<1>5. ASSUME NEW o \in Op, NEW t \in Token, Present(o, t) \/ RevokeToken(o, t) PROVE Blocked'
  BY <1>5 DEF Present, RevokeToken
<1>6. ASSUME NEW t \in Token, SweepRow(t) PROVE Blocked'
  BY <1>6 DEF SweepRow
<1>7. CASE SessionEnds \/ Tick
  BY <1>7 DEF SessionEnds, Tick, EndSession
<1>8. CASE UNCHANGED vars
  BY <1>8 DEF vars
<1> QED
  BY <1>1, <1>2, <1>3, <1>4, <1>5, <1>6, <1>7, <1>8 DEF Next, Step

(* A client that holds a successor holds a predecessor that introspection  *)
(* already reports inactive (OAuth2RefreshTokenGrant marks it first).      *)
THEOREM PredecessorInactiveHolds == Spec => []PredecessorInactive
<1>1. Init => Blocked
  BY DEF Init, Blocked
<1>2. TypeOK /\ Blocked /\ [Next]_vars => Blocked'
  BY BlockedStep
<1>3. TypeOK /\ Blocked => PredecessorInactive
  BY DEF TypeOK, Blocked, PredecessorInactive
<1> QED
  BY <1>1, <1>2, <1>3, TypeCorrect, PTL DEF Spec

-----------------------------------------------------------------------------
(* The second factor.  What a login and a change of the factors know.      *)

(* The session of a login was inserted; tokens are answered for a session  *)
(* that was.                                                               *)
Inserted ==
    /\ \A o \in Op : factorPc[o] \in {"recheck", "challenge", "revoke", "answer"} =>
          factorReq[o].sid \in Session /\ session[factorReq[o].sid] # "free"
    /\ \A s \in served : session[s] # "free"

(* A change that looked its session up knows what it proved.               *)
Sure ==
    \A o \in Op :
        /\ factorPc[o] \in {"assert", "look", "commit"} =>
             factorReq[o].kind \in {"enroll", "confirm", "delete"}
        /\ factorPc[o] = "commit" /\ factorReq[o].sure =>
             factorReq[o].sid \in proved \union {Factors!NoSession}

(* A live session that never proved a factor and has its tokens, or is     *)
(* about to be answered with them.                                         *)
Exposed(s) ==
    /\ Factors!Live(s) /\ s \notin proved
    /\ s \in served \/ \E o \in Op : factorPc[o] = "answer" /\ factorReq[o].sid = s

Chased ==
    Factors!HasConfirmed =>
        \A s \in Session : Exposed(s) => Factors!Excused(s) \/ Factors!Doomed(s)

FactorInv == Factors!TypeOK /\ Inserted /\ Sure /\ Chased

FactorRequest == [kind : Factors!Kind, dev : Factors!Device, sid : Session \union {Factors!NoSession},
                  sure : BOOLEAN, todo : SUBSET Session]

LEMMA NoFactorRequest == Factors!NoRequest \in FactorRequest
BY FactorsApart DEF Factors!NoRequest, FactorRequest, Factors!Kind, Factors!FactorAssumption

LEMMA LoginRequest ==
  ASSUME NEW sure \in BOOLEAN
  PROVE  [Factors!NoRequest EXCEPT !.kind = "login", !.sure = sure] \in FactorRequest
<1> DEFINE r == [Factors!NoRequest EXCEPT !.kind = "login"]
<1>1. r \in FactorRequest
  BY NoFactorRequest DEF FactorRequest, Factors!Kind
<1>2. [r EXCEPT !.sure = sure] \in FactorRequest
  <2> HIDE DEF r
  <2> QED
    BY <1>1 DEF FactorRequest
<1> QED
  BY <1>2

LEMMA ManageRequest ==
  ASSUME NEW k \in {"enroll", "confirm", "delete"}, NEW d \in Factors!Device,
         NEW s \in Session \union {Factors!NoSession}
  PROVE  [Factors!NoRequest EXCEPT !.kind = k, !.dev = d, !.sid = s] \in FactorRequest
<1> DEFINE r == [Factors!NoRequest EXCEPT !.kind = k]
           q == [r EXCEPT !.dev = d]
<1>1. r \in FactorRequest
  BY NoFactorRequest DEF FactorRequest, Factors!Kind
<1>2. q \in FactorRequest
  <2> HIDE DEF r
  <2> QED
    BY <1>1 DEF FactorRequest
<1>3. [q EXCEPT !.sid = s] \in FactorRequest
  <2> HIDE DEF q
  <2> QED
    BY <1>2 DEF FactorRequest
<1> QED
  BY <1>3

LEMMA LoginTyped ==
  ASSUME Factors!TypeOK, NEW o \in Op, Factors!Login(o) \/ Factors!LoginElsewhere(o)
  PROVE  Factors!TypeOK'
<1>1. PICK sure \in BOOLEAN :
        factorReq' = [factorReq EXCEPT ![o] =
                        [Factors!NoRequest EXCEPT !.kind = "login", !.sure = sure]]
  BY DEF Factors!Login, Factors!LoginElsewhere
<1>2. factorReq \in [Op -> FactorRequest] /\ factorPc \in [Op -> Factors!Label]
  BY DEF Factors!TypeOK, FactorRequest
<1>3. factorReq' \in [Op -> FactorRequest]
  BY <1>1, <1>2, LoginRequest
<1>4. factorPc' \in [Op -> Factors!Label] /\ UNCHANGED Factors!rows
  BY <1>2 DEF Factors!Login, Factors!LoginElsewhere, Factors!Goto, Factors!Label
<1> QED
  BY <1>3, <1>4 DEF Factors!TypeOK, FactorRequest, Factors!rows

LEMMA ManageTyped ==
  ASSUME Factors!TypeOK, NEW o \in Op, NEW d \in Factors!Device,
         NEW s \in Session \union {Factors!NoSession}, NEW k \in {"enroll", "confirm", "delete"},
         Factors!Manage(o, k, d, s)
  PROVE  Factors!TypeOK'
<1>1. factorReq' = [factorReq EXCEPT ![o] =
                      [Factors!NoRequest EXCEPT !.kind = k, !.dev = d, !.sid = s]]
  BY DEF Factors!Manage
<1>2. factorReq \in [Op -> FactorRequest] /\ factorPc \in [Op -> Factors!Label]
  BY DEF Factors!TypeOK, FactorRequest
<1>3. factorReq' \in [Op -> FactorRequest]
  BY <1>1, <1>2, ManageRequest
<1>4. factorPc' \in [Op -> Factors!Label] /\ UNCHANGED Factors!rows
  BY <1>2 DEF Factors!Manage, Factors!Goto, Factors!Label
<1> QED
  BY <1>3, <1>4 DEF Factors!TypeOK, FactorRequest, Factors!rows

LEMMA LookTyped ==
  ASSUME Factors!TypeOK, NEW o \in Op, Factors!Look(o)
  PROVE  Factors!TypeOK'
<1> DEFINE sure == \/ factorReq[o].sid = Factors!NoSession
                   \/ Factors!Live(factorReq[o].sid) /\ factorReq[o].sid \in proved
<1>1. factorReq \in [Op -> FactorRequest] /\ factorPc \in [Op -> Factors!Label]
  BY DEF Factors!TypeOK, FactorRequest
<1>4. factorReq' \in [Op -> FactorRequest]
  <2>1. CASE factorReq' = [factorReq EXCEPT ![o].sure = sure]
    <3>1. sure \in BOOLEAN
      OBVIOUS
    <3> HIDE DEF sure
    <3> QED
      BY <1>1, <2>1, <3>1 DEF FactorRequest
  <2>2. CASE Factors!Finish(o)
    BY <1>1, <2>2, NoFactorRequest DEF Factors!Finish
  <2> QED
    BY <2>1, <2>2 DEF Factors!Look
<1>5. factorPc' \in [Op -> Factors!Label] /\ UNCHANGED Factors!rows
  BY <1>1 DEF Factors!Look, Factors!Goto, Factors!Finish, Factors!Label
<1> QED
  BY <1>4, <1>5 DEF Factors!TypeOK, FactorRequest, Factors!rows

(* What a commit stores: a factor that needs no code is never pending.     *)
LEMMA CommitTyped ==
  ASSUME Factors!TypeOK, NEW o \in Op, Factors!Commit(o)
  PROVE  Factors!TypeOK'
<1>1. factorReq \in [Op -> FactorRequest] /\ factorPc \in [Op -> Factors!Label]
  BY DEF Factors!TypeOK, FactorRequest
<1>2. factorReq' \in [Op -> FactorRequest] /\ factorPc' \in [Op -> Factors!Label]
  BY <1>1, NoFactorRequest DEF Factors!Commit, Factors!Finish, Factors!Goto, Factors!Label
<1>3. /\ Factors!Stored(o) \in {"none", "pending", "confirmed"}
      /\ factorReq[o].dev \in OneStep => Factors!Stored(o) # "pending"
  BY FactorsApart DEF Factors!Stored, Factors!FactorAssumption
<1>4. device' = [device EXCEPT ![factorReq[o].dev] = Factors!Stored(o)]
  BY DEF Factors!Commit
<1>5. /\ device' \in [Factors!Device -> {"none", "pending", "confirmed"}]
      /\ \A d \in OneStep : device'[d] # "pending"
  <2> OneStep \subseteq Factors!Device
    BY DEF Factors!Device
  <2> QED
    BY <1>3, <1>4 DEF Factors!TypeOK
<1>6. kept' \subseteq Session
  BY <1>1 DEF Factors!TypeOK, Factors!Commit, FactorRequest
<1> QED
  BY <1>2, <1>5, <1>6 DEF Factors!TypeOK, FactorRequest, Factors!Commit

(* The first confirmed factor is followed by the revocation of whatever    *)
(* session it was not enrolled from.                                       *)
LEMMA CommitChases ==
  ASSUME FactorInv, NEW o \in Op, Factors!Commit(o)
  PROVE  Chased'
<1> SUFFICES ASSUME Factors!HasConfirmed', NEW s \in Session, Exposed(s)'
             PROVE  Factors!Excused(s)' \/ Factors!Doomed(s)'
  BY DEF Chased
<1>1. factorReq \in [Op -> FactorRequest] /\ factorPc \in [Op -> Factors!Label]
  BY DEF FactorInv, Factors!TypeOK, FactorRequest
<1>2. /\ factorPc[o] = "commit" /\ UNCHANGED <<session, proved, served, missed>>
      /\ factorPc'[o] # "answer" /\ kept \subseteq kept'
      /\ \A p \in Op \ {o} : factorPc'[p] = factorPc[p] /\ factorReq'[p] = factorReq[p]
  BY <1>1 DEF Factors!Commit, Factors!Goto, Factors!Finish
<1>3. Exposed(s)
  BY <1>2 DEF Exposed, Factors!Live
<1>4. CASE Factors!HasConfirmed
  <2>1. Factors!Excused(s) \/ Factors!Doomed(s)
    BY <1>3, <1>4 DEF FactorInv, Chased
  <2>2. Factors!Excused(s) => Factors!Excused(s)'
    BY <1>2 DEF Factors!Excused
  <2>3. Factors!Doomed(s) => Factors!Doomed(s)'
    BY <1>2 DEF Factors!Doomed
  <2> QED
    BY <2>1, <2>2, <2>3
<1>5. CASE ~Factors!HasConfirmed
  <2>1. PICK d \in Factors!Device : device'[d] = "confirmed" /\ device[d] # "confirmed"
    BY <1>5 DEF Factors!HasConfirmed
  <2>2. d = factorReq[o].dev /\ Factors!Stored(o) = "confirmed"
    BY <2>1 DEF FactorInv, Factors!TypeOK, Factors!Commit
  <2>3. factorReq[o].kind \in {"enroll", "confirm", "delete"} /\ d \in TwoStep \union OneStep
    BY <1>2 DEF FactorInv, Sure, Factors!Device
  <2>4. factorReq[o].kind # "enroll" => device[d] = "pending"
    BY <2>1, <2>2 DEF FactorInv, Factors!TypeOK, Factors!Commit, Factors!MayCommit
  <2>5. Factors!First(o)
    BY <1>5, <2>2, <2>3, <2>4 DEF Factors!First, Factors!Confirms, Factors!Stored
  <2>6. factorPc'[o] = "list" /\ factorReq' = factorReq
    BY <1>1, <2>5 DEF Factors!Commit, Factors!Goto
  <2>7. CASE s = factorReq[o].sid
    <3>1. s # Factors!NoSession
      BY FactorsApart DEF Factors!FactorAssumption
    <3> QED
      BY <2>5, <2>7, <3>1 DEF Factors!Commit, Factors!Excused
  <2>8. CASE s # factorReq[o].sid
    BY <2>6, <2>8 DEF Factors!Doomed
  <2> QED
    BY <2>7, <2>8
<1> QED
  BY <1>4, <1>5

(* Every step keeps the types; an action to a step of the proof, as below  *)
(* for what a request knows and for the sessions that are chased.          *)
LEMMA FactorTyped ==
  ASSUME FactorInv, [Factors!Next]_(Factors!vars)
  PROVE  Factors!TypeOK'
<1> USE NoFactorRequest DEF FactorInv, FactorRequest, Factors!TypeOK, Factors!Label,
      Factors!Kind, Factors!Goto, Factors!Finish, Factors!rows, Factors!Live
<1>1. ASSUME NEW o \in Op, Factors!Login(o)
      PROVE  Factors!TypeOK'
  BY <1>1, LoginTyped
<1>2. ASSUME NEW o \in Op, Factors!LoginElsewhere(o)
      PROVE  Factors!TypeOK'
  BY <1>2, LoginTyped
<1>3. ASSUME NEW o \in Op, NEW s \in Session, Factors!Create(o, s)
      PROVE  Factors!TypeOK'
  BY <1>3 DEF Factors!Create
<1>4. ASSUME NEW o \in Op, Factors!Recheck(o)
      PROVE  Factors!TypeOK'
  BY <1>4 DEF Factors!Recheck
<1>5. ASSUME NEW o \in Op, Factors!Challenge(o)
      PROVE  Factors!TypeOK'
  BY <1>5 DEF Factors!Challenge
<1>6. ASSUME NEW o \in Op, Factors!RevokeOwn(o)
      PROVE  Factors!TypeOK'
  BY <1>6 DEF Factors!RevokeOwn
<1>7. ASSUME NEW o \in Op, Factors!Answer(o)
      PROVE  Factors!TypeOK'
  BY <1>7 DEF Factors!Answer
<1>8. ASSUME NEW o \in Op, NEW d \in Factors!Device,
             NEW s \in Session \union {Factors!NoSession}, NEW k \in {"enroll", "confirm", "delete"},
             Factors!Manage(o, k, d, s)
      PROVE  Factors!TypeOK'
  BY <1>8, ManageTyped
<1>9. ASSUME NEW o \in Op, Factors!AssertProved(o)
      PROVE  Factors!TypeOK'
  BY <1>9 DEF Factors!AssertProved
<1>10. ASSUME NEW o \in Op, Factors!Look(o)
      PROVE  Factors!TypeOK'
  BY <1>10, LookTyped
<1>11. ASSUME NEW o \in Op, Factors!Commit(o)
      PROVE  Factors!TypeOK'
  BY <1>11, CommitTyped
<1>12. ASSUME NEW o \in Op, Factors!Refuse(o)
      PROVE  Factors!TypeOK'
  BY <1>12 DEF Factors!Refuse
<1>13. ASSUME NEW o \in Op, Factors!List(o)
      PROVE  Factors!TypeOK'
  BY <1>13 DEF Factors!List, Factors!Listed
<1>14. ASSUME NEW o \in Op, NEW s \in Session, Factors!RevokeOne(o, s)
      PROVE  Factors!TypeOK'
  BY <1>14 DEF Factors!RevokeOne
<1>15. ASSUME NEW o \in Op, Factors!Revoked(o)
      PROVE  Factors!TypeOK'
  BY <1>15 DEF Factors!Revoked
<1>16. ASSUME NEW o \in Op, Factors!Fail(o)
      PROVE  Factors!TypeOK'
  BY <1>16 DEF Factors!Fail, Factors!Listed
<1>17. ASSUME NEW s \in Session, Factors!Prove(s)
      PROVE  Factors!TypeOK'
  BY <1>17 DEF Factors!Prove
<1>18. ASSUME NEW s \in Session, Factors!SignOut(s)
      PROVE  Factors!TypeOK'
  BY <1>18 DEF Factors!SignOut
<1>19. CASE UNCHANGED Factors!vars
  BY <1>19 DEF Factors!vars
<1> QED
  BY <1>1, <1>2, <1>3, <1>4, <1>5, <1>6, <1>7, <1>8, <1>9, <1>10, <1>11, <1>12, <1>13,
     <1>14, <1>15, <1>16, <1>17, <1>18, <1>19 DEF Factors!Next, Factors!Step

(* What a login or a change knows of its session stays true: a session     *)
(* is drawn once, and its proof is never taken back.                       *)
LEMMA FactorKnown ==
  ASSUME FactorInv, [Factors!Next]_(Factors!vars)
  PROVE  Inserted' /\ Sure'
<1> USE NoFactorRequest, FactorsApart DEF FactorInv, FactorRequest, Factors!TypeOK,
      Inserted, Sure, Factors!FactorAssumption, Factors!Label, Factors!Goto,
      Factors!Finish, Factors!rows, Factors!Live
<1>1. ASSUME NEW o \in Op, Factors!Login(o)
      PROVE  Inserted' /\ Sure'
  BY <1>1 DEF Factors!Login
<1>2. ASSUME NEW o \in Op, Factors!LoginElsewhere(o)
      PROVE  Inserted' /\ Sure'
  BY <1>2 DEF Factors!LoginElsewhere
<1>3. ASSUME NEW o \in Op, NEW s \in Session, Factors!Create(o, s)
      PROVE  Inserted' /\ Sure'
  BY <1>3 DEF Factors!Create
<1>4. ASSUME NEW o \in Op, Factors!Recheck(o)
      PROVE  Inserted' /\ Sure'
  BY <1>4 DEF Factors!Recheck
<1>5. ASSUME NEW o \in Op, Factors!Challenge(o)
      PROVE  Inserted' /\ Sure'
  BY <1>5 DEF Factors!Challenge
<1>6. ASSUME NEW o \in Op, Factors!RevokeOwn(o)
      PROVE  Inserted' /\ Sure'
  BY <1>6 DEF Factors!RevokeOwn
<1>7. ASSUME NEW o \in Op, Factors!Answer(o)
      PROVE  Inserted' /\ Sure'
  BY <1>7 DEF Factors!Answer
<1>8. ASSUME NEW o \in Op, NEW d \in Factors!Device,
             NEW s \in Session \union {Factors!NoSession}, NEW k \in {"enroll", "confirm", "delete"},
             Factors!Manage(o, k, d, s)
      PROVE  Inserted' /\ Sure'
  BY <1>8 DEF Factors!Manage
<1>9. ASSUME NEW o \in Op, Factors!AssertProved(o)
      PROVE  Inserted' /\ Sure'
  BY <1>9 DEF Factors!AssertProved
<1>10. ASSUME NEW o \in Op, Factors!Look(o)
      PROVE  Inserted' /\ Sure'
  BY <1>10 DEF Factors!Look
<1>11. ASSUME NEW o \in Op, Factors!Commit(o)
      PROVE  Inserted' /\ Sure'
  BY <1>11 DEF Factors!Commit, Factors!MayCommit, Factors!First, Factors!Confirms, Factors!Stored
<1>12. ASSUME NEW o \in Op, Factors!Refuse(o)
      PROVE  Inserted' /\ Sure'
  BY <1>12 DEF Factors!Refuse
<1>13. ASSUME NEW o \in Op, Factors!List(o)
      PROVE  Inserted' /\ Sure'
  BY <1>13 DEF Factors!List, Factors!Listed
<1>14. ASSUME NEW o \in Op, NEW s \in Session, Factors!RevokeOne(o, s)
      PROVE  Inserted' /\ Sure'
  BY <1>14 DEF Factors!RevokeOne
<1>15. ASSUME NEW o \in Op, Factors!Revoked(o)
      PROVE  Inserted' /\ Sure'
  BY <1>15 DEF Factors!Revoked
<1>16. ASSUME NEW o \in Op, Factors!Fail(o)
      PROVE  Inserted' /\ Sure'
  BY <1>16 DEF Factors!Fail, Factors!Listed
<1>17. ASSUME NEW s \in Session, Factors!Prove(s)
      PROVE  Inserted' /\ Sure'
  BY <1>17 DEF Factors!Prove
<1>18. ASSUME NEW s \in Session, Factors!SignOut(s)
      PROVE  Inserted' /\ Sure'
  BY <1>18 DEF Factors!SignOut
<1>19. CASE UNCHANGED Factors!vars
  BY <1>19 DEF Factors!vars
<1> QED
  BY <1>1, <1>2, <1>3, <1>4, <1>5, <1>6, <1>7, <1>8, <1>9, <1>10, <1>11, <1>12, <1>13,
     <1>14, <1>15, <1>16, <1>17, <1>18, <1>19 DEF Factors!Next, Factors!Step

(* No session without a proof escapes the confirmation of a factor.        *)
LEMMA FactorChased ==
  ASSUME FactorInv, [Factors!Next]_(Factors!vars)
  PROVE  Chased'
<1> USE NoFactorRequest, FactorsApart DEF FactorInv, FactorRequest, Factors!TypeOK,
      Inserted, Sure, Chased, Exposed, Factors!Excused, Factors!Doomed,
      Factors!HasConfirmed, Factors!FactorAssumption, Factors!Label, Factors!Goto,
      Factors!Finish, Factors!rows, Factors!Live
<1>1. ASSUME NEW o \in Op, Factors!Login(o)
      PROVE  Chased'
  BY <1>1 DEF Factors!Login
<1>2. ASSUME NEW o \in Op, Factors!LoginElsewhere(o)
      PROVE  Chased'
  BY <1>2 DEF Factors!LoginElsewhere
<1>3. ASSUME NEW o \in Op, NEW s \in Session, Factors!Create(o, s)
      PROVE  Chased'
  BY <1>3 DEF Factors!Create
<1>4. ASSUME NEW o \in Op, Factors!Recheck(o)
      PROVE  Chased'
  BY <1>4 DEF Factors!Recheck
<1>5. ASSUME NEW o \in Op, Factors!Challenge(o)
      PROVE  Chased'
  BY <1>5 DEF Factors!Challenge
<1>6. ASSUME NEW o \in Op, Factors!RevokeOwn(o)
      PROVE  Chased'
  BY <1>6 DEF Factors!RevokeOwn
<1>7. ASSUME NEW o \in Op, Factors!Answer(o)
      PROVE  Chased'
  BY <1>7 DEF Factors!Answer
<1>8. ASSUME NEW o \in Op, NEW d \in Factors!Device,
             NEW s \in Session \union {Factors!NoSession}, NEW k \in {"enroll", "confirm", "delete"},
             Factors!Manage(o, k, d, s)
      PROVE  Chased'
  BY <1>8 DEF Factors!Manage
<1>9. ASSUME NEW o \in Op, Factors!AssertProved(o)
      PROVE  Chased'
  BY <1>9 DEF Factors!AssertProved
<1>10. ASSUME NEW o \in Op, Factors!Look(o)
      PROVE  Chased'
  BY <1>10 DEF Factors!Look
<1>11. ASSUME NEW o \in Op, Factors!Commit(o)
      PROVE  Chased'
  BY <1>11, CommitChases
<1>12. ASSUME NEW o \in Op, Factors!Refuse(o)
      PROVE  Chased'
  BY <1>12 DEF Factors!Refuse
<1>13. ASSUME NEW o \in Op, Factors!List(o)
      PROVE  Chased'
  BY <1>13 DEF Factors!List, Factors!Listed
<1>14. ASSUME NEW o \in Op, NEW s \in Session, Factors!RevokeOne(o, s)
      PROVE  Chased'
  BY <1>14 DEF Factors!RevokeOne
<1>15. ASSUME NEW o \in Op, Factors!Revoked(o)
      PROVE  Chased'
  BY <1>15 DEF Factors!Revoked
<1>16. ASSUME NEW o \in Op, Factors!Fail(o)
      PROVE  Chased'
  BY <1>16 DEF Factors!Fail, Factors!Listed
<1>17. ASSUME NEW s \in Session, Factors!Prove(s)
      PROVE  Chased'
  BY <1>17 DEF Factors!Prove
<1>18. ASSUME NEW s \in Session, Factors!SignOut(s)
      PROVE  Chased'
  BY <1>18 DEF Factors!SignOut
<1>19. CASE UNCHANGED Factors!vars
  BY <1>19 DEF Factors!vars
<1> QED
  BY <1>1, <1>2, <1>3, <1>4, <1>5, <1>6, <1>7, <1>8, <1>9, <1>10, <1>11, <1>12, <1>13,
     <1>14, <1>15, <1>16, <1>17, <1>18, <1>19 DEF Factors!Next, Factors!Step

(* The inductive invariant of SecondFactor.                                *)
LEMMA FactorInductive == Factors!Spec => []FactorInv
<1>1. Factors!Init => FactorInv
  <2> SUFFICES ASSUME Factors!Init PROVE FactorInv
    OBVIOUS
  <2>1. factorReq \in [Op -> FactorRequest]
    BY NoFactorRequest DEF Factors!Init
  <2>2. Factors!TypeOK
    BY <2>1 DEF Factors!Init, FactorRequest, Factors!TypeOK, Factors!Label, Factors!Device
  <2>3. Inserted /\ Sure
    BY DEF Factors!Init, Inserted, Sure
  <2>4. Chased
    BY DEF Factors!Init, Chased, Factors!HasConfirmed
  <2> QED
    BY <2>2, <2>3, <2>4 DEF FactorInv
<1>2. FactorInv /\ [Factors!Next]_(Factors!vars) => FactorInv'
  BY FactorTyped, FactorKnown, FactorChased DEF FactorInv
<1> QED
  BY <1>1, <1>2, PTL DEF Factors!Spec

(* Only a commit changes the factors, and a session it knows proved one    *)
(* has.                                                                    *)
LEMMA CommitProved ==
  ASSUME FactorInv, [Factors!Next]_(Factors!vars), NEW o \in Op,
         factorPc[o] = "commit", factorPc'[o] # "commit", device' # device,
         factorReq[o].sid # Factors!NoSession, Factors!HasConfirmed
  PROVE  factorReq[o].sid \in proved
<1>1. \E p \in Op : Factors!Commit(p)
  BY DEF Factors!Next, Factors!vars, Factors!rows, Factors!Step, Factors!Login,
     Factors!LoginElsewhere, Factors!Create, Factors!Recheck, Factors!Challenge,
     Factors!RevokeOwn, Factors!Answer, Factors!Manage, Factors!AssertProved, Factors!Look,
     Factors!Refuse, Factors!List, Factors!RevokeOne, Factors!Revoked, Factors!Fail,
     Factors!Prove, Factors!SignOut
<1>2. PICK p \in Op : Factors!Commit(p)
  BY <1>1
<1>3. p = o
  BY <1>2 DEF FactorInv, Factors!TypeOK, Factors!Commit, Factors!Goto, Factors!Finish
<1>4. factorReq[o].sure
  BY <1>2, <1>3 DEF Factors!Commit, Factors!MayCommit
<1> QED
  BY <1>4 DEF FactorInv, Sure

LEMMA FactorsKept == Factors!Spec => Factors!OwnChangeProved
<1>1. FactorInv /\ [Factors!Next]_(Factors!vars) =>
        [\A o \in Op :
           /\ factorPc[o] = "commit" /\ factorPc'[o] # "commit"
           /\ device' # device
           /\ factorReq[o].sid # Factors!NoSession
           /\ Factors!HasConfirmed
           => factorReq[o].sid \in proved]_(Factors!vars)
  BY CommitProved
<1> QED
  BY <1>1, FactorInductive, PTL DEF Factors!Spec, Factors!OwnChangeProved

-----------------------------------------------------------------------------
(* The composition: each part moves as it does alone, or stands still.     *)
LEMMA StrictParts == StrictSpec => Spec /\ Factors!Spec
<1>1. StrictInit => Init /\ Factors!Init
  BY DEF StrictInit
<1>2. [StrictNext]_<<part, rotationVars, factorVars>>
        => [Next]_vars /\ [Factors!Next]_(Factors!vars)
  BY DEF StrictNext, rotationVars, factorVars, Factors!vars, Factors!rows
<1> QED
  BY <1>1, <1>2, PTL DEF StrictSpec, Spec, Factors!Spec

(* Both parts are well typed.                                              *)
THEOREM StrictTyped == StrictSpec => []PartsTypeOK
<1>1. TypeOK /\ FactorInv => PartsTypeOK
  BY DEF FactorInv, PartsTypeOK
<1> QED
  BY <1>1, StrictParts, TypeCorrect, FactorInductive, PTL

(* Whichever logins race the confirmation of a factor, a session that      *)
(* never proved one is the session the factor was enrolled from, about to  *)
(* be revoked, or one whose revocation failed (revokePreFactorSessions,    *)
(* BaseGrant.revokeIfSecondFactorOwed).                                    *)
THEOREM NoUnprovedOutlivesHolds == StrictSpec => []NoUnprovedOutlives
<1>1. FactorInv => NoUnprovedOutlives
  BY DEF FactorInv, Chased, Exposed, NoUnprovedOutlives, Factors!NoUnprovedOutlives,
     Factors!Unproved
<1> QED
  BY <1>1, StrictParts, FactorInductive, PTL

(* While a factor is confirmed its owner changes the factors from a        *)
(* session that proved one only (assertSessionProvedFactor, withFactorLock). *)
THEOREM OwnChangeProvedHolds == StrictSpec => OwnChangeProved
BY StrictParts, FactorsKept, PTL DEF OwnChangeProved

=============================================================================
