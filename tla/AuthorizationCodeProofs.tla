---------------------- MODULE AuthorizationCodeProofs ----------------------
(***************************************************************************)
(* An authorization code is a voucher for any number of codes, sessions    *)
(* and requests: it is taken by one redemption and answered once.  And a   *)
(* redemption is answered neither on a session that was revoked before it  *)
(* began nor on a new one that owes a second factor.                       *)
(***************************************************************************)
EXTENDS AuthorizationCode, TLAPS

(* A redemption that popped its code.                                      *)
Past(o) == pc[o] \notin {"idle", "save", "pop"}

(* A code is saved by the one request that drew it, before anybody         *)
(* presents it.                                                            *)
Drawn ==
    \A o \in Op :
        /\ pc[o] = "save" => /\ entry[req[o].code] = "none"
                             /\ \A p \in Op \ {o} : pc[p] = "save" => req[p].code # req[o].code
        /\ pc[o] \notin {"idle", "save"} => entry[req[o].code] # "none"

(* Whoever popped a code is alone with it, and nobody was answered yet.    *)
Taken ==
    \A o \in Op : Past(o) =>
        /\ entry[req[o].code] = "gone"
        /\ paid[req[o].code] = 0
        /\ \A p \in Op \ {o} : Past(p) => req[p].code # req[o].code

Spent ==
    \A c \in Code : paid[c] <= 1 /\ (entry[c] # "gone" => paid[c] = 0)

(* A redemption that began too late gets no further than the lookup of its *)
(* session, which stays gone.                                              *)
Late ==
    \A o \in Op : req[o].late =>
        /\ pc[o] \in {"pop", "policy", "subject", "find"}
        /\ names[req[o].code] \in Session
        /\ session[names[req[o].code]] = "gone"

(* A session that owes the factor since its insert still owes it when the  *)
(* redemption looks again.                                                 *)
Warned ==
    \A o \in Op : req[o].warned => pc[o] = "revoke" \/ (pc[o] = "recheck" /\ owed)

CInv == TypeOK /\ Drawn /\ Taken /\ Spent /\ Late /\ Warned

-----------------------------------------------------------------------------
LEMMA Initially == ASSUME CodeAssumption, Init PROVE CInv
<1>1. \E c \in Code : TRUE
  BY DEF CodeAssumption
<1>2. NoRequest.code \in Code /\ NoRequest.sid = NoSession
      /\ NoRequest.late = FALSE /\ NoRequest.warned = FALSE /\ NoRequest.fits = FALSE
  BY <1>1 DEF NoRequest
<1>3. NoRequest \in [code : Code, fits : BOOLEAN, sid : Session \union {NoSession},
                     late : BOOLEAN, warned : BOOLEAN]
  BY <1>1 DEF NoRequest
<1>4. TypeOK
  BY <1>3 DEF Init, TypeOK
<1> QED
  BY <1>2, <1>4 DEF Init, CInv, Drawn, Taken, Spent, Late, Warned, Past

(* A request that ends holds nothing: what the others know stays true.     *)
LEMMA EmptyRequest ==
  ASSUME CodeAssumption
  PROVE  /\ NoRequest \in [code : Code, fits : BOOLEAN, sid : Session \union {NoSession},
                           late : BOOLEAN, warned : BOOLEAN]
         /\ ~NoRequest.late /\ ~NoRequest.warned
<1>1. \E c \in Code : TRUE
  BY DEF CodeAssumption
<1> QED
  BY <1>1 DEF NoRequest

LEMMA Ending ==
  ASSUME CodeAssumption, CInv, NEW o \in Op, Finish(o),
         UNCHANGED <<names, env>>,
         entry' = entry \/ (pc[o] = "pop" /\ entry' = [entry EXCEPT ![req[o].code] = "gone"]),
         UNCHANGED paid
  PROVE  CInv'
<1>1. /\ NoRequest \in [code : Code, fits : BOOLEAN, sid : Session \union {NoSession},
                        late : BOOLEAN, warned : BOOLEAN]
      /\ ~NoRequest.late /\ ~NoRequest.warned
  BY EmptyRequest
<1>2. TypeOK'
  BY <1>1 DEF CInv, TypeOK, Finish, Goto, env
<1>3. /\ pc'[o] = "idle" /\ req'[o] = NoRequest
      /\ \A p \in Op \ {o} : pc'[p] = pc[p] /\ req'[p] = req[p]
  BY DEF CInv, TypeOK, Finish, Goto
<1>4. \A c \in Code : entry'[c] = entry[c] \/ (entry[c] # "none" /\ entry'[c] = "gone")
  BY DEF CInv, TypeOK, Drawn
<1>5. Drawn'
  BY <1>3, <1>4 DEF CInv, TypeOK, Drawn
<1>6. Taken'
  BY <1>3, <1>4 DEF CInv, TypeOK, Taken, Past
<1>7. Spent'
  BY <1>4 DEF CInv, TypeOK, Spent
<1>8. Late'
  BY <1>1, <1>3 DEF CInv, TypeOK, Late, env
<1>9. Warned'
  BY <1>1, <1>3 DEF CInv, TypeOK, Warned, env
<1> QED
  BY <1>2, <1>5, <1>6, <1>7, <1>8, <1>9 DEF CInv

(* A step of a redemption that has popped its code and goes on with it.    *)
LEMMA GoingOn ==
  ASSUME CodeAssumption, CInv, NEW o \in Op, NEW label, Past(o), Goto(o, label),
         label \in {"subject", "create", "find", "refresh", "recheck", "access", "token", "revoke"},
         req[o].late => label \in {"subject", "find"},
         req[o].warned => pc[o] = "recheck" /\ label = "revoke",
         UNCHANGED <<entry, names, env, req, paid>>
  PROVE  CInv'
<1>1. /\ pc'[o] = label
      /\ \A p \in Op \ {o} : pc'[p] = pc[p]
  BY DEF CInv, TypeOK, Goto
<1>2. TypeOK'
  BY DEF CInv, TypeOK, Goto, env
<1>3. Drawn'
  BY <1>1 DEF CInv, TypeOK, Drawn, Past
<1>4. Taken' /\ Spent'
  BY <1>1 DEF CInv, TypeOK, Taken, Past, Spent
<1>5. Late' /\ Warned'
  BY <1>1 DEF CInv, TypeOK, Late, Warned, env
<1> QED
  BY <1>2, <1>3, <1>4, <1>5 DEF CInv

(* What happens around the requests: no session comes back from its end.   *)
LEMMA Around ==
  ASSUME CodeAssumption, CInv,
         \/ \E s \in Session : Login(s) \/ End(s)
         \/ \E c \in Code : Lapse(c)
         \/ Deactivate
         \/ Factor
  PROVE  CInv'
<1>1. CASE \E s \in Session : Login(s) \/ End(s)
  <2>1. PICK s \in Session : Login(s) \/ End(s)
    BY <1>1
  <2>2. \A z \in Session : session[z] = "gone" => session'[z] = "gone"
    BY <2>1 DEF CInv, TypeOK, Login, End
  <2>3. TypeOK'
    BY <2>1 DEF CInv, TypeOK, Login, End
  <2>4. Drawn' /\ Taken' /\ Spent' /\ Late' /\ Warned'
    BY <2>1, <2>2 DEF CInv, Drawn, Taken, Past, Spent, Late, Warned, Login, End
  <2> QED
    BY <2>3, <2>4 DEF CInv
<1>2. CASE \E c \in Code : Lapse(c)
  <2>1. PICK c \in Code : Lapse(c)
    BY <1>2
  <2>2. TypeOK'
    BY <2>1 DEF CInv, TypeOK, Lapse, env
  <2>3. Drawn' /\ Taken' /\ Spent'
    BY <2>1 DEF CInv, TypeOK, Drawn, Taken, Past, Spent, Lapse
  <2>4. Late' /\ Warned'
    BY <2>1 DEF CInv, TypeOK, Late, Warned, Lapse, env
  <2> QED
    BY <2>2, <2>3, <2>4 DEF CInv
<1>3. CASE Deactivate
  BY <1>3 DEF CInv, TypeOK, Drawn, Taken, Past, Spent, Late, Warned, Deactivate
<1>4. CASE Factor
  <2>1. \A o \in Op : /\ req'[o].code = req[o].code /\ req'[o].late = req[o].late
                      /\ req'[o].warned => req[o].warned /\ ~owed
    BY <1>4 DEF CInv, TypeOK, Factor
  <2>2. TypeOK'
    BY <1>4 DEF CInv, TypeOK, Factor
  <2>3. Drawn' /\ Taken' /\ Spent' /\ Late'
    BY <1>4, <2>1 DEF CInv, Drawn, Taken, Past, Spent, Late, Factor
  <2>4. Warned'
    BY <1>4, <2>1 DEF CInv, Warned, Factor
  <2> QED
    BY <2>2, <2>3, <2>4 DEF CInv
<1> QED
  BY <1>1, <1>2, <1>3, <1>4

(* Requests that begin: a code is drawn, a code is presented.              *)
LEMMA Beginning ==
  ASSUME CodeAssumption, CInv, NEW o \in Op, NEW c \in Code,
         \/ \E s \in Session \union {NoSession} : Admit(o, c, s)
         \/ \E fits \in BOOLEAN : Present(o, c, fits)
  PROVE  CInv'
<1>1. /\ NoRequest \in [code : Code, fits : BOOLEAN, sid : Session \union {NoSession},
                        late : BOOLEAN, warned : BOOLEAN]
      /\ ~NoRequest.late /\ ~NoRequest.warned
  BY EmptyRequest
<1>2. CASE \E s \in Session \union {NoSession} : Admit(o, c, s)
  <2>1. PICK s \in Session \union {NoSession} : Admit(o, c, s)
    BY <1>2
  <2>2. /\ pc'[o] = "save" /\ req'[o].code = c /\ ~req'[o].late /\ ~req'[o].warned
        /\ \A p \in Op \ {o} : pc'[p] = pc[p] /\ req'[p] = req[p]
    BY <1>1, <2>1 DEF CInv, TypeOK, Admit, Goto
  <2>3. TypeOK'
    BY <1>1, <2>1 DEF CInv, TypeOK, Admit, Goto, env
  <2>4. Drawn'
    <3>1. /\ entry' = entry /\ entry[c] = "none"
          /\ \A p \in Op : pc[p] = "save" => req[p].code # c
      BY <2>1 DEF Admit
    <3> QED
      BY <2>2, <3>1 DEF CInv, Drawn
  <2>5. Taken' /\ Spent'
    <3>1. entry' = entry /\ paid' = paid
      BY <2>1 DEF Admit
    <3> QED
      BY <2>2, <3>1 DEF CInv, Taken, Past, Spent
  <2>6. Late' /\ Warned'
    <3>1. names' = names /\ session' = session /\ owed' = owed
      BY <2>1 DEF Admit, env
    <3> QED
      BY <2>2, <3>1 DEF CInv, Late, Warned
  <2> QED
    BY <2>3, <2>4, <2>5, <2>6 DEF CInv
<1>3. CASE \E fits \in BOOLEAN : Present(o, c, fits)
  <2>1. PICK fits \in BOOLEAN : Present(o, c, fits)
    BY <1>3
  <2>2. /\ pc'[o] = "pop" /\ req'[o].code = c /\ ~req'[o].warned
        /\ req'[o].late => names[c] # NoSession /\ session[names[c]] = "gone"
        /\ \A p \in Op \ {o} : pc'[p] = pc[p] /\ req'[p] = req[p]
    BY <1>1, <2>1 DEF CInv, TypeOK, Present, Goto
  <2>3. TypeOK'
    BY <1>1, <2>1 DEF CInv, TypeOK, Present, Goto, env
  <2>4. Drawn'
    <3>1. entry' = entry /\ entry[c] # "none"
      BY <2>1 DEF Present
    <3> QED
      BY <2>2, <3>1 DEF CInv, Drawn
  <2>5. Taken' /\ Spent'
    <3>1. entry' = entry /\ paid' = paid
      BY <2>1 DEF Present
    <3> QED
      BY <2>2, <3>1 DEF CInv, Taken, Past, Spent
  <2>6. Late' /\ Warned'
    <3>1. names' = names /\ session' = session /\ owed' = owed
          /\ names[c] \in Session \union {NoSession}
      BY <2>1 DEF Present, env, CInv, TypeOK
    <3> QED
      BY <2>2, <3>1 DEF CInv, Late, Warned
  <2> QED
    BY <2>3, <2>4, <2>5, <2>6 DEF CInv
<1> QED
  BY <1>2, <1>3

(* A code enters the cache under a session it will keep.                   *)
LEMMA Saving ==
  ASSUME CodeAssumption, CInv, NEW o \in Op, Save(o)
  PROVE  CInv'
<1>1. /\ NoRequest \in [code : Code, fits : BOOLEAN, sid : Session \union {NoSession},
                        late : BOOLEAN, warned : BOOLEAN]
      /\ ~NoRequest.late /\ ~NoRequest.warned
  BY EmptyRequest
<1>2. /\ pc'[o] = "idle" /\ req'[o] = NoRequest
      /\ \A p \in Op \ {o} : pc'[p] = pc[p] /\ req'[p] = req[p]
  BY DEF CInv, TypeOK, Save, Finish, Goto
<1>3. \A c \in Code : c # req[o].code => entry'[c] = entry[c] /\ names'[c] = names[c]
  BY DEF CInv, TypeOK, Save
<1>4. /\ entry[req[o].code] = "none" /\ entry'[req[o].code] = "open"
      /\ \A p \in Op \ {o} : pc[p] # "idle" => req[p].code # req[o].code
  BY DEF CInv, TypeOK, Drawn, Save
<1>5. TypeOK'
  BY <1>1 DEF CInv, TypeOK, Save, Finish, Goto, env
<1>6. Drawn'
  BY <1>2, <1>3, <1>4 DEF CInv, TypeOK, Drawn
<1>7. Taken' /\ Spent'
  BY <1>2, <1>3, <1>4 DEF CInv, TypeOK, Taken, Past, Spent, Save
<1>8. Late' /\ Warned'
  BY <1>1, <1>2, <1>3, <1>4 DEF CInv, TypeOK, Late, Warned, Save, env
<1> QED
  BY <1>5, <1>6, <1>7, <1>8 DEF CInv

(* A pop that fits takes the code: nobody took it before.                  *)
LEMMA Popping ==
  ASSUME CodeAssumption, CInv, NEW o \in Op, Pop(o)
  PROVE  CInv'
<1>1. /\ pc[o] = "pop" /\ ~req[o].warned /\ UNCHANGED <<names, env, paid>>
      /\ entry' = [entry EXCEPT ![req[o].code] = "gone"]
  BY DEF CInv, Warned, Pop
<1>2. CASE entry[req[o].code] = "open" /\ req[o].fits
  <2>1. Goto(o, "policy") /\ UNCHANGED req
    BY <1>2 DEF Pop
  <2>2. pc'[o] = "policy" /\ \A p \in Op \ {o} : pc'[p] = pc[p]
    BY <2>1 DEF CInv, TypeOK, Goto
  <2>3. entry'[req[o].code] = "gone" /\ \A c \in Code \ {req[o].code} : entry'[c] = entry[c]
    BY <1>1 DEF CInv, TypeOK
  <2>4. \A p \in Op \ {o} : Past(p) => req[p].code # req[o].code
    BY <1>2 DEF CInv, Taken
  <2>5. TypeOK'
    BY <1>1, <2>1 DEF CInv, TypeOK, Goto, env
  <2>6. Drawn'
    BY <1>1, <2>1, <2>2, <2>3 DEF CInv, TypeOK, Drawn
  <2>7. Taken'
    BY <1>1, <1>2, <2>1, <2>2, <2>3, <2>4 DEF CInv, TypeOK, Taken, Past, Spent
  <2>8. Spent'
    BY <1>1, <2>3 DEF CInv, TypeOK, Spent
  <2>9. Late' /\ Warned'
    BY <1>1, <2>1, <2>2 DEF CInv, Late, Warned, env
  <2> QED
    BY <2>5, <2>6, <2>7, <2>8, <2>9 DEF CInv
<1>3. CASE ~(entry[req[o].code] = "open" /\ req[o].fits)
  BY <1>1, <1>3, Ending DEF Pop
<1> QED
  BY <1>2, <1>3

(* The session a redemption inserts is of its own; it remembers whether it *)
(* owed a factor by then.                                                  *)
LEMMA Creating ==
  ASSUME CodeAssumption, CInv, NEW o \in Op, NEW s \in Session, Create(o, s)
  PROVE  CInv'
<1>1. /\ pc[o] = "create" /\ session[s] = "free"
      /\ session' = [session EXCEPT ![s] = "live"]
      /\ entry' = entry /\ names' = names /\ owed' = owed /\ active' = active /\ paid' = paid
  BY DEF Create
<1>2. /\ pc'[o] = "recheck"
      /\ req'[o].code = req[o].code /\ req'[o].late = req[o].late
      /\ req'[o].warned = owed
      /\ \A p \in Op \ {o} : pc'[p] = pc[p] /\ req'[p] = req[p]
  BY DEF CInv, TypeOK, Create, Goto
<1>3. TypeOK'
  BY DEF CInv, TypeOK, Create, Goto
<1>4. Drawn'
  BY <1>1, <1>2 DEF CInv, Drawn
<1>5. Taken' /\ Spent'
  BY <1>1, <1>2 DEF CInv, Taken, Past, Spent
<1>6. Late'
  BY <1>1, <1>2 DEF CInv, TypeOK, Late
<1>7. Warned'
  BY <1>1, <1>2 DEF CInv, Warned
<1> QED
  BY <1>3, <1>4, <1>5, <1>6, <1>7 DEF CInv

LEMMA Finding ==
  ASSUME CodeAssumption, CInv, NEW o \in Op, Find(o)
  PROVE  CInv'
<1> DEFINE z == names[req[o].code]
<1>1. pc[o] = "find" /\ UNCHANGED <<entry, names, env, paid>>
  BY DEF Find
<1>2. CASE Readable(z)
  <2>1. Goto(o, "refresh") /\ req' = [req EXCEPT ![o].sid = z]
    BY <1>2 DEF Find
  <2>2. ~req[o].late /\ ~req[o].warned
    BY <1>1, <1>2 DEF CInv, Late, Warned, Readable
  <2>3. /\ pc'[o] = "refresh"
        /\ \A p \in Op : /\ req'[p].code = req[p].code /\ req'[p].late = req[p].late
                         /\ req'[p].warned = req[p].warned
        /\ \A p \in Op \ {o} : pc'[p] = pc[p]
    BY <2>1 DEF CInv, TypeOK, Goto
  <2>4. TypeOK'
    BY <1>1, <2>1 DEF CInv, TypeOK, Goto, env
  <2>5. Drawn'
    BY <1>1, <2>3 DEF CInv, Drawn
  <2>6. Taken' /\ Spent'
    BY <1>1, <2>3 DEF CInv, Taken, Past, Spent
  <2>7. Late' /\ Warned'
    BY <1>1, <2>2, <2>3 DEF CInv, Late, Warned, env
  <2> QED
    BY <2>4, <2>5, <2>6, <2>7 DEF CInv
<1>3. CASE ~Readable(z)
  BY <1>1, <1>3, Ending DEF Find
<1> QED
  BY <1>2, <1>3

LEMMA Revoking ==
  ASSUME CodeAssumption, CInv, NEW o \in Op, Revoke(o)
  PROVE  CInv'
<1>1. /\ NoRequest \in [code : Code, fits : BOOLEAN, sid : Session \union {NoSession},
                        late : BOOLEAN, warned : BOOLEAN]
      /\ ~NoRequest.late /\ ~NoRequest.warned
  BY EmptyRequest
<1>2. /\ pc'[o] = "idle" /\ req'[o] = NoRequest
      /\ \A p \in Op \ {o} : pc'[p] = pc[p] /\ req'[p] = req[p]
  BY DEF CInv, TypeOK, Revoke, Finish, Goto
<1>3. /\ \A s \in Session : session'[s] = session[s] \/ session'[s] = "gone"
      /\ session' \in [Session -> {"free", "live", "cached", "gone"}]
  BY DEF CInv, TypeOK, Revoke
<1>4. entry' = entry /\ names' = names /\ owed' = owed /\ active' = active /\ paid' = paid
  BY DEF Revoke
<1>5. TypeOK'
  BY <1>1, <1>3 DEF CInv, TypeOK, Revoke, Finish, Goto
<1>6. Drawn'
  BY <1>2, <1>4 DEF CInv, Drawn
<1>7. Taken' /\ Spent'
  BY <1>2, <1>4 DEF CInv, Taken, Past, Spent
<1>8. Late' /\ Warned'
  BY <1>1, <1>2, <1>3, <1>4 DEF CInv, Late, Warned
<1> QED
  BY <1>5, <1>6, <1>7, <1>8 DEF CInv

(* The one answer a code gets.                                             *)
LEMMA Answering ==
  ASSUME CodeAssumption, CInv, NEW o \in Op, Answer(o)
  PROVE  CInv'
<1>1. /\ NoRequest \in [code : Code, fits : BOOLEAN, sid : Session \union {NoSession},
                        late : BOOLEAN, warned : BOOLEAN]
      /\ ~NoRequest.late /\ ~NoRequest.warned
  BY EmptyRequest
<1>2. /\ pc'[o] = "idle" /\ req'[o] = NoRequest
      /\ \A p \in Op \ {o} : pc'[p] = pc[p] /\ req'[p] = req[p]
  BY DEF CInv, TypeOK, Answer, Finish, Goto
<1>3. Past(o) /\ req[o].code \in Code
  BY DEF CInv, TypeOK, Answer, Past
<1>4. /\ entry[req[o].code] = "gone" /\ paid[req[o].code] = 0
      /\ \A p \in Op \ {o} : Past(p) => req[p].code # req[o].code
  BY <1>3 DEF CInv, Taken
<1>5. /\ paid'[req[o].code] = 1 /\ paid' \in [Code -> Nat]
      /\ \A c \in Code \ {req[o].code} : paid'[c] = paid[c]
  BY <1>3, <1>4 DEF CInv, TypeOK, Answer
<1>6. entry' = entry /\ names' = names /\ owed' = owed /\ active' = active /\ session' = session
  BY DEF Answer, env
<1>7. TypeOK'
  BY <1>1, <1>5, <1>6 DEF CInv, TypeOK, Answer, Finish, Goto
<1>8. Drawn'
  BY <1>2, <1>6 DEF CInv, Drawn
<1>9. Taken'
  BY <1>2, <1>4, <1>5, <1>6 DEF CInv, TypeOK, Taken, Past
<1>10. Spent'
  BY <1>4, <1>5, <1>6 DEF CInv, Spent
<1>11. Late' /\ Warned'
  BY <1>1, <1>2, <1>6 DEF CInv, Late, Warned
<1> QED
  BY <1>7, <1>8, <1>9, <1>10, <1>11 DEF CInv

-----------------------------------------------------------------------------
LEMMA RedeemStep ==
  ASSUME CodeAssumption, CInv, NEW o \in Op, Redeem(o)
  PROVE  CInv'
<1>1. CASE Pop(o)
  BY <1>1, Popping
<1>2. CASE Policy(o)
  BY <1>2, Ending, GoingOn DEF Policy, Past, CInv, Warned
<1>3. CASE Subject(o)
  <2>1. req[o].late => names[req[o].code] # NoSession
    BY DEF CInv, Late, CodeAssumption
  <2> QED
    BY <1>3, <2>1, Ending, GoingOn DEF Subject, Past, CInv, Warned
<1>4. CASE Find(o)
  BY <1>4, Finding
<1>5. CASE Refresh(o)
  BY <1>5, Ending, GoingOn DEF Refresh, Past, CInv, Warned, Late
<1>6. CASE Recheck(o)
  BY <1>6, GoingOn DEF Recheck, Past, CInv, Warned, Late
<1>7. CASE Revoke(o)
  BY <1>7, Revoking
<1>8. CASE \E s \in Session : Create(o, s)
  BY <1>8, Creating
<1>9. CASE Access(o)
  BY <1>9, GoingOn DEF Access, Past, CInv, Warned, Late
<1>10. CASE Answer(o)
  BY <1>10, Answering
<1>11. CASE Orphaned(o)
  BY <1>11, Ending DEF Orphaned
<1> QED
  BY <1>1, <1>2, <1>3, <1>4, <1>5, <1>6, <1>7, <1>8, <1>9, <1>10, <1>11 DEF Redeem

LEMMA CodeStep ==
  ASSUME CodeAssumption, CInv, [Next]_vars
  PROVE  CInv'
<1>1. CASE UNCHANGED vars
  BY <1>1 DEF CInv, TypeOK, Drawn, Taken, Past, Spent, Late, Warned, vars, env
<1>2. ASSUME NEW o \in Op, NEW c \in Code,
             \/ \E s \in Session \union {NoSession} : Admit(o, c, s)
             \/ \E fits \in BOOLEAN : Present(o, c, fits)
      PROVE  CInv'
  BY <1>2, Beginning
<1>3. ASSUME NEW o \in Op, Save(o) PROVE CInv'
  BY <1>3, Saving
<1>4. ASSUME NEW o \in Op, Redeem(o) PROVE CInv'
  BY <1>4, RedeemStep
<1>5. ASSUME NEW o \in Op, Fail(o) PROVE CInv'
  BY <1>5, Ending DEF Fail
<1>6. ASSUME \/ \E s \in Session : Login(s) \/ End(s)
             \/ \E c \in Code : Lapse(c)
             \/ Deactivate
             \/ Factor
      PROVE  CInv'
  BY <1>6, Around
<1> QED
  BY <1>1, <1>2, <1>3, <1>4, <1>5, <1>6 DEF Next

LEMMA CodeInductive == ASSUME CodeAssumption PROVE Spec => []CInv
<1>1. Init => CInv
  BY Initially
<1>2. CInv /\ [Next]_vars => CInv'
  BY CodeStep
<1> QED
  BY <1>1, <1>2, PTL DEF Spec

(* The state of the code grant has its type.                               *)
THEOREM CodeTypeCorrect == ASSUME CodeAssumption PROVE Spec => []TypeOK
<1>1. CInv => TypeOK
  BY DEF CInv
<1> QED
  BY <1>1, CodeInductive, PTL

(* For any number of redemptions and sessions: one that began once the     *)
(* session of its code was revoked comes to no tokens.                     *)
THEOREM RevokedCodeRefusedHolds ==
  ASSUME CodeAssumption PROVE Spec => []RevokedCodeRefused
<1>1. CInv => RevokedCodeRefused
  BY DEF CInv, Late, RevokedCodeRefused
<1> QED
  BY <1>1, CodeInductive, PTL

(* A session a redemption inserted while its subject owed a second factor  *)
(* gets no tokens.                                                         *)
THEOREM FactorOwedRefusedHolds ==
  ASSUME CodeAssumption PROVE Spec => []FactorOwedRefused
<1>1. CInv => FactorOwedRefused
  BY DEF CInv, Warned, FactorOwedRefused
<1> QED
  BY <1>1, CodeInductive, PTL

(* A code is answered with tokens at most once, however many redemptions   *)
(* present it.                                                             *)
THEOREM AnsweredOnce ==
  ASSUME CodeAssumption PROVE Spec => [](\A c \in Code : paid[c] <= 1)
<1>1. CInv => \A c \in Code : paid[c] <= 1
  BY DEF CInv, Spent
<1> QED
  BY <1>1, CodeInductive, PTL

-----------------------------------------------------------------------------
(* The refinement: every step moves one code as a voucher moves, or none.  *)

LEMMA Stutters ==
  ASSUME CInv,
         entry' = entry, paid' = paid,
         \A o \in Op : Past(o)' <=> Past(o),
         \A o \in Op : Past(o) => req'[o].code = req[o].code
  PROVE  UNCHANGED Codes!vars
<1>1. ASSUME NEW c \in Code PROVE Redeeming(c)' <=> Redeeming(c)
  BY DEF Redeeming, Past
<1>2. ASSUME NEW c \in Code PROVE State(c)' = State(c)
  BY <1>1 DEF State
<1> QED
  BY <1>2 DEF Codes!vars

LEMMA Moves ==
  ASSUME NEW c \in Code, \A d \in Code \ {c} : State(d)' = State(d),
         \/ State(c) = "new" /\ State(c)' = "open"
         \/ State(c) = "open" /\ State(c)' = "taken"
         \/ State(c) = "open" /\ State(c)' = "void"
         \/ State(c) = "taken" /\ State(c)' = "paid"
         \/ State(c) = "taken" /\ State(c)' = "void"
  PROVE  Codes!Next
<1> DEFINE st == [d \in Code |-> State(d)]
<1>1. st' = [st EXCEPT ![c] = State(c)']
  OBVIOUS
<1>2. st[c] = State(c)
  OBVIOUS
<1> HIDE DEF st
<1>3. \/ Codes!Move(c, "new", "open") \/ Codes!Move(c, "open", "taken")
      \/ Codes!Move(c, "open", "void") \/ Codes!Move(c, "taken", "paid")
      \/ Codes!Move(c, "taken", "void")
  BY <1>1, <1>2 DEF Codes!Move, st
<1> QED
  BY <1>3 DEF Codes!Next, Codes!Issue, Codes!Take, Codes!Waste, Codes!Pay, Codes!Forfeit

(* A redemption that ends without an answer forfeits its code.             *)
LEMMA Leaves ==
  ASSUME CInv, NEW o \in Op, Finish(o), entry' = entry, paid' = paid
  PROVE  [Codes!Next]_(Codes!vars)
<1>c. PICK c \in Code : c = req[o].code
  BY DEF CInv, TypeOK
<1>1. pc'[o] = "idle" /\ \A p \in Op \ {o} : pc'[p] = pc[p] /\ req'[p] = req[p]
  BY DEF CInv, TypeOK, Finish, Goto
<1>2. CASE ~Past(o)
  BY <1>1, <1>2, Stutters DEF Past
<1>3. CASE Past(o)
  <2>1. entry[c] = "gone" /\ paid[c] = 0
        /\ \A p \in Op \ {o} : Past(p) => req[p].code # c
    BY <1>c, <1>3 DEF CInv, TypeOK, Taken
  <2>2. Redeeming(c) /\ ~Redeeming(c)'
    BY <1>c, <1>1, <1>3, <2>1 DEF Redeeming, Past
  <2>3. State(c) = "taken" /\ State(c)' = "void"
    BY <2>1, <2>2 DEF State
  <2>4. ASSUME NEW d \in Code \ {c} PROVE State(d)' = State(d)
    <3>1. Redeeming(d)' <=> Redeeming(d)
      BY <1>c, <1>1 DEF Redeeming
    <3> QED
      BY <3>1 DEF State
  <2> QED
    BY <2>1, <2>3, <2>4, Moves
<1> QED
  BY <1>2, <1>3

LEMMA PopRefines ==
  ASSUME CInv, NEW o \in Op, Pop(o)
  PROVE  [Codes!Next]_(Codes!vars)
<1>c. PICK c \in Code : c = req[o].code
  BY DEF CInv, TypeOK
<1>1. /\ pc[o] = "pop" /\ paid' = paid
      /\ entry[c] # "none" /\ entry'[c] = "gone"
      /\ \A d \in Code \ {c} : entry'[d] = entry[d]
      /\ \A p \in Op \ {o} : pc'[p] = pc[p] /\ req'[p] = req[p]
  BY <1>c DEF CInv, TypeOK, Drawn, Pop, Finish, Goto
<1>2. \A d \in Code \ {c} : Redeeming(d)' <=> Redeeming(d)
  <2>1. req'[o].code = c \/ pc'[o] = "idle"
    BY <1>c DEF CInv, TypeOK, Pop, Finish, Goto
  <2> QED
    BY <1>c, <1>1, <2>1 DEF Redeeming
<1>3. \A d \in Code \ {c} : State(d)' = State(d)
  BY <1>1, <1>2 DEF State
<1>4. CASE entry[c] = "open"
  <2>1. paid[c] = 0 /\ ~Redeeming(c)
    BY <1>c, <1>1, <1>4 DEF CInv, Spent, Taken, Redeeming, Past
  <2>2. State(c) = "open" /\ State(c)' \in {"taken", "void"}
    BY <1>1, <1>4, <2>1 DEF State
  <2> QED
    BY <1>1, <1>3, <2>2, Moves
<1>5. CASE entry[c] # "open"
  <2>1. entry[c] = "gone"
    BY <1>1, <1>5 DEF CInv, TypeOK
  <2>2. pc'[o] = "idle"
    BY <1>c, <1>5 DEF CInv, TypeOK, Pop, Finish, Goto
  <2>3. Redeeming(c)' <=> Redeeming(c)
    BY <1>c, <1>1, <2>2 DEF Redeeming
  <2>4. State(c)' = State(c)
    BY <1>1, <2>1, <2>3 DEF State
  <2> QED
    BY <1>3, <2>4 DEF Codes!vars
<1> QED
  BY <1>4, <1>5

LEMMA AnswerRefines ==
  ASSUME CInv, NEW o \in Op, Answer(o)
  PROVE  [Codes!Next]_(Codes!vars)
<1>c. PICK c \in Code : c = req[o].code
  BY DEF CInv, TypeOK
<1>1. /\ Past(o) /\ entry' = entry
      /\ pc'[o] = "idle" /\ \A p \in Op \ {o} : pc'[p] = pc[p] /\ req'[p] = req[p]
  BY DEF CInv, TypeOK, Answer, Past, Finish, Goto
<1>2. entry[c] = "gone" /\ paid[c] = 0 /\ Redeeming(c)
  BY <1>c, <1>1 DEF CInv, Taken, Redeeming, Past
<1>3. paid'[c] = 1 /\ \A d \in Code \ {c} : paid'[d] = paid[d]
  BY <1>c, <1>1, <1>2 DEF CInv, TypeOK, Answer
<1>4. State(c) = "taken" /\ State(c)' = "paid"
  BY <1>1, <1>2, <1>3 DEF State
<1>5. ASSUME NEW d \in Code \ {c} PROVE State(d)' = State(d)
  <2>1. Redeeming(d)' <=> Redeeming(d)
    BY <1>c, <1>1 DEF Redeeming
  <2> QED
    BY <1>1, <1>3, <2>1 DEF State
<1> QED
  BY <1>1, <1>4, <1>5, Moves

LEMMA SaveRefines ==
  ASSUME CInv, NEW o \in Op, Save(o)
  PROVE  [Codes!Next]_(Codes!vars)
<1>c. PICK c \in Code : c = req[o].code
  BY DEF CInv, TypeOK
<1>1. /\ entry[c] = "none" /\ entry'[c] = "open" /\ paid' = paid
      /\ \A d \in Code \ {c} : entry'[d] = entry[d]
      /\ pc[o] = "save" /\ pc'[o] = "idle"
      /\ \A p \in Op \ {o} : pc'[p] = pc[p] /\ req'[p] = req[p]
  BY <1>c DEF CInv, TypeOK, Drawn, Save, Finish, Goto
<1>p. paid[c] = 0
  BY <1>1 DEF CInv, Spent
<1>2. State(c) = "new" /\ State(c)' = "open"
  BY <1>1, <1>p DEF State
<1>3. ASSUME NEW d \in Code \ {c} PROVE State(d)' = State(d)
  <2>1. Redeeming(d)' <=> Redeeming(d)
    BY <1>c, <1>1 DEF Redeeming
  <2> QED
    BY <1>1, <2>1 DEF State
<1> QED
  BY <1>1, <1>2, <1>3, Moves

LEMMA LapseRefines ==
  ASSUME CInv, NEW c \in Code, Lapse(c)
  PROVE  [Codes!Next]_(Codes!vars)
<1>1. /\ entry[c] = "open" /\ entry'[c] = "gone"
      /\ \A d \in Code \ {c} : entry'[d] = entry[d]
      /\ pc' = pc /\ req' = req /\ paid' = paid
  BY DEF CInv, TypeOK, Lapse
<1>2. paid[c] = 0 /\ ~Redeeming(c)
  BY <1>1 DEF CInv, Spent, Taken, Redeeming, Past
<1>3. \A d \in Code : Redeeming(d)' <=> Redeeming(d)
  BY <1>1 DEF Redeeming
<1>4. State(c) = "open" /\ State(c)' = "void"
  BY <1>1, <1>2, <1>3 DEF State
<1>5. \A d \in Code \ {c} : State(d)' = State(d)
  BY <1>1, <1>3 DEF State
<1> QED
  BY <1>4, <1>5, Moves

(* A redemption that goes on keeps its code, taken.                        *)
LEMMA RedeemRefines ==
  ASSUME CInv, NEW o \in Op, Redeem(o)
  PROVE  [Codes!Next]_(Codes!vars)
<1> DEFINE GoesOn == /\ entry' = entry /\ paid' = paid
                     /\ Past(o) /\ pc'[o] \notin {"idle", "save", "pop"}
                     /\ \A p \in Op \ {o} : pc'[p] = pc[p]
                     /\ \A p \in Op : req'[p].code = req[p].code
<1>1. ASSUME GoesOn PROVE [Codes!Next]_(Codes!vars)
  BY <1>1, Stutters DEF Past
<1>2. CASE Pop(o)
  BY <1>2, PopRefines
<1>3. CASE Policy(o)
  <2>1. GoesOn \/ (Finish(o) /\ entry' = entry /\ paid' = paid)
    BY <1>3 DEF Policy, CInv, TypeOK, Past, Goto
  <2> QED
    BY <1>1, <2>1, Leaves
<1>4. CASE Subject(o)
  <2>1. GoesOn \/ (Finish(o) /\ entry' = entry /\ paid' = paid)
    BY <1>4 DEF Subject, CInv, TypeOK, Past, Goto
  <2> QED
    BY <1>1, <2>1, Leaves
<1>5. CASE Find(o)
  <2>1. CASE Readable(names[req[o].code])
    <3>1. Goto(o, "refresh") /\ req' = [req EXCEPT ![o].sid = names[req[o].code]]
      BY <1>5, <2>1 DEF Find
    <3>2. \A p \in Op : req'[p].code = req[p].code
      BY <3>1 DEF CInv, TypeOK
    <3>3. GoesOn
      BY <1>5, <3>1, <3>2 DEF Find, CInv, TypeOK, Past, Goto
    <3> QED
      BY <1>1, <3>3
  <2>2. CASE ~Readable(names[req[o].code])
    BY <1>5, <2>2, Leaves DEF Find
  <2> QED
    BY <2>1, <2>2
<1>6. CASE Refresh(o)
  <2>1. GoesOn \/ (Finish(o) /\ entry' = entry /\ paid' = paid)
    BY <1>6 DEF Refresh, CInv, TypeOK, Past, Goto
  <2> QED
    BY <1>1, <2>1, Leaves
<1>7. CASE Recheck(o)
  <2>1. GoesOn
    BY <1>7 DEF Recheck, CInv, TypeOK, Past, Goto
  <2> QED
    BY <1>1, <2>1
<1>8. CASE Revoke(o)
  BY <1>8, Leaves DEF Revoke
<1>9. CASE \E s \in Session : Create(o, s)
  <2>1. GoesOn
    BY <1>9 DEF Create, CInv, TypeOK, Past, Goto
  <2> QED
    BY <1>1, <2>1
<1>10. CASE Access(o)
  <2>1. GoesOn
    BY <1>10 DEF Access, CInv, TypeOK, Past, Goto
  <2> QED
    BY <1>1, <2>1
<1>11. CASE Answer(o)
  BY <1>11, AnswerRefines
<1>12. CASE Orphaned(o)
  BY <1>12, Leaves DEF Orphaned
<1> QED
  BY <1>2, <1>3, <1>4, <1>5, <1>6, <1>7, <1>8, <1>9, <1>10, <1>11, <1>12 DEF Redeem

LEMMA VoucherStep ==
  ASSUME CInv, [Next]_vars
  PROVE  [Codes!Next]_(Codes!vars)
<1>1. ASSUME NEW o \in Op, NEW c \in Code,
             \/ \E s \in Session \union {NoSession} : Admit(o, c, s)
             \/ \E fits \in BOOLEAN : Present(o, c, fits)
      PROVE  [Codes!Next]_(Codes!vars)
  <2>1. /\ entry' = entry /\ paid' = paid
        /\ pc[o] = "idle" /\ pc'[o] \in {"save", "pop"}
        /\ \A p \in Op \ {o} : pc'[p] = pc[p] /\ req'[p] = req[p]
    BY <1>1 DEF CInv, TypeOK, Admit, Present, Goto
  <2> QED
    BY <2>1, Stutters DEF Past
<1>2. ASSUME NEW o \in Op, Save(o) \/ Redeem(o) PROVE [Codes!Next]_(Codes!vars)
  BY <1>2, SaveRefines, RedeemRefines
<1>3. ASSUME NEW o \in Op, Fail(o) PROVE [Codes!Next]_(Codes!vars)
  BY <1>3, Leaves DEF Fail
<1>4. ASSUME NEW s \in Session, Login(s) \/ End(s) PROVE [Codes!Next]_(Codes!vars)
  BY <1>4, Stutters DEF Login, End, Past
<1>5. ASSUME NEW c \in Code, Lapse(c) PROVE [Codes!Next]_(Codes!vars)
  BY <1>5, LapseRefines
<1>6. CASE Deactivate
  BY <1>6, Stutters DEF Deactivate, Past
<1>7. CASE Factor
  <2>1. \A o \in Op : req'[o].code = req[o].code
    BY <1>7 DEF CInv, TypeOK, Factor
  <2> QED
    BY <1>7, <2>1, Stutters DEF Factor, Past
<1>8. CASE UNCHANGED vars
  BY <1>8, Stutters DEF vars, Past
<1> QED
  BY <1>1, <1>2, <1>3, <1>4, <1>5, <1>6, <1>7, <1>8 DEF Next

(* An authorization code is a voucher, whatever its session, its subject   *)
(* and the second factor do meanwhile.                                     *)
THEOREM CodeIsVoucher == ASSUME CodeAssumption PROVE Spec => ImplementsVoucher
<1>1. Init => Codes!Init
  <2>1. Init => \A c \in Code : State(c) = "new"
    BY DEF Init, State
  <2> QED
    BY <2>1 DEF Codes!Init
<1>2. CInv /\ [Next]_vars => [Codes!Next]_(Codes!vars)
  BY VoucherStep
<1> QED
  BY <1>1, <1>2, CodeInductive, PTL DEF Spec, ImplementsVoucher, Codes!Spec

=============================================================================
