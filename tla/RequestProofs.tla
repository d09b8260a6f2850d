--------------------------- MODULE RequestProofs ---------------------------
(***************************************************************************)
(* Proofs about what a request meets, for any number of tokens and         *)
(* requests, any lifetimes and any realms: about KeyVerification first,    *)
(* then about the composition of MCRequest, whose list properties are      *)
(* those PermissionReachProofs proves, instance by instance.               *)
(***************************************************************************)
EXTENDS MCRequest, TLAPS

Issuing == {"sign", "cache"}
Beyond == {"claims", "key", "save", "inactive", "answer", "revoke"}
Verifying == Beyond \union {"keyMark"}
Updating == {"find", "store", "mark", "lift"}

(* A request is of the kind its calls are made for.                        *)
Fits(l, r) ==
    /\ l = "idle" => r.kind = "none"
    /\ l \in Issuing => r.kind = "issue" /\ r.tok \in Token
    /\ l \in Verifying => r.kind \in {"bearer", "revoke"} /\ r.tok \in Token
    /\ l \in Updating => r.kind \in Administering
    /\ l \in {"store", "mark", "lift"} => r.from \in Status
    /\ r.late \/ r.dead => r.kind \in {"bearer", "revoke"}
Coded == \A o \in Op : Fits(pc[o], req[o])

(* A token is signed once, before anybody presents it.                     *)
Sole ==
    /\ \A o \in Op : pc[o] \in Verifying => exp[req[o].tok] # 0
    /\ \A t \in revoked : exp[t] # 0
    /\ \A o \in Op : pc[o] = "sign" => exp[req[o].tok] = 0 /\ req[o].exp # 0
    /\ \A o, p \in Op : pc[o] = "sign" /\ o # p => req[p].tok # req[o].tok

(* No token outlives what is being signed now by more than the lifetime.   *)
Bounded ==
    /\ \A t \in Token : exp[t] <= now + Lifetime
    /\ \A o \in Op : req[o].exp <= now + Lifetime

Covered == \A t \in Token : exp[t] <= mark
InStep == IF status \in Stopped THEN Covered ELSE mark <= now

(* The row and the mark, from one call of an update to the next.           *)
Marked ==
    /\ \A o, p \in Op : /\ req[o].kind \in Administering
                        /\ req[p].kind \in Administering
                        => o = p
    /\ Settled => InStep
    /\ \A o \in Op : pc[o] \in {"find", "store"} => InStep
    /\ \A o \in Op : pc[o] = "store" => req[o].from = status /\ status # "gone"
    /\ \A o \in Op : pc[o] = "mark" => status \in Stopped
    /\ \A o \in Op : pc[o] = "lift" =>
         status \notin Stopped /\ (req[o].from = "disabled" \/ mark <= now)

(* A request that came too late is stopped by the mark, or its token has   *)
(* expired by the time it gets past that.                                  *)
Late == \A o \in Op : req[o].late =>
    /\ status \in Stopped
    /\ Covered
    /\ pc[o] \in Beyond => exp[req[o].tok] <= now

(* The same for a token that was revoked.                                  *)
Dead ==
    /\ \A t \in revoked : exp[t] <= inactive[t]
    /\ \A o \in Op : req[o].dead =>
         req[o].tok \in revoked /\ (pc[o] = "answer" => exp[req[o].tok] <= now)

IInv ==
    /\ TypeOK /\ Coded /\ Sole /\ Bounded /\ Dead
    /\ orderly => Marked /\ Late

LEMMA NoRequestType == NoRequest \in Request
  BY DEF NoRequest, Request

(* Every step goes to a call that exists.                                  *)
LEMMA PcStep ==
  ASSUME pc \in [Op -> Label], [Next]_vars
  PROVE  pc' \in [Op -> Label]
<1>1. ASSUME NEW o \in Op, NEW t \in Token, Issue(o, t) PROVE pc' \in [Op -> Label]
  BY <1>1 DEF Label, Issue, Goto, NoRequest
<1>2. ASSUME NEW o \in Op, Sign(o) PROVE pc' \in [Op -> Label]
  BY <1>2 DEF Label, Sign, Goto, Finish, NoRequest
<1>3. ASSUME NEW o \in Op, CacheIssued(o) PROVE pc' \in [Op -> Label]
  BY <1>3 DEF Label, CacheIssued, Goto, Finish, NoRequest
<1>4. ASSUME NEW o \in Op, NEW t \in Token, NEW k \in {"bearer", "revoke"},
            Present(o, t, k)
      PROVE pc' \in [Op -> Label]
  BY <1>4 DEF Label, Present, Goto, NoRequest
<1>5. ASSUME NEW o \in Op, CheckKeyMark(o) PROVE pc' \in [Op -> Label]
  BY <1>5 DEF Label, CheckKeyMark, Goto, Finish, NoRequest
<1>6. ASSUME NEW o \in Op, FindClaims(o) PROVE pc' \in [Op -> Label]
  BY <1>6 DEF Label, FindClaims, Goto
<1>7. ASSUME NEW o \in Op, ResolveKey(o) PROVE pc' \in [Op -> Label]
  BY <1>7 DEF Label, ResolveKey, Goto, Finish, NoRequest
<1>8. ASSUME NEW o \in Op, SaveClaims(o) PROVE pc' \in [Op -> Label]
  BY <1>8 DEF Label, SaveClaims, Goto
<1>9. ASSUME NEW o \in Op, CheckInactive(o) PROVE pc' \in [Op -> Label]
  BY <1>9 DEF Label, CheckInactive, Goto, Finish, NoRequest
<1>10. ASSUME NEW o \in Op, Answer(o) PROVE pc' \in [Op -> Label]
  BY <1>10 DEF Label, Answer, Goto, Finish, NoRequest
<1>11. ASSUME NEW o \in Op, RevokeToken(o) PROVE pc' \in [Op -> Label]
  BY <1>11 DEF Label, RevokeToken, Goto, Finish, NoRequest
<1>12. ASSUME NEW o \in Op, RevokeNothing(o) PROVE pc' \in [Op -> Label]
  BY <1>12 DEF Label, RevokeNothing, Goto, Finish, NoRequest
<1>13. ASSUME NEW o \in Op, NEW s \in Status \union {Unset},
            Update(o, s)
      PROVE pc' \in [Op -> Label]
  BY <1>13 DEF Label, Update, Goto, Administer, NoRequest
<1>14. ASSUME NEW o \in Op, Delete(o) PROVE pc' \in [Op -> Label]
  BY <1>14 DEF Label, Delete, Goto, Administer, NoRequest
<1>15. ASSUME NEW o \in Op, FindKey(o) PROVE pc' \in [Op -> Label]
  BY <1>15 DEF Label, FindKey, Goto, Finish, NoRequest
<1>16. ASSUME NEW o \in Op, StoreKey(o) PROVE pc' \in [Op -> Label]
  BY <1>16 DEF Label, StoreKey, Goto, Merged, NoRequest
<1>17. ASSUME NEW o \in Op, SetKeyInactive(o) PROVE pc' \in [Op -> Label]
  BY <1>17 DEF Label, SetKeyInactive, Goto, Finish, NoRequest
<1>18. ASSUME NEW o \in Op, DropKeyInactive(o) PROVE pc' \in [Op -> Label]
  BY <1>18 DEF Label, DropKeyInactive, Goto, Finish, NoRequest
<1>19. ASSUME NEW o \in Op, Fail(o) PROVE pc' \in [Op -> Label]
  BY <1>19 DEF Label, Fail, Goto
<1>20. CASE Tick
  BY <1>20 DEF Label, Tick
<1>21. CASE UNCHANGED vars
  BY <1>21 DEF Label, vars
<1> QED
  BY <1>1, <1>2, <1>3, <1>4, <1>5, <1>6, <1>7, <1>8, <1>9, <1>10, <1>11,
       <1>12, <1>13, <1>14, <1>15, <1>16, <1>17, <1>18, <1>19, <1>20, <1>21
     DEF Next, Step

(* Every step leaves the requests well formed.                             *)
LEMMA ReqStep ==
  ASSUME TypeOK, Coded, [Next]_vars
  PROVE  req' \in [Op -> Request]
<1>1. ASSUME NEW o \in Op, NEW t \in Token, Issue(o, t) PROVE req' \in [Op -> Request]
  <2> DEFINE r == [NoRequest EXCEPT !.kind = "issue", !.tok = t, !.exp = now + Lifetime]
  <2>1. now + Lifetime \in Nat
    BY KeyAssumption DEF TypeOK
  <2>2. r \in Request
    BY <2>1, NoRequestType DEF Request
  <2>3. req' = [req EXCEPT ![o] = r]
    BY <1>1 DEF Issue
  <2> QED
    BY <2>2, <2>3 DEF TypeOK
<1>2. ASSUME NEW o \in Op, Sign(o) PROVE req' \in [Op -> Request]
  BY <1>2, NoRequestType DEF TypeOK, Sign, Finish
<1>3. ASSUME NEW o \in Op, CacheIssued(o) PROVE req' \in [Op -> Request]
  BY <1>3, NoRequestType DEF TypeOK, CacheIssued, Finish
<1>4. ASSUME NEW o \in Op, NEW t \in Token, NEW k \in {"bearer", "revoke"},
            Present(o, t, k)
      PROVE req' \in [Op -> Request]
  <2> DEFINE late == Settled /\ status \in Stopped
             dead == t \in revoked
             spent == ~Lives(t)
             r(a, b, c) == [NoRequest EXCEPT !.kind = k, !.tok = t,
                                             !.late = a, !.dead = b, !.spent = c]
  <2>1. ASSUME NEW a \in BOOLEAN, NEW b \in BOOLEAN, NEW c \in BOOLEAN
        PROVE  r(a, b, c) \in Request
    BY NoRequestType DEF Request
  <2>2. late \in BOOLEAN /\ dead \in BOOLEAN /\ spent \in BOOLEAN
    OBVIOUS
  <2>3. r(late, dead, spent) \in Request
    BY <2>1, <2>2
  <2>4. req' = [req EXCEPT ![o] = r(late, dead, spent)]
    BY <1>4 DEF Present
  <2> QED
    BY <2>3, <2>4 DEF TypeOK
<1>5. ASSUME NEW o \in Op, CheckKeyMark(o) PROVE req' \in [Op -> Request]
  BY <1>5, NoRequestType DEF TypeOK, CheckKeyMark, Finish
<1>6. ASSUME NEW o \in Op, FindClaims(o) PROVE req' \in [Op -> Request]
  BY <1>6 DEF TypeOK, FindClaims, Goto, row, tokens
<1>7. ASSUME NEW o \in Op, ResolveKey(o) PROVE req' \in [Op -> Request]
  BY <1>7, NoRequestType DEF TypeOK, ResolveKey, Finish
<1>8. ASSUME NEW o \in Op, SaveClaims(o) PROVE req' \in [Op -> Request]
  BY <1>8 DEF TypeOK, SaveClaims, Goto, row, tokens
<1>9. ASSUME NEW o \in Op, CheckInactive(o) PROVE req' \in [Op -> Request]
  BY <1>9, NoRequestType DEF TypeOK, CheckInactive, Finish
<1>10. ASSUME NEW o \in Op, Answer(o) PROVE req' \in [Op -> Request]
  BY <1>10, NoRequestType DEF TypeOK, Answer, Finish
<1>11. ASSUME NEW o \in Op, RevokeToken(o) PROVE req' \in [Op -> Request]
  BY <1>11, NoRequestType DEF TypeOK, RevokeToken, Finish
<1>12. ASSUME NEW o \in Op, RevokeNothing(o) PROVE req' \in [Op -> Request]
  BY <1>12, NoRequestType DEF TypeOK, RevokeNothing, Finish
<1>13. ASSUME NEW o \in Op, NEW s \in Status \union {Unset},
            Update(o, s)
      PROVE req' \in [Op -> Request]
  <2>1. [NoRequest EXCEPT !.kind = "update", !.to = s] \in Request
    BY NoRequestType DEF Request, Status, Stopped
  <2> QED
    BY <1>13, <2>1 DEF TypeOK, Update, Administer
<1>14. ASSUME NEW o \in Op, Delete(o) PROVE req' \in [Op -> Request]
  <2>1. [NoRequest EXCEPT !.kind = "delete", !.to = "gone"] \in Request
    BY NoRequestType DEF Request, Status, Stopped
  <2> QED
    BY <1>14, <2>1 DEF TypeOK, Delete, Administer
<1>15. ASSUME NEW o \in Op, FindKey(o) PROVE req' \in [Op -> Request]
  <2>1. [req[o] EXCEPT !.from = status] \in Request
    BY DEF TypeOK, Request
  <2>2. req'[o] \in {NoRequest, [req[o] EXCEPT !.from = status]}
    BY <1>15 DEF TypeOK, FindKey, Finish
  <2>3. req' = [req EXCEPT ![o] = req'[o]]
    BY <1>15 DEF TypeOK, FindKey, Finish
  <2> QED
    BY <2>1, <2>2, <2>3, NoRequestType DEF TypeOK
<1>16. ASSUME NEW o \in Op, StoreKey(o) PROVE req' \in [Op -> Request]
  <2>1. ASSUME NEW p \in Op, NEW b \in BOOLEAN
        PROVE  [req[p] EXCEPT !.late = b] \in Request
    BY DEF TypeOK, Request
  <2>2. ASSUME NEW p \in Op PROVE req'[p] \in Request
    <3>1. req[p].late \in BOOLEAN
      BY DEF TypeOK, Request
    <3>2. (req[p].late /\ Merged(o) \in Stopped) \in BOOLEAN
      OBVIOUS
    <3>3. \/ req'[p] = NoRequest
          \/ req'[p] = [req[p] EXCEPT !.late = (req[p].late /\ Merged(o) \in Stopped)]
      BY <1>16 DEF StoreKey
    <3> QED
      BY <2>1, <3>2, <3>3, NoRequestType
  <2> QED
    BY <1>16, <2>2 DEF StoreKey
<1>17. ASSUME NEW o \in Op, SetKeyInactive(o) PROVE req' \in [Op -> Request]
  BY <1>17, NoRequestType DEF TypeOK, SetKeyInactive, Finish
<1>18. ASSUME NEW o \in Op, DropKeyInactive(o) PROVE req' \in [Op -> Request]
  BY <1>18, NoRequestType DEF TypeOK, DropKeyInactive, Finish
<1>19. ASSUME NEW o \in Op, Fail(o) PROVE req' \in [Op -> Request]
  BY <1>19 DEF TypeOK, Fail, Goto, row, tokens
<1>20. CASE Tick
  BY <1>20 DEF TypeOK, Tick, row, tokens
<1>21. CASE UNCHANGED vars
  BY <1>21 DEF TypeOK, vars, row, tokens
<1> QED
  BY <1>1, <1>2, <1>3, <1>4, <1>5, <1>6, <1>7, <1>8, <1>9, <1>10, <1>11,
       <1>12, <1>13, <1>14, <1>15, <1>16, <1>17, <1>18, <1>19, <1>20, <1>21
     DEF Next, Step

(* What the key and the entries hold.                                      *)
Entries ==
    /\ now \in Nat
    /\ status \in Status
    /\ mark \in Nat
    /\ exp \in [Token -> Nat]
    /\ claims \in [Token -> Nat]
    /\ inactive \in [Token -> Nat]
    /\ revoked \subseteq Token
    /\ orderly \in BOOLEAN

(* An entry of the cache is kept for a while.                              *)
LEMMA TtlType ==
  ASSUME now \in Nat, NEW e \in Nat
  PROVE  Ttl(e) \in Nat /\ e <= now + Ttl(e)
BY KeyAssumption DEF Ttl

LEMMA MarkAgeType == MarkAge \in Nat /\ Lifetime <= MarkAge
BY KeyAssumption DEF MarkAge

(* Every step leaves the key and the entries well formed.                  *)
LEMMA EntriesStep ==
  ASSUME TypeOK, Coded, [Next]_vars
  PROVE  Entries'
<1>1. ASSUME NEW o \in Op, NEW t \in Token, Issue(o, t) PROVE Entries'
  BY <1>1 DEF TypeOK, Entries, Issue, row, tokens, NoRequest
<1>2. ASSUME NEW o \in Op, Sign(o) PROVE Entries'
  <2>1. req[o].tok \in Token /\ req[o].exp \in Nat
    BY <1>2 DEF TypeOK, Coded, Fits, Administering, Sign, Issuing, Request
  <2> QED
    BY <1>2, <2>1 DEF TypeOK, Entries, Sign, row, tokens
<1>3. ASSUME NEW o \in Op, CacheIssued(o) PROVE Entries'
  <2>1. req[o].tok \in Token /\ exp[req[o].tok] \in Nat
    BY <1>3
       DEF TypeOK, Coded, Fits, Administering, CacheIssued, Issuing,
            Verifying, Beyond
  <2>2. now + Ttl(exp[req[o].tok]) \in Nat
    BY <2>1, TtlType DEF TypeOK
  <2> QED
    BY <1>3, <2>1, <2>2 DEF TypeOK, Entries, CacheIssued, row, tokens
<1>4. ASSUME NEW o \in Op, NEW t \in Token, NEW k \in {"bearer", "revoke"},
            Present(o, t, k)
      PROVE Entries'
  BY <1>4 DEF TypeOK, Entries, Present, row, tokens, NoRequest
<1>5. ASSUME NEW o \in Op, CheckKeyMark(o) PROVE Entries'
  BY <1>5
     DEF TypeOK, Entries, CheckKeyMark, row, tokens, Finish, NoRequest
<1>6. ASSUME NEW o \in Op, FindClaims(o) PROVE Entries'
  BY <1>6 DEF TypeOK, Entries, FindClaims, row, tokens
<1>7. ASSUME NEW o \in Op, ResolveKey(o) PROVE Entries'
  BY <1>7
     DEF TypeOK, Entries, ResolveKey, row, tokens, Finish, NoRequest
<1>8. ASSUME NEW o \in Op, SaveClaims(o) PROVE Entries'
  <2>1. req[o].tok \in Token /\ exp[req[o].tok] \in Nat
    BY <1>8
       DEF TypeOK, Coded, Fits, Administering, SaveClaims, Issuing, Verifying,
            Beyond
  <2>2. now + Ttl(exp[req[o].tok]) \in Nat
    BY <2>1, TtlType DEF TypeOK
  <2> QED
    BY <1>8, <2>1, <2>2 DEF TypeOK, Entries, SaveClaims, row, tokens
<1>9. ASSUME NEW o \in Op, CheckInactive(o) PROVE Entries'
  BY <1>9
     DEF TypeOK, Entries, CheckInactive, row, tokens, Finish, NoRequest
<1>10. ASSUME NEW o \in Op, Answer(o) PROVE Entries'
  BY <1>10 DEF TypeOK, Entries, Answer, row, tokens, Finish, NoRequest
<1>11. ASSUME NEW o \in Op, RevokeToken(o) PROVE Entries'
  <2>1. req[o].tok \in Token /\ exp[req[o].tok] \in Nat
    BY <1>11
       DEF TypeOK, Coded, Fits, Administering, RevokeToken, Issuing,
            Verifying, Beyond
  <2>2. now + Ttl(exp[req[o].tok]) \in Nat
    BY <2>1, TtlType DEF TypeOK
  <2> QED
    BY <1>11, <2>1, <2>2 DEF TypeOK, Entries, RevokeToken, row, tokens
<1>12. ASSUME NEW o \in Op, RevokeNothing(o) PROVE Entries'
  BY <1>12
     DEF TypeOK, Entries, RevokeNothing, row, tokens, Finish, NoRequest
<1>13. ASSUME NEW o \in Op, NEW s \in Status \union {Unset},
            Update(o, s)
      PROVE Entries'
  BY <1>13
     DEF TypeOK, Entries, Update, row, tokens, Administer, NoRequest
<1>14. ASSUME NEW o \in Op, Delete(o) PROVE Entries'
  BY <1>14
     DEF TypeOK, Entries, Delete, row, tokens, Administer, NoRequest
<1>15. ASSUME NEW o \in Op, FindKey(o) PROVE Entries'
  BY <1>15 DEF TypeOK, Entries, FindKey, row, tokens, Finish, NoRequest
<1>16. ASSUME NEW o \in Op, StoreKey(o) PROVE Entries'
  <2>1. Merged(o) \in Status
    BY <1>16 DEF TypeOK, Coded, Fits, StoreKey, Merged, Request
  <2> QED
    BY <1>16, <2>1 DEF TypeOK, Entries, StoreKey, row, tokens
<1>17. ASSUME NEW o \in Op, SetKeyInactive(o) PROVE Entries'
  <2>1. now + MarkAge \in Nat
    BY MarkAgeType DEF TypeOK
  <2> QED
    BY <1>17, <2>1 DEF TypeOK, Entries, SetKeyInactive, row, tokens
<1>18. ASSUME NEW o \in Op, DropKeyInactive(o) PROVE Entries'
  BY <1>18
     DEF TypeOK, Entries, DropKeyInactive, row, tokens, Finish,
          NoRequest
<1>19. ASSUME NEW o \in Op, Fail(o) PROVE Entries'
  BY <1>19 DEF TypeOK, Entries, Fail, row, tokens
<1>20. CASE Tick
  BY <1>20 DEF TypeOK, Entries, Tick, row, tokens
<1>21. CASE UNCHANGED vars
  BY <1>21 DEF TypeOK, Entries, vars, row, tokens
<1> QED
  BY <1>1, <1>2, <1>3, <1>4, <1>5, <1>6, <1>7, <1>8, <1>9, <1>10, <1>11,
       <1>12, <1>13, <1>14, <1>15, <1>16, <1>17, <1>18, <1>19, <1>20, <1>21
     DEF Next, Step

LEMMA TypeStep ==
  ASSUME TypeOK, Coded, [Next]_vars
  PROVE  TypeOK'
BY PcStep, ReqStep, EntriesStep DEF TypeOK, Entries


-----------------------------------------------------------------------------
(* The step of one request, and those of a verification.                   *)

Goes(o, l, r) == pc' = [pc EXCEPT ![o] = l] /\ req' = [req EXCEPT ![o] = r]
Quiet == now' = now /\ status' = status /\ mark' = mark /\ exp' = exp

Passing(o) ==
    \/ CacheIssued(o) \/ CheckKeyMark(o) \/ FindClaims(o) \/ ResolveKey(o) \/ SaveClaims(o)
    \/ CheckInactive(o) \/ Answer(o) \/ RevokeToken(o) \/ RevokeNothing(o)

(* They end the request or take it further, and no late one past the mark. *)
LEMMA Passes ==
  ASSUME TypeOK, NEW o \in Op, Passing(o)
  PROVE  /\ Quiet
         /\ pc[o] \in Verifying \union {"cache"}
         /\ \/ Goes(o, "idle", NoRequest)
            \/ /\ \E l \in Beyond : Goes(o, l, req[o])
               /\ pc[o] \in Verifying
               /\ pc[o] = "keyMark" => mark <= now
<1>1. Quiet
  BY 
     DEF Passing, Quiet, CacheIssued, CheckKeyMark, FindClaims, ResolveKey,
          SaveClaims,
         CheckInactive, Answer, RevokeToken, RevokeNothing, row, tokens
<1>2. pc[o] \in Verifying \union {"cache"}
  BY 
     DEF Passing, Verifying, Beyond, CacheIssued, CheckKeyMark, FindClaims,
          ResolveKey,
         SaveClaims, CheckInactive, Answer, RevokeToken, RevokeNothing
<1>3. req' = req => req' = [req EXCEPT ![o] = req[o]]
  BY DEF TypeOK
<1>4. CASE CheckKeyMark(o)
  BY <1>1, <1>2, <1>3, <1>4
     DEF TypeOK, CheckKeyMark, Finish, Goto, Goes, Verifying, Beyond
<1>5. CASE FindClaims(o) \/ ResolveKey(o) \/ SaveClaims(o) \/ CheckInactive(o)
  BY <1>1, <1>2, <1>3, <1>5
     DEF FindClaims, ResolveKey, SaveClaims, CheckInactive, Finish, Goto, Goes, Verifying, Beyond
<1>6. CASE CacheIssued(o) \/ Answer(o) \/ RevokeToken(o) \/ RevokeNothing(o)
  BY <1>1, <1>2, <1>6
     DEF CacheIssued, Answer, RevokeToken, RevokeNothing, Finish, Goto, Goes
<1> QED
  BY <1>4, <1>5, <1>6 DEF Passing

(* The other steps of a request.                                           *)
LEMMA Signs ==
  ASSUME TypeOK, NEW o \in Op, Sign(o)
  PROVE  /\ pc[o] = "sign"
         /\ now' = now /\ status' = status /\ mark' = mark
         /\ \/ Goes(o, "idle", NoRequest) /\ exp' = exp
            \/ /\ Goes(o, "cache", req[o])
               /\ status = "active"
               /\ exp' = [exp EXCEPT ![req[o].tok] = req[o].exp]
<1>1. req' = req => req' = [req EXCEPT ![o] = req[o]]
  BY DEF TypeOK
<1> QED
  BY <1>1 DEF Sign, Finish, Goto, Goes, row

Asking(o, t, k) == [NoRequest EXCEPT !.kind = k, !.tok = t,
                                     !.late = Settled /\ status \in Stopped,
                                     !.dead = t \in revoked, !.spent = ~Lives(t)]
Asked(k, s) == [NoRequest EXCEPT !.kind = k, !.to = s]
Issued(t) == [NoRequest EXCEPT !.kind = "issue", !.tok = t, !.exp = now + Lifetime]

LEMMA Starts ==
  ASSUME TypeOK, NEW o \in Op, NEW t \in Token, NEW k
  PROVE  /\ Issue(o, t) => Quiet /\ pc[o] = "idle" /\ Goes(o, "sign", Issued(t))
         /\ Present(o, t, k) => Quiet /\ pc[o] = "idle" /\ Goes(o, "keyMark", Asking(o, t, k))
BY DEF Issue, Present, Goes, Goto, Quiet, Asking, Issued, row, tokens

LEMMA Asks ==
  ASSUME TypeOK, NEW o \in Op, NEW k, NEW s, Administer(o, k, s)
  PROVE  /\ Quiet /\ pc[o] = "idle" /\ Goes(o, "find", Asked(k, s))
         /\ orderly' => Settled
BY DEF Administer, Goes, Goto, Quiet, Asked, row, tokens

Found(o) == [req[o] EXCEPT !.from = status]

LEMMA Finds ==
  ASSUME TypeOK, NEW o \in Op, FindKey(o)
  PROVE  /\ Quiet
         /\ pc[o] = "find"
         /\ \/ Goes(o, "idle", NoRequest)
            \/ Goes(o, "store", Found(o))
<1>1. [req EXCEPT ![o].from = status] = [req EXCEPT ![o] = [req[o] EXCEPT !.from = status]]
  OBVIOUS
<1> QED
  BY <1>1 DEF FindKey, Finish, Goto, Goes, Found, Quiet, row, tokens

LEMMA FoundKeeps ==
  ASSUME TypeOK, NEW o \in Op
  PROVE  /\ Found(o).kind = req[o].kind /\ Found(o).tok = req[o].tok
         /\ Found(o).exp = req[o].exp /\ Found(o).from = status
         /\ Found(o).dead = req[o].dead /\ Found(o).late = req[o].late
BY DEF TypeOK, Request, Found

LEMMA Marks ==
  ASSUME TypeOK, NEW o \in Op, SetKeyInactive(o) \/ DropKeyInactive(o)
  PROVE  /\ now' = now /\ status' = status /\ exp' = exp
         /\ Goes(o, "idle", NoRequest)
         /\ \/ pc[o] = "mark" /\ mark' = now + MarkAge
            \/ pc[o] = "lift" /\ mark' = IF req[o].from = "disabled" THEN 0 ELSE mark
BY DEF SetKeyInactive, DropKeyInactive, Finish, Goto, Goes, tokens

LEMMA Fails ==
  ASSUME TypeOK, NEW o \in Op, Fail(o)
  PROVE  Quiet /\ Goes(o, "failed", req[o])
<1>1. req' = req => req' = [req EXCEPT ![o] = req[o]]
  BY DEF TypeOK
<1> QED
  BY <1>1 DEF Fail, Goto, Goes, Quiet, row, tokens

(* StoreKey ends the update it makes, or takes it on, and takes the late   *)
(* mark from every request where the key verifies again.                   *)
Stored(p, to) == [req[p] EXCEPT !.late = @ /\ to \in Stopped]

LEMMA Stores ==
  ASSUME TypeOK, NEW o \in Op, StoreKey(o)
  PROVE  /\ now' = now /\ mark' = mark /\ exp' = exp
         /\ pc[o] = "store"
         /\ status' = Merged(o)
         /\ \A p \in Op \ {o} : pc'[p] = pc[p] /\ req'[p] = Stored(p, Merged(o))
         /\ \/ Merged(o) = req[o].from /\ pc'[o] = "idle" /\ req'[o] = NoRequest
            \/ /\ Merged(o) # req[o].from
               /\ req'[o] = Stored(o, Merged(o))
               /\ pc'[o] = IF Merged(o) \in Stopped THEN "mark" ELSE "lift"
BY DEF StoreKey, Stored, Goto, tokens, TypeOK

LEMMA StoredKeeps ==
  ASSUME TypeOK, NEW p \in Op, NEW to
  PROVE  /\ Stored(p, to).kind = req[p].kind /\ Stored(p, to).tok = req[p].tok
         /\ Stored(p, to).exp = req[p].exp /\ Stored(p, to).from = req[p].from
         /\ Stored(p, to).to = req[p].to /\ Stored(p, to).dead = req[p].dead
         /\ Stored(p, to).late <=> req[p].late /\ to \in Stopped
BY DEF TypeOK, Request, Stored

Fixed == now' = now /\ UNCHANGED <<row, exp, pc, req>>

(* Every request keeps to its kind.                                        *)
LEMMA CodedStep ==
  ASSUME TypeOK, Coded, [Next]_vars
  PROVE  Coded'
<1>0. pc \in [Op -> Label] /\ req \in [Op -> Request]
  BY DEF TypeOK
<1> USE <1>0
<1>1. ASSUME NEW o \in Op, NEW t \in Token, Issue(o, t) PROVE Coded'
  <2>1. Goes(o, "sign", Issued(t))
    BY <1>1, Starts
  <2> QED
    BY <2>1
       DEF Coded, Goes, Issued, NoRequest, Fits, Issuing, Verifying, Beyond,
            Updating, Administering
<1>2. ASSUME NEW o \in Op, Sign(o) PROVE Coded'
  <2>1. Fits(pc[o], req[o]) /\ Fits("idle", NoRequest)
    BY 
       DEF Coded, NoRequest, Fits, Issuing, Verifying, Beyond, Updating,
            Administering
  <2>2. Fits("cache", req[o])
    BY <1>2, <2>1, Signs
       DEF Fits, Issuing, Verifying, Beyond, Updating, Administering
  <2> QED
    BY <1>2, <2>1, <2>2, Signs DEF Coded, Goes
<1>3. ASSUME NEW o \in Op, Passing(o) PROVE Coded'
  <2>1. Fits(pc[o], req[o]) /\ Fits("idle", NoRequest)
    BY 
       DEF Coded, NoRequest, Fits, Issuing, Verifying, Beyond, Updating,
            Administering
  <2>2. ASSUME NEW l \in Beyond, pc[o] \in Verifying PROVE Fits(l, req[o])
    BY <2>1, <2>2
       DEF Fits, Issuing, Verifying, Beyond, Updating, Administering
  <2>3. CASE Goes(o, "idle", NoRequest)
    BY <2>1, <2>3 DEF Coded, Goes
  <2>4. ASSUME NEW l \in Beyond, Goes(o, l, req[o]), pc[o] \in Verifying PROVE Coded'
    BY <2>2, <2>4 DEF Coded, Goes
  <2> QED
    BY <1>3, <2>3, <2>4, Passes
<1>4. ASSUME NEW o \in Op, NEW t \in Token, NEW k \in {"bearer", "revoke"},
            Present(o, t, k)
      PROVE Coded'
  <2>1. Goes(o, "keyMark", Asking(o, t, k))
    BY <1>4, Starts
  <2>2. Fits("keyMark", Asking(o, t, k))
    BY 
       DEF Asking, NoRequest, Fits, Issuing, Verifying, Beyond, Updating,
            Administering
  <2> QED
    BY <2>1, <2>2 DEF Coded, Goes
<1>5. ASSUME NEW o \in Op, NEW s \in Status \union {Unset},
            Update(o, s)
      PROVE Coded'
  <2>1. Goes(o, "find", Asked("update", s))
    BY <1>5, Asks DEF Update
  <2>2. Fits("find", Asked("update", s))
    BY 
       DEF Asked, NoRequest, Fits, Issuing, Verifying, Beyond, Updating,
            Administering
  <2> QED
    BY <2>1, <2>2 DEF Coded, Goes
<1>6. ASSUME NEW o \in Op, Delete(o) PROVE Coded'
  <2>1. Goes(o, "find", Asked("delete", "gone"))
    BY <1>6, Asks DEF Delete
  <2>2. Fits("find", Asked("delete", "gone"))
    BY 
       DEF Asked, NoRequest, Fits, Issuing, Verifying, Beyond, Updating,
            Administering
  <2> QED
    BY <2>1, <2>2 DEF Coded, Goes
<1>7. ASSUME NEW o \in Op, FindKey(o) PROVE Coded'
  <2>1. Fits(pc[o], req[o]) /\ Fits("idle", NoRequest)
    BY 
       DEF Coded, NoRequest, Fits, Issuing, Verifying, Beyond, Updating,
            Administering
  <2>2. Fits("store", Found(o))
    BY <1>7, <2>1, Finds, FoundKeeps
       DEF TypeOK, Fits, Issuing, Verifying, Beyond, Updating, Administering
  <2> QED
    BY <1>7, <2>1, <2>2, Finds DEF Coded, Goes
<1>8. ASSUME NEW o \in Op, StoreKey(o) PROVE Coded'
  <2>1. Fits(pc[o], req[o]) /\ Fits("idle", NoRequest)
    BY 
       DEF Coded, NoRequest, Fits, Issuing, Verifying, Beyond, Updating,
            Administering
  <2>2. ASSUME NEW l \in Label, Fits(l, req[o]), l = "store"
        PROVE  Fits("mark", Stored(o, Merged(o))) /\ Fits("lift", Stored(o, Merged(o)))
    BY <2>2, StoredKeeps
       DEF Fits, Issuing, Verifying, Beyond, Updating, Administering
  <2>3. Fits(pc'[o], req'[o])
    BY <1>8, <2>1, <2>2, Stores DEF Label
  <2>4. ASSUME NEW p \in Op, p # o PROVE Fits(pc'[p], req'[p])
    <3>1. Fits(pc[p], req[p]) /\ pc'[p] = pc[p] /\ req'[p] = Stored(p, Merged(o))
      BY <1>8, <2>4, Stores DEF Coded
    <3>2. /\ Stored(p, Merged(o)).kind = req[p].kind /\ Stored(p, Merged(o)).tok = req[p].tok
          /\ Stored(p, Merged(o)).dead = req[p].dead /\ Stored(p, Merged(o)).from = req[p].from
          /\ Stored(p, Merged(o)).late => req[p].late
      BY StoredKeeps
    <3> QED
      BY <3>1, <3>2
         DEF Fits, Issuing, Verifying, Beyond, Updating, Administering
  <2> QED
    BY <2>3, <2>4 DEF Coded
<1>9. ASSUME NEW o \in Op, SetKeyInactive(o) \/ DropKeyInactive(o) PROVE Coded'
  <2>1. Goes(o, "idle", NoRequest)
    BY <1>9, Marks
  <2> QED
    BY <2>1
       DEF Coded, Goes, NoRequest, Fits, Issuing, Verifying, Beyond, Updating,
            Administering
<1>10. ASSUME NEW o \in Op, Fail(o) PROVE Coded'
  <2>1. Fits(pc[o], req[o])
    BY DEF Coded
  <2>2. Fits("failed", req[o])
    BY <2>1
       DEF Fits, Issuing, Verifying, Beyond, Updating, Administering,
            NoRequest
  <2> QED
    BY <1>10, <2>2, Fails DEF Coded, Goes
<1>11. CASE Tick
  BY <1>11 DEF Coded, Tick
<1>12. CASE UNCHANGED vars
  BY <1>12 DEF Coded, vars
<1> QED
  BY <1>1, <1>2, <1>3, <1>4, <1>5, <1>6, <1>7, <1>8, <1>9, <1>10, <1>11, <1>12
     DEF Next, Step, Passing


(* A request that does not come to sign keeps the others' tokens theirs.   *)
LEMMA SoleGoes ==
  ASSUME TypeOK, Coded, Sole, NEW o \in Op, NEW l, NEW r, Goes(o, l, r), exp' = exp, l # "sign",
         r.tok \in {req[o].tok, NoToken}, l \in Verifying => exp[r.tok] # 0,
         \A t \in revoked' : exp[t] # 0
  PROVE  Sole'
<1>0. pc \in [Op -> Label] /\ req \in [Op -> Request]
  BY DEF TypeOK
<1>1. \A p \in Op : pc[p] = "sign" => req[p].tok # NoToken
  BY KeyAssumption DEF Coded, Fits, Issuing
<1>2. pc'[o] = l /\ req'[o] = r /\ \A p \in Op \ {o} : pc'[p] = pc[p] /\ req'[p] = req[p]
  BY <1>0 DEF Goes
<1>3. \A p \in Op : pc'[p] \in Verifying => exp[req'[p].tok] # 0
  BY <1>2 DEF Sole
<1>4. \A p \in Op : pc'[p] = "sign" => exp[req'[p].tok] = 0 /\ req'[p].exp # 0
  BY <1>2 DEF Sole
<1>5. \A p, q \in Op : pc'[p] = "sign" /\ p # q => req'[q].tok # req'[p].tok
  BY <1>1, <1>2 DEF Sole
<1> QED
  BY <1>3, <1>4, <1>5 DEF Sole

(* Every step keeps the signing of a token to one request.                 *)
LEMMA SoleStep ==
  ASSUME TypeOK, Coded, Sole, [Next]_vars
  PROVE  Sole'
<1>0. pc \in [Op -> Label] /\ req \in [Op -> Request]
  BY DEF TypeOK
<1> USE <1>0
<1>1. ASSUME NEW o \in Op, NEW t \in Token, Issue(o, t) PROVE Sole'
  <2>1. Quiet /\ Goes(o, "sign", Issued(t)) /\ exp[t] = 0 /\ \A p \in Op : req[p].tok # t
    BY <1>1, Starts DEF Issue
  <2>2. now + Lifetime # 0
    BY KeyAssumption DEF TypeOK
  <2>3. Issued(t).tok = t /\ Issued(t).exp # 0 /\ revoked' = revoked
    BY <1>1, <2>2 DEF Issued, NoRequest, Issue, tokens
  <2>4. \A p \in Op \ {o} : pc'[p] = pc[p] /\ req'[p] = req[p]
    BY <2>1 DEF Goes
  <2>5. pc'[o] = "sign" /\ req'[o] = Issued(t) /\ exp' = exp
    BY <2>1 DEF Goes, Quiet
  <2>6. \A p, q \in Op : pc'[p] = "sign" /\ p # q => req'[q].tok # req'[p].tok
    BY <2>1, <2>3, <2>4, <2>5 DEF Sole
  <2>7. \A p \in Op : pc'[p] = "sign" => exp[req'[p].tok] = 0 /\ req'[p].exp # 0
    BY <2>1, <2>3, <2>4, <2>5 DEF Sole
  <2>8. \A p \in Op : pc'[p] \in Verifying => exp[req'[p].tok] # 0
    BY <2>4, <2>5 DEF Sole, Verifying, Beyond
  <2> QED
    BY <2>3, <2>5, <2>6, <2>7, <2>8 DEF Sole
<1>2. ASSUME NEW o \in Op, Sign(o) PROVE Sole'
  <2> DEFINE u == req[o].tok
  <2>0. revoked' = revoked /\ \A t \in revoked : exp[t] # 0
    BY <1>2 DEF Sole, Sign
  <2>1. u \in Token /\ exp \in [Token -> Nat] /\ pc[o] = "sign"
    BY <1>2, Signs DEF TypeOK, Coded, Fits, Issuing
  <2>2. CASE Goes(o, "idle", NoRequest) /\ exp' = exp
    <3>1. NoRequest.tok = NoToken
      BY DEF NoRequest
    <3> QED
      BY <2>0, <2>2, <3>1, SoleGoes DEF Verifying, Beyond
  <2>3. CASE Goes(o, "cache", req[o]) /\ exp' = [exp EXCEPT ![u] = req[o].exp]
    <3>1. exp'[u] # 0 /\ \A t \in Token \ {u} : exp'[t] = exp[t]
      BY <2>1, <2>3 DEF Sole
    <3>2. pc'[o] = "cache" /\ req' = req /\ \A p \in Op \ {o} : pc'[p] = pc[p]
      BY <2>3 DEF Goes
    <3>3. \A p \in Op : pc'[p] \in Verifying => exp'[req'[p].tok] # 0
      BY <3>1, <3>2 DEF Sole, Coded, Fits, Verifying, Beyond
    <3>4. \A p, q \in Op : pc'[p] = "sign" /\ p # q => req'[q].tok # req'[p].tok
      BY <3>2 DEF Sole
    <3>5. \A p \in Op : pc'[p] = "sign" => p # o /\ req[p].tok \in Token \ {u}
      BY <2>1, <3>2 DEF Sole, Coded, Fits, Issuing
    <3>6. \A p \in Op : pc'[p] = "sign" => exp'[req'[p].tok] = 0 /\ req'[p].exp # 0
      BY <3>1, <3>2, <3>5 DEF Sole
    <3>7. \A t \in revoked' : exp'[t] # 0
      BY <2>0, <3>1 DEF TypeOK
    <3> QED
      BY <3>3, <3>4, <3>6, <3>7 DEF Sole
  <2> QED
    BY <1>2, <2>2, <2>3, Signs
<1>3. ASSUME NEW o \in Op, Passing(o) PROVE Sole'
  <2>1. Quiet
    BY <1>3, Passes
  <2>2. \A t \in revoked' : exp[t] # 0
    <3>1. CASE RevokeToken(o)
      BY <3>1 DEF Sole, RevokeToken, Verifying, Beyond
    <3>2. CASE ~RevokeToken(o)
      BY <1>3, <3>2
         DEF Sole, Passing, CacheIssued, CheckKeyMark, FindClaims, ResolveKey,
                     SaveClaims, CheckInactive, Answer, RevokeNothing, tokens
    <3> QED
      BY <3>1, <3>2
  <2>3. NoRequest.tok = NoToken
    BY DEF NoRequest
  <2>4. CASE Goes(o, "idle", NoRequest)
    BY <2>1, <2>2, <2>3, <2>4, SoleGoes DEF Quiet, Verifying, Beyond
  <2>5. ASSUME NEW l \in Beyond, Goes(o, l, req[o]), pc[o] \in Verifying PROVE Sole'
    <3>1. exp[req[o].tok] # 0 /\ l # "sign"
      BY <2>5 DEF Sole, Beyond
    <3> QED
      BY <2>1, <2>2, <2>5, <3>1, SoleGoes DEF Quiet
  <2> QED
    BY <1>3, <2>4, <2>5, Passes
<1>4. ASSUME NEW o \in Op, NEW t \in Token, NEW k \in {"bearer", "revoke"},
            Present(o, t, k)
      PROVE Sole'
  <2>0. revoked' = revoked /\ \A u \in revoked : exp[u] # 0
    BY <1>4 DEF Sole, Present, tokens
  <2>1. Quiet /\ Goes(o, "keyMark", Asking(o, t, k)) /\ exp[t] # 0
    BY <1>4, Starts DEF Present
  <2>2. \A p \in Op : pc[p] = "sign" => req[p].tok # t
    BY <1>4 DEF Present, Coded, Fits, Issuing
  <2>3. Asking(o, t, k).tok = t
    BY DEF Asking, NoRequest
  <2>4. pc'[o] = "keyMark" /\ req'[o].tok = t /\ exp' = exp
    BY <2>1, <2>3 DEF Goes, Quiet
  <2>5. \A p \in Op \ {o} : pc'[p] = pc[p] /\ req'[p] = req[p]
    BY <2>1 DEF Goes
  <2>6. \A p, q \in Op : pc'[p] = "sign" /\ p # q => req'[q].tok # req'[p].tok
    BY <2>2, <2>4, <2>5 DEF Sole
  <2>7. \A p \in Op : pc'[p] = "sign" => exp[req'[p].tok] = 0 /\ req'[p].exp # 0
    BY <2>4, <2>5 DEF Sole
  <2>8. \A p \in Op : pc'[p] \in Verifying => exp[req'[p].tok] # 0
    BY <2>1, <2>4, <2>5 DEF Sole
  <2> QED
    BY <2>0, <2>4, <2>6, <2>7, <2>8 DEF Sole
<1>5. ASSUME NEW o \in Op, NEW s \in Status \union {Unset},
            Update(o, s)
      PROVE Sole'
  <2>0. revoked' = revoked /\ \A u \in revoked : exp[u] # 0
    BY <1>5 DEF Sole, Update, Administer, tokens
  <2>1. exp' = exp /\ Goes(o, "find", Asked("update", s))
    BY <1>5, Asks DEF Quiet, Update
  <2>2. Asked("update", s).tok \in {req[o].tok, NoToken}
    BY DEF Asked, NoRequest
  <2> QED
    BY <2>0, <2>1, <2>2, SoleGoes DEF Verifying, Beyond
<1>6. ASSUME NEW o \in Op, Delete(o) PROVE Sole'
  <2>0. revoked' = revoked /\ \A u \in revoked : exp[u] # 0
    BY <1>6 DEF Sole, Delete, Administer, tokens
  <2>1. exp' = exp /\ Goes(o, "find", Asked("delete", "gone"))
    BY <1>6, Asks DEF Quiet, Delete
  <2>2. Asked("delete", "gone").tok \in {req[o].tok, NoToken}
    BY DEF Asked, NoRequest
  <2> QED
    BY <2>0, <2>1, <2>2, SoleGoes DEF Verifying, Beyond
<1>7. ASSUME NEW o \in Op, FindKey(o) PROVE Sole'
  <2>0. revoked' = revoked /\ \A u \in revoked : exp[u] # 0
    BY <1>7 DEF Sole, FindKey, tokens
  <2>1. NoRequest.tok = NoToken /\ Found(o).tok = req[o].tok
    BY FoundKeeps DEF NoRequest
  <2>2. CASE Goes(o, "idle", NoRequest)
    BY <1>7, <2>0, <2>1, <2>2, Finds, SoleGoes DEF Quiet, Verifying, Beyond
  <2>3. CASE Goes(o, "store", Found(o))
    BY <1>7, <2>0, <2>1, <2>3, Finds, SoleGoes DEF Quiet, Verifying, Beyond
  <2> QED
    BY <1>7, <2>2, <2>3, Finds
<1>8. ASSUME NEW o \in Op, StoreKey(o) PROVE Sole'
  <2>0. revoked' = revoked /\ exp' = exp
    BY <1>8 DEF StoreKey, tokens
  <2>1. NoRequest.tok = NoToken /\ \A p \in Op : Stored(p, Merged(o)).tok = req[p].tok
    BY StoredKeeps DEF NoRequest
  <2>2. \A p \in Op : req'[p].tok \in {req[p].tok, NoToken}
    BY <1>8, <2>1, Stores
  <2>3. \A p \in Op : pc'[p] \in Verifying \union {"sign"}
                     => pc'[p] = pc[p] /\ req'[p].tok = req[p].tok /\ req'[p].exp = req[p].exp
    BY <1>8, <2>1, Stores, StoredKeeps DEF Verifying, Beyond
  <2>4. \A p \in Op : pc[p] = "sign" => req[p].tok # NoToken
    BY KeyAssumption DEF Coded, Fits, Issuing
  <2> QED
    BY <2>0, <2>2, <2>3, <2>4 DEF Sole
<1>9. ASSUME NEW o \in Op, SetKeyInactive(o) \/ DropKeyInactive(o) PROVE Sole'
  <2>0. revoked' = revoked /\ \A u \in revoked : exp[u] # 0
    BY <1>9 DEF Sole, SetKeyInactive, DropKeyInactive, tokens
  <2>1. exp' = exp /\ Goes(o, "idle", NoRequest)
    BY <1>9, Marks DEF Quiet
  <2>2. NoRequest.tok \in {req[o].tok, NoToken}
    BY DEF NoRequest
  <2> QED
    BY <2>0, <2>1, <2>2, SoleGoes DEF Verifying, Beyond
<1>10. ASSUME NEW o \in Op, Fail(o) PROVE Sole'
  <2>0. revoked' = revoked /\ \A u \in revoked : exp[u] # 0
    BY <1>10 DEF Sole, Fail, tokens
  <2>1. exp' = exp /\ Goes(o, "failed", req[o])
    BY <1>10, Fails DEF Quiet
  <2>2. req[o].tok \in {req[o].tok, NoToken}
    BY DEF Goes
  <2> QED
    BY <2>0, <2>1, <2>2, SoleGoes DEF Verifying, Beyond
<1>11. CASE Tick
  BY <1>11 DEF Sole, Tick, tokens
<1>12. CASE UNCHANGED vars
  BY <1>12 DEF Sole, vars
<1> QED
  BY <1>1, <1>2, <1>3, <1>4, <1>5, <1>6, <1>7, <1>8, <1>9, <1>10, <1>11, <1>12
     DEF Next, Step, Passing

(* Every step keeps the tokens within their lifetime.                      *)
LEMMA BoundedStep ==
  ASSUME TypeOK, Coded, Bounded, [Next]_vars
  PROVE  Bounded'
<1>0. /\ pc \in [Op -> Label] /\ req \in [Op -> Request]
      /\ exp \in [Token -> Nat] /\ now \in Nat
  BY DEF TypeOK
<1> USE <1>0 DEF Request
<1>1. ASSUME NEW o \in Op, NEW t \in Token, Issue(o, t) PROVE Bounded'
  BY <1>1, KeyAssumption
     DEF Bounded, Coded, Issuing, Issue, Goto, row, tokens, NoRequest
<1>2. ASSUME NEW o \in Op, Sign(o) PROVE Bounded'
  BY <1>2, KeyAssumption
     DEF Bounded, Coded, Issuing, Sign, Goto, row, tokens, Finish, NoRequest
<1>3. ASSUME NEW o \in Op, CacheIssued(o) PROVE Bounded'
  BY <1>3, KeyAssumption
     DEF Bounded, Coded, Issuing, CacheIssued, Goto, row, tokens, Finish,
          NoRequest
<1>4. ASSUME NEW o \in Op, NEW t \in Token, NEW k \in {"bearer", "revoke"},
            Present(o, t, k)
      PROVE Bounded'
  BY <1>4, KeyAssumption
     DEF Bounded, Coded, Issuing, Present, Goto, row, tokens, NoRequest
<1>5. ASSUME NEW o \in Op, CheckKeyMark(o) PROVE Bounded'
  BY <1>5, KeyAssumption
     DEF Bounded, Coded, Issuing, CheckKeyMark, Goto, row, tokens, Finish,
          NoRequest
<1>6. ASSUME NEW o \in Op, FindClaims(o) PROVE Bounded'
  BY <1>6, KeyAssumption
     DEF Bounded, Coded, Issuing, FindClaims, Goto, row, tokens
<1>7. ASSUME NEW o \in Op, ResolveKey(o) PROVE Bounded'
  BY <1>7, KeyAssumption
     DEF Bounded, Coded, Issuing, ResolveKey, Goto, row, tokens, Finish,
          NoRequest
<1>8. ASSUME NEW o \in Op, SaveClaims(o) PROVE Bounded'
  BY <1>8, KeyAssumption
     DEF Bounded, Coded, Issuing, SaveClaims, Goto, row, tokens
<1>9. ASSUME NEW o \in Op, CheckInactive(o) PROVE Bounded'
  BY <1>9, KeyAssumption
     DEF Bounded, Coded, Issuing, CheckInactive, Goto, row, tokens, Finish,
          NoRequest
<1>10. ASSUME NEW o \in Op, Answer(o) PROVE Bounded'
  BY <1>10, KeyAssumption
     DEF Bounded, Coded, Issuing, Answer, Goto, row, tokens, Finish, NoRequest
<1>11. ASSUME NEW o \in Op, RevokeToken(o) PROVE Bounded'
  BY <1>11, KeyAssumption
     DEF Bounded, Coded, Issuing, RevokeToken, Goto, row, tokens, Finish,
          NoRequest
<1>12. ASSUME NEW o \in Op, RevokeNothing(o) PROVE Bounded'
  BY <1>12, KeyAssumption
     DEF Bounded, Coded, Issuing, RevokeNothing, Goto, row, tokens, Finish,
          NoRequest
<1>13. ASSUME NEW o \in Op, NEW s \in Status \union {Unset},
            Update(o, s)
      PROVE Bounded'
  BY <1>13, KeyAssumption
     DEF Bounded, Coded, Issuing, Update, Goto, row, tokens, Administer,
          NoRequest
<1>14. ASSUME NEW o \in Op, Delete(o) PROVE Bounded'
  BY <1>14, KeyAssumption
     DEF Bounded, Coded, Issuing, Delete, Goto, row, tokens, Administer,
          NoRequest
<1>15. ASSUME NEW o \in Op, FindKey(o) PROVE Bounded'
  BY <1>15, KeyAssumption
     DEF Bounded, Coded, Issuing, FindKey, Goto, row, tokens, Finish,
          NoRequest
<1>16. ASSUME NEW o \in Op, StoreKey(o) PROVE Bounded'
  BY <1>16, KeyAssumption
     DEF Bounded, Coded, Issuing, StoreKey, Goto, row, tokens, Merged,
          NoRequest
<1>17. ASSUME NEW o \in Op, SetKeyInactive(o) PROVE Bounded'
  BY <1>17, KeyAssumption
     DEF Bounded, Coded, Issuing, SetKeyInactive, Goto, row, tokens, Finish,
          NoRequest
<1>18. ASSUME NEW o \in Op, DropKeyInactive(o) PROVE Bounded'
  BY <1>18, KeyAssumption
     DEF Bounded, Coded, Issuing, DropKeyInactive, Goto, row, tokens, Finish,
          NoRequest
<1>19. ASSUME NEW o \in Op, Fail(o) PROVE Bounded'
  BY <1>19, KeyAssumption DEF Bounded, Coded, Issuing, Fail, Goto, row, tokens
<1>20. CASE Tick
  BY <1>20, KeyAssumption DEF Bounded, Coded, Issuing, Tick, row, tokens
<1>21. CASE UNCHANGED vars
  BY <1>21, KeyAssumption DEF Bounded, Coded, Issuing, vars, row, tokens
<1> QED
  BY <1>1, <1>2, <1>3, <1>4, <1>5, <1>6, <1>7, <1>8, <1>9, <1>10, <1>11,
       <1>12, <1>13, <1>14, <1>15, <1>16, <1>17, <1>18, <1>19, <1>20, <1>21
     DEF Next, Step


(* A request that does not administer the key leaves the row and the mark  *)
(* in step.                                                                *)
LEMMA MarkedGoes ==
  ASSUME TypeOK, Coded, Marked, NEW o \in Op, NEW l, NEW r, Goes(o, l, r),
         now' = now, status' = status, mark' = mark, exp' = exp \/ status = "active",
         r.kind \in Administering => r.kind = req[o].kind,
         req[o].kind \in Administering => r.kind \in Administering,
         l \notin Updating
  PROVE  Marked'
<1>0. pc \in [Op -> Label] /\ req \in [Op -> Request]
  BY DEF TypeOK
<1>1. pc'[o] = l /\ req'[o] = r /\ \A p \in Op \ {o} : pc'[p] = pc[p] /\ req'[p] = req[p]
  BY <1>0 DEF Goes
<1>2. InStep => InStep'
  BY DEF InStep, Covered, Stopped
<1>3. \A p \in Op : req'[p].kind \in Administering <=> req[p].kind \in Administering
  BY <1>1
<1>4. Settled' <=> Settled
  BY <1>3 DEF Settled
<1>5. \A p \in Op : pc'[p] \in Updating => p # o
  BY <1>1
<1>6. \A p \in Op : pc'[p] \in {"find", "store"} => InStep'
  BY <1>1, <1>2, <1>5 DEF Marked, Updating
<1>7. \A p \in Op : /\ pc'[p] = "store" => req'[p].from = status /\ status # "gone"
                    /\ pc'[p] = "mark" => status \in Stopped
                    /\ pc'[p] = "lift" => /\ status \notin Stopped
                                          /\ req'[p].from = "disabled" \/ mark <= now
  BY <1>1, <1>5 DEF Marked, Updating
<1> QED
  BY <1>2, <1>3, <1>4, <1>6, <1>7 DEF Marked

(* While one request administers the key, no other does.                   *)
LEMMA Alone ==
  ASSUME TypeOK, Coded, Marked, NEW o \in Op, Settled \/ pc[o] \in Updating
  PROVE  \A p \in Op \ {o} : req[p].kind \notin Administering /\ pc[p] \notin Updating
BY DEF Coded, Fits, Marked, Settled

(* Every step keeps the mark in step with the row.                         *)
LEMMA MarkedStep ==
  ASSUME TypeOK, Coded, Bounded, Marked, [Next]_vars, orderly'
  PROVE  Marked'
<1>0. pc \in [Op -> Label] /\ req \in [Op -> Request]
  BY DEF TypeOK
<1> USE <1>0
<1>1. ASSUME NEW o \in Op, NEW t \in Token, Issue(o, t) PROVE Marked'
  <2>1. Issued(t).kind \notin Administering
    BY DEF Issued, NoRequest, Administering
  <2>2. req[o].kind \notin Administering
    BY <1>1, Starts DEF Coded, Fits, Administering
  <2> QED
    BY <1>1, <2>1, <2>2, Starts, MarkedGoes DEF Quiet, Updating
<1>2. ASSUME NEW o \in Op, Sign(o) PROVE Marked'
  <2>1. NoRequest.kind \notin Administering /\ req[o].kind \notin Administering
    BY <1>2, Signs DEF Coded, Fits, Issuing, Administering, NoRequest
  <2> QED
    BY <1>2, <2>1, Signs, MarkedGoes DEF Updating
<1>3. ASSUME NEW o \in Op, Passing(o) PROVE Marked'
  <2>1. NoRequest.kind \notin Administering
    BY DEF NoRequest, Administering
  <2>2. req[o].kind \notin Administering
    BY <1>3, Passes DEF Coded, Fits, Issuing, Verifying, Beyond, Administering
  <2>3. CASE Goes(o, "idle", NoRequest)
    BY <1>3, <2>1, <2>2, <2>3, Passes, MarkedGoes DEF Quiet, Updating
  <2>4. ASSUME NEW l \in Beyond, Goes(o, l, req[o]) PROVE Marked'
    <3>1. l \notin Updating
      BY DEF Beyond, Updating
    <3> QED
      BY <1>3, <2>2, <2>4, <3>1, Passes, MarkedGoes DEF Quiet
  <2> QED
    BY <1>3, <2>3, <2>4, Passes
<1>4. ASSUME NEW o \in Op, NEW t \in Token, NEW k \in {"bearer", "revoke"},
            Present(o, t, k)
      PROVE Marked'
  <2>1. Asking(o, t, k).kind \notin Administering
    BY DEF Asking, NoRequest, Administering
  <2>2. req[o].kind \notin Administering
    BY <1>4, Starts DEF Coded, Fits, Administering
  <2> QED
    BY <1>4, <2>1, <2>2, Starts, MarkedGoes DEF Quiet, Updating
<1>5. ASSUME NEW o \in Op, NEW s \in Status \union {Unset},
            Update(o, s)
      PROVE Marked'
  <2>1. Quiet /\ Settled /\ Goes(o, "find", Asked("update", s))
    BY <1>5, Asks DEF Update
  <2>2. \A p \in Op \ {o} : /\ pc'[p] \notin Updating
                            /\ req'[p].kind \notin Administering
    BY <2>1, Alone DEF Goes
  <2>3. pc'[o] = "find" /\ InStep'
    BY <2>1 DEF Goes, Quiet, Marked, InStep, Covered
  <2> QED
    BY <2>1, <2>2, <2>3 DEF Marked, Updating, Quiet
<1>6. ASSUME NEW o \in Op, Delete(o) PROVE Marked'
  <2>1. Quiet /\ Settled /\ Goes(o, "find", Asked("delete", "gone"))
    BY <1>6, Asks DEF Delete
  <2>2. \A p \in Op \ {o} : /\ pc'[p] \notin Updating
                            /\ req'[p].kind \notin Administering
    BY <2>1, Alone DEF Goes
  <2>3. pc'[o] = "find" /\ InStep'
    BY <2>1 DEF Goes, Quiet, Marked, InStep, Covered
  <2> QED
    BY <2>1, <2>2, <2>3 DEF Marked, Updating, Quiet
<1>7. ASSUME NEW o \in Op, FindKey(o) PROVE Marked'
  <2>1. \A p \in Op \ {o} : pc'[p] \notin Updating /\ req'[p].kind \notin Administering
    BY <1>7, Alone, Finds DEF Goes, Updating
  <2>2. InStep'
    BY <1>7, Finds DEF Quiet, Marked, InStep, Covered
  <2>3. pc'[o] \in {"idle", "store"} /\ (pc'[o] = "store" => req'[o].from = status)
    BY <1>7, Finds, FoundKeeps DEF Goes
  <2>4. status' = status /\ (pc'[o] = "store" => status # "gone")
    BY <1>7 DEF FindKey, Goto, Finish, row
  <2> QED
    BY <2>1, <2>2, <2>3, <2>4 DEF Marked, Updating
<1>8. ASSUME NEW o \in Op, StoreKey(o) PROVE Marked'
  <2>1. \A p \in Op \ {o} : pc'[p] \notin Updating /\ req'[p].kind \notin Administering
    <3>1. \A p \in Op \ {o} : req[p].kind \notin Administering /\ pc[p] \notin Updating
      BY <1>8, Alone, Stores DEF Updating
    <3> QED
      BY <1>8, <3>1, Stores, StoredKeeps
  <2>2. InStep /\ req[o].from = status /\ status # "gone" /\ mark' = mark /\ exp' = exp /\ now' = now
    BY <1>8, Stores DEF Marked
  <2>3. CASE Merged(o) = req[o].from
    <3>1. pc'[o] = "idle" /\ status' = status
      BY <1>8, <2>2, <2>3, Stores
    <3>2. InStep'
      BY <2>2, <3>1 DEF InStep, Covered
    <3> QED
      BY <2>1, <3>1, <3>2 DEF Marked, Updating
  <2>4. CASE Merged(o) # req[o].from
    <3>1. req'[o].kind \in Administering /\ req'[o].from = status
      BY <1>8, <2>2, <2>4, Stores, StoredKeeps DEF Coded, Fits, Updating
    <3>2. pc'[o] = IF status' \in Stopped THEN "mark" ELSE "lift"
      BY <1>8, <2>4, Stores
    <3>3. status = "disabled" \/ mark <= now
      BY <2>2 DEF InStep, Stopped
    <3>4. ~Settled'
      BY <3>1 DEF Settled
    <3> QED
      BY <2>1, <2>2, <3>1, <3>2, <3>3, <3>4 DEF Marked, Updating
  <2> QED
    BY <2>3, <2>4
<1>9. ASSUME NEW o \in Op, SetKeyInactive(o) \/ DropKeyInactive(o) PROVE Marked'
  <2>1. \A p \in Op \ {o} : pc'[p] \notin Updating /\ req'[p].kind \notin Administering
    BY <1>9, Alone, Marks DEF Goes, Updating
  <2>2. pc'[o] = "idle"
    BY <1>9, Marks DEF Goes
  <2>3. CASE pc[o] = "mark" /\ mark' = now + MarkAge
    <3>1. \A t \in Token : exp[t] <= mark'
      BY <2>3, MarkAgeType, KeyAssumption DEF TypeOK, Bounded
    <3> QED
      BY <1>9, <2>1, <2>2, <2>3, <3>1, Marks
         DEF Marked, InStep, Covered, Updating
  <2>4. CASE pc[o] = "lift" /\ mark' = IF req[o].from = "disabled" THEN 0 ELSE mark
    <3>1. status \notin Stopped /\ mark' <= now
      BY <2>4 DEF Marked, TypeOK
    <3> QED
      BY <1>9, <2>1, <2>2, <3>1, Marks DEF Marked, InStep, Updating
  <2> QED
    BY <1>9, <2>3, <2>4, Marks
<1>10. ASSUME NEW o \in Op, Fail(o) PROVE Marked'
  BY <1>10, Fails, MarkedGoes DEF Quiet, Updating
<1>11. CASE Tick
  <2>1. InStep => InStep'
    BY <1>11 DEF Tick, InStep, Covered, TypeOK, row, tokens
  <2>2. mark <= now => mark <= now'
    BY <1>11 DEF Tick, TypeOK
  <2> QED
    BY <1>11, <2>1, <2>2 DEF Marked, Tick, Settled, row
<1>12. CASE UNCHANGED vars
  BY <1>12 DEF Marked, InStep, Covered, Settled, vars
<1> QED
  BY <1>1, <1>2, <1>3, <1>4, <1>5, <1>6, <1>7, <1>8, <1>9, <1>10, <1>11, <1>12
     DEF Next, Step, Passing


LEMMA LateGoes ==
  ASSUME TypeOK, Late, NEW o \in Op, NEW l, NEW r, Goes(o, l, r),
         now' = now, status' = status, mark' = mark, exp' = exp \/ status = "active",
         r.late => req[o].late /\ r.tok = req[o].tok,
         r.late /\ l \in Beyond => exp[r.tok] <= now
  PROVE  Late'
<1>0. pc \in [Op -> Label] /\ req \in [Op -> Request]
  BY DEF TypeOK
<1>1. pc'[o] = l /\ req'[o] = r /\ \A p \in Op \ {o} : pc'[p] = pc[p] /\ req'[p] = req[p]
  BY <1>0 DEF Goes
<1>2. ASSUME NEW p \in Op, req'[p].late
      PROVE  /\ status \in Stopped /\ Covered /\ exp' = exp
             /\ pc'[p] \in Beyond => exp[req'[p].tok] <= now
  BY <1>1, <1>2 DEF Late, Stopped
<1> QED
  BY <1>2 DEF Late, Covered

(* Every step keeps a late request from a token that lives.                *)
LEMMA LateStep ==
  ASSUME TypeOK, Coded, Bounded, Marked, Late, [Next]_vars
  PROVE  Late'
<1>0. pc \in [Op -> Label] /\ req \in [Op -> Request]
  BY DEF TypeOK
<1> USE <1>0
<1>1. ASSUME NEW o \in Op, NEW t \in Token, Issue(o, t) PROVE Late'
  <2>1. Issued(t).late = FALSE
    BY DEF Issued, NoRequest
  <2> QED
    BY <1>1, <2>1, Starts, LateGoes DEF Quiet
<1>2. ASSUME NEW o \in Op, Sign(o) PROVE Late'
  <2>1. NoRequest.late = FALSE /\ ~req[o].late
    BY <1>2, Signs DEF NoRequest, Late, Stopped, Coded, Fits, Issuing
  <2> QED
    BY <1>2, <2>1, Signs, LateGoes
<1>3. ASSUME NEW o \in Op, Passing(o) PROVE Late'
  <2>1. NoRequest.late = FALSE
    BY DEF NoRequest
  <2>2. CASE Goes(o, "idle", NoRequest)
    BY <1>3, <2>1, <2>2, Passes, LateGoes DEF Quiet
  <2>3. ASSUME NEW l \in Beyond, Goes(o, l, req[o]), pc[o] \in Verifying,
               pc[o] = "keyMark" => mark <= now
        PROVE  Late'
    <3>1. req[o].tok \in Token
      BY <2>3 DEF Coded, Fits
    <3>2. req[o].late => exp[req[o].tok] <= now
      BY <2>3, <3>1 DEF Late, Covered, Verifying, TypeOK
    <3> QED
      BY <1>3, <2>3, <3>2, Passes, LateGoes DEF Quiet
  <2> QED
    BY <1>3, <2>2, <2>3, Passes
<1>4. ASSUME NEW o \in Op, NEW t \in Token, NEW k \in {"bearer", "revoke"},
            Present(o, t, k)
      PROVE Late'
  <2>1. Quiet /\ Goes(o, "keyMark", Asking(o, t, k))
    BY <1>4, Starts
  <2>2. Asking(o, t, k).late => Settled /\ status \in Stopped
    BY DEF Asking, NoRequest
  <2>3. Asking(o, t, k).late => status \in Stopped /\ Covered
    BY <2>2 DEF Marked, InStep
  <2>4. pc'[o] = "keyMark" /\ req'[o] = Asking(o, t, k)
    BY <2>1 DEF Goes
  <2>5. \A p \in Op \ {o} : pc'[p] = pc[p] /\ req'[p] = req[p]
    BY <2>1 DEF Goes
  <2>6. ASSUME NEW p \in Op, req'[p].late
        PROVE  status \in Stopped /\ Covered /\ (pc'[p] \in Beyond => exp[req'[p].tok] <= now)
    BY <2>3, <2>4, <2>5, <2>6 DEF Late, Beyond
  <2> QED
    BY <2>1, <2>6 DEF Late, Covered, Quiet
<1>5. ASSUME NEW o \in Op, NEW s \in Status \union {Unset},
            Update(o, s)
      PROVE Late'
  <2>1. Asked("update", s).late = FALSE
    BY DEF Asked, NoRequest
  <2> QED
    BY <1>5, <2>1, Asks, LateGoes DEF Quiet, Update
<1>6. ASSUME NEW o \in Op, Delete(o) PROVE Late'
  <2>1. Asked("delete", "gone").late = FALSE
    BY DEF Asked, NoRequest
  <2> QED
    BY <1>6, <2>1, Asks, LateGoes DEF Quiet, Delete
<1>7. ASSUME NEW o \in Op, FindKey(o) PROVE Late'
  <2>1. NoRequest.late = FALSE /\ ~Found(o).late
    BY <1>7, Finds, FoundKeeps
       DEF NoRequest, Coded, Fits, Updating, Administering
  <2> QED
    BY <1>7, <2>1, Finds, LateGoes DEF Quiet
<1>8. ASSUME NEW o \in Op, StoreKey(o) PROVE Late'
  <2>0. ~req[o].late
    BY <1>8, Stores DEF Coded, Fits, Updating, Administering
  <2>1. ~req'[o].late
    <3>1. req'[o] = NoRequest \/ req'[o] = Stored(o, Merged(o))
      BY <1>8, Stores
    <3>2. ~NoRequest.late
      BY DEF NoRequest
    <3>3. ~Stored(o, Merged(o)).late
      BY <2>0, StoredKeeps
    <3> QED
      BY <3>1, <3>2, <3>3
  <2>2. ASSUME NEW p \in Op, req'[p].late
        PROVE  /\ status' \in Stopped /\ Covered
               /\ pc'[p] \in Beyond => exp[req'[p].tok] <= now
    <3>1. p # o /\ pc'[p] = pc[p] /\ req'[p] = Stored(p, Merged(o)) /\ status' = Merged(o)
      BY <1>8, <2>1, <2>2, Stores
    <3>2. req[p].late /\ Merged(o) \in Stopped /\ req'[p].tok = req[p].tok
      BY <2>2, <3>1, StoredKeeps
    <3> QED
      BY <3>1, <3>2 DEF Late
  <2> QED
    BY <1>8, <2>2, Stores DEF Late, Covered
<1>9. ASSUME NEW o \in Op, SetKeyInactive(o) \/ DropKeyInactive(o) PROVE Late'
  <2>1. ASSUME NEW p \in Op, req'[p].late
        PROVE  /\ status \in Stopped /\ \A t \in Token : exp[t] <= mark'
               /\ pc'[p] \in Beyond => exp[req'[p].tok] <= now
    <3>1. p # o /\ pc'[p] = pc[p] /\ req'[p] = req[p]
      BY <1>9, <2>1, Marks DEF Goes, NoRequest
    <3>2. status \in Stopped /\ (pc[p] \in Beyond => exp[req[p].tok] <= now)
      BY <2>1, <3>1 DEF Late
    <3>3. mark' = now + MarkAge
      BY <1>9, <3>2, Marks DEF Marked
    <3>4. \A t \in Token : exp[t] <= mark'
      BY <3>3, MarkAgeType, KeyAssumption DEF TypeOK, Bounded
    <3> QED
      BY <3>1, <3>2, <3>4
  <2> QED
    BY <1>9, <2>1, Marks DEF Late, Covered
<1>10. ASSUME NEW o \in Op, Fail(o) PROVE Late'
  <2>1. req[o].late /\ "failed" \in Beyond => exp[req[o].tok] <= now
    BY DEF Beyond
  <2> QED
    BY <1>10, <2>1, Fails, LateGoes DEF Quiet
<1>11. CASE Tick
  <2>1. \A p \in Op : pc[p] \in Verifying => req[p].tok \in Token
    BY DEF Coded, Fits
  <2> QED
    BY <1>11, <2>1 DEF Late, Covered, Tick, TypeOK, row, tokens, Verifying
<1>12. CASE UNCHANGED vars
  BY <1>12 DEF Late, Covered, vars
<1> QED
  BY <1>1, <1>2, <1>3, <1>4, <1>5, <1>6, <1>7, <1>8, <1>9, <1>10, <1>11, <1>12
     DEF Next, Step, Passing

(* Every step keeps a request from a revoked token that lives.             *)
LEMMA DeadStep ==
  ASSUME TypeOK, Coded, Sole, Bounded, Dead, [Next]_vars
  PROVE  Dead'
<1>0. /\ pc \in [Op -> Label] /\ req \in [Op -> Request]
      /\ exp \in [Token -> Nat] /\ now \in Nat /\ inactive \in [Token -> Nat] /\ revoked \subseteq Token
  BY DEF TypeOK
<1> USE <1>0 DEF Request
<1>1. ASSUME NEW o \in Op, NEW t \in Token, Issue(o, t) PROVE Dead'
  BY <1>1, TtlType
     DEF Dead, Sole, Coded, Fits, Verifying, Beyond, Issuing, Issue, Goto,
          row, tokens, NoRequest
<1>2. ASSUME NEW o \in Op, Sign(o) PROVE Dead'
  BY <1>2, TtlType
     DEF Dead, Sole, Coded, Fits, Verifying, Beyond, Issuing, Sign, Goto, row,
          tokens, Finish, NoRequest
<1>3. ASSUME NEW o \in Op, CacheIssued(o) PROVE Dead'
  BY <1>3, TtlType
     DEF Dead, Sole, Coded, Fits, Verifying, Beyond, Issuing, CacheIssued,
          Goto, row, tokens, Finish, NoRequest
<1>4. ASSUME NEW o \in Op, NEW t \in Token, NEW k \in {"bearer", "revoke"},
            Present(o, t, k)
      PROVE Dead'
  BY <1>4, TtlType
     DEF Dead, Sole, Coded, Fits, Verifying, Beyond, Issuing, Present, Goto,
          row, tokens, NoRequest
<1>5. ASSUME NEW o \in Op, CheckKeyMark(o) PROVE Dead'
  BY <1>5, TtlType
     DEF Dead, Sole, Coded, Fits, Verifying, Beyond, Issuing, CheckKeyMark,
          Goto, row, tokens, Finish, NoRequest
<1>6. ASSUME NEW o \in Op, FindClaims(o) PROVE Dead'
  BY <1>6, TtlType
     DEF Dead, Sole, Coded, Fits, Verifying, Beyond, Issuing, FindClaims,
          Goto, row, tokens
<1>7. ASSUME NEW o \in Op, ResolveKey(o) PROVE Dead'
  BY <1>7, TtlType
     DEF Dead, Sole, Coded, Fits, Verifying, Beyond, Issuing, ResolveKey,
          Goto, row, tokens, Finish, NoRequest
<1>8. ASSUME NEW o \in Op, SaveClaims(o) PROVE Dead'
  BY <1>8, TtlType
     DEF Dead, Sole, Coded, Fits, Verifying, Beyond, Issuing, SaveClaims,
          Goto, row, tokens
<1>9. ASSUME NEW o \in Op, CheckInactive(o) PROVE Dead'
  BY <1>9, TtlType
     DEF Dead, Sole, Coded, Fits, Verifying, Beyond, Issuing, CheckInactive,
          Goto, row, tokens, Finish, NoRequest
<1>10. ASSUME NEW o \in Op, Answer(o) PROVE Dead'
  BY <1>10, TtlType
     DEF Dead, Sole, Coded, Fits, Verifying, Beyond, Issuing, Answer, Goto,
          row, tokens, Finish, NoRequest
<1>11. ASSUME NEW o \in Op, RevokeToken(o) PROVE Dead'
  BY <1>11, TtlType
     DEF Dead, Sole, Coded, Fits, Verifying, Beyond, Issuing, RevokeToken,
          Goto, row, tokens, Finish, NoRequest
<1>12. ASSUME NEW o \in Op, RevokeNothing(o) PROVE Dead'
  BY <1>12, TtlType
     DEF Dead, Sole, Coded, Fits, Verifying, Beyond, Issuing, RevokeNothing,
          Goto, row, tokens, Finish, NoRequest
<1>13. ASSUME NEW o \in Op, NEW s \in Status \union {Unset},
            Update(o, s)
      PROVE Dead'
  BY <1>13, TtlType
     DEF Dead, Sole, Coded, Fits, Verifying, Beyond, Issuing, Update, Goto,
          row, tokens, Administer, NoRequest
<1>14. ASSUME NEW o \in Op, Delete(o) PROVE Dead'
  BY <1>14, TtlType
     DEF Dead, Sole, Coded, Fits, Verifying, Beyond, Issuing, Delete, Goto,
          row, tokens, Administer, NoRequest
<1>15. ASSUME NEW o \in Op, FindKey(o) PROVE Dead'
  BY <1>15, TtlType
     DEF Dead, Sole, Coded, Fits, Verifying, Beyond, Issuing, FindKey, Goto,
          row, tokens, Finish, NoRequest
<1>16. ASSUME NEW o \in Op, StoreKey(o) PROVE Dead'
  BY <1>16, TtlType
     DEF Dead, Sole, Coded, Fits, Verifying, Beyond, Issuing, StoreKey, Goto,
          row, tokens, Merged, NoRequest
<1>17. ASSUME NEW o \in Op, SetKeyInactive(o) PROVE Dead'
  BY <1>17, TtlType
     DEF Dead, Sole, Coded, Fits, Verifying, Beyond, Issuing, SetKeyInactive,
          Goto, row, tokens, Finish, NoRequest
<1>18. ASSUME NEW o \in Op, DropKeyInactive(o) PROVE Dead'
  BY <1>18, TtlType
     DEF Dead, Sole, Coded, Fits, Verifying, Beyond, Issuing, DropKeyInactive,
          Goto, row, tokens, Finish, NoRequest
<1>19. ASSUME NEW o \in Op, Fail(o) PROVE Dead'
  BY <1>19, TtlType
     DEF Dead, Sole, Coded, Fits, Verifying, Beyond, Issuing, Fail, Goto, row,
          tokens
<1>20. CASE Tick
  BY <1>20, TtlType
     DEF Dead, Sole, Coded, Fits, Verifying, Beyond, Issuing, Tick, row,
          tokens
<1>21. CASE UNCHANGED vars
  BY <1>21, TtlType
     DEF Dead, Sole, Coded, Fits, Verifying, Beyond, Issuing, vars, row,
          tokens
<1> QED
  BY <1>1, <1>2, <1>3, <1>4, <1>5, <1>6, <1>7, <1>8, <1>9, <1>10, <1>11,
       <1>12, <1>13, <1>14, <1>15, <1>16, <1>17, <1>18, <1>19, <1>20, <1>21
     DEF Next, Step

(* A step that leaves updates orderly found them so.                       *)
LEMMA OrderlyStep ==
  ASSUME TypeOK, [Next]_vars, orderly'
  PROVE  orderly
<1>1. ASSUME NEW o \in Op, NEW k, NEW s, Administer(o, k, s) PROVE orderly
  BY <1>1 DEF Administer
<1>2. ASSUME NEW o \in Op, Step(o) \/ Fail(o) PROVE orderly
  BY <1>2 DEF Step, Fail, Sign, CacheIssued, CheckKeyMark, FindClaims, ResolveKey, SaveClaims,
              CheckInactive, Answer, RevokeToken, RevokeNothing, FindKey, StoreKey,
              SetKeyInactive, DropKeyInactive, row
<1>3. ASSUME NEW o \in Op, NEW t \in Token, NEW k, Issue(o, t) \/ Present(o, t, k) PROVE orderly
  BY <1>3 DEF Issue, Present, row
<1> QED
  BY <1>1, <1>2, <1>3 DEF Next, Update, Delete, Tick, row, vars

LEMMA InitHolds == Init => IInv
<1> SUFFICES ASSUME Init PROVE IInv
  OBVIOUS
<1>1. TypeOK
  BY NoRequestType DEF Init, TypeOK, Label, Status
<1>2. Coded /\ Sole
  BY DEF Init, Coded, Fits, Sole, Issuing, Verifying, Beyond, Updating, NoRequest
<1>3. Bounded
  BY KeyAssumption DEF Init, Bounded, NoRequest
<1>4. Marked /\ Late /\ Dead
  BY DEF Init, Marked, Late, Dead, InStep, Settled, Covered, Administering, NoRequest, Stopped
<1> QED
  BY <1>1, <1>2, <1>3, <1>4 DEF IInv

(* The inductive invariant.                                                *)
THEOREM Inductive == Spec => []IInv
<1>1. IInv /\ [Next]_vars => IInv'
  <2> SUFFICES ASSUME IInv, [Next]_vars PROVE IInv'
    OBVIOUS
  <2>1. TypeOK' /\ Coded' /\ Sole' /\ Bounded' /\ Dead'
    BY TypeStep, CodedStep, SoleStep, BoundedStep, DeadStep DEF IInv
  <2>2. ASSUME orderly' PROVE Marked' /\ Late'
    BY <2>2, OrderlyStep, MarkedStep, LateStep DEF IInv
  <2> QED
    BY <2>1, <2>2 DEF IInv
<1> QED
  BY <1>1, InitHolds, PTL DEF Spec

(* The key, the cache entries and the requests are well formed.            *)
THEOREM TypeCorrect == Spec => []TypeOK
<1>1. IInv => TypeOK
  BY DEF IInv
<1> QED
  BY <1>1, Inductive, PTL

(* A token that has not expired is not served to a request that began when *)
(* its key had stopped, however long the entries of the cache are kept.    *)
THEOREM StoppedKeyBinds == Spec => []StopBinds
<1>1. IInv => StopBinds
  BY DEF IInv, Late, StopBinds, Beyond
<1> QED
  BY <1>1, Inductive, PTL

(* The same for a token whose revocation had been answered.                *)
THEOREM RevocationBinds == Spec => []RevokeBinds
<1>1. IInv => RevokeBinds
  BY DEF IInv, Dead, RevokeBinds
<1> QED
  BY <1>1, Inductive, PTL

(* Between two updates the mark agrees with the row.                       *)
THEOREM MarkAgrees == Spec => []MarkFollowsStatus
<1>1. IInv => MarkFollowsStatus
  BY DEF IInv, Marked, InStep, Covered, MarkFollowsStatus
<1> QED
  BY <1>1, Inductive, PTL

-----------------------------------------------------------------------------
WideTheorems == INSTANCE PermissionReachProofs WITH
    Policies <- WidePolicies, MaxChildren <- Wide, MaxGrants <- 1
HeldTheorems == INSTANCE PermissionReachProofs WITH
    Policies <- HeldPolicies, MaxChildren <- Held, MaxGrants <- 2

(* The walk is the same, instance by instance.                             *)
LEMMA WideEvaluate ==
    /\ WideTheorems!Row = WideReach!Row
    /\ WideTheorems!NoRow = WideReach!NoRow
    /\ \A r, l : WideTheorems!Evaluate(r, l) = WideReach!Evaluate(r, l)
<1>1. /\ WideTheorems!Row = WideReach!Row
      /\ WideTheorems!NoRow = WideReach!NoRow
      /\ WideTheorems!Global = WideReach!Global
      /\ WideTheorems!Nobody = WideReach!Nobody
      /\ WideTheorems!NoPolicy = WideReach!NoPolicy
  BY Zenon DEF WideTheorems!Row, WideReach!Row, WideTheorems!NoRow, WideReach!NoRow,
       WideTheorems!Global, WideReach!Global, WideTheorems!Nobody, WideReach!Nobody,
       WideTheorems!NoPolicy, WideReach!NoPolicy
<1>2. /\ \A b : WideTheorems!Settled(b) = WideReach!Settled(b)
      /\ WideTheorems!Open = WideReach!Open
      /\ \A rows : WideTheorems!OpenOn(rows) = WideReach!OpenOn(rows)
  BY Zenon DEF WideTheorems!Settled, WideReach!Settled, WideTheorems!Open, WideReach!Open,
       WideTheorems!OpenOn, WideReach!OpenOn
<1>3. \A o, i : WideTheorems!Inverted(o, i) = WideReach!Inverted(o, i)
  BY <1>1, <1>2, Zenon DEF WideTheorems!Inverted, WideReach!Inverted
<1>4. \A rows, r, l : WideTheorems!OnRow(rows, r, l) = WideReach!OnRow(rows, r, l)
  BY <1>1, <1>2, Zenon DEF WideTheorems!OnRow, WideReach!OnRow
<1>5. \A s, i, f : WideTheorems!Composite(s, i, f) = WideReach!Composite(s, i, f)
  <2>1. \A s, y, n, o : WideTheorems!Verdict(s, y, n, o) = WideReach!Verdict(s, y, n, o)
    BY Zenon DEF WideTheorems!Verdict, WideReach!Verdict
  <2>2. ASSUME NEW f, NEW is PROVE WideTheorems!Number(f, is) = WideReach!Number(f, is)
    BY Zenon DEF WideTheorems!Number, WideReach!Number, WideTheorems!Cardinality,
         WideReach!Cardinality
  <2>3. \A s, f : WideTheorems!Residual(s, f) = WideReach!Residual(s, f)
    BY Zenon DEF WideTheorems!Residual, WideReach!Residual, WideTheorems!Lowers,
         WideReach!Lowers, WideTheorems!Open, WideReach!Open, WideTheorems!OpenOn,
         WideReach!OpenOn, WideTheorems!Row, WideReach!Row, WideTheorems!Global, WideReach!Global
  <2> QED
    BY <1>2, <1>3, <2>1, <2>2, <2>3, Zenon DEF WideTheorems!Composite, WideReach!Composite
<1>6. ASSUME NEW s, NEW i, NEW w, NEW r, NEW l
      PROVE  WideTheorems!Reach(s, i, w, r, l) = WideReach!Reach(s, i, w, r, l)
  BY Zenon DEF WideTheorems!Reach, WideReach!Reach, WideTheorems!Reaches, WideReach!Reaches,
       WideTheorems!Row, WideReach!Row, WideTheorems!NoRow, WideReach!NoRow,
       WideTheorems!Global, WideReach!Global, WideTheorems!Nobody, WideReach!Nobody,
       WideTheorems!Settled, WideReach!Settled, WideTheorems!Open, WideReach!Open,
       WideTheorems!OpenOn, WideReach!OpenOn, WideTheorems!Inverted, WideReach!Inverted,
       WideTheorems!OnRow, WideReach!OnRow
<1>7. \A f, w, r, l : WideTheorems!Plain(f, w, r, l) = WideReach!Plain(f, w, r, l)
  <2>1. WideTheorems!Matching = WideReach!Matching
    BY Zenon DEF WideTheorems!Matching, WideReach!Matching, WideTheorems!Row, WideReach!Row,
         WideTheorems!Global, WideReach!Global
  <2>2. \A w : {r \in WideTheorems!Row : r.realm = w} = {r \in WideReach!Row : r.realm = w}
    BY Zenon DEF WideTheorems!Row, WideReach!Row, WideTheorems!Global, WideReach!Global
  <2> QED
    BY <1>1, <1>2, <1>4, <2>1, <2>2, Zenon DEF WideTheorems!Plain, WideReach!Plain
<1>8. \A c, w, r, l : WideTheorems!LeafOutcome(c, w, r, l) = WideReach!LeafOutcome(c, w, r, l)
  BY <1>1, <1>3, <1>6, <1>7, Zenon DEF WideTheorems!LeafOutcome, WideReach!LeafOutcome
<1>9. ASSUME NEW g, NEW w, NEW r, NEW l, NEW o
      PROVE  WideTheorems!GrantOutcome(g, w, r, l, o) = WideReach!GrantOutcome(g, w, r, l, o)
  BY <1>1, <1>2, <1>6, <1>8
     DEF WideTheorems!GrantOutcome, WideReach!GrantOutcome
<1>10. \A i, w, r, l : WideTheorems!Binding(i, w, r, l) = WideReach!Binding(i, w, r, l)
  <2> TAKE i, w, r, l
  <2>1. [g \in grants |-> WideTheorems!GrantOutcome(g, w, r, l, junction)]
          = [g \in grants |-> WideReach!GrantOutcome(g, w, r, l, junction)]
    BY <1>9
  <2> QED
    BY <1>1, <1>2, <1>5, <2>1, Zenon DEF WideTheorems!Binding, WideReach!Binding
<1>11. ASSUME NEW r, NEW l PROVE WideTheorems!Evaluate(r, l) = WideReach!Evaluate(r, l)
  <2>1. [c \in tree.children |->
           IF c.leaf = "binding" THEN WideTheorems!Binding(c.invert, actor, r, l)
           ELSE WideTheorems!LeafOutcome(c, actor, r, l)]
        = [c \in tree.children |->
             IF c.leaf = "binding" THEN WideReach!Binding(c.invert, actor, r, l)
             ELSE WideReach!LeafOutcome(c, actor, r, l)]
    BY <1>8, <1>10
  <2> QED
    BY <1>5, <2>1, Zenon DEF WideTheorems!Evaluate, WideReach!Evaluate
<1> QED
  BY <1>1, <1>11

(* A step of the part is a step of the module the theorems are about.      *)
LEMMA WideStep ==
    /\ WideReach!ReachAssumption => WideTheorems!ReachAssumption
    /\ WideReach!Init => WideTheorems!Init
    /\ [WideReach!Next]_(WideReach!vars) => [WideTheorems!Next]_(WideTheorems!vars)
    /\ WideTheorems!ListedIsGranted => WideReach!ListedIsGranted
<1>1. WideReach!ReachAssumption => WideTheorems!ReachAssumption
  BY Zenon DEF WideReach!ReachAssumption, WideTheorems!ReachAssumption, WideReach!Global,
       WideTheorems!Global, WideReach!Nobody, WideTheorems!Nobody, WideReach!NoPolicy,
       WideTheorems!NoPolicy, WideReach!Leaf, WideTheorems!Leaf
<1>2. WideReach!Init => WideTheorems!Init
  BY Zenon DEF WideReach!Init, WideTheorems!Init, WideReach!Tree, WideTheorems!Tree,
       WideReach!Child, WideTheorems!Child, WideReach!Leaf, WideTheorems!Leaf,
       WideReach!Strategy, WideTheorems!Strategy, WideReach!Grant, WideTheorems!Grant,
       WideReach!Scope, WideTheorems!Scope, WideReach!Global, WideTheorems!Global,
       WideReach!Nobody, WideTheorems!Nobody, WideReach!AsksForGrants,
       WideTheorems!AsksForGrants, WideReach!Cardinality, WideTheorems!Cardinality
<1>3. WideTheorems!Granted = WideReach!Granted
  BY WideEvaluate DEF WideReach!Granted, WideTheorems!Granted
<1>4. ASSUME [WideReach!Next]_(WideReach!vars)
      PROVE  [WideTheorems!Next]_(WideTheorems!vars)
  <2>1. CASE WideReach!Gate
    BY <2>1, WideEvaluate DEF WideReach!Gate, WideTheorems!Gate, WideTheorems!Next
  <2>2. CASE WideReach!Compile
    BY <2>2, WideEvaluate, Zenon DEF WideReach!Compile, WideTheorems!Compile, WideTheorems!Next
  <2>3. CASE WideReach!CheckRows
    BY <2>3, <1>3 DEF WideReach!CheckRows, WideTheorems!CheckRows, WideTheorems!Next
  <2>4. CASE UNCHANGED WideReach!vars
    BY <2>4 DEF WideReach!vars, WideTheorems!vars
  <2> QED
    BY <1>4, <2>1, <2>2, <2>3, <2>4 DEF WideReach!Next
<1>5. WideTheorems!ListedIsGranted => WideReach!ListedIsGranted
  BY <1>3 DEF WideReach!ListedIsGranted, WideTheorems!ListedIsGranted, WideReach!Answered,
       WideTheorems!Answered, WideReach!Masked, WideTheorems!Masked
<1> QED
  BY <1>1, <1>2, <1>4, <1>5

LEMMA WideListed ==
    WideReach!Init /\ [][WideReach!Next]_(WideReach!vars) => []WideReach!ListedIsGranted
<1>1. WideTheorems!Spec => []WideTheorems!ListedIsGranted
  BY ReachTyped, WideStep, WideTheorems!ListedIsGrantedHolds
<1> QED
  BY <1>1, WideStep, PTL DEF WideTheorems!Spec

LEMMA HeldEvaluate ==
    /\ HeldTheorems!Row = HeldReach!Row
    /\ HeldTheorems!NoRow = HeldReach!NoRow
    /\ \A r, l : HeldTheorems!Evaluate(r, l) = HeldReach!Evaluate(r, l)
<1>1. /\ HeldTheorems!Row = HeldReach!Row
      /\ HeldTheorems!NoRow = HeldReach!NoRow
      /\ HeldTheorems!Global = HeldReach!Global
      /\ HeldTheorems!Nobody = HeldReach!Nobody
      /\ HeldTheorems!NoPolicy = HeldReach!NoPolicy
  BY Zenon DEF HeldTheorems!Row, HeldReach!Row, HeldTheorems!NoRow, HeldReach!NoRow,
       HeldTheorems!Global, HeldReach!Global, HeldTheorems!Nobody, HeldReach!Nobody,
       HeldTheorems!NoPolicy, HeldReach!NoPolicy
<1>2. /\ \A b : HeldTheorems!Settled(b) = HeldReach!Settled(b)
      /\ HeldTheorems!Open = HeldReach!Open
      /\ \A rows : HeldTheorems!OpenOn(rows) = HeldReach!OpenOn(rows)
  BY Zenon DEF HeldTheorems!Settled, HeldReach!Settled, HeldTheorems!Open, HeldReach!Open,
       HeldTheorems!OpenOn, HeldReach!OpenOn
<1>3. \A o, i : HeldTheorems!Inverted(o, i) = HeldReach!Inverted(o, i)
  BY <1>1, <1>2, Zenon DEF HeldTheorems!Inverted, HeldReach!Inverted
<1>4. \A rows, r, l : HeldTheorems!OnRow(rows, r, l) = HeldReach!OnRow(rows, r, l)
  BY <1>1, <1>2, Zenon DEF HeldTheorems!OnRow, HeldReach!OnRow
<1>5. \A s, i, f : HeldTheorems!Composite(s, i, f) = HeldReach!Composite(s, i, f)
  <2>1. \A s, y, n, o : HeldTheorems!Verdict(s, y, n, o) = HeldReach!Verdict(s, y, n, o)
    BY Zenon DEF HeldTheorems!Verdict, HeldReach!Verdict
  <2>2. ASSUME NEW f, NEW is PROVE HeldTheorems!Number(f, is) = HeldReach!Number(f, is)
    BY Zenon DEF HeldTheorems!Number, HeldReach!Number, HeldTheorems!Cardinality,
         HeldReach!Cardinality
  <2>3. \A s, f : HeldTheorems!Residual(s, f) = HeldReach!Residual(s, f)
    BY Zenon DEF HeldTheorems!Residual, HeldReach!Residual, HeldTheorems!Lowers,
         HeldReach!Lowers, HeldTheorems!Open, HeldReach!Open, HeldTheorems!OpenOn,
         HeldReach!OpenOn, HeldTheorems!Row, HeldReach!Row, HeldTheorems!Global, HeldReach!Global
  <2> QED
    BY <1>2, <1>3, <2>1, <2>2, <2>3, Zenon DEF HeldTheorems!Composite, HeldReach!Composite
<1>6. ASSUME NEW s, NEW i, NEW w, NEW r, NEW l
      PROVE  HeldTheorems!Reach(s, i, w, r, l) = HeldReach!Reach(s, i, w, r, l)
  BY Zenon DEF HeldTheorems!Reach, HeldReach!Reach, HeldTheorems!Reaches, HeldReach!Reaches,
       HeldTheorems!Row, HeldReach!Row, HeldTheorems!NoRow, HeldReach!NoRow,
       HeldTheorems!Global, HeldReach!Global, HeldTheorems!Nobody, HeldReach!Nobody,
       HeldTheorems!Settled, HeldReach!Settled, HeldTheorems!Open, HeldReach!Open,
       HeldTheorems!OpenOn, HeldReach!OpenOn, HeldTheorems!Inverted, HeldReach!Inverted,
       HeldTheorems!OnRow, HeldReach!OnRow
<1>7. \A f, w, r, l : HeldTheorems!Plain(f, w, r, l) = HeldReach!Plain(f, w, r, l)
  <2>1. HeldTheorems!Matching = HeldReach!Matching
    BY Zenon DEF HeldTheorems!Matching, HeldReach!Matching, HeldTheorems!Row, HeldReach!Row,
         HeldTheorems!Global, HeldReach!Global
  <2>2. \A w : {r \in HeldTheorems!Row : r.realm = w} = {r \in HeldReach!Row : r.realm = w}
    BY Zenon DEF HeldTheorems!Row, HeldReach!Row, HeldTheorems!Global, HeldReach!Global
  <2> QED
    BY <1>1, <1>2, <1>4, <2>1, <2>2, Zenon DEF HeldTheorems!Plain, HeldReach!Plain
<1>8. \A c, w, r, l : HeldTheorems!LeafOutcome(c, w, r, l) = HeldReach!LeafOutcome(c, w, r, l)
  BY <1>1, <1>3, <1>6, <1>7, Zenon DEF HeldTheorems!LeafOutcome, HeldReach!LeafOutcome
<1>9. ASSUME NEW g, NEW w, NEW r, NEW l, NEW o
      PROVE  HeldTheorems!GrantOutcome(g, w, r, l, o) = HeldReach!GrantOutcome(g, w, r, l, o)
  BY <1>1, <1>2, <1>6, <1>8
     DEF HeldTheorems!GrantOutcome, HeldReach!GrantOutcome
<1>10. \A i, w, r, l : HeldTheorems!Binding(i, w, r, l) = HeldReach!Binding(i, w, r, l)
  <2> TAKE i, w, r, l
  <2>1. [g \in grants |-> HeldTheorems!GrantOutcome(g, w, r, l, junction)]
          = [g \in grants |-> HeldReach!GrantOutcome(g, w, r, l, junction)]
    BY <1>9
  <2> QED
    BY <1>1, <1>2, <1>5, <2>1, Zenon DEF HeldTheorems!Binding, HeldReach!Binding
<1>11. ASSUME NEW r, NEW l PROVE HeldTheorems!Evaluate(r, l) = HeldReach!Evaluate(r, l)
  <2>1. [c \in tree.children |->
           IF c.leaf = "binding" THEN HeldTheorems!Binding(c.invert, actor, r, l)
           ELSE HeldTheorems!LeafOutcome(c, actor, r, l)]
        = [c \in tree.children |->
             IF c.leaf = "binding" THEN HeldReach!Binding(c.invert, actor, r, l)
             ELSE HeldReach!LeafOutcome(c, actor, r, l)]
    BY <1>8, <1>10
  <2> QED
    BY <1>5, <2>1, Zenon DEF HeldTheorems!Evaluate, HeldReach!Evaluate
<1> QED
  BY <1>1, <1>11

(* A step of the part is a step of the module the theorems are about.      *)
LEMMA HeldStep ==
    /\ HeldReach!ReachAssumption => HeldTheorems!ReachAssumption
    /\ HeldReach!Init => HeldTheorems!Init
    /\ [HeldReach!Next]_(HeldReach!vars) => [HeldTheorems!Next]_(HeldTheorems!vars)
    /\ HeldTheorems!ListedIsGranted => HeldReach!ListedIsGranted
<1>1. HeldReach!ReachAssumption => HeldTheorems!ReachAssumption
  BY Zenon DEF HeldReach!ReachAssumption, HeldTheorems!ReachAssumption, HeldReach!Global,
       HeldTheorems!Global, HeldReach!Nobody, HeldTheorems!Nobody, HeldReach!NoPolicy,
       HeldTheorems!NoPolicy, HeldReach!Leaf, HeldTheorems!Leaf
<1>2. HeldReach!Init => HeldTheorems!Init
  BY Zenon DEF HeldReach!Init, HeldTheorems!Init, HeldReach!Tree, HeldTheorems!Tree,
       HeldReach!Child, HeldTheorems!Child, HeldReach!Leaf, HeldTheorems!Leaf,
       HeldReach!Strategy, HeldTheorems!Strategy, HeldReach!Grant, HeldTheorems!Grant,
       HeldReach!Scope, HeldTheorems!Scope, HeldReach!Global, HeldTheorems!Global,
       HeldReach!Nobody, HeldTheorems!Nobody, HeldReach!AsksForGrants,
       HeldTheorems!AsksForGrants, HeldReach!Cardinality, HeldTheorems!Cardinality
<1>3. HeldTheorems!Granted = HeldReach!Granted
  BY HeldEvaluate DEF HeldReach!Granted, HeldTheorems!Granted
<1>4. ASSUME [HeldReach!Next]_(HeldReach!vars)
      PROVE  [HeldTheorems!Next]_(HeldTheorems!vars)
  <2>1. CASE HeldReach!Gate
    BY <2>1, HeldEvaluate DEF HeldReach!Gate, HeldTheorems!Gate, HeldTheorems!Next
  <2>2. CASE HeldReach!Compile
    BY <2>2, HeldEvaluate, Zenon DEF HeldReach!Compile, HeldTheorems!Compile, HeldTheorems!Next
  <2>3. CASE HeldReach!CheckRows
    BY <2>3, <1>3 DEF HeldReach!CheckRows, HeldTheorems!CheckRows, HeldTheorems!Next
  <2>4. CASE UNCHANGED HeldReach!vars
    BY <2>4 DEF HeldReach!vars, HeldTheorems!vars
  <2> QED
    BY <1>4, <2>1, <2>2, <2>3, <2>4 DEF HeldReach!Next
<1>5. HeldTheorems!ListedIsGranted => HeldReach!ListedIsGranted
  BY <1>3 DEF HeldReach!ListedIsGranted, HeldTheorems!ListedIsGranted, HeldReach!Answered,
       HeldTheorems!Answered, HeldReach!Masked, HeldTheorems!Masked
<1> QED
  BY <1>1, <1>2, <1>4, <1>5

LEMMA HeldListed ==
    HeldReach!Init /\ [][HeldReach!Next]_(HeldReach!vars) => []HeldReach!ListedIsGranted
<1>1. HeldTheorems!Spec => []HeldTheorems!ListedIsGranted
  BY ReachTyped, HeldStep, HeldTheorems!ListedIsGrantedHolds
<1> QED
  BY <1>1, HeldStep, PTL DEF HeldTheorems!Spec


(* The part that moves is chosen once, and a step is one of its own.       *)
LEMMA PartSteps ==
    ASSUME [RequestNext]_<<part, vars, listVars>>
    PROVE  /\ part' = part
           /\ part = "key" => UNCHANGED listVars
           /\ [Next]_vars
           /\ part = "wide" => [WideReach!Next]_(WideReach!vars)
           /\ part = "held" => [HeldReach!Next]_(HeldReach!vars)
BY Zenon DEF RequestNext, listVars, WideReach!vars, HeldReach!vars

(* The composition behaves as its key part says.                           *)
THEOREM RequestImplementsKey == RequestSpec => Spec
<1>1. RequestInit => Init
  BY DEF RequestInit
<1> QED
  BY <1>1, PartSteps, PTL DEF RequestSpec, Spec

(* A list shows the rows a check of each would grant, with several         *)
(* policies over one grant and with several grants.                        *)
THEOREM ListedIsGrantedHolds == RequestSpec => []ListedIsGranted
<1> DEFINE Key == part = "key"
           WidePart == part = "wide"
           HeldPart == part = "held"
<1>1. RequestInit =>
        \/ Key
        \/ WidePart /\ WideReach!Init
        \/ HeldPart /\ HeldReach!Init
  BY DEF RequestInit
<1>2. [RequestNext]_<<part, vars, listVars>> =>
        /\ Key => Key'
        /\ WidePart => WidePart' /\ [WideReach!Next]_(WideReach!vars)
        /\ HeldPart => HeldPart' /\ [HeldReach!Next]_(HeldReach!vars)
  BY PartSteps
<1>3. /\ Key => ListedIsGranted
      /\ WidePart /\ WideReach!ListedIsGranted => ListedIsGranted
      /\ HeldPart /\ HeldReach!ListedIsGranted => ListedIsGranted
  BY DEF ListedIsGranted
<1> HIDE DEF Key, WidePart, HeldPart
<1> QED
  BY <1>1, <1>2, <1>3, WideListed, HeldListed, PTL DEF RequestSpec

=============================================================================
