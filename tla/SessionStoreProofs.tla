------------------------- MODULE SessionStoreProofs -------------------------
(***************************************************************************)
(* Proofs about SessionStore, for any number of sessions, requests and     *)
(* sweeping replicas: the types, the life of a session, and that a removed *)
(* session is neither written again nor left readable.                     *)
(***************************************************************************)
EXTENDS SessionStore, TLAPS

-----------------------------------------------------------------------------
(* A session read from a row or an entry is not the absent one.            *)
LEMMA ValuesNotAbsent == \A f \in Values : f # Absent
<1> SUFFICES ASSUME NEW f \in Values PROVE f # Absent
  OBVIOUS
<1>1. DOMAIN f = Column
  BY DEF Values
<1>2. DOMAIN Absent = {}
  BY DEF Absent
<1> QED
  BY <1>1, <1>2 DEF Column

(* A patch merged into a session is a session.                             *)
LEMMA ApplyType ==
  ASSUME NEW f \in Values, NEW patch \in Patches \union {Absent}
  PROVE  Apply(f, patch) \in Values
<1>1. \A c \in DOMAIN patch : patch[c] \in Nat
  BY DEF Patches, Absent
<1> QED
  BY <1>1 DEF Apply, Values

(* What ping, refresh and the MFA stamp move has the shape of a patch.     *)
LEMMA PatchType == ASSUME NEW k, NEW t \in Nat PROVE PatchOf(k, t) \in Patches
<1>1. t + MaxAge \in Nat
  BY StoreAssumption
<1> QED
  BY <1>1 DEF PatchOf, Patches

(* The request a process is left with is well typed.                       *)
LEMMA NoRequestType == NoRequest \in Requests
<1>1. (CHOOSE s \in Session : TRUE) \in Session
  BY StoreAssumption
<1> QED
  BY <1>1 DEF NoRequest, Requests

-----------------------------------------------------------------------------
(* Every step of a request keeps the types.                                *)
LEMMA StepType == ASSUME TypeOK, NEW o \in Op, Step(o) PROVE TypeOK'
<1> USE DEF TypeOK, Labels, Fates
<1>a. req[o] \in Requests /\ req[o].sid \in Session
  BY DEF Requests
<1>b. NoRequest \in Requests
  BY NoRequestType
<1>1. CASE Fill(o)
  <2>1. req[o].copy \in Values
    BY <1>1 DEF Fill, Requests
  <2> QED
    BY <1>1, <1>a, <1>b, <2>1 DEF Fill, Finish, Goto
<1>2. CASE FindHit(o)
  <2>1. cache[req[o].sid] \in Values
    BY <1>2, <1>a DEF FindHit, Live
  <2>2. req' \in [Op -> Requests] /\ req'[o].copy # Absent
    BY <1>2, <2>1 DEF FindHit, Hold, Live, Requests
  <2> QED
    BY <1>2, <1>a, <2>2 DEF FindHit, Hold, Goto, AfterFind
<1>3. CASE FindMiss(o)
  BY <1>3 DEF FindMiss, Goto
<1>4. CASE Load(o)
  <2>1. row[req[o].sid] \in Values
    BY <1>4, <1>a DEF Load
  <2>2. req' \in [Op -> Requests] /\ req'[o].copy # Absent
    BY <1>4, <2>1 DEF Load, Hold, Requests
  <2> QED
    BY <1>4, <1>a, <2>2 DEF Load, Hold, Goto, AfterFind
<1>5. CASE FindBySecret(o)
  <2>1. row[req[o].sid] \in Values
    BY <1>5, <1>a DEF FindBySecret
  <2>2. req' \in [Op -> Requests] /\ req'[o].copy # Absent
    BY <1>5, <2>1 DEF FindBySecret, Hold, Requests
  <2> QED
    BY <1>5, <1>a, <2>2 DEF FindBySecret, Hold, Goto
<1>6. CASE NotFound(o)
  BY <1>6, <1>b DEF NotFound, Finish, Goto
<1>7. CASE VerifyExpired(o)
  BY <1>7 DEF VerifyExpired, Goto
<1>8. CASE VerifyOnly(o)
  BY <1>8, <1>b DEF VerifyOnly, Finish, Goto
<1>9. CASE VerifyThenUpdate(o)
  BY <1>9 DEF VerifyThenUpdate, Goto
<1>10. CASE Merge(o)
  <2> DEFINE moved == PatchOf(req[o].kind, now)
             base == IF Live(req[o].sid) THEN cache[req[o].sid] ELSE req[o].copy
  <2>1. base \in Values
    BY <1>10, <1>a DEF Merge, Live, Requests
  <2>2. moved \in Patches
    BY PatchType
  <2>3. Apply(base, moved) \in Values
    BY <2>1, <2>2, ApplyType
  <2>4. Apply(base, moved) # Absent
    BY <2>3, ValuesNotAbsent
  <2> HIDE DEF moved, base
  <2>5. req' = [req EXCEPT ![o].copy = Apply(base, moved), ![o].patch = moved]
    BY <1>10 DEF Merge, moved, base
  <2>6. [req[o] EXCEPT !.copy = Apply(base, moved), !.patch = moved] \in Requests
    BY <1>a, <2>2, <2>3 DEF Requests
  <2>7. req' \in [Op -> Requests]
    BY <2>5, <2>6
  <2>8. req'[o].copy # Absent /\ \A p \in Op : p # o => req'[p] = req[p]
    BY <1>a, <2>4, <2>5 DEF Requests
  <2> QED
    BY <1>10, <2>7, <2>8 DEF Merge, Goto
<1>11. CASE Set(o)
  <2>1. req[o].copy \in Values
    BY <1>11 DEF Set, Requests
  <2> QED
    BY <1>11, <1>a, <2>1 DEF Set, Goto
<1>12. CASE SetRefused(o)
  BY <1>12, <1>b DEF SetRefused, Finish, Goto
<1>13. CASE Write(o)
  <2>1. row[req[o].sid] \in Values /\ req[o].patch \in Patches \union {Absent}
    BY <1>13, <1>a DEF Write, Requests
  <2>2. Apply(row[req[o].sid], req[o].patch) \in Values
    BY <2>1, ApplyType
  <2>3. row' \in [Session -> Values \union {Absent}]
    BY <1>13, <1>a, <2>2 DEF Write
  <2> QED
    BY <1>13, <1>b, <2>3 DEF Write, Finish, Goto
<1>14. CASE WriteRefused(o)
  BY <1>14 DEF WriteRefused, Goto
<1>15. CASE Drop(o)
  BY <1>15, <1>a, <1>b DEF Drop, Finish, Goto
<1>16. CASE Resolve(o)
  <2>1. PICK t \in BOOLEAN : req' = [req EXCEPT ![o].told = t]
    BY <1>16 DEF Resolve
  <2>2. [req[o] EXCEPT !.told = t] \in Requests
    BY <1>a DEF Requests
  <2>3. req' \in [Op -> Requests]
    BY <2>1, <2>2
  <2>4. \A p \in Op : req'[p].copy = req[p].copy
    BY <2>1 DEF Requests
  <2> QED
    BY <1>16, <2>3, <2>4 DEF Resolve, Goto
<1>17. CASE Remove(o)
  BY <1>17, <1>a DEF Remove, Goto, EndOf
<1>18. CASE Evict(o)
  BY <1>18, <1>a, <1>b DEF Evict, Finish, Goto
<1>19. CASE Notify(o)
  BY <1>19, <1>b DEF Notify, Finish, Goto
<1> QED
  BY <1>1, <1>2, <1>3, <1>4, <1>5, <1>6, <1>7, <1>8, <1>9, <1>10, <1>11, <1>12, <1>13,
     <1>14, <1>15, <1>16, <1>17, <1>18, <1>19 DEF Step

(* Every step of the store keeps the types.                                *)
LEMMA NextType == ASSUME TypeOK, [Next]_vars PROVE TypeOK'
<1>1. ASSUME NEW o \in Op, NEW s \in Session, NEW lifetime \in Lifetimes, Insert(o, s, lifetime)
      PROVE  TypeOK'
  <2> DEFINE session == [c \in Column |-> IF c = "expiresAt" THEN now + lifetime ELSE Never]
             opened == [NoRequest EXCEPT !.kind = "create", !.sid = s, !.copy = session]
  <2>1. session \in Values
    BY StoreAssumption DEF TypeOK, Values, Never
  <2>2. session # Absent
    BY <2>1, ValuesNotAbsent
  <2> HIDE DEF session
  <2>3. opened \in Requests /\ opened.copy # Absent
    BY NoRequestType, <2>1, <2>2 DEF Requests, AllKinds, NoRequest
  <2> HIDE DEF opened
  <2>4. row' = [row EXCEPT ![s] = session] /\ req' = [req EXCEPT ![o] = opened]
    BY <1>1 DEF Insert, session, opened
  <2>5. row' \in [Session -> Values \union {Absent}] /\ req' \in [Op -> Requests]
    BY <2>1, <2>3, <2>4 DEF TypeOK
  <2>6. \A p \in Op : req'[p] = req[p] \/ (p = o /\ req'[p].copy # Absent)
    BY <2>3, <2>4 DEF TypeOK
  <2>7. pc' \in [Op -> Labels] /\ fate' \in [Session -> Fates]
    BY <1>1 DEF Insert, TypeOK, Goto, Labels, Fates
  <2>8. \A p \in Op : pc'[p] = pc[p] \/ p = o
    BY <1>1 DEF Insert, TypeOK, Goto
  <2>9. \A p \in Op : pc'[p] \in {"fill", "verify", "merge", "set"} => req'[p].copy # Absent
    BY <2>3, <2>4, <2>6, <2>8 DEF TypeOK
  <2> QED
    BY <1>1, <2>5, <2>7, <2>9 DEF Insert, TypeOK
<1>2. ASSUME NEW o \in Op, NEW s \in Session, NEW k \in AllKinds, Start(o, s, k)
      PROVE  TypeOK'
  <2> DEFINE begun == [NoRequest EXCEPT !.kind = k, !.sid = s, !.late = s \in returned]
  <2>1. begun \in Requests
    <3>1. (s \in returned) \in BOOLEAN
      OBVIOUS
    <3> QED
      BY <3>1, NoRequestType DEF Requests
  <2> HIDE DEF begun
  <2>2. req' = [req EXCEPT ![o] = begun]
    BY <1>2 DEF Start, begun
  <2> QED
    BY <1>2, <2>1, <2>2 DEF Start, TypeOK, Goto, Labels
<1>3. ASSUME NEW o \in Op, Step(o) PROVE TypeOK'
  BY <1>3, StepType
<1>4. ASSUME NEW o \in Op, Fail(o) PROVE TypeOK'
  BY <1>4 DEF Fail, TypeOK, Goto, Labels
<1>5. ASSUME NEW w \in Sweeper, SweepFind(w) PROVE TypeOK'
  BY <1>5 DEF SweepFind, TypeOK
<1>6. ASSUME NEW w \in Sweeper, SweepDelete(w) PROVE TypeOK'
  BY <1>6 DEF SweepDelete, TypeOK, EndOf, Fates
<1>7. ASSUME NEW s \in Session, CacheLoss(s) PROVE TypeOK'
  BY <1>7 DEF CacheLoss, TypeOK
<1>8. CASE Tick
  BY <1>8 DEF Tick, TypeOK
<1>9. CASE UNCHANGED vars
  BY <1>9 DEF vars, TypeOK
<1> QED
  BY <1>1, <1>2, <1>3, <1>4, <1>5, <1>6, <1>7, <1>8, <1>9 DEF Next

(* The state always has the types TypeOK gives it.                         *)
THEOREM TypeCorrect == Spec => []TypeOK
<1>1. Init => TypeOK
  BY NoRequestType DEF Init, TypeOK, Labels, Fates
<1>2. TypeOK /\ [Next]_vars => TypeOK'
  BY NextType
<1> QED
  BY <1>1, <1>2, PTL DEF Spec

-----------------------------------------------------------------------------
(* The inductive invariant: Lifecycle ties rows, fates and the requests    *)
(* under way, which is what the properties of a removed session rest on.   *)
Inv == TypeOK /\ Lifecycle

(* Every step of a request keeps the life of the sessions.                 *)
LEMMA StepLifecycle == ASSUME Inv, NEW o \in Op, Step(o) PROVE Lifecycle'
<1>a. req[o].sid \in Session /\ NoRequest.late = FALSE
  BY DEF Inv, TypeOK, Requests, NoRequest
<1>b. pc \in [Op -> Labels] /\ req \in [Op -> Requests] /\ fate \in [Session -> Fates]
  BY DEF Inv, TypeOK
<1>c. Lifecycle
  BY DEF Inv
<1> DEFINE quiet == Labels \ {"evict", "notify", "fill"}
<1>1. CASE Fill(o)
  BY <1>1, <1>a, <1>b, <1>c DEF Fill, Finish, Goto, Fates, Lifecycle, Gone
<1>2. CASE FindHit(o) \/ FindMiss(o) \/ Load(o) \/ FindBySecret(o) \/ NotFound(o)
  <2>1. \A p \in Op : (req'[p].sid = req[p].sid /\ req'[p].late = req[p].late) \/ pc'[p] = "idle"
    BY <1>2, <1>b DEF FindHit, FindMiss, Load, FindBySecret, NotFound, Hold, Finish, Goto, Requests
  <2>2. pc[o] # "idle" /\ \E l \in quiet : pc' = [pc EXCEPT ![o] = l]
    BY <1>2, <1>b DEF FindHit, FindMiss, Load, FindBySecret, NotFound, Finish, Goto, AfterFind, Labels
  <2> QED
    BY <1>2, <1>a, <1>b, <1>c, <2>1, <2>2 DEF FindHit, FindMiss, Load, FindBySecret, NotFound, Lifecycle
<1>3. CASE VerifyExpired(o) \/ VerifyOnly(o) \/ VerifyThenUpdate(o) \/ SetRefused(o) \/ WriteRefused(o) \/ Notify(o) \/ Set(o) \/ Drop(o)
  <2>1. \A p \in Op : req'[p] = req[p] \/ pc'[p] = "idle"
    BY <1>3, <1>b DEF VerifyExpired, VerifyOnly, VerifyThenUpdate, SetRefused, WriteRefused, Notify, Set, Drop, Finish, Goto
  <2>2. pc[o] # "idle" /\ \E l \in quiet : pc' = [pc EXCEPT ![o] = l]
    BY <1>3, <1>b DEF VerifyExpired, VerifyOnly, VerifyThenUpdate, SetRefused, WriteRefused, Notify, Set, Drop, Finish, Goto, Labels
  <2>3. UNCHANGED <<row, fate, returned>>
    BY <1>3 DEF VerifyExpired, VerifyOnly, VerifyThenUpdate, SetRefused, WriteRefused, Notify, Set, Drop
  <2> QED
    BY <1>a, <1>b, <1>c, <2>1, <2>2, <2>3 DEF Lifecycle
<1>4. CASE Merge(o) \/ Resolve(o)
  <2>1. \A p \in Op : req'[p].sid = req[p].sid /\ req'[p].late = req[p].late
    BY <1>4, <1>b DEF Merge, Resolve, Requests
  <2>2. pc[o] # "idle" /\ \E l \in quiet : pc' = [pc EXCEPT ![o] = l]
    BY <1>4, <1>b DEF Merge, Resolve, Goto, Labels
  <2> QED
    BY <1>4, <1>a, <1>b, <1>c, <2>1, <2>2 DEF Merge, Resolve, Lifecycle
<1>5. CASE Write(o)
  <2>1. Apply(row[req[o].sid], req[o].patch) # Absent
    <3>1. row[req[o].sid] \in Values /\ req[o].patch \in Patches \union {Absent}
      BY <1>5, <1>a DEF Write, Inv, TypeOK, Requests
    <3> QED
      BY <3>1, ApplyType, ValuesNotAbsent
  <2>2. \A s \in Session : row'[s] # Absent <=> row[s] # Absent
    BY <1>5, <1>a, <2>1 DEF Write, Inv, TypeOK
  <2> QED
    BY <1>5, <1>a, <1>b, <1>c, <2>2 DEF Write, Finish, Goto, Lifecycle
<1>6. CASE Remove(o)
  <2>1. fate'[req[o].sid] \in Gone
    BY <1>6, <1>a, <1>b, <1>c DEF Remove, EndOf, Fates, Lifecycle, Gone
  <2>2. /\ row'[req[o].sid] = Absent
        /\ \A s \in Session : s # req[o].sid => fate'[s] = fate[s] /\ row'[s] = row[s]
    BY <1>6, <1>a, <1>b DEF Remove, Inv, TypeOK
  <2>3. \A s \in Session : fate[s] \in {"opening", "aborted"} => fate'[s] \in {"opening", "aborted"}
    BY <1>6, <1>a, <1>b DEF Remove, EndOf
  <2> QED
    BY <1>6, <1>a, <1>b, <1>c, <2>1, <2>2, <2>3 DEF Remove, Goto, Lifecycle, Gone
<1>7. CASE Evict(o)
  <2>1. \A p \in Op : req'[p] = req[p] \/ pc'[p] = "idle"
    BY <1>7, <1>b DEF Evict, Finish, Goto
  <2>2. pc[o] = "evict" /\ \E l \in {"notify", "idle"} : pc' = [pc EXCEPT ![o] = l]
    BY <1>7, <1>b DEF Evict, Finish, Goto
  <2>3. returned' = returned \union {req[o].sid} /\ UNCHANGED <<row, fate>>
    BY <1>7 DEF Evict
  <2> QED
    BY <1>a, <1>b, <1>c, <2>1, <2>2, <2>3 DEF Lifecycle, Gone
<1> QED
  BY <1>1, <1>2, <1>3, <1>4, <1>5, <1>6, <1>7 DEF Step

(* Every step of the store keeps the life of the sessions.                 *)
LEMMA NextLifecycle == ASSUME Inv, [Next]_vars PROVE Lifecycle'
<1>a. /\ pc \in [Op -> Labels] /\ req \in [Op -> Requests]
      /\ fate \in [Session -> Fates] /\ row \in [Session -> Values \union {Absent}]
  BY DEF Inv, TypeOK
<1>b. Lifecycle
  BY DEF Inv
<1>1. ASSUME NEW o \in Op, NEW s \in Session, NEW lifetime \in Lifetimes, Insert(o, s, lifetime)
      PROVE  Lifecycle'
  <2> DEFINE session == [c \in Column |-> IF c = "expiresAt" THEN now + lifetime ELSE Never]
  <2>1. session # Absent
    BY ValuesNotAbsent, StoreAssumption DEF Inv, TypeOK, Values, Never
  <2> HIDE DEF session
  <2>2. /\ fate[s] = "unborn" /\ fate' = [fate EXCEPT ![s] = "opening"]
        /\ row' = [row EXCEPT ![s] = session] /\ returned' = returned
        /\ pc[o] = "idle" /\ pc' = [pc EXCEPT ![o] = "fill"]
    BY <1>1 DEF Insert, Goto, session
  <2>3. /\ req'[o].sid = s /\ req'[o].late = FALSE
        /\ \A p \in Op : p # o => req'[p] = req[p]
    BY <1>1, <1>a DEF Insert, NoRequest
  <2> QED
    BY <1>a, <1>b, <2>1, <2>2, <2>3 DEF Lifecycle, Gone, Inv, TypeOK
<1>2. ASSUME NEW o \in Op, NEW s \in Session, NEW k \in AllKinds, Start(o, s, k)
      PROVE  Lifecycle'
  <2>1. /\ req'[o].sid = s /\ (req'[o].late => s \in returned)
        /\ \A p \in Op : p # o => req'[p] = req[p]
    BY <1>2, <1>a DEF Start, NoRequest
  <2>2. \E l \in {"find", "bySecret"} : pc' = [pc EXCEPT ![o] = l]
    BY <1>2 DEF Start, Goto
  <2>3. UNCHANGED <<row, fate, returned>> /\ fate[s] # "unborn"
    BY <1>2, <1>b DEF Start, Lifecycle
  <2> QED
    BY <1>a, <1>b, <2>1, <2>2, <2>3 DEF Lifecycle
<1>3. ASSUME NEW o \in Op, Step(o) PROVE Lifecycle'
  BY <1>3, StepLifecycle
<1>4. ASSUME NEW o \in Op, Fail(o) PROVE Lifecycle'
  BY <1>4, <1>a, <1>b DEF Fail, Goto, Lifecycle
<1>5. ASSUME NEW w \in Sweeper, SweepFind(w) PROVE Lifecycle'
  BY <1>5, <1>b DEF SweepFind, Lifecycle
<1>6. ASSUME NEW w \in Sweeper, SweepDelete(w) PROVE Lifecycle'
  <2>1. \A s \in Session :
          IF s \in batch[w] THEN row'[s] = Absent /\ fate'[s] = EndOf(fate[s], "swept")
                            ELSE row'[s] = row[s] /\ fate'[s] = fate[s]
    BY <1>6 DEF SweepDelete
  <2>2. \A s \in Session : /\ fate'[s] \in {"opening", "open"} <=>
                                (fate[s] \in {"opening", "open"} /\ s \notin batch[w])
                           /\ fate[s] \in Gone => fate'[s] \in Gone
                           /\ fate[s] # "unborn" => fate'[s] # "unborn"
                           /\ fate[s] \in {"opening", "aborted"} => fate'[s] \in {"opening", "aborted"}
    BY <2>1, <1>a DEF EndOf, Gone, Fates
  <2>3. UNCHANGED <<pc, req, returned>> /\ \A o \in Op : req[o].sid \in Session
    BY <1>6, <1>a DEF SweepDelete, Requests
  <2> QED
    BY <1>a, <1>b, <2>1, <2>2, <2>3 DEF Lifecycle, Inv, TypeOK
<1>7. ASSUME NEW s \in Session, CacheLoss(s) PROVE Lifecycle'
  BY <1>7, <1>b DEF CacheLoss, Lifecycle
<1>8. CASE Tick
  BY <1>8, <1>b DEF Tick, Lifecycle
<1>9. CASE UNCHANGED vars
  BY <1>9, <1>b DEF vars, Lifecycle
<1> QED
  BY <1>1, <1>2, <1>3, <1>4, <1>5, <1>6, <1>7, <1>8, <1>9 DEF Next

(* Lifecycle is inductive together with the types.                         *)
LEMMA InvHolds == Spec => []Inv
<1>1. Init => Inv
  <2>1. Init => TypeOK
    BY NoRequestType DEF Init, TypeOK, Labels, Fates
  <2>2. Init => Lifecycle
    BY DEF Init, Lifecycle
  <2> QED
    BY <2>1, <2>2 DEF Inv
<1>2. Inv /\ [Next]_vars => Inv'
  BY NextType, NextLifecycle DEF Inv
<1> QED
  BY <1>1, <1>2, PTL DEF Spec

(* The row exists from the insert to the removal, one request creates a    *)
(* session, and requests past a removal, or late, are on a session that is *)
(* gone.                                                                   *)
THEOREM LifecycleHolds == Spec => []Lifecycle
<1>1. Inv => Lifecycle
  BY DEF Inv
<1> QED
  BY <1>1, InvHolds, PTL

-----------------------------------------------------------------------------
UnsettledLabels == {"write", "drop", "evict", "failed"}

(* A step after which session s keeps its fate, keeps or loses its entry,  *)
(* and keeps the requests that have yet to settle.                         *)
Frame(s) ==
    /\ now' >= now
    /\ cache'[s] \in {cache[s], Absent}
    /\ fate'[s] = "ended" => fate[s] = "ended"
    /\ \A p \in Op : pc[p] \in UnsettledLabels /\ req[p].sid = s
         => pc'[p] \in UnsettledLabels /\ req'[p].sid = s

(* Such a step does not make a removed session readable.                   *)
LEMMA FrameKeeps ==
  ASSUME Inv, EndedIsUnreadable, NEW s \in Session, Frame(s), now' \in Nat
  PROVE  fate'[s] = "ended" /\ Live(s)' => Unsettled(s)'
<1> SUFFICES ASSUME fate'[s] = "ended", Live(s)' PROVE Unsettled(s)'
  OBVIOUS
<1>1. cache'[s] = cache[s] /\ cache[s] # Absent
  BY DEF Frame, Live
<1>2. cache[s]["expiresAt"] \in Nat
  BY <1>1 DEF Inv, TypeOK, Values, Column
<1>3. Live(s)
  BY <1>1, <1>2 DEF Frame, Live, Inv, TypeOK
<1>4. PICK p \in Op : req[p].sid = s /\ pc[p] \in UnsettledLabels
  BY <1>3 DEF EndedIsUnreadable, Unsettled, UnsettledLabels, Frame
<1> QED
  BY <1>4 DEF Frame, Unsettled, UnsettledLabels

(* No step makes a removed session readable without a writer under way.    *)
LEMMA NextUnreadable ==
  ASSUME Inv, EndedIsUnreadable, [Next]_vars
  PROVE  EndedIsUnreadable'
<1>a. /\ pc \in [Op -> Labels] /\ req \in [Op -> Requests] /\ now \in Nat
      /\ fate \in [Session -> Fates] /\ cache \in [Session -> Values \union {Absent}]
      /\ row \in [Session -> Values \union {Absent}]
  BY DEF Inv, TypeOK
<1>b. Lifecycle /\ TypeOK /\ TypeOK'
  BY NextType DEF Inv
<1>c. now' \in Nat
  BY <1>b DEF TypeOK
<1> SUFFICES ASSUME NEW s \in Session PROVE fate'[s] = "ended" /\ Live(s)' => Unsettled(s)'
  BY DEF EndedIsUnreadable
<1>1. ASSUME NEW o \in Op, NEW t \in Session, NEW lifetime \in Lifetimes, Insert(o, t, lifetime)
      PROVE  Frame(s)
  BY <1>1, <1>a DEF Insert, Frame, Goto, UnsettledLabels
<1>2. ASSUME NEW o \in Op, NEW t \in Session, NEW k \in AllKinds, Start(o, t, k)
      PROVE  Frame(s)
  BY <1>2, <1>a DEF Start, Frame, Goto, UnsettledLabels
<1>3. ASSUME NEW o \in Op, Step(o)
      PROVE  fate'[s] = "ended" /\ Live(s)' => Unsettled(s)'
  <2>a. req[o].sid \in Session
    BY <1>a DEF Requests
  <2>1. CASE Fill(o)
    <3>1. CASE s = req[o].sid
      <4>1. fate'[s] # "ended"
        BY <2>1, <3>1, <1>a, <1>b, <2>a DEF Fill, Lifecycle
      <4> QED
        BY <4>1
    <3>2. CASE s # req[o].sid
      <4>1. Frame(s)
        BY <2>1, <3>2, <1>a, <2>a DEF Fill, Frame, Finish, Goto, UnsettledLabels
      <4> QED
        BY <4>1, <1>c, FrameKeeps
    <3> QED
      BY <3>1, <3>2
  <2>2. CASE FindHit(o) \/ FindMiss(o) \/ Load(o) \/ FindBySecret(o) \/ NotFound(o)
    <3>1. Frame(s)
      BY <2>2, <1>a DEF FindHit, FindMiss, Load, FindBySecret, NotFound, Frame, Hold, Finish, Goto, UnsettledLabels
    <3> QED
      BY <3>1, <1>c, FrameKeeps
  <2>3. CASE VerifyExpired(o) \/ VerifyOnly(o) \/ VerifyThenUpdate(o) \/ SetRefused(o) \/ Notify(o)
    <3>1. Frame(s)
      BY <2>3, <1>a DEF VerifyExpired, VerifyOnly, VerifyThenUpdate, SetRefused, Notify, Frame, Finish, Goto, UnsettledLabels
    <3> QED
      BY <3>1, <1>c, FrameKeeps
  <2>4. CASE Merge(o) \/ Resolve(o)
    <3>1. \A p \in Op : req'[p].sid = req[p].sid
      BY <2>4, <1>a DEF Merge, Resolve, Requests
    <3>2. Frame(s)
      BY <2>4, <1>a, <3>1 DEF Merge, Resolve, Frame, Goto, UnsettledLabels
    <3> QED
      BY <3>2, <1>c, FrameKeeps
  <2>5. CASE WriteRefused(o)
    <3>1. Frame(s)
      BY <2>5, <1>a DEF WriteRefused, Frame, Goto, UnsettledLabels
    <3> QED
      BY <3>1, <1>c, FrameKeeps
  <2>6. CASE Set(o)
    <3>1. CASE s = req[o].sid
      BY <2>6, <3>1, <1>a DEF Set, Goto, Unsettled
    <3>2. CASE s # req[o].sid
      <4>1. Frame(s)
        BY <2>6, <3>2, <1>a, <2>a DEF Set, Frame, Goto, UnsettledLabels
      <4> QED
        BY <4>1, <1>c, FrameKeeps
    <3> QED
      BY <3>1, <3>2
  <2>7. CASE Write(o)
    <3>1. CASE s = req[o].sid
      <4>1. fate'[s] # "ended"
        BY <2>7, <3>1, <1>a, <1>b, <2>a DEF Write, Lifecycle
      <4> QED
        BY <4>1
    <3>2. CASE s # req[o].sid
      <4>1. Frame(s)
        BY <2>7, <3>2, <1>a, <2>a DEF Write, Frame, Finish, Goto, UnsettledLabels
      <4> QED
        BY <4>1, <1>c, FrameKeeps
    <3> QED
      BY <3>1, <3>2
  <2>8. CASE Drop(o) \/ Evict(o)
    <3>1. CASE s = req[o].sid
      <4>1. cache'[s] = Absent
        BY <2>8, <3>1, <1>a DEF Drop, Evict
      <4> QED
        BY <4>1 DEF Live
    <3>2. CASE s # req[o].sid
      <4>1. Frame(s)
        BY <2>8, <3>2, <1>a, <2>a DEF Drop, Evict, Frame, Finish, Goto, UnsettledLabels
      <4> QED
        BY <4>1, <1>c, FrameKeeps
    <3> QED
      BY <3>1, <3>2
  <2>9. CASE Remove(o)
    <3>1. CASE s = req[o].sid
      BY <2>9, <3>1, <1>a DEF Remove, Goto, Unsettled
    <3>2. CASE s # req[o].sid
      <4>1. Frame(s)
        BY <2>9, <3>2, <1>a, <2>a DEF Remove, Frame, Goto, UnsettledLabels
      <4> QED
        BY <4>1, <1>c, FrameKeeps
    <3> QED
      BY <3>1, <3>2
  <2> QED
    BY <1>3, <2>1, <2>2, <2>3, <2>4, <2>5, <2>6, <2>7, <2>8, <2>9 DEF Step
<1>4. ASSUME NEW o \in Op, Fail(o) PROVE Frame(s)
  BY <1>4, <1>a DEF Fail, Frame, Goto, UnsettledLabels
<1>5. ASSUME NEW w \in Sweeper, SweepFind(w) \/ SweepDelete(w) PROVE Frame(s)
  BY <1>5, <1>a DEF SweepFind, SweepDelete, Frame, EndOf
<1>6. ASSUME NEW t \in Session, CacheLoss(t) PROVE Frame(s)
  BY <1>6, <1>a DEF CacheLoss, Frame
<1>7. CASE Tick \/ UNCHANGED vars
  <2>1. Frame(s)
    BY <1>7, <1>a DEF Tick, vars, Frame
  <2> QED
    BY <2>1, <1>c, FrameKeeps
<1> QED
  BY <1>1, <1>2, <1>3, <1>4, <1>5, <1>6, <1>7, <1>c, FrameKeeps DEF Next

(* A removed session is not readable once no update, refused update or     *)
(* removal of it is under way or failed half way.                          *)
THEOREM Unreadable == Spec => []EndedIsUnreadable
<1>1. Init => EndedIsUnreadable
  BY DEF Init, EndedIsUnreadable
<1>2. Inv /\ EndedIsUnreadable /\ [Next]_vars => EndedIsUnreadable'
  BY NextUnreadable
<1> QED
  BY <1>1, <1>2, InvHolds, PTL DEF Spec

-----------------------------------------------------------------------------
(* A client is told of a logout only once the session is gone.             *)
THEOREM ToldWhenGone == Spec => []ToldOnlyWhenGone
<1>1. Inv => ToldOnlyWhenGone
  BY DEF Inv, Lifecycle, Gone, ToldOnlyWhenGone, TypeOK, Requests
<1> QED
  BY <1>1, InvHolds, PTL

(* A removed row is never written again.                                   *)
THEOREM NoResurrection == Spec => GoneStaysGone
<1>1. Inv /\ [Next]_vars => [\A s \in Session : fate[s] \in Gone => row'[s] = Absent]_vars
  <2> SUFFICES ASSUME Inv, Next, NEW s \in Session, fate[s] \in Gone PROVE row'[s] = Absent
    OBVIOUS
  <2>a. row[s] = Absent /\ row \in [Session -> Values \union {Absent}]
    BY DEF Inv, Lifecycle, Gone, TypeOK
  <2>1. ASSUME NEW o \in Op, NEW t \in Session, NEW lifetime \in Lifetimes, Insert(o, t, lifetime)
        PROVE  row'[s] = Absent
    BY <2>1, <2>a DEF Insert, Gone
  <2>2. ASSUME NEW o \in Op, Write(o) PROVE row'[s] = Absent
    BY <2>2, <2>a DEF Write
  <2>3. ASSUME NEW o \in Op, Remove(o) PROVE row'[s] = Absent
    BY <2>3, <2>a DEF Remove
  <2>4. ASSUME NEW w \in Sweeper, SweepDelete(w) PROVE row'[s] = Absent
    BY <2>4, <2>a DEF SweepDelete
  <2>5. CASE UNCHANGED row
    BY <2>5, <2>a
  <2>6. ASSUME NEW o \in Op, Step(o) PROVE Write(o) \/ Remove(o) \/ UNCHANGED row
    BY <2>6 DEF Step, Fill, FindHit, FindMiss, Load, FindBySecret, NotFound, VerifyExpired, VerifyOnly,
                VerifyThenUpdate, Merge, Set, SetRefused, WriteRefused, Drop, Resolve, Evict, Notify
  <2> QED
    BY <2>1, <2>2, <2>3, <2>4, <2>5, <2>6 DEF Next, Start, Fail, SweepFind, CacheLoss, Tick
<1> QED
  BY <1>1, InvHolds, PTL DEF Spec, GoneStaysGone

(* A request that began after a removal returned never moves the session.  *)
THEOREM LateRefused == Spec => LateRequestNeverWrites
<1>1. Inv /\ [Next]_vars =>
        [\A o \in Op : pc[o] = "write" /\ pc'[o] = "idle" => ~req[o].late]_vars
  <2> SUFFICES ASSUME Inv, Next, NEW o \in Op, pc[o] = "write", pc'[o] = "idle", req[o].late
               PROVE  FALSE
    OBVIOUS
  <2>a. pc \in [Op -> Labels] /\ req[o].sid \in Session /\ row[req[o].sid] = Absent
    BY DEF Inv, Lifecycle, Gone, TypeOK, Requests
  <2>1. ASSUME NEW p \in Op, Step(p), p # o PROVE pc'[o] = pc[o]
    BY <2>1, <2>a DEF Step, Fill, FindHit, FindMiss, Load, FindBySecret, NotFound, VerifyExpired,
                VerifyOnly, VerifyThenUpdate, Merge, Set, SetRefused, Write, WriteRefused, Drop,
                Resolve, Remove, Evict, Notify, Goto, Finish
  <2>2. ~Step(o)
    BY <2>a DEF Step, Fill, FindHit, FindMiss, Load, FindBySecret, NotFound, VerifyExpired,
                VerifyOnly, VerifyThenUpdate, Merge, Set, SetRefused, Write, WriteRefused, Drop,
                Resolve, Remove, Evict, Notify, Goto
  <2>3. ASSUME NEW p \in Op, NEW s \in Session,
               \/ \E lifetime \in Lifetimes : Insert(p, s, lifetime)
               \/ \E k \in AllKinds : Start(p, s, k)
               \/ Fail(p)
        PROVE  pc'[o] # "idle"
    BY <2>3, <2>a DEF Insert, Start, Fail, Goto
  <2>4. ASSUME NEW p \in Op, Step(p) PROVE FALSE
    BY <2>1, <2>2, <2>4
  <2>5. ASSUME \/ \E w \in Sweeper : SweepFind(w) \/ SweepDelete(w)
               \/ \E s \in Session : CacheLoss(s)
               \/ Tick
        PROVE  FALSE
    BY <2>5 DEF SweepFind, SweepDelete, CacheLoss, Tick
  <2>6. PICK s \in Session : TRUE
    BY StoreAssumption
  <2> QED
    BY <2>3, <2>4, <2>5, <2>6 DEF Next
<1> QED
  BY <1>1, InvHolds, PTL DEF Spec, LateRequestNeverWrites

-----------------------------------------------------------------------------
(* The clock is past the null of a timestamp column, so a patch that moves *)
(* the stamp carries one.                                                  *)
Stamping(patch) == "mfaAt" \in DOMAIN patch => patch["mfaAt"] # Never
Stamped == now # Never /\ \A o \in Op : Stamping(req[o].patch)

LEMMA AbsentStamps == Stamping(Absent)
BY DEF Stamping, Absent

LEMMA PatchStamps == ASSUME NEW k, NEW t, t # Never PROVE Stamping(PatchOf(k, t))
BY DEF Stamping, PatchOf

(* Only the merge of an update changes the patch of a request to one that  *)
(* moves anything.                                                         *)
LEMMA StampedStep == ASSUME Inv, Stamped, [Next]_vars PROVE Stamped'
<1> USE DEF Never
<1>a. req \in [Op -> Requests] /\ now \in Nat /\ now # 0
  BY DEF Inv, TypeOK, Stamped
<1>b. NoRequest.patch = Absent
  BY DEF NoRequest
<1>c. ASSUME now' = now, \A p \in Op : req'[p].patch \in {req[p].patch, Absent} PROVE Stamped'
  BY <1>a, <1>c, AbsentStamps DEF Stamped, Stamping
<1>1. ASSUME NEW o \in Op, Step(o), ~Merge(o) PROVE Stamped'
  <2>2. CASE Fill(o) \/ NotFound(o) \/ VerifyOnly(o) \/ SetRefused(o) \/ Write(o) \/ Drop(o)
               \/ Notify(o)
    BY <1>a, <1>b, <1>c, <2>2
       DEF Fill, NotFound, VerifyOnly, SetRefused, Write, Drop, Notify, Finish
  <2>3. CASE FindHit(o) \/ Load(o) \/ FindBySecret(o)
    <3>1. \A p \in Op : req'[p].patch = req[p].patch
      BY <1>a, <2>3 DEF FindHit, Load, FindBySecret, Hold, Requests
    <3> QED
      BY <1>c, <2>3, <3>1 DEF FindHit, Load, FindBySecret
  <2>4. CASE Resolve(o)
    <3>1. \A p \in Op : req'[p].patch = req[p].patch
      BY <1>a, <2>4 DEF Resolve, Requests
    <3> QED
      BY <1>c, <2>4, <3>1 DEF Resolve
  <2>5. CASE Evict(o)
    BY <1>a, <1>b, <1>c, <2>5 DEF Evict, Finish
  <2>6. CASE FindMiss(o) \/ VerifyExpired(o) \/ VerifyThenUpdate(o) \/ Set(o) \/ WriteRefused(o)
               \/ Remove(o)
    BY <1>c, <2>6 DEF FindMiss, VerifyExpired, VerifyThenUpdate, Set, WriteRefused, Remove
  <2> QED
    BY <1>1, <2>2, <2>3, <2>4, <2>5, <2>6 DEF Step
<1>2. ASSUME NEW o \in Op, Merge(o) PROVE Stamped'
  <2>1. req'[o].patch = PatchOf(req[o].kind, now) /\ now' = now
    BY <1>2, <1>a DEF Merge, Requests
  <2>2. \A p \in Op : p # o => req'[p] = req[p]
    BY <1>2, <1>a DEF Merge
  <2> QED
    BY <1>a, <2>1, <2>2, PatchStamps DEF Stamped
<1>3. ASSUME NEW o \in Op, NEW s \in Session, NEW lifetime \in Lifetimes, Insert(o, s, lifetime)
      PROVE  Stamped'
  BY <1>a, <1>b, <1>c, <1>3 DEF Insert, NoRequest
<1>4. ASSUME NEW o \in Op, NEW s \in Session, NEW k \in AllKinds, Start(o, s, k) PROVE Stamped'
  BY <1>a, <1>b, <1>c, <1>4 DEF Start, NoRequest
<1>5. ASSUME NEW o \in Op, Fail(o) PROVE Stamped'
  BY <1>c, <1>5 DEF Fail
<1>6. ASSUME NEW w \in Sweeper, SweepFind(w) \/ SweepDelete(w) PROVE Stamped'
  BY <1>c, <1>6 DEF SweepFind, SweepDelete
<1>7. ASSUME NEW s \in Session, CacheLoss(s) PROVE Stamped'
  BY <1>c, <1>7 DEF CacheLoss
<1>8. CASE Tick
  BY <1>8, <1>a DEF Tick, Stamped
<1>9. CASE UNCHANGED vars
  BY <1>9, <1>c DEF vars
<1> QED
  BY <1>1, <1>2, <1>3, <1>4, <1>5, <1>6, <1>7, <1>8, <1>9 DEF Next

(* No ping and no refresh takes the second factor's stamp off the row.     *)
THEOREM StampKeptHolds == Spec => StampKept
<1>1. Init => Stamped
  BY AbsentStamps DEF Init, Stamped, NoRequest, Never
<1>2. ASSUME Inv, Stamped, [Next]_vars,
             NEW s \in Session, row[s] # Absent, row'[s] # Absent, row[s]["mfaAt"] # Never
      PROVE  row'[s]["mfaAt"] # Never
  <2>a. /\ row \in [Session -> Values \union {Absent}]
        /\ fate[s] # "unborn"
        /\ \A o \in Op : req[o].sid \in Session
    BY <1>2 DEF Inv, TypeOK, Lifecycle, Requests
  <2>1. ASSUME NEW o \in Op, NEW t \in Session, NEW lifetime \in Lifetimes, Insert(o, t, lifetime)
        PROVE  row'[s] = row[s]
    BY <2>1, <2>a DEF Insert
  <2>2. ASSUME NEW o \in Op, Write(o) PROVE row'[s]["mfaAt"] # Never
    <3>1. Stamping(req[o].patch)
      BY <1>2 DEF Stamped
    <3>2. CASE s # req[o].sid
      BY <2>2, <2>a, <3>2, <1>2 DEF Write
    <3>3. CASE s = req[o].sid
      <4>1. row'[s] = Apply(row[s], req[o].patch)
        BY <2>2, <2>a, <3>3 DEF Write
      <4> QED
        BY <3>1, <4>1, <1>2 DEF Apply, Stamping, Column
    <3> QED
      BY <3>2, <3>3
  <2>3. ASSUME NEW o \in Op, Remove(o) PROVE row'[s] = row[s]
    BY <2>3, <2>a, <1>2 DEF Remove
  <2>4. ASSUME NEW w \in Sweeper, SweepDelete(w) PROVE row'[s] = row[s]
    BY <2>4, <1>2 DEF SweepDelete
  <2>5. ASSUME NEW o \in Op, Step(o) PROVE Write(o) \/ Remove(o) \/ UNCHANGED row
    BY <2>5 DEF Step, Fill, FindHit, FindMiss, Load, FindBySecret, NotFound, VerifyExpired,
                VerifyOnly, VerifyThenUpdate, Merge, Set, SetRefused, WriteRefused, Drop, Resolve,
                Evict, Notify
  <2> QED
    BY <1>2, <2>1, <2>2, <2>3, <2>4, <2>5
       DEF Next, Start, Fail, SweepFind, CacheLoss, Tick, vars
<1> DEFINE Kept == \A s \in Session : row[s] # Absent /\ row'[s] # Absent /\ row[s]["mfaAt"] # Never
                                     => row'[s]["mfaAt"] # Never
<1>3. Inv /\ Stamped /\ [Next]_vars => [Kept]_vars
  BY <1>2
<1> QED
  BY <1>1, <1>3, StampedStep, InvHolds, PTL DEF Spec, StampKept

=============================================================================
