---------------------------- MODULE SessionStore ----------------------------
(***************************************************************************)
(* The session store of the server: the auth_sessions row, the cache entry *)
(* kept beside it, and the requests that read and write both.              *)
(*                                                                         *)
(* SessionRepository (app/modules/authentication/repositories/session.ts)  *)
(* makes one database or cache call at a time and awaits it, and           *)
(* SessionManager (core/authentication/session/module.ts) drives it from   *)
(* every request.  An action below is what happens between two awaits, so  *)
(* requests interleave exactly at the awaits.  The pc of a request names   *)
(* the call it makes next.                                                 *)
(***************************************************************************)
EXTENDS Naturals, FiniteSets

CONSTANTS
    Session,        \* session ids (UUIDs: drawn once, never reused)
    Op,             \* requests in flight
    Sweeper,        \* replicas running the expiry sweep
    Kinds,          \* the kinds of request an instance has
    Lifetimes,      \* lifetimes a session may be created with
    MaxAge,         \* options.maxAge: what a refresh slides the expiry to
    PingThreshold,  \* age of seenAt below which a ping writes nothing
    BatchSize,      \* rows one statement of the sweep removes
    MaxTime         \* bound of the clock

AllKinds == {"create", "ping", "refresh", "cookie", "mark", "revoke", "bulk"}

ASSUME StoreAssumption ==
    /\ Session # {}
    /\ Kinds \subseteq AllKinds
    /\ Lifetimes \subseteq Nat \ {0}
    /\ MaxAge \in Nat \ {0}
    /\ PingThreshold \in Nat
    /\ BatchSize \in Nat \ {0}
    /\ MaxTime \in Nat

VARIABLES
    now,       \* the clock
    row,       \* row[s]: the auth_sessions row, or Absent
    cache,     \* cache[s]: the cached copy, or Absent
    fate,      \* fate[s]: how far the life of the session has come
    returned,  \* sessions whose removal has run to its end
    pc,        \* pc[o]: the call request o makes next
    req,       \* req[o]: what request o holds between two awaits
    batch      \* batch[w]: ids selected by a sweep and not deleted yet

vars == <<now, row, cache, fate, returned, pc, req, batch>>

-----------------------------------------------------------------------------
(* A session as the repository reads it: the columns an update may move.   *)
(* refreshedAt moves with expiresAt and is folded into it.  Never is the   *)
(* null of a timestamp column.                                             *)

Column == {"expiresAt", "seenAt", "mfaAt"}
Never == 0
Values == [Column -> Nat]
Absent == [c \in {} |-> 0]

(* An entry is written with ttl = expiresAt - now: it lapses at its own    *)
(* expiresAt.                                                              *)
Live(s) == cache[s] # Absent /\ now < cache[s]["expiresAt"]

Expired(session, t) == session["expiresAt"] < t

(* Mutant of Apply: the patch alone, not merged into the session.          *)
ApplyAlone(session, patch) == patch

Apply(session, patch) ==
    [c \in Column |-> IF c \in DOMAIN patch THEN patch[c] ELSE session[c]]

(* The SessionUpdatePatch of ping, refresh and markMfaVerified.            *)
PatchOf(k, t) ==
    CASE k = "mark" -> [c \in {"mfaAt"} |-> t]
      [] k = "ping" -> [c \in {"seenAt"} |-> t]
      [] OTHER -> [c \in {"expiresAt", "seenAt"} |->
                     IF c = "seenAt" THEN t ELSE t + MaxAge]

RecentlySeen(session, t) ==
    session["seenAt"] # Never /\ session["seenAt"] + PingThreshold > t

NoRequest == [kind |-> "none", sid |-> CHOOSE s \in Session : TRUE,
              copy |-> Absent, patch |-> Absent, told |-> FALSE, late |-> FALSE]

Init ==
    /\ now = 1
    /\ row = [s \in Session |-> Absent]
    /\ cache = [s \in Session |-> Absent]
    /\ fate = [s \in Session |-> "unborn"]
    /\ returned = {}
    /\ pc = [o \in Op |-> "idle"]
    /\ req = [o \in Op |-> NoRequest]
    /\ batch = [w \in Sweeper |-> {}]

Goto(o, label) == pc' = [pc EXCEPT ![o] = label]
Hold(o, session) == req' = [req EXCEPT ![o].copy = session]

(* The request ends, whatever it answers: what it held is garbage.         *)
Finish(o) ==
    /\ Goto(o, "idle")
    /\ req' = [req EXCEPT ![o] = NoRequest]

-----------------------------------------------------------------------------
(* Creation: SessionManager.create, SessionRepository.save.                *)

(* A new id is drawn and the row inserted.                                 *)
Insert(o, s, lifetime) ==
    /\ "create" \in Kinds
    /\ pc[o] = "idle"
    /\ fate[s] = "unborn"
    /\ LET session == [c \in Column |-> IF c = "expiresAt" THEN now + lifetime ELSE Never]
       IN /\ row' = [row EXCEPT ![s] = session]
          /\ req' = [req EXCEPT ![o] = [NoRequest EXCEPT !.kind = "create", !.sid = s, !.copy = session]]
    /\ fate' = [fate EXCEPT ![s] = "opening"]
    /\ Goto(o, "fill")
    /\ UNCHANGED <<now, cache, returned, batch>>

(* The copy is cached and the session handed to the caller.  A ttl that is *)
(* not positive is refused by the cache: see Set.                          *)
Fill(o) ==
    LET s == req[o].sid IN
    /\ pc[o] = "fill"
    /\ now < req[o].copy["expiresAt"]
    /\ cache' = [cache EXCEPT ![s] = req[o].copy]
    /\ fate' = [fate EXCEPT ![s] = IF @ = "opening" THEN "open" ELSE @]
    /\ Finish(o)
    /\ UNCHANGED <<now, row, returned, batch>>

-----------------------------------------------------------------------------
(* Reads: SessionRepository.findOneById and findOneBySecret.               *)

(* A request naming session s begins.  A caller knows an id only once its  *)
(* creation returned; a bulk revoke reads it off the rows                  *)
(* (findAllByOwner, findAllByQuery).                                       *)
Start(o, s, k) ==
    /\ k \in Kinds \ {"create"}
    /\ pc[o] = "idle"
    /\ \/ k # "bulk" /\ fate[s] \notin {"unborn", "opening", "aborted"}
       \/ k = "bulk" /\ row[s] # Absent
    /\ req' = [req EXCEPT ![o] = [NoRequest EXCEPT !.kind = k, !.sid = s, !.late = s \in returned]]
    /\ Goto(o, IF k = "cookie" THEN "bySecret" ELSE "find")
    /\ UNCHANGED <<now, row, cache, fate, returned, batch>>

(* Where a request goes with the session it found: a refresh and a ping    *)
(* verify it first, a revoke resolves the logout audience.  The cookie     *)
(* path reads a second time and, like the MFA stamp, writes at once.       *)
AfterFind(k) ==
    CASE k \in {"ping", "refresh"} -> "verify"
      [] k \in {"revoke", "bulk"} -> "resolve"
      [] OTHER -> "merge"

FindHit(o) ==
    LET s == req[o].sid IN
    /\ pc[o] = "find"
    /\ Live(s)
    /\ Hold(o, cache[s])
    /\ Goto(o, AfterFind(req[o].kind))
    /\ UNCHANGED <<now, row, cache, fate, returned, batch>>

FindMiss(o) ==
    /\ pc[o] = "find"
    /\ ~Live(req[o].sid)
    /\ Goto(o, "load")
    /\ UNCHANGED <<now, row, cache, fate, returned, req, batch>>

(* The row answers; a session found there is not written to the cache.     *)
Load(o) ==
    LET s == req[o].sid IN
    /\ pc[o] = "load"
    /\ row[s] # Absent
    /\ Hold(o, row[s])
    /\ Goto(o, AfterFind(req[o].kind))
    /\ UNCHANGED <<now, row, cache, fate, returned, batch>>

(* The console cookie is resolved against the row, never the cache.        *)
FindBySecret(o) ==
    LET s == req[o].sid IN
    /\ pc[o] = "bySecret"
    /\ row[s] # Absent
    /\ Hold(o, row[s])
    /\ Goto(o, "verify")
    /\ UNCHANGED <<now, row, cache, fate, returned, batch>>

NotFound(o) ==
    /\ pc[o] \in {"load", "bySecret"}
    /\ row[req[o].sid] = Absent
    /\ Finish(o)
    /\ UNCHANGED <<now, row, cache, fate, returned, batch>>

-----------------------------------------------------------------------------
(* SessionManager.verify, then ping or refresh.                            *)

VerifyExpired(o) ==
    /\ pc[o] = "verify"
    /\ Expired(req[o].copy, now)
    /\ Goto(o, "remove")
    /\ UNCHANGED <<now, row, cache, fate, returned, req, batch>>

(* A ping of a session seen lately writes nothing.  The cookie path slides *)
(* only when the last slide is old enough, by a column the model folds     *)
(* away: either may happen.                                                *)
VerifyOnly(o) ==
    /\ pc[o] = "verify"
    /\ ~Expired(req[o].copy, now)
    /\ \/ req[o].kind = "ping" /\ RecentlySeen(req[o].copy, now)
       \/ req[o].kind = "cookie"
    /\ Finish(o)
    /\ UNCHANGED <<now, row, cache, fate, returned, batch>>

VerifyThenUpdate(o) ==
    /\ pc[o] = "verify"
    /\ ~Expired(req[o].copy, now)
    /\ ~(req[o].kind = "ping" /\ RecentlySeen(req[o].copy, now))
    /\ Goto(o, IF req[o].kind = "cookie" THEN "find" ELSE "merge")
    /\ UNCHANGED <<now, row, cache, fate, returned, req, batch>>

-----------------------------------------------------------------------------
(* SessionRepository.update: the cache first, from the freshest copy it    *)
(* holds, then the moved columns of the row.                               *)

Merge(o) ==
    LET s == req[o].sid
        patch == PatchOf(req[o].kind, now)
        base == IF Live(s) THEN cache[s] ELSE req[o].copy
    IN /\ pc[o] = "merge"
       /\ req' = [req EXCEPT ![o].copy = Apply(base, patch), ![o].patch = patch]
       /\ Goto(o, "set")
       /\ UNCHANGED <<now, row, cache, fate, returned, batch>>

Set(o) ==
    LET s == req[o].sid IN
    /\ pc[o] = "set"
    /\ now < req[o].copy["expiresAt"]
    /\ cache' = [cache EXCEPT ![s] = req[o].copy]
    /\ Goto(o, "write")
    /\ UNCHANGED <<now, row, fate, returned, req, batch>>

(* The cache takes no ttl that is not positive: the call rejects and the   *)
(* request with it, the row untouched by the update.                       *)
SetRefused(o) ==
    /\ pc[o] \in {"fill", "set"}
    /\ now >= req[o].copy["expiresAt"]
    /\ Finish(o)
    /\ UNCHANGED <<now, row, cache, fate, returned, batch>>

(* Mutant of Write: save() of the entity, which inserts a missing row.     *)
WriteUpsert(o) ==
    LET s == req[o].sid IN
    /\ pc[o] = "write"
    /\ row' = [row EXCEPT ![s] = Apply(req[o].copy, req[o].patch)]
    /\ Finish(o)
    /\ UNCHANGED <<now, cache, fate, returned, batch>>

(* Mutant of Write: every column of the caller's copy, not the moved ones. *)
WriteWhole(o) ==
    LET s == req[o].sid IN
    /\ pc[o] = "write"
    /\ row[s] # Absent
    /\ row' = [row EXCEPT ![s] = req[o].copy]
    /\ Finish(o)
    /\ UNCHANGED <<now, cache, fate, returned, batch>>

(* UPDATE ... WHERE id touches the patched columns of an existing row.     *)
Write(o) ==
    LET s == req[o].sid IN
    /\ pc[o] = "write"
    /\ row[s] # Absent
    /\ row' = [row EXCEPT ![s] = Apply(@, req[o].patch)]
    /\ Finish(o)
    /\ UNCHANGED <<now, cache, fate, returned, batch>>

(* Mutant of WriteRefused: the request is refused, the entry not dropped.  *)
WriteRefusedNoDrop(o) ==
    /\ pc[o] = "write"
    /\ row[req[o].sid] = Absent
    /\ Finish(o)
    /\ UNCHANGED <<now, row, cache, fate, returned, batch>>

(* No row was affected: the session is gone.  The entry is dropped and the *)
(* request refused (JWTError.expired).                                     *)
WriteRefused(o) ==
    /\ pc[o] = "write"
    /\ row[req[o].sid] = Absent
    /\ Goto(o, "drop")
    /\ UNCHANGED <<now, row, cache, fate, returned, req, batch>>

Drop(o) ==
    /\ pc[o] = "drop"
    /\ cache' = [cache EXCEPT ![req[o].sid] = Absent]
    /\ Finish(o)
    /\ UNCHANGED <<now, row, fate, returned, batch>>

-----------------------------------------------------------------------------
(* SessionManager.revoke and the removal verify makes.                     *)

(* Mutant of Resolve: the clients are told before the row is removed.      *)
ResolveAndNotify(o) ==
    /\ pc[o] = "resolve"
    /\ \E t \in {FALSE, row[req[o].sid] # Absent} :
         /\ req' = [req EXCEPT ![o].told = t]
         /\ Goto(o, IF t THEN "notify" ELSE "remove")
    /\ UNCHANGED <<now, row, cache, fate, returned, batch>>

(* The logout audience derives from token rows that cascade with the       *)
(* session row: nobody is resolved once the row is gone, or when resolving *)
(* fails.                                                                  *)
Resolve(o) ==
    /\ pc[o] = "resolve"
    /\ \E t \in {FALSE, row[req[o].sid] # Absent} : req' = [req EXCEPT ![o].told = t]
    /\ Goto(o, "remove")
    /\ UNCHANGED <<now, row, cache, fate, returned, batch>>

EndOf(f, ended) ==
    CASE f = "open" -> ended [] f = "opening" -> "aborted" [] OTHER -> f

Remove(o) ==
    LET s == req[o].sid IN
    /\ pc[o] = "remove"
    /\ row' = [row EXCEPT ![s] = Absent]
    /\ fate' = [fate EXCEPT ![s] = EndOf(@, "ended")]
    /\ Goto(o, "evict")
    /\ UNCHANGED <<now, cache, returned, req, batch>>

Evict(o) ==
    LET s == req[o].sid IN
    /\ pc[o] = "evict"
    /\ cache' = [cache EXCEPT ![s] = Absent]
    /\ returned' = returned \union {s}
    /\ IF req[o].told THEN Goto(o, "notify") /\ UNCHANGED req ELSE Finish(o)
    /\ UNCHANGED <<now, row, fate, batch>>

(* Delivery of the logout is best effort: it never fails the revoke.       *)
Notify(o) ==
    /\ pc[o] = "notify"
    /\ Finish(o)
    /\ UNCHANGED <<now, row, cache, fate, returned, batch>>

(* Any awaited call may reject, or the process die: the request stops      *)
(* where it is and what it wrote stays.                                    *)
Fail(o) ==
    /\ pc[o] \notin {"idle", "notify", "failed"}
    /\ Goto(o, "failed")
    /\ UNCHANGED <<now, row, cache, fate, returned, req, batch>>

-----------------------------------------------------------------------------
(* The expiry sweep (deleteExpired, deleteInBatches): a batch of expired   *)
(* ids is selected, then deleted by id.  The cache is not touched.         *)

SweepFind(w) ==
    /\ batch[w] = {}
    /\ \E ids \in SUBSET {s \in Session : row[s] # Absent /\ Expired(row[s], now)} :
         /\ ids # {}
         /\ Cardinality(ids) <= BatchSize
         /\ batch' = [batch EXCEPT ![w] = ids]
    /\ UNCHANGED <<now, row, cache, fate, returned, pc, req>>

SweepDelete(w) ==
    /\ batch[w] # {}
    /\ row' = [s \in Session |-> IF s \in batch[w] THEN Absent ELSE row[s]]
    /\ fate' = [s \in Session |-> IF s \in batch[w] THEN EndOf(fate[s], "swept") ELSE fate[s]]
    /\ batch' = [batch EXCEPT ![w] = {}]
    /\ UNCHANGED <<now, cache, returned, pc, req>>

(* The cache is a cache: redis may evict an entry, a restart empties the   *)
(* memory adapter.                                                         *)
CacheLoss(s) ==
    /\ cache[s] # Absent
    /\ cache' = [cache EXCEPT ![s] = Absent]
    /\ UNCHANGED <<now, row, fate, returned, pc, req, batch>>

Tick ==
    /\ now < MaxTime
    /\ now' = now + 1
    /\ UNCHANGED <<row, cache, fate, returned, pc, req, batch>>

-----------------------------------------------------------------------------
(* What a request does once it runs.                                       *)
Step(o) ==
    \/ Fill(o) \/ FindHit(o) \/ FindMiss(o) \/ Load(o) \/ FindBySecret(o) \/ NotFound(o)
    \/ VerifyExpired(o) \/ VerifyOnly(o) \/ VerifyThenUpdate(o)
    \/ Merge(o) \/ Set(o) \/ SetRefused(o) \/ Write(o) \/ WriteRefused(o) \/ Drop(o)
    \/ Resolve(o) \/ Remove(o) \/ Evict(o) \/ Notify(o)

Next ==
    \/ \E o \in Op, s \in Session :
         \/ \E lifetime \in Lifetimes : Insert(o, s, lifetime)
         \/ \E k \in AllKinds : Start(o, s, k)
    \/ \E o \in Op : Step(o) \/ Fail(o)
    \/ \E w \in Sweeper : SweepFind(w) \/ SweepDelete(w)
    \/ \E s \in Session : CacheLoss(s)
    \/ Tick

Spec == Init /\ [][Next]_vars

(* Awaited calls are answered: a request that runs keeps running, unless   *)
(* it fails.  Nothing obliges a request to start or the clock to move.     *)
FairSpec == Spec /\ \A o \in Op : WF_vars(Step(o))

-----------------------------------------------------------------------------
Fates == {"unborn", "opening", "open", "ended", "aborted", "swept"}
Labels == {"idle", "fill", "bySecret", "find", "load", "verify", "merge", "set", "write",
           "drop", "resolve", "remove", "evict", "notify", "failed"}
(* The shapes a SessionUpdatePatch has.                                    *)
Patches == [{"mfaAt"} -> Nat] \union [{"seenAt"} -> Nat] \union [{"expiresAt", "seenAt"} -> Nat]
Requests == [kind : AllKinds \union {"none"}, sid : Session,
             copy : Values \union {Absent}, patch : Patches \union {Absent}, told : BOOLEAN, late : BOOLEAN]

TypeOK ==
    /\ now \in Nat
    /\ row \in [Session -> Values \union {Absent}]
    /\ cache \in [Session -> Values \union {Absent}]
    /\ fate \in [Session -> Fates]
    /\ returned \subseteq Session
    /\ pc \in [Op -> Labels]
    /\ req \in [Op -> Requests]
    /\ batch \in [Sweeper -> SUBSET Session]
    /\ \A o \in Op : pc[o] \in {"fill", "verify", "merge", "set"} => req[o].copy # Absent

(* The life of a session and the requests on it: the row exists from the   *)
(* insert to the removal, only one request creates it, and a request past  *)
(* a removal, or late, is on a session that is gone.                       *)
Gone == {"ended", "aborted", "swept"}

Lifecycle ==
    /\ \A s \in Session : row[s] # Absent <=> fate[s] \in {"opening", "open"}
    /\ \A s \in returned : fate[s] \in Gone
    /\ \A o \in Op : pc[o] # "idle" => fate[req[o].sid] # "unborn"
    /\ \A o \in Op : pc[o] \in {"evict", "notify"} => fate[req[o].sid] \in Gone
    /\ \A o \in Op : pc[o] # "idle" /\ req[o].late => fate[req[o].sid] \in Gone
    /\ \A o \in Op : pc[o] = "fill" => fate[req[o].sid] \in {"opening", "aborted"}
    /\ \A o, p \in Op : pc[o] = "fill" /\ pc[p] = "fill" /\ req[o].sid = req[p].sid => o = p

(* An update, a refused update or a removal that has not reached its last  *)
(* write, or failed on the way.                                            *)
Unsettled(s) ==
    \E o \in Op : req[o].sid = s /\ pc[o] \in {"write", "drop", "evict", "failed"}

(* A session that was removed is not readable, whatever updates ran beside *)
(* the removal, as soon as none of them is still under way: each write of  *)
(* an entry after the drop is followed by the refused UPDATE and a second  *)
(* drop (the comment in SessionRepository.update).                         *)
EndedIsUnreadable ==
    \A s \in Session : fate[s] = "ended" /\ Live(s) => Unsettled(s)

(* A client is told of a logout only once the session is gone              *)
(* (SessionManager.revoke: "a client is never told about a session that    *)
(* still exists").                                                         *)
ToldOnlyWhenGone ==
    \A o \in Op : pc[o] = "notify" => row[req[o].sid] = Absent

(* An id names one session for ever: a row that was removed, by a revoke,  *)
(* an expired verify or the sweep, is never written again by an update     *)
(* that read the session before.                                           *)
GoneStaysGone ==
    [][\A s \in Session : fate[s] \in Gone => row'[s] = Absent]_vars

(* A request that began after a removal returned never moves the session:  *)
(* it is refused, even where it read an entry a racing update left.        *)
LateRequestNeverWrites ==
    [][\A o \in Op : pc[o] = "write" /\ pc'[o] = "idle" => ~req[o].late]_vars

(* The row keeps a concurrent write to another column: once the second     *)
(* factor is stamped, no ping and no refresh takes the stamp away.         *)
StampKept ==
    [][\A s \in Session :
         row[s] # Absent /\ row'[s] # Absent /\ row[s]["mfaAt"] # Never => row'[s]["mfaAt"] # Never]_vars

(* Once a session is removed, it becomes unreadable, or a request on it    *)
(* failed half way.                                                        *)
EndedBecomesUnreadable ==
    \A s \in Session :
      fate[s] = "ended" ~> (~Live(s) \/ \E o \in Op : pc[o] = "failed" /\ req[o].sid = s)

-----------------------------------------------------------------------------
(* What comments and docs of the repository say and the code does not do.  *)

(* "a concurrent write to another column keeps its value"                  *)
(* (SessionRepository.update) and "a concurrent write to another of them   *)
(* (a second factor stamped, an expiry slid) is kept" (ISessionRepository):*)
(* with no request under way, a stamp the row carries is in the entry that *)
(* findOneById answers with.                                               *)
CachedStampKept ==
    \A s \in Session :
      /\ Live(s) /\ row[s] # Absent /\ row[s]["mfaAt"] # Never
      /\ \A o \in Op : pc[o] = "idle" \/ req[o].sid # s
      => cache[s]["mfaAt"] # Never

=============================================================================
