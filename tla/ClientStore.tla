----------------------------- MODULE ClientStore -----------------------------
(***************************************************************************)
(* The token store of the web kit (client-web-kit/src/core/store/create.ts)*)
(* and the authentication hook that refreshes behind its back              *)
(* (core-http-kit/src/hook/module.ts), in a tab that keeps a token pair.   *)
(*                                                                         *)
(* Logins, a resolve, a background refresh and a logout run at a time and  *)
(* meet in the refs of the store.  A request has three moments: it is sent *)
(* with what the store held, it is served, and its answer is handled.      *)
(***************************************************************************)
EXTENDS Naturals, FiniteSets

CONSTANTS
    Login,     \* interactive logins in flight
    MaxGrant,  \* bound of the token pairs ever issued
    MaxGen,    \* bound of the generations
    Faults     \* subset of {"answer", "revoke", "end"}

NoGrant == 0
Pair == 1 .. MaxGrant
Tasks == Login \union {"resolve", "hook"}

ClientAssumption ==
    /\ MaxGrant \in Nat \ {0} /\ MaxGen \in Nat
    /\ Faults \subseteq {"answer", "revoke", "end"}
    /\ Login \intersect {"resolve", "hook"} = {}

VARIABLES
    (* the server *)
    issued,     \* how many pairs were issued
    of,         \* of[g]: the session of pair g, named by its first pair
    fresh,      \* pairs whose refresh token is valid
    consumed,   \* pairs whose refresh token was exchanged
    good,       \* pairs whose access token is active
    (* the tab *)
    access,     \* the pair accessToken is of
    refresh,    \* the pair refreshToken is of
    subject,    \* the session user and realm were committed from
    generation, \* tokenGeneration
    validated, stale,
    pc, req,
    dropping,   \* halves of pairs whose revocation is under way
    (* ghosts *)
    torn,       \* <<s, f>>: session s was torn down, held or staged by a login,
                \* because a background refresh of session f failed, if any did
    checked,    \* pairs whose introspection was answered active
    lost        \* pairs whose answer, or whose revocation, was lost

server == <<issued, of, fresh, consumed, good>>
tab == <<access, refresh, subject, generation, validated, stale>>
vars == <<server, tab, pc, req, dropping, torn, checked, lost>>

NoRequest == [pair |-> NoGrant, sent |-> NoGrant, gen |-> 0, again |-> FALSE]
Session(g) == IF g = NoGrant THEN NoGrant ELSE of[g]
Halves(a, r) == {<<"access", a>>, <<"refresh", r>>} \ ({"access", "refresh"} \X {NoGrant})

(* A tab opens empty, or hydrates the first pair from its cookies, of      *)
(* which the access token's may have lapsed.                               *)
Init ==
    /\ issued = 1
    /\ of = [g \in Pair |-> IF g = 1 THEN 1 ELSE NoGrant]
    /\ fresh = {1} /\ consumed = {} /\ good = {1}
    /\ refresh \in {NoGrant, 1}
    /\ access \in {NoGrant, refresh}
    /\ subject = NoGrant
    /\ generation = 0
    /\ validated = FALSE /\ stale = FALSE
    /\ pc = [p \in Tasks |-> "idle"]
    /\ req = [p \in Tasks |-> NoRequest]
    /\ dropping = {}
    /\ torn = {}
    /\ checked = {}
    /\ lost = IF access = NoGrant /\ refresh = NoGrant THEN {1} ELSE {}

Goto(p, label) == pc' = [pc EXCEPT ![p] = label]
Finish(p) == Goto(p, "idle") /\ req' = [req EXCEPT ![p] = NoRequest]

-----------------------------------------------------------------------------
(* The server.                                                             *)

Issue(session) ==
    /\ issued < MaxGrant
    /\ issued' = issued + 1
    /\ of' = [of EXCEPT ![issued + 1] = IF session = NoGrant THEN issued + 1 ELSE session]
    /\ good' = good \union {issued + 1}

Family(g) == {f \in Pair : of[f] = of[g]}

(* createWithPassword or createWithAuthorizationCode opens a session.      *)
GrantServed(o) ==
    /\ o \in Login /\ pc[o] = "grant"
    /\ Issue(NoGrant)
    /\ fresh' = fresh \union {issued + 1}
    /\ req' = [req EXCEPT ![o].pair = issued + 1]
    /\ Goto(o, "granted")
    /\ UNCHANGED <<consumed, tab, dropping, torn, checked, lost>>

GrantRefused(o) ==
    /\ o \in Login /\ pc[o] = "grant"
    /\ Finish(o)
    /\ UNCHANGED <<server, tab, dropping, torn, checked, lost>>

(* A refresh token is exchanged once.                                      *)
RefreshServed(p) ==
    LET g == req[p].sent IN
    /\ pc[p] = "refresh"
    /\ g \in fresh
    /\ Issue(of[g])
    /\ fresh' = (fresh \ {g}) \union {issued + 1}
    /\ consumed' = consumed \union {g}
    /\ \/ /\ req' = [req EXCEPT ![p].pair = issued + 1]
          /\ UNCHANGED lost
       \/ /\ "answer" \in Faults
          /\ lost' = lost \union {issued + 1}
          /\ UNCHANGED req
    /\ Goto(p, "refreshed")
    /\ UNCHANGED <<tab, dropping, torn, checked>>

(* One that was exchanged already ends its family, one that was revoked is *)
(* refused, and a request may not arrive at all.                           *)
RefreshRefused(p) ==
    LET g == req[p].sent IN
    /\ pc[p] = "refresh"
    /\ \/ /\ g \in consumed
          /\ fresh' = fresh \ Family(g) /\ good' = good \ Family(g)
       \/ /\ g \notin fresh \union consumed \/ "answer" \in Faults
          /\ UNCHANGED <<fresh, good>>
    /\ Goto(p, "refreshed")
    /\ UNCHANGED <<issued, of, consumed, tab, req, dropping, torn, checked, lost>>

(* The introspection and the verdicts of the staged token: answered, or    *)
(* failed when the token is not active or a call rejects.                  *)
StageServed(p) ==
    /\ pc[p] = "stage"
    /\ \/ req[p].pair \in good /\ checked' = checked \union {req[p].pair} /\ Goto(p, "staged")
       \/ UNCHANGED checked /\ Goto(p, "failed")
    /\ UNCHANGED <<server, tab, req, dropping, torn, lost>>

(* Revocations are best effort: a failure of one is swallowed.             *)
Revoked(h) ==
    /\ h \in dropping
    /\ dropping' = dropping \ {h}
    /\ \/ /\ good' = IF h[1] = "access" THEN good \ {h[2]} ELSE good
          /\ fresh' = IF h[1] = "refresh" THEN fresh \ {h[2]} ELSE fresh
          /\ UNCHANGED lost
       \/ /\ "revoke" \in Faults
          /\ lost' = lost \union {h[2]}
          /\ UNCHANGED <<good, fresh>>
    /\ UNCHANGED <<issued, of, consumed, tab, pc, req, torn, checked>>

(* The session ends at the server: an administrator, an expiry.            *)
SessionEnds(s) ==
    /\ "end" \in Faults
    /\ fresh \intersect Family(s) # {}
    /\ fresh' = fresh \ Family(s)
    /\ good' = good \ Family(s)
    /\ UNCHANGED <<issued, of, consumed, tab, pc, req, dropping, torn, checked, lost>>

-----------------------------------------------------------------------------
(* The store.                                                              *)

Shown == {Session(access), Session(refresh), subject} \ {NoGrant}
Staging == {o \in Login : pc[o] \in {"drain", "stage", "staged", "failed"}}

(* cleanup up to its first await: everything is cleared, the generation    *)
(* moves on, and the pair that was held is revoked.                        *)
Cleanup(cause) ==
    /\ generation < MaxGen
    /\ access' = NoGrant /\ refresh' = NoGrant
    /\ subject' = NoGrant
    /\ validated' = FALSE /\ stale' = FALSE
    /\ generation' = generation + 1
    /\ dropping' = dropping \union Halves(access, refresh)
    /\ torn' = torn \union ((Shown \union {Session(req[o].pair) : o \in Staging}) \X {cause})

(* applyTokenGrantResponse: the pair is set and marked for revalidation.   *)
Apply(g) ==
    /\ access' = g /\ refresh' = g
    /\ stale' = TRUE

LoginStarts(o) ==
    /\ o \in Login /\ pc[o] = "idle"
    /\ issued < MaxGrant
    /\ Goto(o, "grant")
    /\ UNCHANGED <<server, tab, req, dropping, torn, checked, lost>>

(* The grant came: what was held is wiped, and the generation that wiped   *)
(* it is the one this login commits under.                                 *)
Granted(o) ==
    /\ pc[o] = "granted"
    /\ Cleanup(NoGrant)
    /\ req' = [req EXCEPT ![o].gen = generation + 1, ![o].sent = refresh]
    /\ Goto(o, "drain")
    /\ UNCHANGED <<server, checked, lost>>

(* Its revocations are over: the staged session is looked up.              *)
Drained(o) ==
    /\ pc[o] = "drain"
    /\ dropping \intersect Halves(req[o].sent, req[o].sent) = {}
    /\ Goto(o, "stage")
    /\ UNCHANGED <<server, tab, req, dropping, torn, checked, lost>>

(* Mutant of Current: no generation guard.                                 *)
AlwaysCurrent(p) == TRUE

Current(p) == req[p].gen = generation

(* Mutant of TokenCurrent: any commit clears the stale flag.               *)
AnyToken(p) == TRUE

TokenCurrent(p) == req[p].pair = access

(* commitSession for a fresh grant.                                        *)
LoginCommits(o) ==
    /\ o \in Login /\ pc[o] = "staged"
    /\ Current(o)
    /\ access' = req[o].pair /\ refresh' = req[o].pair
    /\ subject' = Session(req[o].pair)
    /\ validated' = TRUE /\ stale' = FALSE
    /\ Finish(o)
    /\ UNCHANGED <<server, generation, dropping, torn, checked, lost>>

(* Mutant of LoginAborts: the staged pair is forgotten.                    *)
LoginForgets(o) ==
    /\ o \in Login
    /\ pc[o] = "failed" \/ (pc[o] = "staged" /\ ~Current(o))
    /\ Finish(o)
    /\ UNCHANGED <<server, tab, dropping, torn, checked, lost>>

(* revokeStagedGrant, when staging failed or the commit was refused.       *)
LoginAborts(o) ==
    /\ o \in Login
    /\ pc[o] = "failed" \/ (pc[o] = "staged" /\ ~Current(o))
    /\ dropping' = dropping \union Halves(req[o].pair, req[o].pair)
    /\ Finish(o)
    /\ UNCHANGED <<server, tab, torn, checked, lost>>

(* resolve: refreshSession when only a refresh token is held, revalidate   *)
(* when the token was not looked up yet in this instance.                  *)
ResolveStarts ==
    /\ pc["resolve"] = "idle"
    /\ \/ /\ access = NoGrant /\ refresh # NoGrant
          /\ req' = [req EXCEPT !["resolve"] =
                        [NoRequest EXCEPT !.sent = refresh, !.gen = generation]]
          /\ Goto("resolve", "refresh")
       \/ /\ access # NoGrant /\ (~validated \/ stale)
          /\ req' = [req EXCEPT !["resolve"] =
                        [NoRequest EXCEPT !.pair = access, !.gen = generation]]
          /\ Goto("resolve", "stage")
    /\ UNCHANGED <<server, tab, dropping, torn, checked, lost>>

(* The refresh of resolve was answered under the same generation: the pair *)
(* is applied and revalidated.                                             *)
ResolveRefreshed ==
    LET r == req["resolve"] IN
    /\ pc["resolve"] = "refreshed"
    /\ r.pair # NoGrant /\ Current("resolve")
    /\ Apply(r.pair)
    /\ Goto("resolve", "stage")
    /\ UNCHANGED <<server, subject, generation, validated, req, dropping, torn, checked, lost>>

(* It was answered after a teardown: the late pair is revoked.             *)
ResolveLate ==
    LET r == req["resolve"] IN
    /\ pc["resolve"] = "refreshed"
    /\ ~Current("resolve")
    /\ dropping' = dropping \union Halves(r.pair, r.pair)
    /\ Finish("resolve")
    /\ UNCHANGED <<server, tab, torn, checked, lost>>

(* It failed: the session is over.                                         *)
ResolveFailed ==
    /\ pc["resolve"] = "refreshed"
    /\ req["resolve"].pair = NoGrant /\ Current("resolve")
    /\ Cleanup(NoGrant)
    /\ Finish("resolve")
    /\ UNCHANGED <<server, checked, lost>>

(* commitSession for a revalidation; a commit of another generation is     *)
(* refused in silence.                                                     *)
ResolveCommits ==
    LET r == req["resolve"] IN
    /\ pc["resolve"] = "staged"
    /\ IF Current("resolve")
       THEN /\ subject' = Session(r.pair)
            /\ validated' = TRUE
            /\ stale' = (stale /\ ~TokenCurrent("resolve"))
       ELSE UNCHANGED <<subject, validated, stale>>
    /\ Finish("resolve")
    /\ UNCHANGED <<server, access, refresh, generation, dropping, torn, checked, lost>>

(* The revalidation failed: a refresh token may recover the session, once. *)
ResolveRecovers ==
    LET r == req["resolve"] IN
    /\ pc["resolve"] = "failed"
    /\ IF ~r.again /\ refresh # NoGrant
       THEN /\ req' = [req EXCEPT !["resolve"] =
                         [NoRequest EXCEPT !.sent = refresh, !.gen = generation, !.again = TRUE]]
            /\ Goto("resolve", "refresh")
       ELSE Finish("resolve")
    /\ UNCHANGED <<server, tab, dropping, torn, checked, lost>>

(* logout, and a request refused for its signing key.                      *)
Logout ==
    /\ access # NoGrant \/ refresh # NoGrant \/ Staging # {}
    /\ Cleanup(NoGrant)
    /\ UNCHANGED <<server, pc, req, checked, lost>>

-----------------------------------------------------------------------------
(* The hook.                                                               *)

(* Its timer fires, or a request is refused, while it is enabled.          *)
HookStarts ==
    /\ pc["hook"] = "idle"
    /\ access # NoGrant /\ refresh # NoGrant
    /\ req' = [req EXCEPT !["hook"] = [NoRequest EXCEPT !.sent = refresh]]
    /\ Goto("hook", "refresh")
    /\ UNCHANGED <<server, tab, dropping, torn, checked, lost>>

(* Mutant of Replaced: the answer is applied whatever the store holds now. *)
NeverReplaced(g) == FALSE

Replaced(g) == refresh # g

(* REFRESH_FINISHED: the pair is applied, unless the token it was bought   *)
(* with is not the store's any more; then it is revoked.                   *)
HookRefreshed ==
    LET r == req["hook"] IN
    /\ pc["hook"] = "refreshed"
    /\ r.pair # NoGrant
    /\ IF Replaced(r.sent)
       THEN dropping' = dropping \union Halves(r.pair, r.pair) /\ UNCHANGED tab
       ELSE /\ Apply(r.pair)
            /\ UNCHANGED <<subject, generation, validated, dropping>>
    /\ Finish("hook")
    /\ UNCHANGED <<server, torn, checked, lost>>

(* REFRESH_FAILED: the header is unset, which logs the store out.          *)
HookFailed ==
    /\ pc["hook"] = "refreshed"
    /\ req["hook"].pair = NoGrant
    /\ Cleanup(Session(req["hook"].sent))
    /\ Finish("hook")
    /\ UNCHANGED <<server, checked, lost>>

Next ==
    \/ \E o \in Login :
         GrantServed(o) \/ GrantRefused(o) \/ LoginStarts(o) \/ Granted(o) \/ Drained(o)
         \/ LoginCommits(o) \/ LoginAborts(o)
    \/ \E p \in {"resolve", "hook"} : RefreshServed(p) \/ RefreshRefused(p)
    \/ \E p \in Login \union {"resolve"} : StageServed(p)
    \/ \E h \in dropping : Revoked(h)
    \/ \E s \in {of[g] : g \in fresh} : SessionEnds(s)
    \/ ResolveStarts \/ ResolveRefreshed \/ ResolveLate \/ ResolveFailed
    \/ ResolveCommits \/ ResolveRecovers
    \/ Logout
    \/ HookStarts \/ HookRefreshed \/ HookFailed

Spec == Init /\ [][Next]_vars

-----------------------------------------------------------------------------
TypeOK ==
    /\ issued \in Pair /\ of \in [Pair -> 0 .. MaxGrant]
    /\ fresh \subseteq 1 .. issued /\ consumed \subseteq 1 .. issued /\ good \subseteq 1 .. issued
    /\ access \in 0 .. issued /\ refresh \in 0 .. issued /\ subject \in 0 .. issued
    /\ generation \in Nat /\ validated \in BOOLEAN /\ stale \in BOOLEAN
    /\ pc \in [Tasks -> {"idle", "grant", "granted", "drain", "stage", "staged", "failed",
                         "refresh", "refreshed"}]
    /\ req \in [Tasks -> [pair : 0 .. issued, sent : 0 .. issued, gen : Nat, again : BOOLEAN]]
    /\ dropping \subseteq {"access", "refresh"} \X Pair
    /\ torn \subseteq Pair \X (0 .. MaxGrant) /\ checked \subseteq Pair /\ lost \subseteq Pair

(* A session that was torn down, by a logout, a failed refresh or another  *)
(* login, never comes back: no late answer of a login, a resolve or a      *)
(* background refresh writes it into the store again.                      *)
TornStaysTorn ==
    Shown \intersect {t[1] : t \in torn} = {}

(* The user shown is the subject of the tokens sent: a commit and a        *)
(* refresh that overlap never mix two sessions.                            *)
OneIdentity ==
    /\ Session(access) = Session(refresh) \/ access = NoGrant
    /\ subject # NoGrant => subject = Session(access)

(* A validated store that is not marked stale holds a token whose          *)
(* introspection was answered: a refresh that lands while a revalidation   *)
(* is in flight leaves the mark for the next resolve.                      *)
UncheckedIsStale == validated /\ ~stale => access \in checked

(* A live refresh token is held by the store, carried by a request in      *)
(* flight or being revoked, unless an answer or a revocation was lost: a   *)
(* refused commit or a dropped refresh leaves no session behind.           *)
NoOrphan ==
    \A g \in fresh \ lost :
        \/ g = refresh
        \/ <<"refresh", g>> \in dropping
        \/ \E p \in Tasks : pc[p] # "idle" /\ req[p].pair = g

(* A background refresh that failed tears down no session but its own: a   *)
(* login that replaced the session meanwhile, or is about to, goes on.     *)
FailureIsOwn == \A t \in torn : t[2] \in {NoGrant, t[1]}

=============================================================================
