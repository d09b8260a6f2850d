# Verification of authup

authup is an identity and access server: it authenticates people and programs,
issues OAuth2/OIDC tokens, keeps the sessions behind them and decides on
permissions. This directory models the parts of it where several requests (and
several replicas) work on one piece of state without a lock: a database that
offers conditional statements and cascades, and a cache (redis or memory) that
offers single atomic calls with an expiry. Almost every guarantee of these parts
rests on the *order* of awaited calls, which is what the modules keep. An action
is what runs between two `await`s; the `pc` of a request names the call it makes
next; any call may reject and any process may die between two of them.

Paths below are relative to the repository; `SC` abbreviates
`src/apps/server-core/src`.

## Inventory

### The parts and their state

| Part | State | Operations | What makes it correct |
|---|---|---|---|
| Session store and manager (`SC/core/authentication/session`, `SC/app/modules/authentication/repositories/session.ts`) | `auth_sessions` row, cache entry by id, an entry by secret | create, verify, ping, refresh, MFA stamp, revoke, bulk revoke, expiry sweep | a removed session is never readable for good, never comes back, a concurrent write of another column is kept |
| Refresh rotation (`SC/core/oauth2/grant-types/refresh-token.ts`, token inventory) | `auth_session_tokens` rows (`consumedAt`, `revokedAt`, `refreshOf`), inactive marks in the cache | exchange, grace window, replay reaction, `POST /token/revoke`, sweep | one successor per token; a replay ends the family; nothing outlives the session |
| Device grant (`SC/core/oauth2/device-authorization`) | one cache key per fact: user code, request, decision, poll; counters per person | mint, look up, approve, deny, poll, redeem, throttle | one redemption, the first decision counts, misses are bounded |
| Login throttle (`SC/core/authentication/login-throttle`) | failure events in the database, attempts in flight in cache counters by time bucket | reserve, count, release | concurrency buys no guess beyond the threshold |
| Token verification, keys, token revocation (`SC/core/oauth2/token`, `SC/core/entities/key`) | key row, mark of a stopped key, cached payloads, marks of revoked tokens, all with their own expiry | issue, sign, verify, revoke; update and delete a key | stopping a key or revoking a token binds everyone who asks afterwards |
| Authorization code grant (`SC/core/oauth2/authorization/code`, `grant-types/authorize.ts`) | one-time cache entry of a code, session | issue, pop, exchange | single use; nothing for a session that ended, or for a subject that owes a factor meanwhile |
| Second factor (`SC/core/entities/user-authenticator`, `grant-types/base.ts`) | authenticator rows, verify lock with a renewed lease, attempt counters | enrol, confirm, delete, verify, throttle | no login without a factor outlives the first one; a code is accepted once and a retired code never |
| MFA login ticket (`SC/core/oauth2/mfa-login`) | ticket, pending session | issue, complete, claim | a ticket logs in once and extends no session that did not prove a factor |
| Federated and console login | pending logins in the cache | start, callback | a pending login is consumed once |
| Key store | key rows of a realm, promise shared in a process | resolve, mint | one key in use per realm and process |
| Event log and rollups (`SC/components/event-aggregator`, `SC/app/modules/database/repositories/event-aggregate`) | events, rollups, the cursor of the backfill | record, sweep, recompute, backfill, restart | a final day misses no event and never shrinks |
| Password recovery and registration | hashed codes on user rows | request, reset, activate | a code works once |
| Permissions and policies (`src/packages/access`, `SC/core/query/scope.ts`), query language | policy trees, grants with a reach | evaluate at the gate, compile into a condition, check a row | what a list shows is what a check of each row grants |
| Provisioning, entity services | rows | create, update, delete | unique indices, permission checks |
| Client store, HTTP hook (`src/packages/client-web-kit`, `core-http-kit`) | tokens and user in memory and cookies, refresh in flight | login, refresh, revalidate, logout | a late answer never revives a session that was torn down; two sessions are never mixed; no session is left behind |
| Command line (`src/apps/authup/src/host`) | hosts file and its lock | login, refresh, logout | two processes do not present one refresh token |
| Consoles, themes, translations, configuration, migrations, tests, docs | none of their own | rendering, validation, build | out of scope |

`PROJECT.json` lists all of them under `components`, with the reason where one is
not modelled.

### How they interact

Grants create sessions through the session manager and insert token rows that
*refer to* the session row; removing a session cascades to its token rows, so
"the session is gone" is a foreign key failure for whoever is still issuing.
Sessions are read from the cache first, rows second, so the entry and the row
have to be moved in an order every reader survives. The verifier serves payloads
from the cache by the token string, so disabling a key or revoking a token is
made to bind through marks in the same cache, each with an expiry of its own.
Throttles live in the cache and are advisory when it does not answer; the rows
they count are the events. Scheduled jobs (expiry of sessions, token rows,
events) run in every replica at once and in batches.

### What is hard here

Interleavings at every `await` (all parts); two stores that are not updated
together (row and entry, row and mark, events and counters); a request, a
process or a cache failing half way; entries that lapse on different clocks; a
ttl that is not positive; a person and a device racing on one code; a client
that retries what was already done; counters at their limit. `hazards` in
`PROJECT.json` lists each at its line, with the properties that cover it or the
reason none does yet.

## Plan

Modules in the order they are written, the most important behaviour first:

1. `SessionStore` - done, with proofs.
2. `RefreshRotation`, and `TokenFamily`, the abstract specification it
   implements - done, with proofs and the refinement.
3. `DeviceGrant` - done, with proofs.
4. `LoginThrottle` - done, with proofs.
5. `KeyVerification` - done, with proofs.
6. `AuthorizationCode`, `MfaTicket`, and `Voucher`, the abstract specification
   both implement - done, with proofs and both refinements.
7. `SecondFactor` (logins against the confirmation of a factor) and `FactorUse`
   (the verify lock with its renewed lease) - done, with proofs; the attempt
   counter behind the lease is left.
8. `ClientStore` - done for a tab that keeps a token pair, with proofs; the cookie
   mode is left.
9. `HostLock`, `EventRollup` - done, with proofs. Left: `KeyMint`, `PasswordRecovery`, the
   pending logins of the federated and the console login.
10. `PermissionReach` - done for trees of depth one, with proofs. Left: deeper trees,
    ownership terms, the provisioning merge as a pure algorithm.

Left beside the modules: a run that shows what a failed or a concurrent update of
a key leaves behind (`KeyVerification` has the behaviours), and a composition of
`SessionStore` with `AuthorizationCode`, where the order of session writes and
token writes is the point; today the code's session is "live, cached or gone".

Theorems: every safety property of the runs has one. Left to prove: that a code is
redeemed only on a session that was live when it was looked up, for updates of a
session as `SessionStore` has them (it needs the composition above); `WithinThreshold`
under `Gap` with the allowance the code really gives; the walk of `PermissionReach`
over deeper trees, which needs induction over the tree and so another formulation.

## The modules and the code

### SessionStore

`SC/core/authentication/session/module.ts` over
`SC/app/modules/authentication/repositories/session.ts`.

| Model | Code |
|---|---|
| `row[s]` | the `auth_sessions` row: `expiresAt`, `seenAt`, `mfaAt` (`refreshedAt` moves with `expiresAt` and is folded into it) |
| `cache[s]`, `Live` | the entry by id; it lapses at its own `expiresAt` |
| `pc`, `req` | the awaited call a request makes next, the copy and the patch it holds |
| `batch` | ids a sweep has selected |
| `fate`, `returned`, `late` | history: how a session ended, whose removal returned, whether a request began later |
| `Insert`, `Fill` | `create`, `save` |
| `Start`, `FindHit`, `FindMiss`, `Load`, `FindBySecret`, `NotFound` | `findOneById`, `findOneBySecret` and their callers |
| `VerifyExpired`, `VerifyOnly`, `VerifyThenUpdate` | `verify`, and what `ping`, `refresh` and the console cookie do after it |
| `Merge`, `Set`, `SetRefused`, `Write`, `WriteRefused`, `Drop` | `update`: read the freshest copy, write the entry, write the moved columns, drop the entry when no row was hit |
| `Resolve`, `Remove`, `Evict`, `Notify` | `revoke`, and the removal `verify` makes |
| `SweepFind`, `SweepDelete` | `deleteExpired`, in batches by id |
| `CacheLoss`, `Fail`, `Tick` | eviction, a rejected call or a dead process, time |

The entry by secret carries no state of its own: the console cookie is resolved
against the row, and the second entry is dropped by the same pipeline as the
first, which is one step here.

### RefreshRotation and TokenFamily

`SC/core/oauth2/grant-types/refresh-token.ts` over the token inventory. One
session; its token rows with `consumedAt`, `revokedAt` (`revoked`) and
`refreshOf` (`parent`); `inactive` is the mark introspection reads. A request
walks `Lookup`, `FindSession`, `Consume`, `Block`, `Verify`, `Slide`,
`IssueRefresh`, `IssueAccess`, `Answer`; it leaves the path at `ConsumeLost`
towards the grace window (`GraceRow`, `GraceChild`) or the reaction to a replay
(`FamilySelect`, `FamilyRevoke`, `FamilyMark`, `FamilyEnd`). Beside them:
`RevokeToken` and `RevokeRow` for `POST /token/revoke`, `SessionEnds` for each
way the session ends, `SweepRow` for the expiry job.

`TokenFamily` is what this promises without the window: a token is spent at most
once, a spend grants at most one successor, a closed family grants nothing. It
is implemented under `open <- alive`, `fresh` the rows neither consumed nor
revoked, `owed` the tokens of requests between the consume and the insert of the
successor.

### DeviceGrant

`SC/core/oauth2/device-authorization` over
`SC/app/modules/oauth2/repositories/device-code/repository.ts`. Each variable is
one cache key: `index` (user code), `kept` (the stored request), `decision`,
`polled`, the attempt counter `misses`, the lock `locked`, the spent forgiveness
`forgiven`. `label` and `expires` are the payload of the request. The page walks
`LookupThrottle`, `FindByUserCode`, `FindRequest`, `FindDecision`, `Judge...`,
then `Decide`, `RemoveUserCode` and the forgiveness (`HasMisses`, `ClaimReset`,
`DropMisses`), or `CountMiss` and `Lock`; the device walks `FindRequest`,
`FindDecision`, `TouchPoll`, `PopRequest`, `PopDecision`, `DropPoll`, or `Remove`
on an expired request.

### LoginThrottle

`SC/core/authentication/login-throttle/service.ts` around the password grant, for
one (identifier, address) pair. `rows` are the failure events in the window,
`slot[b]` the counter of time bucket `b`. An attempt takes a slot (`Reserve`),
reads the previous bucket (`ReadPrevious`), counts the rows and is admitted or
refused (`Admit`, `Refuse`), checks the password (`Succeed`, `Mistake`), records
a failure (`Record`) and gives its slot back (`Release`). Each call may fail in
the way the code handles (`ReserveFails`, `ReadPreviousFails`, `RecordFails`,
`ReleaseFails`), and the process may die (`Crash`). `leaked` and `blind` count
what the faults cost: slots nobody gives back, and attempts admitted on the rows
alone. `Gap` says whether a bucket may end between the read of the clock and the
increment.

### KeyVerification

`SC/core/oauth2/token/verifier/module.ts`,
`SC/core/entities/key/service.ts` and
`SC/app/modules/oauth2/repositories/token/repository.ts`, for one key. `status`
is the row; `mark`, `claims[t]` and `inactive[t]` are the three kinds of cache
entry, each the time it lapses. A verification walks `CheckKeyMark`,
`FindClaims`, `ResolveKey`, `SaveClaims`, `CheckInactive`, `Answer`; a revocation
shares it up to `RevokeToken`; an update or a deletion of the key walks
`FindKey`, `StoreKey` and `SetKeyInactive` or `DropKeyInactive`. `late`, `dead`
and `spent` remember what had happened when a request began. `orderly` is history
too: no update of the key met another one or followed one that failed half way.

### AuthorizationCode, MfaTicket and Voucher

`AuthorizationCode` is `SC/core/oauth2/authorization/code` and
`SC/core/oauth2/grant-types/authorize.ts`. `entry[c]` is the cache entry of a
code, `names[c]` the session on it; `session[s]` goes from `live` over `cached`
(the row is gone, its copy still answers) to `gone`, since a revocation takes two
steps. A mint is `Admit`, `Save`; a redemption walks `Present`, `Pop`, `Policy`,
`Subject`, then `Find` and `Refresh` for a code that names a session, or `Create`,
`Recheck` and `Revoke` for one that does not (HTTP Basic), and inserts both token
rows in `Access` and `Answer`, which `Orphaned` says fails without the session
row. Around it the session ends (`End`), the subject is deactivated, a factor is
confirmed or removed (`Factor`) and the entry lapses (`Lapse`).

`MfaTicket` is `SC/core/oauth2/mfa-login` and the challenge controller: `Pend` and
`IssueTicket` for the login that owes a factor, `Present`, `FindSession`,
`Verify`, `Refresh`, `Claim`, `Access`, `Answer` for its completion. The session is
slid *before* the claim tells two completions apart, which is why
`ExtendedOnlyProved` is not obvious.

`Voucher` is what both promise: taken by one attempt, paid once, never given
back. A code is `taken` from its pop, a ticket from its claim.

### SecondFactor

The factors of one user against the user's logins
(`SC/core/entities/user-authenticator/service.ts`,
`SC/core/oauth2/grant-types/base.ts`, `password.ts`). `device[d]` is a factor's
row, `session[s]` a login's, `proved` the sessions with `mfaAt`. A login decides
before it inserts its session whether it owes a factor (`Login`,
`LoginElsewhere`, `Create`), looks again afterwards (`Recheck`) and challenges or
revokes itself (`Challenge`, `RevokeOwn`, `Answer`). A change of the factors is
admitted (`Manage`), asserts the proof (`AssertProved`), and takes the row lock of
the user (`Look`, `Commit`, `Refuse`); the first confirmed factor then revokes the
other sessions one by one (`List`, `RevokeOne`, `Revoked`), any of which may fail.

### FactorUse

`UserAuthenticatorService.verify` for the one row of recovery codes of a user:
`Present`, `Acquire` (or `Busy`), `Read`, `Match` (or `Mismatch`), `Renew`,
`Hook` (the session is stamped), a second `Renew`, `Save`, `Reset`, `Release`.
`lock` is the cache key, `owned` the requests whose lease believes in it; a
renewal may be rejected (`RenewalFails`), after which the key may lapse
(`LockLapses`) while the request goes on. `Enroll` and `Delete` change the row
under the row lock of the user and know nothing of the verify lock.

### ClientStore

`src/packages/client-web-kit/src/core/store/create.ts` with the hook of
`src/packages/core-http-kit/src/hook/module.ts`, for a tab that keeps a token
pair. A pair is a number and `of[g]` its session. The tab holds `access`,
`refresh`, `subject`, `generation`, `validated`, `stale`. A request is sent with
what the store held, is served (`GrantServed`, `RefreshServed`, ... and their
refusals) and its answer handled: a login is `LoginStarts`, `Granted`, `Drained`,
`LoginCommits` (or `LoginForgets`, `LoginAborts`), a resolve `ResolveStarts`,
`ResolveRefreshed`, `ResolveLate`, `ResolveCommits`, `ResolveRecovers`,
`ResolveFailed`, the background refresh `HookStarts`, `HookRefreshed`,
`HookFailed`. `Current` and `TokenCurrent` are the generation guard and the token
guard; `dropping` holds the revocations under way. An answer or a revocation may be
lost, and the server may end a session on its own.

### HostLock

`src/apps/authup/src/host/lock.ts`, `host/client.ts` and `commands/logout.ts`:
`Open` is the exclusive create, `Stat` and `Steal` the look at a file past the
stale cut and its unlink, `Read`, `Exchange`, `Write` the refresh in the
section, `Remove` the sign-out, `Unlink` the release. A command may refresh again
(`Again`) with what it holds. Any awaited call may reject (`Reject`: inside, the
`finally` releases the lock, and a command that comes later meets what is left),
the answer of an exchange may be lost, processes die (`Die`) and files grow old
(`Age`). `outlived` and `raced` remember the two ways in which a lock made of create,
stat and unlink gives way, `torn` that an exchange was, or may have been, made and
its new token not stored: after that nothing is claimed of replays.

### EventRollup

`SC/components/event-aggregator/module.ts` over
`SC/app/modules/database/repositories/event-aggregate/module.ts`. Time is counted
in parts of a day; an event is named by its instant and a rollup holds the events
it counted, `over` saying whether the `createdAt` of its rows is past the day.
Every process has an aggregator. A pass is `Begin` (today and yesterday), `Count`,
`Replace`, `NextDay`, and `Look` with the backfill cursor; it may `Fail` or the
process `Restart` at each point, while events are recorded (`Record`) and swept
(`Sweep`). The database lock of a recompute covers `Count` to `Replace` of one day
(`Locked`); `Look` finds the missing days without it, and the walk does not look
again before it recomputes them. `contested` remembers the days that became final
while another process had them down as missing.

### PermissionReach

One permission of an actor in a list request: `Gate` is `preEvaluateOneOf`,
`Compile` the lowering into a condition (`SC/core/query/scope.ts` over
`src/packages/access`), `CheckRows` the check of each row when the condition cannot
be pushed down. All three are the operator `Evaluate`, the walk over the policy tree
with more or less of the row at hand: `Composite` is the composite evaluator with
its strategies, `Binding` the permission binding over the actor's `grants`, `Reach`
the realm scope of a grant, `Plain` the leaves, `Residual` and `Lowers` the
conditions. A condition is the set of rows it selects.

## The runs

| Run | Instance | Shows |
|---|---|---|
| `session_revoke` | 1 session; 3 requests of every kind race at one instant; one at a time over 3 instants, with the sweep | a removed session never comes back, is never readable once nothing is under way, clients are told only afterwards, a late request never writes, a second factor stamp is kept in the row |
| `session_stale_stamp` | 1 session, 2 requests | violation: see Findings |
| `settles` | rotation: 2 tokens, 2 requests, window 1, 3 instants; sessions: 1 session, 2 requests, 1 sweeper, 3 instants; both fair | rows need the session, a late token is never answered, a predecessor is inactive before its successor is held, a replay ends the family, a removed session becomes unreadable across expiry, sweep and lapse |
| `strict_login` | rotation: 3 tokens, 2 requests, window off; factors: 1 of two steps, 1 mailed of one step, 2 sessions, 2 requests | rotation implements `TokenFamily`, one successor per token; no unproved session outlives the first factor unnoticed, and none changes the factors |
| `one_time_grants` | device: 1 code, 2 requests, 3 instants, cache loss; code: 1 code, 2 sessions, 2 requests; ticket: 1 ticket, 2 requests; recovery: 1 code in each of 2 sets, 2 requests, renewals that fail | one redemption, the first decision counts, an approval is not lost; codes and tickets implement `Voucher`; no tokens for a revoked session or an owed factor; a ticket extends only what was proved; a recovery code is accepted once |
| `side_by_side` | throttle: 3 attempts, threshold 2, 3 buckets, all faults; lookups: 2 codes, 1 user code, 3 requests of one person, limit 2; store: 1 login, 3 pairs, 2 generations, and 1 with lost revocations; host: 2 processes, 3 tokens, 1 death, any calls failing; rollups: 2 processes, 7 instants, 2 a day, retention 5, backfill 1, 2 events | exact counters and threshold; the bound of the misses; a torn session stays torn, sessions are not mixed, none is orphaned; one process in the lock and no replay; a final day is full and keeps what it counted |
| `request_access` | key: 1 token, 3 requests, 4 instants; trees of up to 3 policies over 1 grant, and of 1 policy over up to 2 grants, 2 realms | a stopped key and a revoked token bind later requests, the mark follows the row; a list shows what a check of each row grants |
| `key_expired` | 1 token, 2 requests | violation: see Findings |
| `factor_replaced` | 1 code, 2 requests, 2 sets | violation: see Findings |
| `client_failure` | 1 login, 3 pairs, no faults | violation: see Findings |
| `rollup_shrinks` | retention of one day | violation: see Findings |
| `gate_refuses` | trees of 1 policy, 1 grant | violation: see Findings |

Five runs put several protocols that share no state into one instance: `part`,
chosen in the initial state, says which of them moves, and the others stay where
they began. So the states are the sum and not the product of the parts, and a
property of a part reads `part = "..." => ...`. A composition that interacts is
not meant by it: where parts do interact, the module itself has the other one's
steps (`SessionEnds` in `RefreshRotation`, `Factor` and `End` in
`AuthorizationCode`, `Enroll` and `Delete` in `FactorUse`).

Every passing property has a mutant in `PROJECT.json`: a definition of the model
replaced by the form a plausible bug would give it (`WriteUpsert` for `Write`,
`PopKept` for `Pop`, `AlwaysCurrent` for `Current`, ...), under which the same run
finds the property violated. The mutated forms stand next to the definitions they
replace.

`CHECK_DEADLOCK FALSE` everywhere: clients may stop sending requests, the clock is
bounded, a failed request stays failed, a list request is answered once, and
chains of tokens, pairs, sets and events are finite, so an instance may come to
rest.

### Bounds and why they are enough

* **Requests.** Two suffice for each race of two; `session_revoke`, the key part
  of `request_access`, and the throttle and lookup parts of `side_by_side` have
  three, because there a third party matters: a revoke between the two writes of
  an update while a later request reads, an update of a key between the two reads
  of a verification, or an attempt that counts two others. `ClientStore` has three
  actors as well, a login, a resolve and the background refresh, beside a logout.
* **One session, one family, one key, one code** where entities share no
  state: every key in the cache and every row is by its id. The lookups have
  two codes, as the throttle is shared by them. The theorems lift this to any
  number.
* **`MaxTime`, `MaxBucket`** let the clock run until every lifetime a
  run asks about has begun, ended and been followed by an instant, retention, grace and
  leeway included. The strict rotation and the lookups ask about order alone and
  hold the clock still. Clock values enter only by comparison and addition. Seven
  instants of `EventRollup` are three and a half days: one that is swept while it is
  recomputed, one that is filled again, one to be yesterday. Two processes
  (`Aggregator`) are one that makes a day final and one that fills it again.
* **Shared constants.** A module composed with others gets its numbers from the
  `.cfg` of the run where they are parameters of the composition (`SideBySide.cfg`,
  `Request.cfg`), so the theorems about the composition are about any of them.
* **`RaceAtOneInstant`** (`SessionStoreRevoke.cfg`): the three requests race, and
  fail, while the clock stands; once it moves, and on the console cookie path, they
  come one at a time. `settles` has two requests race the clock, the cookie path and
  the sweep.
* **`Kinds`** selects the requests of an instance; together the runs have all of
  them.
* **`FewFaults`** (`SideBySide.cfg`): at most one attempt not counted and one
  slot lost per bucket; the counters are unbounded otherwise. The theorems have
  no such bound.
* **`LockStands`** (`SideBySide.cfg`) cuts the states after a holder of the lock file
  outlived the cut or a waiter removed a newer file: `LockKept` excuses them, now and
  ever after, so they are only looked at once.
* **`Orderly`** (`Request.cfg`) cuts the states after an update of the
  key that met another one. `StopBinds` and `MarkFollowsStatus` are claimed for
  orderly updates only, in the theorems as well: without a lock, or after a
  failure between row and mark, the code does not give them.
* **`MaxGrant`, `MaxGen`** (`ClientStore`): three pairs are the one a tab opens
  with, a refresh of it and a login; two generations a teardown after a login. A
  lost revocation multiplies the states, so that instance has one generation.
* **`MaxToken`, `Deaths`** (`HostLock`): two exchanges and one death; a second death
  only repeats what the first one leaves.
* **`MaxSet`, `MaxEvents`**: a set and its replacement; an event that is counted
  and one that comes late.
* **`MaxChildren`, `MaxGrants`**: a strategy tells apart none, one and several
  children in each outcome, and three children give each of them beside another. Two
  realms and the global one are the actor's, another's and nobody's.
* Symmetry is used for safety runs only, over sets that occur in no ordered or
  chosen way. (`NoRequest` names an arbitrary code or session; a request that is
  idle holds it without looking at it.)

### Fairness

`FairSpec` of `SessionStore` and `RefreshRotation`, and `SettlesSpec`, assume weak
fairness of `Step(o)` for each request: an awaited call is answered or rejects, and
the JavaScript event loop resumes whoever waits for it. In `SettlesSpec` this is
`Step` in the part that moves; the other part has no request and is asked for
nothing. `Fail` is no part of `Step` and stays possible at each point, so the
liveness properties name a failed request as a way out. Nothing obliges a request
to start, the sweep to run or the clock to move, and no strong fairness is
assumed.

## Findings

* `session_stale_stamp` (divergence): `update()` reads the cached copy and
  writes it back in two calls. A ping that read before the second factor was
  stamped leaves an entry without the stamp, where two comments say that a
  concurrent write to another column is kept. The row keeps it (`StampKept`).
* `key_expired` (bug): a token accepted within the leeway of the JWT library, or
  which expires between verification and save, is cached for the one-hour
  fallback and served without a look at its expiry. The comment at that place
  names this outcome as the one to avoid.
* `factor_replaced` (bug): a verification writes back the row it read before the
  set of recovery codes was replaced or deleted; enrolling and deleting do not take
  the verify lock. The retired codes are valid again and the new ones, shown once,
  are not.
* `client_failure` (bug): a background refresh that fails logs the store out
  whatever it holds by then, so a login that replaced the session meanwhile, and
  whose cleanup revokes the very token being refreshed, is torn down. The
  success path of the same refresh is guarded.
* `rollup_shrinks` (bug): each pass recomputes yesterday from the events on disk.
  With a retention of one day, which the configuration admits, the sweep empties
  yesterday while the pass counts what is left, and no later pass repairs it.
* `gate_refuses` (divergence): the gate takes a realm reach for passed when the row
  is not known, and an inverted node above turns that into a refusal of a request
  whose rows the check would grant. The documentation says that an inverted policy
  never causes an early denial.

Seen while reading, with no run of their own:

* A refresh token that was revoked or swept between the lookup and the consume is
  taken for a replay, and the session ends, where the documentation says of
  `POST /token/revoke` that the session stays alive.
* An attempt that computes its throttle bucket just before the bucket ends and
  increments after an attempt of the next one is not seen by it (`Gap`).
* A comment puts the misses of a person in a window at 19 for a limit of 10;
  concurrent lookups add up to one for each request beyond the first
  (`MissesBounded` is `2 * Limit - 1 + (Cardinality(Op) - 1)`).
* A session whose row is gone may be read from the entry for as long as the
  removal has not evicted it.
* An update of a key that fails between row and mark leaves the mark as it was.
* Rows of a rollup are stamped when they are written, after the events were read:
  a day that ends in between reads as final although its last events were not
  counted (`early`).
* After an outage longer than the retention, a provisional day is filled again
  from events that are no longer all there.
* Two processes that find the same day missing both fill it, one after the other,
  as the lock is taken for each recompute and the look for missing days comes
  before it (`event-aggregator/module.ts:60` and `:67`). If events of the day
  expire in between, the second one replaces a final rollup by what is left of it,
  whatever the retention (`contested`).
* A refresh of the command line whose answer is lost, or whose `storage.write`
  rejects (`client.ts:60`, `:63`), leaves the exchanged token stored and
  the lock released: the next command presents it, and strict rotation ends the
  family, which the comment at `lock.ts:47-55` means the lock to prevent (`torn`).

## What is proved

TLAPS checks each proof to its last leaf; `PROJECT.json` lists the theorems, one at
least for each safety property the runs check. They hold for every value of the
constants that the `ASSUME`s in the modules admit. Most of these are plain type
conditions. The others: `Op` is finite where requests are counted (`LoginThrottle`,
and with it the lookups); the sets of codes, tickets and devices are not empty,
because the arbitrary element an idle request holds is taken from them; and a
day is no longer than the clock of `EventRollup` runs, which begins with the second
day. Five theorems carry a hypothesis: `Grace = 0` for the two of the strict
rotation, `Gap = FALSE` for the two on the threshold, `2 * DayLength < EventsKept` for
`CountedIsKept`; without them the code does not give the property (see Findings and
Abstractions).

* **SessionStoreProofs.** The inductive invariant is `TypeOK /\ Lifecycle`: a row
  exists exactly while the session is opening or open, a request past the removal
  or marked late is on a session that is gone, one request creates a session. With
  it, `GoneStaysGone`, `ToldOnlyWhenGone` and `LateRequestNeverWrites` are
  one-step facts, and `EndedIsUnreadable` is inductive: an entry written after
  the row went belongs to a request that still has the refused `UPDATE` and the
  drop ahead of it. `StampKept` rests on `Stamped`: a patch that carries the
  stamp at all carries one, whatever copy it was merged into.
* **StrictLoginProofs.** `OneSuccessor` holds in the
  abstract family by an invariant (what is fresh or owed has no successor yet).
  Rotation keeps `RowsNeedSession` because each insert refers to the session row;
  `LateNeverAnswered` because what makes a token stale is not undone while a request
  presents it (`LateStopped` says how far such a request comes): no row is
  unrevoked, the window moves on, a consumed child stays. With `Grace = 0` no two requests are in the pipeline with one token,
  and every step maps to a step of `TokenFamily` or a stutter
  (`RotationImplementsFamily`); `SingleSuccessor` is carried over along it.
  `PredecessorInactive` needs only that whoever is past the mark has left it
  (`Blocked`). For the factors, `FactorInv` is inductive: while a factor is
  confirmed, a live session that never proved one and has its tokens, or is about to
  be answered with them (`Exposed`), is excused or somebody is about to revoke it
  (`Chased`). The row lock orders a confirmation against the look a login takes after
  its insert: either the login sees the factor, or the confirmation lists the session.
  `OwnChangeProved` follows from what a change has asserted (`Sure`). The theorems
  about the composition carry these over: the part that moves moves as it does
  alone, and the other stands still, which is a stutter.
* **DeviceGrantProofs.** Beside the types, four parts are inductive together with
  `RedeemedOnce`: a request knows the codes it works on (`Coded`); nothing is
  written under a code's keys before its one mint has stored it (`Fresh`); a stored
  request has not been redeemed and its decision is the first one, which a poll
  that read an approval has read (`Bound`); whoever popped a request is alone with
  it (`Taken`). `DecisionBinds` follows from `Bound`.
  `ApprovalKept` adds `Waiting`: a request outlives its own expiry in the cache
  (`Lasting`), a poll past its read knows the first verdict (`Reading`), no live
  request is dropped before a verdict (`Undropped`), and an approved one is in
  the cache or with the poll that popped it (`Answering`, `Awaited`).
* **SideBySideProofs, the login throttle.** `SlotsExact` is inductive with `Fits` (an attempt knows
  what it holds) by counting the holders of each bucket, and gives that no counter
  goes below zero. `WithinThreshold` needs an order that is not in the state: the
  invariant says that there *is* an order of the holders, by increment, in which
  everybody has counted whoever is ahead and still holds a slot, and a set of
  attempts that are *due*, whose place was counted by one admitted before them. A
  reservation joins at the end; an admission either was due or makes everybody it
  counted due; every other step only removes. The theorem assumes
  `Gap = FALSE`, and must: see the attempt at the end of a bucket under Findings.
* **SideBySideProofs, the other parts.** `MissesBounded` counts without
  an order: every miss is one forgiven, one short of the limit, or one of a request
  that is past the throttle and will not count another (`Accounted`); at most one
  request forgives. The lock file: whoever is inside made the file that is there and
  is in time (`Owned`), and the stored token is unspent but between an exchange and
  its write (`Unspent`), each unless one of the excuses happened: a holder that
  outlived the cut or a waiter that removed a newer file for both, and for the
  tokens an exchange whose new token was not stored. The rollups: a
  pass lasts at most one part of a day (`Underway`), one process at a time is
  between the read and the transaction of a recompute (`Alone`), what it read of a
  day that was over by then is all of it (`Complete`), and an event a final day
  counted is in its rollup, is gone from the log only past its retention
  (`CountedLog`), and is on no backfill list, unless two processes found the day
  missing (`Spares`): a pass reaches back to yesterday, so the theorem wants a
  retention longer than two days, and the excuse of a contested day. The store of the web kit (`StoreInv`): the
  pair of a login that has not committed is nobody else's (`Own`), its session is
  not torn down while it may still commit (`Alive`), a login that may commit finds
  the store empty and is alone (`Emptied`), a resolve that may still write works on
  the session the store holds (`Held`), and a live refresh token is the store's, some
  request's or being revoked (`Kept`). Both instances of the store are steps of one
  (`Tab`), whose faults depend on the part, so that one proof serves both. The bound
  `FewFaults` of the run is in none of these theorems.
* **RequestProofs.** No token expires later than `now + Lifetime`
  (`Bounded`), and the mark is set after the row was written and for at least that
  long, so it outlasts every token of the key, the ones whose signing overlapped
  the stop included (`Marked`). A request that began after the stop therefore gets
  past the mark only once its token has expired (`Late`). `RevokeBinds` is the
  same argument with the inactive mark of the token (`Dead`) and does not need
  `orderly`. `RequestImplementsKey` and `ListedIsGranted` carry this, and what
  PermissionReachProofs shows, over to the instances the run composes.
* **AuthorizationCodeProofs.** Inductive beside the types: a code is saved by the
  one request that drew it (`Drawn`), whoever popped a code is alone with it and
  nobody was answered yet (`Taken`), a code that is not gone was not paid
  (`Spent`); a redemption that began too late gets no further than the lookup of
  its session (`Late`), and one that was to be refused for the factor has the
  recheck or the revocation ahead of it (`Warned`). The first three make every step
  a step of one `Voucher` or a stutter (`CodeIsVoucher`).
* **GrantsProofs.** The theorems on the code are reached through an instance and carried
  over to the composition. `TicketInv`: a ticket is issued once, claimed by one
  completion that nobody was paid for before, and whoever completes has proved the
  factor; with it every step of a ticket is a step of its `Voucher` or a stutter.
  `UseInv`: the requests that believe in their lease hold the lock and are one
  (`OneHolder`, `Leased`); a code that was burnt is used in the row of its set and in
  the copy of whoever holds the lease (`BurntEverywhere`), so nobody presents it
  with success again, unless a lease that had ended wrote (`slipped`).
* **PermissionReachProofs.** The walk without a row is compared with the walk with
  one (`Sound`): a refusal stays a refusal, a pass stays a pass, and what is lowered
  selects the rows that pass. Leaves have it, inverting keeps it, and a composite
  has it because settling counts its open children as undecided and lowering needs
  a condition from all of them (`WeighedKeeps`, `WeighedExact`). The gate is weaker:
  a reach passes there whatever the row, so only refusals are kept, and only
  without an inversion above (`GateIsChecked`, `Masked`). No bound on
  the tree, the grants or the realms enters the proof.

### What is only model-checked

The two liveness properties (`EndedBecomesUnreadable`, `ReplayEndsFamily`), which
TLAPS has no rules for under fairness, and the six violations, which are
counterexamples. Everything else a run checks is a theorem as well.

## Abstractions

* A session's columns that no concurrent request moves (identity, address, agent)
  are left out, so are contents of tokens and messages.
* Increment and `PEXPIRE` of a counter are one step, as are the drops of one
  pipeline. `KeyVerification` takes `OAuth2TokenRevoker.revoke` as one step at its
  end; `RefreshRotation` keeps the cache and the row apart.
* A cache loss of the device grant loses everything at once (a restart of the
  memory adapter, a flush of redis); the session store loses entries one by one.
* The throttles are modelled for one person and one window; a new window starts
  from empty counters.
* `LoginThrottle.Tick`: an attempt ends before the bucket after its own does, as
  the comment at the code assumes.
* `KeyVerification.Tick`: an issuance takes less time than its token lives. The
  leeway is the JWT library's and external.
* `AuthorizationCode` has one subject; client, redirect URI and PKCE verifier fit
  or do not. The checks of the authorization request come before it.
* `SecondFactor` assumes a database with row locks (`withUserLock`); without
  them the changes of the factors race each other. A session whose revocation
  failed is `missed`: the code logs it and goes on. A session a first factor
  was enrolled from is `kept`.
* `FactorUse`: the key of the lock does not lapse while its lease is renewed in
  time, and a request stops when it sees that it lost the lease. A request whose
  renewals fail may write after the key lapsed, between its last look and the
  write; `slipped` remembers that, and `AcceptedOnce` excuses it. The attempt
  counter is the deadline it arms.
* `ClientStore`: the browser's event loop runs a handler to its next `await`, so
  each handler is one step. Cookies are written with the refs and read at the
  start only.
* `HostLock`: `OneInside` and `NeverReplays` excuse a holder that outlives the
  stale cut, a waiter that unlinks a newer file than the one it looked at, and,
  for replays, an exchange whose new token was not stored: a death or a failed
  write in between, or an answer that never came. A call that rejects has done
  nothing (an `fs.rm` leaves its file, a removal of the tokens the tokens), but for
  the exchange, of which that is not known. What a request the client gave
  up does when the server comes to it is not modelled: `torn` is set by then.
* `EventRollup`: an event carries no realm or name, and the sweep takes all that is
  due at once. The processes share one clock, and a process that lives does not lose
  the database lock. `CountedIsKept` excuses the events that expired of a day two
  processes filled. It is checked for a retention of two and a half days and fails
  for two, which its theorem does not admit: a pass that runs past midnight still
  recomputes the day before its own yesterday. The retention of the rollups
  themselves is off by default and left out.
* `PermissionReach`: a tree is a composite of leaves, a permission is one name, a
  row has a realm and an attribute that matches or does not. Terms on ownership are
  left out. `ListedIsGranted` excuses a refusal of the gate for the trees that
  `gate_refuses` is about (`Masked`).
* A jti or session id is drawn once: a collision of UUIDs is left out.

## Not modelled yet

The components with status `not_modelled` or `partly` in `PROJECT.json` each carry
the reason. The ones worth a module are in the plan above: the mint of keys,
password recovery, the pending logins, the merge of provisioned entities. Much of
the repository keeps no state that concurrent requests share: the entity services
read, check and write once per request and differ in names; the query language and
the validators are sequential transformations of one request; consoles, themes,
translations, configuration, migrations and the build render, describe or
generate.
