# A formal model of consumel-server

TLA+ modules of `consumel-server` (Go): sessions and the session cache,
distributed rate limits, email verification, the creation of users,
organizations and projects, the life of the process from its configuration to
its exit, the requests it serves meanwhile, and the pure rules for passwords,
mails and the published document. TLC checks them on small instances; TLAPS
proves nearly all that is safety for all sizes.

## The system

One or more API processes (`cmd/api`) share one PostgreSQL and one Redis.
Requests are goroutines. Authlier, a library that is not in the repository, owns
the authentication routes and calls the stores and guards of
`internal/infra/authentication`. Nothing in a process is shared between requests
but the database pool, the Redis client, the single-flight group of the session
store and the telemetry instruments; everything else that races does so in
PostgreSQL or Redis.

| Part (source) | State | Operations | What makes it correct |
| --- | --- | --- | --- |
| Session store (`infra/authentication/session_store.go`) | table `authlier_sessions`, advisory locks, single-flight group | Create, FindByTokenHash, Extend, Rotate, Revoke, RevokeAll | never more than three live sessions; the oldest go; no sign-in hangs |
| Session cache (`session_cache.go`) | Redis entries with a time to live | Get, Set with jitter, Delete | a revoked session stops being accepted, for good; Redis is optional |
| Rate limiter (`infra/ratelimit/redis.go`) | Redis bucket and window per key | Allow (one Lua script) | burst and window limits, retry times right to a millisecond |
| Attempt guards, request limit (`attempt_guards.go`, `handlers/rate_limit.go`) | none of their own | Check, RateLimitRequests | guards fail closed, the request limit fails open |
| Email verification (`email_verification_store.go`) | Redis proof and owner keys, `authlier_users` | FindUserByEmail, Issue, Verify | one live code, consumed once, only for the email it was issued for |
| Users (`internal/users`) | table `users` | ResolveUser | one user per Authlier subject, whatever races |
| Organizations, projects | their tables | CreateOrganization, CreateProject, access query | nothing half-created is visible; owners see what they created |
| Account request (`handlers/account.go`, `services`) | none | Resolve, Get | session, user and access in order, each failure answered |
| Configuration (`config`) | none | Load, Validate | what is validated is what is used |
| Process (`cmd/api`) | open clients, listener, signals | startup, serve, drain, close, exit | dependencies outlive requests; the exit status tells failures; it ends |
| HTTP pipeline (`router.go`, `infra/cors`, `infra/telemetry`, `health`) | gauge, counters, log | middlewares and handlers | every request is counted and logged once, as what it is |
| OpenAPI document (`openapi`) | none | operationResponses, password schema | lists every status an operation answers with |
| Password policy (`authentication/password_policy.go`) | none | ValidatePassword | agrees with the published schema |
| Authentication email (`authentication/templates`, `infra/clients`) | none | render, send | names the time left, and is sent only while some is |

The query code that sqlc generates is not modelled; the queries it is generated
from are. `PROJECT.json` lists every part, and under `hazards` what is hard to
test in each, at its line, with the properties that would catch it.

The behaviours that are hard: statements of concurrent transactions that
interleave under READ COMMITTED; what is read before a commit and used after it
(cache fills, snapshots); answers that are lost after the effect took place;
commands that the Redis client sends again on its own; clocks read by one machine
and used by another; requests that wait for another request's query, or for a
connection that a query without an end holds; shutdown around requests in flight.

## Modules

**`SessionStore`** – `Create` statement by statement. `pc[i]` is where the call
that writes session `i` stands; a transaction is the stretch of program points
`InTransaction`, its locks are derived from `pc` (`HoldsLock`, `HoldsRows`), and
its effects wait in `victims` until `Commit` publishes them. The capping UPDATE
is two steps, because its snapshot (`SelectOldest`) comes before its row locks
(`RevokeOldest`). Lock keys are `hashtext` values and may collide. Sign-outs,
extensions, rotations and the clock interleave with it. **`CappedSessions`** is
what it promises: a sign-in adds a session and evicts the oldest, atomically,
and otherwise sessions only end. `ActiveEntries` is the refinement mapping.

**`SessionLookup`** – the cache read, the coalesced lookup of `FindByTokenHash`,
the cache fill of Authlier, and the tail of a revocation (commit first, cache
deletion later). The cache holds remaining times, and request slots are reused,
so the state space is finite without bounds on time or requests and liveness is
checked over infinite behaviours.

**`RateLimiter`** – the Lua script and its arithmetic, which is that of doubles.
Tokens are counted in units so fine that every stored number is whole; the
operations that round (the quotient and the sum of line 38, line 56) are the
constant functions `Rounded` and `Waited`, of which only the largest error is
assumed (`ArithmeticAssumption`), less than a fifth of what a clock unit, a
millisecond, restores. A double comes nowhere near that. The sorted set is a
function from members to scores; the random member of a request is its ordinal among the
requests allowed, new like every random one, so that ZADD of a member that is there
already only sets its score. Each call works with a time that
differs from the clock of Redis by one of `Offsets`. go-redis is created without
options about retries (`infra/clients/redis.go`), so that it sends a command up
to three more times when no answer comes: `Resend` runs the script again for a
request that was allowed and whose answer is lost, in the same clock unit or, if
`Offsets` has late times, units later and among other requests. The window's
member is the same, the bucket is charged once more. A request that was refused
left no member, so that its repetition is the very step `Allow` takes for a
request of the same offset; it has no action of its own. **`HybridLimit`** is the
continuous limiter it should implement: a bucket that refills as time passes and
a window that forgets by itself, with no expiry and no lazy pruning. All that is
inexact is in one place: a request that reads the bucket may read it two errors
off.

**`AttemptGuards`** – the two layers of limits on top of `RateLimiter`; each
check is a call that may be allowed, limited, or fail before or after the script
ran, or lose its answer and run again with the old time and, if it was allowed,
the old member (`sent`, `repeats`) among the calls of others. The three guards
differ only in rules and keys, which are constants.

**`EmailVerification`** – Issue and Verify, one step per call of Redis or
PostgreSQL. Scripts are atomic; keys expire; answers may be lost
(`ConsumeLost`, the outcomes of `Replace`, `Mark`) and the script of Issue may
be sent again (`ReplaceAgain`). A time to live below a millisecond is cut to
none; the script then fails after it has deleted the previous proof
(`DeleteOnly`). GETDEL sent again finds nothing, which is
`ConsumeLost`. `proven` is a history variable: the emails whose codes were consumed in time.

**`UserResolution`** – the insert-or-select. `seen` is what a statement's
snapshot contains, `inserting` the rows not committed; an insert respects the
unique index against both. **`UserDirectory`** is its abstraction: one user per
subject, chosen once, returned to everybody.

**`Tenancy`** – extends it with the transactions that create an organization or
a project, insert by insert with the foreign keys as guards, and the access
query, a join of memberships, organizations and roles under its five filters.
Deletion and suspension of an organization, removal and suspension of a member
and deletion of a role are external (`SetColumn`, `Reinstate`): columns and
filters exist, code that sets them does not yet. Neither creation is called from
a route yet.

**`Configuration`** – `Load` and `Validate` on classes of values, from unset to
padded with spaces, and which later step of startup refuses what they let pass
(`Refuted`). The two URLs are judged trimmed and kept as they were set; trusted
origins are a setting that nothing looks at. **`ApiDocument`** – the statuses that the document derives for five
operations that stand for all.

**`RequestPipeline`** – eight kinds of requests from CORS to the completion
record, sharing the pool and the instruments: the operation a request is logged
as, panics, the limit, handlers that wait for a connection or for a query that
never returns, and the readiness probe that gives up. What Authlier answers a
sign-in with is not the repository's code: `Rejects` admits every status its
refusals may have, an unverified account's, an untrusted origin's and a guard's
included, and no passing property says anything of them but that they are counted
and logged. **`ServerLifecycle`** adds
`run` and `serveHTTP`: the configuration, the startup steps with the three
telemetry providers one by one, the listener's goroutine and its channel, the
connections it has accepted and from which a request may come even during the
drain, signals (deadly until `Notify`, which comes after the listener was
started), the drain, and what is closed in which order. It extends the two
modules before and decides when requests are accepted and which clients are open.

**`PasswordPolicy`** – `ValidatePassword` and the published pattern on Unicode
classes. **`AuthenticationEmail`** – the time that the two mails name.

The `*Proofs` modules hold the theorems; the `MC*` modules give constants for
TLC. There is no composition of `SessionStore` with `SessionLookup` yet: the latter has the one step `Revoke`, which stands for every
commit that revokes, and assumes nothing about when deletions follow.

## Runs

| Run | Bounds | Shows |
| --- | --- | --- |
| `SessionCap` | 3 sign-ins, limit 2, lifetime 2, time to 3, pool of 2 | the inductive invariant, the cap and the refinement, without rotations |
| `SignInReturns` | 2 subjects with one lock key, a rotation, limit 1 | no sign-in waits for ever |
| `RotationCap` (violation) | 2 sign-ins and a rotation, limit 1 | rotation breaks the cap |
| `SessionLookup` | 2 slots, 2 instances, 1 token, TTL of 10 | revocation, coalescing, Redis outage, liveness |
| `FollowerCancelled` (violation) | 2 slots, 1 instance | a follower gets the leader's cancellation |
| `RateLimiter` | 1 key, 2 per 6 units, 3 per 7 units, rounded to sixteenths, seconds of 2 units, requests sent again, time to 17 | limits, retry times and their header, refinement |
| `LateRequest` (violation) | the same bucket, requests up to 2 units late the first time or again, time to 4 | time credited twice |
| `AttemptGuards` | 3 attempts on one account that allows 2, from 2 IPs behind a proxy, one call sent again, nothing rounded, time to 2, symmetry | fail-closed guards, fail-open limit, nobody charged for a blocked source |
| `EmailVerification` | 1 user, 2 emails, 2 codes, 3 issues (each script twice, or failing midway), 2 verifications, symmetry | one live code, single use, verified means proven |
| `Tenancy` | 3 requests (2 of one subject), 1 organization, 1 project, any lifecycle column of any row set, one at a time, and, if a suspension, unset | one user per subject, everybody answered, whole rows only, access |
| `ServerLifecycle` | 2 requests of any kind, pool of 1, two layers with one setting amiss each | accounting, documented answers, order of closing, exit status; shutdown ends, probes are answered |
| `PasswordSchema` (violation) | all passwords of up to 5 characters, lengths 3 to 4 | the schema is not the policy |

Why the bounds suffice. Overtaking needs two calls, and a third to disturb them
from outside: a third sign-in to fill a cap of two, a third issue to replace a
code while another is consumed, a third request that holds another user. The
limiter's keys are independent, so one is enough; keys live for fourteen units after
the last request (`Lifespan`), twice the seven of the window, so that seventeen let
a bucket be spent, expire and be used anew, and the rule makes both limits bind. A
unit restores a third of a request, which is no multiple of the machine's 1/16: a
refusal is stored rounded and the errors of a row of refusals add up, as those of
doubles do. Requests and repetitions that come units late are in `LateRequest` and, for
the guards' calls, in `AttemptGuards`; that the window's limit holds with them is
proved for any lateness (`HardLimitHolds`). One lifecycle column set at a time is enough to find a filter that the
access query lacks, since its filters are a conjunction; the theorem has no such
bound. The guards' keys have windows of two and three units and at most three attempts, so that time need not
pass two; attempts that name no account are not among them, but the theorems
cover them. Two requests are enough for one to hold the only connection while
the other waits, probes or panics. Settings are checked one by one but for the
two of Google, of which each layer may spoil one. A TTL of ten is the smallest for which the ten percent of jitter is a whole unit. The clock in `SessionStore`
passes one lifetime. Every property also has a mutant, a version
of one definition with a plausible bug, defined just before it and marked
`Mutant`, that TLC refutes under the same configuration.

`CHECK_DEADLOCK FALSE` is said where the system may stop: calls have all
returned, the process has ended, or the password has all its characters
(`Tenancy`, `ServerLifecycle`, `PasswordSchema`). The others keep the check;
`SessionStore` and `AttemptGuards` have a stuttering step once everybody is
answered.

### Fairness

* `SessionStore!Fairness`: each call that has begun goes on. The instances run
  and PostgreSQL answers or the call fails; nothing forces a failure or a
  sign-in. Locks are handed on because their holders move.
* `SessionLookup!Fairness`: requests in progress are served and time passes. A
  cache deletion need never happen ("deferred to expiry"), so that
  `RevocationTakesEffect` rests on expiry alone.
* `Tenancy!FairSpec`: queries of a request return. Creations may stop anywhere.
* `ServerLifecycle!FairSpec`: `run` is scheduled, the listener's goroutine ends
  once Shutdown has closed it, a connection from which no request comes is closed
  (`readHeaderTimeout`, server.go:27, or Shutdown itself), and requests go on but for what they wait for
  from PostgreSQL. That queries return is not assumed: the server sets no
  statement timeout, and Shutdown cancels no request. `ReadinessAnswers` holds
  without it. `ShutdownEnds` states it as its premise `QueriesEnd`, since
  without it `pool.Close` (main.go:80) waits for ever; the shutdown timeout does
  not cover that wait.

### What the violations say

1. *Rotation and the cap* (session_store.go:202). `Rotate` passes through
   without the advisory lock. The capping UPDATE of a concurrent sign-in does
   not see the replacement. This assumes that Authlier's Rotate inserts and
   revokes in one transaction; Authlier is not in the repository.
2. *Followers and the leader's context* (session_store.go:172). Everyone who
   joined a lookup is answered 401 when the leader's client goes away.
3. *Late requests* (redis.go:49). A request that was late moves `updated_at`
   back; the time since is credited again, and a request that is sent again
   late does the same. In `RateLimiter` requests arrive within a clock unit, and
   there the bound of the bucket, the retry times and the refinement hold and are
   proved, with that as their hypothesis `Prompt`. The window's limit needs no
   such hypothesis.
4. *Passwords* (password_policy.go:35). The schema that the server publishes
   (document.go:106) admits passwords it refuses, and refuses some it admits:
   the pattern's capitals and digits are ASCII, and its special character may be
   a control character or a mark. For printable ASCII they agree, which is
   proved.

Divergences seen while modelling that no run states: a failure to close Redis
is only logged and the exit status stays zero (main.go:100-104); every session
error, a PostgreSQL outage included, is a 401 (authenticated_tenant.service.go:51-53);
when the listener fails, dependencies are closed without waiting for requests
(server.go:43-48), which `DependenciesOutliveRequests` excepts by name; a
creation whose commit answer is lost can be repeated; a sign-in that was
overtaken by newer ones may revoke the session it is about to return; and a code
drawn again while the same code is being consumed loses its owner key. The last
is excluded by the assumption `Settled`, which `CodesRecur = TRUE` drops.

Those about commands sent again: the script of Issue may find the key it wrote
itself and report a conflict for a code that is stored, or put an older code in
the place of a newer one; and a code consumed while its script is under way again
would be stored a second time. The last takes a code typed before it was
emailed, which the assumption `Told` excludes and `CodesGuessed = TRUE` admits.
A client can be refused by the limiter that made fewer requests than
`ImmediateRequests`, since every repetition costs a token. A call of a guard that
was sent again counts in the window for the time it was first sent, and so leaves
it early: the attempts of such calls may come on top of an account's rule, and
`GuessBudget` excepts them (`SentAgain`).

Those about HTTP: CORS answers a preflight ahead of telemetry (router.go:37,
cors/middleware.go:34), so that no record of it is made, though ARCHITECTURE.md:24
promises one for every non-health request; when GET /account fails with 500, its
handler logs a record of its own under the operation that the completion record
has. Error codes are `unauthenticated` and `rate_limit_exceeded` where the
document's examples have `not_authenticated` and `too_many_attempts`.

Refused sign-ins: wrong credentials are answered 401, which a test of the repository
says (authentication_flow_test.go:139), and the document lists a 401 for protected
operations only (document.go:154), of which sign-in is none. The status is Authlier's
choice, so that no property is about it: `AnswersAreDocumented` is about the operations
that the repository answers itself.

Those about the limiter's doubles: the retry time may be a millisecond too long
(with 0.7 of a request stored and a rule of 60 per 60000 ms the script says 301 ms
where 300 are enough), and a request may be refused that exact arithmetic would
allow (ten refusals of the same rule, 100 ms apart, store 0.1 ten times, which is
less than one: the request at 1000 ms is refused, the one a millisecond later is
not). So `RetryAfterClose` and `HybridLimit` say how far off an answer may be, and
nothing claims that it is exact. Errors add up from refusal to refusal, but never
faster than two roundings per millisecond, since nothing is rounded when no time
has passed: `BurstBound` allows for them.

Those about settings: both URLs are validated trimmed and used untrimmed
(config.go:137-138, 202). With a space after ClientBaseURL the server may start, and the
path of the reset link is appended to the space (config.go:228), so that
`RenderPasswordResetEmail` refuses every link (password_reset.go:36-40) and no mail for
a password reset is sent; nor does a browser's origin match such a URL (router.go:36).
Whether Authlier refuses it at startup (main.go:180) cannot be seen in the repository.
`Configuration` does not go beyond startup, so that no property calls what passes
`Validate` usable. A proxy that is no address and a Redis URL of another scheme fail
only in later steps of startup; trusted origins are not validated.

## Proofs

All theorems hold for any number of subjects, sessions, instances, requests,
users, codes and connections, and any positive limit and lifetime; the
assumptions are the named `ASSUME`s of the modules and what a theorem states.

Sessions (`SessionStoreProofs`, `SessionLookupProofs`):

* `TypeCorrect`: `Spec => []TypeOK` for `SessionStore`.
* `CapHolds`: without rotations, `Spec => [](CapInvariant /\ SessionCap)`.
  `SessionCap` is not inductive: that `Commit` keeps it depends on what the
  UPDATE chose some steps before. `CapInvariant` adds that lock holders exclude
  each other (`LockExclusive`), that rows appear only with a commit
  (`UncommittedInvisible`), that no session is from the future
  (`CreatedInPast`), and `ChoiceStands`: from snapshot to commit, what the UPDATE
  leaves alive fits the limit and is newer than all it revokes. Between the
  snapshot and the commit nobody else of the subject can add a session, since
  that takes the lock, so that the survivors only become fewer (`ShrinkingStep`);
  the commit then turns `ChoiceStands` into `SessionCap` (`CommitStep`), and the
  snapshot establishes `ChoiceStands` (`SelectStep`). That sessions live now were
  live at every earlier moment is what makes a capping UPDATE that compares with
  its own, older `created_at` right. The run `RotationCap` shows that the
  assumption `Replacements = {}` is needed.
* `CreateIsAtomic`: without rotations `Spec => ImplementsCappedSessions`. Only
  `Commit` and `CommitLost` map to `SignIn`, everything else to `End` or a
  stutter.
* `LookupsCoalesce`: `Spec => [](LookupInvariant /\ TypeOK /\ Coalesced)`; the
  flight table and the program points of the requests describe each other.
* `OutagesRejectNobody`: `Spec => []RedisOutageHarmless`, by `ToldTruly`: a
  request that has an answer in hand is only told "failed" if the database can fail,
  and "revoked" only if the session is, which is for good.
* `RevocationIsFinal`: `Spec => EffectiveIsStable`. `Effective` says that the row
  is revoked, the cache is empty and no request in flight carries an old answer;
  one step per action shows that nothing brings one back (`EffectiveStep`).
  It needs `FillsActive`, part of `LookupInvariant`.
* `JitterShortens`: `jitteredTTL` returns between 90 and 100 percent.

Email verification (`EmailVerificationProofs`): one inductive invariant,
`VerificationInvariant`, whose parts say what the steps rely on without looking.
`ProofsBelong`: a proof key belongs to the issue whose code it is.
`OwnersFollow`, if codes do not recur: a live proof is the one its user's owner
key names, for as long, and none lives under a code being consumed; that is why
neither the script that deletes the previous proof nor the one that clears the
owner ever misses or hits the wrong one. `ConsumedForGood`, if codes are not
guessed: what was consumed has been written for the last time. `LoadedIsProven`:
the email a call has loaded and compared was proven, whatever happens to the row
until the update. From it follow `TypeCorrect`, `CodesReplaced`
(`OneLiveCode`), `OnlyNewestIsConsumed` (`SupersededNeverConsumed`),
`CodesConsumedOnce`, and, without any assumption about codes,
`VerifiedOnlyIfProven`.

Users and tenancy (`TenancyProofs`): `UserInvariant` says that a subject has at
most one row, committed or being inserted, and that a request told of a
conflict finds a committed one (`AlwaysFound`); with it each step maps to a step
of `UserDirectory` (`ResolutionIsADirectory`). `CreationInvariant` says how far
the planned rows of each creation have been inserted; with it a commit publishes
all of them at once and nothing else takes one away from a whole
(`OnlyWholeIsVisible`). `AccessInvariant` ties the two: a call that has its
answer was told the user of a committed row of its subject (`AnswerGiven`), the
owner of a creation is a user with a row (`OwnerKnown`), and what was reported
created is there (`CreatedStands`). As a subject has one row, the owner that a
creation was given and the user that a later request was told are the same, and
the join finds the three rows of the organization exactly while none of their
columns is set: `OwnersHaveAccess`. That no other row gets in the way is
`RowsAreInserted`: a row that is there is one that a creation planned, so that the join has
no other row of the organization, its owner and the Admin role to offer.

The limiter (`RateLimitProofs`), for every rule, every rounding within the error
and any number of instances. The types (`LimiterTypesHold`) hold whatever the
clocks do. So does the window's limit, but for how far the times of requests lie
apart (`Spread`):

* `HardLimitHolds`: `Kept` says that a request allowed less than a window ago, less
  `Spread`, is a member still, since no run prunes by a time that is further ahead
  (`LatelyAllowed`); ZCARD counts all of them before one more is allowed
  (`HardRun`), and a repetition only sets a score.

The rest is about prompt requests, `Prompt`: `Offsets` of zero, that is clocks that
agree and requests that arrive, again as well, within a clock unit. `LateRequest`
shows that the bucket needs it. `LimiterInvariant` consists of

* `History`: the members of the window are those requests that were younger than
  the window when the script last ran, scored with the times they were allowed at,
  and both keys outlive whatever the bucket still restores and the window still
  remembers. That is what makes a key's expiry, which forgets everything, forget
  nothing that counts;
* `Budget`: the requests allowed from any one on, together with what the bucket
  holds now, are paid for by its capacity and the restoration since at `Rate`, a
  clock unit's share and two errors. This is the strengthening of `BurstBound`,
  which says nothing of the bucket and so is not inductive; its step rests on
  `RefillBounds`, that a refill is off by two roundings, and by none when no time
  has passed;
* `Burst`, the bound itself.

From it follow `BurstBoundHolds`, `RetryTimesClose` and `RefinesHybridLimit`. A
refused request finds its bucket full a unit after the time it was told, and not
full more than a unit before, because all the roundings together are less than a
unit's share (`TokenWait`). The retry time of the window is that of its oldest
member (`WindowWait`): that a set of times has a least one is the library's theorem
that `<` is well-founded on the naturals (`LeastOfNaturals`), so that no induction
is needed. The refinement maps the bucket to what it would hold unrounded since the
script last ran (`Unrounded`), a first run of the script to a request of
`HybridLimit`, a repeated one to a charge, and the clock to the clock; `RefillOver`,
that restoring over two spans and over their sum comes to the same, is what makes a
tick a tick.

The guards, in the same module, for any number of attempts, with or without an
account, on any keys:

* `RefusalsAreSpent`, without `Prompt`: tokens are taken only for requests allowed
  and calls sent again, so that a bucket and its charges together are never less
  than its capacity (`TokensPaidFor`), however late a request is.
* `SourceSparesIdentity`, without `Prompt`: the accounts' charges and the attempts
  that still may be charged (`Owed`) are together at most the sources' charges.
* `GuessesWithinBudget`, with `Prompt`: in every window that reaches the present the
  attempts admitted are at most the members of the account's sorted set
  (`BudgetInvariant`), which the script keeps within the rule. Calls that wait to
  be sent again have members of their own and scores that are theirs (`CallKept`).

Process (`ServerLifecycleProofs`): `ProcessInvariant` describes, per program
point of `run`, which clients are open (`OpenByStep`), where a failure is on its
way to the exit status (`FailureInHand`), and when requests may be in flight or
connections accepted (`InFlightByStep`). From each follows one of
`ClosesInReverse`, `ExitIsTold` and `DependenciesOutlive`.

Requests, in the same module: `RequestInvariant` says of every request by its kind
and stage which stages it passes, what it can have been answered with, what it is
to be logged as and what has been logged (`Progress`), and of all together that
the gauge and the counters are the numbers of those under way, finished and failed
(`Accounts`) and that connections are with requests at a query (`PoolInvariant`). One
lemma gives what each step makes of one request (`ProgressGoesOn`), another whom
it moves in or out of the counted sets (`RequestsKept`). `TelemetryIsTrue` and
`AnswersDocumented`, which is about the operations that this repository answers
itself, follow, and with the types of the configuration
`LifecycleTypesHold`. Counting needs only that those who have arrived are finitely
many, which the invariant shows; `LifecycleTypesHold` assumes a finite set of
requests because `TypeOK` bounds the gauge by its size.

Pure rules: `SchemaHoldsForPrintableASCII` and `MailsNameTimeLeft`, for
passwords of any length and any times.

What stays with TLC: liveness (`SignInReturns`, `RevocationTakesEffect`,
`RequestsFinish`, `RequestsSettle`, `ShutdownEnds`, `ReadinessAnswers`), as
fairness and ENABLED are out of TLAPS's reach. Every invariant, action property
and refinement that a passing run checks is stated by a theorem. The theorems about
the cap take no rotations, and those about the limiter's bucket, its retry times
and `GuessBudget` prompt requests, as hypotheses; `RotationCap` and `LateRequest`
are why. What the code violates is shown by TLC's counterexamples alone.

## Not modelled

The wording and layout of logs, mails and the document; spans, trace propagation,
sampling and request IDs, which no decision depends on; the matching of CORS
origins and of headers; the reads of memberships and roles, which change nothing;
the migrations, which run outside the server; the generated query code. Authlier,
PostgreSQL, Redis and go-redis are modelled from how the code uses them.

## Plan

1. Prove more: the retry times for clocks that are apart; a bound on what late requests gain from the bucket, as a function
   of `Spread`; for `GuessBudget` how many attempts sent again can come on top.
2. Extend the models: compose `SessionStore` with `SessionLookup`, so that the
   deletions of `Create` are the ones of the cache; `CodesRecur = TRUE` as an
   instance of its own.
