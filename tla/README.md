# nest-stack in TLA+

A verification development for the back end in `src/src` (NestJS, Prisma on
PostgreSQL, Redis, jose). It models the part of the program whose behaviour
depends on the order in which things happen: confirmation codes, signing keys,
the life of tokens, the requests of the authentication service, the routes and
guards in front of it, users' profiles and stored objects, and the process that
serves them from its start to its SIGTERM.

Paths below leave out the leading `src/`; `file.ts` alone is under `src/src`.

## 1. The system

All requests enter through controllers, pass the global guard
(`RouterPermissionsGuard`), run a use case, and reach three kinds of state: rows
of PostgreSQL (through `UserRepository`), keys of Redis (through
`RedisService`), and what a process keeps in memory (the promise of the signing
keys, a memo of permissions, the table of routes). There are no transactions and
no locks: a use case is a chain of awaits, and between any two of them other
requests, of this process or another, run.

| Component | State | Operations | Interacts with |
|---|---|---|---|
| Confirmation codes (`infrastructure/redis/redis.service.ts`, `infrastructure/email/service/email.service.ts`, `use-cases/auth/two-factor.use-case.ts`) | Redis keys `EmailVerification:`, `PasswordReset:`, `2FA:`, `Enable2FA:` + subject, with a time to live | `save`, `verify`, `delete`, `set2FACode`, `verify2FACode`, `delete2FACode` | e-mail provider (mails the code), use cases |
| Signing keys (`infrastructure/auth/token.service.ts:20-80`, `admin-token.service.ts`) | one Redis key per service; `jwsKeysPromise` in each process | `getJwsKeys`, `loadOrGenerateKeys`, `getAuthKeys`, `setAuthKeys` | Redis, jose |
| Token service (`token.service.ts:82-248`) | hash of the refresh token in the user's row | `createTokens`, `createToken`, `verifyToken`, `validateRefreshToken`, `validateTokenClaims` | signing keys, users |
| Authentication use cases (`use-cases/auth/*.ts`, `use-cases/email`, `presentation/controllers/auth`) | none of their own | sign-up, login, Facebook login, refresh, verify and resend e-mail codes, the three steps of a password reset, enable/confirm/verify/resend/disable of the second factor, role change | everything above |
| Users (`use-cases/user`, `infrastructure/repositories/user.repository.ts`, `core/utils/slug-generator.util.ts`) | table `User`, unique `email` and `slug` | create, find, update (with a new slug when a name is in it), `updateRefreshToken`, password compare | PostgreSQL, nanoid |
| Guards (`infrastructure/common/guards`) | none | decide on a request from its token, its route's flags and the permissions of its role | registry, permission service, token service |
| Route permissions (`infrastructure/auth/router`) | a table built once at start | register, look up, flatten nested routes | guards |
| Permission services (`infrastructure/auth/permission.service.ts`, `role-config.service.ts`) | a memo of (role, permission) to a boolean; a table of roles that nothing uses yet | `hasPermission`, `hasAllPermissions`, `hasAnyPermission`, `clearCache` | guards |
| S3 (`infrastructure/s3/s3.service.ts`) | objects in the bucket, presigned URLs that are open for an hour | presign, `objectExists`, `deleteObject` | the client, who uploads by himself |
| Interceptor, filters, Sentry's `beforeSend` (`infrastructure/common`, `infrastructure/bootstrap/application.bootstrap.ts`) | none | make an answer of whatever a guard, pipe or handler throws | every request |
| Bootstrap and shutdown (`infrastructure/bootstrap`, `onModuleDestroy` of Prisma's and Redis's services) | the process: whether it listens, its connections, how far each handler of SIGTERM is | start, close, exit | all requests in hand |
| Social authentication, e-mail providers, search, health checks | none, or that of an external service | calls of that service | use cases |
| Middleware, configuration, logging, scripts | none that matters here | – | – |

Which of these are modelled, partly modelled or not modelled, and why, is in
`PROJECT.json` under `components`.

### What is hard about it

The complete list, each at its line, is `PROJECT.json`'s `hazards`. In short:

* **Check, then act.** A code is read, compared and deleted in separate round
  trips. An account is looked for, then created. A refresh token is compared
  twice, then replaced. The keys are looked for, then generated and stored.
* **Stale reads.** Claims are read from the account before the code or password
  that justifies them is checked, or taken over from an older token; the two
  tokens of a pair read the account separately; a process keeps the keys it
  loaded whatever becomes of them in Redis.
* **Partial failure.** No step is undone when a later one fails: the code is gone
  before the address is verified, the account exists before the mail is sent, the
  refresh token is replaced before the client has the new one.
* **Time.** Codes and keys expire under the feet of the requests that use them.
* **Overlapping updates of a profile.** `update` reads the names and the slug id,
  makes a slug of them and writes it in a second query.
* **Clocks.** A token is dated twice while it is made and judged twice while it is
  verified, in processes whose clocks differ; only one of the judgements is
  tolerant.
* **Layers.** Three layers make an answer of an error, four guards decide about one
  request: each must leave the next what it needs.
* **Two handlers of SIGTERM** that close the same connections side by side while
  requests are in hand.
* **Several processes** that share Redis and the database but not memory.
* **Sequences of legal calls** that go around a check another call makes
  (resending a code that was never first sent).

### What makes each component correct

* Codes: a verification succeeds only on a code issued for that purpose and that
  subject, and in time; a code that was accepted is gone, so it can be accepted
  again only by requests that overlap the first; a new code withdraws the old one.
* Keys: in one life a service signs everything with one pair; a load never
  replaces a pair it could have seen; users' and administrators' pairs are
  disjoint; a restart does not invalidate tokens.
* Requests: each account's privileges (verified address, second factor, new
  password) go back to a code accepted for that purpose and account; each claim in
  a token is true of its account; refresh tokens only move forward and the one in
  force is in somebody's hands; every request ends.
* Tokens: accepted only while they live, up to the difference of the clocks;
  refused on account of time only when old, up to the same difference; reset,
  administrators' and users' tokens never one for another, and a refresh by a
  refresh token only.
* Routes and guards: a lookup finds the most specific, oldest route; the guard lets
  in whom it should, whatever was asked before, and as the guards it was merged from
  did; a handler, however its path is written in the request, never runs for whom
  it is not meant for, nor without the user it goes on to use.
* Profiles: a slug is made of the names beside it and keeps its id.
* Answers: what a client is told is what happened. Where a refusal leaves something
  done (a sign-up whose mail fails), something had failed on the way.
* The process: SIGTERM ends it, and cuts no request off unless closing failed.

## 2. The modules

| Module | Models | |
|---|---|---|
| `CodeLifecycle` | what a code is promised to be: unborn, live, gone for good; accepted only by those who saw it live | abstract |
| `OneTimeCode` | the GET, comparison and DEL, and the SET, of concurrent requests; expiry; failing commands | implements `CodeLifecycle` |
| `OnceCell` | a lazily computed value settled at most once in the life of its owner | abstract |
| `JwsKeys` | `getJwsKeys` and `loadOrGenerateKeys` in several processes that crash and restart, over keys that expire | implements `OnceCell` |
| `AccountContract` | what the authentication service promises about an account and the claims it signs | abstract |
| `AuthSessions` | every handler of `AuthController`, one action per await | implements `AccountContract` |
| `TokenLife` | how long tokens of all four kinds live, over clocks that differ and time that passes at every await | |
| `RoutePermissions` | the registry of routes, the decision of `RouterPermissionsGuard`, the memo of `PermissionService` | |
| `Guards` | the chain of guards and parameter decorators on the way to a handler, and the two guards that the router's was merged from | extends `RoutePermissions` |
| `RouteConfig` | `flattenRoutes`, the program's routes, its handlers' decorators and its roles | data of `MCRoutePermissions` |
| `Answers` | requests in hand and what is made of what they throw | |
| `UserProfile` | rows of users and the requests that read and write them, with slugs | extends `Answers` |
| `S3Service` | objects, presigned URLs, deletion | extends `Answers` |
| `Server` | the process with its start, its requests and its two handlers of SIGTERM | composes `UserProfile` and `S3Service` |
| `MC…` | instances for TLC, and properties that docs state and the code does not keep | |
| `…_proofs` | theorems and proofs | |

### Correspondence with the code

**`OneTimeCode`.** `store` is Redis; a key is the pair of the code's type and its
subject, which is what the prefixes of `redis.service.ts` amount to. A request
in round trip `"set"`, `"get"` or `"del"` is waiting for that command. Entries
carry ghosts the properties need: the number of the issue, for whom it was meant,
its time of birth. `Generate`/`Save` are `save` and `set2FACode`; `Submit`,
`Match`, `Mismatch`, `Accept` are `verify` and `verify2FACode`; the `…Fails`
actions are rejected commands, of which a `DEL` may have taken effect. Codes are
drawn from a small set, so that two issues can collide, as six random digits can.

**`JwsKeys`.** `memo` is `jwsKeysPromise`, `load[c]` how far the load that caller
`c` started has come; `slot` is the Redis key, with the time it was written. A
rejected load stays in `memo`, as in the code (`token.service.ts:25-30`), until
the process crashes. `Crash` is a crash followed by a start: nothing but Redis
survives it.

**`AuthSessions`.** `users[e]` is the row of the account with address `e`,
reduced to provider, verified, second factor, whether the password was ever
reset, and which pair's refresh token it has the hash of. `codes` is the set of
keys Redis has. `req[r]` is a request: its operation, the await it is at, and
what it has read so far. `tok[n]` are the claims of the n-th pair of tokens.
`delivered` and `resets` are what clients hold; `sent`, `accepted`, `stored`,
`lost` are ghosts. What was abstracted:

* an account is its address: addresses are unique and never change, the user id
  is determined by them, and users are never deleted, so "user not found" after a
  token was accepted cannot happen;
* codes are reduced to presence, with expiry at any time; whether the submitted
  code is the stored one is a choice. That a code matches only when it should is
  what `OneTimeCode` is about;
* whether a login's password is right is a choice, as is whether the password
  that `disable2FA` asks for is;
* a rejected await and a crash of the process are both `Fail`: the request is over
  and what it has written stays written;
* tokens do not expire (an expired one is one the client no longer presents;
  expiry is what `TokenLife` is about);
* the user type, names and avatars are left out of rows and claims (names are in
  `UserProfile`);
* `MaxPairs` bounds how many pairs of tokens are signed.

**`RoutePermissions`.** `routePermissions` and `pathPatterns` are the registry's
Maps, the second one as the sequence of its keys, because it is searched in the
order of insertion. `Register` is one turn of `registerMany`'s loop, which
`AuthModule.onModuleInit` runs before the first request. A path is the sequence of
its segments; a pattern's regular expression is a comparison segment by segment.
`DecideByToken` and `DecideByRole` are the two ends of `canActivate`, without and
with a question to `PermissionService`; what `verifyToken` makes of the header is
an input, and what runs after it has no await, so a request is one step.
`permissionCache` gains the permissions `every` or `some` got to before it broke
off. `ClearCache` has no caller at present and may happen at any time.

**`RouteConfig`.** The nested routes of `auth.routes.ts` and `health.routes.ts`,
`flattenRoutes`, and what the decorators in the controllers say. Permissions are
reduced to one for each set of roles that has them (all, managers of property,
nobody). Its recursion keeps it apart from the modules with theorems.

**`TokenLife`.** `time` is the true time, which nobody sees; a process reads
`Clock(p)`. `token[i][k]` is the token of kind `k` that call `i` makes:
`ReadIat` is `createToken` up to the lookup of the user, `Sign` what follows it,
`StoreRefresh` the hash in the row. `Present` is all of a verification up to its
first query (`jose.jwtVerify` with `exp` and no tolerance, then the schema);
`validateRefreshToken` and `LookUpUser` are the queries, the latter with
`validateTokenClaims` after it. `AdminTokenService` needs no query. True times in
tokens and verifications are for the properties only.

**`Guards`.** `Reaches` folds over the guards of a handler in the order Nest asks
them: the router's first, then the handler's own, then the decorator that takes the
user. A visit says what `verifyToken` makes of the bearer token when it is wanted
as a user's token and as a live refresh token (a refresh token is both, which run
`tokens_session` is about), and what becomes of the captcha. The router's guard
looks up `request.path`, and Express takes more paths for a handler's than the
registry knows: `Ways` has the handler's own, the one with a slash at the end, and
HEAD for GET. In another case the path is as unknown to the registry as with the
slash, so it is not told apart from it. Called so, a route that is marked in the
registry only (`POST /auth/refresh/`) is guarded by what its decorators say, which
is stricter: `TurnedAway` says whom that costs the handler.

**`Answers`.** `calls[c]` is a request: what it asks, the await it is at, what it
has read, and its answer. An error is its class, or the code of a known error of
Prisma. `intercept` is `RestLoggingInterceptor`, `getStatusCode` what the two
filters and Nest's own make of an error, `captured` what Sentry hears. `failed`
remembers that a query, the keys or the mail failed the request. What is kept of an
error's way is its status and whether Sentry hears of it: which of 404, 409 and 500 a
client is told is all that `AnswersTrue` tells apart.

**`UserProfile`.** `rows[u]` is the row of a user, with those of its columns that
some guard or slug depends on; `gone` marks a removed one. One action is one query
and the code up to the next. A slug is the sequence of its parts between dashes, a
part a sequence of words between underscores, so that splitting at dashes is `Last`;
what `normalize` makes of a name is a constant function. nanoid draws words between
dashes and never twice the same. Ghosts in a row: the request that made it, the
requests that wrote names, and whether the last of these had read them before
another wrote them (`torn`). Neither the making of a row nor a change of the role is
the end of its request: `createToken` reads the row again and signs,
`updateRefreshToken` writes the hash, and a sign-up goes on to
`sendVerificationEmail`. Each may throw, in which case the account or the new role
stays behind a refusal with 404, 409 or 500. `facebookAuth` returns the promise of
`createTokens` without awaiting it, so that the errors of these steps pass its
`catch`. The two reads of `createTokens` are one step: they find the same row or one
of them throws. `updateUser` is public, but nothing in `src` calls it with names
yet: the role change, the verification of an address and the reset of a password
change other columns. Rows are removed, and listings created, by nobody in `src`:
those actions are external. Passwords of sign-ups are compared by a pipe, so that
`createUser` finds them equal. `createUser` returns the promise of `create` without
awaiting it, so its `catch` never runs and a duplicate is answered as `P2002`;
`tests/unit/use-cases/user/user.use-case.spec.ts:139-153` expects the
`ConflictException` of that `catch`.

**`S3Service`.** An object is the number of the upload it came from, so that a
deletion can be told from one of a later object. The four functions that presign
are one action. `Upload` and `UrlExpires` are the client's and the hour's.

**`Server`.** `closers` has the handler that `enableShutdownHooks` installs
(`nest`), the one `start` adds (`app`), and the first one's second SIGTERM to
itself (`again`). Each runs `onModuleDestroy` of every module and then closes the
HTTP server, which waits for the requests in hand. Prisma's `$disconnect` may be
called twice; a second `QUIT` on a connection that has ended is rejected. Nest's
handler exits on a rejection; nobody awaits the other's, on which Node exits unless
Sentry (in production) catches unhandled rejections. SIGTERM between the
installation of the hooks and the end of `listen` is not modelled.

## 3. What is checked

All bounds are in the `.cfg` files. TLC explores each instance completely.

| Run | Question | Instance, and why it is enough |
|---|---|---|
| `codes` | do codes match only what they were issued for, in time, and are spent ones gone; does a code get lost in another way than by a verification that matched; is `CodeLifecycle` kept | 2 requests, 2 types, 2 codes, 3 issues, 3 ticks of which a code lasts 2: a code can be overwritten between a GET and a DEL, expire there, collide with the next one, and be verified by both requests |
| `codes_once` | is a code good for one verification only, as `CHANGELOG.md:22` has it | **violated**: two GETs before the first DEL |
| `keys` | is a stored pair replaced only in a race; are users' and administrators' pairs apart | 2 processes, one of them running both services, 3 callers, crashes, failures, expiry: two loads of one service overlap while the other service loads beside them |
| `keys_restart` | one outcome per life; do tokens survive restarts of a single process; is `OnceCell` kept; is every caller answered | 3 callers, 4 pairs, a time to live of 2 in 3 ticks: pairs expire within a life and after a restart. Under `FairSpec` |
| `keys_agree` | do processes that run together use one pair, as `docs/PROJECT_STRUCTURE.md:363-364` supposes | **violated**: both start while Redis is empty |
| `sessions` | sign-ups, Facebook logins, e-mail verification, refreshes and password resets that race: contract, claims, the refresh token in force and those replaced, the password of a Facebook account; does every request end | 1 account that is not there at first, 2 requests, 3 pairs: both can create it, verify it, reset it, refresh the same token, and store tokens in either order. Under `FairSpec` |
| `sessions_factor` | contract, claims and backing, with the second factor enabled, passed, disabled and carried through refreshes, codes resent without having been sent, and role changes | 1 account, 2 requests, 3 pairs: a token with each claim, and one refreshed from it while the account changes |
| `sessions_facebook` | is the second factor unavailable to accounts of Facebook, as `initiateEnable` says | **violated**: `resendEnable`, then `confirm2FA` |
| `routes` | do lookups find the most specific and then the oldest route; does the registry agree with the decorators; does the guard let in whom it should, whatever the memo holds, and as its predecessors did; is each handler reached only by those it is meant for, however its path is written, and with its user | the program's own routes, and 21 trees of up to 2 of 4 children that overlap: one path under two patterns, a pattern and a word, a method and ALL, and twice under one key; 2 roles and none, with and without the second factor; permissions asked in both orders, all and some. Every handler of the program is visited in every way Express takes for it, with every bearer token, refresh tokens among them, and captcha, locally or not |
| `tokens` | is a token accepted only while it lives and refused only when it is old, up to what the clocks differ by; are kinds of tokens kept apart, but for refresh tokens as session tokens | 3 processes whose clocks are 0, 1 and 2 ahead with a tolerance of 1, one token of each kind, lives of 1, 2 and 4 in 7 ticks: each can be made in any process, in time or late at each await, and be verified before, at and after the end of its life, in front of or behind the maker's clock |
| `tokens_session` | are sessions opened by access tokens only, as `README.md:164` has it | **violated**: a live refresh token is accepted |
| `server` | do slugs and their ids follow the names; do answers tell what happened; does SIGTERM end the process | 2 requests with 6 to 8 operations each, in particular every pair of sign-ups, of updates, and of a deletion with an upload; a table that is empty, has a fresh user, or one whose slug lacks a name; 4 names, two of which vanish; draws with and without a dash; production or not; every query, signing and mail lost, queries before or after they took effect, and the row removed between a sign-up's steps; SIGTERM at any time. Under fairness |

Three requests at once add interleavings but no new pairs of steps that touch one
row or key; the actions of the operations commute in any other respect. One address
is enough for the runs of `AuthSessions`, because no step of a request looks at
another account's row, codes or tokens; the theorems hold for any number of accounts.
A run takes only the operations its question is about, so that two requests of each
kind fit; between them the runs take all sixteen.

`CHECK_DEADLOCK FALSE` in the `MCAuthSessions` runs: once `MaxPairs` pairs are
signed or no operation of the run applies, clients may have nothing left to ask.
In `MCTokenLife` time and tokens run out; in `MCServer` the process exits.

**Symmetry** permutes requests; it is used in a safety run only, where they are
alike.

**Mutants.** Modules hold, beside a definition, a form of it with a plausible bug
("A mutated form of …"); for each property `PROJECT.json` names one that breaks
it. They are not used by any specification.

### Fairness

`JwsKeys` and `AuthSessions` have a `FairSpec`:
`WF` of a request's own steps, of a load's own steps and of the resumption of a
settled promise: the event loop runs every callback that is ready, and every
command to Redis or PostgreSQL ends, with an answer or, after the client
library's retries, with an error. Nothing is assumed of clients (they need never
ask again), of time, of expiry, of failures or of crashes: none of these has to
happen. `Server` has in its `Spec` `WF` of each request's steps, of each closing
handler's and of Node's exit when nothing is left: queries return, well or not, and
what Node has begun goes on; nobody need send a request or a signal. `TokenLife` and
`RoutePermissions` have safety properties only and state no fairness.

### Findings

`PROJECT.json`'s `findings`, each with its run: codes can be accepted by overlapping
requests; processes that start together disagree about the signing keys; a refresh
token, for its seven days and also after it was replaced, is good wherever an access
token is asked for; an account of Facebook can have its second factor enabled, and
then has no password to disable it with.

## 4. What is proved

The proofs are checked by TLAPS for every value of the constants, under the
`ASSUME`s of the modules (bounds are naturals, times to live positive, finitely many
requests in `AuthSessions`, `None` is not one of the values it stands beside; of the
users' table at start only that its addresses differ, which is a constraint of the
database, and that no request of this run made its rows), which TLC evaluates on the
instances. Every property of the passing runs is proved except three about the
program's own lists of routes. `RestartCorrect` and `FactorByResendOnly` have a
hypothesis of their own, because the property needs it; the theorems about liveness
assume fairness, in the form given below.

**`OneTimeCode_proofs`.** `TypeCorrect`, `MatchCorrect`, `SpentCorrect`,
`LatestCorrect`, `TimeCorrect`, `LossCorrect`, and `Implements`: the service
implements `CodeLifecycle`. The inductive invariant says, beside the types, that
an entry lies under the key of its own type and subject, that what a request has
seen is for what it asked, that the numbers of issues are bounded by `last` and
identify entries, and that a used issue is in no entry. `LossCorrect` needs one thing
more: a request between its GET and its DEL has seen a code no younger than the one
that its DEL removes.

**`JwsKeys_proofs`.** `TypeCorrect`, `OutcomeCorrect`, `RaceCorrect`,
`ApartCorrect`, and `Implements`: the memoised promise implements `OnceCell`. The
invariant ties every caller to the load it awaits: the load kept in `memo` belongs
to the service it is kept for, only a kept load is under way, and every answer
given in this life is the outcome of the settled load. Two theorems are about what
outlives a process. `RestartCorrect` proves `TokensSurviveRestart` for one process
with one of its services (`OneService`; with two processes it is false, as
`keys_agree` shows): a load that is going to write has found nothing and nothing
has been stored since, and whatever was signed with is stored or was dropped for
age (`Kept`). `AgreeCorrect` bounds the finding of `keys_agree`: processes come to
disagree only after a name was written twice (`AgreeUntilRewritten`), and by
`RaceCorrect` a stored pair is overwritten only by a load that had read Redis
before the pair was stored. Its invariant counts the pairs that anybody can have
seen under a name (`SeenOnce`). `KeysAnswered` proves `CallersAnswered`: the load that
a caller awaits is the one its service keeps, of a caller in the same process, so
nothing but its own steps or the end of that process, which ends the waiting, moves
it (`Onwards`).

**`AuthSessions_proofs`.** `TypeCorrect`, `PasswordCorrect`, `ClaimsCorrect`,
`BackedCorrect`, and `Implements`: the requests together implement
`AccountContract`. What a request does rests on what it read some awaits ago, so
the inductive invariant (`IInv`) has two halves. About the state: each privilege
in a row goes back to an accepted code, codes exist only for accounts and reset
codes only for those with a password, and the claims of signed tokens are true.
About each request (`RequestOK`): at which awaits its operation stops (`Route`),
that what it found out about its account is still so (`Knows`), and that it is
past a code only if one was accepted (`Permitted`). A step of one request
preserves the second half for the others because nothing a request relies on is
ever taken back (`Forward`: accounts stay, keep their provider, stay verified;
codes sent and accepted stay so; tokens keep their claims). The second factor of
an account can be disabled, so claims about it are about a code that was
accepted, not about the row. `FactorByResendOnly` is the other side of the finding
of `sessions_facebook`: of all operations `resendEnable` alone opens the way, for
without it (`"resendEnable" \notin Ops`) no account of Facebook ever has a second
factor. The invariant follows the permission from where it is read to where it is
used: a request that is about to send a code for enabling has an account of another
provider, so has every such code that was sent, and providers do not change
(`EnableInv`).

**`AuthRequests_proofs`.** `RefreshHeld` (`LiveRefreshHeld`) and
`ReplacedForGood` (`NeverRestored`), from `IInv` strengthened by `Unstored`: the
pair a request is about to store has never been stored and is no other
request's. Then what becomes of a request. `RequestsNeverStuck`: every request under
way has a step it can take, whatever the others have left half done. The invariant
(`EndInv`) says that a request is at a point its operation acts at, and that the
pairs still to be signed fit under `MaxPairs`, so that the bound keeps no request from
going on. `RequestsComeNearer`: the steps left to a
request (`Left`, read off the operation, the point and what it has found) are at most
twelve, each of its own steps leaves fewer, and no other request's step changes
them. `RequestsAnswered` puts the two together: `RequestsEnd`.

**Liveness.** TLAPS does not handle `ENABLED`, and so not `WF`. The theorems about
liveness therefore assume weak fairness with the guard of the action written out:
`[]<>~CanStep(r) \/ []<><<Step(r)>>_vars` where `WF_vars(Step(r))` has `~ENABLED
<<Step(r)>>_vars` for `~CanStep(r)`. The guards (`CanStep` of either module,
`CanLoad`, `CanResume`, `CanClose`, `CanRunOut`) are read off the actions; with,
say, `CanStep(c) <=> ENABLED <<Step(c)>>_vars` as an invariant beside the instances
of the runs, TLC finds each the same as `ENABLED` in every reachable state.
`LoadsMoveOn`, `CallersMoveOn` and `StepsTaken` say the same of all callers or
requests at once with the `[]` in front, which is equivalent. The ranks are small
constants, so that one temporal step can chain the levels.

**`RoutePermissions_proofs`.** `TypeCorrect`: the Maps hold what was registered so
far, and every pattern has its route. `MergedCorrect`: wherever the old pair of guards
can express a route, the merged guard decides as it did, for any routes and memo.

`LookupCorrect` and `AnswersCorrect`: for any list of
routes, a lookup finds the route that the list says is best, and the guard answers by
it. The invariant adds the order of things: under a key the Map holds the newest
route of that key, every key with a parameter is in `pathPatterns`, and these stand in
the order of their eldest routes. Without the last part, "the first pattern that
matches" would not be "the oldest that fits". That there is a first rests on the
well-foundedness of the natural numbers. For the answers, each entry of the memo is of
a role and says what the role's table says.

`ReachedAsMeant` says that nothing but the agreement of decorators and registry is
needed for the chain of guards to be right: whatever handlers there are, written in
one of three ways (`Conventional`: open, for a refresh token, for a user), if the
registry says of each what its decorators say and knows no other way of writing its
path (`Agrees`), each is reached, however its path is written, only by the visits it
is meant for, and by all of these that `TurnedAway` does not name. That the
program's handlers are so written and that its registry agrees is `HandlersAgree`,
which TLC checks on the program's lists; so `HandlersReached` follows for the
program from this theorem, and for a route that is added later from looking at its
two lines.

**`TokenLife_proofs`.** `TypeCorrect`, `LifeIsBounded`, `RefusalsAreRight`,
`KindsStayApart`, for any clocks and any durations with a maximum age no less than
the longest. `RefusalsAreRight` says what each of the three refusals on account of
time means. The minute's tolerance of `validateTokenClaims` keeps tokens from being
refused as issued in the future; it does not keep them from being refused as
expired, because jose has looked at `exp` before, without tolerance: to a verifier
whose clock is ahead by half a minute a token expires half a minute early.
`KindsStayApart` says that sessions are opened by the two tokens of a pair only,
refreshes by refresh tokens, password resets by reset tokens and administrators'
requests by their own; that a refresh token opens sessions too is run
`tokens_session`. The invariant says of a token that its `iat` and `exp` are what
its maker's clock read at two true times in this order, and of a verification what
it has passed so far, at which true time.

**`Server_proofs`.** `TypeCorrect`, `SlugCorrect`, `SlugIdCorrect`. The invariant
says that the slug a request is about to write is still the one of the names in the
row, and still has the row's id, unless another request has written names since it
read them (`PendingRight`); and that a request writes names at most once
(`NamedOnce`), so that "nobody has written since" can be read off `namedBy`.

**`ServerAnswers_proofs`.** `AnswersTold` (`AnswersTrue`). An answer is about rows
and objects that others go on to change, so that what is true when it is given must
be shown to stay true: an account that was made stays the request's, also when it is
removed. `ToldStays` does that from `Onward`, what no step of anybody takes back:
rows keep their address and maker, who named them and that they are gone; an object
is left, deleted, or replaced by one with a higher number. The other half is that an
answer is true when given, which rests on what its request had found out awaits ago
(`Prepared`), on the row a request makes tokens for being its own or one of its
address (`Account`), and on no row being the request's before it has created one
(`MadeBySettled`). A sign-up refused once its account exists is told so only where a
query, the keys or the mail failed or the account was removed meanwhile. A deletion
is vouched for only if none of its queries was lost: the code answers 200 also when
HEAD fails, and the object stays. A request without an answer means a process that
exits as failed, because each closing handler stops the application from listening
before it waits for those in hand (`Closing`): when Nest's handler gets to its end,
there are none.

`RequestsFinish`: every request that is let in ends or is cut off; it has at
most five steps to take (`Following` lists what may come after each), each of which may
at least be lost.
`ShutdownCorrect` proves `ShutdownEnds` by the stages of Nest's handler (`Closes`,
`Waits`, `Through`): it can always try to close the connections; once it waits, nobody
is let in; once it is through, the connection is gone and the other two can only fail,
after which Node runs out. That needs to know how far the three may be together
(`Shutting`), in particular that only one of them gets the connection. Its hypothesis
`Drained`, that the requests in hand come to an end once nobody is let in, follows from
`RequestsFinish` for each of them; that finitely many that end have all ended at some
time is an induction over a finite set with a temporal formula, which the provers
cannot do. TLC checks `ShutdownEnds` without it.

Only model-checked: what rests on the program's own lists of routes (`FlattenRight`
and `HandlersAgree`, whose flattening is a recursive definition, and
`HandlersReached`, which adds `HandlersAgree` to `ReachedAsMeant`); of liveness, that
the written-out guards are what `ENABLED` says, and the step from each request in hand
to all of them (`Drained`).

## 5. Not modelled

* E-mail providers and templates, Facebook's, Elasticsearch's and App Search's
  services: single calls of client libraries; that they may fail is in the models
  of their callers.
* Health checks: probes without state.
* `RoleConfigService`, a table that nothing reads; `RolesGuard` and
  `TwoFactorGuard`, two comparisons that no route uses.
* The rate limiter, CORS, limits of bodies, the API reference: configuration of
  libraries.
* What answers and logs look like, beyond an answer's status; logging, configuration
  and scripts.
* Cryptography: a signature is that of the pair it was made with, a hash is that of
  the token it was made of.

`AdminTokenService` and `AdminAuthGuard` are provided by no module of the program;
they are modelled (`JwsKeys`, `TokenLife`) as they would run if they were.

## 6. Plan

In the order in which they matter:

1. `OneTimeCode`, `JwsKeys`, `AuthSessions` with their abstractions and proofs: done.
2. `RoutePermissions`, `RouteConfig`, `Guards` and proofs: done.
3. `TokenLife` and proofs: done.
4. `UserProfile`, `S3Service`, `Server` and proofs of slugs: done.
5. A proof of `AnswersTrue`, and theorems that bound the findings: done.
6. Proofs of liveness from fairness with written-out guards: done.
7. `TokenLife` beside `AuthSessions`: expiry of the token a request was let in with
   while it is under way.
