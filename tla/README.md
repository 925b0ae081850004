# Verification of absolute-auth

TLA+ specifications of the parts of this authentication library whose correctness
depends on the order in which concurrent requests reach a store, TLC runs that check
them on small instances, and TLAPS proofs of their safety properties: the grants of the token
endpoint, sessions, impersonation, what keeps an account, what is granted to others and taken
back, deliveries and migrations.

The library has few locks and, outside single SQL statements, few transactions. A
request handler is a TypeScript async function: it reads rows, awaits (a store, a hook of
the application, a provider), and writes rows. Between two awaits every other request may
run, in the same process or in another server that shares the database. So the rule in
every module is the same:

* one store call is one atomic action (one SQL statement in the Postgres stores, one
  synchronous update of a `Map` in the in-memory stores); a store method that reads and
  then writes with two statements is two actions;
* a transaction with row locks, an `UPDATE ... WHERE` on what was read, and a
  compare-and-set that is retried are one action, because nothing comes between;
* a handler is the sequence of its store calls, with what it has read kept in its own
  record (`requests`, `work`, `pending`, `tasks`, ...) until it writes;
* everything between two store calls (checks, hashing, building tokens) is part of the
  action that follows or precedes the await, in the order of the code.

Where the in-memory and the Postgres store of one interface differ in what is atomic, the
store is a configuration variable chosen in `Init`, and the properties say which of them
keeps the promise.

## Inventory

| component | state | operations | what is hard | what makes it correct |
|---|---|---|---|---|
| refresh-token families (`oidc/*Stores.ts`, `oidc/routes.ts`, `oidc/config.ts`) | family rows: current and consumed token hashes, client, user, DPoP key, expiry | issue, `grantRefreshToken`, `/revoke`, device and app revocation, operator deletion | several requests with one token; row read before an await and used after it; reuse detection on two paths; crash | one exchange per token, reuse is fatal, checks stay valid, expiry never shrinks |
| device grant (`oidc/config.ts`) | authorization by device code | issue, approve, deny, poll | read-then-write decisions; read, delete, mint; expiry boundary | tokens only for what was approved, once |
| backchannel grant (`oidc/config.ts`) | request by auth_req_id | issue, approve, deny, poll with rate limit | as above, and a rate limit computed from a stale row | the same, and spaced polls |
| authorization code grant (`oidc/routes.ts`, `par.ts`, `operator.ts`) | pushed requests, codes | PAR, `/authorize` with login and consent detours, exchange, operator revocation | single-use records consumed before a detour; sweep of several stores; crash | single use, consent first, revocation complete, an agreeing user gets a code |
| client registration (`oidc/registration.ts`, `operator.ts`) | clients, registration and initial access tokens | register, read, update, delete, revoke | token replaced by delete and insert; requests authorized before a deletion | what was deleted or revoked holds nothing |
| proofs and tickets accepted once (`dpop.ts`, `clientAssertion.ts`, `agents/idJag.ts`, `socketTicket.ts`) | remembered jti, tickets | verify, consume, forget | clock read before awaits, forgetting at the boundary | one acceptance |
| verifiable credentials (`oidc/vci*.ts`, `vc/`) | offers, nonces, presentation requests, a status list | offer, exchange, issue, request, answer | consume-once by two statements | one acceptance, the right nonce |
| sessions (`session/`, `routes/`) | session rows, cookies | sign-in, sign-out, revoke, snapshot refresh, provider renewal, expiry, cleanup | upserts of rows read earlier | what ended stays ended, live sessions survive, snapshots do not go back, ids keep their user |
| impersonation (`session/impersonation.ts`) | a stamp in a session row, audit log | start, change mode, end | awaits around every check; audit failures; stores that drop the stamp | no nesting, always stamped, bounded by the actor's session, audited |
| linked provider credentials (`linkedProviders/`) | grants, bindings, leases | link, resolve, refresh, report failure | provider tokens rotated under a lock or without one, process death | an active grant is honoured, a dead grant stays dead |
| MFA (`mfa/`) | enrollments, challenges, attempt counters | enrol, challenge, verify, backup codes, rotation, removal | whole rows written back; budgets and provider calls | a bounded number of guesses, one use per code, one session per login |
| credentials and passwordless (`credentials/`, `passwordless/`) | credential rows, e-mailed tokens | register, verify, login, reset, change, import | rows read, hashed for a while, and written back | single use of tokens, a replaced password is refused |
| lockout (`lockout/`) | a counter and a lock per key | check, record | counters that are read and written, time windows | failures lock |
| provider accounts and passkeys (`routes/`, `identities/`, `webauthn/`) | identities, passkeys, ceremonies | link, sign in, remove, register | redirect bound to a session, counts before removals | linked to who asked, one way in remains, counters grow |
| mobile client (`client/mobile.ts`) | secure storage, access token, queue | sign-in, callback, rotation, sign-out | two processes, rotation answered but not stored | no self-inflicted reuse, signed out is signed out |
| organizations and roles (`organizations/`, `roles/`) | memberships, invitations | invite, accept, revoke, remove, roles, domain assignment | rows read, written back | ended memberships stay ended |
| SCIM (`scim/`) | users and groups of the application, tokens | create, replace, patch, delete | PATCH is read, merge, replace | what was acknowledged is kept |
| SSO (`sso/`, `portal/`) | connections, setup links, flow cookies, SAML contexts | configure, sign in, log out | choice among connections, replaced connections | the last configuration serves, the provider hears of the logout |
| agent registration (`agents/`) | registration with a version, assertions, tokens, delegations | register, claim, exchange, revoke | compare-and-set, work between read and replace, process death | a claim retires what came before |
| API keys (`apikeys/`) | clients, keys, tokens | create, exchange, verify, delete | last-used write after a read | deleted stays out |
| FGA (`fga/`) | tuples, cache | write, delete, check, list | parallel graph search between writes, cached answers | answers are what the tuples say |
| audit chain (`audit/`) | rows with links | append, seed, prune, verify | head read, hash awaited, head stored | an untampered log verifies, a tampered one does not |
| webhooks and logout fan-out (`webhooks/`, `oidc/logout.ts`) | deliveries, dead letters | dispatch, retry, replay | hooks and stores that throw, shared keys | every delivery ends, failures are recorded |
| migrations (`migrations/`, `bun.ts`) | schema, journal, advisory lock | run | concurrent boots, crash between SQL and journal | journaled means run, everyone gets through |
| vault, federation, plugins, telemetry, HTMX pages, UI, fingerprinting | none, or key-value rows | rendering, wiring, I/O | nothing a model checker reaches | - |

How they meet: every sign-in (OAuth callback, password, passkey, MFA, SSO, passwordless)
ends in `promoteToSession`, so `Sessions` is shared by all of them, and the modules of
sign-in methods end where it begins; `/authorize` reads a session and hands over a code;
every grant of the token endpoint ends in `issueTokenSet`, which opens a refresh-token
family, so the last step of `DeviceGrant`, `BackchannelGrant` and `CodeGrant` is the first of
`RefreshFamilies` (`OpenFamily`); the server of `MobileClient` keeps the promise of
`GrantLineage`; operator revocation and app-grant revocation reach into codes, device
authorizations and families one store after the other; impersonation creates sessions and
relies on what the session store keeps; every part emits the audit events that `AuditChain`
chains and `Deliveries` sends to webhooks.

`PROJECT.json` lists every component with its status and every hazard with the
properties that cover it.

## Modules

| module | models | checked by |
|---|---|---|
| `GrantLineage` | what a family promises: born once, one head token, never a spent token again, never resumed | abstract; instantiated by `RefreshFamilies` |
| `RefreshFamilies` | refresh-token store, `grantRefreshToken`, revocation | `MCRefreshFamilies`, proofs |
| `RefreshFamiliesProofs`, `CodeGrantProofs`, `SessionsProofs`, `ImpersonationProofs`, `AccountSecretsProofs`, `AccountsProofs`, `AccessProofs`, `OperationsProofs` | TLAPS proofs | each extends the module (or the MC module of the sum) it is about, and `TLAPS` |
| `DeviceGrant`, `BackchannelGrant` | device authorization and CIBA grants | `MCAccess`, `MCDeviceGrant` |
| `CodeGrant` | PAR, `/authorize`, code exchange, operator revocation | `MCCodeGrant` |
| `Sessions` | session store and every request that works on it | `MCSessions` |
| `Impersonation` | start, mode change, end | `MCImpersonation` |
| `Credentials`, `Lockout`, `MfaCodes`, `MfaSms`, `SignInMethods`, `MobileClient`, `AuditChain`, `LinkedProviderCredentials` | what keeps an account | `MCAccounts` |
| `Organizations`, `Scim`, `AgentRegistration`, `ApiKeys`, `ClientRegistration`, `Fga`, `Sso`, `VerifiableCredentials`, `OneTimeProofs` | what is granted to others and taken back | `MCAccess`, `MCVerifiableCredentials` |
| `Deliveries`, `Migrations` | what works behind the requests | `MCOperations` |

`MCAccounts`, `MCAccess` and `MCOperations` are sums: `Init` chooses one
module (`part`), whose `Init` and `Next` then run while the variables of the others are
`None`. So one run checks several modules, each on its own, with the bounds given where
it is instantiated (`INSTANCE ... WITH`) or, for `MCAccounts` and `MCAccess`, in `accounts.cfg`
and `access.cfg`. The parts share no state: a sum is not a
composition, and says nothing about two parts at once.

### RefreshFamilies

`families` is the store by family id (`familyId` of `OidcRefreshToken`); `state` is
`absent` when there is no row and `revoked` after detected reuse (the row is kept, so that
later replays are still recognised). `requests` holds a token request between two store
calls: `PresentToken` (the request arrives), `LookupToken` (`getToken` and the checks; a
miss goes to the reuse path), `RevokeByConsumedToken`, `RotateToken` (`rotateToken` called
back from `issueTokenSet`). `at` is the clock the new expiry was computed from.
`OpenFamily` is `issueTokenSet` for a first grant. `RevokeToken`, `RevokeFamily` and the
three deletions end families. `Postgres` chooses the store: the in-memory one dies with the
process and skips the current token of an already revoked family in `/revoke`.
`mintedFor`, `rotations` and `reused` are histories no action reads, except that a fresh
token or family id has not been generated before.

### DeviceGrant and BackchannelGrant

A decision is a read (`ReadForDecision`: known, unexpired, pending) and an unconditional
write (`UpdateStatus`). An exchange is a read (`Poll`), for CIBA the recording of the poll
(`RecordPoll`), a deletion that does not say whether it deleted, and a mint from the row
read (`Mint`). `contested` and `rushed` record on which codes two decisions, or two polls,
were in flight together: the promises the code can keep are about the others, and the run
`device_grant_two_polls` shows what happens there. A slow_down answer writes nothing.

### CodeGrant

A flow is one authorization request in one user agent; `browser` says where the user agent
is. `Authorize` consumes a pushed request first, `LoadSession` reads the session and sends the
user agent to login if there is none, `AskConsent` asks `needsConsent`, and `SaveCode` comes
after the awaited hooks: a sign-out, a decision at the consent page or another visit may fall
between any two. `ConsumeCode` deletes the code
whoever presents it and then checks client, redirect URI and proofs (`Accepts`);
`SaveFamily` comes after another await. `BeginSweep` and `EndSweep` are
`revokeOAuthClientCredentials`, which deletes codes and, an await later, refresh tokens.
`swept` is the history of flows the last revocation of their client had to end.

### Sessions

Every request has one shape: it reads rows (`Read`), decides (`Decide`, one disjunct per
kind of request), and then sets and removes rows one by one (`Set`, `Remove`) before it
answers (`Answer`); `Abandon` is any failure in between. `op` names the request. `version`
stands for the user snapshot in a row. `operations` is the deployment: which operations the
application uses, because what the library can promise depends on it.

### Impersonation

`Start` loads the caller's session; `ReadPrevious` is the moment after authorization, when
the span of the view is fixed and the compatibility layer reads the caller's row again;
`CreateMember` writes the member's row and `WriteBack` the caller's, in either order, because
the two writes are awaited together; then the audit record succeeds (`StartAudited`, which
hands over the cookie) or fails (`StartUnaudited` removes the view, and `RestoreCookie` puts
the caller's cookie back, whatever the browser holds by then). A change of
mode loads the view (`ChangeMode`), then the original actor's session (`ReadActor`), writes
(`SetMode`), and restores the row read if the audit fails. `End` audits first.
`KeepsStamp = FALSE` is the Postgres store.

### LinkedProviderCredentials

`deployment` is the resolver used: over two tables, over one account row, or coordinated, where
`locks` is the row lock its transaction holds. `GetAccessToken` begins a request,
`LoadGrant` reads, `Refresh` asks the provider (which rotates, refuses or fails), and
`SaveRefreshed` writes; `ReportFailure` reads grant and binding and writes each, by the account
layout in one more read (`ReadAccount`, `SaveAccount`), by the coordinated resolver at commit
(`CommitReport`). The provider is `honoured`, the one refresh token it accepts; `Withdraw` is
the user's withdrawal of consent there. `Crash` ends a request after its rotation.
`policy` is the application's failure policy.

### Credentials, Lockout

`Credentials` is one e-mail address: `credential` is its row, `account` the application's user,
`tokens` the e-mailed tokens of four kinds. `Login` reads the row, `Verify` the user,
and a legacy hash is rehashed (`Rehash`) by writing back what was read before `Admit`. Redemption
deletes the token, in two statements in the Postgres store (`SelectToken`, `Delete`). Verification
reads the row, the user, creates the user (`CreateVerifiedUser`, which the application may refuse),
marks the row and saves it, one step each; a reset reads and writes in separate steps, too. `changeAccountPassword` is one step, being a transaction.
`Lockout` is one key in three stores. An attempt is `Check`, then `Succeeds` or `Fails`, which
counts in one step in memory and by reading and saving elsewhere (`SaveCount`, `SaveLock`).

### MfaCodes, MfaSms

`MfaCodes` has the enrollment row (TOTP, phone, backup codes), logins that wait (`parked`),
and the attempt counters. `ClaimAttempt` and `CompleteCode` are conditional writes, so one
step each; `RemoveFactor` and `RotateKey` hold the row between reading and `SaveRow`, the setup
of a phone between `SetupPhone` and `ClaimPhone` or `RollbackPhone`, and its verification between
`VerifyPhone` and `CompletePhone`. A phone's challenge has an identity: what claims, completes or
rolls back compares it with the one on the row.

`MfaSms` is one challenge record of one `place`, the setup of a phone or one waiting login:
sent (`SendSms`, `ClaimSms`, `StartProvider`, `Finalize`, `Deliver`, `Rollback`) and verified
(`VerifySms`, `CheckSms`, `RecordFailure`, `CompleteSms`), with a code of the application's or
with a verification provider's. Only a login counts its messages first (`CountDelivery`), and
goes on from `CompleteSms` to look for the enrollment once more (`StillEnrolled`) and to the
session (`PromoteSms`). `RemoveEnrollment` takes record and counter at any moment.

### SignInMethods

One browser. `Authorize` starts a redirect and leaves cookies (`jar`); `Callback` reads
them and goes on to `LinkIdentity` or `LoginByAccount`. `Options` starts a passkey ceremony,
`RegisterVerify` and `AuthenticateVerify` consume it, `SaveCredential` writes.
`RemovePasskey` and `UnlinkIdentity` decide on what they count, `RemoveCredential` and
`RemoveIdentity` write.

### MobileClient

Application and background worker share the secure storage (`store`, `pending`) and its lock.
A rotation is `BeginRotation` (which takes the lock), `ReadToken`, `ExchangeToken` at the server
and `SaveToken`. Callbacks of the browser may overlap (`callbacks`: `ReceiveCallback`,
`RemovePending`, `ExchangeCode`, `SaveCallback`, `EndRejected`); each of them and each removal of a
sign-out (`ClearSession`) may meet a storage that fails. `Dies` is the operating system. Which
promise of a caller is settled is left out, and what is published is somebody or nobody. Tokens are family and generation; the server
ends a family that is shown an earlier generation, as `RefreshFamilies` does.

### AuditChain

`log` is what the sink stores, `lastHash` the head a process keeps in memory. An append is
`Emit`, `Seed` (the scan for the head after a start), `HashEvent`, `StoreEvent`. `writing` is how
a writer resumes: under a fresh id, by a scan, or by `loadWriterHead`. `causes` names which of the four
things that break an untampered chain has happened.

### Organizations, Scim

`Organizations`: each route asks whether the caller may manage (`MayManage`), then reads and
writes rows. `AcceptInvitation` is a transaction and one step. `ended` is how a membership was
last ended, `overtaken` whose rows a request under way has written back. A revocation reads the
invitation, whatever its state, and writes it back as revoked; a message that could not be sent does
the same. `closed` are the invitations that were accepted or revoked or have expired, `reopened` those
accepted afterwards.
`Scim` is one user or one group: create, replace, patch (`ReadCurrent`, `WritePatched`) and delete,
each with the route's own action for users and for groups; `PatchedUser` and `PatchedGroup` are the
merges of `serialize.ts`, `Meant` is what an operation says by the protocol, and `asked` what the
acknowledged operations say together.

### AgentRegistration

`flow` is the registration with its version; an update that compares versions is one
action. `CompleteClaim` goes on to `Retire`, `Replace`, `Activate` and `SaveDelegation`, which are
separate stores; `Issue` writes a token after the read in `Exchange` or `PollClaimed`; `Throws` is a request
that ends between its steps. `Honoured` is what the verifier accepts.

### ApiKeys, ClientRegistration

`ApiKeys`: a client exchanges (`FindClient`, `MintToken`), a key or token is presented
(`VerifyAccessToken`, `FindKey`, `TouchKey`, the last-used write). `work` keeps the clock read at
the start of a request. `ClientRegistration`: `Manage` authorizes by a registration token,
`Decide` chooses, `SaveClient`, `SaveToken`, `InsertToken` (the second statement of the
Postgres store) and `ForgetTokens` follow. `Revoke` sweeps codes, device authorizations and families
(`RevokeCodes`, `RevokeDevices`, `RevokeFamilies`) and then the registration tokens. `Exchange` takes a
code, `Redeem` and `TakeDevice` poll for a device authorization and take it, and `SaveFamily` stores
the family an await later.

### Fga

`warrants` are the tuples over a graph of nodes; a check (`Check`, `ReadSelf`, `ReadLinks`,
`Answer`) walks it with the visited set and depth limit of the code, one read per step, in any order.
A chain of inherited relations is entered without an await, so in one step: `Enter` is the set of
the ways to do that, since of two paths to a relation the one that comes first decides its depth.
`WriteWarrant` and `ClearCache` are the write and the clearing after it, `ForeignWrite` another
server's write. `Holds` is the reference definition, the least closed set.

### Sso, VerifiableCredentials, OneTimeProofs

`Sso`: `Configure`, `ReadExisting`, `SaveConnection` are the portal; `Served` is the choice among
connections in each store; `Callback...`, `Acs...`, `Logout...` are the sign-ins and the logout,
with the read of the connection and what is done with it apart. A connection may have an address for
single logout (`slo`) or not, and loses it by being configured without; `Asks` is when the logout
redirects with a LogoutRequest: the adapter can sign one (`Signs`), the connection has the address,
and the session has a context of this connection. Otherwise it only redirects, as the comment in
`samlRoutes.ts` says, and `Unable` is the part of that which is nobody's mistake.
`VerifiableCredentials`: `Consume` is the first statement on an offer, a nonce or a presentation
request, `ConsumeRow` the Postgres stores' second; `FetchRequestObject` is the route that
builds a request object anew. An answer is looked up by the `state` in its body, which an honest
wallet copies from the request object. `OneTimeProofs`: one proof or ticket presented by several requests
around its expiry; the request reads the clock first and asks the store later. Without
`consumeJti` a DPoP proof is asked about and recorded in two calls (`AskUsed`, `RecordIfFresh`), and a
request that asked between another's two is `shared`. `accepted` counts the acceptances by instant.

### Deliveries, Migrations

`Deliveries`: `Dispatch` starts one job per receiver; `Step` is its attempt, its retry, the hook
for failures and the dead letter; `ListFailed` and `RemoveFailure` are the operator. `Migrations`:
`Begin` opens (and, in Bun, locks), `ReadJournal`, `Skip`, `RunSql`, `InsertJournal`, `Finish`;
`pending` is what an open transaction has not committed, `Crash` discards it. The place a
process has come to in the blocks it selected, in an order of its own, is `todo`: the blocks, the
one it is in, and its next migration. `Count` says how many migrations a block has.

## Runs

| run | shows | bounds | distinct states |
|---|---|---|---|
| `refresh_families` | all seven properties of the families, refinement of `GrantLineage` included | 2 requests, 2 families, 3 tokens, 2 clients, 1 user, bearer and one DPoP key, 3 instants with a lifetime of 1, Postgres store | 0.3 million |
| `device_grant_two_polls` | **violated**: `SingleUse` as the comment in `exchangeDeviceCode` states it | 1 decider, 2 polls, 2 devices, clients and users | - |
| `code_grant` | single use of codes and request_uris, consent before code, revocation, liveness of the consent detour | 3 flows, 2 clients (one pushes, both ask consent), 2 users, 2 token requests, 1 crash, 1 sign-out | 0.32 million |
| `code_grant_pushed_consent` | **violated**: an agreeing user of a pushing client never gets a code | 2 flows | - |
| `sessions` | what ended stays ended, live sessions survive, snapshots, ids | 2 concurrent requests, 2 ids, 2 users, 3 deployments, `maxSessions` 1 | 1.5 million |
| `sessions_renewal` | **violated**: a renewal undoes a sign-out | the same, OAuth deployment | - |
| `impersonation` | no nesting, always stamped, bounded, audited | 2 requests of one administrator, 3 session ids, 2 modes | 1.5 million |
| `impersonation_postgres` | **violated**: without the stamp a view can be started from a view | 1 request | - |
| `accounts` | the eight modules of an account, each alone | 2 requests, 2 users or passwords; 2 e-mailed tokens; lockout after 2 failures over 4 instants; 1 backup code, 1 waiting login, 1 code attempt, one phone challenge at a time; 2 SMS challenges, 2 sends; 1 passkey, 1 provider account, 3 sessions; 2 sign-ins and 2 generations, 2 callbacks, 1 loss; 4 events, seed scan of 1; 1 grant, 2 tokens, 2 links in 3 deployments | 3.4 million |
| `access` | the eleven modules of access, each alone | 2 requests, 2 users or names; 1 invitation; 1 group member; 3 versions, 1 claim attempt, 1 user; 1 API token, 4 instants; 1 client, 3 registration tokens; 5 nodes, 6 tuples of which one is written at a time, depth 2 and 5; 2 configurations, 1 flow, 1 session; 1 nonce; 5 instants around an expiry; device grant: 1 device, 2 clients, users, deciders, polls, a lifetime of 1 and 4 instants; CIBA: 1 request, lifetime 3, interval 2, 5 instants | 1.8 million |
| `credentials_served_nonce` | **violated**: a holder-bound answer to the request object as served verifies | 2 requests, 1 nonce | - |
| `operations` | deliveries end and failures are recorded; migrations are journaled in order and every boot ends | 2 receivers, 2 notices, 2 attempts, 1 fault; 2 blocks of 2 and 1 migrations, 2 processes, 1 crash | 68 thousand |

Why these bounds are enough to be interesting. Each race here is between two handlers on
one record, so two slots are needed and are given everywhere, except that the graph search of
`Fga` is one check against writers; three would repeat the same
pairs. Clocks have just enough ticks for a record to be issued, to reach its last valid
instant, and to be past it while a request that read it is still under way. Three tokens
allow a rotation of a rotated token and a replay of the first. Two session ids let a
sign-in replace one session by another; a third is needed in `Impersonation` to attempt
a nested view. Two clients and users make a wrong client or user possible. One device is enough in `access`, as device
authorizations share nothing with one another. Attempt limits
are one or two, so that the last allowed guess and the first refused one both happen. Four
audit events with a seed scan of one let the scan miss the head. The graph of `Fga` has a cycle
(teams in folders, folders of teams), a node with two ways to it, and paths longer than the
shorter depth. Every bound is a constant named `Max...`, or the size of a set.

`impersonation*` disables the deadlock check because no sign-in is modelled there and all
sessions may end; `accounts`, `access` and `operations` do because tokens, versions,
events and notices of the instance run out. What must not stop in them is stated as a liveness
property instead (`WorkEnds`).

Symmetry is used only where the model treats the permuted values alike and where no
liveness property is checked; action properties and the refinement of `GrantLineage` (a
specification without fairness) are safety properties.

Fairness is assumed in three modules.

* `CodeGrant` (`Cooperation`), for `UnpushedConsentGetsCode` and `AgreeingUserGetsCode`: the user
  signs in when asked and agrees, the user agent follows redirects, and the server answers. It is
  weak fairness of single actions that stay enabled until taken, which is what an event loop
  gives a request; nothing is assumed of revocation, sign-out or crash, which may compete
  with it. The bound on sign-outs keeps a user from signing out for ever between login
  and consent.
* `Deliveries`: weak fairness of each job's step. Every attempt is bounded by
  `AbortSignal.timeout` and every pause by its timer. Nothing is assumed of the receivers.
* `Migrations`: weak fairness of each process's step, as statements of a connected process return,
  and strong fairness of `Begin`, as Postgres grants the advisory lock in the order it was asked
  for. A death is never assumed; at most one happens.

What the conditions in the properties say. Each is a race or a failure that the code does
lose; the property says that nothing else does.

* `PolledMintsWhatWasApproved` excludes codes on which two decisions overlapped, as to denial,
  `PolledReplaysAreRefused` and `PollRateHolds` those on which two polls did: `updateStatus`,
  `deleteBy...` and `recordPoll` are unconditional, so those races are lost, and the first two
  cases are reported or follow from the same code.
* `EndedStaysEnded` (sessions) has two halves. For deployments without operations that rewrite rows
  they read earlier (renewal, snapshot refresh, linking callback, passkey sign-in beside an existing
  session) an ended session is gone for good. For all deployments it does not come back once no
  request in flight has its row: those in flight when it ended may bring it back, and
  `sessions_renewal` shows one that does. `LiveSessionsSurvive` excludes renewal
  for the same reason: a row read as expired may be renewed before it is removed.
* `RowsStayTheirUsers` joins the type invariant, the users of rows, and `PushedSnapshotStays`, which
  speaks of refreshes no other request overlapped. `CodesAndUrisPassOnce` and `ViewsAreMarked`
  join the type invariants of their modules in the same way.
* `ModesAreAudited` excludes sessions on which two changes of mode overlapped: the one that
  fails puts back the row it had read. `NeverOutlivesActor` allows the time the start itself
  spent awaiting the store, because the span is computed before that await and added to the clock
  after it.
* `OnlyInFlightEscapes` excludes exchanges that had consumed their code when the revocation began.
* `NothingSpentPasses`: a replaced password is refused, unless a request held the row when it was
  replaced (a login that rehashes, a verification that completes a registration); an e-mailed
  token passes once, unless two requests had read its row in Postgres; a spent backup code stays
  spent, unless a request that writes whole enrollment rows held one; a waiting login becomes
  one session, unless two requests worked on it together.
* `GuessesAreBounded`: failures of one window lock the key, in Postgres and Redis unless attempts
  overlapped; an SMS challenge allows its attempts and one for each other request in flight,
  as often again as a rollback restored it.
* `KeepsOneWayIn` excludes users for whom two removals overlapped.
* `NoSelfInflictedReuse` excludes families whose latest token never reached the storage: the process
  died, or the answer was lost.
* `UntamperedVerifies` excludes overlapping appends of one process, an append that failed after
  hashing, a seed scan that is too short, and retention.
* `ActiveMeansHonoured` excludes withdrawal at the provider, a rotation lost with its process,
  and requests that worked on one grant together without the row lock.
* `WithdrawnStaysOut`, `ClaimRetiresTokens`: only requests authorized before the withdrawal
  or the claim leave something behind, and in each module only what is named there. An invitation
  that was revoked or has expired is never accepted, without exception.
* `KeepsWhatWasAsked` excludes a PATCH that overlaps another write, and the operations the merge
  misreads (a `remove` on a user, a pathless `add` or `remove` on a group).
* `ConfiguredIsServed` excludes overlapping configurations and connections taken away. The end of a
  SAML session reaches its provider whenever it can (`Unable`): the adapter signs, and the connection
  the session came by still has an address for logouts.
* `CacheFollowsWrites` excludes answers of checks that a write overlapped, answers cut at the depth
  limit, and tuples another server wrote.
* `SecretsPassOnce`: a proof passes once until its expiry, as the stores forget it then; a DPoP
  proof without `consumeJti`, and the offers, nonces and requests of the Postgres stores, pass as
  often as there are requests that asked between another's question and its write (the `shared`
  ones), and once otherwise.
* `FailuresRecorded` excludes a delivery whose own hook or store call threw (the webhook hook runs
  before the record and skips it); the others of the notice are recorded all the same. A webhook's
  letter may be another endpoint's, as the event's endpoints share a key.
* `JournaledWasRun` is about both runners, the absence of failures about the Bun one only.

Each property of a passing run has a mutant in `PROJECT.json`: a definition with a
plausible defect (marked `defect:` in the modules) under which the same run fails.

## Findings

1. Two polls in flight both redeem one device code (`device_grant_two_polls`), against the
   comment in `exchangeDeviceCode`; the CIBA exchange has the same shape.
2. A pushed authorization request is consumed before the login and consent detours that
   return to it (`code_grant_pushed_consent`).
3. A provider-token renewal writes back a session that was signed out meanwhile
   (`sessions_renewal`).
4. The Postgres session store does not keep the impersonation stamp
   (`impersonation_postgres`).
5. A comment says that a too fast backchannel poll bumps the interval; nothing is written
   (`interval` never changes in `BackchannelGrant`).
6. `GET /vp/request/:id` re-emits a presentation request with a new nonce that no store keeps, so
   an answer bound to the holder's key is refused (`credentials_served_nonce`), against the comment
   above the route, by which the stored record carries the nonce of what is served.

## Observations

What the conditions above stand for, where the documentation promises nothing else. They are
places where the order of awaits decides.

* Credentials: the rehash of a login and the second save of an e-mail verification write back the
  row read earlier, so they undo a reset that completes in between. The Postgres token store
  selects and then deletes blindly. A reset whose password the policy refuses has spent its
  token. Postgres and Redis lockout counters lose overlapping failures.
* MFA: factor removal, key rotation and the roll-back of a phone's setup write whole
  enrollment rows and may bring back a spent backup code or an older challenge.
* Sign-in methods: two overlapping removals of different kinds can leave no way in; a passkey
  authentication that overlaps the removal of its passkey stores it again.
* Mobile client: a refresh or callback in flight undoes a sign-out that crosses it; a callback of an
  older sign-in removes the newer pending one.
* Linked providers: without the coordinated resolver overlapping requests overwrite each
  other's grants, and a report made for an older token latches a grant linked anew.
* Sessions of agents: a token issued while a claim retires tokens survives; wrong codes
  and polls change the version that a pre-claim assertion is bound to; a process death between the
  replacement of a claim and its activation leaves a claimed agent without a delegation.
* Audit: appends of one process that overlap fork the chain, and the log then fails its
  verification; so do a failed append, a short seed scan, and retention.
* Webhooks: dead letters are keyed by the envelope, which all endpoints of an event share; in memory the
  later letter replaces the earlier, in Postgres it is refused.
* Identity assertions are honoured for the clock skew past their expiry, but remembered until it.
* FGA: with a depth limit the shared visited set makes the answer depend on the order of reads; a
  check begun before a write caches its answer after the clearing.
* Client registration: overlapping updates can leave two registration tokens in the Postgres store, and
  in memory an update re-creates a deleted client.
* Organizations: a change of roles or an assignment by domain can bring back a removed member;
  a revocation writes back the invitation it read; `deleteOrganization` leaves memberships and
  invitations.
* SCIM: overlapping PATCHes lose updates; a pathless `add` of members replaces them; a PUT without
  `active` activates.
* API keys: the tokens of a deleted client live until they expire.
* SSO: a connection configured anew without `idpSloUrl` makes the logouts of its sessions silent;
  first configurations that overlap create two connections; the in-memory store then serves
  the oldest, the Postgres store the one updated last.
* Verifiable credentials: the Postgres stores of offers, nonces and presentation requests select and then
  delete or update, so two requests may both pass.
* Migrations: pool runners that boot together collide on the journal's key, and the slower one
  throws; a death between SQL and journal runs the (idempotent) SQL again.

## Proofs

Every theorem is about every value of the constants: any sets of clients, users, sessions,
tokens, codes and request slots, any lifetimes and bounds. The only assumptions are the named
`ASSUME`s of the modules, which say that the numbers are naturals (a `Duration` of a member view,
a number of attempts or a session limit at least one), that the wiring functions are
functions (`FlowClient`, `BrowserUser`, `Count`, ...), that rules and tuples are about the given nodes
and subjects, and that `None` is none of the
values it stands beside. TLC evaluates them in the runs.

| module | theorems | invariant |
|---|---|---|
| `RefreshFamiliesProofs` | `FamiliesRememberTokens`, `NoTokenRotatesTwice`, `ReuseIsFatal`, `ChecksOutliveAwaits`, `ExpiryOnlyGrows`, `FamiliesImplementLineage` | `IInv` |
| `CodeGrantProofs` | `RedeemedOnce`, `ConsentComesFirst`, `RevocationIsComplete` | `IInv` |
| `SessionsProofs` | `EndedIsGone`, `LiveSessionsStay`, `RowsAreTheirUsers` | `IInv` |
| `AccountSecretsProofs`, `AccountsProofs` | `Typed`, `SpentStaysSpent`, `GuessesBounded`, `OneWayInStays`, `LinkedToItsStarter`, `NoReuseOfItsOwn`, `HonestLogVerifies`, `ActiveIsHonoured` | `AccountsInv` |
| `AccessProofs` | `ClaimedKeepNothing`, `AskedIsKept`, `AcceptedOnce`, `WithdrawnOut`, `CacheIsRight`, `ConfiguredServes`, `TokensNeedApproval`, `CodesAreSingleUse`, `PollsKeepTheInterval` | `AccessInv` |
| `ImpersonationProofs` | `NestingIsRefused`, `ActorsAreMarked`, `ViewsEndWithActor`, `ModesStayAudited` | `IInv` |
| `OperationsProofs` | `TypesAreCorrect`, `GivenUpIsRecorded`, `JournalIsTruthful` | `OperationsInv` |

In each module `Invariant` is the theorem that the inductive invariant holds, and the others
follow from it. They state all safety properties that the runs of those modules check, but for
`TypesOK` of `access` as a whole. The inductive invariants were themselves checked by TLC on the
instances of the runs before they were proved (of `AccessInv` without the type of a row in the hands of
an organization's request, and with the subjects and nodes for the quantifier of `SelfRead`, which
TLC cannot evaluate).

None of the safety properties is inductive by itself; what is missing is always what a request in
flight still knows, and the strengthenings say that.

### Refresh-token families

`TypeCorrect`, the four safety invariants, the action property `ExpiryNeverShrinks`, and the
refinement of `GrantLineage`, for both stores. `IInv` adds:

* `AbsentIsEmpty`: a family without a row has no remains of one;
* `ExchangedIsSettled`: a token that was exchanged has been generated and is no active
  family's current token, so it can never be exchanged again;
* `ReusedWasOpened`: a family in which reuse was seen had been opened, so its id is not
  handed out again;
* `ExpiryBounded`: no expiry lies more than a lifetime ahead of the clock;
* `RequestsKnow`: what a request that passed its checks still knows after an await: its
  token was generated for the family it names; as long as that family has a row, client and
  key are the ones checked; and if the token is still current, the expiry is the one
  checked (a family changes its expiry only together with its token).

The argument for a step is then always one of two: the step leaves a row alone, or it is
the one exchange that moves the current token into the consumed ones. `RevokedRow`,
`RevocationKeeps` and `ExchangedRow` state what the shapes of update do to a row; `InvNext`
has one step per action and one below it per conjunct the action can disturb. The refinement maps the grant to `Born`, the exchange
to `Advance`, every revocation, deletion and crash to `End` of the families that were
active, and everything else to a stutter.

### Authorization codes

What a code yields is in one place at a time: the code store, one exchange in flight, or the
family (`CodeInOnePlace`); that makes the code single-use, because consuming it is one
statement. `CodeComesLast` and `VisitConsumes` tie the user agent's page to the two stores,
so that a code cannot precede consent. `SweptIsDead`: what a revocation found idle has lost its
code, and loses its family when the revocation ends. `RedeemedOnce` is the action property
`CodesAndUrisPassOnce`, proved from the invariant and one lemma about a record that is deleted
when it is read.

### Device and backchannel grants

The proof is part of that of the sum (`AccessInv`), one invariant per grant. What a poll read
must still be true when it mints: `ApprovalsAreKept` and `RequestsNameUsers` say that an
approved record, and a poll that has read one, name a user whose approval was
written. `DecidedOnce`, `ExchangedOnce` and `MintedOnce` are about the codes on which decisions or
polls did not overlap: there the record is gone before the tokens are there.
`LastPollIsKept` relates the stored time of the last poll to the history of honoured ones, for the poll rate.

### Sessions

`IInv` speaks about the *rows* of a session: the stored one and those that requests have read or
are to write (`IsRow`). All of them have one owner (`HasOneOwner`, which gives that an
id keeps its user) and, where no provider renewal runs, one expiry (`HasOneExpiry`, which gives that
expiry and cleanup remove no live session). `IdsAreNew` says that an id not generated is known to
nobody, `EndsAreFinal` that without operations that rewrite rows (`RewritesNothing`, the
condition in the first half of `EndedStaysEnded`) what a request is to write is unseen until then
(its second half follows from `IdsAreNew` and from new rows coming from decisions only), `VersionsFollow`
and `RefreshAlone` that a snapshot refresh no other request overlaps reaches every row of its user.
Owner and expiry are quantified as functions of the session id, since no state variable
records them: a step extends the function at the id it creates.

### Impersonation

`StampsAreKept`: where the store keeps stamps, the rows of member views, stored or read, are exactly the
stamped ones. `HasOnePerson`: all rows of a session are the doing of one person, who sits at every
browser that holds it. `HasOneExpiry` and `SpanIsCallers` bound a view by its caller's
session; `StartsAlone` and `ModesInHand` follow a mode until its audit. `NestingIsRefused` and
`ActorsAreMarked` assume `KeepsStamp`, the in-memory store: without it they are false,
which is what `impersonation_postgres` shows. The other theorems hold for both stores.

### What keeps an account

The proof is of the sum (`MCAccounts`): `AccountsInv` has one invariant per module, each with a lemma
for its initial states and one for its steps. The counting arguments rest on a few lemmas about the
cardinality of the set of requests that are at a given step.

* `PasswordsInv`: a request that holds a replaced credential was overtaken (`HeldRows`), and how often
  an emailed token passed and how many requests are about to delete it are counted together, so a
  token nobody raced for passes once (`TokensCounted`, `PassesAlone`).
* `LockoutInv`: the record says no less than the failures that did not overlap (`InStep`), its last
  lock is on it (`LockSet`), and while nobody overlaps a key is below its limit, past its lockout or
  locked (`Guarded`). In memory that holds with overlaps too.
* `CodesInv`: a code that was used is in no set of codes, stored or held, unless a request was
  overtaken (`CodesFine`); requests that work on a login and its promotions are counted together.
* `SmsInv`: the codes tried and about to be tried are within what each life of a challenge grants
  (`GuessesCounted`), a life is what a claim or a restored record begins, and each later challenge
  restores one record at most (`RestoresCounted`), which is the bound in `TypeOK`.
* `SignInInv`: for a user whose removals did not overlap the one under way leaves another method
  (`LeavesOne`), and linking or taking over meanwhile takes nothing of it (`RemovesOwn`);
  session ids are given once, so the session of a linking is its starter's (`SessionsGivenOnce`).
* `MobileInv`: under the lock one process rotates; what is stored or on its way to the server is the
  latest token of its family, unless the family ended or its latest token was lost (`HoldsLatest`).
* `AuditInv`: while nothing broke the chain one append runs, onto the newest event (`OneAppend`,
  `Resumed`), and what was tampered with shows in a changed row or behind a missing one (`Torn`).
* `LinkedInv`: the stored row of a grant, and one that a request is about to store, has the token that
  the provider honours (`RowsGood`), under the row lock (`RowsLocked`) or where no two requests
  overlapped (`WorkedAlone`).

The assumptions name what the bounds of `accounts.cfg` are: numbers, a limit of failures and a
generation of tokens at least one, no provider account that is a passkey, and the stores and locks of
the code for `Setups` and `Deployments`.

### Access to others

The proof is of the sum (`MCAccess`): `AccessInv` has one invariant per module, each with a lemma for
its initial states and one for its steps.

* `AgentsInv`: from the moment that a request has retired an anonymous agent's tokens until the claim
  and after it, the tokens that are there and those still to be issued are excused (`RetiredStay`):
  the tokens with the agent's own scopes are of requests that the retirement overtook or that read
  the registration between it and the replacement, and what is read later has the user's scopes.
* `ScimInv`: `KeepsWhatWasAsked` with the types of what a request has read; the lemmas are about the
  merges, for a user and for a group.
* `OneTimeInv`: what was accepted is remembered, and while it is no second presentation passes
  (`PassesOnce`); where the store only answers, one request at most has asked alone (`AsksAlone`).
  Tickets are counted: the acceptances and the stored ticket are together no more than were issued
  (`TicketsCounted`).
* `CredentialsInv`: of the requests that read a row alone, one at most still lets its secret
  pass (`OneLive`), none once it has passed (`SpentOnce`), and none has written while it is unspent
  (`UnspentWaits`).
* `ApiKeysInv`: no token outlives `Deadline`, the latest expiry of what the client has got so far or
  had got when it was deleted, and that includes the tokens of exchanges under way.
* `OrganizationsInv`: `Standing` says that an ended membership stays so unless an overtaken request
  brought it back, `Heeds` that no request that was not overtaken holds a row to do it with.
* `InvitationsInv`: what was closed can no longer be accepted, and the row that a revocation or a
  resending holds makes none younger.
* `ClientsInv`: a revocation takes the codes, then the device authorizations, then the families, so
  between the sweeps no exchange and no poll can begin that would leave a family (`Dry`, by the source
  of a family); and what is written to a retired client is written by a request that was under way
  (`Minds`).
* `FgaInv`: `Sound`, what a check has entered is contained in every set closed under rules and
  tuples, and `Thorough`, a check that was not cut has entered or has still to read all that its nodes
  lead to. A finished check has then entered a closed set, which is the least one. Both hold over
  cyclic graphs. That one step enters a whole chain is by the greatest depth in it (`Greatest`, by
  the well-foundedness of the finite subsets).
* `SsoInv`: `Undisturbed`, which holds until configurations overlap or a connection is taken away:
  no type has two connections, a configuration under way has the id of its type's connection or a new
  one (`Fits`), and the sessions and their logouts are of the one SAML connection (`Knows`).

### Deliveries and migrations

Deliveries: `LettersAreGivenUp` (a dead letter, or the one an operator replays, is that of
a delivery that was given up), `NoticesInOrder`, `AttemptsLeft`. Migrations, per process:
`HoldsTheLock` (a busy Bun runner holds the lock and only its transaction waits for a commit),
`KeepsItsPlace`, `Whole` (the journal names only what was run, in the order of each block, with
the uncommitted part as without it, so that a crash keeps it), `EarlierAreDone`, and `JournalAsRead` (what was
read of the journal is still true when the process acts on it: under the lock entirely, without it
only in what it contains). The last gives that no Bun runner collides on a key.

### Only model-checked

* Liveness: `UnpushedConsentGetsCode` and `WorkEnds`. TLAPS 1.4.5 proves neither `ENABLED` nor properties under fairness.
* `TypesOK` of `access` as a whole: `AccessInv` contains the types of ten of the eleven modules. In `Sso`,
  deletion is `SelectSeq`, a recursive definition, and what it leaves of the rows is out of reach of
  the provers; `SsoInv` has the types of the rows as long as no connection was taken away.

## Not modelled, and why

* Formats and cryptography (JWT, DPoP proofs, PKCE, SAML, WebAuthn, digests): a verdict, true or
  false, in the guards.
* Data that travels unchanged: scopes, claims, acr, audience, device labels, metadata.
* JAR, `prompt=none`, acr step-up and scope narrowing in `/authorize`: they refuse a
  request before anything is written. Client metadata documents: fetched and cached, never
  written back.
* Unregistered sessions and the multi-session ring; the application hooks of sign-in and
  sign-out beyond their failing.
* The library as a SAML identity provider (`samlIdpRoutes`): one redirect with no store of its own
  beyond the session.
* Abuse and adaptive risk scoring: heuristics without a promise to check. Captcha and password
  policy are verdicts.
* A process death inside an impersonation request: the write and its audit record are two
  systems, so a death between them leaves an unaudited mode whatever the code does.
* Vault, federation, plugins, telemetry, SIEM export, compliance reports, HTMX pages, the
  browser client and UI, fingerprinting, generated SQL and the CLI: I/O, rendering and
  wiring; nothing in them depends on an order.

## Plan

Done: the token endpoint's grants, sessions, impersonation, accounts, access to others, deliveries
and migrations; the proofs of all safety properties of the families, the three grants, sessions,
impersonation, accounts, deliveries and migrations, and of access but for one type. Next:

1. `MobileClient` composed with `RefreshFamilies` in place of its own server.
2. The multi-session ring as an extension of `Sessions`.
