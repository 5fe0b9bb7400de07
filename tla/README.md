# TLA+ models of Nebula API

Nebula API is a gateway to language-model providers for a university. Students hold API
keys of projects, mentors and teachers grant the keys a monthly quota of credits, and every
call through the gateway is metered against it. This directory models the parts of the
Go program in which the order of events matters, checks them with TLC on small instances,
and proves the main results with TLAPS for instances of any size.

Paths below are relative to the repository. `PROJECT.json` names, for every definition that
models code, the file and the lines it stands for.

## 1. The system

| Component | State | Operations | Talks to |
|---|---|---|---|
| Credit ledger, `internal/usage/store.go` and migration 0002 | `project_month_credit_buckets`, `api_key_month_credit_buckets`, `gateway_calls`, `monthly_usage_cube`, `monitored_inputs` | Reserve, MarkSent, Finalize, RecoverExpired, EnsureCurrentBuckets, ApproveKey, UpdateKeyQuota, UpdateProjectQuota, RevokeKey | PostgreSQL; called by the gateway, the control plane and maintenance |
| Gateway HTTP proxy, `internal/dataplane/gateway.go` | none of its own; rows of the call and its attempts | ServeHTTP, routesForModel, proxyHTTP, proxySSE | the ledger, the upstreams, the client |
| Gateway WebSocket relay, same file | one connection to each side, two goroutines | serveWebSocket, the responses relay | as above |
| Maintenance process, `cmd/maintenance` | an advisory lock, a heartbeat row | recovery, buckets of a new month, retention | the ledger |
| Model routes, `internal/controlplane/teacher.go` | `models`, `providers`, `model_bindings` | create and update each of them | PostgreSQL; read by the gateway |
| API key lifecycle, `controlplane/student.go`, `mentor.go`, `teacher.go` | `api_keys.status` and the review columns | submit, review (twice), claim, revoke | the ledger, the event streams |
| Refresh sessions, `controlplane/auth.go`, `infrastructure/cache/store.go` | Redis: sessions, families, the families of a user | login, refresh, logout, password reset | Redis, PostgreSQL |
| Verification codes and invitations, same files | Redis: codes, attempts, cooldowns, invitations | send, register, invite, activate | Redis, mail |
| Event streams, `cache/store.go`, `api/http/events.go` | Redis: a stream for a user, a global one | publish, read, reconnect | the browser |
| Organizations, projects, memberships; HTTP API; request rewriting; credits arithmetic; catalog import; security, mail, configuration; generated ent code; web console | rows, or none | forms and conversions | |

**What makes each of them correct, and what is hard about it.**

*Ledger.* A call is billed once or not at all, in the month it was reserved in; the bucket
counters and the usage cube are the sums of the calls; a quota is exceeded by one call at
most; the keys' quotas fit in the project's. Three parties settle the same call without
knowing of each other: the worker that served it, the maintenance process that finds its
lease expired, and the mentor who revokes its key. Some reads are made outside the locks
that protect the writes (a month, a list of calls, two snapshots of quotas), the month
turns in between or under a quota operation that has read it, and the server may die at any
point.

*HTTP proxy.* A success that is delivered was charged; the client is sent the last answer there
was, the only one that was not to be retried; nothing follows a reply. All statements of a call
run in the request's context, so a client that leaves makes every later one fail, and most
of their errors are ignored.

*Model routes.* An active model keeps a route. The rule spans three tables, each edited by
a different request that checks it with several unlocked queries.

*WebSocket relay.* What the upstream was given is charged; each `response.create` is reserved
and reported on its own; when one peer leaves, the other is disconnected and both goroutines
end. Two goroutines share two connections, one of which both of them write to.

*Keys.* Every change of a status is a decision somebody was entitled to take at that moment, and
the audits and quotas tell of those decisions only; a secret is handed out once; nothing is
published that was not committed. A review reads the status, writes a quota, and looks at the
status again; a mentor may change the quota of a key that another request is just deciding; the
event is published after the commit, by a statement whose error is ignored.

*Refresh sessions.* A rotated token is not accepted again, a session that ended does not come
back, a password reset ends the sessions of the old password. Redis has transactions with a
watched key and no locks; several rules span keys that are not watched together.

*Verification codes.* A code is accepted once and cannot be guessed by guessing in parallel; a
failed mail takes back no code but its own.

*Event streams and the student's page.* A page that reconnects misses nothing, and what it shows
is not undone by an answer that comes late. One last id stands for the position in two streams, of
which a read takes a bounded batch each and Redis forgets the oldest events.

## 2. Modules

| Module | What it is |
|---|---|
| `CreditSums` | sums over finite sets, the SQL `sum(...)` of the ledger |
| `CreditLedger` | the ledger: one action for each transaction of the store, one for each step of those that read before they lock |
| `BillingPromise` | what the ledger promises: calls are opened, then billed or released, once; a total grows by exactly what is billed |
| `CallContract` | what the ledger and the worker of one call owe each other; implemented from three sides |
| `GatewayCall` | one metered HTTP call, from its reservation to its reply |
| `WebSocketRelay` | one WebSocket, from its dial to the end of its two goroutines, with a metered call for each `response.create` |
| `RouteReadiness` | the three tables of the routes and the teachers' transactions on them, query by query |
| `KeyLifecycle` | the life of an API key, statement by statement, with its audits, quotas, secret and events |
| `KeyNotices` | `KeyLifecycle` composed with the event streams, the connection that reads them and the student's page |
| `RefreshSessions` | the refresh tokens of one account over Redis: login, refresh, logout, password reset |
| `VerificationCodes` | the codes of one address: mails, guesses, attempts, locks, cooldowns |
| `MC_...` | small instances of each for TLC |
| `CreditLedgerProofs` | lemmas on the sums; the inductive invariant of the ledger, action by action, and its safety theorems |
| `CreditLedgerBilling` | action properties, `CallContract`, the reach of maintenance, the overage of a bucket and the refinement of `BillingPromise` |
| `RouteReadinessProofs` | what a transaction knows, and which commit can strand a model |
| `GatewayCallProofs` | the safety of a call and its contract |
| `WebSocketRelayProofs` | the safety of a connection, its contract, and that no goroutine is left waiting |
| `KeyProofs` | the safety of a key's life, and of the streams and the page it is composed with |
| `RefreshSessionsProofs` | the safety of the sessions |
| `VerificationCodesProofs` | the safety of the codes |

Definitions whose comment begins with *Mutant* are no part of a model. Each is a mapped
definition with a plausible bug; substituted for it, it must make its property fail, which
shows that the property says something about the code.

### CreditLedger and the code

A variable is a column or a table (its comment says which), or the state of a process:
`worker` the goroutine of a call, `recovering` the list of a `RecoverExpired` in progress,
`ensure` an `EnsureCurrentBuckets` in progress. An action is a whole transaction, because
the transactions that begin with `SELECT ... FOR UPDATE` on the project are serial for that
project, and `Finalize` claims its call with one guarded `UPDATE`. What the code reads before
its locks is a step of its own:

- `Reserve(c, m)` takes for its month `m` the current one or the one before: it was computed
  before the wait for the locks, and midnight may have come since.
- `ApproveKey`, `UpdateKeyQuota`, `UpdateProjectQuota` and `RevokeKey` read their month when they
  have locked the project (`store.go:284`, `:349`, `:400`, `:453`) and may commit after midnight.
  One that begins and commits in one month is one action; the lock keeps all but settlements from
  what it reads and writes, and those wait for the buckets it has locked. `NextMonth(S)` is the midnight that finds one under way in each project
  of `S`: `opMonth` keeps its month, the project stays locked, and the next quota operation on
  it is that one (`Works`), or its failure (`RollBack`). Which of the four it is, and with which
  values, is decided at its commit, since nobody else sees it before that.
- `RecoverScan` reads the list, `RecoverCall` settles a call on it later, `RecoverAbort` is
  the error that ends the loop. `RecoverCall` and `WorkerFinalize` share `Finalize`.
- `EnsureScan`, `EnsureInsert`, `EnsureCommit`, `EnsureRollback` are the two statements of
  `EnsureCurrentBuckets` with their snapshots, for the month that was read before the first one.
  The insertion of a bucket waits for the project's lock (the foreign key) and then holds it, so
  quota operations and reservations wait for the commit. An operation that it waited for may
  have changed the quotas since the snapshot, in a bucket of the month before: `overtaken` are the
  projects where one has, `outdated` the buckets that were made from such a reading. Neither
  guards any action; they let the properties say what the exception is.
- `LeaseRunsOut` is time; `WorkerLost` is a crash of the server, a panic, or a report that
  failed.

Credits are natural numbers, one for each call (the multiplier is frozen by the reservation);
the cube has one row for each key and month. User, model and name columns, ranges of input
values and the audit rows are left out.

### GatewayCall and the code

`step` is the place in `ServeHTTP`, `proxyHTTP` or `proxySSE`; `route` the index of the loop;
`answers` what became of each candidate: an answer, a request that could not be rewritten for it
(`RewriteFails`) or a failure of the connection (`Unreachable`). An answer is a class of status
(2xx, final, or 429 and 5xx) and whether it is an event stream. A statement takes two Booleans: whether it was
done, and whether its caller was told so; neither can be true of one that begins after the
client left. The row of the call is in the model with its lease, `sent_at` and outcome, so
that recovery and revocation race with the handler as they do in the ledger. A reply is the
gateway's own error, or the response of a route with its body whole, as far as it was
buffered, or closed. The bytes of a body, and a client that leaves while a reply is written,
are left out. So is the request for a stored video, which runs the same loop without a
reservation. The writing of a reply is one step with the report that precedes it, or follows it
when no upstream answered. `StreamEndsOnEvent` is the first event that comes in one read with the
end of the stream, or with its failure (`gateway.go:363-383`): the handler delivers what it has and
returns without a report. `Settle` includes the gateway's 502 for a created resource whose body
cannot be read (`:442-447`), which comes after the charge.

### RouteReadiness and the code

A transaction of a teacher is a record: the row, its new status, the query it runs next,
the models it has still to look at. PostgreSQL runs it at READ COMMITTED, every query sees
what is committed at that moment and locks nothing, so every query is an action
(`ReadModel`, `ReadBindings`, `ReadModels`, `CheckModel`). The `UPDATE` at the end touches one
row, which nobody sees before the commit, so the two are one action. `exact` records whether
a provider's new status was spelled the way the check compares it. `overlapped` belongs to no
row: it remembers whether another change was committed since the transaction began.

### WebSocketRelay and the code

`handler` is the goroutine of `serveResponsesWebSocket` or `serveRealtimeWebSocket`, `sender` and
`receiver` the two of the relay; `create` is the place in the handling of the newest
`response.create`, which the handler does for the first one of a Responses connection and the
sender for all others. `errs` is the channel of two. A write to a peer that has just left may
still succeed. `TwoWriters` is the state in which both goroutines are inside a write to the
client: gorilla/websocket may panic there (`Panic`), and nothing recovers it. Frames that are no
`response.create` are only modelled where they fail.

### KeyLifecycle, KeyNotices and the code

A handler is a request in progress. Reviews have one action for each statement whose order
matters: the read of the status, the mentor's quota, the `UPDATE` that looks at the status
again, the audit with the commit, the publication. What a transaction has written is its own
until `Commit`; `lock` is the row lock it holds meanwhile. `ApproveKey` and `RevokeKey` are the
transactions of `usage/store.go`, which lock before they look; so is `UpdateKeyQuota`, with which a
mentor changes the quota of an approved or active key, `adjustments` being its audits. Quotas go by
the name of the handler that set them: whose decision counts is the question here, how much it is,
is the ledger's.
`Abandon` is every failure between two statements.

`KeyNotices` adds the two streams as one sequence with two kinds of events. `trimmed` is how far
Redis has forgotten each of them: `XADD` with `MAXLEN ~` may remove any events but the newest
`StreamMaxLength` of the stream (`Removable`), or none. `server` is the loop of `events.go`, `Batch`
what `XREAD` returns: the `Count` oldest events of each stream after the one last id that are still
there, first the student's. `pipe` is the connection. The page asks for its keys (`load()`) and for a key (`show()`), and the answers arrive
in any order; `refresh()`, `claim()`, `copy()` and `closeSecret()` are the functions of
`StudentKeys.vue`.

### RefreshSessions, VerificationCodes and the code

A variable is a kind of Redis key, or the state of a request; an action is one command or one
`MULTI`. Each may be done or not, and its caller told so or told of an error. A `WATCH` is in
the guard of the transaction that depends on it: `Exec` does nothing if the token is gone,
`Accept` and `Reject` if the code was written since it was read (`Unchanged`). Tokens, families
and codes go by the name of the request that made them. Keys expire where that changes
something. A reset's own code is left to `VerificationCodes`, as is nothing else of either in the
other.

### How the modules compose

`CreditLedger`, `GatewayCall` and `WebSocketRelay` meet in `CallContract`, the protocol of one call:
reserve, report at most once, and otherwise only a pending call may be charged. The ledger keeps
it for every call (`CallsKeepContract`), with a worker that may do anything the contract allows;
the handler (`KeepsContract`) and the relay, for each of its creates (`CreatesKeepContract`), keep
it with a ledger row moved by whatever the contract allows others. Each model may therefore
stand for the other's half. `KeyLifecycle` and `CreditLedger` are two views of the same
approvals and revocations, one of statuses and actors, one of credits; they share no variable.

## 3. Runs

| Run | Instance | Distinct states | Shows |
|---|---|---|---|
| `settlement` | 1 key; calls of 1, 2 and 0 credits, two with a prompt; 2 months | 860,826 | types, the books and the cube, no pending call of a revoked key, prompts, `SettledOnce`, `BillsOnce` |
| `admission` | 2 keys of a project, 2 calls of one of them, quotas 1 and 3, a recovery of one call at a time | 174,076 | a quota is exceeded by one call; `CallsKeepContract`; every reserved call is settled |
| `allocation` | 2 keys, 1 call, quotas 1 and 3, 2 months | 2,653,378 | quotas fit, allocations cover and buckets follow the quotas except in outdated buckets, earlier months are left alone |
| `routes` | 2 teachers, 2 models, 2 providers, 3 bindings, both spellings | 1,386,974 | `StrandedUnchecked` |
| `gateway` | 3 routes, every fault | 344,711 | `SuccessIsCharged`, `LastAnswerIsRelayed`, `NoSwitchAfterReply`, `KeepsContract` |
| `relay` | both endpoints, 3 creates, every fault | 28,725 | `ServedIsBilled`, `CreatesKeepContract`, `RelayIsTornDown` |
| `relay_refusal` | realtime, 2 creates, no fault | violation | a refused create costs the connection (finding 1) |
| `sessions` | 4 requests, failing commands, expiry | 197,896 | `OneTokenPerFamily`, `EndedFamilyStaysEnded`, `SurvivorsWereLate` |
| `codes` | 2 mails, 3 guesses, 2 attempts, every fault | 4,127,580 | `AcceptedOnce`, `WrongGuessesAreCounted`, `LockedCodeRejects`, `MailedCodeStays` |
| `keys` | 1 key, 3 handlers, 2 changes of its quota, every fault | 296,839 | `AuditsTellStatus`, `QuotasAreDecided`, `OneSecret`, `EventsFollowCommits` |
| `notices` | 1 key, 1 handler, 1 change of the catalog, 1 broken connection, reads of 2, streams of 3, every fault | 7,232,174 | `NothingSkipped` |
| `key_secret` | 1 key, 2 reads of the page at a time, no fault | violation | a claimed secret vanishes (finding 2) |

**Bounds, and why they are enough.** `LastMonth` stops the clock: two months are the current
and a past one, no code looks further back, and the one midnight between them finds a quota
operation at work or not. `MaxResponses` bounds how often the lease
of a call is renewed; it is 0 where the lease does not matter and 1 in `admission`, where a
renewal has to delay a recovery. Three calls let one be settled by each of the three
parties, with a free, a cheap and a dear one in a bucket; two keys compete for a project;
quotas 1 and 3 are below and above the price of the dear call. `RecoveryBatch` is smaller than
the backlog that can arise. In `routes` one model has two routes and the other shares a
provider with it, so that disabling a provider concerns two models, and the loop over them is
interrupted; two teachers are enough for an overlap, and being alike they are a symmetry set.
Three candidates give the loop a first, a middle and a last one. Three creates are the first
one of a Responses connection and two of the relay, of which one may be refused. Four requests
are a login, two refreshes of its token (or one and a logout) and a reset, in every order; two
resets are in there too. Of the two mails one undoes the other; two wrong guesses lock a code,
the third is late; `MaxTries = 2` stands for five, so that the last try is reached. Three
handlers are two reviewers of a key and a third party. One key of the student suffices, since
keys of different names never meet; one drop is a connection before and one after it. Two changes
of a quota (`MaxAdjustments`) are one that comes before and one that comes after a decision of
somebody else. `Count = 2` and `StreamMaxLength = 3` stand for 100 and the configured length: a key's
life has five events, so a full read leaves some behind, an event of the catalog may pass them,
and the stream is trimmed. The
theorems of section 5 hold for every value of the constants of their modules. The largest runs,
`allocation`, `codes` and `notices`, take a few minutes each.

`CHECK_DEADLOCK FALSE` appears in all configurations but that of the routes because those
systems end: the clock and the calls are bounded, a request is over, a key is revoked, a
connection is closed. The routes can always go on, and there deadlock is checked.

**Fairness** is assumed in `admission` and `relay`. In `admission`: `WF` of `RecoverScan`: `cmd/maintenance/main.go:33-50`
runs a cycle every minute. `WF` of `LeaseRunsOut`: time passes. `SF` of `RecoverCall` for each
call: a failing settlement ends the loop and the next minute begins again, with the oldest
lease first, so a call is settled if its settlement does not fail for ever. Nothing
is assumed of workers, users, or the other half of a maintenance cycle. In `relay`: `WF` of
each goroutine's next step, but not of a peer's sending anything. Go schedules its goroutines,
and statements, dials and writes come to an end; that is an assumption about peers that are there,
since no write has a deadline.

**Assumption of GatewayCall.** The lease and the grace of its recovery are half an hour,
connecting and waiting for a header are limited to 10 and 60 seconds (`internal/config`), so
without the fault `"slow"` (an upstream that takes a large body slowly, or whose discarded
answer drips) the lease only runs out under a stream, or when the handler is gone. Run `gateway`
includes that fault.

## 4. Findings

Each of these is a run that TLC finds violated.

1. *A refused create costs the connection.* The error event of a `response.create` without
   credit is written by one goroutine while another may be writing a frame to the same client
   (`gateway.go:670`, `:701`; `:726`, `:752` for realtime): gorilla/websocket panics at two
   writers, and the process ends with all its connections. And a first create that is refused on the
   Responses endpoint always closes the connection (`:587-590`). Against
   `docs/API_DOCUMENTATION.md:501`.
2. *A claimed secret vanishes.* `ClaimAPIKey` publishes the status before it answers
   (`student.go:328`); the page takes that event as a change of the key, opens its details and
   thereby empties the secret that has just arrived (`StudentKeys.vue:35`, `:31`). Against
   `docs/TESTING_AND_TROUBLESHOOTING.md:147`.

What follows was seen while the modules were written, each in a behaviour of its module, and has
no run of its own.

*Ledger.* A revocation skips the release when the key has no bucket of the month yet
(`usage/store.go:488`): until the month's end the project cannot hand that quota out again, against
`docs/DATABASE.md:5`. The safe direction, `AllocationCovers`, is proved.

*Ledger, at midnight.* A quota operation reads its month under the project's lock
(`store.go:284`, `:349`, `:400`, `:453`) and commits later; `EnsureCurrentBuckets` reads all quotas in
the snapshot of its statement and then waits for that lock (`:42-45`). When midnight comes between, the
bucket of the new month is made from quotas that are already old, and the operation has only
corrected the bucket of the old month. An approval is then missing from `allocated_milli`, and
`ApproveKey` hands its quota out a second time in that month; an `UpdateProjectQuota` leaves the old
quota in the new bucket; and an `UpdateKeyQuota` may be refused by `CHECK(allocated_milli>=0)`, because
the bucket cannot give back what it never counted. `AllocationCovers`, `LiveQuotasFit` and
`BucketsFollowQuotas` except these buckets (`outdated`), and are proved for all others: this is
the only way. A revocation across midnight releases its quota in the old month's bucket, which is
too much in the new one, never too little.

*Routes.* The route checks lock nothing (`teacher.go:824`, `:974`, `:998`): two teachers at once
leave an active model without a route, against `docs/DATABASE.md:292`. `UpdateProvider`
compares the raw status and stores the normalized one (`teacher.go:553`, `:581`): a provider
disabled as "Inactive" is not checked at all, against `docs/API_DOCUMENTATION.md:374`.
`StrandedUnchecked` says that nothing else strands a model.

*HTTP calls.* A request that cannot be rewritten for a candidate goes to the next one
(`gateway.go:290-294`), though `docs/API_DOCUMENTATION.md:505` allows that only after a connection error, a
timeout, 429 or 5xx; nothing was sent, so no answer is lost by it. A stream whose first event comes
together with its end is delivered whole and reported by nobody (`:375-382`): the call stays pending
until maintenance charges it as `outcome_unknown` (`SuccessIsCharged` names the exception, and
shows that it is never released). A created resource whose body cannot be read is charged and
answered with 502 (`:442-447`). A retried response is kept after its body was closed, and copied when
every later candidate fails (`gateway.go:348`; `docs/API_DOCUMENTATION.md:508`; `LastAnswerIsRelayed` says
exactly when). An error in the form of an
event stream is charged, since `proxySSE` does not look at the status (`gateway.go:317`;
`docs/TESTING_AND_TROUBLESHOOTING.md:31`). The report of a call whose candidates all failed
dies with the request's context (`gateway.go:346`, `:353`), so a call nobody answered is charged.

*Relay.* A create whose envelope spells the key "Type" is reserved but cannot be rewritten: the
sender ends without a report and the call stays pending until maintenance charges it
(`gateway.go:673-676`). The first create's record names the first route's provider, whichever was
dialled (`:596`).

*Sessions.* A token that was rotated and is used again fails in `GetSession` (`auth.go:164`), so the
revocation of its family (`cache/store.go:201`) is only reached by a race, against
`docs/API_DOCUMENTATION.md:38`; `OneTokenPerFamily` holds all the same. A reset forgets a family that was
added between its two commands (`cache/store.go:269`, `:277`) and cannot find it at the next reset
either. If Redis fails after the new password was stored, the reset reports an error, the code is
spent, and the sessions of the old password live on (`auth.go:236`). A rotation
that looked for the mark of its family before a reset set it stores its token all the same
(`cache/store.go:217`): no refresh accepts it while the mark is there, but it expires a little later
than the mark.

*Keys and page.* A claim's secret is lost if its handler ends between the `UPDATE` and the answer.
The page's answers may arrive in the wrong order and leave an older list; a claim does not reset
`copied`, so a second secret is closed without a question. Before the first event is heard every
read begins with what comes from then on (`cache/store.go:339`): an event between two reads is
lost until the page reads its keys again. After that, a read takes 100 events of each stream
(`:344`), the student's first, and the id of the last one begins the next read of both: with
more than that waiting in the student's stream and a later event in the catalog's, the rest of the
student's is skipped. `NothingSkipped` says that this and the trimming (`:381-382`) are the only ways. A status whose
publication fails, or whose handler ends before it, is never told (`service.go:196`).

## 5. Proofs

Everything here is checked by `tlapm` from the assumptions in the modules alone:
`LedgerAssumption` (finitely many keys and calls, each key of a project, each call of a key with
a natural number of credits), `RoutesAssumption` (each binding has a model and a provider),
`GatewayAssumption` (a call has a candidate: `ServeHTTP` refuses it otherwise),
`RelayAssumption` (a connection may send a create), `KeysAssumption` (there is a key; nobody is none
of the handlers, no key none of the keys), `NoticesAssumption` (the bounds of the runs are numbers),
`SessionsAssumption` (no family is none of the requests), `CodesAssumption` (finitely many guesses, no code is none of the
sends, the limits are positive). Each component has a module of proofs; the lemmas about its
steps come first, one for each conjunct of the invariant, and the theorems last.

**The ledger** (`CreditLedgerProofs`). The inductive invariant is

    LedgerInv == TypeOK /\ BucketsMatchCalls /\ CubeMatchesCalls /\ PendingCallHasActiveKey
                 /\ PromptFollowsBilling /\ OpenBuckets /\ FreshSnapshot /\ MonthsRead
                 /\ WorkedBucketsFollow /\ WorkedBucketsCover /\ LiveQuotasFit

The conjuncts that are checked by no run are the strengthening. `OpenBuckets`: a call
is only ever in buckets that exist, no bucket of a project is of a later month than the one in
which its quota operations work (`Now`), and a bucket that does not exist counts nothing.
`MonthsRead`: that month is not to come. `FreshSnapshot`: what `EnsureCurrentBuckets` has read and
not yet written is still true of the buckets it may create, except in the projects of
`overtaken`, because others who change a quota create the bucket first, or wait for its
insertion. Without it the buckets do not follow the quotas by induction: `EnsureCommit` inserts old
values by right, and only the history says which of them are stale. `WorkedBucketsFollow` and
`WorkedBucketsCover` are `BucketsFollowQuotas` and `AllocationCovers` of the month `Now`, which at
midnight may still be the old one; where no operation is under way it is the current month, and where
one is, the new month has no bucket yet. `BucketsMatchCalls` is
what makes the guards of `Finalize` (`pending_milli >= $1`, whose row count is not read) always
true, so that no settlement is silently lost. The books are proved first (with the lemmas on sums
over a set with one element more, less or moved), the quotas on top.

Theorems: `LedgerInvariant`, `TypesHold`, `BooksHold`, `CubeHolds`,
`RevocationLeavesNothingPending`, `PromptsFollow`, `AllocationHolds`, `QuotasFit`,
`BucketsFollow`; and, from that invariant, `CallsSettleOnce`, `PastMonthsKeep` and
`LedgerKeepsPromise`, the refinement of `BillingPromise` (`CreditLedgerBilling`).

`OverageHolds`, in the same module, says that a bucket is over its quota by one call at most. It
needs two facts more: `UnclaimedUnused` (a key that was never claimed has no calls, so an
approval that sets a quota sets it of an empty bucket) and `OverByOne`, the property as a
statement about sums over sets of calls, which is what the steps are about. A reservation adds
the one call that may exceed the quota, to a bucket that was below it; a settlement moves or
removes a call; a change of a quota is refused below what is used. The property itself follows
from `OverByOne` and `BucketsMatchCalls`.

`CallsKeep`, there too, is the ledger's side of `CallContract` for every call: each step is, for
each call, a step of the contract or leaves the call and its worker alone. It needs that a worker is
born with its reservation (`WorkersServeCalls`). `SettlementStaysInReach` is the safety that
`EveryCallSettles` rests on, for any backlog and any batch: a pending call always has a lease,
which is live or makes it overdue (`LeasesFollowCalls`; a late `MarkSent` renews no settled call's
lease), and while a call is overdue `RecoverExpired`'s query has an answer.

**The routes** (`RouteReadinessProofs`). No invariant on the tables holds (section 4);
what holds is about the transactions: one that nobody overlapped *knows* what it has read.
`AloneKnows` says it for each query of each operation, and it is inductive because a query
changes no row and a commit overlaps all others. At its commit such a transaction has looked
at every active model it concerns: `ChecksSuffice`.

**A call** (`GatewayCallProofs`). `HandlerKnows` is the strengthening: while the handler is at
work its call is pending or charged, never released, since nobody but the handler releases it;
a pending one has a lease; nothing has been sent. `CandidatesKnown` says of the candidates before
the current one that each could not be asked or answered with something to be retried, and of those
behind it that they were not asked. From them `ServedIsCharged`, `AnswerIsTheLast`, `OneReply`,
`CallTypes` and the refinement `HandlerKeepsContract`.

**A connection** (`WebSocketRelayProofs`). `RelayInv` says who is at work (`PhasesInOrder`: a create
is in the hands of the handler before the relay starts and of the sender after that), what is
known of the calls (`CallsAreKnown`: the one in hand was admitted and nobody but the goroutine
that holds it releases it, and it is not released once it was served), and how many errors wait
in the channel (`ErrorsAreCounted`). From it `RelayTypesHold` and `ServedAreBilled`; `CreatesKeep`,
the contract for every create, in which a create that fails is given up or reported and its
successor is another worker; `NobodyWaits`: a goroutine that ends always finds room for its
error, because the channel holds as many as there are goroutines, whether or not the handler
is still there to take one; and `BothEndsAreClosed`: once the handler has returned, both connections
are closed, so that the goroutine it left behind fails at its next read or write. The last two are
the safety under `RelayIsTornDown`.

**A key** (`KeyProofs`). `KeyInv` adds to the properties what a handler in the middle of a
request relies on. `LocksAreReviews`: a row is locked by a review that is under way, and what it
found before the lock is still true when it commits. `TasksAreDecisions`: what a handler carries
from its first statement to its last is a decision of its kind. `SecretsAreClaimed` and
`HandedOnce`: a key has a secret from its claim on, and it is the claim's. `TellingIsTrue`: a
handler that is about to publish a status has committed it, and statuses only advance
(`Stage`). Theorems: `KeyInvariant`, `KeyTypesHold`, `DecidedOnce`, `QuotasFollowDecisions`,
`SecretIsOne`, `EventsAreTrue`.

**Its notices** (same module). `LifecycleIsKept` carries the key's invariants over to the composition:
a step of the page or the server leaves the keys alone, or is a step of `KeyLifecycle`.
`NothingIsSkipped` is an argument on a moment that never shows in the state: what the page *will*
have heard when it has read the next `n` ids of the pipe (`HeardAfter`, `LastAfter`). `PipeIsComplete`
says that after any number of them it has missed nothing up to its last id but what was trimmed or
left behind, so the connection may break anywhere; `ServerFollows`, that the server goes on from the
last id it has written. A batch keeps both since it holds the oldest events of each stream after its
beginning, in order (`OrderOfIds`: `InOrder`, written by the rank of each id so that it can be
reasoned about, is a bijection that increases; `OldestIds`: what a full part leaves out is later than
all it holds). What has been left behind stays explained when more is heard or trimmed
(`BehindStays`).
`PageIsHonest`: what the page shows, or is about to show, is a status the key had, and the secret on
it is the only one that was ever stored for its key. That it may show an *older* status is
section 4. Theorems: `NoticesInvariant`, `NothingIsSkipped`, `PageIsHonest`, `LifecycleIsKept`.

**Sessions** (`RefreshSessionsProofs`). `OneTokenPerFamily` is inductive with `TokensAreIssued` and
`FamiliesStartOnce`: a family has the name of the one login that starts it, and a token is only
stored while the one before it is watched. For the resets two conjuncts follow the list of a
user's families from where it is written to where it is used: `ListCovers` (a session no
reset has missed is on the list, and in what a reset in progress has read of it) and `ResetsHold`
(what a finished reset has not missed it has ended). A session that escapes is exactly one that was
stored behind a reset's read, which is `SurvivorsAreLate`. The other theorems are `SessionInvariant`,
`SessionTypes`, `OneTokenHolds` and `EndedForGood`, which is about families whose last token is
gone, by a logout or by expiry; one that is only marked keeps its token (section 4).

**Codes** (`VerificationCodesProofs`). `AttemptsGrow` (what a guess has read of a code that is still
there is no more than there is now) and `LockUnseen` (once a code is locked, nobody's reading of it
is up to date) are why a transaction that watched the key cannot be late. `CodesAreStored`: a code
that was accepted is gone, and its send will not store it again. `CooldownHeld`: while no mail has
outlasted its cooldown, one send at a time is between its cooldown and the end of its mail, so
what it takes back is its own. The count of wrong guesses (`CountStep`) is an argument on the
cardinality of a set that grows by the guess a step counts. Theorems: `CodesInvariant`, `CodeTypes`,
`CodeAcceptedOnce`, `GuessesCounted`, `LocksHold`, `MailedCodesStay`.

**Only model-checked**: `EveryCallSettles` and `RelayIsTornDown`, liveness under fairness, which is
outside what TLAPS proves; the safety they need is proved (above). Every invariant, action property
and refinement of the runs that pass is a theorem. The two runs that are violated refute their
property on the instance they name, so there is nothing to prove.

## 6. Not modelled, and why

*Of the components that are modelled.* Retention deletes and the heartbeat (no rule reads them),
read-only reports and the audits of reading them. Which side PostgreSQL aborts when
`EnsureCurrentBuckets` and a quota operation deadlock is not modelled, that either may be
aborted is. Frames of a WebSocket beyond the read limit, and protocol errors while both peers are
there, end a relay as the departure of a peer does and are no case of their own. Two events in one
millisecond, whose ids differ in their sequence number only. Requests for stored videos, which run the loop of `GatewayCall` without a reservation.
The user row that a registration inserts once its code was accepted: if the insertion fails the
code is spent and another one has to be sent. The invitations of teachers, which are read, used
and then deleted, so two activations of one invitation may both succeed; the later password
stays. In the page, everything but the keys, and the single-flight refresh of its access token.

*Components left out.* Request parsing and rewriting, response envelopes, mail, cryptography,
configuration, the catalog import and the model probe: conversions and I/O, with no order of
events of their own. Organizations, projects and memberships: forms that are one transaction
each, but for mentor applications (section 7). The arithmetic of credits: the models take credits as
natural numbers.

*Generated code.* Most of the implementation's lines are the client that `ent`
generates from the schema (`internal/infrastructure/db/ent`). It has no logic of its own beyond
building one statement from one call; the models contain the statements, where the calling code
makes them. The share of lines that `PROJECT.json` maps is a share of all of them.

## 7. Plan

Built: the ledger with its promise, the call and the relay with their contract, the routes, the
keys with their streams and page, the sessions, the codes. Left, in the order of their worth:

1. Mentor applications and memberships: an application that is made while another one of the
   same mentor is approved, which leaves a member with a pending application; two reviews at once.
2. Registration and invitations as users of `VerificationCodes`: an account for every accepted code,
   and an invitation used once.
3. Stored videos and the calls that come back for them (`VideoRoutes`); the arithmetic of credits as
   pure operators against a reference definition.
