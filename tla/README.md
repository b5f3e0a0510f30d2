# Verification of the job application server

TLA+ modules, TLC configurations and TLAPS proofs about
`job-application-system`: a Node.js server that finds roles for an applicant,
keeps a queue of applications, and tells chat sessions when they may press
Submit on an employer's form. The modules are written from the code under
`src/src/`; a line number below is a line of the named file.

The worst thing this program can do is to have one application sent twice, or
to have Submit pressed while nobody knows what became of the previous press. The
verification therefore starts at the queue (`chrome-queue.js`), and goes on to
the parts the queue relies on.

## 1. Inventory

| Component | State it keeps | Operations | Talks to |
| --- | --- | --- | --- |
| Application queue, `chrome-queue.js` | `applications` with `executionMode = chrome_session`, `attempts` | add, claim, review, startSubmission, checkpoint, resume, receipt, ownerReceipt, notSubmitted, validationError, takeover, skip, recover | store (every operation is a `mutate`), profile store (review, start, receipt), employer pages (receipt), search coordinator (`authorize`/`prepare` callbacks of add) |
| Application service, `service.js` | `opportunities`, employer status of applications | addOpportunity, markDiscoveryLeadExpired, recordEmployerStatus, reconcileInactivity, recover | store, queue |
| Application lifecycle, `application-lifecycle.js` | `lifecycle` of an application | automatic closing after 21 days, reopening by a reply | one-minute timer of `index.js` |
| External submissions, `external-submissions.js` | `ownerSubmission` of an application, applications of mode `external_owner` | record | store, handled roles |
| Search coordinator, `discovery/search-coordinator.js` | one search session per applicant: sources with a daily pass, worker leases, refill flag; preparation leases on pending applications | start, stop, control, claim, progress, finish, scan, enqueue, prepareClaim, prepareSave | store, discovery service, queue |
| Application drafts, `application-drafts.js`, `draft-feedback.js` | `preparation` of a pending application | save, context, review | store, profile store |
| Source quota, `discovery/source-quota.js` with `sqlite-store.js` 229-307 | per-source request and credit usage per window, holds | reserve, settle, hold, releaseStaleKeyHold | source adapters, several processes |
| Stores, `store.js`, `sqlite-store.js` | the whole state; for SQLite a revision number | mutate, snapshot | file system, SQLite |
| Idempotency, `idempotency.js` with `sqlite-store.js` 176-225 | one row per profile, action and key | reserve, complete, abort, wait | HTTP handlers |
| Discovery service, `discovery/*.js` | back-off and request-budget audit events, candidates | scan, query, consider | source adapters, quota, service |
| Account access and vault, `account-access.js`, `credential-vault.js` | encrypted credentials | status, store, get, update | file system, queue ownership |
| Profile store, `profile-store.js` | profiles | get, patch | file system |
| Evidence verification, `email-receipt.js`, `employer-negative-outcome.js`, `reviewed-fields.js`, `receipt-destination.js`, `legal-fields.js` | none | pure functions, one fetch | queue |
| Transport, `http.js`, `mcp.js`, `auth.js`, `config.js`, `index.js` | none | routing, authentication, startup | everything |
| Dashboard and tools | none | views, thin clients | HTTP |

What is hard in this code:

* *Awaits before transactions.* A mutation is atomic, but add, review, start,
  receipt, ownerReceipt, the search coordinator's scan and enqueue, and drafts
  read a snapshot, a profile or a page first and commit later.
* *Crashes.* The process may die after the permission to press Submit was given
  and before anything is known of the outcome.
* *Two pieces of state for one fact.* The attempts collection and the
  application record; the vault and its audit; memory and disk.
* *History from elsewhere.* Roles a retired server worker left half done, and
  roles the owner sent by hand, enter the same queue.
* *Leases and midnights.* Search leases expire while work is under way; caps,
  passes and quota windows turn over at midnight.
* *Several processes on one SQLite file*, which is what the revision check, the
  quota ledger and the idempotency rows are for.

What makes each component correct: the queue sends once, holds doubt, has one
current role and keeps its caps (section 3); the lifecycle closes only what is
silent and a reply always reopens it; the coordinator never gives one source to
two live leases and never queues past 30; the quota ledger never lets a window
be overspent; a mutation is atomic and never lost; a request with one key
executes once. `PROJECT.json` lists the hazards with their lines and the
properties that cover them.

## 2. Plan

| Order | Module | Contents | Status |
| --- | --- | --- | --- |
| 1 | `SubmissionProtocol`, `ChromeQueue`, `MCChromeQueue` | abstract protocol of one submission at a time; the queue; its runs | done |
| 2 | `ChromeQueueProofs`, `QueueHistoryProofs` | type correctness, inductive invariants, safety and step theorems, refinement of `SubmissionProtocol` | done |
| 3 | `SearchCoordinator`, `MCSearchCoordinator` | leases, daily pass, hysteresis 20/30 scaled down, scan and enqueue split at their awaits, preparation leases, the owner's direct add and the main session's claim | done |
| 4 | `AtomicStore`, `IdempotentRequests`, `MCIdempotentRequests` | the store as its callers see it; SqliteStore's mutate with two processes, the legacy import, keyed requests, crashes; refinement and liveness | done |
| 5 | `SourceQuota`, `MCSourceQuota` | reservations, clamped credits, settlement, pauses, pruning | done |
| 6 | `DiscoveredRoles`, `MCDiscoveredRoles` | what scans, verdicts and the owner's links store, from stale snapshots | done |
| 7 | `ScanRequests`, `MCScanRequests` | budgets, cache, queues and back-off of a scan's requests; liveness | done |
| 8 | `SentHistory`, `MCSentHistory` | LinkedIn reports, employer evidence, automatic closing and reopening | done |
| 9 | `SearchCoordinatorProofs`, `IdempotentRequestsProofs`, `SourceQuotaProofs`, `DiscoveredRolesProofs`, `ScanRequestsProofs`, `SentHistoryProofs` | an inductive invariant of each module, and its safety properties, step properties and refinement from it | done |

Every invariant, step property and refinement that a passing run checks is also
a theorem (section 12). The two liveness properties stay with TLC.

## 3. The queue

### Abstract protocol: `SubmissionProtocol`

For each role a phase (waiting, working, in doubt, confirmed, owner has sent,
dropped, abandoned), how many attempts were made and whether one arrived. An
attempt can only be made from "working"; from "in doubt" a role goes back to
"working" only if nothing arrived; what has arrived never goes away; attempts
are bounded. It says nothing of sessions, reviews, postings, caps or calls.

### Detailed model: `ChromeQueue`

| Variable | Code |
| --- | --- |
| `app` | the record in `state.applications` of each role; `status = "absent"` when there is none |
| `attempt` | `state.attempts`, one record per `attemptId` |
| `posting` | the stored opportunity, as far as `add` and the `opportunityAuthority` hash tell it apart: requested by the owner, still open |
| `profile` | the `authority` of the applicant's profile: which facts are current |
| `day` | the calendar day the caps compare |
| `request` | what an asynchronous call has read before its transaction |
| `up` | whether `recover` has run since the last start (`index.js` 10-26) |
| `employer` | what the employer did with each attempt. It is no state of the server: it is there so that properties can speak of what arrived |

Actions and code: `CommitAdd`/`BeginAdd` = add 79-130; `Claim` = claim 132-154;
`Checkpoint` = 164-178; `Resume` = 180-207; `BeginReview`/`CommitReview` =
209-253; `BeginStart`/`CommitStart` (with `Press`) = 255-283;
`BeginReceipt`/`CommitReceipt` = 285-343; `BeginOwnerReceipt`/
`CommitOwnerReceipt` = 345-418; `NotSubmitted` = 420-461; `ValidationError` =
463-488; `Takeover` = 490-505; `Skip` = 507-519; `Recover` = 521-538. Repeated
calls that return the stored result change nothing and are stuttering steps.
`Refuse` ends a call that changes nothing: stale, or refused for its evidence,
its legal fields or an unreadable page. `Crash` drops every call under way.

Every operation that is one `store.mutate` is one action: that the store makes it
atomic is what `IdempotentRequests` shows against `AtomicStore` (section 6).

Abstractions worth knowing:

* A session is the pair of `sessionId` and actor, which the code always compares
  together.
* The contents of a form are two possible previews (who presses Submit); a
  fingerprint is compared by comparing previews. "ten minutes" is a flag that
  expires at any moment.
* Evidence is truthful: evidence that passes verification about an attempt is
  given only of what the employer did with that attempt. A page saying Not
  Submitted, or a form showing a validation error, means that attempt did not
  arrive. Forged or mistaken evidence is outside the model. Simulated receipts
  are refused by the code.
* A retired worker's record is one of the combinations that worker could leave:
  `LegacyApplications` says which, and `legacySent` whether its Submit arrived.
  A worker that sent left one of the traces `add` looks for. Its reserved or
  approved but never consumed decisions count against the caps in the code; here
  no role has one.
* The owner may also press Submit without telling the queue. Such sends are not
  the queue's and are not counted in `NoDuplicateSubmission`.
* The cap of one mode is not reached in any run (the global one is); the caps are
  constants, the code reads them from the profile at each start.
* `fieldEvidence`, answers, checkpoints, resolutions and audit events are
  written and never read back by a guard; they are left out.

Definitions commented "Defect:" are plausible mistakes in the definition below
them (a forgotten re-check, one retry too many, a missing hold). They are used
by nothing; `PROJECT.json` pairs each with the property that notices it when it
takes the place of the real definition.

### Runs

| Run (cfg) | Instance | Question | Properties |
| --- | --- | --- | --- |
| `one_role` (OneRole) | 1 role, 2 sessions, 4 attempts, both previews, both kinds of checkpoint | one role through its whole life: start, checkpoint, takeover, crash, archive and retry up to the limit | TypeOK, DoubtIsHeld, LedgerAgrees, FinishedStaysFinished, SubmitByOwningSession, ImplementsProtocol |
| `overlapping_calls` (OverlappingCalls) | 1 role, 2 calls under way at once, 2 attempts, 2 profiles, 2 previews, a posting that changes | may calls that passed their first look do harm in their transactions, and is Submit permitted only under the facts that were reviewed? | NoDuplicateSubmission, SubmitUnderReviewedFacts |
| `two_roles` (TwoRoles) | 2 roles, one in every state a worker may have left, 2 days, cap 1 | one current role, first in first out, caps over midnight, recovery and adoption of uncertain history | OneCurrentApplication, DailyCaps, SendsAreAccountedFor, QueueOrder |
| `owner_report` (OwnerReport) | 1 role the owner reported | finding, section 10 | OwnerReportIsKept (violated) |

Bounds. `Attempts` bounds the attempts ever made; four are one more than the
first try and two retries the code allows, so exceeding the limit is possible
in the instance and noticed by `ImplementsProtocol`. Two sessions are enough for a takeover by another
session; two callers for two overlapping calls, since each transaction reads
only the current state and what its own call read. Two days let an attempt start
on one and be confirmed on the next. `MaxDay`, `Attempts` and the one-way posting
change in `Republished` are the only bounds; deadlock is checked in every run.

Fairness. None is assumed and no liveness is claimed: the queue is passive, it
advances only when a session or the owner calls it ("it never starts application
forms or advances the queue after an owner blocker", `docs/architecture.md` 13),
and no call is obliged to come.

### What the properties say

* `NoDuplicateSubmission`: at most one send of a role ever arrives, whatever
  crashes, takeovers, stale calls and retries happen.
* `DoubtIsHeld`: a role whose outcome is unknown is held or finished.
* `LedgerAgrees`: attempts collection and application record tell one story.
* `OneCurrentApplication`, `QueueOrder`, `DailyCaps`: the queue's discipline.
* `FinishedStaysFinished`: calls that read a role before it finished change
  nothing in it afterwards.
* `SubmitByOwningSession`, `SubmitUnderReviewedFacts`: whose review, and of which
  facts, a permission to press Submit rests on. The profile is the one the call
  read before its transaction (256): an edit between that read and the
  transaction is not noticed, and the property does not claim it is.
* `SendsAreAccountedFor`: the inductive invariant of section 12.
* `ImplementsProtocol`: the whole queue is an implementation of
  `SubmissionProtocol`.

## 4. The search coordinator

`SearchCoordinator` models the search of one applicant: one session with its plan
of ranked sources, the leases its workers hold, and the roles that are pending.

| Variable | Code |
| --- | --- |
| `today` | `dayAt(clock())`, the calendar day in Europe/Sofia |
| `profile` | the applicant's facts, `draftProfileFingerprint` of them |
| `session` | the applicant's entry of `state.searchSessions`: its main session, `active`, `day`, `buffer.refilling` |
| `source` | `session.sources`: status, cursor, reason, poor pages, lease |
| `pending` | the pending applications in order of `queuePosition` |
| `role` | whether a role has an application, its `preparation` and `preparationLease` |
| `request` | what scan, enqueue, prepareClaim and prepareSave have read before they commit |
| `granted` | every lease given, in order: the `claimed` audit entries, and for preparation leases the lease record itself. An id is a place in it |
| `delivered` | the lease under which a scan's result was last handed over; read only by a property |

Actions and code: `Start` = start 85-115; `Look` = control 79-84 and every
repeated call whose only effect is the refresh; `Claim` = 116-131; `Progress` =
132-150; `Finish` = 151-164; `Stop` = 165-174; `BeginScan`/`EndScan` = 175-184;
`BeginEnqueue`/`ReadFacts`/`CommitEnqueue` = 185-205;
`BeginPrepareClaim`/`CommitPrepareClaim` = 206-224;
`BeginPrepareSave`/`CommitPrepareSave` = 225-238. `Leave` is the refresh of the day,
of expired leases and of the refill flag that every transaction of the active
session makes (27-59). A call that throws changes nothing, since `mutate` drops
its draft: `Refuse`, which also stands for a failing source, a candidate that is not
ready, a draft that does not fit its posting, and a process that stops. What is
stored survives a restart, and the calls under way end.

Abstractions worth knowing:

* Twenty minutes are a step: a lease may expire at any moment it has not been
  given back.
* A main session is the pair of `sessionId` and actor. A preparation lease stores
  the `sessionId` only; a search is taken over only after a stop, which drops the
  leases of pending roles.
* Cursor and reason of a source are known by the lease under which they were
  written. The counters of reviewed, strong and duplicate results are left out; of
  poor pages in a row only "two or more" is told apart.
* A draft is known by the facts it was written from. The posting in its
  fingerprint is left out: a posting does not change here.
* The second look of scan reads three snapshots one after the other without an
  await between them (181-182); that is one step.
* The queue is reduced to what is pending: the owner adds roles, the main session
  takes the first. A role in the queue is not enqueued again, and enqueueing a role
  of a retired worker, which adopts it, is left to `ChromeQueue`.

### Runs

| Run (cfg) | Instance | Question | Properties |
| --- | --- | --- | --- |
| `search_leases` (SearchLeases) | 2 sources, 2 workers, 2 main sessions, 1 call, 2 leases, 2 days, 2 profiles | is a source lent once at a time, and is stale work kept out, over expiry, stop, takeover and midnight? | OneLeasePerWorker, TodaysPass, NoOverlap, StaleWorkersAreFenced |
| `draft_buffer` (DraftBuffer) | 1 source, 2 workers, 3 roles, 2 calls, 2 leases, watermarks 0 and 2 | can workers that passed their first look cross the high watermark together or with the owner, and whom do preparation leases and drafts belong to after a stop, an expiry or a claim? | PreparationLeases, TakenDraftsAreKept, RefillCycles |

Bounds. `MaxLeases` bounds the leases ever given: two are enough for a lease and
the one that replaces it, or for one of each worker. `MaxDay = 1` is one midnight, and a
lease across it. The watermarks 20 and 30 become 0 and 2: between them lies one
count where the flag remembers how it was reached, as 21 to 29 in the code, and
with three roles two workers and the owner can push against the upper one. `Ops`,
`Pages` and `Outcomes` choose which calls a run makes, so that each run spends its states
on its question; together the runs make all of them. The two sources are ranked,
so they are not symmetric; everything else is. Deadlock is checked. No fairness is
assumed: workers may stop at any time, and nothing obliges them to go on.

### What the properties say

* `NoOverlap`: a source is given to a worker only when the lease before it was
  released or has expired, across the daily reset too (35).
* `StaleWorkersAreFenced`: no append and no scan result on a lease whose source
  has meanwhile been given to somebody, or in a search that has ended or changed
  hands.
* `TodaysPass`: cursor and outcome of the pass come from a lease of that day, that
  source and that search.
* `OneLeasePerWorker`: a claim is idempotent per worker.
* `RefillCycles`: workers never make the queue longer than the high watermark, and
  append only in a cycle that began at the low one. The owner may.
* `PreparationLeases`: every live preparation lease of a pending role is of the
  running search, one per worker.
* `TakenDraftsAreKept`: once the main session has taken a role, no worker
  replaces its draft.

## 5. The ledger of keyed providers

`SourceQuota` models one provider (JobsPipe, metered in requests per second and
credits per month, or Adzuna, metered in requests per minute and per day) and the
searches that spend its allowance, by scans of one process or several.

| Variable | Code |
| --- | --- |
| `usage` | table `source_quota_usage`: for each window the amount used by window start |
| `hold` | table `source_quota_holds`: reason, key fingerprint and end of a pause |
| `clock`, `key` | `Date.now()` in ticks; the API key in the environment |
| `call` | where each search is in its page loop: pages done, waits for the paced window, its reservation, its answer |
| `spent`, `paused` | history, read by properties only: what the provider was really asked for, and the latest end of a pause under this key |

Actions and code: `BeginSearch` and `ReleaseStaleHold` = source-quota.js 156-165
with sqlite-store.js 287-289; `ReserveCredits` = 135-145 over sqlite-store.js
229-266; `NextTerm`/`NextPage` = the loops of adzuna.js and jobspipe.js;
`BudgetExhausted` and `ReserveRequest` = `keyedFetch` in discovery/service.js
463-501; `ProviderAnswers` is the provider; `HandleAnswer` = settle and hold with
the adapters' error paths; `SettlementFails` = a busy database there; `Restart`
forgets the searches and may change the key; `Tick` moves the clock. Each store
operation is one transaction, and others come between any two.

Run `provider_quota`: 2 searches, 2 keys, windows of 1 and 2 ticks, allowances of 1
to 3, pages of at most 2 credits, a clock of 3 values. Pages of two credits against
an allowance of three make the last page a clamped one; two searches make the
race for it; three clock values let an answer come after the window of its
reservation has been pruned. `MaxClock` is the bound; deadlock is checked.

* `AllowanceKept`: the provider is never asked for more than a window's allowance.
* `LedgerCovers`: what the ledger shows used covers what was sent and what is
  reserved, so that no settlement gives back what was billed.
* `PausesLast`: nothing is granted before the latest end of the pauses written.

`Lag` is how far a transaction may commit behind the clock its caller read.
`source-quota.js` reads the clock before it opens the transaction; within one
process the two are adjacent and `Lag = 0` is exact. With two processes on one file
a delayed transaction can commit in an older window after a newer one was charged,
delete the newer row (sqlite-store.js 238-242) and let that window be overspent: with
`Lag = 1` TLC finds it, against the comment at source-quota.js 76-78. The run
assumes `Lag = 0`.

## 6. Requests and the store

`AtomicStore` states what callers of the store rely on, and what sections 3, 4, 7
and 9 use when they make a mutation one action: each mutation takes effect at once,
none is lost under another, and the retired JSON file is imported once, into an
empty store. `IdempotentRequests` is the code: `SqliteStore.mutate` with its read,
its handler, its revision check and its retries; the idempotency rows; process starts.

| Variable | Code |
| --- | --- |
| `rows`, `revision`, `marker` | the tables of records, `state_revision`, and the import marker in `runtime_metadata` |
| `file` | the JSON file of the retired store |
| `record` | `idempotency_records` by key |
| `up`, `chain` | which processes run, and the promise chain of mutations of each |
| `req` | each request: where it is, what it read, how often it ran, whose execution it shares, its answer |
| `lost` | history: keys of executions whose completion could not be written |

Actions and code: `ArriveKeyed` = idempotency.js 12-43 with sqlite-store.js 176-198;
`ArriveUnkeyed` = http.js 30-38 without a key; `Read`, `Commit`, `Rerun`,
`MutationFails` = `mutate` 334-368; `Complete`, `CompletionFails`, `Abort`,
`AbortFails` = the end of `runIdempotent`; `Poll`, `Deadline` = `waitForCompletion`;
`Start` = storage.js 10-37; `Crash`, `PlaceFile` = the world. The records are
abstracted to a count of executions per request and the imported ones.

Run `idempotent_requests`: 2 processes, 3 requests under one key (one with other
data) and one without, 2 runs of a handler (20 in the code), 1 crash, every state of
the JSON file. Two runs are the least for a lost race and for giving up; one
crash with four requests leaves a repeat for the key of the dead process. Deadlock
checking is off: all requests end.

* `ImplementsStore`: `IdempotentRequests` implements `AtomicStore`.
* `OneExecution`: at most one request executes under a key, over both processes.
* `SameAnswer`: all that are answered under a key get one stored answer, of an
  execution of the same data.
* `AppliedOnce`: a keyed request takes effect once, however often it is repeated,
  unless its completion could not be written. The code then frees the key and a
  retry executes again; the property names that exception (`lost`).
* `EveryRequestEnds`: every accepted request is answered, fails or is lost with its
  process.

Fairness: one weak fairness per request for what its process does for it. Handlers
return since their fetches have deadlines, SQLite answers or fails within its busy
timeout, and timers fire. Nothing obliges a request to arrive, or a process to
start or die. A key whose process died while it executed stays reserved for ever
(idempotency.js 26): each repetition waits 30 seconds and fails, which the
property allows; freeing the key at the next start would break `AppliedOnce`.

## 7. Discovered roles

`DiscoveredRoles` models the stored leads of one profile and who writes them.

| Variable | Code |
| --- | --- |
| `lead`, `first` | `state.opportunities`: state, pending and verified flags, version of the posting stored, verdict, age; and which lead of a role comes first in the collection |
| `app`, `receipts` | applications by lead, and receipts whose `finalUrl` is the employer's posting |
| `text` | the posting as its employer shows it |
| `scan`, `review` | scans and verdicts under way: the snapshot they decide by and the candidate they will save |
| `fetched` | history: postings the server itself has read |

Actions and code: `ScanBegins`, `ScanExpires`, `ScanResolves`, `ScanSaves` =
discovery/service.js 358-1047 around its awaits; `ReviewBegins`, `ReviewResolves`,
`ReviewSaves`, `ReviewApplies` = `considerCandidate` 208-309; `AddOpportunity` =
service.js 90-231 (match, promote, verdict or insert, one transaction);
`MarkExpired` = 233-245; `PostLead`, `OwnerApplies` = http.js 204-239; `Finish` = the
queue's outcomes; `EditPosting`, `LeadAges` = the world.

A role has two names, the board's link and the employer's; listings come from the
employer's feed, from an aggregator or from a keyed provider. Scores, preferences and
quality thresholds are a choice to drop a listing. Left out: the two sources whose
links redirect, review-only scans and `filterCandidates`, which save nothing.
Text of a candidate a client posts is taken as the posting's; its flags are free.

Run `discovered_roles`: 1 role under both names, 2 scans and 1 verdict under way, 3
calls in all, 2 versions of the posting, with and without a lead an earlier release
closed. Three calls let a scan begin, another call settle the role, and the first
save. `MaxCalls` and `Texts` are the bounds; the run stops at them, so deadlock
checking is off. No fairness, no liveness.

* `ReadyWasVerified`: a lead is ready only under the employer's link and with words
  the server read there itself.
* `SettledRolesStay`: what is applied for or was sent keeps words, verdict and state
  whatever an older scan or verdict brings back.
* `ExpiredLeads`: only an old pending lead nobody applied for expires, and only a
  verified posting brings it back.
* `ReceiptCoversRole`: once a receipt ends on the employer's posting, no second lead
  is stored for the role.

## 8. Requests of a scan

`ScanRequests` models what a scan sends: fetches of adapters that run side by
side, then verifications one after the other.

| Variable | Code |
| --- | --- |
| `scan` | phase, planned fetches, `requestCount`, `requestsBySource`, blocked platforms, back-offs to record |
| `task` | each fetch: where it is, whom it waits for, its try |
| `cache`, `tail` | `fetchCache` and `pacedOriginQueues` |
| `backoff`, `log` | the audit events of back-off and of list requests to learned boards |
| `sent`, `listed` | history: requests that left, and lists of learned boards among them |

Actions and code, all in discovery/service.js unless said: `ScanBegins` with
`Planned` = 358-417 and learned-boards.js 37-106; `CallDirectly`, `CallPaced`,
`Turn`, `Pace` = 484-560; `Reserve`, `Send` = 506-532 with learned-boards.js 10-32;
`AskLedger` = 463-483; `Answer`, `TryAgain` = official-ats.js 53-73;
`AdaptersReturn`, `VerificationBegins`, `ScanEnds` = the phases; `RecordBackoff` =
61-74; `TimePasses` ends back-offs and days. Left out: the length of the pace, and
the last-resort verification of keyed listings. A verification on Ashby asks for the
board's list but is not counted as a list request, as in the code.

Run `scan_requests`: one scan with five fetches (a learned board, a configured one
twice, a keyed provider, a verification on the same platform) and one of the learned
board alone, budgets of 2 and one list a day. So two scans race for the day, two
fetches share an answer, three queue for one platform and the budget runs out.
Each scan is made once; then nothing happens, so deadlock checking is off.

* `RequestsAreCounted`: the budgets count exactly what was sent or holds a slot.
* `LearnedBoardDaily`: no learned board is listed more often a day than allowed, and
  each list was recorded before it left.
* `BlockedOriginStops`: after a 403 or 429 nothing queued leaves for that platform.
* `EveryScanEnds`: a scan that begins ends, whatever fails.

Fairness: for each scan, weak fairness of the steps of its fetches together and of
its phases. Fetches carry deadlines (`AbortSignal.timeout`), timers fire, and a
transaction comes back; a fetch has few steps, so the fetches of a scan cannot
keep one of them waiting for ever, and weak fairness per fetch is not needed.

## 9. The history of sends

`SentHistory` models what is known of applications that were sent.

| Variable | Code |
| --- | --- |
| `opening` | the opportunities in order, by the identity of their links |
| `app` | the applications in order: kind, status, receipt, `ownerSubmission`, evidence by `recordKey`, last employer status, `lastEmployerFollowupAt`, `lifecycle` |
| `waiting` | times `reconcileInactivity` has read and not yet used |
| `now`, `mails` | the day; how many mails were recorded (a bound) |
| `heard` | history: meaningful replies recorded |

Actions and code: `RecordSend` = external-submissions.js 30-111 for a new
`recordKey`; `ResolveIdentity` = 52-81, a link that comes later;
`RecordEmployerStatus` = service.js 293-349; `ReconcileReads` and
`ReconcileInactivity` = 353-374 around the gap between the clock and the
transaction; `InactivityDeadline` = application-lifecycle.js 10-19; `QueueAdds`,
`QueueSubmits` are the queue, reduced. All openings have one company and title, the
hard case for identity. A role the system knows is not added again: that is
`ChromeQueue`'s business. A mail is named by status and day; none is dated in the
future.

Run `sent_history`: 1 opening with a link, 2 records, 3 statuses, 2 mails, 3 days, a
waiting period of one. Two records are a report and its repetition in another form;
three days are the send, the wait and the closing. With two openings and one
mail TLC passes too (about a million states). The calendar ends: deadlock checking is off.
No fairness: closing needs a running server, and nothing claims when it comes.

* `ClosedWereSilent`: an application is closed only if no meaningful reply to it is
  younger than the waiting period, though closing goes by an older clock.
* `ReportsCountOnce`: reports never make a role count as sent twice.
* `QueueHistoryKept`: reports never change what the queue did itself.

Run `lost_report` (2 openings, no mails): finding, section 10.

## 10. Findings

*A reported role is sent again.* `add` keeps an existing application of another
execution mode only when its status is `submitted`, `skipped` or `rejected`
(chrome-queue.js 102). An application of mode `external_owner` that the owner reported
as sent through LinkedIn has status `owner_reported_submitted`
(`external-submissions.js` 99-100), which `chrome-queue.js` 13 itself counts as
terminal; adding its link again makes it `pending`, and a session may claim and
submit it. `commands.md` 9 says "Repeated links return the existing application."
Run `owner_report` shows the step.

*A report is lost under another.* `record` resolves the link of a confirmation held
by an imported application whether or not that application already stands for
another opening (`external-submissions.js` 61-77). A report with link r1, a second
without a link, held tentatively by the same application (103), then the second's
link r2: lines 74-77 give the application the link and date of the second, and
nothing counts as sent for r1 any more. Line 88 says "Never replace its original send
date or receipt", and `skills/job-application/references/external-submissions.md` 28
"Exact job URL identities merge with existing history without moving its original
receipt date." Run `lost_report` shows the three steps.

Met while modelling, and not stated by a run:

* two processes may overspend a quota window (section 5, `Lag = 1`);
* a role that is pending in the queue when the owner reports it as sent stays pending
  and can be sent again (external-submissions.js 104 changes no status);
* an `application_received` mail recorded after an interview replaces it as the last
  employer status (service.js 317-330), and the application can then be closed for
  silence, although docs/agent-led-workflow.md protects interviews;
* when both leads of a role are stored before the receipt that relates them, nothing
  stops an application to the second (openspec/changes/
  restore-discovery-coverage-and-pilot-accounting/specs/source-query-discovery/spec.md
  81 and 93 say otherwise); `relatedApplicationRole` and `handledRoleIndex`, which
  could, are used by nothing;
* a scan with an old snapshot can make a role ready that was reviewed irrelevant
  meanwhile (service.js 137-145 does not look at the verdict);
* a meaningful reply older than the waiting period reopens a closed application,
  and the next tick closes it again.

## 11. Properties and runs

Each property of a passing run is paired in `PROJECT.json` with a definition marked
"Defect:", a plausible mistake in the definition below it, under which TLC finds the
property violated. `TypeOK` of `SearchCoordinator`, `DiscoveredRoles`, `ScanRequests`
and `SentHistory` is defined in the modules and proved (section 12), but is not part
of a run; no run needs more than two minutes.

## 12. Proofs

One module of proofs stands beside each model; the queue has two. Each proves an
inductive invariant (initial states satisfy it, every step and every stutter keeps
it), and from it what the runs check, for every value of the constants that the
module's assumptions allow: any number of roles, sessions, workers, processes,
requests and scans.

| Module | Inductive invariant | Theorems about what the runs check |
| --- | --- | --- |
| `ChromeQueueProofs` | `SendsAreAccountedFor` | `TypeCorrect`, `SendsAccounted`, `OneCurrent`, `DoubtHeld`, `NeverSentTwice` |
| `QueueHistoryProofs` | `HistoryAgrees` | `LedgerKept`, `FinishedKept`, `FirstInFirstOut`, `SubmitIsOwned`, `SubmitIsReviewed`, `CapsKept`, `QueueImplementsProtocol` |
| `SearchCoordinatorProofs` | `SearchKept` | `WorkersDoNotOverlap`, `PassesAreOfTheirDay`, `PreparationsAreOfTheSearch`, `SourcesDoNotOverlap`, `StaleWorkersStop`, `RefillsAreBounded`, `TakenDraftsStay` |
| `IdempotentRequestsProofs` | `RequestsKept` | `TypesAreKept`, `ExecutesAlone`, `AnswersAgree`, `TakesEffectOnce`, `StoreIsAtomic` |
| `SourceQuotaProofs` | `QuotaKept`, and `LedgerKept` for `Lag = 0` | `TypesAreKept`, `PausesAreKept`; for `Lag = 0` `AllowanceIsKept`, `LedgerCoversItsSearches` |
| `DiscoveredRolesProofs` | `RolesKept` | `ReadyIsVerified`, `SettledRolesAreKept`, `ExpiredLeadsComeBackVerified`, `ReceiptStandsForItsRole` |
| `ScanRequestsProofs` | `RequestsKept` | `BudgetsAreKept`, `LearnedBoardsAreSpared`, `RefusedPlatformsAreLeftAlone` |
| `SentHistoryProofs` | `HistoryKept` | `SilenceIsReal`, `ReportsKeepTheQueuesHistory`, `RolesCountOnce` |

`PROJECT.json` says which property each theorem states. `TypeOK` is proved of
every model, also of the four whose runs do not check it.

### Assumptions

Most conjuncts of the assumptions say that the sets are what their comments say:
special values are not elements of them, limits are numbers, subsets lie where they
should. Finiteness is assumed only of what is counted (the roles of the queue, the
searches of a provider, the fetches of a scan). Three are about the code:

* `Lag = 0` is a hypothesis of the ledger theorems of `SourceQuota`, because
  with a lag they are false (section 5). `PausesAreKept` does not need it.
* `PlatformAssumption` of `ScanRequests`: a URL of an employer's platform is fetched
  only by calls that keep the platform's pace. Each such adapter and every
  verification is handed `pacedOfficialFetch` (discovery/service.js 570-572, 740,
  771), and no other adapter asks those platforms. Without it a second caller
  could share, by the cache, an answer that never stood in the platform's line.
* `SearchCoordinatorAssumption`: the low watermark is below the high one, as 20
  is below 30.

### Sends: `SendsAreAccountedFor`

`NoDuplicateSubmission` alone is not inductive: from a state where a role is
workable although an earlier attempt of it is undecided, a second attempt is
one step away. `SendsAreAccountedFor` closes the gap. Beside typing and
`OneCurrentApplication` it says of every role

* before the queue owns it: no work of the queue is recorded in it, and a send of
  the retired worker is visible to recovery and to `add` (`WorkerSendIsVisible`);
* while the queue owns it: an open final action means a status from which
  nothing can be started; a send of the worker means a hold; a hold means no final
  action, no review and a status in which nothing can be started;
* every archived attempt is known to be rejected, and every attempt of the role
  is the final action or archived.

So a new attempt is recorded only when there is no hold, hence no worker's send,
and no final action, hence every earlier attempt is archived and rejected. The
proof has one lemma per group of actions: steps that leave the applications
alone, steps that change one record of a role that is not worked on, claims,
outcomes. `OneCurrentApplication` is part of the invariant because a claim looks
for other active roles and every other step keeps the active role the same.

### The queue's records: `HistoryAgrees`

A lemma per operation says what it does to the one record it replaces (`Carries`,
or one of the few operations that do more), and every later proof goes by these
kinds of step (`StepKinds`) and not by the operations. `HistoryAgrees` adds to the
invariant above: positions of owned roles differ; a role that looks sent has a
recorded attempt, and its receipt names an attempt that arrived; each attempt's
status is what the record of its role says; and evidence a call verified before
its transaction is still true in it, since what an employer decided is decided.
The last is what lets `receipt` commit on what it read before.

`CapsKept` follows by counting: the other roles started on a day are among those the
guard counts, archived attempts included, so one more stays within a cap that
was not reached. For the refinement,
`PhaseOf` maps each record to the protocol's phase; a carrying step keeps every phase
or moves one role along the protocol, an archived attempt takes a role back from
"in doubt" only when the employer rejected it, and the number of archived attempts
bounds the protocol's tries by `RetryLimit + 1`.

### The search: `SearchKept`

A lease is compared with the history of leases given. While a lease lives nobody
was given its source after it, so a claim finds a source free only when the lease
before was released or has expired; what is written of a pass names a lease
of that source, search and day, since the daily reset clears both. Preparations
need the same of the running search, and that a role is in the queue at most once;
`Stop` drops the preparation leases of pending roles, which makes a takeover safe. Calls keep
only that what they read names things that exist; everything else they look
up again in their transaction.

### Requests: `RequestsKept`

Three things make `AppliedOnce` inductive: what a handler read is what is stored as
long as the revision is the same (so a commit adds exactly one effect); a request
that executes holds its key alone; and once a request has taken effect its key
stays reserved, or completed by it, unless its completion was lost. `StoreIsAtomic`
maps the stored records to the atomic store: a commit is a mutation of it, the
import at a start is its import, and every other step leaves them alone.

### The ledger: `QuotaKept` and `LedgerKept`

That a window is not overspent takes a sum over the searches: in the current window
the row covers what was sent and what is owed (`CoverKept`), and in every window,
pruned rows included, what was sent and is still reserved is within the limit
(`BackingKept`), because rows disappear while answers may still bill them. No
window is used ahead of its time, so a fresh row starts from nothing. Sums are
cardinalities of sets of single credits (`Total`), about which a few
lemmas are enough. Pauses need less: while a pause of another key stands nobody
asks, so the pause a search lifts was never written under this key.

### Leads: `RolesKept`

The invariant is about calls under way: whatever a scan or a verdict is about to
save, if the server vouches for its words then they are words of the employer's
posting that it has read. A snapshot of any age is therefore harmless. What may
happen to a stored or a new lead is one condition (`Kept`, `Added`) that each action
is shown to meet; the step properties are read off it.

### Requests of a scan: `RequestsKept`

`BlockedOriginStops` needs to know that only the head of a platform's line is sent.
So the invariant says that the fetches in a line have an order in which each waits
for the one before it and the tail is the last (`LineKept`, an existential rank);
that a fetch waits only for one under way (`WaitsKept`); that the cache holds what is
on its way or answered and nothing that waits in line (`CacheKept`); and that a
refusal is remembered before the next fetch has its turn (`BlocksKept`). The budgets
count the set of slots, of fetches that wait to be sent and of requests sent
(`SlotsKept`), and each request is of a try that was made (`SentKept`), so no slot
counts twice. Scans meet only in the log of list requests, which is recorded
before the request leaves (`DayKept`); hence the rest is proved of the values of
one scan and carried over to all of them.

### The history of sends: `HistoryKept`

`ClosedWereSilent` relates three clocks: the days of the mails, the time a closing
has read, and the calendar. No reply recorded is younger than the follow-up its
application shows, whatever order mails come in, and no closing reads a time ahead
of the calendar; so what is closed by its follow-up is silent. That roles count
once is shown action by action: the applications that count for a role after a step
are among those that counted before, unless none did or the step is a receipt
of the queue (`CountsNoMore`).

### What proving changed in the models

* `PhaseOf` of `ChromeQueue` had `CASE` guards that overlapped; the alternatives are
  disjoint now.
* `AppliedOnce` and `Outstanding` spoke of sums by folds, about which nothing can be
  proved without induction over data. They speak of single effects and of a
  cardinality now, and mean the same.
* The types of `TypeOK` are full: an invariant that left out a field's range was
  not inductive.
* `PlatformAssumption` was implicit in the instances.

### What stays with TLC

`EveryRequestEnds` and `EveryScanEnds`: liveness under fairness, and `ENABLED`, are
out of the prover's reach. The two violations of section 10 are shown by TLC. No
module uses RECURSIVE.

## 13. Not modelled

* Scoring, normalisation and matching of free text: heuristics without state. Their
  result is a choice in `DiscoveredRoles`.
* Source adapters beyond their requests, retries and use of the ledger: parsing of
  third-party feeds.
* Account access and the credential vault: two calls around an external vault; what
  could go wrong is visible only there.
* `JsonStore`: kept for files of the retired format. The server runs on SQLite, and
  the import of such a file is in `IdempotentRequests`.
* Review, use and correction of drafts by the main session, and the comparison of
  wordings in `draft-feedback.js`. What workers save is in `SearchCoordinator`.
* Transport, authentication and configuration, except startup, recovery and keyed
  requests; parsing of e-mails and pages; dashboard and tools, except what counts as
  sent (`ownerSubmissionSentAt`).

Every component with its status and reason is in `PROJECT.json`, and so is every
hazard, with the properties about it or the reason why there is none.
