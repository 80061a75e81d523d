# tool_social in TLA+

tool_social schedules posts and publishes them to Facebook, Instagram, Pinterest,
TikTok and YouTube. A NestJS API writes rows to Postgres and jobs to BullMQ queues in
Redis; worker processes take the jobs and call the platforms; a Next.js front end calls
the API. This directory models the program's own logic, states what it guarantees,
checks that on small instances (TLC) and proves the most important parts for every
instance (TLAPS).

Paths are relative to the repository. Short names: `publish-post.ts` is
`apps/worker/src/processors/publish-post.ts`, `posts.service.ts` is
`apps/api/src/modules/posts/posts.service.ts`.

    tlc -workers 2 -config MCPublishWorker_contended.cfg MCPublishWorker.tla
    tlapm PublishWorker_proofs.tla

`PROJECT.json` names, for every definition that models code, the lines it models; it
lists the components, the runs, the theorems, the hazards, and for each property a
plausible mistake in the code (a *Mutant* operator beside the definition it changes)
that the property catches.

## 1. The system

### Components

| Component | State | Operations | What makes it correct |
|---|---|---|---|
| Post status rules (`packages/shared/src/post-status.ts`) | none | derive a content post's status from its platform posts | the derivation follows the documented rule; a withdrawn child never blocks its parent |
| Error policy (`apps/worker/src/queue/error-policy.ts`) | none | what a failed attempt leads to | a fatal error ends the job at once, any other one after the last attempt |
| Job lock (`queue/job-lock.ts`) | a Redis key with a token and an expiry; per call a heartbeat and `lockOwned` | acquire, extend, release, withLock | one owner at a time; a dead owner's key goes away |
| Publish worker (`publish-post.ts`) | `PlatformPost`, `ContentPost`, `SocialAccount`, `BackgroundJob`; the job | lock, load, mark, prepare, fence, publish, record, derive the parent, end the job | published at most once; PUBLISHED is final; every post and job comes to an end; the parent follows its children |
| Reconciliation (`reconciliation.processor.ts`) | attempts, `requiresManualReview` | ask the platform about an unknown outcome | the post ends up as what the platform has, or a person is asked |
| Queues (`packages/shared/src/queues.ts`, `queue-options.ts`) | BullMQ jobs with fixed ids | attempts, delay, redelivery | a job is not lost and not run more often than configured |
| Posts API (`posts.service.ts`) | the same rows and jobs | create, edit, publish now, schedule, retry, cancel, delete, the sweep | a queued post has a job; a withdrawn or published one does not go out again |
| Scheduled post scanner | `PostSchedule` | re-enqueue due posts | a scheduled post goes out |
| Token refresh (six implementations) | the token row, a 15 s lock | refresh, connect, test, disconnect | a good connection survives, a disconnected one stays so |
| Comments | `Comment`, `CommentReply` | send, reply, moderate, remove, import | a message is sent once; what was removed stays removed |
| Webhook intake | `WebhookEvent` | store, enqueue, process | an accepted event is processed |
| Imports and metrics (`sync-*.ts`) | imported posts, cursors, snapshots | import, read numbers, sum | nothing is left out, nothing is invented |
| Media library | `MediaAsset`, objects in S3 | upload, confirm, use, delete, clean up | media in use is not deleted; uploads are whole |
| Proxy runtime | counted dispatchers in an LRU map, attestations | acquire, lease, release, evict, attest | nothing goes through an unattested proxy or a closed dispatcher |
| Platform adapters | none | the remote calls | errors mean what the worker takes them for |
| Workspaces, roles, authentication | members, invitations, sessions | invite, change, remove; log in, reset | one owner; a new password ends what the old one opened |
| Web front end | drafts, selections, lists, who is logged in | compose, upload, page through, gate | what is shown is what is saved; what is offered is granted |
| Jobs, notifications, audit, analytics, health | records | queries, appends | — |
| Cryptography and request hardening | none | pure functions | — |

### How they interact

The API commits rows, then adds jobs (`posts.service.ts:536-538`). A job's id is fixed
by what it is about, so that adding it twice is adding it once, as long as Redis keeps
it. A worker slot takes a job; `publish-post` and `retry-failed-post` are two queues with
one processor and one lock per platform post. The processor writes the platform post,
then its content post, in separate commands; it calls the platform; it writes again. An
exception hands the job back to BullMQ, which counts attempts and delivers it again, and
which also delivers a job again whose worker stopped renewing it. An ambiguous answer
leaves a third job, on `reconcile-platform-post`, which runs beside all of this without a
lock. Every caller of a platform refreshes the account's token by itself and goes out
through the workspace's proxy. Pages read lists, act on what they show, and reload.

### What is hard

* **Interleaving and redelivery.** Two invocations for one post: a stalled job delivered
  again while its first worker lives, a retry beside the original, two requests, two
  tabs. Little of it is locked, and the locks can lapse.
* **Crashes and lost answers** between a remote call and the write that records it.
* **Several places that decide about retries**: the adapter's classification of an
  error, the inner catch, the outer catch, BullMQ.
* **Rows written one after the other**, and values computed from rows read earlier.
* **Job ids**: a job that is still kept swallows the next one.
* **Time**: time to live, heartbeats, stalled checks, schedules, midnight.
* **Answers that come late**: a page that reads with the filters of an older render.

## 2. The modules

    Publishing                              Posts                 Services (run `services`)

    PostStatus   ErrorPolicy   JobLock      PostsApi              TokenRefresh*  Webhooks*
         \        /              |  \         (extends             Comments*  Team*  Sessions*
        PublishWorker            |   \         PostStatus)         PostEditor*  Composer*
         /    |     \  refines   |    refines     |                PartUpload*  InboxPage*
        /     |   PublishPromise |  ConfidentMutex |              Access* (extends Rbac)
       /  Reconciliation         |                PostsApi_proofs      \    |    /
    MCPublishWorker |       JobLock_proofs                            MCServices
         MCReconciliation                           Background (run `background`)
    PublishWorker_proofs
      PublishPromise_proofs                 Proxy*  Media*  ImportSync*  Metrics*  AccountMetrics*
      PublishJobs_proofs                    Adapters*  PlatformCalls* (extend PlatformErrors)
        Reconciliation_proofs               PlatformReads* (extends MetricValues)  Pager*
                                            MCPostStatus*  -- all in MCBackground
    * proved in Services_proofs and Background_proofs

### Publishing

**PostStatus** — `deriveContentPostStatus` and the status sets. The code only asks
whether some or every child has a status, so the operator takes the *set* of statuses.
`MCPostStatus` builds lists of children one by one and changes them.

**ErrorPolicy** — `decideOnError`: `ActionOnError` is the decision's `action`,
`DisconnectsAccount` its `markAccountDisconnected`.

**JobLock** — `JobLockService` for one resource. `value` and `ttl` are the Redis key,
`pc`, `owned`, `due` one call of `withLock` each: where it is, `lockOwned`, the heartbeat
timer. Time passes in ticks. A command can fail before or after Redis ran it, a heartbeat
can be late by `MaxLate`, a process can die. **ConfidentMutex** is what the lock promises:
at most one function may believe it is the owner. `JobLock` refines it with the confident
client as `owner`.

**PublishWorker** — the processor, one action per database write, remote call or lock
command:

| Action | Code |
|---|---|
| `Take` | BullMQ's delivery and `markBackgroundJobRunning` (`publish-post.ts:758-792`) |
| `Acquire`, `Release` | `withLock` (81-111), its `finally` |
| `Load` | the post with its account; `already_published`, `account_disconnected` (165-197) |
| `Begin`, `BeginParent` | `PROCESSING` on the post, then on its parent (199-211) |
| `GetAdapters` | the adapter factory, which throws past the inner `try`; fixture accounts |
| `Prepare`, `Fence` | token, media, validation (234-320); `publishFence` (332-340) |
| `Call`, `Commit` | `adapter.publishPost`; the transaction with `externalPostId` (342-399) |
| `Catch`, `After` | the inner catch: the outcome of the attempt, then what follows it (403-486) |
| `Reject` | `markFailed` for posts refused before the call |
| `ParentRead`, `ParentWrite` | `updateParentStatus`, whose read and write are two commands (840-856) |
| `Finish`, `OuterCatch`, `OuterDead` | the code around the lock (103-148), with BullMQ's `moveToCompleted`/`moveToFailed` |
| `Fault` | any of those commands fails; where the exception lands depends on where the worker is |
| `Retry` | the author has the failed posts tried again (`posts.service.ts:619-642`): QUEUED, each with a job on the second queue unless Redis holds that job already. One request at a time; `PostsApi` has it step by step |
| `Crash`, `Stall`, `Expire`, `Lapse` | the process dies; BullMQ redelivers; a key expires, under nobody or under a running holder |

`remote` counts the copies on the platform, which the program cannot see; `lost` counts
those whose identifier nobody kept, and is there only to state properties. `MultiStep`
are posts whose adapter makes a further call after the post exists (`Adapters` says
which). `Take` merges the delivery with the `BackgroundJob` upsert that follows it;
`getFreshAccessToken` is one step whose effect is the account's status (`TokenRefresh` has
it in full); rows are not deleted while their jobs run; back-off is any delay.

**PublishPromise** — the abstract specification: a post is put on its platform at most
once, is reported published only after that and for good, is reported failed only while
nothing of it is there, and failed posts may be tried again. `PublishWorker` refines it (`KeepsThePromise`, with
`Reported` and `remote` for its two variables) when no error is ambiguous.

**Reconciliation** — the reconcile processor as more actions beside `PublishWorker`'s
`Next`. `Supported` are the posts whose adapter implements `reconcilePublish`; no adapter
of this commit does, so `{}` is the program as it is, and other values show what the
processor does once one does.

### Posts

**PostsApi** — the service methods on one content post, each a request that walks through
its transactions, queue commands and remote calls; the scanner as a read and an add; the
sweep when the API starts; publish workers in outline. Jobs are `<<queue, platform post>>`:
an id that Redis still holds ignores an add.

### Services

Each module is a component of its own, with its variables, its `…Init`, `…Next` and
`…TypeOK`.

**TokenRefresh** — one social account and the six ways its token is refreshed, which
differ in lock, order of reads and writes, and what a refusal does, beside OAuth, test and
disconnect. Tokens are numbered; a rotating platform accepts the newest only. An account
that is not `renewable` has no refresh token, or an adapter that cannot use one (Instagram):
when its access token is over, the workers disconnect it, the API's services only report it,
and the scheduled job sets NEEDS_RECONNECT. The write of `TokenRefreshService` names the
account and nothing else, so it also replaces what a later connection stored.
**Webhooks** — the event row, its job, the sync jobs it asks for; ids made of target and
second, so that two events may share a sync. **Comments** — replies at once and queued,
comments of the team's own, moderation, removal and sync of one post's inbox. Replies
and comments that are queued take no lock: `Stall` delivers the job of a living sender
again, which goes on (`stalled`), and its result is stored beside the other's.
**Team** — invitations, acceptance, roles and removal; a request looks at the caller's role
first and writes later. **Rbac** — the permission table. **Sessions** — login, logout,
change and reset of the password, where comparing a password takes time.
**PostEditor** — the pages that write a post, with targets that inherit or are customised,
and what saving does to rows and platforms. **Composer** — each panel's options, the
material at hand (ready or not, public, with a cover or a frame for one), the form's check
(`FormAccepts`), the API's schema (`ApiAccepts`), the adapter's validator (`Valid`) and the
request. **PartUpload** — a file in one PUT or in parts with retries, completion and abort;
a confirmation that cannot enqueue its job leaves the asset FAILED. **InboxPage** — lists under filters, reloads
that answer late, selections in bulk, a text under the open thread. **Access** — every
route's permission, every button's gate, and tabs that share a cookie and a chosen
workspace.

### Background

**Proxy** — a caller reads the setting, takes a handle on a pooled dispatcher, obtains an
attestation (cached, made under a lock that may lapse) and sends, one request at a time or
several at once (`Sibling`). The worker gives its handle back in a `finally`, which runs as
soon as one of the requests fails: the others may still be under way, and the dispatcher is
closed when they end. Dispatchers leave the map by idleness, by a new version of the
setting, and by quick-lru's two generations: an entry that is made, or fetched from the old
generation, may fill the new one, and then the whole old one is evicted. **Media** — row, file, uses,
thumbnail job and cleanup job of one asset. **ImportSync** — the request, the page loop
with its cursor and transactions, the job list that can be cleared. **Metrics**,
**AccountMetrics** — numbers of posts and accounts from the answer to the day's snapshot
and the dashboard's sums. **PlatformReads** — how the five adapters make numbers from
answers some of which are missing (`Varied` are the items for which
a run tries every answer; the others are the largest or missing), with Pinterest's clicks in its sum and each read's fallbacks; **MetricValues** their sources. **Adapters** —
`publishPost` on each way of publishing: parts, waits, the call that makes the post, the
calls after it, the error thrown. **PlatformCalls** — the other calls of the adapters, each
a table entry that one interpreter walks through. **PlatformErrors** — what each client
makes of a refusal, by status and code, one that comes as 403 with the code of a rate limit
among them; a container that is not ready means "later" (`Adapters!GivingUp`). **Pager** — lists in pages by cursor, with reloads and selections.

**MCServices** and **MCBackground** put the components of a group into one run. They share
no state, so a behaviour of all of them is an interleaving of one behaviour of each, and a
property of one depends on that one alone. The initial state picks the component that
steps (`focus`) and pins the initial choices of the others: every reachable state and step
of each component is reached, without the product. The proxy's callers and the requests of
one of them are alike, which TLC uses (`Alike`): the run checks no liveness, and no property
tells them apart.

## 3. The runs

### Runs that pass

| Run | Asks | Bounds, and why they are enough |
|---|---|---|
| `contended` | one invocation per post (`OneAtATime`); every copy accounted for (`CopiesAreAccountedFor`); the number of remote calls (`CallsAreBounded`); the record is final (`RecordedIsFinal`); so is PUBLISHED (`PublishedIsTerminal`) | one post, two workers, two attempts, one crash, one lapse, one fault, live stalls. Posts share no lock and no job; two workers and a redelivery give every pair of invocations, two attempts a last and a not-last one. The second queue is in `promise`; the theorems have both queues and none of the bounds |
| `promise` | the refinement of `PublishPromise` | two workers, three attempts, both queues with the author's retries, stalls of live jobs, no ambiguous error, no crash: the condition under which the promise holds |
| `calm` | two posts of one content post: `ParentNeverClaimsTooMuch`; when the jobs are over nothing is left halfway and dead jobs rest (`JobsAgreeWithPosts`); `EveryPostSettles` | two workers, two attempts, an error of each class; no failures |
| `ends` | `EveryJobEnds` under fairness | two workers, one crash, one fault, live stalls, an adapter factory that throws |
| `repairs` | `ReconciliationRepairs`: after a lost answer the post is PUBLISHED exactly if it is on the platform, unless the platform was asked in vain or the last attempt failed | one supported and one unsupported post, two attempts of the reconcile job, three failures, so that it can use up its attempts |
| `lock` | `OneConfidentOwner`, `ConfidenceIsBacked`, refinement of `ConfidentMutex`, `OrphanExpires` | ticks of 15 s: 120 s to live, a heartbeat each 30 s up to 75 s late, three calls |
| `posts` | `WithdrawnStaysAway`: what went out and was withdrawn does not go out again; `ScheduledGoesOut`: all platform posts of a due schedule that have lost their jobs are published or refused, whatever lost them (a crash, a refused request, a new target), when no sibling has a job at that moment (section 6 says what happens when one has) | two accounts, so that a post can be partly out; one caller, three requests in turn beside scanner, sweep and workers, one crash |
| `services` | see below | per component, in the cfg |
| `background` | see below | per component, in the cfg |

The properties of `services`:

| Property | Says | Bounds of its component |
|---|---|---|
| `ConnectionIsKept` (`TokenGoesWithAccount`, `LoneRefreshIsSafe`) | a disconnected account has no token, whatever refresh was under way, and a connected one has; a refresh that meets no other one and no mishap never costs a connection that can be renewed | an account that can be renewed and one that cannot, two refreshes of any two kinds, two grants, one mishap |
| `ProcessedHasAsked` | a processed event has asked for every sync it calls for | two events, two syncs, two tries, two mishaps |
| `InboxTellsTheTruth` (`NoMessageTwice`, `FailedIsUnseen`) | unless an answer was lost, customers read a message once, twice at most if its worker stalled, and not at all if it is shown as FAILED and no worker stalled | one message in every form, two sends, one stall, one lost answer |
| `RemovedStaysRemoved` | a sync does not bring back what a user removed | the same |
| `MembershipHolds` (`OneOwner`, `MembersWereInvited`, `NobodyIsLockedOut`) | the founder is the one owner, everybody else was invited, no dead invitation blocks an address, though guards decide on roles that may be outdated | three people, two requests at once, two invitations |
| `OldSecretsAreDead` (`SessionsEndWithPassword`, `ResetTokenWorksOnce`) | no session of an earlier password lives on, but one whose login had already compared it; a reset token sets one password | two browsers, four passwords, two resets |
| `DraftsAreCoherent` | a target's media are media of the post | two targets, one of them with its own options always, two texts, one picture, five changes, two saves |
| `SavesSayWhatWasShown` | what the page said a target would say is what is stored or, of a published post, what the platform was told | the same |
| `PagesKeepFaith` | `ComposerKeepsFaith`: choices reach the request, and form and validator agree, but for the exceptions below; `UploadsAreWhole`: no file with missing or surplus parts is taken in; `InboxPageHolds`: selections of one kind, texts reach their thread, lists fit the filter; `OffersAreGranted`: a fresh tab's buttons are granted by the guards | two changes per panel and every network; four parts, four workers, three attempts, four failures; two threads, two loads, four clicks; two users, two workspaces, two tabs |

And of `background`:

| Property | Says | Bounds of its component |
|---|---|---|
| `ProxyTrafficIsSafe` (`TrafficIsAttested`, `InUseStaysOpen`, `RetiredIsClosed`) | nothing is sent through a version of the setting nobody attested; a dispatcher in use is open, by a handle or by a request that goes on after it; one that left the map and is not in use is closed | two callers with two requests each, so that a handle is given back beside a request under way; two routes and two dispatchers, so that a whole generation goes; two moves (`MaxMoves`), each a new version of the setting or a check; counts up to two |
| `VerdictsMoveForward` | an execution that lost the attestation lock never replaces a later verdict | the same: the two moves are two checks |
| `LibraryAgrees` | while operations do not overlap, what is READY or attached to a draft has its file, and what is PROCESSING is processed | two requests, two thumbnail attempts, two errors of S3 |
| `ImportsAreTrue` (`CompletedIsThorough`, `ContentsHaveRows`, `ReportFindsItsRow`) | a completed import left out what it counted as failed and no more; an import makes a post once, also when two overlap; its row is there when it reports | two syncs, four posts on pages of two, two mishaps |
| `MetricsAreHonest` (`NumbersAreHonest`, `SnapshotsAreNotOld`, `ReadsAreHonest`) | a day's snapshot holds no later number, unknown is not 0, an account's snapshot is no older than its day, a number that is shown was given and a number that was given is shown; an engagement made of parts is their sum, Pinterest's two kinds of clicks included | two days, two jobs; answers 0 and 1 and missing |
| `AnswersAreTold` (`ErrorsTellTheWorker`, `CallsTellTheTruth`) | a post is not asked for before its parts; a failure means there is no post, but where a call follows; what never works is not retried, and what the platform asks for later is, but for the two answers of `TakenForAFault`; a call that resolves has done what it says | one part, two looks, two repeats |
| `ListsAreWhole` (`NothingIsSkipped`, `SelectionIsShown`) | a walk through the pages shows all that was there throughout; what a bulk delete takes is on display | three items, pages of one, two steps |
| `DerivationFollowsTheRule` | the derived status against the rule, stated by counting | up to four children: the rule asks for "some" and "every" over four classes |

The exceptions of `Composer!FormForesees`: the form takes, and the validator refuses, a
Facebook post of a title alone, a text that is too long, WebP, WebM or a video without a
cover on Pinterest, media of Instagram's that are not public, and a frame of the video that
was chosen for a thumbnail and never taken. The other way round, the form refuses a link
whose scheme is not http or https, which neither the schema of the API nor the validator
minds.

`CHECK_DEADLOCK FALSE` stands where the system stops when its jobs are over or its bounds
are used up; `lock` never stops and is checked.

Several properties are implications with conditions such as `lapses = 0` (no running
holder lost its lock), `lostAnswers = 0`, `tainted = 0`, `quiet` or `Orderly`. The runs
contain states of both kinds, and the condition is where the guarantee really ends:
section 6 says what happens outside. `ParentNeverClaimsTooMuch` is one-sided on purpose: a
parent *behind* its children is possible, one that is PUBLISHED *before* them is not.

### Runs that show a disagreement

Each checks one sentence of a document or comment, which the code does not keep.

* `duplicate` — the answer of the platform is lost (`NETWORK`). The post is recorded
  `REMOTE_RESULT_UNKNOWN`, but the error is rethrown while attempts are left, and the next
  attempt looks only at `externalPostId` and `PUBLISHED`: it calls the platform again.
  `schema.prisma:577` calls `externalPostId` the last defence against double posting.
* `stuck` — a worker dies in the section. BullMQ redelivers the job within 30 s, the dead
  worker's lock lives for 120 s, so the second delivery finds it taken, returns `locked`,
  and the job is *completed*. The post stays PROCESSING. (`queue-options.ts:26` allows
  one recovery.)
* `unqueued` — publishNow removes the waiting jobs of a post before it looks at the post's
  status: a second publishNow of a QUEUED post takes its jobs away and is then refused. The
  post is QUEUED without a job until the API starts again. (`docs/PROJECT_PLAN.md:195`:
  publishing again is idempotent; `posts.service.ts:74` expects this only of a crash.)

### Fairness

`PublishWorker!Fairness`: a worker that is at a step takes it (an event loop and awaits
with timeouts); a waiting job is taken by some worker (BullMQ blocks on the queue, the
delay of a retry is finite); the stalled check finds the job of a dead worker (it runs
each 30 s); a key with an expiry expires. Nothing is assumed of crashes, faults, lapses
or of BullMQ taking a live worker for dead: they may happen or not, up to their bounds.
The bounds are part of the claim: with infinitely many crashes no job need end.

`JobLock!Fairness`: time passes, timers are served, a function under the lock ends.
`OrphanExpires` needs only the first.

`PostsApi!PostsFairness`: a request goes on, the scanner's timer fires and its add follows
its read, the planned time comes, a job that can be worked on is. Requests themselves need
not come. All of it is weak fairness. The components of `services` and `background` state
safety only and need none.

## 4. What is proved

For every value of the constants that satisfies the modules' assumptions: any number of
workers, posts, attempts, crashes, stalls, lapses and faults, any intervals, any number of
people, requests, browsers and events.

| Theorem | Says |
|---|---|
| `PublishWorker_proofs!TypeCorrect` | `Spec => []TypeOK` |
| `PublishWorker_proofs!OneWorkerAtATime` | `Spec => []OneAtATime` |
| `PublishWorker_proofs!CopiesAccounted` | `Spec => []CopiesAreAccountedFor` |
| `PublishWorker_proofs!RecordedForGood` | `Spec => RecordedIsFinal` |
| `PublishPromise_proofs!PublishedForGood` | `Spec => PublishedIsTerminal` |
| `PublishJobs_proofs!CallsHaveABudget` | `Spec => []CallsAreBounded` |
| `PublishJobs_proofs!ParentIsNeverAhead` | `Spec => []ParentNeverClaimsTooMuch` |
| `PublishJobs_proofs!JobsTellTheTruth` | `Spec => []JobsAgreeWithPosts` |
| `PublishPromise_proofs!WorkersKeepThePromise` | `Trusted` implies `Spec => KeepsThePromise`, the refinement of `PublishPromise` |
| `JobLock_proofs!TypeCorrect` | `Spec => []TypeOK` |
| `JobLock_proofs!ConfidentOwnerIsUnique` | `Spec => []OneConfidentOwner` |
| `JobLock_proofs!ConfidenceIsAlwaysBacked` | `Spec => []ConfidenceIsBacked` |
| `JobLock_proofs!LockImplementsMutex` | `Timely` implies `Spec => ImplementsMutex` |
| `JobLock_proofs!HealthyLockExcludes` | `Spec => []ExclusiveWhenHealthy` |
| `Reconciliation_proofs!ReconTypesHold`, `!RepairsHold` | `ReconSpec => []ReconTypeOK`, `ReconSpec => []ReconciliationRepairs` |
| `PostsApi_proofs!PostsTypesHold`, `!WithdrawnIsKeptAway` | `PostsSpec => []PostsTypeOK`, `PostsSpec => WithdrawnStaysAway` |
| `Services_proofs!TokenTypesHold`, `!ConnectionHolds` | `TokenSpec => []TokenTypeOK`, `TokenSpec => []ConnectionIsKept` |
| `Services_proofs!HooksAreTyped`, `!ProcessedEventsHaveAsked` | `HookSpec => []HookTypeOK`, `HookSpec => []ProcessedHasAsked` |
| `Services_proofs!InboxTypesHold`, `!CustomersReadOnce`, `!RemovedIsKept` | `InboxSpec => []InboxTypeOK`, `InboxSpec => []InboxTellsTheTruth`, `InboxSpec => RemovedStaysRemoved` |
| `Services_proofs!SessionsAreTyped`, `!OldSecretsStayDead` | `SessionsSpec => []SessionsTypeOK`, `SessionsSpec => []OldSecretsAreDead` |
| `Services_proofs!TeamIsTyped`, `!MembersAreSound` | `TeamSpec => []TeamTypeOK`, `TeamSpec => []MembershipHolds` |
| `Services_proofs!EditorTypesHold`, `!DraftsHold`, `!SavesTellTheTruth` | `EditorSpec => []EditorTypeOK`, `EditorSpec => []DraftsAreCoherent`, `EditorSpec => SavesSayWhatWasShown` |
| `Services_proofs!ComposerTypesHold`, `!ComposerHolds` | `ComposerSpec => []ComposerTypeOK`, `ComposerSpec => []ComposerKeepsFaith` |
| `Services_proofs!UploadTypesHold`, `!UploadsHold` | `UploadSpec => []UploadTypeOK`, `UploadSpec => []UploadsAreWhole` |
| `Services_proofs!InboxPageTypesHold`, `!InboxPageKeepsFaith` | `InboxPageSpec => []InboxPageTypeOK`, `InboxPageSpec => []InboxPageHolds` |
| `Services_proofs!AccessTypesHold`, `!OffersHold` | `AccessSpec => []AccessTypeOK`, `AccessSpec => []OffersAreGranted` |
| `Services_proofs!PagesHold`, `!ServicesAreTyped` | `ServicesSpec => []PagesKeepFaith`, the last four together; `ServicesSpec => []ServicesTypeOK`, the types of all ten |
| `Background_proofs!ProxyTypesHold`, `!ProxyTrafficHolds`, `!VerdictsOnlyForward` | `ProxySpec => []ProxyTypeOK`, `ProxySpec => []ProxyTrafficIsSafe`, `ProxySpec => VerdictsMoveForward` |
| `Background_proofs!MediaTypesHold`, `!LibraryHolds` | `MediaSpec => []MediaTypeOK`, `MediaSpec => []LibraryAgrees` |
| `Background_proofs!ImportTypesHold`, `!ImportsHold` | `ImportSpec => []ImportTypeOK`, `ImportSpec => []ImportsAreTrue` |
| `Background_proofs!AdapterTypesHold`, `!ErrorsAreUnderstood` | `AdapterSpec => []AdapterTypeOK`, `AdapterSpec => []ErrorsTellTheWorker` |
| `Background_proofs!CallTypesHold`, `!CallsAreHonest` | `CallSpec => []CallTypeOK`, `CallSpec => []CallsTellTheTruth` |
| `Background_proofs!AnswersHold` | `BackgroundSpec => []AnswersAreTold`, the last two together |
| `Background_proofs!TheRuleHolds` | `StatusSpec => []DerivationFollowsTheRule` |
| `Background_proofs!MetricTypesHold`, `!NumbersHold` | `MetricsSpec => []MetricsTypeOK`, `MetricsSpec => []NumbersAreHonest` |
| `Background_proofs!AccountTypesHold`, `!DaysAreNotOld` | `AccountSpec => []AccountTypeOK`, `AccountSpec => []SnapshotsAreNotOld` |
| `Background_proofs!ReadTypesHold`, `!ReadsHold` | `ReadSpec => []ReadTypeOK`, `ReadSpec => []ReadsAreHonest` |
| `Background_proofs!MetricsHold` | `BackgroundSpec => []MetricsAreHonest`, the last three together |
| `Background_proofs!PagerTypesHold`, `!PagesSkipNothing` | `PagerSpec => []PagerTypeOK`, `PagerSpec => []ListsAreWhole` |
| `Background_proofs!BackgroundIsTyped` | `BackgroundSpec => []BackgroundTypeOK`, the types of all |

Every invariant and every action property that a passing run checks is among them; what
only the runs show is liveness.

**Publishing.** `TypeOK` is not inductive, for a worker that is not idle must have a job:
`TypeInv` adds it. `OneAtATime` is not inductive either. Its strengthening `HoldersHold`
says that, as long as no lock lapsed, a worker in the section is the one named under the
post's key; two of them would have to be named in one key. Every action moves at most one
worker one step; the lemma `Walk` settles the steps that stay inside or leave the section,
and only `Acquire`, `Release`, `Fault`, `Crash`, `Expire` and `Lapse` say something about
the key. The proof never uses that a job has one owner, which is the point: `Stall` gives
the job to a second worker while the first one runs.

`CopiesAreAccountedFor` and `RecordedIsFinal` rest on two more parts of the invariant
(`RecordInv`). `NotYetRecorded`: the post of a worker between its `Load` and its `Commit`
has no `externalPostId`, however long ago it read that. `CopyIsReal`: what a worker is
about to record is a copy that exists. They survive the steps of other workers because of
the lemma `Alone`: nobody else is in the section of the same post. That is where the lock
is what prevents posting twice, and where the proof would fail without it.

**PUBLISHED is final.** Who writes another status? Workers between `Load` and their
outcome, and those stand alone with a post they found unpublished; and the outer catch,
which writes without the lock. The invariant of that proof says that it never
does: as long as database, lock and adapter factory answer, what leaves the section as an
exception is an error that is to be *retried*, and the outer catch writes FAILED for others.

**The promise.** `Trusted` is its precondition: nothing crashes, fails or lapses, the
adapter factory does not throw, no adapter goes on after the post exists, and no error is
ambiguous. Then a post is PROCESSING as long as a worker is between `Begin` and the outcome,
nothing is lost, what is recorded is PUBLISHED, and each step of a worker is `Publish`,
`Report…` or a stutter of the promise.

**Jobs.** *Calls.* Every call belongs to a delivery. `Takes` counts a job's deliveries: those
settled, those stalled, the one under way; `Budgets` bounds it by the attempts and one
redelivery. `CallBudget` says that the calls made for a post and the workers that have yet
to make theirs (`Ahead`) are no more than the deliveries of its two jobs.

*The parent.* When no job runs twice at a time (`Orderly`), every busy worker owns the job
it runs (`AllOwn`), so two busy workers have two posts. `ChildrenFirst` is about what a
worker read a while ago: if it saw its siblings PUBLISHED they still are, since only a
worker on that very post writes another status, and it would have refused a PUBLISHED one.
So a status derived from an old read may be behind the children and never ahead.

*Jobs and posts.* `Faithful` relates three pieces of state. `Says`: what a worker is going to
report about its job is what it has written on the post. `Rests`: when the job is over and
nobody runs it, post, job and record agree. `Locked`: a lock that is taken is that of a
worker in the section, so nobody is turned away while the calm conditions hold.

**The lock.** `LockInv` adds two facts to `TypeOK`. `KeyLives`: there is a token exactly as
long as there is time to live. `LeaseCovers`: with timely heartbeats a confident client's
token is in Redis and its time to live has run down no further than its heartbeat timer,
`ttl >= Ttl - Period + due`. A tick lowers both sides; a heartbeat resets both; a failed
one ends the confidence. Uniqueness follows because one key holds one token. The refinement
follows in two steps: by `ConfidenceSteps` a step either only takes confidence away or gives
it to an acquirer when nobody has it, which are `GiveUp` and `Take` of the mutex.
`HealthyLockExcludes` (with `RunnersAreConfident`) is the stronger fact the processors rely
on, since none of them asks `isOwned()`: it takes a Redis that answers and timely heartbeats.

**Reconciliation.** `RepairInv` compares each row with the platform, stage by stage. While
no answer was lost the post has no reconciliation job, and once its worker is through, its
row is PUBLISHED exactly if it is on the platform. A lost answer starts the job, and its
attempt was the last one, so the publish worker never comes back to the row: what the
reconciliation has been told (`found`) is still true when it writes. That is why the theorem
asks for one attempt per job (`MaxAttempts = 1`), one job for each post, and nothing that
runs twice; the run `duplicate` shows what happens otherwise.

**Posts API.** A post may have a job on each of two queues. It is never in the hands of both
(`OneWorkerPerRow`), and a post that is being worked on is not out (`HeldIsNotOut`): requests
decide on rows they read earlier, but what they then do to a job cannot touch one that is
held, and what they do to a row never says PUBLISHED.

**Webhooks.** A worker marks the event PROCESSED after its loop: the invariant says that,
at every point of the loop, what is no longer on the worker's list has been asked for, and
that jobs once asked for are never forgotten.

**Sessions.** A login that has compared a password knows which one; a change of the
password ends the sessions in the same transaction. What is left are logins that had
compared before, which are in `late`. A reset deletes its token in the transaction that
sets the password, so passwords set with one token are one.

**Team.** Requests decide on roles read earlier, so the proof cannot use that a caller
still is what it was. It uses what does not go out of date: nobody but the founder ever
outranks ADMIN, so no request under way gives OWNER away, and none takes it from the
founder, whom nobody outranks.

**Tokens.** Executions of every kind read, call and write, each in its own order. For an
account that cannot be renewed the theorem says what is left: its connection ends with its
access token, or when the scheduled job asks for a new one, and not before.
`FlowsFit` says what each knows at its step. `Undisturbed` is about the time in which no
two executions met and no mishap came in between: there is one at most, nothing it read has
changed, and it knows the token that the platform accepts (`LoneKnows`); between two
executions the row has that token.

**Inbox.** `SendsFit` relates the step of each message to its row, and the copies, the
calls under way and the stalled execution to the attempts there were (`MailFits`).
`SentOnce`: of a message that stalled, copies, the stalled execution's call and a further
attempt are two together at most (`MailIsOnce`); of the others, unless an
answer was lost, what the platform shows is never on its way to it again. A message waits
although it was sent only when its row is gone, and then the worker finds nothing to answer;
a row that says FAILED is wrong only until the running attempt is stored.

**Editor.** `ShownIsSent` ties the request under way to what the page showed when it was
sent: for each target the request and the stored rows make the text and the media that were
shown. Every target of the request has its entry or was one without (`RequestsAreWhole`).

**Composer.** Form and schema are two lists of conditions, written apart. `FormsAgree`
compares them platform by platform for all material and words, and wherever they
differ one of the exceptions of `FormForesees` applies; `ChoicesAreSent` goes through
the fields a panel offers. The invariant adds that what passed the form stays what it was on
its way (`StagesFit`).

**Upload.** `PartsAreCounted` ties the list of tags to the parts that are done, by number
and by member; `WorkersFit` bounds the parts under way, for which `FirstOnes` shows that
startNext takes up no more than it counts as free. `PageFits` says which way the page is on
by what has become of the parts: it asks for the completion only when all are done, and no
part fails after that. `RequestsFit` says what the two requests of the API have found.

**Inbox page.** While answers come in the order they were asked for (`inOrder`), either one
is still on its way or what is shown has the chosen filter (`InOrderFits`); each slot that
waits and the display hold whole lists (`PageShaped`). The types need that the order of the
threads stays one of all threads, each once, when a comment moves its thread to the front
(`FrontIsTyped`).

**Access.** `OffersFit` compares each offer's gate with what its routes ask for, over the
tables of roles and routes. `TabsFit` and `AnswersFit` say that a tab that is fresh, and an
answer nothing has changed since, tell the roles the API would find: every change of a role
outdates the answers under way.

**Adapters.** An error says "not done" or "cannot be known". `PartsFit` and `PostFits` relate
what was last heard to what the platform has; what was prepared is never the post.
`EffectsAreTold` bounds the effects of a call by its attempts. Methods come in three shapes
(`MethodShapes`), so the proof is of shapes and not of forty methods.

**Proxy.** A dispatcher counts its handles and its requests. `CountsCover` says that the
counts cover the clients that have it: the number of clients with a handle on it is at most
its handles, so a count that reaches 0 leaves no user, and a dispatcher is closed only then. The same of
its requests (`Requesters`), counted apart: they go on when the handle has been given back,
and an eviction, of one entry or of a whole generation, closes what has neither.
`VerdictsFit` orders the checks: a cached verdict is of the newest check of its route.

**Media.** Everything is about an asset left alone (`quiet`). Then one operation at a time
works on it, and the invariant says for each of its steps which of row, file and jobs it has
already changed.

**Imports.** Pages count what they could not take in. `LeftIsCounted`: the recent posts
behind the cursor that have no row, less those the page is still going to create, are no more
than the failures counted. The steps of two overlapping syncs only add rows, so this is about
the cardinality of a set that shrinks.

**Status.** The rule of the document counts children; the code asks for the set of their
statuses. The proof relates the two through the set of places a status has in the list: no
child has it exactly if that set is empty, all have it exactly if it is the whole domain.

**Sums.** A total is a fold over a finite set, whose definition picks the elements one by
one. `FoldExists` shows that the function it chooses exists: of the sizes for which it
would not, one is the smallest (`SmallestSet`, from the well-foundedness of `<`). From it
`SumsAddUp`: whichever element is taken out first, a sum is that element and the sum of the
rest; `SumsRename`: summing over other names of the same numbers changes nothing.

**Metrics.** A job reads first and dates what it read later. `ReadingIsTrue`: what it is
about to store is no more than the platform had reached on the day it is going to store it
under (`Reached`: now, or at the end of that day), and `SnapshotsAreTrue` says so of what is
stored. The dashboard merges the posts' numbers in the order of a fold; for every set of
posts the bag so far is unknown if all their numbers are, and else the sum of the known ones
(`BagsTell`), by smallest counterexample. *Accounts* are the other way round, dated first
and read later: `IsOfDay` bounds the number from below by that of the evening before.
*Reads.* What was heard is what was asked for (`ReadInv`); that the engagement is the sum
of the numbers shown takes, of each of the nine reads, that it adds exactly the items its
four numbers are taken from and none twice (`ReadsAdd`).

**Lists.** `ReplyIsWhole` holds of every reply that is on its way: it was made of all items
below its cursor that are still there, and shows each of them down to the cursor it gives.
`GivenIsAhead`: what a walk has yet to show comes after every cursor given on it, so going
back and forth again cannot step over it, whatever was created in between. That pages are
lists of the newest items in order, none left out, is `NewestAreFirst`: the place of an item
is the number of the items that are newer.

**Together.** A behaviour of `ServicesSpec` or `BackgroundSpec` is, for each component, a
behaviour of its own specification (`ServicesAreTheirParts`, `BackgroundIsItsParts`), and the
properties of the runs that speak of several follow from those of each.

**Assumptions on the constants** are types, bounds of at least one, finite sets, and names
that stand for nobody being nobody's (`"free"`, `"lost"` for the token lock, `"check"` for a request of a caller's own, `"nobody"` and
`"none"` in the proxy, `"none"` in `Access`), and two workers or more for an upload, which
starts with two; each module states its own and TLC evaluates them.

**Only model-checked.**

* Liveness and fairness (`EveryJobEnds`, `EveryPostSettles`, `OrphanExpires`,
  `ScheduledGoesOut`): the prover has no rule for `ENABLED`.

Folds and sorted lists can be reasoned about, at a price. The models say each as a function
on a set, or as a list whose places are numbers of newer items, and not by the recursive
operators of the standard modules (`SelectSeq`, sums over mapped sets): what a recursive
operator computes would take induction with the operator as a parameter.

## 5. Not modelled, and why

* **The rate limiter**: a counter of one process that delays a call; any delay is one the
  interleavings already contain. **The capability matrix**: a table of constants; the pages
  read it to enable buttons, and publishing never consults it.
* **Cryptography and request hardening** (ciphers, signatures, redaction, address ranges):
  pure functions on bytes, which a model could only enumerate letter by letter.
* **Notifications, audit, health, calendar, dashboard layout**: rows appended and read that
  nothing coordinates on, and rendering.
* **Request bodies and response schemas** of the platforms: data. What a response may lack,
  and what the clients make of it, is in `PlatformReads` and `PlatformErrors`.
* **Tags, notes, assignment, templates, boards, location search**: single-row writes and
  reads.
* **The transition table of content posts**: defined, and consulted by no code.
* **Bulk forms** of the API are the single operation once per item, and `duplicate` is
  create with another post's texts: they add no step.
* **Back-off and retention times** of the queues: any delay is considered; the executions
  that are modelled are shorter than the retention.
* **The detail page of a post and its dialogs** (`app/(app)/posts/[id]`): its gates are in
  `Access`, its requests in `PostsApi` and `Metrics`; the page's own reloading is not.

## 6. Known behaviours

Facts the models made visible and that the conditions of the properties stand for.

*Publishing.* Two workers end together; the one that read the children first writes last,
and the content post stays PROCESSING with every child settled (`schema.prisma:502` says it
is derived). `updateParentStatus` runs inside the `try` of the remote call: if it fails
after the commit, the catch writes QUEUED over PUBLISHED (`post-status.ts:78`). The token
refresh takes a lock of 15 s that `withLock` extends each 30 s, so a refresh that takes
longer runs beside a second one (`docs/ROADMAP.md:165`).

*Tokens.* `TokenRefreshService` stores what it was given by the account's id
(`token-refresh.service.ts:136`): when the account was disconnected and connected again
meanwhile, the old grant replaces the new one. An Instagram account has no refresh token,
so a worker that uses it after its access token is over disconnects it.

*Posts.* A scheduled post on two accounts is due and a worker runs the job of one; publishNow
removes the waiting job of the other and then fails on the one that runs. The worker moves the
content post on to PROCESSING and, when its attempt failed, to QUEUED, and the other row stays
PENDING without a job: the scanner looks at SCHEDULED posts only
(`scheduled-post-scanner.ts:40`), the sweep at QUEUED rows (`posts.service.ts:78`), while
`docs/PROGRESS.md:46` has the scanner make up for lost jobs of due schedules. `deletePost` (`posts.service.ts:314`) removes at the platforms only for a
PUBLISHED or PARTIALLY_PUBLISHED parent, while the dialog offers it for every published
child. The API's own platform calls (`posts.service.ts:1521`) never release their adapter
contexts; `RetiredIsClosed` is about callers that do. Routes that write with a view
permission exist (clearing jobs, refresh of the state, notes).

*Writing.* A cover upload that answers late brings an own setting back to a target that was
set back to the common content. A target that is no longer customised, with a thumbnail
chosen, sends its old text. When a published target is set back, the platform changes and
the row keeps the old text. A failure at the second platform leaves the first one changed.
There is no version check between two editors. "Publish now" clicked twice makes two posts.
Options the panels offer and no adapter sends are listed in `Composer!Ignored`; what the
validator refuses and the form does not foresee in `Composer!FormForesees`; a link of
another scheme is refused by the form alone.

*Adapters and numbers.* TikTok turns a missing number into 0 (`tiktok.adapter.ts:248-254`
against `shared/metrics.ts:3-11`). Meta's `success: false` is taken for success. A failed
insight request loses its number silently. `makeVideoPublic` may reject after the video is
public. On the ways that make a call after the post exists (`Adapters!Following`, all but Facebook's video) a
failure is retried and posts again. Facebook, Instagram and TikTok test 403 before the
rate-limit codes (`facebook.errors.ts:80`, `instagram.errors.ts:85`, `tiktok.errors.ts:94`):
a rate limit with that status is PERMISSION_DENIED and ends the job, where
`docs/PROJECT_PLAN.md:205` has rate limits retried. An Instagram container that is not ready within the looks
the adapter takes is thrown as VALIDATION, asking the user to publish again in a few minutes
(`instagram.adapter.ts:285-293`): nothing tries again. Account snapshots take their date
before the remote call.

*Inbox, uploads, lists, tabs.* A reply or a comment whose job stalls while its worker lives
is sent twice: the processors take no lock (`queue-options.ts:28`). A page of comments that
was fetched before the platform's own delete was heard of brings the comment back. A failing file in a batch throws away the earlier ones'
results on the page. Reload timers use the filters they were set with. Inline replies clear
the text also when sending failed. Pages ordered by `updatedAt` miss an item that is updated
during the walk; a bulk delete that fails halfway does not reload. Settings keep their
cursors when filters change. A tab whose page changes asks for the user again and unmounts
meanwhile; choosing a workspace moves the other tabs at their next step; some buttons look
at no permission (`Access!UngatedOffers`) and are refused by the server.

*Webhooks and media.* An event whose API dies between row and job is never processed:
delivered again, it is answered as a duplicate. Operations on one asset that overlap can
leave a READY row without a file (`quiet` in `Media`).

## 7. Plan

What would add most, in this order:

1. The detail page of a post with the capability matrix that gates it.
2. That the worker of `PublishWorker`, in its own steps, does to a row what the worker of
   `PostsApi` does in its few: the two meet in the code and are proved about apart.

The set of runs is kept small: when a module arrives, it joins the run of
its group, or its run takes the place of one whose question a theorem answers.
