# Ouitransfer: models and proofs

Ouitransfer is a self-hosted file transfer service: users upload files and
publish them as *shares*, and open *reverse shares* through which other people
send them files. This directory holds TLA+ models of its server
(`src/apps/server`), the TLC configurations that check them, and proofs checked
by TLAPS.

The server is one Node process over one SQLite database and one S3 bucket. There
are no threads, and every Prisma call is one atomic database operation. What
makes the server hard is that **every `await` is a point where another request or a
timer runs**, that database, bucket and mail relay have no common transaction,
and that the process may die between any two awaits. The models cut each
function at its awaits, at least wherever state is read before one and used
after it.

1. [Inventory](#1-inventory)
2. [Modules, and how they correspond to the code](#2-modules)
3. [Runs, bounds and what they show](#3-runs)
4. [Fairness](#4-fairness)
5. [Proofs](#5-proofs)
6. [What is only model-checked, and what is not modelled](#6-limits)
7. [Plan](#7-plan)

## 1. Inventory

Paths are relative to `src/apps/server/src/`.

### Core components

**Mail queue** (`modules/email/queue.ts`). *State*: the table `EmailJob`
(`status`, `attempts`, `maxAttempts`, `priority`, `nextAttemptAt`, `lockedAt`),
the flag `isProcessing`, the counter `tickCount`. *Operations*: `processTick`
(`processBatch`, then from time to time `recoverStuckJobs` and
`cleanupTerminalJobs`), `initEmailQueueOnBoot`. *Hard*: a tick goes on to its
periodic duties after it lowered the flag, so ticks overlap; a claim, a send and
its record are three steps, any of which can fail or be the last before a crash;
recovery writes by id what it read earlier. *Correct when*: no job exceeds its
retry budget or is given up before it is used; batches exclude each other; *sent*
means sent; finished rows stay finished; every job is settled in the end.

**Mail queue scheduler** (same file, `modules/email/events.ts`). *State*:
`currentTimeout`, `wakePending`, the wake listener. *Operations*:
`scheduleNext`, `onWake`, timer callbacks, start and stop. *Hard*:
`scheduleNext` awaits its interval before it arms a timer, so a wake, a stop or a
start may fall into the await; a wake during a batch is deferred to the batch's
`finally`. *Correct when*: polling never stops, no wake is lost, and a wake does
not wait for the interval.

**Mail service** (`modules/email/service.ts`, `catalog.ts`, `spam-guard.ts`,
`transport.ts`, `health.ts`). *Operations*: `send` (preferences, cooldown, depth
cap, anti-spam quota, rendering, insertion, wake). *Hard*: guards that count and
then insert; a mail that is not rendered is filed as failed and reported as
enqueued. *Correct when*: the cap holds, cooldowns suppress duplicates, urgent
mail passes.

**Share lifecycle** (`modules/share/service.ts`, `repository.ts`,
`lifecycle.ts`). *State*: `isActive`, `deactivationReason`, `deactivatedAt`,
`expiration`, `maxViews`, `views`, `notifiedForPendingDeletion`. *Operations*:
`getShare` (gate, atomic increment, re-read, transition at the limit),
`updateShare`, `pauseShare`, `resumeShare`, `deleteShare`. *Hard*: seven places
write the row, most of them by id from a row read several awaits before.
*Correct when*: views stay within the limit, the three lifecycle fields agree,
and only a share at its end is closed.

**Cleanup of shares** (`modules/cleanup/service.ts`,
`cleanup.scheduler.ts`). Phase 1 `deactivateEndedShares` (expired, maxed, paused
and expired), phase 2 `deleteDeactivatedShares` (warn, delete). *Hard*: a query,
then a loop of mails, audit writes and updates by id. *Correct when*: nothing is
deleted before its grace period, a mere pause is never deleted, every ended share
is closed and deleted in the end.

**Reverse shares** (`modules/reverse-share/upload.service.ts`,
`multipart.service.ts`, `service.ts`, `repository.ts`). *State*: rows of
`ReverseShareFile`, objects and incomplete multipart uploads in the bucket, and
`uploadSessions`, the in-memory debounce of notices. *Operations*: presigned URL
and registration, multipart create, complete and abort, deletion of a file or
of the share, activation, the notice to the owner. *Hard*: rows and objects change
in separate steps, in different orders; direct registration counts and creates in
two steps, completion in one transaction; the callback of a debounce timer awaits
while new uploads arrive. *Correct when*: the limit holds as far as the code
promises, no object in use is deleted, what is not in use is reclaimed, and every
file is announced.

**Orphan sweep and cleanup of reverse shares** (`modules/cleanup/service.ts`:
`deleteReverseShareWithStorage`, `sweepOrphans`). Rows without an object, objects
without a row, abandoned multipart uploads, all older than a cutoff. *Hard*: what
it read, known keys and listings, is stale when used.

**Notification scheduler** (`modules/notification/notification.scheduler.ts`).
Daily: announces expiring and expired shares, sets `notifiedFor*`. *Hard*: the
cleanup sends the same notices, and owners reset the flags between its query and
its write. *Correct when*: each end is announced once, and again after a renewal.

**Refresh tokens** (`modules/auth/refresh-token.service.ts`,
`token-version.ts`, `routes.ts`; `src/apps/web/src/config/api.ts`). *State*: the
table of tokens with their families, `tokenVersion` and its cache, the cookie that
the tabs of a browser share. *Operations*: login, refresh (a claim, a new token, an
answer), logout, everything that revokes, pruning. *Hard*: a rotation in flight
while everything is revoked; two tabs that refresh at once; a stale read stored in
the cache. *Correct when*: one login has one live token, an alarm means that a token
was used twice, and after a revocation nothing old is accepted beyond the documented
delay.

**Accounts** (`modules/user/service.ts`, `modules/invite/service.ts`,
`modules/ldap/sync.service.ts`, `cleanup/service.ts`:
`cleanupDeactivatedAccounts`). *State*: role, activity and `deactivatedAt` of each
account, the invite, the mutex and the log of the synchronisation. *Operations*:
registration of the first user as administrator and by invite, activation, the
last-administrator guard, the LDAP synchronisation, the purge. *Hard*: guards that
count before a write; a synchronisation that changes the activity without the date; a
purge that lists and then deletes. *Correct when*: an administrator remains, and nobody
active is purged.

**Files, folders and quotas** (`modules/file`, `modules/folder`, `modules/quota`,
`cleanup/service.ts`: `enforceQuotaOverage`). *State*: the tree of folders, the place
of each file, what shares list, `quotaExceededSince`. *Operations*: uploads, copies,
folder moves, deletions, evaluation of the quota, deletion on overage. *Hard*: usage
computed before the row is created; a walk over the ancestors before a move is written;
a clock kept by evaluations that nobody awaits. *Correct when*: folders form a tree, the
hard quota holds, the clock runs while it should, and files in use are kept.

**Two-factor authentication** (`modules/two-factor/service.ts`,
`modules/auth/trusted-device.service.ts`, `completeTwoFactorLogin` in
`modules/auth/service.ts`). *State*: whether it is on, the list of backup codes,
`lastTotpStep`, the trusted devices. *Operations*: setup, verification of a TOTP or
backup code at a login, remembering a device, switching off, new backup codes. *Hard*: a
password is checked between the read of the row and its write; backup codes are read,
marked in memory and written back by id, while TOTP steps use a conditional update;
devices are removed in a statement of their own, after the write. *Correct when*: a code
works once, and a device skips the second factor only if one was shown for it.

### Other components

Login attempts and challenges (counters and tokens in a table), external
identity providers (protocol glue with a stateless cookie), groups, audit log and its
retention, settings, images, administration and health endpoints, maintenance scripts,
the web application beyond its refreshes, the documentation site and the container
start-up. `PROJECT.json` lists each of them with what is modelled of it.

### How they interact

- Everything that notifies calls the mail service, which inserts rows that the
  mail queue takes over; a wake event couples the service to the scheduler.
- Visitors, owners and the cleanup run share the row of a share, without locks.
- Uploaders, owners and the cleanup run share a reverse share's rows and objects.
- The cleanup and the notification scheduler announce the same end of a share and
  share its flag `notifiedForExpired`; owners reset it.
- Administrators, the LDAP synchronisation and the cleanup write the same accounts;
  each way to take a right away ends the sessions of the account.
- The boot (`server.ts`) starts the schedulers, each with a first pass; a crash
  loses every request, tick, timer and run but no row and no object. A signal does the
  same: `server.ts:199-200` exit at once, so the flush of pending notices that an
  `onClose` hook registers never runs.

## 2. Modules

| Module | Models | Extends |
|---|---|---|
| `Mailbox` | what the mail queue promises of each mail (abstract specification) | |
| `EmailQueue`, `EmailHistory` | jobs, ticks, recovery, pruning, crashes; their refinement of `Mailbox` | |
| `MCEmailQueue` | instances of it for TLC | `EmailHistory` |
| `EmailScheduler` | the timers that drive the ticks | |
| `TwoPhases` | what is promised of a share's lifecycle (abstract specification) | |
| `ShareLifecycle`, `ShareHistory` | one share: visitors, owner, cleanup run; their refinement of `TwoPhases` | |
| `MCShare` | the three parts of its instance | `ShareHistory` |
| `UploadStorage`, `UploadHistory` | rows and objects of a reverse share; its limit | |
| `MCUpload` | symmetry | `UploadHistory` |
| `Notices`, `NoticeHistory` | notices of uploads and of the end of a share | |
| `MCNotices` | the two parts of its instance | `NoticeHistory` |
| `Accounts`, `AccountHistory` | users, invite, LDAP synchronisation, purge | |
| `MCAccounts` | symmetry, and the two parts of its instance | `AccountHistory`, `TwoFactorHistory` |
| `Logins` | what refresh tokens promise (abstract specification) | |
| `Sessions`, `SessionHistory` | refresh tokens, versions, cache, tabs; their refinement of `Logins` | |
| `TwoFactor`, `TwoFactorHistory` | TOTP steps, backup codes, trusted devices | |
| `MCSessions` | symmetry | `SessionHistory` |
| `Files` | files, folders, shares of them, folder moves | |
| `Quota` | measuring, clock and deletion on overage, over the rows of `Files` | `Files` |
| `FileHistory` | both with history variables | `Quota` |
| `MCFiles` | symmetry | `FileHistory` |
| `EmailQueueProofs`, `EmailSchedulerProofs`, `ShareProofs`, `UploadProofs`, `AccountProofs`, `SessionProofs`, `FileProofs`, `NoticeProofs` | proofs | the module they are about, with its history |

A module named *History* conjoins a recording step to every step of the module it
extends. History variables never restrict a step; they hold what the properties need of
the past. Most of them name an *excuse*: the unguarded writes by id make some promises of
the code fail when another party acts between a read and the write that relies on it, and
a property with an excuse says that this is the **only** way in which they fail.
`ShareLifecycle`, `Accounts`, `Sessions`, `TwoFactor`, `Files`/`Quota` and `Notices` are
separate because they share no state but what is a nondeterministic choice in the other.

**EmailQueue.** A job is a row; `"absent"` and `"pruned"` are the states before its
creation and after its deletion. A tick `t` has a program counter `pc[t]` named
after what it is about to do, `todo[t]` (the rows its query returned) and
`seen[t]` (the attempts it read of them). One action per await:
`Fetch`, `Lock` (the `updateMany` that claims a row), `Send`, `MarkSent`,
`MarkFailed`, `EndBatch` (the `finally`), `RecoverFind`, `RecoverUpdate`,
`Cleanup`. `Send` has the three outcomes that matter: accepted and reported,
accepted and lost, refused. `MarkLost` is `updateJobStatusWithRetry` after both
of its attempts failed. `Restart` keeps the rows and drops the ticks. Time is
abstracted to the two comparisons the code makes: `due` (`nextAttemptAt` has
passed) and `lockStale` (`lockedAt` is older than `STUCK_JOB_TIMEOUT_MS`).

**EmailScheduler.** A timer handle is free, armed, or where its callback is (its
batch, then its periodic duties). `awaiting` counts calls of `scheduleNext` that
wait for the configuration. `EndBatchAndWake` is the `finally` block that serves a
deferred wake. Here a tick is opaque; `EmailQueue` in turn lets any tick start at
any time, which covers whatever this module produces (with the limit of `Ticks`).

**ShareLifecycle.** One row, because no operation reads two shares. A visitor's
request is cut where `getShare` awaits (`VisitRead`, `VisitCount`,
`VisitReread`, `VisitClose`), an owner's into its read and its write; the cleanup
run into the query of each phase (`Find`) and the handling of this share
(`Handle`, `HandleDelete`), between which anything may happen since the run handles
other shares. `None` is null and `Unchanged` a field the request does not carry.
Days are the unit of time; `expiration < now` becomes `now > expiration`.

**ShareHistory** remembers the highest limit (`topLimit`), since when visitors are refused
(`closedSince`), whether the share was merely paused (`pausedByHand`), whether it was the
run that deleted it (`removed`), and `excused`: whether an owner's write fell between
another party's read and its write, or set a date already past. `reopened` marks the state
after an `updateShare` that opened a paused share without extending its date or raising its
limit; a change of the name is enough.

**TwoPhases.** The lifecycle as `automatic-cleanup.mdx` describes it, in which every
operation is one step: visitors enter while the share is served and are counted within its
limit, a share that is over ends, one that has ended for longer than the grace period is
removed, and the owner pauses, resumes, revises the terms and discards. Only a resumption
opens a paused share, or a revision that lengthens its terms. `ShareHistory!HasTwoPhases` is
`INSTANCE TwoPhases WITH phase <- Phase, guests <- Guests, since <- closedSince, waived <-
excused \/ reopened` and the columns of the row for the rest. A row is *open* while it is active,
*paused* if the reason is the owner's and *ended* otherwise, and a row that is gone was
*discarded* or *removed*. A visitor is a guest from the gate to the increment; the re-read at the
limit and the transition after it are one `End`, wherever it is written from. Queries,
warnings, failed phases, and restarts while nobody is a guest, are stutters. Nothing
is promised of a waived step: of none once `excused`, and not of the one that `reopened` the
share, after which the promise goes on. That step is where the code and the documentation
disagree (see [section 6](#6-limits)); without it in the mapping, TLC refutes the refinement in
four steps, a pause and a plain update.

**UploadStorage.** A key goes from `"unissued"` to `"url"` (a presigned PUT) and
`"spent"`, or to `"multi"`. `object` and `parts` are what the bucket has of it. A
slot is a registration in flight and then the row it created, `Direct` slots from
`registerFileUpload`, `Multi` slots from `completeMultipartUploadByAlias`. The owner
has one deletion in flight at a time. The run deletes an ended share, rows
first, and sweeps: `rows` and `row` (phase DB to S3), `list` and `orphans` (phase S3
to DB), `aborts` (multipart uploads). *young* and *old* say on which side of the
sweep's cutoff a thing is; the cutoff is fixed when the sweep starts, so nothing
turns old during one. S3 completes an upload once and refuses a second completion
of it; this is an assumption about the external store, as is that it reads its own
writes. A client is assumed to register by `registerFileUpload` what it stored with
a presigned PUT, as the web application does, and to complete what it uploaded in
parts.

**UploadHistory** remembers which direct registrations, and the rows they became, were
*overtaken*: another file was created after their count and before their own creation.

**EmailHistory** remembers which rows were *contested*: a recovery read one as stuck while
another tick still had it in its batch or its recovery. `recoverStuckJobs` and `processBatch` then both
write the row by id.

**Mailbox.** Each mail is absent, queued, sent, failed or pruned; it has a limit, the tries
that are over and how often the relay took it. `EmailHistory!QueueIsAMailbox` is `INSTANCE
Mailbox WITH mail <- [j \in Jobs |-> MailOf(j)], waived <- contested`, where `MailOf` has the
row's status with *pending* and *processing* as *queued*, its budget, its attempts, and
`delivered`. Claims, queries, recoveries that read, locks that go stale and most failures are
stutters of the mailbox. A mail whose row was contested is waived: nothing is promised of it
any more, and all the other mails keep their promise.

**Notices.** A timer `t` of `uploadSessions` is free, armed, or where its callback is:
`read` (it has fired and reads the reverse share), `count` and `insert` (inside
`EmailService.send`, whose depth check and insertion are two awaits), `delete` (the
removal of the session after the mail). `current` is the map's entry for the one
uploader, `gathered[s]` the files of a session *object*: the map and the closure of a
timer may refer to different objects, and this is what decides who is told of what. The
announcers `"daily"` and `"cleanup"` go through the same `count` and `insert`, then
`mark`, the write of `notifiedForExpired` by id; the cleanup closes the share before.
`OwnerRead`, `Pause` and `Redate`/`Extend` are the owner; `Take` is the queue that takes
rows up; `Exit` a signal or a crash.

**Accounts.** A request reads (`GuardTarget` and `GuardCount` are the two reads of the
last-administrator guard) and writes; `saw` is what it read and uses later. The
synchronisation is `SyncStart` (the mutex), `SyncLogged` (the log row), `SyncFetch` (the
directory), `SyncLocal` (the table), one `SyncMember` for each member in any order,
`SyncBatch` for those who left, and `SyncEnd`; each may fail where the code awaits.
`CleanupList` and `PurgeAccount` are the cleanup. Days are the unit of time.

**Sessions.** A refresh is `StartRefresh`, `ReadToken`, `Rotate` (the conditional
`updateMany`) or `LoseRotation`, `CreateToken`, and `Deliver` or `Lose`: an answer that is
lost leaves the browser with the rotated cookie. All access tokens ever signed are kept as
the claims they carry. `staff` are the operations that end sessions, cut into the write of
the row, the increment of the version, the invalidation of the cache and the revocation, in
the order of the code; `fill` are lookups of the version between their read and their write
into the cache. Each tab has one refresh in flight, as `config/api.ts` provides, until it
gives up waiting (`GiveUp`).

**Logins.** A token belongs to the login it descends from, and a login has one current
token at a time: it is spent, an heir is under way, the heir replaces it. Revocation takes
every current token but no heir under way, since `rotateRefreshToken` creates the heir
after its last check. `SessionHistory!Login` is `INSTANCE Logins WITH` `login` as the
`family` of each row, `current` as the unrevoked rows and `renewing` as the families whose
request is between `Rotate` and `CreateToken`; reads, replays, answers, versions and the
cache are stutters.

**TwoFactor.** `attempt[a]` is a request: a login that presents a step or a code
(`MatchStep` or `MatchCode` read the row, `ConsumeStep` is the conditional `updateMany`,
`MarkCode` the write-back of the list as it was read, `Remember` the device), a setup, a
switching off (`WriteDisable`, then `RemoveDevices`) or a renewal of the codes, each cut at
its awaits. A backup code is its list and its place on it, so that `unused` may hold codes
of a list that was replaced, which is what a write-back can do. A refusal changes nothing
and is left out, or is `Leave`, which is also a failed query, a crash and a login that
remembers no device. `clock` is `currentStep()`. `TwoFactorHistory` remembers the list in
force and its accepted codes, the accepted steps, for which devices a factor was shown
(`earned`), and the excuses: `outdated` attempts read the row before it was switched on or
off, `clashed` says that a write-back met another write, `astray` devices were remembered
by an outdated login, `kept` ones await a removal that comes later or fails.

**Files and Quota.** `parent`, `place` and `share` are rows that refer to rows; deletion
cascades. A move climbs one folder per step (`isDescendantOf`), then writes. `Quota` adds
requests that measure, await and create a row, the evaluation that follows without being
awaited, and the run over owners whose clock has exceeded the grace period: it measures,
picks orphans, picks the files of inactive shares, deletes one by one. A file has size 1,
and which of several candidates is the oldest is left open.

## 3. Runs

| Run | Question | Instance | Distinct states |
|---|---|---|---|
| `email_overlap` | Do overlapping ticks implement `Mailbox`, and keep budgets, exclusion and the truth of "sent"? | 2 jobs of one priority, 2 symmetric ticks, batch of 1, limit 2, recovery and pruning every 2nd tick, 1 crash, deliveries counted to 2 | 1,114,195 |
| `email_alone` | Without overlap: is every job settled? | 2 jobs, 1 tick, 1 crash, deliveries counted to 1 | 65,586 |
| `email_scheduler` | Does the timer chain survive every interleaving, and is every wake served? | 4 timer handles, 2 starts, 2 wakes | 62,168 |
| `share` | Do visitors, owner and cleanup follow `TwoPhases`, up to the named exceptions, and keep the limit, the fields and the grace period? | 2 symmetric visitors, limits {1, 2}, dates {0, 1, 2}, 5 days, grace 1, warning 1, in three parts | 889,720 |
| `share_live` | Is every ended share deactivated, and every share left deactivated deleted? | 1 visitor, one limit, one date, 2 days, no grace | 32,652 |
| `upload_limit` | Do racing uploads keep the limit unless overtaken, and is no object in use deleted? | 2 symmetric keys, 1 direct and 2 symmetric multipart slots, one file allowed | 279,222 |
| `upload_live` | Is everything that failures leave behind reclaimed? | 1 key, 2 direct and 1 multipart slot | 31,681 |
| `accounts` | Do an administrator and every active account survive requests, synchronisation and purge; does the synchronisation's batch hit only who left; does a second factor work once? | 2 symmetric accounts, 2 symmetric requests, period 1, days 0 to 2, 3 operations begun; 2 attempts, 1 device, 2 lists of 2 codes, 3 steps; in two parts | 438,246 |
| `account_grace` | Does the purge hit only accounts that have stayed deactivated? **Violated** | the same | |
| `sessions` | Do tokens implement `Logins`, is an alarm true, does a revocation hold? | 3 tokens, 2 requests, 2 tabs, 1 operation, 1 lookup, 2 versions, 4 begun | 243,870 |
| `files` | Do folders stay a tree, do limits hold, and what may the quota deletion take? | 2 folders, 2 files, 1 share, 2 moves, 2 requests, 3 rows at a time, 2 begun, limit 1, factor 2, no grace, 2 days | 269,515 |
| `notices` | Is every file and every end announced, and once? | 3 files, 2 timers, 2 session objects, cap 1, at most 2 rows, in two parts | 48,851 |

**What the passing runs show.** `PROJECT.json` says it run by run; the comment above
each property names the behaviour it is about. Every property has a mutant there: a
small, plausible fault of one definition (the operators marked *Mutant* in the
modules) under which the same run finds the property violated.

**What the violated run shows.** `cleanupDeactivatedAccounts` selects the overdue accounts
and purges them by id, one after the other. An account that an administrator activates in
between loses what it owns while it is active, against the comment of
`cleanup/service.ts:822`, "accounts that have stayed deactivated". The synchronisation with
LDAP widens the window: it changes `isActive` without `deactivatedAt`, so an account that
it reactivates keeps its old date and is overdue at once when it is deactivated again.
`PurgedAfterGrace` says, and `PurgesAreDue` proves, that these are the only ways.

**Parts.** `MCShare`, `MCNotices` and `MCAccounts` add a constant variable `part` to the module they
extend; a part restricts what happens, and the run explores each of them. In `share` they
are visitors against changing limits on one day, visitors against an expiry on two days, and
dates, pauses and cleanup runs on five days without visitors. What is left out is visitors,
two limits and five days at once: a visitor's request relies on the row alone, and the day
enters it only in the comparison with the date, which the second part decides both ways.
In `notices` they are uploads while the share rests and the share without uploads, which
have nothing but the rows of the queue in common; `Take` and the cap are in both. In `accounts`
they are the table of accounts and the second factor of one account, two modules without a
common variable. The proofs are about the modules without parts.

**Why the bounds are enough.** Each instance is chosen so that every race has its parties.
Two ticks are what it takes for a recovery to meet a batch, two visitors for a limit of one
to be contended, two completions and a direct registration for a limit of one to be exceeded
by an overtaken registration and kept by everybody else (`LimitInv` was also checked by TLC
with two registrations of each kind, 2,003,857 states). A batch of one with two jobs lets a
tick leave a due row to another one. A retry limit of two distinguishes the first failure
from the last; rendering failures add rows that were never pending. With recovery and
pruning every second tick there are ticks with and without them; an error of the recovery is
a pruning without it. Jobs of two priorities are in `email_alone`; what ticks that overlap
do to each other's rows does not depend on the order of a batch of one. Counted to two, the
deliveries show a mail that is handed over twice in its first try; that settling does not
depend on the count is why `email_alone` counts to one. Four handles suffice because at most
that many timers are ever armed or running with two starts and two wakes. Five days hold a
date, its grace period, its warning day and a renewal. Two accounts are two administrators
who deactivate each other; three operations begun are two requests that meet and a cleanup,
or two synchronisations and the cleanup that acts on the date they left, as the initial
states include an account that was deactivated before; three days hold a deactivation and
its period. Three tokens are a login, its heir and the heir of that one, or two logins and a
rotation; two tabs refresh at once. Two attempts are two logins with one code, or a login
overtaken by a switch; two codes are one that is used and one that a write-back revives, two
lists one that is in force and one that was, three steps the window around the current one.
Two moves of two folders close the shortest cycle. A limit of one and a factor of two set
the hard limit and the soft one apart. Two timers and two session objects suffice for a
callback that awaits while a new session is opened under its key, and three files for one
before, one during and one after. Files, timers and sessions are model values without
symmetry where a liveness property is checked.

The liveness runs of shares and uploads are smaller, as their question needs one share or
one key; the other parties' steps are all in them. Counters that would grow for ever are
bounded by guards (`MaxRestarts`, `MaxStarts`, `MaxWakes`, `MaxTime`, `MaxViews`,
`DeliveryCap`, `MaxStarted`, `MaxVersion`, `MaxRows`, `MaxDay`, `MaxReceived`,
`MaxPending`, `MaxLists`, `MaxClock`); in proofs those constants are arbitrary. `CHECK_DEADLOCK` is off where
`MaxStarted` lets an instance run out of operations (`accounts`, `account_grace`,
`sessions`, `files`), and on everywhere else.

## 4. Fairness

- *Ticks and timers*: a configuration read returns, an armed timer fires, a callback
  settles. Node's event loop and the timeouts of the mail transport justify weak
  fairness of these steps; the scheduler's `catch` blocks see to it that the chain
  goes on after an error, which `PollingNeverStops` checks.
- *Database operations that may fail* (`Fetch`, `Lock`, `MarkSent`, `RecoverFind`, ...)
  have strong fairness of their success: an operation that is tried again and again does
  not fail every time. No fairness is assumed of one particular try, so lost
  updates and failed phases remain possible at any point.
- *Cleanup runs*: weak fairness of the run's steps and strong fairness of its queries and
  writes, since a restart or an error begins the run anew. The runs presuppose
  that the cleanup is switched on (`autoCleanupEnabled`, and for the sweep
  `autoCleanupOrphansEnabled`); otherwise nothing is promised.
- *Uploads*: weak fairness of the cleanup run and of expiring URLs, strong fairness of
  ageing (nothing turns old *during* a sweep, so ageing is enabled only between sweeps),
  and, from some point on, no failures of the sweep and no restarts. Failures of the
  uploaders' and owner's own calls stay unrestricted. No fairness is assumed of
  uploaders, visitors or owners.
- *Notices*: weak fairness of the queue that takes rows up, of each timer and its callback
  (a timer fires, each of the callback's awaits returns, with success or failure), and of
  what the daily check does after its query; strong fairness of its query, its
  count below the cap and its insertion. The check runs every day
  at a fixed hour (`scheduleNext` in `notification.scheduler.ts` chains its timeouts, after
  errors too), at which the process is assumed to be up, so a share that stays expired is
  found again and again, and is not refused every time. No fairness of the cleanup
  run, the owner or the uploader: the check alone must do. Exits stay unrestricted.
- `accounts`, `sessions` and `files` check safety only and assume no fairness.

## 5. Proofs

TLAPS proves the following for all values of the constants that satisfy the
assumptions (finite sets, natural numbers, reserved values such as `NoTimer` or `None`
distinct from the rest). TLC evaluates the same assumptions in every run.

| Module | Theorems |
|---|---|
| `EmailQueueProofs` | `TypeCorrect`, `QueueInvariant`, `BudgetIsKept`, `NoJobIsGivenUpEarly`, `BatchesExcludeEachOther`, `SentIsTrue`, `OverlapInvariant`, `DeliveriesAreBounded`, `QueueImplementsMailbox` |
| `EmailSchedulerProofs` | `SchedulerInvariant`, `PollingChain`, `DeferredWakeIsKept` |
| `ShareProofs` | `TypeCorrect`, `LifecycleInvariant`, `FieldsAgree`, `HistoryInvariant`, `ViewLimitKept`, `GraceKept`, `PauseKept`, `ClosedAtItsEnd`, `ShareHasTwoPhases` |
| `UploadProofs` | `StorageInvariant`, `LimitInvariant`, `LimitKept`, `ReferencesKept`, `YoungSpared` |
| `AccountProofs` | `AccountsInvariant`, `SingleUseInvite`, `LastAdminGuarded`, `PurgesAreDue`, `BatchHitsLeavers`; of the second factor `FactorInvariant`, `ListsAreTrue`, `DevicesEarned`, `OneUse` |
| `SessionProofs` | `SessionInvariant`, `CacheIsFresh`, `ChainIsLinear`, `SessionsImplementLogins`, `LoginsEnd`, `TrueClaims`, `AlarmsAreTrue`, `RevocationsHold` |
| `FileProofs` | `FilesInvariant`, `FoldersAreATree`, `GraceClockRuns`, `LimitsAreHeld`, `DeletionsAreSafe`, `GraceIsHonoured` |
| `NoticeProofs` | `NoticesInvariant`, `NothingForgotten`, `FlagEarned`, `AnnouncedOnceHolds`, `CapHolds` |

Every safety property of a passing run is the subject of a theorem. Some theorems are about
properties that no run lists on its own: `FailedOnlyWhenExhausted`, `ChainNeverBreaks`,
`DeferredWakeHasABatch`, `OneAccountPerInvite`, `DeliveriesWithinBudget`, `LinearChain`,
`OverIsForGood`, `ListIsTrue`, `PausedIsKept`, `DeactivatedOnlyAtItsEnd`, and the inductive
invariants `QueueInv`, `StorageInv`, `HistoryInv` (of a share, of uploads, and of the
queue), `SessionInv`, `FactorInv`, `FilesInv` and `NoticeInv`.

**The mail queue.** `AttemptsWithinBudget` is not inductive: a tick charges an attempt
from a snapshot. `QueueInv` adds that every snapshot still leaves an attempt
(`ReadsLeaveAnAttempt`), that a tick about to record a success has delivered that
very row (`MarksWhatItDelivered`), that the flag covers each batch
(`FlagCoversBatch`), and that unused rows are blank. `TickKeeps` has a step for each
action of a tick; what a batch or a recovery does to one row's counters is the lemma
`ChargeKept`.

**The mailbox.** `QueueImplementsMailbox` says that the queue implements `Mailbox`, however
many ticks overlap, for every mail whose row was not contested. The exception is needed: a
recovery of one tick updates by id a row that another tick has meanwhile marked sent, the
row is pending again, and the mail goes out twice; the mailbox has no such step. It is also
the only one. `HandsInv` says that a row which no recovery took from another tick is read by
one tick at a time, and that what this tick has read of it stays true (`Fresh`): batches
exclude each other, a claim finds the row pending, and a recovery reads rows that are in
processing, which are either in somebody's hands, and then contested, or left behind by a
crash or a lost update. `RelayInv` adds that the relay has taken a mail at most
once for each attempt charged and once more for the one in progress. `TickHands` shows for
each action of a tick that both are kept, and `MailTick` which action of the mailbox it is; all
other rows see a stutter (`MailOne`). `HistoryInv` was also checked by TLC as an invariant of
the instance of `email_overlap` with both priorities before it was proved.

**The scheduler.** Exclusion by the flag, the deferred wake and the chain support each
other: `SchedulerInv` is their conjunction with the types.

**A share.** `LifecycleInv` is enough for the fields. The properties about the past
need `HistoryInv`: which limits the requests in flight carry (`LimitInv`), that the
histories mean what they say (`ClosedInv`), and, as long as the history is not excused,
that every party still sees the row as it read it (`SelectedInv`, `LastViewInv`),
that the reason and the date of a deactivation are true (`ReasonInv`, `DateInv`) and that
a share which ended automatically is over until its terms change (`EndedInv`). The
last five are what the unguarded writes by id would break, which is why `excused` is
needed, and they show exactly when. The proof goes by kinds of steps
(`OwnerSteps`, `VisitSteps`, `SweepSteps`, collected in `StepKinds`): what a step may do to the
row, rather than which of the many actions it is.

`ShareHasTwoPhases` maps these kinds to `TwoPhases`, party by party (`VisitorPhases`,
`RunPhases`, `OwnerPhases`); `SeenSteps` shows once that `closedSince` moves as `Refused`
says, so that it remains to find the abstract action. Each of its guards is a part of the
invariant that only an excuse would break: a guest is counted within the *present* limit and
a visitor closes a share that is over because its request still sees the row
(`LastViewInv`), the run ends only what is over (`SelectedInv`) and removes only what
visitors have been refused for long enough (`SelectedInv`, `ReasonInv`, `DateInv`), and an owner who has read
the present row (`UpdateStep`) opens what has ended only by terms that are longer, since it was
over until then (`EndedInv`). What is paused is opened by `Resume`, by a `Revise` that lengthens
its terms, or by a step that is `reopened`.

**A reverse share.** `FilesWithinLimit` says exactly how far the limit holds: a completion
counts and creates in one transaction, a direct registration in two steps, so the files
beyond the limit are those of registrations that were overtaken in between, and no others. It
needs `LimitInv`: unless every registration past its count was overtaken, there is still
room for one more file. `LimitStep` shows that a new row either finds that room or belongs
to an overtaken registration, and `OvertakenKept` that no step forgets who was overtaken.

`ReferencedObjectsAreKept` needs three reasons why a deletion does not hit a row in use: a
rejected completion owns its object, because S3 lets one completion of an upload through
(`CompletionInv`); a share is gone before the run deletes its objects (`ShareInv`); and the
keys the sweep found unknown contain no row's that was old already, for nothing turns old
while it runs (`SweepInv`, with `PartsInv` for the multipart uploads). `SlotsInv` ties the
kinds of slots to the kinds of keys. Again the steps are first classified by what they do to
slots, keys and the run (`Kinds`, `KeySteps`, `RunSteps`, `RowAdded`), and each part of the
invariant is one lemma over these kinds.

What `ReferencedObjectsAreKept` leaves open is as telling as what it says: a row registered so
late that its object was older than `autoCleanupOrphanMinAgeHours`, between the sweep's read
of the known keys and its deletion, loses its object. The comment at
`cleanup/service.ts:1155` promises that objects of rows are never deleted; it holds for rows
that existed when the keys were read. The next sweep removes the dangling row
(`DanglingRowsAreRemoved`).

**Accounts.** `GuardInv` carries the two reads of the guard to the write: a request past
its guard leaves another administrator behind unless it was overtaken. `DateInv` relates
`deactivatedAt` to the day since which the account has really been inactive, up to
`stale` dates; `ListInv` says that the selected accounts are still due, up to `doubtful`
ones. `SyncInv` ties the lists of the run to the table and the directory, and
`MutexReleased` counts the log rows that are running.

**Sessions.** `LinearChain` and the alarm support each other through `TokenInv` (where a
new token is: nobody holds it before the answer) and `CookieInv` (the browser holds a
rotated token only while an answer is on its way, or because it was lost). `AlarmInv` then
says that whoever holds a rotated token was overtaken or lost an answer,
`RevocationInv` that a refresh which began before a revocation holds a dead token, and
`ReadInv` with `CacheInv` that no version read, cached or signed is ahead of the row and
that claims of the current version are true.

`SessionsImplementLogins` maps each step to one of `Logins` or a stutter. The guards of the
abstract steps are what is to be shown: `Spend` asks that the login is not being renewed and
`Renew` that it has no current token, and both are `LinearChain`, which counts the requests
about to create an heir together with the unrevoked rows. Since every way to end a request
only takes logins out of `renewing`, `LoginsEnd` follows: what ended stays ended.

**The second factor.** `AttemptInv` says that what an attempt has read is still so, as far as
switching on and off goes, unless the attempt is outdated. A step is consumed by a conditional
update, so `OneUse` needs only `StepInv`, that `lastTotpStep` is no less than any accepted
step: it holds under every interleaving. The list is written back by id, and
`ListIsTrue` holds only as long as no write-back met another write; what `OneUse` proves
about codes is therefore bounded by `clashed`, and the run finds the shortest such meeting
when the excuse is taken away. `DevicesEarned` is inductive with `NoneLeft`, its
counterpart for the time when the factor is off: the devices left then are those of the next
enrolment.

**Files.** `Forest` rests on `WalkInv`: the folders that a move has read and the one it
reads next hold the target and not the folder that moves, and are closed under parents
unless another move crossed. When the walk ends at the root, the closed set shows that the
new edge closes no cycle; acyclicity is stated by sets of folders and not by
paths, so no induction is needed. `RequestInv` bounds what was measured, `ClockInv` and
`blurred`, `lapsed`, `dipped` account for the grace clock.

**Notices.** `NoFileForgotten` is inductive with `TimersHold`. For the end of a share,
`MarksMean` says that an announcer about to write the flag has announced the present end or
is `void`, `AnnouncementShows` that an announcement which was not left unmarked shows in the
flag or soon will, and `RepeatsArePaired` that whoever is on the way to announce it again has
met the other announcer. `RoomIsKept` carries the count to the insertion.

## 6. Limits

*Model-checked only.* All liveness properties (`EveryJobSettles`, `EveryWakeIsServed`,
`PollingNeverStops`, `EndedIsDeactivated`, `DeactivatedIsDeleted`, `StorageIsReclaimed`,
`DanglingRowsAreRemoved`, `EveryNoticeLeaves`): fairness and `ENABLED` are outside what TLAPS
can prove here. No module uses a `RECURSIVE` operator, and nothing rests on induction over
data, which the available provers cannot instantiate.

*Abstractions.* Times are comparisons or days. Names, sizes, types and contents of
uploads are an upload that is accepted or refused; in `Quota` a file has size 1, and the soft
limit is `Limit * Factor`: a factor of 1 stands for soft enforcement switched off, the
absolute cap, which can only lower that limit, is left out, and so are unlimited owners
(`reverse-share/upload.service.ts:380-401`). In `Accounts` a request begins while its
administrator is one: `admin-prevalidation.ts:20-28` trusts the claim of the access token, which
may lag behind the row while a version is cached (`Sessions!ClaimsAreTrue`). A share's
passwords, recipients and aliases play no part in its lifecycle. An owner has one request in
flight, in `ShareLifecycle` as in `UploadStorage` and `Notices`. `maxFiles`, limits and
retention settings do not change during a behaviour. What an account owns is one thing in
`Accounts`. A login's second factor is one step that succeeds or fails in `Sessions`, and
`TwoFactor` leaves the session out. A database keeps its rows and
serves one statement at a time. In `Notices` there are one uploader and one share whose
owner is active, and preferences, cooldowns and settings are a refusal that may happen at
any time.

*Where the code and its words part, seen while modelling.* The excuses of the properties name
most of these; only the first has a run of its own.

- The purge of reactivated accounts (`account_grace`).
- `queue.ts:150`: a recovery returns a row to pending that another tick has marked sent;
  `queue.ts:183` calls sent and failed terminal. `contested` says when.
- `queue.ts:390`: `tickCount` is read after the batch was awaited. Ticks that start meanwhile
  move it on, and a batch's own tick may then never meet a multiple, so that under the
  fairness above the periodic recovery need not come while ticks overlap. With two ticks TLC
  shows a job that stays in processing for ever, which is why `EveryJobSettles` is checked
  for ticks that do not overlap.
- `queue.ts:415`: a wake's immediate timer is replaced by an interval timer when the wake
  falls into the await of `scheduleNext`; `queue.ts:437` promises an immediate tick.
- `share/service.ts:653-663`: any update of a paused share that is not over publishes it, a
  new name too. `automatic-cleanup.mdx:38` says that a share paused by hand "stays deactivated
  indefinitely until you resume it", and the comment at `share/service.ts:647-651` speaks of
  extensions only. `TwoPhases` says what the documentation says; `HasTwoPhases` leaves out
  exactly these steps (`reopened`).
- `cleanup/service.ts:472`: a share renewed after the deletion query is deleted while
  active; `automatic-cleanup.mdx:26` says that nothing jumps from live to gone.
- `auth/routes.ts:270-272`: a logout whose access token has expired clears the cookies and
  leaves the refresh token valid. Two tabs that refresh at once, or a lost answer, raise
  the replay alarm and log the user out everywhere.
- `two-factor/service.ts:230`: two requests that present codes at once may both be accepted
  with one code, or bring each other's code back, although `service.ts:158` says that backup
  codes are "marked used". A code that is written back after `generateNewBackupCodes` puts
  the old list in the place of the new one.
- `two-factor/service.ts:405-408`: the gate does not use the code up, as the action that
  follows "invalidates the relevant material anyway"; after a renewal of the backup codes
  a TOTP code still works for a login.
- `two-factor/service.ts:293-296`: no device shall skip the factor when it is switched on
  again; one that a login verified before the switching off remembers after it does, and so do
  all if the removal fails.
- `two-factor/service.ts:79-80` keeps the hashes of the codes that `generateSetup` shows "for
  persistence at enable time"; `verifySetup` generates others.
- `quota/repository.ts:38`, `cleanup/service.ts:951-954`: a share of a folder further up
  does not protect the files it serves from the deletion on overage. Deletions by the
  owner never evaluate the quota (`quota/service.ts:329-333`), so a clock may run on although
  the usage was below the limit in between; and a run frees down to the limit, while the clock
  is cleared only below it.
- `folder/routes.ts`: two moves that meet can close a cycle, on which walks and recursive
  queries do not end.
- `server.ts:199-200`: signals exit without `app.close`, so the flush of
  `reverse-share/routes.ts:37` ("so no emails are lost") does not run.
- `notification.scheduler.ts:124`: a mark by id after the owner's extension silences the next
  end. A mail whose rendering fails is reported as enqueued and sets the flag all the same.
- `stopEmailQueueScheduler` during an await of `scheduleNext` does not stop polling (in the
  program, only the end of the process follows a stop).
- An owner whose account is inactive, or whose share's deactivation is older than the
  warning window at the first run, is not warned before the deletion.
- `YoungUploadsAreSpared` speaks of multipart uploads only: a direct upload that is stored a
  second time after the sweep listed its first, old object is deleted with it.

*Not modelled*: see the `components` of `PROJECT.json`, each with its reason.

## 7. Plan

Done: the mail queue, its scheduler and the mailbox it implements, ticks that overlap included; the lifecycle of shares with
the cleanup and its two phases; the files of reverse shares with the orphan sweep; accounts with the
synchronisation and the purge; sessions and the logins they implement; the second factor;
files, folders and quotas; notices. Next, most important first:

1. **Mail service guards**: cooldown and anti-spam quota before the insertion, which count and
   then insert as the depth cap does.
2. **Login**: attempts and challenges.
3. The other checks of the notification scheduler, and the notice of a share whose views
   are used up, in `Notices`; the sweep of files and images without a row in `UploadStorage`.
