# SalesFlow backend: TLA+ verification project

SalesFlow is a multi-tenant CRM backend: Django REST views, PostgreSQL (READ
COMMITTED), Redis, Celery workers with a beat schedule. This directory holds TLA+
models of its logic, the TLC runs that check them and TLAPS proofs about them.
Paths below are relative to `src/`.

1. [Inventory](#1-inventory) · 2. [Modules](#2-modules) · 3. [Runs](#3-runs-what-they-check-and-with-which-bounds) ·
4. [Fairness](#4-fairness) · 5. [Proofs](#5-proofs) · 6. [Disagreements found](#6-disagreements-found) ·
7. [Not modelled](#7-what-is-not-modelled) · 8. [Extending the project](#8-extending-the-project)

## 1. Inventory

What makes this system hard is the same nearly everywhere: a view reads a row
through the ORM, checks its rules on that **copy**, and writes columns later. No
`select_for_update` is used anywhere, so between read and write any other request
may run. What protects the data is what PostgreSQL does by itself: UNIQUE and
CHECK constraints, row locks taken by UPDATE and kept to the end of the
transaction, and rollback. Where a request is no transaction, as in the PATCH of
a ticket or in the sweep of activities, not even that helps between two statements.

| component | state | operations | interacts with | hard behaviour | what makes it correct | module |
|---|---|---|---|---|---|---|
| **leads pipeline, Won pathway** (`apps/leads`, `apps/customers/services.py`) | `leads`, `lead_stage_history`, `customer_lead_links`, the manual-selection flag | create, transition, resolve, PATCH, DELETE, restore | creates customers, notifies owners | guards on copies, search then insert, rollback of a losing winner, lock order | Won is terminal; a lead gets one customer, recorded alike in two places; no orphan customers; history matches stage | LeadPipeline |
| **customers and contacts** (`apps/customers`) | `customers`, `contacts` | PATCH, DELETE, restore, contact CRUD | read by the Won search | edits between the two queries of the search | matches are active customers; one party, one customer | LeadPipeline |
| **refresh tokens, password reset** (`apps/accounts`) | password (SQL), `user_tokens:*` and `refresh_blocklist:*` (Redis) | login, logout, reset | two stores, no transaction | clock read before setex, crash between stores, key expiry | what was revoked stays dead; no live token is forgotten | RefreshTokens |
| **memberships, roles, ownership** (`apps/organizations`) | `memberships`, `audit_logs` | PATCH role and reports_to, DELETE, restore | permission class of every view, audit log | role checked on a copy, two transactions in one PATCH | one active row per user; one Owner; nobody elevates himself; the log accounts for every role | Membership |
| **invitations** (`apps/organizations`) | `invitations`, mail tasks | create, resend, accept, nightly sweep | creates users and memberships, Celery | the task reads the row when it runs, sweep against accept, crash before `delay` | acceptance is final and leaves a seat; the current token reaches its reader; every invitation ends | Invitations |
| **tickets** (`apps/tickets`) | `tickets` and their notices | POST, PATCH, DELETE, restore | notifications, roles | five statements of one PATCH, each committed by itself, from one copy | the status follows its life cycle; every event is told once | Tickets |
| **activities and sweep** (`apps/activities`) | `activities` and their notices | POST, PATCH, DELETE, restore; 15-minute sweep | notifications, Celery beat | search then insert, overlapping sweeps, an error that ends the sweep of every organisation | a notice is written once, in time, and in the end | ActivitySweep |
| **comments, mentions** (`apps/collaboration`) | `comments`, `comment_mentions`, notices, mail tasks | POST, PATCH, DELETE, restore, mail task | leads' owners, members, Celery | task queued inside the transaction, overlapping edits, lost visibility | the mentions are those of the body; a deleted comment stays deleted; at most one mail is lost | Collaboration |
| **request context** (`apps/core/context.py`, `middleware.py`, `managers.py`, `views.py`) | two context variables per process | set, clear, bypass | every scoped manager | left set by an unhandled error; the process serves another tenant next | a request touches its own organisation only | Gateway |
| **idempotent POST** (`apps/core/idempotency.py`, `views.py`) | answers in Redis | look up, store | every idempotent view | a retry that overlaps the first attempt, follows a crash, or comes late | all attempts are told the same | Gateway |
| **dashboard** (`apps/dashboard`) | answers in Redis | read | all tables | no write invalidates it; its time starts late | its age is bounded | Gateway |
| **role scopes, permissions** (`apps/core/permissions.py`, `viewsets.py`) | none | scope of a role | all list and detail views | several translations of one matrix | the permission matrix | Access |
| **signup, verification** (`apps/organizations`, `apps/accounts`) | users, organisations | signup, verify | mail queued inside the transaction | task before commit | every organisation starts with an Owner | Membership, Invitations (parts) |
| **audit log** (`apps/audit`) | `audit_logs` | append, list | memberships | written from copies | accounts for every role | Membership |
| **notifications** (`apps/notifications`) | `notifications` | append; list, mark as read | leads, tickets, activities, comments | told once, lost by a crash | see tickets, activities | four modules |
| normalisation, soft delete | columns of the tables above | | | classes of emails and phones; default querysets | | with their tables |
| attachments, lead tags and timeline, search, throttling, admin site, documentation pages, settings, `perf_check` | | | | read-only, append-only or configuration | | section 7 |

Every hazard is listed at its line in `PROJECT.json`, with the properties that
cover it or the reason none does.

## 2. Modules

| module | models | TLC instance | theorems |
|---|---|---|---|
| `LeadPipeline` | leads, Won pathway, customers, contacts | `MCLeadPipeline` | `LeadPipelineProofs` |
| `CustomerAssignment` | abstract: a lead gets a customer at most once, customers only come into being that way | refined by `LeadPipeline` | |
| `Membership` | members, roles, ownership and the audit log of one organisation | `MCMembership` | `MembershipProofs` |
| `Invitations` | invitations, mail tasks, sweep, accounts and seats | itself | `InvitationsProofs` |
| `RefreshTokens` | the refresh tokens of one user: SQL and Redis side by side | `MCRefreshTokens` | `RefreshTokensProofs` |
| `Access` | the permission matrix, scopes and assignment rules, as operators | used by the next three | |
| `Tickets` | the tickets of one organisation and their notices | `MCTickets` | `TicketsProofs` |
| `TicketLifecycle` | abstract: the life cycle of a ticket's status | refined by `Tickets` | |
| `ActivitySweep` | activities of all organisations, the sweep, notices | `MCActivitySweep` | `ActivitySweepProofs` |
| `Gateway` | request context, idempotent POST, dashboard cache | `MCGateway` | `GatewayProofs` |
| `Collaboration` | a comment on a lead, mentions, notices, mail tasks | `MCCollaboration` | `CollaborationProofs` |
| `CommentThread` | abstract: a comment and its mentions change together, as if each request were one step | refined by `Collaboration` | |

Names are the code's where TLA+ allows. In each module VARIABLES are the tables
(or Redis keys, or queues) plus one record `req[r]` per web worker: its program
counter and the local copies it has read. Variables and record fields that the code
does not have are commented *history*; they record what happened and no guard
reads them. Names ending in `_Something` marked *mutant* are plausible wrong
versions of the definition that follows them; no specification uses them.

The components that share rows are modelled together: the Won pathway with
customers and contacts; roles with the audit log; invitations with accounts and
seats; tickets and activities with the notices about them; comments with the
lead's owner, the members and the mail queue. The context, the cached answers
and the idempotency keys, which every request passes through, are one module.
Modules that only ask a role of another component take it as a constant, or
let it change as the environment's step (`RemoveMember`, `Reassign`, `Others`).

### LeadPipeline

A transition (`LeadStageTransitionView`, `LeadStageTransitionService.transition`)
is `BeginTransition` (read the lead, apply the guards, choose the reason), then
for a stage other than Won `CommitStage`; for Won, `ScanCustomers` (the UPDATE of
the lead, which takes the row lock, and the first query of the search),
`ScanContacts` (the second query), and one of `WinNewCustomer`,
`WinExistingCustomer`, `WinManual`. Manual resolution is `BeginResolve`,
`CommitResolve`. `Reject` is the ValueError, DoesNotExist or IntegrityError after
the search, `Crash` a rollback at any point, a deadlock victim included.
`CreateLead`, `PatchLead`, `DeleteLead`, `RestoreLead`, `EditCustomer`,
`EditContact` are the other views.

* *Atomic steps.* Uncommitted rows are invisible to others, so what a transaction
  writes is added by its commit step. `HoldsRow`/`RowFree` keep the lock of the
  lead row from `ScanCustomers` to the commit. The UPDATE and the first query are
  one step: acquiring a lock can be moved to the right up to the query. A request
  that edits by one blind statement (`save(update_fields=...)`) is one step: what
  it writes depends on nothing read before.
* *Data.* Emails and phones are classes of the normalisation; `Digitless` is
  the class of phones without a digit, which match nothing. `lost_reason` is
  whether it is set.
* *Left out.* Owner, source, tags, is_archived, names, the idempotency cache,
  `changed_by`: they influence none of the modelled guards.
* `Overlap` says whether a request may begin while another is served. With it
  FALSE the rules whose guards read a copy can be stated as they are meant.

### Membership

`Authorize` is the permission class reading the actor; `LoadPatch`, `LoadRemoval`
read the target; `ChangeRole`, `ChangeReportsTo`, `Remove`, `Restore` are the
transactions, the first two being *separate* transactions of one PATCH. All four
write values that depend on the two copies only, under row locks held to the end,
so each is one step; its lock waits and deadlock victims are `Abort`. In
`ChangeReportsTo` the lookup of the manager and the UPDATE are merged: a removal
of the manager in between commutes with the UPDATE of another row. `Join` is the
membership part of accepting an invitation. `invited` records the role of the
invitation, which the invitation's row keeps. The history `overlapped` says
whether two requests have run at the same time; only that the audit chain has no
gap is promised just until then. The single Owner and "nobody elevates himself" are
stated under any overlap, with the one exception the code has: an `Overtaken`
transfer, whose actor was demoted or removed after his check, adds an Owner and
may raise its actor, to less than he was checked with.

### Invitations

A request saves the row (`Create`, `Resend`) and then calls `Delay`; the task
reads the token when it starts (`StartMail`) and mails it (`SendMail`), or fails
(`LoseMail`: no task has a retry). `BeginAccept` reads by token, `CommitAccept`
is the rest; `Sweep` is the nightly UPDATE. Time is kept per row (`left`, units to
`expires_at`), so it needs no bound. `Elsewhere` is signup, verification and the
removal of members. `lost` marks invitations with a mail that was lost since the
last call of `delay`; a crash between save and `delay` counts.

### RefreshTokens

One user, since no key is shared. `Authenticate`, `Register` (a token, zadd),
`Renew` (expire, the answer); `BeginLogout`, `Logout`; `BeginReset` (the link is
checked), `SavePassword`, `Scan`, `Block` (one setex), `Answer` (zremrangebyscore);
`Crash` anywhere. `at` is the value `time.time()` had between two steps, so a
slow worker computes a time to live that is out of date when setex runs. Seconds
are divided into `Second` instants since `exp` and time to live are whole seconds.
`revoked` and `owed` are history: what was, or is about to be, promised by a 2xx.
Reset links are abstracted to "mailed under the current password"; that Django's
token changes with the password is taken from the library.

### Access

`LeadScope`, `TicketScope`, `ActivityScope` are the `*_ROLE_SCOPE_MAP`s,
`MayWrite` the permission class on a writing method, `InScope` the queryset of a
scope, `MayAssign` the two checks of whom a member may give a row to. They have
no state; their use in the next three modules is what gets checked. Roles and
teams are constants of `Tickets` and `ActivitySweep`; in `Collaboration`
membership changes while requests run.

### Tickets

`TicketDetailView.patch` is no transaction: `BeginPatch` reads the ticket and
validates the body, `SaveFields` writes the assignee, `Tell` the notice,
`Move` the status (or `RefuseMove` answers 400 and keeps the fields), `Tell`, one
row at a time, the notices about it. `Create`, `BeginDelete`/`Delete` and
`Restore` are the other views, `Crash` the end of a worker between two statements.
The history `past`, `moves`, `assignments` is what a ticket went through, `lost`
the notices that crashes swallowed. Customer, contact, subject and priority are
validated or copied and decide no step.

### ActivitySweep

`activity_due_soon_and_overdue_sweep_task` reads the clock (`StartSweep`), and for
one organisation after another runs two queries (`ReadSoon`, `ReadOverdue`); for
each activity found it looks for an earlier notice (`Check`) and writes one
(`Insert`); `LeaveOrg` goes on, `Fail` is an exception anywhere, which no
`try` confines to its organisation. A sweep keeps copies (`todo`, `next`) as the
queryset does. Beside it `Create`, `BeginPatch`/`SaveFields`/`SaveStatus`,
`Delete` and `Restore` change activities, of which some may be deleted at the
start. One instant is the quarter of an hour between two sweeps. Completed and
cancelled, both final, are one status. The history `wasDue` has the notices there has
been a reason for: the activity was pending, not deleted, due and the member's.

### Gateway

A gunicorn worker serves one request after another in one process, so
`context[w]` and `unscoped[w]`, the two context variables, outlive a request
that does not clear them. Four kinds of request: *summary* (dashboard), *won* (a
keyed POST, here the transition to Won, whose answer depends on the state it
finds), *accept* (an acceptance, which sets the context without the mixin) and *admin*
(the bypass middleware). `CheckMembership` is `OrgScopedViewSetMixin.initial`,
`CheckPermission` the permission class (a scoped query), `LookUp` the cached
answer, `Compute` and `Transition` the work, `Store` the `setex`, `Finalize` the
clearing. `Fail` is an error that no handler expects (the context stays set), `Kill`
the end of the process. `used` is history: whose rows a request has read
or written, those behind a cached answer included. `excused` marks the
organisations where the code cannot promise one answer: attempts overlapped, the
worker ended between work and store, or the entry had expired. `left` says
when a dashboard's figure stopped being true.

### Collaboration

The transaction of a POST or PATCH is `BeginCreate`/`BeginPatch`, `Save` (the
UPDATE that takes the row lock, `Locked`), `Clear` (the old mentions), `Find` (the
active members the body names), `Tell` (one notice and one `delay` each) and
`Commit`, or `Rollback` at any point. `delay` reaches the broker at once:
`RunTask` may run before the commit, or after a rollback. `Reassign` and
`RemoveMember` change who may see the lead, and who is a member, in between. A
body is the set of those it names. The history `away` has the members whose
membership has been inactive: what a body found of them is left open. `CommentThread` is
the promise to a reader, who sees committed comments and mentions only. Comments on customers and tickets differ in the
scope they ask for and are not modelled separately.

## 3. Runs: what they check and with which bounds

CHECK_DEADLOCK is FALSE in every cfg, because each bound below stops the system
when it is used up.

| run | module, cfg | bounds | properties |
|---|---|---|---|
| lead_race | MCLeadPipeline, LeadPipelineRace | 2 overlapping workers, 4 requests, 1 edit, 3 leads (2 won before), 3 customers, 1 contact | TypeOK, LinkAgreesWithLead, NoOrphanCustomer, WonHasOutcome, ReasonIffLost, HistoryEndsAtStage, ImplementsAssignment |
| lead_serial | MCLeadPipeline, LeadPipelineSerial | 1 worker, 3 requests, 3 edits, the same rows | WonIsTerminal, HistoryIsAChain, ManualMeansUnlinked, NewCustomerIsNew |
| membership_race | MCMembership, MembershipRace | 2 overlapping workers, 3 requests, 3 rows, 2 users | TypeOK, OneActiveMembership, LogAccountsForRole, ActorsHadTheRole, LogIsAChain, OwnersNeverMultiply, NeverElevatesSelf |
| invitations | Invitations, Invitations | 2 invitations of one address, 3 tokens, 2 overlapping requests | TypeOK, AcceptedHasSeat, CurrentTokenIsMailed, AcceptedIsFinal, EveryInvitationEnds |
| refresh_race | MCRefreshTokens, RefreshRace | 2 overlapping workers, 2 tokens, 1 reset, 6 instants of half a second | TypeOK, RevokedStaysDead, NoLiveTokenForgotten |
| tickets | MCTickets, Tickets | 1 ticket in any status or not yet there, an Owner and a Support Agent, 2 overlapping workers, 3 requests of which 1 names an assignee | TypeOK, EveryEventToldOnce, ImplementsLifecycle |
| activity_sweep | MCActivitySweep, ActivitySweep | 1 activity, an Admin and a Sales Agent, 2 sweepers that run for ever, 1 request, 2 instants, 2 due dates, 1 failing sweep | TypeOK, NoticedOnce, ToldOnlyWhenDue, OverdueTold |
| gateway | MCGateway, Gateway | 2 organisations, 2 worker processes, 3 requests, 3 instants, times to live 1 and 2, requests of up to 1 instant | TypeOK, TenantIsolation, AnsweredTheSame, StaleAtMost |
| collaboration | MCCollaboration, Collaboration | an Owner and 2 Sales Agents, 3 bodies, 2 overlapping workers, 3 requests | TypeOK, OneMailLost, ImplementsThread |

What they show. `lead_race`: whatever overlaps or crashes, what transactions and
constraints protect stays intact, and customers are assigned as
`CustomerAssignment` promises. `lead_serial`: the rules checked on a copy
are right when nothing changes between check and write. `membership_race`
has every property hold whatever overlaps, but that the audit chain has no gap
only until something has: every change of a role in the log was made by somebody who
once had the role it takes, every old role in it is one its member had, and only an
overtaken transfer adds an Owner or raises its own actor. `invitations`: no order of resends, tasks, sweeps and
acceptances undoes an acceptance or leaves only old tokens with the reader.
`refresh_race`: a block computed from an old clock reading, overwritten by
another, or preceded by a crash still covers what was promised, up to the last
fraction of a second, and so do the blocks of a request that crashed half-way. `tickets`: five separately committed statements lose or
repeat no notice without a crash; overlap can move a ticket from a status it once
had, never from one it never had. `activity_sweep`: only overlapping
sweeps repeat a notice; nobody is told of what was never due for them, although
activities are moved, reassigned, finished, deleted and restored behind the sweep's
copies; and failing sweeps delay a notice but do not prevent it. `gateway`: a context left behind never
reaches another tenant, because the mixin overwrites it before the first
scoped query; a retried operation is told the same outside the three named
windows; the dashboard's age is bounded by time to live plus request time.
`collaboration`: row lock and transaction keep mentions and body together as
`CommentThread` promises, a PATCH that overlaps a DELETE does not bring the comment
back, and of the notices of a member only that of the POST can stay without its mail.

*Why the bounds are enough to show something.* Two workers are the smallest number
that overlaps; the hazards involve two requests and a third party, which the
edits, joins, sweeps, crashes, other users or the clock provide. Three leads and
customers, two of them past, give a search zero, one or two matches, and a customer
pool as large as the leads never runs dry. Three membership rows allow an Owner,
an Admin who acts and a member acted upon. Two invitations of one address allow
an expired one beside a pending one, and three tokens a resend of either.
Lifetime 2 s, slack 1 s and half-second instants let a key end while a later token is
alive and let each time to live be rounded down. A ticket may start in any
status, so three requests reach every edge twice over. The dates 1 and 2 and
`Soon` 1 make an activity due soon, overdue, or neither at each instant; a second
organisation shows to the first as delay or as a failure, which the run has. Three
requests let a worker fail in one organisation, serve the other, and be
overlapped by a third; 3 instants let either cached answer expire. Three
bodies have an added, a kept and a dropped mention and an address of no member. No
run has a phone without a digit, to keep its size; the proofs cover any set of them.
Interchangeable workers, organisations, users and rows give the symmetry sets;
no run with a liveness property uses symmetry. Every property has a mutant in
`PROJECT.json`: a definition of the model changed as a plausible bug would
change the code, under which TLC finds the property violated.

## 4. Fairness

Two modules state liveness.

`Invitations`: weak fairness of `Tick` (time does not stop) and of `Sweep`
(`config/celery.py:16` schedules the task every midnight; a failed run is followed
by the next night's). Nothing is assumed of requests, mail tasks or readers, so
`EveryInvitationEnds` rests on the sweep alone. It does need that an invitation
is not resent for ever, which the bound MaxTokens provides.

`ActivitySweep`: weak fairness of *some* worker starting a sweep (the beat
schedules one every 15 minutes and the queue is served) and of each running sweep
going on (`Work`: it waits for nothing and nobody). A sweep may fail at any step,
`MaxFaults` times: if every sweep failed, nothing could be promised. Requests
and time need no fairness, since `OverdueTold` lets a request that
moves, finishes, deletes or reassigns the activity end the obligation.

The other modules are safety only: a request may stop at any step.

## 5. Proofs

TLAPS checks all theorems for every value of the constants, from the named
assumptions of the modules: ids and Null are distinct, stages are distinct, roles
and teams are of their types, the past is consistent (`PastAssumption`), workers
are finitely many where they are counted, times to live are positive, bounds are
naturals. Each module's `TypeCorrect` proves a `TypeInv`: `TypeOK` with what the
program counters say about the copies.

**LeadPipelineProofs.** `OutcomeInvariant` proves `OutcomeInv`, the conjunction
of the five safety invariants with what the copies still say about their lead. It is
needed because no single invariant is inductive: that a link is absent when a
customer is created follows from UNIQUE, that `lost_reason` fits the stage from
the copy computing both, and that Won leads have an outcome from the search result
a request carries. `LinksAgree`, `NoOrphans`, `WonOutcome`, `ReasonFollowsStage`,
`HistoryComplete` are its parts. `Refinement` proves `Spec =>
ImplementsAssignment`: each commit of a Won transition or a resolution is an
`Assign` step or a stutter, everything else a stutter; a step that would give a
second customer is excluded by the link constraint and `LinkAgreesWithLead`.
`CustomerForLife` reads off the abstract specification what that means for a lead: no step
changes its customer, takes a link row back or removes a customer.
The four theorems `Serial...` assume `~Overlap`: then at most one request runs
(`AloneOK`), its copy is fresh (`FreshOK`) and its search has missed nobody
(`SearchOK`), and `SerialInv` gives Won's finality, the chain of the history,
manual selection only without a customer, and new customers that are new.

**MembershipProofs.** The strengthening `RoleInv` says that the role in a request's
*copy* of its actor is one that his invitation or the log once gave him
(`ActorsWere`). That survives any demotion, which is why `ActorsHadTheRole` (only who
was Owner or Admin changes roles, only who was Owner hands ownership on) holds under
overlap while two Owners may exist. `TargetsWere` says the same of the copied target,
and gives `OldRolesHeld`, the half of `AuditTrailIsAChain` that no overlap
disturbs. `RolesAudited` holds
because the role and its entry are written in one transaction under the row's
lock; `OneActive` because of the partial UNIQUE index. `SerialInvariant` adds
that copies are fresh until requests have overlapped (`CopiesFresh`), from which the
other half follows. `TransferIsAHandoff` and `NobodyElevatesSelf` do not need it:
an actor who still is Owner when the transfer is written is demoted with it, and the
only role an actor's own request gives him is the Admin of one checked as Owner.
`OwnersAreInvited` counts: until requests have overlapped there are no more
Owners, removed ones included, than were invited as Owner.

**InvitationsProofs.** `SeatInv` and `MailInv` add `RowsOK`: the token of every
row was issued, requests and tasks name rows. The unlocked `CommitAccept` keeps
`AcceptedHasSeat` because accounts are never unmade, and seats only removed: it says
that an account exists, which is verified only if accepting created it;
`CurrentTokenIsMailed` holds because whoever changes a token still has to call
`delay`, and a task that starts later reads the current one. `RowStep` says what any
step does to one row (`RowMoves`): its status goes from pending to expired, or to
accepted, or stays, and its time runs out unless its token changes. From it
follow `NothingReopens` and `DeadlinesApproach`; the latter is the part of
`EveryInvitationEnds` that needs no fairness: the variant goes down with every tick,
and a sweep leaves nothing overdue. `SeatsComeFromInvitations` traces every
seat, removed ones included, to an accepted invitation, and `OneOpenInvitation`
shows that resending an expired invitation beside a newer one never runs into the
partial UNIQUE constraint, since the resend leaves the status alone.

**RefreshTokensProofs.** `SessionInv`: the user's key outlives every token in it that
reached the user (`KeyOK`), a reset's tokens are in the registry, on its list, or dead
(`Owes`), and revoked ones are dead (`Dead`: blocked into the last second of
their life, or in it). A block set later than the clock was read ends later, so a slow
worker does no harm; the time to live is rounded down, which is what makes `Dead`
a second short. `BlockOK` says the same of every block, promised or not, so
`RevokedIsDead` also covers a reset that dies half-way: it has ended for good the
sessions it got to.

**TicketsProofs.** `BookInv` keeps an account per ticket, member and kind: told +
still to be told by some request + swallowed by a crash = events. The number of
requests still to tell is a cardinality, hence the finite set of workers.
`JourneyInv` says that a copied status is one the ticket has had, and the one it has
while nothing overlapped; with it each `Create` and `Move` is an `Open` or
`Move` of `TicketLifecycle` and all other steps stutter. `StatusesAreEarned`
follows from it and the edges of the life cycle: a closed ticket was resolved at some time,
a resolved one in progress, although statuses are checked on copies.

**ActivitySweepProofs.** `NoticeInv`: notices written plus sweeps about to write
one are at most one, or as many as there are sweepers once sweeps have overlapped.
`TimeInv`: whatever there is a reason for now is in the history, and so is every
notice written and every one a sweep's copies will still lead to, since an
assignee, a date and a status are copied together and the clock only goes forward;
`NeverWithoutReason` reads off `ToldOnlyWhenDue`. `AssignInv` (an activity and its
copies have an assignee, a sweep takes up one copy at a time) gives `WhatIsReadIsTold`,
the part of `OverdueTold` that needs no fairness: a copy stays with its sweep until
there is a notice, unless the sweep fails, and notices stay.

**GatewayProofs.** `IsolationInv`: past the membership check, the context of a
worker is that of its request; the bypass is on only in an admin page; what is
stored under an organisation was made of its rows. Nothing is said about the context of an
idle worker, because it may be anything. `StaleInv`: an entry of the
dashboard expires at most `Lag` and its time to live after its figure was
left behind. `SameInv`: in an organisation without excuse there is at most one
attempt while nothing is stored, and the answers told are the one stored.

**CollaborationProofs.** `MentionInv`: the row lock allows one edit at a time
past its UPDATE (so what it has deleted is what there is), and what it found are
members that its body names. With it `CommentsAreAThread` maps each `Commit` to a `Post`
or `Edit` of `CommentThread`, `DELETE` and restore to their like, changes of
membership to `Leave`, and the steps inside a transaction to stutters.
`MentionsAreTheBodys` and `DeletionIsFinal` are what a reader of the thread sees of it; the
second rests on PATCH writing only the body, and on a POST having no row
before. `AtMostOneMailLost` needs `MailBook`: while there is no comment there are no
notices, and once there is one, a member whom a transaction is about to notify for
the first time or again has a queued task or a mail for each notice so far; only
the commit of the POST can add a notice whose task has already run.

*Only model-checked*: the two liveness properties `EveryInvitationEnds` and
`OverdueTold`, since the prover does not reach fairness; and the three violation
runs, which are counterexamples.

## 6. Disagreements found

| run | what happens | what the repository says |
|---|---|---|
| won_overwritten (2 workers, 2 requests) | a transition that read the lead earlier saves its stage over Won | docs/02-business-rules.md:186, Won is terminal and irreversible |
| resend_reopens (1 invitation, 2 tokens) | an expired invitation that is resent stays expired, its new link is refused | docs/02-business-rules.md:78, re-sendable if expired |
| mention_mail_lost (1 worker, 1 request) | the mail task of a mention runs before the commit, finds no comment and ends: the notice is there, the mail is never sent | docs/01-product-requirements.md:161 and docs/02-business-rules.md:346, one mail to each mentioned user |

Met while reading, with no run of their own.

* *Leads and customers.* The contact search may return a customer that is
  soft-deleted (customers/services.py:29), and the transition then fails on DoesNotExist.
  Lost leads can be won and marked Lost again, where docs/02-business-rules.md:193
  has them reopened first. DELETE sets `is_archived` and restore leaves it set. The
  notice of a stage goes to the owner of the copy.
* *Organisations.* Two overlapping transfers leave two Owners (the comment at
  apps/organizations/services.py:166 says exactly one), and the demotion of a stale
  transfer can raise its own actor back to Admin. Invitations and restores are never
  audited (docs 02, 11.1); writes of unverified users are not blocked and an
  existing unverified user who accepts stays unverified (docs 02, 2.4).
  `send_verification_email_task.delay` is called inside the transaction
  (organizations/services.py:38), as in mention_mail_lost. docs 05:130 calls
  acceptance idempotent; its view is no idempotent POST.
* *Tokens.* A login that checked the old password before a reset registers its token
  after the reset's scan and survives it. A zadd just before the key's expiry is
  dropped with the key before `expire` renews it.
* *Tickets, activities.* A PATCH with a refused status keeps its other fields. The
  notices of tickets go to their recipients whether or not these may still see the
  ticket (docs 02, 10.2). The notice of a date that was moved suppresses that of the
  new date. An exception in one organisation ends the sweep for those after it
  until the next one.
* *Gateway.* An idempotent retry after a crash between work and store does the work
  again. The dashboard's queries are not one snapshot.
* *Elsewhere.* An attachment's file is stored before its row: a crash between
  leaves the file. The docstring at core/permissions.py:15 says scoped managers keep
  soft-deleted rows, while managers.py excludes them.

## 7. What is not modelled

* *Attachments.* A file goes to an object store, then a row is written; no other
  step reads either in between. Comments on customers and tickets differ from those
  on leads in the scope only.
* *Lead owner, archive flag, duplicate warning, tags, timeline.* They guard no
  modelled step; the timeline is a read-only merge. The owner appears in `Collaboration`, where visibility depends on it.
* *Listings, search, inbox, the figures of the dashboard.* Read-only queries, or
  the idempotent update of a flag; their scopes are those of `Access`. The
  dashboard is one query in `Gateway`.
* *Normalisation, validation, serializers.* String handling: classes in the models.
* *Verification mail and link.* The flag is in `Invitations`; the mail shows the
  pattern of mention_mail_lost.
* *Throttling.* Its counters live in the REST framework; here are only their keys.
* *Admin site, documentation pages, settings, `perf_check`, migrations.* Configuration
  or tools; schedules and times to live are constants of the modules.
* *Several organisations at once* in the modules other than `Gateway` and
  `ActivitySweep`: tables are scoped by organisation, which `TenantIsolation` is about.
* *Sessions and access tokens*: checked by signature only, without state.

## 8. Extending the project

A component that is added (the owner of a lead with its reassignment notice, or the
verification mail) should follow the others: tables and one `req` record per worker,
one step per separately visible statement, history variables for promises, a run
with two workers, a mutant per property, and a proof module with `TypeInv` first. A
change of the code that adds `select_for_update` to a check shows in the model
as a merged read and write; the corresponding property should then hold
without its `Overlap` or `overlapped` condition, and a violation run turns into a passing one.
