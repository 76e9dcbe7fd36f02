# Verification of the print colour calibration and release system

TLA+ models, TLC runs and TLAPS proofs for the program in `src/`: a Go backend (gin, gorm, MySQL,
Redis) with a React frontend, in which operators, reviewers and administrators keep press units,
print runs, colour proofs and release decisions. `PROJECT.json` lists components, runs, mutants,
the source lines of every definition, findings, hazards and theorems; this file explains them.

Paths below are relative to `src/backend/internal/` unless they begin with `src/`.

## 1. Inventory

| Part | State | Operations | What makes it correct |
|---|---|---|---|
| **Record services**, four kinds of one shape (`handler/`, `service/`, `repository/`) | a table per kind, a revision table for print runs and release decisions | create, update, transition, soft delete, detail, list | no write is lost or carries back a stale copy; statuses follow the graph; reviewed statuses need a reviewer; sealed decisions are not edited over; each version has exactly one revision |
| **Business rules** (`constants/status.go`, the four services, the route groups) | none | `CanTransition`, `canReview`, seals, removal rules, role checks | the tables fit together |
| **Audit log** (`service/security.go`, `repository/security.go`) | append-only table | `Audit` after each write; queries | every change of status has an entry, and entries tell the truth |
| **Rate limiter** (`middleware/ratelimit.go`) | counters in Redis by minute and key; a map per process behind a mutex | `increment`, `incrementLocal`, `cleanupLocal` | no number is handed out twice, no counter lets more than the limit through, the map does not pile up, every request gets a verdict, once and by one counter |
| **Startup** (`database/database.go`, `src/backend/cmd/server/main.go`, `src/docker-compose.yml`) | schema, seeded tables, the process | `Open`, `migrate`, `Seed`, `os.Exit`, restart, graceful shutdown | who serves finds each table seeded once; every instance comes up in the end |
| **Authentication** (`middleware/auth.go`, `service/security.go`) | users, signed tokens | login, `Authenticate`, `RequireRoles`, `RequireMinimumRole` | the role a request acts with is the one of its token |
| **Lists and paging** (`repository/base.go`, `handler/system.go`, `src/frontend/src/hooks/usePagination.ts`) | none of their own | `bindPage`, `normalizePage`, count and find, pages of the footer | each row is on exactly one page; the two clampings agree |
| **Overview, audit queries** (`repository/security.go`) | none | counting, grouping | reads only |
| **Entity stores and record page** (`src/frontend/src/stores/factory.ts`, `components/EntityPage.tsx`) | the list, total and loading state; role, query and dialogs of the page; calls in flight | load, create, advance, detail | a version sent is one that was read; what is offered is what the backend accepts, as long as the role shown is the one stored; a reload shows what was written; loading ends |
| **Session** (`src/frontend/src/hooks/useAuth.ts`, `api/client.ts`) | one session in the storage of the browser, the state of each tab | first login, switch of role, reaction to a 401 | a tab shows the session it has stored; nobody is logged out without a reason; a loading page ends once logins no longer fail |
| Configuration, request context, error and response envelopes, static pages, nginx | none worth modelling | | |

**Interactions.** A request passes the limiter, then `Authenticate` and the role check of its
route, the handler binds the input, the service reads the record, decides on the copy it has read,
and calls the repository, which writes record and revision in one transaction. The service then
appends the audit entry in a statement of its own and, for an update or a transition, reads the
record again for the answer. Limiter and services share only the process; the four services share
the audit table. The instances of the backend share the database and Redis.

**Hard behaviours.**
- Every request is a goroutine and every database call a point at which others interleave.
  Optimistic locking compares the version *the client sent*, while the decision is taken on a copy
  read earlier, and the whole row is written back.
- Removal takes no version at all.
- The audit entry is not part of the transaction; faults, a client that disconnects (its context is
  the context of every query) and the end of the process fall in between.
- Redis may fail for some requests and answer others, or execute a transaction whose reply is lost.
- Instances start together on an empty database, may end anywhere, and are started again.
- In the browser answers arrive out of order, also those of a page that is no longer shown; dialogs
  keep the copy they were opened with while lists are loaded, others write and roles are switched.
- Tabs share the stored session but not the state made from it, and a 401 clears the storage
  whichever session is there by then. A request takes its token from the storage when it is sent: the
  role it acts with need not be the one its tab shows.

The list of hazards, each at its line and with the properties that would catch it going wrong, is
in `PROJECT.json`.

## 2. Modules

    RecordTypes ──► ReviewedRecord              abstract: one atomic record with its chain
        │                 ▲ Promise == INSTANCE (ledger <- revs): shown to be implemented
        ├────► AggregateService ──► AggregateProperties ──► MCAggregate ◄── Policies
        │                               └► AggregateProofs ─► ChainProofs ─► PromiseProofs
        │                 ▲ Server == INSTANCE: the backend as the page sees it
        └────► Workbench ──► MCWorkbench ◄── PageOffers ◄── Policies
    Paging ──────┘  │              ▲
        ├► PagingProofs ─► WorkbenchProofs (of Workbench)
        └► PagingChecks ───────────┘
    Session     ──► MCSession,     SessionProofs
    Admission                                   abstract: passes per counter, no clock, no counts
        ▲ Admitting == INSTANCE (verdict <- ...): shown to be implemented
    RateLimiter ──► MCRateLimiter, RateLimiterProofs
    Startup     ──► MCStartup,     StartupProofs

### Policies, RecordTypes
The four services of the backend have the same code but for their rules. `Policies` holds the rules
as data, one record per kind: graph, reviewed statuses (`canReview` gates of `Transition`), sealed
statuses (`ErrLocked` of `Update`), removable statuses (`Delete`), whether writes append a revision,
the statuses seeded, and the roles the routes admit. Everything else is parameterised by such a
record, so one model and one proof serve all four kinds. `PoliciesAreConsistent` is evaluated by
every run of `MCAggregate`, for the press units too, which have neither gate nor chain and therefore
no run of their own.

### AggregateService
One kind of record behind its handler, service and repository. A request is a record in `req`: where
it is (`pc`), what the client sent (`op`, `rec`, `expect`, `target`, `content`), and the copy the
service edits (`item`, `before`).

| Code | Action |
|---|---|
| route, role check, binding | `Submit...` |
| first `Get` of Update / Transition / Delete with the checks that follow it | `ReadFor...`, or `Refuse` for its early returns |
| `CreateVersioned`, `UpdateVersioned`, `Store.Update`, one transaction | `CommitCreate`, `CommitUpdate`, or `WriteRefused` (no row affected, duplicate key) |
| `Store.Delete`: by id, nothing else in its condition | `CommitDelete` |
| `Audit` | `AppendAudit`; `LoseAudit` when it fails: create and update ignore the error, transition and delete answer 500 |
| final `Get` | `Reget` (the row), `Preload` (the chain, a second query) |
| database error, cancelled context, end of the process | `Fail`, at any point |

The row is soft-deleted, never removed: its code stays taken (`CodeIsFree`), and gorm adds
`deleted_at IS NULL` to each condition (`VersionMatches`). `RevisionIsFree` is the unique index on
(record, version) of the revision tables. Business fields are one opaque `content`; codes stand for
ids, since the unique index gives a code to one row for ever. Entries of the audit log carry the
version of their write in place of the request id the code stores in both tables.

`Lookahead` says how far the version a client sends may lie ahead of the one committed. Nothing in
the handler forbids it; 0 is a client that sends what it has read, as the frontend does.

### ReviewedRecord
What a service promises: each operation looks at the record *as it is now*, decides, and changes
record and chain in one step. No requests, no copies, no versions to send. Removal is promised
weakly (see finding 1).

### RateLimiter
`Arrive` formats the key from the clock; `RedisReply` is the pipeline of INCR and EXPIRE,
`RedisRetry` one whose reply is lost, `RedisFail` the fallback; `LocalIncrement` is everything done
under the mutex. Counters remain of the minute for which they were named, `Expire` drops them
`Lifetime` minutes later. `Tick` lets a Redis call last into the following minute but no longer: the
timeouts of the client end it.

### Admission
What the limiter promises, without clock, counts, keys that expire and maps that are cleaned: a
request is judged once and for good, by one counter; it is passed only while fewer than `Limit`
have been passed by that counter, and rejected only when that many have. Counters that are `Lossy`
may also reject early. `KeepsAdmission` says that `RateLimiter` implements it, where a counter is one
of Redis or of an instance, for a key and a minute, and the lossy ones are those of Redis: a
transaction whose reply is lost has counted a request nobody let through.

### Startup
`Open` and `Seed` step by step: up to `Attempts` connections, migration (look, then create: two
instances may collide), then table by table `Count` and `Insert`, each transaction one step; any
error is an `Exit`, and the restart policy of Docker a `Start`. `Remove` and `Add` are the
administrators emptying a table and filling it again through an instance that serves.

### Workbench
The page of one kind, its store, and up to `Calls` calls in flight, over the atomic record.

| Code | Action |
|---|---|
| `load`, called by the effect of the page when its query changes | `Search`, `NextPage`, `PreviousPage`; `Remount` for a switch of role or a visit elsewhere |
| dialogs | `OpenAdvance`, `CancelAdvance`, `OpenCreate`, `CancelCreate`, `CloseDetail` |
| `transition`, `createRecord`, `openDetail` | `ConfirmAdvance`, `ConfirmCreate`, `OpenDetail` |
| the backend's answer to a write | `AdvanceAccepted`, `CreateAccepted`, or `WriteFails` (conflict, refused role, fault before or after the write) |
| `Store.List`: count, then find | `CountRows`, `FindRows`, each a snapshot of its own |
| the answers, in any order | `Reload` (the store loads the default query after a write), `ListArrives`, `ListFails`, `DetailArrives`; `Unauthorized` for a 401, which also clears the storage |
| `saveSession`, `clearSession` in other tabs | `StorageChanges` |
| other users | `OthersWrite`, `OthersDelete` |

The store outlives the page, so do the calls; `mounted` says whether the page or dialog a call was
made from is still there, since only then does its end close the dialog. `place` is the order of the
list (latest change first; records of one moment are told apart by their id, so no two share a
place). The text of an error and what a detail shows are left out.

The role the buttons and dialogs depend on is `page.role`. The role a call acts with is another
matter: `request` reads the token from the storage when it sends, so `WriteCall`, `ListCall` and
`Reload` take `token`, the role of the stored session or `None`. A switch of role stores its own
session (`Remount`); what other tabs store or clear is `StorageChanges`, at any time and without a
trace on the page. `Session` has the tabs and logins this stands for in detail. `own` remembers of a
write whether the two roles agreed when it was sent. `OfferAccepted` says that such a write is
refused only because the record has changed or the code is taken. Where they differ the backend may
refuse an offer on an unchanged record, and the model does so. A request without a token, or with
`Faults` one whose token has expired, ends with `Unauthorized`.

**How the two sides fit together.** `Workbench` takes the atomic record of `ReviewedRecord` for the
backend: `ServiceKeepsPromise` is the theorem that the services implement it, provided clients send
versions they have read (`Lookahead = 0`). That the page is such a client is `HonestCopies`
(theorem `CopiesAreHonest`): whatever the order of answers, a copy in a list, a dialog or a call is a
state its record has been in. Each side is thus shown under what the other one is shown to do.
That the page reaches the records in no other way is `PageActsThroughTheBackend`.

### PageOffers
`nextPermittedStatus` and `roleAtLeast` of the frontend for all four kinds, beside the rules of
`Policies`. Two assumptions, evaluated by the runs of `MCWorkbench`, compare them: everything offered
is an edge of the graph whose gate and route admit the role, and nobody who may write, and no
reviewer, is left without a next step. `WorkbenchAssumption` asks the first of them of any table of
offers, so the proofs of `Workbench` hold for the four kinds.

### Paging, PagingChecks
`bindPage` of the handler, `normalizePage` of the repository, the offset (with the width of an
integer as a parameter), the pages of the footer, and the clamping of limits and windows.
`PagingChecks` compares them with a reference over bounded inputs and seven-bit integers, so that an
offset which wraps around occurs; `PagingProofs` has the general facts.

### Session
One entry of the storage shared by all tabs; of each tab its auth state, whether its first effects
have run, and the login it waits for; of each request its tab and the token it was sent with. What
React does in one task is one action: `Open` evaluates the module (`initialSession`), `Mount` runs the
first effects (`initialize`, and the load of a page if it is shown), `LoginSucceeds` saves, shows
and loads, `LoginFails` runs the `finally` branch and, where the page then appears for a tab that
has never had a session, `initialize` again. `Unauthorized` is `clearSession` on a 401. Tokens
expire in the order in which they were issued, since all live equally long.

## 3. Runs

| Run | Question | Bounds |
|---|---|---|
| `decision` | Are release decisions legal, reviewed, sealed, truthfully audited, removed for a reason, and atomic, and do the audit entries join up? | 2 requests, operator and admin, 2 contents, versions to 3 |
| `proof_three` | Does the version alone protect a kind without revisions? | 3 requests, faults, versions to 2 |
| `pipelined` | What holds for print runs, and for those who read them, whatever version a client sends and whatever fails? | 2 requests, `Lookahead` 1, faults, versions to 3 |
| `decision_quiet` | Does every request end, every change of status reach the log, and is none missing once nobody is at work? | 2 requests, no faults, fairness |
| `limiter` | Are the counters sound while Redis fails, is late, or loses replies, does every request get a verdict, and do they add up to the abstract admission? | 3 requests, 2 keys, 2 instances, 3 minutes, limit 1, threshold 1, fairness |
| `startup` | Do instances come up, and what do they find? | 2 instances, 3 tables, 2 attempts, 2 troubles, fairness |
| `session` | Do tabs, storage and tokens stay together, do logins end once they no longer fail, and what makes a tab hang? | 2 tabs, 2 requests in flight, 2 roles, 3 sessions, any number of failed logins, fairness |
| `workbench` | Is the page an honest client, are its offers accepted whatever other tabs store, does it show what it wrote, does loading end, do the pages make up the list? | 2 proofs on pages of 1, 2 calls, operator and reviewer, 2 searches, versions to 2, one write after the seeded record (`MaxWrites` 2), faults, all operations of other users, any role or none stored by other tabs |
| `removal_race`, `audit_lost`, `pipelined_overwrite`, `workbench_query` | the findings below | |

**Why the bounds are enough.** Requests meet only on one record and its revisions, so a single
record is enough, and one record can already be created, edited, moved, removed and contended for. A
race needs a reader and a writer: two requests; the third, in `proof_three`, lets a second writer
slip between the read and the write of the first. Version 3 allows two writes after creation, so a
chain has two steps and one write can be stale by one version while another is current; and two
transitions, whose audit entries may be appended in either order. The proofs lift those bounds for
what they cover. Limit and threshold 1 make both boundaries reachable with three requests; three
minutes let a key be used in its minute, late in the next, and expire in the third. The three tables
of `Startup` are one of each sort: never deleted, plain, with revisions; two attempts and two
troubles let a process end, and an outage fall, in one behaviour. Two tabs are needed for one to
find the session of the other, two requests for the 401 of one to meet the storage as the other one
left it, three sessions for a first login in each tab and a switch. Pages of one row make a list of
two proofs have two pages; with two calls a list can overtake a list, or a write the list before it.
`MaxWrites` counts the seeded record too: 2 leaves one write, by the page, by a stale dialog or by
somebody else, which is the one that makes copies old, moves the list, adds the second page or takes
it away. Longer histories are left to the theorems, which cover every property of `workbench` for
any `MaxWrites`. `refused` of `Session` counts nothing: it changes with each failed login, so that
failures without end are seen as steps and not as stutters. `MaxVersion`, `MaxWindow`, `MaxCount`,
`MaxTrouble`, `MaxSessions`, `MaxWrites` and `Calls` (of `Session` and of `Workbench`) are the named
bounds that only keep the state space finite.

Symmetry is used in runs of safety properties only. `limiter` also checks liveness; it starts
instead from `StartUpToNames`, which takes one of all starts that differ only in the names of
instances, keys and requests: of three requests two have the same key, and these are called `q1` and
`q2`; starts in which the third shares neither key nor instance with another are left out, as it
would meet nobody but Redis failing. The runs of `MCWorkbench` start from one table (`SmallInit`:
one proof under review, the page opened by a reviewer whose session is the stored one): creations,
advances, other users and switches of role lead on from there to records of other statuses and other
roles; all other starts are covered by the proofs.

**Deadlock** is checked except for the limiter, whose requests are made once and then stop, and for
the session, which ends when all tabs are closed and no more sessions may be asked for.

**Fairness.** `AggregateService`: weak fairness of the server steps of each request, because a
goroutine that can run does run and a database call returns; no client need send anything, and no
fault is fair. `RateLimiter`: the same, and the failure of a Redis call that never returns is forced
by its timeout; `Expire` and `Tick` are not fair. `Startup`: processes run on and are started again,
and outages end; their number is bounded, as "comes up" asks only about a time when trouble is over.
`Session`: a tab that is open runs its first effects, and a login that has been sent is answered or
fails, because `fetch` settles; no user need do anything. This fairness does not make logins
succeed, and nothing in the code does: while the backend is down, a tab that has never had a session
logs in again after each failure, for ever and without a pause, and shows its loading page. So
`LoginsEnd` has an assumption of its own in its statement, `TroubleEnds`: from some time on no login
fails. There is no bound on the failures before that; without the assumption TLC answers with the
endless repetition. `Workbench` has safety properties only:
that loading ends is stated of the state in which no call is left.

**Mutants.** Each property of each passing run has a plausible bug that breaks it. They are
operators of the modules, next to what they would replace, with a comment that begins `Mutant:`;
no specification uses them.

## 4. Findings

1. **A removal may delete a released decision** (`removal_race`). `Delete` checks the status of a
   copy and then deletes by id. A release committed in between is removed. `print_run.go` has the
   same gap. The abstract record therefore promises only that what is removed was live. What does hold
   is `RemovalsWereAllowed` (proved): the removal had been decided on a revision that allowed it, and
   the audit entry names that revision, not the one that was removed.
2. **A change of status may have no audit entry** (`audit_lost`). The entry is written after the
   transaction and nothing repairs the log. Without faults every change reaches the log
   (`TransitionsGetAudited`) and none is missing once nobody is at work (`EveryTransitionAudited`,
   proved for that case), and even with faults no success is answered without its entry
   (`TransitionAnswerAudited`).
3. **A release may be edited over by a client that guesses the next version**
   (`pipelined_overwrite`). The seal is checked on the copy read, the compare-and-set made on the
   version sent. With versions clients have read, `ChainSealed` is proved.
4. **Once all rows of a kind are removed, the backend never starts again** (`startup`,
   `DeadOnceEmptied`). The seed does not see soft-deleted rows, but their codes are still taken.
5. **After a write the page shows another list than the one asked for** (`workbench_query`). The
   store reloads by the default query; search and page number of the page stay.
6. **A tab may stay on "establishing a session" for ever** (`session`, `StuckTabsStay`). A tab that
   starts with an empty storage and finds the session of another tab in its first effect takes it
   over without resetting `loading`.

The runs of 1, 2, 3 and 5 end with the counterexample. 4 and 6 are properties that hold: from such a
state on no instance serves; such a tab is left only by closing it.

Behaviours that the models show and no text of the repository speaks against, so that they are not
findings: a 401 to a request with an old token clears the session that has just been issued, and the
tab goes on showing it; any error of the database during a login is a 401 and so removes the session
the user still had; a first login that fails is repeated at once, without a pause and without an
end; an open dialog sends its write as whoever another tab has logged in meanwhile, and may be
refused for it; a transition that is committed and audited is answered with an error when the last
read fails; the answer to one confirmed dialog closes whichever dialog of its kind is open by then;
total and rows of a list come from two snapshots; the offset of a huge page number wraps around and
shows rows where none should be (`HugePagesWrapAround`).

## 5. Proofs

All theorems are about `Spec` of their module, for all values of the constants that satisfy the
assumption named, so for any number of records, requests, instances, tabs, tables and calls, and,
unless `Faults = FALSE` is said, with and without faults. Each invariant has been checked with TLC
on the runs above, and no theorem rests on anything but the assumptions given here.

**Record services** (`PolicyAssumption` and `MaxVersionAssumption` of `RecordTypes`; `Lookahead = 0`
where said; any policy, hence all four kinds).

1. `AggregateProofs`: **`TypeCorrect`**. `RequestShape` is part of the invariant because the type
   of a commit depends on what earlier steps of the same request have put into `item`.
   **`AnsweredIsAudited`**: a request only gets to its last read through `AppendAudit`, and entries
   stay; holds whatever clients send.
2. `ChainProofs`: **`ChainIsComplete`**, for any `Lookahead`. It is not inductive by itself: that a
   commit extends the chain by exactly one needs `WritePlans`, namely that a request about to write
   holds a copy whose version is the one it expects plus one. The compare-and-set does the rest.
   **`DetailsMatchTheirChain`**: when the row is read its revision is in the chain, which only grows.
   **`RemovalsHadCause`**: `RemovalPlans` says of a request that is about to remove, or to report a
   removal, that the copy it decided on is in the chain; neither the removal nor its entry looks at
   anything later.
3. `PromiseProofs`: **`HonestInvariant`**, for `Lookahead = 0`. A request never expects a version its
   record has not reached; so either the record has moved past it, and the compare-and-set fails for
   ever, or the copy the service checked is still the row. `TableMoves` is the argument that a row
   never goes back.
4. From 3, each commit is an edit the policy allows on the row as it is then (`CommitIsAllowed`).
   Hence **`ChainIsLegal`**, **`ChainIsReviewed`**, **`ChainIsSealed`** (by the invariant
   `LawfulInv`), **`ReviewGateHolds`**, **`AuditIsTruthful`** (by `TruthInv`: an entry is about a
   version the row has reached, and fits the revisions on both sides of it), and
   **`ServiceKeepsPromise`**: the service implements the abstract record, initial states to initial
   states, each step to a step or a stutter.
   **`AuditIsOneStory`** is about the log alone, so it covers the kinds without a chain. It is
   inductive only over `Entries`, the entries stored together with those that requests still owe
   (`Story`, `StoryInv`): a commit owes one about the version it makes, later than any other entry
   of the record, that begins with the status of the row (`WriteTellsRow`), and an append or a loss
   adds nothing new. **`TransitionsAreAudited`** (`Faults = FALSE`): `Reported`, each change of status
   in the chain has an entry stored or owed, and without faults what is owed is never dropped.
   **`TombstonesAreFinal`** needs only 1 and holds for any `Lookahead`.

**Rate limiter** (`LimiterAssumption`), `RateLimiterProofs`: **`LimiterTypes`**;
**`NumbersAreUnique`** by `CountInv`: a counter has reached every number it has handed out, or it can
hand out no more, because Redis calls end within the next minute (`InTime`) and a map starts a new
count with a new minute; **`CountersLimit`** because those let through hold different numbers up to
the limit; **`RejectionsAreEarned`** by `NoGaps`: a map leaves out no number, so the first ones
were handed to requests that passed; **`MapsAreBounded`**. **`LimiterKeepsAdmission`**: the limiter
implements `Admission`. Every step that decides is a pass or a rejection by the counter the request
drew from (`StepAdmission`), and all others leave every verdict alone (`SameVerdicts`); that a pass
finds room is `NumbersUnique` once more, and that a rejection does not is `NoGaps`
(`VerdictIsAllowed`). **`SystemLimit`** adds the counters up: with n instances at most (n + 1) times
the limit passes for a key in a minute, because those passed hold different pairs of a source and
a number up to the limit (its one further assumption is that the instances are finitely many).

**Startup** (`StartupAssumption`), `StartupProofs`: **`StartupTypes`**; **`SeededBeforeServing`** by
`SeedInv`: a table is as it was created or seeded once, and has been seeded when a process has it
behind it; **`EmptiedIsDead`**, an action property: a table is passed only by counting a row that is
not removed or by inserting a seed (`Passing`), and an emptied table allows neither.

**Workbench** (`WorkbenchAssumption` and those of the record services), `WorkbenchProofs`:
**`WorkbenchTypes`** with the shape of calls; **`CopiesAreHonest`** from the fact that a row of the
atomic record never goes back; **`AdvancesAreAccepted`**: the target in a dialog is what was offered
to the role of the page for the status of the copy (`PageOffered`; a switch of role discards the
dialog), hence the target of a write sent as that role is what was offered to the role of the call
(`CallsOffered`, which asks nothing of writes sent as another one), and an honest copy of the
current version has the status of the record; **`OwnWritesAreRead`**; **`SpinnersEnd`**.
**`PagesAreTheList`**: by `PlacesApart` a live record has a place and shares it with none, which a
write keeps because the records it passes make room. So counting places numbers the matching records
from 1 to their total (`RanksAreNumbers`), and the arithmetic of `PagingProofs` cuts the numbers
into pages. **`PageActsThroughTheBackend`**: each step is one of `ReviewedRecord` or leaves it
alone.

**Session** (`SessionAssumption`), `SessionProofs`: **`SessionTypes`**, **`OwnSessionIsShown`**,
**`SessionIsComing`** (with `OpenedWithout`: a tab that opened without a session finds only one of
another tab in the storage, so that only such a tab can hang), **`UndisturbedStaysLoggedIn`** (the
invariant adds that a tab which shows the shell, and a request in flight, both find a session
stored), **`StuckForGood`**.

**Paging** (no assumption), `PagingProofs`: **`ClampingsAgreeAlways`** and **`PagesCoverTheList`**.

**Only model-checked:** what is temporal beyond `[]`, since liveness under fairness is out of the
prover's reach (`RequestsAnswered`, `TransitionsGetAudited`, `EveryRequestDecided`, `ComesUp`,
`LoginsEnd`), and what happens when an offset does not fit into an integer (`PagingChecks`). Every
other property of a passing run is stated by a theorem.

## 6. Not modelled, and why

- Input that the handler or `Authenticate` rejects: it ends the request and changes nothing.
- Overview, status counts and the five queries of the audit summary: reads whose answers no other
  step depends on. The five see a growing log, so their figures may differ by an entry.
- The status filter of lists, which the frontend never sends, and `logout`, `authenticated`,
  `setPageSize` and `loadOverview`, which nothing calls.
- Press units have a policy and the theorems, but no run of their own: they have the shape of the
  colour proofs without the review gate.
- The user a token names is looked up at login only, and no operation changes a user: that a token
  keeps the role of its issue has therefore nothing to disagree with.
- A process that ends is, to the records, the failure of its requests (`Fail`). To the limiter it
  is the loss of its map, hence one more limit for each restart; that is not modelled, nor are the
  increments a restart of Redis may lose (it appends to its log once a second) and the ten seconds
  of grace at shutdown.
- `AutoMigrate` is modelled as creating all tables at once.
- Configuration, request context, logging, envelopes, static pages, nginx: no state that a property
  is about.

## 7. Plan

Done: 1. the record services with their abstract record; 2. the limiter; 3. startup; 4. the page
with its store, and the session; 5. paging; the refinement of the limiter; the proofs of all safety
properties checked.

Left, in this order:
6. A restart of an instance, and of Redis, in `RateLimiter`: the limit across restarts.
7. Graceful shutdown: the drain of `main.go`, requests accepted before it and cut off after it.
8. A page over the detailed services instead of the atomic record, for the faults between commit and
   audit entry that a user sees as an error although the write is done.
