# Verification of the admin panel backend

TLA+ models of the NestJS backend in `src/` (TypeScript, TypeORM, PostgreSQL), checked
with TLC on small instances and, where it matters most, proved with TLAPS for every
instance. All source paths below are relative to the application, `src/src/`.

## 1. Inventory

The backend is one Node process in front of one database. It keeps no state in memory
between requests: everything is in tables. A handler runs without interruption up to its
next `await`, where any number of other handlers go on. No handler opens a transaction or
takes a lock, so every property that relates two statements is at the mercy of what comes
in between; a rejected query or a restart leaves whatever was written so far.

| component | state | operations | talks to | hard behaviour | correct when |
|---|---|---|---|---|---|
| Ticketing (`ticketing/ticketing.service.ts`) | `tickets`, `ticket_answers`, `ticket_assignments` | create, view, answer, close, reopen (seller); reply, note, close, reopen, assign (staff) | `admins` for the choice of an assignee | handlers with 1 to 7 awaits; `save()` of stale copies; a read cursor compared in milliseconds | status, closing columns, assignment history and unread badge of a ticket agree with each other and with what was sent to the seller |
| Seller authentication (`ticketing/seller-auth.service.ts`) | `seller_token_sessions` | validate a bearer token, purge | core backend over HTTP, cleanup task | concurrent first use, expiry, revocation at the core, failures of the core | nobody is let in beyond what the core said; a valid seller is let in |
| Admin login (`auth/`) | OTP columns of `admins` | request a code, verify a code, issue a token | SMS gateway, `admins`, `roles` | cooldown read before write, code cleared blindly, SMS lost or reordered | a code logs in once, within two minutes, and is the newest one |
| Blacklist and cleanup (`auth/`, `tasks/`) | `blacklisted_tokens` | logout, guard, hourly purge | seller sessions | first purge failing skips the second; two guards with a window between them | a token that was logged out does not get past the blacklist while it is alive |
| Admins (`admins/`) | `admins` | create, update, toggle, soft delete, avatar | roles, storage | checks some awaits before the update | phones and emails are unique; a super_admin does not edit managers |
| Roles and permissions (`roles/`, `permissions/`, `common/guards`) | `roles`, `permissions`, `role_permissions` | create, update, remove, assign, take away; the guards read | admins | delete-then-insert without a transaction, checks before deletes | a role has the permissions of one request; what is in use is not removed |
| Media storage (`storage/`, avatar handlers of `admins/`) | files on disk or objects in a bucket, `admins.avatar` | upload, set an avatar, read; nothing is ever deleted | object store of the configured provider, `admins` | the store takes a file before, after or without its answer; the row is written later or never; restarts with another provider | a path that was answered or written to a row names the file that was sent |
| Paged lists (tickets of a seller and of the staff, logs, admins, roles, permissions) | | one page: a query for the rows, one for the total | all of the above change the lists | rows come, go and move between the queries and between the pages | a client that reads to the end sees what stayed in the list |
| Audit logs (`logs/`) | `logs` | list, statistics, deletion by age; nothing writes a row | | a list that is cut off while it is read | as the lists |
| Staff chat, email, request pipeline, schema | | empty service; templates; stateless; one-off SQL | | | |

`PROJECT.json` lists under "hazards" the places where this goes wrong in ways a unit test
with mocked repositories does not reach, and the properties that would catch each of them; where
there is none, because the code does it and no statement of the repository excludes it, the
note says what is shown instead.

## 2. Plan

Done, in this order, the core of the system first:

1. **Ticketing**: `Ticketing`, its abstract specification `TicketDesk`, properties, proofs.
2. **SellerAuth**: the session cache and the hourly task against `SellerGate`; proofs.
3. **AdminAuth**: codes, logins, logout and blacklist; the stored code against `OneTimeCode`;
   proofs.
4. **Rbac**: admins, roles, permissions, `role_permissions` and the guards; the tables
   against `AccessTable`; proofs.
5. **Media**: uploads and avatars against the stores; proofs.
6. **Listing**: the paged lists, with everything that changes them; proofs.

Left:

7. **Desk front**: guards and ticketing composed (a caller deactivated, a session expired
   while a handler of theirs runs).
8. If room is left: phone normalisation and the field selection as pure operators.

Every invariant, every action property and every refinement that a passing run checks is
proved (section 5); liveness is left to the runs.

The modules are written to be proved about: parameters are CONSTANTS with named assumptions,
one action per await, no RECURSIVE operator.

## 3. Modules

| module | what it is |
|---|---|
| `Ticketing` | the ticketing service: tables, handlers in flight, one action per await |
| `TicketDesk` | what the service promises: an atomic desk (status, thread, badge) |
| `TicketingProperties` | properties of `Ticketing`, and the refinement mapping to `TicketDesk` |
| `TicketingProofs` | theorems about `Ticketing` under any interleaving |
| `TicketDeskProofs` | theorems about tickets whose requests wait for each other; `Ticketing` implements `TicketDesk` |
| `SellerAuth` | seller authentication, its session table, the hourly task, the core backend |
| `SellerGate` | what it promises: sellers are let in on grants of the core only |
| `SellerAuthProperties`, `SellerAuthProofs` | properties and refinement mapping; theorems about what a session may say |
| `SellerGateProofs` | theorems about errors, removals and writes; `SellerAuth` implements `SellerGate` |
| `AdminAuth` | staff login by SMS code, logout, blacklist |
| `OneTimeCode` | what a stored code promises |
| `AdminAuthProperties`, `AdminAuthProofs` | properties of `AdminAuth` and the refinement mapping; theorems |
| `Rbac` | admins, roles, permissions and grants, the guards, the handlers that change them |
| `AccessTable` | what these handlers promise: roles, permissions and grants changed as a whole |
| `RbacProperties`, `RbacProofs` | properties of `Rbac` and the refinement mapping; theorems |
| `Media` | uploads, avatars, reads, the object stores |
| `MediaProperties`, `MediaProofs` | its properties; theorems |
| `Listing` | a client that reads a list page by page, and the changes to the list |
| `ListingProperties`, `ListingProofs` | its properties; theorems |
| `MCTicketing`, `MCSellerAuth`, `MCAdminAuth`, `MCRbac`, `MCMedia`, `MCListing` | values for TLC |

All systems but `Listing` are written the same way. A table is a variable; `reqs[r]` is the request
running in slot `r`, with a program counter that names the await it is about to issue and
the locals it still needs. An action issues one await and does the work up to the next one.

Handlers that work on the same thing may overlap, and any of them may be cut short by a lost
connection or a restart. Some properties hold in any case, others only of what is not
disturbed in this way, and one state space shows both: `Ticketing` has a set `Overlapping` of
tickets on which handlers may meet and a set `Faulty` of tickets on which they may be cut
short, `AdminAuth` a set `Overlapping` of admins. On the other tickets and admins requests run
one at a time, as a lock per ticket would have it, beside the undisciplined ones. `SellerAuth`
imposes nothing and remembers instead which requests have met another one with their token
(`met`, which no action reads). In `Rbac`, where two requests may touch several rows,
`Overlap` says for the whole instance whether they may share one. `Faults` is the flag for
requests cut short where there is no set. Some definitions carry a comment "Wrong:": they are
plausible mistakes, used by nothing; putting one in the place of its neighbour breaks a
property, which shows that the property depends on that code.

### Ticketing

State. `tickets`, `answers` and `assignments` are the three tables, `admins` the two columns
of `admins` the service reads. `reqs[r]` is the handler running in slot `r`: its program
counter names the await it is about to issue, `copy` is the entity it loaded, `own` the one
`assignTicket` loads, `base` what TypeORM's SELECT inside `save()` saw. `clock` is the last
value of `new Date()`; `ZeroId` is the admin whose id is 0, if there is one: `staffReply` tests
the assignee for truth and takes that one for nobody (`LooksUnassigned`); `delivered` remembers which answers reached which seller (a history
variable: no action reads it).

Actions. `CreateSellerTicket`, `GetSellerTicket`, ... are the handlers up to and including
their first database answer; `InsertTicket`, `ReadAnswers`, `ResolveAdmin`, `InsertAnswer`,
`EndAssignments`, `FindTarget`, `InsertAssignment` are the awaits that follow. Work the code
does after an await and before the next one belongs to the action of the first.
Requests the code refuses before writing anything (404, 400 for a closed ticket) are the
guards. `repo.save(entity)` is two actions, `SelectForSave` and `Update`/`UpdateOwn`: TypeORM
first selects the row and then updates the columns in which the caller's entity differs from
it. This is modelled from how the service uses it and is marked external. `ToggleActive` and
`RemoveAdmin` are the admins service seen from here, `Abort` is a rejected await or a
restart.

Abstractions. Texts, attachments, names, `updatedAt`, pages and counts are left out: no
property distinguishes them. The order of `answers[t]` is the order of insertion, which is
what `ORDER BY created_at` gives. `createSellerTicket` reads the clock just before it asks
for an assignee; the model does both in one step, since nobody else can have stamped a
ticket that does not exist. Admin rows are never deleted (`remove` is a soft delete).

### TicketDesk

Three functions of the ticket: status, sides of the messages in the thread, unread badge;
six atomic operations. `ImplementsDesk` is its specification under the mapping in
`TicketingProperties`: an answer of the seller or of the staff counts from the write of its
ticket row on, a status and the badge are the row's.

### SellerAuth and SellerGate

State. `core` is what the core backend knows of each token: its user, its expiry, whether it
is revoked. `sessions` is `seller_token_sessions`, at most one row per token hash (a unique
index); `cleanup` is the hourly task with the cutoff it works with.

Actions. `Arrive` and `Lookup` are the first statement of `validateBearerToken`; then the
request returns the cached session, or writes `last_used_at` (`Touch`, `UpdateLastUsed`,
`Reinsert`: the SELECT of TypeORM's `save()` and the UPDATE, or the INSERT when the row has
gone meanwhile), or deletes an expired row (`DeleteExpired`), asks the core (`AskCore`,
`CoreAnswer`) and inserts the answer (`InsertSession`). `CleanupStarts`,
`CleanExpiredTokens`, `PurgeExpiredSessions` and `PurgeFails` are the task. `Revoke` and
`Prolong` are the core's sessions ending and being extended; both may happen while a request is under way. The
core's clock need not be the backend's, so it may still vouch for a token that has just
expired here; the code compares again after the answer (`CoreAnswer`).

`SellerGate` knows grants (user, end). A grant appears when the core vouches for a token that
is not revoked, may be forgotten at any time, and lets in who arrived before its end.
`ImplementsGate` maps grants to what is in the table or in the hands of a request: that is
what makes `Reinsert` of a purged row harmless.

### AdminAuth and OneTimeCode

State. The `otp_*` columns and `is_active` of `admins`; `issued`, all codes in the order they
were generated; `sent`, those the gateway has taken, which may be typed in at any later time
or never; `logins`, the tokens issued; `blacklist`. `loggedOut` (history) are the tokens that were
ever logged out, which the cleanup does not forget.

Actions. `RequestOtp` (check of the cooldown), `StoreCode`, `SendSms`; `VerifyOtp` (code and
time limit), `ClearCode` with the signing that follows; `Authenticate` (JwtAuthGuard, which
compares the expiry with the clock, `IsAlive`), `CheckBlacklist` (BlacklistGuard), `Logout`;
`CleanExpiredTokens` as the hourly task calls it; `ToggleActive` of the admins service. Only the
logout route has both guards, so what is shown of the blacklist is shown of that route: all other
routes take a token that was logged out until it expires.

Abstractions. Codes are numbered, so two codes are never equal; the code compares six random
digits. Tokens are numbered too: two logins of one admin within a second get equal JWTs, and
a logout of one is then a logout of both. A unit of time is what both `Lifetime` (two minutes)
and `Cooldown` are counted in; only their order matters to the comparisons.

`OneTimeCode` has for each admin the valid code and the set of redeemed ones. `Issue` brings a
code never redeemed, `Redeem` records and removes it, `Void` is a request cut short between
clearing the code and signing the token.

### Rbac and AccessTable

State. `roles` and `permissions` are sequences of names in the order of the ids, a removed
row is `None`; `grants` are the pairs of `role_permissions`; `admins` has phone, role, active
and deleted. `failed` collects the calls that ended in an error of the database (a history
variable). Initially the tables hold the seed,
shortened, with a first `super_admin`; the permission of the support is granted as in the seed
or no longer.

Actions. `Authenticate` is JwtStrategy and RolesGuard, `PermissionsGuard` its own await, which
a manager skips. Then each handler of `roles.service.ts`, `permissions.service.ts` and
`admins.service.ts`: the checks, each one an action since each is a query, and the writes. The
keys act in the writes: unique names and phones refuse (`Fail`), the foreign key of
`admins.role_id` refuses the deletion of a role that has members, those of `role_permissions`
cascade. `assignPermissions` ends `create` and `update` when permissions are given, as in the
code. `AdminsService.create` checks the role but not whether it is `manager`; `update` checks
that but not whether the role exists. `AtRest` also admits the state in which nobody is left
who passes RolesGuard: the API can lock everybody out, and no statement of the repository
says it cannot.

`AccessTable` replaces the permissions of a role in one step, for an order given earlier, and
drops only what is not in use. The mapping counts an assignment from its delete on and a role
as gone once its removal has deleted the grants.

### Media

State. `store[p]` are the objects in the store of provider `p`: a path, a type and the number
of the file that was sent. `provider` is the one the process was started with. `avatars` is
`admins.avatar`; beside the path it remembers (history) which upload it was set by, if by one.
`answered` are the uploads whose path was answered. `uuids` counts the UUIDs drawn.

Actions. `UploadFile` is the size limit of `FileInterceptor` and `StorageService.uploadFile` up
to the request to the store: type and size are checked, the path is built from a folder and a fresh
UUID. The store takes the file at some moment (`PutLands`) and answers later (`PutAnswered`);
`FindAdmin` and `WriteAvatar` are `updateAvatar`. `Fail` is an error or a timeout of the store,
or an error of the database, at any await: the file that has landed stays, and one that has not
may still land after the request has failed or the process has stopped (`LandsLate`). `GetFile` is
`GET /files/*`. `EditAvatar` is the avatar that `PUT /admins/:id` writes unchecked, `Restart`
a stop and a start, possibly with another provider.

Abstractions. Bytes are the number of the file, types one of a class that the code treats
alike, dates and extensions in a path are left out (the UUID alone makes it fresh), and so are
absolute URLs, which are built from the path and read by clients only. A file lands late only
until its slot is used again. The directory prefix of
a URL stays, since the reading of files fails over it (section 4).

### Listing

State. `kind` says which of the six lists, `list` are its rows in the order of the query,
`reader` is the client: the page and size it asks for, the query it waits for, how often it was
given each row, and, as history, which rows were there at its first query and what became of
them. `tied` are tickets with equal time stamps.

Actions. `Begin` is the request for the first page, with the clamps of the ticket lists
(`PageUsed`, `SizeUsed`); `FindRows` and `Count` are the two queries behind a page, after which
the client asks for the next one unless it has come to the total. `Insert`, `Touch`, `Rename`,
`Remove` and `DeleteOlderThan` are what the handlers of the backend do to the lists, as far as
the order of the query shows it: a new ticket is first, every save moves a ticket to the head of
the staff's list (`updated_at`), a permission moves with its category and name, an admin is
hidden and a role deleted wherever they are, logs go from the old end. `Swap` is the database
choosing another order of rows with equal time stamps: it may do so in the ticket lists only,
since TypeORM adds the id to the order of the other queries, which join.

Abstractions. A list is what its filter lets through: filters, searches and columns are left
out. So are a limit of 0 where it is not clamped (TypeORM takes it for none), a page that is
not a number (TypeORM refuses it with a 500), and that TypeORM skips the count on a short page
and reads joined rows in two statements by id.

## 4. Runs

| run | instance | shows |
|---|---|---|
| `tk` | 2 sellers, 2 admins (one with the id 0), 2 tickets, 2 slots, 4 requests; handlers meet on the first ticket and are cut short on the second | types; no invented replies; assignees are known to the history, which is a log; on the ticket where handlers do not meet: closing columns, one active assignment, status changes only on request, badge cleared only by the seller |
| `tk_desk` | 1 seller, 2 admins, 2 tickets, 4 requests, none overlap or are cut short, distinct time stamps, fair | unseen replies are unread; assignee and active entry agree; refinement of `TicketDesk`; every reply reaches the badge |
| `tk_lost_badge` (violation) | 1 ticket, overlap | a reply that is never unread |
| `sa_gate` | 1 token, 2 slots, 3 requests, clock to 4, faults, fair | the cache never outlives or misnames what the core granted; refinement of `SellerGate`; only expired rows go; the unique index is only hit, and the throttle only passed, by requests that met; revocation takes effect; expired rows go |
| `sa_first_use` (violation) | 1 token, 2 requests | two first uses: one valid seller gets a 500 |
| `aa` | 2 admins, 2 slots, 5 requests, clock to 5, faults; requests meet for the first admin | types; a code logs in its admin within its lifetime; nobody gets past the blacklist with a live token that was logged out; for the other admin codes are spaced by the cooldown and redeemed once, and refine `OneTimeCode` |
| `rb_apart` | 3 roles, 3 permissions, 2 admins, 2 requests of all kinds that touch different things | refinement of `AccessTable`; only missing roles reach the database |
| `rb_overlap` | 3 roles, 2 permissions, 2 admins, 2 requests of all kinds, overlap, faults; no request names a role manager | types; foreign keys, unique names and phones hold; a super_admin updates or toggles a manager only where another request has made the admin one since it was loaded, and makes nobody one |
| `rb_role_in_use` (violation) | 2 requests, overlap | a role loses its permissions although an admin has it |
| `md` | 2 admins, 2 slots, 4 requests or restarts, 4 kinds of files, faults | types; an avatar shows the file its admin sent; answered paths are stored |
| `md_read` (violation) | 1 admin, 2 requests | a file is uploaded and is not found under its path |
| `ls` | each of the 6 lists, up to 5 rows, 3 of them tied, sizes to 2 (3 where not clamped), first pages 0 and 1, 3 changes, fair | types; in lists of tickets and logs only rows deleted or moved are missed; at most one row is missed or repeated per change; reading a ticket list ends |

Bounds. A race needs two requests, so two slots. In `Ticketing` two requests prepare the
ticket (create and reply, say) and two meet, so four; the two tickets are there for
the two regimes, and to show that what happens on one does not disturb the other. A token needs one request that
caches it and two that meet over the row, and a clock that passes its expiry: three and four.
A code needs a request and a verification, each twice, and one call to deactivate or log out:
five. `Rbac` starts with filled tables: roles with members and one without, permissions that
are granted and one that in one of two initial states is not, a manager and a super_admin, so
that two requests already meet in everything they can race for. Both runs give super_admin the
permissions about admins, which the requests may take away or grant; a manager may do everything.
Uploads race for a row in pairs, and a read or a restart comes before and after: two slots, four
requests. A list
of five rows in pages of two has a first, an inner and a last page, and three changes are enough
to push a row over an edge, to bring it back and to shorten the list. `Elapse = {1}` excludes
equal time stamps in a row; the theorems leave it open but for the two that need it.
Slots, sellers of `Ticketing` and admins of `Media` are interchangeable, hence the symmetry
sets; they are not used with liveness. Admins of
`Ticketing` are not: ties go to the smaller id. Deadlock is checked in every run: where
behaviours end, `AtRest` (or the purge that comes back every hour) says so.

Fairness. `Ticketing!FairSpec` is weak fairness of the steps of each slot: the event loop
resumes a handler when the database has answered, and the database answers. Accepting requests
is not fair: nobody has to call. `SellerAuth!FairSpec` adds that time passes and that cron
fires again; since an error of the blacklist's purge skips the purge of the sessions, and that
may fail too, it also assumes, as strong fairness of these two steps, that neither fails every
single time.
`Listing!Fairness` is weak fairness of the two queries: the database answers, and a client that
has begun goes on. Changes are not fair.

What fails on purpose. The four violations are disagreements between the code and a test
title, a comment, the storage README or its own refusal; `PROJECT.json` quotes them. That of
`md_read` is in every request: `main.ts` puts all routes under a global prefix, and
`getFile` cuts only `/files` off the path, so what remains names no object and the
answer is a 404. Other weaknesses met on the
way contradict no statement of the repository, or are further cases of the same pattern (a
check, an await, a write), and are described as hazards: an answer that lands on a ticket
closed since the check; a reply on an unassigned ticket that assigns it and then, with its own
`save()`, takes the assignment back; two assignments at once that leave two active entries;
two creations at once that pick the same admin; an update by a super_admin of somebody who has
been made a manager meanwhile, removals of managers and creations of them by a super_admin; a
reply in the millisecond of the seller's last look, or before the seller's own answer, that is not unread; two codes for one admin
within the cooldown, and one code redeemed twice, when requests overlap; a permission granted
between the check and the delete of its removal; lost toggles; a caller refused while
`assignPermissions` is between its two statements; rows of the admin, role and permission lists
that slip over the edge of a page when one before them is removed; ties in the ticket lists.

## 5. Proofs

The theorems hold for any sets of sellers, tickets, tokens, slots, admins, files and names, for
lists and pages of any length, and for any bounds. Unless a theorem says otherwise they also
leave open which requests overlap and which are cut short. Assumed of the constants: ids are
positive naturals, bounds and durations are naturals (pages at least 1), flags are Boolean, a
file has one of the four sizes, a client starts at page 1 or before, the seed of `Rbac` is a
table with its keys (`SeedIsATable`) and `None` is no name (`NoneIsNoName`). TLC evaluates
these assumptions in the runs.

Five theorems have hypotheses of their own, and they are those of the run that checks the same
property: `UnseenReplyIsUnreadAlways` and `ImplementsDeskAlways` want time to pass between
time stamps (`0 \notin Elapse`), the latter also no overlap and no faults, as in `tk_desk`;
`OnlyMissingRolesFailAlways` wants `Overlap = FALSE`, and `ImplementsAccessTableAlways` also
`Faults = FALSE`, as in `rb_apart`; `SuperAdminSparesManagersAlways` wants that no request names a
role manager, as in `rb_overlap`. They are needed:
without them the runs, or the hazards described in section 4, give counterexamples.

### Ticketing

`TicketingProofs`, whatever overlaps:

* `TypeCorrect`: `Spec => []TypeOK`. The inductive invariant `TypeInv` adds to the types what
  a handler's program counter says of its locals: a handler that is past `idle` has a ticket,
  a view or a create belongs to a seller, an assignment has an actor that is an admin, and so
  on. Without it the inserts would not have rows of the right type.
* `NoPhantomReplyCorrect`: `Spec => []NoPhantomReply`. A stale copy marked "admin" may be
  written at any later time, so the invariant has to speak of every copy in flight: each copy
  and each base of a save that says "admin" belongs to a ticket that already has a staff
  answer. Answers are never removed, so this survives the steps of the others.
* `HistoryCorrect`: `Spec => HistoryIsALog`, from `TypeInv`, one step per action: only
  `EndActive` and `Append` touch the table.

`TicketDeskProofs` first describes what a request and each of its steps does field by field
(`RequestHasEffect`, `StepHasEffect`) and argues from these two lemmas. All but the first theorem
are about the tickets outside `Overlapping`, while anything may happen on the others:

* `AssigneeIsInHistoryAlways`, under any overlap, for the tickets outside `Faulty`: `KnownInv` says
  that every admin who stands as assignee in the row, or in a copy that may still be written, has
  an entry in the history, or that this entry is the next thing a handler inserts.
* `ClosingColumnsAgreeAlways`, `StatusChangesOnRequestAlways`, `BadgeClearedBySellerAlways`:
  `AloneInv` (one handler per ticket) and `CopiesInv`, by which the copy of a handler differs from
  the row only in the columns that its operation sets, and the base of a save not at all. A
  write then changes those columns and no others.
* `OneActiveAssignmentAlways`: `LogInv` ties the open entry of the history to the program counter,
  faults included. `AssigneeMatchesActiveAlways`: `MatchInv`, for tickets without faults, follows
  `assigned` and the open entry through an assignment and through the step back that `staffReply`
  takes when it saves its older copy.
* `UnseenReplyIsUnreadAlways`: `NewsInv` compares the time of the last public answer with the read
  cursor of the row and of the copies under way.
* `ImplementsDeskAlways`: `Spec => ImplementsDesk`, from all of these: each write, insert or
  return maps to one step of the desk or to none.

### Seller authentication

`SellerAuthProofs`, all three from one inductive invariant `GateInv`:

* `TypeCorrect`, `SessionsWithinCoreAlways`, `AcceptedWithinCoreAlways`: `Spec => []TypeOK`,
  `[]SessionsWithinCore`, `[]AcceptedWithinCore`. The table alone is not inductive: a request
  may insert or save its row at any later time, after deletions, the purge or a prolongation.
  `RequestOK` therefore says of every request that holds a row that the row lies within what
  the core knows now and had not expired when the request arrived. It survives the steps of
  the others because the core only ever moves an expiry forward and never changes the user of
  a token; the steps of the request itself are one case each of `StepGate`.

`SellerGateProofs` adds `CopiesInv` (an id stands for one session: all its copies have the same
user and end, and ids do not come back), `AloneInv` (what a request that has met nobody knows
of its row) and `WaitingInv` (who is idle, who has a user), together `SessionInv`:

* `NoErrorsAlways`: a request that met no other one with its token never hits the unique index,
  though the purge runs and the core changes between its steps.
* `OnlyExpiredIsRemovedAlways`: the delete of a request goes by id, and by `CopiesInv` the row
  with that id is still the one that had expired.
* `WritesAreThrottledAlways`: from `AloneInv`, which bounds the time of the row by that of the copy.
* `ImplementsGateAlways`: `Spec => ImplementsGate`, without any hypothesis about overlap or faults.

### Admin login

`AdminAuthProofs`:

* `TypeCorrect`, `LoginsAreTimelyAlways`: `TimelyInv` says of every stored code, and of every code
  in the hands of a request, whose it is and when it was generated; a verification that waits
  for its `ClearCode` has compared with this time. It holds under any overlap.
* `LoggedOutIsRefusedAlways`: `Spec => LoggedOutIsRefused`, from `ListedOrExpired`: a token that was
  logged out is on the list or its expiry has passed. The cleanup (`expiresAt < now`) and the JWT
  check (`now < exp`) leave no instant at which a token is off the list and alive; the clock does
  not go back, so a token that passed the JWT check earlier makes no difference.
* `CodesAreSpacedAlways`, `RedeemedOnceAlways`: for the admins outside `Overlapping`, `ApartInv`
  adds to one request at a time (`OneAtATime`) that the last request time is not older than any
  code stored and that who is about to store has let the cooldown pass (`SpacingOK`), and that a
  redeemed code is in no row and on no way into one (`RedeemingOK`).
* `ImplementsOneTimeCodeAlways`: `Spec => ImplementsOneTimeCode`, from both.

### Roles and permissions

`RbacProofs`:

* `TypeCorrect`, `ConsistentAlways`: from `Inv`, which is about requests (`RequestsInv`), tables with
  their keys (`TablesInv`) and counts. No check of a handler is used: the unique indexes
  and the foreign keys of the database suffice, under any overlap and any fault.
* `OnlyMissingRolesFailAlways`: here the checks count. `OrderlyInv` adds that requests touch
  different roles, permissions, admins, names and phones (`ApartInv`) and that what a request has
  checked still holds when it writes (`ChecksInv`). The second is a rely-guarantee argument:
  `Within(c)` is what a step of a request with call `c` may change in the tables, and
  `OthersKeep` shows that this disturbs no check of a request that touches something else. With
  the checks in force no write violates a key but the one that `update` does not check for.
* `SuperAdminSparesManagersAlways`, under any overlap and any fault: `SparingInv` says of a request of
  a super_admin past its check that the role in the copy it loaded is not the manager's, and that
  neither is the one it is to give. Other requests may change the row but not which role is the
  manager's, for none names a role so and a removed id does not come back; so whoever turns out to
  be a manager at the write got another role than the one in the copy.
* `ImplementsAccessTableAlways`: `Live`, `Granted` and `Orders` of the mapping collect contributions of
  all requests. They are split into what the stepping request contributes and what the others
  do (`Mapped`); the others' part does not change, so that each writing action has one lemma
  about its own part, and all other steps leave it as it is.

### Media

`MediaProofs`, all three from one inductive invariant `MediaInv`:

* `TypeCorrect`, `AvatarShowsUploadAlways`, `AnswersAreStoredAlways`: `Spec => []TypeOK`,
  `[]AvatarShowsUpload`, `[]AnswersAreStored`. A path that is written to a row may be replaced
  in the store by another upload unless nobody else ever has it. `MediaInv` therefore says that
  requests whose file may still land (`MayLand`: in flight or failed) have different paths, that no
  object and no request has a number not yet drawn, that the path of such a request names no object
  but its own, and that what has landed is in the store under its path until the request ends and
  after.

### Paged lists

`ListingProofs`:

* `OthersAreNotMissedAlways`: `Spec => []OthersAreNotMissed`. The property speaks of the end of
  the reading only. `IInv` says how it comes about: every row that was there at the start, was
  neither read, deleted nor moved (a row that is `Due`) stands below the position the reader has
  passed (`DueAreBelow`), and none has vanished otherwise (`NoneVanished`). Insertions at the
  head and rows moved there push the others down, deletions at the end take nothing from above,
  and the reader moves on by no more than the window it has been given.
* `MissedAtMostChangedAlways`: `MissedInv` counts at every moment the rows not read that are deleted or
  stand above the reader: no more than there were deletions and moves. A change of the list
  lets at most one row rise over any position (`RisesOne`), and a deletion is paid by the row itself.
* `RepeatedAtMostCameAlways`: `RepeatedInv` counts the repetitions so far together with the rows that
  were read and stand below the reader (`Ahead`), which may be repeated: no more than there were
  insertions and moves. An insertion and a move let at most one row fall below any position
  (`FallsOne`, the same as rising in the opposite change); a page turns rows ahead into
  repetitions, one for one.
* `TypeCorrect`: `Spec => []TypeOK`, from the first two invariants.

### Only model-checked

The liveness properties (`ReplyIsAnnounced`, `RevocationTakesEffect`, `ExpiredSessionsGo`,
`ReadingEnds`), which need reasoning about ENABLED that the prover does not have, and the four
violations, which are counterexamples.

## 6. Not modelled

Statistics, counts and reads of single rows (queries that change nothing and relate to no
other); filters and searches of the lists, among them the filter by role of the admin list,
which uses an alias the query does not have and fails in every call; staff chat (tables and an
empty service); email (no module sends through it); the validation pipe, exception filter and
field selection (stateless); `deleteObject` of the providers, which nothing calls; running
migrations and seeds, beyond the keys, defaults and first rows the models use; `refreshToken`,
which looks for a column that the entity does not have; role names copied into
`admins.role_name`, which nothing decides by. That an automatic assignee is the one with the
fewest open tickets is in `IsAutoAssignee` and checked only as far as other properties depend on
it.
