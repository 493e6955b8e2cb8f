# flexHRM server: TLA+ models and proofs of its core workflows

The server (`src/src`, NestJS on MongoDB) keeps the human resources records of many
tenants: employees, leave, attendance and payroll; field supervisors who visit
schools, and the requests they raise; contracts, tenders and licences; and the
platform's own tenants, subscriptions and bills. Most of its services are small
registers. This project is about the parts whose rules span several documents,
several calls or several days.

1. [How the code is modelled](#1-how-the-code-is-modelled)
2. [The system](#2-the-system)
3. [The modules and the code](#3-the-modules-and-the-code)
4. [What the runs check](#4-what-the-runs-check)
5. [Where the code and its own words disagree](#5-where-the-code-and-its-own-words-disagree)
6. [What is proved](#6-what-is-proved)
7. [What is not modelled](#7-what-is-not-modelled)
8. [Plan](#8-plan)

Run the checks in this directory: `tlc -config X.cfg M` for a row of section 4,
`tlapm M.tla` for a module of section 6.

## 1. How the code is modelled

One Node.js process serves every request and timer. JavaScript runs undisturbed up to
an `await`; each database call is atomic; handlers interleave at their awaits. So
an action is the code between two awaits, and a handler under way is a record
`call[h]`: a program counter `pc` (the await it is suspended at) and what it
remembers of the documents it read. `IdleCall` is a handler that serves nobody.

* `document.save()` writes the paths the handler changed, with the values it
  computed from what it had read, over whatever is stored by then (`Saved` in
  MongoDocument). `$inc`, `$push`, `updateOne` and `findOneAndUpdate` act on the
  document as it is.
* `Crash` is the death of the process between any two steps (a container restart):
  handlers and in-memory flags are lost, the database and the files stay. How often
  it happens is bounded by `MaxCrashes` (`MaxUpsets`).
* Time passes in actions of its own (`DayPasses`, `Midnight`, `OtpExpires`).
* Documents are reduced to what a property tells apart. Identifiers are model
  values; wording, layout and logs are left out.

Some properties hold of any interleaving; most of this code only keeps its promises
to calls that do not overlap. Such a property is stated for serial behaviours
(`IsSerial`, `Serial`: one handler, or all others `OffCall`, chosen in `Init`),
with crashes at every step unless it says otherwise, and its comment says so. What
an overlap breaks is listed as a hazard in PROJECT.json, at its line, and is shown
by a run of its own where the repository promises the opposite (section 5).

## 2. The system

State is what the component stores (collections) or remembers in the process. Paths
are under `src/src`.

| Component | State | Operations | Interacts with | Hard parts | What makes it correct |
|---|---|---|---|---|---|
| Leave (`modules/leave`) | requests with an approval chain; yearly balance rows | apply, approve, reject, open a balance row | employee portal applies; workflows triggered on approval | read–test–save without a lock; rows created after a request; crash between decision and settlement | no row promises more than it has; what is reserved and charged is backed by requests |
| Billing, subscriptions, tenants (`platform/modules/billing`, `tenants`) | payments, invoices, subscription, tenant status | three checkouts and webhooks; suspend, activate, extend trial, assign plan, delete | gateways call back; every request tests the tenant's status | events repeated and reordered; four documents per payment | paid means open; suspension is earned; an invoice for every announced payment, and none beside |
| Request desk (`modules/supervisor-requests`) | requests with replies | create, reply, respond, close, escalate, resolve, acknowledge, sweep | notifications; photo uploads | an upload between read and save; a sweep in every listing | life of a ticket; what expires was announced |
| Supervisor accounts, devices (`modules/auth`, `school-supervisors`) | registered device, one-time code; sessions | login, register, transfer, hand out a code, delete | guard of every supervisor request | look-up, clearing and binding are separate calls | one owner per device; moves need a code |
| Supervisor activity (`supervisor-activity`, `sessions`) | spans of time online; `lastActiveAt` of sessions | login, throttled touch, logout, closing of stale rows | every supervisor request | calls nobody waits for | one open span, no time counted twice, none without a sign of life |
| Field visits (`school-visits`, `planned-visits`, `commitment-diary`, `notifications`) | visits, plans, commitments, notices | report, plan, commit, review, edit; sync on every poll | report settles plans, commitments and notices | two clocks; upload before insertion; lists read and then saved one by one | cooldowns hold; completion is earned; notices tell the truth |
| School register, expenses, partners (`school-works`, `school-partners`) | schools with serial numbers and monthly ledgers; a partner per school; invoices | create, import, edit, delete, renumber; split an amount over a block; invoice | the controller writes schools, then partners | crash or refused row in between; whole ledgers written back; remainders | numbers contiguous; every school has its partner; shares add up |
| School locations (`school-works`, resolvers in `common/utils`) | pin of a school and whether it is verified; an in-memory cache of village pins | slow and fast bulk jobs, supervisors' searches, corrections by hand | registers of schools, Google, several village sources | searches that answer after their job gave up; one cache for jobs of different care | what a job verifies was vouched for; verified pins are kept |
| Monitoring agents (`modules/employee-monitor`) | devices, tokens, credentials, commands | register, heartbeat, rotate, revoke, queue commands | agent guard; workspace opens queue commands | revocation beside a save; rotation in two steps | a token is backed by a credential in force; revoked stays revoked |
| Activity ingestion (`agent.service`, `employee-monitor.service`) | logs per kind, productivity counters, alerts, screenshots and their images | ingest, upload, resolve, clean up by age, delete | one batch also marks attendance | retried batches; find-then-create; clean-up between two writes | what an agent was told is stored, is |
| Agent tasks (`agent-workspace`) | templates, tasks | issue monthly, give out, complete, report, edit, delete | a timer and every listing issue | short months; a pass repeated, cut or failing | one task per template, employee and month; every month is issued |
| Shared files (`agent-workspace`, `media-storage`) | rows of files and of folders; images | upload, delete, register and remove folders | image store that may refuse | limit tested before the upload; file and row apart; a folder's row deleted by id | what was answered is there |
| Attendance and punches (`attendance`, `attendance-punch`) | cell per employee and day; sync rows; fences | mark, import, punch, device and agent syncs, exit list | agents' batches | mark-then-log; months over a new year | nobody present is listed to be let go |
| Self-service (`modules/employees`: data gather, change requests) | links, sessions, change requests, profile, documents | create and revoke links, unlock, submit, approve, reject, bulk edit | mails; HR edits the same profile | one-use links; entries applied one by one | approved is applied, rejected is untouched |
| Payroll ledger (`modules/employees`, `ledger-entry.util`) | months of dated items and totals inside the employee | set totals, add and remove items | profile updates write the same document | the whole ledger is rebuilt and written back; totals older than items | no item lost; totals follow items |
| Employee register (`modules/employees`) | employees, serial numbers, exit status | create, import, update, mark exit, delete, renumber | plan limits; tenant filter | count then create; `bulkWrite` beside the filter | serial numbers contiguous; tenants apart |
| Cold storage (`data-archive`, `backup-restore`) | sources, archived rows, photo files; `archiveInProgress` | archive job, trim of audit logs, restore; backup, restore, clear | eight collections of the others | copy then delete; flag set after an await; files unlinked before the document is back | nothing is lost on the way; the job ends |
| Administrators and sessions (`auth`, `admins`, `sessions`) | account, sessions, connection codes | login, logout, change and reset of the password, update, delete, redeem a code | roles and places are copied to sessions | a login or redemption that read the account earlier | no session outlives its password |
| Firewall (`modules/firewall`) | failures and lock of an address, block and trust lists, settings | pass a request, count, lock, forgive, block and trust by hand | login | a passed lock taken off late; the limit changed meanwhile | guesses are bounded |
| Tenders (`modules/tenders`) | tenders with soft deletion; audit log | enter, import, sync with GeM, edit, delete, remove, back-fill | a browser extension; super admins | saves of rows read earlier | one active tender per bid; participation stands |
| Contracts and guarantees (`contracts`, `bg-dd`) | two registers that write each other | create, import, edit, delete, carried over both ways | each other | whole documents written back; crash between the two | both agree |
| Renewals, stored documents (`renewals`, `bg-dd`, `employees`) | records; rows of documents and their bytes in a cloud or in the row | import, edit, upload, replace, delete | a cloud that may refuse | file and row apart; a file deleted by two | imports find theirs; a kept document can be read |
| Registration, plans, payroll runs, workflows, queue, geography | tenant, subscription; runs; jobs in memory | register, calculate, execute, retry | billing, leave | many steps, none rolled back; jobs lost on restart | planned (section 8) |
| Small registers, messages, pipeline, start-up, scripts | one row per call, or none | | | | not modelled (section 7) |

PROJECT.json lists each with its files under "components", and under "hazards" what is
hard to test in them.

## 3. The modules and the code

| Module | Code | State | Actions |
|---|---|---|---|
| LeaveLedger | leave.service.ts | `balance` (rows per employee, type and year), `request`, `triggered` | `InitializeBalance`, `ApplyAgainstBalance`/`SaveBalance`/`CreateRequest`, `ApplyWithoutBalance`, `ReadForDecision`/`SaveDecision`/`Settle` |
| TenantBilling | billing.service.ts, tenants.service.ts, tenant-context.service.ts | `tenant`, `sub`, `payment`, `invoices`; the gateways' `gateway` and `outbox` | checkouts, webhooks per gateway, and the chain payment–subscription–tenant–invoice they start, one database call each; the operator's calls |
| RequestTicket | (abstract) | `ticket` | the life of a request, one step per call |
| SupervisorRequests | supervisor-requests.service.ts and controller | `request`, `told` | every call as read, save, notify; `FindAll` with its sweep |
| MongoDocument | mongoose, as the services use it | – | `Saved` |
| DeviceBinding | auth.controller.ts, school-supervisors.service.ts, the guard | `registered`, `otp`, `sessions`, `exists` | login, registration and its verification, look-up, clearing, binding; code handed out, expired |
| SupervisorActivity | supervisor-activity.service.ts, sessions.service.ts | `token`, `span`, a clock in touch intervals | login, touch, logout; reading, closing, inserting, extending rows |
| VisitEvidence | cooldown, access and ping utilities | – | operators: who may visit when, what GPS and pings say |
| FieldVisits | school-visits, planned-visits, commitment-diary, notifications services | `visit`, `planned`, `commitment`, notices (`sent`, `unread`), `day` and the server's own day | report with all it settles, sync, plan, commit, review, edits |
| SchoolRegister | school-works controller and service, school-partners.service.ts | `school`, `partner` per code | create, import, patch, delete, renumber row by row, with the partners written last; partners by hand |
| SchoolExpenses | school-works.service.ts, school-monthly-billings.service.ts | `school` (each with its month's ledger), `invoice` | distribute and take back an amount, days, invoices; `bulkSetSchoolFields` one school at a time |
| SchoolPins | school-works.service.ts and the resolvers | `school` (pin, verified, tried), `villageCache`, `late` searches | each job as fetch, search, save; answers that come late; corrections and checks by an administrator |
| DeviceAgents | agent.service.ts, employee-monitor.service.ts, agent-auth.guard.ts | devices, tokens, keys, commands | registration in its steps, guarded calls, rotation and revocation in theirs |
| MonitorLogs | agent.service.ts, employee-monitor.service.ts | `row` per kind of log, `keyCount`, `alert`, `shot`, `image` | a batch log by log, upload then row, alert found then raised, clean-up kind by kind |
| AgentTasks | agent-workspace.service.ts | `template`, `task`, a calendar `today` | the pass over templates and employees, tasks by hand, completion, deletion |
| SharedFiles | agent-workspace.service.ts, media-storage.service.ts | `file`, `stored`, `folder` | upload, row, owner's name; deletion; a folder found, made, saved, deleted |
| Attendance | attendance.service.ts, attendance-punch.service.ts, agent.service.ts | `cell`, `synced`, `fences`, `standing` | marks, imports and device syncs entry by entry, agents' logins, the exit list in its three reads |
| EmployeeSelfService | employee-data-gather and employee-change-requests services | `links`, `requests`, `profile`, `documents` | create, unlock, submit, approve, reject; one field and one document stand for all |
| PayrollLedger | employees.service.ts, ledger-entry.util.ts | `ledger` | add, set, remove, each read–rebuild–`$set`; profile updates beside |
| EmployeeRegister | employees.service.ts, tenant-query.plugin.ts | `employees` of every tenant | create, import, update, exit, delete, renumber |
| ColdStorage | data-archive and backup-restore services | `live`, `archive`, `files`, `dump`, `archiveInProgress` | job with its batches, trimming, restoration in five steps, backup, restore, clear |
| AdminAccess | auth and admins controllers, sessions and smart-capture services | `account`, `session`, `code` | login in its steps, password changes, updates and deletions with what they do to sessions, codes made and redeemed |
| LoginLock | firewall service, middleware and controller; auth.controller.ts | `attempt`, `block`, `trusted`, `loginMaxAttempts` | a request through the middleware, the password right or wrong, counting, locking, forgiving |
| Tenders | tenders.service.ts, gem-status-inference.util.ts | `tender`, `logged`, the back-fill | create, import, sync, update, delete, remove, row by row as read and save |
| Contracts | contracts, bg-dd and contract-bg-sync services | `contract`, `record` | each register's calls and what they carry over |
| StoredDocuments | renewal-, bg-dd- and employee-documents services, media-storage.service.ts | `owner`, `doc`, `cloud` | upload, replace, delete, delete an owner's |
| Renewals | renewals.service.ts | `renewal` | enter, edit, import row by row, delete |

The MC modules choose instances, and compose in one run components that live side by
side: `part` is chosen in the initial state and only that part moves, the variables the
others use standing still.

| MC module | Parts |
|---|---|
| MCLeaveLedger | `leave`; self-service `serial` and `race`; `ledger`; `register`; administrators `access` (one call at a time) and `accesses` (two); `lock` |
| MCRequests | `requests`; `tenders` (two users), `bids` (two tenders), `oldTender`; `guarantees`, `contracts`, `amounts`; `fileFirst`, `rowFirst`; `renewals` |
| MCPlatform | `devices`; `billing`; `cold` (two jobs) and `kept` (backups); `pins` |
| MCFieldVisits | `visits`; `expenses`, `invoices`; `register`, `pays`; `activity` |
| MCDeviceAgents | `agents`; tasks for two `handlers` and two `employees`; attendance over `months` and of one `day`; `logs`, `logging`, `shooting`; `shared` |

Some variables stand for no field of the code. They remember what a property asks about
and are marked "history" where they are declared: `told` (the supervisor was notified),
`lastDone`, `unpaid`, `taken`, `announced` (what the gateway said), `bound` (devices a
supervisor ever had), `landed` and `owed` (what reached a profile or ledger), `answered`
and `uploaded` (what a client was told), `worked` (days somebody was told are present),
`seen` (when a supervisor did something), `wrong` and `most` (guesses since the last
forgiveness, and the largest limit since), and those that take note of what a property
leaves out: `cut`, `disturbed`, `apart`, `mixed`, `excused`, `silenced`, `corrected`,
`overlapped`, `raced`. No handler's guard reads them. AdminAccess explores no further once `cut`
is set.

The exact lines each definition stands for are in PROJECT.json, "map".

## 4. What the runs check

| Run (cfg) | Instance | Properties | What it shows |
|---|---|---|---|
| leave (Leave, MCLeaveLedger) | leave: 2 handlers, one row and one "LOP" row, 2 requests of 1, 2 or −1 days, 1 day entitled, 1 crash; self-service: 1 link and 2 requests serially, 1 of each under 2 handlers; ledger of 2 months and 2 kinds; register of 3 codes with a plan for 2; an account with 2 sessions and 2 codes serially, 1 of each under 2 calls; an address, limits up to 2, an administrator, 1 crash | TypeOK, NoOverdraw, RowsAreBacked, ApprovedMeansApplied, NoItemLost, AddedOnTop, SerialsAreContiguous, SessionsAreCurrent, GuessesAreBounded | Serially no row is overdrawn, even when a crash leaves a reservation behind or a row is opened late, until a request for days below zero is refused; nothing stays reserved for what has been settled, and however calls overlap, no more is charged than approvals say. An approved request has been applied in full under any race and crash; serially a rejected one not at all. Serial numbers close their gaps. A password change ends the sessions before it; a code made before it may still open a new one. |
| billing_serial (BillingSerial) | 1 handler, 3 gateways, up to 3 events that announce no payment, 1 crash, with and without the operator, fairness | PaidTenantIsOpen, SuspensionIsEarned, CaptureIsInvoiced | While the operator keeps out, redelivery heals what a crash cut: a tenant that paid is open, and money collected is invoiced in the end. Nobody is suspended before three events without a payment in a row, of whatever kind. |
| requests_serial (RequestsSerial, MCRequests) | 2 requests, 2 days to acknowledge, 1 crash; tenders: 1 under two users, 2 with two bids, an old one; 2 guarantees of a contract, a guarantee between 2 contracts, an amount, 1 crash; 2 documents of one owner under two users, 1 crash; 2 renewals from 7 rows, 1 crash | ImplementsTicket, ExpiryWasAnnounced, ParticipationStands, OneTenderPerBid, GuaranteesAgree, ContentSurvives, ImportsFindTheirs | The desk refines RequestTicket. No stale save takes a participation back, under any overlap; a bid has one active tender. Contracts and guarantees agree between requests. A kept document can be read whichever user deletes which file. |
| platform (Platform, MCPlatform) | devices: 2 supervisors, 2 phones, 1 crash; billing: 2 handlers, 3 gateways, 1 event without a payment, operator, 1 crash; cold storage: 2 handlers with batches of 1 and a crash, and 1 handler with 3 backups or clearings and a crash; pins: 1 school, 3 places, 2 handlers, late answers, restarts | TypeOK, OneOwner, MoveNeedsCode, InvoicesAreAnnounced, NothingIsLost, PinsAreVouched | A phone has one owner and moves only as asked; overlapping webhooks never make two invoices of one announcement, nor one of an event that announces no payment; until a dump replaces the data or an administrator clears it, no record and no photo is lost on the way to the archive and back; no pin is verified on a neighbour's word. |
| field_visits (FieldVisits, MCFieldVisits) | 2 supervisors, 1 school, 2 visits, 1 commitment, 1 plan, 2 days, 1 edit or crash; 3 schools of which amounts 0 and 4 are split; 2 invoices; register of 3 codes, and of 2 with 2 pays, 1 crash; activity: 2 sessions, 5 instants, 3 rows, crashes | SettledIsQuiet, ShownIsDecided, CooldownHolds, CompletionIsEarned, VisitSettles, MissedMeansMissed, SharesAddUp, PartnersFollowSchools, PresenceIsSeen | What is reported settles what was planned and committed; notices tell the truth across a midnight the server's clock does not share. Shares add up whatever an earlier split left over. Partners and numbers follow the schools through crashes. |
| device_agents (DeviceAgents, MCDeviceAgents) | agents: 2 handlers, 2 machines, 1 employee, 2 tokens, 2 keys, 1 command, 1 crash; tasks: 1 template, 2 employees or 2 handlers, a month of two days and one of one; attendance: December to February of 1 employee, one month of 2; logs: 2 batches serially, 1 beside the clean-up, 1 screenshot sent twice, crashes; files: 3 of one employee and 2 devices, limit 1, 2 handlers, crashes | AgentsAreBacked, RevocationSticks, OneTaskPerMonth, EveryMonthIsIssued, ExitListIsJust, AnsweredIsStored | A revoked device stays out under racing registrations and heartbeats. Tasks are issued once, short months included. Nobody known to have been present is listed to be let go. What an agent was told is stored, is. |
| leave_double_decision, requests_escalation, ledger_removal, tenant_numbers, archive_loop, verified_pin | smallest that shows it | one each | Section 5. |

Why these bounds. The conflicts are between two handlers and one document, or between one
handler and a crash, so two handlers, two objects of each kind and one crash
contain them; a second object of a kind shows that a step for one leaves the other
alone. Numeric bounds straddle the code's limits: three events without a payment are the
code's `SuspensionThreshold`; one day entitled admits a request of one day, refuses one of two, and
admits that one too once a request of −1 days is pending; a plan
for two meets a third employee; limits of one and two let a limit be lowered below
failures already counted; `MinDays = 1` (5 in the code) and `LastDay = 1` place a visit
inside and outside the cooldown; a batch of one and of two meets the full and the short
batch; two acknowledgement days separate an old response from a new one; 4 over three
schools leaves a remainder, and 0 clears; issue days 1 and 3 with months of two days and
of one put the day inside and beyond the month; three months around a new year make an
exit list count back across it; an online threshold of one interval over four separates a
pause from an absence; retention of 0 or 1 days over three puts a log in and past its
time; a limit of one file (hundreds in the code) is met and, by two handlers, overshot: they
may reach two files, never three.
`MaxTokens` and `MaxKeys` of two allow one rotation.

Where an overlap would break the promise of a handler by itself (section 1), the part has one
handler; `race`, `accesses`, `tenders`, `cold`, `billing`, `pins`, `fileFirst`, `rowFirst`,
`handlers`, `logging`, `shooting` and `shared` are checked with two.

Symmetry. Handlers, and ids that are alike, are permuted where a cfg says SYMMETRY. No run
with symmetry checks liveness: RevocationSticks, EveryMonthIsIssued, MoveNeedsCode,
AddedOnTop, CooldownHolds and the others there are action properties (`[][A]_v`), for which
the reduction is sound as they treat the permuted ids alike. The refinement and the
liveness properties are checked without it.

MCDeviceAgents narrows its run by the constraint `Bounded`: two calls at a time are explored
for registrations, credentials and revocations, while commands, crashes and the settings
switch are explored with one call at a time; of tasks and attendance it leaves out the
combinations its comment names. All of it together exceeds the run.

Deadlock is off where a finite supply (visits, tokens, backups, days) lets the model
stop: the server itself waits for its next request. It is on in LedgerRemoval and
TenantNumbers.

Fairness. TenantBilling assumes weak fairness of a handler's next step (the event loop
resumes an answered await; a call is never abandoned) and strong fairness of
each event's delivery: gateways repeat a webhook until it is answered with
success, and a handler is free again and again, though not continuously; an event names its payment
by the id the checkout stored (one that names no known payment changes nothing). ColdStorage assumes
weak fairness of the steps of a call under way. Nobody is assumed to pay, report,
answer or restore anything. EveryMonthIsIssued needs no fairness: it is asked of the step
that ends a month, and the calendar turns only after that day's pass, as the hourly timer
makes it: a day on which the server ran no pass to its end is left out.

## 5. Where the code and its own words disagree

Each is a run that ends in a counterexample, quoted with its lines under "findings".

* **leave_double_decision**: `approveLeave` tests "Leave request is not pending" on what
  it read; two overlapping approvals both pass and both charge the row.
* **requests_escalation**: `respond` and `close` say an escalated request must be resolved by
  the super admin, but a reply or answer that began before the escalation takes the
  request out of it.
* **ledger_removal**: removing the only item of a month leaves its total, because the
  normalisation takes a total without items for an old one and makes items of it.
* **tenant_numbers**: renumbering after a deletion writes through `bulkWrite` by `id` only,
  which the tenant plugin does not scope: another tenant's serial number changes.
* **archive_loop**: a full batch of records that are in the archive already (a backup of
  one module restored after they were archived) keeps the archive job reading the same
  batch for ever, with `archiveInProgress` set.
* **verified_pin**: `getVerifiedSchoolPin` tests the stored pin without an address, and an
  empty address counts as the name of an administrative area: every stored pin is taken for
  unsafe. So a supervisor's search moves pins that were verified, although it answers
  "Already verified — pin kept unchanged" for them elsewhere.

## 6. What is proved

TLAPS proves these for every number of handlers, objects and crashes. The assumptions
are those on the constants, named in the component's module, or those the theorem states.

| Theorem | Statement | Argument |
|---|---|---|
| LeaveLedgerProofs!TypeCorrect | `Spec => []TypeOK` | Shapes of the call records first (CallShape, RequestShape), then one case per action. |
| LeaveLedgerProofs!NoOverdrawAlways | `Spec => []NoOverdraw` | NoOverdraw is not inductive: between the test in applyLeave and the save of the row only the handler knows what will be written. `Inv` adds WriteWillFit, that the pending total a suspended application will write fits the row. Serially no other handler touches the row in between; who is `Off` never changes (SerialStable). Lengths and allotments are any integers, as the code takes them; the row of a refused request for days below zero is left out, and `DecisionsAreRecorded` (who settles a request has written its verdict) shows that it stays recognised (`StaysUndone`). |
| LeaveLedgerProofs!RowsAreBackedAlways | LeaveFinite : `Spec => []RowsAreBacked` | Both halves compare a field of a row with a sum over requests, and neither is inductive. `ChargesBacked`, under any interleaving and crash: `used` plus what calls past the save of an approval have yet to charge is at most what the days of the approvals are `Worth` (days below zero count for nothing). A row not yet made is charged nothing (`Unopened`). `HoldsBacked`, one call at a time and before a crash: `pending` is at most what open requests and the request about to be written hold; `KnowsRow` says that the total applyLeave computed is still that of the row, `RowsOpen` that a row not yet made reserves nothing. |
| DeviceBindingProofs!TypeCorrect | `Spec => []TypeOK` | One case per action over a shared lemma about `Goto`. |
| DeviceBindingProofs!OneOwnerAlways | `IsSerial /\ Spec => []OneOwner` | Between the look-up of a phone's owner and its binding nobody else may own it: `Unclaimed` says so of the handler about to bind; `OwnersExist` that a deleted supervisor owns nothing, so the look-up finds every owner. |
| DeviceBindingProofs!MoveNeedsCodeAlways | `IsSerial /\ Spec => MoveNeedsCode` | `HasCode`: a call past the check of the code that is about to move an account to another device still finds the code it was granted on. It holds one call at a time because only the call itself spends the code. |
| DeviceBindingProofs!ClearingIsAskedAlways | `IsSerial /\ Spec => ClearingIsAsked` | `TransferAsked`: a call about to take a device from its owner does so for a confirmed transfer of that very device. No run checks ClearingIsAsked or, below, TokenFollowsBinding: the theorems settle them. |
| DeviceBindingProofs!TokenFollowsBindingAlways | `Spec => []TokenFollowsBinding` | However calls interleave: `BindingsRemembered` relates what is bound to what ever was, `LoginsBound` says that a login that passed its test names such a device or a supervisor deleted since. |
| SupervisorRequestsProofs!TypeCorrect | `Spec => []TypeOK` | `CopiesFit`: what a handler holds merges with whatever is stored into a request, because the fields of a request are independent. |
| SupervisorRequestsProofs!SerialImplementsTicket | `IsSerial /\ Spec => ImplementsTicket` | Refinement: `CopiesCurrent` says the copy of a serial handler is what is stored, so its save is the step of the ticket its guard allowed; reads and notifications are stutters. |
| SupervisorRequestsProofs!ExpiryWasAnnouncedAlways | `IsSerial /\ Spec => ExpiryWasAnnounced` | `Announced`: while the process has not died, whoever has an answer was told of it or is being told by the one call under way; `CopiesCurrent` then says a sweep still closes what it found stale. |
| TenantBillingProofs!TypeCorrect | `Spec => []TypeOK` | With `EventsKnown`: an event, stored or in hand, is of a payment that exists, so its payer is a tenant. |
| TenantBillingProofs!InvoicesAreAnnouncedAlways | `Spec => []InvoicesAreAnnounced` | Any interleaving, delivery and crash, finitely many handlers. Invoices made and calls on their way to make one (`ToInvoice`, counted) are together at most the deliveries that announced a success: a call leaves that set when it makes its invoice, and joins it only by such a delivery. |
| TenantBillingProofs!PaidTenantIsOpenAlways | `IsSerial /\ Spec => []PaidTenantIsOpen` | `CopyInv`: a serial call's copy of the subscription is the stored one, and its event is still to be acknowledged. `Cleaning`: a success event on its way to the acknowledgement has opened the subscription, then the tenant (CleanOK); a tenant whose last word was a success is open, or one of its events is delivered again (PaidUp). Crashes included; `~operator`. |
| TenantBillingProofs!SuspensionIsEarnedAlways | `IsSerial /\ Spec => []SuspensionIsEarned` | `Tallying` counts: outside a call the attempts of a subscription are the events in a row that announced no payment, inside a call by how far it has come; `taken` bounds those that were counted. Its precondition, no crash and no operator, is that of the property. |
| FieldVisitsProofs!TypeCorrect | `Spec => []TypeOK` | `KnownInv`: a call past the insertion reports a stored visit, what it settles exists and is its supervisor's, an update holds two versions of one commitment. Any interleaving, any crash. |
| FieldVisitsProofs!ShownIsDecidedAlways | `Spec => []ShownIsDecided` | The list computes a last date, `createVisit` tests every counting visit: both say the same because a maximum of a finite set of days is one of them. |
| FieldVisitsProofs!CooldownHoldsAlways | `Spec => CooldownHolds` | `Rested` in `SerialInv`: between the test and the insertion the visits that count are as the test saw them. |
| FieldVisitsProofs!CompletionIsEarnedAlways | `Spec => CompletionIsEarned` | `KnownInv` alone: a call that completes a commitment still has its visit, and what was found to cover it keeps supervisor and school. |
| FieldVisitsProofs!VisitSettlesAlways | `Spec => VisitSettles` | `Settling`: the plans and commitments still to settle are exactly those the call has in hand. |
| FieldVisitsProofs!MissedMeansMissedAlways | `Spec => MissedMeansMissed` | `Syncing`: the pass has seen no report of the visit it is about to announce. |
| FieldVisitsProofs!SettledIsQuietAlways | `Spec => []SettledIsQuiet` | `QuietInv`: a reminder is unread only while its commitment is active, or for the call that has just closed it; what a pass is about to remind of is active (`Careful`). One call at a time, before a crash. |
| ColdStorageProofs!TypeCorrect | `Spec => []TypeOK` | For GoodConstants (finitely many handlers, audit logs are records, natural bounds). That an id for a new row is left needs counting: every other call and the dump remember one row of a record at most. |
| ColdStorageProofs!RecordsSurviveAlways | `Spec => []RecordsSurvive` | Any overlap of the job, reads, backups and crashes until data is replaced. `Deleting`: a document about to be deleted has a row that no restoration under way remembers, and no second call is about to delete it. `Forgetting`: a row about to go has its document, if it is still the row that was read. |
| ColdStorageProofs!PhotosSurviveAlways | `Spec => []PhotosSurvive` | One call at a time: `Somewhere`, a photo is in its document, in the file its row refers to, or in the call that brings it back (`Handling` says by stage which). |
| DeviceAgentsProofs!TypeCorrect | `Spec => []TypeOK` | `KnownInv`: what a call holds of a device, key or command has the type of what is stored. |
| DeviceAgentsProofs!RevocationSticksAlways | `Spec => RevocationSticks` | However calls interleave: a save that re-activates a device found it revoked and carries an employee's key (`CallKnows`). |
| DeviceAgentsProofs!AgentsAreBackedAlways | `Spec => []AgentsAreBacked` | From TokenIsBackedAlways and OnePrimaryAlways. `BackedInv`: a device that gets in was let in by the key in force, or its key is being cut right now; a serial call holds current data. `PrimaryInv`: an employee has no device or exactly one primary, and a call about to add one knows which. |

The components that a run composes are proved in three modules, each as an instance under a name
of its own, so that each keeps its Init, Next and Spec: in LeaveLedgerProofs `Service`
(EmployeeSelfService), `Staff` (EmployeeRegister), `Roll` (SchoolRegister), `Expenses`
(SchoolExpenses), `Lock` (LoginLock), `Access` (AdminAccess) and `Payroll` (PayrollLedger); in SupervisorRequestsProofs `Deals`
(Contracts), `Sheets` (Renewals), `Papers` (StoredDocuments) and `Bidding` (Tenders); in
ComponentProofs `Shared` (SharedFiles), `Activity` (SupervisorActivity), `Logs` (MonitorLogs),
`Todo` (AgentTasks), `Pins` (SchoolPins) and `Grid` (Attendance).

| Theorem | Statement | Argument |
|---|---|---|
| ApprovedMeansAppliedAlways | `MaxCrashes \in Nat` : `Service!Spec => [](TypeOK /\ ApprovedMeansApplied)` | Any race and crash. `Applied`: an approval has applied what its stage says; `Grows`: nobody undoes that, because requests keep what they ask for, what landed stays landed and a deleted employee stays deleted. |
| OneRequestPerLinkAlways | serial calls, `"admin"` no link : `Service!Spec => [](OneRequestPerLink /\ RejectedIsUntouched)` | `Closing`: a link with a request is closed or its submission is about to close it; `Alone`: a submission under way works on a link without a request, a decision on a pending request; `Unmixed`: only the approval under way has touched the employee. Links a crash cut are set aside, as in the property. |
| AnsweredIsStoredAlways | a positive limit, finitely many calls : `Shared!Spec => [](TypeOK /\ AnsweredIsStored)` | `FileKnown` and `Kept`: a row that says the media service has the bytes is right until the owner begins to delete. `Room`: rows plus uploads past the test are fewer than the limit plus the calls at a time; this, not the limit, is what the test before the upload gives. `FolderKept`: a device told so has the folder, and none is counted among them while the folder is being deleted. |
| GuessesAreBoundedAlways | `Handlers = {me}`, `MaxAttempts \in Nat` : `Lock!Spec => []GuessesAreBounded` | `wrong <= most + crashes` is not inductive. `Counted`: while no lock is set, every wrong password is in the row, but for the one under way and those a crash dropped. `NoLockYet`: a request that guesses has passed the test of the lock, and none appears before it is done. `GuessLeft`: while no lock is set and no guess under way, one more is allowed. `Limited`: the limit in force, and the one a request has read, is among those `most` remembers. The interesting case is `countFailure`: if it does not lead to a lock, the row is below the limit, which gives `GuessLeft` back. |
| PresenceIsSeenAlways | `Handlers = {me}`, any threshold : `Activity!Spec => [](TypeOK /\ PresenceIsSeen)` | `Ordered`: rows follow one another and are covered by moments the supervisor was seen at. `Fits`: what a call is about to write begins after every row, extends the open row by no more than the threshold, or closes rows it has read; a crash loses the call, never the order. |
| SessionsAreCurrentAlways | `MaxPasswords \in Nat`, any number of requests : `Access!Spec => [](TypeOK /\ SessionsAreCurrent)` | `PasswordsAgree`: unless a call has yet to destroy the sessions, each has the password of the account. `LocationsAgree`: the update under way carries the account's locations, and the sessions have them unless it is. `late` marks a session whose maker found the account before the change and made it after, `cut`, `mixed` and `old` the other cases the property excuses; one call at a time no session is `late`, which the serial part of the run checks. |
| NoItemLostAlways | no assumption : `Payroll!Spec => []NoItemLost` | A ledger in hand is the stored one but for its month, in which it holds what will be owed once it is written (`Holds`); bringing an entry up to date keeps its items. Saves of the profile may come at any moment. |
| AddedOnTopAlways | LedgerFacts : `Payroll!Spec => []TypeOK /\ AddedOnTop` | `Adds`: the ledger in hand adds to the totals of its month what the item is worth. `NormalFits`: bringing an entry up to date changes no total that agrees with its items, because a total without items comes back as the total of the one item it becomes (`TotalsBecomeItems`). `EntryFits` dates the items, so that a new one is not yet among them and counts once (`OneMoreItem`). |
| LogsAreKeptAlways | days and batches natural numbers, finitely many handlers : `Logs!Spec => [](TypeOK /\ AnsweredIsStored)` | Any interleaving and crash. `Aged`: what any clean-up under way regards as past its time is excused already: `excused` grows with every day and every shorter retention, and never shrinks. `Events`: a batch has written what its stage says. `Keys`: the counter covers the batches answered and those about to be. `Screens`: an image nobody points to yet is fresh and no deletion holds it. |
| ContentSurvivesAlways | `MaxFiles \in Nat` : `Papers!Spec => [](TypeOK /\ ContentSurvives)` | Any interleaving, row first or file first. `OneRow`: a file is one document's. `Minded`: who may still delete a file will mend the rows that refer to it. `Unshared`: a file that has just been uploaded is at the cloud and nobody else has heard of it. Files are numbered as they are sent, so a new one is never an old one (`Numbered`). |
| ParticipationStandsAlways | TenderConstants : `Bidding!Spec => []TypeOK /\ ParticipationStands` | Any interleaving. `Honest`: a save under way that will set "not filed" is a super admin's, because it sends the changed paths only and both GeM's word and an edit were tested on the row that was read. The pass over old tenders changes no status. |
| OneTenderPerBidAlways | TenderConstants, at most one handler : `Bidding!Spec => []OneTenderPerBid` | `Looked` in `SoleInv`: who is about to give a number has found no active tender with it, and time and the pass give none; `Honest` also says that no save restores what was deleted. |
| SerialsAreContiguousAlways | StaffFacts : `Staff!Spec => [](TypeOK /\ SerialsAreContiguous)` | `FromOneOn`: the numbers are those from one to how many there are, unless a given number or a crash disturbed them or a renumbering is under way. `NextNo`: between the count and the insertion the call knows how many there are. `AllPlaces` (a pigeonhole) makes a renumbering fill every place. |
| PartnersFollowSchoolsAlways | RollFacts : `Roll!Spec => [](TypeOK /\ SerialsAreContiguous /\ PartnersFollowSchools)` | `RollCall` says by stage what the call knows of the schools; `Behind` names the codes whose partner it has yet to write, and every other one `Follows`: a school has its partner with its pay, a code without a school has none. Each handler ends with nobody behind. |
| SharesAddUpAlways | ExpenseFacts : `Expenses!Spec => [](TypeOK /\ SharesAddUp)` | `SharesOf`: n shares of a div n, the first a mod n of them one more, add up to a, whatever a and n, because the places 1..n are taken once each (`FirstPlaces`) and the sum of a function with two values is counted (`TwoSizes`). `SpendInv`: a write under way will leave its school this request's share (`Set`), and the schools it has passed have it (`Spent`), unless one of them was gone. `BillInv`: an invoice comes to 31 days a school at most (`RowsAddUp`). |
| GuaranteesAgreeAlways | DealFacts : `Deals!Spec => [](TypeOK /\ GuaranteesAgree)` | `AllAgree`: every contract agrees with the register but the one the request has still to bring in line (`Pending`) and those set apart by a removal, a move or a crash. `Carrying` says by stage what the documents in hand have to do with what is stored. `NosAreUnique`: a contract looked up by its number is the one that was meant. |
| ImportsFindTheirsAlways | SheetFacts : `Sheets!Spec => [](TypeOK /\ ImportsFindTheirs)` | `ToMake`: a row about to make a record has found none of its own, and none has come but by hand. `ToChange`: one about to change a record sends only what differs, and leaves it about the same thing and without a date if it does not expire. |
| PinsAreVouchedByJobs | PinFacts : `Pins!Spec => [](TypeOK /\ PinsAreVouched)` | Any overlap, late answers and restarts. `Vouched`: a verified pin has the evidence of whoever verified it. `Backed`: the pin a search is about to save says how it was found, and a slow search without Google's listing has one Google saw in the block; `HasPins`: who only sets the flag found a pin, and no step takes one away. |
| EveryMonthIsIssuedByTasks | TaskFacts : `Todo!Spec => []TypeOK /\ EveryMonthIsIssued` | Any overlap of passes, breaks and crashes. `DueAreGiven`: a template unchanged since the month began, whose day is past, or is today with the pass over, has given its employees their tasks; `CallsCover`: what the pass under way has still to visit is in its hand. The day of issue of a short month is its last (`effectiveDayOfMonth`), so it comes in every month. |
| OneTaskPerMonthByTasks | TaskFacts : `Todo!Spec => []OneTaskPerMonth` | `OnceInv`: while passes never overlapped, the one under way has looked for the task it is about to save (`Lacks`), and nobody else saves one in between (`OnePass`, `InPass`). |
| ExitListIsJustByGrid | GridFacts : `Grid!Spec => [](TypeOK /\ ExitListIsJust)` | `ListIsRead`: what each of the three reads has seen; `DaysAreMarked`: who was known to be present has his cell, or the call under way is marking it. `KeysOfTheWindow`: the keys computed month by month, over however many new years, are those of the calendar: an induction over a recursive function, by its least counterexample. |

What these hypotheses mean. `IsSerial`, `Handlers = {me}`, or at most one handler, is the condition
under which the property is stated at all ("one call at a time" in its comment); the table of section
7 says what overlaps do. Natural bounds, finite handlers and finite sets of ids are what every running
server has. TenderConstants: requests name statuses of the schema (or "not_evaluated", which is stored
as filed), and at most one tender is older than the names. TaskFacts: a calendar of at least one month,
each of a positive number of days; positive days of issue; template ids that are no "none". PinFacts:
schools are numbered, named places are places, and "no pin" is no place. GridFacts: the days run over
an interval of integers, windows are natural numbers of months, and "unread" is no employee. DealFacts:
the empty string is no number of a guarantee or contract. LeaveFinite: finitely many calls and
requests. ExpenseFacts: finitely many schools, known by natural numbers (the order in which the code
lists them), and amounts in whole rupees. LedgerFacts: finitely many
kinds of item, natural bounds. SheetFacts: the rows of a sheet are among
the spellings the model asks for. StaffFacts is for one tenant, because the renumbering writes through
`bulkWrite` into every tenant's rows: with two, the property is false, as tenant_numbers shows.

Sums. `MapThenSumSet` folds over a set in an order nobody names. The proofs replace it by `Total`,
a function defined over the finite set it sums, and show that it exists and that the order does not
matter: were there a set for which it failed, there would be a smallest one, and that one is reached
from a smaller one by adding an element. RowsAreBackedAlways, SharesAddUpAlways and
AddedOnTopAlways rest on this; the other proofs that count (guesses, files, keys) need only
cardinalities of finite sets that change by one element.

Only model-checked: liveness (CaptureIsInvoiced, JobEnds), which is out of the prover's reach. No
module uses a RECURSIVE operator.

## 7. What is not modelled

Not part of any model: bytes of photos and files, place names and the scoring of
geocoders' answers, formatting and mails, the listings, dashboards and reports (they
change no state), access rights other than the tenant's status, the agent's token, the
supervisor's device and the administrator's session. Small registers (assets, CRM, help
desk, shifts, ...) write one row per call, with no rule over rows or time. Seeds and
scripts run outside the traffic. Several servers on one database are not modelled: the
in-memory flags, locks, caches and queues of the code assume one process. A database call
that fails is modelled where the code has a branch for it (a refused duplicate, a failed
look-up, a pass that logs and ends); elsewhere it ends the handler as a crash would and
leaves the same states.

Whole components: districts and blocks, captured candidates and leads, captchas, roles,
registration and plans, platform extensions and login, payroll runs, bulk pay, workflows
and the job queue, the employee portal, uploads. Inside modelled components: cloning,
branding, forced logout and impersonation of tenants; leave types; blocked-app lists and
location pings of supervisors; direct assignment of schools; employees' locations, roles
and ID cards; single sign-on and the bootstrap account; rules on countries. PROJECT.json
lists each with its reason.

What was met while modelling and no property is about, because the code makes no promise
there or leaves it broken in plain sight (paths under `src/src/modules`, or `src/src` when they begin with `platform/`):

| Where | What |
|---|---|
| `employee-monitor/agent.service.ts:834` | a logout of a day without a login upserts a sync row without its required id; the unique index lets one such row exist, so another employee's batch fails |
| `employee-monitor/agent.service.ts:588` | counters grow with `$inc`: a batch sent again counts twice (the model keeps this: AnsweredIsStored asks for "at least") |
| `employee-monitor/agent.service.ts:765` | two batches both find no recent alert and raise one each |
| `employee-monitor/employee-monitor.service.ts:343` | a crash after a credential is revoked leaves its devices working until the next revocation |
| `attendance/attendance.service.ts:133` | the exit list's filter has an `$or` of its own, and the tenant plugin (`database/tenant-query.plugin.ts:31`) adds its filter to no query that has one |
| `employees/employees.service.ts:491` | every profile update writes back the status it read: one that overlaps markExit revives the employee |
| `employees/employee-data-gather.service.ts:145` | two requests for a link both revoke before either inserts: two active links |
| `smart-capture/smart-capture.service.ts:411` | a connection code is marked used after its session is made: two redemptions both succeed |
| `firewall/firewall.service.ts:434` | the block row written with a lock has no end: "Try again in n minute(s)" comes true only when an administrator unblocks or trusts the address |
| `agent-workspace/agent-workspace.service.ts:339` | the limit of files is tested before the upload: as many calls as overlap exceed it (AnsweredIsStored states by how much) |
| `agent-workspace/agent-workspace.service.ts:504` | a folder's row is deleted by id, even after another device has registered it meanwhile (AnsweredIsStored sets a device told so beside a deletion apart: `raced`) |
| `leave/leave.controller.ts:79`, `employee-portal/employee-portal.controller.ts:95` | the length of a request is any number: 10 days entitled, apply for −5, apply for 15, refuse the −5, and the row has promised 15. The model asks for such lengths too; NoOverdraw holds up to that refusal. Allotments are not tested either |
| `smart-capture/smart-capture.service.ts:404` | redeeming a code asks for no password and no change withdraws open codes: one made before a change and redeemed within its ten minutes opens a new session of 90 days (SessionsAreCurrent dates a session from its redemption) |
| `sessions/sessions.service.ts:194` | sessions are destroyed within the tenant of the request: a reset asked for at another tenant's address leaves them (`cut`); AdminAccess is about one tenant |
| `platform/modules/billing/billing.service.ts:97` | every event of Razorpay that is neither a capture nor a paid order counts as a failed payment, an authorization, a refund or a dispute too, before and after the capture: three of them suspend a tenant (SuspensionIsEarned says just that) |
| `platform/modules/billing/billing.controller.ts:118` | no webhook of Stripe or PayPal is verified, and Razorpay's only when a secret is set: the model assumes that events are the gateways' own |
| `platform/modules/billing/billing.service.ts:36` | a suspended tenant can pay: `/api/platform/` is exempt from the test of its status, and the checkout has none (the model lets it) |

## 8. Plan

Order: what moves money, rights or people's time first (done), then what writes many
rows per call (done), then the registers that write each other (done), then the jobs.

| Step | Module | Composition and abstract specification | Properties | Theorems |
|---|---|---|---|---|
| done | the modules of section 3 | RequestTicket | section 4 | section 6 |
| 1 | PayrollRuns: calculation and runs, bulk pay | a reference definition of net pay over the ledger; into leave | a run pays every active employee once; marked paid means in one batch | – |
| 2 | WorkflowQueue: triggers, actions, three attempts, in memory | an abstract queue; LeaveLedger's `triggered` as its input | an action runs at most three times, at least once without a crash | at most three attempts |
| 3 | TenantProvisioning: registration, plans, clones | TenantBilling's tenant status; into platform | a tenant has an administrator and a subscription or can be repaired | – |
| 4 | SchoolGeography | into field_visits | a name revived keeps its district | – |
