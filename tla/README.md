# A TLA+ verification of LeadLock

LeadLock (`src/leadlock`) answers home-service leads by SMS within seconds: a
FastAPI application with asynchronous SQLAlchemy on PostgreSQL, Redis for locks and
deduplication, an SMS carrier behind `services/sms.py`, AI agents that write the
texts, and a set of polling workers; a React application (`src/leadlock/dashboard`) is
where clients sign up, pay, get their number and follow their leads, and where the
operators run the sales engine. Two halves are modelled here:

- the **lead pipeline**: what happens to a lead from its first form or text to a booking,
  a STOP or its end, when web requests, the lead state manager and the SMS dispatcher work
  on it at once;
- the **dashboard**: how a client gets from the signup form to a live account with a paid
  number, and what every page does when its calls are slow, lost, refused or overtaken.

Files of the pipeline are named relative to `src/leadlock/src/`, files of the dashboard
(`.jsx`, `.js`) relative to `src/leadlock/dashboard/src/`.

## 1. Inventory

| Part | State | Operations | Talks to |
|---|---|---|---|
| Lead lock, `utils/locks.py` | Redis key per lead, with a TTL | acquire with polling, time out, compare-and-delete, go on without it on a Redis error | conductor |
| Conductor, `agents/conductor.py` behind `api/webhooks.py` | rows of leads, consent_records, bookings, conversations, followup_tasks; deduplication key | new lead, reply, STOP | agents, compliance, carrier, lock, task queue |
| Lead agents, `agents/{intake,qualify,book,followup}.py`, `services/ai.py`, `services/scheduling.py` | none | a text and a next step | conductor, dispatcher |
| Compliance, `services/compliance.py` | none | consent, opt-out, quiet hours, limit, content | every sender of SMS |
| Lead state manager, `workers/lead_state_manager.py` | leads, bookings, followup_tasks | sweep, complete, no-show, archive, dead, recycle, every 5 min | database |
| SMS dispatcher, `workers/sms_dispatch.py` | followup_tasks, bookings, leads | follow-ups, day-before and same-day reminders | compliance, agents, carrier |
| Dashboard, `api/dash_leads.py` | leads | set a state, archive, answer by hand | carrier |
| Process layout, `main.py` | file lock | two gunicorn processes answer requests; the one with the lock runs the workers | all |
| Task queue, `workers/task_processor.py`, `services/task_dispatch.py` | task_queue | retry an SMS, deferred emails | sequencer, carrier |
| Retry worker, `workers/retry_worker.py`, `utils/dead_letter.py` | failed_leads | retry with backoff (nothing in the repository adds a row) | conductor |
| CRM sync, `workers/crm_sync.py`, `integrations/` | booking.crm_* | create customer, create job | external CRMs |
| Billing, `services/billing.py`, `services/plan_limits.py` | clients.billing_status, tier | Stripe events | Stripe |
| Cold outreach, `workers/outreach_sequencer.py`, `workers/outreach_sending.py`, `workers/outreach_monitor.py` | outreach, outreach_emails, Redis counters | pick prospects, send, defer, clean up | task queue, sales webhooks |
| Sales webhooks, `api/sales_webhooks.py` | outreach, blacklist | reply, bounce, complaint, unsubscribe | SendGrid |
| Deliverability, `services/deliverability.py` | Redis windows | record an outcome, throttle | senders |
| Phone registration, `workers/registration_poller.py` | clients.registration | poll Twilio, advance the state | Twilio |
| Routing, signup, wizard: `App.jsx`, `pages/{Signup,Login,QuickSetup,Onboarding}.jsx`, with `api/dash_auth.py`, `api/dash_reports.py`, `api/dash_phone.py` | localStorage, the mounted wizard, the client row | sign up, look up, seven steps, pay, buy a number, go live | Stripe, carrier |
| API client, `api/client.js`, `contexts/AuthContext.jsx` | token in localStorage, a shared refresh | request with a time limit, refresh, 401, sign out | all pages |
| Pages that read: 23 views in `pages/`, `pages/admin/`, `components/agents/` | selection, data, loading, error | fetch, select, poll, retry | API client |
| Conversations, inbox, prospects | list, selected thread, shown thread, reply box | select, reply, set status, blacklist, delete | API client |
| Documents: campaign, engine settings, client settings | a copy of what is stored | load, edit, save, switch, reload | API client |
| Lists with a form: templates, outreach, campaigns, clients | list, modal, its content | create, edit, confirm, item actions | API client |
| Sections: phone, CRM, registration, `pages/Billing.jsx` | flags, results | search and buy, test and connect, submit, check out | `fetch` itself |
| Landing, password and mail pages, charts and widgets | - | - | - |
| Learning, reporting, health, sales API, migrations | - | - | - |

What is hard here, and where the properties come from:

- **Nothing runs in a transaction of its own making.** A request holds a row from
  the moment SQLAlchemy flushes it, not from the moment it read it, and every
  AI, Redis and carrier call is an await at which others run.
- **Sessions act on snapshots.** `expire_on_commit` is off and loaded objects are not
  refreshed; only changed columns are written, so a stale object overwrites exactly
  what it assigned.
- **The opt-out is law, not a feature.** A STOP takes no lead lock, races with
  replies, rounds and sweeps, and must win.
- **Locks are best effort.** The lead lock expires after 30 s, is skipped when Redis
  fails, and stays behind when a process dies.
- **SMS cannot be rolled back.** A dispatcher round sends as it goes and commits once.
- **Opposite lock orders** (STOP: lead then tasks; dispatcher: tasks then lead) make
  deadlocks that PostgreSQL breaks by aborting one side.

- **The dashboard keeps the order of things, not the API.** Paying before buying, buying
  before going live, storing before going on: the endpoints ask for none of it. It rests on a
  step number in localStorage, the address Stripe returns to, and what is disabled meanwhile.
- **Answers are matched to nothing.** Most pages put an answer in their state whatever is
  selected by then; what is selected and what is shown are two pieces of state.
- **A page may go while its call goes on.** A save, a purchase, a refresh of the token take
  effect after the page that asked is gone, in any order with what its successor asks.

`PROJECT.json` lists every hazard at its line with the properties that cover it, and
why the others are not covered.

## 2. Modules

```
LeadLock            LeadStore ------------+------------------+
   |                  |                   |                  |
   +--(INSTANCE)--> Conductor      LeadStateManager     SmsDispatch
                      |                   |                  |
                      +---------- LeadPipeline --------------+
                                     |  (HonoursOptOut, by refinement)
                              OptOutContract
```

**LeadLock** (`utils/locks.py`). `key[l]` is the value in Redis, `at[p]` the place of a
request in `lead_lock`, `polls[p]` how often it has slept. `Acquire`, `Poll`,
`TimeOut`, `ProceedUnlocked`, `Release`, `ReleaseFails`, `Expire`, `LockCrash`. A use of
the lock has a fresh uuid; as a process is in one use at a time the process stands for
it, and `Orphan` is the uuid of a use that ended without deleting its key.

**LeadStore** (`models/`, `database.py`). The tables, the row locks (`lockedBy`) and
`wire`, the SMS the last step handed to the carrier. An action of the modules that
extend it is the code between two points where another session can get in. READ
COMMITTED: committed rows are read, an UPDATE takes the row lock when the session
flushes, the new values appear at the commit, and `Written` says what a column holds when
only a *changed* value is written. `updated_at` is an age class against the manager's
thresholds, an appointment a distance from now. Lead n belongs to consent record n; all
leads share one client and one phone, which are the leads that can be confused.

**Conductor** (`agents/conductor.py`, `api/webhooks.py`, `utils/dedup.py`,
`api/dash_leads.py`). A request `web[p]` has a `pc` named after the await it is at:

| Request | Steps and code |
|---|---|
| new lead | `SubmitLead` / `AcknowledgeDuplicate` (dedup), `RejectLead`, `CreateLead` (first commit), `PassCompliance` / `BlockLead`, `Greet` / `GreetFails`, `FinishGreeting` (second commit, `intake_sent`) |
| STOP | `ReceiveStop`, `FlushStop` (lead row), `UpdateTasks` (`BeginCancel`: the UPDATE sees the tasks that are pending now; `CancelTask`: it takes one of their rows, or waits for its holder), `CommitStop` (lead, consent, the tasks it took) |
| reply | `ReceiveReply` (loads the lead, asks for its lock), `EnterLock` / `WaitForLock` / `GiveUpReply`, `RouteTurnLimit` / `RouteToQualify` / `RouteToBook` / `RouteRaises` (the route, then the flush that reading the consent causes), `SendReply` / `WithholdReply`, `CommitReply`, `ReleaseLock` |
| manual reply | `OpenManualReply`, `SendManualReply` |
| dashboard | `SetStatus`, `SetArchived` (one short transaction each) |

`RouteRaises` is more than a corner case. `_route_to_qualify` and `_route_to_book` read
`lead.conversations` (`conductor.py:540`), a lazy relationship of an object loaded by an
asynchronous session, and in this commit nothing on the webhook's path loads it: both routes
raise `MissingGreenlet`, and the request ends in a rollback and a 500 (`webhooks.py:220`). Only
the turn limit and the STOP get through. The model lets a route raise or not at every reply;
its steps after a route that does not raise are the rest of the code, as it runs once the
relationship is loaded. No failing run rests on them.

**LeadStateManager** (`workers/lead_state_manager.py`). One loop of six phases.
`SelectLeads` reads, `FlushLead` writes one lead row (and keeps its lock), `CommitPhase`
makes everything visible. The archive phase is one UPDATE (`ArchiveOld`).
`RollBackPhase` is a phase that was aborted.

**SmsDispatch** (`workers/sms_dispatch.py`). Three rounds, each one transaction: `Pick`
(FOR UPDATE SKIP LOCKED), then per item `TakeItem` (load lead and consent once per
round), `Send` / `SendFails` / `Skip` / `Raise`, at the end `CommitRound`. `nurtured` is a
history variable: nurture SMS that really went out.

**LeadPipeline** (`main.py`). The three together, plus the clock (`LeadAges`,
`AppointmentNears`), PostgreSQL's deadlock detector (`BreakDeadlock`: a minimal set of
sessions each waiting for another of the set loses one member), and `WorkerCrash`.

**OptOutContract** is the abstract specification: opting out is for good, and a lead that
has opted out is not texted. `HonoursOptOut` maps `stopped` to the consent records and
`texted` to the texts on `wire` that the opt-out's row locks hold back (`Covered`): replies,
nurture messages and review requests. The phase that schedules one of these two writes the
lead row, so it commits before the STOP's UPDATE, which then takes the task, or after the STOP's
COMMIT, when the consent is read as opted out. Escalations and no-show messages are *not* in the
mapping: their phases add a task without writing the lead row (its foreign key takes only a
KEY SHARE lock, which an UPDATE of the lead does not conflict with), and one committed between
the UPDATE and the COMMIT of a STOP is neither cancelled nor held back. `FollowupsHonourStop`
states the promise for every follow-up, and `stop_races` shows how it is broken. Nor are the
greeting, the reminders, the duplicate acknowledgement and the manual reply in it: the code
holds no lock that the STOP needs while it checks and sends them.

The dashboard:

```
   App ----------------------+
    |                        |
Onboarding               ApiClient
    |                        |
OnboardingProofs           Views
    |                        |
SettingsProofs               |
                             |
              +---------+----+----+---------+
           Threads  Documents   Forms   Sections
              +---------+----+----+---------+
                          Console
                             |
                       ConsoleProofs
                             |
                      DocumentsProofs
                             |
                     ConsoleTypesProofs
```

**App** (`App.jsx`). The routes: which page is shown for the address, for nobody, an
admin, a client, and a client whose browser says that its onboarding is unfinished.

**Onboarding** (`pages/Signup.jsx`, `Login.jsx`, `QuickSetup.jsx`, `Onboarding.jsx`, and the
endpoints behind them). `browser` is the address and localStorage, `wizard` the mounted
component, `calls` the requests under way, `client` the row, `bought` the numbers the
carrier was paid for. Each control is an action; `Visit` is any change of page (what it
orphans, what the next page's effects ask for), `Render` a render with its effects. Calls
have no time limit; `Serve...` and the steps of `provision_number` (`CheckRow`, `Buy`,
`CommitNumber`) are the server, `Answer` is the continuation after `await fetch`, and
`Break` loses a request, its answer, or a commit. `life` tells the calls of the
mounted page from those that outlived theirs.

**ApiClient** (`api/client.js`, `contexts/AuthContext.jsx`). `session` is the token, its
age, and what the loaded application believes; `Request` refreshes first or joins the
refresh under way; `Unauthorized` clears the session; `Unload` is the page load that follows.

**Views**. The 23 views follow one scheme and differ in its discipline: a record of flags
(`polls`, `drops`, `hides`, ...) read off each component, and one set of actions that
follows them: `Select`, `Apply`, `PollView`, `Retry`, `FetchAnswer`, `ViewFailed`. It also
has the pager's arithmetic and the lights of the compliance page, which read a summary that is
missing (`NoSummary`) after a failed load: yellow on top, green below. Two views have no loading
flag: the campaign's analytics and the worker status show a skeleton while their data is
missing (`awaits`), also after their only call has failed.

**Threads**, **Documents**, **Forms**, **Sections**. One module per kind of page that
writes; `view` is the state of whichever component is mounted, and its `how` says which
page it is. History fields (`crossed`, `disturbed`, `about`, `proved`, `sends`) record what a
property needs to know of the past and guard nothing, but for the bounds on `sends`.

**Console**. One page at a time: `Open`, `SwitchTab`, `Navigate`, `SignOut`, `Reloaded`,
`SignIn`, the ends of calls, the timers.

`LeadLockProofs`, `ConductorProofs`, `LeadPipelineProofs`, `OnboardingProofs`,
`SettingsProofs`, `ConsoleProofs`, `DocumentsProofs` and `ConsoleTypesProofs` hold the proofs;
modules named `MC...` instantiate a module for TLC.
Operators under a comment "Wrong: ..." are plausible bugs, used as mutants to see that each
property can fail; no specification refers to them.

## 3. What the runs check

| Run | Checks | Instance |
|---|---|---|
| `lead_lock` | `KeyHasItsOwner`, `OnlyOwnerReleases`, `WaitsEnd`, `KeysFree`, types | 3 requests, 2 leads, 2 polls; TTL, Redis errors, crashes |
| `conductor` | `ReplyHonoursStop`, `OptedOutHasConsentRecord`, `RowLocksInTransaction`, types | 2 requests at once (symmetric), 1 lead, 2 replies, turn limit 1; TTL, Redis errors, crashes, status changes and manual replies |
| `conductor_live` | `RequestsEnd`, `StopTakesEffect` | the same with an expiring lock, a refusing carrier, archiving |
| `pipeline` | `HonoursOptOut` (replies, review requests), `BookedHasBooking`, `EscalationsCapped`, types | 1 request beside manager and dispatcher, 1 lead, 2 replies (qualify, then book), day-before reminders and every task but nurture; restarts |
| `pipeline_live` | `RoundsEnd`, `PhasesEnd`, `RequestsEnd`, `HonoursOptOut` (nurture messages), `ClosedIsLeftAlone` | no replies and no restarts; nurture tasks |
| `opted_out_terminal` | `OptedOutIsTerminal` **fails** | no faults at all |
| `stop_races` | `FollowupsHonourStop` **fails** | no faults; escalations dispatched, a lead set to `booking` by hand |
| `stop_lost` | `StopTakesEffect` **fails** | no faults: the deadlock is enough |
| `nurture_limit` | `NurtureLimit` **fails** | one restart |
| `onboarding` | `NumbersArePaidFor`, `LiveHasNumber`, `PurchasesAreExplained`, `StepIsSaved`, `LoadedSettingsSurvive`, `PhoneStepEnds`, types | one browser, one client; 1 break (lost call, lost answer, page left during a call), 2 edits |
| `gate_after_live` | `GateIsForUnfinished` **fails** | no break |
| `console` | `NoNeedlessSignOut`, `ExclusiveViewsTellTheTruth`, `PagesCatchUp`, `SpinnersStop`, `NoDeadEnd`, `InboxActsOnWhatIsShown`, `SubmissionsAreNotRepeated`, `StoredIsNeverBlank`, `RestingDocumentIsCurrent`, `ConnectIsTested`, `PagerLeadsBack`, `OverallMatchesMetrics`, types | every page of both roles; 2 selections, 2 calls at a time, 1 failure per mounted component |

**Bounds.** `MaxLeads` leads are created, `TurnCap` replies recorded per lead, `MaxPolls`
sleeps per wait, `MaxTurns` agent turns, `MaxOutreach`, `MaxEscalations`, `MaxAttempts` for
the code's constants 3, 3 and 3. They are 1 or 2: each is the smallest value at which
the limit can be reached and crossed, and at which a second actor meets the first
(two requests for the races of the web side, two replies for a lock that changes
hands, one request beside two workers for the deadlocks). The age and appointment
classes are not scaled: each threshold of the code is a class of its own. Same-day
reminders are dispatched in no run (they multiply the rounds without a new interaction:
they take the path of the day-before reminders), and closed leads are judged in
`pipeline_live`, where a lead can die with a task pending.

For the dashboard: `MaxBreaks` = 1 is the smallest number at which a lost answer, a reload
during a purchase or a save that outlives its page happens; `MaxEdits` = 2 lets the user pass
steps 1 and 2, or change a setting, come back, and change it again. Two selections suffice to
be shown the wrong one, two calls at a time (`MaxFetches`) to be answered in the wrong order,
`MaxFailures` = 1 for a retry after an error. Other bounds are named where they stand: the
token grows older only while nothing is mounted or under way (a page then starts with a
token in any state, which is when the code looks at it); a late save is followed into a
document of the same kind, where it can do harm; the sections, which use `fetch` without a
refresh, are mounted with a fresh token; nothing is clicked while the browser leaves a page; a
part of a document is edited once between two loads (two contents are all a
property compares); a poll on top of the same poll is one poll; a button may be pressed once
more than failures explain, which is what `SubmissionsAreNotRepeated` looks for. `PagerLeadsBack`
compares a pure function with a reference over bounded inputs (lists of up to nine pages);
`OverallMatchesMetrics` does so for the page's state, loaded or not, and up to 25 records.

**What properties excuse.** `NoNeedlessSignOut`: a token does not run out while a call is under
way, and `client.js` sends no call twice. `InboxActsOnWhatIsShown`: a thread selected, or a
status changed, while another thread or status change was under way (`crossed`), since the page
matches no answer with the selection. `ConnectIsTested`: a key edited after its test, a CRM
chosen while a call is under way (`excused`). `SubmissionsAreNotRepeated` counts replies, new
clients, numbers and registrations, not the other forms or the checkout. `SpinnersStop`: the two
views without a loading flag, once their call has failed (`Endless`). In each case the code does
not do what the property asks (section 5).

**Fairness.** A request in progress goes on to its end (`WF` of `Proceed`): its awaits
have time limits and the event loop runs it. Steps that wait for a row lock are strongly
fair, because PostgreSQL queues sessions for a row. Redis expires keys. The two loops
never return, so `ManagerStep` and `DispatcherStep` are fair, and the deadlock detector
runs. Nothing is assumed of users, crashes, the AI or the carrier: that every route
raises, every time, is a behaviour of the model.
In the dashboard, timers fire, a browser that was told to leave a page leaves it, and calls
end: those of `api/client.js` because of its ten seconds, the others because the server and
the network finish or the browser gives up. That is weak fairness per kind of call
(`OnboardingFairness`) and per lane, the calls one flag or one key keeps apart
(`ConsoleFairness`), so that no call waits for another kind. The user is never fair.

**What the failing runs show.** (1) A STOP during the greeting is overwritten with
`intake_sent`, though `conductor.py:59` calls `opted_out` terminal. (2) An escalation that the
sweep commits between the UPDATE and the COMMIT of a STOP is sent after the STOP, though
`conductor.py:746` says it ceases all messaging at once. (3) A STOP can be the victim of a
deadlock with the dispatcher, and is lost, though `conductor.py:371` says it overrides
everything. (4) A restart inside a round sends a nurture message again, past
"Max 3 cold outreach messages per lead, ever" (`compliance.py:243`). (5) `App.jsx:127` says
the router redirects a client whose onboarding is incomplete. It asks localStorage, where
only the signup form writes: a client that has gone live is sent to the wizard again, at its
first step, and can pay a second time.

## 4. What is proved

For every number of requests, leads, polls and turns, and every set of faults:

- `LeadLockProofs`: `LockTypeCorrect`, `KeysAreOwned`, `OwnersRelease`, and
  `MutualExclusion`, which assumes what the code does not guarantee: no holder outlives
  the TTL, and Redis does not fail. `Exclusive` is false without either.
- `ConductorProofs`: `ConductorTypeCorrect`, `RepliesHonourStop`, `OptOutsAreRecorded`,
  `RowLocksAreInTransactions`; the lead lock in use: `ConductorImplementsLock`,
  `LeadKeysAreReleased`, `KeysBelongToReplies`, and `RepliesAreExclusive` under the conditions of
  `MutualExclusion`; turns: `TurnsNeverRunAhead`, `TurnsCountUnlessRepliesOverlap`; and
  `StopsAreKept`, an action property.
- `LeadPipelineProofs`, for every number of leads and requests, every limit and every set of
  faults: `PipelineTypes`, `OptOutsAreHonoured`, `PipelineRepliesHonourStop`,
  `EscalationsAreCapped`, `ClosedLeadsAreLeftAlone`, `BookedLeadsHaveBookings`;
  what the web side promises, beside the workers: `PipelineImplementsLock`,
  `PipelineRepliesAreExclusive`, `PipelineKeysBelongToReplies`,
  `PipelineRowLocksAreInTransactions`, `PipelineTurnsNeverRunAhead`, `PipelineTurnsCount`,
  `PipelineStopsAreKept`; the workers: `DeadlocksNeedTheDispatcher`, `WorkersFreeTheirRows`,
  `ItemsHaveOneOutcome`, `RecordedOutreachIsCapped`, and, where no round is lost,
  `NurtureLimitHoldsUnlessRoundsAreLost` and `NurtureTasksTextOnce`.
- `OnboardingProofs`, for every number of broken calls and edits: `OnboardingTypes`,
  `NumbersPaid`, `LiveNumbered`, `StepsSaved`, `PurchasesExplained`; `SettingsProofs`:
  `SettingsSurvive`.
- `ConsoleProofs`, for every number of calls under way, of failures and of things to select:
  `SignedOutForAReason`, `ViewsTellTheTruth`, `ViewsLetTryAgain`, `ControlsActOnWhatIsShown`,
  `NothingIsSubmittedTwice`, `OnlyTestedCRMsConnect`; and of two pure computations, for all
  their inputs, `PagersLeadBack` and `ComplianceLightsAgree`.
- `DocumentsProofs`, likewise: `NothingIsBlanked`, `RestingDocumentsAreCurrent`.
- `ConsoleTypesProofs`, likewise: `ConsoleTypes`, `SpinnersWaitForCalls`.

The assumptions are the named `ASSUME`s on the constants (`LockConstants`,
`StoreConstants`, `ConductorConstants`, `BoundsAssumption`).

**The argument for `ReplyHonoursStop`.** It is not inductive: that a reply on the wire meets no
opt-out follows from what held when the consent was read. `ConductorSafe` strengthens it.
`RowsHeld`: a request in "stopping", "cancelling", "send" or "commit" holds its lead row (with
`RowLocksInTransaction`, exactly those do). `ClearIsCurrent`: while a request holds
the row, what it read of the consent is still true, since the one action that changes it,
`CommitStop`, holds the row too. So `SendReply`, whose guard is `clear`, texts a lead that
has not opted out. `NoStaleOptOut`: a request that loaded the state opted_out loaded it
after the consent record was written, which gives `OptedOutHasConsentRecord`. Each is
shown per action; steps that change no row, no consent and no request of interest are
handled by one framing lemma.

**The lead lock in use.** `Conductor` has its own copy of the steps of `locks.py`, woven into
the handler. `ConductorImplementsLock` maps them back: with `waiter`, `key` and `polls` read as
the variables of `LeadLock`, each step of the conductor is a step of the lock or none at all, so
`LeadLockProofs` holds inside the conductor. What the lock knows of a request and what the
handler knows of it are kept together by `LocksMatch`: a request is inside its body exactly where
the handler is past `acquire` and before `release`. From it follow `RepliesAreExclusive` and
`KeysBelongToReplies`. Beside the workers the same theorems hold, as a deadlock's victim leaves its
handler through `release`, and no worker touches a key.

**Turns.** The lead is loaded before its lock is taken, so two replies that overlap could count as
one. `TurnsCountReplies` (no run checks it: in this commit the agent routes raise before they
count) holds as long as no two replies of one lead overlap between load and commit
(`RepliesDontOverlap`; `TurnsAreCounted`: what a reply has loaded is the lead's turn until it
commits); in any case a lead never counts too many turns (`TurnsAreHeard`).

**What the failing runs leave standing.** Three of the violated properties hold under a
condition that names the cause, or for a part. `FollowupsHonourStop` holds of nurture messages
and review requests (`OptOutsAreHonoured`). `NurtureLimit`: as long as each round that
has texted commits (`[][~LosesRound]`), what went out is no more than what is recorded or the round in
hand is going to record (`NurtureRecorded`), and that is capped (`OutreachSafe`). `StopTakesEffect` is
liveness; `PipelineStopsAreKept` is its safety half: a STOP that has reached its lead leaves
its place only for the opt-out, by a crash of its web worker, or as a victim of a deadlock.
`DeadlocksNeedTheDispatcher` says which deadlocks there are: a STOP that holds its lead's row waits
for nothing but tasks, and nobody but the dispatcher keeps the row of a task from one step to the
next (no phase takes one: `ManagerTakesNoTask`), nor another STOP, so a set of sessions that wait for each other contains the
dispatcher, which texts one lead with the rows of others in hand.

**The argument for the onboarding.** `NumbersArePaidFor` says nothing of how a browser came to
the phone step. `OnboardingInv` does. `Earned(s, cl)`: whoever stands at step s has done what
the steps before it ask for, as the *server* sees it (settings stored, onboarding begun,
paid, number bought). It holds of the mounted wizard, of the step in localStorage, and, with
`BrowserOK`, of Stripe's page and of `?success=true`, which alone leads past the plan step; so
no reload, cancel or login brings a browser further than it had earned. `CallOK`: a call was
made by somebody who had earned it, and a "done" is true. `WaitedFor`: an answer to a save
finds the wizard no further than where the save was made, so that adding one to the step does
not skip one; that needs `OneSave`, the guard `~Saving`. As nothing in `client` is ever taken
back (`Grows`), what was earned stays earned. The proof has one lemma per shape of a step (the
server moves, a call is made, the wizard renders, the page changes), and one step per action
that shows which shape it has.

`SettingsSurvive` needs a second invariant, `SettingsInv`: while the wizard is `untouched` no
save is under way, so what its load reads is still stored when it is answered, and from then
on (`clean`) the wizard's form knows every setting the user chose.

`PurchasesExplained` counts. `Within`: the numbers bought, and the calls that can still buy
(`CanBuy`: past the check of the row, or before it while the row has no number), are no more
than the breaks, plus one if a page waits for a purchase or the row has a number (`First`). A
page that goes turns the call it waited for into an orphan and pays for it with a break; the
commit makes up for the page that stops waiting, and closes the check to all calls that have
not passed it. It needs that a page waits for one purchase at a time (`OneAsks`, the guard
`!phoneLoading` of the effect).

**The argument for the pipeline.** `OptOutsAreHonoured` says that `LeadPipeline` implements
`OptOutContract`, and `PipelineRepliesHonourStop` carries the result about replies over to the
composition. What was proved of the web side alone is kept (`ConductorSafe`: no worker writes
an opt-out, moves a request or touches its row locks). For the follow-ups `DispatchSafe` plays
the part that `ClearIsCurrent` plays for replies. `TasksHeld`: each task of a round is locked
and pending until the round commits. `ClearStaysClear`: what the dispatcher read of a lead's
consent is true as long as it has a nurture message or a review request (`Guarded`) for the lead
in hand, because a STOP must take that task's row to cancel it. That needs `StopHoldsTasks`:
from the start of its UPDATE a STOP has every pending guarded task of its lead before it or in
hand, as none is added meanwhile: the phase that adds one holds the lead's row (`FlushedHeld`:
a phase keeps the rows it has flushed), and so does the STOP.
`RoundStartsEmpty` and `ItemLoaded` keep what was read in an earlier round, or not at all, out
of it. `AttemptsLeft` bounds the retries, which the type needs. A reminder is in hand too, but only the rows of tasks are argued about: the STOP does
not wait for the booking row a reminder holds, which is why reminders are not in the contract.

Three more facts rest on the same frames. `EscalationsAreCapped`: the sweep counts at its
SELECT and adds at its COMMIT; `EscalationsHaveRoom` says that nothing the others do in
between uses up the room, since a text is counted only for a task that was pending
(`TasksHeld` again). `ClosedLeadsAreLeftAlone`: only the manager closes leads (`RepliesKeepOpen`:
a stale reply writes the closing state it had loaded only where it changes nothing), so the
leads a phase has selected stay open until it commits (`ChosenAreOpen`), and a closing commit
cancels what is pending. `BookedLeadsHaveBookings`: a request that is about to write "booked"
also writes a Booking, unless it had loaded "booked". The last two do not hold when the
dashboard sets states, and say so. Each kind of step (web, manager, dispatcher, deadlock,
crash and time) has one lemma that says what it may do to the others (`WebFrame`,
`ManagerFrame`, `DispatcherFrame`, `BackgroundFrame`), and each part of the invariant is
shown once per frame.

**The argument for the console.** `ConsoleInv` has one part for what all pages share and one
per kind of component. `ComponentOK`: the calls under way are of the kinds the mounted component
makes, or nobody waits for them; so an answer is never taken by a handler of another page.
`SessionSafe`: as long as the browser stays, only a refused refresh has sent a call with a token
that is no good (which gives `SignedOutForAReason`), and nothing is mounted for nobody.
`ViewTrue`: a view that hides its controls while it loads has only calls for what is selected,
and, when it lets select, one at a time (`OneAtATime`: every way to ask takes the controls away);
a view that drops late answers shows what is selected, has failed, or has asked for it.
`PaneTrue` says the same of a thread that was selected while no other answer was under way (else
`crossed`), `FormTrue` that a modal saves the item it was filled from. What is sent is counted
against the errors (`RepliesCounted`, `ClientsCounted`, `CountedSection`): nothing is sent twice because
whatever sends takes the draft away, or holds a flag that only the end of the call gives back.
`CRMTested` needs that there is one test and one connect at a time, and that a test's answer is
for what is still typed, unless `excused`. One lemma per action shows that it is a
`ComponentStep`, which keeps the shared part, and that it keeps its own part; the other parts say
nothing of another kind of component.

`DocumentsProofs` adds `DocumentInv`. `DocSound` and `SavesSound`: what is stored, shown after
loading or on its way to the server, also by a page that is gone, was entered in a form that had
been loaded; the guard that matters is that of the settings page, which renders its form before
it is loaded (`CanSave`). `RestIsCurrent` is the property; it is not inductive, as a page also
rests after a save that no load follows. `OneCall`: a document not `disturbed` has one call under
way or none. `SavesInStep` says how far such a save has come: before the server has taken it, what
is shown is stored and what is sent is what will be shown (`Meant`; for the engine's switch, the
opposite of what is shown now), and afterwards what is stored is what will be shown. All other
saves are followed by a load, which brings everything in step whatever came before.

**The types of the console.** `ConsoleTypeOK` says of each kind of component which values its
state and its calls have. It is not inductive by itself: that the answer to a call of one page
cannot reach the state of another is `ComponentOK`, that a saved copy is a document is
`DocumentInv`. `TypesInv` adds what each kind of page knows of its calls (which calls carry
which tag, which flags go with which modal), one lemma per kind.

**Flags and skeletons.** `SpinnersStop` is a liveness property; `SpinnersWaitForCalls` proves what
it rests on and what no fairness could mend: every disabled button and every skeleton has a call
under way whose end takes it away (`SpinnersHaveCalls`), but for the two skeletons of `Endless`. With it goes `FlagsApart`: a view that
opens on demand drops no answers, so that it never waits for one that it would drop, and a
document's saves never hold the flag of a scrape, so that no call takes away the flag of another.
That every call ends is left to TLC.

**Only model-checked**: the liveness properties (`WaitsEnd`, `KeysFree`, `RequestsEnd`,
`StopTakesEffect`, `RoundsEnd`, `PhasesEnd`, `PhoneStepEnds`, `PagesCatchUp`, `SpinnersStop`),
because the prover has no rule for fairness (what the last rests on is proved, see above). Every safety property of a passing run is a theorem.
Of the properties that fail, `OptedOutIsTerminal` and `GateIsForUnfinished` have no theorem; the
others have the conditional ones above.

## 5. What is not modelled

In the pipeline: text, scores, costs, events and logs; the billing gate in front of the
webhook (a STOP from a client with lapsed billing is dropped there, `webhooks.py:183`); the
arithmetic of quiet hours and of slots; other clients and phones (rows of theirs are never
touched by these sessions); more than one row per task type and lead (the code adds a task
only while none of that type is pending, so the latest row is the one that matters); the
order of items in a round (any order); `limit(50)` of the SELECTs (a round may pick any
nonempty subset; the manager takes all).

In the dashboard: `pages/Landing.jsx`, the pages for passwords and mail addresses, charts,
widgets, and the hooks no page uses (`useLeads`, `useMetrics`, `useWebSocket`); field
validation, formatting, toasts, local search in a list that is shown; other tabs of the same
browser (localStorage is shared by them, the wizard's state is not).

Components with status `not_modelled` are listed in `PROJECT.json` with the reason. The cold
outreach half of the server (sequencer, sales webhooks, task processor, deliverability) is
the largest of them.

Seen while reading, and stated by no property, because they are certain from the lines alone
or belong to a part that is left out:

- The deduplication key is set before the lead is committed (`conductor.py:82`): a crash in
  between loses the lead and its repetitions. A duplicate is acknowledged by SMS without a look
  at consent (`conductor.py:91`). A lead blocked by quiet hours stays `new`, which no worker
  selects (`conductor.py:230`).
- A manual reply checks `lead.state` and sends after an await (`dash_leads.py:413`), then names a
  column that does not exist (`dash_leads.py:451`): the request fails after the SMS is out.
- The reminders look at `lead.state`, not at the consent record or quiet hours
  (`sms_dispatch.py:323`, `487`). A no-show leaves its lead booked
  (`lead_state_manager.py:356`).
- The agent routes of a reply read `lead.conversations`, which nothing loads: see section 2.
- The wizard saves the after-hours handling under `hours` (`Onboarding.jsx:304`) and restores it
  from `hours.business` (191): it is never restored. Going back from the phone step offers the
  plans again, and a second payment. When the plans cannot be loaded, step 4 has no way on but
  a reload. When only the answer to a purchase was lost, the wizard asks for a number for
  ever, until it is reloaded; its "Try Again" (795) is never shown.
- A refresh that is answered after signing out stores its token again (`api/client.js:69`), until
  the browser has left the page.
- The campaign's analytics (`AdminCampaignDetail.jsx:261`, `424`) and the worker status
  (`AdminSalesEngine.jsx:411`, `522`) spin for good after one failed call: the error is swallowed
  and the skeleton stands for missing data.
- After a failed load the compliance page shows a yellow light over metrics that are all green
  (`Compliance.jsx:169`, `180`).
- In Reports, the metric details and the admin's leads a late answer stays on the screen under
  another selection. The error of `ROI.jsx:106` replaces the controls that could end it. A list
  that shrinks to one page shows no pager (`Pagination.jsx`).
- A reply typed for one lead is sent to the one selected when it is sent (`Conversations.jsx`);
  a late answer to a save closes the form that is open by then; only the clients' form is
  disabled while it is saved, so the others can create twice.
- A reload after a save overwrites edits made meanwhile, and two clicks on the engine's switch
  send the same value twice while showing both flips (`AdminSalesEngine.jsx`).
- A CRM key may be changed after its test (`CRMConnectionSection.jsx:61`). A registration that
  came to a halt on the server after its type was stored shows no form any more
  (`RegistrationStatusSection.jsx:57`). `Billing.jsx:211` offers plans when the status could not
  be loaded.

## 6. Plan

Done: LeadLock, LeadStore, Conductor, LeadStateManager, SmsDispatch, LeadPipeline,
OptOutContract; App, Onboarding, ApiClient, Views, Threads, Documents, Forms, Sections,
Console; and the proofs of section 4. What would come next:

1. *ColdOutreach*: sequencer, deferred sends of the task processor, email events.
   Sessions with picked rows, a per-send commit that releases all of them, the
   check-then-send of `send_sequence_email`, reply and unsubscribe events in between.
   Abstract specification: each step of a sequence is sent at most once, none after an
   unsubscribe. Runs: one safety, one for the duplicate send.
2. *TaskQueue*: select, execute, one commit per cycle, backoff; what a crash repeats.
3. *ComplianceRules*: quiet hours with states and holidays, and the message limits, as
   pure operators against a reference definition.
4. *BillingEvents*, *CrmSync*, *PhoneRegistration*: small state machines with unordered or
   repeated external answers.
5. Two tabs of one browser in the onboarding, which share the step but not the wizard.
6. Proofs: the safety of ColdOutreach, once it is modelled.
