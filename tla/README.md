# Verification of the boutique CRM

TLA+ models of the parts of this repository whose correctness does not show in
one request: an order moving through its workshop, the messages it sends, the
cloth it uses, the money it is paid and the wages it costs; the WhatsApp session
its messages go out on; and the browser in front of it all: the signed-in
session, the form that takes an order, and every screen with its requests in
flight. Each model is translated from the source; TLC checks it on small
instances and TLAPS proves its main invariants for every value of the constants.

- `X.tla` models a component: its state, one action per operation, its properties.
- `MC_X.tla` and the `.cfg` files give it small instances.
- `X_proofs.tla` holds its theorems; `Money_proofs` those of PaymentLedger and Payroll,
  `Browser_proofs` those of ClientSession and Screens.
- `PROJECT.json` lists the runs, the source lines behind every definition, a
  mutant that breaks each property, the findings and the hazards.

To check: `tlc -config Payroll.cfg MC_Payroll`; to prove: `tlapm Money_proofs.tla`.
A definition called a "mutant of X" in a comment is a plausible bug: put in X's
place it breaks the property `PROJECT.json` names beside it. No specification uses it.

## The system

A Django application (one schema per boutique), a React front end, a Node service
that owns the WhatsApp sessions, Postgres, Redis, and a cron. Requests run side by
side, in threads and workers; `ATOMIC_REQUESTS` is off, so a request is as many
transactions as its handler opens. Row locks (`select_for_update`), partial unique
indexes and conditional UPDATEs are what serialises them, where anything does. In
the browser one handler runs at a time up to its next `await`, and answers land in
any order.

| Component | State | Operations | Talks to | What is hard |
|---|---|---|---|---|
| Order workflow (`domains/orders/workflow.py`, `services.py`, `stage_parts.py`) | `OrderStage` rows per step and garment, performers, parts, `ProductionTask`, `order_status`, `production_status` | move a stage, sign off, reopen, fail the quality check, split a step, start/send/send back a part, add a garment | materials, messages, payments (a move saves the order) | long sequences of legal moves and reversals; six handlers keep five copies in step |
| Customer messages (`messaging.py`) | a `CustomerMessage` row: status, attempts, next attempt | queue, claim and try, report, give up, retry, mark sent | Node service over HTTP | the request's thread, overlapping crons and staff race; workers die mid-send |
| WhatsApp service (`whatsapp_service/src`) | per boutique: one record (socket, status, `isInitializing`), an auth folder, a cache of message ids | start, status, reset, send text, send media; the library's events | Django, WhatsApp | callbacks of every socket ever made write the one record; timers, resets and restarts cross them |
| Stock and shelves (`inventory/services.py`, `shelves.py`) | an item's current and reserved figures, location and shelf quantities | eleven movements, transfer, count, put away, move | materials | four figures per item that must add up |
| Order materials (`order_materials.py`) | a plan and its lines: reserved, consumed, wasted, returned | reserve, consume, waste, release, package, close, cancel; the stage hooks | stock | work by hand, by stages and after reopenings, mixed |
| Payments (`finance/payments.py`, `signals.py`, `OrderViewSet`) | the order's running total and status; dated `Payment` rows | patch, set prices, enter payment, stage move, the ledger sync | orders | two records of one sum, written by five paths in several commits |
| Payroll (`apps/payroll`) | periods, payslips, the staff ledger, advances | draft, approve, pay out, agree a deposit, lend, re-schedule, cancel | attendance | weeks approved at once; a draft that is stale when signed |
| Client session (`services/api.js`, `App.jsx`) | one token in localStorage for all tabs; reads in flight, a guard | sign in, read, check, sign out, change or reset the password | `/auth/` | a 401 that may be stray; answers about a token that was replaced |
| Order wizard (`App.jsx`, `hooks/useAutosave.js`, `drafts.py`) | the form, its draft's id and version, what was saved; draft rows | fill in, next, save, leave, autosave, resume, discard, place, take in | the drafts' endpoints | autosaves, answers of an order already left, lost answers, reloads |
| The other screens (`frontend/src`) | what is chosen, what is shown, flags, open forms, requests in flight | choose, open, send, reload | `services/api.js` | replies overtake one another; a reload joins a read sent before the save |
| Attendance, alterations, purchase orders, order numbering, e-mail jobs, portal codes | see `PROJECT.json` | | | not modelled, see below |

What makes each correct:
- orders: nothing begins over an unsettled prerequisite, nobody approves their own
  work, and every derived status says what the rows say;
- messages: one sender at a time, no silent loss, a bounded number of copies;
- WhatsApp: the session never blocks itself, says connected only when it can send,
  keeps its pairing, comes back by itself and hands each message on once;
- stock: what is promised is there, and shelves, locations and the item agree;
- materials: nothing is reserved or drawn twice, and a closed plan holds nothing;
- payments: the dated rows and the running total account for the same money;
- payroll: nothing is recovered beyond what is owed or earned, and what was approved
  stays;
- session: the page notices that its session is over, and nothing else ends it;
- wizard: an order is placed once and complete, drafts are not mixed up, what is
  written is saved or the form says it is not;
- screens: one press makes one request, a screen ends on what is chosen and on what
  was saved, nothing stays off, a form is closed by its own answer.

The remaining components (catalogue, customers, scheduling, design studio, try-on,
reports, tenants, permissions) are record keeping or I/O around these on the server;
their screens are modelled. `PROJECT.json` lists each with the reason.

## What is modelled

### OrderWorkflow: one order, one request at a time

A row is a pair `<<step, garment>>`; `st`, `performer`, `task` and `parts` are its
`OrderStage` columns, its `ProductionTask` and its split. `Transition` is
`transition_order_stage` with `check_transition` (`CheckTransition`), the sign-off
rules (`MaySignOff`, `SignOffRules`), the parts that follow a step (`FollowStep`) and
the two derived statuses; `Reopen`, `FailQC`, `Split`, `Unsplit`, `AssignPart`,
`StartPart`, `SendPart`, `SendBackPart`, `AddGarment` and `ProvideData` are the other
handlers. Every handler is one transaction and a refused request rolls back, so a
refusal is no step. `audit` is the latest activity row, which two properties read.

Left out: notes, durations, photo contents (only whether one came), notifications,
`current_stage_key`, the finished goods of internal runs, `set_order_flow`, the
serializer writes of workflow columns and the task board's own endpoint, the laying
of rows for a trial. `OrderLevelFirst` and `RequiredStages` are facts of
`get_default_workflow`; a boutique that saves a workflow of its own may break them.
`update-status` and `complete-all` are loops of `Transition`.

### MessageQueue, and MessageDelivery above it: one message, several triers

`Claim` is the conditional UPDATE of `attempt`, `Accept` the moment WhatsApp takes the
message, `Report` the `save()` that follows, whatever the row says by then, and
`Crash` a worker that dies anywhere between. `ListMessages` gives up stale messages
and shows the page `MarkSent` is pressed on; `ClickRetry` and `Retry` are the
endpoint's check and the UPDATE that looks again. Time is minutes.
`SendFitsLease` (a try ends before its claim does) is a fact of the timeouts: a text
of at most 10 s and nine photos of 30 s are 280 s, the lease is 300 s.

`MessageDelivery` is what the queue promises, with no cron, lease or clock in it: a
message is in one pair of hands, each hand-over is paid for by one of a few tries, it
is SENT only if it was taken or staff say so, it fails only with no try left or given
up, and it is not taken up again once SENT and out of hand. `DeliversAsPromised` says
that MessageQueue implements it: `left` is the tries the row has not used, `inHand`
that somebody is sending.

### WhatsAppSession and WhatsAppTraffic: one boutique's session

`sock`, `status` and `initializing` are the session's record, which every listener of
every socket writes; `phase`, `hears` and `creds` are the sockets; `inits` and
`timers` the calls of `initWhatsApp` suspended at its one `await` and the `setTimeout`s
that will make more. `Begin` is that function before the await, `MakeSocket` after it;
`Connecting`, `OfferQr`, `Pair`, `Open`, `ClosedOtherwise`, `Replaced` and `LoggedOut` are
the branches of the `connection.update` and `creds.update` handlers; `AskStatus`,
`StartSession` and `Reset` the routes. `Unlink` is the phone's owner; `Restart` a crash or
a deployment. What WhatsApp does to a socket is external, in any order it allows.

WhatsAppTraffic adds what goes through: `Upsert` is `handleIncomingMessages` with its
cache of ids (`Prune` is its expiry), `Webhook` one of the three tries to hand a message
to Django, `SendMedia` and `MediaLoaded` the two halves of `sendMedia`, which keeps its
socket across the download. Sessions share nothing, so one is followed.

### Stock: one item

`Movement` is `record_movement` (`Book` is what it does once its last refusal, of a
reservation beyond the stock, is past); each screen's operation passes it what the code
passes.
The default location is assumed active. Ledger rows, alerts, the rack tree and labels
are left out.

### MaterialPlans: the plans over one item

It extends `Stock`: every reservation, use and release is a movement there. `plan` and `line` are an order's latest plan and
its lines, `taken`, `stitched` and `given` the stages that drive it. Plans made from a
recipe are left out; `given` stands for the delivery stages.

### PaymentLedger: one order, overlapping requests

Each request holds the copy of the order it loaded (`req[p].order`) and moves through
the commits of its handler: `SaveWhole`, `CommitPrices` and `Reconcile` save, `Compare`
and `Mirror` are the two statements of `sync_from_order` that run after a commit.
`high`, the most the order has ever said it was paid, and `raced` are history variables.
Transactions that hold the order's row lock to their commit are one step. Requests
always run to their end here. The `advance_paid` column and the refusal of `set_prices`
on a closed order are left out.

### Payroll: one person's weeks

`Generate` drafts a week from the sessions filed under it (`Draft`: gross, then
deposit, then advance from what the deposit left); `Check` is `approve` up to its last
re-check, under the week's lock only; `Freeze` is `_freeze_records`, what each
recovery asks again under the person's lock, and the commit; `RollBack` is a refusal
there. Two weeks can be between `Check` and `Freeze` at once. `FileSession` is a
session recorded or corrected, `SetTerms` the profile with its deposit agreement,
`Issue`, `SetWeeklyRecovery` and `Cancel` the advances. `recovered` and `repaid` are
the sums of the ledger's rows. A recovery's look and its commit are one step: what the
owner enters takes no lock on the person (only `Cancel` does), so an agreement
committed inside that gap is seen as coming after it.

Left out: overlapping and open sessions, the employment window, people who leave (a
payslip with `staff` NULL), the balances copied onto payslips. A session is an hour. A
`PAID` status stands for the payout row.

### ClientSession: who a browser is signed in as

`token` is localStorage, `current` the token the server honours for each person,
`screen` what a tab shows and the guard of `handleSessionEnded` (`checking`). `reads` are
the entries of `inFlightReads`, one per tab and address, each with the callers that
joined it; `posts` are requests by the busy flag that turns their button off. Asking,
serving and landing are steps of their own. `Doubted` is a 401 that raises a check,
`LandMe` the answer of `/auth/me/` with all it does to the page that opened and to a
check that may be the same request. `EndElsewhere` is a sign-out or a reset on another
device. Left out: sign-up, the request for access, the boutique's page by its address,
the tenant header. A page loaded again drops the requests nobody waits for; what such a
request still does at the server is `EndElsewhere`'s.

### OrderWizard: taking an order, and the draft behind it

`tab` is what each tab keeps: the view, what is written, the draft's id and version,
the save state, what was last saved; `calls` the requests under way; `drafts` the rows
of `order-drafts/` with their version check; `taken` and `added` count alterations and
walk-in customers made. `PersistDraft` with `Persisted` is `persistDraft` before and after
its await; `Tick` the autosave; `LandSubmit` and `LandPlaced` the two awaits of
`submitOrderAndConfirm`; `Rendered` the effect of `useAutosave`, which takes what is written
when it comes on as saved. Each step of the form is an action (`WhoForm`, `DetailsForm`,
`ClothForm`, `MoneyForm` ...), whose body says what of the form it writes or asks.

Abstractions: what is written is which order it is for, who, how far its garments are
(the least any garment has) and the number of the writing (`edit`), so typing back
letter by letter what was there is not told apart; the step is a parameter, as the
stepper reaches every step at any time; "stitch" stands for the design service too;
identical requests of a tab are one, and a tab has at most one picture, template or
customer lookup under way; a form off the screen is blank; the outside garment is set
before it is told of. The review page only draws.

### ApiCalls, ScreenParts, Screens and the seven tables: every other screen

The front end's screens differ in what they read and send and hardly in how, so their
behaviour is one module, `Screens`, and what each does is a table: `StaffScreens`,
`StockroomScreens`, `WorkScreens`, `DesignScreens`, `ConsoleScreens`, `OrderScreens`,
`CustomerScreens`, 107 panels. `ApiCalls` says how each call travels: a read joins one of
its address in flight, an identical write is merged, a form or a plain fetch is a request
of its own. `ScreenParts` explains a table's fields: which flags a handler raises and in
which order it lowers them, what turns its control off, whether a reply is dropped when a
newer read was asked for, what a success reloads, puts in place or closes, and for whom.

A step is a choice (`Choose`), a form opened or dismissed, a control used (`Click`), the
server dealing with one request (`Deal`), or a reply landing (`LandGet`, `Succeed`,
`Fail`). Versions stand for data: `clock` counts the changes the server made, a screen
shows a version, and an operation's success tells its person of one.

Abstractions: a load of several requests is one read, over when the last is in; a chain
of requests is one operation after another; a failed read shows an error; a form closes
at its success even where the code awaits the reload first; one form is open at a time
(the reversal question over the stage sheet has a panel of its own); a busy flag shared
by rows locks a question for any of them; a form for editing opens without its own fetch;
polls and "again" buttons are an operation whose success asks the read again; what is
drawn, typed and validated is left out.

## What the runs show

| Run | Instance | Shows |
|---|---|---|
| `order_parts` | 1 garment, 3 steps, owner and two tailors, 2 parts | a settled step has no open part; the task board tells each stage's story |
| `order_line` | up to 2 garments, 4 steps, owner, Master, tailor | prerequisites stay settled; Delivered and COMPLETED mean what they say; reversals leave nothing ahead; only those who may sign off do; only reversals unsettle |
| `messages` | 2 crons, 2 clerks, 3 tries, 2 retries | one try at a time; the refinement of MessageDelivery; every message is sent or given up |
| `whatsapp` | 2 sockets, 1 timer, 2 suspended calls, 1 reset, 1 message, 2 tries | never stuck initialising; connected means open; pairing kept; a paired session returns; Django asked at most `maxRetries` times; media leaves by its own socket |
| `stock` | 2 locations, 4 shelves, stock to 5 | reserved is in stock; THE ONE RULE of the shelves and the sum over locations; what is not on a shelf goes first |
| `materials` | 1 order, 2 garments needing 1 and 2 | what the lines say of reservations adds up; nothing drawn twice; a plan keeps what is reserved |
| `payments` | 2 requests, amounts to 2 | no money left out of the ledger however requests overlap; exact when they do not |
| `payroll` | 2 weeks, 2 sessions, 2 advances, deposits of 1 and 2 | recoveries never exceed what is owed or earned and are on the payslip that took them |
| `session` | 1 tab, 1 person with a temporary password, 2 tokens, 1 stray 401 | a raised guard has its check; one stray refusal never ends a session; a dead workspace closes |
| `wizard` | 1 tab, 2 orders, 4 drafts, 3 acts, 1 lost answer, 1 free writing | placed once, complete; drafts keep their order; a garment taken in once but for lost answers; writing is saved or said not to be |
| `screens` | each of 107 panels, 2 subjects, 2 rows, 3 acts | no twin writes; nothing stays off; a screen ends on its subject and on its person's own saves; a form closes by its own answer |
| `claim_wizard` | as `wizard`, with `Overlap` | the finding below |

Why the bounds are enough:
- Two of a thing that races (crons, clerks, requests, weeks, sockets, orders, subjects,
  rows), two garments for the rules between garments, two parts for "the last part", and
  three tries so that one is neither first nor last. Amounts reach 2, so that part, whole
  and excess differ; `MaxStock` 5 with steps of 2 lets two shelves and a location each run
  out alone.
- `order_line` is bounded by `BareUnlessSingle`: only an order of one garment starts
  without its tailor or records performers. Which performer a row names decides
  sign-off, a matter of that row alone, and the rules between garments never read it.
- `MaxRetries` is in the guard of `ClickRetry`; `MaxStock` and `MaxLine` in the guards of
  receipts and of work by hand; `MaxTimers`, `MaxInits`, `MaxResets` in the guards of what
  makes one; `MaxTokens` and `MaxStrays` in `Minted` and `ServeStray`.
- A screen's races are between two or three things its person does; `MaxActs` 3 is a
  choice, another choice and a save, or a form sent, dismissed and opened again. Answers
  and the server are not bounded.
- In `wizard`, acts are what opens, presses or names; filling in goes only forward and
  needs no bound. Three acts leave an order and begin another, or save, leave and resume.
  Tried beyond the run, by hand: two tabs without writings (1.53 million states, the
  liveness aside) and two writings in one tab (0.97 million); both hold.
- `Overlap` is FALSE in `wizard`: a person who waits for the answers of an order before
  leaving it. With it TRUE the properties about drafts fail, which is the finding and
  its relatives below; what remains is that everything holds for who waits.
- `MC_Screens` names, property by property, the screens where it holds only for a person
  who waits (`rushed` FALSE): `ReloadMayMissASave`, `LateReplyStays`, `FormsDismissable`,
  `OneBusyRow` (a screen and a control). A screen not on a list holds for anybody: it keeps
  the rule of `ScreensAssumption` the theorem rests on. A screen on one breaks that rule, and
  taken off it, alone, TLC violates the property in 3 acts or, for seven screens and controls,
  in 4 (by hand). The lists are findings of their own, see below.
- `CHECK_DEADLOCK FALSE` is said where the system may stop: a delivered order with nothing
  to reverse (`order_line`), a person at the bound of their acts (`wizard`, `screens`).

Fairness, where a property needs it (`FairSpec`, `TrafficSpec`):
- `messages`: time passes, each cron keeps claiming (it runs every minute), a try that
  does not die reports (its HTTP calls time out), and staff look at the order's messages,
  which is when stale ones are given up. Clicks, crashes and acceptance get none.
- `whatsapp`: the status is asked for again and again (the settings screen polls, the
  message cron asks), timers fire, an ended socket reports its close; making a socket and
  opening it are strongly fair, since they fail while WhatsApp is away and one day do not.
  Resets, restarts and unlinking get none.
- `session`: the screens' timers go on asking, answers arrive; serving a read is strongly
  fair, since a network that fails is not down for ever. Signing in gets none.
- `wizard`: the autosave's interval comes round, requests are served and their answers
  land. The person gets none.

Most modules state a type invariant; the runs check properties that are harder to get
right, and each proof's invariant contains the types it needs.

## What is proved

For every value of the constants, from the `ASSUME`s of each module, which TLC evaluates on
every run: bounds are numbers, what is summed over is finite (`Places`, `Spots`, `Lines`),
and the facts of the code named below.

- **OrderWorkflow** `PrerequisitesAlwaysSettled`. For any workflow, garments, people
  and parts: no stage has begun over an unsettled required one. The invariant `IInv` adds
  that only an optional or a waived row is ever SKIPPED, since a SKIPPED row pressed Done
  can be submitted again; a waived one cannot, being desk work (`RequiredStages`).
  `Transition` starts a step only over settled ones; `Reopen` and `FailQC` reset
  everything later which concerns the row (`Later` and `Earlier` are converse).
  `TasksAreTrue` and `SettledMeansDone` follow from `KeptUp`, one lemma of which
  (`OneRowKeptUp`) carries every forward handler; a part is handed out or moved only while
  its step is open. `OnlyApproversComplete`: both ways to COMPLETED, Done and the last part,
  pass the sign-off rules (`WrittenCompleted`). `SettledStaysSettled` has the hypothesis
  that an optional stage is desk work (`OptionalIsDeskWork`): otherwise a worker unsettles
  a SKIPPED row by pressing Done, see Findings. `NothingStandsAhead` asks in
  addition that nothing is waived: a waived payment is laid SKIPPED, and stays so when a
  quality check fails. `OrderSpeaksTrue` is for workflows that end, as the default one does,
  with a check and a handover of each garment (`CheckedThenHandedOver`) and skip only desk
  work. Between moves what it says need not hold, since a garment may join; `Told` holds: an
  order said to be finished has nothing under way, one said to be delivered was, but for
  garments nothing was done for yet. `TypesAreKept` is the type invariant.
- **MessageQueue** `OnlyOneSends`, `FailedMessagesRest`, `BoundedCopies`, and
  `QueueDelivers`, the refinement of MessageDelivery. While a try is going its message is
  out of the claim's reach: `due >= Lease - age` and `age <= MaxSend < Lease`. Without
  `SendFitsLease` a second try could start.
- **WhatsAppSession** `SessionNeverStuck`, `SessionTellsTheTruth`, `SessionKeepsPairing`;
  **WhatsAppTraffic** `MessagesAreHandedOnOnce`, `PicturesHaveOneWayOut`.
  The invariant is about who may still write the record: while there was no reset, the
  only sockets heard are the session's own, so what they write is true of it; a reset that
  crosses a suspended call leaves a stray, which is why `ConnectedMeansOpen` speaks of
  sessions without one.
- **Stock** `ReservationsAreCovered`, `LocationsAreNeverOverdrawn`, `RecordsAlwaysAgree`,
  `NotShelvedGoesFirst`. Every movement goes through `Book`, so one lemma about it carries
  them all. The sums over shelves and locations are sums over a finite set; what is needed of
  them (a sum with one value changed, with a block of values moved, a part of it) is had
  without an induction theorem, from a smallest set a fact would be false of. Emptying
  shelves one after another (`Emptied`) takes from a sum what it is told to, and leaves no
  piece off its shelf if any was left on one.
- **MaterialPlans** `ReservationsAlwaysAddUp`, `PlansKeepRecords`, `OthersStayReserved`,
  `DrawnOnlyOnce`, for any orders, lines and figures. What the lines hold in all (`Claims`)
  is a sum and the item's reserved figure one number; a step is made of lines that reserve,
  lines that draw and lines that give back, with a lemma for each, and `Stitch` does the
  first two at once. `DrawnOnlyOnce` needs that a line's draw is what it still lacks, whoever
  drew before.
- **PaymentLedger** `NothingIsLost`. `high` exceeds the rows only while some request
  still owes the difference (`Owes`): it has saved a copy that says so and not compared
  it, or compared and not written. The rows never shrink, so what it writes is enough.
  `AloneIsExact`: with one request after another, what a request owes is the exact
  difference, and the row it leaves agrees with its total already or is the very copy it
  goes on to reconcile.
- **Payroll** `AdvancesNeverOverpaid`, `RecoveriesAreTraceable`, `NetIsNeverNegative`,
  `DepositsAreNeverOvercollected`, `ApprovedIsARecord`. `PayInv` adds that a week and
  its payslip are approved together, that an approval under way holds a draft
  (`Generate` waits for the week's lock), and that a payslip which repays names its
  advance. That the oldest advance exists is by well-foundedness of strict inclusion on
  the intervals `0 .. a`.
- **ClientSession** (in `Browser_proofs`) `GuardsAreLowered`, `StraysAreHarmless`, for any
  tabs and people. Each read in flight was sent with a token that was made; a refusal by the
  server means the token is not honoured then nor ever again (`NeverAgain`: numbers only
  grow), so a token given up on the server's word was dead; and a guard goes up together
  with its check.
- **OrderWizard**, for any number of tabs, orders and lost answers. `OrdersArePlacedOnce`: a
  draft is spent in the step that places it, and no save brings it back (`SpentDrafts`).
  `DraftsAreNotMixedUp`, `GarmentsAreTakenInOnce` and `PlacedOrdersAreComplete` have the
  hypothesis `~Overlap`, a person who waits for the answers of an order before leaving it;
  without it they are false (`claim_wizard`). Their steps are six kinds of turn: a pen, a
  press, an answer heard, leaving, opening, a reload. `InStep`: a tab's form, its draft and
  its calls name one order, and one press is under way at a time. `TakenApart`: an
  alteration's order is held by one form or one request, so the server's count exceeds one
  by lost answers only. `PlacesWhole`: what a page is about to place is what it saved last,
  and no save it has in flight can still change that.
- **Screens** (in `Browser_proofs`), for any rows, subjects and `MaxActs`, and any tables that
  keep the rules of `ScreensAssumption`. `NobodyActsTwice` and `ControlsComeBack`: a flag that
  is kept stays up while its call is out (`FlagsKept`), and every flag that is up has an
  owner in flight that will lower it (`Owned`). `FormsCloseThemselves`: a closer's form
  stays open until its answer (`Holding`). `LateRepliesStayOff`: replies that count are
  about what is chosen (`OnSubject`). `SavesAreShown`: for who waits, the reload is asked
  after the save with nothing else out; for who hurries, a read is changed by nothing, or
  asked anew with only the newest answer counting, or read once under a flag that holds back
  what would change it. The rules are each a question about one panel's text (does its
  flag turn off every control that lowers it, does its form lock while it sends), and TLC
  asks them of all 107 panels; a panel that breaks one is on a list of `MC_Screens`, and the
  theorems hold for it as far as its list says.

Only model-checked: liveness (`EventuallyAnswered`, `PairedSessionsReturn`,
`DeadWorkspacesClose`, `WritingIsSavedOrSaidNot`), which is out of the prover's reach. Every
other property of the runs is stated by one of the theorems above, for some under the
hypotheses named there.

## Findings

`claim_wizard`: `persistDraft` puts its answer's draft and version on whichever order the
form is on by then (`App.jsx:2602`). Leave an order while its autosave is on its way --
the cross is never off -- and start another: the second order is on the first one's draft
and its next save overwrites it, though a comment at `App.jsx:4127` says that leaving the
form forgets it.

Met while modelling, without a run of their own.

**Orders.** A worker may ask for COMPLETED on a SKIPPED stage: it becomes
PENDING_VERIFICATION without a reopening, against `workflow.py:46`. A failed quality check
puts stitching back in progress with its parts still done, so the step is never sent for
checking, against `stage_parts.py:11`. COMPLETED to SKIPPED is allowed on an optional stage
(`workflow.py:32`); a stage that is not the frontier can be reopened (`workflow.py:36`); a
free alteration's SKIPPED payment can be completed after Delivered (`services.py:950`); a
Master marking their own last part done is refused without a photo, which
`stage_parts.py:222-224` asks only of the part's own person when sending; a Master can send
back, through a part, a Master's step that `may_sign_off` keeps from them
(`workflow.py:122-130`), and can complete one by naming a Master as its performer while
verifying (`workflow.py:79-80`); a garment added late leaves `production_status` COMPLETED
(`test_workflow.py:308` expects it); `CLIENT_STATUS_WHEN_SETTLED` lacks `alteration_work`
(`services.py:1042`).

**Messages and WhatsApp.** Mark sent is overwritten by the report of a try that was going
(`messaging.py:140`). After a reset that crosses a suspended `initWhatsApp`, a stray socket
goes on writing the session's status.

**Materials.** Stitching an order that was taken without stock uses cloth reserved for
another, whose last handover then raises (`order_materials.py:422`). A plan drafted by
opening the checklist makes stitching raise; so does stock outside the default location;
`created` cannot be completed again once the plan is in production; material released and
reserved again still counts as returned, so stitching draws nothing; stitching redone
while the plan is live draws nothing (the docstring at `services.py:1093` says it does),
and after delivery draws on a new plan.

**Payments.** A payment entered while a stage move uploads its photos is put back by the
move's whole-row save (`services.py:958`), though `finance/models.py:105` says the two
records must agree. A PATCH above the total is mirrored before it is clamped; a PATCH of the
total on a Paid order ledgers the difference; two syncs may both write a row; two payments
entered at once may exceed the total; a process that dies between commit and callback leaves
money out.

**Payroll.** A session moved to the next week by a correction, and drafted there before the
first week is approved, is paid in both. Two weeks approved at once can both pass the
check, the second finds the deposit cleared and writes no row, and its payslip still says it
was taken (`deposits.py:207`).

**Order wizard.** Relatives of the finding: resuming a second draft, or starting another
order, while the first one's templates load mixes the two; a garment's template, a picture
or `ensureCustomerId` lands on whichever order is open; an alteration's answer closes a newer
form. An autosave in flight when Next, Save or the order button is pressed makes twin drafts
or conflicts with itself ("changed in another tab"); once such a conflict heals by a late
answer the baseline is taken anew and "Saved" stands over unsaved work. Lost answers: of a
confirmation, pressing again saves first, meets 404 and says "Nothing has been booked"
though it was (`App.jsx:3793-3797`); of an update, the next save conflicts with itself; of a
create, a twin draft; of a discard, a draft still listed which can be resumed and never
saved; of an alteration, the garment is taken in twice, and of a walk-in, the customer added
twice. A garment whose template fails to load on resuming is left off the form and the next
save drops it. A confirmation carries no version: with a second tab what is placed may be
another save's. A reload while an autosave is on its way reopens the older content, and the
next save conflicts. Typing back exactly what was last autosaved while another save is in
flight shows "Saved" with the middle version on the server. A customer taken off the order
stays on the draft's row (`drafts.py:45-46`). The label says "Autosaves every minute", the
interval is five seconds (`App.jsx:8443`, `4122`).

**Client session.** A password change makes reads in flight with the old token 401, and the
check, sent with the token not yet replaced, ends the session of the person who changed it.
Sign out on the change-password screen is not held by `authBusy`, so the change's reply
afterwards stores the new token and opens the workspace. A check begun with an old token
lands after a new sign-in and removes the new token. A stray 401 of `getMe` at page open
signs out. With the network down at page open the sign-in screen stands while the token
stays stored. In the console a 403 on any call drops the token while the signed-in screen
stays up. With two people on one browser a joined read may give one person's response to
the next, which the comment at `api.js:58-62` excludes.

**Screens.** On the screens of `ReloadMayMissASave` the reload after a save joins a read of
the same address sent before it (guardedFetch), or is overtaken by one, and the screen ends
without the save; on those of `LateReplyStays` last week's reply covers this week; on those of
`FormsDismissable` the answer to a dismissed form closes the next one; on those of
`OneBusyRow` the second row worked on turns the first one's button on again. Besides:
`DailyUpdates` reads `d.results` of null when the month is turned before a deletion is
answered; a failed reload of the diary after a successful booking is reported as "could not
book"; the verification checklist and the notes' voice list are saved whole as last shown;
a voice note is followed by a transition that uses the status read before the upload; the
reload of an edited customer puts up whoever is open by then; a photo that fails after the
fields were saved leaves the form half saved; an invoice template's success closes whichever
preview is open; an upload for a garment form uses the notes as they were when it began; the
voice recorder can leave the microphone on.

## Not modelled

- **Concurrent order requests.** OrderWorkflow runs a handler as one step. The handlers take
  no lock on the order, so two stage moves, two handovers or two last parts at once can
  leave `production_status`, Delivered or the step behind; the payment side of the same
  stale save is in PaymentLedger. The hazards list says where it bites.
- **Attendance** (one open session a person), **alterations** (the order rules again on a
  second table), **purchase receipts** (unlocked lines), **order creation and numbering**
  beyond the draft's row, **e-mail jobs**, **portal codes**: on the server. Each is its own
  state apart from what is modelled; their screens are in the tables.
- **Catalogue, customers, scheduling, activities, try-on, design studio, reports, tenants,
  roles**: record keeping, arithmetic or I/O. The role rules that decide a stage move are in
  OrderWorkflow.
- **Words, pictures and layout of the front end**, and two widgets that send nothing until
  the form they are in is sent (the voice recorder, the fabric picker).

`PROJECT.json` lists every part, and under `hazards` every place found where a test would
hardly reach, with the properties that cover it or why none does.
