# Verification of the TodayFix backend

TLA+ models, TLC runs and TLAPS proofs for `todayfix-backend`: a Django / DRF
service on MySQL with which customers book home services, instantly or in a time
slot, and with which providers deliver them.

## 1. Inventory

Every component is a Django app. All state is in MySQL rows; the server processes
keep none. Django sets READ COMMITTED, every statement commits on its own unless
the view or service is `@transaction.atomic`, and the only locks are row locks:
those of `select_for_update()`, and those every UPDATE takes until its
transaction ends. There is no task queue; one management command
(`process_account_deletions`) is meant to be run by cron.

| component | state | operations | talks to | what is hard |
|---|---|---|---|---|
| instant_bookings | booking row (status, deadline, tip, round, provider), one offer row per candidate | create, customer GET, pop-up list, accept, cancel, retry (tip), start, complete, verify | quote service, OTP, chat, notifications | accepts race each other, cancel and the deadline; GETs write without a lock; provider busy check |
| bookings | booking row, its employees | create in a slot, accept, reject, assign / reassign employees, cancel, start, complete, verify | working schedules, OTP, chat, billing | two customers take one slot; transitions are check-then-save without a lock |
| bookings.otp_service | completion codes (hash, attempts, expiry, used) | send, verify | both kinds of booking | retries, expiry, lost attempt counts |
| accounts | users, login / signup / deletion codes, deletion requests | register, log in, codes, request / cancel / process deletion | business deletion, bookings | the deletion command works on rows it read earlier; a user cancels meanwhile |
| business | application, profile, identity, upgrade request, portfolio, employees, schedules | submit, approve, reject, upgrade, delete, switch to user | accounts, services, reviews | approval and submission race; deletion with bookings open |
| fix_coins | wallet (available, reserved, lifetime totals), transactions, rules | credit, debit, reserve, release, redeem, bonus, reverse | payments | balances under concurrency; reversing twice |
| billing | billing record versions, line items, adjustments | create, adjust, finalise | both bookings, payments, invoices | version chain; rounding slabs |
| payments | order, gateway ids | create order, capture, fail | billing, fix_coins, invoices, finance | duplicated gateway callbacks, a step of several failing |
| finance, payouts, reconciliation, invoices | ledger balances, payout requests, invoice numbers | add / settle funds, request payout, number invoices | payments | balances without locks, count-based numbers |
| chat_service, calling_service | conversations, messages, call sessions | open, close, archive, send, call, accept, reject, end, cancel | bookings, notifications | accept / cancel of one call race; broadcast order |
| reviews | one review per booking, its pictures | create, delete, delete a picture | bookings | one-to-one constraint on concurrent creates |
| notifications | notification rows | create, read | everything | best effort |
| services, categories | catalogue, geo search | CRUD, search | business | soft deletes |
| core, common | settings, pagination, e-mail | - | - | - |

What makes each component correct, and the line where each can go wrong, is in
`PROJECT.json` under `hazards`.

## 2. Plan

The most important behaviour first; each module has an MC module with the
instances, its `.cfg` files and, where marked, a proof module.

| step | modules | question | state |
|---|---|---|---|
| 1 | `Dispatch`, `InstantBooking`, `InstantBookingProofs` | who gets an instant booking | checked; all but liveness proved |
| 2 | `ScheduledBooking`, `ScheduledBookingProofs` | who gets a slot, the life of a scheduled booking, its crew | checked, proved |
| 3 | `AccountDeletion`, `AccountDeletionProofs` | requests, cancellation, the cron command, the user's bookings | checked; all but liveness proved |
| 4 | `Payments`, `PaymentsProofs` | versions of a bill, orders, callbacks, reserved coins | checked, proved |
| 5 | `OneTimeCode`, `AccountsProofs` | expiry, attempts and reuse of one-time codes of every purpose | checked, proved |
| 6 | `Registration`, `Profile`, `AddressBook`, `AccountsProofs` | who gets which account, what concurrent saves of a user keep, addresses | checked, proved |
| 7 | `Business`, `Staff`, `Catalogue`, `Storefront`, `BusinessesProofs` | applications, change of type, switching back; employees, schedules, services, portfolio | checked, proved |
| 8 | `Conversations`, `ConversationsProofs` | chat and calls under races | checked, proved |
| 9 | `Ledger`, `MoneyProofs` | balances and payouts | checked, proved |
| 10 | `InstantQuote`, `MoneyProofs` | free now, and for how much | checked against a reference definition, proved |

Composition. `InstantBooking` implements the abstract `Dispatch` (a refinement
mapping, checked as a property and proved). `AccountDeletion` sees the bookings of
the first two modules as rows that open and end; both bookings see their completion
code as a verdict, whose rows are those of `OneTimeCode`, and so does
`Registration` with the code of a phone. `Payments` starts where a booking has been
completed and ends where `Ledger` would begin, if a capture ever committed.
`Catalogue`, `Staff` and `Storefront` see the decisions of `Business` as the
business being an individual's, open or closed.

`MCAccounts`, `MCBusinesses` and `MCPayments` each hold several components that
share no row in these models. A behaviour belongs to one of them, chosen in the
initial state (`part`), so that the state space is the sum and not the product of
theirs; the invariants of a component hold trivially where another one runs. The
theorems are about each component's own specification (`CodesSpec`, `BusinessSpec`,
...), and about `Spec` of the MC module where the property is its `TypeOK`.

Conventions of all modules:

- A request to the server is a *worker* with a job: its step is the database
  statement it executes next, its other fields are what it has read. Code between
  two statements touches no shared state and belongs to the step before it.
- A transaction that locks its rows first (`select_for_update`) keeps its effects in
  one committing action; what it read under the locks is checked by the steps in
  between. Row locks are not variables: a request holds what its step says it
  holds, and others' writes to those rows wait.
- Outside a transaction every statement commits on its own (autocommit), and acts
  on what an earlier statement returned.
- `Crash(w)` is a killed worker, a lost connection or an unexpected exception:
  open transactions vanish, commits stay.
- A history variable records an overlap of two requests (`overlapped`, `crowded`,
  `stale`, `hurried`, `crossed`, `contested`, `rushed`, ...), written where the second
  one begins or saves and read by no guard. Properties except what it names, and
  only that: the overlap breaks the claim in the code, without it the claim holds
  against everything else (crashes, retries, expiry, other users' requests). Where a
  run excludes states, its `Bound` stops at the first state in which a property has
  nothing left to say.
- `CHECK_DEADLOCK FALSE` is set where the bounds let the system stop: numbers of
  rows, clocks and posted amounts run out, and a quote ends with its answer.
  `account_deletion` checks for deadlock.
- A definition whose comment begins with "Fault" is not part of the system. It is a
  plausible bug in the definition after it, kept to show that the properties notice.

## 3. Instant booking (`InstantBooking.tla`, `Dispatch.tla`)

Translates `src/instant_bookings/api/views.py`.

| variable | rows |
|---|---|
| `status`, `assigned`, `deadline`, `tip`, `round` | `InstantBooking.status`, `.assigned_business/employee`, `.search_deadline`, `.tip_amount`, `.offer_round` |
| `offer[b][c]` | `InstantBookingOffer.status` of candidate `c`, `NONE` without a row |
| `code[b]` | the states of the booking's `BookingCompletionOTP` rows: one sent and open, one verified (the attempts and expiry of a code are in `OneTimeCode`) |
| `clock`, `job` | `timezone.now()`, the requests in flight |

| actions | handler |
|---|---|
| `Create`, `CreateWithoutProvider` | `POST` of a booking with its quote and its offers |
| `PollRead` .. `PollSave` | every GET that expires an overdue search (customer and provider) |
| `AcceptLockOffer` .. `AcceptCommit`, `ExpireCommit` | the provider accepts a pop-up; an overdue search is ended instead |
| `CancelLock`, `CancelCommit` | the customer cancels |
| `RetryLock`, `RetryCommit`, `RetryRefuse` | the customer raises the tip |
| `StartRead` .. `StartSave`, `CompleteRead`, `CompleteSend`, `VerifyRead` .. `VerifySave` | the provider starts and completes |
| `DeadlockAbort`, `Crash`, `Tick` | InnoDB's victim, the server, time |

Runs.

- `instant_race`: three requests, one booking, two candidates of two providers, a
  window of three ticks on a clock of four. Two accepting requests and a third of any
  kind are what the hazards need; a fourth request adds interleavings but no new pair
  of conflicting statements, since each conflict is between two statements and needs
  at most one more request to set the row up. The window is long enough for all three
  tip rounds (interval 1). One booking suffices for every property, as no property
  relates two bookings and requests touch one each. It checks the types, the inductive
  invariant `Inv`, that there is one winner, that a closed booking shows no pop-up,
  that an open search can still be accepted, that completion rests on a verified
  code, that an
  assignment is final and a tip only rises, and that the handlers implement
  `Dispatch`.
- `instant_live`: two requests and a window of one tick. Every request ends, and a GET
  after the deadline ends the search.
- `instant_winner_loses` is violated: a GET saves NO_PROVIDER over ASSIGNED. The
  customer sees no provider while the provider has the job.

`Dispatch` states what providers are promised: published once, open to candidates,
won at most once, never reopened. The mapping takes PENDING offers as open and the
ACCEPTED one as the winner, and ignores `status`, whose unlocked saves are exactly
what breaks `WinnerKeepsBooking`.

Fairness. `FairSpec` asks strong fairness of each accepted request's next statement:
gunicorn runs a request to its end, and InnoDB grants a row lock to its waiters in
turn, so a statement enabled again and again is executed. Nobody has to send a
request, and no crash is assumed for liveness. Both liveness properties assume that
Accepts stop arriving (`AcceptsCease`), because each new Accept may make the same
GET the deadlock victim again.

Known to fail, without a run, by the race of `instant_winner_loses` at another handler:
a Start that read ASSIGNED before the customer cancelled saves IN_PROGRESS over
CANCELLED (views.py:1155), though it answers "Only an assigned booking can be started."
(1127); two Starts of one provider may both pass the check that the provider is idle
(1132-1155).

Left out: the write of a deadline to an old booking that has none (views.py:60-69).
Every booking that searches is created with one, and no property reads the deadline of
a booking that does not.

Proved (`InstantBookingProofs`, for any number of bookings, candidates, providers
and requests): `TypeOK`, `OneWinner`, `ClosedShowsNoPopup`, `ServedByWinner`,
`LiveSearchReachable`, `CompletedWithCode`, `AssignmentFinal`, `TipOnlyRises`, that the handlers
implement `Dispatch`, and the invariant these come from. None of the invariants is
inductive: that an Accept may
commit follows from facts it read some statements earlier. `Inv` adds what locks
guarantee (`BookingLockExclusive`, `OfferLockExclusive`: no two requests are at
steps that lock one row) and what each step may rely on (`JobSound`: an Accept about
to commit still has a searching booking and a pending offer; a GET about to save
has no pending offer left), plus two facts about rows never searched. The proof has
a lemma per group of actions, with the pointwise effect of the action stated first.
`LiveSearchReachable` is inductive relative to `Inv`; `CompletedWithCode` needs in
addition that a Verify about to save COMPLETED has verified a code (`CodeSeen`).
`TipOnlyRises` needs that the round stored is never beyond the one that time has
reached (`RoundReached`), so that a retry, which stores the latter, only raises it.

## 4. Scheduled booking (`ScheduledBooking.tla`)

Translates `src/bookings/services.py` and `src/bookings/api/views.py` for one business.

| variable | rows |
|---|---|
| `status`, `primary` | `Booking.status`, `Booking.employee` |
| `crew[b]` | the `BookingEmployee` rows of `b`, by key |
| `job` | the requests, with the providers whose rows they have locked (`held`) |
| `revived` | history: the bookings of an individual that a stale save brought back |

`CreateBegin` .. `CreateInsert` are `create_booking`, one action per row locked,
because the order of locking is the point. `TransitionRead`, `StartCheck`,
`VerifyAccept/Refuse`, `TransitionSave` are the accept, reject, cancel, start and
complete views over `_transition_status`; `AssignLock` .. `AssignInsert` and
`ReassignRead` .. `ReassignSync` the two views that staff a booking.

Runs.

- `scheduled_owner`: three requests, three bookings, an individual business; two of
  the bookings in one slot, the third in a slot that overlaps it. Two customers and
  the owner (or a cancellation) is the smallest case in which a slot is freed, given
  away and claimed back. An owner has two active bookings at one time only when one
  was revived by a transition that had read it before (`ClashOnlyRevived`).
- `scheduled_company`: two requests, two bookings, three employees, two required.
  `create_booking`s wait in a circle only across slots that list the providers in
  different orders (`CycleAcrossOrders`), so never in this instance; a booking never
  has more rows than required or the same employee twice. The constraint `PendingOrCancelled` leaves
  out the later statuses: locks and crews depend on a status only by its being
  active, which PENDING and CANCELLED already tell apart, and all the actions still
  occur (`scheduled_owner` runs the transitions without the constraint).
- `scheduled_no_double_booking` is violated: an acceptance read the booking before
  it was cancelled, and saves CONFIRMED over CANCELLED after the slot has gone to
  another customer.

`create_booking`'s comment says "We additionally lock existing matching booking rows";
the code does not, and the model does not either. It does not need to, as
`ClashOnlyRevived` shows. The check takes the row lock of the provider, not only of the
schedule: Django's FOR UPDATE locks the rows joined by `select_related`. That is what
keeps slots whose windows overlap apart; locking the schedule row alone
(`CreateLockSchedule`) breaks the property.

Known to fail, without a run: `create_booking`s of slots whose schedule rows were
entered in different orders of employees wait for each other in a circle. The rows are
locked by key within a slot (services.py:227-229: "the same deterministic order,
reducing deadlock risk"), the employees' rows with them, and nothing makes the orders
of two slots agree; MySQL then aborts one request, and the customer gets an error.
`CycleAcrossOrders` says that this is the only way. Also: a reassignment saves the row and then
`Booking.employee` (views.py:736-741), so that two of them may leave a primary
employee who is not on the booking; two starts of one provider may both see nothing
in progress (services.py:940); a save may leave a status that does not follow the one
it replaced (783); assignment looks neither at the status nor at other bookings of
the employee. The locks that foreign key checks take are not modelled.

Proved (`ScheduledBookingProofs`, any slots, providers, bookings and requests):
`TypeOK`; `ClashOnlyRevived`, from `Sound`, which says that the rows held by
requests are disjoint, that a request about to insert holds all the rows it checked
and still finds its provider free; `CrewWithinRequired`, from the same invariant
(the business row excludes two assignments at a time, and a reassignment changes no
length); `CycleAcrossOrders`, without an assumption on the keys: in a circle whose
slots all agree, take the request that waits for the last row in their common order;
the one it waits for holds that row and waits for a later one.

## 5. Account deletion (`AccountDeletion.tla`)

Translates `accounts/services/account_deletion.py`, the command
`process_account_deletions`, the views that create and cancel a request, and
`BusinessDeletionService` as far as it decides who may be deleted.

| variable | rows |
|---|---|
| `request`, `grace`, `extension` | `AccountDeletionRequest.status`, ticks until `scheduled_deletion_at`, until `extension_deadline` |
| `deleted` | users anonymised (`is_active` false) |
| `active` | owners whose `BusinessProfile.is_active` is set: not deleted, not switched back to a plain user |
| `booking` | scheduled and instant bookings, as open, completed or cancelled |
| `sweep` | the run of the command: what it read at its start, and where it is |
| `job` | requests of users in flight |
| `unseen` | history: bookings made after the last check of one of their parties or of the business |

Only the distance to a deadline matters, so time is kept as ticks that run down to
zero. Runs of the command are taken not to overlap (cron, once a day).

- `account_deletion`: a customer and a business owner, a scheduled and an instant
  booking between them, one request in flight besides the command, both periods
  one tick, under fairness. Customer and owner are the two roles a booking involves and
  the two branches of the conditions; a request begun before a check of the command and
  saved after it is what the second check is for, and takes one request. No
  account is deleted and no business closed over an open booking that the last check
  could have seen (`DeletedWasClear`). The owner's half needs the switch: the
  command's check passes over a business that is no longer active, so that it is the
  switch's own check (business/api/views.py:4513) that keeps its bookings from being
  left behind. No request stays PENDING for ever, although bookings may open and close
  between the two checks; a request on hold whose bookings stay open ends. A booking
  made between the check and the save of a switch takes a second request, which fairness
  makes too large to run; for that `DeletedWasClear` rests on its proof, for any number
  of requests.
- `account_cleared_hold` is violated: once on hold with its bookings completed, a
  request gets a new extension with every run and is never finalised.

Fairness: cron runs the command for ever and it runs to its end; time passes; the
server answers. Users and providers owe nothing. The command has no crash action:
each of its steps commits alone and its next run reads everything anew, so a killed
run equals one whose remaining requests are left for the next.

Proved (`AccountDeletionProofs`, any users, bookings, periods and requests):
`TypeOK` and `DeletedWasClear`. The invariant (`Clearances`) adds that an account
about to be deleted is as clear as a deleted one (`CommitSound`), and a business about
to be given up as clear as one given up (`SwitchSound`). The second check of
`finalize_deletion` establishes the one, the check of the switch the other; what opens
afterwards is in `unseen` by definition, and nothing else makes a booking that was
closed block again. The first
check, at the start of the command, is not needed for safety.

Known to fail, without a run: the command writes COMPLETED or ON_HOLD over a request
the user has cancelled since it was read (account_deletion.py:178, 301), and a user
who cancels and asks again is deleted on the first deadline. By the code a
cancelled or rejected booking of a customer blocks deletion for ever (line 57); the
test plan says so too ("current implementation requires COMPLETED").

## 6. Payments (`Payments.tla`)

Translates `billing/services.py` and `views.py`, `payments/services.py` and the
webhook, and the part of `fix_coins/services.py` they reach.

| variable | rows |
|---|---|
| `bill` | `BillingRecord`: status, booking, the first version it comes from, charges, whether coins are redeemed |
| `order` | `PaymentOrder`: status, bill, the user who asked for it |
| `available`, `reserved`, `granted` | the `FixCoinWallet` of each user, and who has had the signup bonus |
| `captured`, `notified` | what the gateway has taken, and what the webhook has answered |
| `payJob` | requests in flight |
| `late`, `doubled` | history: bills of which an adjusted version was finalised again; bookings and bills for which two first bills, or orders, were asked for at a time |

`DraftCheck` .. `DraftMerge` are `create_draft`, `ConfirmRead/Save` is `confirm`,
`AdjustLock/Commit` is `adjust`, `OrderRead/Commit` is `create_order`. The callbacks
lock the rows they decide on and are one step each. Charges are one number, a
redemption one unit.

- `payments`: two requests, three bills of one booking, two orders, a customer and an
  administrator. Three bills are the original and the two versions that two
  adjustments would make; two orders are needed for one to release the coins of the
  other. Drafts of a second booking would meet nothing of the first but the wallet,
  and the two orders already share one. A capture changes nothing others
  read, so the constraint `CaptureWhenQuiet` explores captures between requests; once
  two first bills or two orders were asked for at a time, `DoubledIsSmall` stops
  before the third bill. It checks that reserved coins are those of open orders and
  none are made or lost (`CoinsAccounted`), that what is final stays as it is
  (`FinalizedFrozen`), and what can be paid of a booking (`OnePayable`: one bill, one
  version, and one open order for that version), and it runs `Ledger` and `InstantQuote` (section 9).
- `payments_captured` is violated: `process_successful_payment` always raises in the
  invoice step. The transaction is rolled back and the webhook says ok, so no order
  is ever PAID, and no bill.

Excepted by `OnePayable`, because the code lets it happen: orders of versions that were
adjusted since; and, through history variables, two first drafts of a booking
(billing/services.py:273) and two open orders of a version (payments/services.py:38), each check-then-insert without a lock
(`doubled`; the conditional unique constraints of the models do not exist in
MySQL); a late confirm over an adjustment (billing/services.py:312), which leaves two
versions that can be paid (`late`). An administrator who pays a customer's bill
reserves his own coins.

Known to fail, without a run: that a booking has one open order. One request after
another is enough: order, adjust, order. `adjust_billing` does not look at orders and
`create_payment_order` only at those of the same version (payments/services.py:38), so
the order of the version that was adjusted stays open beside that of the new one, and
the customer can pay both; FINANCE_ARCHITECTURE.md:49 says that payment creations "use
idempotency keys or unique constraint checks to prevent double processing".

Proved (`PaymentsProofs`, any bookings, bills, orders, payers and requests): the
types, `OnePayable`, `CoinsAccounted` and `FinalizedFrozen`. The row locks of
drafting and adjusting come first (`Exclusive`: one request at a time holds a bill).
From them a bill only advances (`Advances`): once there it keeps its root, once final
its amounts; and a draft has no later version. The coins an order reserved are then
those it will release, since its bill is final: a wallet is the sum over its open
orders, by adding or removing one order in each step. `OnePayable` adds who may be
inserting or ordering at a time (`Single`); that the bill of an open order is final
carries it over to all orders of a booking (`OrdersOfBooking`).

## 7. Accounts, chat and calls (`OneTimeCode`, `Registration`, `Profile`, `AddressBook`, `Conversations`)

Nothing here is locked, and few requests are transactions; the modules are about
what is read in one statement and saved in another.

`OneTimeCode` translates `accounts/services/otp_service.py`, the code handling of
the views that delete an account or switch a business back, and
`bookings/otp_service.py`. One module, as they share the design and differ in
details that matter: whose codes a new one uses up (`KilledBy`: for a login,
whatever was sent to the user), whether a wrong answer saves `is_used` together with
the attempts (`SavedUsed`), whether the attempts are tested on reading (`Exhausted`),
and whether anything is used up before sending (not for a completion).

| variable | rows |
|---|---|
| `code`, `made` | `OTPVerification`, `SignupOTPVerification`, `BookingCompletionOTP`, in the order of creation; age instead of times |
| `codeJob` | `SendKill`, `SendInsert`; `VerifyRead`, then `VerifySpend`, `VerifyMiss`, `VerifyMissUsed` or `VerifyHit` |
| `missed`, `accepted` | history: what was answered |

`GuessLimit`: a code takes at most MaxAttempts wrong answers and one right one.
`OneUsable`: a subject has one code that can be answered. Both except overlaps of two
requests on one code or subject.

`Registration` translates `register_user`, `verify_email_registration` and
`verify_phone_registration` (`accounts/services_legacy.py`) and Google's callback.
`RegisterRead`, `RegisterStore`, `RegisterCode` keep a form; `VerifyEmail`,
`VerifyPhone`, `ConfirmPhone`, `Insert`, `Drop` make an account of it. Tokens are the
forms they were drawn for. `ConfirmedAsSubmitted`: who confirms gets the account of
the form he submitted. It excepts phones with forms of several people in play
(`mixed`), since a code is sent to a phone, and the newest form of the phone, not
that of the code, becomes the account.

`Profile` translates what else writes a `CustomUser`: profile updates and logouts,
which save every column of the row read at authentication, the link for a new e-mail
address, the code for a new phone, password resets. `ResetHolds`: a reset password
and the end of sessions stand, unless a request that saves the whole row had read it
before (`stale`). `ContactsProven`: no address or phone without its holder's answer.

`AddressBook` translates the address views and `AddressSerializer`: at most
MaxPlaces addresses and one default (`AddressesInOrder`), except where two requests
that store an address overlap.

`Conversations` translates `chat_service` and `calling_service`: each save, then
`Tell` (the group send), with `TalkAbort` in between. `ConversationsInOrder`: a call
is of one piece whatever races; where requests did not overlap, clients hear of one of
acceptance, rejection and cancellation, of an end after an acceptance, and at last of
what is stored; a message they heard deleted is deleted. Two requests on one call
break it (`crossed`): an answered call is cancelled, both are told. An edit that read
a message before its deletion brings it back (chat_service/views.py:218), the same
exception. The code lets messages be sent to a closed conversation, and so does the
model.

The run `accounts` gives each of them two requests in flight: every hazard here is a
statement of one request between two of another. Two codes for subjects of one kind
each, with a login and a deletion of the same user because a login uses up the other's
code; two attempts, so that a lost count matters; four forms, two with one phone, two
with one address; a user with one address and two phones, a clock of two seconds
(tokens have the resolution of a second); three addresses and a limit of two, so that
the limit is reached and a row left over; a call and a message. `AgeWhenQuiet` ages
codes only while a worker is idle: a code's age is read in one statement and never
again, so ageing commutes with the others' statements.

Proved (`AccountsProofs`, `ConversationsProofs`; any number of codes, forms, users,
addresses, calls, messages and requests): all of the properties above, and the types.

- `GuessLimit`: nobody else checking a code, the attempts a request read are those
  stored and all the wrong answers so far; columns saved together stay together.
- `OneUsable`: codes grow old in the order they were sent (`AgesInOrder`), and while
  one request at a time sends to a subject, none can be answered from the moment it
  has used up the old ones until it stores its own (`SentAlone`). The code of a
  completion, before which nothing is used up, needs the order: it is sent when the
  newest one has expired, and then the older ones have.
- `ConfirmedAsSubmitted`: of a phone that is not `mixed` one form at a time is stored,
  waiting with a code or being confirmed (`OneInPlay`), so the row found with the code
  is that of the form the code was sent for.
- `ResetHolds`, `ContactsProven`: what a request read of the contacts of its user, or
  is about to save, was confirmed before (`OwnerJobInOrder`), and what was confirmed
  stays so; an open link names its user and address.
- `AddressesInOrder`: while the only request of a user runs, there is room for the
  address it will insert or bring back, and no default but the one it will save; only
  requests of its user work on an address.
- `ConversationsInOrder`: the row a lone request read is the row stored, and who saved
  has told or was killed before the next one begins.
- `TypeOK` of `MCAccounts`: each component keeps its own invariant in its own steps
  and, sharing no variable, in those of the others.

## 8. Businesses (`Business`, `Staff`, `Catalogue`, `Storefront`)

`Business` translates `BusinessApplicationService`, `BusinessUpgradeService`,
`BusinessDeletionService` and `BusinessSwitchToUserService` and the two ways to save a
profile.

| variable | rows |
|---|---|
| `trader` | `CustomUser.role`, `.has_business`, `.business_verified` |
| `application` | `BusinessApplication` with its `BusinessIdentity`: status, documents, order of approvals |
| `business`, `upgrade` | `BusinessProfile`, `BusinessUpgradeRequest` |

`ApplyEnter`, `ApplyCheck`, `ApplyCommit`; `ApproveRead`, `ApproveCheck`,
`ApproveCommit`; `RejectRead`, `RejectCommit`; `UpgradeEnter` .. `UpgradePapers` (two
statements, so that a request may be decided before its documents are there);
`ChangeRead`, `ChangeCheck`, `ChangeCommit`, `RefuseCommit`; `SwitchCheck`,
`SwitchCommit`; `OwnerSave`, `AdminSave`. Documents are two groups: what an
individual needs, and what a company needs besides. `BusinessApproved`: role,
verification and the documents of the last approved application agree.
`CompaniesDocumented`: a company has the documents of a company, however it became
one. Each names the histories that break it.

`Staff` (`EmployeeCreate` .. `EmployeeDelete`, `ScheduleCheck`, `ScheduleInsert`,
`ApplyRead`, `ApplyLook`, `ApplyFill`, `ScheduleRead`, `ScheduleSave`,
`ScheduleDelete`) says that a provider has one active schedule for a slot
(`OneSchedule`). A slot is a day and its times. The schedules are those of one business:
what an owner's earlier business left active when it was closed
(business/services.py:1003) is not there. `Catalogue` (`CreateRead`,
`CreateStore`, `PatchRead`, `PatchSave`, `Deactivate`, `Assign`, `Unassign`,
`PatchCategory`, and what `ChangeType` and `Close` do to services) says that a service
is filed consistently, fits the type of its business and is inactive once that is
closed (`ServicesInOrder`). An owner's PATCH is validated against the business he has
now, an admin's against the service's own (serializers.py:373-396, 524-537):
`elsewhere` is the owner's other business, and what it lets him do to the services of
an individual's business is in `borrowed`. `Storefront` (portfolio, gallery, questions, reviews and
`CloseShop`) says that the gallery keeps its limit and a closed business no active
portfolio (`StorefrontInOrder`).

The run `businesses`: two requests; one user, two applications, profiles and requests
for another type, of which four rows in all occur (two applications and two profiles,
or two requests, are what switching back and coming again takes); an owner and an
employee, two slots and three schedules; a service, two categories and a
subcategory; three pictures and a limit of two; a booking to be reviewed. More users
would share no row.

Known to fail, without a run: that an individual's services need one person
(serializers.py:388-389: "Required employees are not available for Individual
businesses."). An owner gives up his individual's business, comes back with a company,
and sets several persons on a service of the old one, where they stay when an
administrator opens it again. `ServicesInOrder` excepts these services (`borrowed`).

Of the races its hazards name the run excepts those that break the claim (two requests
about one application, one requester's schedules, one service saved whole over the end
of its business, one gallery); what is checked and proved is what remains: any
sequence of requests, given up half-way or not, and the races between different
requesters, schedules and services.

Proved (`BusinessesProofs`; any users, applications, employees, services, pictures
and requests; `Picture` is assumed finite, as a limit on it means nothing otherwise):
all five properties and the types.

- `BusinessApproved`: a request goes on with the user its row belongs to (`JobLinked`,
  `RowsLinked`). Of a user whose core requests (applying, deciding, switching) do not
  overlap there is one at a time; then what it found out is still so when it writes,
  at most one application is to be decided, none while he is a BUSINESS, and the next
  approval will be the last (`Settled`), so that its documents are the current ones.
- `CompaniesDocumented` adds, for a user who never switched back, that nothing is there
  before the first approval (`Fresh`), and that the documents there are, with those a
  request for another type brings or has stored, are complete (`Documented`). Each
  history it excepts removes one of these facts.
- `OneSchedule`: of a provider whose requests did not overlap, the slots a request
  found free are free when it inserts, and what it saves is the only schedule of its
  slot (`StaffJobClear`, `StaffJobOwn`).
- `ServicesInOrder`: a row about to be saved is in order already, or recorded as changed
  in between. `StorefrontInOrder`: the only update under way has counted what it adds
  (`UploadsCounted`).

## 9. Ledger and quote (`Ledger`, `InstantQuote`), in the run `payments`

`Ledger` translates `finance/services.py` and `payouts/services.py`: `PostRead`,
`PostSave` (add_pending_funds), `ReleaseRead`, `ReleaseSave`, `PayoutRead`,
`PayoutLock`, `PayoutSettle`. `AccountsBalanced`: balances are never negative and make
up what was earned and not withdrawn, whatever races; what was earned is what was
posted, except for accounts saved as they were before another save (`mixed`). As the
code stands a payout always fails: the debit is posted as a negative amount, which
raises and rolls everything back. Two first postings may create two accounts of one
holder, after which `get()` fails for it forever (finance/services.py:11, 19). Posting
is reached only from `process_successful_payment`, which never commits (section 6),
and releasing only from tests; the functions are modelled as they stand. Two requests,
a holder, two accounts, four units posted: a lost update needs two saves, and 70 % of
four is the first eligible amount that is less than the balance by more than one.

`MoneyProofs` proves `AccountsBalanced` for any holders, accounts and requests.
A request saves the row it read, so the invariant says of rows in flight what it
says of stored ones; a release keeps the pending balance it compared.

`InstantQuote` is the pure part of `instant_bookings/services.py` and
`billing/calculators.py`: a behaviour is a question and its answer. The run enumerates
every day of four ticks with up to three slots (`MaxSlots`) and two bookings
(`MaxBookings`: one at the service and one at a later slot), and up to two candidates
and two slabs (`MaxSlabs`: neighbours, or with a gap), with amounts up to three. That slabs do not overlap is how the rules list them; nothing
in the code keeps an administrator from storing others, of which the one that begins
last is taken. `QuotesInOrder` compares with reference
definitions: a provider found free has the time (`HasTime`), the price lies among the
candidates', wherever the comment describes a slab (`Documented`) that one applies. A
service that would end after midnight is excepted: its end is reduced to a time of the
day (instant_bookings/services.py:781) and so compared with slots of the morning. An
amount at which one slab ends and the next begins has two, and the later one is taken;
the documented slabs 0-499 and 500-999 have none for 499.50, for which the quote
fails.

Code and rules disagree about the amount the fee is taken from. `get_quote` takes the
average price alone (instant_bookings/services.py:405), FINANCE_BUSINESS_RULES.md:6 has
"the base service amount (Service + Extended Service + Materials + Travel)", so a quote
with a charge for the way has a lower fee, and maybe another slab, than the rules ask for.
`QuotesInOrder` says of both amounts which slab applies, and that the fee is of one of
them; it does not say that it is of the right one.

`MoneyProofs` proves `QuotesInOrder` for a day of any length and any number of slots,
bookings, candidates and slabs, and any prices. The two recursive functions, the last slot and the sum,
are shown to exist and to have the property needed by induction over a set of numbers
(`AllNumbers`, from the least element of its complement): the last slot is reached
through free slots (`LastSlotReached`), and a sum lies between what its least and its
greatest term would add up to (`SumBounds`), which rounding half up keeps
(`HalfUpBounds`). Of two slabs one ends before the other begins, so that a documented
one is the one that applies (`DocumentedApplies`). `TypeOK` of `MCPayments` follows
from this and the invariants of `Payments` and `Ledger`.

## 10. What is proved and what is not

Every theorem holds for all values of the constants allowed by the named
assumptions, which TLC evaluates in the runs. Proved: every invariant and every
action property that a run checks and finds true, and that `InstantBooking` implements
`Dispatch`; sections 3 to 9 say along which inductive invariant. Each of these
invariants held as an invariant of the runs before it was proved.

Only model-checked: all liveness (`RequestsEnd`, `PollEndsSearch`, `PendingSettles`,
`BlockedHoldEnds`), as liveness under fairness and ENABLED are out of the prover's
reach. The library's induction theorems have an operator as a parameter and cannot be
cited, so that what a recursive definition computes is proved only where, as in
`InstantQuote`, an induction over a set of numbers does.

A theorem does not say more than its model: the bounds of a model on how many rows are
ever created (`MaxCode`, `MaxApplication`, `MaxSchedule`, ...) are constants, and what
is proved holds for every value of them.

Fairness is stated where liveness is checked, in `InstantBooking` (section 3) and
`AccountDeletion` (section 5); nothing else promises that something happens.

## 11. What is not modelled

E-mails, push notifications and logs, which nothing reads back to
decide; serializers and field validation, but for the checks that guard a change of
state; tokens, passwords and the digits of a code; bank details, pictures and
preferences of users; lists, search and its geographic formula; averages of reviews;
add-ons, units and types of services; the admin site; migrations; the numbering of
invoices, as none is ever written; credit, debit and reversal of coins, which no request
reaches; reconciliation, which is a table only; `retry_services.py` of the instant
bookings, which nothing calls. `PROJECT.json` says so per component.

What would come next: the composition of `Registration` with `OneTimeCode`, so that
the code of a phone is entered statement by statement, and abstract specifications of
the other components, as `Dispatch` is of the instant booking.
