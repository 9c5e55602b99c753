# CalendAI: models, checks and proofs

CalendAI is a calendar assistant: a language model with calendar tools, behind a
web chat, that keeps what it learns about its user in SQLite. This directory
specifies the parts of `src/src/calendai` whose correctness depends on order,
failure and concurrency. TLC checks the modules on small instances; TLAPS proves
the main results for every value of the constants. File paths below are relative
to `src/src/calendai` unless they start with `docs/` or `tests/`.

## The system

| Component | State it keeps | Operations | What makes it correct |
|---|---|---|---|
| Confirmation gate (`agent/tools.py`, `db/store.py`) | table `pending_confirmations`; `_armed` of the gate of the running turn | `new_turn`, `validate`, `request`; `add_/take_pending_confirmations` | a destructive call only with the owner's consent for exactly this call, in the very next turn and in time; one call per consent |
| Web application (`web/app.py`) | one `threading.Lock`, one store and one SQLite connection for all threads; sessions | chat, login, OAuth callback, logout, reads | turns do not overlap; every request is served; a user has one row, and nothing of another's account |
| Agent loop (`agent/loop.py`) | messages of the turn, history and trace in the store | `run_turn`: model call, tools, guard, finally clause | the turn ends; what the user is told is true; history and traces are well formed |
| Toolbox (`agent/tools.py`) | `mutations_this_turn`, `last_retries` | the eight tools, `_call_provider` with its retries | a call is applied once; nothing unmade is claimed |
| Store (`db/store.py`, `db/schema.sql`) | users, sessions, facts, messages, confirmations, traces, OAuth tokens | short statements, one transaction in `upsert_fact` | a fact is never lost; supersession is a chain; what is acknowledged is stored |
| Rule engine (`memory/enforcement.py`) | none: reads the active rules each time | `check` and its four checkers | never under-blocks; a veto has a reason |
| Fact validation, extraction (`memory/validation.py`, `episodic.py`) | none | `validate_fact`; extraction after a turn | malformed canonical rules are never stored; a fact is not saved again without a change |
| Fake calendar (`providers/fake.py`) | a dictionary of events per address | create, update, delete, free/busy, injected failures | the copies of an event agree and are where the invited are; a time offered is free |
| Google calendar (`providers/google.py`) | access token; the calendar is outside | requests, 401 refresh, status mapping | an error is what the status says; requests are bounded; the merged interval is valid |
| OAuth tokens (`auth/`) | encrypted token row per user | authorize, callback, refresh | the newest grant survives; a token is used for the account that gave it |
| Traces (`traces/emitter.py`) | requests and spans in the store | begin, span, end | every finished turn has a closed trace |
| Evaluation harness (`evals/`) | a workdir, a fake calendar and replies per run | play a scenario, drain, score | a pass is earned; runs and sessions are separate |
| CLI (`cli.py`), SPA (`web/static`) | terminal, browser | drivers of the same loop | not part of the service |

How they interact. A chat request takes `ctx.lock`, builds a new loop with a new
toolbox and a new gate around the shared store and runs one turn. `new_turn`
takes the user's stored confirmations and arms those the message confirms. The
model answers with text or tool calls; a write asks the rule engine first,
destructive ones also the gate, and goes to the provider with up to three
attempts. Only after the provider returned does the toolbox record the mutation
that the final message is built from. Logins, logout and the callback use the
same SQLite connection *without* the lock. On the Google provider each attempt
is one or more requests, each of which reads the token row, may refresh it and
may be sent a second time after a 401. The evaluation harness runs the same loop
on a fake calendar and judges the store and the calendar that are left.

What is hard here: a confirmation lives across requests, users and restarts; the
connection has one transaction, shared by all threads; a provider request may
change the calendar and still fail, and is retried; the lock is held over model
calls and sleeps; dates and windows are computed in local time around clock
changes; and the calendar belongs to its user, who edits it elsewhere meanwhile.
`PROJECT.json` lists these hazards, each with its line and the properties that
watch it.

## Modules

| Module | Models | Role |
|---|---|---|
| `Consent` | what a confirmation promises | abstract; implemented by `ConfirmationGate` |
| `ConfirmationGate` | chat queue, lock, turns, gate, table, clock, crashes | core |
| `AgentTurn` | `run_turn`, tool calls, retries, ambiguous failures, history, traces | component; its attempts are implemented by `GoogleCalls` |
| `FactStore` | turns that save and extract facts, `upsert_fact` statement by statement, unlocked writes of web requests, crashes | component |
| `WebLogin` | OAuth and development logins, sessions, logout, revocation, restarts, and the open transaction they share | component |
| `GoogleCalls` | chats whose tool calls go through toolbox, provider and token manager | composes `WebLogin` with the request layers |
| `SharedEvents` | what an invitation promises | abstract; implemented by `FakeCalendar` |
| `FakeCalendar` | the copies of an event on several calendars | component |
| `FreeBusy` | busy periods, their merging, the free times offered | operators over the state of `FakeCalendar` |
| `LocalTime` | a zone with one clock change, as `zoneinfo` (PEP 495) has it | operators |
| `RuleEngine` | the four checkers, and what the rules mean | operators |
| `RuleGuard` | rule check, merged interval and write of a tool call, with a calendar that others edit | composes `RuleEngine` with the toolbox and the provider |
| `EvalRun` | runs, sessions, injected failures and scoring of a scenario | component |
| `MC*` | values of the constants for TLC | |
| `*Proofs` | theorems | |

Operators introduced by "Fault:" are not part of the models: each is a plausible
bug in one definition, and the property paired with it in `PROJECT.json` fails
when the definition is replaced by it.

### ConfirmationGate

`Post` is a chat request (the client does not wait for the previous reply);
`queue` is the unfair wait for `ctx.lock`. `StartTurn` takes the lock and does
all of `Toolbox.new_turn`: the DELETE of all the user's rows, the TTL filter, the
consent check. `Validate` is `gate.validate` with its single-use pop,
`RequestToken` is `gate.request` with its INSERT, `PerformCall`/`RefuseCall` the
call that follows. `Reply` and `Raise` end the turn and drop the gate. `Crash`
loses everything that is not in the table. The model may call any tool with any
arguments and any token, in any number: nothing is assumed of it.

A message is a record of what `user_confirms` looks at: whether it is a question,
declines, is too long, leads with an affirmative, and which classes of words it
holds (base vocabulary, echoes of an action, foreign). The turn number of an
entry, `seen`, `posted` and `performed` are history.

### FactStore

`db` is the file, `tx` what the one connection sees. `StartTurn` and `EndTurn`
take and release the lock. In a turn, `SaveProfileFact` stores what passed
`validate_fact`; after the reply `Extract` reads the active facts once and
`Candidate` goes through the facts the utility model named, skipping keys seen
before and what is known with this value and this type. A fact is `typed` if its
type is the one its key's prefix asks for; a file may hold others from before
(`LegacyFact`), which an extraction repairs by saving them again. Both run
`Select`, `Deactivate`, `Insert`, `Link` and `Commit`, the statements of
`upsert_fact` in order. `Fail` is a statement that raises, with the rollback of
`with self._conn`. `Execute` and `CommitWrite` are the two halves of every write
that web requests make without the lock: `upsert_user`, `save_oauth_token`,
`create_session`, `delete_session`; here a row only says which of its writes it
shows. A commit of any thread commits `tx`, a rollback of any thread discards
it. Two histories name what goes wrong with that: `split` (such a write was
committed inside an upsert) and `dropped` (it was rolled back by somebody else's
failing statement between its two halves).

### AgentTurn

`ModelStops`, `ModelCallsTools`, `ModelFails` and `Bail` are the outcomes of one
iteration. `LocalTool` is a tool call that needs no provider, `CallProvider`
starts one that does; `AttemptSucceeds`, `AttemptFailsRetryably` and
`AttemptFails` are one attempt of `_call_provider`, with `LandsUnseen` the write
that landed although the request failed. `CurrentEventRead` is the read inside
`update_event`. `SaveReply` and `CloseTrace` are the finally clause; `lost` has the
turns the process died in, and where in that clause they were. `applied`
and `landed` record what really happened to the calendar, which the code cannot
see.

### FakeCalendar

`CreateEvent` writes the organizer's copy and the mirrors; `UpdateEvent` merges
the patch into every copy and reconciles the mirrors with a new attendee list;
`DeleteEvent` removes all copies. An event carries times and attendees, which
stand for the fields that are copied with them; it starts before it ends.

`FreeBusy` has no state of its own: `Busy` is `freebusy` of one calendar, clipped
to the window and merged, `FindFreeSlots` the cursor of `find_free_slots` over the
merged periods of all participants, cut to the first `MaxOffers` (`free[:5]`). Both
loops are folds: `MergeSlots` over the
slots, the one that starts last (`Latest`) merged last, which is the loop over the
slots sorted by start in any order of equal ones. The result is compared in every
state of `FakeCalendar` with `Gaps`, the longest stretches in which nobody is at an
event: what is offered are the first of them, and all unless there are more.

### LocalTime, RuleEngine and RuleGuard

A wall-clock time is an integer; `Timestamp` reads it with fold 0 or 1 exactly as
zoneinfo does, including in skipped hours. `OverlapsDailyWindow` and
`TouchesWeekday` are the two loops over days, `Vetoes` the four checkers;
`Violates` states what a rule means, instant by instant, without windows or
dates. `RuleGuard` runs `create_event` and `update_event` around them: the read
of the event, the check of the merged interval, the second read that validates a
patch of one end, the write with its retries and lost responses, and
`MoveOutside`, an edit by someone else at any moment. Its calendar holds one
event; a confirmation has already been spent when `UpdateCall` starts.

### WebLogin and GoogleCalls

In `WebLogin` a request is a callback or a development login and has local
variables of its own. `Exchange` and `UserInfo` are its requests to Google,
`Lookup` reads the user, and its three writes take two steps each, the statement
and the commit: `Insert`/`UserInserted`, `SaveGrant`/`GrantSaved`,
`NewSession`/`SessionOpened`; so does the logout, `Logout`/`LoggedOut`. Any of
these may interleave with those of another request. What the connection sees
(`users`, `session`, `tokens`, `newest`) may be ahead of `disk`: `Commit` of any
request puts all of it there, `UpsertFails` is the rollback that a failing
`upsert_fact` of a turn does to all of it, `TurnCommits` any commit of a turn,
`Restart` goes back to `disk`. `grant` is what Google knows: a code used once,
alive, revoked. `Login` picks any account, so one browser may come back with two
of them, in any order and repeatedly; the cookie decides which callback goes on.
User rows are named by the request that inserted them. `Restart` also allows the
other provider, under which the development login exists.

`newest` is a history: the grant a callback saved last for a user, and its fate:
`kept`, `raced` if it was saved between the read of a refresh and its write, or
`undone` if it was rolled back before its commit. `returned` has the logouts whose
DELETE was rolled back in the same way.

`GoogleCalls` follows one chat at a time: `Chat` checks the session, `StartTurn`
has the lock and does not read the session again. Chats in front of it are a part
of its wait, since no turn reads a session; what their turns do to the open
transaction is `OtherTurn`. `GetToken` is `get_access_token`, `Refresh` the token
endpoint, `SaveRefreshed` the save of its answer, which is one step because no
other turn can roll back while it has the lock. A request ends as
`TransportFails`, `Unauthorized`, `Refused` (with the mapping of statuses to
errors), `BodyRefused` or `Answered`; a read has one or more pages, an update of
one end reads first. `AttemptEnds` is the except clause of `_call_provider`. The
callback's `SaveGrant` may fall between any two of these. Through `Attempts`, an
INSTANCE of `AgentTurn`, each of these steps is a step of one attempt of the turn,
or changes nothing there.

### EvalRun

`Setup` is `_setup_world` with a new workdir and calendar; in a scenario that is not
`sound` (an injected failure of an unknown action, a seed that is refused) it is
`SetupFails`, which leaves a part of that world behind. `OpenSession` and
`CloseSession` a session with its reopened store, `StartTurn` to `Reply` a turn of
an unconstrained agent. `Call` is one tool call; listing uses up injected
failures as the retries of the toolbox do. `Score` lists the events through
`_safe_list_events`, evaluates every scorer and decides the verdict; `SetupFails`,
`AgentRaises` and the failing branch of `Score` are the three error results,
`Cleanup` the finally clause. Needles and criteria are sets of what they accept.

## Runs

| Run | Result | What it shows |
|---|---|---|
| `GateSafety` | passes | consent, single use, expiry, no self-confirmation, isolation of users; implements `Consent` |
| `GateLiveness` | passes | every request leaves the queue |
| `GateOrder` | violated | a message sent before the question was asked can confirm it |
| `FactStoreWeb` | passes | supersession well formed; the upsert is atomic unless a write without the lock commits inside it; the extractor saves over a fact only for another value or to repair its type; what was reported or answered is stored unless `dropped` |
| `FactAtomicity` | violated | with such a commit inside, a failing upsert leaves no active fact |
| `AgentTurn` | passes | claims are true; silence is honest unless a failure was ambiguous; history, traces, termination |
| `InvalidArguments` | violated | an inverted interval escapes as an exception |
| `GoogleCalls` | passes | one user per email; requests act for the account of their user; the newest grant is stored, and logouts are final, unless the transaction they share is rolled back or a callback races a refresh; re-authentication is asked for with cause; requests are bounded and sent before expiry; implements the attempts of `AgentTurn` |
| `FakeCalendar` | passes | copies agree; deletion is final; the times offered are the first of the free ones; implements `SharedEvents` |
| `RuleGuard` | passes | no write breaks an active rule outside two named gaps; vetoes have reasons |
| `EvalRun` | passes | a pass is earned; sessions share no conversation, runs nothing; leftover failures do not break the scoring; every run has a result, also one whose setup raises |
| `RepeatedMidnight` | violated | an event that ends at the second of two midnights escapes `no_meetings_on` |

`GateInvariant` is one property with named parts: the types, that rows are of the
user's latest turn (`RowsOfLatestTurn`), that what a turn may spend was issued to
its user by the turn before (so the model cannot confirm to itself,
`NoSelfConfirmation`), that calls are made as they were issued and that a token is
in one stage only. `TurnInvariant`, `FactInvariant`, `CalendarInvariant`,
`GuardInvariant`, `CallInvariant` and `EvalInvariant` likewise. They are the
inductive invariants of the proofs below.

Some properties name an exception. It is a fact about the code, not a bound of the
model: `split` and `dropped` in `FactStore`, `ambiguous` in `AgentTurn`, the fates
`raced` and `undone` and the other cases of `ReauthIsNeeded` in `GoogleCalls`,
`returned` in `WebLogin`, `moved` and the repeated midnight
in `RuleGuard`, a queue longer than the drain in `EvalRun`. Without the exception
TLC refutes each of them.

### Bounds

* `ConfirmationGate`: two users and two tokens show cross-user effects, two
  offers at once and a token used for the other's arguments; three requests
  suffice for offer, unrelated message and late "yes"; `TTL = 1` with
  `MaxTime = 2` has a moment before, at and after the expiry. `GateLiveness`
  has no symmetry and smaller sets, but three requests still compete for the lock.
* `FactStore`: two threads, two keys with two values, three rows and extractions of
  up to two facts: a chain of superseded rows for one key, or a key next to
  another. `MaxLegacy = 1` fact may be there from before, of its key's type or
  not. One row is written without the lock, twice (`MaxWrites = 2`): the second
  write, a logout after its login or a new grant after an old one, meets an
  upsert while the first is committed, dropped or lost. Turns are not bounded.
* `GoogleCalls`: two accounts, two logins and two requests, which may be callbacks
  of one login or of two, in one browser; a session life of one, a token life of
  two, a skew of one and a clock of three have instants before, at and after each
  boundary; the code's three attempts, all five kinds of calls and two pages. The
  full product is too large, so a state is explored further only in one of three
  parts (`Bounds`). With both logins the turn makes the first attempt of a read:
  of any two accounts at instant zero, where a 401 leads to the refresh; of one
  account until instant one, where sessions expire and tokens are due for it.
  What a login and a turn can do to each other goes through the rows of the user
  and the token at hand, which a retry, a further page or a write read anew in
  the same way. With one login and one request, every call, retry and page
  occurs, until tokens have expired. The three names are symmetric.
* `EvalRun`: two users, one kind of event, one fact with two values, two replies;
  a scenario that must find nothing with none, as many and one more failures than
  are drained; a fact recalled in a second session; a scenario with no checks; one
  whose setup raises after any part of its facts, events and failures.
* `AgentTurn`: `MaxIterations = 2` instead of 12 reaches the guard after a tool
  round, and nothing in the loop depends on the number; `MaxAttempts = 3` is the
  code's; two calls per response mix a success with a failure; two turns show
  what one leaves to the next.
* `FakeCalendar`: three calendars are an organizer, an attendee who stays and
  one who is added or removed; two events show that ids are not given out twice,
  and within four instants they nest, overlap, touch and lie apart. A window of four
  instants has at most two gaps, so `MaxOffers = 1`, not the code's five, is the
  number at which some are left out; the theorem is for any number.
* `RuleGuard`: days of six units, a clock change of two units, cutoffs in the
  middle of the repeated and skipped hours; the three zones repeat the hours
  after midnight, repeat those before it, and skip those after it. Ten instants
  cover the day before, the change and the day after. `MaxWindowDays` is three
  and not 370: all that matters is that it is no less than a week, which is the
  assumption.

Deadlock checking is off where a bound stops the system (each `.cfg` says which);
`RuleGuard` runs with it on.

### Fairness

`GateLiveness` uses `FairSpec`: a free lock is taken by *some* waiting request (a
`threading.Lock` promises no more), a call under way returns, and a turn ends. The
last two hold because a turn has at most twelve model calls, each with a timeout
in its client, finitely many tool calls and at most three attempts with a sleep.
`AgentTurn` shows that part of the argument: with `WF(Next /\ pc # "idle")` — a
running turn takes its next step — every turn ends; and `CallsShrink` shows that
the refreshes, resends and pages inside an attempt come to an end. Nothing else
is assumed fair; in particular no particular request is promised the lock, and
`EveryRequestLeaves` holds because the number of requests is bounded. A
`Retry-After` without bound is outside this assumption and listed as a hazard.

`EvalRun` assumes `WF(Next)`: the harness is one sequential program, and model and
judge answer or raise. Its clock-free retries make no other assumption.

## What is proved

The proof modules cover every value of the constants; no step is left unproved.

**`ConfirmationGateProofs`** assumes `TextsAssumption` (messages are of their
type) and `BoundsAssumption` (TTL and bounds are natural numbers).
`GateInvariantHolds` is the inductive invariant. `PerformedOnlyWithConsent` is
not inductive: that a performed call had consent follows from what was true of
the call under way (`CallsAsIssued`, `GrantedByRunningTurn`), that from what was
true of the row when the turn armed it (`RowsOfLatestTurn`), and single use needs
that a token is never in two of the stages row, armed, under way, performed
(`StagesApart`). There is one lemma per action. `ConsentRequired`,
`TokensAreSingleUse`, `RowsExpireWithNextTurn` and `ModelCannotConfirm` follow
from it, `RowsAreUserScoped` is an action property from the same invariant, and
`GateImplementsConsent` maps each offer to its `Phase`: every step of the gate is
a step of `Consent` or changes nothing it sees.

**`AgentTurnProofs`** assumes `PositiveAssumption`. `TurnInvariantHolds` shows
`TurnInvariant` inductive, with one lemma per action. The properties are not
inductive alone: that silence is honest needs that without ambiguity everything
applied was recorded and that a silent reply was chosen when nothing was
(`EffectsAccounted`); that a call applies once needs that it landed at most once
per failed attempt, and only ambiguously (`AttemptAccounted`); that no reply is a
phantom needs that a turn under way has neither replied nor raised and that its
user message is still the last (`TurnUnderWay`). `NoPhantomReply` goes both ways: an
assistant message answers the user message before it, in a turn that neither
raised nor died before its reply was stored, and every turn that ended otherwise
has its reply. A turn that dies between storing its reply and closing its trace
(`lost` at "closing") does leave a reply that its caller never got; the property
says that this is the only such case. `RepliesClaimOnlyTheTruth`,
`SilenceIsHonest`, `CallsApplyOnce`, `RepliesBelongToTheirTurn` and
`FinishedTurnsAreTraced` follow. `TurnsComeToAnEnd` shows that every step of a turn
leaves less `Work`, from at most `Longest` (lemma `WorkShrinks`): a round of the loop
is worth more than all its calls, a call more than the attempts of its read and of
its write.

**`FactStoreProofs`** assumes `BoundsAssumption` and `StorableAssumption` (what
validation lets through is a key and a value). `FactInvariantHolds` shows
`FactInvariant` inductive, with one lemma per action. Everything rests on a turn
under way being the only one (`HoldsLock`, lemma `Alone`). The upsert relies on a
row it read before its transaction: that row is still active at the UPDATE and is
then the only one (`RowsInHand`, `OneActivePerKey`). Atomicity needs that only the
fact under way is incomplete, until the commit (`WholeButSubject`), and that a
write without the lock finds no facts to commit unless it splits
(`TransactionOfOneUpsert`); that extraction does not churn, that a key not yet seen
still has the value that was known, if it was of its type (`ExtractorUpToDate`);
that answered writes are stored, that they are in the open transaction or were
dropped (`RowsKept`). `UpsertIsNeverRefused`, `HistoriesLeadForward`,
`UpsertsAreAtomicUnlessSplit`, `ExtractionDoesNotChurn` and
`AcknowledgementsAreStored` follow.

**`FakeCalendarProofs`** assumes `BoundsAssumption` and `NoEventAssumption`.
`CopiesStayInStep` shows `CalendarInvariant` inductive; the lemma `SettledEvent`
turns it around: whatever satisfies the invariant for one event is one event
shown to exactly the invited. `DeletionIsFinal` and
`CopiesImplementSharedEvents` rest on it; the mapping takes any holder's copy for
the event.

`OfferedTimesAreTheFirstGaps` needs of that invariant only that every copy starts
before it ends; the rest is about two loops over any number of slots. Induction
comes from the library's fact that a set with a well-founded order has a minimal
element (`WFMin`), for numbers (`NaturalInduction`) and for finite sets
(`FiniteInduction`); `FoldExists` uses it to show that the function a fold chooses
exists, so that `MergeSlotsUnfolds` and `FindFreeSlotsUnfolds` can say each loop round
by round. The invariant of the first loop is `MergedFrom`: the merged slots are apart
and cover what the slots cover (`MergeSlotKeeps` for a round, `SlotsMerged` for the
loop); it needs that the slot merged next starts last. The invariant of the second
is `Offering`: the cursor is at the end of the last slot and the long stretches
before it are found, in order (`LoopStep`, `LoopFindsStretches`). `StretchIsGap` and
`GapIsStretch` show that the stretches between slots that are apart are the gaps of
the window, `BusyCovers` and `BusyTogether` that the slots cover the taken times.

**`RuleGuardProofs`** assumes `DayAssumption`, `WeekAssumption` (the window cap is
at least a week), `ZonesAssumption` (a clock change does not turn the calendar
back to the day before), `RulesAssumption` and `IntervalAssumption`.
`DailyWindowNeverUnderBlocks` is the promise of `_overlaps_daily_window`: for an
instant inside a window one of the two folds reads both ends on the right sides
(`ReadingFound`; fold 1 after the change, fold 0 before it), and its date is
between the event's first and last (`LocalDatesInOrder`).
`WeekdayMissedOnlyAtRepeatedMidnight` shows that the wall-clock subtraction in
`_no_meetings_on` is wrong in exactly one situation. `AssistantObeysRules` puts
them together with the inductive invariant `GuardInvariant`: what was checked is
still what the patch results in. `NoVetoWithoutReason` is the other direction, that
the rules do not over-block: away from the clock change both folds read with one
offset (`OneOffset`), so a window or a weekday that the loops find is reached by an
instant of the event (`WindowReached`, `WeekdayReached`). It needs that a cutoff is
a time of a day, as `parse_hhmm` makes it, and that the cap on the window, being
at least a week, hides no weekday.

**`WebLoginProofs` and `GoogleCallsProofs`** assume what the constants are
(`BrowserAssumption`, `NoneAssumption`, `NoRecordAssumption`, `TimesAssumption`,
`CallsAssumption`, `MethodsAssumption`) and that the skew is shorter than the life of
a token (`SkewAssumption`). A callback runs without the lock beside the turn, and
each has local variables that were read from the tables and are written back
later; that these still fit the tables is what has to be strengthened.
`RequestInHand` has it for a callback (its email is that of its account, later its
user the one of that account or rolled back, and the token it will save is of its
own login), `TokenAtHand` for the turn (the token it refreshes is of the stored
grant, unless that was `raced` or `undone`, and the one it sends outlasts the skew).
Since a rollback or a crash goes back to `disk`, the rows have to fit together in
both versions of the tables (`Consistent`), and what is on disk must be a part of
what is seen (`Ahead`); `Leaving` has it that the session of a logout under way is
gone or was brought back. The requests beside a step keep what they have in hand
because accounts and grants, once there, are not taken back, and a user only by a
rollback that the requests notice, so that `CallInvariantHolds` needs one lemma for
each step of either side. `EmailsHaveOneUser`, `TurnsActForOwnAccount`,
`NewestGrantsAreStored`, `LogoutsAreFinal` and `RequestsAreSentBeforeExpiry` follow
from it; `ReauthIsAskedForWhenNeeded` is an action property over the same
invariant. `CallsComeToAnEnd` shows that every step inside a call leaves less
`Work`, since an attempt begins with no more requests than `Longest` and with one
resend (`CallUnderWay`).
`RequestsImplementAttempts` maps each of the many steps of a request to a step of
an attempt of `AgentTurn` or to none: lemmas `FailedAttempts` and `AnsweredAttempts`
for the ends of an attempt, `StepsWithinAttempt` for the others.

**`EvalRunProofs`** assumes `BoundsAssumption` and `ScenariosAssumption` (the schema's
types and its one to five runs). `EvalInvariantHolds` shows
`EvalInvariant` inductive. That a verdict is earned compares what the scorer read
with what the run did; the last reply is the place where they could differ, since
the scorer gets the replies of all sessions in one list (`LastReply`). That a
history is of one session needs that the store is emptied of messages between two
of them (`MessagesOfThisSession`); that the drain suffices needs that failures are
only ever used up. `VerdictsAreEarned`, `HistoriesAreOfOneSession` and
`DrainsSuffice` follow. `SuitesComeToAnEnd` shows that every step decreases what is
left of the suite in a lexicographic order (`Left`: runs, sessions, turns, tool
calls), which needs that no session has more turns than its scenario lists
(`TurnsOfSession`).

Only model-checked are the liveness properties (`EveryRequestLeaves`, `TurnEnds`,
`SuiteEnds`), which the prover does not reach. Of the last two, `TurnsComeToAnEnd`
and `SuitesComeToAnEnd` prove the part that needs no fairness: neither a turn nor a
suite has steps without end; that a next step is possible until then, and is taken,
is left to TLC. Every other property of a passing
run is the statement of a theorem.

## Findings

1. `GateOrder`. `docs/architecture.md:101` has a token arm "only if the user's
   *next* reply is an explicit, leading affirmative". `new_turn`
   (`agent/tools.py:286`) arms on the message of the user's next *turn*, and that
   may have been sent before the question.
2. `FactAtomicity`. `db/store.py:117-119`: "a failure can never leave the user
   without an active fact". `create_session` (`db/store.py:203`), like the other
   writes without the lock (86, 220, 303), commits the shared connection in the
   middle.
3. `InvalidArguments`. `agent/loop.py:7`: invalid arguments "are fed back". An
   inverted interval (`agent/tools.py:442`) raises out of the turn.
4. `RepeatedMidnight`. `memory/enforcement.py:151`: "every local date the
   half-open event actually touches". In America/Havana on 2026-11-01 an event
   from the first to the second midnight has the day before as its last date.

Gaps that the exceptions of passing properties name:

* an event moved between the rule check and the patch can end up in breach of a
  rule (`moved` in `WritesObeyRules`);
* the rollback of a failing upsert takes with it what a login, a callback or a
  logout has written and not committed, and the request is answered all the same
  (`dropped` in `AcknowledgedIsStored`; the fate `undone` in `NewestGrantStored`,
  after which the user is told to log in again; `returned` in `LogoutIsFinal`:
  the session token is accepted again until it expires), against
  `db/store.py:48-49`, which relies on a process lock that these do not take, and
  `db/store.py:217-218`, "the token is dead even if the cookie survives";
* after a request that failed although its write landed, the bail message says
  that nothing was changed (`ambiguous` in `HonestUnlessAmbiguous`), and a
  creation that is retried is made twice (`AppliedOnceUnlessAmbiguous`);
* a refresh on its way overwrites the grant a callback saves meanwhile (the fate
  `raced` in `NewestGrantStored`);
* a chat whose session was logged out, or expired, while it waited for the lock
  runs all the same (`StartTurn` of `GoogleCalls` does not look); no document
  promises otherwise, and the session is dead for every later request;
* a turn that dies between storing its reply and returning it leaves an assistant
  message that its user never got (`lost` at "closing" in `NoPhantomReply`);
* the token endpoint's 429 and 5xx are an `AuthError` and not retried, so a user
  with a good grant is told to log in again (the exception for a good token at
  its refresh in `ReauthIsNeeded`).

## Not modelled

* The language model, the prompts and the choice of facts in them: any answer and
  any tool call may come. Its history window of twenty messages is left out: what
  the API accepts is not in the repository.
* Words: `user_confirms` is modelled over classes of words, not its regular
  expressions; keys, statements and sizes of facts are the constant `Storable`.
* Sleeps and `Retry-After` take no time; the statements of the store always
  succeed in `AgentTurn`, and a fact saved by the extraction is not a mutation the
  reply reports (`FactStore` has both).
* The pool of threads that waiting chats hold belongs to the framework. Size
  limits, the same-origin check, response headers and the read endpoints change
  nothing the modules see.
* `FakeCalendar` leaves out titles and the answers of attendees, which no tool can
  set; without them nobody declines, so free/busy counts every event. Injected
  failures, which raise before anything changes, are in `EvalRun`.
* Events outside the year around now that the scorers list, the report and the
  loading of YAML in the harness.
* The fields of an event on the Google provider; `RuleGuard` has the intervals. The
  cipher of the token row: what is saved is what is loaded.
* Zones with two clock changes close together, and changes such as the one from
  00:01 to 23:01 that St. John's used until 2011, where the loop over days
  would miss the repeated evening.
* SPA, CLI, scripts and settings: terminal, browser and file output. That the SPA
  can send before it has the reply is `Post`.

## Plan

Done: the gate, the fact store with its extraction, the turn, logins and the
Google provider, the fake calendar with free times, the rules, the harness; the
proofs of all eight proof modules.

Every property of the runs is proved but the three liveness properties named under
"What is proved".
A next step would be the parts listed under "Not modelled" that keep state: the
model's history window and the pool of threads behind the lock.
