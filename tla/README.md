# Telephone-Booth-Operator-cli in TLA+

`tb-operator` is a terminal console for a telephone-booth installation. It signs
an operator in with an OAuth device code, keeps the session in the operating
system's keychain, calls an operator API and a booth's debug API, and plays the
recordings it downloads. One thread runs the user interface; everything slow is
a tokio task that reports over an unbounded channel which the UI drains on its
250 ms tick. This directory holds a specification of the parts of that program
whose correctness depends on what happens between two of those steps.

Paths below are relative to `src/crates/`.

## The system

| Component | State it keeps | Operations | What makes it correct |
|---|---|---|---|
| Session manager (`tbo-auth/src/manager.rs`, `session.rs`, `store.rs`) | the stored session, the refresh lock | `access_token`, `complete_login`, `sign_out` | one refresh at a time; a rotated refresh token is never used again; a session is not thrown away while it could be renewed; what it hands out is of the session it read |
| Auth client (`tbo-auth/src/client.rs`) | none | device authorization, token poll, refresh | the poll ends with the device code; 4xx, 5xx and transport errors are told apart |
| Auth phase (`tbo-tui/src/auth.rs`) | phase, task handle, channel | `start_login`, `cancel`, `sign_out`, `drain` | never stuck in a transient phase; a cancelled login stays out |
| Identity (`tbo-tui/src/data/identity.rs`) | profile, in-flight flag, channel, last refresh, revoked flag | `refresh`, `tick`, `reset`, `take_revoked` | a removed account is signed out; a profile is of the session it was fetched for |
| App (`tbo-tui/src/app.rs`) | screen, modal, help overlay, toasts | a tick, a key | admin-only screens need an administrator; no overlay outlives its sign-in |
| Messages, questions, API tokens (`tbo-tui/src/data/`) | list, selection, load and action in flight; for tokens the usage and the revealed secret | load, select, write action, drain | an action hits the row the operator confirmed; a list is reloaded after a write |
| Sessions, stats, audit log | list and detail; window; filter, cursor | load, select, cycle, load more | the detail, window or filter shown is that of the data shown |
| Events (`data/events.rs`, operator client `sse.rs`) | list, following, stream task | load, follow, merge | no duplicate, bounded, newest first, abort releases what the task held |
| Booth status (`data/status.rs`) | status, poll and socket channels | poll, live frame, reconnect | never replaced by an older status |
| Debug panel, system health (`data/debug.rs`, `system_health.rs`, `tbo-booth-client`) | five panels, live flag, last record id | polling round, telemetry record, simulate | REST and telemetry do not undo each other |
| Playback (`data/playback.rs`, `tbo-audio`) | fetch in flight; command channel, playback thread, shared state | play, pause, resume, stop, poll | the shared state says what is heard |
| Metrics (`tbo-metrics`) | ring buffers, rate meters | parse, push, observe | bounded history, no negative rate |
| Configuration, secrets (`tbo-core`) | two files | load, save | both or neither |
| Operator API client, booth client (`tbo-operator-client`, `tbo-booth-client`) | none; the booth client is made for one address, token and pin | every request, the import and export, the telemetry socket | a call's end tells what the server did; the token goes to the pinned booth |
| Onboarding (`onboarding.rs`, `main.rs`) | the answers so far | prompts, saving, sign-in, validation | Enter keeps what was configured; the end of the input ends it |
| Rendering, CLI, logging | none of interest | the status bar, the palette and the dialogs say which key does what | what is offered is what a key does |

**How they interact.** Every API call of every controller goes through
`SessionTokenProvider::access_token`, hence through the one `SessionManager` and
its refresh lock. The UI thread calls `sign_out`, and the login task calls
`complete_login`, on the same manager without that lock. `App::run` drives the
controllers in a fixed order on each tick: auth, identity, revocation, the bounce
off admin screens, then the data controllers. Keys come between ticks.

**What is hard.** The interleavings of a refresh with sign-out, sign-in and
abort; provider replies that are lost after the provider has acted; channels and
tasks that outlive the session that started them; a cached identity that decides
what may be opened; REST answers against live streams; dialogs that act on
whatever is selected when they are confirmed. `PROJECT.json` lists each of these
at its line under "hazards".

## Modules

| Module | Models |
|---|---|
| `TokenSource` | abstract: what callers may assume of the session manager |
| `SessionManager` | the session manager, the provider's token endpoint, the login task's last step |
| `SignIn` | auth phase, login tasks, identity, the gate of `App`; instantiates `TokenSource` |
| `DevicePoll` | the poll loop of the device code: interval, slow-down, a poll and its answer, the endings, deadline |
| `ManagedList` | messages, questions and API tokens: one list, its load, its writes, its dialogs, the usage lookup, the revealed secret |
| `EventFeed` | the event log: page, live tail, merge, bound, selection |
| `AuditLog` | the audit log: pages, cursor, filter |
| `CallSessions` | the sessions: list and the detail pane that follows the selection |
| `StatsView` | the statistics: the window, and which load may fill it |
| `BoothStatus` | the status: REST poll and live socket |
| `DebugPanel` | the booth panel: rounds of polls against telemetry, and the replay |
| `PanelRecords` | what each kind of record and each round does to the panels; the log filter |
| `AudioMeter` | the level meters with their held and falling peaks |
| `SystemHealth` | the scrape loop, ring buffers and rates |
| `Playback` | the fetch, the player's thread, its commands, the device |
| `ConfigStore` | the two files, loaded and saved by the program and by its setup |
| `SseStream` | the parser of the event stream |
| `Exposition` | the parser of the metrics page and what is read off it |
| `OperatorCalls` | every call of the operator API, its requests and its results; export and import |
| `BoothLink` | the booth's client and socket: address, token, pinned certificate, results |
| `Onboarding` | the first-run setup, prompt by prompt |
| `Keys` | every key on every screen, dialog, gate and palette, and what is offered |
| `MCScreens` | composes the modules from `EventFeed` on, for one run |
| `SessionManager_proofs`, `SignIn_proofs`, `ManagedList_proofs` | the theorems about the module of that name |
| `DataFeeds_proofs` | theorems about `EventFeed`, `AuditLog`, `CallSessions`, `StatsView`, `BoothStatus`, `Playback` |
| `Booth_proofs` | theorems about `DebugPanel`, `PanelRecords`, `AudioMeter`, `SystemHealth`, `BoothLink`, `Exposition` |
| `Edge_proofs` | theorems about `ConfigStore`, `Onboarding`, `OperatorCalls`, `DevicePoll`, `SseStream` |
| `Screens_proofs` | theorems about `Keys`, and about `MCScreens` as a whole |
| `Induction` | induction over numbers, finite sets and folds, for these proofs |

Three compositions matter. `SignIn` is composed with the session manager through
the abstract specification of the latter: its variables `session`, `stage`, `seen`
and `answer` are `TokenSource`'s, and the run `session_manager` shows that
`SessionManager` implements that specification; `SignIn` therefore needs neither
time nor refresh tokens. `ManagedList` composes a controller with the API, the
tasks between them and the dialogs of `App`. `MCScreens` puts the parts that share
no state side by side: in each behaviour one of them is at work, the others stay as
they were, so that the states add up and do not multiply. No interleaving is lost
by that, for there is none: a tick drives the controllers one after the other, and
each owns its channels.

### TokenSource

The stored session is reduced to the sign-in it belongs to. A caller is idle, has
asked, or is renewing; at most one renews, and nobody is answered meanwhile. A
renewal writes back the sign-in it read (`Renew`), whatever the store holds by
then: that is what the code promises and no more, and the weakness is where the
run `signed_out` gets its counterexample.

### SessionManager

A *grant* is a token bundle the provider issued. Tokens are grant numbers; a
session is `[access, refresh, expires]`, with 0 for the absent token and for an
unknown expiry, which `is_expired` and `is_expiring_soon` treat as long past.

| Action | Code |
|---|---|
| `Call` | `data/mod.rs` 130-136: the clock is read, then the lock is waited for |
| `LoadFails`, `FindNoSession`, `UseStored`, `FindDead`, `StartRefresh` | `manager.rs` 100-116 up to the await; the lock and the load are one step because nothing between them is visible to another thread |
| `Grant`, `Reject`, `RequestFails` | the token endpoint and `client.rs` 150-172. A grant's reply may be lost or damaged after the provider has acted |
| `ReceiveTokens`, `ReceiveRejection`, `FallBack`, `ReceiveGarbage` | the arms of the match, 117-139 |
| `Save`, `Clear` | the store's writes, each of which the keychain may refuse; separate steps, since `sign_out` and `complete_login` take no lock |
| `Abort` | `events.rs` 211-217: the task is dropped at an await, the lock guard with it |
| `ApproveLogin`, `CompleteLogin`, `LoseLogin` | the login task's last await and what follows; a login cancelled too late still saves |
| `SignOut`, `Restart`, `Revoke`, `Tick` | UI, process, provider, clock |

`ledger` records for each grant its sign-in and the provider's own expiry, `live`
and `spent` the refresh tokens the provider would redeem or has replaced. `lost`
is a history variable: it is set when a grant fails to reach the store (its reply
lost, its task aborted, the keychain refusing it). `result` is erased when the
task calls again.

### SignIn

Sign-ins are numbered in the order they are started. `tasks` says where each
login task is; `attempt` is the one whose handle and channel the UI holds.
`fetch` holds the identity fetches, of which the controller awaits `fetching` and
the others are orphans that nobody listens to any more. A tick is one action in
three cases (`TickSignedIn`, `TickSignedOut`, `TickRevoked`): all of
`AuthController::drain`, `IdentityController::tick`, `take_revoked` with the
sign-out it causes, and the bounce. `App` handles a tick or a key without
yielding, so no step of another UI operation can fall inside.

`screen = "admin"` stands for the Tokens, Debug and Audit screens. A modal and the
help overlay exclude each other in what the code can open, hence one variable
`overlay`, which also carries the sign-in that was shown when it was opened.

### The lists, the screens and the rest

- **`ManagedList`**: `kind` picks one of the three lists for a whole behaviour.
  Rows are numbered by age and listed newest first, so a list is a set of rows. A
  tick is one action: the load is drained and applied (`Drained`, `Clamped`), then
  the usage, then the write, whose success starts a reload (`Reloads`). Keys are
  actions of their own, a dialog records the row it was opened on (history) and
  dispatches to whatever is selected when it is confirmed, as the code does.
  Tasks may end, fail or die without a word.
- **`EventFeed`**: an event is its number. The tail forwards with delay (`pipe`),
  the page shows the log at the time it was served. `MaxLag` bounds how far the
  tail may lag behind: the page that overtakes the tail by more than its own
  length is what the list order is not promised for.
- **`AuditLog`**, **`CallSessions`**, **`StatsView`**: a load is a record of what
  it was asked for and what it brings; the audit cursor is the oldest entry shown.
- **`BoothStatus`**: a status is the heartbeat it reports and what it says of the
  installation. `apply_status` and `apply` decide in one operator, `ApplyStatus`,
  what a poll and what a frame may change. A tick takes the frames that have come:
  any first part of those that the worker has sent.
- **`DebugPanel`**: telemetry records are numbers. `SentBefore` is what a replay
  begins with, `Kept` how many records the booth remembers.
- **`PanelRecords`**: one action per kind of record (`apply_record`), one for a
  round (`apply`); a log line is its level.
- **`SystemHealth`**: a rate is kept as bytes and steps of time, since TLC has no
  fractions; counters can restart, and interfaces come up, between two scrapes.
- **`Playback`**: the commands' channel, the thread that applies them, the device
  and the shared state. A key reads the shared state before the thread has applied
  what was sent before.
- **`DevicePoll`**: time in seconds. The client begins to count up to `MaxDelay` after
  the code was issued. A poll lasts up to `PollTimeout` (the transport's
  `REQUEST_TIMEOUT`): the provider answers somewhere in between
  (`ProviderAnswers`), the answer arrives later or never, and meanwhile the operator
  may decide and the code may run out. A lost poll is retried (`OutOfReach`), an answer
  that the loop does not know ends it (`NotUnderstood`). The sleeps end on time.
- **`ConfigStore`**: a write empties a file and fills it; it can fail, or the
  program die, before, between and after the two.
- **`SseStream`**, **`Exposition`**: one action per chunk and per character. Both
  compare the code's parser with a second definition that looks at the whole text
  (`Records`, `Payload`) or at what the exporter was given to write (`meant`). The
  streams are a constant; the run has all those of up to three lines.
- **`OperatorCalls`**: each call is a sequence of requests (`Get`, `Post`,
  `Upload`, ...) that is walked through one at a time, while the operator signs in
  and out and the server does or refuses what it is asked; the file that a question
  refers to is kept. The servers are not in this repository. What is assumed of them:
  a 2xx comes after the act, a 401, 403 or 404 instead of it; any other status, a
  5xx first of all, may come before the act, after it or half way through it (and half
  counts as done).
- **`BoothLink`**: a booth is the scheme of its address, capitals and blanks in
  it, a pin and whether it has a token; the peer at the address may change between
  two calls.
- **`Onboarding`**: each prompt is an action per kind of line (blank, an answer, an
  unusable one, the end of the input) and says which value is taken: the built-in,
  the configured or the typed one.
- **`Keys`**: an arm of a `match` is a record of keys, screens and what is done;
  `Uses` takes the first arm that fits, as `match` does. The arms of `App::on_key` are
  written down in their order, in ten blocks.

## Runs

| Run | Question | Bounds |
|---|---|---|
| `session_manager` | Do the lock, the margin and the rules for the refresh token hold under every interleaving, and does the manager implement `TokenSource`? | two callers, one of them abortable; three grants; clock 0..2, lifetime 2 or unknown, margin 1, reply time 1 |
| `session_live` | Does every call return? | the same with two grants |
| `stale_clock` | Does the fallback return only valid tokens? (violated) | as `session_manager` |
| `sign_in` | Do the gate, the overlay rule and cancelling hold? | two sign-ins, two identity fetches, one other API caller |
| `sign_in_live` | Does a login end, are a removal and a demotion noticed? | two sign-ins, one fetch |
| `signed_out` | Does "signed out" mean no session is stored? (violated) | two sign-ins, one fetch |
| `identity_crosses` | Is a fetched identity only ever applied to its own session? (violated) | two sign-ins, two fetches |
| `lists` | Does a list show the writes that were reported, and its usage under the right token; can anything but a reload mislead a dialog; is a write ever forgotten or stuck? | one row at the start, two in all |
| `confirm` | Does a confirmed dialog always hit the row it was asked about? (violated) | as `lists`, questions only |
| `screens` | Fifteen invariants and nine temporal properties of the eighteen parts in `MCScreens` | see below |
| `audit` | Are all entries of the filter on the screen? (violated) | four entries, two families, a page of one |
| `silent` | Is the device silent when the state says idle? (violated) | three commands |

**Why the bounds are enough.** Two callers are what the lock is about: the third
would only queue. Three grants allow a stored session, its renewal and a sign-in
beside it, or two renewals in a row; reusing a replaced token takes two. With
margin 1 and lifetime 2 a token is fresh at the first instant of its life,
expiring at the second and expired at the third, so that all three answers of
`UseStored` and the fallback arise. Two sign-ins are one session and the next one,
which is all that the cross-session properties speak of; two fetches are the
awaited one and an orphan. A list of two rows is the smallest in which a row can
move under the selection: a new row pushes the old one down, a removal moves the
selection up.

In `screens`: three events in the list, two in a page and five in all let an event
be merged, cut off and overtaken by a page; four audit entries of two families
leave two for each filter, hence a next page; three calls give the selection a way
and back; three loads of statistics let an answer be outrun twice; two heartbeats
and one frame let a poll be older than a frame and the reverse; three commands
fill the player's channel; three records, of which the booth keeps one, let a
replay be complete and be outrun; a lifetime of 16 with two slow-downs of 5 lets the
pause outgrow what is left of the code, and a poll of up to 2 seconds, as long as the
first pause, spans an approval and the deadline; two tokens let a save replace one. Of the
operator's calls, `Called` has one of each shape that the client has: one reply read
as JSON, a stream, a write with and without a reply body, a delete, the three-step
creation, bare bytes, and bytes under a token both ways; each of the client's
methods is in the module, and the rest differ in name. `Made` does the same for the
booth. Mount points of two characters that differ only in how they are escaped are
what unescaping can confuse. The keys and the setup are not bounded but for one
booth, which is what `App` itself works with (`update_first_booth_url`).

Clock, grants, rows and events are used up eventually, so a specification stops
only where its bounds, or the operator, do. No run disables the deadlock check.

### Properties

*Session and sign-in* (`session_manager`, `session_live`, `sign_in`, `sign_in_live`):

- `OneRefreshInFlight`, `NoSpentTokenSent`: the doc comment of `SessionManager`
  ("at most one refresh is in flight") and what it is for. The second is
  conditional on `~lost`: once the provider has rotated a token and the answer was
  lost, no client can avoid presenting the old one.
- `FreshTokenAccepted`: a token handed out without a refresh had not expired at
  the provider when it was asked for. It fails without the refresh margin, since
  `complete_login` dates the token by the arrival of the reply.
- `ClearsOnlyDeadSessions`: `access_token` deletes a session it has read only if
  no live refresh token of that sign-in exists.
- `ImplementsTokenSource`: the refinement.
- `EveryCallReturns`: the lock is given back on every path, also by an abort.
- `AdminScreenGated`, `OverlayOfThisSession`, `CancelledLoginStaysOut`,
  `LoginNeverSticks`, `AccountChangesAreNoticed` (a removed account is signed out,
  a demotion takes the rights away): the promises of `app.rs`, `auth.rs` and the
  repository's README, quoted at each definition.

*Lists* (`lists`):

- `ReportedWriteShown`: once nothing is being loaded, the list shows the last write
  that was reported as done, unless its reload was dropped because another load was
  in flight, or died: the code has no retry for those.
- `UsageIsOfItsToken`; `OnlyReloadMisleads`: a confirmed dialog hits the row it was
  opened on unless a load was applied behind it; `NoWriteForgotten`;
  `NothingSticks` (liveness).

*Screens* (`screens`):

- `FeedInOrder`, `HighlightKept`, `FollowEndsWithTail`: the event list is newest
  first and without a double, the highlight stays on its event while others come
  in, and following does not outlive its stream.
- `AuditHonest`: the entries are those of the filter, without a gap, and the cursor
  is where they end, but for three ways to be misled that the definition names.
- `PaneInStep`, `LatestWindowWins`: the detail is that of the selected call, the
  overview that of the selected window, whatever order the answers come in.
- `NoReportUndone`, `StatusSettles`: no older heartbeat replaces a newer one, and the
  time between exhibitions ends only on the word of a poll or of a frame that says
  so; and when nothing changes any more, the screen comes to show how it is.
- `ReplayGoesOn`, `PollingTakesOver`, `LogFitsFilter`: telemetry goes on where it
  ended; polling takes over from it; every line in the log fits the filter, once a
  round under that filter has been applied.
- `RatesAreTraffic`: no rate is of more bytes than were moved between its scrapes,
  nor negative.
- `ShownAsHeard`: playing, paused, ended and idle mean that of the device.
- `ApprovalReaped`: a code that is approved is lost only if the approval came within
  the last pause the provider itself had asked for and the time of two polls of the
  code's end, or if a poll after the approval was answered with a slow-down or an
  error, or not at all. Two polls: the one under way may have been answered before the
  approval, and the next one may take its time. With an interval of 5 seconds,
  no slow-down and the transport's 20 seconds that is the last 45 of the code's life.
- `SavedIsDurable`, `NoTokenWritten`: what was reported as saved is what the next
  start loads, and no token ever gets into the shareable file.
- `CutsDoNotShow`, `PageReadsBack`: how a stream is cut into chunks makes no
  difference to the records; what the exporter escapes is read back as it was.
- `EndTellsWhatWasDone`: from the way a call ends one may conclude which of its
  requests were carried out, as far as one may: after a transport failure, a dropped
  call or a status other than 2xx, 401, 403 and 404 the last request is open and those
  before it are not. Every question has its audio. It rests on what is assumed of the
  servers (see `OperatorCalls` above).
- `TokenGoesToPinned`: over TLS the token goes to the pinned certificate only, both
  ways to the booth, however its address is written.
- `EnterKeepsAll`, `EndOfInputEndsSetup`: Enter at every prompt changes nothing;
  an input that ends leads to the screens or to a failure.
- `OfferedKeysAct`: a key that the gate, a dialog, the palette or the status bar
  offers does what it is offered for, on each of the thirteen screens.
- `ScreensTypeOK`: the types of the part at work, the one type invariant of the run.
  It includes the bounds that the code promises: the length of the event list, of
  the log, of the ring buffers.

### Violated runs

- `stale_clock`: `manager.rs` 97-98 promises the existing token "while it remains
  valid". Validity is tested against the time read before the call waited for the
  lock and for a reply. An expired token leads to a 401, and the identity check
  takes a 401 for a removed account.
- `signed_out`: a refresh that is under way when the operator signs out saves the
  renewed session after the store was cleared. The screen says signed out, and
  the next start of the console is signed in again.
- `identity_crosses`: `identity.rs` 100-102 says a result requested for the
  previous session can never be applied to the next one. `tick` resets the
  controller on a sign-out only if a profile is cached, so the very first fetch
  of a session, if it is slow, is applied to the next sign-in.
- `confirm`: `questions.rs` 23-24 says that a reload never disrupts the selection.
  A dialog names no row; a load that is applied behind it puts another row under
  the selection, and the confirmation retires, deletes or revokes that one.
- `audit`: `audit.rs` 124 says that a new filter reloads from the first page. The
  reload is dropped when a load is in flight, and the entries of the old filter
  stay under the label of the new one.
- `silent`: `state.rs` 9 says of `Idle` "Nothing is loaded". A track that does not
  decode leaves the track before it playing while the state is idle, and the
  play/pause key then does nothing.

### Seen while modelling

Properties above are stated with these in mind; none contradicts a document that
the repository has.

- An interface that comes up between two scrapes yields its whole counter as
  traffic (`RatesAreTraffic` excepts it).
- In the event stream, an empty first `data:` line leaves no trace, while later
  ones leave a line break (`Payload`).
- The setup does not end at the end of its input if the configured theme is not on
  the list, or for as long as the sign-in fails (`EndOfInputEndsSetup` excepts both).
- A poll that is lost is retried, but one that a gateway answers with a 5xx ends the
  sign-in with `TokenExchangeFailed`, though `AuthError::Transient` is documented for
  5xx too (as a refresh has it); so does a 2xx whose body does not decode. And the
  deadline is looked at when an answer is there: a "pending" that arrives after it ends
  the sign-in though the operator approved meanwhile (`ApprovalReaped` says how late
  the approval must have been).
- `OperatorError::Http` does not tell a refusal from a failure half way: an import that
  ends with it may have been done (`EndTellsWhatWasDone` leaves it open).
- The REST client takes `HTTPS://` for TLS, the telemetry socket refuses it.
- The live status socket reports a refusal as a transport error whatever its status;
  a refusal whose body breaks off is a transport error for text and a status error
  for bytes.
- On the Tokens screen Esc quits when no secret is shown, although the bar offers
  "Esc dismiss secret" (`OfferedKeysAct` excepts it).
- A dialog that is open on the Tokens screen when the operator is demoted stays open
  over the Status screen, and its confirmation is dispatched; the second step of a
  new question does not ask for the rights again. The API decides.
- The log filter raised while a round is in flight and telemetry is on leaves older
  lines in the log until they are pushed out (`LogFitsFilter` says from when on).
- Editing the booth's address or token rebuilds its controllers and drops a
  simulation that is in flight, with its outcome.

### Fairness

`SessionManager`: the executor runs ready tasks (weak fairness of `Receive` and of
`Save \/ Clear`), a request is answered or times out (`transport.rs` 22; weak
fairness of `Provider`), and tokio's mutex queues waiters in order, so that a
waiting call is not overtaken for ever (strong fairness of `Load`).

`SignIn`: ticks go on, and time (weak fairness of `Tick`, `Elapse`); a login task
runs, and its poll ends with the device code (`client.rs` 125). Requests do not
fail without a verdict for ever and the keychain does not refuse the same
deletion for ever (strong fairness); without these assumptions nobody could sign
a removed account out. Nothing is assumed of the operator or of `Panics`.

`ManagedList`: ticks go on (weak fairness of `Tick`), requests end, and the loads of
one list do not all die without a word (strong fairness of an end that is not
`dead`). `NothingSticks` needs the last one only where a dead load has put the list
back to where the next focus loads it.

`MCScreens`: ticks (`EventsTick`, `StatusTick`, `DebugTick`) and the two timers they
look at (`FiveSeconds`, `RoundFallsDue`) go on, as `App::run` draws and ticks every
250 ms and nothing in a tick blocks; a request ends; and a poll is not refused for
ever (strong fairness of being served and of the answer getting through), without
which nothing could be shown to the operator. `GoesOnAlone`: the setup does what needs no
answer. Nothing is assumed of keys, of the operator, of the socket's coming back, or
of crashes.

## Proofs

Everything in this section is proved for all values of the constants, from the
assumptions that the modules state about them. A theorem whose name ends in `Types`
states the type invariant, each other one the property that stands after it. The
properties are those of the runs above, where TLC checks them on small instances.

`Induction` has what the prover lacks: the library's induction theorems take an operator
as a parameter, which no backend instantiates. Here an induction is about a *set*: a set
of numbers that is not empty has a least member (`LeastNat`, out of the well-foundedness
of `<`), what holds of 0 and goes from k to k + 1 holds up to n (`UpTo`), what holds of a
set if of the set without each one of its members holds of every finite set
(`OneByOne`). A fold over a sequence is a walk over its places (`WalkExists`,
`WalkInvariant`): as a fold is defined by a CHOOSE, it must first be shown that there is
such a function. A sum over a finite set does not depend on the order (`SumIs`,
`SumRemove`).

The assumptions say that a bound is a number (and not 0 where the code's is not), and
beyond that: `ReplyTimeout <= Margin` for one theorem (below); a page of events fits the
list, and the tail lags by a page at most (`EventFeed`, see `MaxLag` above); a peak that
is held may also fall all the way within the time that is told apart (`AudioMeter`);
the calls made are calls of the client, and there are some (`OperatorCalls`,
`BoothLink`); interfaces are finitely many (`SystemHealth`); a stream is a sequence
(`SseStream`), a mount point one of the characters that the page treats differently
(`Exposition`).

### Session manager and sign-in

| `SessionManager_proofs` | Statement | Assumption |
|---|---|---|
| `TypeCorrect` | `Spec => []TypeOK` | those of the constants |
| `OneRefresh` | `Spec => []OneRefreshInFlight` | |
| `FreshTokens` | `Spec => FreshTokenAccepted` | `ReplyTimeout <= Margin`; in the code 20 s and 60 s |
| `SpentNeverSent` | `Spec => []NoSpentTokenSent` | |
| `ManagerIsTokenSource` | `Spec => ImplementsTokenSource` | |
| `OnlyDeadCleared` | `Spec => ClearsOnlyDeadSessions` | |

None of these is inductive by itself. The proofs build one invariant on another:

1. `TypeInv` adds to `TypeOK` that a reply of kind "tokens", and a login on its
   way, really carry a bundle: without it the type of the session made from them
   cannot be shown.
2. `LockInv`: a call past the load holds the lock, and the lock is held by no
   other call. It gives `OneRefresh`, and tells the later proofs that only one
   call has a session in its hands.
3. `DatesInv`: every session, wherever it is, is dated at most `ReplyTimeout`
   after the provider's own expiry. With the margin this yields `FreshTokens`.
4. `SpentInv`, in four parts: tokens are numbered below the next grant
   (`Numbered`), the login's refresh token is no one else's (`Unshared`), a call
   with no reply has none (`EmptyReplies`), and, unless a grant was lost, neither
   the store nor a working call holds a replaced token except the call whose grant
   has just replaced it (`Unspent`).
5. `SignInsInv`: the access and the refresh token of a session, wherever it is, are of
   one sign-in, and a reply is of the sign-in that it renews. This is what the
   refinement maps: to `TokenSource` a session is its sign-in. Of the actions only
   the load, the end of a call, an abort, a sign-in or sign-out and a restart are
   steps of `TokenSource`, each shown to be the one it is meant to be (`LoadIsAnswer`,
   `EndIsRenewal`, `AbortAbandons`, ...); all others stutter (`QuietSteps`).
6. `LiveInv`: unless a grant was lost, the only live refresh token of a sign-in is the
   one its session carries, in the store, in a call, in a reply or in a pending login,
   and a call about to clear a session has had that token refused.

`SignIn_proofs` proves, for any number of sign-ins, fetches and callers:
`SignInTypes`, `AdminGate` (`AdminScreenGated`), `OverlaysOfOneSession`
(`OverlayOfThisSession`), `CancelledStaysOut` (`CancelledLoginStaysOut`), and
`UsesTokenSource`: `SignIn` implements `TokenSource`, as `SessionManager` does by
`ManagerIsTokenSource`. The two meet in that module: whatever `SignIn` does to the session
manager's variables is something that it promises.

1. `TypeInv` strengthens `TypeOK` by what the types hang on: somebody who is
   signed in has a sign-in, a verdict names the session it was asked with, the UI
   holds a channel exactly while a login is under way (`ChannelHeld`), and a
   task's progress bounds what it can have sent (`Queued`). `ChannelHeld` serves
   all later proofs: a drain makes somebody signed in only out of a login that is
   under way (lemma `WhoComesIn`).
2. `AdminScreenGated` is inductive as it stands.
3. `OverlayInv` adds that no overlay is open while a login is under way.
4. `CancelInv`: what was cancelled was started before, and the login whose channel
   is held was started and not cancelled. The login that comes in is thus not a
   cancelled one.

### The lists and the screens

| Module | Theorem | Property |
|---|---|---|
| `ManagedList_proofs` | `ListTypes` | `TypeOK` |
| | `WritesAreHeld` | `NoWriteForgotten` |
| | `UsageUnderItsToken` | `UsageIsOfItsToken` |
| | `OnlyReloads` | `OnlyReloadMisleads` |
| | `ReportedWritesShow` | `ReportedWriteShown` |
| `DataFeeds_proofs` | `EventsTypes`, `FeedStaysInOrder`, `HighlightStays` | `EventsTypeOK`, `FeedInOrder`, `HighlightKept` |
| | `AuditTypes`, `AuditIsHonest` | `AuditTypeOK`, `AuditHonest` |
| | `CallsTypes`, `PaneFollows` | `CallsTypeOK`, `PaneInStep` |
| | `StatsTypes`, `LatestWins` | `StatsTypeOK`, `LatestWindowWins` |
| | `StatusTypes`, `ReportsStand` | `StatusTypeOK`, `NoReportUndone` |
| | `PlaybackTypes`, `StateIsHeard` | `PlaybackTypeOK`, `ShownAsHeard` |
| `Booth_proofs` | `DebugTypes`, `ReplaysGoOn` | `DebugTypeOK`, `ReplayGoesOn` |
| | `PanelTypes`, `LogsFit` | `PanelTypeOK`, `LogFitsFilter` |
| | `MeterTypes`, `PeaksGlide` | `MeterTypeOK`, `PeakGlides` |
| | `HealthTypes`, `ChartShowsTraffic` | `HealthTypeOK`, `RatesAreTraffic` |
| | `LinkTypes`, `TokensGoToPinned` | `LinkTypeOK`, `TokenGoesToPinned` |
| | `PageTypes`, `PageReads` | `PageTypeOK`, `PageReadsBack` |
| `Edge_proofs` | `ConfigTypes`, `TokensStayApart`, `SavesAreDurable` | `ConfigTypeOK`, `NoTokenWritten`, `SavedIsDurable` |
| | `SetupTypes`, `EnterKeeps` | `SetupTypeOK`, `EnterKeepsAll` |
| | `RequestsTypes`, `EndsTell` | `RequestsTypeOK`, `EndTellsWhatWasDone` |
| | `DeviceTypes`, `ApprovalsReaped` | `DeviceTypeOK`, `ApprovalReaped` |
| | `SseTypes`, `CutsNeverShow` | `SseTypeOK`, `CutsDoNotShow` |
| `Screens_proofs` | `KeysTypes`, `OffersAreKept` | `KeysTypeOK`, `OfferedKeysAct` |
| | `ScreensTypes`, `ScreensHold` | `ScreensTypeOK`, and all safety properties of the run `screens` |

What makes each of them inductive:

- `UsageIsOfItsToken` speaks only of what is on the screen. `UsageOfLabel` adds what is
  on its way: the lookup, too, is of the token that the label names.
- `OnlyReloadMisleads` speaks of the step that confirms. `DialogOnRow` says what holds
  until then: as long as no load was applied behind a dialog, the selected row is the
  one it was opened on (a dialog takes all keys, lemma `SelectedStays` has the ticks).
- `ReportedWriteShown` speaks of the time when nothing is loaded. `WriteInv` follows the
  write until then: a load that was begun after it was served reflects it (`Reflects`).
- `FeedInv`: the tail's channel holds the events up to the one sent last, without a gap
  (`TailInOrder`), and what is on the screen has every event from its first one up to
  what the tail is to bring. Only with both can a live event neither be older than the
  list's first nor already be in it. A tick folds the merge over the whole channel
  (`DrainByStep`), which is why the statement about the channel is about each of its
  places.
- `AuditInv`: a load under way is of the filter that is selected unless the filter was
  cycled behind it, and a further page starts where the rows end (`LoadFits`). "Without a
  gap" is about sets of entries: whatever the filter selects between two rows is a row
  (`Gapless`).
- `PaneOfLabel`: the pane, and the fetch on its way to it, are of the call that the
  pane is meant for, and nothing is shown while a fetch is on its way.
- `HeldIsForWindow`: the load whose channel is held asked for the window that is
  selected. That is the whole of "latest wins": `cycle_window` replaces the channel,
  and an earlier answer has nowhere to go.
- `NoReportUndone` is about a tick that applies the frames one after the other, then the
  poll's answer. The proof walks along the frames with what must not be lost by then.
- `RoomForQuit`: only the command to quit comes on top of the channel's bound;
  without it the type of the channel is not preserved. `ShownAsHeard` is inductive by
  itself, given the types.
- `DebugInv`: the channel holds the records that were sent last, in order, and while the
  socket is open its next record is the one after the last applied (`Resumes`).
- `FilterAnswered` adds to `LogFitsFilter` the round in flight, which asks with the
  filter shown unless the filter was changed behind it.
- `HealthInv`: between the baseline and now no more was counted than was moved, between
  the baseline and the scrape on its way neither, nor between that and now
  (`CountersAreTraffic`). The total is a sum over interfaces that come and go.
- `LinkInv`: the client that is in use is the one made for the booth as it is configured.
- `HalfSaved` and `BuiltInStep` make `SavedIsDurable` inductive: between the two
  writes the first file is whole and holds what is being saved, and a change that does
  not rebuild the booth's controllers does not touch its token.
- `KeptSoFar`: as long as nothing was typed, each answer given is what was configured;
  which those are follows from the prompt it stands at. `FontsKnown`, `BoothsInOrder`:
  the setup comes to each prompt with what that prompt needs.
- `RequestsInv`: a call's place in its list of requests bounds what was carried out. The
  only call with more than one request is the upload (`Shape`), and its slot, its audio
  and its question come in this order.
- `Paced`, `Answered` and `Heard`: a sleep is no longer than the pace asked for, a poll no
  longer than its time; what was said fits the time and the operator's decision when it
  was said; and an approval is at most a sleep and the time of two polls (`Span`) away
  from the answer that tells of it.
- `OffersAreKept`: in each block no two arms want the same key on the same screen
  (`BlocksApart`), so that the first arm to take a key is the only one (`OwnArm`), and
  the blocks are tried in turn (`InTurn`, by `ThenArms`). What remains is which block a
  key gets to (`Reached`): an arm is overshadowed only by a block before its own. The
  one inductive part is `NothingLeftOpen`, a dialog that is closed leaves nothing
  behind, because what is on offer is read off the whole dialog and what a key does off
  its kind.
- `EachPartRuns`: `MCScreens` implements the specification of each of its eighteen parts,
  since a step of one part leaves the variables of the others alone. By it, whatever is
  proved of a part alone holds of the composition: `ScreensTypes` and `ScreensHold`.

`TypeOK` of `SessionManager`, `SignIn` and `ManagedList`, and `PeakGlides`, are proved
and listed in no run.

### The two parsers

What they compute is proved for every input, of any length.

- `CutsNeverShow` (`SseStream`, for any set `Streams` of sequences over any bytes). The
  records of the first n bytes are defined by what lies between blank lines (`Block`,
  `Records`, `Payload`), with no parser in the definition. `ReadUpTo` says what a parser
  that has taken n bytes must hold: the open line, the event and the data of the block
  so far, the records before it. A byte leads from `ReadUpTo` of n to that of n + 1
  (`ByteRead`), by the kind of line that it ends, if any: `KeptRead`, `BlankRead`,
  `EventRead`, `DataRead`, `OtherRead`. The fold over a chunk is then a walk
  (`PushByStep`), whichever bytes the chunk has.
- `PageReads` (`Exposition`, for any mount points and any length of page). `InLine`
  relates what is left of a line to what the scanner has in hand. Through the fixed
  parts of a line it is spelled out character by character (`InHeader`, `InGauge`,
  `Closing`); within the mount point it is about the place k up to which the value
  was written and unescaped (`Read`, `ReadEscaped`, and `WrittenBefore`, which opens the
  fold that escapes). A line that was cut or damaged ends in no sample or is skipped,
  and the next one begins with a fresh scanner.

### Only model-checked

- All liveness (`EveryCallReturns`, `LoginNeverSticks`, `AccountChangesAreNoticed`,
  `NothingSticks`, `FollowEndsWithTail`, `StatusSettles`, `PollingTakesOver`,
  `EndOfInputEndsSetup`): leads-to under fairness needs ENABLED, which the prover does
  not have.
- What the violated runs check, which is false.

## What is not modelled

- **Rendering** (`ui/screens.rs`, most of `ui/mod.rs`, `theme.rs`, `icons.rs`): drawing
  functions without state, more than four thousand lines. Which keys the screens
  offer is in `Keys`; the layout and the texts are not.
- **Toasts** (`ui/toast.rs`): they are only shown, and dropped with time. The queue's
  doc comment calls it bounded; it is bounded by time alone.
- **The fields of the API's records** (`tbo-core/src/domain`): a record is a number or
  a member of a small set, and its decoding is an outcome (decodes, or does not).
- **`data/system.rs`**: the scrape loop of `system_health.rs` over another endpoint,
  without the rates.
- **Lengths of time** other than in `SessionManager`, `DevicePoll` and `AudioMeter`: the
  growing pause between two connections of the live socket, the revalidation interval
  of the identity, the poll interval (a timer may fall due at any time).
- **Logging, arguments, terminal set-up**: no state.
- Within the modelled components: the ID token; the in-memory store used when the
  keychain is unavailable; two consoles sharing one keychain or one configuration; a
  4xx that does not mean the refresh token is dead (429), which `client.rs` 164 takes
  for one; quitting from `SignIn` (`SessionManager!Restart` has it). In `SignIn` a tick
  that has to start a fetch waits while all of `Fetches` are taken by orphans, a bound
  the code does not have. In `ManagedList` the operator stays signed in, hence a token
  created across a sign-out is not there: both modules have as many states as one run
  can take. That whoever signs in next sees the Tokens screen only as an administrator
  is `AdminScreenGated`; that the secret on it then is one of his own is neither
  prevented by the code nor documented.
- The data controllers are not multiplied with each other (see "Modules"): a property
  that relates two of them, such as the audio of a row that is deleted while it is
  fetched, would need that.

## Left to do

`ManagedList` under `TokenSource`, for what a sign-out leaves behind.
