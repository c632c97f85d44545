# A TLA+ model of g-man

g-man is a Go library and bot for Steam: it logs on to a Connection Manager (CM), keeps
web sessions, polls and answers trade offers. This directory holds TLA+ modules that model
its stateful parts, TLC configurations that check them on small instances, and theorems
that TLAPS proves for all values of the constants.

## 1. The system

| Component (source) | State it keeps | Operations | Interacts with |
|---|---|---|---|
| Authenticator (`pkg/steam/auth`) | login FSM; the slots `loginResult`, `loginCancel`, `activeDetails`; `tempSessionKey`; token store | `LogOn`, `LogOnAnonymous`, four CM packet handlers, `failLogin` | socket (packets arrive on its worker pool), connector, store, event bus |
| Socket (`pkg/steam/socket`) | closed flag, heartbeat cancel function, jobs, session id | `Connect`, `Send*`, `StartHeartbeat`, `Close` | transports, Authenticator, client |
| Transports (`internal/network`, `framer`) | connection, cipher | read loop, write, switch of the cipher | socket |
| Client (`pkg/steam/client`), modules (`internal/client/modules`) | client FSM, modules and their contexts, WaitGroup | `Run`, `RegisterModule`, `ConnectAndLogin`, `Reconnect`, `Close` | all modules, session |
| Session (`internal/client/session`) | access token, web session, single-flight groups, `refreshLoopOnce`, logon details | `LogOn`, `Reconnect`, `Refresh`, `ForceRefresh`, `StartRefreshLoop`, `Close` | authenticator, web session, socket, client |
| Web session, router, community client | cookie jar, `isAuth`, last refresh token, a single flight | `Authenticate`, `Refresh`, `Verify`, `Clear`; one retry after an expired session | session |
| Trade Manager (`pkg/trading/web`: manager, poller, canceller) | FSM, trigger channel, known offers, last-seen times, watermark `offersSince`, `cancelling`, priority queue, `itemLocks` | `StartPolling`, `StopPolling`, `TriggerPoll`, `Close`, `doPoll`, automatic cancellation, `SetPollData`, `ReserveItems`, `LockItems`, `SendOffer` | Steam web API, event bus, processors |
| Trade processor behavior (`pkg/behavior/processor`) | queue, `processing`, `itemLocks` | `Run`, `Enqueue`, worker | Manager's `NewOfferEvent`, engine, executor |
| Offer worker (`pkg/trading/web/processor`) | queue, processing flags | worker, retries | backpack, engine |
| Trade engine and middlewares | none (a chain of functions) | evaluate an offer | processors |
| Guardian (`pkg/steam/guard`) | running flag, loop, seen confirmations | `Start`, `Stop`, poll, accept | web session |
| Game coordinator, apps, friends, chat, notifications, account | caches of what Steam sent, jobs | one handler per message | socket, event bus |
| Codec, enricher, inventory, community pages, encodings, crypto, storage, commands | none or one map | conversions, requests | - |

Every component is listed in `PROJECT.json` with its status, and every hazard at its line.

What makes the program hard is concurrency without a common lock. Calls of users, packet
handlers, timers and polling loops meet in state machines whose transitions are atomic but
whose *check-then-act* sequences are not; several slots that belong to one login are
written one after the other; a stopped loop notices only later, so generations of loops
overlap; answers of Steam are old when they are applied, may be incomplete ("glitched"),
and an error may hide a success; the poll data survives a restart; and assets are locked
one at a time, in several tables.

What makes each part correct:

- **Authenticator**: the machine is never stuck in progress; success means the CM accepted
  and heartbeats were started; no logon leaves over TCP unencrypted, but in two races; secrets do not outlive a login;
  a rejected token is not used again; a call returns.
- **Polling**: no settlement is lost, nothing is announced twice, polling does not die,
  settled offers stay settled, locks are taken in one order; the canceller takes the oldest.
- **Asset locks**: all or nothing, one owner, given back on all paths, no deadlock.
- **Processor**: an offer is with one goroutine, its assets are exclusive while it is
  evaluated and executed, and it leaves processing.
- **Client**: what `Run` starts is stopped when `Close` has returned; every module hears of
  the login, whenever it was registered; one refresh loop lives as long as the client.
- **Heartbeat**: one live loop that `Close` reaches; a hung link is noticed; the next
  connection is served; replaced loops end.
- **Session**: one renewal per single flight at a time, whose callers all return; a retry after
  a renewal carries a good token; whatever concurrent renewals do to the cookies, a later one repairs it.
- **Confirmation poller**: one loop, none after `Stop`; calls return; confirmations are
  answered.

## 2. Modules

| Module | Models |
|---|---|
| `Authenticator` | login calls, packet handlers, CM, connector, callers |
| `OfferStory` | abstract specification: what subscribers are told of an offer, and when, across restarts |
| `TradePoller` | polling loops, `doPoll`, garbage collection, canceller, persistence and restart; implements `OfferStory` |
| `AssetUse` | abstract specification: sets of assets are taken at once, by one user at a time |
| `ItemReservation` | `ReserveItems`, `LockItems` and the unlock functions; implements `AssetUse` |
| `OfferProcessor` | the processor behavior; implements `AssetUse` |
| `ClientLifecycle` | `Run`, `RegisterModule`, `ConnectAndLogin`, `Reconnect`, `OnReconnect`, `Close`, the module manager, the goroutines of the refresh loop |
| `Heartbeat` | `StartHeartbeat`, its loops and `Socket.Close` over connections that drop and stall |
| `SessionRefresh` | the renewals of one session: `Reconnect`, `Refresh`, `ForceRefresh`, the refresh loop, the web sessions with `WebSession.Refresh`, the retries of the router and of the community client |
| `ConfirmationPoller` | the poller of mobile confirmations and its callback |
| `MC*` | instances for TLC |
| `*_proofs` | theorems about the module they extend |

Operators called *Mutant* in a comment are deliberately wrong variants of the definition
that follows them. They are not part of any specification; replacing the definition by its
variant makes the property named in `PROJECT.json` fail, which shows that the property
depends on that line of the code.

### Authenticator

`pc[a]` is the point a call has reached between two steps another goroutine can observe:
`Begin`/`BeginRefused` (the transition of `EventBegin`), `Prepare` and `PollDone` (token from
the store, password flow), `EnterLoggingOn`, `Register` (the three slots, one store each:
`setResult`, `setCancel`, `setDetails`), `Dial`, `SendLogOn`, the select of `waitForLogOn`
(`WaitResult`, `WaitCancelled`), `Succeed`, `ClearStore`, and the deferred
`ensureTerminalState` in its two halves (`CheckTerminal`, `ForceFailed`). A call that fails
goes through the same deferred steps. `fsm` fires events as the code does: an event without
a rule in the present state is ignored.

The handlers are one action each, with two exceptions. That of the encrypt result switches the
cipher of one connection (`HandleChannelEncryptResult`) and then sends the logon on whatever
connection is up (`SendKeyedLogOn`); `keyed` holds, by the number of the dial, the handlers
between the two, one per connection at most. And `failLogin` is split where another goroutine
can act: `StartFailure` cancels the registered login with the error as cause,
`FinishFailure` offers the error to the registered result channel. The select of a call
with both ready takes either branch.

Abstractions. One account and one token; the guard-code dialogue of the password flow is
one step that ends in a token or an error. The connector (`aoni-contrib`, not in this
repository) is the environment: it may dial, drop and reconnect at any time, up to
`MaxDials`. `inbox` is a set, so equal packets in flight are one; a lost connection may
leave packets that a worker already took (`Lose`). At most one `failLogin` per kind of
error is between its halves. `logons` counts unanswered logons; it is bounded by the calls
and dials. `heartbeat` records that a `StartHeartbeat` has succeeded, and is not taken back: its loop
goes on until `Close`, see `Heartbeat`. So `LoggedOnHasHeartbeat` speaks of the first login; of
a later one, which replaces the loop, it says nothing new.

### TradePoller

Each loop is a process: `top` (state check), `select`, `limit` (rate limiter), `fetch`
(request in flight), `answer`, `locked` (holds `m.mu`), then the canceller: `timeouts`,
`callTimeout`, `count`, `peek` (holds the queue's mutex), `callCount`. `Apply` is the whole
critical section: offers that are not glitched update `known` and `lastSeen`, the watermark
moves to the latest update time unless an offer is glitched, `gcKnownOffers` forgets, events
are published, active sent offers are pushed. `StopPolling` only changes the state machine;
`StartPolling` takes a loop that was not used, so generations overlap as in the code.

`server` is Steam; `told[o]` is the state subscribers were last told, `news[o]` counts
`NewOfferEvent`s. `published` is the last `PollDataEvent` and `saved` what the program wrote
down. `told` is stored with the poll data: what was announced before the restart stays
announced. `Restart` clears memory, at any step, and calls `SetPollData`.

Abstractions. Time advances in steps of half an hour, from 1. The heap is the map
`tracked` from offers to update times; equal times come out in any order. `Peek`'s
evaluations of `isValid`, each under its own `RLock`, its end and the mark in `cancelling` that
follows are one step. A trade hold (`OfferStateInEscrow`) is not a status: to the poll it would
be one more change between active and settled. `SetPollData` is called
only at a start. `Save` happens only while a restart is to follow. `CancelOffer` may fail
after Steam cancelled. The listeners that `StartAuthed` subscribes are left out; their
effect, `TriggerPoll` and `StopPolling` at any time, is not.

### OfferStory

What polling promises, without polls, answers or watermarks: an offer passes through its states
at Steam (`Happen`), subscribers are told of any offers' changes later, forward and at most as
far as Steam is (`Tell`), and an offer is announced when it is told to be active after it was
not. The program keeps what was told now and then (`Keep`), and a new process begins there
(`Restart`). `TradePoller` implements it with the status of Steam's records, `told`, `news` and
`saved.told`: `Apply` is one `Tell`, `Save` is `Keep`, a successful cancellation is a `Happen`,
and the other steps change nothing of the story. Liveness is left to `ActiveIsAnnounced`.

### AssetUse, ItemReservation

`ItemReservation` locks one asset per step, in ascending order. `ReserveItems` stops at the
first taken asset (`Refuse`) and unlocks what it has, also one per step; `LockItems` waits.
The unlock function works once (`spent`) and may be called again, also after the assets
have found another owner. The IDs of a call are distinct. `AssetUse` keeps only which assets
each user has; a user gets a set at once when it is disjoint from all others. The
refinement maps a caller between the last lock and the call of its unlock function to its
whole set, everyone else to the empty set.

### OfferProcessor

Each `Run` has a listener (an event per step, `Store` then `Send`, the two halves of
`Enqueue`) and a worker: `Take`, `CheckNext` (one item of `isAnyItemBusy` per step),
`BeginLock`, `LockNext`, `Locked`, `Evaluate` (any verdict), `Execute`, `UnlockNext`,
`Unlocked`. The check and the locks are separate steps, so the interleaving the code allows
is in the model. One `Run` has one worker, so locks are contended only when there are several
runs: each has its own context, and the worker of a run that was cancelled finishes its
offer while the next run, which `Start` of the orchestrator begins, works already on the
same queue and locks. Offers carry items; `Asset` maps an item to its AssetID, and two items may
have the same one, as in different applications. The event bus delivers to every
subscriber; notifications and the review of offers change no state that is modelled.

### ClientLifecycle

The threads are calls: of `Run`, of `ConnectAndLogin`, of a reconnect (`Client.Reconnect`
and the connector's `OnReconnect` share `Session.Reconnect`; the first goes on to
`EventAuthorize`, the second ends), of `RegisterModule`, and the first `Close`. Each step
that another goroutine can observe is an action: a look at the state machine (`CheckRun`,
`Enter`, `CheckRunning`, `CheckAuthorized`), its transition (`Transit`, `Authorize`,
`EventClose`), the start, authorization or stop of one module (`StartNext`, `AuthNext`,
`StopNext`; `todo[t]` are those the sweep has not come to), the spawning of a goroutine.
`active` holds who started which module that has not been stopped. `once` is
`refreshLoopOnce`: nobody, the goroutine inside, or done; a `sync.Once` makes others wait.

Abstractions. The orchestrator (`foundation/lifecycle`) is not in the repository: `StopAll`
stops what `StartAll` started and any of the modules started by `RegisterModule`, as it may
or may not count them, and succeeds: errors of `StopAll`, the timeout of a shutdown and a
failing `EventClose` are left out. Only the first `Close` acts, others wait for it. A module registered
late does not fail. The listener of `LoggedOnEvent` that `Run` spawns has no effect on this
state. A tick of the refresh loop is a matter of `SessionRefresh`.

### Heartbeat

`StartHeartbeat` is `CheckClosed`, `Install` (the section under `s.mu`: cancel the previous
one, store the new cancel function) and `Spawn`. A loop waits, sends on the connection of
that moment (`on[s]`), counts failures and, at the threshold, disconnects the connection of
*that* moment (`Terminate`). `Close` is its three steps. The connector dials, loses and
replaces connections; `Stall` is a link that hangs without an error: sends on it never
succeed. A select with both a tick and the end of its context takes either.

Abstractions. Intervals and timeouts are steps that may happen. The zero interval that
`time.NewTicker` refuses is not modelled (`docs/PARITY.md:147` says `StartHeartbeat` clamps
it; the only clamp is in the Authenticator's handler).

### SessionRefresh

Callers make one call each: `Reconnect`, a request through the router (`Perform`), or one of a
community client (`Visit`); the loop ticks for ever. `jar[w]` is the login cookie of the web
session `w` (`good`, or `bad`: none or expired), `auth[w]` its `isAuth`, `known[w]` whether it
was ever authenticated and so keeps a refresh token, `access` the access token of the clients.
`Reconnect` drops the web session, the next use makes another, so a goroutine may hold on to an
old one (`ob[t]`).

There are three renewers of one jar: `Refresh` of the Session, `ForceRefresh` of the loop, and
`WebSession.Refresh`, which the community client calls past the Session. Each has a single flight
of its own (`flight[k]` is its leader): a caller that finds one joins it and returns what its
leader returns (`Call`, `Lead`, `Land`). `Refresh` verifies first: `IsAuthenticated`, `SendVerify`
(which remembers what it sent) and the answer, which clears whatever the jar holds by then
(`Dead`); the session also counts as alive when the answer is none that `Verify` maps (`Alive`).
Then a token is asked for and set (`Generate`), and `Authenticate` is `Clear`, the seeding of the
cookies on the fast or the slow path, and `Mark`; `WebSession.Refresh` waits a second more
(`Settle`), and on the slow path renews the cookies only.

Access token and cookies expire apart or together (`Expire`). When the token alone has expired,
`Refresh` finds the cookies alive and returns nil, and the router repeats the request with the
token it was refused with (`resend`): a limit of the code, which `RetryIsRenewed` does not cover.
`clean` marks the leaders, and the refused requests they answer, in whose flight nothing has
expired so far; it is a history that no action looks at.

Abstractions. The model begins when a first `LogOn` has returned. A community client is made for
the web session of the moment; the WebAPI key and the single flight of `OnReconnect` are left
out, as are `StartAutoRefresh` and the retrying `REST`, which nothing in the repository calls.
Steam's token answers are not empty, and a token that was just granted is put in place before it
expires. The transfers of the slow path are one step, and so are the token's answer, the
assignments of `SetAccessToken` and the following look at `c.web`. `Close` is in
`ClientLifecycle`. Locals are forgotten when they are no longer used.

### ConfirmationPoller

`Start` is one critical section; `Stop` keeps the mutex (`mu`) until every loop has ended
(`StopReturns`). Users and the callback `OnConfirmation` call both, again and again. A loop
selects among its ends, the idle ticker and a trigger; a burst polls on a faster ticker until
its deadline, a stop or a poll that found something. `PollOnce` is `Fetch`, the callback, and
`Respond`, whose error is dropped. One pending confirmation stands for all.

Abstractions. Keys and times of the confirmations are left out; the deadline of a burst may
come at any tick; `AutoConfirmAll` is a callback that always accepts.

## 3. Runs

| Run | Instance | Shows |
|---|---|---|
| `auth_overlap` | two calls (account or anonymous), both transports, one dial | `InProgressHasOwner`; `LoggedOnHasHeartbeat`; `RetainedDetailsWiped` |
| `auth_reconnect` | one call, both transports, two dials, fairness | `LogonAfterHandshake`; `CallReturns` |
| `poll_restart` | two received offers, one loop per process, two times of the clock, one restart | `ChangesStayReachable`; `PublishedIsCurrent`; `ImplementsOfferStory` |
| `poll_overlap` | one received offer, two loops, three times of the clock, fairness | `AnnouncedOnce`; `PollingHasLoop`; `ActiveIsAnnounced` |
| `poll_cancel` | two sent offers, both cancellation rules, one loop, two times of the clock | `EachAnnouncedOnce`; `OldestCancelledFirst` |
| `reserve` | three callers, three assets, fairness | `LocksOwned`; `NoCircularWait`; `ImplementsAssetUse`; `LockItemsReturns` |
| `process` | two runs and a caller, two offers over the same two assets, queue of one, fairness | `LocksOwned`; `OfferInOnePlace`; `NoOrphan`; `ImplementsAssetUse`; `OffersLeave` |
| `client` | one module, one late module, one `Run`, login, reconnect and `Close`, fairness | `StartedIsStopped`; `AuthedAfterStart`; `NobodyMissesAuth`; `RefreshLoopLives`; `CloseReturns` |
| `heartbeat` | two `StartHeartbeat` calls, three connections, threshold two, fairness | `LiveIsReachable`; `LeftoverIsHarmless`; `StallIsNoticed`; `HeartbeatsGoOn`; `CancelledEnds` |
| `session` | two callers, of which one may reconnect and each may make a request or visit the community, the refresh loop, both login paths, one expiry, fairness | `FlightsHaveLeader`; `RetryIsRenewed`; `SessionRecovers`; `CallsReturn` |
| `confirm` | two users, two loops, room for one trigger, fairness | `LoopBelongs`; `RunningHasLoop`; `CallsReturn`; `ConfirmationsAnswered` |

One run ends in a counterexample, for a statement of the documentation that the code does
not keep: `poll_locks`. `manager.go:136` says "safe for concurrent use across all methods";
when two loops overlap, one may hold `m.mu` and want the queue (`poller.go:192`) while the
other holds the queue and wants `m.mu` (`canceller.go:118`, `offerheap.go:135`).

Observations from the models that are not runs of the project:

- `failLogin` cancels before it offers the error; a caller whose select takes the context
  returns without clearing the rejected token (`auth.go:502`, `auth_test.go:298-312`).
- A call that dialled a WebSocket, which it does not encrypt, sends its logon in the clear when
  the connection was lost and the reconnect loop has put a TCP connection in its place before
  `sendCMLogOn` (`auth.go:344`, `auth.go:408`).
- `SetEncryptionKey` acts on the connection of its moment (`handlers.go:95`) and the send that
  follows on the connection of a later one (`socket.go:366`). When the connection is lost and
  dialled again over TCP in between, the handler sends its logon in the clear, with TCP alone.
  `LogonAfterHandshake` excuses these two cases and no other.
- A sent offer can be announced twice (`poller.go:177`, `poller.go:255`; `events.go:19` says
  the event is for an offer that is new): an answer in which it still waits for its
  confirmation is applied after a newer one of another loop, later answers are glitched, and
  `gcKnownOffers` forgets it because it is not known as active. A received offer is never
  announced twice, which is what `AnnouncedOnce` says; neither is a sent one when no two
  answers are in flight at a time (`EachAnnouncedOnce`).
- The count limit looks at the offers in the queue only. An active offer that came in glitched
  answers, that was popped because all were too young, or that is known from before a restart,
  is passed over until an answer pushes it again; so `OldestCancelledFirst` compares the offers
  of the queue, at the moment a cancellation begins.
- A polling loop may apply an old answer after a newer one of another loop; a settled offer
  is then reported as active again (`trading/doc.go:16`). Polling implements `OfferStory`, which
  excludes it, when no two answers are in flight at a time.
- Two items of one offer with one AssetID, of different applications, make the worker wait
  for the lock it holds (`processor.go:292`, `trading/doc.go:47`).
- The processor and `SendOffer` lock assets in two tables, so an asset can be accepted away
  and offered at once (`processor.go:84`, `trading/doc.go:25-26`).
- A `TriggerPoll` that reaches a loop in its select after `StopPolling` causes one more poll
  (`poller.go:69`).
- An offer that is skipped because an asset is busy is never looked at again, although
  `doc.go:28` says "skipped until released" (`processor.go:181`).
- When the goroutine of a logon is the first in `refreshLoopOnce`, its loop runs on the
  context of the session. `Run`'s goroutine waits for the `Once`, `Close` waits for that
  goroutine, and only then would it close the session: `Close` never returns
  (`session.go:652`, `client.go:595`). `CloseReturns` excuses this state (`LogonHoldsLoop`).
- A request refused because the access token expired while the cookies live is repeated with
  the same token (`session.go:615`, `router.go:98`): `Refresh` verifies only the cookies.
- A community client's retry may go out with cookies that another renewer has just cleared,
  without any expiry: `Session` and `WebSession` do not share a single flight
  (`session.go:606`, `websession.go:350`).
- A heartbeat loop that was replaced while it sent may count that failure and disconnect the
  new connection (`socket.go:473`).
- `Stop` of the confirmation poller waits for the loop under its mutex, so a callback that
  calls `Stop` waits for itself (`guard/poller.go:149`); `CallsReturn` excuses it (`Stuck`).
- A poller whose context ended stays `running`; `Start` does nothing until `Stop` was called
  (`guard/poller.go:120`).

### Why the bounds are enough

- *Authenticator.* Overlap needs two calls; a third would only repeat the role of either,
  since the slots hold one call. One dial suffices for overlap because each call can use
  the connection the other made; two dials are needed only for the leftovers of a previous
  connection, which `auth_reconnect` has.
- *TradePoller.* Two offers are the fewest of which one can be glitched while the other moves
  the watermark, or of which one is older; two loops are the fewest that overlap. In
  `poll_restart` and `poll_cancel` the clock is coarse: a tick is longer than a poll, the
  overlap of the query and the age for forgetting (`MaxPoll = Slack = GCAge = 0`), so one tick
  lets an offer be settled and missed, leave the reach of a query, and be forgotten, and makes
  one offer older than the other. The steps of the canceller and those outside a poll take
  any time. `poll_overlap` has the finer clock, on which polls take a tick: an answer may be one
  tick old when it is applied, and the third time lets an offer be forgotten and met again.
  What the coarse clock leaves out, answers of any age, any overlap of the query and the
  minimum age of the count limit (`MinAge`), is covered by theorems about all values of these
  constants: `NothingLost`, `TellsTheStory` and `AnnouncedOnceApart` (under the conditions they
  name), `PublishedMatches` and `OldestFirst`. `MaxPoll <= Slack` says
  that a poll takes less than the 30 minutes the query overlaps the watermark. In the runs
  the behaviour is shorter than the 24 h window that is used while there is no watermark. When
  the first answers are glitched, or fail, for a day, the window leaves settlements behind: a
  limit of the code, listed as a hazard. Behaviours longer than the window are the subject of
  `NothingLost`.
- *ItemReservation.* Three callers and assets are needed for a ring of three; the theorem is
  about rings of any length.
- *ClientLifecycle.* One call of each kind meets every other; the registry needs one module of
  each kind. Two calls of `Run` exceed the time a run may take; the theorem about
  `StartedIsStopped` covers any number.
- *Heartbeat.* Two calls are the fewest where one replaces the other while it sends; with
  three connections a failure is counted on one, the heartbeat replaced on the next, and a
  third one served. With a threshold of two, one failure is forgiven.
- *SessionRefresh.* Two callers, of any two kinds, share a flight or hold two, and the loop has
  the third; a jar is shared by up to three goroutines. One expiry, of the token, the cookies or
  both, comes at every possible moment. More callers and expiries are covered by the theorems.
- *ConfirmationPoller.* Two users overlap in `Stop` and `Start`; a second loop would show a
  first that was left running. All counters are bounded by the code itself.
- *OfferProcessor.* The two workers meet on two assets that one offer gives and the other
  receives, so the orders of `isAnyItemBusy` and of `lockItems` differ; room for one offer
  makes the queue full.

Deadlock is checked in `reserve`. In the others the goroutines may all end (socket closed,
clock at its bound, context cancelled, client closed), and in
`confirm` the callback can wait for itself.

### Fairness

- `Authenticator`: weak fairness of the steps of a running call. Nothing is asked of the
  CM, the network or the caller.
- `TradePoller`: weak fairness of a loop's steps (goroutines run, the ticker fires), and
  strong fairness of a complete answer: a loop that keeps asking is not given glitched
  answers or errors for ever. `ActiveIsAnnounced` is false without it. Users owe nothing:
  they may stop and start as they like, and the property excuses a Manager that does not
  poll.
- `ItemReservation`: goroutines run and call their unlock function; a mutex that is free
  again and again is given to a waiter (Go's `sync.Mutex` hands over after 1 ms), which is
  strong fairness of `LockNext`.
- `ClientLifecycle`: calls that have begun go on, and goroutines run; a loop whose context has
  ended sees it. Nobody has to call anything.
- `Heartbeat`: loops and begun calls go on, tickers fire, `sendTimeout` ends every send. A
  select that can take `ctx.Done` again and again takes it in the end, as Go chooses at
  random (strong fairness of `Stop`). A `Close`
  that has begun goes on; nobody has to call it, and nothing is asked of the connector.
- `SessionRefresh`: who has begun goes on, and the ticker fires. That every question to Steam
  ends, with an answer or an error, is an assumption, and not one that `src` shows in every case:
  HTTP requests carry a timeout of 30 s (`websession.go:573`), but the context of the refresh loop
  has no deadline (`session.go:533`, `session.go:651`) and the dispatcher of the socket is given
  `MaxJobs` and a logger only (`socket.go:189-192`), so a lost answer to
  `GenerateAccessTokenForApp` ends only if the external library sees to it. `SessionRecovers` and
  `CallsReturn` hold under that assumption. Besides, Steam grants the loop a token, and finalises
  its login, if it is asked again and again (strong fairness); otherwise no session could be
  promised.
- `ConfirmationPoller`: the mutex and the loop are scheduled, a select takes what it can take
  again and again, and a confirmation that is fetched and accepted again and again is
  answered. The callback returns, unless it waits itself.
- `OfferProcessor`: workers and listeners run, and engine and executor return. `OffersLeave`
  excuses a time in which every run is yet to begin or is cancelled.

## 4. Proofs

`tlapm` checks every theorem below without unproved steps.

| Module | Theorems | Argument |
|---|---|---|
| `Authenticator_proofs` | `TypeCorrect`, `NeverStuck`, `LoggedOnIsAccepted`, `PasswordWiped`, `LogonsAreEncrypted`, `TcpLogonsAreEncrypted` | for `NeverStuck`: only `Begin` and `EnterLoggingOn` enter the in-progress states, both by a live call; a call becomes `done` only in `CheckTerminal`, which sees another state, or in `ForceFailed`, which leaves it. For `LoggedOnIsAccepted`: `Success` is fired only by a call that read "ok" from its channel, and "ok" is offered only after `StartHeartbeat`; so the invariant also speaks of the channel and of calls between reading and firing. For the rest see below |
| `TradePoller_proofs` | `PollerTypeCorrect`, `PollerAlive`, `AnswersAreSound`, `ReachInvariant`, `NothingLost`, `InWindowNothingLost`, `NothingLostAtFirst`, `PublishedMatches`, `ReceivedAnnouncedOnce`, `TellsTheStory`, `StoryIsTold`, `ToldForward`, `AnnouncedOnceApart`, `SingleLoopTells`, `OldestFirst`, `OneCancellation`, `TimeoutsInTime` | `AnswerInv`, `ReachInv`, `AnnounceInv`, `StoryInv`, `QueueInv` and `CancelInv`, see below |
| `ItemReservation_proofs` | `ReserveTypeCorrect`, `ReserveLocksOwned`, `ReserveNoCycle`, `ReserveNoDeadlock`, `ReserveImplementsAssetUse`, `ReserveExclusive` | `ReserveInv`: what a caller has is a lower part of its IDs (`LowerPart`). In a ring of waiting callers, whoever holds the greatest ID that is waited for waits for a greater one |
| `OfferProcessor_proofs` | `ProcessorTypeCorrect`, `ProcessorOnePlace`, `ProcessorNoOrphan`, `ProcessorLocksOwned`, `ProcessorNoRing`, `ProcessorNoDeadlock`, `ProcessorImplementsAssetUse`, `ProcessorExclusive` | `HasOffer` (a busy worker has an offer); `Owned` adds that a run without a worker holds nothing, that the items left in the loop belong to the offer, and that no asset is held twice; `Placed` adds that whatever is sent, queued or worked on is in `processing`, and `NoOrphan` is the converse; `LocksAscend` says that a worker holds the lowest of its assets |
| `ClientLifecycle_proofs` | `LifecycleTypeCorrect`, `CloseStopsModules`, `AuthorizedModulesRun`, `LateModulesAuthorized`, `RunningRefreshes`, `CloseGoesOn` | `LifeInv`, a part for each property, see below |
| `Heartbeat_proofs` | `HeartbeatTypeCorrect`, `OneLiveHeartbeat`, `NoSendAfterClose` | `BeatInv`: `Install` cancels the one live call, so when `Close` cancels the stored one nobody is left but a call that installs later, whose loop finds the socket closed; `Fresh` says that a call without a goroutine has sent nothing |
| `SessionRefresh_proofs` | `SessionTypeCorrect`, `FlightsAreLed`, `RetriesAreRenewed` | `FlightInv` is inductive: steps stay inside a flight (`MovingStep`), join or open one (`CallStep`), or land it with all its callers (`LandStep`); which flight a goroutine asks for does not change while it leads or waits (`KeyKept`). `CleanReady` follows those in whose flight nothing has expired: past the grant the access token is good, and no renewer makes it bad |
| `ConfirmationPoller_proofs` | `ConfirmTypeCorrect`, `OneLoop`, `RunningPolls`, `CallsNeverStand` | `PollerInv`: the mutex is held beyond a step only by a `Stop` that waits, and then nothing runs but the loop it told to stop |

The invariants behind `NothingLost` (`ChangesStayReachable` for all offers, loops, restarts
and lengths of the behaviour). `AnswerInv` holds without a condition: memory, the published
and the saved data know only what has been told; a poll in flight is younger than `MaxPoll`;
its answer differs from Steam's records only by what happened since it asked, or lacks
settlements from before the overlap. `ReachInv` follows what is not told: it is at most `Slack`
older than the watermark of that data, a poll that has asked is given it, and an answer has it
or a later poll will. `ChangesStayReachable` alone is not inductive, since it says nothing of
the answer a loop is about to apply, or of the data a restart restores. An old answer may take
back that a settlement was told, but only one so young that every poll in flight reaches it
(`UntoldStep`). The condition is `[]SettledInWindow`: while there is no watermark, nothing that
is not told leaves the window. It is needed, since only the clock brings a loss then
(`NothingLostAtFirst` has none, for behaviours no longer than the window, and is what
`poll_restart` shows on its instance), and the theorem says that nothing else loses a
settlement. `InWindowNothingLost` states it of `InWindowSpec`, whose steps keep the condition;
TLC had found it to hold with a window of two ticks in four.

`PublishedIsCurrent` uses that memory changes only in `Apply` and `Restart`, and that `Dirty`
sees every change but a forgotten offer.

`ReceivedAnnouncedOnce`. `Apply` announces an offer it does not know. An offer that was
announced and is not known was forgotten, and what is forgotten is not active in memory: for a
received offer, which never waits for a confirmation, it is settled (`SettledIsSettled`). The
hard part is an answer that was asked for before the settlement and still shows the offer as
active. It is younger than `MaxPoll`, and the offer was last seen settled more than `GCAge`
ago, so no such answer is left (`ForgottenIsSettled`, by `MaxPoll <= GCAge` and `AnswerInv`).
For a sent offer `NeverConfirmed` fails, and so does the property.

`TellsTheStory`, `ToldForward` and `AnnouncedOnceApart` are about all offers, and have the
condition `[]AnswersApart`: a loop applies its answer before another gets one. It is what a
single loop gives (`SingleLoopTells`, without a condition), and what overlapping generations may
break, as the observations above show; so the theorems say that nothing but such an overlap, no
glitched answer, garbage collection, late or restored poll data, tells a story backwards or
twice. `StoryInv`: what was told, what an answer shows and what Steam has lie in this order on
the path of an offer, and an offer that was announced is known until it has settled. The
refinement needs two facts about the poll data besides (`StoryData`): all that was told has
been published, so that a `Save` keeps it, and an offer told to be active is known as such, so
that one which is announced was not told to be active before. `StoryStep` then maps each action
to a step of the story or to none. `StoryIsTold` is proved of `OfferStory` alone, with an
invariant of its own (`StoryTold`), and holds of whatever implements it.

`OldestFirst` and `TimeoutsInTime`. Answers of any age are pushed on the queue in any order,
but an offer becomes active once, so the update time of an offer that *is* active is right
wherever it is found (`QueueInv`). What `Peek` takes is minimal among the valid ones, and an
offer too young to be valid is younger than one that is not. `OneCancellation`: `CancelInv`
says that `cancelling` is the union of what the loops are cancelling, one offer each.

`PasswordWiped`. `Succeed` wipes the details in the slot, which are those of the call or of
one that registered later; `WipedInv` adds that a call that succeeded is past the steps in
which it takes and stores details, so that none of its own come back. `LogonsAreEncrypted` is a property of steps. A logon is sent by a
call whose own connection was a WebSocket, or by a handler that has switched the key of a
connection; as long as no later one was dialled, the cipher is on (`KeyedIsCiphered`). So in the
clear it leaves only on a later connection than the handler's. `TcpLogonsAreEncrypted` says that
without WebSockets this second case is the only one.

`ReserveNoCycle`, `ProcessorNoRing` and the theorems after them assume that asset IDs are
bounded (`MaxID`; they are `uint64`), because the argument takes the greatest ID that anybody
waits for; that a bounded set of numbers has a greatest comes from the well-foundedness of `<`
on the naturals. In `OfferProcessor` two items may have one AssetID, so the ring's members
could only wait for this one asset, which has one owner. What remains is a worker that waits
for itself, the hazard at `processor.go:292`, and `ProcessorNoDeadlock` says that nothing else
does. In the same way `CloseGoesOn` says that the refresh loop of a logon is the only thing
that can keep `Close` waiting, and `CallsNeverStand` that only the callback of the confirmation
poller can keep its `Start` and `Stop` waiting. These are the safety half of `LockItemsReturns`,
`OffersLeave`, `CloseReturns` and `CallsReturn`: somebody can always go on.

`ReserveExclusive` and `ProcessorExclusive` are proved of `AssetUse` and carried over by the
refinement.

The parts of `LifeInv`. `SecondStop`: what a successful `Run` started is still to come in the
second `StopAll`, or is stopped; it needs `FsmFollows`, since a `Run` succeeds only in the
state `new` and the second `StopAll` begins after `closed`. `ModulesReady`: a `Run` between
`StartAll` and its transition has started what its sweep has passed. `Authorizing`: the sweep
of a login has still to come to a registered module, or the module's own call sees the state
that the login set. `OnceHeld`: `refreshLoopOnce` is done only when a context has ended, and
contexts end after the transition to `closed`. None of the properties is inductive alone:
each speaks of calls that have returned, the invariant of what they did before.

Assumptions: the named `ASSUME`s of the modules (types of the constants;
`NoAttempt \notin Attempts`, `NoOffer \notin Offers`; `Sent \subseteq Offers`;
`MaxPoll <= Slack <= Window`, `MaxPoll <= GCAge`; the kinds of callers disjoint;
a threshold of at least one failure; room for at least one trigger). TLC
evaluates them in the runs.

Types are proved for every detailed module. No run lists `TypeOK`: the theorems are its check,
made after TLC had checked it on the instances of the runs.

Only model-checked: the liveness properties (the prover has neither fairness nor `ENABLED`),
that is `CallReturns`, `ActiveIsAnnounced`, `LockItemsReturns`, `OffersLeave`, `CloseReturns`,
`StallIsNoticed`, `HeartbeatsGoOn`, `CancelledEnds`, `SessionRecovers`, `CallsReturn` and
`ConfirmationsAnswered`. Every other property of the passing runs is a theorem. Induction over
data is out of the prover's reach too, so a heap or a chain of middlewares would be checked by
TLC over bounded inputs. Theorems whose property no run lists (`SomebodyMoves`, `ToldInOrder`,
`NoWorkerRing`, `WorkersMove`, `CancellationsOwned`, `TimeoutsAreOld`, `CloseNotStuck`, `CallsGoOn`) were
checked with TLC, on the instances of the runs or smaller ones, before they were proved.

## 5. Plan

Done: `Authenticator`, `TradePoller` with `OfferStory`, `AssetUse` with `ItemReservation` and
`OfferProcessor`, `ClientLifecycle`, `Heartbeat`, `SessionRefresh`, `ConfirmationPoller`.

Left, in this order:

1. `Heartbeat` under `Authenticator`: the flag `heartbeat` of the one as the loops of the
   other.
2. `ClientLifecycle` with `TradePoller`: a reconnect does not call `StartAuthed`, so the
   Manager that stopped on a disconnect stays stopped; each login adds listeners.
3. `OfferWorker` (`pkg/trading/web/processor`): retries and the five second flag.
4. The array heap against the map of `TradePoller`; jobs of the socket and the game
   coordinator; the KeepAlive behavior as one more caller of `SessionRefresh`, which skips
   its check for ever once its refresh has failed, until the refresh loop has renewed.

## 6. Not modelled

Parsing, encoding, HTML, generated protocol code and cryptography: conversions without
state, whose only effect on the modelled parts is an error or a glitched offer. Generators,
examples, mocks and bots. Wrappers that forward a message to the event bus (account,
notifications, directory). Parts with state that have no module yet (the offer worker, the
game coordinator, friends and chat, the transports) are in the plan or in `PROJECT.json`.

By lines, nearly all of the repository is generated: the protobuf code under
`src/protobuf` and the API bindings are about 880 000 of its 915 000 lines of Go and have no
behaviour of their own to model. The share that the modules map is therefore small by any
count of lines; of the hand-written files that keep state and run concurrently, the map
covers the core.
