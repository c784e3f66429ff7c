# Formal models of the KotobaWorks API

KotobaWorks (repository `nihongo-bjt`) teaches Japanese: a Go API
(`apps/api-go`), web and admin front ends in Next.js, a Flutter mobile client,
PostgreSQL, Redis and Meilisearch.  This directory holds TLA+ modules for the
parts of it whose correctness depends on the order in which things happen, TLC
configurations that check them on small instances, and proofs that TLAPS checks for
every instance.

The realtime match engine comes first.  It is the part of the program where
goroutines, timers, browser tabs and database writes meet without a transaction
around them.  The Stripe webhook is second: there the database orders what the
network does not.  The queue of password reset requests is third: leases, retries
and workers that are late.  Then come the timed quiz with its page, where a browser
acts on what the server said a moment ago; the decision broker of the quality harness,
which must not run a consequential operation twice or unasked; and the battle page up to
the moment a match begins, whose connection comes and goes.

All paths below are relative to the repository; `H` is
`apps/api-go/internal/realtime/battle_handler.go` and `S` is
`apps/api-go/internal/realtime/battle_store.go`; `W`, `Q`
and `G` are `handler_webhook.go`, `password_reset_queue.go` and
`handler_quiz_session.go` in `apps/api-go/internal/httpserver`; `C` is
`apps/web/app/[locale]/quiz/_components/quiz-client.tsx`; `A` is
`scripts/quality/harness/lib/autonomy.mjs`; and `B` is
`battle-runtime-provider.tsx` of the web app.

## 1. Inventory

| Component | State | Operations | What is hard |
|---|---|---|---|
| Bot match engine (`H`, `S`) | room indexes `rooms`, `userActiveRoom`, `connToRoom` under `h.mu`; each `RoomState` under its own mutex; `battle_session` rows | challenge, answer, strike, countdown, round timer, settlement, completion, replacement, teardown | three kinds of goroutine on one room, no step holds both locks, every database write happens outside both |
| PvP match engine (same files) | `pendingChallenges`, `pvpRooms`, `userToPvpRoom`, `connToPvpRoom`; `PvpRoomState`; three timers for each room; the same table | challenge, decline, expiry, accept, answer, forfeit, lobby rejoin, absence, orphaned room | five ways to end a match race; absence is decided from a count taken earlier |
| WebSocket server and hub (`server.go`, `hub.go`) | connections by user and namespace | upgrade, read loop, write loop, run-once teardown | the teardown may start while a message handler is running |
| Lobby and chat (`H`) | lobby map, chat rate window | join, leave, send | nothing a match depends on |
| Presence (`presence_service.go`) | Redis hash of heartbeats, per-user lifecycle lock | online, offline, heartbeat, stale cleanup | cleanup reads the whole hash and deletes later |
| Battle administration (`handler_admin_battle_misc.go`) | `battle_session` | abort, rerun | writes rows behind the engine's back |
| Password reset queue (`Q`) and tokens (`handler_lifecycle.go`) | leased jobs, tokens | enqueue, claim, process, release, remove | a lease may expire while its worker is still working |
| Stripe webhook (`W`) | `billing_webhook_event`, `user_subscription`, `subscription_event` | ingest, deduplicate, apply in order | deliveries are repeated, reordered, concurrent |
| Sessions and sign-in (`session`, `authn`, `credential`, `authlink`) | session rows, rate-limit windows | create, touch, revoke, allow | the table of windows at its limit |
| Loto autopilot (`loto`) | prediction runs, published run | sync, publish, backtest | a check and a publication in two transactions |
| Quiz sessions (`G`, `C`, `handler_admin_i18n_quiz.go`) | `quiz_session` and `quiz_answer` rows, the study task; in each tab the question, the results, the countdown and the requests it waits for | start, active, question, answer, results, complete expired; load, navigate, resume, pick, continue, tick, expire; abort, extend, publish or archive a question | a page that acts on old views, answers that arrive late or outlive their page, whole seconds against half ones, an OFFSET into a list that changes |
| Decision broker (`A`, `execution.mjs`) | the journal `workspace.json` of decisions and consents, `workspace.lock` | request, answer, cancel, alternative, resume, the native permission hooks | killed between any two writes; effects whose outcome nobody knows; consents shared between decisions |
| Battle client (`B`, `go-realtime-client.ts`, `lobby-action-queue.ts`) | the socket, its reconnects, the queue of actions that wait for the lobby, what the page shows, timers | start, accept, challenge, decline, lobby, reset, reconnect | a connection lost between queueing and joining, timers that outlive their socket |
| Flashcard reviews | review states | review | idempotency keys, row locks |
| Background jobs (`jobs`) | cron entries, advisory locks | tick | two replicas at the same minute |
| Privacy requests, gamification | request states, streaks and counters | request, process, record activity | state machine edges; the day boundary |
| Other API packages, clients, data | mostly rows of their own | CRUD, rendering | no protocol state |

What makes them correct, in short:

* **Matches.**  A round is settled and scored once.  One goroutine drives a room
  at a time.  Only players act on a room.  The indexes agree.  A match that was
  played out is not recorded as abandoned by a replacement or a teardown.  A row that ended keeps its status.  Every
  match ends.  A crash leaves nothing that the next match does not clean up.
* **Presence.**  A user with a live heartbeat is never cleaned up.
* **Reset queue.**  An acknowledged request stays until its mail is sent or its
  attempts are used up; one worker has it unless one outstayed its lease; the table
  stays within its capacity.
* **Webhook.**  Each event is applied at most once, the newest wins, and an
  event that was not applied can be retried.
* **Quiz.**  A session that ended keeps its row and answers, and counts once for
  the study plan; the results on a screen are the server's own; a countdown never
  reaches zero before the server's clock, and then shows results; a learner is never
  left on a question that nothing takes away.
* **Broker.**  A decision is carried out at most once, and only under a consent for this
  operation and target that still stands; what was run with an unknown outcome is not
  asked for again.  (That it is not run again is wanted, and not so: section 6.)
* **Battle client.**  What a learner asked for is sent at most once and in order, and
  not after the page's own timer gave it up; an acceptance does not stay on
  "connecting" for ever.
* **Autopilot.**  It publishes at most one run per draw and never over a curated one.
* **Jobs.**  A tick runs on one replica.
* **Sessions.**  A revoked or expired session is never accepted.

`PROJECT.json` lists each component with its status, and the hazards with the
line where each one bites.

## 2. Plan

1. `MatchLedger`, the abstract specification of `battle_session` (done, proved).
2. `BotBattle`, refining `MatchLedger` (done, proved).
3. `PvpBattle`, refining `MatchLedger` (done, proved).
4. `SubscriptionFeed` and `StripeWebhook`, which implements it (done, proved).
5. `PasswordResetQueue` (done, proved): leases, attempts, late release.
6. `QuizSession` (done, proved): rows, requests and tabs in one module, since what is
   hard lies between the page and the rows.
7. `DecisionBroker` (done, proved).
8. `BattleClient` (done, proved): what is sent to the engines, and when.
9. Left: `LotoAutopilot`, `Presence` and the rate limiter.
   Flashcard reviews, jobs, privacy requests and streaks come last: row locks or single
   statements decide their interleavings.

The two engines share the table `battle_session` and no memory.  The one
operation that could disturb the other engine is the sweep
`AbandonInProgressForUser`, and its `WHERE` clause leaves PvP rows alone.  So
they compose through `MatchLedger`, which both implement, and not in one module.
The battle client meets them on an open socket only, where the engines may answer
anything: `BattleClient` takes a server that does.

## 3. Modules

| Module | Contents |
|---|---|
| `MatchLedger` | what the rows of `battle_session` promise, whatever the engine does |
| `BotBattle` | the bot match engine, its properties, the refinement mapping |
| `BotBattleInv` | the inductive invariant, so that TLC and TLAPS use the same text |
| `BotBattleProofs` | types, the inductive invariant, safety of rounds and rows, the refinement; then owners, indexes, the progress of registered rooms and the retirement of orphans |
| `MatchLedgerProofs` | the ledger's own invariant and the finality of results |
| `PvpBattle` | the PvP match engine, its properties, the refinement mapping |
| `PvpBattleProofs` | types, the inductive invariant, safety of rounds, timers and rows, the refinement; then a second invariant on top of it: who moves a match on and who ends it, and what its players are told |
| `SubscriptionFeed` | what the webhook promises: an event is consumed once, and in one step |
| `StripeWebhook` | the webhook's handler by database statements, its properties, the refinement mapping |
| `StripeWebhookProofs` | types, the inductive invariant, every safety property, the refinement |
| `PasswordResetQueue` | the leased table of reset requests and its workers, with its properties |
| `PasswordResetQueueProofs` | types and every safety property |
| `QuizSession` | the quiz handlers, the administration, and the tabs of a learner |
| `QuizSessionProofs` | types and every safety property |
| `DecisionBroker` | the journal of decisions, its lock, and the commands that work on them |
| `DecisionBrokerProofs` | types and every safety property |
| `BattleClient` | socket, queue and flows of the battle page, with its properties |
| `BattleClientProofs` | types and every safety property |
| `MCBotBattle`, `MCPvpBattle`, `MCStripeWebhook`, `MCQuizSession`, `MCDecisionBroker` | small instances: who is behind each tab, symmetries; when events were created; which questions are published; what requests execute |

Definitions whose name starts with `bug` are mistakes that could be made in the
definition that follows them.  No specification uses them.  They are there to
see that each property notices some mistake of the code.

### 3.1 Grain of the steps

A step is what one goroutine does between two boundaries: taking a lock, giving
it back, a database call, a timer or a spawned goroutine.  Two sections are
merged into one step only where nothing in between can be observed:

* An index lookup under `h.mu` followed by a check of the room's status under the
  room's mutex is one step where the second check would reject whatever could
  have happened in between: an answer to a bot room (the goroutine that removed
  the room is about to finish it), and every lookup in `pvpRooms` (a PvP room
  leaves that map only after it has ended).
* `handleChallengeBot` reads the bot and the configuration first and writes
  nothing until the previous room is removed under `h.mu`: one step.
* Registering a room and spawning its countdown are one step: the goroutine
  begins with a sleep.
* `hub.Unregister` is merged with the first section of `OnDisconnect`.
* A challenge's expiry timer is armed just before the challenge is stored and
  runs for tens of seconds, so it is armed exactly while the challenge is pending.

### 3.2 BotBattle

| TLA+ | Code |
|---|---|
| `rooms`, `userActiveRoom`, `connToRoom` | the maps of `BattleHandler` |
| `status`, `currentRound`, `userScore`, `opponentScore`, `strikes`, `idempotency` | `RoomState` |
| `timers` | armed `RoundTimer`s; `Stop` removes one, a callback already started is a task |
| `tasks` | goroutines of a room: countdown, round timeout, settlement, completion |
| `handler[c]` | where the message handler of a connection is; one at a time, as in the read loop |
| `closer[c]` | where the teardown of a connection is; it may overlap with its handler |
| `session`, `storedScore` | `battle_session.status` and its two scores |
| `announced` | matches whose `battle:finished` was sent |
| `ChallengeBot` ... `RegisterRoom` | `handleChallengeBot` with `abandonPreviousBotRoomForUser` and the store calls, in order |
| `StrikeAnswer`, `AcceptAnswer` | `settleBotRoundAnswer`, `handleInvalidBotStrike` |
| `Countdown`, `BeginRound`, `TimerFires`, `SettleTimeout` | `runBotCountdownThenRound`, `beginBotRound`, `settleBotRoundTimeout` |
| `FinishStart` ... `FinishCleanup` | `finishBotRound`, cut at its locks and writes |
| `DisconnectUnregister`, `DisconnectEnd`, `DisconnectMark`, `SocketCloses` | `OnDisconnect` and `closeConn` |
| `AdminAbort` | the admin handler; it writes the row and tells nobody |
| `Crash` | the process dies: memory is lost, rows stay |

The identity of a match stands for both its room code and its session id: both
are made from fresh random ids.  `UserOf` is a constant, as the token binds a
connection to its user at the upgrade.  Answers that do not match the user, the
round or an option form one class, "invalid": the code counts a strike for each.
The branches for a question without a correct option are dead, since the pool
loader leaves such questions out.  A connection that closed is not used again
before a crash (browsers open a new one).  The counters of a room lost in a crash
keep their last value as a record for the properties, and no action reads them.

### 3.3 PvpBattle

| TLA+ | Code |
|---|---|
| `pending` | `pendingChallenges`, each with its expiry timer |
| `pvpRooms`, `userToPvpRoom`, `connToPvpRoom` | the maps of `BattleHandler` |
| `acceptor`, `challenger` | `UserID` and `OpponentUserID` of the room and of the row |
| `roundAnswers` | `RoundAnswers`: an answer counts once for each player |
| `roundTimers`, `abandonTimers`, `absentTimers` | the three timers of a room |
| `told` | verdicts sent to the players: `battle:finished` and the abandonment events |
| `AcceptChallenge` ... `RegisterRoom` | `handleAcceptChallenge`: both previous rooms abandoned, marked and cleaned up in turn, then the new one |
| `LobbyJoin`, `JoinCheck`, `JoinRemember`, `JoinForget`, `JoinResync` | `handleLobbyJoin`, cut at each of its locks |
| `PvpAnswer`, `PvpForfeit` ... | `handlePvpAnswer`, `handlePvpForfeit` |
| `BeginRound`, `RoundTimerFires`, `SettleTimeout`, `FinishRound`, ... | `beginPvpRound`, `settlePvpRoundTimeout`, `finishPvpRound` |
| `Disconnect`, `DisconnectSettle` | the PvP part of `OnDisconnect`: the count of connections is taken under `h.mu` and used under the room's mutex |
| `AbsenceCheck`, `AbsenceAbandon`, `AbsenceMark`, `TaskCleanup` | `abandonPvpRoomIfOrphaned`, `tryAwardPvpWinForAbsentOpponent`, `abandonPvpRoom`, `cleanupPvpRoom` |

`RoundAnswers` rejects every second answer of a player, so the idempotency map of
a PvP room never decides anything and is left out.  `RoomLeft` is a bound: no
challenge is sent once the match identities of the instance are used up.

### 3.4 MatchLedger

A match is opened, plays rounds, saves its running score now and then, and ends
once: completed after its last round with the score that was shown, or
abandoned.  Both engines implement it (`ImplementsLedger`): `session` is the
status, `round` is `currentRound`, `score` is what the players see, `stored` is
what the row holds and `announced` is what was sent.

### 3.5 StripeWebhook

| TLA+ | Code |
|---|---|
| `webhook[e]` | the row of `billing_webhook_event` with the event's idempotency key: absent, or its status |
| `shows[s]` | the `user_subscription` that carries the `provider_ref`: the event whose status and period it holds, `NoEvent` as it was linked or edited, `Unlinked` without a row |
| `rows[e]`, `applied` | rows of `subscription_event` for the event, and whether they say `"applied": true` |
| `req[d]` | a request: the next statement of its handler, its event, and `eventCreated > latestCreated` once that was read |
| `acked` | events answered with 200 |
| `Deliver` | the handler up to `r.Context()`: everything that can be refused without touching the database |
| `Ingest`, `CheckDuplicate` | `ingestWebhookEvent`, and the branch for `errDuplicateWebhook` |
| `LockEvent`, `FindSubscription`, `ReadLatest`, `Apply` | `applyStripeSubscriptionEvent`, by statement |
| `Answer`, `Fail` | 200, and every other way a request ends |
| `EditSubscription` | the administrator's PATCH and change of plan, the learner's cancellation, and the linking of a subscription, which nothing in this repository does |

A transaction writes only in its last three statements and shows nothing before its
commit, so these and the commit are one step.  The locks are not variables: a
request holds what its place in the transaction says (`EventLocked`,
`SubscriptionLocked`).  The lock on the event's row after it was found processed is
released by the statement that follows and blocks nobody for long; it is left out.
A `COALESCE` keeps the period an event does not mention; the model follows whole
events.  One row carries a `provider_ref`.

### 3.6 SubscriptionFeed

Events are consumed one at a time, each at most once and only for a linked
subscription; a consumed event shows if it is newer than all of that subscription
consumed before it.  `StripeWebhook` implements it with `consumed` as the events
marked processed.

### 3.7 PasswordResetQueue

| TLA+ | Code |
|---|---|
| `enqueuing[j]` | `Enqueue`: advisory lock, counting insert, commit, answer |
| `queue`, `attempts`, `lease`, `resting` | the committed rows, `attempts`, `claimed_at` against the minute, `available_at` against now |
| `worker[w]` | a worker of any process: the statement that comes next, and the job it holds in memory |
| `Claim` | `claim`, and the first test of `processClaimed` |
| `Process` | `process`: it succeeds (mailed, or nobody has the address) or fails |
| `Remove`, `Release` | `remove` and `release`, which match the row by its id alone |
| `WorkerFails` | the process dies, or the last statement fails and the row stays claimed |
| `LeaseExpires`, `Stall` | a minute passes; without a stall nobody works that long (10 s for `process`, 2 s for the statement after it) |
| `runs`, `settled`, `stalled` | records for the properties |

A row that was deleted keeps its `attempts` as a record.  `SKIP LOCKED` makes "the
oldest row" the oldest that no other statement has locked, so any claimable row may
be next.  A shutdown cancels the context of `process`, which to the table is an
attempt that failed; five restarts in a row may use up a request's budget without a
mail, and `AcceptedIsKept` allows it.

### 3.8 QuizSession

| TLA+ | Code |
|---|---|
| `row`, `answered`, `elapsed`, `progress` | `quiz_session`, `quiz_answer`, the time since `started_at`, the learner's study task |
| `page`, `shown`, `results`, `left`, `picked` | the page a tab is on and the React state of `C` |
| `call[t, f]` | the request a flow of a tab waits for: how far its handler has come, and then its answer |
| `StartAssessmentQuiz`, `PickActive`, `LoadQuizSession`, `ReturnQuestion`, `ReturnResults` | the handlers, by statement |
| `CompleteExpired` | `completeExpiredQuizSession`: a transaction that looks at the status again |
| `RefuseAnswer`, `ExpireOnAnswer`, `RecordAnswer` | the answer handler: one transaction under the row's lock |
| `AbortSession`, `ExtendTime`, `EditBank`, `LoseEntitlement` | the administration, the question bank, the subscription |
| `Load`, `ApplyActive`, `ApplyResume`, `Start`, `ApplyStart`, `Pick`, ... | the effects and handlers of the page, and what they do with an answer |
| `Mounts`, `Navigates`, `Follow` | the state of a page begins anew; `router.replace`, links, back and forward |
| `call[t, "gone"]`, `ApplyGone` | a request of a page that the tab has left, and the code that still waits for it |
| `Tick`, and the effect at zero | `setInterval`, and the effect that asks for the results |
| `Fault` | a request that fails, or whose answer is lost |

Time is counted in half seconds, the coarsest unit in which rounding to whole seconds
can go wrong, and a `Tick` is half a second for the rows and for every countdown.  A flow is
what may be in flight at a time: mounting, an answer, the end of a countdown, the start
of a quiz.  A view is what the server said; when it arrives the rows may have moved on.

Loading the page again (`Load`) forgets its state and its requests: the browser drops the
connections, and a request's context is cancelled with its connection; that a handler may
write once more is what a request of another tab does.  Navigating within the application
is different.  `learnerApiFetch` has no abort, and the 250 ms before an answer is sent
(`C:1643`) are not cut short either, so a request that the page has begun is carried out,
and the code that waits for it goes on: it may ask for the next question, or send the tab
to the other page, but the state it sets is that of a page nobody sees.  `Navigates` puts
such a request into the flow `gone`.  Two bounds: of the requests that a tab has left
behind one is followed (`Matters` says which are worth it: not those whose answer would
only be read), and `Lingers` says whether an instance follows any.

### 3.9 DecisionBroker

| TLA+ | Code |
|---|---|
| `status`, `about`, `grantOf` | a decision: its status, its task, action and target fingerprint, its `grant_id` |
| `SameRun`, `MayRequest` | the test of `newDecision` (`A:56`): equal effect and target fingerprint, whatever the task and scope; a request is refused beside such a run |
| `scope`, `consumed` | consents, by the decision that minted them |
| `alternative` | `execution: "alternative"` |
| `lock` | `workspace.lock`, and which write comes next for the command that created it |
| `live` | what `observeTarget` finds now |
| `DecisionRequest`, `NativeDecision`, `NativeOutcome`, `Approve`, `Cancel`, `Resume` | the commands and hooks, up to `resumeDecision` |
| `BeginAlternative` ... `RecordOutcome` | `resumeDecision`, an action for every write of the journal and every effect |
| `Crash`, `Reconcile`, `TargetChanges` | the process is killed; a person removes the lock; the target is replaced, or put back and regains the identity it had |

### 3.10 BattleClient

| TLA+ | Code |
|---|---|
| `ws`, `attempts`, `stable` | the socket of `createGoRealtimeClient`, its reconnects, its stable timer |
| `joined`, `queue` | `lobbyJoinedRef`, `pendingLobbyActionsRef` |
| `status`, `challenge` | what the page shows as connecting, and the banner |
| `expiry`, `cleanups` | the timers of acceptances, and the listeners that would clear them |
| `Opens`, `Closes`, `Reconnects`, `StableTimerFires`, `Reset` | the socket, and the provider's effect |
| `ConnectAndStart`, `AcceptPvpChallenge`, `AcceptChallenge`, `ChallengeUser`, `DeclinePvpChallenge`, `GoToLobby` | the flows |
| `LobbyJoined`, `MatchFound`, `Settled`, `ChallengeReceived`, `ChallengeGone` | events |
| `LobbyTimeout`, `AcceptTimeout` | ten seconds in the queue, eight after an acceptance |
| `made`, `wire`, `givenUp` | records for the properties |

`givenUp` is what the page's own timers gave up, what a new client dropped and what was left
behind for the lobby.  A failure that the server reports (`Settled`) leaves the queue alone,
as in the code, and is not counted.

## 4. Runs

| Run | Instance | Shows |
|---|---|---|
| `BotRounds` | 1 learner, 2 tabs, 1 room, 2 rounds, strikes, failing writes, admin abort, one tab leaves | every round is settled once and by one goroutine; rows behave as the ledger says; every match ends |
| `BotTabs` | 1 learner, 2 tabs of which one closes, 2 rooms, 1 round, crash | replacement, teardown and crash: no stranded room, indexes agree, played-out matches are spared, orphans are retired |
| `PvpRounds` | 2 learners, 1 room, 2 rounds, right and wrong answers, admin abort | rounds are scored once; two answers end the round; rows behave as the ledger says; every match and every session ends |
| `PvpAbsence` | 2 learners who both may leave, 1 room, 1 round that its timer ends | one goroutine ends a match; one verdict is told and stored; timers are of the present |
| `PvpReplaced` | 2 learners who may accept each other's challenge at once, 2 rooms, 1 round that its timer ends, failing writes, crash | new challenges replace matches, or two matches of the same learners stand side by side; no stranded room; indexes agree; played-out matches are spared |
| `Webhook` | 1 subscription, 3 events (one older, two of the same second), 2 requests at a time, 1 failure | events are recorded once and consumed in order; 200 means committed; every event of a linked subscription is processed |
| `ResetQueue` | 2 requests, capacity 1, 2 workers, 3 attempts, 3 faults | capacity and budget hold; no acknowledged request is lost; one worker each, short of a stall; every request leaves |
| `Quiz` | 1 tab, 1 session, 3 questions of which the first begins as a draft, 2 seconds, an official test, an administrator, 1 edit of the bank, 1 fault | counts and results agree with the rows; a countdown at zero means the end and shows it; what was decided stays |
| `QuizLinks` | 1 tab, 1 session, 3 questions of which the first begins as a draft, 2 seconds, 1 edit of the bank, requests that outlive their page | a learner can go on, although late answers and navigations of pages that were left arrive at any time and the bank is edited |
| `Broker` | 2 tasks, a narrow and a wide request for the same effect, a tool call, 2 decisions, a target that is replaced and put back, crashes anywhere | no decision is carried out twice or without a standing consent; what was run with an unknown outcome is not asked for again |
| `BrokerRetry` | as `Broker` | violation, see section 6 |
| `Client` | an attempt of each kind, 1 reconnect in a row, 2 resets | sent once and in order, not after the page gave it up; an acceptance ends |

`RoundIntegrity`, `RoomsAreHeld`, `OneEnding` and `BoundsHold` are conjunctions of named
parts that their modules state one by one: what a round needs (one driver, one score, its
own settlement), what a registered room needs (progress and indexes that agree), what the
end of a match between learners needs (one goroutine, one verdict, a row that says the
same), and the queue's capacity and budget.  `CountsAgree` says the same of a quiz's row,
its answers and the study plan.

**Bounds.**  Two rounds are the fewest that have a round that is not the last, a
timer of an earlier round and a running score in the row; one round is enough
where the question is who ends a match.  Two rooms are the fewest in which a
match replaces another; there is no step that involves three.  Two tabs are what
lets a learner be in two handlers at once.  `MaxStrikes` bounds the strikes of a
room and `StrikeLimit` is lowered with it so that the limit is reached.
`Outcome` bounds the answers explored: it is `{TRUE}` where nobody asks who won,
since points never influence control, and empty in `PvpAbsence` and `PvpReplaced`, where
nobody answers: the two answers and the round timer hand a round to the same `finish`
goroutine, and a second player who leaves, or a second match, is what these runs are
about (with answers `PvpAbsence` has four times the states and passes; `PvpReplaced` was
checked with answers and without faults, 6.8 million states; and, as in the cfg, once against
the ledger, which `PvpRounds` compares without failing writes).  `Leaving` says which tabs
close.
`StoreFails`, `AdminAborts` and `Crashes` switch the faults on where the run is
about them; the verdict's part of `OneEnding` needs them off, as a failed write is only
logged, and `PvpRounds` leaves failing writes out for the same reason: the session of a match
whose last write fails stays open, though the match ends.  Nobody leaves in `PvpRounds`: what
the departure of a player arms are timers that end a match sooner, and that no registered
room waits for nobody is checked with replacements and proved with departures.  `Webhook` and the quiz's runs are checked for deadlock; the other runs
say `CHECK_DEADLOCK FALSE`: once their match identities, requests, decisions or attempts
are used up and nobody is left to act, the system really stops.

`Webhook` has two requests, since every lock has at most two sides; three events are
the fewest with an older, a newer and a tied one; events of different
subscriptions meet nowhere in the code.  One failure strands an event once; more
failures strand it again in the same places.

`ResetQueue` spends its states on one request at a time (three faults can hit each of
its three attempts), since requests meet only at the capacity; an instance with two
places, three requests and one fault was checked as well.

`Quiz` has three questions, so that one is published before the others, one is answered
and one is left when the bank is edited; two seconds are the shortest time in which a
countdown ticks and is not over at once.  Its four flows make the requests of one tab race
with each other.  What several tabs do to the rows is proved for any number of them.
`QuizLinks` is about navigation, and leaves the administrator and the fault out.  Its three
questions are those of `Quiz`: one is published by the edit while an answer of a page that was
left is on its way.  The properties of `Quiz` are checked there without lingering requests,
and once, in an instance of two questions, with them; the safety properties are proved with
lingering requests, edits, the administrator and faults at once.

`Broker` has the requests that differ in what consents look at: the same effect asked for
narrowly and widely, and a tool call that only its host permits.  Two decisions are the
fewest that share a consent or an effect, two identities of the target the fewest of which
one comes back; the proofs are for any number.  `Client` makes each kind of attempt once: two of a
kind differ from two of different kinds by nothing the queue or the timers look at.

**Symmetry.**  Used in runs without liveness properties only.  `BotTabs` exchanges the
rooms, not the tabs, since one of them closes; `Broker` and `BrokerRetry` exchange tasks and
decisions.  `PvpAbsence` and `PvpReplaced` exchange the rooms and the two learners, each of
whom goes by the same model value as their tab, and `PvpReplaced` the challenges.

**Fairness.**  Weak fairness of each handler, teardown, round timer and room
goroutine: Go runs what is runnable, timers fire, and database calls return (each
has a context with a deadline or fails with the connection).  Learners and administrators
owe nothing: nobody has to answer, and tabs may stay open for ever.  Nothing is assumed
about the absence timers, since players may come and go and clear them again and
again; a match ends by its round timers alone.
The webhook has strong fairness of each request and of the deliveries of an event
that was not answered with 200: PostgreSQL grants a row lock to those who wait for
it in turn, and Stripe repeats an event until it is accepted (for days, which the
model takes for ever).
The reset queue has weak fairness of each worker and of time (the pause after a failed
attempt, the lease of a worker that is gone).
The quiz has weak fairness of time, of each request's next statement and of each tab's
reactions to answers and to zero; neither the learner nor the administrator owes a step.
`LearnerCanGoOn` and `CountdownShowsResults` are stated short of what the page does not
handle: an aborted session, a lost entitlement, a failed request; and `CountdownShowsResults`
also short of a bank that was edited.
The battle client has weak fairness of the acceptance's timers and of reconnects; servers,
networks and learners owe nothing.


## 5. Proofs

The theorems about matches hold for any sets of learners, tabs and rooms, any
`TotalRounds > 0` and, but for the two that say otherwise (`OrphansAreRetired` and
`EndsAsTold`), any combination of faults; the assumptions are the named
`ASSUME`s of `BotBattle` and `PvpBattle`.  (The bounds `MaxStrikes`, `Outcome` and
`Leaving` are constants too, so they may be as large as one likes.)  `PvpBattle` asks
that the tabs be finitely many, since a teardown counts them.

* `BotBattleProofs`: `TypeCorrect` (`Spec => []TypeOK`) and `InvariantHolds`
  (`Spec => []IInv`).  `RoundIntegrity` is not
  inductive: it says nothing of the goroutines that are about to score.  `IInv`
  says for every kind of goroutine what it may rely on (`TaskPhase`,
  `HandlerPhase`, `CloserPhase`), that a room in memory has at most one driver
  (`OneDriver`), that no goroutine survives outside memory (`InMemory`), that rows have
  owners, and that a match that is not over has rounds left (`RoundsLeft`).  Each action
  preserves each part; the argument is that whoever moves a room from "question" to
  "resolving" does so under the room's mutex and becomes its only driver, and that
  every later section of that driver checks "finished" before it writes.
  From `IInv`: `RoundsAreSound` (`RoundIntegrity`), `PlayedOut`, `PlayedOutIsSpared`,
  `TerminalIsFinal`, and `EngineImplementsLedger` (`Spec => ImplementsLedger`): scoring
  maps to `PlayRound`, `PersistRound` to `SaveScore`, completion to `FinishMatch`, marks,
  sweeps and aborts to `AbandonMatches`, everything else to a stutter.
  `OnlyOwners` and `RoomsHold` (`RoomsAreHeld`) are each inductive on top of `IInv`.
  `OrphansAreRetired` (`NextMatchRetiresOrphans`) assumes that the write of the sweep does
  not fail (`~StoreFails`), since a failed one is only logged.  Only a crash orphans a match
  (`OnlyCrashOrphans`) and it starts every handler anew; and only the sweep, which leaves
  none of the learner's matches in progress (`SweepRetires`), brings a handler to the
  creation of the next.
* `PvpBattleProofs`: `TypeCorrect`, and `InvariantHolds` for an `IInv` that follows a
  match from its row to its room.  Between the transaction that creates the row and the
  lock under which the room is registered, one handler alone knows of the match
  (`RegistersApart`, `Fresh`); afterwards whatever holds its name holds that of a room in
  memory (`IndexFits`, `HandlerFits`, `TaskFits`); there is at most one driver and none
  beside a question (`DriverFits`); a question waits for somebody (`RoomFits`); and timers
  are those of the present (`TimersFit`).  Two lemmas carry most steps: `CalmStep` for those
  that change no room, `RoomStep` for those that change one.  From it `RoundsAreSound`
  (`RoundIntegrity`), `TimersArePresent`, `PlayedOut` and `EngineImplementsLedger`.
  `MatchesAreHeld` is a second invariant, `JInv`, on top of `IInv`.
  `MoverFits` names who will move each match on, `EndFits` who is on the way to remove one
  that is over: one goroutine, or one handler, and for any other match nobody.  The
  argument is that a match ends under its room's mutex, by the step that finds it not over
  (`LiveIsHeld`: then nobody is removing it), and that this goroutine or handler stays the
  only one until `cleanupPvpRoom`.  Telling the players is one of its steps, so a match is
  `Untold` until then and told once (`VerdictFits`); and as it is `Untold` until then, the
  row is still open unless a write failed or an administrator closed it (`RowFits`).  From
  it `RoomsStayHeld` (`RoomsAreHeld`), `OneEndsIt` (`EndedByOne` and `OneVerdict`, under
  every fault) and `EndsAsTold` (`OneEnding`, when writes do not fail and administrators do
  not abort).
* `MatchLedgerProofs`: `LedgerInvariant` (a completed row was played out and holds
  the score that was shown) and `ResultIsFinal` (an ended row stays as it is).
  With the refinements they hold of the rows of both engines.
* `StripeWebhookProofs`: `TypeCorrect`; `InvariantHolds`, whose `IInv` adds to the
  safety properties of the run that events are applied in order (`AppliedInOrder`),
  what a request may rely on at each statement (`RequestPhase`) and that row locks
  exclude each other (`LocksExclude`).  The one
  step that is not quiet is `Apply`: its request holds both locks, so that nobody
  else recorded an event of the subscription since it read the latest one.  From it
  `EventsRecordedOnce`, `EventsAppliedInOrder`, `SubscriptionIsCurrent`,
  `OnlyProcessedAcked` and `WebhookImplementsFeed` (`Spec => ImplementsFeed`).  They
  hold for any events, subscriptions and numbers of requests and failures; assumed
  is that `event.created` is positive, which the handler checks.
* `PasswordResetQueueProofs`: `TypeCorrect`; `QueueIsBounded` (`BoundsHold`): the budget
  by counting (`Counted`: times worked on plus workers about to work never exceed the
  attempts nor the budget), the capacity because one transaction at a time has counted
  and not yet committed (`LockHeld`); `LeaseExcludes` (`LeaseCovers`: who has a job is
  covered by a running lease or outstayed one); `AcceptedAreKept` (`Reasons`: a worker
  about to delete a row has a reason that is on record).  They hold for any finite
  sets of requests and workers, any capacity, budget and number of faults.
* `QuizSessionProofs`: `TypeCorrect`, `CountsHold`, `ResultsShownAreStored`, `ZeroIsOver`
  and `DecidedStays`, for any finite set of sessions and any tabs, questions, limit, edits
  and faults.  `IInv` has three parts.  `RowsFit`: rows count their answers, and the study
  task the completed rows.  `CallsFit`: what a request may rely on.  A view may be old but
  has not become wrong in the direction that matters: its session is known, its time left
  plus the time that has passed is at least the limit, and if it says "completed" its
  numbers are the row's.  `TabsFit`: the same of a screen, whose countdown belongs to one
  session.  The argument is monotonicity: `RowsStep` says that sessions stay known, time
  only passes and what was decided stays decided, so that what one tab believes is kept
  by whatever another tab or the administrator does.  This is where rounding up matters: `2 * Remaining >=
  limit - elapsed` is what lets a countdown reach zero no earlier than the server.
  `LearnersGoOn` (`LearnerCanGoOn`) is for any number of tabs, with edits of the bank and
  pages that are left.  The property is far from inductive, since a countdown may be stopped
  by one request and its question taken away by another two requests later.  `KInv`, on top
  of `IInv`, says of every request of a tab what it leads to (`LeadsOn`): the one a countdown
  asked for comes back completed, since `ZeroMeansOver` says that the server's time is up
  when it is sent (`ExpiryFits`); a question comes with time left, so that showing it starts
  a countdown (`ResumeFits`); an answer that is told "expired" was of a session that is
  completed by then (`LateFits`), so that the results asked for next are there
  (`ResultFits`).  A tab with a question is `Going` as long as one of them, its countdown or
  results are left.  What a page that was left still does cannot undo this: it shows nothing,
  and navigates at most, which begins a tab anew.
* `DecisionBrokerProofs`: `TypeCorrect`, `DoneOnce` (`CarriedOutOnce`), `AskedOnce`
  (`OneOpenPerRequest`), `RetriesAreInformed` (`RetriesAreNotAskedFor`) and
  `ConsentPrecedesRun` (`RunsAreConsented`), for any tasks, requests, decisions and
  identities.  The invariant is about the one command that holds the lock: what it has
  written before an effect (`LockFits`) says after a crash that the effect may have happened,
  so what can still be resumed was never carried out (`Untouched`); a new decision therefore
  finds every run of unknown outcome by its status, and is refused beside it.  Since taking a
  consent back consumes it, and needs the lock, the consent looked at before the write stands
  at the effect (`ConsentStands`); the identity of the target is known to be the one agreed
  to at the write only.  `AskedOnce` tells requests apart by their scope, as the code's digest
  does, and says nothing of two requests with the same effect; it is a part of the invariant
and no run checks it.

* `BattleClientProofs`: `TypeCorrect`, `SentOnce` (`SentOnceInOrder`), `NotSentAfterwards`
  (`GivenUpIsNotSent`) and `AcceptanceIsTimed`, for any attempts, reconnects and resets;
  assumed is that an attempt is of one kind.  `IInv` has three parts.  `LineFits` is about
  one line, what was sent followed by what waits: it is a part of what was made, in its
  order.  A click appends to both, a flush moves the border between sent and waiting, and
  a failure, a timer or a new client takes entries out (`FollowsAppend`, `FollowsThinned`,
  `FollowsDropped`); what waits is waiting for the lobby.  `FlowFits`: what was given up and
  still waits is the acceptance of a link, whose timer leaves the queue alone, which is the
  exception `GivenUpIsNotSent` makes; and an acceptance shown as connecting has its timer.
  `SocketFits`: a socket that is to be opened again has a reconnect left.
  `AcceptanceIsTimed` is the safety part of the liveness property `AcceptanceEnds`: the
  timer that ends an acceptance is never lost while the page shows it.

Every safety property that a run checks, but for the violated one, is stated by a theorem.
Only model-checked, and for good: `MatchEnds`, `EventsAreProcessed`, `RequestsLeave`,
`CountdownShowsResults` and `AcceptanceEnds`, liveness under fairness being out of
the prover's reach.

## 6. Where code and text disagree

* `BrokerRetry`.  `newDecision` refuses a request while a run of the same effect on the same
  target is under way or of unknown outcome (`A:57`), and `resumeDecision` (`A:158`) does not
  look: a decision recorded before that run, by another task or by the same one with another
  scope, can still be approved and runs the effect again.  `ENGINEERING_POLICY.md:396` wants
  such effects diagnosed and reconciled before a retry.  What holds is that nobody is asked
  anew (`RetriesAreNotAskedFor`).

Met while modelling, with no run of their own:

* `adminAssessmentQuizSessionExtendTimeHandler` subtracts `addSeconds` from `started_at`
  (`handler_admin_i18n_quiz.go:770`), and the time left is measured from `started_at`: an
  extension takes time away, and may end the quiz.  The comment above it says that this
  extends the timer.  `ExtendTime` is the code's.
* The end of a bot match deletes `connToRoom[c.ID]` whatever room the entry names by then
  (`H:1161`).  With two rooms of one learner the entry of the other is erased, and closing
  the tab leaves that room registered until its timers end it, against the comment on
  `OnDisconnect` (`H:416`).
* `handleLobbyJoin` deletes the learner's entry because of a room it looked at before it
  released the lock (`H:281`).  When a new match was registered in between, its entry goes,
  and later joins find nothing to resync (`battle_engine_test.go:576` tests the case of one
  match).
* The absence timer is armed when exactly one connection is left in the room, whoever it
  belongs to (`H:484`): a player with two tabs does not win by absence
  (`battle_engine_test.go:659` has one tab each).
* The strike limit abandons the learner's active room, not the one whose answers reached
  the limit (`H:945`); an honest answer that arrives after its round was settled by the
  timer counts as a strike when the next question is on screen.
* A bot match started in one tab sweeps the session of a match that another tab is playing,
  whose `MarkCompleted` then matches no row although its result is announced (`S:352`).
* After a crash PvP sessions stay in progress for ever, since the sweep excludes them on
  purpose (`S:349`).
* The absence callback asks whether a learner is back and abandons the match later; the
  learner may return in between (`H:1815`).
* The next question that an answer asked for may arrive after the countdown has put the
  results on the screen, and is shown over them (`C:769`).
* A page that was left by a link still sends its answer.  When the next page has loaded the
  question before, the answer given there is refused as not the current one, and its
  selection stays on the screen until the countdown ends (`C:1643`).
* The timer of an acceptance from a link leaves the queue alone (`B:814`), so that the
  acceptance may be sent after the page has called the challenge expired, which the comment
  at `B:668` excludes for the banner.
* A bot match that was sent on a connection which is then lost stays on "connecting": nothing
  ends it but an answer (`B:507`).

## 7. Not modelled

Texts, event payloads, chat, delays of the bot, remediation, analytics rows and
response times of matches; the lobby's presence list; the administrator's
rerun, which inserts a row that no room will play; the webhook's signature check and
audit rows, and the deletion of accounts under it; the reset tokens; review, history and
the practice modes of the quiz, and the choice of its template; the closing of tasks, edits
of the policy and the in-process transports of the broker; the match on the screen of the
battle client, and its chat.

Of the components without a module, two have a hazard worth a module of their own: the
Loto autopilot checks for a curated run in one transaction and publishes in a later one
(`loto/service.go:344`), and the presence cleanup reads a Redis hash and deletes from it
later (`presence_service.go:139`); both are two steps, and nothing but a list of
predictions or of names depends on them.  The rest is requests of one statement or one
transaction, reads, rendering, generated code and data: `PROJECT.json` gives the reason for each.
