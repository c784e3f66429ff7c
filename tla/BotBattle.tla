------------------------------ MODULE BotBattle ------------------------------
(***************************************************************************)
(* Matches against a bot in the realtime server of the Go API              *)
(* (apps/api-go/internal/realtime).  A match is a room kept in memory by   *)
(* BattleHandler and a row of learning.battle_session kept in PostgreSQL.  *)
(*                                                                         *)
(* Three kinds of goroutine work on them, and every step below is what one *)
(* of them does between two lock or database boundaries:                   *)
(*   - the read loop of a connection, which runs one message handler at a  *)
(*     time (handler[c]);                                                  *)
(*   - the teardown of a connection, which a failing write loop may start  *)
(*     while the read loop is still inside a handler (closer[c]);          *)
(*   - the goroutines that drive a room: countdown, question, settlement,  *)
(*     and the callbacks of round timers (tasks).                          *)
(* The index maps of the handler are guarded by h.mu, the fields of a room *)
(* by the room's own mutex, and no step holds both.                        *)
(***************************************************************************)
EXTENDS Naturals, FiniteSets

CONSTANTS
  User,          \* learners
  Conn,          \* battle WebSocket connections (browser tabs)
  UserOf,        \* the authenticated learner behind each connection
  Room,          \* identities of matches: room code and session id
  TotalRounds,   \* questions of a match
  StrikeLimit,   \* invalidAnswerStrikeLimit
  MaxStrikes,    \* bound: strikes of one room that are explored
  Key,           \* idempotency keys a client may attach to an answer
  Outcome,       \* bound: whether answers explored are right (subset of BOOLEAN)
  Leaving,       \* bound: the connections whose closing is explored
  NoRoom,        \* absence of a room code
  NoConn,        \* absence of a connection
  StoreFails,    \* may a database write fail?
  AdminAborts,   \* may an administrator abort a session?
  Crashes        \* may the server process die and restart?

ASSUME ConnAssumption == UserOf \in [Conn -> User] /\ NoConn \notin Conn
ASSUME RoomAssumption == NoRoom \notin Room
ASSUME BoundAssumption ==
  /\ TotalRounds \in Nat \ {0}
  /\ StrikeLimit \in Nat \ {0}
  /\ MaxStrikes \in Nat
  /\ Outcome \subseteq BOOLEAN
  /\ Leaving \subseteq Conn
ASSUME FaultAssumption ==
  /\ StoreFails \in BOOLEAN
  /\ AdminAborts \in BOOLEAN
  /\ Crashes \in BOOLEAN

VARIABLES
  rooms,           \* codes registered in h.rooms
  userActiveRoom,  \* h.userActiveRoom
  connToRoom,      \* h.connToRoom
  status,          \* RoomState.Status, "none" while no such room is in memory
  owner,           \* the connection that started the match: its learner is
                   \* battle_session.user_id and RoomState.UserID
  currentRound,    \* RoomState.CurrentRound
  userScore,       \* RoomState.UserScore
  opponentScore,   \* RoomState.OpponentScore
  strikes,         \* RoomState.InvalidAnswerStrike
  idempotency,     \* RoomState.Idempotency
  timers,          \* armed round timers
  tasks,           \* goroutines that drive rooms
  handler,         \* where the read loop of each connection is
  closer,          \* where the teardown of each connection is
  session,         \* battle_session.status
  storedScore,     \* battle_session.user_score and opponent_score
  announced        \* matches whose battle:finished was sent

indexVars == <<rooms, userActiveRoom, connToRoom>>
scoreVars == <<currentRound, userScore, opponentScore>>
abuseVars == <<strikes, idempotency>>
storeVars == <<session, storedScore>>
vars == <<rooms, userActiveRoom, connToRoom, status, owner,
          currentRound, userScore, opponentScore, strikes, idempotency,
          timers, tasks, handler, closer, session, storedScore, announced>>

Score == [user : Nat, opponent : Nat]
Timer == [room : Room, round : Nat, conn : Conn]
TaskStep == {"countdown", "begin", "timeout",
             "finish", "score", "persist", "complete", "cleanup"}
Task == [room : Room, round : Nat, conn : Conn, at : TaskStep,
         hit : BOOLEAN, result : Score]
Why == {"replaced", "anti_abuse_threshold"}
Handler ==
  [at : {"idle", "sweep", "create"}, room : {NoRoom}, why : Why]
    \cup [at : {"abandon", "end", "mark", "register"}, room : Room, why : Why]
Closer == [at : {"open", "close", "closed"}, room : {NoRoom}]
            \cup [at : {"end", "mark"}, room : Room]

TypeOK ==
  /\ rooms \subseteq Room
  /\ userActiveRoom \in [User -> Room \cup {NoRoom}]
  /\ connToRoom \in [Conn -> Room \cup {NoRoom}]
  /\ status \in [Room -> {"none", "countdown", "question", "resolving", "finished"}]
  /\ owner \in [Room -> Conn \cup {NoConn}]
  /\ currentRound \in [Room -> Nat]
  /\ userScore \in [Room -> Nat]
  /\ opponentScore \in [Room -> Nat]
  /\ strikes \in [Room -> Nat]
  /\ idempotency \in [Room -> SUBSET (Nat \X Key)]
  /\ timers \subseteq Timer
  /\ tasks \subseteq Task
  /\ handler \in [Conn -> Handler]
  /\ closer \in [Conn -> Closer]
  /\ session \in [Room -> {"absent", "in_progress", "completed", "abandoned"}]
  /\ storedScore \in [Room -> Score]
  /\ announced \subseteq Room

-----------------------------------------------------------------------------
(* Helpers *)

Idle == [at |-> "idle", room |-> NoRoom, why |-> "replaced"]
Open == [at |-> "open", room |-> NoRoom]
ZeroScore == [user |-> 0, opponent |-> 0]

Init ==
  /\ rooms = {}
  /\ userActiveRoom = [u \in User |-> NoRoom]
  /\ connToRoom = [c \in Conn |-> NoRoom]
  /\ status = [r \in Room |-> "none"]
  /\ owner = [r \in Room |-> NoConn]
  /\ currentRound = [r \in Room |-> 0]
  /\ userScore = [r \in Room |-> 0]
  /\ opponentScore = [r \in Room |-> 0]
  /\ strikes = [r \in Room |-> 0]
  /\ idempotency = [r \in Room |-> {}]
  /\ timers = {}
  /\ tasks = {}
  /\ handler = [c \in Conn |-> Idle]
  /\ closer = [c \in Conn |-> Open]
  /\ session = [r \in Room |-> "absent"]
  /\ storedScore = [r \in Room |-> ZeroScore]
  /\ announced = {}

(* Each definition of this module named "bug" is a mistake that could be made in
   the definition after it; the specification uses none of them. *)

(* The learner of a match; TRUE only of matches that were created. *)
OwnedBy(r, u) == owner[r] # NoConn /\ UserOf[owner[r]] = u

(* clearTimer: Stop prevents an armed timer from firing; a callback that has
   already started is a task and goes on. *)
ClearTimer(r) == timers' = {x \in timers : x.room # r}

bugNoTimer(r, c) == ClearTimer(r)
(* The old timer is cleared and a new one armed for the current round. *)
ArmTimer(r, c) ==
  timers' = {x \in timers : x.room # r}
              \cup {[room |-> r, round |-> currentRound[r], conn |-> c]}

bugNeverFinished(r) == FALSE
bugAnswerTwice(r) == status[r] \in {"question", "resolving"}
(* What the mutex of a room tells: somebody has ended it; it takes answers. *)
AlreadyFinished(r) == status[r] = "finished"
AwaitsAnswer(r) == status[r] = "question"

bugStaysRegistered(r) == UNCHANGED rooms
(* What h.mu guards: a room leaves the index of rooms; it stops being the
   active room of its learner, unless a newer one has taken its place. *)
Unregister(r) == rooms' = rooms \ {r}
ForgetActive(r) ==
  userActiveRoom' = [u \in User |->
                       IF OwnedBy(r, u) /\ userActiveRoom[u] = r
                       THEN NoRoom ELSE userActiveRoom[u]]

(* A handler or a teardown moves to another step. *)
HandlerAt(c, step, r, why) ==
  handler' = [handler EXCEPT ![c] = [at |-> step, room |-> r, why |-> why]]
HandlerReturns(c) == HandlerAt(c, "idle", NoRoom, "replaced")
CloserAt(c, step, r) == closer' = [closer EXCEPT ![c] = [at |-> step, room |-> r]]

(* A goroutine of a room: on behalf of connection c, at some step, knowing the
   round it settles, whether the answer was right and the scores it computed. *)
Goroutine(r, round, c, at, hit, result) ==
  [room |-> r, round |-> round, conn |-> c, at |-> at, hit |-> hit, result |-> result]

(* A goroutine moves to another step, or ends. *)
TaskAt(t, step) ==
  tasks' = (tasks \ {t})
              \cup {Goroutine(t.room, t.round, t.conn, step, t.hit, t.result)}
TaskEnds(t) == tasks' = tasks \ {t}

-----------------------------------------------------------------------------
(* abandonPreviousBotRoomForUser.  Under h.mu the learner's active room leaves
   every index; what is left to do is done by the handler in later steps. *)

AbandonReturns(c, why) ==
  IF why = "replaced" THEN HandlerAt(c, "sweep", NoRoom, why) ELSE HandlerReturns(c)

AbandonUnregister(c, why) ==
  LET u == UserOf[c]
      prev == userActiveRoom[u]
  IN
  /\ Unregister(prev)
  /\ userActiveRoom' = [userActiveRoom EXCEPT ![u] = NoRoom]
  /\ connToRoom' = [d \in Conn |-> IF connToRoom[d] = prev THEN NoRoom
                                                           ELSE connToRoom[d]]
  /\ IF prev \in rooms
     THEN HandlerAt(c, "end", prev, why)
     ELSE AbandonReturns(c, why)
  /\ UNCHANGED <<scoreVars, abuseVars, storeVars, status, owner,
                 timers, tasks, closer, announced>>

(* The read loop takes the next message once the handler of the last one has
   returned, and until the socket is closed: a teardown closes it last. *)
Reads(c) == closer[c].at # "closed" /\ handler[c].at = "idle"

(* A learner challenges a bot: handleChallengeBot.  Reading the bot profile and
   the configuration changes nothing; then the previous room is abandoned. *)
ChallengeBot(c) ==
  /\ Reads(c)
  /\ AbandonUnregister(c, "replaced")

(* handleInvalidBotStrike at the limit: whatever room is active by now goes. *)
AbandonForAbuse(c) ==
  /\ handler[c].at = "abandon"
  /\ AbandonUnregister(c, "anti_abuse_threshold")

(* The same function under the room's mutex. *)
AbandonEnd(c) ==
  LET r == handler[c].room IN
  /\ handler[c].at = "end"
  /\ status' = [status EXCEPT ![r] = "finished"]
  /\ ClearTimer(r)
  /\ IF AlreadyFinished(r) THEN AbandonReturns(c, handler[c].why)
                           ELSE HandlerAt(c, "mark", r, handler[c].why)
  /\ UNCHANGED <<indexVars, scoreVars, abuseVars, storeVars, owner,
                 tasks, closer, announced>>

bugAbandonPhase(r) == session' = [session EXCEPT ![r] = "finished"]
(* MarkAbandoned: only a session in progress is changed. *)
MarkAbandoned(r) ==
  session' = IF session[r] = "in_progress"
             THEN [session EXCEPT ![r] = "abandoned"] ELSE session

(* A write that may fail is only logged. *)
MayFail(write, v) == write \/ (StoreFails /\ UNCHANGED v)

AbandonMark(c) ==
  /\ handler[c].at = "mark"
  /\ MayFail(MarkAbandoned(handler[c].room), session)
  /\ AbandonReturns(c, handler[c].why)
  /\ UNCHANGED <<indexVars, scoreVars, abuseVars, storedScore, status, owner,
                 timers, tasks, closer, announced>>

bugSweepRegistered(u) ==
  session' = [r \in Room |->
                IF session[r] = "in_progress" /\ OwnedBy(r, u) /\ r \in rooms
                THEN "abandoned" ELSE session[r]]
(* AbandonInProgressForUser: every bot session of the learner still in progress. *)
SweepSessions(u) ==
  session' = [r \in Room |->
                IF session[r] = "in_progress" /\ OwnedBy(r, u)
                THEN "abandoned" ELSE session[r]]

SweepInProgress(c) ==
  /\ handler[c].at = "sweep"
  /\ MayFail(SweepSessions(UserOf[c]), session)
  /\ HandlerAt(c, "create", NoRoom, handler[c].why)
  /\ UNCHANGED <<indexVars, scoreVars, abuseVars, storedScore, status, owner,
                 timers, tasks, closer, announced>>

(* CreateBotBattle, one transaction: a fresh room code and session. *)
CreateBotBattle(c) ==
  /\ handler[c].at = "create"
  /\ \E r \in Room :
       /\ session[r] = "absent"
       /\ session' = [session EXCEPT ![r] = "in_progress"]
       /\ owner' = [owner EXCEPT ![r] = c]
       /\ HandlerAt(c, "register", r, handler[c].why)
  /\ UNCHANGED <<indexVars, scoreVars, abuseVars, storedScore, status,
                 timers, tasks, closer, announced>>

(* The question pool is empty or the transaction fails: no match starts. *)
CreateRefused(c) ==
  /\ handler[c].at = "create"
  /\ HandlerReturns(c)
  /\ UNCHANGED <<indexVars, scoreVars, abuseVars, storeVars, status, owner,
                 timers, tasks, closer, announced>>

(* The room enters memory and the indexes under h.mu; its driver is spawned. *)
RegisterRoom(c) ==
  LET r == handler[c].room IN
  /\ handler[c].at = "register"
  /\ rooms' = rooms \cup {r}
  /\ userActiveRoom' = [userActiveRoom EXCEPT ![UserOf[c]] = r]
  /\ connToRoom' = [connToRoom EXCEPT ![c] = r]
  /\ status' = [status EXCEPT ![r] = "countdown"]
  /\ tasks' = tasks \cup {Goroutine(r, 0, c, "countdown", FALSE, ZeroScore)}
  /\ HandlerReturns(c)
  /\ UNCHANGED <<scoreVars, abuseVars, storeVars, owner, timers, closer, announced>>

-----------------------------------------------------------------------------
(* An answer: settleBotRoundAnswer.  A room that leaves the index between the
   lookup and the room's mutex is about to be finished by whoever removed it,
   and what happens to it in between has no effect: one step. *)

AnswerArrives(c, r) == Reads(c) /\ r \in rooms

(* An answer for another learner, another round or an unknown option is a
   strike; at the limit the handler goes on to abandon the learner's active
   room (handleInvalidBotStrike).  Nobody else's answer is a strike. *)
StrikeAnswer(c, r) ==
  /\ AnswerArrives(c, r)
  /\ AwaitsAnswer(r)
  /\ OwnedBy(r, UserOf[c])
  /\ strikes[r] < MaxStrikes
  /\ strikes' = [strikes EXCEPT ![r] = @ + 1]
  /\ IF strikes[r] + 1 >= StrikeLimit
     THEN HandlerAt(c, "abandon", r, "anti_abuse_threshold")
     ELSE UNCHANGED handler
  /\ UNCHANGED <<indexVars, scoreVars, idempotency, storeVars, status, owner,
                 timers, tasks, closer, announced>>

(* The first valid answer of the round, with a key not used in it before. *)
AcceptAnswer(c, r, k, hit) ==
  /\ AnswerArrives(c, r)
  /\ AwaitsAnswer(r)
  /\ OwnedBy(r, UserOf[c])
  /\ <<currentRound[r], k>> \notin idempotency[r]
  /\ idempotency' = [idempotency EXCEPT ![r] = @ \cup {<<currentRound[r], k>>}]
  /\ status' = [status EXCEPT ![r] = "resolving"]
  /\ ClearTimer(r)
  /\ tasks' = tasks \cup
                {Goroutine(r, currentRound[r], c, "finish", hit, ZeroScore)}
  /\ UNCHANGED <<indexVars, scoreVars, strikes, storeVars, owner, handler,
                 closer, announced>>

-----------------------------------------------------------------------------
(* The goroutines that drive a room. *)

(* runBotCountdownThenRound and the lookup of beginBotRound under h.mu.  The
   ticks stop early on a finished room, which BeginRound would refuse too. *)
Countdown(t) ==
  /\ t.at = "countdown"
  /\ IF t.room \in rooms THEN TaskAt(t, "begin") ELSE TaskEnds(t)
  /\ UNCHANGED <<indexVars, scoreVars, abuseVars, storeVars, status, owner,
                 timers, handler, closer, announced>>

(* beginBotRound under the room's mutex. *)
BeginRound(t) ==
  LET r == t.room IN
  /\ t.at = "begin"
  /\ IF AlreadyFinished(r) \/ currentRound[r] >= TotalRounds
     THEN UNCHANGED <<status, timers>>
     ELSE /\ status' = [status EXCEPT ![r] = "question"]
          /\ ArmTimer(r, t.conn)
  /\ TaskEnds(t)
  /\ UNCHANGED <<indexVars, scoreVars, abuseVars, storeVars, owner,
                 handler, closer, announced>>

(* The round timer fires and settleBotRoundTimeout looks the room up ... *)
TimerFires(x) ==
  /\ x \in timers
  /\ timers' = timers \ {x}
  /\ tasks' = IF x.room \in rooms
              THEN tasks \cup {Goroutine(x.room, x.round, x.conn, "timeout",
                                         FALSE, ZeroScore)}
              ELSE tasks
  /\ UNCHANGED <<indexVars, scoreVars, abuseVars, storeVars, status, owner,
                 handler, closer, announced>>

(* ... and settles the round unless an answer was first, or the callback comes
   so late that another round is being played. *)
TooLate(t) == ~AwaitsAnswer(t.room) \/ currentRound[t.room] # t.round

SettleTimeout(t) ==
  LET r == t.room IN
  /\ t.at = "timeout"
  /\ IF TooLate(t)
     THEN TaskEnds(t) /\ UNCHANGED <<status, timers>>
     ELSE /\ status' = [status EXCEPT ![r] = "resolving"]
          /\ ClearTimer(r)
          /\ TaskAt(t, "finish")
  /\ UNCHANGED <<indexVars, scoreVars, abuseVars, storeVars, owner,
                 handler, closer, announced>>

(* finishBotRound up to its second critical section: the round still has to be
   resolving, and after the bot's delay the room still has to be registered. *)
FinishStart(t) ==
  /\ t.at = "finish"
  /\ IF status[t.room] = "resolving" /\ t.room \in rooms
     THEN tasks' = (tasks \ {t}) \cup {Goroutine(t.room, currentRound[t.room],
                                                t.conn, "score", t.hit, ZeroScore)}
     ELSE TaskEnds(t)
  /\ UNCHANGED <<indexVars, scoreVars, abuseVars, storeVars, status, owner,
                 timers, handler, closer, announced>>

Bit(b) == IF b THEN 1 ELSE 0
bugLastRound(t) == t.round + 2 >= TotalRounds
LastRound(t) == t.round = TotalRounds - 1

(* Second critical section: scores and the next phase. *)
ScoreRound(t, botHit) ==
  LET r == t.room
      user == userScore[r] + Bit(t.hit)
      opponent == opponentScore[r] + Bit(botHit)
  IN
  /\ t.at = "score"
  /\ IF AlreadyFinished(r)
     THEN TaskEnds(t) /\ UNCHANGED <<scoreVars, status, timers>>
     ELSE /\ userScore' = [userScore EXCEPT ![r] = user]
          /\ opponentScore' = [opponentScore EXCEPT ![r] = opponent]
          /\ currentRound' = [currentRound EXCEPT ![r] = t.round + 1]
          /\ status' = [status EXCEPT ![r] = IF LastRound(t) THEN "finished"
                                                             ELSE "countdown"]
          /\ IF LastRound(t) THEN ClearTimer(r) ELSE UNCHANGED timers
          /\ tasks' = (tasks \ {t}) \cup
                      {Goroutine(r, t.round, t.conn, "persist", t.hit,
                                 [user |-> user, opponent |-> opponent])}
  /\ UNCHANGED <<indexVars, abuseVars, storeVars, owner, handler, closer, announced>>

(* UpdateBotRoundWithScores writes the scores whatever the session's status. *)
PersistRound(t) ==
  /\ t.at = "persist"
  /\ MayFail(storedScore' = [storedScore EXCEPT ![t.room] = t.result], storedScore)
  /\ TaskAt(t, IF LastRound(t) THEN "complete" ELSE "countdown")
  /\ UNCHANGED <<indexVars, scoreVars, abuseVars, session, status, owner,
                 timers, handler, closer, announced>>

(* MarkCompleted: only a session in progress is changed. *)
MarkCompleted(r, result) ==
  IF session[r] = "in_progress"
  THEN /\ session' = [session EXCEPT ![r] = "completed"]
       /\ storedScore' = [storedScore EXCEPT ![r] = result]
  ELSE UNCHANGED storeVars

(* The result is stored, then battle:finished is sent in any case. *)
CompleteMatch(t) ==
  /\ t.at = "complete"
  /\ MayFail(MarkCompleted(t.room, t.result), storeVars)
  /\ announced' = announced \cup {t.room}
  /\ TaskAt(t, "cleanup")
  /\ UNCHANGED <<indexVars, scoreVars, abuseVars, status, owner,
                 timers, handler, closer>>

(* The room leaves the indexes.  The entry of the goroutine's connection is
   deleted whatever room it names. *)
FinishCleanup(t) ==
  /\ t.at = "cleanup"
  /\ Unregister(t.room)
  /\ ForgetActive(t.room)
  /\ connToRoom' = [connToRoom EXCEPT ![t.conn] = NoRoom]
  /\ TaskEnds(t)
  /\ UNCHANGED <<scoreVars, abuseVars, storeVars, status, owner,
                 timers, handler, closer, announced>>

-----------------------------------------------------------------------------
(* A connection closes: OnDisconnect, under h.mu. *)
DisconnectUnregister(c) ==
  LET r == connToRoom[c] IN
  /\ c \in Leaving
  /\ closer[c].at = "open"
  /\ connToRoom' = [connToRoom EXCEPT ![c] = NoRoom]
  /\ Unregister(r)
  /\ IF r \in rooms THEN ForgetActive(r) ELSE UNCHANGED userActiveRoom
  /\ IF r \in rooms THEN CloserAt(c, "end", r) ELSE CloserAt(c, "close", NoRoom)
  /\ UNCHANGED <<scoreVars, abuseVars, storeVars, status, owner,
                 timers, tasks, handler, announced>>

(* OnDisconnect, under the room's mutex. *)
DisconnectEnd(c) ==
  LET r == closer[c].room IN
  /\ closer[c].at = "end"
  /\ status' = [status EXCEPT ![r] = "finished"]
  /\ ClearTimer(r)
  /\ IF AlreadyFinished(r) THEN CloserAt(c, "close", NoRoom)
                           ELSE CloserAt(c, "mark", r)
  /\ UNCHANGED <<indexVars, scoreVars, abuseVars, storeVars, owner,
                 tasks, handler, announced>>

DisconnectMark(c) ==
  /\ closer[c].at = "mark"
  /\ MayFail(MarkAbandoned(closer[c].room), session)
  /\ CloserAt(c, "close", NoRoom)
  /\ UNCHANGED <<indexVars, scoreVars, abuseVars, storedScore, status, owner,
                 timers, tasks, handler, announced>>

(* OnDisconnect has returned and closeConn closes the socket. *)
SocketCloses(c) ==
  /\ closer[c].at = "close"
  /\ CloserAt(c, "closed", NoRoom)
  /\ UNCHANGED <<indexVars, scoreVars, abuseVars, storeVars, status, owner,
                 timers, tasks, handler, announced>>

(* POST /api/admin/battle/matches/{id}/abort writes the session only; the
   realtime server is not told. *)
AdminAbort(r) ==
  /\ AdminAborts
  /\ session[r] = "in_progress"
  /\ session' = [session EXCEPT ![r] = "abandoned"]
  /\ UNCHANGED <<indexVars, scoreVars, abuseVars, storedScore, status, owner,
                 timers, tasks, handler, closer, announced>>

(* The process dies and a new one starts: memory is lost, every tab connects
   again.  The counters of a lost room keep their last value as a record of
   what was played; nothing reads them any more. *)
Crash ==
  /\ Crashes
  /\ rooms' = {}
  /\ userActiveRoom' = [u \in User |-> NoRoom]
  /\ connToRoom' = [c \in Conn |-> NoRoom]
  /\ status' = [r \in Room |-> "none"]
  /\ timers' = {}
  /\ tasks' = {}
  /\ handler' = [c \in Conn |-> Idle]
  /\ closer' = [c \in Conn |-> Open]
  /\ UNCHANGED <<scoreVars, abuseVars, storeVars, owner, announced>>

-----------------------------------------------------------------------------
(* What the message of a connection may start. *)
Receive(c) ==
  \/ ChallengeBot(c)
  \/ \E r \in Room : StrikeAnswer(c, r)
  \/ \E r \in Room, k \in Key, hit \in Outcome : AcceptAnswer(c, r, k, hit)

(* One step of a handler that is past its first step. *)
HandlerStepOf(c) ==
  \/ AbandonForAbuse(c) \/ AbandonEnd(c) \/ AbandonMark(c)
  \/ SweepInProgress(c) \/ CreateBotBattle(c) \/ CreateRefused(c)
  \/ RegisterRoom(c)

(* One step of the teardown of a connection that has begun. *)
CloserStepOf(c) == DisconnectEnd(c) \/ DisconnectMark(c) \/ SocketCloses(c)

(* One step of a goroutine that drives a room. *)
TaskStepOf(t) ==
  \/ Countdown(t) \/ BeginRound(t) \/ SettleTimeout(t) \/ FinishStart(t)
  \/ \E botHit \in Outcome : ScoreRound(t, botHit)
  \/ PersistRound(t) \/ CompleteMatch(t) \/ FinishCleanup(t)

Next ==
  \/ \E c \in Conn : \/ Receive(c)
                     \/ HandlerStepOf(c)
                     \/ DisconnectUnregister(c)
                     \/ CloserStepOf(c)
  \/ \E x \in timers : TimerFires(x)
  \/ \E t \in tasks : TaskStepOf(t)
  \/ \E r \in Room : AdminAbort(r)
  \/ Crash

Spec == Init /\ [][Next]_vars

(* The Go scheduler runs every goroutine that is ready and every timer fires:
   weak fairness for handlers, teardowns, timers and room goroutines.  Learners
   and administrators owe nothing. *)
TasksOf(r) == {t \in tasks : t.room = r}
RoomProgress(r) == \/ \E x \in timers : x.room = r /\ TimerFires(x)
                   \/ \E t \in TasksOf(r) : TaskStepOf(t)

FairSpec ==
  /\ Spec
  /\ \A c \in Conn : WF_vars(HandlerStepOf(c)) /\ WF_vars(CloserStepOf(c))
  /\ \A r \in Room : WF_vars(RoomProgress(r))

-----------------------------------------------------------------------------
(* Properties *)

(* Goroutines that own a phase of a room, as opposed to timer callbacks that
   have yet to find out whether they are late. *)
Drivers(r) == {t \in TasksOf(r) : t.at # "timeout"}

(* An answer, the round timer and the two tabs of a learner race for the same
   round: the round is scored once, so nobody has more points than there were
   rounds and no round past the last one is played. *)
RoundScoredOnce ==
  \A r \in Room : /\ currentRound[r] <= TotalRounds
                  /\ userScore[r] <= currentRound[r]
                  /\ opponentScore[r] <= currentRound[r]

(* At most one goroutine carries a room from phase to phase, and none does
   while the room waits for an answer. *)
OneDriver ==
  \A r \in Room : /\ \A t1, t2 \in Drivers(r) : t1 = t2
                  /\ status[r] = "question" => Drivers(r) = {}

(* The callback of a round timer may be delayed until the next question is on
   screen: it never cuts that question short, and no answer is counted for
   another round than the one it was given in. *)
RoundSettledForItself ==
  \A t \in tasks : t.at = "finish" /\ status[t.room] = "resolving" =>
    t.round = currentRound[t.room]

(* Whatever races for it, a round is played by one goroutine, settled for itself
   and scored once. *)
RoundIntegrity == RoundScoredOnce /\ OneDriver /\ RoundSettledForItself

(* The learner behind a connection is the only one whose messages, timers and
   teardowns act on the room: "a non-owner must never add strikes to the
   owner's room", answer for its owner or end it. *)
OnlyOwnerActs ==
  /\ \A t \in tasks : UserOf[owner[t.room]] = UserOf[t.conn]
  /\ \A c \in Conn : handler[c].room # NoRoom =>
       UserOf[owner[handler[c].room]] = UserOf[c]
  /\ \A c \in Conn : closer[c].room # NoRoom => owner[closer[c].room] = c

(* A registered room is never stranded: in the question phase its round timer
   is armed or the callback for this very round is running, and in every other
   phase a goroutine is about to move it on; once it is finished that goroutine
   is the one that played the last round and will remove it. *)
MovesOn(r) ==
  \/ /\ status[r] = "question"
     /\ \/ \E x \in timers : x.room = r /\ x.round = currentRound[r]
        \/ \E t \in TasksOf(r) : t.at = "timeout" /\ t.round = currentRound[r]
  \/ status[r] \in {"countdown", "resolving"} /\ Drivers(r) # {}
  \/ /\ status[r] = "finished"
     /\ \E t \in Drivers(r) : t.at \in {"persist", "complete", "cleanup"} /\ LastRound(t)

RegisteredRoomMovesOn == \A r \in rooms : MovesOn(r)

(* The three indexes of the handler agree: a learner's active room is
   registered and theirs, and a connection never points at a registered room
   that another connection opened. *)
IndexesAgree ==
  /\ \A u \in User : userActiveRoom[u] # NoRoom =>
       userActiveRoom[u] \in rooms /\ OwnedBy(userActiveRoom[u], u)
  /\ \A c \in Conn : connToRoom[c] \in rooms => owner[connToRoom[c]] = c

(* What tabs, replacements, teardowns and crashes leave in the indexes is a room
   that can be found by its learner and that somebody will remove. *)
RoomsAreHeld == RegisteredRoomMovesOn /\ IndexesAgree

(* A session is completed only by a match that was played to its last round,
   and it stores the scores the players were shown. *)
CompletedWasPlayedOut ==
  \A r \in Room : session[r] = "completed" =>
    /\ currentRound[r] = TotalRounds
    /\ storedScore[r] = [user |-> userScore[r], opponent |-> opponentScore[r]]

(* A teardown or a replacement that is about to mark a match abandoned never
   does so to one whose last round was scored: its result is on its way. *)
AbandonSparesPlayedOut ==
  /\ \A c \in Conn : handler[c].at = "mark" =>
       currentRound[handler[c].room] < TotalRounds
  /\ \A c \in Conn : closer[c].at = "mark" =>
       currentRound[closer[c].room] < TotalRounds

(* MarkCompleted, MarkAbandoned, the sweep and the administrator race for one
   session row: the first to end it wins and the row never changes status again. *)
TerminalSessionIsFinal ==
  [][\A r \in Room : session[r] \in {"completed", "abandoned"} =>
       session'[r] = session[r]]_vars

(* Rooms live in memory only, so a crash leaves sessions in progress that no
   room will ever end.  When the learner's next match exists, none is left. *)
Orphan(r) ==
  /\ session[r] = "in_progress"
  /\ status[r] = "none"
  /\ \A c \in Conn : ~(handler[c].at = "register" /\ handler[c].room = r)

NextMatchRetiresOrphans ==
  \A c \in Conn : handler[c].at = "register" =>
    \A r \in Room : OwnedBy(r, UserOf[c]) => ~Orphan(r)

(* Whatever the learner does or leaves undone, a match ends: timers settle
   unanswered rounds, and the room leaves the indexes. *)
MatchEnds == \A r \in Room : r \in rooms ~> r \notin rooms

(* The rows of battle_session behave as MatchLedger promises, whatever rooms,
   timers, tabs, teardowns, failed writes and administrators do. *)
Ledger == INSTANCE MatchLedger WITH
  Match <- Room,
  round <- currentRound,
  score <- [r \in Room |-> [user |-> userScore[r], opponent |-> opponentScore[r]]],
  stored <- storedScore

ImplementsLedger == Ledger!LedgerSpec

=============================================================================
