------------------------------ MODULE PvpBattle ------------------------------
(***************************************************************************)
(* Matches between two learners in the realtime server of the Go API:      *)
(* challenges, rounds, forfeits, reconnection and absence.  As in          *)
(* BotBattle a match is a room in memory and a row of battle_session, and  *)
(* a step is what one goroutine does between two lock or database          *)
(* boundaries: the message handler of a connection (handler), its teardown *)
(* (conns), and the goroutines of rooms and timers (tasks).                *)
(*                                                                         *)
(* A room leaves h.pvpRooms only after it has ended, so a lookup that is   *)
(* followed by a check of the room's status is one step with that check.   *)
(***************************************************************************)
EXTENDS Naturals, FiniteSets

CONSTANTS
  User,          \* learners
  Conn,          \* battle WebSocket connections (browser tabs)
  UserOf,        \* the authenticated learner behind each connection
  Room,          \* identities of matches: room code and session id
  Challenge,     \* bound: identities of challenges that are pending at a time
  TotalRounds,   \* questions of a match
  Outcome,       \* bound: whether answers explored are right (subset of BOOLEAN)
  Leaving,       \* bound: the connections whose closing is explored
  NoUser,        \* absence of a learner
  NoRoom,        \* absence of a room code
  StoreFails,    \* may a database write fail?
  AdminAborts,   \* may an administrator abort a session?
  Crashes        \* may the server process die and restart?

ASSUME ConnAssumption ==
  UserOf \in [Conn -> User] /\ IsFiniteSet(Conn) /\ NoUser \notin User
ASSUME RoomAssumption == NoRoom \notin Room
ASSUME BoundAssumption ==
  /\ TotalRounds \in Nat \ {0}
  /\ Outcome \subseteq BOOLEAN
  /\ Leaving \subseteq Conn
ASSUME FaultAssumption ==
  /\ StoreFails \in BOOLEAN
  /\ AdminAborts \in BOOLEAN
  /\ Crashes \in BOOLEAN

VARIABLES
  pending,         \* h.pendingChallenges; the expiry timer of each is armed
  pvpRooms,        \* codes registered in h.pvpRooms
  userToPvpRoom,   \* h.userToPvpRoom
  connToPvpRoom,   \* h.connToPvpRoom
  status,          \* PvpRoomState.Status, "none" while no such room is in memory
  acceptor,        \* PvpRoomState.UserID, battle_session.user_id
  challenger,      \* PvpRoomState.OpponentUserID, battle_session.opponent_user_id
  currentRound,    \* PvpRoomState.CurrentRound
  userScore,       \* PvpRoomState.UserScore
  opponentScore,   \* PvpRoomState.OpponentScore
  roundAnswers,    \* PvpRoomState.RoundAnswers: who has answered, and whether right
  roundTimers,     \* armed round timers
  abandonTimers,   \* rooms whose AbandonTimer is armed
  absentTimers,    \* armed OpponentAbsentTimers with the departed learner
  tasks,           \* goroutines of rooms and of timers that have fired
  handler,         \* where the read loop of each connection is
  conns,           \* where each connection is between its upgrade and its end
  session,         \* battle_session.status
  storedScore,     \* battle_session.user_score and opponent_score
  told             \* results that were sent to the players

indexVars == <<pvpRooms, userToPvpRoom, connToPvpRoom>>
playerVars == <<acceptor, challenger>>
scoreVars == <<currentRound, userScore, opponentScore>>
timerVars == <<roundTimers, abandonTimers, absentTimers>>
roomVars == <<status, playerVars, scoreVars, roundAnswers, timerVars>>
storeVars == <<session, storedScore>>
recordVars == <<session, storedScore, told>>
vars == <<pending, pvpRooms, userToPvpRoom, connToPvpRoom, status, acceptor,
          challenger, currentRound, userScore, opponentScore, roundAnswers,
          roundTimers, abandonTimers, absentTimers, tasks, handler, conns,
          session, storedScore, told>>

MaybeUser == User \cup {NoUser}
Score == [user : Nat, opponent : Nat]
Pending == [id : Challenge, from : User, target : User]
TaskStep == {"countdown", "timeout", "finish", "persist", "complete", "cleanup",
             "orphan", "absent", "abandon", "mark"}
Task == [room : Room, round : Nat, at : TaskStep, user : MaybeUser, result : Score]
Why == {"replaced", "user_forfeit", "opponent_disconnect", "reconnect_timeout"}
Handler ==
  [at : {"idle", "create"}, room : {NoRoom}, next : {NoRoom}, user : MaybeUser]
    \cup [at : {"check", "remember", "forget", "resync", "register",
                "abandon", "mark", "cleanup", "forfeit", "quit"},
          room : Room, next : Room \cup {NoRoom}, user : MaybeUser]
Phase == [at : {"new", "open", "close", "closed"}, room : {NoRoom}, left : {0}]
           \cup [at : {"settle"}, room : Room, left : Nat]
Verdict == [room : Room, why : Why \cup {"played"}, loser : MaybeUser]

TypeOK ==
  /\ pending \subseteq Pending
  /\ pvpRooms \subseteq Room
  /\ userToPvpRoom \in [User -> Room \cup {NoRoom}]
  /\ connToPvpRoom \in [Conn -> Room \cup {NoRoom}]
  /\ status \in [Room -> {"none", "countdown", "question", "resolving",
                          "finished", "abandoned"}]
  /\ acceptor \in [Room -> MaybeUser]
  /\ challenger \in [Room -> MaybeUser]
  /\ currentRound \in [Room -> Nat]
  /\ userScore \in [Room -> Nat]
  /\ opponentScore \in [Room -> Nat]
  /\ roundAnswers \in [Room -> SUBSET [user : User, hit : BOOLEAN]]
  /\ roundTimers \subseteq [room : Room, round : Nat]
  /\ abandonTimers \subseteq Room
  /\ absentTimers \subseteq [room : Room, user : User]
  /\ tasks \subseteq Task
  /\ handler \in [Conn -> Handler]
  /\ conns \in [Conn -> Phase]
  /\ session \in [Room -> {"absent", "in_progress", "completed", "abandoned"}]
  /\ storedScore \in [Room -> Score]
  /\ told \subseteq Verdict

-----------------------------------------------------------------------------
(* Helpers *)

Idle == [at |-> "idle", room |-> NoRoom, next |-> NoRoom, user |-> NoUser]
New == [at |-> "new", room |-> NoRoom, left |-> 0]
ZeroScore == [user |-> 0, opponent |-> 0]

Init ==
  /\ pending = {}
  /\ pvpRooms = {}
  /\ userToPvpRoom = [u \in User |-> NoRoom]
  /\ connToPvpRoom = [c \in Conn |-> NoRoom]
  /\ status = [r \in Room |-> "none"]
  /\ acceptor = [r \in Room |-> NoUser]
  /\ challenger = [r \in Room |-> NoUser]
  /\ currentRound = [r \in Room |-> 0]
  /\ userScore = [r \in Room |-> 0]
  /\ opponentScore = [r \in Room |-> 0]
  /\ roundAnswers = [r \in Room |-> {}]
  /\ roundTimers = {}
  /\ abandonTimers = {}
  /\ absentTimers = {}
  /\ tasks = {}
  /\ handler = [c \in Conn |-> Idle]
  /\ conns = [c \in Conn |-> New]
  /\ session = [r \in Room |-> "absent"]
  /\ storedScore = [r \in Room |-> ZeroScore]
  /\ told = {}

Players(r) == {acceptor[r], challenger[r]} \ {NoUser}

(* Each definition of this module named "bug" is a mistake that could be made in
   the definition after it; the specification uses none of them. *)

bugAbandonedIsLive(r) == status[r] = "finished"
bugFinishedIsLive(r) == status[r] = "abandoned"
(* The two ways a match ends; whoever sees it under the room's mutex leaves the
   room to the goroutine that ended it. *)
Over(r) == status[r] \in {"finished", "abandoned"}

(* clearTimer on each of the timers of a room.  A callback that has already
   started is a task and goes on. *)
ClearRoundTimer(r) == roundTimers' = {x \in roundTimers : x.room # r}
ClearAbandonTimer(r) == abandonTimers' = abandonTimers \ {r}
ClearAbsentTimer(r) == absentTimers' = {x \in absentTimers : x.room # r}

bugNoTimer(r) == ClearRoundTimer(r)
(* The old timer is cleared and a new one armed for the current round. *)
ArmRoundTimer(r) ==
  roundTimers' = {x \in roundTimers : x.room # r}
                   \cup {[room |-> r, round |-> currentRound[r]]}

(* A connection the hub knows: upgraded, teardown not begun. *)
InHub(c) == conns[c].at = "open"
BattleConnsForUser(u) == {c \in Conn : UserOf[c] = u /\ InHub(c)}

HandlerAt(c, step, r, next, u) ==
  handler' = [handler EXCEPT ![c] = [at |-> step, room |-> r, next |-> next, user |-> u]]
HandlerReturns(c) == HandlerAt(c, "idle", NoRoom, NoRoom, NoUser)
ConnAt(c, step, r, left) ==
  conns' = [conns EXCEPT ![c] = [at |-> step, room |-> r, left |-> left]]

Goroutine(r, round, at, u, result) ==
  [room |-> r, round |-> round, at |-> at, user |-> u, result |-> result]
TaskAt(t, step) ==
  tasks' = (tasks \ {t}) \cup {Goroutine(t.room, t.round, step, t.user, t.result)}
TaskEnds(t) == tasks' = tasks \ {t}

(* A write that may fail is only logged. *)
MayFail(write, v) == write \/ (StoreFails /\ UNCHANGED v)

-----------------------------------------------------------------------------
(* abandonPvpRoom and cleanupPvpRoom: what they do to a room, whether a handler
   or the goroutine of a timer runs them. *)

bugEndAbandoned(r) ==
  /\ status' = [status EXCEPT ![r] = "abandoned"]
  /\ UNCHANGED timerVars
(* Under the room's mutex, of a match that is not over. *)
EndAbandoned(r) ==
  /\ status' = [status EXCEPT ![r] = "abandoned"]
  /\ ClearRoundTimer(r) /\ ClearAbandonTimer(r) /\ ClearAbsentTimer(r)

bugAbandonPhase(r) == session' = [session EXCEPT ![r] = "finished"]
(* MarkAbandoned: only a session in progress is changed. *)
MarkAbandoned(r) ==
  session' = IF session[r] = "in_progress"
             THEN [session EXCEPT ![r] = "abandoned"] ELSE session

Tell(r, why, loser) == told' = told \cup {[room |-> r, why |-> why, loser |-> loser]}

(* The row is marked, then both players are told how the match ended. *)
RecordAbandoned(r, why, loser) ==
  /\ MayFail(MarkAbandoned(r), session)
  /\ Tell(r, why, loser)

bugCleanupPvpRoom(r) ==
  /\ pvpRooms' = pvpRooms \ {r}
  /\ UNCHANGED userToPvpRoom
  /\ connToPvpRoom' = [c \in Conn |-> IF connToPvpRoom[c] = r THEN NoRoom
                                                             ELSE connToPvpRoom[c]]
(* Under h.mu: an entry that has come to name another room stays. *)
CleanupPvpRoom(r) ==
  /\ pvpRooms' = pvpRooms \ {r}
  /\ userToPvpRoom' = [u \in User |-> IF userToPvpRoom[u] = r THEN NoRoom
                                                             ELSE userToPvpRoom[u]]
  /\ connToPvpRoom' = [c \in Conn |-> IF connToPvpRoom[c] = r THEN NoRoom
                                                             ELSE connToPvpRoom[c]]

-----------------------------------------------------------------------------
(* Connections and challenges. *)

(* HandleBattleUpgrade: the hub learns of the connection, its read loop starts. *)
Connect(c) ==
  /\ conns[c].at = "new"
  /\ ConnAt(c, "open", NoRoom, 0)
  /\ UNCHANGED <<pending, indexVars, roomVars, tasks, handler, recordVars>>

(* The read loop takes the next message once the handler of the last one has
   returned, and until the socket is closed: a teardown closes it last. *)
Reads(c) == conns[c].at \in {"open", "settle", "close"} /\ handler[c].at = "idle"

(* Bound: nobody challenges once the identities of matches are used up, when a
   challenge could only be refused, declined or expire. *)
RoomLeft == \E r \in Room : session[r] = "absent"

(* handleChallengeUser: the challenge is stored with its expiry timer armed. *)
ChallengeUser(c, id, target) ==
  /\ Reads(c) /\ RoomLeft
  /\ target # UserOf[c]
  /\ \A ch \in pending : ch.id # id
  /\ pending' = pending \cup {[id |-> id, from |-> UserOf[c], target |-> target]}
  /\ UNCHANGED <<indexVars, roomVars, tasks, handler, conns, recordVars>>

(* handleDeclineChallenge: only the learner who was challenged may decline. *)
DeclineChallenge(c, ch) ==
  /\ Reads(c)
  /\ ch \in pending /\ ch.target = UserOf[c]
  /\ pending' = pending \ {ch}
  /\ UNCHANGED <<indexVars, roomVars, tasks, handler, conns, recordVars>>

(* The expiry timer fires; under h.mu it finds the challenge or loses the race. *)
ExpireChallenge(ch) ==
  /\ ch \in pending
  /\ pending' = pending \ {ch}
  /\ UNCHANGED <<indexVars, roomVars, tasks, handler, conns, recordVars>>

(* handleAcceptChallenge goes through the previous rooms of both learners before
   it creates the match. *)
AbandonNext(c, first, second, from) ==
  CASE first # NoRoom ->
         HandlerAt(c, "abandon", first, IF second = first THEN NoRoom ELSE second, from)
    [] first = NoRoom /\ second # NoRoom -> HandlerAt(c, "abandon", second, NoRoom, from)
    [] OTHER -> HandlerAt(c, "create", NoRoom, NoRoom, from)

(* Under h.mu the challenge is taken, by the learner who was challenged only, and
   the previous rooms of both are read. *)
AcceptChallenge(c, ch) ==
  /\ Reads(c)
  /\ ch \in pending /\ ch.target = UserOf[c]
  /\ pending' = pending \ {ch}
  /\ AbandonNext(c, userToPvpRoom[UserOf[c]], userToPvpRoom[ch.from], ch.from)
  /\ UNCHANGED <<indexVars, roomVars, tasks, conns, recordVars>>

(* abandonPvpRoom of a previous room, reason "replaced". *)
ReplaceAbandon(c) ==
  LET r == handler[c].room IN
  /\ handler[c].at = "abandon"
  /\ IF Over(r)
     THEN /\ AbandonNext(c, handler[c].next, NoRoom, handler[c].user)
          /\ UNCHANGED <<status, timerVars>>
     ELSE /\ EndAbandoned(r)
          /\ HandlerAt(c, "mark", r, handler[c].next, handler[c].user)
  /\ UNCHANGED <<pending, indexVars, playerVars, scoreVars, roundAnswers, tasks,
                 conns, recordVars>>

ReplaceMark(c) ==
  /\ handler[c].at = "mark"
  /\ RecordAbandoned(handler[c].room, "replaced", NoUser)
  /\ HandlerAt(c, "cleanup", handler[c].room, handler[c].next, handler[c].user)
  /\ UNCHANGED <<pending, indexVars, roomVars, tasks, conns, storedScore>>

ReplaceCleanup(c) ==
  /\ handler[c].at = "cleanup"
  /\ CleanupPvpRoom(handler[c].room)
  /\ AbandonNext(c, handler[c].next, NoRoom, handler[c].user)
  /\ UNCHANGED <<pending, roomVars, tasks, conns, recordVars>>

(* CreatePvpBattle, one transaction: a fresh room code and session. *)
CreatePvpBattle(c) ==
  /\ handler[c].at = "create"
  /\ \E r \in Room :
       /\ session[r] = "absent"
       /\ session' = [session EXCEPT ![r] = "in_progress"]
       /\ acceptor' = [acceptor EXCEPT ![r] = UserOf[c]]
       /\ challenger' = [challenger EXCEPT ![r] = handler[c].user]
       /\ HandlerAt(c, "register", r, NoRoom, handler[c].user)
  /\ UNCHANGED <<pending, indexVars, status, scoreVars, roundAnswers, timerVars,
                 tasks, conns, storedScore, told>>

(* The question pool is empty or the transaction fails: no match starts. *)
CreateRefused(c) ==
  /\ handler[c].at = "create"
  /\ HandlerReturns(c)
  /\ UNCHANGED <<pending, indexVars, roomVars, tasks, conns, recordVars>>

(* The room enters memory and the indexes under h.mu: the accepting connection
   and every connection of the challenger that the hub knows.  Then its driver
   is spawned. *)
RegisterRoom(c) ==
  LET r == handler[c].room
      from == handler[c].user
  IN
  /\ handler[c].at = "register"
  /\ pvpRooms' = pvpRooms \cup {r}
  /\ userToPvpRoom' = [userToPvpRoom EXCEPT ![UserOf[c]] = r, ![from] = r]
  /\ connToPvpRoom' = [d \in Conn |->
                         IF d = c \/ d \in BattleConnsForUser(from)
                         THEN r ELSE connToPvpRoom[d]]
  /\ status' = [status EXCEPT ![r] = "countdown"]
  /\ tasks' = tasks \cup {Goroutine(r, 0, "countdown", NoUser, ZeroScore)}
  /\ HandlerReturns(c)
  /\ UNCHANGED <<pending, playerVars, scoreVars, roundAnswers, timerVars, conns,
                 recordVars>>

-----------------------------------------------------------------------------
(* handleLobbyJoin: a learner who comes back is put into the match again. *)

(* Under h.mu: which room is the learner's? *)
LobbyJoin(c) ==
  LET r == userToPvpRoom[UserOf[c]] IN
  /\ Reads(c)
  /\ r # NoRoom
  /\ HandlerAt(c, IF r \in pvpRooms THEN "check" ELSE "forget", r, NoRoom, NoUser)
  /\ UNCHANGED <<pending, indexVars, roomVars, tasks, conns, recordVars>>

(* Under the room's mutex: is it still being played? *)
JoinCheck(c) ==
  LET r == handler[c].room IN
  /\ handler[c].at = "check"
  /\ HandlerAt(c, IF Over(r) THEN "forget" ELSE "remember", r, NoRoom, NoUser)
  /\ UNCHANGED <<pending, indexVars, roomVars, tasks, conns, recordVars>>

(* Under h.mu again: the connection is put into the room, whatever has become
   of it, ... *)
JoinRemember(c) ==
  LET r == handler[c].room IN
  /\ handler[c].at = "remember"
  /\ connToPvpRoom' = [connToPvpRoom EXCEPT ![c] = r]
  /\ HandlerAt(c, "resync", r, NoRoom, NoUser)
  /\ UNCHANGED <<pending, pvpRooms, userToPvpRoom, roomVars, tasks, conns,
                 recordVars>>

(* ... or the learner's entry is deleted, whatever room it names by now. *)
JoinForget(c) ==
  /\ handler[c].at = "forget"
  /\ userToPvpRoom' = [userToPvpRoom EXCEPT ![UserOf[c]] = NoRoom]
  /\ HandlerReturns(c)
  /\ UNCHANGED <<pending, pvpRooms, connToPvpRoom, roomVars, tasks, conns,
                 recordVars>>

(* Under the room's mutex again: nobody is absent any more. *)
JoinResync(c) ==
  LET r == handler[c].room IN
  /\ handler[c].at = "resync"
  /\ ClearAbandonTimer(r) /\ ClearAbsentTimer(r)
  /\ HandlerReturns(c)
  /\ UNCHANGED <<pending, indexVars, status, playerVars, scoreVars,
                 roundAnswers, roundTimers, tasks, conns, recordVars>>

-----------------------------------------------------------------------------
(* Rounds. *)

bugAwaits(r, u) ==
  u \in Players(r) /\ \A a \in roundAnswers[r] : a.user # u
(* The player's first answer to the question on screen. *)
Awaits(r, u) ==
  /\ status[r] = "question"
  /\ u \in Players(r)
  /\ \A a \in roundAnswers[r] : a.user # u

(* With this answer both players have answered. *)
BothAnswered(r, u) == \A v \in Players(r) \ {u} : \E a \in roundAnswers[r] : a.user = v

(* handlePvpAnswer.  An answer for another round, from anybody else, or to an
   unknown option changes nothing. *)
PvpAnswer(c, r, hit) ==
  LET u == UserOf[c] IN
  /\ Reads(c)
  /\ Awaits(r, u)
  /\ roundAnswers' = [roundAnswers EXCEPT ![r] = @ \cup {[user |-> u, hit |-> hit]}]
  /\ IF BothAnswered(r, u)
     THEN /\ status' = [status EXCEPT ![r] = "resolving"]
          /\ ClearRoundTimer(r)
          /\ tasks' = tasks \cup {Goroutine(r, currentRound[r], "finish", NoUser, ZeroScore)}
     ELSE UNCHANGED <<status, roundTimers, tasks>>
  /\ UNCHANGED <<pending, indexVars, playerVars, scoreVars, abandonTimers,
                 absentTimers, handler, conns, recordVars>>

(* handlePvpForfeit of a match that is not over, up to the end of the critical
   section of abandonPvpRoom, which checks again what the handler checked. *)
PvpForfeit(c, r) ==
  /\ Reads(c)
  /\ r \in pvpRooms /\ ~Over(r)
  /\ UserOf[c] \in Players(r)
  /\ EndAbandoned(r)
  /\ HandlerAt(c, "forfeit", r, NoRoom, NoUser)
  /\ UNCHANGED <<pending, indexVars, playerVars, scoreVars, roundAnswers, tasks,
                 conns, recordVars>>

ForfeitMark(c) ==
  /\ handler[c].at = "forfeit"
  /\ RecordAbandoned(handler[c].room, "user_forfeit", UserOf[c])
  /\ HandlerAt(c, "quit", handler[c].room, NoRoom, NoUser)
  /\ UNCHANGED <<pending, indexVars, roomVars, tasks, conns, storedScore>>

ForfeitCleanup(c) ==
  /\ handler[c].at = "quit"
  /\ CleanupPvpRoom(handler[c].room)
  /\ HandlerReturns(c)
  /\ UNCHANGED <<pending, roomVars, tasks, conns, recordVars>>

(* runPvpCountdownThenRound and beginPvpRound: the next question, with no
   answers yet and a new round timer. *)
BeginRound(t) ==
  LET r == t.room IN
  /\ t.at = "countdown"
  /\ IF Over(r) \/ currentRound[r] >= TotalRounds
     THEN UNCHANGED <<status, roundAnswers, roundTimers>>
     ELSE /\ status' = [status EXCEPT ![r] = "question"]
          /\ roundAnswers' = [roundAnswers EXCEPT ![r] = {}]
          /\ ArmRoundTimer(r)
  /\ TaskEnds(t)
  /\ UNCHANGED <<pending, indexVars, playerVars, scoreVars, abandonTimers,
                 absentTimers, handler, conns, recordVars>>

(* The round timer fires ... *)
RoundTimerFires(x) ==
  /\ x \in roundTimers
  /\ roundTimers' = roundTimers \ {x}
  /\ tasks' = tasks \cup {Goroutine(x.room, x.round, "timeout", NoUser, ZeroScore)}
  /\ UNCHANGED <<pending, indexVars, status, playerVars, scoreVars,
                 roundAnswers, abandonTimers, absentTimers, handler, conns,
                 recordVars>>

(* ... and settlePvpRoundTimeout ends the round, unless both answers were first
   or the callback comes so late that another round is being played. *)
TooLate(t) == status[t.room] # "question" \/ currentRound[t.room] # t.round

SettleTimeout(t) ==
  /\ t.at = "timeout"
  /\ IF TooLate(t)
     THEN TaskEnds(t) /\ UNCHANGED <<status, roundTimers>>
     ELSE /\ status' = [status EXCEPT ![t.room] = "resolving"]
          /\ ClearRoundTimer(t.room)
          /\ TaskAt(t, "finish")
  /\ UNCHANGED <<pending, indexVars, playerVars, scoreVars, roundAnswers,
                 abandonTimers, absentTimers, handler, conns, recordVars>>

Point(r, u) == IF [user |-> u, hit |-> TRUE] \in roundAnswers[r] THEN 1 ELSE 0
bugIsLast(n) == n + 2 >= TotalRounds
IsLast(n) == n = TotalRounds - 1

(* finishPvpRound under the room's mutex. *)
FinishRound(t) ==
  LET r == t.room
      n == currentRound[r]
      user == userScore[r] + Point(r, acceptor[r])
      opponent == opponentScore[r] + Point(r, challenger[r])
  IN
  /\ t.at = "finish"
  /\ IF status[r] # "resolving"
     THEN TaskEnds(t) /\ UNCHANGED <<status, scoreVars, roundAnswers, roundTimers>>
     ELSE /\ userScore' = [userScore EXCEPT ![r] = user]
          /\ opponentScore' = [opponentScore EXCEPT ![r] = opponent]
          /\ currentRound' = [currentRound EXCEPT ![r] = n + 1]
          /\ IF IsLast(n)
             THEN /\ status' = [status EXCEPT ![r] = "finished"]
                  /\ ClearRoundTimer(r)
                  /\ UNCHANGED roundAnswers
             ELSE /\ status' = [status EXCEPT ![r] = "countdown"]
                  /\ roundAnswers' = [roundAnswers EXCEPT ![r] = {}]
                  /\ UNCHANGED roundTimers
          /\ tasks' = (tasks \ {t}) \cup
                      {Goroutine(r, n, "persist", NoUser,
                                 [user |-> user, opponent |-> opponent])}
  /\ UNCHANGED <<pending, indexVars, playerVars, abandonTimers, absentTimers,
                 handler, conns, recordVars>>

(* UpdatePvpRoundWithScores writes the scores whatever the session's status. *)
PersistRound(t) ==
  /\ t.at = "persist"
  /\ MayFail(storedScore' = [storedScore EXCEPT ![t.room] = t.result], storedScore)
  /\ TaskAt(t, IF IsLast(t.round) THEN "complete" ELSE "countdown")
  /\ UNCHANGED <<pending, indexVars, roomVars, handler, conns, session, told>>

(* MarkCompleted: only a session in progress is changed. *)
MarkCompleted(r, result) ==
  IF session[r] = "in_progress"
  THEN /\ session' = [session EXCEPT ![r] = "completed"]
       /\ storedScore' = [storedScore EXCEPT ![r] = result]
  ELSE UNCHANGED storeVars

(* The result is stored, then battle:finished is sent to both in any case. *)
CompleteMatch(t) ==
  /\ t.at = "complete"
  /\ MayFail(MarkCompleted(t.room, t.result), storeVars)
  /\ Tell(t.room, "played", NoUser)
  /\ TaskAt(t, "cleanup")
  /\ UNCHANGED <<pending, indexVars, roomVars, handler, conns>>

TaskCleanup(t) ==
  /\ t.at = "cleanup"
  /\ CleanupPvpRoom(t.room)
  /\ TaskEnds(t)
  /\ UNCHANGED <<pending, roomVars, handler, conns, recordVars>>

-----------------------------------------------------------------------------
(* Absence.  OnDisconnect, under h.mu: the connection leaves the indexes and
   those that are left in its room are counted, both players' alike. *)
Disconnect(c) ==
  LET r == connToPvpRoom[c] IN
  /\ c \in Leaving
  /\ conns[c].at = "open"
  /\ connToPvpRoom' = [connToPvpRoom EXCEPT ![c] = NoRoom]
  /\ IF r \in pvpRooms
     THEN ConnAt(c, "settle", r, Cardinality({d \in Conn \ {c} : connToPvpRoom[d] = r}))
     ELSE ConnAt(c, "close", NoRoom, 0)
  /\ UNCHANGED <<pending, pvpRooms, userToPvpRoom, roomVars, tasks, handler,
                 recordVars>>

(* OnDisconnect, under the room's mutex: with nobody left the room is given a
   grace period, with one connection left the departed learner is.  A match
   that is over waits for nobody. *)
DisconnectSettle(c) ==
  LET r == conns[c].room IN
  /\ conns[c].at = "settle"
  /\ CASE ~Over(r) /\ conns[c].left = 0 ->
            ClearAbsentTimer(r) /\ abandonTimers' = abandonTimers \cup {r}
       [] ~Over(r) /\ conns[c].left = 1 ->
            /\ absentTimers' = {x \in absentTimers : x.room # r}
                                 \cup {[room |-> r, user |-> UserOf[c]]}
            /\ UNCHANGED abandonTimers
       [] OTHER -> UNCHANGED <<abandonTimers, absentTimers>>
  /\ ConnAt(c, "close", NoRoom, 0)
  /\ UNCHANGED <<pending, indexVars, status, playerVars, scoreVars,
                 roundAnswers, roundTimers, tasks, handler, recordVars>>

(* OnDisconnect has returned and closeConn closes the socket. *)
SocketCloses(c) ==
  /\ conns[c].at = "close"
  /\ ConnAt(c, "closed", NoRoom, 0)
  /\ UNCHANGED <<pending, indexVars, roomVars, tasks, handler, recordVars>>

(* The two timers fire; their callbacks look before they abandon the room. *)
AbandonTimerFires(r) ==
  /\ r \in abandonTimers
  /\ abandonTimers' = abandonTimers \ {r}
  /\ tasks' = tasks \cup {Goroutine(r, 0, "orphan", NoUser, ZeroScore)}
  /\ UNCHANGED <<pending, indexVars, status, playerVars, scoreVars,
                 roundAnswers, roundTimers, absentTimers, handler, conns,
                 recordVars>>

AbsentTimerFires(x) ==
  /\ x \in absentTimers
  /\ absentTimers' = absentTimers \ {x}
  /\ tasks' = tasks \cup {Goroutine(x.room, 0, "absent", x.user, ZeroScore)}
  /\ UNCHANGED <<pending, indexVars, status, playerVars, scoreVars,
                 roundAnswers, roundTimers, abandonTimers, handler, conns,
                 recordVars>>

(* abandonPvpRoomIfOrphaned asks whether any connection is in the room,
   tryAwardPvpWinForAbsentOpponent whether the departed learner has any. *)
NobodyBack(t) ==
  \/ t.at = "orphan" /\ \A c \in Conn : connToPvpRoom[c] # t.room
  \/ t.at = "absent" /\ BattleConnsForUser(t.user) = {}

AbsenceCheck(t) ==
  /\ t.at \in {"orphan", "absent"}
  /\ IF NobodyBack(t) THEN TaskAt(t, "abandon") ELSE TaskEnds(t)
  /\ UNCHANGED <<pending, indexVars, roomVars, handler, conns, recordVars>>

AbsenceAbandon(t) ==
  /\ t.at = "abandon"
  /\ IF Over(t.room)
     THEN TaskEnds(t) /\ UNCHANGED <<status, timerVars>>
     ELSE EndAbandoned(t.room) /\ TaskAt(t, "mark")
  /\ UNCHANGED <<pending, indexVars, playerVars, scoreVars, roundAnswers,
                 handler, conns, recordVars>>

AbsenceMark(t) ==
  /\ t.at = "mark"
  /\ RecordAbandoned(t.room, IF t.user = NoUser THEN "reconnect_timeout"
                                                ELSE "opponent_disconnect", t.user)
  /\ TaskAt(t, "cleanup")
  /\ UNCHANGED <<pending, indexVars, roomVars, handler, conns, storedScore>>

-----------------------------------------------------------------------------
(* POST /api/admin/battle/matches/{id}/abort writes the session only; the
   realtime server is not told. *)
AdminAbort(r) ==
  /\ AdminAborts
  /\ session[r] = "in_progress"
  /\ session' = [session EXCEPT ![r] = "abandoned"]
  /\ UNCHANGED <<pending, indexVars, roomVars, tasks, handler, conns,
                 storedScore, told>>

(* The process dies and a new one starts: memory is lost, and the tabs connect
   again.  The players, counters and verdicts of a lost room keep their last
   value as a record of what was played; nothing reads them any more. *)
Crash ==
  /\ Crashes
  /\ pending' = {}
  /\ pvpRooms' = {}
  /\ userToPvpRoom' = [u \in User |-> NoRoom]
  /\ connToPvpRoom' = [c \in Conn |-> NoRoom]
  /\ status' = [r \in Room |-> "none"]
  /\ roundAnswers' = [r \in Room |-> {}]
  /\ roundTimers' = {} /\ abandonTimers' = {} /\ absentTimers' = {}
  /\ tasks' = {}
  /\ handler' = [c \in Conn |-> Idle]
  /\ conns' = [c \in Conn |-> New]
  /\ UNCHANGED <<playerVars, scoreVars, recordVars>>

-----------------------------------------------------------------------------
(* What the message of a connection may start. *)
Receive(c) ==
  \/ \E id \in Challenge, u \in User : ChallengeUser(c, id, u)
  \/ \E ch \in pending : DeclineChallenge(c, ch) \/ AcceptChallenge(c, ch)
  \/ LobbyJoin(c)
  \/ \E r \in Room, hit \in Outcome : PvpAnswer(c, r, hit)
  \/ \E r \in Room : PvpForfeit(c, r)

(* One step of a handler that is past its first step. *)
HandlerStepOf(c) ==
  \/ ReplaceAbandon(c) \/ ReplaceMark(c) \/ ReplaceCleanup(c)
  \/ CreatePvpBattle(c) \/ CreateRefused(c) \/ RegisterRoom(c)
  \/ JoinCheck(c) \/ JoinRemember(c) \/ JoinForget(c) \/ JoinResync(c)
  \/ ForfeitMark(c) \/ ForfeitCleanup(c)

(* One step of the teardown of a connection that has begun. *)
CloserStepOf(c) == DisconnectSettle(c) \/ SocketCloses(c)

(* One step of a goroutine that plays a room, and of one that watches over it. *)
DriverStepOf(t) ==
  \/ BeginRound(t) \/ SettleTimeout(t) \/ FinishRound(t)
  \/ PersistRound(t) \/ CompleteMatch(t) \/ TaskCleanup(t)
WatcherStepOf(t) == AbsenceCheck(t) \/ AbsenceAbandon(t) \/ AbsenceMark(t)

TimerFires ==
  \/ \E x \in roundTimers : RoundTimerFires(x)
  \/ \E r \in abandonTimers : AbandonTimerFires(r)
  \/ \E x \in absentTimers : AbsentTimerFires(x)

Next ==
  \/ \E c \in Conn : \/ Connect(c)
                     \/ Receive(c)
                     \/ HandlerStepOf(c)
                     \/ Disconnect(c)
                     \/ CloserStepOf(c)
  \/ \E ch \in pending : ExpireChallenge(ch)
  \/ TimerFires
  \/ \E t \in tasks : DriverStepOf(t) \/ WatcherStepOf(t)
  \/ \E r \in Room : AdminAbort(r)
  \/ Crash

Spec == Init /\ [][Next]_vars

(* The Go scheduler runs every goroutine that is ready and every timer fires:
   weak fairness for handlers, teardowns, round timers and the goroutines of
   rooms and of timers.  Learners and administrators owe nothing, and nothing
   is assumed of the absence timers, which learners may clear for ever. *)
TasksOf(r) == {t \in tasks : t.room = r}
RoundProgress(r) == \/ \E x \in roundTimers : x.room = r /\ RoundTimerFires(x)
                    \/ \E t \in TasksOf(r) : DriverStepOf(t)
WatcherProgress(r) == \E t \in TasksOf(r) : WatcherStepOf(t)

FairSpec ==
  /\ Spec
  /\ \A c \in Conn : WF_vars(HandlerStepOf(c)) /\ WF_vars(CloserStepOf(c))
  /\ \A r \in Room : WF_vars(RoundProgress(r)) /\ WF_vars(WatcherProgress(r))

-----------------------------------------------------------------------------
(* Properties *)

(* Two answers, the round timer and an abandonment race for the same round: it
   is scored once, so nobody has more points than there were rounds and no
   round past the last one is played. *)
RoundScoredOnce ==
  \A r \in Room : /\ currentRound[r] <= TotalRounds
                  /\ userScore[r] <= currentRound[r]
                  /\ opponentScore[r] <= currentRound[r]

(* A player counts once in a round, and a question is never left on screen for
   the timer once both players have answered it. *)
AnswersEndTheRound ==
  \A r \in Room :
    /\ \A a, b \in roundAnswers[r] : a.user = b.user => a = b
    /\ status[r] = "question" =>
         \E u \in Players(r) : \A a \in roundAnswers[r] : a.user # u

(* Goroutines that own a phase of a room, as opposed to timer callbacks that
   have yet to find out whether they are late. *)
Drivers(r) == {t \in TasksOf(r) : t.at \in {"countdown", "finish", "persist", "complete"}}

(* At most one goroutine carries a room from phase to phase, none does while the
   room waits for answers, and the one that resolves a round resolves its own. *)
OneDriver ==
  \A r \in Room :
    /\ \A t1, t2 \in Drivers(r) : t1 = t2
    /\ status[r] = "question" => Drivers(r) = {}
    /\ \A t \in Drivers(r) : t.at = "finish" /\ status[r] = "resolving" =>
         t.round = currentRound[r]

(* Whatever races for it, a round is played by one goroutine, ends with the
   second answer and is scored once. *)
RoundIntegrity == RoundScoredOnce /\ AnswersEndTheRound /\ OneDriver

(* The goroutines and handlers on their way to record the end of a room and to
   remove it. *)
EndingTasks(r) ==
  {t \in TasksOf(r) : \/ t.at \in {"complete", "mark", "cleanup"}
                      \/ t.at = "persist" /\ IsLast(t.round)}
EndingHandlers(r) ==
  {c \in Conn : handler[c].at \in {"mark", "cleanup", "forfeit", "quit"}
                  /\ handler[c].room = r}
Enders(r) == Cardinality(EndingTasks(r)) + Cardinality(EndingHandlers(r))

(* The last round, a forfeit, a new challenge and two absence timers may all end
   a match: exactly one of them does, and it stays on its way until the room
   has left the indexes. *)
EndedByOne ==
  \A r \in Room : Enders(r) = IF r \in pvpRooms /\ Over(r) THEN 1 ELSE 0

(* A registered room is never stranded: in the question phase its round timer
   is armed or the callback for this very round is running, and in every other
   phase somebody is about to move it on or to remove it. *)
MovesOn(r) ==
  \/ /\ status[r] = "question"
     /\ \/ \E x \in roundTimers : x.room = r /\ x.round = currentRound[r]
        \/ \E t \in TasksOf(r) : t.at = "timeout" /\ t.round = currentRound[r]
  \/ status[r] \in {"countdown", "resolving"} /\ Drivers(r) # {}
  \/ Over(r) /\ Enders(r) > 0

RegisteredRoomMovesOn == \A r \in pvpRooms : MovesOn(r)

(* A round timer belongs to the question on screen and an abandoned match holds
   no timer: no question or absence of the past ends anything.  (A match played
   to its end may leave absence timers behind; their callbacks find it over.) *)
TimersAreOfThePresent ==
  /\ \A x \in roundTimers : status[x.room] = "question" /\ x.round = currentRound[x.room]
  /\ \A r \in abandonTimers : status[r] # "abandoned"
  /\ \A x \in absentTimers : status[x.room] # "abandoned"

(* The indexes agree: a learner's room is registered and one they play in, and
   only connections of its players are in a registered room. *)
IndexesAgree ==
  /\ \A u \in User : userToPvpRoom[u] # NoRoom =>
       userToPvpRoom[u] \in pvpRooms /\ u \in Players(userToPvpRoom[u])
  /\ \A c \in Conn : connToPvpRoom[c] \in pvpRooms => UserOf[c] \in Players(connToPvpRoom[c])

(* What replacements leave in the indexes is a room that can be found by its
   players and that somebody will remove. *)
RoomsAreHeld == RegisteredRoomMovesOn /\ IndexesAgree

(* The players are told one result, and a learner who is told to have lost by
   leaving is one of them. *)
OneVerdict ==
  /\ \A x, y \in told : x.room = y.room => x = y
  /\ \A x \in told : x.loser # NoUser => x.loser \in Players(x.room)

(* "A live match the user accepted must not lose its result": unless a write
   fails or an administrator steps in, the row ends the way the players were
   told. *)
VerdictIsStored ==
  \A x \in told :
    session[x.room] = IF x.why = "played" THEN "completed" ELSE "abandoned"

(* However a match ends, one goroutine or handler ends it, the players hear one
   result, and that result is the one the row keeps. *)
OneEnding == EndedByOne /\ OneVerdict /\ VerdictIsStored

(* A session is completed only by a match that was played to its last round,
   and nobody is about to mark such a match abandoned. *)
PlayedOutIsSpared ==
  /\ \A r \in Room : session[r] = "completed" => currentRound[r] = TotalRounds
  /\ \A c \in Conn : handler[c].at \in {"mark", "forfeit"} =>
       currentRound[handler[c].room] < TotalRounds
  /\ \A t \in tasks : t.at = "mark" => currentRound[t.room] < TotalRounds

(* Whatever the learners do or leave undone, a match ends: timers settle
   unanswered rounds, the room leaves the indexes, and its session does not stay
   in progress for ever. *)
MatchEnds == \A r \in Room :
  /\ r \in pvpRooms ~> r \notin pvpRooms
  /\ session[r] = "in_progress" ~> session[r] \in {"completed", "abandoned"}

(* The rows of battle_session behave as MatchLedger promises, whatever rooms,
   timers, forfeits, absences, failed writes and administrators do. *)
Ledger == INSTANCE MatchLedger WITH
  Match <- Room,
  round <- currentRound,
  score <- [r \in Room |-> [user |-> userScore[r], opponent |-> opponentScore[r]]],
  stored <- storedScore,
  announced <- {r \in Room : [room |-> r, why |-> "played", loser |-> NoUser] \in told}

ImplementsLedger == Ledger!LedgerSpec

=============================================================================
