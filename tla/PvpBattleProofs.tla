--------------------------- MODULE PvpBattleProofs ---------------------------
(***************************************************************************)
(* What PvpBattle promises for any number of learners, tabs, matches and   *)
(* rounds: rounds are played by one goroutine and scored once, timers are  *)
(* of the present, a match that was played out is spared, the rows behave  *)
(* as MatchLedger says, no registered room is stranded, one goroutine or   *)
(* handler ends a match and takes its room out of the indexes, and the     *)
(* players are told one result, the one the row keeps.                     *)
(*                                                                         *)
(* The invariant follows a match from its row to its room.  Between the    *)
(* transaction that creates the row and the lock under which the room is   *)
(* registered its handler alone knows of it (Fresh); afterwards whatever   *)
(* holds its name, an index, a timer, a goroutine or a handler, holds the  *)
(* name of a room that is in memory and stays there (IInv).                *)
(*                                                                         *)
(* JInv, a second invariant on top of IInv, is for the endings: who will   *)
(* move each match on, who is on the way to remove one that is over, and   *)
(* whether its players have been told.  What a step changes in one match   *)
(* is the business of the lemma for that step; all other matches are the   *)
(* Same.                                                                   *)
(***************************************************************************)
EXTENDS PvpBattle, FiniteSetTheorems, TLAPS

USE DEF ClearRoundTimer, ClearAbandonTimer, ClearAbsentTimer, HandlerAt, HandlerReturns,
        ConnAt, Goroutine, TaskAt, TaskEnds, InHub, indexVars, playerVars, scoreVars,
        timerVars, roomVars, storeVars, recordVars

Live == {"countdown", "question", "resolving"}
DriverAt == {"countdown", "finish", "persist", "complete"}
ShownScore(r) == [user |-> userScore[r], opponent |-> opponentScore[r]]

(* Nothing has happened in the match yet. *)
Fresh(r) ==
  status[r] = "none" /\ currentRound[r] = 0 /\ userScore[r] = 0 /\ opponentScore[r] = 0

(* A match with a row has a player to wait for; one that is not over has rounds
   left; a score counts rounds; a question waits for somebody. *)
RoomFits(r) ==
  /\ session[r] = "absent" => Fresh(r)
  /\ session[r] # "absent" => acceptor[r] \in User
  /\ status[r] \in Live => session[r] # "absent" /\ currentRound[r] < TotalRounds
  /\ currentRound[r] <= TotalRounds
  /\ userScore[r] <= currentRound[r] /\ opponentScore[r] <= currentRound[r]
  /\ \A a, b \in roundAnswers[r] : a.user = b.user => a = b
  /\ status[r] = "question" => \E u \in Players(r) : \A a \in roundAnswers[r] : a.user # u
  /\ session[r] = "completed" => currentRound[r] = TotalRounds

(* What the driver of a room finds when it moves on; who is about to mark a match
   abandoned was the one to end it, before its last round. *)
TaskFits(t) ==
  LET r == t.room IN
  /\ status[r] # "none"
  /\ t.at = "finish" /\ status[r] = "resolving" => t.round = currentRound[r]
  /\ t.at \in {"persist", "complete"} =>
       currentRound[r] = t.round + 1 /\ t.result = ShownScore(r)
  /\ t.at = "complete" => IsLast(t.round)
  /\ t.at = "mark" => status[r] = "abandoned" /\ currentRound[r] < TotalRounds

DriverFits(r) ==
  /\ \A t1, t2 \in Drivers(r) : t1 = t2
  /\ status[r] = "question" => Drivers(r) = {}

HandlerFits(c) ==
  LET r == handler[c].room IN
  /\ handler[c].at = "register" => session[r] # "absent" /\ Fresh(r)
  /\ handler[c].at # "register" /\ r # NoRoom => status[r] # "none"
  /\ handler[c].next # NoRoom => status[handler[c].next] # "none"
  /\ handler[c].at \in {"mark", "forfeit"} =>
       status[r] = "abandoned" /\ currentRound[r] < TotalRounds

(* A match that has no room yet is on its way in one handler. *)
RegistersApart ==
  \A c, d \in Conn :
    handler[c].at = "register" /\ handler[d].at = "register"
      /\ handler[c].room = handler[d].room => c = d

IndexFits ==
  /\ \A r \in pvpRooms : status[r] # "none"
  /\ \A u \in User : userToPvpRoom[u] # NoRoom => status[userToPvpRoom[u]] # "none"
  /\ \A c \in Conn : conns[c].at = "settle" => status[conns[c].room] # "none"

TimersFit ==
  /\ \A x \in roundTimers : status[x.room] = "question" /\ x.round = currentRound[x.room]
  /\ \A r \in abandonTimers : status[r] \notin {"none", "abandoned"}
  /\ \A x \in absentTimers : status[x.room] \notin {"none", "abandoned"}

IInv ==
  /\ \A r \in Room : RoomFits(r)
  /\ \A t \in tasks : TaskFits(t)
  /\ \A r \in Room : DriverFits(r)
  /\ \A c \in Conn : HandlerFits(c)
  /\ RegistersApart
  /\ IndexFits
  /\ TimersFit

-----------------------------------------------------------------------------
(* Type correctness *)

(* The fields of a goroutine, and of a handler that has a room, have their types. *)
LEMMA TaskFields ==
  ASSUME TypeOK, NEW t \in tasks
  PROVE  /\ t.room \in Room /\ t.round \in Nat /\ t.at \in TaskStep
         /\ t.user \in MaybeUser /\ t.result \in Score
  BY DEF TypeOK, Task

LEMMA HandlerFields ==
  ASSUME TypeOK, NEW c \in Conn
  PROVE  /\ handler[c].at \notin {"idle", "create"} => handler[c].room \in Room
         /\ handler[c].at \in {"idle", "create"} =>
              handler[c].room = NoRoom /\ handler[c].next = NoRoom
         /\ handler[c].next \in Room \cup {NoRoom}
         /\ handler[c].user \in MaybeUser
  <1>1. handler[c] \in Handler
    BY DEF TypeOK
  <1>2. QED
    BY <1>1 DEF Handler

(* A step that changes nothing but handlers keeps the types if it leaves its own
   handler at a place that handlers can be in. *)
LEMMA HandlerTyped ==
  ASSUME TypeOK, NEW c \in Conn, NEW step, NEW r, NEW next, NEW u \in MaybeUser,
         HandlerAt(c, step, r, next, u),
         \/ step \in {"idle", "create"} /\ r = NoRoom /\ next = NoRoom
         \/ /\ step \in {"check", "remember", "forget", "resync", "register",
                         "abandon", "mark", "cleanup", "forfeit", "quit"}
            /\ r \in Room /\ next \in Room \cup {NoRoom}
  PROVE  handler' \in [Conn -> Handler]
  <1> DEFINE h == [at |-> step, room |-> r, next |-> next, user |-> u]
  <1>1. h \in Handler
    BY DEF Handler
  <1>2. QED
    BY <1>1 DEF TypeOK

(* The previous rooms of two learners are gone through by a handler that is well
   formed at every step. *)
LEMMA AbandonNextTyped ==
  ASSUME TypeOK, NEW c \in Conn, NEW first \in Room \cup {NoRoom},
         NEW second \in Room \cup {NoRoom}, NEW from \in MaybeUser,
         AbandonNext(c, first, second, from)
  PROVE  handler' \in [Conn -> Handler]
  <1>1. CASE first # NoRoom
    BY <1>1, HandlerTyped DEF AbandonNext
  <1>2. CASE first = NoRoom /\ second # NoRoom
    BY <1>2, HandlerTyped DEF AbandonNext
  <1>3. CASE first = NoRoom /\ second = NoRoom
    BY <1>3, HandlerTyped DEF AbandonNext
  <1>4. QED
    BY <1>1, <1>2, <1>3

(* Taking a room out of the indexes keeps their types. *)
LEMMA CleanupTyped ==
  ASSUME TypeOK, NEW r \in Room, CleanupPvpRoom(r)
  PROVE  /\ pvpRooms' \subseteq Room
         /\ userToPvpRoom' \in [User -> Room \cup {NoRoom}]
         /\ connToPvpRoom' \in [Conn -> Room \cup {NoRoom}]
  BY DEF TypeOK, CleanupPvpRoom

(* The same goroutine, at another step. *)
LEMMA TaskTyped ==
  ASSUME TypeOK, NEW t \in tasks, NEW step \in TaskStep, TaskAt(t, step)
  PROVE  tasks' \subseteq Task
  BY DEF TypeOK, Task

(* Recording an abandonment keeps the types of the row and of what was told. *)
LEMMA RecordTyped ==
  ASSUME TypeOK, NEW r \in Room, NEW why \in Why, NEW loser \in MaybeUser,
         RecordAbandoned(r, why, loser)
  PROVE  /\ session' \in [Room -> {"absent", "in_progress", "completed", "abandoned"}]
         /\ told' \subseteq Verdict
  <1>1. [room |-> r, why |-> why, loser |-> loser] \in Verdict
    BY DEF Verdict
  <1>2. told' \subseteq Verdict
    BY <1>1 DEF TypeOK, RecordAbandoned, Tell
  <1>3. QED
    BY <1>2 DEF TypeOK, RecordAbandoned, MayFail, MarkAbandoned

(* The initial state has the declared types. *)
LEMMA InitTypeOK == Init => TypeOK
  BY DEF Init, TypeOK, Idle, New, ZeroScore, Handler, Phase, MaybeUser, Score

(* The messages of a learner keep the types. *)
LEMMA ReceiveTypeOK ==
  ASSUME TypeOK, NEW c \in Conn, Receive(c)
  PROVE  TypeOK'
  <1> USE ConnAssumption
  <1>1. UserOf[c] \in User /\ NoUser \in MaybeUser /\ UserOf[c] \in MaybeUser
    BY DEF MaybeUser
  <1>2. CASE \E id \in Challenge, u \in User : ChallengeUser(c, id, u)
    BY <1>1, <1>2 DEF TypeOK, ChallengeUser, Pending
  <1>3. CASE \E ch \in pending : DeclineChallenge(c, ch)
    BY <1>3 DEF TypeOK, DeclineChallenge
  <1>4. CASE \E ch \in pending : AcceptChallenge(c, ch)
    <2> PICK ch \in pending : AcceptChallenge(c, ch)
      BY <1>4
    <2>1. ch.from \in User
      BY DEF TypeOK, Pending
    <2>2. handler' \in [Conn -> Handler]
      <3>1. userToPvpRoom[UserOf[c]] \in Room \cup {NoRoom}
            /\ userToPvpRoom[ch.from] \in Room \cup {NoRoom}
        BY <1>1, <2>1 DEF TypeOK
      <3>2. AbandonNext(c, userToPvpRoom[UserOf[c]], userToPvpRoom[ch.from], ch.from)
        BY DEF AcceptChallenge
      <3>3. ch.from \in MaybeUser
        BY <2>1 DEF MaybeUser
      <3>4. QED
        BY <3>1, <3>2, <3>3, AbandonNextTyped
    <2>3. QED
      BY <2>2 DEF TypeOK, AcceptChallenge
  <1>5. CASE LobbyJoin(c)
    <2>1. userToPvpRoom[UserOf[c]] \in Room
      BY <1>1, <1>5 DEF TypeOK, LobbyJoin
    <2>2. handler' \in [Conn -> Handler]
      BY <1>1, <1>5, <2>1, HandlerTyped DEF LobbyJoin
    <2>3. QED
      BY <1>5, <2>2 DEF TypeOK, LobbyJoin
  <1>6. CASE \E r \in Room, hit \in Outcome : PvpAnswer(c, r, hit)
    <2> PICK r \in Room, hit \in Outcome : PvpAnswer(c, r, hit)
      BY <1>6
    <2>1. Goroutine(r, currentRound[r], "finish", NoUser, ZeroScore) \in Task
      BY <1>1 DEF TypeOK, Task, TaskStep, ZeroScore, Score
    <2>2. tasks' \subseteq Task
      BY <2>1 DEF TypeOK, PvpAnswer
    <2>3. roundAnswers' \in [Room -> SUBSET [user : User, hit : BOOLEAN]]
      <3>1. [user |-> UserOf[c], hit |-> hit] \in [user : User, hit : BOOLEAN]
        BY <1>1, BoundAssumption
      <3>2. QED
        BY <3>1 DEF TypeOK, PvpAnswer
    <2>4. QED
      BY <2>2, <2>3 DEF TypeOK, PvpAnswer
  <1>7. CASE \E r \in Room : PvpForfeit(c, r)
    <2> PICK r \in Room : PvpForfeit(c, r)
      BY <1>7
    <2>1. handler' \in [Conn -> Handler]
      BY <1>1, HandlerTyped DEF PvpForfeit
    <2>2. QED
      BY <2>1 DEF TypeOK, PvpForfeit, EndAbandoned
  <1>8. QED
    BY <1>2, <1>3, <1>4, <1>5, <1>6, <1>7 DEF Receive

(* The steps of read loops that handle a message keep the types. *)
LEMMA HandlerTypeOK ==
  ASSUME TypeOK, NEW c \in Conn, HandlerStepOf(c)
  PROVE  TypeOK'
  <1> USE ConnAssumption
  <1> DEFINE r == handler[c].room
             next == handler[c].next
             from == handler[c].user
  <1>1. /\ UserOf[c] \in User /\ NoUser \in MaybeUser /\ UserOf[c] \in MaybeUser
        /\ next \in Room \cup {NoRoom} /\ from \in MaybeUser
    BY HandlerFields DEF MaybeUser
  <1>2. CASE ReplaceAbandon(c)
    <2>1. r \in Room
      BY <1>2, HandlerFields DEF ReplaceAbandon
    <2>2. handler' \in [Conn -> Handler]
      BY <1>1, <1>2, <2>1, HandlerTyped, AbandonNextTyped DEF ReplaceAbandon
    <2>3. QED
      BY <1>2, <2>1, <2>2 DEF TypeOK, ReplaceAbandon, EndAbandoned
  <1>3. CASE ReplaceMark(c)
    <2>1. r \in Room
      BY <1>3, HandlerFields DEF ReplaceMark
    <2>2. handler' \in [Conn -> Handler]
      BY <1>1, <1>3, <2>1, HandlerTyped DEF ReplaceMark
    <2>3. /\ session' \in [Room -> {"absent", "in_progress", "completed", "abandoned"}]
          /\ told' \subseteq Verdict
      BY <1>1, <1>3, <2>1, RecordTyped DEF ReplaceMark, Why
    <2>4. QED
      BY <1>3, <2>2, <2>3 DEF TypeOK, ReplaceMark
  <1>4. CASE ReplaceCleanup(c)
    <2>1. r \in Room
      BY <1>4, HandlerFields DEF ReplaceCleanup
    <2>2. handler' \in [Conn -> Handler]
      BY <1>1, <1>4, AbandonNextTyped DEF ReplaceCleanup
    <2>3. QED
      BY <1>4, <2>1, <2>2, CleanupTyped DEF TypeOK, ReplaceCleanup
  <1>5. CASE CreatePvpBattle(c)
    <2> PICK s \in Room :
          /\ session' = [session EXCEPT ![s] = "in_progress"]
          /\ acceptor' = [acceptor EXCEPT ![s] = UserOf[c]]
          /\ challenger' = [challenger EXCEPT ![s] = from]
          /\ HandlerAt(c, "register", s, NoRoom, from)
      BY <1>5 DEF CreatePvpBattle
    <2>1. handler' \in [Conn -> Handler]
      BY <1>1, HandlerTyped
    <2>2. acceptor' \in [Room -> MaybeUser] /\ challenger' \in [Room -> MaybeUser]
      BY <1>1 DEF TypeOK
    <2>3. QED
      BY <1>5, <2>1, <2>2 DEF TypeOK, CreatePvpBattle
  <1>6. CASE CreateRefused(c)
    <2>1. handler' \in [Conn -> Handler]
      BY <1>1, <1>6, HandlerTyped DEF CreateRefused
    <2>2. QED
      BY <1>6, <2>1 DEF TypeOK, CreateRefused
  <1>7. CASE RegisterRoom(c)
    <2>1. r \in Room
      BY <1>7, HandlerFields DEF RegisterRoom
    <2>2. handler' \in [Conn -> Handler]
      BY <1>1, <1>7, HandlerTyped DEF RegisterRoom
    <2>3. tasks' \subseteq Task
      <3>1. Goroutine(r, 0, "countdown", NoUser, ZeroScore) \in Task
        BY <1>1, <2>1 DEF Task, TaskStep, ZeroScore, Score
      <3>2. QED
        BY <1>7, <3>1 DEF TypeOK, RegisterRoom
    <2>4. /\ pvpRooms' \subseteq Room
          /\ userToPvpRoom' \in [User -> Room \cup {NoRoom}]
          /\ connToPvpRoom' \in [Conn -> Room \cup {NoRoom}]
      BY <1>7, <2>1 DEF TypeOK, RegisterRoom
    <2>5. QED
      BY <1>7, <2>1, <2>2, <2>3, <2>4 DEF TypeOK, RegisterRoom
  <1>8. CASE JoinCheck(c) \/ JoinRemember(c) \/ JoinForget(c) \/ JoinResync(c)
    <2>1. r \in Room
      BY <1>8, HandlerFields DEF JoinCheck, JoinRemember, JoinForget, JoinResync
    <2>2. handler' \in [Conn -> Handler]
      BY <1>1, <1>8, <2>1, HandlerTyped DEF JoinCheck, JoinRemember, JoinForget, JoinResync
    <2>3. QED
      BY <1>1, <1>8, <2>1, <2>2 DEF TypeOK, JoinCheck, JoinRemember, JoinForget, JoinResync
  <1>9. CASE ForfeitMark(c)
    <2>1. r \in Room
      BY <1>9, HandlerFields DEF ForfeitMark
    <2>2. handler' \in [Conn -> Handler]
      BY <1>1, <1>9, <2>1, HandlerTyped DEF ForfeitMark
    <2>3. /\ session' \in [Room -> {"absent", "in_progress", "completed", "abandoned"}]
          /\ told' \subseteq Verdict
      BY <1>1, <1>9, <2>1, RecordTyped DEF ForfeitMark, Why
    <2>4. QED
      BY <1>9, <2>2, <2>3 DEF TypeOK, ForfeitMark
  <1>10. CASE ForfeitCleanup(c)
    <2>1. r \in Room
      BY <1>10, HandlerFields DEF ForfeitCleanup
    <2>2. handler' \in [Conn -> Handler]
      BY <1>1, <1>10, HandlerTyped DEF ForfeitCleanup
    <2>3. QED
      BY <1>10, <2>1, <2>2, CleanupTyped DEF TypeOK, ForfeitCleanup
  <1>11. QED
    BY <1>2, <1>3, <1>4, <1>5, <1>6, <1>7, <1>8, <1>9, <1>10 DEF HandlerStepOf

(* Connecting and disconnecting keep the types: how many connections are left in
   a room is a number because there are finitely many. *)
LEMMA ConnTypeOK ==
  ASSUME TypeOK, NEW c \in Conn, Connect(c) \/ Disconnect(c) \/ CloserStepOf(c)
  PROVE  TypeOK'
  <1>1. CASE Connect(c)
    BY <1>1 DEF TypeOK, Connect, Phase
  <1>2. CASE Disconnect(c)
    <2> DEFINE here == {d \in Conn \ {c} : connToPvpRoom[d] = connToPvpRoom[c]}
    <2>1. Cardinality(here) \in Nat
      BY ConnAssumption, FS_Subset, FS_CardinalityType
    <2> HIDE DEF here
    <2>2. connToPvpRoom[c] \in pvpRooms =>
            ConnAt(c, "settle", connToPvpRoom[c], Cardinality(here))
      BY <1>2 DEF Disconnect, here
    <2>3. connToPvpRoom[c] \notin pvpRooms => ConnAt(c, "close", NoRoom, 0)
      BY <1>2 DEF Disconnect
    <2>4. conns' \in [Conn -> Phase]
      BY <2>1, <2>2, <2>3 DEF TypeOK, Phase
    <2>5. QED
      BY <1>2, <2>4 DEF TypeOK, Disconnect
  <1>3. CASE DisconnectSettle(c)
    <2>1. conns[c].room \in Room
      BY <1>3 DEF TypeOK, DisconnectSettle, Phase
    <2>2. conns' \in [Conn -> Phase]
      BY <1>3 DEF TypeOK, DisconnectSettle, Phase
    <2>3. UserOf[c] \in User
      BY ConnAssumption
    <2>4. abandonTimers' \subseteq Room /\ absentTimers' \subseteq [room : Room, user : User]
      BY <1>3, <2>1, <2>3 DEF TypeOK, DisconnectSettle
    <2>5. QED
      BY <1>3, <2>2, <2>4 DEF TypeOK, DisconnectSettle
  <1>4. CASE SocketCloses(c)
    BY <1>4 DEF TypeOK, SocketCloses, Phase
  <1>5. QED
    BY <1>1, <1>2, <1>3, <1>4 DEF CloserStepOf

(* The steps of the goroutine that plays a room keep the types. *)
LEMMA DriverTypeOK ==
  ASSUME TypeOK, NEW t \in tasks, DriverStepOf(t)
  PROVE  TypeOK'
  <1> DEFINE r == t.room
  <1>1. t \in Task /\ r \in Room /\ NoUser \in MaybeUser
    BY TaskFields DEF TypeOK, MaybeUser
  <1>2. CASE BeginRound(t)
    BY <1>1, <1>2 DEF TypeOK, BeginRound, ArmRoundTimer
  <1>3. CASE SettleTimeout(t)
    <2>1. tasks' \subseteq Task
      BY <1>3, TaskTyped DEF SettleTimeout, TaskStep, TypeOK
    <2>2. QED
      BY <1>1, <1>3, <2>1 DEF TypeOK, SettleTimeout
  <1>4. CASE FinishRound(t)
    <2> DEFINE user == userScore[r] + Point(r, acceptor[r])
               opponent == opponentScore[r] + Point(r, challenger[r])
               result == [user |-> user, opponent |-> opponent]
               next == Goroutine(r, currentRound[r], "persist", NoUser, result)
    <2>1. user \in Nat /\ opponent \in Nat /\ currentRound[r] \in Nat
          /\ currentRound[r] + 1 \in Nat
      BY <1>1 DEF TypeOK, Point
    <2>2. next \in Task
      BY <1>1, <2>1 DEF Task, TaskStep, Score
    <2> HIDE DEF user, opponent, next
    <2>3. CASE status[r] # "resolving"
      BY <1>4, <2>3 DEF TypeOK, FinishRound
    <2>4. CASE status[r] = "resolving"
      <3>1. /\ userScore' = [userScore EXCEPT ![r] = user]
            /\ opponentScore' = [opponentScore EXCEPT ![r] = opponent]
            /\ currentRound' = [currentRound EXCEPT ![r] = currentRound[r] + 1]
            /\ tasks' = (tasks \ {t}) \cup {next}
        BY <1>4, <2>4 DEF FinishRound, user, opponent, next
      <3>2. /\ status' \in [Room -> {"none", "countdown", "question", "resolving",
                                     "finished", "abandoned"}]
            /\ roundAnswers' \in [Room -> SUBSET [user : User, hit : BOOLEAN]]
            /\ roundTimers' \subseteq [room : Room, round : Nat]
        BY <1>1, <1>4 DEF TypeOK, FinishRound
      <3>3. /\ userScore' \in [Room -> Nat]
            /\ opponentScore' \in [Room -> Nat]
            /\ currentRound' \in [Room -> Nat]
            /\ tasks' \subseteq Task
        BY <2>1, <2>2, <3>1 DEF TypeOK
      <3>4. UNCHANGED <<pending, indexVars, playerVars, abandonTimers, absentTimers,
                        handler, conns, recordVars>>
        BY <1>4 DEF FinishRound
      <3>5. QED
        BY <3>2, <3>3, <3>4 DEF TypeOK
    <2>5. QED
      BY <2>3, <2>4
  <1>5. CASE PersistRound(t)
    <2>1. tasks' \subseteq Task
      BY <1>5, TaskTyped DEF PersistRound, TaskStep
    <2>2. QED
      BY <1>1, <1>5, <2>1, TaskFields DEF TypeOK, PersistRound, MayFail
  <1>6. CASE CompleteMatch(t)
    <2>1. tasks' \subseteq Task
      BY <1>6, TaskTyped DEF CompleteMatch, TaskStep
    <2>2. told' \subseteq Verdict
      BY <1>1, <1>6 DEF TypeOK, CompleteMatch, Tell, Verdict
    <2>3. /\ session' \in [Room -> {"absent", "in_progress", "completed", "abandoned"}]
          /\ storedScore' \in [Room -> Score]
      BY <1>1, <1>6, TaskFields DEF TypeOK, CompleteMatch, MayFail, MarkCompleted
    <2>4. QED
      BY <1>6, <2>1, <2>2, <2>3 DEF TypeOK, CompleteMatch
  <1>7. CASE TaskCleanup(t)
    BY <1>1, <1>7, CleanupTyped DEF TypeOK, TaskCleanup
  <1>8. QED
    BY <1>2, <1>3, <1>4, <1>5, <1>6, <1>7 DEF DriverStepOf

(* So do the steps of the goroutines that watch over absences. *)
LEMMA WatcherTypeOK ==
  ASSUME TypeOK, NEW t \in tasks, WatcherStepOf(t)
  PROVE  TypeOK'
  <1>1. CASE AbsenceCheck(t)
    <2>1. tasks' \subseteq Task
      BY <1>1, TaskTyped DEF AbsenceCheck, TaskStep, TypeOK
    <2>2. QED
      BY <1>1, <2>1 DEF TypeOK, AbsenceCheck
  <1>2. CASE AbsenceAbandon(t)
    <2>1. tasks' \subseteq Task
      BY <1>2, TaskTyped DEF AbsenceAbandon, TaskStep, TypeOK
    <2>2. QED
      BY <1>2, <2>1, TaskFields DEF TypeOK, AbsenceAbandon, EndAbandoned
  <1>3. CASE AbsenceMark(t)
    <2>1. tasks' \subseteq Task
      BY <1>3, TaskTyped DEF AbsenceMark, TaskStep
    <2>2. /\ session' \in [Room -> {"absent", "in_progress", "completed", "abandoned"}]
          /\ told' \subseteq Verdict
      BY <1>3, RecordTyped, TaskFields DEF AbsenceMark, Why
    <2>3. QED
      BY <1>3, <2>1, <2>2 DEF TypeOK, AbsenceMark
  <1>4. QED
    BY <1>1, <1>2, <1>3 DEF WatcherStepOf

(* A timer that fires starts a well-formed callback. *)
LEMMA TimerTypeOK ==
  ASSUME TypeOK, TimerFires
  PROVE  TypeOK'
  <1> USE DEF Task, TaskStep, ZeroScore, Score, MaybeUser
  <1>1. CASE \E x \in roundTimers : RoundTimerFires(x)
    <2> PICK x \in roundTimers : RoundTimerFires(x)
      BY <1>1
    <2>1. Goroutine(x.room, x.round, "timeout", NoUser, ZeroScore) \in Task
      BY DEF TypeOK
    <2>2. QED
      BY <2>1 DEF TypeOK, RoundTimerFires
  <1>2. CASE \E r \in abandonTimers : AbandonTimerFires(r)
    <2> PICK r \in abandonTimers : AbandonTimerFires(r)
      BY <1>2
    <2>1. Goroutine(r, 0, "orphan", NoUser, ZeroScore) \in Task
      BY DEF TypeOK
    <2>2. QED
      BY <2>1 DEF TypeOK, AbandonTimerFires
  <1>3. CASE \E x \in absentTimers : AbsentTimerFires(x)
    <2> PICK x \in absentTimers : AbsentTimerFires(x)
      BY <1>3
    <2>1. Goroutine(x.room, 0, "absent", x.user, ZeroScore) \in Task
      BY DEF TypeOK
    <2>2. QED
      BY <2>1 DEF TypeOK, AbsentTimerFires
  <1>4. QED
    BY <1>1, <1>2, <1>3 DEF TimerFires

(* Every step keeps the types. *)
LEMMA NextTypeOK == TypeOK /\ [Next]_vars => TypeOK'
  <1> SUFFICES ASSUME TypeOK, [Next]_vars PROVE TypeOK'
    OBVIOUS
  <1>1. CASE \E c \in Conn : Receive(c) \/ HandlerStepOf(c)
    BY <1>1, ReceiveTypeOK, HandlerTypeOK
  <1>2. CASE \E c \in Conn : Connect(c) \/ Disconnect(c) \/ CloserStepOf(c)
    BY <1>2, ConnTypeOK
  <1>3. CASE \E ch \in pending : ExpireChallenge(ch)
    BY <1>3 DEF TypeOK, ExpireChallenge
  <1>4. CASE TimerFires
    BY <1>4, TimerTypeOK
  <1>5. CASE \E t \in tasks : DriverStepOf(t) \/ WatcherStepOf(t)
    BY <1>5, DriverTypeOK, WatcherTypeOK
  <1>6. CASE \E r \in Room : AdminAbort(r)
    BY <1>6 DEF TypeOK, AdminAbort
  <1>7. CASE Crash
    BY <1>7 DEF TypeOK, Crash, Idle, New, Handler, Phase, MaybeUser
  <1>8. CASE UNCHANGED vars
    BY <1>8 DEF TypeOK, vars
  <1>9. QED
    BY <1>1, <1>2, <1>3, <1>4, <1>5, <1>6, <1>7, <1>8 DEF Next

(* Every reachable state has the declared types, with any learners, tabs, matches
   and rounds and with every fault. *)
THEOREM TypeCorrect == Spec => []TypeOK
  <1>1. Init => TypeOK
    BY InitTypeOK
  <1>2. QED
    BY <1>1, NextTypeOK, PTL DEF Spec

-----------------------------------------------------------------------------
(* What a step leaves alone *)

(* A row that is closed is abandoned, or completed by a match that was played to
   its last round. *)
Closes(r) ==
  /\ session[r] = "in_progress"
  /\ \/ session'[r] = "abandoned"
     \/ session'[r] = "completed" /\ currentRound[r] = TotalRounds

(* A step that changes no room does no harm, if it only closes rows, starts no
   driver, leaves the indexes with nothing new, and arms no timer of a match that
   has no room or was abandoned. *)
LEMMA CalmStep ==
  ASSUME TypeOK, TypeOK', IInv,
         UNCHANGED <<status, playerVars, scoreVars, roundAnswers>>,
         \A r \in Room : session'[r] = session[r] \/ Closes(r),
         \A t \in tasks' : t \in tasks \/ (TaskFits(t) /\ t.at \notin DriverAt),
         \A c \in Conn : handler'[c] = handler[c]
                           \/ (HandlerFits(c)' /\ handler'[c].at # "register"),
         pvpRooms' \subseteq pvpRooms,
         \A u \in User : userToPvpRoom'[u] \in {userToPvpRoom[u], NoRoom},
         \A c \in Conn : conns'[c].at = "settle" =>
                           conns'[c] = conns[c] \/ conns'[c].room \in pvpRooms,
         roundTimers' \subseteq roundTimers,
         \A r \in abandonTimers' : r \in abandonTimers
                                     \/ status[r] \notin {"none", "abandoned"},
         \A x \in absentTimers' : x \in absentTimers
                                    \/ status[x.room] \notin {"none", "abandoned"}
  PROVE  IInv'
  <1>1. ASSUME NEW r \in Room PROVE RoomFits(r)'
    <2>1. RoomFits(r)
      BY DEF IInv
    <2>2. session[r] = "absent" <=> session'[r] = "absent"
      BY DEF Closes
    <2>3. session'[r] = "completed" => currentRound[r] = TotalRounds
      BY <2>1 DEF Closes, RoomFits
    <2>4. QED
      BY <2>1, <2>2, <2>3 DEF RoomFits, Fresh, Players
  <1>2. ASSUME NEW t \in tasks' PROVE TaskFits(t)'
    <2>1. TaskFits(t)
      BY DEF IInv
    <2>2. QED
      BY <2>1 DEF TaskFits, ShownScore, IsLast
  <1>3. ASSUME NEW r \in Room PROVE DriverFits(r)'
    <2>1. Drivers(r)' \subseteq Drivers(r)
      BY DEF Drivers, TasksOf, DriverAt
    <2>2. QED
      BY <2>1 DEF IInv, DriverFits
  <1>4. ASSUME NEW c \in Conn PROVE HandlerFits(c)'
    <2>1. CASE handler'[c] = handler[c]
      <3>1. HandlerFits(c)
        BY DEF IInv
      <3>2. handler[c].at = "register" => handler[c].room \in Room
        BY HandlerFields
      <3>3. handler[c].at = "register" => session'[handler[c].room] # "absent"
        BY <3>1, <3>2 DEF HandlerFits, Closes
      <3>4. QED
        BY <2>1, <3>1, <3>3 DEF HandlerFits, Fresh
    <2>2. QED
      BY <2>1
  <1>5. RegistersApart'
    BY DEF IInv, RegistersApart
  <1>6. IndexFits'
    BY DEF IInv, IndexFits
  <1>7. TimersFit'
    BY DEF IInv, TimersFit
  <1>8. QED
    BY <1>1, <1>2, <1>3, <1>4, <1>5, <1>6, <1>7 DEF IInv

(* The state of one match. *)
MatchState(r) ==
  <<session[r], status[r], acceptor[r], challenger[r], currentRound[r], userScore[r],
    opponentScore[r], roundAnswers[r]>>

(* A step of one match does no harm if what it leaves of this match fits. *)
LEMMA RoomStep ==
  ASSUME TypeOK, TypeOK', IInv, NEW r \in Room,
         \A s \in Room \ {r} : MatchState(s)' = MatchState(s),
         status'[r] # "none",
         status[r] = "abandoned" => status'[r] = "abandoned"
                                      /\ currentRound'[r] = currentRound[r],
         RoomFits(r)', DriverFits(r)',
         \A t \in tasks' : IF t.room = r THEN TaskFits(t)' ELSE t \in tasks,
         \A c \in Conn : \/ handler'[c] = handler[c]
                            /\ (handler[c].at = "register" => handler[c].room # r)
                         \/ (HandlerFits(c)' /\ handler'[c].at # "register"),
         pvpRooms' \subseteq pvpRooms \cup {r},
         \A u \in User : userToPvpRoom'[u] \in {userToPvpRoom[u], r},
         UNCHANGED conns,
         \A x \in roundTimers' : IF x.room = r
                                 THEN status'[r] = "question" /\ x.round = currentRound'[r]
                                 ELSE x \in roundTimers,
         abandonTimers' \subseteq abandonTimers, absentTimers' \subseteq absentTimers,
         status'[r] = "abandoned" =>
           r \notin abandonTimers' /\ \A x \in absentTimers' : x.room # r
  PROVE  IInv'
  <1>1. ASSUME NEW s \in Room PROVE RoomFits(s)'
    <2>1. CASE s # r
      <3>1. RoomFits(s) /\ MatchState(s)' = MatchState(s)
        BY <2>1 DEF IInv
      <3>2. QED
        BY <3>1 DEF MatchState, RoomFits, Fresh, Players
    <2>2. QED
      BY <2>1
  <1>2. ASSUME NEW t \in tasks' PROVE TaskFits(t)'
    <2>1. CASE t.room # r
      <3>1. TaskFits(t) /\ t.room \in Room
        BY <2>1, TaskFields DEF IInv
      <3>2. MatchState(t.room)' = MatchState(t.room)
        BY <2>1, <3>1
      <3>3. QED
        BY <3>1, <3>2 DEF MatchState, TaskFits, ShownScore, IsLast
    <2>2. QED
      BY <2>1
  <1>3. ASSUME NEW s \in Room PROVE DriverFits(s)'
    <2>1. CASE s # r
      <3>1. Drivers(s)' \subseteq Drivers(s)
        BY <2>1 DEF Drivers, TasksOf
      <3>2. status'[s] = status[s]
        BY <2>1 DEF MatchState
      <3>3. QED
        BY <3>1, <3>2 DEF IInv, DriverFits
    <2>2. QED
      BY <2>1
  <1>4. \A s \in Room : status[s] # "none" => status'[s] # "none"
    BY DEF MatchState
  <1>5. ASSUME NEW c \in Conn PROVE HandlerFits(c)'
    <2>1. CASE handler'[c] = handler[c] /\ (handler[c].at = "register" => handler[c].room # r)
      <3>1. /\ HandlerFits(c)
            /\ handler[c].next \in Room \cup {NoRoom}
            /\ handler[c].room # NoRoom => handler[c].room \in Room
            /\ handler[c].at \notin {"idle", "create"} => handler[c].room \in Room
        BY HandlerFields DEF IInv
      <3>2. ASSUME NEW s \in Room, s = handler[c].room, handler[c].at = "register"
            PROVE  session'[s] # "absent" /\ Fresh(s)'
        <4>1. MatchState(s)' = MatchState(s)
          BY <2>1, <3>2
        <4>2. QED
          BY <3>1, <3>2, <4>1 DEF HandlerFits, MatchState, Fresh
      <3>3. handler[c].at \in {"mark", "forfeit"} =>
              status'[handler[c].room] = "abandoned"
                /\ currentRound'[handler[c].room] < TotalRounds
        BY <3>1 DEF HandlerFits, MatchState
      <3>4. /\ handler[c].at # "register" /\ handler[c].room # NoRoom =>
                 status'[handler[c].room] # "none"
            /\ handler[c].next # NoRoom => status'[handler[c].next] # "none"
        BY <1>4, <3>1 DEF HandlerFits
      <3>5. QED
        BY <2>1, <3>1, <3>2, <3>3, <3>4 DEF HandlerFits, Fresh
    <2>2. QED
      BY <2>1
  <1>6. RegistersApart'
    BY DEF IInv, RegistersApart
  <1>7. IndexFits'
    <2>1. pvpRooms \subseteq Room /\ \A u \in User : userToPvpRoom[u] \in Room \cup {NoRoom}
      BY DEF TypeOK
    <2>2. \A c \in Conn : conns[c].at = "settle" => conns[c].room \in Room
      BY DEF TypeOK, Phase
    <2>3. QED
      BY <1>4, <2>1, <2>2 DEF IInv, IndexFits
  <1>8. TimersFit'
    <2>1. /\ \A x \in roundTimers : x.room \in Room
          /\ abandonTimers \subseteq Room
          /\ \A x \in absentTimers : x.room \in Room
      BY DEF TypeOK
    <2>2. QED
      BY <1>4, <2>1 DEF IInv, TimersFit, MatchState
  <1>9. QED
    BY <1>1, <1>2, <1>3, <1>5, <1>6, <1>7, <1>8 DEF IInv

(* A step that one goroutine of a match moves on with leaves it the only driver. *)
LEMMA DriverMoves ==
  ASSUME IInv, NEW r \in Room, NEW next, next.room = r, status'[r] # "question",
         \A t \in tasks' : t.room = r /\ t.at \in DriverAt => t \in Drivers(r) \/ t = next,
         \A t \in tasks' : t \in Drivers(r) => t = next
  PROVE  DriverFits(r)'
  BY DEF DriverFits, Drivers, TasksOf, DriverAt

(* A handler that moves on fits where it goes. *)
LEMMA HandlerMoves ==
  ASSUME TypeOK, NEW c \in Conn, NEW step, NEW r, NEW next, NEW u,
         HandlerAt(c, step, r, next, u), step # "register",
         r = NoRoom \/ status'[r] # "none", next = NoRoom \/ status'[next] # "none",
         step \in {"mark", "forfeit"} =>
           status'[r] = "abandoned" /\ currentRound'[r] < TotalRounds
  PROVE  \A d \in Conn : handler'[d] = handler[d]
                           \/ (HandlerFits(d)' /\ handler'[d].at # "register")
  <1>1. handler'[c] = [at |-> step, room |-> r, next |-> next, user |-> u]
    BY DEF TypeOK
  <1>2. HandlerFits(c)' /\ handler'[c].at # "register"
    BY <1>1 DEF HandlerFits
  <1>3. \A d \in Conn \ {c} : handler'[d] = handler[d]
    BY DEF TypeOK
  <1>4. QED
    BY <1>2, <1>3

(* So does one that goes through previous rooms. *)
LEMMA AbandonNextMoves ==
  ASSUME TypeOK, NEW c \in Conn, NEW first, NEW second, NEW from,
         AbandonNext(c, first, second, from),
         first = NoRoom \/ status'[first] # "none",
         second = NoRoom \/ status'[second] # "none"
  PROVE  \A d \in Conn : handler'[d] = handler[d]
                           \/ (HandlerFits(d)' /\ handler'[d].at # "register")
  <1>1. CASE first # NoRoom
    <2>1. HandlerAt(c, "abandon", first, IF second = first THEN NoRoom ELSE second, from)
      BY <1>1 DEF AbandonNext
    <2>2. QED
      BY <1>1, <2>1, HandlerMoves
  <1>2. CASE first = NoRoom /\ second # NoRoom
    <2>1. HandlerAt(c, "abandon", second, NoRoom, from)
      BY <1>2 DEF AbandonNext
    <2>2. QED
      BY <1>2, <2>1, HandlerMoves
  <1>3. CASE first = NoRoom /\ second = NoRoom
    <2>1. HandlerAt(c, "create", NoRoom, NoRoom, from)
      BY <1>3 DEF AbandonNext
    <2>2. QED
      BY <2>1, HandlerMoves
  <1>4. QED
    BY <1>1, <1>2, <1>3

-----------------------------------------------------------------------------
(* The steps of handlers *)

(* Messages about challenges, and a learner who comes back. *)
LEMMA ChallengeInv ==
  ASSUME TypeOK, TypeOK', IInv, NEW c \in Conn,
         \/ \E id \in Challenge, u \in User : ChallengeUser(c, id, u)
         \/ \E ch \in pending : DeclineChallenge(c, ch) \/ AcceptChallenge(c, ch)
         \/ LobbyJoin(c)
  PROVE  IInv'
  <1>1. \A u \in User : userToPvpRoom[u] # NoRoom => status[userToPvpRoom[u]] # "none"
    BY DEF IInv, IndexFits
  <1>2. UserOf[c] \in User
    BY ConnAssumption
  <1>3. CASE \E id \in Challenge, u \in User : ChallengeUser(c, id, u)
    BY <1>3, CalmStep DEF ChallengeUser
  <1>4. CASE \E ch \in pending : DeclineChallenge(c, ch)
    BY <1>4, CalmStep DEF DeclineChallenge
  <1>5. CASE \E ch \in pending : AcceptChallenge(c, ch)
    <2> PICK ch \in pending : AcceptChallenge(c, ch)
      BY <1>5
    <2>1. ch.from \in User
      BY DEF TypeOK, Pending
    <2>2. /\ AbandonNext(c, userToPvpRoom[UserOf[c]], userToPvpRoom[ch.from], ch.from)
          /\ UNCHANGED status
      BY DEF AcceptChallenge
    <2>3. \A d \in Conn : handler'[d] = handler[d]
                            \/ (HandlerFits(d)' /\ handler'[d].at # "register")
      BY <1>1, <1>2, <2>1, <2>2, AbandonNextMoves
    <2>4. QED
      BY <2>3, CalmStep DEF AcceptChallenge
  <1>6. CASE LobbyJoin(c)
    <2>1. \A d \in Conn : handler'[d] = handler[d]
                            \/ (HandlerFits(d)' /\ handler'[d].at # "register")
      BY <1>1, <1>2, <1>6, HandlerMoves DEF LobbyJoin
    <2>2. QED
      BY <1>6, <2>1, CalmStep DEF LobbyJoin
  <1>7. QED
    BY <1>3, <1>4, <1>5, <1>6

(* Marking a row abandoned closes it at most. *)
LEMMA MarkCloses ==
  ASSUME TypeOK, NEW r \in Room, MayFail(MarkAbandoned(r), session)
  PROVE  \A s \in Room : session'[s] = session[s] \/ Closes(s)
  BY DEF TypeOK, MayFail, MarkAbandoned, Closes

(* The index entries of a room that leaves. *)
LEMMA CleanupShrinks ==
  ASSUME TypeOK, NEW r \in Room, CleanupPvpRoom(r)
  PROVE  /\ pvpRooms' \subseteq pvpRooms
         /\ \A u \in User : userToPvpRoom'[u] \in {userToPvpRoom[u], NoRoom}
  BY DEF TypeOK, CleanupPvpRoom

(* Steps of handlers that change no room. *)
LEMMA HandlerCalmInv ==
  ASSUME TypeOK, TypeOK', IInv, NEW c \in Conn,
         \/ ReplaceAbandon(c) /\ Over(handler[c].room)
         \/ ReplaceMark(c) \/ ReplaceCleanup(c) \/ CreateRefused(c)
         \/ JoinCheck(c) \/ JoinRemember(c) \/ JoinForget(c) \/ JoinResync(c)
         \/ ForfeitMark(c) \/ ForfeitCleanup(c)
  PROVE  IInv'
  <1> DEFINE r == handler[c].room
             next == handler[c].next
             Moved == \A d \in Conn : handler'[d] = handler[d]
                                        \/ (HandlerFits(d)' /\ handler'[d].at # "register")
  <1>1. /\ HandlerFits(c) /\ NoRoom \notin Room
        /\ next \in Room \cup {NoRoom}
        /\ handler[c].at \notin {"idle", "create"} => r \in Room
    BY HandlerFields, RoomAssumption DEF IInv
  <1>2. /\ handler[c].at \notin {"idle", "create", "register"} => status[r] # "none"
        /\ next # NoRoom => status[next] # "none"
    BY <1>1 DEF HandlerFits
  <1>3. CASE ReplaceAbandon(c) /\ Over(r)
    <2>1. Moved
      BY <1>2, <1>3, AbandonNextMoves DEF ReplaceAbandon
    <2>2. QED
      BY <1>3, <2>1, CalmStep DEF ReplaceAbandon
  <1>4. CASE ReplaceMark(c)
    <2>1. Moved
      <3> DEFINE from == handler[c].user
      <3>1. HandlerAt(c, "cleanup", r, next, from) /\ UNCHANGED status
        BY <1>4 DEF ReplaceMark
      <3>2. status[r] # "none"
        BY <1>2, <1>4 DEF ReplaceMark
      <3> HIDE DEF r, next, from
      <3>3. QED
        BY <1>2, <3>1, <3>2, HandlerMoves
    <2>2. r \in Room /\ MayFail(MarkAbandoned(r), session)
      BY <1>1, <1>4 DEF ReplaceMark, RecordAbandoned
    <2>3. \A s \in Room : session'[s] = session[s] \/ Closes(s)
      BY <2>2, MarkCloses
    <2>4. QED
      BY <1>4, <2>1, <2>3, CalmStep DEF ReplaceMark
  <1>5. CASE ReplaceCleanup(c)
    <2>1. Moved
      BY <1>2, <1>5, AbandonNextMoves DEF ReplaceCleanup
    <2>2. r \in Room
      BY <1>1, <1>5 DEF ReplaceCleanup
    <2>3. QED
      BY <1>5, <2>1, <2>2, CleanupShrinks, CalmStep DEF ReplaceCleanup
  <1>6. CASE CreateRefused(c)
    <2>1. Moved
      BY <1>6, HandlerMoves DEF CreateRefused
    <2>2. QED
      BY <1>6, <2>1, CalmStep DEF CreateRefused
  <1>7. CASE JoinCheck(c)
    <2>1. Moved
      BY <1>2, <1>7, HandlerMoves DEF JoinCheck
    <2>2. QED
      BY <1>7, <2>1, CalmStep DEF JoinCheck
  <1>8. CASE JoinRemember(c)
    <2>1. Moved
      BY <1>2, <1>8, HandlerMoves DEF JoinRemember
    <2>2. QED
      BY <1>8, <2>1, CalmStep DEF JoinRemember
  <1>9. CASE JoinForget(c)
    <2>1. Moved
      BY <1>9, HandlerMoves DEF JoinForget
    <2>2. QED
      BY <1>9, <2>1, CalmStep DEF JoinForget, TypeOK
  <1>10. CASE JoinResync(c)
    <2>1. Moved
      BY <1>10, HandlerMoves DEF JoinResync
    <2>2. QED
      BY <1>10, <2>1, CalmStep DEF JoinResync
  <1>11. CASE ForfeitMark(c)
    <2>1. Moved
      BY <1>2, <1>11, HandlerMoves DEF ForfeitMark
    <2>2. r \in Room /\ MayFail(MarkAbandoned(r), session)
      BY <1>1, <1>11 DEF ForfeitMark, RecordAbandoned
    <2>3. \A s \in Room : session'[s] = session[s] \/ Closes(s)
      BY <2>2, MarkCloses
    <2>4. QED
      BY <1>11, <2>1, <2>3, CalmStep DEF ForfeitMark
  <1>12. CASE ForfeitCleanup(c)
    <2>1. Moved
      BY <1>12, HandlerMoves DEF ForfeitCleanup
    <2>2. r \in Room
      BY <1>1, <1>12 DEF ForfeitCleanup
    <2>3. QED
      BY <1>12, <2>1, <2>2, CleanupShrinks, CalmStep DEF ForfeitCleanup
  <1>13. QED
    BY <1>3, <1>4, <1>5, <1>6, <1>7, <1>8, <1>9, <1>10, <1>11, <1>12

-----------------------------------------------------------------------------
(* The steps of one match *)

(* What a goroutine that drives a match knows. *)
LEMMA DriverIsAlone ==
  ASSUME TypeOK, IInv, NEW t \in tasks, t.at \in DriverAt
  PROVE  /\ \A d \in tasks : d.room = t.room /\ d.at \in DriverAt => d = t
         /\ status[t.room] # "question"
  <1>1. t.room \in Room
    BY TaskFields
  <1>2. DriverFits(t.room)
    BY <1>1 DEF IInv
  <1>3. \A d \in tasks : d.room = t.room /\ d.at \in DriverAt => d \in Drivers(t.room)
    BY DEF Drivers, TasksOf, DriverAt
  <1>4. QED
    BY <1>2, <1>3 DEF DriverFits

(* What is known of a match in memory that is not over. *)
LEMMA LiveMatch ==
  ASSUME TypeOK, IInv, NEW r \in Room, status[r] # "none"
  PROVE  /\ \A c \in Conn : handler[c].at = "register" => handler[c].room # r
         /\ ~Over(r) => status[r] \in Live /\ session[r] # "absent"
                          /\ currentRound[r] < TotalRounds
         /\ ~Over(r) => \A t \in tasks : t.room = r => t.at # "mark"
  <1>1. \A c \in Conn : handler[c].at = "register" => handler[c].room # r
    BY DEF IInv, HandlerFits, Fresh
  <1>2. ASSUME ~Over(r)
        PROVE  status[r] \in Live /\ session[r] # "absent" /\ currentRound[r] < TotalRounds
    <2>1. status[r] \in Live
      BY <1>2 DEF TypeOK, Over, Live
    <2>2. RoomFits(r)
      BY DEF IInv
    <2>3. QED
      BY <2>1, <2>2 DEF RoomFits
  <1>3. ~Over(r) => \A t \in tasks : t.room = r => t.at # "mark"
    BY DEF IInv, TaskFits, Over
  <1>4. QED
    BY <1>1, <1>2, <1>3

(* Whoever ends a match that is not over leaves no timer behind and is the one to
   mark its row. *)
LEMMA EndAbandonedInv ==
  ASSUME TypeOK, TypeOK', IInv, NEW r \in Room, status[r] # "none", ~Over(r),
         EndAbandoned(r),
         UNCHANGED <<indexVars, playerVars, scoreVars, roundAnswers, conns, session>>,
         \A c \in Conn : handler'[c] = handler[c]
                           \/ (HandlerFits(c)' /\ handler'[c].at # "register"),
         \A t \in tasks' : t \in tasks \/ (t.room = r /\ t.at = "mark")
  PROVE  IInv'
  <1>1. /\ \A c \in Conn : handler[c].at = "register" => handler[c].room # r
        /\ currentRound[r] < TotalRounds
        /\ \A t \in tasks : t.room = r => t.at # "mark"
    BY LiveMatch
  <1>2. status' = [status EXCEPT ![r] = "abandoned"] /\ status'[r] = "abandoned"
    BY DEF EndAbandoned, TypeOK
  <1>3. RoomFits(r)'
    <2>1. RoomFits(r)
      BY DEF IInv
    <2>2. QED
      BY <1>1, <1>2, <2>1 DEF RoomFits, Fresh, Live, Players
  <1>4. DriverFits(r)'
    <2>1. Drivers(r)' \subseteq Drivers(r)
      BY DEF Drivers, TasksOf
    <2>2. QED
      BY <1>2, <2>1 DEF IInv, DriverFits
  <1>5. \A t \in tasks' : IF t.room = r THEN TaskFits(t)' ELSE t \in tasks
    <2> SUFFICES ASSUME NEW t \in tasks', t.room = r PROVE TaskFits(t)'
      OBVIOUS
    <2>1. CASE t \in tasks
      <3>1. TaskFits(t)
        BY <2>1 DEF IInv
      <3>2. QED
        BY <1>1, <1>2, <2>1, <3>1 DEF TaskFits, ShownScore, IsLast
    <2>2. CASE t.at = "mark"
      BY <1>1, <1>2, <2>2 DEF TaskFits
    <2>3. QED
      BY <2>1, <2>2
  <1>6. \A s \in Room \ {r} : MatchState(s)' = MatchState(s)
    BY <1>2 DEF MatchState, TypeOK
  <1>7. /\ \A x \in roundTimers' : x.room # r /\ x \in roundTimers
        /\ abandonTimers' \subseteq abandonTimers /\ r \notin abandonTimers'
        /\ absentTimers' \subseteq absentTimers /\ \A x \in absentTimers' : x.room # r
    BY DEF EndAbandoned
  <1>8. QED
    BY <1>1, <1>2, <1>3, <1>4, <1>5, <1>6, <1>7, RoomStep

(* A new challenge ends the previous match of its players. *)
LEMMA ReplaceAbandonInv ==
  ASSUME TypeOK, TypeOK', IInv, NEW c \in Conn, ReplaceAbandon(c), ~Over(handler[c].room)
  PROVE  IInv'
  <1> DEFINE r == handler[c].room
             next == handler[c].next
             from == handler[c].user
  <1>1. handler[c].at = "abandon" /\ HandlerFits(c) /\ r \in Room /\ NoRoom \notin Room
    BY HandlerFields, RoomAssumption DEF ReplaceAbandon, IInv
  <1>2. /\ status[r] # "none" /\ currentRound[r] < TotalRounds
        /\ next = NoRoom \/ status[next] # "none"
    BY <1>1, LiveMatch DEF HandlerFits
  <1>3. /\ EndAbandoned(r)
        /\ HandlerAt(c, "mark", r, next, from)
        /\ UNCHANGED <<indexVars, playerVars, scoreVars, roundAnswers, tasks, conns, session>>
    BY DEF ReplaceAbandon
  <1>4. /\ status'[r] = "abandoned" /\ currentRound'[r] < TotalRounds
        /\ next = NoRoom \/ status'[next] # "none"
    BY <1>1, <1>2, <1>3 DEF EndAbandoned, TypeOK
  <1> HIDE DEF r, next, from
  <1>5. \A d \in Conn : handler'[d] = handler[d]
                          \/ (HandlerFits(d)' /\ handler'[d].at # "register")
    BY <1>3, <1>4, HandlerMoves
  <1>6. ~Over(r)
    BY DEF r
  <1>7. QED
    BY <1>1, <1>2, <1>3, <1>5, <1>6, EndAbandonedInv

(* A learner gives a match up. *)
LEMMA PvpForfeitInv ==
  ASSUME TypeOK, TypeOK', IInv, NEW c \in Conn, NEW r \in Room, PvpForfeit(c, r)
  PROVE  IInv'
  <1>1. ~Over(r) /\ status[r] # "none" /\ currentRound[r] < TotalRounds
    BY LiveMatch DEF PvpForfeit, IInv, IndexFits
  <1>2. /\ EndAbandoned(r)
        /\ HandlerAt(c, "forfeit", r, NoRoom, NoUser)
        /\ UNCHANGED <<indexVars, playerVars, scoreVars, roundAnswers, tasks, conns, session>>
    BY DEF PvpForfeit
  <1>3. status'[r] = "abandoned" /\ currentRound'[r] < TotalRounds
    BY <1>1, <1>2 DEF EndAbandoned, TypeOK
  <1>4. \A d \in Conn : handler'[d] = handler[d]
                          \/ (HandlerFits(d)' /\ handler'[d].at # "register")
    BY <1>2, <1>3, HandlerMoves
  <1>5. QED
    BY <1>1, <1>2, <1>4, EndAbandonedInv

(* The callback of an absence timer ends a match that is not over. *)
LEMMA AbsenceAbandonInv ==
  ASSUME TypeOK, TypeOK', IInv, NEW t \in tasks, AbsenceAbandon(t)
  PROVE  IInv'
  <1>1. t.room \in Room /\ TaskFits(t)
    BY TaskFields DEF IInv
  <1>2. CASE Over(t.room)
    BY <1>2, CalmStep DEF AbsenceAbandon
  <1>3. CASE ~Over(t.room)
    <2>1. /\ EndAbandoned(t.room) /\ status[t.room] # "none"
          /\ UNCHANGED <<indexVars, playerVars, scoreVars, roundAnswers, conns, session,
                         handler>>
          /\ \A s \in tasks' : s \in tasks \/ (s.room = t.room /\ s.at = "mark")
      BY <1>1, <1>3 DEF AbsenceAbandon, TaskFits
    <2>2. QED
      BY <1>1, <1>3, <2>1, EndAbandonedInv
  <1>4. QED
    BY <1>2, <1>3

(* The row is inserted; the handler alone knows of the match. *)
LEMMA CreatePvpBattleInv ==
  ASSUME TypeOK, TypeOK', IInv, NEW c \in Conn, CreatePvpBattle(c)
  PROVE  IInv'
  <1> PICK r \in Room :
        /\ session[r] = "absent"
        /\ session' = [session EXCEPT ![r] = "in_progress"]
        /\ acceptor' = [acceptor EXCEPT ![r] = UserOf[c]]
        /\ challenger' = [challenger EXCEPT ![r] = handler[c].user]
        /\ HandlerAt(c, "register", r, NoRoom, handler[c].user)
    BY DEF CreatePvpBattle
  <1>1. UNCHANGED <<pending, indexVars, status, scoreVars, roundAnswers, timerVars, tasks, conns>>
    BY DEF CreatePvpBattle
  <1>2. RoomFits(r) /\ Fresh(r) /\ UserOf[c] \in User
    BY ConnAssumption DEF IInv, RoomFits
  <1>3. \A s \in Room \ {r} : MatchState(s)' = MatchState(s)
    BY <1>1 DEF MatchState, TypeOK
  <1>4. ASSUME NEW s \in Room PROVE RoomFits(s)'
    <2>1. CASE s = r
      BY <1>1, <1>2, <2>1 DEF RoomFits, Fresh, Live, TypeOK
    <2>2. CASE s # r
      <3>1. RoomFits(s) /\ MatchState(s)' = MatchState(s)
        BY <1>3, <2>2 DEF IInv
      <3>2. QED
        BY <3>1 DEF MatchState, RoomFits, Fresh, Players
    <2>3. QED
      BY <2>1, <2>2
  <1>5. \A t \in tasks' : TaskFits(t)'
    BY <1>1 DEF IInv, TaskFits, ShownScore, IsLast
  <1>6. \A s \in Room : DriverFits(s)'
    BY <1>1 DEF IInv, DriverFits, Drivers, TasksOf
  <1>7. \A d \in Conn : handler[d].at = "register" => handler[d].room # r
    BY DEF IInv, HandlerFits
  <1>8. handler'[c] = [at |-> "register", room |-> r, next |-> NoRoom, user |-> handler[c].user]
        /\ \A d \in Conn \ {c} : handler'[d] = handler[d]
    BY DEF TypeOK
  <1>9. ASSUME NEW d \in Conn PROVE HandlerFits(d)'
    <2>1. CASE d = c
      BY <1>1, <1>2, <1>8, <2>1 DEF HandlerFits, Fresh, TypeOK
    <2>2. CASE d # c
      <3>1. HandlerFits(d) /\ handler'[d] = handler[d]
        BY <1>8, <2>2 DEF IInv
      <3>2. handler[d].at = "register" => session'[handler[d].room] = session[handler[d].room]
        BY <1>7, HandlerFields DEF TypeOK
      <3>3. QED
        BY <1>1, <3>1, <3>2 DEF HandlerFits, Fresh
    <2>3. QED
      BY <2>1, <2>2
  <1>10. RegistersApart'
    BY <1>7, <1>8 DEF IInv, RegistersApart
  <1>11. IndexFits' /\ TimersFit'
    BY <1>1 DEF IInv, IndexFits, TimersFit
  <1>12. QED
    BY <1>4, <1>5, <1>6, <1>9, <1>10, <1>11 DEF IInv

(* The match enters memory with its driver. *)
LEMMA RegisterRoomInv ==
  ASSUME TypeOK, TypeOK', IInv, NEW c \in Conn, RegisterRoom(c)
  PROVE  IInv'
  <1> PICK r \in Room : r = handler[c].room
    BY HandlerFields DEF RegisterRoom
  <1> DEFINE from == handler[c].user
             next == Goroutine(r, 0, "countdown", NoUser, ZeroScore)
  <1>1. handler[c].at = "register" /\ session[r] # "absent" /\ Fresh(r)
    BY DEF RegisterRoom, IInv, HandlerFits
  <1>2. /\ pvpRooms' = pvpRooms \cup {r}
        /\ userToPvpRoom' = [userToPvpRoom EXCEPT ![UserOf[c]] = r, ![from] = r]
        /\ status' = [status EXCEPT ![r] = "countdown"]
        /\ tasks' = tasks \cup {next}
        /\ HandlerReturns(c)
        /\ UNCHANGED <<playerVars, scoreVars, roundAnswers, timerVars, conns, session>>
    BY DEF RegisterRoom
  <1>3. \A d \in Conn : \/ handler'[d] = handler[d]
                           /\ (handler[d].at = "register" => handler[d].room # r)
                        \/ (HandlerFits(d)' /\ handler'[d].at # "register")
    <2>1. \A d \in Conn \ {c} : handler[d].at = "register" => handler[d].room # r
      BY <1>1 DEF IInv, RegistersApart
    <2>2. handler'[c] = Idle
      BY <1>2 DEF TypeOK, Idle
    <2>3. HandlerFits(c)' /\ handler'[c].at # "register"
      BY <2>2 DEF HandlerFits, Idle
    <2>4. \A d \in Conn \ {c} : handler'[d] = handler[d]
      BY <1>2 DEF TypeOK
    <2>5. QED
      BY <2>1, <2>3, <2>4
  <1>4. \A u \in User : userToPvpRoom'[u] \in {userToPvpRoom[u], r}
    BY <1>2 DEF TypeOK
  <1>5. \A s \in Room \ {r} : MatchState(s)' = MatchState(s)
    BY <1>1, <1>2 DEF MatchState, TypeOK
  <1>6. status[r] = "none" /\ status'[r] = "countdown"
    BY <1>1, <1>2 DEF Fresh, TypeOK
  <1>7. \A t \in tasks : t.room # r
    BY <1>6 DEF IInv, TaskFits
  <1>8. RoomFits(r)'
    <2>1. RoomFits(r)
      BY <1>1 DEF IInv
    <2>2. QED
      BY <1>1, <1>2, <1>6, <2>1, BoundAssumption DEF RoomFits, Fresh, Live
  <1>9. \A t \in tasks' : IF t.room = r THEN TaskFits(t)' ELSE t \in tasks
    BY <1>2, <1>6, <1>7 DEF TaskFits
  <1>10. DriverFits(r)'
    BY <1>2, <1>6, <1>7 DEF DriverFits, Drivers, TasksOf
  <1>11. /\ \A x \in roundTimers' : x.room # r /\ x \in roundTimers
         /\ pvpRooms' \subseteq pvpRooms \cup {r}
         /\ UNCHANGED <<conns, abandonTimers, absentTimers>>
    BY <1>2, <1>6 DEF IInv, TimersFit
  <1>12. QED
    BY <1>3, <1>4, <1>5, <1>6, <1>8, <1>9, <1>10, <1>11, RoomStep

(* An answer counts, and the second one ends the question. *)
LEMMA PvpAnswerInv ==
  ASSUME TypeOK, TypeOK', IInv, NEW c \in Conn, NEW r \in Room, NEW hit \in Outcome,
         PvpAnswer(c, r, hit)
  PROVE  IInv'
  <1> DEFINE u == UserOf[c]
             both == BothAnswered(r, u)
             given == [user |-> u, hit |-> hit]
             next == Goroutine(r, currentRound[r], "finish", NoUser, ZeroScore)
  <1>1. /\ status[r] = "question" /\ u \in Players(r)
        /\ \A a \in roundAnswers[r] : a.user # u
    BY DEF PvpAnswer, Awaits
  <1>2. /\ roundAnswers' = [roundAnswers EXCEPT ![r] = roundAnswers[r] \cup {given}]
        /\ both => /\ status' = [status EXCEPT ![r] = "resolving"]
                   /\ ClearRoundTimer(r)
                   /\ tasks' = tasks \cup {next}
        /\ ~both => UNCHANGED <<status, roundTimers, tasks>>
        /\ UNCHANGED <<indexVars, playerVars, scoreVars, abandonTimers, absentTimers,
                       handler, conns, session>>
    BY DEF PvpAnswer
  <1>3. status'[r] = IF both THEN "resolving" ELSE "question"
    BY <1>1, <1>2 DEF TypeOK
  <1>4. roundAnswers'[r] = roundAnswers[r] \cup {given}
    BY <1>2 DEF TypeOK
  <1>5. ~both => \E v \in Players(r) : v # u /\ \A a \in roundAnswers[r] : a.user # v
    BY DEF BothAnswered
  <1> HIDE DEF both, u
  <1>6. \A s \in Room \ {r} : MatchState(s)' = MatchState(s)
    BY <1>2 DEF MatchState, TypeOK
  <1>7. /\ \A d \in Conn : handler[d].at = "register" => handler[d].room # r
        /\ \A t \in tasks : t.room = r => t.at # "mark"
        /\ session[r] # "absent" /\ currentRound[r] < TotalRounds
        /\ Drivers(r) = {}
    BY <1>1, LiveMatch DEF Over, IInv, DriverFits
  <1>8. RoomFits(r)'
    <2>1. RoomFits(r)
      BY DEF IInv
    <2>2. (\A a, b \in roundAnswers[r] : a.user = b.user => a = b)'
      BY <1>1, <1>4, <2>1 DEF RoomFits
    <2>3. status'[r] = "question" =>
            \E v \in Players(r) : \A a \in roundAnswers'[r] : a.user # v
      BY <1>3, <1>4, <1>5
    <2>4. QED
      BY <1>2, <1>3, <1>7, <2>1, <2>2, <2>3 DEF RoomFits, Fresh, Live, Players
  <1>9. \A t \in tasks' : IF t.room = r THEN TaskFits(t)' ELSE t \in tasks
    <2> SUFFICES ASSUME NEW t \in tasks', t.room = r PROVE TaskFits(t)'
      BY <1>2
    <2>1. CASE t \in tasks
      <3>1. TaskFits(t) /\ t.at \notin DriverAt /\ t.at # "mark"
        BY <1>7, <2>1 DEF IInv, Drivers, TasksOf, DriverAt
      <3>2. QED
        BY <1>3, <3>1 DEF TaskFits, DriverAt
    <2>2. CASE both /\ t = next
      BY <1>2, <1>3, <2>2 DEF TaskFits
    <2>3. QED
      BY <1>2, <2>1, <2>2
  <1>10. DriverFits(r)'
    BY <1>2, <1>3, <1>7 DEF DriverFits, Drivers, TasksOf
  <1>11. \A x \in roundTimers' : IF x.room = r
                                 THEN status'[r] = "question" /\ x.round = currentRound'[r]
                                 ELSE x \in roundTimers
    BY <1>2, <1>3 DEF IInv, TimersFit
  <1>12. QED
    BY <1>1, <1>2, <1>3, <1>6, <1>7, <1>8, <1>9, <1>10, <1>11, RoomStep

(* The next question, unless the match is over. *)
LEMMA BeginRoundInv ==
  ASSUME TypeOK, TypeOK', IInv, NEW t \in tasks, BeginRound(t)
  PROVE  IInv'
  <1> PICK r \in Room : r = t.room
    BY TaskFields
  <1>1. /\ t.at \in DriverAt /\ TaskFits(t) /\ status[r] # "none"
        /\ \A d \in tasks : d.room = r /\ d.at \in DriverAt => d = t
    BY DriverIsAlone DEF BeginRound, DriverAt, IInv, TaskFits
  <1>2. CASE Over(r) \/ currentRound[r] >= TotalRounds
    BY <1>2, CalmStep DEF BeginRound
  <1>3. CASE ~Over(r) /\ currentRound[r] < TotalRounds
    <2>1. /\ status' = [status EXCEPT ![r] = "question"]
          /\ roundAnswers' = [roundAnswers EXCEPT ![r] = {}]
          /\ ArmRoundTimer(r)
          /\ tasks' = tasks \ {t}
          /\ UNCHANGED <<indexVars, playerVars, scoreVars, abandonTimers, absentTimers,
                         handler, conns, session>>
      BY <1>3, BoundAssumption DEF BeginRound, TypeOK
    <2>2. status'[r] = "question" /\ roundAnswers'[r] = {}
      BY <2>1 DEF TypeOK
    <2>3. /\ \A d \in Conn : handler[d].at = "register" => handler[d].room # r
          /\ session[r] # "absent" /\ status[r] # "abandoned"
          /\ \A d \in tasks : d.room = r => d.at # "mark"
      BY <1>1, <1>3, LiveMatch DEF Over
    <2>4. RoomFits(r)'
      <3>1. RoomFits(r)
        BY DEF IInv
      <3>2. acceptor[r] \in Players(r)
        BY <2>3, <3>1, ConnAssumption DEF RoomFits, Players
      <3>3. status'[r] = "question" =>
              \E v \in Players(r) : \A a \in roundAnswers'[r] : a.user # v
        BY <2>2, <3>2
      <3>4. QED
        BY <1>3, <2>1, <2>2, <2>3, <3>1, <3>3 DEF RoomFits, Fresh, Live, Players
    <2>5. \A d \in tasks' : IF d.room = r THEN TaskFits(d)' ELSE d \in tasks
      <3> SUFFICES ASSUME NEW d \in tasks', d.room = r PROVE TaskFits(d)'
        BY <2>1
      <3>1. d \in tasks /\ TaskFits(d) /\ d.at \notin DriverAt /\ d.at # "mark"
        BY <1>1, <2>1, <2>3 DEF IInv
      <3>2. QED
        BY <2>2, <3>1 DEF TaskFits, DriverAt
    <2>6. DriverFits(r)'
      <3>1. Drivers(r)' = {}
        BY <1>1, <2>1 DEF Drivers, TasksOf, DriverAt
      <3>2. QED
        BY <3>1 DEF DriverFits
    <2>7. \A s \in Room \ {r} : MatchState(s)' = MatchState(s)
      BY <2>1 DEF MatchState, TypeOK
    <2>8. \A x \in roundTimers' : IF x.room = r
                                  THEN status'[r] = "question" /\ x.round = currentRound'[r]
                                  ELSE x \in roundTimers
      BY <2>1, <2>2 DEF ArmRoundTimer
    <2>9. QED
      BY <2>1, <2>2, <2>3, <2>4, <2>5, <2>6, <2>7, <2>8, RoomStep
  <1>4. QED
    BY <1>2, <1>3, BoundAssumption DEF TypeOK

(* The round timer ends the question it was armed for, and no other. *)
LEMMA SettleTimeoutInv ==
  ASSUME TypeOK, TypeOK', IInv, NEW t \in tasks, SettleTimeout(t)
  PROVE  IInv'
  <1> PICK r \in Room : r = t.room
    BY TaskFields
  <1>1. CASE TooLate(t)
    BY <1>1, CalmStep DEF SettleTimeout
  <1>2. CASE ~TooLate(t)
    <2> DEFINE next == Goroutine(r, t.round, "finish", t.user, t.result)
    <2>1. /\ status' = [status EXCEPT ![r] = "resolving"]
          /\ ClearRoundTimer(r)
          /\ tasks' = (tasks \ {t}) \cup {next}
          /\ UNCHANGED <<indexVars, playerVars, scoreVars, roundAnswers, abandonTimers,
                         absentTimers, handler, conns, session>>
      BY <1>2 DEF SettleTimeout
    <2>2. status[r] = "question" /\ currentRound[r] = t.round /\ status'[r] = "resolving"
      BY <1>2, <2>1 DEF TooLate, TypeOK
    <2>3. /\ \A d \in Conn : handler[d].at = "register" => handler[d].room # r
          /\ session[r] # "absent" /\ currentRound[r] < TotalRounds
          /\ \A d \in tasks : d.room = r => d.at # "mark"
          /\ Drivers(r) = {}
      BY <2>2, LiveMatch DEF Over, IInv, DriverFits
    <2>4. RoomFits(r)'
      <3>1. RoomFits(r)
        BY DEF IInv
      <3>2. QED
        BY <2>1, <2>2, <2>3, <3>1 DEF RoomFits, Fresh, Live, Players
    <2>5. \A d \in tasks' : IF d.room = r THEN TaskFits(d)' ELSE d \in tasks
      <3> SUFFICES ASSUME NEW d \in tasks', d.room = r PROVE TaskFits(d)'
        BY <2>1
      <3>1. CASE d \in tasks
        <4>1. TaskFits(d) /\ d.at \notin DriverAt /\ d.at # "mark"
          BY <2>3, <3>1 DEF IInv, Drivers, TasksOf, DriverAt
        <4>2. QED
          BY <2>2, <4>1 DEF TaskFits, DriverAt
      <3>2. CASE d = next
        BY <2>1, <2>2, <3>2 DEF TaskFits
      <3>3. QED
        BY <2>1, <3>1, <3>2
    <2>6. DriverFits(r)'
      BY <2>1, <2>2, <2>3 DEF DriverFits, Drivers, TasksOf
    <2>7. \A s \in Room \ {r} : MatchState(s)' = MatchState(s)
      BY <2>1 DEF MatchState, TypeOK
    <2>8. \A x \in roundTimers' : x.room # r /\ x \in roundTimers
      BY <2>1
    <2>9. QED
      BY <2>1, <2>2, <2>3, <2>4, <2>5, <2>6, <2>7, <2>8, RoomStep
  <1>3. QED
    BY <1>1, <1>2

(* What a round is worth. *)
LEMMA PointIsOneAtMost == ASSUME NEW r, NEW u PROVE Point(r, u) \in {0, 1}
  BY DEF Point

(* The round is scored by its only driver. *)
LEMMA FinishRoundInv ==
  ASSUME TypeOK, TypeOK', IInv, NEW t \in tasks, FinishRound(t)
  PROVE  IInv'
  <1> PICK r \in Room : r = t.room
    BY TaskFields
  <1>1. /\ t.at \in DriverAt /\ TaskFits(t) /\ status[r] # "none"
        /\ \A d \in tasks : d.room = r /\ d.at \in DriverAt => d = t
    BY DriverIsAlone DEF FinishRound, DriverAt, IInv, TaskFits
  <1>2. CASE status[r] # "resolving"
    BY <1>2, CalmStep DEF FinishRound
  <1>3. CASE status[r] = "resolving"
    <2> PICK n \in Nat : n = currentRound[r]
      BY DEF TypeOK
    <2> DEFINE user == userScore[r] + Point(r, acceptor[r])
               opponent == opponentScore[r] + Point(r, challenger[r])
               next == Goroutine(r, n, "persist", NoUser,
                                 [user |-> user, opponent |-> opponent])
    <2>1. /\ userScore' = [userScore EXCEPT ![r] = user]
          /\ opponentScore' = [opponentScore EXCEPT ![r] = opponent]
          /\ currentRound' = [currentRound EXCEPT ![r] = n + 1]
          /\ tasks' = (tasks \ {t}) \cup {next}
          /\ UNCHANGED <<indexVars, playerVars, abandonTimers, absentTimers, handler,
                         conns, session>>
      BY <1>3 DEF FinishRound
    <2>2. /\ status' = [status EXCEPT ![r] = IF IsLast(n) THEN "finished" ELSE "countdown"]
          /\ roundAnswers' = [roundAnswers EXCEPT ![r] = {}] \/ UNCHANGED roundAnswers
          /\ roundTimers' \subseteq roundTimers
      BY <1>3 DEF FinishRound
    <2>3. /\ \A d \in Conn : handler[d].at = "register" => handler[d].room # r
          /\ session[r] # "absent" /\ n < TotalRounds
          /\ \A d \in tasks : d.room = r => d.at # "mark"
      BY <1>3, LiveMatch DEF Over
    <2>4. /\ status'[r] = IF IsLast(n) THEN "finished" ELSE "countdown"
          /\ currentRound'[r] = n + 1 /\ userScore'[r] = user /\ opponentScore'[r] = opponent
          /\ roundAnswers'[r] = {} \/ roundAnswers'[r] = roundAnswers[r]
      BY <2>1, <2>2 DEF TypeOK
    <2>5. /\ user \in Nat /\ user <= userScore[r] + 1
          /\ opponent \in Nat /\ opponent <= opponentScore[r] + 1
      <3>1. Point(r, acceptor[r]) \in {0, 1} /\ Point(r, challenger[r]) \in {0, 1}
        BY PointIsOneAtMost
      <3>2. userScore[r] \in Nat /\ opponentScore[r] \in Nat
        BY DEF TypeOK
      <3>3. QED
        BY <3>1, <3>2
    <2> HIDE DEF user, opponent
    <2>6. RoomFits(r)'
      <3>1. RoomFits(r)
        BY DEF IInv
      <3>2. n + 1 <= TotalRounds /\ (~IsLast(n) => n + 1 < TotalRounds)
        BY <2>3, BoundAssumption DEF IsLast
      <3>3. user <= n + 1 /\ opponent <= n + 1
        BY <2>5, <3>1 DEF RoomFits, TypeOK
      <3>4. session[r] # "completed"
        BY <2>3, <3>1, BoundAssumption DEF RoomFits
      <3>5. (\A a, b \in roundAnswers[r] : a.user = b.user => a = b)'
        BY <2>4, <3>1 DEF RoomFits
      <3>6. QED
        BY <2>1, <2>3, <2>4, <3>1, <3>2, <3>3, <3>4, <3>5 DEF RoomFits, Live
    <2>7. \A d \in tasks' : IF d.room = r THEN TaskFits(d)' ELSE d \in tasks
      <3> SUFFICES ASSUME NEW d \in tasks', d.room = r PROVE TaskFits(d)'
        BY <2>1
      <3>1. CASE d \in tasks /\ d # t
        <4>1. TaskFits(d) /\ d.at \notin DriverAt /\ d.at # "mark"
          BY <1>1, <2>3, <3>1 DEF IInv
        <4>2. QED
          BY <2>4, <4>1 DEF TaskFits, DriverAt
      <3>2. CASE d = next
        BY <2>4, <3>2 DEF TaskFits, ShownScore
      <3>3. QED
        BY <2>1, <3>1, <3>2
    <2>8. DriverFits(r)'
      <3>1. \A d \in Drivers(r)' : d = next
        BY <1>1, <2>1 DEF Drivers, TasksOf, DriverAt
      <3>2. status'[r] # "question"
        BY <2>4
      <3>3. QED
        BY <3>1, <3>2 DEF DriverFits
    <2>9. \A s \in Room \ {r} : MatchState(s)' = MatchState(s)
      BY <2>1, <2>2 DEF MatchState, TypeOK
    <2>10. \A x \in roundTimers' : x.room # r /\ x \in roundTimers
      BY <1>3, <2>2 DEF IInv, TimersFit
    <2>11. status[r] # "abandoned" /\ status'[r] \notin {"none", "abandoned"}
      BY <1>3, <2>4
    <2>12. QED
      BY <2>1, <2>3, <2>6, <2>7, <2>8, <2>9, <2>10, <2>11, RoomStep
  <1>4. QED
    BY <1>2, <1>3

(* The score is stored and the driver goes on. *)
LEMMA PersistRoundInv ==
  ASSUME TypeOK, TypeOK', IInv, NEW t \in tasks, PersistRound(t)
  PROVE  IInv'
  <1> PICK r \in Room : r = t.room
    BY TaskFields
  <1> DEFINE next == Goroutine(r, t.round, IF IsLast(t.round) THEN "complete" ELSE "countdown",
                               t.user, t.result)
  <1>1. /\ t.at = "persist" /\ t.at \in DriverAt /\ TaskFits(t) /\ status[r] # "none"
        /\ \A d \in tasks : d.room = r /\ d.at \in DriverAt => d = t
        /\ status[r] # "question"
    BY DriverIsAlone DEF PersistRound, DriverAt, IInv, TaskFits
  <1>2. /\ tasks' = (tasks \ {t}) \cup {next}
        /\ UNCHANGED <<pending, indexVars, roomVars, handler, conns, session>>
    BY DEF PersistRound
  <1>3. \A d \in Conn : handler[d].at = "register" => handler[d].room # r
    BY <1>1, LiveMatch
  <1>4. \A d \in tasks' : IF d.room = r THEN TaskFits(d)' ELSE d \in tasks
    <2> SUFFICES ASSUME NEW d \in tasks', d.room = r PROVE TaskFits(d)'
      BY <1>2
    <2>1. CASE d \in tasks
      <3>1. TaskFits(d)
        BY <2>1 DEF IInv
      <3>2. QED
        BY <1>2, <3>1 DEF TaskFits, ShownScore, IsLast
    <2>2. CASE d = next
      BY <1>1, <1>2, <2>2 DEF TaskFits, ShownScore, IsLast
    <2>3. QED
      BY <1>2, <2>1, <2>2
  <1>5. DriverFits(r)'
    <2>1. \A d \in Drivers(r)' : d = next
      BY <1>1, <1>2 DEF Drivers, TasksOf, DriverAt
    <2>2. QED
      BY <1>1, <1>2, <2>1 DEF DriverFits
  <1>6. RoomFits(r)' /\ \A s \in Room \ {r} : MatchState(s)' = MatchState(s)
    BY <1>2 DEF IInv, RoomFits, Fresh, Players, MatchState
  <1>7. /\ \A x \in roundTimers : x.room # r
        /\ status[r] = "abandoned" =>
             r \notin abandonTimers /\ \A x \in absentTimers : x.room # r
    BY <1>1 DEF IInv, TimersFit
  <1>8. QED
    BY <1>1, <1>2, <1>3, <1>4, <1>5, <1>6, <1>7, RoomStep

-----------------------------------------------------------------------------
(* The other steps of goroutines, connections, timers and the process *)

(* Storing the result, removing a room, and looking after absences change no
   room. *)
LEMMA TaskCalmInv ==
  ASSUME TypeOK, TypeOK', IInv, NEW t \in tasks,
         CompleteMatch(t) \/ TaskCleanup(t) \/ AbsenceCheck(t) \/ AbsenceMark(t)
  PROVE  IInv'
  <1> PICK r \in Room : r = t.room
    BY TaskFields
  <1>1. TaskFits(t)
    BY DEF IInv
  <1>2. CASE CompleteMatch(t)
    <2>1. currentRound[r] = TotalRounds
      BY <1>1, <1>2, BoundAssumption, TaskFields DEF CompleteMatch, TaskFits, IsLast
    <2>2. \A s \in Room : session'[s] = session[s] \/ Closes(s)
      BY <1>2, <2>1 DEF CompleteMatch, MayFail, MarkCompleted, Closes, TypeOK
    <2>3. \A d \in tasks' : d \in tasks \/ (TaskFits(d) /\ d.at \notin DriverAt)
      BY <1>1, <1>2 DEF CompleteMatch, TaskFits, DriverAt
    <2>4. QED
      BY <1>2, <2>2, <2>3, CalmStep DEF CompleteMatch
  <1>3. CASE TaskCleanup(t)
    BY <1>3, CleanupShrinks, CalmStep DEF TaskCleanup
  <1>4. CASE AbsenceCheck(t)
    <2>1. \A d \in tasks' : d \in tasks \/ (TaskFits(d) /\ d.at \notin DriverAt)
      BY <1>1, <1>4 DEF AbsenceCheck, TaskFits, DriverAt
    <2>2. QED
      BY <1>4, <2>1, CalmStep DEF AbsenceCheck
  <1>5. CASE AbsenceMark(t)
    <2>1. MayFail(MarkAbandoned(r), session)
      BY <1>5 DEF AbsenceMark, RecordAbandoned
    <2>2. \A s \in Room : session'[s] = session[s] \/ Closes(s)
      BY <2>1, MarkCloses
    <2>3. \A d \in tasks' : d \in tasks \/ (TaskFits(d) /\ d.at \notin DriverAt)
      BY <1>1, <1>5 DEF AbsenceMark, TaskFits, DriverAt
    <2>4. QED
      BY <1>5, <2>2, <2>3, CalmStep DEF AbsenceMark
  <1>6. QED
    BY <1>2, <1>3, <1>4, <1>5

(* Connections come and go; a teardown arms timers only of a match in memory
   that is not over. *)
LEMMA ConnInv ==
  ASSUME TypeOK, TypeOK', IInv, NEW c \in Conn, Connect(c) \/ Disconnect(c) \/ CloserStepOf(c)
  PROVE  IInv'
  <1>1. CASE Connect(c)
    BY <1>1, CalmStep DEF Connect, TypeOK
  <1>2. CASE Disconnect(c)
    <2>1. \A d \in Conn : conns'[d].at = "settle" =>
                            conns'[d] = conns[d] \/ conns'[d].room \in pvpRooms
      BY <1>2 DEF Disconnect, TypeOK
    <2>2. QED
      BY <1>2, <2>1, CalmStep DEF Disconnect
  <1>3. CASE DisconnectSettle(c)
    <2> PICK r \in Room : r = conns[c].room
      BY <1>3 DEF DisconnectSettle, TypeOK, Phase
    <2>1. status[r] # "none"
      BY <1>3 DEF DisconnectSettle, IInv, IndexFits
    <2>2. /\ \A s \in abandonTimers' : s \in abandonTimers
                                         \/ status[s] \notin {"none", "abandoned"}
          /\ \A x \in absentTimers' : x \in absentTimers
                                        \/ status[x.room] \notin {"none", "abandoned"}
      BY <1>3, <2>1 DEF DisconnectSettle, Over
    <2>3. \A d \in Conn : conns'[d].at = "settle" => conns'[d] = conns[d]
      BY <1>3 DEF DisconnectSettle, TypeOK
    <2>4. QED
      BY <1>3, <2>2, <2>3, CalmStep DEF DisconnectSettle
  <1>4. CASE SocketCloses(c)
    BY <1>4, CalmStep DEF SocketCloses, TypeOK
  <1>5. QED
    BY <1>1, <1>2, <1>3, <1>4 DEF CloserStepOf

(* The callbacks of timers start without a part in playing the match. *)
LEMMA TimerInv ==
  ASSUME TypeOK, TypeOK', IInv, TimerFires
  PROVE  IInv'
  <1> USE DEF TaskFits, DriverAt
  <1>1. TimersFit
    BY DEF IInv
  <1>2. ASSUME NEW x \in roundTimers, RoundTimerFires(x) PROVE IInv'
    <2>1. \A d \in tasks' : d \in tasks \/ (TaskFits(d) /\ d.at \notin DriverAt)
      BY <1>1, <1>2 DEF RoundTimerFires, TimersFit
    <2>2. QED
      BY <1>2, <2>1, CalmStep DEF RoundTimerFires
  <1>3. ASSUME NEW r \in abandonTimers, AbandonTimerFires(r) PROVE IInv'
    <2>1. \A d \in tasks' : d \in tasks \/ (TaskFits(d) /\ d.at \notin DriverAt)
      BY <1>1, <1>3 DEF AbandonTimerFires, TimersFit
    <2>2. QED
      BY <1>3, <2>1, CalmStep DEF AbandonTimerFires
  <1>4. ASSUME NEW x \in absentTimers, AbsentTimerFires(x) PROVE IInv'
    <2>1. \A d \in tasks' : d \in tasks \/ (TaskFits(d) /\ d.at \notin DriverAt)
      BY <1>1, <1>4 DEF AbsentTimerFires, TimersFit
    <2>2. QED
      BY <1>4, <2>1, CalmStep DEF AbsentTimerFires
  <1>5. QED
    BY <1>2, <1>3, <1>4 DEF TimerFires

(* A crash leaves nothing that could hold the name of a room. *)
LEMMA CrashInv ==
  ASSUME TypeOK, IInv, Crash
  PROVE  IInv'
  <1>1. /\ \A r \in Room : status'[r] = "none" /\ roundAnswers'[r] = {}
        /\ \A c \in Conn : handler'[c] = Idle /\ conns'[c] = New
        /\ \A u \in User : userToPvpRoom'[u] = NoRoom
        /\ tasks' = {} /\ pvpRooms' = {}
        /\ roundTimers' = {} /\ abandonTimers' = {} /\ absentTimers' = {}
        /\ UNCHANGED <<playerVars, scoreVars, session>>
    BY DEF Crash
  <1>2. ASSUME NEW r \in Room PROVE RoomFits(r)'
    BY <1>1 DEF IInv, RoomFits, Fresh, Live
  <1>3. ASSUME NEW c \in Conn PROVE HandlerFits(c)'
    BY <1>1 DEF HandlerFits, Idle
  <1>4. ASSUME NEW r \in Room PROVE DriverFits(r)'
    BY <1>1 DEF DriverFits, Drivers, TasksOf
  <1>5. RegistersApart' /\ IndexFits' /\ TimersFit'
    BY <1>1 DEF RegistersApart, IndexFits, TimersFit, Idle, New
  <1>6. QED
    BY <1>1, <1>2, <1>3, <1>4, <1>5 DEF IInv

-----------------------------------------------------------------------------
(* The invariant *)

LEMMA InitInv == Init => IInv
  <1> SUFFICES ASSUME Init PROVE IInv
    OBVIOUS
  <1>1. ASSUME NEW r \in Room PROVE RoomFits(r) /\ DriverFits(r)
    BY BoundAssumption DEF Init, RoomFits, Fresh, Live, DriverFits, Drivers, TasksOf
  <1>2. ASSUME NEW c \in Conn PROVE HandlerFits(c)
    BY DEF Init, HandlerFits, Idle
  <1>3. RegistersApart /\ IndexFits /\ TimersFit
    BY DEF Init, RegistersApart, IndexFits, TimersFit, Idle, New
  <1>4. QED
    BY <1>1, <1>2, <1>3 DEF Init, IInv

(* Every step keeps the invariant. *)
LEMMA NextInv ==
  ASSUME TypeOK, TypeOK', IInv, [Next]_vars
  PROVE  IInv'
  <1>1. ASSUME NEW c \in Conn, Receive(c) PROVE IInv'
    BY <1>1, ChallengeInv, PvpAnswerInv, PvpForfeitInv DEF Receive
  <1>2. ASSUME NEW c \in Conn, HandlerStepOf(c) PROVE IInv'
    BY <1>2, HandlerCalmInv, ReplaceAbandonInv, CreatePvpBattleInv, RegisterRoomInv
       DEF HandlerStepOf
  <1>3. ASSUME NEW c \in Conn, Connect(c) \/ Disconnect(c) \/ CloserStepOf(c) PROVE IInv'
    BY <1>3, ConnInv
  <1>4. ASSUME NEW ch \in pending, ExpireChallenge(ch) PROVE IInv'
    BY <1>4, CalmStep DEF ExpireChallenge
  <1>5. CASE TimerFires
    BY <1>5, TimerInv
  <1>6. ASSUME NEW t \in tasks, DriverStepOf(t) PROVE IInv'
    BY <1>6, BeginRoundInv, SettleTimeoutInv, FinishRoundInv, PersistRoundInv, TaskCalmInv
       DEF DriverStepOf
  <1>7. ASSUME NEW t \in tasks, WatcherStepOf(t) PROVE IInv'
    BY <1>7, AbsenceAbandonInv, TaskCalmInv DEF WatcherStepOf
  <1>8. ASSUME NEW r \in Room, AdminAbort(r) PROVE IInv'
    <2>1. \A s \in Room : session'[s] = session[s] \/ Closes(s)
      BY <1>8 DEF AdminAbort, Closes, TypeOK
    <2>2. QED
      BY <1>8, <2>1, CalmStep DEF AdminAbort
  <1>9. CASE Crash
    BY <1>9, CrashInv
  <1>10. CASE UNCHANGED vars
    BY <1>10, CalmStep DEF vars
  <1>11. QED
    BY <1>1, <1>2, <1>3, <1>4, <1>5, <1>6, <1>7, <1>8, <1>9, <1>10 DEF Next

(* IInv is an invariant of every instance of PvpBattle. *)
THEOREM InvariantHolds == Spec => [](TypeOK /\ IInv)
  <1>1. Init => TypeOK /\ IInv
    BY InitTypeOK, InitInv
  <1>2. TypeOK /\ IInv /\ [Next]_vars => (TypeOK /\ IInv)'
    BY NextTypeOK, NextInv
  <1>3. QED
    BY <1>1, <1>2, PTL DEF Spec

-----------------------------------------------------------------------------
(* What it means for the learners *)

(* Whatever races for a round, one goroutine plays it, the second answer ends it
   and it is scored once: whoever ends the question changes the status under the
   room's mutex first, and only the one who did so spawns the driver. *)
THEOREM RoundsAreSound == Spec => []RoundIntegrity
  <1>1. TypeOK /\ IInv => RoundIntegrity
    <2> SUFFICES ASSUME TypeOK, IInv PROVE RoundIntegrity
      OBVIOUS
    <2>1. RoundScoredOnce /\ AnswersEndTheRound
      BY DEF IInv, RoomFits, RoundScoredOnce, AnswersEndTheRound
    <2>2. OneDriver
      <3> SUFFICES ASSUME NEW r \in Room
                   PROVE  /\ DriverFits(r)
                          /\ \A t \in Drivers(r) : t.at = "finish" /\ status[r] = "resolving" =>
                               t.round = currentRound[r]
        BY DEF OneDriver, DriverFits
      <3>1. \A t \in Drivers(r) : TaskFits(t) /\ t.room = r
        BY DEF IInv, Drivers, TasksOf
      <3>2. QED
        BY <3>1 DEF IInv, TaskFits
    <2>3. QED
      BY <2>1, <2>2 DEF RoundIntegrity
  <1>2. QED
    BY <1>1, InvariantHolds, PTL

(* No question or absence of the past ends anything: the step that leaves the
   question phase clears the round timer with it, and the one that abandons the
   match clears all three. *)
THEOREM TimersArePresent == Spec => []TimersAreOfThePresent
  <1>1. TypeOK /\ IInv => TimersAreOfThePresent
    BY DEF IInv, TimersFit, TimersAreOfThePresent
  <1>2. QED
    BY <1>1, InvariantHolds, PTL

(* A row is completed only by a match played to its last round, and whoever is
   about to mark a row abandoned ended the match before that. *)
THEOREM PlayedOut == Spec => []PlayedOutIsSpared
  <1>1. TypeOK /\ IInv => PlayedOutIsSpared
    BY DEF IInv, RoomFits, HandlerFits, TaskFits, PlayedOutIsSpared
  <1>2. QED
    BY <1>1, InvariantHolds, PTL

-----------------------------------------------------------------------------
(* The rows behave as MatchLedger promises *)

Announced(x) == [room |-> x, why |-> "played", loser |-> NoUser]

(* Telling the players that a match was abandoned announces no result. *)
LEMMA TellAnnouncesNothing ==
  ASSUME NEW r \in Room, NEW why \in Why, NEW loser, Tell(r, why, loser)
  PROVE  \A x \in Room : Announced(x) \in told' <=> Announced(x) \in told
  BY DEF Tell, Why, Announced

(* One row abandoned by its match or by an administrator. *)
LEMMA MarkIsLedgerStep ==
  ASSUME TypeOK, NEW r \in Room, UNCHANGED <<scoreVars, storedScore>>,
         MayFail(MarkAbandoned(r), session),
         \A x \in Room : Announced(x) \in told' <=> Announced(x) \in told
  PROVE  [Ledger!LedgerNext]_(Ledger!ledgerVars)
  <1> USE DEF Announced
  <1>1. CASE UNCHANGED session
    BY <1>1 DEF Ledger!ledgerVars
  <1>2. CASE session[r] = "in_progress" /\ session' = [session EXCEPT ![r] = "abandoned"]
    <2>1. Ledger!AbandonMatches({r})
      BY <1>2 DEF Ledger!AbandonMatches, TypeOK
    <2>2. QED
      BY <2>1 DEF Ledger!LedgerNext
  <1>3. QED
    BY <1>1, <1>2 DEF MayFail, MarkAbandoned

(* A scored round is a round of the ledger. *)
LEMMA FinishIsLedgerStep ==
  ASSUME TypeOK, TypeOK', IInv, NEW t \in tasks, FinishRound(t),
         status[t.room] = "resolving"
  PROVE  Ledger!LedgerNext
  <1> PICK r \in Room : r = t.room
    BY TaskFields
  <1> PICK user \in {0, 1}, opponent \in {0, 1} :
        user = Point(r, acceptor[r]) /\ opponent = Point(r, challenger[r])
    BY PointIsOneAtMost
  <1>1. session[r] # "absent" /\ currentRound[r] < TotalRounds
    BY LiveMatch DEF Over
  <1>2. /\ currentRound' = [currentRound EXCEPT ![r] = currentRound[r] + 1]
        /\ userScore' = [userScore EXCEPT ![r] = userScore[r] + user]
        /\ opponentScore' = [opponentScore EXCEPT ![r] = opponentScore[r] + opponent]
        /\ UNCHANGED <<session, storedScore, told>>
    BY DEF FinishRound
  <1>3. Ledger!PlayRound(r, user, opponent)
    <2>1. userScore \in [Room -> Nat] /\ opponentScore \in [Room -> Nat]
      BY DEF TypeOK
    <2>2. \A s \in Room :
            [user |-> userScore'[s], opponent |-> opponentScore'[s]]
              = IF s = r THEN [user |-> userScore[r] + user,
                               opponent |-> opponentScore[r] + opponent]
                         ELSE [user |-> userScore[s], opponent |-> opponentScore[s]]
      BY <1>2, <2>1
    <2>3. QED
      BY <1>1, <1>2, <2>2 DEF Ledger!PlayRound
  <1>4. QED
    BY <1>3 DEF Ledger!LedgerNext

(* Every step is a step of the ledger or invisible to it. *)
LEMMA LedgerStep ==
  ASSUME TypeOK, TypeOK', IInv, [Next]_vars
  PROVE  [Ledger!LedgerNext]_(Ledger!ledgerVars)
  <1> DEFINE Visible == <<scoreVars, storeVars, told>>
  <1>1. CASE UNCHANGED Visible
    BY <1>1 DEF Ledger!ledgerVars
  <1>2. ASSUME NEW c \in Conn,
               Receive(c) \/ Connect(c) \/ Disconnect(c) \/ CloserStepOf(c)
        PROVE  UNCHANGED Visible
    BY <1>2 DEF Receive, ChallengeUser, DeclineChallenge, AcceptChallenge, LobbyJoin,
                PvpAnswer, PvpForfeit, Connect, Disconnect, CloserStepOf,
                DisconnectSettle, SocketCloses
  <1>3. ASSUME NEW c \in Conn, HandlerStepOf(c)
        PROVE  [Ledger!LedgerNext]_(Ledger!ledgerVars)
    <2>1. CASE \/ ReplaceAbandon(c) \/ ReplaceCleanup(c) \/ CreateRefused(c)
               \/ RegisterRoom(c) \/ JoinCheck(c) \/ JoinRemember(c) \/ JoinForget(c)
               \/ JoinResync(c) \/ ForfeitCleanup(c)
      BY <1>1, <2>1 DEF ReplaceAbandon, ReplaceCleanup, CreateRefused, RegisterRoom,
                        JoinCheck, JoinRemember, JoinForget, JoinResync, ForfeitCleanup
    <2>2. CASE ReplaceMark(c) \/ ForfeitMark(c)
      <3>1. handler[c].room \in Room
        BY <2>2, HandlerFields DEF ReplaceMark, ForfeitMark
      <3>2. PICK why \in Why, loser \in MaybeUser : RecordAbandoned(handler[c].room, why, loser)
        BY <2>2, ConnAssumption DEF ReplaceMark, ForfeitMark, Why, MaybeUser
      <3>3. MayFail(MarkAbandoned(handler[c].room), session)
        BY <3>2 DEF RecordAbandoned
      <3>4. \A x \in Room : Announced(x) \in told' <=> Announced(x) \in told
        BY <3>1, <3>2, TellAnnouncesNothing DEF RecordAbandoned
      <3>5. UNCHANGED <<scoreVars, storedScore>>
        BY <2>2 DEF ReplaceMark, ForfeitMark
      <3>6. QED
        BY <3>1, <3>3, <3>4, <3>5, MarkIsLedgerStep
    <2>3. CASE CreatePvpBattle(c)
      <3>1. PICK r \in Room : session[r] = "absent"
                              /\ session' = [session EXCEPT ![r] = "in_progress"]
        BY <2>3 DEF CreatePvpBattle
      <3>2. Ledger!OpenMatch(r)
        BY <2>3, <3>1 DEF CreatePvpBattle, Ledger!OpenMatch
      <3>3. QED
        BY <3>2 DEF Ledger!LedgerNext
    <2>4. QED
      BY <1>3, <2>1, <2>2, <2>3 DEF HandlerStepOf
  <1>4. ASSUME NEW t \in tasks, DriverStepOf(t)
        PROVE  [Ledger!LedgerNext]_(Ledger!ledgerVars)
    <2> PICK r \in Room : r = t.room
      BY TaskFields
    <2>1. CASE BeginRound(t) \/ SettleTimeout(t) \/ TaskCleanup(t)
      BY <1>1, <2>1 DEF BeginRound, SettleTimeout, TaskCleanup
    <2>2. CASE FinishRound(t)
      <3>1. CASE status[r] = "resolving"
        BY <2>2, <3>1, FinishIsLedgerStep
      <3>2. CASE status[r] # "resolving"
        BY <1>1, <2>2, <3>2 DEF FinishRound
      <3>3. QED
        BY <3>1, <3>2
    <2>3. CASE PersistRound(t)
      <3>1. t.result = ShownScore(r)
        BY <2>3 DEF PersistRound, IInv, TaskFits
      <3>2. CASE UNCHANGED storedScore
        BY <1>1, <2>3, <3>2 DEF PersistRound
      <3>3. CASE storedScore' = [storedScore EXCEPT ![r] = t.result]
        <4>1. Ledger!SaveScore(r)
          BY <2>3, <3>1, <3>3 DEF PersistRound, Ledger!SaveScore, ShownScore
        <4>2. QED
          BY <4>1 DEF Ledger!LedgerNext
      <3>4. QED
        BY <2>3, <3>2, <3>3 DEF PersistRound, MayFail
    <2>4. CASE CompleteMatch(t)
      <3>1. t.result = ShownScore(r) /\ currentRound[r] = TotalRounds
        BY <2>4, TaskFields, BoundAssumption DEF CompleteMatch, IInv, TaskFits, IsLast
      <3>2. \A x \in Room : Announced(x) \in told' <=> Announced(x) \in told \/ x = r
        BY <2>4 DEF CompleteMatch, Tell, Announced
      <3>3. /\ UNCHANGED scoreVars
            /\ \/ /\ session[r] = "in_progress"
                  /\ session' = [session EXCEPT ![r] = "completed"]
                  /\ storedScore' = [storedScore EXCEPT ![r] = t.result]
               \/ UNCHANGED <<session, storedScore>>
        BY <2>4 DEF CompleteMatch, MayFail, MarkCompleted
      <3>4. Ledger!FinishMatch(r)
        BY <3>1, <3>2, <3>3 DEF Ledger!FinishMatch, ShownScore, Announced
      <3>5. QED
        BY <3>4 DEF Ledger!LedgerNext
    <2>5. QED
      BY <1>4, <2>1, <2>2, <2>3, <2>4 DEF DriverStepOf
  <1>5. ASSUME NEW t \in tasks, WatcherStepOf(t)
        PROVE  [Ledger!LedgerNext]_(Ledger!ledgerVars)
    <2>1. CASE AbsenceCheck(t) \/ AbsenceAbandon(t)
      BY <1>1, <2>1 DEF AbsenceCheck, AbsenceAbandon
    <2>2. CASE AbsenceMark(t)
      <3>1. PICK why \in Why : RecordAbandoned(t.room, why, t.user)
        BY <2>2 DEF AbsenceMark, Why
      <3>2. \A x \in Room : Announced(x) \in told' <=> Announced(x) \in told
        BY <3>1, TaskFields, TellAnnouncesNothing DEF RecordAbandoned
      <3>3. MayFail(MarkAbandoned(t.room), session) /\ UNCHANGED <<scoreVars, storedScore>>
        BY <2>2, <3>1 DEF RecordAbandoned, AbsenceMark
      <3>4. QED
        BY <3>2, <3>3, TaskFields, MarkIsLedgerStep
    <2>3. QED
      BY <1>5, <2>1, <2>2 DEF WatcherStepOf
  <1>6. ASSUME NEW r \in Room, AdminAbort(r)
        PROVE  [Ledger!LedgerNext]_(Ledger!ledgerVars)
    <2>1. MayFail(MarkAbandoned(r), session) /\ UNCHANGED <<scoreVars, storedScore, told>>
      BY <1>6 DEF AdminAbort, MayFail, MarkAbandoned
    <2>2. QED
      BY <2>1, MarkIsLedgerStep
  <1>7. CASE UNCHANGED vars \/ Crash \/ TimerFires \/ \E ch \in pending : ExpireChallenge(ch)
    <2>1. UNCHANGED Visible
      BY <1>7 DEF vars, Crash, TimerFires, RoundTimerFires, AbandonTimerFires,
                  AbsentTimerFires, ExpireChallenge
    <2>2. QED
      BY <1>1, <2>1
  <1>8. QED
    BY <1>1, <1>2, <1>3, <1>4, <1>5, <1>6, <1>7 DEF Next

(* The rows of matches between learners behave as the ledger promises, for every
   number of learners, tabs and rounds, with crashes, failed writes and
   administrators. *)
THEOREM EngineImplementsLedger == Spec => ImplementsLedger
  <1>1. Init => Ledger!LedgerInit
    BY DEF Init, Ledger!LedgerInit, ZeroScore, Ledger!NoPoints
  <1>2. TypeOK /\ IInv /\ [Next]_vars /\ TypeOK' => [Ledger!LedgerNext]_(Ledger!ledgerVars)
    BY LedgerStep
  <1>3. QED
    BY <1>1, <1>2, InvariantHolds, PTL DEF Spec, ImplementsLedger, Ledger!LedgerSpec

-----------------------------------------------------------------------------
(* Who moves a match on, who ends it, who plays in it *)

(* Somebody will move the match on: the timer or its callback a question, the
   driver every other phase. *)
MoverFits(r) ==
  /\ status[r] \in Live => r \in pvpRooms
  /\ status[r] = "question" =>
       \/ \E x \in roundTimers : x.room = r
       \/ \E t \in tasks : t.room = r /\ t.at = "timeout" /\ t.round = currentRound[r]
  /\ status[r] = "countdown" => \E t \in tasks : t.room = r /\ t.at \in {"countdown", "persist"}
  /\ status[r] = "resolving" => \E t \in tasks : t.room = r /\ t.at = "finish"

(* A match that is over has one goroutine or one handler on its way to remove it
   until it is removed, and any other match has none. *)
NobodyEnds(r) == EndingTasks(r) = {} /\ EndingHandlers(r) = {}
TaskAloneEnds(r) == (\E t \in tasks : EndingTasks(r) = {t}) /\ EndingHandlers(r) = {}
HandlerAloneEnds(r) == EndingTasks(r) = {} /\ \E c \in Conn : EndingHandlers(r) = {c}
EndFits(r) ==
  IF r \in pvpRooms /\ Over(r) THEN TaskAloneEnds(r) \/ HandlerAloneEnds(r)
                               ELSE NobodyEnds(r)

(* The players are told once the match is over and by whoever ended it. *)
TellingTasks(r) == {t \in EndingTasks(r) : t.at # "cleanup"}
TellingHandlers(r) == {c \in EndingHandlers(r) : handler[c].at \in {"mark", "forfeit"}}
Registering(r) == \E c \in Conn : handler[c].at = "register" /\ handler[c].room = r
Untold(r) == \/ status[r] \in Live \/ Registering(r) \/ session[r] = "absent"
             \/ TellingTasks(r) # {} \/ TellingHandlers(r) # {}
VerdictFits ==
  /\ \A x \in told : ~Untold(x.room) /\ (x.loser # NoUser => x.loser \in Players(x.room))
  /\ \A x, y \in told : x.room = y.room => x = y

(* Whoever is named beside a match plays in it. *)
PlayersFit ==
  /\ \A r \in Room : session[r] = "absent" => Players(r) = {}
  /\ \A t \in tasks : t.user # NoUser => t.user \in Players(t.room)
  /\ \A x \in absentTimers : x.user \in Players(x.room)
  /\ \A c \in Conn : conns[c].at = "settle" => UserOf[c] \in Players(conns[c].room)
  /\ \A c \in Conn : connToPvpRoom[c] # NoRoom => UserOf[c] \in Players(connToPvpRoom[c])
  /\ \A u \in User : userToPvpRoom[u] # NoRoom =>
       userToPvpRoom[u] \in pvpRooms /\ u \in Players(userToPvpRoom[u])

ActorFits(c) ==
  LET h == handler[c] IN
  /\ h.at \in {"create", "abandon", "mark", "cleanup", "register"} => h.user \in User
  /\ h.at = "register" => acceptor[h.room] = UserOf[c] /\ challenger[h.room] = h.user
  /\ h.at \in {"check", "remember", "forget", "resync", "forfeit"} =>
       UserOf[c] \in Players(h.room)

(* Unless a write fails or an administrator steps in, the row is open until the
   players are told and then says what they were told. *)
RowFits ==
  ~StoreFails /\ ~AdminAborts =>
    /\ \A r \in Room : session[r] # "absent" /\ Untold(r) => session[r] = "in_progress"
    /\ VerdictIsStored

JInv ==
  /\ \A r \in Room : MoverFits(r)
  /\ \A r \in Room : EndFits(r)
  /\ VerdictFits
  /\ PlayersFit
  /\ \A c \in Conn : ActorFits(c)
  /\ RowFits

(* A step that is not about match s: whoever plays it, ends it or registers it,
   and the timer of its question, are the same before and after. *)
Played(s) == {t \in tasks : t.room = s /\ t.at \notin {"orphan", "absent", "abandon"}}
Holds(h, s) == h.room = s /\ h.at \in {"register", "mark", "cleanup", "forfeit", "quit"}
Same(s) ==
  /\ status'[s] = status[s] /\ currentRound'[s] = currentRound[s]
  /\ s \in pvpRooms' <=> s \in pvpRooms
  /\ Played(s)' = Played(s)
  /\ \A x \in roundTimers : x.room = s => x \in roundTimers'
  /\ \A c \in Conn : handler'[c] = handler[c]
                       \/ (~Holds(handler[c], s) /\ ~Holds(handler'[c], s))
  /\ session'[s] = "absent" => session[s] = "absent"

(* Who ends a match is known if those on their way are known. *)
LEMMA EndKept ==
  ASSUME NEW r \in Room, EndFits(r),
         EndingTasks(r)' = EndingTasks(r), EndingHandlers(r)' = EndingHandlers(r),
         r \in pvpRooms' /\ Over(r)' <=> r \in pvpRooms /\ Over(r)
  PROVE  EndFits(r)'
  <1>1. EndingTasks(r)' \subseteq tasks'
    BY DEF EndingTasks, TasksOf
  <1>2. TaskAloneEnds(r) => TaskAloneEnds(r)'
    BY <1>1 DEF TaskAloneEnds
  <1>3. HandlerAloneEnds(r) => HandlerAloneEnds(r)'
    BY DEF HandlerAloneEnds
  <1>4. NobodyEnds(r) => NobodyEnds(r)'
    BY DEF NobodyEnds
  <1>5. QED
    BY <1>2, <1>3, <1>4 DEF EndFits

(* Such a step leaves what is known of the match. *)
LEMMA SameKept ==
  ASSUME NEW s \in Room, MoverFits(s), EndFits(s), Same(s)
  PROVE  MoverFits(s)' /\ EndFits(s)' /\ (Untold(s)' => Untold(s))
  <1>1. /\ EndingTasks(s)' = EndingTasks(s)
        /\ TellingTasks(s)' = TellingTasks(s)
    <2>1. /\ EndingTasks(s) = {t \in Played(s) : \/ t.at \in {"complete", "mark", "cleanup"}
                                                 \/ t.at = "persist" /\ IsLast(t.round)}
          /\ EndingTasks(s)' = {t \in Played(s)' : \/ t.at \in {"complete", "mark", "cleanup"}
                                                   \/ t.at = "persist" /\ IsLast(t.round)}
      BY DEF EndingTasks, TasksOf, Played, IsLast
    <2>2. EndingTasks(s)' = EndingTasks(s)
      BY <2>1 DEF Same
    <2>3. QED
      BY <2>2 DEF TellingTasks
  <1>2. /\ EndingHandlers(s)' = EndingHandlers(s)
        /\ TellingHandlers(s)' = TellingHandlers(s)
        /\ Registering(s)' => Registering(s)
    BY DEF Same, Holds, EndingHandlers, TellingHandlers, Registering
  <1>3. EndFits(s)'
    BY <1>1, <1>2, EndKept DEF Same, Over
  <1>4. MoverFits(s)'
    <2>1. \A t \in tasks : t.room = s /\ t.at \in {"timeout", "countdown", "persist", "finish"}
            => t \in tasks'
      BY DEF Same, Played
    <2>2. QED
      BY <2>1 DEF Same, MoverFits
  <1>5. Untold(s)' => Untold(s)
    BY <1>1, <1>2 DEF Untold, Same
  <1>6. QED
    BY <1>3, <1>4, <1>5

(* A step that tells nobody anything keeps the second invariant if what it leaves
   of the matches it is about fits. *)
LEMMA HeldStep ==
  ASSUME TypeOK, TypeOK', JInv,
         \A r \in Room : Same(r) \/ (MoverFits(r)' /\ EndFits(r)' /\ (Untold(r)' => Untold(r))),
         UNCHANGED <<acceptor, challenger, told>>,
         \A r \in Room : session'[r] = "absent" => session[r] = "absent",
         \A r \in Room : session[r] = "absent" => session'[r] = "absent",
         ~AdminAborts => UNCHANGED session,
         PlayersFit',
         \A c \in Conn : handler'[c] = handler[c] \/ ActorFits(c)'
  PROVE  JInv'
  <1>1. ASSUME NEW r \in Room
        PROVE  MoverFits(r)' /\ EndFits(r)' /\ (Untold(r)' => Untold(r))
    BY SameKept DEF JInv
  <1>2. VerdictFits'
    <2>1. \A x \in told : x.room \in Room
      BY DEF TypeOK, Verdict
    <2>2. QED
      BY <1>1, <2>1 DEF JInv, VerdictFits, Players
  <1>3. ASSUME NEW c \in Conn PROVE ActorFits(c)'
    BY DEF JInv, ActorFits, Players
  <1>4. RowFits'
    BY <1>1 DEF JInv, RowFits, VerdictIsStored
  <1>5. QED
    BY <1>1, <1>2, <1>3, <1>4 DEF JInv

(* A step that tells the players how a match ended keeps it if the one who tells
   is the one who was to tell, and the row follows unless the write fails. *)
LEMMA TellStep ==
  ASSUME TypeOK, TypeOK', JInv, NEW r \in Room, NEW x,
         \A s \in Room \ {r} : Same(s) /\ session'[s] = session[s],
         MoverFits(r)', EndFits(r)', Untold(r), ~Untold(r)', session[r] # "absent",
         UNCHANGED <<acceptor, challenger>>,
         told' = told \cup {x}, x.room = r, x.loser # NoUser => x.loser \in Players(r),
         ~StoreFails /\ session[r] = "in_progress" =>
           session'[r] = IF x.why = "played" THEN "completed" ELSE "abandoned",
         PlayersFit',
         \A c \in Conn : handler'[c] = handler[c] \/ ActorFits(c)'
  PROVE  JInv'
  <1>1. ASSUME NEW s \in Room
        PROVE  MoverFits(s)' /\ EndFits(s)' /\ (Untold(s)' => Untold(s))
    BY SameKept DEF JInv
  <1>2. \A y \in told : y.room \in Room /\ y.room # r
    BY DEF TypeOK, Verdict, JInv, VerdictFits
  <1>3. VerdictFits'
    BY <1>1, <1>2 DEF JInv, VerdictFits, Players
  <1>4. ASSUME NEW c \in Conn PROVE ActorFits(c)'
    BY DEF JInv, ActorFits, Players
  <1>5. RowFits'
    <2> SUFFICES ASSUME ~StoreFails, ~AdminAborts
                 PROVE  /\ \A s \in Room : session'[s] # "absent" /\ Untold(s)' =>
                                             session'[s] = "in_progress"
                        /\ VerdictIsStored'
      BY DEF RowFits
    <2>1. /\ \A s \in Room : session[s] # "absent" /\ Untold(s) => session[s] = "in_progress"
          /\ VerdictIsStored
      BY DEF JInv, RowFits
    <2>2. VerdictIsStored'
      BY <1>2, <2>1 DEF VerdictIsStored
    <2>3. QED
      BY <1>1, <2>1, <2>2
  <1>6. QED
    BY <1>1, <1>3, <1>4, <1>5 DEF JInv

(* The names beside matches stay those of their players. *)
LEMMA PlayersKept ==
  ASSUME TypeOK, JInv, UNCHANGED <<acceptor, challenger>>,
         \A r \in Room : session'[r] = "absent" => session[r] = "absent",
         \A t \in tasks' : t \in tasks \/ t.user = NoUser \/ t.user \in Players(t.room),
         absentTimers' \subseteq absentTimers,
         \A c \in Conn : conns'[c] = conns[c] \/ conns'[c].at # "settle",
         \A c \in Conn : connToPvpRoom'[c] \in {connToPvpRoom[c], NoRoom}
                           \/ UserOf[c] \in Players(connToPvpRoom'[c]),
         \A u \in User : \/ userToPvpRoom'[u] = NoRoom
                         \/ /\ userToPvpRoom'[u] \in pvpRooms'
                            /\ u \in Players(userToPvpRoom'[u])
  PROVE  PlayersFit'
  <1>1. PlayersFit
    BY DEF JInv
  <1>2. \A r : Players(r)' = Players(r)
    BY DEF Players
  <1>3. QED
    BY <1>1, <1>2 DEF PlayersFit

(* A handler that moves on acts for a learner, in a match the learner plays. *)
LEMMA ActorMoves ==
  ASSUME TypeOK, NEW c \in Conn, NEW step, NEW r, NEW next, NEW u,
         HandlerAt(c, step, r, next, u), UNCHANGED <<acceptor, challenger>>,
         step # "register",
         step \in {"create", "abandon", "mark", "cleanup"} => u \in User,
         step \in {"check", "remember", "forget", "resync", "forfeit"} =>
           UserOf[c] \in Players(r)
  PROVE  \A d \in Conn : handler'[d] = handler[d] \/ ActorFits(d)'
  <1>1. handler'[c] = [at |-> step, room |-> r, next |-> next, user |-> u]
    BY DEF TypeOK
  <1>2. Players(r)' = Players(r)
    BY DEF Players
  <1>3. ActorFits(c)'
    BY <1>1, <1>2 DEF ActorFits
  <1>4. \A d \in Conn \ {c} : handler'[d] = handler[d]
    BY DEF TypeOK
  <1>5. QED
    BY <1>3, <1>4

LEMMA AbandonNextActs ==
  ASSUME TypeOK, NEW c \in Conn, NEW first, NEW second, NEW from \in User,
         AbandonNext(c, first, second, from), UNCHANGED <<acceptor, challenger>>
  PROVE  /\ \A d \in Conn : handler'[d] = handler[d] \/ ActorFits(d)'
         /\ handler'[c].at \in {"abandon", "create"}
         /\ \A d \in Conn \ {c} : handler'[d] = handler[d]
  <1>1. PICK step \in {"abandon", "create"}, r \in {first, second, NoRoom},
             next \in {second, NoRoom} : HandlerAt(c, step, r, next, from)
    BY DEF AbandonNext
  <1>2. \A d \in Conn : handler'[d] = handler[d] \/ ActorFits(d)'
    BY <1>1, ActorMoves
  <1>3. QED
    BY <1>1, <1>2 DEF TypeOK

(* The players of a room in the indexes. *)
LEMMA IndexPlayers ==
  ASSUME JInv
  PROVE  /\ \A u \in User : userToPvpRoom[u] # NoRoom =>
              userToPvpRoom[u] \in pvpRooms /\ u \in Players(userToPvpRoom[u])
         /\ \A c \in Conn : connToPvpRoom[c] # NoRoom =>
              UserOf[c] \in Players(connToPvpRoom[c])
  BY DEF JInv, PlayersFit

-----------------------------------------------------------------------------
(* The steps of handlers, again *)

LEMMA ChallengeHeld ==
  ASSUME TypeOK, TypeOK', IInv, JInv, NEW c \in Conn,
         \/ \E id \in Challenge, u \in User : ChallengeUser(c, id, u)
         \/ \E ch \in pending : DeclineChallenge(c, ch) \/ AcceptChallenge(c, ch)
         \/ LobbyJoin(c)
  PROVE  JInv'
  <1> USE DEF Same, Played, Holds
  <1>1. UserOf[c] \in User
    BY ConnAssumption
  <1>2. \/ \E id \in Challenge, u \in User : ChallengeUser(c, id, u)
        \/ \E ch \in pending : DeclineChallenge(c, ch)
        => UNCHANGED <<indexVars, roomVars, tasks, handler, conns, recordVars>>
    BY DEF ChallengeUser, DeclineChallenge
  <1>3. UNCHANGED <<indexVars, roomVars, tasks, conns, recordVars>> /\ Reads(c)
    BY DEF ChallengeUser, DeclineChallenge, AcceptChallenge, LobbyJoin
  <1>4. PlayersFit'
    BY <1>3, PlayersKept, IndexPlayers
  <1>5. CASE UNCHANGED handler
    BY <1>3, <1>4, <1>5, HeldStep
  <1>6. CASE \E ch \in pending : AcceptChallenge(c, ch)
    <2> PICK ch \in pending : AcceptChallenge(c, ch)
      BY <1>6
    <2>1. ch.from \in User
      BY DEF TypeOK, Pending
    <2>2. AbandonNext(c, userToPvpRoom[UserOf[c]], userToPvpRoom[ch.from], ch.from)
      BY DEF AcceptChallenge
    <2>3. /\ \A d \in Conn : handler'[d] = handler[d] \/ ActorFits(d)'
          /\ handler'[c].at \in {"abandon", "create"}
          /\ \A d \in Conn \ {c} : handler'[d] = handler[d]
      BY <1>3, <2>1, <2>2, AbandonNextActs
    <2>4. \A r \in Room : Same(r)
      BY <1>3, <2>3 DEF Reads
    <2>5. QED
      BY <1>3, <1>4, <2>3, <2>4, HeldStep
  <1>7. CASE LobbyJoin(c)
    <2> PICK step \in {"check", "forget"} :
          HandlerAt(c, step, userToPvpRoom[UserOf[c]], NoRoom, NoUser)
      BY <1>7 DEF LobbyJoin
    <2>1. UserOf[c] \in Players(userToPvpRoom[UserOf[c]])
      BY <1>1, <1>7, IndexPlayers DEF LobbyJoin
    <2>2. \A d \in Conn : handler'[d] = handler[d] \/ ActorFits(d)'
      BY <1>3, <2>1, ActorMoves
    <2>3. handler'[c].at \in {"check", "forget"} /\ \A d \in Conn \ {c} : handler'[d] = handler[d]
      BY DEF TypeOK
    <2>4. \A r \in Room : Same(r)
      BY <1>3, <2>3 DEF Reads
    <2>5. QED
      BY <1>3, <1>4, <2>2, <2>4, HeldStep
  <1>8. QED
    BY <1>2, <1>5, <1>6, <1>7

(* Steps of handlers that end nothing. *)
LEMMA HandlerCalmHeld ==
  ASSUME TypeOK, TypeOK', IInv, JInv, NEW c \in Conn,
         \/ ReplaceAbandon(c) /\ Over(handler[c].room)
         \/ CreateRefused(c)
         \/ JoinCheck(c) \/ JoinRemember(c) \/ JoinForget(c) \/ JoinResync(c)
  PROVE  JInv'
  <1> PICK r, next, from :
        r = handler[c].room /\ next = handler[c].next /\ from = handler[c].user
    OBVIOUS
  <1>1. ActorFits(c)
    BY DEF JInv
  <1>2. /\ UNCHANGED <<pvpRooms, status, playerVars, scoreVars, roundAnswers, roundTimers,
                       tasks, conns, recordVars>>
        /\ absentTimers' \subseteq absentTimers
        /\ handler[c].at \in {"abandon", "create", "check", "remember", "forget", "resync"}
    BY DEF ReplaceAbandon, CreateRefused, JoinCheck, JoinRemember, JoinForget, JoinResync
  <1>3. /\ \A d \in Conn : connToPvpRoom'[d] = connToPvpRoom[d]
                             \/ (UserOf[d] \in Players(connToPvpRoom'[d]))
        /\ \A u \in User : userToPvpRoom'[u] \in {userToPvpRoom[u], NoRoom}
    BY <1>1 DEF ReplaceAbandon, CreateRefused, JoinCheck, JoinRemember, JoinForget,
                JoinResync, ActorFits, TypeOK
  <1>4. PlayersFit'
    BY <1>2, <1>3, PlayersKept, IndexPlayers
  <1>5. /\ \A d \in Conn : handler'[d] = handler[d] \/ ActorFits(d)'
        /\ handler'[c].at \in {"abandon", "create", "idle", "forget", "remember", "resync"}
        /\ \A d \in Conn \ {c} : handler'[d] = handler[d]
    <2>1. CASE ReplaceAbandon(c) /\ Over(r)
      BY <1>1, <2>1, AbandonNextActs DEF ReplaceAbandon, ActorFits
    <2>2. CASE CreateRefused(c) \/ JoinForget(c) \/ JoinResync(c)
      <3>1. PICK step \in {"idle"} : HandlerAt(c, step, NoRoom, NoRoom, NoUser)
        BY <2>2 DEF CreateRefused, JoinForget, JoinResync
      <3>2. \A d \in Conn : handler'[d] = handler[d] \/ ActorFits(d)'
        BY <2>2, <3>1, ActorMoves DEF CreateRefused, JoinForget, JoinResync
      <3>3. handler'[c].at = step /\ \A d \in Conn \ {c} : handler'[d] = handler[d]
        BY <3>1 DEF TypeOK
      <3>4. QED
        BY <3>2, <3>3
    <2>3. CASE JoinCheck(c) \/ JoinRemember(c)
      <3>1. PICK step \in {"forget", "remember", "resync"} :
              HandlerAt(c, step, r, NoRoom, NoUser)
        BY <2>3 DEF JoinCheck, JoinRemember
      <3>2. UNCHANGED <<acceptor, challenger>> /\ UserOf[c] \in Players(r)
        BY <1>1, <2>3 DEF JoinCheck, JoinRemember, ActorFits
      <3>3. \A d \in Conn : handler'[d] = handler[d] \/ ActorFits(d)'
        BY <3>1, <3>2, ActorMoves
      <3>4. handler'[c].at = step /\ \A d \in Conn \ {c} : handler'[d] = handler[d]
        BY <3>1 DEF TypeOK
      <3>5. QED
        BY <3>3, <3>4
    <2>4. QED
      BY <2>1, <2>2, <2>3
  <1>6. \A s \in Room : Same(s)
    BY <1>2, <1>5 DEF Same, Played, Holds
  <1>7. QED
    BY <1>2, <1>4, <1>5, <1>6, HeldStep

(* Whoever is on the way to remove a match is alone. *)
LEMMA HandlerEnds ==
  ASSUME TypeOK, IInv, JInv, NEW c \in Conn, NEW r \in Room, r = handler[c].room,
         handler[c].at \in {"mark", "cleanup", "forfeit", "quit"}
  PROVE  /\ r \in pvpRooms /\ Over(r) /\ ~Registering(r) /\ session[r] # "absent"
         /\ EndingTasks(r) = {} /\ EndingHandlers(r) = {c}
  <1>1. c \in EndingHandlers(r)
    BY DEF EndingHandlers
  <1>2. EndFits(r) /\ RoomFits(r)
    BY DEF JInv, IInv
  <1>3. r \in pvpRooms /\ Over(r) /\ EndingTasks(r) = {} /\ EndingHandlers(r) = {c}
    BY <1>1, <1>2 DEF EndFits, NobodyEnds, TaskAloneEnds, HandlerAloneEnds
  <1>4. ~Registering(r) /\ session[r] # "absent"
    BY <1>2, <1>3 DEF Registering, IInv, HandlerFits, RoomFits, Fresh, Over
  <1>5. QED
    BY <1>3, <1>4

LEMMA TaskAlone ==
  ASSUME TypeOK, IInv, JInv, NEW t \in tasks, NEW r \in Room, r = t.room,
         \/ t.at \in {"complete", "mark", "cleanup"}
         \/ t.at = "persist" /\ IsLast(t.round)
  PROVE  /\ r \in pvpRooms /\ Over(r) /\ ~Registering(r) /\ session[r] # "absent"
         /\ EndingTasks(r) = {t} /\ EndingHandlers(r) = {}
  <1>1. t \in EndingTasks(r)
    BY DEF EndingTasks, TasksOf
  <1>2. EndFits(r) /\ RoomFits(r)
    BY DEF JInv, IInv
  <1>3. r \in pvpRooms /\ Over(r) /\ EndingTasks(r) = {t} /\ EndingHandlers(r) = {}
    BY <1>1, <1>2 DEF EndFits, NobodyEnds, TaskAloneEnds, HandlerAloneEnds
  <1>4. ~Registering(r) /\ session[r] # "absent"
    BY <1>2, <1>3 DEF Registering, IInv, HandlerFits, RoomFits, Fresh, Over
  <1>5. QED
    BY <1>3, <1>4

(* A match that is not over is not being removed. *)
LEMMA LiveIsHeld ==
  ASSUME TypeOK, IInv, JInv, NEW r \in Room, status[r] # "none", ~Over(r)
  PROVE  r \in pvpRooms /\ status[r] \in Live /\ NobodyEnds(r) /\ ~Registering(r) /\ Untold(r)
  <1>1. status[r] \in Live /\ ~Registering(r)
    BY LiveMatch DEF Registering
  <1>2. QED
    BY <1>1 DEF JInv, MoverFits, EndFits, Untold

(* What a handler tells and stores is the end of a match. *)
LEMMA HandlerMarkHeld ==
  ASSUME TypeOK, TypeOK', IInv, JInv, NEW c \in Conn, ReplaceMark(c) \/ ForfeitMark(c)
  PROVE  JInv'
  <1> PICK r \in Room : r = handler[c].room
    BY HandlerFields DEF ReplaceMark, ForfeitMark
  <1>1. ActorFits(c)
    BY DEF JInv
  <1>2. /\ r \in pvpRooms /\ Over(r) /\ ~Registering(r) /\ session[r] # "absent"
        /\ EndingTasks(r) = {} /\ EndingHandlers(r) = {c}
    BY HandlerEnds DEF ReplaceMark, ForfeitMark
  <1>3. PICK step \in {"cleanup", "quit"}, next \in Room \cup {NoRoom}, u \in MaybeUser :
          /\ HandlerAt(c, step, r, next, u)
          /\ step = "cleanup" => u \in User
    BY <1>1, HandlerFields DEF ReplaceMark, ForfeitMark, ActorFits, MaybeUser
  <1>4. PICK why \in Why, loser \in MaybeUser :
          /\ RecordAbandoned(r, why, loser)
          /\ loser # NoUser => loser \in Players(r)
    BY <1>1, ConnAssumption DEF ReplaceMark, ForfeitMark, ActorFits, Why, MaybeUser
  <1>5. UNCHANGED <<pending, indexVars, roomVars, tasks, conns, storedScore>>
    BY DEF ReplaceMark, ForfeitMark
  <1>6. \A d \in Conn : handler'[d] = handler[d] \/ ActorFits(d)'
    BY <1>3, <1>5, ActorMoves
  <1>7. /\ handler'[c].at = step /\ handler'[c].room = r
        /\ \A d \in Conn \ {c} : handler'[d] = handler[d]
    BY <1>3 DEF TypeOK
  <1>8. session' = session \/ session' = [session EXCEPT ![r] = "abandoned"]
    BY <1>4 DEF RecordAbandoned, MayFail, MarkAbandoned
  <1>9. /\ \A s \in Room \ {r} : session'[s] = session[s]
        /\ session'[r] # "absent"
        /\ ~StoreFails /\ session[r] = "in_progress" => session'[r] = "abandoned"
    BY <1>2, <1>4, <1>8 DEF RecordAbandoned, MayFail, MarkAbandoned, TypeOK
  <1>10. ASSUME NEW s \in Room \ {r} PROVE Same(s) /\ session'[s] = session[s]
    BY <1>5, <1>7, <1>9 DEF Same, Played, Holds
  <1>11. EndingTasks(r)' = EndingTasks(r) /\ EndingHandlers(r)' = EndingHandlers(r)
    BY <1>2, <1>5, <1>7 DEF EndingTasks, TasksOf, EndingHandlers, IsLast
  <1>12. EndFits(r)' /\ MoverFits(r)'
    <2>1. EndFits(r)'
      BY <1>5, <1>11, EndKept DEF JInv, Over
    <2>2. QED
      BY <1>2, <1>5, <2>1 DEF MoverFits, Over, Live
  <1>13. Untold(r)
    BY <1>2 DEF Untold, TellingHandlers, ReplaceMark, ForfeitMark
  <1>14. ~Untold(r)'
    <2>1. TellingTasks(r)' = {} /\ TellingHandlers(r)' = {}
      BY <1>2, <1>7, <1>11 DEF TellingTasks, TellingHandlers
    <2>2. ~Registering(r)'
      BY <1>2, <1>7 DEF Registering
    <2>3. QED
      BY <1>2, <1>5, <1>9, <2>1, <2>2 DEF Untold, Over, Live
  <1>15. PlayersFit'
    BY <1>5, <1>9, PlayersKept, IndexPlayers
  <1>16. PICK x : told' = told \cup {x} /\ x = [room |-> r, why |-> why, loser |-> loser]
    BY <1>4 DEF RecordAbandoned, Tell
  <1>17. x.room = r /\ x.why # "played" /\ x.loser = loser
    BY <1>16 DEF Why
  <1>18. QED
    BY <1>2, <1>4, <1>5, <1>6, <1>9, <1>10, <1>12, <1>13, <1>14, <1>15, <1>16, <1>17, TellStep

(* A handler takes the match it ended out of the indexes. *)
LEMMA HandlerCleanupHeld ==
  ASSUME TypeOK, TypeOK', IInv, JInv, NEW c \in Conn, ReplaceCleanup(c) \/ ForfeitCleanup(c)
  PROVE  JInv'
  <1> PICK r \in Room : r = handler[c].room
    BY HandlerFields DEF ReplaceCleanup, ForfeitCleanup
  <1>1. ActorFits(c)
    BY DEF JInv
  <1>2. /\ r \in pvpRooms /\ Over(r) /\ ~Registering(r) /\ session[r] # "absent"
        /\ EndingTasks(r) = {} /\ EndingHandlers(r) = {c}
    BY HandlerEnds DEF ReplaceCleanup, ForfeitCleanup
  <1>3. CleanupPvpRoom(r) /\ UNCHANGED <<pending, roomVars, tasks, conns, recordVars>>
    BY DEF ReplaceCleanup, ForfeitCleanup
  <1>4. /\ \A d \in Conn : handler'[d] = handler[d] \/ ActorFits(d)'
        /\ handler'[c].at \in {"abandon", "create", "idle"}
        /\ \A d \in Conn \ {c} : handler'[d] = handler[d]
    <2>1. CASE ReplaceCleanup(c)
      BY <1>1, <1>3, <2>1, AbandonNextActs DEF ReplaceCleanup, ActorFits
    <2>2. CASE ForfeitCleanup(c)
      <3>1. PICK step \in {"idle"} : HandlerAt(c, step, NoRoom, NoRoom, NoUser)
        BY <2>2 DEF ForfeitCleanup
      <3>2. \A d \in Conn : handler'[d] = handler[d] \/ ActorFits(d)'
        BY <1>3, <3>1, ActorMoves
      <3>3. handler'[c].at = step /\ \A d \in Conn \ {c} : handler'[d] = handler[d]
        BY <3>1 DEF TypeOK
      <3>4. QED
        BY <3>2, <3>3
    <2>3. QED
      BY <2>1, <2>2
  <1>5. ASSUME NEW s \in Room \ {r} PROVE Same(s)
    BY <1>3, <1>4 DEF Same, Played, Holds, CleanupPvpRoom
  <1>6. MoverFits(r)' /\ EndFits(r)' /\ (Untold(r)' => Untold(r))
    <2>1. EndingTasks(r)' = {} /\ EndingHandlers(r)' = {}
      BY <1>2, <1>3, <1>4 DEF EndingTasks, TasksOf, EndingHandlers, IsLast
    <2>2. EndFits(r)'
      BY <1>3, <2>1 DEF EndFits, NobodyEnds, CleanupPvpRoom
    <2>3. MoverFits(r)'
      BY <1>2, <1>3 DEF MoverFits, Over, Live
    <2>4. ~Registering(r)'
      BY <1>2, <1>4 DEF Registering
    <2>5. ~Untold(r)'
      BY <1>2, <1>3, <2>1, <2>4 DEF Untold, TellingTasks, TellingHandlers, Over, Live
    <2>6. QED
      BY <2>2, <2>3, <2>5
  <1>7. PlayersFit'
    <2>1. \A u \in User : \/ userToPvpRoom'[u] = NoRoom
                          \/ /\ userToPvpRoom'[u] \in pvpRooms'
                             /\ u \in Players(userToPvpRoom'[u])
      BY <1>3, IndexPlayers DEF CleanupPvpRoom
    <2>2. \A d \in Conn : connToPvpRoom'[d] \in {connToPvpRoom[d], NoRoom}
      BY <1>3 DEF CleanupPvpRoom
    <2>3. QED
      BY <1>3, <2>1, <2>2, PlayersKept
  <1>8. QED
    BY <1>3, <1>4, <1>5, <1>6, <1>7, HeldStep

(* A handler that ends a match is from then on the one to remove it. *)
LEMMA HandlerAbandonHeld ==
  ASSUME TypeOK, TypeOK', IInv, JInv, NEW c \in Conn,
         \/ ReplaceAbandon(c) /\ ~Over(handler[c].room)
         \/ \E r \in Room : PvpForfeit(c, r)
  PROVE  JInv'
  <1>1. ActorFits(c)
    BY DEF JInv
  <1>2. PICK r \in Room, step \in {"mark", "forfeit"}, next \in Room \cup {NoRoom},
             u \in MaybeUser :
          /\ status[r] # "none" /\ ~Over(r) /\ EndAbandoned(r)
          /\ HandlerAt(c, step, r, next, u)
          /\ step = "mark" => u \in User
          /\ step = "forfeit" => UserOf[c] \in Players(r)
    <2>1. CASE ReplaceAbandon(c) /\ ~Over(handler[c].room)
      <3>1. handler[c].room \in Room /\ status[handler[c].room] # "none"
        BY <2>1, HandlerFields, RoomAssumption DEF ReplaceAbandon, IInv, HandlerFits
      <3>2. handler[c].user \in User
        BY <1>1, <2>1 DEF ReplaceAbandon, ActorFits
      <3>3. /\ EndAbandoned(handler[c].room)
            /\ HandlerAt(c, "mark", handler[c].room, handler[c].next, handler[c].user)
        BY <2>1 DEF ReplaceAbandon
      <3>4. QED
        BY <2>1, <3>1, <3>2, <3>3, HandlerFields
    <2>2. ASSUME NEW r \in Room, PvpForfeit(c, r)
          PROVE  /\ status[r] # "none" /\ ~Over(r) /\ EndAbandoned(r)
                 /\ HandlerAt(c, "forfeit", r, NoRoom, NoUser)
                 /\ UserOf[c] \in Players(r)
      BY <2>2 DEF PvpForfeit, IInv, IndexFits
    <2>3. NoUser \in MaybeUser
      BY DEF MaybeUser
    <2>4. QED
      BY <2>1, <2>2, <2>3
  <1>3. /\ UNCHANGED <<pending, indexVars, playerVars, scoreVars, roundAnswers, tasks, conns,
                       recordVars>>
        /\ handler[c].at \in {"abandon", "idle"}
    BY DEF ReplaceAbandon, PvpForfeit, Reads
  <1>4. r \in pvpRooms /\ status[r] \in Live /\ NobodyEnds(r) /\ ~Registering(r) /\ Untold(r)
    BY <1>2, LiveIsHeld
  <1>5. /\ handler'[c].at = step /\ handler'[c].room = r
        /\ \A d \in Conn \ {c} : handler'[d] = handler[d]
        /\ \A d \in Conn : handler'[d] = handler[d] \/ ActorFits(d)'
    <2>1. \A d \in Conn : handler'[d] = handler[d] \/ ActorFits(d)'
      BY <1>2, <1>3, ActorMoves
    <2>2. QED
      BY <1>2, <2>1 DEF TypeOK
  <1>6. /\ status'[r] = "abandoned" /\ \A s \in Room \ {r} : status'[s] = status[s]
        /\ \A x \in roundTimers : x.room # r => x \in roundTimers'
        /\ absentTimers' \subseteq absentTimers
    BY <1>2 DEF EndAbandoned, TypeOK
  <1>7. ASSUME NEW s \in Room \ {r} PROVE Same(s)
    BY <1>3, <1>5, <1>6 DEF Same, Played, Holds
  <1>8. MoverFits(r)' /\ EndFits(r)'
    <2>1. EndingTasks(r)' = {}
      BY <1>3, <1>4 DEF NobodyEnds, EndingTasks, TasksOf, IsLast
    <2>2. EndingHandlers(r)' = {c}
      BY <1>4, <1>5 DEF NobodyEnds, EndingHandlers
    <2>3. EndFits(r)'
      BY <1>3, <1>4, <1>6, <2>1, <2>2 DEF EndFits, HandlerAloneEnds, Over
    <2>4. QED
      BY <1>6, <2>3 DEF MoverFits, Live
  <1>9. PlayersFit'
    BY <1>3, <1>6, PlayersKept, IndexPlayers
  <1>10. QED
    BY <1>3, <1>4, <1>5, <1>7, <1>8, <1>9, HeldStep

(* The row of a new match: nobody has been told anything of it. *)
LEMMA CreatePvpBattleHeld ==
  ASSUME TypeOK, TypeOK', IInv, JInv, NEW c \in Conn, CreatePvpBattle(c)
  PROVE  JInv'
  <1> PICK from : from = handler[c].user
    OBVIOUS
  <1> PICK r \in Room :
        /\ session[r] = "absent"
        /\ session' = [session EXCEPT ![r] = "in_progress"]
        /\ acceptor' = [acceptor EXCEPT ![r] = UserOf[c]]
        /\ challenger' = [challenger EXCEPT ![r] = from]
        /\ HandlerAt(c, "register", r, NoRoom, from)
    BY DEF CreatePvpBattle
  <1>1. /\ UNCHANGED <<pending, indexVars, status, scoreVars, roundAnswers, timerVars,
                       tasks, conns, storedScore, told>>
        /\ handler[c].at = "create"
    BY DEF CreatePvpBattle
  <1>2. /\ handler'[c].at = "register" /\ handler'[c].room = r /\ handler'[c].user = from
        /\ \A d \in Conn \ {c} : handler'[d] = handler[d]
    BY DEF TypeOK
  <1>3. /\ session'[r] = "in_progress" /\ acceptor'[r] = UserOf[c] /\ challenger'[r] = from
        /\ \A s \in Room \ {r} : /\ session'[s] = session[s]
                                 /\ acceptor'[s] = acceptor[s] /\ challenger'[s] = challenger[s]
    BY DEF TypeOK
  <1>4. /\ Players(r) = {} /\ Untold(r) /\ status[r] = "none" /\ MoverFits(r) /\ EndFits(r)
    BY DEF JInv, PlayersFit, Untold, IInv, RoomFits, Fresh
  <1>5. ASSUME NEW s \in Room \ {r} PROVE Players(s)' = Players(s)
    BY <1>3 DEF Players
  <1>6. ASSUME NEW s \in Room PROVE MoverFits(s)' /\ EndFits(s)'
    <2>1. CASE s # r
      <3>1. Same(s)
        BY <1>1, <1>2, <1>3, <2>1 DEF Same, Played, Holds
      <3>2. QED
        BY <3>1, SameKept DEF JInv
    <2>2. CASE s = r
      <3>1. EndingTasks(r)' = EndingTasks(r) /\ EndingHandlers(r)' = EndingHandlers(r)
        BY <1>1, <1>2 DEF EndingTasks, TasksOf, EndingHandlers, IsLast
      <3>2. EndFits(r)'
        BY <1>1, <1>4, <3>1, EndKept DEF Over
      <3>3. MoverFits(r)'
        BY <1>1, <1>4 DEF MoverFits, Live
      <3>4. QED
        BY <2>2, <3>2, <3>3
    <2>3. QED
      BY <2>1, <2>2
  <1>7. \A s \in Room \ {r} : Untold(s)' => Untold(s)
    <2>1. ASSUME NEW s \in Room \ {r} PROVE Same(s)
      BY <1>1, <1>2, <1>3 DEF Same, Played, Holds
    <2>2. QED
      BY <2>1, SameKept DEF JInv
  <1>8. \A x \in told : x.room \in Room \ {r}
    BY <1>4 DEF TypeOK, Verdict, JInv, VerdictFits
  <1>9. VerdictFits'
    BY <1>1, <1>5, <1>7, <1>8 DEF JInv, VerdictFits
  <1>10. PlayersFit'
    <2>1. PlayersFit
      BY DEF JInv
    <2>2. \A t \in tasks : t.user # NoUser => t.user \in Players(t.room)'
      BY <1>4, <1>5, <2>1, TaskFields DEF PlayersFit
    <2>3. \A x \in absentTimers : x.user \in Players(x.room)'
      BY <1>4, <1>5, <2>1 DEF PlayersFit, TypeOK
    <2>4. ASSUME NEW d \in Conn, NEW s \in Room
          PROVE  /\ conns[d].at = "settle" /\ conns[d].room = s => UserOf[d] \in Players(s)'
                 /\ connToPvpRoom[d] = s => UserOf[d] \in Players(s)'
      BY <1>4, <1>5, <2>1, RoomAssumption DEF PlayersFit
    <2>5. ASSUME NEW u \in User, NEW s \in Room, userToPvpRoom[u] = s
          PROVE  s \in pvpRooms /\ u \in Players(s)'
      BY <1>4, <1>5, <2>1, <2>5, RoomAssumption DEF PlayersFit
    <2>6. \A s \in Room : session'[s] = "absent" => Players(s)' = {}
      BY <1>3, <1>5, <2>1 DEF PlayersFit
    <2>7. /\ \A d \in Conn : /\ conns[d].at = "settle" => conns[d].room \in Room
                             /\ connToPvpRoom[d] \in Room \cup {NoRoom}
          /\ \A u \in User : userToPvpRoom[u] \in Room \cup {NoRoom}
      BY DEF TypeOK, Phase
    <2>8. QED
      BY <1>1, <2>2, <2>3, <2>4, <2>5, <2>6, <2>7 DEF PlayersFit
  <1>11. ASSUME NEW d \in Conn PROVE ActorFits(d)'
    <2>1. ActorFits(d) /\ ActorFits(c)
      BY DEF JInv
    <2>2. CASE d = c
      BY <1>1, <1>2, <1>3, <2>1, <2>2 DEF ActorFits
    <2>3. CASE d # c
      <3>1. handler'[d] = handler[d]
        BY <1>2, <2>3
      <3>2. handler[d].at = "register" => handler[d].room \in Room \ {r}
        BY HandlerFields DEF IInv, HandlerFits
      <3>3. ASSUME NEW s \in Room, s = handler[d].room,
                   handler[d].at \in {"check", "remember", "forget", "resync", "forfeit"}
            PROVE  UserOf[d] \in Players(s)'
        BY <1>4, <1>5, <2>1, <3>3 DEF ActorFits
      <3>4. QED
        BY <1>3, <2>1, <3>1, <3>2, <3>3, HandlerFields DEF ActorFits
    <2>4. QED
      BY <2>2, <2>3
  <1>12. RowFits'
    BY <1>1, <1>3, <1>7, <1>8 DEF JInv, RowFits, VerdictIsStored
  <1>13. QED
    BY <1>6, <1>9, <1>10, <1>11, <1>12 DEF JInv

(* The match enters memory with both players in the indexes. *)
LEMMA RegisterRoomHeld ==
  ASSUME TypeOK, TypeOK', IInv, JInv, NEW c \in Conn, RegisterRoom(c)
  PROVE  JInv'
  <1> PICK r \in Room : r = handler[c].room
    BY HandlerFields DEF RegisterRoom
  <1> PICK from \in User : from = handler[c].user
    BY DEF RegisterRoom, JInv, ActorFits
  <1>1. /\ handler[c].at = "register" /\ acceptor[r] = UserOf[c] /\ challenger[r] = from
        /\ UserOf[c] \in User
    BY ConnAssumption DEF RegisterRoom, JInv, ActorFits
  <1>2. /\ pvpRooms' = pvpRooms \cup {r}
        /\ userToPvpRoom' = [userToPvpRoom EXCEPT ![UserOf[c]] = r, ![from] = r]
        /\ connToPvpRoom' = [d \in Conn |-> IF d = c \/ d \in BattleConnsForUser(from)
                                            THEN r ELSE connToPvpRoom[d]]
        /\ status' = [status EXCEPT ![r] = "countdown"]
        /\ tasks' = tasks \cup {Goroutine(r, 0, "countdown", NoUser, ZeroScore)}
        /\ UNCHANGED <<pending, playerVars, scoreVars, roundAnswers, timerVars, conns, recordVars>>
    BY DEF RegisterRoom
  <1>3. PICK step \in {"idle"} : HandlerAt(c, step, NoRoom, NoRoom, NoUser)
    BY DEF RegisterRoom
  <1>4. /\ handler'[c].at = step /\ \A d \in Conn \ {c} : handler'[d] = handler[d]
        /\ status'[r] = "countdown" /\ \A s \in Room \ {r} : status'[s] = status[s]
    BY <1>2, <1>3 DEF TypeOK
  <1>5. r \notin pvpRooms /\ status[r] = "none" /\ NobodyEnds(r) /\ Untold(r)
    <2>1. status[r] = "none"
      BY <1>1 DEF IInv, HandlerFits, Fresh
    <2>2. r \notin pvpRooms
      BY <2>1 DEF IInv, IndexFits
    <2>3. Untold(r)
      BY <1>1 DEF Untold, Registering
    <2>4. QED
      BY <2>1, <2>2, <2>3 DEF JInv, EndFits
  <1>6. \A d \in Conn : handler'[d] = handler[d] \/ ActorFits(d)'
    BY <1>2, <1>3, ActorMoves
  <1>7. ASSUME NEW s \in Room \ {r} PROVE Same(s)
    BY <1>2, <1>4, <1>1 DEF Same, Played, Holds
  <1>8. MoverFits(r)' /\ EndFits(r)'
    <2>1. EndingTasks(r)' = {} /\ EndingHandlers(r)' = {}
      BY <1>2, <1>4, <1>5 DEF NobodyEnds, EndingTasks, TasksOf, EndingHandlers, IsLast
    <2>2. EndFits(r)'
      BY <1>4, <2>1 DEF EndFits, NobodyEnds, Over
    <2>3. Goroutine(r, 0, "countdown", NoUser, ZeroScore) \in tasks'
      BY <1>2
    <2>4. QED
      BY <1>2, <1>4, <2>2, <2>3 DEF MoverFits
  <1>9. PlayersFit'
    <2>1. UserOf[c] \in Players(r) /\ from \in Players(r)
      BY <1>1, ConnAssumption DEF Players
    <2>2. \A d \in Conn : connToPvpRoom'[d] \in {connToPvpRoom[d], NoRoom}
                            \/ UserOf[d] \in Players(connToPvpRoom'[d])
      BY <1>2, <2>1 DEF BattleConnsForUser
    <2>3. \A u \in User : \/ userToPvpRoom'[u] = NoRoom
                          \/ /\ userToPvpRoom'[u] \in pvpRooms'
                             /\ u \in Players(userToPvpRoom'[u])
      <3>1. \A u \in User : userToPvpRoom'[u] = userToPvpRoom[u]
                             \/ (userToPvpRoom'[u] = r /\ u \in Players(r))
        BY <1>2, <2>1 DEF TypeOK
      <3>2. \A u \in User : userToPvpRoom[u] # NoRoom =>
              userToPvpRoom[u] \in pvpRooms /\ u \in Players(userToPvpRoom[u])
        BY IndexPlayers
      <3>3. r \in pvpRooms' /\ pvpRooms \subseteq pvpRooms'
        BY <1>2
      <3>4. ASSUME NEW u \in User, userToPvpRoom'[u] # NoRoom
            PROVE  userToPvpRoom'[u] \in pvpRooms' /\ u \in Players(userToPvpRoom'[u])
        <4>1. CASE userToPvpRoom'[u] = userToPvpRoom[u]
          BY <3>2, <3>3, <3>4, <4>1
        <4>2. CASE userToPvpRoom'[u] = r /\ u \in Players(r)
          BY <3>3, <4>2
        <4>3. QED
          BY <3>1, <4>1, <4>2
      <3>5. QED
        BY <3>4
    <2>4. \A t \in tasks' : t \in tasks \/ t.user = NoUser
      BY <1>2
    <2>5. UNCHANGED <<acceptor, challenger, session, conns, absentTimers>>
      BY <1>2
    <2>6. QED
      BY <2>2, <2>3, <2>4, <2>5, PlayersKept
  <1>10. QED
    BY <1>2, <1>5, <1>6, <1>7, <1>8, <1>9, HeldStep

(* An answer may end the question, with a goroutine to score the round. *)
LEMMA PvpAnswerHeld ==
  ASSUME TypeOK, TypeOK', IInv, JInv, NEW c \in Conn, NEW r \in Room, NEW hit \in Outcome,
         PvpAnswer(c, r, hit)
  PROVE  JInv'
  <1>1. UNCHANGED <<pending, indexVars, playerVars, scoreVars, abandonTimers, absentTimers,
                    handler, conns, recordVars>>
    BY DEF PvpAnswer
  <1>2. PlayersFit'
    <2>1. \A t \in tasks' : t \in tasks \/ t.user = NoUser
      BY DEF PvpAnswer
    <2>2. QED
      BY <1>1, <2>1, PlayersKept, IndexPlayers
  <1>3. CASE UNCHANGED <<status, roundTimers, tasks>>
    <2>1. \A s \in Room : Same(s)
      BY <1>1, <1>3 DEF Same, Played
    <2>2. QED
      BY <1>1, <1>2, <2>1, HeldStep
  <1>4. CASE ~UNCHANGED <<status, roundTimers, tasks>>
    <2> PICK t : t = Goroutine(r, currentRound[r], "finish", NoUser, ZeroScore)
      OBVIOUS
    <2>1. /\ status' = [status EXCEPT ![r] = "resolving"]
          /\ roundTimers' = {x \in roundTimers : x.room # r}
          /\ tasks' = tasks \cup {t}
      BY <1>4 DEF PvpAnswer
    <2>2. status[r] = "question"
      BY DEF PvpAnswer, Awaits
    <2>3. r \in pvpRooms /\ NobodyEnds(r) /\ Untold(r)
      BY <2>2, LiveIsHeld DEF Over
    <2>4. status'[r] = "resolving" /\ \A s \in Room \ {r} : status'[s] = status[s]
      BY <2>1 DEF TypeOK
    <2>5. ASSUME NEW s \in Room \ {r} PROVE Same(s)
      BY <1>1, <2>1, <2>4 DEF Same, Played
    <2>6. EndingTasks(r)' = {} /\ EndingHandlers(r)' = {}
      BY <1>1, <2>1, <2>3 DEF NobodyEnds, EndingTasks, TasksOf, EndingHandlers, IsLast
    <2>7. MoverFits(r)' /\ EndFits(r)'
      BY <1>1, <2>1, <2>3, <2>4, <2>6 DEF MoverFits, EndFits, NobodyEnds, Over
    <2>8. QED
      BY <1>1, <1>2, <2>3, <2>5, <2>7, HeldStep
  <1>5. QED
    BY <1>3, <1>4

-----------------------------------------------------------------------------
(* The steps of goroutines, again *)

(* A goroutine that changes no match keeps the second invariant if those who
   play the match and those who remove it stay. *)
LEMMA TaskHeld ==
  ASSUME TypeOK, TypeOK', IInv, JInv, NEW r \in Room,
         UNCHANGED <<indexVars, status, playerVars, scoreVars, handler, conns, session, told>>,
         \A x \in roundTimers : x.room # r => x \in roundTimers',
         absentTimers' \subseteq absentTimers,
         \A t \in tasks : t.room # r => t \in tasks',
         \A t \in tasks' : t \in tasks
                             \/ (t.room = r /\ (t.user = NoUser \/ t.user \in Players(r))),
         MoverFits(r)',
         EndingTasks(r)' = EndingTasks(r) \/ (EndFits(r)' /\ Untold(r))
  PROVE  JInv'
  <1>1. ASSUME NEW s \in Room \ {r} PROVE Same(s)
    BY DEF Same, Played
  <1>2. EndFits(r)' /\ (Untold(r)' => Untold(r))
    <2>1. CASE EndingTasks(r)' = EndingTasks(r)
      <3>1. TellingTasks(r)' = TellingTasks(r) /\ TellingHandlers(r)' = TellingHandlers(r)
              /\ EndingHandlers(r)' = EndingHandlers(r) /\ (Registering(r)' => Registering(r))
        BY <2>1 DEF TellingTasks, TellingHandlers, EndingHandlers, Registering
      <3>2. EndFits(r)'
        BY <2>1, <3>1, EndKept DEF JInv, Over
      <3>3. QED
        BY <3>1, <3>2 DEF Untold
    <2>2. QED
      BY <2>1
  <1>3. PlayersFit'
    <2>1. \A t \in tasks' : t \in tasks \/ t.user = NoUser \/ t.user \in Players(t.room)
      OBVIOUS
    <2>2. QED
      BY <2>1, PlayersKept, IndexPlayers
  <1>4. QED
    BY <1>1, <1>2, <1>3, HeldStep

(* A goroutine that carries a match from one phase to the next keeps it too. *)
LEMMA PhaseHeld ==
  ASSUME TypeOK, TypeOK', IInv, JInv, NEW r \in Room, status[r] # "none", ~Over(r),
         UNCHANGED <<indexVars, playerVars, handler, conns, session, told>>,
         status'[r] \in Live,
         \A s \in Room \ {r} : status'[s] = status[s] /\ currentRound'[s] = currentRound[s],
         \A x \in roundTimers : x.room # r => x \in roundTimers',
         absentTimers' \subseteq absentTimers,
         \A t \in tasks : t.room # r => t \in tasks',
         \A t \in tasks' : t \in tasks
                             \/ (t.room = r /\ (t.user = NoUser \/ t.user \in Players(r))
                                   /\ t \notin EndingTasks(r)'),
         MoverFits(r)'
  PROVE  JInv'
  <1>1. r \in pvpRooms /\ NobodyEnds(r) /\ Untold(r)
    BY LiveIsHeld
  <1>2. ASSUME NEW s \in Room \ {r} PROVE Same(s)
    BY DEF Same, Played
  <1>3. EndFits(r)'
    <2>1. EndingTasks(r)' = {}
      BY <1>1 DEF NobodyEnds, EndingTasks, TasksOf, IsLast
    <2>2. EndingHandlers(r)' = {}
      BY <1>1 DEF NobodyEnds, EndingHandlers
    <2>3. QED
      BY <2>1, <2>2 DEF EndFits, NobodyEnds, Over, Live
  <1>4. PlayersFit'
    <2>1. \A t \in tasks' : t \in tasks \/ t.user = NoUser \/ t.user \in Players(t.room)
      OBVIOUS
    <2>2. QED
      BY <2>1, PlayersKept, IndexPlayers
  <1>5. QED
    BY <1>1, <1>2, <1>3, <1>4, HeldStep

LEMMA BeginRoundHeld ==
  ASSUME TypeOK, TypeOK', IInv, JInv, NEW t \in tasks, BeginRound(t)
  PROVE  JInv'
  <1> PICK r \in Room : r = t.room
    BY TaskFields
  <1>1. /\ UNCHANGED <<pending, indexVars, playerVars, scoreVars, abandonTimers, absentTimers,
                       handler, conns, recordVars>>
        /\ tasks' = tasks \ {t} /\ t.at = "countdown"
    BY DEF BeginRound
  <1>2. status[r] # "none" /\ RoomFits(r) /\ MoverFits(r)
    BY DEF IInv, TaskFits, JInv
  <1>3. EndingTasks(r)' = EndingTasks(r)
    BY <1>1 DEF EndingTasks, TasksOf, IsLast
  <1>4. CASE Over(r) \/ currentRound[r] >= TotalRounds
    <2>1. UNCHANGED <<status, roundAnswers, roundTimers>>
      BY <1>4 DEF BeginRound
    <2>2. Over(r)
      BY <1>2, <1>4, LiveIsHeld, BoundAssumption DEF RoomFits, TypeOK
    <2>3. MoverFits(r)'
      BY <2>1, <2>2 DEF MoverFits, Over, Live
    <2>4. QED
      BY <1>1, <1>3, <2>1, <2>3, TaskHeld
  <1>5. CASE ~(Over(r) \/ currentRound[r] >= TotalRounds)
    <2>1. status' = [status EXCEPT ![r] = "question"] /\ ArmRoundTimer(r)
      BY <1>5 DEF BeginRound
    <2>2. status'[r] = "question" /\ \A s \in Room \ {r} : status'[s] = status[s]
      BY <2>1 DEF TypeOK
    <2>3. \E x \in roundTimers' : x.room = r
      <3>1. [room |-> r, round |-> currentRound[r]] \in roundTimers'
        BY <2>1 DEF ArmRoundTimer
      <3>2. QED
        BY <3>1
    <2>4. r \in pvpRooms
      BY <1>2, <1>5, LiveIsHeld
    <2>5. MoverFits(r)'
      BY <1>1, <2>2, <2>3, <2>4 DEF MoverFits
    <2>6. \A x \in roundTimers : x.room # r => x \in roundTimers'
      BY <2>1 DEF ArmRoundTimer
    <2>7. QED
      BY <1>1, <1>2, <1>5, <2>2, <2>5, <2>6, PhaseHeld DEF Live
  <1>6. QED
    BY <1>4, <1>5

(* A late callback ends nothing: the question on screen has its own. *)
LEMMA SettleTimeoutHeld ==
  ASSUME TypeOK, TypeOK', IInv, JInv, NEW t \in tasks, SettleTimeout(t)
  PROVE  JInv'
  <1> PICK r \in Room : r = t.room
    BY TaskFields
  <1>1. /\ UNCHANGED <<pending, indexVars, playerVars, scoreVars, roundAnswers, abandonTimers,
                       absentTimers, handler, conns, recordVars>>
        /\ t.at = "timeout"
    BY DEF SettleTimeout
  <1>2. MoverFits(r)
    BY DEF JInv
  <1>3. CASE TooLate(t)
    <2>1. tasks' = tasks \ {t} /\ UNCHANGED <<status, roundTimers>>
      BY <1>3 DEF SettleTimeout
    <2>2. EndingTasks(r)' = EndingTasks(r)
      BY <1>1, <2>1 DEF EndingTasks, TasksOf, IsLast
    <2>3. MoverFits(r)'
      BY <1>1, <1>2, <1>3, <2>1 DEF MoverFits, TooLate
    <2>4. QED
      BY <1>1, <2>1, <2>2, <2>3, TaskHeld
  <1>4. CASE ~TooLate(t)
    <2> PICK next : next = Goroutine(r, t.round, "finish", t.user, t.result)
      OBVIOUS
    <2>1. /\ status' = [status EXCEPT ![r] = "resolving"]
          /\ roundTimers' = {x \in roundTimers : x.room # r}
          /\ tasks' = (tasks \ {t}) \cup {next}
      BY <1>4 DEF SettleTimeout
    <2>2. status[r] = "question" /\ r \in pvpRooms /\ NobodyEnds(r) /\ Untold(r)
      BY <1>4, LiveIsHeld DEF TooLate, Over
    <2>3. status'[r] = "resolving" /\ \A s \in Room \ {r} : status'[s] = status[s]
      BY <2>1 DEF TypeOK
    <2>4. next.room = r /\ next.at = "finish" /\ next.user = t.user /\ next \in tasks'
      BY <2>1
    <2>5. MoverFits(r)'
      BY <1>1, <2>2, <2>3, <2>4 DEF MoverFits
    <2>6. t.user = NoUser \/ t.user \in Players(r)
      BY DEF JInv, PlayersFit
    <2>7. next \notin EndingTasks(r)'
      BY <2>4 DEF EndingTasks
    <2>8. /\ \A u \in tasks : u.room # r => u \in tasks'
          /\ \A u \in tasks' : u \in tasks
               \/ (u.room = r /\ (u.user = NoUser \/ u.user \in Players(r))
                    /\ u \notin EndingTasks(r)')
      BY <2>1, <2>4, <2>6, <2>7
    <2>9. status[r] # "none" /\ ~Over(r) /\ status'[r] \in Live
      BY <2>2, <2>3 DEF Over, Live
    <2>10. QED
      BY <1>1, <2>1, <2>3, <2>5, <2>8, <2>9, PhaseHeld
  <1>5. QED
    BY <1>3, <1>4

(* A goroutine that ends a match is from then on the one to remove it. *)
LEMMA EndHeld ==
  ASSUME TypeOK, TypeOK', IInv, JInv, NEW r \in Room, status[r] # "none", ~Over(r),
         UNCHANGED <<indexVars, playerVars, handler, conns, session, told>>, Over(r)',
         \A s \in Room \ {r} : status'[s] = status[s] /\ currentRound'[s] = currentRound[s],
         \A x \in roundTimers : x.room # r => x \in roundTimers',
         absentTimers' \subseteq absentTimers,
         \A t \in tasks : t.room # r => t \in tasks',
         NEW next \in EndingTasks(r)', next.user = NoUser \/ next.user \in Players(r),
         \A t \in tasks' : t \in tasks \/ t = next
  PROVE  JInv'
  <1>1. r \in pvpRooms /\ NobodyEnds(r) /\ Untold(r)
    BY LiveIsHeld
  <1>2. next.room = r /\ next \in tasks'
    BY DEF EndingTasks, TasksOf
  <1>3. ASSUME NEW s \in Room \ {r} PROVE Same(s)
    BY <1>2 DEF Same, Played
  <1>4. EndFits(r)'
    <2>1. EndingTasks(r)' = {next}
      BY <1>1, <1>2 DEF NobodyEnds, EndingTasks, TasksOf, IsLast
    <2>2. EndingHandlers(r)' = {}
      BY <1>1 DEF NobodyEnds, EndingHandlers
    <2>3. QED
      BY <1>1, <1>2, <2>1, <2>2 DEF EndFits, TaskAloneEnds
  <1>5. MoverFits(r)'
    BY DEF MoverFits, Over, Live
  <1>6. PlayersFit'
    <2>1. \A t \in tasks' : t \in tasks \/ t.user = NoUser \/ t.user \in Players(t.room)
      BY <1>2
    <2>2. QED
      BY <2>1, PlayersKept, IndexPlayers
  <1>7. QED
    BY <1>1, <1>3, <1>4, <1>5, <1>6, HeldStep

(* The last round ends the match, any other is followed by the next countdown. *)
LEMMA FinishRoundHeld ==
  ASSUME TypeOK, TypeOK', IInv, JInv, NEW t \in tasks, FinishRound(t)
  PROVE  JInv'
  <1> PICK r \in Room : r = t.room
    BY TaskFields
  <1>1. /\ UNCHANGED <<pending, indexVars, playerVars, abandonTimers, absentTimers, handler,
                       conns, recordVars>>
        /\ t.at = "finish"
    BY DEF FinishRound
  <1>2. CASE status[r] # "resolving"
    <2>1. tasks' = tasks \ {t} /\ UNCHANGED <<status, scoreVars, roundAnswers, roundTimers>>
      BY <1>2 DEF FinishRound
    <2>2. EndingTasks(r)' = EndingTasks(r)
      BY <1>1, <2>1 DEF EndingTasks, TasksOf, IsLast
    <2>3. MoverFits(r)'
      BY <1>1, <1>2, <2>1 DEF JInv, MoverFits
    <2>4. QED
      BY <1>1, <2>1, <2>2, <2>3, TaskHeld
  <1>3. CASE status[r] = "resolving"
    <2> PICK n, result : n = currentRound[r]
          /\ result = [user |-> userScore[r] + Point(r, acceptor[r]),
                       opponent |-> opponentScore[r] + Point(r, challenger[r])]
      OBVIOUS
    <2> PICK next : next = Goroutine(r, n, "persist", NoUser, result)
      OBVIOUS
    <2>1. /\ currentRound' = [currentRound EXCEPT ![r] = n + 1]
          /\ tasks' = (tasks \ {t}) \cup {next}
          /\ IF IsLast(n)
             THEN status' = [status EXCEPT ![r] = "finished"] /\ ClearRoundTimer(r)
             ELSE status' = [status EXCEPT ![r] = "countdown"] /\ UNCHANGED roundTimers
      BY <1>3 DEF FinishRound
    <2>2. /\ next.room = r /\ next.at = "persist" /\ next.round = n /\ next.user = NoUser
          /\ next \in tasks'
      BY <2>1
    <2>3. /\ \A s \in Room \ {r} : status'[s] = status[s] /\ currentRound'[s] = currentRound[s]
          /\ status'[r] = IF IsLast(n) THEN "finished" ELSE "countdown"
          /\ \A x \in roundTimers : x.room # r => x \in roundTimers'
      BY <2>1 DEF TypeOK
    <2>4. status[r] # "none" /\ ~Over(r) /\ r \in pvpRooms
      BY <1>3, LiveIsHeld DEF Over
    <2>5. \A u \in tasks : u.room # r => u \in tasks'
      BY <2>1
    <2>6. CASE IsLast(n)
      <3>1. next \in EndingTasks(r)'
        BY <2>2, <2>6 DEF EndingTasks, TasksOf, IsLast
      <3>2. Over(r)'
        BY <2>3, <2>6 DEF Over
      <3>3. \A u \in tasks' : u \in tasks \/ u = next
        BY <2>1
      <3>4. QED
        BY <1>1, <2>2, <2>3, <2>4, <2>5, <3>1, <3>2, <3>3, EndHeld
    <2>7. CASE ~IsLast(n)
      <3>1. next \notin EndingTasks(r)'
        BY <2>2, <2>7 DEF EndingTasks, IsLast
      <3>2. MoverFits(r)' /\ status'[r] \in Live
        BY <1>1, <2>2, <2>3, <2>4, <2>7 DEF MoverFits, Live
      <3>3. \A u \in tasks' : u \in tasks
              \/ (u.room = r /\ (u.user = NoUser \/ u.user \in Players(r))
                   /\ u \notin EndingTasks(r)')
        BY <2>1, <2>2, <3>1
      <3>4. QED
        BY <1>1, <2>3, <2>4, <2>5, <3>2, <3>3, PhaseHeld
    <2>8. QED
      BY <2>6, <2>7
  <1>4. QED
    BY <1>2, <1>3

(* The goroutine of the last round is still the one to tell and to remove. *)
LEMMA PersistRoundHeld ==
  ASSUME TypeOK, TypeOK', IInv, JInv, NEW t \in tasks, PersistRound(t)
  PROVE  JInv'
  <1> PICK r \in Room : r = t.room
    BY TaskFields
  <1> PICK step, next :
        /\ step = IF IsLast(t.round) THEN "complete" ELSE "countdown"
        /\ next = Goroutine(r, t.round, step, t.user, t.result)
    OBVIOUS
  <1>1. /\ UNCHANGED <<pending, indexVars, roomVars, handler, conns, session, told>>
        /\ t.at = "persist" /\ tasks' = (tasks \ {t}) \cup {next}
    BY DEF PersistRound
  <1>2. /\ next.room = r /\ next.at = step /\ next.user = t.user /\ next \in tasks'
        /\ (t.user = NoUser \/ t.user \in Players(r))
    BY <1>1 DEF JInv, PlayersFit
  <1>3. /\ \A u \in tasks : u.room # r => u \in tasks'
        /\ \A u \in tasks' : u \in tasks
             \/ (u.room = r /\ (u.user = NoUser \/ u.user \in Players(r)))
    BY <1>1, <1>2
  <1>4. MoverFits(r)'
    <2>1. MoverFits(r)
      BY DEF JInv
    <2>2. Over(r) \/ step = "countdown"
      BY <1>1, TaskAlone
    <2>3. QED
      BY <1>1, <1>2, <2>1, <2>2 DEF MoverFits, Over, Live
  <1>5. EndingTasks(r)' = EndingTasks(r) \/ (EndFits(r)' /\ Untold(r))
    <2>1. CASE IsLast(t.round)
      <3>1. /\ r \in pvpRooms /\ Over(r)
            /\ EndingTasks(r) = {t} /\ EndingHandlers(r) = {}
        BY <1>1, <2>1, TaskAlone
      <3>2. Untold(r)
        BY <1>1, <3>1 DEF Untold, TellingTasks
      <3>3. EndingTasks(r)' = {next} /\ EndingHandlers(r)' = {}
        BY <1>1, <1>2, <2>1, <3>1 DEF EndingTasks, EndingHandlers, TasksOf, IsLast
      <3>4. QED
        BY <1>1, <1>2, <3>1, <3>2, <3>3 DEF EndFits, TaskAloneEnds, Over
    <2>2. CASE ~IsLast(t.round)
      BY <1>1, <1>2, <2>2 DEF EndingTasks, TasksOf, IsLast
    <2>3. QED
      BY <2>1, <2>2
  <1>6. QED
    BY <1>1, <1>3, <1>4, <1>5, TaskHeld

(* What a goroutine tells and stores is the end of a match. *)
LEMMA TaskTells ==
  ASSUME TypeOK, TypeOK', IInv, JInv, NEW t \in tasks, NEW r \in Room, r = t.room,
         t.at \in {"complete", "mark"}, TaskAt(t, "cleanup"),
         UNCHANGED <<pending, indexVars, roomVars, handler, conns>>,
         NEW why, NEW loser, Tell(r, why, loser),
         loser # NoUser => loser \in Players(r),
         \A s \in Room \ {r} : session'[s] = session[s],
         session'[r] # "absent",
         ~StoreFails /\ session[r] = "in_progress" =>
           session'[r] = IF why = "played" THEN "completed" ELSE "abandoned"
  PROVE  JInv'
  <1> PICK next : next = Goroutine(r, t.round, "cleanup", t.user, t.result)
    OBVIOUS
  <1>1. /\ tasks' = (tasks \ {t}) \cup {next} /\ next \in tasks'
        /\ next.room = r /\ next.at = "cleanup" /\ next.user = t.user
    OBVIOUS
  <1>2. /\ r \in pvpRooms /\ Over(r) /\ ~Registering(r) /\ session[r] # "absent"
        /\ EndingTasks(r) = {t} /\ EndingHandlers(r) = {}
    BY TaskAlone
  <1>3. EndingTasks(r)' = {next} /\ EndingHandlers(r)' = {}
    BY <1>1, <1>2 DEF EndingTasks, EndingHandlers, TasksOf, IsLast
  <1>4. EndFits(r)' /\ MoverFits(r)'
    BY <1>1, <1>2, <1>3 DEF EndFits, TaskAloneEnds, MoverFits, Over, Live
  <1>5. Untold(r)
    BY <1>2 DEF Untold, TellingTasks
  <1>6. ~Untold(r)'
    <2>1. TellingTasks(r)' = {} /\ TellingHandlers(r)' = {}
      BY <1>1, <1>3 DEF TellingTasks, TellingHandlers
    <2>2. ~Registering(r)'
      BY <1>2 DEF Registering
    <2>3. QED
      BY <1>2, <2>1, <2>2 DEF Untold, Over, Live
  <1>7. ASSUME NEW s \in Room \ {r} PROVE Same(s) /\ session'[s] = session[s]
    BY <1>1 DEF Same, Played
  <1>8. PlayersFit'
    <2>1. t.user # NoUser => t.user \in Players(r)
      BY DEF JInv, PlayersFit
    <2>2. \A u \in tasks' : u \in tasks \/ u.user = NoUser \/ u.user \in Players(u.room)
      BY <1>1, <2>1
    <2>3. \A s \in Room : session'[s] = "absent" => session[s] = "absent"
      OBVIOUS
    <2>4. QED
      BY <2>2, <2>3, PlayersKept, IndexPlayers
  <1>9. PICK x : told' = told \cup {x} /\ x = [room |-> r, why |-> why, loser |-> loser]
    BY DEF Tell
  <1>10. x.room = r /\ x.why = why /\ x.loser = loser
    BY <1>9
  <1>11. QED
    BY <1>2, <1>4, <1>5, <1>6, <1>7, <1>8, <1>9, <1>10, TellStep

LEMMA CompleteMatchHeld ==
  ASSUME TypeOK, TypeOK', IInv, JInv, NEW t \in tasks, CompleteMatch(t)
  PROVE  JInv'
  <1> PICK r \in Room : r = t.room
    BY TaskFields
  <1>1. /\ t.at = "complete" /\ TaskAt(t, "cleanup") /\ Tell(r, "played", NoUser)
        /\ UNCHANGED <<pending, indexVars, roomVars, handler, conns>>
        /\ MayFail(MarkCompleted(r, t.result), storeVars)
    BY DEF CompleteMatch
  <1>2. session[r] # "absent"
    BY <1>1, TaskAlone
  <1>3. session' = session
          \/ (session[r] = "in_progress" /\ session' = [session EXCEPT ![r] = "completed"])
    BY <1>1 DEF MayFail, MarkCompleted
  <1>4. /\ \A s \in Room \ {r} : session'[s] = session[s]
        /\ session'[r] # "absent"
    BY <1>2, <1>3 DEF TypeOK
  <1>5. ~StoreFails /\ session[r] = "in_progress" => session'[r] = "completed"
    BY <1>1 DEF MayFail, MarkCompleted, TypeOK
  <1>6. QED
    BY <1>1, <1>4, <1>5, TaskTells

LEMMA AbsenceMarkHeld ==
  ASSUME TypeOK, TypeOK', IInv, JInv, NEW t \in tasks, AbsenceMark(t)
  PROVE  JInv'
  <1> PICK r \in Room : r = t.room
    BY TaskFields
  <1> PICK why \in {"reconnect_timeout", "opponent_disconnect"} :
        RecordAbandoned(r, why, t.user)
    BY DEF AbsenceMark
  <1>1. /\ t.at = "mark" /\ TaskAt(t, "cleanup") /\ Tell(r, why, t.user)
        /\ UNCHANGED <<pending, indexVars, roomVars, handler, conns>>
        /\ MayFail(MarkAbandoned(r), session)
    BY DEF AbsenceMark, RecordAbandoned
  <1>2. session[r] # "absent"
    BY <1>1, TaskAlone
  <1>3. session' = session \/ session' = [session EXCEPT ![r] = "abandoned"]
    BY <1>1 DEF MayFail, MarkAbandoned
  <1>4. /\ \A s \in Room \ {r} : session'[s] = session[s]
        /\ session'[r] # "absent"
    BY <1>2, <1>3 DEF TypeOK
  <1>5. ~StoreFails /\ session[r] = "in_progress" => session'[r] = "abandoned"
    BY <1>1 DEF MayFail, MarkAbandoned, TypeOK
  <1>6. t.user # NoUser => t.user \in Players(r)
    BY DEF JInv, PlayersFit
  <1>7. QED
    BY <1>1, <1>4, <1>5, <1>6, TaskTells

(* A goroutine takes the match it ended out of the indexes. *)
LEMMA TaskCleanupHeld ==
  ASSUME TypeOK, TypeOK', IInv, JInv, NEW t \in tasks, TaskCleanup(t)
  PROVE  JInv'
  <1> PICK r \in Room : r = t.room
    BY TaskFields
  <1>1. /\ t.at = "cleanup" /\ CleanupPvpRoom(r) /\ tasks' = tasks \ {t}
        /\ UNCHANGED <<pending, roomVars, handler, conns, recordVars>>
    BY DEF TaskCleanup
  <1>2. /\ r \in pvpRooms /\ Over(r) /\ ~Registering(r) /\ session[r] # "absent"
        /\ EndingTasks(r) = {t} /\ EndingHandlers(r) = {}
    BY <1>1, TaskAlone
  <1>3. ASSUME NEW s \in Room \ {r} PROVE Same(s)
    BY <1>1 DEF Same, Played, CleanupPvpRoom
  <1>4. MoverFits(r)' /\ EndFits(r)' /\ (Untold(r)' => Untold(r))
    <2>1. EndingTasks(r)' = {} /\ EndingHandlers(r)' = {}
      BY <1>1, <1>2 DEF EndingTasks, TasksOf, EndingHandlers, IsLast
    <2>2. EndFits(r)'
      BY <1>1, <2>1 DEF EndFits, NobodyEnds, CleanupPvpRoom
    <2>3. MoverFits(r)'
      BY <1>1, <1>2 DEF MoverFits, Over, Live
    <2>4. ~Registering(r)'
      BY <1>1, <1>2 DEF Registering
    <2>5. ~Untold(r)'
      BY <1>1, <1>2, <2>1, <2>4 DEF Untold, TellingTasks, TellingHandlers, Over, Live
    <2>6. QED
      BY <2>2, <2>3, <2>5
  <1>5. PlayersFit'
    <2>1. \A u \in User : \/ userToPvpRoom'[u] = NoRoom
                          \/ /\ userToPvpRoom'[u] \in pvpRooms'
                             /\ u \in Players(userToPvpRoom'[u])
      BY <1>1, IndexPlayers DEF CleanupPvpRoom
    <2>2. \A d \in Conn : connToPvpRoom'[d] \in {connToPvpRoom[d], NoRoom}
      BY <1>1 DEF CleanupPvpRoom
    <2>3. QED
      BY <1>1, <2>1, <2>2, PlayersKept
  <1>6. QED
    BY <1>1, <1>3, <1>4, <1>5, HeldStep

(* An absence that turns out to be none ends nothing; one that lasts ends a match
   that is not over. *)
LEMMA AbsenceHeld ==
  ASSUME TypeOK, TypeOK', IInv, JInv, NEW t \in tasks, AbsenceCheck(t) \/ AbsenceAbandon(t)
  PROVE  JInv'
  <1> PICK r \in Room : r = t.room
    BY TaskFields
  <1>1. /\ UNCHANGED <<pending, indexVars, playerVars, scoreVars, roundAnswers, handler, conns,
                       recordVars>>
        /\ t.at \in {"orphan", "absent", "abandon"}
        /\ t.user = NoUser \/ t.user \in Players(r)
    BY DEF AbsenceCheck, AbsenceAbandon, JInv, PlayersFit
  <1>2. CASE UNCHANGED <<status, timerVars>>
    <2>1. /\ \A u \in tasks : u # t => u \in tasks'
          /\ \A u \in tasks' : u \in tasks
               \/ (u.room = r /\ u.user = t.user /\ u.at = "abandon")
      <3>1. CASE AbsenceCheck(t)
        BY <3>1 DEF AbsenceCheck
      <3>2. CASE AbsenceAbandon(t)
        <4>1. CASE Over(t.room)
          BY <3>2, <4>1 DEF AbsenceAbandon
        <4>2. CASE ~Over(t.room)
          <5>1. status'[r] = "abandoned"
            BY <3>2, <4>2 DEF AbsenceAbandon, EndAbandoned, TypeOK
          <5>2. QED
            BY <1>2, <4>2, <5>1 DEF Over
        <4>3. QED
          BY <4>1, <4>2
      <3>3. QED
        BY <3>1, <3>2
    <2>2. EndingTasks(r)' = EndingTasks(r)
      BY <1>1, <2>1 DEF EndingTasks, TasksOf, IsLast
    <2>3. MoverFits(r)'
      BY <1>1, <1>2, <2>1 DEF JInv, MoverFits
    <2>4. /\ \A u \in tasks : u.room # r => u \in tasks'
          /\ \A u \in tasks' : u \in tasks
               \/ (u.room = r /\ (u.user = NoUser \/ u.user \in Players(r)))
      BY <1>1, <2>1
    <2>5. QED
      BY <1>1, <1>2, <2>2, <2>3, <2>4, TaskHeld
  <1>3. CASE AbsenceAbandon(t) /\ ~Over(r)
    <2> PICK next : next = Goroutine(r, t.round, "mark", t.user, t.result)
      OBVIOUS
    <2>1. EndAbandoned(r) /\ tasks' = (tasks \ {t}) \cup {next}
      BY <1>3 DEF AbsenceAbandon
    <2>2. /\ status'[r] = "abandoned" /\ \A s \in Room \ {r} : status'[s] = status[s]
          /\ \A x \in roundTimers : x.room # r => x \in roundTimers'
          /\ absentTimers' \subseteq absentTimers
      BY <2>1 DEF EndAbandoned, TypeOK
    <2>3. /\ next.user = t.user /\ next \in EndingTasks(r)'
          /\ \A u \in tasks' : u \in tasks \/ u = next
          /\ \A u \in tasks : u.room # r => u \in tasks'
      BY <2>1 DEF EndingTasks, TasksOf
    <2>4. status[r] # "none" /\ Over(r)'
      BY <2>2 DEF IInv, TaskFits, Over
    <2>5. QED
      BY <1>1, <1>3, <2>2, <2>3, <2>4, EndHeld
  <1>4. QED
    BY <1>2, <1>3 DEF AbsenceCheck, AbsenceAbandon

-----------------------------------------------------------------------------
(* Timers, connections and the process, again *)

(* The callback of a timer takes its place; nobody else is concerned. *)
LEMMA TimerHeld ==
  ASSUME TypeOK, TypeOK', IInv, JInv, TimerFires
  PROVE  JInv'
  <1>1. ASSUME NEW x \in roundTimers, RoundTimerFires(x) PROVE JInv'
    <2> PICK r \in Room : r = x.room
      BY DEF TypeOK
    <2> PICK next : next = Goroutine(r, x.round, "timeout", NoUser, ZeroScore)
      OBVIOUS
    <2>1. /\ UNCHANGED <<pending, indexVars, status, playerVars, scoreVars, roundAnswers,
                         abandonTimers, absentTimers, handler, conns, recordVars>>
          /\ roundTimers' = roundTimers \ {x} /\ tasks' = tasks \cup {next} /\ next \in tasks'
      BY <1>1 DEF RoundTimerFires
    <2>2. next.room = r /\ next.at = "timeout" /\ next.user = NoUser /\ next.round = x.round
      OBVIOUS
    <2>3. EndingTasks(r)' = EndingTasks(r)
      BY <2>1, <2>2 DEF EndingTasks, TasksOf, IsLast
    <2>4. x.round = currentRound[r]
      BY DEF IInv, TimersFit
    <2>5. MoverFits(r)'
      BY <2>1, <2>2, <2>4 DEF JInv, MoverFits
    <2>6. QED
      BY <2>1, <2>2, <2>3, <2>5, TaskHeld
  <1>2. ASSUME NEW r \in Room, NEW next, next.room = r, next.at \in {"orphan", "absent"},
               next.user = NoUser \/ next.user \in Players(r), tasks' = tasks \cup {next},
               absentTimers' \subseteq absentTimers,
               UNCHANGED <<pending, indexVars, status, playerVars, scoreVars, roundAnswers,
                           roundTimers, handler, conns, recordVars>>
        PROVE  JInv'
    <2>1. EndingTasks(r)' = EndingTasks(r)
      BY <1>2 DEF EndingTasks, TasksOf, IsLast
    <2>2. MoverFits(r)'
      BY <1>2 DEF JInv, MoverFits
    <2>3. QED
      BY <1>2, <2>1, <2>2, TaskHeld
  <1>3. ASSUME NEW r \in abandonTimers, AbandonTimerFires(r) PROVE JInv'
    <2> PICK next : next = Goroutine(r, 0, "orphan", NoUser, ZeroScore)
      OBVIOUS
    <2>1. next.room = r /\ next.at = "orphan" /\ next.user = NoUser /\ r \in Room
      BY DEF TypeOK
    <2>2. QED
      BY <1>2, <1>3, <2>1 DEF AbandonTimerFires
  <1>4. ASSUME NEW x \in absentTimers, AbsentTimerFires(x) PROVE JInv'
    <2> PICK next : next = Goroutine(x.room, 0, "absent", x.user, ZeroScore)
      OBVIOUS
    <2>1. next.room = x.room /\ next.at = "absent" /\ next.user = x.user /\ x.room \in Room
      BY DEF TypeOK
    <2>2. x.user \in Players(x.room)
      BY DEF JInv, PlayersFit
    <2>3. QED
      BY <1>2, <1>4, <2>1, <2>2 DEF AbsentTimerFires
  <1>5. QED
    BY <1>1, <1>3, <1>4 DEF TimerFires

(* Connections come and go; the matches are the same. *)
LEMMA ConnHeld ==
  ASSUME TypeOK, TypeOK', IInv, JInv,
         \/ \E c \in Conn : Connect(c) \/ Disconnect(c) \/ CloserStepOf(c)
         \/ \E ch \in pending : ExpireChallenge(ch)
         \/ \E r \in Room : AdminAbort(r)
  PROVE  JInv'
  <1>1. /\ UNCHANGED <<pvpRooms, userToPvpRoom, status, playerVars, scoreVars, roundAnswers,
                       roundTimers, tasks, handler, storedScore, told>>
        /\ \A c \in Conn : connToPvpRoom'[c] \in {connToPvpRoom[c], NoRoom}
        /\ \A r \in Room : session'[r] = "absent" <=> session[r] = "absent"
        /\ ~AdminAborts => UNCHANGED session
    BY DEF Connect, Disconnect, CloserStepOf, DisconnectSettle, SocketCloses, ExpireChallenge,
           AdminAbort, TypeOK
  <1>2. \A s \in Room : Same(s)
    BY <1>1 DEF Same, Played
  <1>3. PlayersFit'
    <2>1. PlayersFit /\ \A r : Players(r)' = Players(r)
      BY <1>1 DEF JInv, Players
    <2>2. ASSUME NEW d \in Conn, conns'[d].at = "settle"
          PROVE  UserOf[d] \in Players(conns'[d].room)
      <3>1. CASE conns'[d] = conns[d]
        BY <2>1, <2>2, <3>1 DEF PlayersFit
      <3>2. CASE conns'[d] # conns[d]
        <4>1. connToPvpRoom[d] \in pvpRooms /\ conns'[d].room = connToPvpRoom[d]
          <5>1. PICK c \in Conn : Connect(c) \/ Disconnect(c) \/ CloserStepOf(c)
            BY <3>2 DEF ExpireChallenge, AdminAbort
          <5>2. CASE Disconnect(c)
            BY <2>2, <3>2, <5>2 DEF Disconnect, TypeOK
          <5>3. CASE Connect(c) \/ CloserStepOf(c)
            BY <2>2, <3>2, <5>3 DEF Connect, CloserStepOf, DisconnectSettle, SocketCloses, TypeOK
          <5>4. QED
            BY <5>1, <5>2, <5>3
        <4>2. connToPvpRoom[d] # NoRoom
          BY <4>1, RoomAssumption DEF TypeOK
        <4>3. QED
          BY <2>1, <4>1, <4>2 DEF PlayersFit
      <3>3. QED
        BY <3>1, <3>2
    <2>3. ASSUME NEW x \in absentTimers' PROVE x.user \in Players(x.room)
      <3>1. CASE x \in absentTimers
        BY <2>1, <3>1 DEF PlayersFit
      <3>2. CASE x \notin absentTimers
        <4>1. PICK c \in Conn : DisconnectSettle(c)
          BY <2>3, <3>2 DEF Connect, Disconnect, CloserStepOf, SocketCloses, ExpireChallenge,
                            AdminAbort
        <4>2. /\ conns[c].at = "settle" /\ x.room = conns[c].room /\ x.user = UserOf[c]
          BY <2>3, <3>2, <4>1 DEF DisconnectSettle
        <4>3. QED
          BY <2>1, <4>2 DEF PlayersFit
      <3>3. QED
        BY <3>1, <3>2
    <2>4. QED
      BY <1>1, <2>1, <2>2, <2>3 DEF PlayersFit
  <1>4. QED
    BY <1>1, <1>2, <1>3, HeldStep

(* A new process holds no match; what was told and stored stays. *)
LEMMA CrashHeld ==
  ASSUME TypeOK, TypeOK', IInv, JInv, Crash
  PROVE  JInv'
  <1>1. /\ pvpRooms' = {} /\ tasks' = {} /\ absentTimers' = {}
        /\ \A u \in User : userToPvpRoom'[u] = NoRoom
        /\ \A c \in Conn : /\ connToPvpRoom'[c] = NoRoom
                           /\ handler'[c] = Idle /\ conns'[c] = New
        /\ \A r \in Room : status'[r] = "none"
        /\ UNCHANGED <<playerVars, scoreVars, recordVars>>
    BY DEF Crash
  <1>2. ASSUME NEW r \in Room
        PROVE  MoverFits(r)' /\ EndFits(r)' /\ (Untold(r)' => session[r] = "absent")
    <2>1. EndingTasks(r)' = {} /\ EndingHandlers(r)' = {} /\ ~Registering(r)'
      BY <1>1 DEF EndingTasks, EndingHandlers, Registering, TasksOf, Idle
    <2>2. QED
      BY <1>1, <2>1 DEF MoverFits, EndFits, NobodyEnds, Untold, TellingTasks, TellingHandlers,
                        Live, Over
  <1>3. \A r \in Room : Untold(r)' => Untold(r)
    BY <1>2 DEF Untold
  <1>4. \A x \in told : x.room \in Room
    BY DEF TypeOK, Verdict
  <1>5. VerdictFits'
    BY <1>1, <1>3, <1>4 DEF JInv, VerdictFits, Players
  <1>6. PlayersFit'
    BY <1>1 DEF JInv, PlayersFit, Players, New
  <1>7. \A c \in Conn : ActorFits(c)'
    BY <1>1 DEF ActorFits, Idle
  <1>8. RowFits'
    BY <1>1, <1>2 DEF JInv, RowFits, VerdictIsStored
  <1>9. QED
    BY <1>2, <1>5, <1>6, <1>7, <1>8 DEF JInv

(* So does the first one. *)
LEMMA InitHeld == Init => JInv
  <1> SUFFICES ASSUME Init PROVE JInv
    OBVIOUS
  <1>1. ASSUME NEW r \in Room PROVE MoverFits(r) /\ EndFits(r) /\ Players(r) = {}
    <2>1. EndingTasks(r) = {} /\ EndingHandlers(r) = {}
      BY DEF Init, EndingTasks, EndingHandlers, TasksOf, Idle
    <2>2. QED
      BY <2>1 DEF Init, MoverFits, EndFits, NobodyEnds, Players, Live, Over
  <1>2. VerdictFits /\ RowFits
    BY DEF Init, VerdictFits, RowFits, VerdictIsStored
  <1>3. PlayersFit
    BY <1>1 DEF Init, PlayersFit, New
  <1>4. \A c \in Conn : ActorFits(c)
    BY DEF Init, ActorFits, Idle
  <1>5. QED
    BY <1>1, <1>2, <1>3, <1>4 DEF JInv

-----------------------------------------------------------------------------
(* The second invariant and what it means *)

(* Every step keeps the second invariant. *)
LEMMA NextHeld ==
  ASSUME TypeOK, TypeOK', IInv, JInv, [Next]_vars
  PROVE  JInv'
  <1>1. ASSUME NEW c \in Conn, Receive(c) PROVE JInv'
    BY <1>1, ChallengeHeld, PvpAnswerHeld, HandlerAbandonHeld DEF Receive
  <1>2. ASSUME NEW c \in Conn, HandlerStepOf(c) PROVE JInv'
    BY <1>2, HandlerCalmHeld, HandlerMarkHeld, HandlerCleanupHeld, HandlerAbandonHeld,
       CreatePvpBattleHeld, RegisterRoomHeld DEF HandlerStepOf
  <1>3. ASSUME NEW t \in tasks, DriverStepOf(t) PROVE JInv'
    BY <1>3, BeginRoundHeld, SettleTimeoutHeld, FinishRoundHeld, PersistRoundHeld,
       CompleteMatchHeld, TaskCleanupHeld DEF DriverStepOf
  <1>4. ASSUME NEW t \in tasks, WatcherStepOf(t) PROVE JInv'
    BY <1>4, AbsenceHeld, AbsenceMarkHeld DEF WatcherStepOf
  <1>5. CASE TimerFires \/ Crash
    BY <1>5, TimerHeld, CrashHeld
  <1>6. CASE \/ \E c \in Conn : Connect(c) \/ Disconnect(c) \/ CloserStepOf(c)
             \/ \E ch \in pending : ExpireChallenge(ch)
             \/ \E r \in Room : AdminAbort(r)
    BY <1>6, ConnHeld
  <1>7. CASE UNCHANGED vars
    <2>1. \A s \in Room : Same(s)
      BY <1>7 DEF vars, Same, Played
    <2>2. PlayersFit'
      BY <1>7, PlayersKept, IndexPlayers DEF vars
    <2>3. QED
      BY <1>7, <2>1, <2>2, HeldStep DEF vars
  <1>8. QED
    BY <1>1, <1>2, <1>3, <1>4, <1>5, <1>6, <1>7 DEF Next

(* JInv is an invariant too. *)
THEOREM MatchesAreHeld == Spec => [](TypeOK /\ IInv /\ JInv)
  <1>1. Init => TypeOK /\ IInv /\ JInv
    BY InitTypeOK, InitInv, InitHeld
  <1>2. TypeOK /\ IInv /\ JInv /\ [Next]_vars => (TypeOK /\ IInv /\ JInv)'
    BY NextTypeOK, NextInv, NextHeld
  <1>3. QED
    BY <1>1, <1>2, PTL DEF Spec

(* How many are on their way to remove a match. *)
LEMMA EndersCounted ==
  ASSUME JInv, NEW r \in Room
  PROVE  Enders(r) = IF r \in pvpRooms /\ Over(r) THEN 1 ELSE 0
  <1>1. \A x : Cardinality({x}) = 1
    BY FS_Singleton
  <1>2. Cardinality({}) = 0
    BY FS_EmptySet
  <1>3. EndFits(r)
    BY DEF JInv
  <1>4. CASE r \in pvpRooms /\ Over(r)
    <2>1. CASE TaskAloneEnds(r)
      <3>1. Cardinality(EndingTasks(r)) = 1 /\ Cardinality(EndingHandlers(r)) = 0
        BY <1>1, <1>2, <2>1 DEF TaskAloneEnds
      <3>2. QED
        BY <1>4, <3>1 DEF Enders
    <2>2. CASE HandlerAloneEnds(r)
      <3>1. Cardinality(EndingTasks(r)) = 0 /\ Cardinality(EndingHandlers(r)) = 1
        BY <1>1, <1>2, <2>2 DEF HandlerAloneEnds
      <3>2. QED
        BY <1>4, <3>1 DEF Enders
    <2>3. QED
      BY <1>3, <1>4, <2>1, <2>2 DEF EndFits
  <1>5. CASE ~(r \in pvpRooms /\ Over(r))
    <2>1. Cardinality(EndingTasks(r)) = 0 /\ Cardinality(EndingHandlers(r)) = 0
      BY <1>2, <1>3, <1>5 DEF EndFits, NobodyEnds
    <2>2. QED
      BY <1>5, <2>1 DEF Enders
  <1>6. QED
    BY <1>4, <1>5

(* No match is stranded and nobody is led to somebody else's: a registered room has
   its timer, its callback, its driver or the one who removes it, and the indexes
   name registered rooms of their players. *)
THEOREM RoomsStayHeld == Spec => []RoomsAreHeld
  <1>1. TypeOK /\ IInv /\ JInv => RoomsAreHeld
    <2> SUFFICES ASSUME TypeOK, IInv, JInv PROVE RoomsAreHeld
      OBVIOUS
    <2>1. ASSUME NEW r \in pvpRooms PROVE MovesOn(r)
      <3> r \in Room /\ MoverFits(r)
        BY DEF TypeOK, JInv
      <3>1. status[r] \in {"countdown", "question", "resolving", "finished", "abandoned"}
        BY DEF TypeOK, IInv, IndexFits
      <3>2. CASE status[r] = "question"
        BY <3>2 DEF MoverFits, MovesOn, IInv, TimersFit, TasksOf
      <3>3. CASE status[r] \in {"countdown", "resolving"}
        <4>1. \E t \in tasks : t.room = r /\ t.at \in {"countdown", "persist", "finish"}
          BY <3>3 DEF MoverFits
        <4>2. Drivers(r) # {}
          BY <4>1 DEF Drivers, TasksOf
        <4>3. QED
          BY <3>3, <4>2 DEF MovesOn
      <3>4. CASE Over(r)
        BY <3>4, EndersCounted DEF MovesOn
      <3>5. QED
        BY <3>1, <3>2, <3>3, <3>4 DEF Over
    <2>2. IndexesAgree
      <3>1. \A c \in Conn : connToPvpRoom[c] \in pvpRooms => connToPvpRoom[c] # NoRoom
        BY RoomAssumption DEF TypeOK
      <3>2. QED
        BY <3>1 DEF IndexesAgree, JInv, PlayersFit
    <2>3. QED
      BY <2>1, <2>2 DEF RoomsAreHeld, RegisteredRoomMovesOn
  <1>2. QED
    BY <1>1, MatchesAreHeld, PTL

(* The last round, forfeits, new challenges and absences race for the end of a
   match: one wins, and the players are told one result, whatever fails. *)
THEOREM OneEndsIt == Spec => [](EndedByOne /\ OneVerdict)
  <1>1. TypeOK /\ IInv /\ JInv => EndedByOne /\ OneVerdict
    <2> SUFFICES ASSUME TypeOK, IInv, JInv PROVE EndedByOne /\ OneVerdict
      OBVIOUS
    <2>1. EndedByOne
      BY EndersCounted DEF EndedByOne
    <2>2. OneVerdict
      BY DEF OneVerdict, JInv, VerdictFits
    <2>3. QED
      BY <2>1, <2>2
  <1>2. QED
    BY <1>1, MatchesAreHeld, PTL

(* The row keeps the result the players were told, unless a write fails or an
   administrator steps in. *)
THEOREM EndsAsTold == ~StoreFails /\ ~AdminAborts /\ Spec => []OneEnding
  <1>1. TypeOK /\ IInv /\ JInv /\ ~StoreFails /\ ~AdminAborts => OneEnding
    <2> SUFFICES ASSUME TypeOK, IInv, JInv, ~StoreFails, ~AdminAborts PROVE OneEnding
      OBVIOUS
    <2>1. EndedByOne
      BY EndersCounted DEF EndedByOne
    <2>2. OneVerdict /\ VerdictIsStored
      BY DEF OneVerdict, JInv, VerdictFits, RowFits
    <2>3. QED
      BY <2>1, <2>2 DEF OneEnding
  <1>2. CASE ~StoreFails /\ ~AdminAborts
    <2>1. TypeOK /\ IInv /\ JInv => OneEnding
      BY <1>1, <1>2
    <2>2. QED
      BY <2>1, MatchesAreHeld, PTL
  <1>3. QED
    BY <1>2
=============================================================================
