--------------------------- MODULE BotBattleProofs ---------------------------
(***************************************************************************)
(* Theorems about BotBattle, for any learners, tabs, matches and rounds,   *)
(* and with every fault switched on or off.  First type correctness; then  *)
(* IInv is shown to be inductive, and what the runs check of rounds and    *)
(* rows on small instances follows from it; then, on top of it, what is    *)
(* promised about the index of rooms: everybody works for the owner of a   *)
(* room, the indexes agree and no registered room is stranded; last, that  *)
(* the sweep before a match retires what a crash left, if it is written.   *)
(*                                                                         *)
(* A step of one goroutine changes one room and one thread of control.     *)
(* For each invariant there are lemmas that say that the rest of it is     *)
(* left alone by such steps, then one lemma for each action.               *)
(***************************************************************************)
EXTENDS BotBattleInv, TLAPS

USE DEF ClearTimer, ArmTimer, Unregister, ForgetActive, HandlerAt, HandlerReturns,
        CloserAt, Goroutine, TaskAt, TaskEnds, AlreadyFinished, AwaitsAnswer,
        indexVars, scoreVars, abuseVars, storeVars

Live == {"countdown", "question", "resolving"}

-----------------------------------------------------------------------------
(* Type correctness *)

(* The initial state has the declared types. *)
LEMMA InitTypeOK == Init => TypeOK
  BY DEF Init, TypeOK, Idle, Open, ZeroScore, Handler, Why, Closer, Score

(* Taking the learner's active room out of the indexes keeps the types. *)
LEMMA AbandonTypeOK ==
  ASSUME TypeOK, NEW c \in Conn, NEW why \in Why, AbandonUnregister(c, why)
  PROVE  TypeOK'
<1> DEFINE prev == userActiveRoom[UserOf[c]]
<1>1. prev \in Room \cup {NoRoom}
  BY ConnAssumption DEF TypeOK
<1>2. rooms' \subseteq Room /\ userActiveRoom' \in [User -> Room \cup {NoRoom}]
  BY DEF TypeOK, AbandonUnregister
<1>3. connToRoom' \in [Conn -> Room \cup {NoRoom}]
  BY DEF TypeOK, AbandonUnregister
<1>4. handler' \in [Conn -> Handler]
  BY <1>1, SMTT(60) DEF TypeOK, AbandonUnregister, AbandonReturns, Handler, Why
<1>5. QED
  BY <1>2, <1>3, <1>4 DEF TypeOK, AbandonUnregister

(* The steps of read loops keep the types. *)
LEMMA HandlerTypeOK ==
  ASSUME TypeOK, NEW c \in Conn, Receive(c) \/ HandlerStepOf(c)
  PROVE  TypeOK'
<1> USE DEF Handler, Why
<1>1. CASE ChallengeBot(c)
  BY <1>1, AbandonTypeOK DEF ChallengeBot
<1>2. CASE \E r \in Room : StrikeAnswer(c, r)
  BY <1>2 DEF TypeOK, StrikeAnswer
<1>3. CASE \E r \in Room, k \in Key, hit \in Outcome : AcceptAnswer(c, r, k, hit)
  <2> PICK r \in Room, k \in Key, hit \in Outcome : AcceptAnswer(c, r, k, hit)
    BY <1>3
  <2>1. hit \in BOOLEAN
    BY BoundAssumption
  <2>2. Goroutine(r, currentRound[r], c, "finish", hit, ZeroScore) \in Task
    BY <2>1 DEF TypeOK, Task, TaskStep, ZeroScore, Score
  <2>3. tasks' \subseteq Task
    BY <2>2 DEF TypeOK, AcceptAnswer
  <2>4. idempotency' \in [Room -> SUBSET (Nat \X Key)]
    <3>1. <<currentRound[r], k>> \in Nat \X Key
      BY DEF TypeOK
    <3>2. QED
      BY <3>1 DEF TypeOK, AcceptAnswer
  <2>5. QED
    BY <2>3, <2>4 DEF TypeOK, AcceptAnswer
<1>4. CASE AbandonForAbuse(c)
  BY <1>4, AbandonTypeOK DEF AbandonForAbuse
<1>5. CASE AbandonEnd(c)
  BY <1>5 DEF TypeOK, AbandonEnd, AbandonReturns
<1>6. CASE AbandonMark(c)
  <2>1. session' \in [Room -> {"absent", "in_progress", "completed", "abandoned"}]
    BY <1>6 DEF TypeOK, AbandonMark, MayFail, MarkAbandoned
  <2>2. handler' \in [Conn -> Handler]
    BY <1>6 DEF TypeOK, AbandonMark, AbandonReturns
  <2>3. QED
    BY <1>6, <2>1, <2>2 DEF TypeOK, AbandonMark
<1>7. CASE SweepInProgress(c)
  BY <1>7 DEF TypeOK, SweepInProgress, MayFail, SweepSessions
<1>8. CASE CreateBotBattle(c)
  BY <1>8 DEF TypeOK, CreateBotBattle
<1>9. CASE CreateRefused(c)
  BY <1>9 DEF TypeOK, CreateRefused
<1>10. CASE RegisterRoom(c)
  <2>1. handler[c].room \in Room
    BY <1>10 DEF TypeOK, RegisterRoom
  <2>2. Goroutine(handler[c].room, 0, c, "countdown", FALSE, ZeroScore) \in Task
    BY <2>1 DEF Task, TaskStep, ZeroScore, Score
  <2>3. /\ tasks' \subseteq Task
        /\ userActiveRoom' \in [User -> Room \cup {NoRoom}]
        /\ connToRoom' \in [Conn -> Room \cup {NoRoom}]
        /\ handler' \in [Conn -> Handler]
    BY <1>10, <2>1, <2>2, ConnAssumption DEF TypeOK, RegisterRoom
  <2>4. QED
    BY <1>10, <2>1, <2>3 DEF TypeOK, RegisterRoom
<1>11. QED
  BY <1>1, <1>2, <1>3, <1>4, <1>5, <1>6, <1>7, <1>8, <1>9, <1>10
     DEF Receive, HandlerStepOf

(* The steps of teardowns keep the types. *)
LEMMA CloserTypeOK ==
  ASSUME TypeOK, NEW c \in Conn, DisconnectUnregister(c) \/ CloserStepOf(c)
  PROVE  TypeOK'
<1>1. CASE DisconnectUnregister(c)
  <2>1. closer' \in [Conn -> Closer]
    <3>1. CASE connToRoom[c] \in rooms
      BY <1>1, <3>1 DEF TypeOK, DisconnectUnregister, Closer
    <3>2. CASE connToRoom[c] \notin rooms
      BY <1>1, <3>2 DEF TypeOK, DisconnectUnregister, Closer
    <3>3. QED
      BY <3>1, <3>2
  <2>2. userActiveRoom' \in [User -> Room \cup {NoRoom}]
    BY <1>1 DEF TypeOK, DisconnectUnregister
  <2>3. QED
    BY <1>1, <2>1, <2>2 DEF TypeOK, DisconnectUnregister
<1>2. CASE DisconnectEnd(c)
  BY <1>2 DEF TypeOK, DisconnectEnd, Closer
<1>3. CASE DisconnectMark(c)
  BY <1>3 DEF TypeOK, DisconnectMark, MayFail, MarkAbandoned, Closer
<1>4. CASE SocketCloses(c)
  BY <1>4 DEF TypeOK, SocketCloses, Closer
<1>5. QED
  BY <1>1, <1>2, <1>3, <1>4 DEF CloserStepOf

(* The steps of the goroutines of a room keep the types. *)
LEMMA TaskTypeOK ==
  ASSUME TypeOK, NEW t \in tasks, TaskStepOf(t)
  PROVE  TypeOK'
<1> USE DEF Task, TaskStep
<1>1. CASE Countdown(t)
  BY <1>1 DEF TypeOK, Countdown
<1>2. CASE BeginRound(t)
  BY <1>2 DEF TypeOK, BeginRound, Timer
<1>3. CASE SettleTimeout(t)
  BY <1>3 DEF TypeOK, SettleTimeout
<1>4. CASE FinishStart(t)
  BY <1>4 DEF TypeOK, FinishStart, ZeroScore, Score
<1>5. CASE \E botHit \in Outcome : ScoreRound(t, botHit)
  <2> PICK botHit \in Outcome : ScoreRound(t, botHit)
    BY <1>5
  <2> DEFINE user == userScore[t.room] + Bit(t.hit)
             opponent == opponentScore[t.room] + Bit(botHit)
             next == Goroutine(t.room, t.round, t.conn, "persist", t.hit,
                               [user |-> user, opponent |-> opponent])
  <2>1. user \in Nat /\ opponent \in Nat /\ t.round + 1 \in Nat
    BY DEF TypeOK, Bit
  <2>2. next \in Task
    BY <2>1 DEF TypeOK, Score
  <2> HIDE DEF user, opponent, next
  <2>3. /\ tasks' \subseteq Task
        /\ userScore' \in [Room -> Nat]
        /\ opponentScore' \in [Room -> Nat]
        /\ currentRound' \in [Room -> Nat]
    <3>1. CASE AlreadyFinished(t.room)
      BY <3>1 DEF TypeOK, ScoreRound
    <3>2. CASE ~AlreadyFinished(t.room)
      <4>1. /\ userScore' = [userScore EXCEPT ![t.room] = user]
            /\ opponentScore' = [opponentScore EXCEPT ![t.room] = opponent]
            /\ currentRound' = [currentRound EXCEPT ![t.room] = t.round + 1]
            /\ tasks' = (tasks \ {t}) \cup {next}
        BY <3>2 DEF ScoreRound, user, opponent, next
      <4>2. QED
        BY <2>1, <2>2, <4>1 DEF TypeOK
    <3>3. QED
      BY <3>1, <3>2
  <2>4. /\ status' \in [Room -> {"none", "countdown", "question", "resolving", "finished"}]
        /\ timers' \subseteq Timer
    BY DEF TypeOK, ScoreRound
  <2>5. QED
    BY <2>3, <2>4 DEF TypeOK, ScoreRound
<1>6. CASE PersistRound(t)
  BY <1>6 DEF TypeOK, PersistRound, MayFail, LastRound
<1>7. CASE CompleteMatch(t)
  BY <1>7 DEF TypeOK, CompleteMatch, MayFail, MarkCompleted
<1>8. CASE FinishCleanup(t)
  BY <1>8, RoomAssumption DEF TypeOK, FinishCleanup
<1>9. QED
  BY <1>1, <1>2, <1>3, <1>4, <1>5, <1>6, <1>7, <1>8 DEF TaskStepOf

(* A round timer that fires starts a well-formed callback. *)
LEMMA TimerTypeOK ==
  ASSUME TypeOK, NEW x \in timers, TimerFires(x)
  PROVE  TypeOK'
<1> DEFINE callback == Goroutine(x.room, x.round, x.conn, "timeout", FALSE, ZeroScore)
<1>1. x.room \in Room /\ x.round \in Nat /\ x.conn \in Conn
  BY DEF TypeOK, Timer
<1>2. callback \in Task
  BY <1>1 DEF Task, TaskStep, ZeroScore, Score
<1>3. timers' \subseteq Timer /\ tasks' \subseteq tasks \cup {callback}
  BY DEF TypeOK, TimerFires
<1>4. QED
  BY <1>2, <1>3 DEF TypeOK, TimerFires

(* Every step keeps them. *)
LEMMA NextTypeOK == TypeOK /\ [Next]_vars => TypeOK'
<1> SUFFICES ASSUME TypeOK, [Next]_vars PROVE TypeOK'
  OBVIOUS
<1>1. CASE \E c \in Conn : Receive(c) \/ HandlerStepOf(c)
  BY <1>1, HandlerTypeOK
<1>2. CASE \E c \in Conn : DisconnectUnregister(c) \/ CloserStepOf(c)
  BY <1>2, CloserTypeOK
<1>3. CASE \E x \in timers : TimerFires(x)
  BY <1>3, TimerTypeOK
<1>4. CASE \E t \in tasks : TaskStepOf(t)
  BY <1>4, TaskTypeOK
<1>5. CASE \E r \in Room : AdminAbort(r)
  BY <1>5 DEF TypeOK, AdminAbort
<1>6. CASE Crash
  BY <1>6 DEF TypeOK, Crash, Idle, Open, Handler, Why, Closer
<1>7. CASE UNCHANGED vars
  BY <1>7 DEF TypeOK, vars
<1>8. QED
  BY <1>1, <1>2, <1>3, <1>4, <1>5, <1>6, <1>7 DEF Next

(* Every reachable state has the declared types. *)
THEOREM TypeCorrect == Spec => []TypeOK
<1>1. Init => TypeOK
  BY InitTypeOK
<1>2. TypeOK /\ [Next]_vars => TypeOK'
  BY NextTypeOK
<1>3. QED
  BY <1>1, <1>2, PTL DEF Spec

-----------------------------------------------------------------------------
(* What a step leaves alone *)

(* The fields of a goroutine have their types. *)
LEMMA TaskFields ==
  ASSUME TypeOK, NEW t \in tasks
  PROVE  /\ t.room \in Room
         /\ t.round \in Nat
         /\ t.conn \in Conn
         /\ t.at \in TaskStep
         /\ t.hit \in BOOLEAN
         /\ t.result \in Score
  BY DEF TypeOK, Task

(* A step that writes neither scores nor rows keeps what is known of them, if
   rooms only end or go from one live phase to another. *)
LEMMA RowsKept ==
  ASSUME TypeOK, TypeOK', IInv,
         UNCHANGED <<session, owner, scoreVars, storedScore>>,
         \A r \in Room : \/ status'[r] = status[r]
                         \/ status[r] # "none" /\ status'[r] = "finished"
                         \/ status[r] \in Live /\ status'[r] \in Live
  PROVE  RowsHaveOwners' /\ RoundsLeft' /\ CompletedWasPlayedOut'
  <1>1. RowsHaveOwners'
    BY DEF TypeOK, IInv, RowsHaveOwners, Live
  <1>2. RoundsLeft'
    BY DEF IInv, RoundsLeft, Live
  <1>3. CompletedWasPlayedOut'
    BY DEF IInv, CompletedWasPlayedOut
  <1>4. QED
    BY <1>1, <1>2, <1>3

(* Goroutines that only end, in rooms that only end, keep their phases. *)
LEMMA TasksKept ==
  ASSUME TypeOK, TypeOK', IInv, tasks' \subseteq tasks, UNCHANGED scoreVars,
         \A r \in Room : status'[r] = status[r] \/ status'[r] = "finished"
  PROVE  (\A t \in tasks' : TaskPhase(t)') /\ OneDriver'
  <1>1. ASSUME NEW t \in tasks PROVE TaskPhase(t)'
    BY <1>1, TaskFields DEF IInv, TaskPhase, ShownScore, LastRound
  <1>2. OneDriver'
    BY TaskFields DEF IInv, OneDriver, Drivers, TasksOf
  <1>3. QED
    BY <1>1, <1>2

(* A handler or teardown that does not move keeps what it may assume, if no
   room is registered anew and only live rooms change. *)
LEMMA ConnsKept ==
  ASSUME TypeOK, TypeOK', IInv, rooms' \subseteq rooms, UNCHANGED owner,
         \A r \in Room :
           \/ status'[r] = status[r] /\ currentRound'[r] = currentRound[r]
           \/ status[r] \in Live /\ status'[r] # "none"
  PROVE  /\ \A d \in Conn : handler'[d] = handler[d] => HandlerPhase(d)'
         /\ \A d \in Conn : closer'[d] = closer[d] => CloserPhase(d)'
  <1>1. ASSUME NEW d \in Conn, handler'[d] = handler[d] PROVE HandlerPhase(d)'
    <2>1. handler[d] \in Handler
      BY DEF TypeOK
    <2>2. HandlerPhase(d)
      BY DEF IInv
    <2>3. QED
      BY <1>1, <2>1, <2>2 DEF Handler, HandlerPhase, EndedEarly, Live
  <1>2. ASSUME NEW d \in Conn, closer'[d] = closer[d] PROVE CloserPhase(d)'
    <2>1. closer[d] \in Closer
      BY DEF TypeOK
    <2>2. CloserPhase(d)
      BY DEF IInv
    <2>3. QED
      BY <1>2, <2>1, <2>2 DEF Closer, CloserPhase, EndedEarly, Live
  <1>3. QED
    BY <1>1, <1>2

(* Indexes that only shrink and goroutines of rooms in memory stay in memory. *)
LEMMA MemoryKept ==
  ASSUME TypeOK, TypeOK', IInv, rooms' \subseteq rooms, UNCHANGED owner,
         \A r \in Room : status'[r] = "none" => status[r] = "none",
         \A d \in Conn : connToRoom'[d] \in {connToRoom[d], NoRoom},
         \A t \in tasks' : t \in tasks \/ status[t.room] # "none"
  PROVE  InMemory'
  BY DEF TypeOK, IInv, InMemory, Task

(* The driver of a room is alone in it: what it does to the room concerns no
   other goroutine but callbacks that assume nothing. *)
LEMMA OthersUndisturbed ==
  ASSUME TypeOK, TypeOK', IInv, NEW t \in tasks, t.at # "timeout",
         \A r \in Room : r # t.room =>
           /\ status'[r] = status[r]
           /\ currentRound'[r] = currentRound[r]
           /\ userScore'[r] = userScore[r]
           /\ opponentScore'[r] = opponentScore[r]
  PROVE  \A s \in tasks \ {t} : TaskPhase(s)'
  <1> TAKE s \in tasks \ {t}
  <1>1. CASE s.room = t.room
    <2>1. s.at = "timeout"
      BY <1>1, TaskFields DEF IInv, OneDriver, Drivers, TasksOf
    <2>2. QED
      BY <2>1 DEF TaskPhase
  <1>2. CASE s.room # t.room
    BY <1>2, TaskFields DEF IInv, TaskPhase, ShownScore, LastRound
  <1>3. QED
    BY <1>1, <1>2

(* A driver that moves on is still the only one. *)
LEMMA DriverMoves ==
  ASSUME TypeOK, TypeOK', IInv,
         NEW t \in tasks, t.at # "timeout",
         NEW s, s.room = t.room, tasks' = (tasks \ {t}) \cup {s},
         \A r \in Room : status'[r] = "question" => status[r] = "question"
  PROVE  OneDriver'
  BY DEF TypeOK, Task, IInv, OneDriver, Drivers, TasksOf

(* A driver may start in a room that has none and waits for no answer. *)
LEMMA DriverStarts ==
  ASSUME TypeOK, TypeOK', IInv, NEW s \in Task,
         tasks' \subseteq tasks \cup {s}, 
         \A t \in tasks : t.room = s.room => t.at = "timeout" \/ t \notin tasks',
         status'[s.room] # "question",
         \A r \in Room : status'[r] = "question" => status[r] = "question"
  PROVE  OneDriver'
  BY DEF TypeOK, Task, IInv, OneDriver, Drivers, TasksOf

-----------------------------------------------------------------------------
(* One lemma per action *)

(* The active room of the learner leaves every index. *)
LEMMA AbandonUnregisterInv ==
  ASSUME TypeOK, TypeOK', IInv, NEW c \in Conn, NEW why,
         AbandonUnregister(c, why)
  PROVE  IInv'
  <1>1. RowsHaveOwners' /\ RoundsLeft' /\ CompletedWasPlayedOut'
    BY RowsKept DEF AbandonUnregister
  <1>2. InMemory'
    BY MemoryKept DEF AbandonUnregister
  <1>3. (\A x \in tasks' : TaskPhase(x)') /\ OneDriver'
    BY TasksKept DEF AbandonUnregister
  <1>4. \A d \in Conn : HandlerPhase(d)'
    <2> TAKE d \in Conn
    <2>1. CASE d = c
      BY <2>1
         DEF AbandonUnregister, AbandonReturns, IInv, InMemory, TypeOK, HandlerPhase
    <2>2. CASE d # c
      BY <2>2, ConnsKept DEF AbandonUnregister, AbandonReturns, TypeOK
    <2>3. QED
      BY <2>1, <2>2
  <1>5. \A d \in Conn : CloserPhase(d)'
    BY ConnsKept DEF AbandonUnregister
  <1>6. QED
    BY <1>1, <1>2, <1>3, <1>4, <1>5 DEF IInv

(* The room that left the index ends. *)
LEMMA AbandonEndInv ==
  ASSUME TypeOK, TypeOK', IInv, NEW c \in Conn,
         AbandonEnd(c)
  PROVE  IInv'
  <1>1. /\ handler[c].room \in Room
        /\ status[handler[c].room] # "none"
        /\ handler[c].room \notin rooms
    BY DEF AbandonEnd, TypeOK, Handler, IInv, HandlerPhase
  <1>2. RowsHaveOwners' /\ RoundsLeft' /\ CompletedWasPlayedOut'
    BY <1>1, RowsKept DEF AbandonEnd, TypeOK
  <1>3. InMemory'
    BY <1>1, MemoryKept DEF AbandonEnd, TypeOK
  <1>4. (\A x \in tasks' : TaskPhase(x)') /\ OneDriver'
    BY <1>1, TasksKept DEF AbandonEnd, TypeOK
  <1>5. \A d \in Conn : HandlerPhase(d)'
    <2> TAKE d \in Conn
    <2>1. CASE d = c
      BY <2>1, <1>1
         DEF AbandonEnd, AbandonReturns, IInv, RoundsLeft, EndedEarly, TypeOK,
             HandlerPhase
    <2>2. CASE d # c
      BY <1>1, <2>2, ConnsKept DEF AbandonEnd, AbandonReturns, TypeOK, Live
    <2>3. QED
      BY <2>1, <2>2
  <1>6. \A d \in Conn : CloserPhase(d)'
    BY <1>1, ConnsKept DEF AbandonEnd, TypeOK, Live
  <1>7. QED
    BY <1>1, <1>2, <1>3, <1>4, <1>5, <1>6 DEF IInv

(* Its row is marked abandoned. *)
LEMMA AbandonMarkInv ==
  ASSUME TypeOK, TypeOK', IInv, NEW c \in Conn,
         AbandonMark(c)
  PROVE  IInv'
  <1>1. RowsHaveOwners' /\ RoundsLeft' /\ CompletedWasPlayedOut'
    BY DEF AbandonMark, MayFail, MarkAbandoned, TypeOK, IInv, RowsHaveOwners,
           RoundsLeft, CompletedWasPlayedOut
  <1>2. InMemory'
    BY MemoryKept DEF AbandonMark
  <1>3. (\A x \in tasks' : TaskPhase(x)') /\ OneDriver'
    BY TasksKept DEF AbandonMark
  <1>4. \A d \in Conn : HandlerPhase(d)'
    <2> TAKE d \in Conn
    <2>1. CASE d = c
      BY <2>1 DEF AbandonMark, AbandonReturns, TypeOK, HandlerPhase
    <2>2. CASE d # c
      BY <2>2, ConnsKept DEF AbandonMark, AbandonReturns, TypeOK
    <2>3. QED
      BY <2>1, <2>2
  <1>5. \A d \in Conn : CloserPhase(d)'
    BY ConnsKept DEF AbandonMark
  <1>6. QED
    BY <1>1, <1>2, <1>3, <1>4, <1>5 DEF IInv

(* The learner's rows in progress are marked abandoned. *)
LEMMA SweepInProgressInv ==
  ASSUME TypeOK, TypeOK', IInv, NEW c \in Conn,
         SweepInProgress(c)
  PROVE  IInv'
  <1>1. RowsHaveOwners' /\ RoundsLeft' /\ CompletedWasPlayedOut'
    BY DEF SweepInProgress, MayFail, SweepSessions, TypeOK, IInv, RowsHaveOwners,
           RoundsLeft, CompletedWasPlayedOut
  <1>2. InMemory'
    BY MemoryKept DEF SweepInProgress
  <1>3. (\A x \in tasks' : TaskPhase(x)') /\ OneDriver'
    BY TasksKept DEF SweepInProgress
  <1>4. \A d \in Conn : HandlerPhase(d)'
    <2> TAKE d \in Conn
    <2>1. CASE d = c
      BY <2>1 DEF SweepInProgress, TypeOK, HandlerPhase
    <2>2. CASE d # c
      BY <2>2, ConnsKept DEF SweepInProgress, TypeOK
    <2>3. QED
      BY <2>1, <2>2
  <1>5. \A d \in Conn : CloserPhase(d)'
    BY ConnsKept DEF SweepInProgress
  <1>6. QED
    BY <1>1, <1>2, <1>3, <1>4, <1>5 DEF IInv

(* No match could be created. *)
LEMMA CreateRefusedInv ==
  ASSUME TypeOK, TypeOK', IInv, NEW c \in Conn,
         CreateRefused(c)
  PROVE  IInv'
  <1>1. RowsHaveOwners' /\ RoundsLeft' /\ CompletedWasPlayedOut'
    BY RowsKept DEF CreateRefused
  <1>2. InMemory'
    BY MemoryKept DEF CreateRefused
  <1>3. (\A x \in tasks' : TaskPhase(x)') /\ OneDriver'
    BY TasksKept DEF CreateRefused
  <1>4. \A d \in Conn : HandlerPhase(d)'
    <2> TAKE d \in Conn
    <2>1. CASE d = c
      BY <2>1 DEF CreateRefused, TypeOK, HandlerPhase
    <2>2. CASE d # c
      BY <2>2, ConnsKept DEF CreateRefused, TypeOK
    <2>3. QED
      BY <2>1, <2>2
  <1>5. \A d \in Conn : CloserPhase(d)'
    BY ConnsKept DEF CreateRefused
  <1>6. QED
    BY <1>1, <1>2, <1>3, <1>4, <1>5 DEF IInv

(* A fresh match gets a row and an owner: nobody knew of it before. *)
LEMMA CreateBotBattleInv ==
  ASSUME TypeOK, TypeOK', IInv, NEW c \in Conn,
         CreateBotBattle(c)
  PROVE  IInv'
  <1>1. PICK r \in Room :
        /\ session[r] = "absent"
        /\ session' = [session EXCEPT ![r] = "in_progress"]
        /\ owner' = [owner EXCEPT ![r] = c]
        /\ HandlerAt(c, "register", r, handler[c].why)
    BY DEF CreateBotBattle
  <1>2. owner[r] = NoConn /\ status[r] = "none" /\ currentRound[r] = 0
    BY <1>1 DEF IInv, RowsHaveOwners
  <1>3. RowsHaveOwners' /\ RoundsLeft' /\ CompletedWasPlayedOut'
    BY <1>1, <1>2, ConnAssumption DEF CreateBotBattle, TypeOK, IInv, RowsHaveOwners,
           RoundsLeft, CompletedWasPlayedOut
  <1>4. InMemory'
    BY <1>1, <1>2 DEF CreateBotBattle, TypeOK, Task, IInv, InMemory
  <1>5. (\A x \in tasks' : TaskPhase(x)') /\ OneDriver'
    BY TasksKept DEF CreateBotBattle
  <1>6. \A d \in Conn : HandlerPhase(d)'
    <2> TAKE d \in Conn
    <2>1. CASE d = c
      BY <1>1, <1>2, <2>1 DEF CreateBotBattle, TypeOK, HandlerPhase
    <2>2. CASE d # c
      <3>1. handler'[d] = handler[d] /\ HandlerPhase(d) /\ handler[d] \in Handler
        BY <1>1, <2>2 DEF TypeOK, IInv
      <3>2. QED
        BY <1>1, <1>2, <3>1, ConnAssumption
           DEF CreateBotBattle, TypeOK, Handler, HandlerPhase, EndedEarly
    <2>3. QED
      BY <2>1, <2>2
  <1>7. \A d \in Conn : CloserPhase(d)'
    BY <1>1 DEF CreateBotBattle, TypeOK, Closer, IInv, CloserPhase, EndedEarly
  <1>8. QED
    BY <1>1, <1>2, <1>3, <1>4, <1>5, <1>6, <1>7 DEF IInv

(* The match its handler alone knows becomes a room with one driver. *)
LEMMA RegisterRoomInv ==
  ASSUME TypeOK, TypeOK', IInv, NEW c \in Conn,
         RegisterRoom(c)
  PROVE  IInv'
  <1>1. /\ handler[c].room \in Room
        /\ status[handler[c].room] = "none"
        /\ currentRound[handler[c].room] = 0
        /\ owner[handler[c].room] = c
    BY DEF RegisterRoom, TypeOK, Handler, IInv, HandlerPhase
  <1>2. \A t \in tasks : t.room # handler[c].room
    BY <1>1 DEF IInv, InMemory
  <1>3. RowsHaveOwners' /\ RoundsLeft' /\ CompletedWasPlayedOut'
    BY <1>1, ConnAssumption, BoundAssumption
       DEF RegisterRoom, TypeOK, IInv, RowsHaveOwners, RoundsLeft,
           CompletedWasPlayedOut
  <1>4. InMemory'
    BY <1>1 DEF RegisterRoom, TypeOK, IInv, InMemory, Task
  <1>5. (\A x \in tasks' : TaskPhase(x)') /\ OneDriver'
    <2>1. PICK s \in Task : s = Goroutine(handler[c].room, 0, c, "countdown", FALSE, ZeroScore)
      BY <1>1 DEF Task, TaskStep, ZeroScore, Score
    <2>2. TaskPhase(s)'
      BY <1>1, <2>1 DEF RegisterRoom, TypeOK, TaskPhase
    <2>3. ASSUME NEW t \in tasks PROVE TaskPhase(t)'
      BY <1>2, <2>3, TaskFields
         DEF RegisterRoom, TypeOK, IInv, TaskPhase, ShownScore, LastRound
    <2>4. OneDriver'
      <3>1. s.room = handler[c].room /\ tasks' \subseteq tasks \cup {s}
        BY <2>1 DEF RegisterRoom
      <3>2. \A r \in Room : status'[r] = IF r = s.room THEN "countdown" ELSE status[r]
        BY <1>1, <3>1 DEF RegisterRoom, TypeOK
      <3>3. QED
        BY <1>1, <1>2, <2>1, <3>1, <3>2, DriverStarts
    <2>5. QED
      BY <2>1, <2>2, <2>3, <2>4 DEF RegisterRoom
  <1>6. \A d \in Conn : HandlerPhase(d)'
    <2> TAKE d \in Conn
    <2>1. CASE d = c
      BY <2>1 DEF RegisterRoom, TypeOK, HandlerPhase
    <2>2. CASE d # c
      <3>1. handler'[d] = handler[d] /\ HandlerPhase(d) /\ handler[d] \in Handler
        BY <2>2 DEF RegisterRoom, TypeOK, IInv
      <3>2. QED
        BY <1>1, <2>2, <3>1
           DEF RegisterRoom, TypeOK, Handler, HandlerPhase, EndedEarly
    <2>3. QED
      BY <2>1, <2>2
  <1>7. \A d \in Conn : CloserPhase(d)'
    BY <1>1 DEF RegisterRoom, TypeOK, Closer, IInv, CloserPhase, EndedEarly
  <1>8. QED
    BY <1>1, <1>2, <1>3, <1>4, <1>5, <1>6, <1>7 DEF IInv

(* A strike changes a counter and perhaps where the handler is. *)
LEMMA StrikeAnswerInv ==
  ASSUME TypeOK, TypeOK', IInv, NEW c \in Conn, NEW r \in Room,
         StrikeAnswer(c, r)
  PROVE  IInv'
  <1>1. RowsHaveOwners' /\ RoundsLeft' /\ CompletedWasPlayedOut'
    BY RowsKept DEF StrikeAnswer
  <1>2. InMemory'
    BY MemoryKept DEF StrikeAnswer
  <1>3. (\A x \in tasks' : TaskPhase(x)') /\ OneDriver'
    BY TasksKept DEF StrikeAnswer
  <1>4. \A d \in Conn : HandlerPhase(d)'
    <2> TAKE d \in Conn
    <2>1. CASE handler'[d] = handler[d]
      BY <2>1, ConnsKept DEF StrikeAnswer
    <2>2. CASE handler'[d] # handler[d]
      BY <2>2 DEF StrikeAnswer, TypeOK, HandlerPhase
    <2>3. QED
      BY <2>1, <2>2
  <1>5. \A d \in Conn : CloserPhase(d)'
    BY ConnsKept DEF StrikeAnswer
  <1>6. QED
    BY <1>1, <1>2, <1>3, <1>4, <1>5 DEF IInv

(* An accepted answer starts the only driver of a room that waits for answers. *)
LEMMA AcceptAnswerInv ==
  ASSUME TypeOK, TypeOK', IInv, NEW c \in Conn, NEW r \in Room, NEW k \in Key, NEW hit \in Outcome,
         AcceptAnswer(c, r, k, hit)
  PROVE  IInv'
  <1>1. status[r] = "question" /\ currentRound[r] \in Nat
    BY DEF AcceptAnswer, TypeOK
  <1>2. \A t \in tasks : t.room = r => t.at = "timeout"
    BY <1>1, TaskFields DEF IInv, OneDriver, Drivers, TasksOf
  <1>3. RowsHaveOwners' /\ RoundsLeft' /\ CompletedWasPlayedOut'
    BY <1>1, RowsKept DEF AcceptAnswer, TypeOK, Live
  <1>4. InMemory'
    BY <1>1, MemoryKept DEF AcceptAnswer, TypeOK
  <1>5. (\A x \in tasks' : TaskPhase(x)') /\ OneDriver'
    <2> DEFINE s == Goroutine(r, currentRound[r], c, "finish", hit, ZeroScore)
    <2>1. s \in Task
      BY <1>1, BoundAssumption DEF Task, TaskStep, ZeroScore, Score
    <2>2. TaskPhase(s)'
      BY <1>1 DEF AcceptAnswer, TypeOK, TaskPhase
    <2>3. ASSUME NEW t \in tasks PROVE TaskPhase(t)'
      <3>1. CASE t.room = r
        BY <1>2, <3>1 DEF TaskPhase
      <3>2. CASE t.room # r
        BY <3>2, TaskFields
           DEF AcceptAnswer, TypeOK, IInv, TaskPhase, ShownScore, LastRound
      <3>3. QED
        BY <3>1, <3>2
    <2>4. OneDriver'
      BY <1>2, <2>1, DriverStarts DEF AcceptAnswer, TypeOK
    <2>5. QED
      BY <2>2, <2>3, <2>4 DEF AcceptAnswer
  <1>6. \A d \in Conn : HandlerPhase(d)' /\ CloserPhase(d)'
    BY <1>1, ConnsKept DEF AcceptAnswer, TypeOK, Live
  <1>7. QED
    BY <1>1, <1>2, <1>3, <1>4, <1>5, <1>6 DEF IInv

(* The countdown ends or hands over to the round. *)
LEMMA CountdownInv ==
  ASSUME TypeOK, TypeOK', IInv, NEW t \in tasks,
         Countdown(t)
  PROVE  IInv'
  <1>1. RowsHaveOwners' /\ RoundsLeft' /\ CompletedWasPlayedOut'
    BY RowsKept DEF Countdown
  <1>2. InMemory'
    BY MemoryKept, TaskFields DEF Countdown, IInv, InMemory
  <1>3. (\A x \in tasks' : TaskPhase(x)') /\ OneDriver'
    <2>1. CASE t.room \in rooms
      <3>1. PICK s : s = Goroutine(t.room, t.round, t.conn, "begin", t.hit, t.result)
        OBVIOUS
      <3>2. tasks' = (tasks \ {t}) \cup {s}
        BY <2>1, <3>1 DEF Countdown
      <3>3. TaskPhase(s)'
        BY <2>1, <3>1, TaskFields
           DEF Countdown, TypeOK, IInv, TaskPhase, ShownScore, LastRound
      <3>4. \A x \in tasks \ {t} : TaskPhase(x)'
        BY <2>1, OthersUndisturbed DEF Countdown, TypeOK
      <3>5. OneDriver'
        BY <2>1, <3>1, <3>2, TaskFields, DriverMoves DEF Countdown, TypeOK
      <3>6. QED
        BY <3>2, <3>3, <3>4, <3>5
    <2>2. CASE t.room \notin rooms
      BY <2>2, TasksKept DEF Countdown
    <2>3. QED
      BY <2>1, <2>2
  <1>4. \A d \in Conn : HandlerPhase(d)' /\ CloserPhase(d)'
    BY ConnsKept DEF Countdown
  <1>5. QED
    BY <1>1, <1>2, <1>3, <1>4 DEF IInv

(* The driver shows a question, arms its timer and ends. *)
LEMMA BeginRoundInv ==
  ASSUME TypeOK, TypeOK', IInv, NEW t \in tasks,
         BeginRound(t)
  PROVE  IInv'
  <1>1. status[t.room] \in {"countdown", "finished"}
    BY TaskFields DEF BeginRound, IInv, TaskPhase
  <1>2. RowsHaveOwners' /\ RoundsLeft' /\ CompletedWasPlayedOut'
    BY <1>1, RowsKept DEF BeginRound, TypeOK, Live
  <1>3. InMemory'
    BY <1>1, MemoryKept DEF BeginRound, TypeOK
  <1>4. \A s \in tasks' : TaskPhase(s)'
    BY OthersUndisturbed DEF BeginRound, TypeOK
  <1>5. OneDriver'
    <2>1. \A s \in tasks' : s.room = t.room => s.at = "timeout"
      BY TaskFields DEF BeginRound, IInv, OneDriver, Drivers, TasksOf
    <2>2. \A r \in Room : r # t.room => status'[r] = status[r]
      BY DEF BeginRound, TypeOK
    <2>3. tasks' \subseteq tasks
      BY DEF BeginRound
    <2>4. QED
      BY <2>1, <2>2, <2>3, TaskFields DEF IInv, OneDriver, Drivers, TasksOf
  <1>6. \A d \in Conn : HandlerPhase(d)' /\ CloserPhase(d)'
    BY <1>1, ConnsKept DEF BeginRound, TypeOK, Live
  <1>7. QED
    BY <1>1, <1>2, <1>3, <1>4, <1>5, <1>6 DEF IInv

(* A callback starts, and is no driver yet. *)
LEMMA TimerFiresInv ==
  ASSUME TypeOK, TypeOK', IInv, NEW x \in timers,
         TimerFires(x)
  PROVE  IInv'
  <1>1. x.room \in Room
    BY DEF TypeOK, Timer
  <1>2. RowsHaveOwners' /\ RoundsLeft' /\ CompletedWasPlayedOut'
    BY RowsKept DEF TimerFires
  <1>3. InMemory'
    BY <1>1, MemoryKept DEF TimerFires, IInv, InMemory
  <1>4. \A s \in tasks' : s \in tasks \/ s.at = "timeout"
    BY DEF TimerFires
  <1>5. \A s \in tasks' : TaskPhase(s)'
    BY <1>4, TaskFields DEF TimerFires, IInv, TaskPhase, ShownScore, LastRound
  <1>6. OneDriver'
    BY <1>4 DEF TimerFires, IInv, OneDriver, Drivers, TasksOf
  <1>7. \A d \in Conn : HandlerPhase(d)' /\ CloserPhase(d)'
    BY ConnsKept DEF TimerFires
  <1>8. QED
    BY <1>1, <1>2, <1>3, <1>4, <1>5, <1>6, <1>7 DEF IInv

(* A callback in time becomes the only driver of a room without one. *)
LEMMA SettleTimeoutInv ==
  ASSUME TypeOK, TypeOK', IInv, NEW t \in tasks,
         SettleTimeout(t)
  PROVE  IInv'
  <1>1. RowsHaveOwners' /\ RoundsLeft' /\ CompletedWasPlayedOut'
    BY TaskFields, RowsKept DEF SettleTimeout, TooLate, TypeOK, Live
  <1>2. InMemory'
    BY TaskFields, MemoryKept DEF SettleTimeout, TooLate, TypeOK, IInv, InMemory
  <1>3. (\A x \in tasks' : TaskPhase(x)') /\ OneDriver'
    <2>1. CASE TooLate(t)
      BY <2>1, TasksKept DEF SettleTimeout
    <2>2. CASE ~TooLate(t)
      <3>1. status[t.room] = "question" /\ currentRound[t.room] = t.round
        BY <2>2 DEF TooLate
      <3>2. \A x \in tasks : x.room = t.room => x.at = "timeout"
        BY <3>1, TaskFields DEF IInv, OneDriver, Drivers, TasksOf
      <3>3. PICK s \in Task : s = Goroutine(t.room, t.round, t.conn, "finish", t.hit, t.result)
        BY TaskFields DEF Task, TaskStep
      <3>4. tasks' = (tasks \ {t}) \cup {s} /\ status' = [status EXCEPT ![t.room] = "resolving"]
        BY <2>2, <3>3 DEF SettleTimeout
      <3>5. TaskPhase(s)'
        BY <3>1, <3>3, <3>4, TaskFields DEF SettleTimeout, TypeOK, TaskPhase
      <3>6. ASSUME NEW x \in tasks PROVE TaskPhase(x)'
        <4>1. CASE x.room = t.room
          BY <3>2, <4>1 DEF TaskPhase
        <4>2. CASE x.room # t.room
          BY <3>4, <4>2, TaskFields
             DEF SettleTimeout, TypeOK, IInv, TaskPhase, ShownScore, LastRound
        <4>3. QED
          BY <4>1, <4>2
      <3>7. OneDriver'
        <4>1. \A r \in Room : status'[r] = IF r = s.room THEN "resolving" ELSE status[r]
          BY <3>3, <3>4 DEF TypeOK
        <4>2. tasks' \subseteq tasks \cup {s} /\ s.room = t.room
          BY <3>3, <3>4
        <4>3. QED
          BY <3>2, <3>3, <4>1, <4>2, TaskFields, DriverStarts
      <3>8. QED
        BY <3>4, <3>5, <3>6, <3>7
    <2>3. QED
      BY <2>1, <2>2
  <1>4. \A d \in Conn : HandlerPhase(d)' /\ CloserPhase(d)'
    BY TaskFields, ConnsKept DEF SettleTimeout, TooLate, TypeOK, Live
  <1>5. QED
    BY <1>1, <1>2, <1>3, <1>4 DEF IInv

(* The driver reads the round it settles, or ends. *)
LEMMA FinishStartInv ==
  ASSUME TypeOK, TypeOK', IInv, NEW t \in tasks,
         FinishStart(t)
  PROVE  IInv'
  <1>1. RowsHaveOwners' /\ RoundsLeft' /\ CompletedWasPlayedOut'
    BY RowsKept DEF FinishStart
  <1>2. InMemory'
    BY MemoryKept, TaskFields DEF FinishStart, IInv, InMemory
  <1>3. (\A x \in tasks' : TaskPhase(x)') /\ OneDriver'
    <2>1. CASE status[t.room] = "resolving" /\ t.room \in rooms
      <3>1. PICK s : s = Goroutine(t.room, currentRound[t.room], t.conn, "score", t.hit, ZeroScore)
        OBVIOUS
      <3>2. tasks' = (tasks \ {t}) \cup {s}
        BY <2>1, <3>1 DEF FinishStart
      <3>3. TaskPhase(s)'
        BY <2>1, <3>1, TaskFields
           DEF FinishStart, TypeOK, IInv, TaskPhase, ShownScore, LastRound
      <3>4. \A x \in tasks \ {t} : TaskPhase(x)'
        BY <2>1, OthersUndisturbed DEF FinishStart, TypeOK
      <3>5. OneDriver'
        BY <2>1, <3>1, <3>2, TaskFields, DriverMoves DEF FinishStart, TypeOK
      <3>6. QED
        BY <3>2, <3>3, <3>4, <3>5
    <2>2. CASE ~(status[t.room] = "resolving" /\ t.room \in rooms)
      BY <2>2, TasksKept DEF FinishStart
    <2>3. QED
      BY <2>1, <2>2
  <1>4. \A d \in Conn : HandlerPhase(d)' /\ CloserPhase(d)'
    BY ConnsKept DEF FinishStart
  <1>5. QED
    BY <1>1, <1>2, <1>3, <1>4 DEF IInv

(* The driver scores its round: the room was still resolving it, so it has a round left. *)
LEMMA ScoreRoundInv ==
  ASSUME TypeOK, TypeOK', IInv, NEW t \in tasks,
         NEW botHit \in Outcome, ScoreRound(t, botHit)
  PROVE  IInv'
  <1>1. ASSUME AlreadyFinished(t.room) PROVE IInv'
    <2>1. /\ UNCHANGED <<indexVars, scoreVars, storeVars, status, owner, handler, closer>>
          /\ tasks' \subseteq tasks
      BY <1>1 DEF ScoreRound
    <2>2. RowsHaveOwners' /\ RoundsLeft' /\ CompletedWasPlayedOut'
      BY <2>1, RowsKept
    <2>3. InMemory'
      BY <2>1, MemoryKept
    <2>4. (\A s \in tasks' : TaskPhase(s)') /\ OneDriver'
      BY <2>1, TasksKept
    <2>5. \A d \in Conn : HandlerPhase(d)' /\ CloserPhase(d)'
      BY <2>1, ConnsKept
    <2>6. QED
      BY <2>2, <2>3, <2>4, <2>5 DEF IInv
  <1>2. ASSUME ~AlreadyFinished(t.room) PROVE IInv'
    <2>1. /\ status[t.room] = "resolving"
          /\ t.round = currentRound[t.room]
      BY <1>2 DEF ScoreRound, IInv, TaskPhase
    <2>2. /\ currentRound[t.room] < TotalRounds
          /\ userScore[t.room] <= currentRound[t.room]
          /\ opponentScore[t.room] <= currentRound[t.room]
      BY <2>1, TaskFields DEF IInv, RoundsLeft
    <2>3. PICK u \in Nat, o \in Nat :
            /\ u <= t.round + 1 /\ o <= t.round + 1
            /\ userScore' = [userScore EXCEPT ![t.room] = u]
            /\ opponentScore' = [opponentScore EXCEPT ![t.room] = o]
            /\ tasks' = (tasks \ {t}) \cup
                          {Goroutine(t.room, t.round, t.conn, "persist", t.hit,
                                     [user |-> u, opponent |-> o])}
      <3>1. Bit(t.hit) \in {0, 1} /\ Bit(botHit) \in {0, 1}
        BY DEF Bit
      <3>2. /\ userScore[t.room] + Bit(t.hit) \in Nat
            /\ userScore[t.room] + Bit(t.hit) <= t.round + 1
            /\ opponentScore[t.room] + Bit(botHit) \in Nat
            /\ opponentScore[t.room] + Bit(botHit) <= t.round + 1
        <4>1. userScore[t.room] \in Nat /\ opponentScore[t.room] \in Nat
          BY TaskFields DEF TypeOK
        <4>2. QED
          BY <2>1, <2>2, <3>1, <4>1, TaskFields
      <3>3. QED
        BY <1>2, <3>2 DEF ScoreRound
    <2>4. /\ currentRound' = [currentRound EXCEPT ![t.room] = t.round + 1]
          /\ status' = [status EXCEPT ![t.room] = IF LastRound(t) THEN "finished"
                                                                ELSE "countdown"]
          /\ UNCHANGED <<indexVars, storeVars, owner, handler, closer>>
      BY <1>2 DEF ScoreRound
    <2> HIDE DEF Goroutine
    <2>5. RowsHaveOwners'
      BY <2>1, <2>3, <2>4, TaskFields DEF TypeOK, IInv, RowsHaveOwners
    <2>6. RoundsLeft'
      BY SMTT(60), <2>1, <2>2, <2>3, <2>4, TaskFields, BoundAssumption
         DEF TypeOK, IInv, RoundsLeft, LastRound
    <2>7. CompletedWasPlayedOut'
      <3> SUFFICES ASSUME NEW r \in Room, session[r] = "completed"
                   PROVE  /\ currentRound'[r] = TotalRounds
                          /\ storedScore[r] = [user |-> userScore'[r],
                                                opponent |-> opponentScore'[r]]
        BY <2>4 DEF CompletedWasPlayedOut
      <3>1. /\ currentRound[r] = TotalRounds
            /\ storedScore[r] = [user |-> userScore[r], opponent |-> opponentScore[r]]
        BY DEF IInv, CompletedWasPlayedOut
      <3>2. r # t.room
        BY <2>2, <3>1, TaskFields, BoundAssumption
      <3>3. QED
        BY <2>3, <2>4, <3>1, <3>2, TaskFields DEF TypeOK
    <2>8. InMemory'
      BY <2>1, <2>3, <2>4, TaskFields DEF TypeOK, IInv, InMemory, Goroutine
    <2>9. PICK s : /\ s = Goroutine(t.room, t.round, t.conn, "persist", t.hit,
                                      [user |-> u, opponent |-> o])
                    /\ tasks' = (tasks \ {t}) \cup {s}
      BY <2>3
    <2>10. TaskPhase(s)'
      <3>1. /\ currentRound'[t.room] = t.round + 1
            /\ status'[t.room] = IF LastRound(t) THEN "finished" ELSE "countdown"
            /\ [user |-> u, opponent |-> o] = ShownScore(t.room)'
        BY <2>3, <2>4, TaskFields DEF TypeOK, ShownScore
      <3>2. s.room = t.room /\ s.round = t.round /\ s.at = "persist"
            /\ s.result = [user |-> u, opponent |-> o]
        BY <2>9 DEF Goroutine
      <3>3. QED
        BY <3>1, <3>2 DEF TaskPhase, LastRound
    <2>11. \A x \in tasks \ {t} : TaskPhase(x)'
      BY <2>3, <2>4, OthersUndisturbed DEF ScoreRound, TypeOK
    <2>12. OneDriver'
      <3>1. s.room = t.room /\ t.at # "timeout"
        BY <2>9 DEF Goroutine, ScoreRound
      <3>2. \A r \in Room : status'[r] = "question" => status[r] = "question"
        BY <2>4, TaskFields DEF TypeOK
      <3>3. QED
        BY <2>9, <3>1, <3>2, DriverMoves
    <2>13. \A d \in Conn : HandlerPhase(d)' /\ CloserPhase(d)'
      BY <2>1, <2>4, TaskFields, ConnsKept DEF TypeOK, Live
    <2>14. QED
      BY <2>5, <2>6, <2>7, <2>8, <2>9, <2>10, <2>11, <2>12, <2>13 DEF IInv
  <1>3. QED
    BY <1>1, <1>2 DEF IInv

(* The scores reach the row, which is not completed yet. *)
LEMMA PersistRoundInv ==
  ASSUME TypeOK, TypeOK', IInv, NEW t \in tasks,
         PersistRound(t)
  PROVE  IInv'
  <1>1. /\ currentRound[t.room] = t.round + 1
        /\ t.result = ShownScore(t.room)
        /\ status[t.room] \in {"countdown", "finished"}
        /\ LastRound(t) => status[t.room] = "finished"
    BY DEF PersistRound, IInv, TaskPhase
  <1>2. RowsHaveOwners' /\ RoundsLeft'
    BY TaskFields
       DEF PersistRound, MayFail, TypeOK, IInv, RowsHaveOwners, RoundsLeft
  <1>3. CompletedWasPlayedOut'
    <2>1. \A r \in Room : storedScore'[r] = storedScore[r] \/ storedScore'[r] = ShownScore(r)
      BY <1>1, TaskFields DEF PersistRound, MayFail, TypeOK
    <2>2. QED
      BY <2>1 DEF PersistRound, IInv, CompletedWasPlayedOut, ShownScore
  <1>4. InMemory'
    BY MemoryKept, TaskFields DEF PersistRound, IInv, InMemory
  <1>5. (\A x \in tasks' : TaskPhase(x)') /\ OneDriver'
    <2>1. PICK s : s = Goroutine(t.room, t.round, t.conn,
                             IF LastRound(t) THEN "complete" ELSE "countdown",
                             t.hit, t.result)
      OBVIOUS
    <2>2. tasks' = (tasks \ {t}) \cup {s}
      BY <1>1, <2>1 DEF PersistRound
    <2>3. TaskPhase(s)'
      BY <1>1, <2>1, TaskFields
         DEF PersistRound, TypeOK, IInv, TaskPhase, ShownScore, LastRound
    <2>4. \A x \in tasks \ {t} : TaskPhase(x)'
      BY <1>1, OthersUndisturbed DEF PersistRound, TypeOK
    <2>5. OneDriver'
      BY <1>1, <2>1, <2>2, TaskFields, DriverMoves DEF PersistRound, TypeOK
    <2>6. QED
      BY <2>2, <2>3, <2>4, <2>5
  <1>6. \A d \in Conn : HandlerPhase(d)' /\ CloserPhase(d)'
    BY ConnsKept DEF PersistRound
  <1>7. QED
    BY <1>1, <1>2, <1>3, <1>4, <1>5, <1>6 DEF IInv

(* The last round is in the row with the scores that were shown. *)
LEMMA CompleteMatchInv ==
  ASSUME TypeOK, TypeOK', IInv, NEW t \in tasks,
         CompleteMatch(t)
  PROVE  IInv'
  <1>1. /\ currentRound[t.room] = t.round + 1
        /\ t.result = ShownScore(t.room)
        /\ LastRound(t)
    BY DEF CompleteMatch, IInv, TaskPhase
  <1>2. currentRound[t.room] = TotalRounds
    BY <1>1, BoundAssumption, TaskFields DEF LastRound
  <1>3. RowsHaveOwners' /\ RoundsLeft'
    BY TaskFields DEF CompleteMatch, MayFail, MarkCompleted, TypeOK, IInv,
              RowsHaveOwners, RoundsLeft
  <1>4. CompletedWasPlayedOut'
    <2>1. \A r \in Room :
            \/ storedScore'[r] = storedScore[r] /\ session'[r] = session[r]
            \/ r = t.room /\ storedScore'[r] = ShownScore(r)
      BY <1>1, TaskFields DEF CompleteMatch, MayFail, MarkCompleted, TypeOK
    <2>2. QED
      BY <1>2, <2>1 DEF CompleteMatch, IInv, CompletedWasPlayedOut, ShownScore
  <1>5. InMemory'
    BY MemoryKept, TaskFields DEF CompleteMatch, IInv, InMemory
  <1>6. (\A x \in tasks' : TaskPhase(x)') /\ OneDriver'
    <2>1. PICK s : s = Goroutine(t.room, t.round, t.conn, "cleanup", t.hit, t.result)
      OBVIOUS
    <2>2. tasks' = (tasks \ {t}) \cup {s}
      BY <1>1, <2>1 DEF CompleteMatch
    <2>3. TaskPhase(s)'
      BY <1>1, <2>1, TaskFields
         DEF CompleteMatch, TypeOK, IInv, TaskPhase, ShownScore, LastRound
    <2>4. \A x \in tasks \ {t} : TaskPhase(x)'
      BY <1>1, OthersUndisturbed DEF CompleteMatch, TypeOK
    <2>5. OneDriver'
      BY <1>1, <2>1, <2>2, TaskFields, DriverMoves DEF CompleteMatch, TypeOK
    <2>6. QED
      BY <2>2, <2>3, <2>4, <2>5
  <1>7. \A d \in Conn : HandlerPhase(d)' /\ CloserPhase(d)'
    BY ConnsKept DEF CompleteMatch
  <1>8. QED
    BY <1>1, <1>2, <1>3, <1>4, <1>5, <1>6, <1>7 DEF IInv

(* The room leaves the indexes and its driver ends. *)
LEMMA FinishCleanupInv ==
  ASSUME TypeOK, TypeOK', IInv, NEW t \in tasks,
         FinishCleanup(t)
  PROVE  IInv'
  <1>1. RowsHaveOwners' /\ RoundsLeft' /\ CompletedWasPlayedOut'
    BY RowsKept DEF FinishCleanup
  <1>2. InMemory'
    BY MemoryKept DEF FinishCleanup, TypeOK
  <1>3. (\A x \in tasks' : TaskPhase(x)') /\ OneDriver'
    BY TasksKept DEF FinishCleanup
  <1>4. \A d \in Conn : HandlerPhase(d)' /\ CloserPhase(d)'
    BY ConnsKept DEF FinishCleanup
  <1>5. QED
    BY <1>1, <1>2, <1>3, <1>4 DEF IInv

(* The room of the connection leaves the indexes. *)
LEMMA DisconnectUnregisterInv ==
  ASSUME TypeOK, TypeOK', IInv, NEW c \in Conn,
         DisconnectUnregister(c)
  PROVE  IInv'
  <1>1. RowsHaveOwners' /\ RoundsLeft' /\ CompletedWasPlayedOut'
    BY RowsKept DEF DisconnectUnregister
  <1>2. InMemory'
    BY MemoryKept DEF DisconnectUnregister, TypeOK
  <1>3. (\A x \in tasks' : TaskPhase(x)') /\ OneDriver'
    BY TasksKept DEF DisconnectUnregister
  <1>4. \A d \in Conn : HandlerPhase(d)'
    BY ConnsKept DEF DisconnectUnregister
  <1>5. \A d \in Conn : CloserPhase(d)'
    <2> TAKE d \in Conn
    <2>1. CASE d = c
      BY <2>1 DEF DisconnectUnregister, IInv, InMemory, TypeOK, CloserPhase
    <2>2. CASE d # c
      BY <2>2, ConnsKept DEF DisconnectUnregister, TypeOK
    <2>3. QED
      BY <2>1, <2>2
  <1>6. QED
    BY <1>1, <1>2, <1>3, <1>4, <1>5 DEF IInv

(* The room that left the indexes ends. *)
LEMMA DisconnectEndInv ==
  ASSUME TypeOK, TypeOK', IInv, NEW c \in Conn,
         DisconnectEnd(c)
  PROVE  IInv'
  <1>1. /\ closer[c].room \in Room
        /\ status[closer[c].room] # "none"
        /\ closer[c].room \notin rooms
    BY DEF DisconnectEnd, TypeOK, Closer, IInv, CloserPhase
  <1>2. RowsHaveOwners' /\ RoundsLeft' /\ CompletedWasPlayedOut'
    BY <1>1, RowsKept DEF DisconnectEnd, TypeOK
  <1>3. InMemory'
    BY <1>1, MemoryKept DEF DisconnectEnd, TypeOK
  <1>4. (\A x \in tasks' : TaskPhase(x)') /\ OneDriver'
    BY <1>1, TasksKept DEF DisconnectEnd, TypeOK
  <1>5. \A d \in Conn : HandlerPhase(d)'
    BY <1>1, ConnsKept DEF DisconnectEnd, TypeOK, Live
  <1>6. \A d \in Conn : CloserPhase(d)'
    <2> TAKE d \in Conn
    <2>1. CASE d = c
      BY <2>1, <1>1
         DEF DisconnectEnd, IInv, RoundsLeft, EndedEarly, TypeOK, CloserPhase
    <2>2. CASE d # c
      BY <1>1, <2>2, ConnsKept DEF DisconnectEnd, TypeOK, Live
    <2>3. QED
      BY <2>1, <2>2
  <1>7. QED
    BY <1>1, <1>2, <1>3, <1>4, <1>5, <1>6 DEF IInv

(* Its row is marked abandoned. *)
LEMMA DisconnectMarkInv ==
  ASSUME TypeOK, TypeOK', IInv, NEW c \in Conn,
         DisconnectMark(c)
  PROVE  IInv'
  <1>1. RowsHaveOwners' /\ RoundsLeft' /\ CompletedWasPlayedOut'
    BY DEF DisconnectMark, MayFail, MarkAbandoned, TypeOK, IInv, RowsHaveOwners,
           RoundsLeft, CompletedWasPlayedOut
  <1>2. InMemory'
    BY MemoryKept DEF DisconnectMark
  <1>3. (\A x \in tasks' : TaskPhase(x)') /\ OneDriver'
    BY TasksKept DEF DisconnectMark
  <1>4. \A d \in Conn : HandlerPhase(d)'
    BY ConnsKept DEF DisconnectMark
  <1>5. \A d \in Conn : CloserPhase(d)'
    <2> TAKE d \in Conn
    <2>1. CASE d = c
      BY <2>1 DEF DisconnectMark, TypeOK, CloserPhase
    <2>2. CASE d # c
      BY <2>2, ConnsKept DEF DisconnectMark, TypeOK
    <2>3. QED
      BY <2>1, <2>2
  <1>6. QED
    BY <1>1, <1>2, <1>3, <1>4, <1>5 DEF IInv

(* The teardown ends. *)
LEMMA SocketClosesInv ==
  ASSUME TypeOK, TypeOK', IInv, NEW c \in Conn,
         SocketCloses(c)
  PROVE  IInv'
  <1>1. RowsHaveOwners' /\ RoundsLeft' /\ CompletedWasPlayedOut'
    BY RowsKept DEF SocketCloses
  <1>2. InMemory'
    BY MemoryKept DEF SocketCloses
  <1>3. (\A x \in tasks' : TaskPhase(x)') /\ OneDriver'
    BY TasksKept DEF SocketCloses
  <1>4. \A d \in Conn : HandlerPhase(d)'
    BY ConnsKept DEF SocketCloses
  <1>5. \A d \in Conn : CloserPhase(d)'
    <2> TAKE d \in Conn
    <2>1. CASE d = c
      BY <2>1 DEF SocketCloses, TypeOK, CloserPhase
    <2>2. CASE d # c
      BY <2>2, ConnsKept DEF SocketCloses, TypeOK
    <2>3. QED
      BY <2>1, <2>2
  <1>6. QED
    BY <1>1, <1>2, <1>3, <1>4, <1>5 DEF IInv

(* An administrator writes a row in progress. *)
LEMMA AdminAbortInv ==
  ASSUME TypeOK, TypeOK', IInv, NEW r \in Room, AdminAbort(r)
  PROVE  IInv'
  <1>1. RowsHaveOwners' /\ RoundsLeft' /\ CompletedWasPlayedOut'
    BY DEF AdminAbort, TypeOK, IInv, RowsHaveOwners, RoundsLeft,
           CompletedWasPlayedOut
  <1>2. InMemory'
    BY MemoryKept DEF AdminAbort
  <1>3. (\A x \in tasks' : TaskPhase(x)') /\ OneDriver'
    BY TasksKept DEF AdminAbort
  <1>4. \A d \in Conn : HandlerPhase(d)' /\ CloserPhase(d)'
    BY ConnsKept DEF AdminAbort
  <1>5. QED
    BY <1>1, <1>2, <1>3, <1>4 DEF IInv

(* Nothing is in memory after a crash. *)
LEMMA CrashInv ==
  ASSUME TypeOK, TypeOK', IInv, Crash
  PROVE  IInv'
  <1>1. RowsHaveOwners' /\ RoundsLeft' /\ CompletedWasPlayedOut'
    BY DEF Crash, TypeOK, IInv, RowsHaveOwners, RoundsLeft, CompletedWasPlayedOut
  <1>2. InMemory' /\ OneDriver' /\ \A t \in tasks' : TaskPhase(t)'
    BY DEF Crash, InMemory, OneDriver, Drivers, TasksOf
  <1>3. \A c \in Conn : HandlerPhase(c)' /\ CloserPhase(c)'
    BY DEF Crash, Idle, Open, HandlerPhase, CloserPhase
  <1>4. QED
    BY <1>1, <1>2, <1>3 DEF IInv

-----------------------------------------------------------------------------
(* Results *)

(* Nothing has been played yet. *)
LEMMA InitInv == Init => IInv
  <1> SUFFICES ASSUME Init PROVE IInv
    OBVIOUS
  <1>1. RowsHaveOwners /\ InMemory
    BY DEF Init, RowsHaveOwners, InMemory
  <1>2. \A c \in Conn : HandlerPhase(c) /\ CloserPhase(c)
    BY DEF Init, HandlerPhase, CloserPhase, Idle, Open
  <1>3. (\A t \in tasks : TaskPhase(t)) /\ OneDriver
    BY DEF Init, OneDriver, Drivers, TasksOf
  <1>4. RoundsLeft /\ CompletedWasPlayedOut
    BY BoundAssumption DEF Init, RoundsLeft, CompletedWasPlayedOut
  <1>5. QED
    BY <1>1, <1>2, <1>3, <1>4 DEF IInv

(* Every step preserves the invariant. *)
LEMMA NextInv ==
  ASSUME TypeOK, TypeOK', IInv, [Next]_vars
  PROVE  IInv'
  <1>1. ASSUME NEW c \in Conn, Receive(c) PROVE IInv'
    BY <1>1, AbandonUnregisterInv, StrikeAnswerInv, AcceptAnswerInv
       DEF Receive, ChallengeBot
  <1>2. ASSUME NEW c \in Conn, HandlerStepOf(c) PROVE IInv'
    BY <1>2, AbandonUnregisterInv, AbandonEndInv, AbandonMarkInv,
       SweepInProgressInv, CreateBotBattleInv, CreateRefusedInv, RegisterRoomInv
       DEF HandlerStepOf, AbandonForAbuse
  <1>3. ASSUME NEW c \in Conn, DisconnectUnregister(c) \/ CloserStepOf(c) PROVE IInv'
    BY <1>3, DisconnectUnregisterInv, DisconnectEndInv, DisconnectMarkInv,
       SocketClosesInv DEF CloserStepOf
  <1>4. ASSUME NEW t \in tasks, TaskStepOf(t) PROVE IInv'
    BY <1>4, CountdownInv, BeginRoundInv, SettleTimeoutInv, FinishStartInv,
       ScoreRoundInv, PersistRoundInv, CompleteMatchInv, FinishCleanupInv
       DEF TaskStepOf
  <1>5. CASE UNCHANGED vars
    <2>1. RowsHaveOwners' /\ RoundsLeft' /\ CompletedWasPlayedOut'
      BY <1>5, RowsKept DEF vars
    <2>2. InMemory'
      BY <1>5, MemoryKept DEF vars
    <2>3. (\A t \in tasks' : TaskPhase(t)') /\ OneDriver'
      BY <1>5, TasksKept DEF vars
    <2>4. \A d \in Conn : HandlerPhase(d)' /\ CloserPhase(d)'
      BY <1>5, ConnsKept DEF vars
    <2>5. QED
      BY <2>1, <2>2, <2>3, <2>4 DEF IInv
  <1>6. QED
    BY <1>1, <1>2, <1>3, <1>4, <1>5, TimerFiresInv, AdminAbortInv, CrashInv DEF Next

(* The invariant holds in every reachable state. *)
THEOREM InvariantHolds == Spec => [](TypeOK /\ IInv)
  <1>1. Init => TypeOK /\ IInv
    BY InitTypeOK, InitInv
  <1>2. TypeOK /\ IInv /\ [Next]_vars => (TypeOK /\ IInv)'
    BY NextTypeOK, NextInv
  <1>3. QED
    BY <1>1, <1>2, PTL DEF Spec

(* No answer, timer or second tab makes a round count twice: however many
   learners, tabs and rounds there are, nobody has more points than rounds. *)
THEOREM ScoredOnce == Spec => []RoundScoredOnce
  <1>1. TypeOK /\ IInv => RoundScoredOnce
    BY DEF IInv, RoundsLeft, RoundScoredOnce
  <1>2. QED
    BY <1>1, InvariantHolds, PTL

(* A room never has two drivers, and none while it waits for an answer. *)
THEOREM DriverIsAlone == Spec => []OneDriver
  <1>1. TypeOK /\ IInv => OneDriver
    BY DEF IInv
  <1>2. QED
    BY <1>1, InvariantHolds, PTL

(* A delayed timer callback or a slow goroutine never settles the next round. *)
THEOREM SettledForItself == Spec => []RoundSettledForItself
  <1>1. TypeOK /\ IInv => RoundSettledForItself
    BY DEF IInv, TaskPhase, RoundSettledForItself
  <1>2. QED
    BY <1>1, InvariantHolds, PTL

(* The three together. *)
THEOREM RoundsAreSound == Spec => []RoundIntegrity
  BY ScoredOnce, DriverIsAlone, SettledForItself, PTL DEF RoundIntegrity

(* A completed row was played out and holds the scores that were shown. *)
THEOREM PlayedOut == Spec => []CompletedWasPlayedOut
  <1>1. TypeOK /\ IInv => CompletedWasPlayedOut
    BY DEF IInv
  <1>2. QED
    BY <1>1, InvariantHolds, PTL

(* Neither a replacement nor a teardown is ever about to mark a match
   abandoned whose last round was scored. *)
THEOREM PlayedOutIsSpared == Spec => []AbandonSparesPlayedOut
  <1>1. ASSUME TypeOK, IInv PROVE AbandonSparesPlayedOut
    <2>1. ASSUME NEW c \in Conn, handler[c].at = "mark"
          PROVE  currentRound[handler[c].room] < TotalRounds
      BY <1>1, <2>1 DEF IInv, HandlerPhase, EndedEarly
    <2>2. ASSUME NEW c \in Conn, closer[c].at = "mark"
          PROVE  currentRound[closer[c].room] < TotalRounds
      BY <1>1, <2>2 DEF IInv, CloserPhase, EndedEarly
    <2>3. QED
      BY <2>1, <2>2 DEF AbandonSparesPlayedOut
  <1>2. QED
    BY <1>1, InvariantHolds, PTL

-----------------------------------------------------------------------------
(* BotBattle implements MatchLedger *)

(* The ledger's constant TotalRounds is the engine's. *)
LEMMA LedgerInitially == Init => Ledger!LedgerInit
  BY DEF Init, ZeroScore, Ledger!LedgerInit, Ledger!NoPoints

(* Abandoning a row that is in progress, or failing to, is a ledger step. *)
LEMMA AbandonIsLedgerStep ==
  ASSUME TypeOK, NEW ms \in SUBSET Room,
         UNCHANGED <<scoreVars, storedScore, announced>>,
         session' = [r \in Room |->
                       IF session[r] = "in_progress" /\ r \in ms
                       THEN "abandoned" ELSE session[r]]
  PROVE  Ledger!LedgerNext
  <1> DEFINE ended == {r \in ms : session[r] = "in_progress"}
  <1>1. Ledger!AbandonMatches(ended)
    BY DEF Ledger!AbandonMatches, TypeOK
  <1>2. QED
    BY <1>1 DEF Ledger!LedgerNext

(* One row abandoned unless it had ended: MarkAbandoned. *)
LEMMA MarkIsLedgerStep ==
  ASSUME TypeOK, NEW r \in Room, UNCHANGED <<scoreVars, storedScore, announced>>,
         MayFail(MarkAbandoned(r), session)
  PROVE  [Ledger!LedgerNext]_(Ledger!ledgerVars)
  <1>1. CASE UNCHANGED session
    BY <1>1 DEF Ledger!ledgerVars
  <1>2. CASE MarkAbandoned(r)
    <2>1. session' = [s \in Room |-> IF session[s] = "in_progress" /\ s \in {r}
                                     THEN "abandoned" ELSE session[s]]
      BY <1>2 DEF MarkAbandoned, TypeOK
    <2>2. QED
      BY <2>1, AbandonIsLedgerStep
  <1>3. QED
    BY <1>1, <1>2 DEF MayFail

(* A scored round is a round of the ledger. *)
LEMMA ScoreIsLedgerStep ==
  ASSUME TypeOK, TypeOK', IInv, NEW t \in tasks, NEW botHit \in Outcome,
         ScoreRound(t, botHit), ~AlreadyFinished(t.room)
  PROVE  Ledger!LedgerNext
  <1>1. /\ status[t.room] = "resolving"
        /\ t.round = currentRound[t.room]
    BY DEF ScoreRound, IInv, TaskPhase
  <1>2. session[t.room] # "absent" /\ currentRound[t.room] < TotalRounds
    BY <1>1, TaskFields DEF IInv, RowsHaveOwners, RoundsLeft
  <1>3. Bit(t.hit) \in {0, 1} /\ Bit(botHit) \in {0, 1}
    BY DEF Bit
  <1>4. /\ currentRound' = [currentRound EXCEPT ![t.room] = t.round + 1]
        /\ userScore' = [userScore EXCEPT ![t.room] = userScore[t.room] + Bit(t.hit)]
        /\ opponentScore' = [opponentScore EXCEPT ![t.room] =
                               opponentScore[t.room] + Bit(botHit)]
        /\ UNCHANGED <<session, storedScore, announced>>
    BY DEF ScoreRound
  <1>5. Ledger!PlayRound(t.room, Bit(t.hit), Bit(botHit))
    BY <1>1, <1>2, <1>4, TaskFields DEF Ledger!PlayRound, TypeOK
  <1>6. QED
    BY <1>3, <1>5, TaskFields DEF Ledger!LedgerNext

(* Every step of the engine is a step of the ledger or invisible to it. *)
LEMMA LedgerStep ==
  ASSUME TypeOK, TypeOK', IInv, [Next]_vars
  PROVE  [Ledger!LedgerNext]_(Ledger!ledgerVars)
  <1> DEFINE Visible == <<scoreVars, storeVars, announced>>
  <1>1. CASE UNCHANGED Visible
    BY <1>1 DEF Ledger!ledgerVars
  <1>2. ASSUME NEW c \in Conn, Receive(c) PROVE UNCHANGED Visible
    BY <1>2 DEF Receive, ChallengeBot, AbandonUnregister, StrikeAnswer, AcceptAnswer
  <1>3. ASSUME NEW c \in Conn, HandlerStepOf(c)
        PROVE  [Ledger!LedgerNext]_(Ledger!ledgerVars)
    <2>1. CASE AbandonForAbuse(c) \/ AbandonEnd(c) \/ CreateRefused(c) \/ RegisterRoom(c)
      BY <1>1, <2>1
         DEF AbandonForAbuse, AbandonUnregister, AbandonEnd, CreateRefused,
             RegisterRoom
    <2>2. CASE AbandonMark(c)
      <3>1. handler[c].room \in Room
        BY <2>2 DEF AbandonMark, TypeOK, Handler
      <3>2. QED
        BY <2>2, <3>1, MarkIsLedgerStep DEF AbandonMark
    <2>3. CASE SweepInProgress(c)
      <3>1. CASE UNCHANGED session
        BY <1>1, <2>3, <3>1 DEF SweepInProgress
      <3>2. CASE SweepSessions(UserOf[c])
        <4> DEFINE ms == {r \in Room : OwnedBy(r, UserOf[c])}
        <4>1. session' = [r \in Room |->
                            IF session[r] = "in_progress" /\ r \in ms
                            THEN "abandoned" ELSE session[r]]
          BY <3>2 DEF SweepSessions
        <4>2. QED
          BY <2>3, <4>1, AbandonIsLedgerStep DEF SweepInProgress
      <3>3. QED
        BY <2>3, <3>1, <3>2 DEF SweepInProgress, MayFail
    <2>4. CASE CreateBotBattle(c)
      <3>1. PICK r \in Room : session[r] = "absent"
                              /\ session' = [session EXCEPT ![r] = "in_progress"]
        BY <2>4 DEF CreateBotBattle
      <3>2. Ledger!OpenMatch(r)
        BY <2>4, <3>1 DEF CreateBotBattle, Ledger!OpenMatch
      <3>3. QED
        BY <3>2 DEF Ledger!LedgerNext
    <2>5. QED
      BY <1>3, <2>1, <2>2, <2>3, <2>4 DEF HandlerStepOf
  <1>4. ASSUME NEW c \in Conn, DisconnectUnregister(c) \/ CloserStepOf(c)
        PROVE  [Ledger!LedgerNext]_(Ledger!ledgerVars)
    <2>1. CASE DisconnectUnregister(c) \/ DisconnectEnd(c) \/ SocketCloses(c)
      BY <1>1, <2>1 DEF DisconnectUnregister, DisconnectEnd, SocketCloses
    <2>2. CASE DisconnectMark(c)
      <3>1. closer[c].room \in Room
        BY <2>2 DEF DisconnectMark, TypeOK, Closer
      <3>2. QED
        BY <2>2, <3>1, MarkIsLedgerStep DEF DisconnectMark
    <2>3. QED
      BY <1>4, <2>1, <2>2 DEF CloserStepOf
  <1>5. ASSUME NEW t \in tasks, TaskStepOf(t)
        PROVE  [Ledger!LedgerNext]_(Ledger!ledgerVars)
    <2>1. CASE Countdown(t) \/ BeginRound(t) \/ SettleTimeout(t) \/ FinishStart(t)
               \/ FinishCleanup(t)
      BY <1>1, <2>1
         DEF Countdown, BeginRound, SettleTimeout, FinishStart, FinishCleanup
    <2>2. ASSUME NEW botHit \in Outcome, ScoreRound(t, botHit)
          PROVE  [Ledger!LedgerNext]_(Ledger!ledgerVars)
      <3>1. CASE AlreadyFinished(t.room)
        BY <1>1, <2>2, <3>1 DEF ScoreRound
      <3>2. CASE ~AlreadyFinished(t.room)
        BY <2>2, <3>2, ScoreIsLedgerStep
      <3>3. QED
        BY <3>1, <3>2
    <2>3. CASE PersistRound(t)
      <3>1. t.result = ShownScore(t.room)
        BY <2>3 DEF PersistRound, IInv, TaskPhase
      <3>2. CASE UNCHANGED storedScore
        BY <1>1, <2>3, <3>2 DEF PersistRound
      <3>3. CASE storedScore' = [storedScore EXCEPT ![t.room] = t.result]
        <4>1. Ledger!SaveScore(t.room)
          BY <2>3, <3>1, <3>3, TaskFields
             DEF PersistRound, Ledger!SaveScore, ShownScore
        <4>2. QED
          BY <4>1, TaskFields DEF Ledger!LedgerNext
      <3>4. QED
        BY <2>3, <3>2, <3>3 DEF PersistRound, MayFail
    <2>4. CASE CompleteMatch(t)
      <3>1. t.result = ShownScore(t.room) /\ currentRound[t.room] = TotalRounds
        BY <2>4, TaskFields, BoundAssumption
           DEF CompleteMatch, IInv, TaskPhase, LastRound
      <3>2. Ledger!FinishMatch(t.room)
        BY <2>4, <3>1, TaskFields
           DEF CompleteMatch, MayFail, MarkCompleted, Ledger!FinishMatch, ShownScore
      <3>3. QED
        BY <3>2, TaskFields DEF Ledger!LedgerNext
    <2>5. QED
      BY <1>5, <2>1, <2>2, <2>3, <2>4 DEF TaskStepOf
  <1>6. ASSUME NEW r \in Room, AdminAbort(r) PROVE Ledger!LedgerNext
    <2>1. session' = [s \in Room |-> IF session[s] = "in_progress" /\ s \in {r}
                                     THEN "abandoned" ELSE session[s]]
      BY <1>6 DEF AdminAbort, TypeOK
    <2>2. QED
      BY <1>6, <2>1, AbandonIsLedgerStep DEF AdminAbort
  <1>7. CASE UNCHANGED vars \/ Crash \/ \E x \in timers : TimerFires(x)
    BY <1>1, <1>7 DEF vars, Crash, TimerFires
  <1>8. QED
    BY <1>1, <1>2, <1>3, <1>4, <1>5, <1>6, <1>7 DEF Next

(* The rows of battle_session behave as the ledger promises, for every number
   of learners, tabs and rounds, with crashes, failed writes and administrators. *)
THEOREM EngineImplementsLedger == Spec => ImplementsLedger
  <1>1. Init => Ledger!LedgerInit
    BY LedgerInitially
  <1>2. TypeOK /\ IInv /\ [Next]_vars /\ TypeOK' => [Ledger!LedgerNext]_(Ledger!ledgerVars)
    BY LedgerStep
  <1>3. QED
    BY <1>1, <1>2, InvariantHolds, PTL DEF Spec, ImplementsLedger, Ledger!LedgerSpec

(* Whoever ends a row first wins: a completed or abandoned row never changes
   status again, because no step of the ledger does that. *)
THEOREM TerminalIsFinal == Spec => TerminalSessionIsFinal
  <1>1. ASSUME TypeOK, TypeOK', IInv, [Next]_vars,
               NEW r \in Room, session[r] \in {"completed", "abandoned"}
        PROVE  session'[r] = session[r]
    <2>1. CASE Ledger!LedgerNext
      <3>1. ASSUME NEW m \in Room,
                   Ledger!OpenMatch(m) \/ Ledger!FinishMatch(m) \/ Ledger!SaveScore(m)
                     \/ \E user, opponent \in {0, 1} : Ledger!PlayRound(m, user, opponent)
            PROVE  session'[r] = session[r]
        BY <1>1, <3>1 DEF TypeOK, Ledger!OpenMatch, Ledger!FinishMatch,
                          Ledger!SaveScore, Ledger!PlayRound
      <3>2. ASSUME NEW ms \in SUBSET Room, Ledger!AbandonMatches(ms)
            PROVE  session'[r] = session[r]
        BY <1>1, <3>2 DEF Ledger!AbandonMatches
      <3>3. QED
        BY <2>1, <3>1, <3>2 DEF Ledger!LedgerNext
    <2>2. CASE UNCHANGED Ledger!ledgerVars
      BY <2>2 DEF Ledger!ledgerVars
    <2>3. QED
      BY <1>1, <2>1, <2>2, LedgerStep
  <1>2. TypeOK /\ IInv /\ [Next]_vars /\ TypeOK' =>
          [\A r \in Room : session[r] \in {"completed", "abandoned"} =>
             session'[r] = session[r]]_vars
    BY <1>1
  <1>3. QED
    BY <1>2, InvariantHolds, PTL DEF Spec, TerminalSessionIsFinal

-----------------------------------------------------------------------------
(* Owners *)

(* A match that is in memory has an owner, and a step gives an owner only to a
   match that had none. *)
LEMMA OwnersStay ==
  ASSUME TypeOK, IInv, [Next]_vars, NEW r \in Room, owner[r] # NoConn
  PROVE  owner'[r] = owner[r]
  <1>1. ASSUME NEW c \in Conn, CreateBotBattle(c) PROVE owner'[r] = owner[r]
    BY <1>1 DEF CreateBotBattle, IInv, RowsHaveOwners, TypeOK
  <1>2. ASSUME NEW c \in Conn, Receive(c) PROVE UNCHANGED owner
    BY <1>2 DEF Receive, ChallengeBot, AbandonUnregister, StrikeAnswer, AcceptAnswer
  <1>3. ASSUME NEW c \in Conn, HandlerStepOf(c), ~CreateBotBattle(c) PROVE UNCHANGED owner
    BY <1>3
       DEF HandlerStepOf, AbandonForAbuse, AbandonUnregister, AbandonEnd,
           AbandonMark, SweepInProgress, CreateRefused, RegisterRoom
  <1>4. ASSUME NEW c \in Conn, DisconnectUnregister(c) \/ CloserStepOf(c)
        PROVE  UNCHANGED owner
    BY <1>4 DEF DisconnectUnregister, CloserStepOf, DisconnectEnd, DisconnectMark,
                SocketCloses
  <1>5. ASSUME NEW t \in tasks, TaskStepOf(t) PROVE UNCHANGED owner
    BY <1>5 DEF TaskStepOf, Countdown, BeginRound, SettleTimeout, FinishStart,
                ScoreRound, PersistRound, CompleteMatch, FinishCleanup
  <1>6. CASE UNCHANGED vars \/ Crash \/ (\E x \in timers : TimerFires(x))
             \/ (\E s \in Room : AdminAbort(s))
    BY <1>6 DEF vars, Crash, TimerFires, AdminAbort
  <1>7. QED
    BY <1>1, <1>2, <1>3, <1>4, <1>5, <1>6 DEF Next

(* What belongs to a learner stays theirs. *)
LEMMA OwnedStays ==
  ASSUME TypeOK, IInv, [Next]_vars, NEW r \in Room, NEW u, OwnedBy(r, u)
  PROVE  OwnedBy(r, u)'
  BY OwnersStay DEF OwnedBy

(* Every goroutine, timer, handler and teardown after the step continues one
   that was there before, or is given a room of its own learner. *)
LEMMA OwnersKept ==
  ASSUME TypeOK, TypeOK', IInv, [Next]_vars, OwnersWork,
         \A s \in tasks' : \/ \E t \in tasks \cup timers : s.room = t.room /\ s.conn = t.conn
                           \/ OwnedBy(s.room, UserOf[s.conn]),
         \A x \in timers' : x \in timers \/ OwnedBy(x.room, UserOf[x.conn]),
         \A c \in Conn : \/ handler'[c].room \in {NoRoom, handler[c].room}
                         \/ OwnedBy(handler[c].room, UserOf[c])',
         \A c \in Conn : \/ closer'[c].room \in {NoRoom, closer[c].room}
                         \/ owner[closer'[c].room] = c
  PROVE  OwnersWork'
  <1>1. ASSUME NEW s \in tasks' PROVE OwnedBy(s.room, UserOf[s.conn])'
    <2>1. s.room \in Room
      BY DEF TypeOK, Task
    <2>2. OwnedBy(s.room, UserOf[s.conn])
      BY DEF OwnersWork
    <2>3. QED
      BY <2>1, <2>2, OwnedStays
  <1>2. ASSUME NEW x \in timers' PROVE OwnedBy(x.room, UserOf[x.conn])'
    <2>1. x.room \in Room
      BY DEF TypeOK, Timer
    <2>2. OwnedBy(x.room, UserOf[x.conn])
      BY DEF OwnersWork
    <2>3. QED
      BY <2>1, <2>2, OwnedStays
  <1>3. ASSUME NEW c \in Conn, handler'[c].room # NoRoom
        PROVE  OwnedBy(handler[c].room, UserOf[c])'
    <2>1. handler'[c].room \in Room
      BY <1>3 DEF TypeOK, Handler
    <2>2. CASE handler'[c].room = handler[c].room
      BY <1>3, <2>1, <2>2, OwnersStay DEF OwnersWork, OwnedBy
    <2>3. CASE OwnedBy(handler[c].room, UserOf[c])'
      BY <2>3
    <2>4. QED
      BY <1>3, <2>2, <2>3
  <1>4. ASSUME NEW c \in Conn, closer'[c].room # NoRoom
        PROVE  owner'[closer'[c].room] = c
    <2>1. closer'[c].room \in Room /\ owner[closer'[c].room] = c
      BY <1>4 DEF TypeOK, Closer, OwnersWork
    <2>2. QED
      BY <2>1, OwnersStay, ConnAssumption
  <1>5. QED
    BY <1>1, <1>2, <1>3, <1>4 DEF OwnersWork

(* The active room of a learner is registered and theirs. *)
ActiveRooms ==
  \A u \in User : userActiveRoom[u] # NoRoom =>
    userActiveRoom[u] \in rooms /\ OwnedBy(userActiveRoom[u], u)

(* Steps that leave the indexes alone keep it. *)
LEMMA ActiveKept ==
  ASSUME TypeOK, TypeOK', IInv, [Next]_vars, ActiveRooms,
         UNCHANGED <<rooms, userActiveRoom>>
  PROVE  ActiveRooms'
  BY OwnedStays DEF TypeOK, ActiveRooms

(* Removing a room from the indexes keeps it: nobody but its learner can have
   it as the active room. *)
LEMMA ActiveForgotten ==
  ASSUME TypeOK, TypeOK', IInv, [Next]_vars, ActiveRooms,
         NEW r, rooms' = rooms \ {r},
         \A u \in User : \/ userActiveRoom'[u] = userActiveRoom[u] /\ userActiveRoom[u] # r
                         \/ userActiveRoom'[u] = NoRoom
  PROVE  ActiveRooms'
  BY OwnedStays DEF TypeOK, ActiveRooms

(* A handler only takes the active room of its own learner out of the index. *)
LEMMA AbandonOwners ==
  ASSUME TypeOK, TypeOK', IInv, [Next]_vars, OwnersWork, ActiveRooms,
         NEW c \in Conn, NEW why, AbandonUnregister(c, why)
  PROVE  OwnersWork' /\ ActiveRooms'
  <1> DEFINE prev == userActiveRoom[UserOf[c]]
  <1>1. UserOf[c] \in User
    BY ConnAssumption
  <1>2. prev # NoRoom => OwnedBy(prev, UserOf[c]) /\ prev \in Room
    BY <1>1 DEF ActiveRooms, TypeOK
  <1>3. \A u \in User : u # UserOf[c] => prev = NoRoom \/ userActiveRoom[u] # prev
    BY <1>2 DEF ActiveRooms, OwnedBy
  <1>4. ActiveRooms'
    <2>1. CASE prev = NoRoom
      BY <1>1, <2>1, ActiveKept, RoomAssumption DEF AbandonUnregister, TypeOK
    <2>2. CASE prev # NoRoom
      BY <1>1, <1>3, <2>2, ActiveForgotten DEF AbandonUnregister, TypeOK
    <2>3. QED
      BY <2>1, <2>2
  <1>5. \A d \in Conn : \/ handler'[d].room \in {NoRoom, handler[d].room}
                        \/ OwnedBy(handler[d].room, UserOf[d])'
    <2> TAKE d \in Conn
    <2>1. CASE d = c
      BY <1>2, <2>1, OwnedStays, RoomAssumption
         DEF AbandonUnregister, AbandonReturns, TypeOK
    <2>2. CASE d # c
      BY <2>2 DEF AbandonUnregister, AbandonReturns, TypeOK
    <2>3. QED
      BY <2>1, <2>2
  <1>6. UNCHANGED <<tasks, timers, closer>>
    BY DEF AbandonUnregister
  <1>7. OwnersWork'
    BY <1>5, <1>6, OwnersKept
  <1>8. QED
    BY <1>4, <1>7

(* A message of a learner: a strike or an answer counts for a room of theirs. *)
LEMMA ReceiveOwners ==
  ASSUME TypeOK, TypeOK', IInv, [Next]_vars, OwnersWork, ActiveRooms,
         NEW c \in Conn, Receive(c)
  PROVE  OwnersWork' /\ ActiveRooms'
  <1>1. CASE ChallengeBot(c)
    BY <1>1, AbandonOwners DEF ChallengeBot
  <1>2. ASSUME NEW r \in Room, StrikeAnswer(c, r) PROVE OwnersWork' /\ ActiveRooms'
    <2>1. OwnersWork'
      <3>1. ASSUME NEW d \in Conn
            PROVE  \/ handler'[d].room \in {NoRoom, handler[d].room}
                   \/ OwnedBy(handler[d].room, UserOf[d])'
        BY <1>2 DEF StrikeAnswer, TypeOK, OwnedBy
      <3>2. QED
        BY <1>2, <3>1, OwnersKept DEF StrikeAnswer
    <2>2. ActiveRooms'
      BY <1>2, ActiveKept DEF StrikeAnswer
    <2>3. QED
      BY <2>1, <2>2
  <1>3. ASSUME NEW r \in Room, NEW k \in Key, NEW hit \in Outcome,
               AcceptAnswer(c, r, k, hit)
        PROVE  OwnersWork' /\ ActiveRooms'
    <2>1. \A s \in tasks' : s \in tasks \/ (s.room = r /\ s.conn = c)
      BY <1>3 DEF AcceptAnswer
    <2>2. OwnersWork'
      BY <1>3, <2>1, OwnersKept DEF AcceptAnswer
    <2>3. ActiveRooms'
      BY <1>3, ActiveKept DEF AcceptAnswer
    <2>4. QED
      BY <2>2, <2>3
  <1>4. QED
    BY <1>1, <1>2, <1>3 DEF Receive

(* The rest of a handler. *)
LEMMA HandlerOwners ==
  ASSUME TypeOK, TypeOK', IInv, [Next]_vars, OwnersWork, ActiveRooms,
         NEW c \in Conn, HandlerStepOf(c)
  PROVE  OwnersWork' /\ ActiveRooms'
  <1>1. CASE AbandonForAbuse(c)
    BY <1>1, AbandonOwners DEF AbandonForAbuse
  <1>2. CASE AbandonEnd(c) \/ AbandonMark(c) \/ SweepInProgress(c) \/ CreateRefused(c)
    <2>1. ASSUME NEW d \in Conn PROVE handler'[d].room \in {NoRoom, handler[d].room}
      BY <1>2 DEF AbandonEnd, AbandonMark, AbandonReturns, SweepInProgress,
                  CreateRefused, TypeOK
    <2>2. timers' \subseteq timers /\ UNCHANGED <<tasks, closer, rooms, userActiveRoom>>
      BY <1>2 DEF AbandonEnd, AbandonMark, SweepInProgress, CreateRefused
    <2>3. OwnersWork'
      BY <2>1, <2>2, OwnersKept
    <2>4. QED
      BY <2>2, <2>3, ActiveKept
  <1>3. CASE CreateBotBattle(c)
    <2>1. ASSUME NEW d \in Conn
          PROVE  \/ handler'[d].room \in {NoRoom, handler[d].room}
                 \/ OwnedBy(handler[d].room, UserOf[d])'
      BY <1>3, ConnAssumption DEF CreateBotBattle, TypeOK, OwnedBy
    <2>2. OwnersWork'
      BY <1>3, <2>1, OwnersKept DEF CreateBotBattle
    <2>3. QED
      BY <1>3, <2>2, ActiveKept DEF CreateBotBattle
  <1>4. CASE RegisterRoom(c)
    <2>1. handler[c].room \in Room /\ OwnedBy(handler[c].room, UserOf[c])
      BY <1>4, ConnAssumption
         DEF RegisterRoom, TypeOK, Handler, IInv, HandlerPhase, OwnedBy
    <2>2. \A s \in tasks' : s \in tasks \/ (s.room = handler[c].room /\ s.conn = c)
      BY <1>4 DEF RegisterRoom
    <2>3. \A d \in Conn : handler'[d].room \in {NoRoom, handler[d].room}
      BY <1>4 DEF RegisterRoom, TypeOK
    <2>4. OwnersWork'
      BY <1>4, <2>1, <2>2, <2>3, OwnersKept DEF RegisterRoom
    <2>5. ActiveRooms'
      BY <1>4, <2>1, OwnedStays DEF RegisterRoom, TypeOK, ActiveRooms
    <2>6. QED
      BY <2>4, <2>5
  <1>5. QED
    BY <1>1, <1>2, <1>3, <1>4 DEF HandlerStepOf

(* A teardown ends the room its own connection opened. *)
LEMMA CloserOwners ==
  ASSUME TypeOK, TypeOK', IInv, [Next]_vars, OwnersWork, ActiveRooms,
         NEW c \in Conn, DisconnectUnregister(c) \/ CloserStepOf(c)
  PROVE  OwnersWork' /\ ActiveRooms'
  <1>1. CASE DisconnectUnregister(c)
    <2> DEFINE r == connToRoom[c]
    <2>1. ASSUME NEW d \in Conn
          PROVE  \/ closer'[d].room \in {NoRoom, closer[d].room}
                 \/ owner[closer'[d].room] = d
      BY <1>1, RoomAssumption DEF DisconnectUnregister, TypeOK, IInv, InMemory
    <2>2. UNCHANGED <<tasks, timers, handler>>
      BY <1>1 DEF DisconnectUnregister
    <2>3. OwnersWork'
      BY <2>1, <2>2, OwnersKept
    <2>4. ActiveRooms'
      <3>1. CASE r \in rooms
        <4>1. \A u \in User : userActiveRoom[u] = r => OwnedBy(r, u)
          BY <3>1, RoomAssumption DEF TypeOK, ActiveRooms
        <4>2. \A u \in User :
                \/ userActiveRoom'[u] = userActiveRoom[u] /\ userActiveRoom[u] # r
                \/ userActiveRoom'[u] = NoRoom
          BY <1>1, <3>1, <4>1 DEF DisconnectUnregister
        <4>3. QED
          BY <1>1, <4>2, ActiveForgotten DEF DisconnectUnregister
      <3>2. CASE r \notin rooms
        <4>1. UNCHANGED <<rooms, userActiveRoom>>
          BY <1>1, <3>2 DEF DisconnectUnregister
        <4>2. QED
          BY <4>1, ActiveKept
      <3>3. QED
        BY <3>1, <3>2
    <2>5. QED
      BY <2>3, <2>4
  <1>2. CASE CloserStepOf(c)
    <2>1. \A d \in Conn : closer'[d].room \in {NoRoom, closer[d].room}
      BY <1>2 DEF CloserStepOf, DisconnectEnd, DisconnectMark, SocketCloses, TypeOK
    <2>2. timers' \subseteq timers /\ UNCHANGED <<tasks, handler, rooms, userActiveRoom>>
      BY <1>2 DEF CloserStepOf, DisconnectEnd, DisconnectMark, SocketCloses
    <2>3. OwnersWork'
      BY <2>1, <2>2, OwnersKept
    <2>4. QED
      BY <2>2, <2>3, ActiveKept
  <1>3. QED
    BY <1>1, <1>2

(* The goroutines of a room and their timers stay with their connection. *)
LEMMA TaskOwners ==
  ASSUME TypeOK, TypeOK', IInv, [Next]_vars, OwnersWork, ActiveRooms,
         NEW t \in tasks, TaskStepOf(t)
  PROVE  OwnersWork' /\ ActiveRooms'
  <1>1. \A s \in tasks' : s \in tasks \/ (s.room = t.room /\ s.conn = t.conn)
    BY DEF TaskStepOf, Countdown, BeginRound, SettleTimeout, FinishStart,
           ScoreRound, PersistRound, CompleteMatch, FinishCleanup
  <1>2. \A x \in timers' : x \in timers \/ (x.room = t.room /\ x.conn = t.conn)
    BY DEF TaskStepOf, Countdown, BeginRound, SettleTimeout, FinishStart,
           ScoreRound, PersistRound, CompleteMatch, FinishCleanup
  <1>3. UNCHANGED <<handler, closer>>
    BY DEF TaskStepOf, Countdown, BeginRound, SettleTimeout, FinishStart,
           ScoreRound, PersistRound, CompleteMatch, FinishCleanup
  <1>4. OwnersWork'
    <2>1. OwnedBy(t.room, UserOf[t.conn])
      BY DEF OwnersWork
    <2>2. QED
      BY <1>1, <1>2, <1>3, <2>1, OwnersKept
  <1>5. ActiveRooms'
    <2>1. CASE FinishCleanup(t)
      BY <2>1, ActiveForgotten DEF FinishCleanup, TypeOK, ActiveRooms
    <2>2. CASE ~FinishCleanup(t)
      <3>1. UNCHANGED <<rooms, userActiveRoom>>
        BY <2>2 DEF TaskStepOf, Countdown, BeginRound, SettleTimeout, FinishStart,
                    ScoreRound, PersistRound, CompleteMatch
      <3>2. QED
        BY <3>1, ActiveKept
    <2>3. QED
      BY <2>1, <2>2
  <1>6. QED
    BY <1>4, <1>5

(* Every step. *)
LEMMA NextOwners ==
  ASSUME TypeOK, TypeOK', IInv, [Next]_vars, OwnersWork, ActiveRooms
  PROVE  OwnersWork' /\ ActiveRooms'
  <1>1. ASSUME NEW x \in timers, TimerFires(x) PROVE OwnersWork' /\ ActiveRooms'
    <2>1. \A s \in tasks' : s \in tasks \/ (s.room = x.room /\ s.conn = x.conn)
      BY <1>1 DEF TimerFires
    <2>2. OwnersWork'
      BY <1>1, <2>1, OwnersKept DEF TimerFires
    <2>3. QED
      BY <1>1, <2>2, ActiveKept DEF TimerFires
  <1>2. CASE UNCHANGED vars \/ \E r \in Room : AdminAbort(r)
    <2>1. UNCHANGED <<rooms, userActiveRoom, tasks, timers, handler, closer>>
      BY <1>2 DEF vars, AdminAbort
    <2>2. OwnersWork'
      BY <2>1, OwnersKept
    <2>3. QED
      BY <2>1, <2>2, ActiveKept
  <1>3. CASE Crash
    BY <1>3 DEF Crash, Idle, Open, OwnersWork, ActiveRooms
  <1>4. QED
    BY <1>1, <1>2, <1>3, ReceiveOwners, HandlerOwners, CloserOwners, TaskOwners
       DEF Next

(* Goroutines, handlers and teardowns act for the owner of their room. *)
THEOREM OwnersHold == Spec => [](TypeOK /\ IInv /\ OwnersWork /\ ActiveRooms)
  <1>1. Init => OwnersWork /\ ActiveRooms
    BY DEF Init, Idle, Open, OwnersWork, ActiveRooms
  <1>2. TypeOK /\ IInv /\ TypeOK' /\ [Next]_vars /\ OwnersWork /\ ActiveRooms =>
          OwnersWork' /\ ActiveRooms'
    BY NextOwners
  <1>3. QED
    BY <1>1, <1>2, InvariantHolds, PTL DEF Spec

(* Nobody but the learner of a match answers for it, gets strikes for it or
   ends it, however many learners know its room code. *)
THEOREM OnlyOwners == Spec => []OnlyOwnerActs
  <1>1. OwnersWork => OnlyOwnerActs
    BY DEF OwnersWork, OnlyOwnerActs, OwnedBy
  <1>2. QED
    BY <1>1, OwnersHold, PTL

(* The indexes of the handler agree with each other. *)
THEOREM IndexesStayInStep == Spec => []IndexesAgree
  <1>1. TypeOK /\ IInv /\ ActiveRooms => IndexesAgree
    BY RoomAssumption DEF TypeOK, IInv, InMemory, ActiveRooms, IndexesAgree
  <1>2. QED
    BY <1>1, OwnersHold, PTL

-----------------------------------------------------------------------------
(* No registered room is stranded *)

(* A room that nothing happens to still moves on. *)
LEMMA StillMovesOn ==
  ASSUME TypeOK, TypeOK', NEW r \in Room, MovesOn(r),
         status'[r] = status[r], currentRound'[r] = currentRound[r],
         \A t \in tasks : t.room = r => t \in tasks',
         \A x \in timers : x.room = r => x \in timers'
  PROVE  MovesOn(r)'
  BY DEF MovesOn, Drivers, TasksOf, LastRound

(* Steps that concern no registered room. *)
LEMMA AllMoveOn ==
  ASSUME TypeOK, TypeOK', RegisteredRoomMovesOn, rooms' \subseteq rooms,
         \A r \in rooms' :
           /\ status'[r] = status[r]
           /\ currentRound'[r] = currentRound[r]
           /\ \A t \in tasks : t.room = r => t \in tasks'
           /\ \A x \in timers : x.room = r => x \in timers'
  PROVE  RegisteredRoomMovesOn'
  BY StillMovesOn DEF RegisteredRoomMovesOn, TypeOK

(* In a registered room, a goroutine that has yet to score its round finds the
   room unfinished. *)
LEMMA NotFinished ==
  ASSUME TypeOK, IInv, RegisteredRoomMovesOn, NEW t \in tasks, t.room \in rooms,
         t.at \in {"countdown", "begin", "finish", "score"}
  PROVE  status[t.room] \in {"countdown", "resolving"}
  <1>1. MovesOn(t.room)
    BY DEF RegisteredRoomMovesOn
  <1>2. \A s \in Drivers(t.room) : s = t
    BY TaskFields DEF IInv, OneDriver, Drivers, TasksOf
  <1>3. status[t.room] \in {"countdown", "resolving", "finished"}
    BY DEF IInv, TaskPhase
  <1>4. QED
    BY <1>1, <1>2, <1>3 DEF MovesOn

(* The step of a goroutine: its own room moves on, the others are left alone. *)
LEMMA OwnRoomMovesOn ==
  ASSUME TypeOK, TypeOK', RegisteredRoomMovesOn, NEW own \in Room,
         rooms' \subseteq rooms,
         own \in rooms' => MovesOn(own)',
         \A r \in Room : r # own =>
           status'[r] = status[r] /\ currentRound'[r] = currentRound[r],
         \A t \in tasks : t.room # own => t \in tasks',
         \A x \in timers : x.room # own => x \in timers'
  PROVE  RegisteredRoomMovesOn'
  <1>1. ASSUME NEW r \in rooms', r # own PROVE MovesOn(r)'
    BY <1>1, StillMovesOn DEF RegisteredRoomMovesOn, TypeOK
  <1>2. QED
    BY <1>1 DEF RegisteredRoomMovesOn

(* A goroutine that stays the driver of a room which is not waiting. *)
LEMMA DriverMovesOn ==
  ASSUME TypeOK, TypeOK', NEW r \in Room, NEW s \in tasks', s.room = r,
         s.at # "timeout",
         \/ status'[r] \in {"countdown", "resolving"}
         \/ status'[r] = "finished" /\ s.at \in {"persist", "complete", "cleanup"}
              /\ LastRound(s)
  PROVE  MovesOn(r)'
  BY DEF MovesOn, Drivers, TasksOf, LastRound

(* Handlers and messages. *)
LEMMA HandlerMovesOn ==
  ASSUME TypeOK, TypeOK', IInv, RegisteredRoomMovesOn,
         NEW c \in Conn, Receive(c) \/ HandlerStepOf(c)
  PROVE  RegisteredRoomMovesOn'
  <1>1. ASSUME NEW why, AbandonUnregister(c, why) PROVE RegisteredRoomMovesOn'
    BY <1>1, AllMoveOn DEF AbandonUnregister
  <1>2. CASE AbandonEnd(c)
    <2>1. handler[c].room \in Room /\ handler[c].room \notin rooms
      BY <1>2 DEF AbandonEnd, TypeOK, Handler, IInv, HandlerPhase
    <2>2. QED
      BY <1>2, <2>1, AllMoveOn DEF AbandonEnd, TypeOK
  <1>3. CASE AbandonMark(c) \/ SweepInProgress(c) \/ CreateBotBattle(c) \/ CreateRefused(c)
    BY <1>3, AllMoveOn
       DEF AbandonMark, SweepInProgress, CreateBotBattle, CreateRefused
  <1>4. CASE RegisterRoom(c)
    <2> DEFINE r == handler[c].room
    <2>1. r \in Room
      BY <1>4 DEF RegisterRoom, TypeOK, Handler
    <2>2. PICK s : s = Goroutine(r, 0, c, "countdown", FALSE, ZeroScore)
      OBVIOUS
    <2>3. MovesOn(s.room)'
      <3>1. s.room = r /\ s.at = "countdown" /\ s \in tasks' /\ status'[r] = "countdown"
        BY <1>4, <2>1, <2>2 DEF RegisterRoom, TypeOK
      <3>2. QED
        BY <2>1, <3>1 DEF MovesOn, Drivers, TasksOf
    <2>4. ASSUME NEW x \in rooms', x # r PROVE MovesOn(x)'
      BY <1>4, <2>1, <2>4, StillMovesOn
         DEF RegisterRoom, TypeOK, RegisteredRoomMovesOn
    <2>5. s.room = r
      BY <2>2
    <2>6. QED
      BY <2>3, <2>4, <2>5 DEF RegisteredRoomMovesOn
  <1>5. ASSUME NEW r \in Room, StrikeAnswer(c, r) PROVE RegisteredRoomMovesOn'
    BY <1>5, AllMoveOn DEF StrikeAnswer
  <1>6. ASSUME NEW r \in Room, NEW k \in Key, NEW hit \in Outcome,
               AcceptAnswer(c, r, k, hit)
        PROVE  RegisteredRoomMovesOn'
    <2>1. PICK s : s = Goroutine(r, currentRound[r], c, "finish", hit, ZeroScore)
      OBVIOUS
    <2>2. s \in tasks' /\ s.room = r /\ s.at = "finish"
      BY <1>6, <2>1 DEF AcceptAnswer
    <2>3. status'[r] = "resolving"
      BY <1>6 DEF AcceptAnswer, TypeOK
    <2>4. MovesOn(r)'
      BY <2>2, <2>3, DriverMovesOn
    <2>5. QED
      BY <1>6, <2>4, OwnRoomMovesOn DEF AcceptAnswer, TypeOK
  <1>7. QED
    BY <1>1, <1>2, <1>3, <1>4, <1>5, <1>6
       DEF Receive, HandlerStepOf, ChallengeBot, AbandonForAbuse

(* Teardowns. *)
LEMMA CloserMovesOn ==
  ASSUME TypeOK, TypeOK', IInv, RegisteredRoomMovesOn,
         NEW c \in Conn, DisconnectUnregister(c) \/ CloserStepOf(c)
  PROVE  RegisteredRoomMovesOn'
  <1>1. CASE DisconnectUnregister(c) \/ DisconnectMark(c) \/ SocketCloses(c)
    BY <1>1, AllMoveOn DEF DisconnectUnregister, DisconnectMark, SocketCloses
  <1>2. CASE DisconnectEnd(c)
    <2>1. closer[c].room \in Room /\ closer[c].room \notin rooms
      BY <1>2 DEF DisconnectEnd, TypeOK, Closer, IInv, CloserPhase
    <2>2. QED
      BY <1>2, <2>1, AllMoveOn DEF DisconnectEnd, TypeOK
  <1>3. QED
    BY <1>1, <1>2 DEF CloserStepOf

(* A driver that only takes its next step. *)
LEMMA StepMovesOn ==
  ASSUME TypeOK, TypeOK', IInv, RegisteredRoomMovesOn,
         NEW t \in tasks, t.room \in rooms,
         NEW s, s.room = t.room, s.at # "timeout",
         tasks' = (tasks \ {t}) \cup {s}, UNCHANGED <<rooms, status, currentRound, timers>>,
         \/ status[t.room] \in {"countdown", "resolving"}
         \/ status[t.room] = "finished" /\ s.at \in {"persist", "complete", "cleanup"}
              /\ LastRound(s)
  PROVE  RegisteredRoomMovesOn'
  <1>1. MovesOn(t.room)'
    BY DriverMovesOn, TaskFields
  <1>2. QED
    BY <1>1, OwnRoomMovesOn, TaskFields

(* The driver of a room that is no longer registered. *)
LEMMA GoneMovesOn ==
  ASSUME TypeOK, TypeOK', RegisteredRoomMovesOn, NEW t \in tasks, t.room \notin rooms,
         UNCHANGED rooms,
         \A r \in Room : r # t.room =>
           status'[r] = status[r] /\ currentRound'[r] = currentRound[r],
         \A s \in tasks : s.room # t.room => s \in tasks',
         \A x \in timers : x.room # t.room => x \in timers'
  PROVE  RegisteredRoomMovesOn'
  BY OwnRoomMovesOn, TaskFields

(* Goroutines of a room. *)
LEMMA TaskMovesOn ==
  ASSUME TypeOK, TypeOK', IInv, RegisteredRoomMovesOn, NEW t \in tasks, TaskStepOf(t)
  PROVE  RegisteredRoomMovesOn'
  <1>1. CASE t.room \notin rooms /\ ~FinishCleanup(t)
    <2>1. UNCHANGED rooms
      BY <1>1 DEF TaskStepOf, Countdown, BeginRound, SettleTimeout, FinishStart,
                  ScoreRound, PersistRound, CompleteMatch
    <2>2. \A r \in Room : r # t.room =>
            status'[r] = status[r] /\ currentRound'[r] = currentRound[r]
      BY <1>1 DEF TaskStepOf, Countdown, BeginRound, SettleTimeout, FinishStart,
                  ScoreRound, PersistRound, CompleteMatch, TypeOK
    <2>3. \A s \in tasks : s.room # t.room => s \in tasks'
      BY <1>1 DEF TaskStepOf, Countdown, BeginRound, SettleTimeout, FinishStart,
                  ScoreRound, PersistRound, CompleteMatch
    <2>4. \A x \in timers : x.room # t.room => x \in timers'
      BY <1>1 DEF TaskStepOf, Countdown, BeginRound, SettleTimeout, FinishStart,
                  ScoreRound, PersistRound, CompleteMatch
    <2>5. QED
      BY <1>1, <2>1, <2>2, <2>3, <2>4, GoneMovesOn
  <1>2. CASE FinishCleanup(t)
    BY <1>2, OwnRoomMovesOn, TaskFields DEF FinishCleanup
  <1>3. CASE t.room \in rooms /\ Countdown(t)
    <2>1. status[t.room] \in {"countdown", "resolving"}
      BY <1>3, NotFinished DEF Countdown
    <2>2. PICK s : s = Goroutine(t.room, t.round, t.conn, "begin", t.hit, t.result)
      OBVIOUS
    <2>3. tasks' = (tasks \ {t}) \cup {s} /\ s.room = t.room /\ s.at = "begin"
      BY <1>3, <2>2 DEF Countdown
    <2>4. QED
      BY <1>3, <2>1, <2>3, StepMovesOn DEF Countdown
  <1>4. CASE t.room \in rooms /\ BeginRound(t)
    <2>1. status[t.room] \in {"countdown", "resolving"} /\ currentRound[t.room] < TotalRounds
      BY <1>4, NotFinished, TaskFields DEF BeginRound, IInv, RoundsLeft
    <2>2. /\ status' = [status EXCEPT ![t.room] = "question"]
          /\ timers' = {x \in timers : x.room # t.room}
                         \cup {[room |-> t.room, round |-> currentRound[t.room],
                                conn |-> t.conn]}
      <3>1. currentRound[t.room] \in Nat
        BY TaskFields DEF TypeOK
      <3>2. ~AlreadyFinished(t.room) /\ ~(currentRound[t.room] >= TotalRounds)
        BY <2>1, <3>1, BoundAssumption
      <3>3. QED
        BY <1>4, <3>2 DEF BeginRound
    <2>3. status'[t.room] = "question" /\ UNCHANGED currentRound
      BY <1>4, <2>2, TaskFields DEF BeginRound, TypeOK
    <2>4. PICK x : x = [room |-> t.room, round |-> currentRound[t.room], conn |-> t.conn]
      OBVIOUS
    <2>5. x \in timers' /\ x.room = t.room /\ x.round = currentRound[t.room]
      BY <2>2, <2>4
    <2>6. MovesOn(t.room)'
      BY <2>3, <2>5 DEF MovesOn
    <2>7. QED
      BY <1>4, <2>2, <2>6, OwnRoomMovesOn, TaskFields DEF BeginRound, TypeOK
  <1>5. CASE t.room \in rooms /\ SettleTimeout(t)
    <2>1. CASE TooLate(t)
      <3>1. MovesOn(t.room)'
        <4>1. MovesOn(t.room)
          BY <1>5 DEF RegisteredRoomMovesOn
        <4>2. tasks' = tasks \ {t} /\ UNCHANGED <<status, timers, currentRound>>
          BY <1>5, <2>1 DEF SettleTimeout
        <4>3. t.at = "timeout"
          BY <1>5 DEF SettleTimeout
        <4>4. QED
          BY <2>1, <4>1, <4>2, <4>3
             DEF MovesOn, TooLate, Drivers, TasksOf, LastRound
      <3>2. QED
        BY <1>5, <2>1, <3>1, OwnRoomMovesOn, TaskFields DEF SettleTimeout
    <2>2. CASE ~TooLate(t)
      <3>1. PICK s : s = Goroutine(t.room, t.round, t.conn, "finish", t.hit, t.result)
        OBVIOUS
      <3>2. s \in tasks' /\ s.room = t.room /\ s.at = "finish"
        BY <1>5, <2>2, <3>1 DEF SettleTimeout
      <3>3. status'[t.room] = "resolving"
        BY <1>5, <2>2, TaskFields DEF SettleTimeout, TypeOK
      <3>4. MovesOn(t.room)'
        BY <3>2, <3>3, DriverMovesOn, TaskFields
      <3>5. QED
        BY <1>5, <2>2, <3>4, OwnRoomMovesOn, TaskFields DEF SettleTimeout, TypeOK
    <2>3. QED
      BY <2>1, <2>2
  <1>6. CASE t.room \in rooms /\ FinishStart(t)
    <2>1. status[t.room] = "resolving"
      BY <1>6, NotFinished DEF FinishStart, IInv, TaskPhase
    <2>2. PICK s : s = Goroutine(t.room, currentRound[t.room], t.conn, "score", t.hit,
                                 ZeroScore)
      OBVIOUS
    <2>3. tasks' = (tasks \ {t}) \cup {s} /\ s.room = t.room /\ s.at = "score"
      BY <1>6, <2>1, <2>2 DEF FinishStart
    <2>4. QED
      BY <1>6, <2>1, <2>3, StepMovesOn DEF FinishStart
  <1>7. ASSUME NEW botHit \in Outcome, t.room \in rooms, ScoreRound(t, botHit)
        PROVE  RegisteredRoomMovesOn'
    <2>1. ~AlreadyFinished(t.room)
      BY <1>7, NotFinished DEF ScoreRound
    <2> DEFINE result == [user |-> userScore[t.room] + Bit(t.hit),
                          opponent |-> opponentScore[t.room] + Bit(botHit)]
               next == Goroutine(t.room, t.round, t.conn, "persist", t.hit, result)
    <2>2. tasks' = (tasks \ {t}) \cup {next}
      BY <1>7, <2>1 DEF ScoreRound
    <2>3. next.room = t.room /\ next.at = "persist" /\ next.round = t.round
      OBVIOUS
    <2> HIDE DEF next
    <2>4. PICK s \in tasks' : /\ s.room = t.room /\ s.at = "persist" /\ s.round = t.round
                              /\ \A x \in tasks : x # t => x \in tasks'
      BY <2>2, <2>3
    <2>5. status'[t.room] = IF LastRound(t) THEN "finished" ELSE "countdown"
      BY <1>7, <2>1, TaskFields DEF ScoreRound, TypeOK
    <2>6. MovesOn(t.room)'
      BY <2>4, <2>5, DriverMovesOn, TaskFields DEF LastRound
    <2>7. QED
      BY <1>7, <2>1, <2>4, <2>6, OwnRoomMovesOn, TaskFields DEF ScoreRound, TypeOK
  <1>8. CASE t.room \in rooms /\ (PersistRound(t) \/ CompleteMatch(t))
    <2>1. \A d \in Drivers(t.room) : d = t
      BY <1>8, TaskFields
         DEF IInv, OneDriver, Drivers, TasksOf, PersistRound, CompleteMatch
    <2>2. status[t.room] \in {"countdown", "finished"}
      BY <1>8 DEF PersistRound, CompleteMatch, IInv, TaskPhase
    <2>3. MovesOn(t.room)
      BY <1>8 DEF RegisteredRoomMovesOn
    <2>4. status[t.room] = "finished" => LastRound(t)
      BY <2>1, <2>3 DEF MovesOn
    <2>5. LastRound(t) => status[t.room] = "finished"
      BY <1>8 DEF PersistRound, CompleteMatch, IInv, TaskPhase
    <2>6. PICK s : /\ tasks' = (tasks \ {t}) \cup {s}
                   /\ s.room = t.room /\ s.round = t.round
                   /\ s.at \in {"countdown", "complete", "cleanup"}
                   /\ LastRound(t) => s.at \in {"complete", "cleanup"}
      <3>1. PICK step \in {"countdown", "complete", "cleanup"} :
               TaskAt(t, step) /\ (LastRound(t) => step \in {"complete", "cleanup"})
        BY <1>8 DEF PersistRound, CompleteMatch
      <3>2. PICK s : s = Goroutine(t.room, t.round, t.conn, step, t.hit, t.result)
        OBVIOUS
      <3>3. QED
        BY <3>1, <3>2
    <2>7. UNCHANGED <<rooms, status, currentRound, timers>>
      BY <1>8 DEF PersistRound, CompleteMatch
    <2>8. QED
      BY <1>8, <2>2, <2>4, <2>6, <2>7, StepMovesOn DEF LastRound
  <1>9. QED
    BY <1>1, <1>2, <1>3, <1>4, <1>5, <1>6, <1>7, <1>8 DEF TaskStepOf

(* A round timer that fires is replaced by the callback of the same round. *)
LEMMA TimerMovesOn ==
  ASSUME TypeOK, TypeOK', RegisteredRoomMovesOn, NEW x \in timers, TimerFires(x)
  PROVE  RegisteredRoomMovesOn'
  <1>1. x.room \in Room
    BY DEF TypeOK, Timer
  <1>2. ASSUME x.room \in rooms PROVE MovesOn(x.room)'
    <2>1. PICK s : s = Goroutine(x.room, x.round, x.conn, "timeout", FALSE, ZeroScore)
      OBVIOUS
    <2>2. s \in tasks' /\ s.room = x.room /\ s.round = x.round /\ s.at = "timeout"
      BY <1>2, <2>1 DEF TimerFires
    <2>3. /\ UNCHANGED <<status, currentRound>>
          /\ timers' = timers \ {x}
          /\ tasks \subseteq tasks'
      BY DEF TimerFires
    <2>4. MovesOn(x.room)
      BY <1>2 DEF RegisteredRoomMovesOn
    <2>5. QED
      BY <2>2, <2>3, <2>4 DEF MovesOn, Drivers, TasksOf, LastRound
  <1>3. QED
    BY <1>1, <1>2, OwnRoomMovesOn DEF TimerFires

(* The index holds no room that is waiting for nothing: whatever handlers,
   teardowns, timers, replacements and failed writes do, a registered room has
   a timer or a goroutine that will move it on, and a finished one the
   goroutine that will remove it. *)
THEOREM NoRoomStranded == Spec => []RegisteredRoomMovesOn
  <1>1. Init => RegisteredRoomMovesOn
    BY DEF Init, RegisteredRoomMovesOn
  <1>2. TypeOK /\ IInv /\ TypeOK' /\ [Next]_vars /\ RegisteredRoomMovesOn
          => RegisteredRoomMovesOn'
    <2> SUFFICES ASSUME TypeOK, IInv, TypeOK', [Next]_vars, RegisteredRoomMovesOn
                 PROVE  RegisteredRoomMovesOn'
      OBVIOUS
    <2>1. CASE UNCHANGED vars \/ \E r \in Room : AdminAbort(r)
      BY <2>1, AllMoveOn DEF vars, AdminAbort
    <2>2. CASE Crash
      BY <2>2 DEF Crash, RegisteredRoomMovesOn
    <2>3. QED
      BY <2>1, <2>2, HandlerMovesOn, CloserMovesOn, TaskMovesOn, TimerMovesOn
         DEF Next
  <1>3. QED
    BY <1>1, <1>2, InvariantHolds, PTL DEF Spec

(* A registered room can be found by its learner and will be removed. *)
THEOREM RoomsHold == Spec => []RoomsAreHeld
  BY NoRoomStranded, IndexesStayInStep, PTL DEF RoomsAreHeld

-----------------------------------------------------------------------------
(* Matches that a crash left behind *)

(* The phases between the sweep of a learner's old matches and the moment the
   new one is indexed. *)
PastTheSweep == {"create", "register"}

(* A learner who is past the sweep has no orphan. *)
SweptClean(c) ==
  handler[c].at \in PastTheSweep =>
    \A r \in Room : OwnedBy(r, UserOf[c]) => ~Orphan(r)

(* A message or a handler's step moves no other handler. *)
LEMMA OtherHandlersWait ==
  ASSUME TypeOK, NEW d \in Conn, Receive(d) \/ HandlerStepOf(d), NEW c \in Conn, d # c
  PROVE  handler'[c] = handler[c]
  <1>1. ASSUME NEW why, AbandonUnregister(d, why) PROVE handler'[c] = handler[c]
    BY <1>1 DEF TypeOK, AbandonUnregister, AbandonReturns
  <1>2. CASE Receive(d)
    <2>1. CASE ChallengeBot(d)
      BY <1>1, <2>1 DEF ChallengeBot
    <2>2. ASSUME NEW r \in Room, StrikeAnswer(d, r) PROVE handler'[c] = handler[c]
      BY <2>2 DEF TypeOK, StrikeAnswer
    <2>3. ASSUME NEW r \in Room, NEW k \in Key, NEW hit \in Outcome, AcceptAnswer(d, r, k, hit)
          PROVE  handler'[c] = handler[c]
      BY <2>3 DEF AcceptAnswer
    <2>4. QED
      BY <1>2, <2>1, <2>2, <2>3 DEF Receive
  <1>3. CASE AbandonForAbuse(d)
    BY <1>1, <1>3 DEF AbandonForAbuse
  <1>4. CASE AbandonEnd(d) \/ AbandonMark(d) \/ SweepInProgress(d)
    BY <1>4 DEF TypeOK, AbandonEnd, AbandonMark, AbandonReturns, SweepInProgress
  <1>5. CASE CreateBotBattle(d) \/ CreateRefused(d) \/ RegisterRoom(d)
    BY <1>5 DEF TypeOK, CreateBotBattle, CreateRefused, RegisterRoom
  <1>6. QED
    BY <1>2, <1>3, <1>4, <1>5 DEF HandlerStepOf

(* The handler of a connection waits to index its match until it does so: only
   that step and a crash take it out of the phase. *)
LEMMA RegisterWaits ==
  ASSUME TypeOK, Next, ~Crash, NEW c \in Conn, handler[c].at = "register", ~RegisterRoom(c)
  PROVE  handler'[c] = handler[c]
  <1>1. ASSUME NEW d \in Conn, Receive(d) \/ HandlerStepOf(d) PROVE handler'[c] = handler[c]
    <2>1. CASE d = c
      BY <1>1, <2>1
         DEF Receive, ChallengeBot, StrikeAnswer, AcceptAnswer, AnswerArrives, Reads,
             HandlerStepOf, AbandonForAbuse, AbandonEnd, AbandonMark, SweepInProgress,
             CreateBotBattle, CreateRefused
    <2>2. CASE d # c
      BY <1>1, <2>2, OtherHandlersWait
    <2>3. QED
      BY <2>1, <2>2
  <1>2. ASSUME NEW d \in Conn, DisconnectUnregister(d) \/ CloserStepOf(d)
        PROVE  UNCHANGED handler
    BY <1>2 DEF DisconnectUnregister, CloserStepOf, DisconnectEnd, DisconnectMark,
                SocketCloses
  <1>3. ASSUME NEW t \in tasks, TaskStepOf(t) PROVE UNCHANGED handler
    BY <1>3 DEF TaskStepOf, Countdown, BeginRound, SettleTimeout, FinishStart,
                ScoreRound, PersistRound, CompleteMatch, FinishCleanup
  <1>4. CASE (\E x \in timers : TimerFires(x)) \/ (\E r \in Room : AdminAbort(r))
    BY <1>4 DEF TimerFires, AdminAbort
  <1>5. QED
    BY <1>1, <1>2, <1>3, <1>4 DEF Next

(* A row comes to be in progress only when its match is created. *)
LEMMA OnlyCreationOpens ==
  ASSUME TypeOK, Next, NEW r \in Room, session'[r] = "in_progress"
  PROVE  \/ session[r] = "in_progress"
         \/ \E c \in Conn : handler'[c].at = "register" /\ handler'[c].room = r
  <1>1. ASSUME NEW c \in Conn, CreateBotBattle(c), session[r] # "in_progress"
        PROVE  handler'[c].at = "register" /\ handler'[c].room = r
    BY <1>1 DEF CreateBotBattle, TypeOK
  <1>2. ASSUME NEW c \in Conn, Receive(c) \/ DisconnectUnregister(c) \/ CloserStepOf(c)
        PROVE  session[r] = "in_progress"
    BY <1>2
       DEF TypeOK, Receive, ChallengeBot, AbandonUnregister, StrikeAnswer, AcceptAnswer,
           DisconnectUnregister, CloserStepOf, DisconnectEnd, DisconnectMark, MayFail,
           MarkAbandoned, SocketCloses
  <1>3. ASSUME NEW c \in Conn, HandlerStepOf(c), ~CreateBotBattle(c)
        PROVE  session[r] = "in_progress"
    BY <1>3
       DEF TypeOK, HandlerStepOf, AbandonForAbuse, AbandonUnregister, AbandonEnd,
           AbandonMark, MayFail, MarkAbandoned, SweepInProgress, SweepSessions,
           CreateRefused, RegisterRoom
  <1>4. ASSUME NEW t \in tasks, TaskStepOf(t) PROVE session[r] = "in_progress"
    BY <1>4
       DEF TypeOK, TaskStepOf, Countdown, BeginRound, SettleTimeout, FinishStart,
           ScoreRound, PersistRound, CompleteMatch, MayFail, MarkCompleted, FinishCleanup
  <1>5. CASE (\E x \in timers : TimerFires(x)) \/ (\E s \in Room : AdminAbort(s)) \/ Crash
    BY <1>5 DEF TypeOK, TimerFires, AdminAbort, Crash
  <1>6. QED
    BY <1>1, <1>2, <1>3, <1>4, <1>5 DEF Next

(* Only a crash forgets a room that was in memory. *)
LEMMA OnlyCrashForgets ==
  ASSUME TypeOK, Next, ~Crash, NEW r \in Room, status[r] # "none"
  PROVE  status'[r] # "none"
  <1>1. ASSUME NEW c \in Conn, Receive(c) \/ DisconnectUnregister(c) \/ CloserStepOf(c)
        PROVE  status'[r] # "none"
    BY <1>1
       DEF TypeOK, Receive, ChallengeBot, AbandonUnregister, StrikeAnswer, AcceptAnswer,
           DisconnectUnregister, CloserStepOf, DisconnectEnd, DisconnectMark, SocketCloses
  <1>2. ASSUME NEW c \in Conn, HandlerStepOf(c) PROVE status'[r] # "none"
    BY <1>2
       DEF TypeOK, HandlerStepOf, AbandonForAbuse, AbandonUnregister, AbandonEnd,
           AbandonMark, SweepInProgress, CreateBotBattle, CreateRefused, RegisterRoom
  <1>3. ASSUME NEW t \in tasks, TaskStepOf(t) PROVE status'[r] # "none"
    BY <1>3
       DEF TypeOK, TaskStepOf, Countdown, BeginRound, SettleTimeout, FinishStart,
           ScoreRound, PersistRound, CompleteMatch, FinishCleanup
  <1>4. CASE (\E x \in timers : TimerFires(x)) \/ (\E s \in Room : AdminAbort(s))
    BY <1>4 DEF TimerFires, AdminAbort
  <1>5. QED
    BY <1>1, <1>2, <1>3, <1>4 DEF Next

(* No other step orphans a match. *)
LEMMA OnlyCrashOrphans ==
  ASSUME TypeOK, TypeOK', IInv, Next, ~Crash, NEW r \in Room, ~Orphan(r)
  PROVE  ~Orphan(r)'
  <1> SUFFICES ASSUME session'[r] = "in_progress"
               PROVE  \/ status'[r] # "none"
                      \/ \E c \in Conn : handler'[c].at = "register" /\ handler'[c].room = r
    BY DEF Orphan
  <1>1. CASE session[r] # "in_progress"
    BY <1>1, OnlyCreationOpens
  <1>2. CASE status[r] # "none"
    BY <1>2, OnlyCrashForgets
  <1>3. ASSUME NEW c \in Conn, handler[c].at = "register", handler[c].room = r
        PROVE  \/ status'[r] # "none"
               \/ handler'[c].at = "register" /\ handler'[c].room = r
    <2>1. CASE RegisterRoom(c)
      BY <1>3, <2>1 DEF RegisterRoom, TypeOK
    <2>2. CASE ~RegisterRoom(c)
      BY <1>3, <2>2, RegisterWaits
    <2>3. QED
      BY <2>1, <2>2
  <1>4. QED
    BY <1>1, <1>2, <1>3 DEF Orphan

(* A handler gets past the sweep only by a sweep, and if that does not fail it
   leaves none of the learner's matches in progress. *)
LEMMA SweepRetires ==
  ASSUME TypeOK, TypeOK', IInv, Next, ~StoreFails, NEW c \in Conn,
         handler'[c].at \in PastTheSweep, handler[c].at \notin PastTheSweep,
         NEW r \in Room, OwnedBy(r, UserOf[c])'
  PROVE  session'[r] # "in_progress"
  <1>1. ASSUME NEW d \in Conn, SweepInProgress(d) PROVE session'[r] # "in_progress"
    <2>1. d = c
      BY <1>1 DEF SweepInProgress, TypeOK, PastTheSweep
    <2>2. QED
      BY <1>1, <2>1 DEF SweepInProgress, SweepSessions, MayFail, OwnedBy
  <1>2. ASSUME NEW d \in Conn, Receive(d) \/ (HandlerStepOf(d) /\ ~SweepInProgress(d))
        PROVE  FALSE
    <2>1. CASE d = c
      <3>1. ASSUME NEW why, AbandonUnregister(c, why) PROVE FALSE
        BY <3>1 DEF TypeOK, PastTheSweep, AbandonUnregister, AbandonReturns
      <3>2. CASE Receive(c)
        <4>1. CASE ChallengeBot(c)
          BY <3>1, <4>1 DEF ChallengeBot
        <4>2. ASSUME NEW s \in Room, StrikeAnswer(c, s) PROVE FALSE
          BY <4>2 DEF TypeOK, PastTheSweep, StrikeAnswer
        <4>3. ASSUME NEW s \in Room, NEW k \in Key, NEW hit \in Outcome,
                     AcceptAnswer(c, s, k, hit)
              PROVE  FALSE
          BY <4>3 DEF AcceptAnswer
        <4>4. QED
          BY <3>2, <4>1, <4>2, <4>3 DEF Receive
      <3>3. CASE AbandonForAbuse(c)
        BY <3>1, <3>3 DEF AbandonForAbuse
      <3>4. CASE AbandonEnd(c) \/ AbandonMark(c)
        BY <3>4 DEF TypeOK, PastTheSweep, AbandonEnd, AbandonMark, AbandonReturns
      <3>5. CASE CreateBotBattle(c) \/ CreateRefused(c) \/ RegisterRoom(c)
        BY <3>5 DEF TypeOK, PastTheSweep, CreateBotBattle, CreateRefused, RegisterRoom
      <3>6. QED
        BY <1>2, <2>1, <3>2, <3>3, <3>4, <3>5 DEF HandlerStepOf
    <2>2. CASE d # c
      BY <1>2, <2>2, OtherHandlersWait
    <2>3. QED
      BY <2>1, <2>2
  <1>3. ASSUME NEW d \in Conn, DisconnectUnregister(d) \/ CloserStepOf(d) PROVE FALSE
    BY <1>3 DEF DisconnectUnregister, CloserStepOf, DisconnectEnd, DisconnectMark,
                SocketCloses
  <1>4. ASSUME NEW t \in tasks, TaskStepOf(t) PROVE FALSE
    BY <1>4 DEF TaskStepOf, Countdown, BeginRound, SettleTimeout, FinishStart,
                ScoreRound, PersistRound, CompleteMatch, FinishCleanup
  <1>5. CASE (\E x \in timers : TimerFires(x)) \/ (\E s \in Room : AdminAbort(s))
    BY <1>5 DEF TimerFires, AdminAbort
  <1>6. CASE Crash
    BY <1>6 DEF Crash, Idle, PastTheSweep
  <1>7. QED
    BY <1>1, <1>2, <1>3, <1>4, <1>5, <1>6 DEF Next

(* Every step. *)
LEMMA StaysSweptClean ==
  ASSUME TypeOK, TypeOK', IInv, [Next]_vars, ~StoreFails, NEW c \in Conn, SweptClean(c)
  PROVE  SweptClean(c)'
  <1>1. CASE UNCHANGED vars
    BY <1>1 DEF vars, SweptClean, OwnedBy, Orphan
  <1>2. CASE Crash
    BY <1>2 DEF Crash, Idle, SweptClean, PastTheSweep
  <1>3. CASE Next /\ ~Crash
    <2> SUFFICES ASSUME handler'[c].at \in PastTheSweep,
                        NEW r \in Room, OwnedBy(r, UserOf[c])'
                 PROVE  ~Orphan(r)'
      BY DEF SweptClean
    <2>1. CASE handler[c].at \notin PastTheSweep
      BY <1>3, <2>1, SweepRetires DEF Orphan
    <2>2. CASE handler[c].at \in PastTheSweep
      <3>1. CASE owner[r] = NoConn
        BY <1>3, <3>1, OnlyCrashOrphans DEF Orphan, IInv, RowsHaveOwners
      <3>2. CASE owner[r] # NoConn
        <4>1. OwnedBy(r, UserOf[c])
          BY <3>2, OwnersStay DEF OwnedBy
        <4>2. QED
          BY <1>3, <2>2, <4>1, OnlyCrashOrphans DEF SweptClean
      <3>3. QED
        BY <3>1, <3>2
    <2>3. QED
      BY <2>1, <2>2
  <1>4. QED
    BY <1>1, <1>2, <1>3

(* Whatever a crash left in progress, none of it is left when the learner's
   next match exists, unless the write that retires it fails. *)
THEOREM OrphansAreRetired == ~StoreFails /\ Spec => []NextMatchRetiresOrphans
  <1> DEFINE Clean == \A c \in Conn : SweptClean(c)
  <1>1. Init => Clean
    BY DEF Init, Idle, SweptClean, PastTheSweep
  <1>2. Clean => NextMatchRetiresOrphans
    BY DEF SweptClean, PastTheSweep, NextMatchRetiresOrphans
  <1>3. CASE ~StoreFails
    <2>1. TypeOK /\ IInv /\ TypeOK' /\ [Next]_vars /\ Clean => Clean'
      BY <1>3, StaysSweptClean
    <2> HIDE DEF Clean
    <2>2. QED
      BY <1>1, <1>2, <2>1, InvariantHolds, PTL DEF Spec
  <1>4. QED
    BY <1>3
=============================================================================
