---------------------------- MODULE BotBattleInv ----------------------------
(***************************************************************************)
(* The inductive invariant of BotBattle.  The safety properties do not     *)
(* survive a step by themselves: they rest on which phase a room is in     *)
(* while a goroutine of each kind works on it, on what a handler or a      *)
(* teardown that took a room out of the index may assume about it later,   *)
(* and on the identity of rooms whose row exists but which are not in      *)
(* memory yet.                                                             *)
(***************************************************************************)
EXTENDS BotBattle

ShownScore(r) == [user |-> userScore[r], opponent |-> opponentScore[r]]

(* A row exists exactly when the match has an owner, and nothing is known of a
   match without a row. *)
RowsHaveOwners ==
  \A r \in Room :
    /\ session[r] = "absent" <=> owner[r] = NoConn
    /\ session[r] = "absent" => status[r] = "none" /\ currentRound[r] = 0
                                /\ userScore[r] = 0 /\ opponentScore[r] = 0

(* Indexes and goroutines refer to rooms in memory, and a connection is only
   indexed under a match it opened. *)
InMemory ==
  /\ \A r \in rooms : status[r] # "none"
  /\ \A t \in tasks : status[t.room] # "none"
  /\ \A c \in Conn : connToRoom[c] # NoRoom =>
       status[connToRoom[c]] # "none" /\ owner[connToRoom[c]] = c

(* What is about to be marked abandoned is over before its last round. *)
EndedEarly(r) == status[r] = "finished" /\ currentRound[r] < TotalRounds

(* A handler that took a room out of the index may count on it staying out, in
   memory; between the transaction and the index it holds a match of its own
   that nobody has seen. *)
HandlerPhase(c) ==
  LET r == handler[c].room IN
  /\ handler[c].at \in {"end", "mark"} => r \notin rooms /\ status[r] # "none"
  /\ handler[c].at = "mark" => EndedEarly(r)
  /\ handler[c].at = "register" =>
       owner[r] = c /\ status[r] = "none" /\ currentRound[r] = 0

(* The same for a teardown. *)
CloserPhase(c) ==
  LET r == closer[c].room IN
  /\ closer[c].at \in {"end", "mark"} => r \notin rooms /\ status[r] # "none"
  /\ closer[c].at = "mark" => EndedEarly(r)

(* What a goroutine of each kind finds its room in. *)
TaskPhase(t) ==
  LET r == t.room IN
  /\ t.at \in {"countdown", "begin"} => status[r] \in {"countdown", "finished"}
  /\ t.at \in {"finish", "score"} =>
       \/ status[r] = "finished"
       \/ status[r] = "resolving" /\ t.round = currentRound[r]
  /\ t.at \in {"persist", "complete", "cleanup"} =>
       /\ currentRound[r] = t.round + 1
       /\ t.result = ShownScore(r)
       /\ status[r] \in {"countdown", "finished"}
       /\ LastRound(t) => status[r] = "finished"
  /\ t.at \in {"complete", "cleanup"} => LastRound(t)

(* A match that is not over has rounds left; scores never exceed rounds. *)
RoundsLeft ==
  \A r \in Room :
    /\ status[r] \in {"countdown", "question", "resolving"} =>
         currentRound[r] < TotalRounds
    /\ currentRound[r] <= TotalRounds
    /\ userScore[r] <= currentRound[r]
    /\ opponentScore[r] <= currentRound[r]

(* Goroutines, timers, handlers and teardowns work for the learner of their
   room. *)
OwnersWork ==
  /\ \A t \in tasks : OwnedBy(t.room, UserOf[t.conn])
  /\ \A x \in timers : OwnedBy(x.room, UserOf[x.conn])
  /\ \A c \in Conn : handler[c].room # NoRoom => OwnedBy(handler[c].room, UserOf[c])
  /\ \A c \in Conn : closer[c].room # NoRoom => owner[closer[c].room] = c

(* The inductive invariant of phases; OwnersWork, IndexesAgree and
   RegisteredRoomMovesOn are inductive on top of it. *)
IInv ==
  /\ RowsHaveOwners
  /\ InMemory
  /\ \A c \in Conn : HandlerPhase(c)
  /\ \A c \in Conn : CloserPhase(c)
  /\ \A t \in tasks : TaskPhase(t)
  /\ OneDriver
  /\ RoundsLeft
  /\ CompletedWasPlayedOut
=============================================================================
