----------------------------- MODULE MatchLedger -----------------------------
(***************************************************************************)
(* What the rows of learning.battle_session promise about matches, however *)
(* rooms, timers and connections are scheduled: the abstract specification *)
(* of the match engine.  A match is played one round at a time, its        *)
(* running score is saved now and then, and its row ends once, completed   *)
(* or abandoned.  BotBattle and PvpBattle implement it.                    *)
(***************************************************************************)
EXTENDS Naturals

CONSTANTS
  Match,        \* identities of matches
  TotalRounds   \* questions of a match

VARIABLES
  session,    \* battle_session.status of each match
  round,      \* rounds played
  score,      \* score the players were shown
  stored,     \* battle_session.user_score and opponent_score
  announced   \* matches whose result was sent to the players

ledgerVars == <<session, round, score, stored, announced>>

Points == [user : Nat, opponent : Nat]

LedgerTypeOK ==
  /\ session \in [Match -> {"absent", "in_progress", "completed", "abandoned"}]
  /\ round \in [Match -> Nat]
  /\ score \in [Match -> Points]
  /\ stored \in [Match -> Points]
  /\ announced \subseteq Match

NoPoints == [user |-> 0, opponent |-> 0]

LedgerInit ==
  /\ session = [m \in Match |-> "absent"]
  /\ round = [m \in Match |-> 0]
  /\ score = [m \in Match |-> NoPoints]
  /\ stored = [m \in Match |-> NoPoints]
  /\ announced = {}

(* A match is created and its row inserted. *)
OpenMatch(m) ==
  /\ session[m] = "absent"
  /\ session' = [session EXCEPT ![m] = "in_progress"]
  /\ UNCHANGED <<round, score, stored, announced>>

(* One more round is played; each side earns at most one point.  A match whose
   row was abandoned behind its back may be played on. *)
PlayRound(m, user, opponent) ==
  /\ session[m] # "absent"
  /\ round[m] < TotalRounds
  /\ round' = [round EXCEPT ![m] = @ + 1]
  /\ score' = [score EXCEPT ![m] = [user |-> @.user + user,
                                    opponent |-> @.opponent + opponent]]
  /\ UNCHANGED <<session, stored, announced>>

(* The running score reaches the row, whatever the row's status. *)
SaveScore(m) ==
  /\ stored' = [stored EXCEPT ![m] = score[m]]
  /\ UNCHANGED <<session, round, score, announced>>

(* A match played to its last round is announced; its row is completed with
   the final score if it is still in progress and the write does not fail. *)
FinishMatch(m) ==
  /\ round[m] = TotalRounds
  /\ announced' = announced \cup {m}
  /\ \/ /\ session[m] = "in_progress"
        /\ session' = [session EXCEPT ![m] = "completed"]
        /\ stored' = [stored EXCEPT ![m] = score[m]]
     \/ UNCHANGED <<session, stored>>
  /\ UNCHANGED <<round, score>>

(* Rows still in progress are abandoned: one by its room, all those of a
   learner before the next match, one by an administrator. *)
AbandonMatches(ms) ==
  /\ \A m \in ms : session[m] = "in_progress"
  /\ session' = [m \in Match |-> IF m \in ms THEN "abandoned" ELSE session[m]]
  /\ UNCHANGED <<round, score, stored, announced>>

LedgerNext ==
  \/ \E m \in Match :
       \/ OpenMatch(m)
       \/ \E user, opponent \in {0, 1} : PlayRound(m, user, opponent)
       \/ SaveScore(m)
       \/ FinishMatch(m)
  \/ \E ms \in SUBSET Match : AbandonMatches(ms)

LedgerSpec == LedgerInit /\ [][LedgerNext]_ledgerVars

-----------------------------------------------------------------------------
(* Properties *)

(* A completed row tells the whole match: every round was played and the row
   holds the score the players were shown. *)
CompletedRowIsFinal ==
  \A m \in Match : session[m] = "completed" =>
    round[m] = TotalRounds /\ stored[m] = score[m]

(* A row that ended keeps its status, and once completed it also keeps its
   score: late writes of running scores change nothing in it. *)
ResultNeverChanges ==
  [][\A m \in Match :
       /\ session[m] = "abandoned" => session'[m] = "abandoned"
       /\ session[m] = "completed" => /\ session'[m] = "completed"
                                      /\ stored'[m] = stored[m]]_ledgerVars
=============================================================================
