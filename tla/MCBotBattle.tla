---------------------------- MODULE MCBotBattle ----------------------------
(* Small instances of BotBattle: one learner behind every tab. *)
EXTENDS BotBattleInv, TLC

CONSTANTS u1, c1, c2

OneLearner == [c \in Conn |-> u1]
RoomSymmetry == Permutations(Room)
=============================================================================
