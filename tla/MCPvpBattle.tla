---------------------------- MODULE MCPvpBattle ----------------------------
(* Small instances of PvpBattle: which learner is behind each tab. *)
EXTENDS PvpBattle, TLC

CONSTANTS u1, u2

(* A tab each: the tab of a learner goes by the learner's name, so that learners
   may be exchanged tabs and all. *)
OneTabEach == [c \in Conn |-> c]
LearnerSymmetry == Permutations(User) \cup Permutations(Room)
RivalSymmetry == LearnerSymmetry \cup Permutations(Challenge)
=============================================================================
