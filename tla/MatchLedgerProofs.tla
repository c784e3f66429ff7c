-------------------------- MODULE MatchLedgerProofs --------------------------
(* Safety of MatchLedger for any set of matches and any number of rounds. *)
EXTENDS MatchLedger, TLAPS

(* Types and finality of completed rows are preserved together. *)
LEMMA LedgerKept ==
  ASSUME LedgerTypeOK, CompletedRowIsFinal, [LedgerNext]_ledgerVars
  PROVE  LedgerTypeOK' /\ CompletedRowIsFinal'
  <1>1. CASE UNCHANGED ledgerVars
    BY <1>1 DEF ledgerVars, LedgerTypeOK, CompletedRowIsFinal
  <1>2. ASSUME NEW m \in Match, OpenMatch(m)
        PROVE  LedgerTypeOK' /\ CompletedRowIsFinal'
    BY <1>2 DEF OpenMatch, LedgerTypeOK, CompletedRowIsFinal
  <1>3. ASSUME NEW m \in Match, NEW user \in {0, 1}, NEW opponent \in {0, 1},
               PlayRound(m, user, opponent)
        PROVE  LedgerTypeOK' /\ CompletedRowIsFinal'
    <2> DEFINE earned == [user |-> score[m].user + user,
                          opponent |-> score[m].opponent + opponent]
    <2>1. earned \in Points /\ round[m] + 1 \in Nat
      BY DEF LedgerTypeOK, Points
    <2>2. score' = [score EXCEPT ![m] = earned] /\ session[m] # "completed"
      BY <1>3 DEF PlayRound, LedgerTypeOK, CompletedRowIsFinal
    <2> HIDE DEF earned
    <2>3. LedgerTypeOK'
      BY <1>3, <2>1, <2>2 DEF PlayRound, LedgerTypeOK
    <2>4. CompletedRowIsFinal'
      BY <1>3, <2>2 DEF PlayRound, LedgerTypeOK, CompletedRowIsFinal
    <2>5. QED
      BY <2>3, <2>4
  <1>4. ASSUME NEW m \in Match, SaveScore(m) \/ FinishMatch(m)
        PROVE  LedgerTypeOK' /\ CompletedRowIsFinal'
    BY <1>4 DEF SaveScore, FinishMatch, LedgerTypeOK, CompletedRowIsFinal
  <1>5. ASSUME NEW ms \in SUBSET Match, AbandonMatches(ms)
        PROVE  LedgerTypeOK' /\ CompletedRowIsFinal'
    BY <1>5 DEF AbandonMatches, LedgerTypeOK, CompletedRowIsFinal
  <1>6. QED
    BY <1>1, <1>2, <1>3, <1>4, <1>5 DEF LedgerNext

(* A completed row was played out and holds the score that was shown. *)
THEOREM LedgerInvariant == LedgerSpec => [](LedgerTypeOK /\ CompletedRowIsFinal)
  <1>1. LedgerInit => LedgerTypeOK /\ CompletedRowIsFinal
    BY DEF LedgerInit, LedgerTypeOK, CompletedRowIsFinal, NoPoints, Points
  <1>2. LedgerTypeOK /\ CompletedRowIsFinal /\ [LedgerNext]_ledgerVars =>
          (LedgerTypeOK /\ CompletedRowIsFinal)'
    BY LedgerKept
  <1>3. QED
    BY <1>1, <1>2, PTL DEF LedgerSpec

(* A row that ended stays as it is: an abandoned one keeps its status, a
   completed one its status and its score. *)
THEOREM ResultIsFinal == LedgerSpec => ResultNeverChanges
  <1> DEFINE Final == \A m \in Match :
               /\ session[m] = "abandoned" => session'[m] = "abandoned"
               /\ session[m] = "completed" => /\ session'[m] = "completed"
                                              /\ stored'[m] = stored[m]
  <1>1. ASSUME LedgerTypeOK, CompletedRowIsFinal, LedgerNext PROVE Final
    <2>1. ASSUME NEW m \in Match,
                 \/ OpenMatch(m) \/ SaveScore(m) \/ FinishMatch(m)
                 \/ \E user, opponent \in {0, 1} : PlayRound(m, user, opponent)
          PROVE  Final
      BY <1>1, <2>1 DEF OpenMatch, SaveScore, FinishMatch, PlayRound, LedgerTypeOK,
                        CompletedRowIsFinal
    <2>2. ASSUME NEW ms \in SUBSET Match, AbandonMatches(ms) PROVE Final
      BY <1>1, <2>2 DEF AbandonMatches, LedgerTypeOK
    <2>3. QED
      BY <1>1, <2>1, <2>2 DEF LedgerNext
  <1>2. LedgerTypeOK /\ CompletedRowIsFinal /\ [LedgerNext]_ledgerVars =>
          [Final]_ledgerVars
    BY <1>1
  <1>3. QED
    BY <1>2, LedgerInvariant, PTL DEF LedgerSpec, ResultNeverChanges
=============================================================================
