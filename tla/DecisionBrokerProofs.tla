------------------------ MODULE DecisionBrokerProofs ------------------------
(* What DecisionBroker promises, for every set of tasks, requests and decisions.
   The argument is about the one command that holds workspace.lock: what it has
   written in the journal before an effect says, to whoever reads the journal
   after a crash, that the effect may have happened. *)
EXTENDS DecisionBroker, TLAPS

Resumable == {"none", "WAITING_FOR_DECISION", "ANSWERED", "CANCELLED"}

(* EXECUTING stands in the journal while an effect is on its way, with the mark
   that tells the alternative from the operation. *)
LockFits ==
  /\ lock.at \in {"recorded", "ran"} =>
       status[lock.on] = "EXECUTING" /\ lock.on \notin alternative
  /\ lock.at \in {"alternative", "replaced"} =>
       status[lock.on] = "EXECUTING" /\ lock.on \in alternative

(* What can still be resumed has not been carried out, nor has what the command
   is about to carry out. *)
Untouched ==
  /\ \A d \in Decision : status[d] \in Resumable =>
       runs[d] = 0 /\ substitutes[d] = 0 /\ d \notin alternative
  /\ lock.at \in {"recorded", "alternative"} =>
       runs[lock.on] = 0 /\ substitutes[lock.on] = 0
  /\ \A d \in Decision : runs[d] + substitutes[d] <= 1

(* A decision runs under a consent that exists, and only its own when the consent
   is for one run. *)
GrantsExist ==
  /\ \A d \in Decision : scope[d] # "none" =>
       status[d] \notin {"none", "WAITING_FOR_DECISION"}
  /\ \A d \in Decision : grantOf[d] # NoDecision =>
       /\ scope[grantOf[d]] # "none"
       /\ scope[grantOf[d]] = "ONCE" => grantOf[d] = d

Covers(g, d) ==
  /\ g \in Decision /\ scope[g] # "none" /\ g \notin withdrawn
  /\ about[g].request = about[d].request /\ about[g].print = about[d].print
  /\ (scope[g] = "WORKSPACE_CLASS" \/ about[g].task = about[d].task)
  /\ scope[g] = "ONCE" => g = d

(* Taking a consent back consumes it, so the consent that was looked at before
   EXECUTING was written still stands when the operation is run. *)
ConsentStands ==
  /\ withdrawn \subseteq consumed
  /\ lock.at = "recorded" => Covers(grantOf[lock.on], lock.on)

IInv ==
  LockFits /\ Untouched /\ GrantsExist /\ ConsentStands /\ OneOpenPerRequest

-----------------------------------------------------------------------------
(* Types *)

Subject == [task : Task, request : Request, print : Nat]

LEMMA RecordTypes ==
  ASSUME TypeOK, NEW a \in Subject, NEW d \in Decision, Record(d, a)
  PROVE  TypeOK'
  <1> USE DEF TypeOK, Recorded, Subject
  <1>1. a # NoRequest
    BY BrokerAssumption
  <1>2. about' \in [Decision -> Subject \cup {NoRequest}] /\ about'[d] = a
    BY DEF Record
  <1>3. CASE \E g \in Decision :
               /\ status' = [status EXCEPT ![d] = "ANSWERED"]
               /\ grantOf' = [grantOf EXCEPT ![d] = g]
               /\ lock' = [at |-> "resuming", on |-> d]
    BY <1>1, <1>2, <1>3 DEF Record, history
  <1>4. CASE /\ status' = [status EXCEPT ![d] = "WAITING_FOR_DECISION"]
             /\ UNCHANGED <<grantOf, lock>>
    BY <1>1, <1>2, <1>4 DEF Record, history
  <1>5. QED
    BY <1>3, <1>4 DEF Record

LEMMA TypesHold == ASSUME TypeOK, [Next]_vars PROVE TypeOK'
  <1> USE DEF TypeOK, Recorded
  <1>1. ASSUME NEW t \in Task, NEW q \in Request, DecisionRequest(t, q)
        PROVE  TypeOK'
    <2> DEFINE a == [task |-> t, request |-> q, print |-> live]
    <2>1. a \in Subject
      BY DEF Subject
    <2>2. CASE \E d \in Decision : Record(d, a)
      BY <2>1, <2>2, RecordTypes
    <2>3. CASE \E d \in Decision : Resumes(d) /\ UNCHANGED <<journal, live, history>>
      BY <2>3 DEF Resumes, journal, history
    <2>4. QED
      BY <1>1, <2>2, <2>3 DEF DecisionRequest, Pending
  <1>2. ASSUME NEW t \in Task, NEW q \in Request, NativeDecision(t, q)
        PROVE  TypeOK'
    <2> DEFINE a == [task |-> t, request |-> q, print |-> 0]
    <2>1. a \in Subject
      BY DEF Subject
    <2>2. QED
      BY <1>2, <2>1, RecordTypes DEF NativeDecision
  <1>3. ASSUME NEW d \in Decision, NEW o \in {"COMPLETED", "UNKNOWN_OUTCOME"},
               NativeOutcome(d, o)
        PROVE  TypeOK'
    BY <1>3 DEF NativeOutcome, Free, history
  <1>4. ASSUME NEW d \in Decision, NEW s \in {"ONCE", "TASK", "WORKSPACE_CLASS"},
               Approve(d, s)
        PROVE  TypeOK'
    BY <1>4 DEF Approve, history
  <1>5. ASSUME NEW d \in Decision, Cancel(d) PROVE TypeOK'
    BY <1>5 DEF Cancel
  <1>6. ASSUME NEW d \in Decision, Resume(d) PROVE TypeOK'
    BY <1>6 DEF Resume, Resumes, journal, history
  <1>7. ASSUME BeginAlternative PROVE TypeOK'
    BY <1>7 DEF BeginAlternative, history
  <1>8. ASSUME RunAlternative PROVE TypeOK'
    BY <1>8 DEF RunAlternative, journal
  <1>9. ASSUME RecordRun PROVE TypeOK'
    BY <1>9 DEF RecordRun, MayRun, history
  <1>10. ASSUME RefuseRun PROVE TypeOK'
    BY <1>10 DEF RefuseRun, Free, journal, history
  <1>11. ASSUME RunOperation PROVE TypeOK'
    BY <1>11 DEF RunOperation, journal
  <1>12. ASSUME NEW o \in {"COMPLETED", "UNKNOWN_OUTCOME"}, RecordOutcome(o)
         PROVE  TypeOK'
    BY <1>12 DEF RecordOutcome, Free, history
  <1>13. ASSUME Crash \/ Reconcile PROVE TypeOK'
    BY <1>13 DEF Crash, Reconcile, Free, journal, history
  <1>14. ASSUME NEW n \in 0..MaxPrint, TargetChanges(n) PROVE TypeOK'
    BY <1>14, BrokerAssumption DEF TargetChanges, journal, history
  <1>15. CASE UNCHANGED vars
    BY <1>15 DEF vars, journal, history
  <1>16. QED
    BY <1>1, <1>2, <1>3, <1>4, <1>5, <1>6, <1>7, <1>8, <1>9, <1>10, <1>11, <1>12,
       <1>13, <1>14, <1>15 DEF Next

LEMMA InitTypes == Init => TypeOK
  BY DEF Init, TypeOK, Recorded, Free

(* Decisions, consents and the lock have the shapes the journal gives them,
   whatever command is killed where. *)
THEOREM TypeCorrect == Spec => []TypeOK
  BY InitTypes, TypesHold, PTL DEF Spec

-----------------------------------------------------------------------------
(* The inductive step, action by action *)

LEMMA OpenOnes ==
  ASSUME NEW d \in Decision
  PROVE  Open(d) <=> \/ status[d] \in {"WAITING_FOR_DECISION", "ANSWERED"}
                     \/ status[d] \in {"EXECUTING", "UNKNOWN_OUTCOME"} /\ d \notin alternative
  BY DEF Open, Pending, Uncertain

LEMMA OpenOnesNext ==
  ASSUME NEW d \in Decision
  PROVE  Open(d)' <=> \/ status'[d] \in {"WAITING_FOR_DECISION", "ANSWERED"}
                      \/ status'[d] \in {"EXECUTING", "UNKNOWN_OUTCOME"} /\ d \notin alternative'
  BY DEF Open, Pending, Uncertain

(* A decision that stays as open as it was disturbs no other. *)
LEMMA StillOne ==
  ASSUME OneOpenPerRequest, UNCHANGED about,
         \A d \in Decision : Open(d)' => Open(d)
  PROVE  OneOpenPerRequest'
  BY DEF OneOpenPerRequest

LEMMA RecordKeeps ==
  ASSUME TypeOK, IInv, NEW a \in Subject, NEW d \in Decision, Record(d, a),
         lock = Free, MayRequest(a), \A e \in Pending : about[e] # a
  PROVE  IInv'
  <1> USE DEF TypeOK, Subject
  <1>1. /\ status[d] = "none" /\ status' \in [Decision -> {"none", "WAITING_FOR_DECISION",
             "ANSWERED", "CANCELLED", "EXECUTING", "COMPLETED", "UNKNOWN_OUTCOME"}]
        /\ status'[d] \in {"ANSWERED", "WAITING_FOR_DECISION"}
        /\ \A e \in Decision : e # d => status'[e] = status[e]
        /\ about'[d] = a /\ \A e \in Decision : e # d => about'[e] = about[e]
        /\ UNCHANGED <<scope, consumed, alternative, runs, substitutes, withdrawn>>
    BY DEF Record, history
  <1>2. lock'.at \in {"free", "resuming"}
    BY DEF Record, Free
  <1>3. LockFits' /\ Untouched' /\ ConsentStands'
    BY <1>1, <1>2 DEF IInv, LockFits, Untouched, ConsentStands, Resumable
  <1>4. GrantsExist'
    <2>1. CASE \E g \in Decision : /\ ConsentMatches(g, d, a)
                                   /\ grantOf' = [grantOf EXCEPT ![d] = g]
                                   /\ status' = [status EXCEPT ![d] = "ANSWERED"]
      BY <1>1, <2>1 DEF IInv, GrantsExist, ConsentMatches
    <2>2. CASE UNCHANGED grantOf
      <3>1. scope[d] = "none"
        BY <1>1 DEF IInv, GrantsExist
      <3>2. QED
        BY <1>1, <2>2, <3>1 DEF IInv, GrantsExist
    <2>3. QED
      BY <2>1, <2>2 DEF Record
  <1>5. OneOpenPerRequest'
    <2>1. \A e \in Decision : Open(e)' => e = d \/ (Open(e) /\ about'[e] = about[e])
      BY <1>1, OpenOnes, OpenOnesNext
    <2>2. \A e \in Decision : Open(e) => about[e] # a
      <3>1. SUFFICES ASSUME NEW e \in Decision, e \in Uncertain, about[e] = a PROVE FALSE
        BY DEF Open
      <3>2. about[e].print = a.print /\ about[e].request = a.request
        BY <3>1
      <3>3. QED
        BY <3>1, <3>2 DEF MayRequest, SameRun
    <2>3. QED
      BY <1>1, <2>1, <2>2 DEF IInv, OneOpenPerRequest
  <1>6. QED
    BY <1>3, <1>4, <1>5 DEF IInv

LEMMA ResumesKeeps ==
  ASSUME TypeOK, IInv, NEW d \in Decision, Resumes(d), UNCHANGED <<journal, live, history>>
  PROVE  IInv'
  <1> USE DEF TypeOK, Resumes, journal, history
  <1>1. LockFits' /\ Untouched' /\ GrantsExist' /\ ConsentStands'
    BY DEF IInv, LockFits, Untouched, GrantsExist, ConsentStands, Resumable
  <1>2. OneOpenPerRequest'
    BY OpenOnes, OpenOnesNext, StillOne DEF IInv
  <1>3. QED
    BY <1>1, <1>2 DEF IInv

(* The host reports a call, a person approves, or a person declines: the lock was
   free, so no effect is on its way. *)
LEMMA AnswersKeep ==
  ASSUME TypeOK, IInv, NEW d \in Decision,
         \/ \E o \in {"COMPLETED", "UNKNOWN_OUTCOME"} : NativeOutcome(d, o)
         \/ \E s \in {"ONCE", "TASK", "WORKSPACE_CLASS"} : Approve(d, s)
         \/ Cancel(d)
  PROVE  IInv'
  <1> USE DEF TypeOK, history
  <1>1. /\ status[d] \in {"WAITING_FOR_DECISION", "ANSWERED"}
        /\ \A e \in Decision : e # d => status'[e] = status[e]
        /\ UNCHANGED <<about, alternative, runs, substitutes>>
        /\ lock.at = "free" /\ lock'.at \in {"free", "resuming"}
    BY DEF NativeOutcome, Approve, Cancel, Free
  <1>2. LockFits' /\ Untouched'
    BY <1>1 DEF IInv, LockFits, Untouched, Resumable
  <1>3. GrantsExist'
    <2>1. CASE \E o \in {"COMPLETED", "UNKNOWN_OUTCOME"} : NativeOutcome(d, o)
      BY <2>1 DEF IInv, GrantsExist, NativeOutcome
    <2>2. ASSUME NEW s \in {"ONCE", "TASK", "WORKSPACE_CLASS"}, Approve(d, s)
          PROVE  GrantsExist'
      <3>1. scope[d] = "none" /\ \A e \in Decision : grantOf[e] # d
        BY <2>2, BrokerAssumption DEF IInv, GrantsExist, Approve
      <3>2. QED
        BY <2>2, <3>1 DEF IInv, GrantsExist, Approve
    <2>3. CASE Cancel(d)
      BY <2>3 DEF IInv, GrantsExist, Cancel
    <2>4. QED
      BY <2>1, <2>2, <2>3
  <1>4. ConsentStands'
    BY <1>1 DEF IInv, ConsentStands, NativeOutcome, Approve, Cancel
  <1>5. OneOpenPerRequest'
    <2>1. \A e \in Decision : Open(e)' => Open(e)
      BY <1>1, OpenOnes, OpenOnesNext
    <2>2. QED
      BY <1>1, <2>1, StillOne DEF IInv
  <1>6. QED
    BY <1>2, <1>3, <1>4, <1>5 DEF IInv

(* Before and after the alternative. *)
LEMMA AlternativeKeeps ==
  ASSUME TypeOK, IInv, BeginAlternative \/ RunAlternative
  PROVE  IInv'
  <1> USE DEF TypeOK, Recorded, history, journal
  <1>1. CASE BeginAlternative
    <2> USE <1>1
    <2>1. LockFits' /\ Untouched' /\ GrantsExist' /\ ConsentStands'
      BY DEF BeginAlternative, IInv, LockFits, Untouched, GrantsExist, ConsentStands,
             Resumable
    <2>2. \A e \in Decision : Open(e)' => Open(e)
      BY OpenOnes, OpenOnesNext DEF BeginAlternative
    <2>3. QED
      BY <2>1, <2>2, StillOne DEF IInv, BeginAlternative
  <1>2. CASE RunAlternative
    <2> USE <1>2
    <2>1. LockFits' /\ Untouched' /\ GrantsExist' /\ ConsentStands'
      BY DEF RunAlternative, IInv, LockFits, Untouched, GrantsExist, ConsentStands,
             Resumable
    <2>2. \A e \in Decision : Open(e)' => Open(e)
      BY OpenOnes, OpenOnesNext DEF RunAlternative
    <2>3. QED
      BY <2>1, <2>2, StillOne DEF IInv, RunAlternative
  <1>3. QED
    BY <1>1, <1>2

(* EXECUTING and the use of a consent are written: what was looked at covers the
   decision, and has not been taken back because it had not been consumed. *)
LEMMA RecordRunKeeps ==
  ASSUME TypeOK, IInv, RecordRun
  PROVE  IInv'
  <1> USE DEF TypeOK, Recorded, history
  <1>1. PICK d \in Decision, g \in Decision :
          /\ lock.on = d /\ grantOf[d] = g
          /\ status[d] = "ANSWERED"
          /\ ConsentMatches(g, d, about[d])
          /\ lock' = [at |-> "recorded", on |-> d]
          /\ status' = [status EXCEPT ![d] = "EXECUTING"]
          /\ UNCHANGED <<about, grantOf, scope, alternative, runs, substitutes, withdrawn>>
          /\ consumed \subseteq consumed'
    BY DEF RecordRun, MayRun
  <1>2. LockFits' /\ Untouched' /\ GrantsExist'
    BY <1>1 DEF IInv, LockFits, Untouched, GrantsExist, Resumable
  <1>3. Covers(g, d)
    BY <1>1 DEF IInv, ConsentStands, ConsentMatches, Covers
  <1>4. ConsentStands'
    BY <1>1, <1>3 DEF IInv, ConsentStands, Covers
  <1>5. \A e \in Decision : Open(e)' => Open(e)
    BY <1>1, OpenOnes, OpenOnesNext
  <1>6. QED
    BY <1>1, <1>2, <1>4, <1>5, StillOne DEF IInv

LEMMA RunKeeps ==
  ASSUME TypeOK, IInv,
         \/ RunOperation
         \/ \E o \in {"COMPLETED", "UNKNOWN_OUTCOME"} : RecordOutcome(o)
  PROVE  IInv'
  <1> USE DEF TypeOK, Recorded, history, journal
  <1>1. CASE RunOperation
    <2> USE <1>1
    <2>1. LockFits' /\ Untouched' /\ GrantsExist' /\ ConsentStands'
      BY DEF RunOperation, IInv, LockFits, Untouched, GrantsExist, ConsentStands, Resumable
    <2>2. \A e \in Decision : Open(e)' => Open(e)
      BY OpenOnes, OpenOnesNext DEF RunOperation
    <2>3. QED
      BY <2>1, <2>2, StillOne DEF IInv, RunOperation
  <1>2. ASSUME NEW o \in {"COMPLETED", "UNKNOWN_OUTCOME"}, RecordOutcome(o)
        PROVE  IInv'
    <2> USE <1>2
    <2>1. LockFits' /\ Untouched' /\ GrantsExist' /\ ConsentStands'
      BY DEF RecordOutcome, Free, IInv, LockFits, Untouched, GrantsExist, ConsentStands,
             Resumable
    <2>2. \A e \in Decision : Open(e)' => Open(e)
      BY OpenOnes, OpenOnesNext DEF RecordOutcome, IInv, LockFits
    <2>3. QED
      BY <2>1, <2>2, StillOne DEF IInv, RecordOutcome
  <1>3. QED
    BY <1>1, <1>2

(* A refusal, a crash, a person at the lock file, a changed target: the journal
   stays as it is. *)
LEMMA JournalStays ==
  ASSUME TypeOK, IInv, UNCHANGED <<journal, history>>,
         lock'.at \in {"free", "stale"} \/ lock' = lock
  PROVE  IInv'
  <1> USE DEF TypeOK, journal, history
  <1>1. LockFits' /\ Untouched' /\ GrantsExist'
    BY DEF IInv, LockFits, Untouched, GrantsExist, Resumable
  <1>2. ConsentStands'
    BY DEF IInv, ConsentStands, Covers
  <1>3. \A e \in Decision : Open(e)' => Open(e)
    BY OpenOnes, OpenOnesNext
  <1>4. QED
    BY <1>1, <1>2, <1>3, StillOne DEF IInv

LEMMA StepKeeps == ASSUME TypeOK, IInv, [Next]_vars PROVE IInv'
  <1>1. ASSUME NEW t \in Task, NEW q \in Request, DecisionRequest(t, q)
        PROVE  IInv'
    <2> DEFINE a == [task |-> t, request |-> q, print |-> live]
    <2>1. a \in Subject
      BY DEF Subject, TypeOK
    <2>2. CASE \E d \in Pending : Resumes(d) /\ UNCHANGED <<journal, live, history>>
      BY <2>2, ResumesKeeps DEF Pending
    <2>3. CASE (\A d \in Pending : about[d] # a) /\ \E d \in Decision : Record(d, a)
      BY <1>1, <2>1, <2>3, RecordKeeps DEF DecisionRequest
    <2>4. QED
      BY <1>1, <2>2, <2>3 DEF DecisionRequest
  <1>2. ASSUME NEW t \in Task, NEW q \in Request, NativeDecision(t, q)
        PROVE  IInv'
    <2> DEFINE a == [task |-> t, request |-> q, print |-> 0]
    <2>1. a \in Subject
      BY DEF Subject
    <2>2. QED
      BY <1>2, <2>1, RecordKeeps DEF NativeDecision
  <1>3. ASSUME NEW d \in Decision,
               \/ \E o \in {"COMPLETED", "UNKNOWN_OUTCOME"} : NativeOutcome(d, o)
               \/ \E s \in {"ONCE", "TASK", "WORKSPACE_CLASS"} : Approve(d, s)
               \/ Cancel(d)
        PROVE  IInv'
    BY <1>3, AnswersKeep
  <1>4. ASSUME NEW d \in Decision, Resume(d) PROVE IInv'
    BY <1>4, ResumesKeeps DEF Resume
  <1>5. CASE BeginAlternative \/ RunAlternative
    BY <1>5, AlternativeKeeps
  <1>6. CASE RecordRun
    BY <1>6, RecordRunKeeps
  <1>7. CASE \/ RunOperation
             \/ \E o \in {"COMPLETED", "UNKNOWN_OUTCOME"} : RecordOutcome(o)
    BY <1>7, RunKeeps
  <1>8. CASE \/ RefuseRun \/ Crash \/ Reconcile \/ UNCHANGED vars
             \/ \E n \in 0..MaxPrint : TargetChanges(n)
    BY <1>8, JournalStays DEF RefuseRun, Crash, Reconcile, TargetChanges, Free, vars
  <1>9. QED
    BY <1>1, <1>2, <1>3, <1>4, <1>5, <1>6, <1>7, <1>8 DEF Next

LEMMA InitKeeps == Init => IInv
  BY DEF Init, Free, IInv, LockFits, Untouched, GrantsExist, ConsentStands, Resumable,
         OneOpenPerRequest, Open, Pending, Uncertain

LEMMA InvariantHolds == Spec => [](TypeOK /\ IInv)
  BY InitTypes, InitKeeps, TypesHold, StepKeeps, PTL DEF Spec

-----------------------------------------------------------------------------
(* What follows *)

(* Whatever is killed, resumed, cancelled or asked for again, a decision is carried
   out at most once, and a consent for one run covers one run. *)
THEOREM DoneOnce == Spec => []CarriedOutOnce
  <1>1. TypeOK /\ IInv => CarriedOutOnce
    BY DEF TypeOK, IInv, Untouched, GrantsExist, CarriedOutOnce
  <1>2. QED
    BY <1>1, InvariantHolds, PTL

(* Asking again for what is open comes back to the same decision, or is refused. *)
THEOREM AskedOnce == Spec => []OneOpenPerRequest
  <1>1. IInv => OneOpenPerRequest
    BY DEF IInv
  <1>2. QED
    BY <1>1, InvariantHolds, PTL

(* Only a request records a decision, and only when nothing uncertain is in its way. *)
LEMMA RecordedByRequests ==
  ASSUME TypeOK, [Next]_vars, NEW d \in Decision, status[d] = "none", status'[d] # "none"
  PROVE  UNCHANGED runs /\ MayRequest(about'[d])
  <1> USE DEF TypeOK
  <1>1. ASSUME NEW a \in Subject, NEW f \in Decision, Record(f, a), MayRequest(a)
        PROVE  UNCHANGED runs /\ MayRequest(about'[d])
    <2>1. f = d /\ about'[d] = a /\ UNCHANGED runs
      BY <1>1 DEF Record, history, Subject
    <2>2. QED
      BY <1>1, <2>1
  <1>2. ASSUME NEW t \in Task, NEW q \in Request, DecisionRequest(t, q)
        PROVE  UNCHANGED runs /\ MayRequest(about'[d])
    <2> DEFINE a == [task |-> t, request |-> q, print |-> live]
    <2>1. a \in Subject
      BY DEF Subject
    <2>2. CASE UNCHANGED journal
      BY <2>2 DEF journal
    <2>3. QED
      BY <1>1, <1>2, <2>1, <2>2 DEF DecisionRequest
  <1>3. ASSUME NEW t \in Task, NEW q \in Request, NativeDecision(t, q)
        PROVE  UNCHANGED runs /\ MayRequest(about'[d])
    <2> DEFINE a == [task |-> t, request |-> q, print |-> 0]
    <2>1. a \in Subject
      BY DEF Subject
    <2>2. QED
      BY <1>1, <1>3, <2>1 DEF NativeDecision
  <1>4. CASE UNCHANGED status
    BY <1>4
  <1>5. ASSUME NEW f \in Decision,
               \/ \E o \in {"COMPLETED", "UNKNOWN_OUTCOME"} : NativeOutcome(f, o)
               \/ \E s \in {"ONCE", "TASK", "WORKSPACE_CLASS"} : Approve(f, s)
               \/ Cancel(f)
        PROVE  FALSE
    BY <1>5 DEF NativeOutcome, Approve, Cancel
  <1>6. ASSUME \/ BeginAlternative \/ RecordRun
               \/ \E o \in {"COMPLETED", "UNKNOWN_OUTCOME"} : RecordOutcome(o)
        PROVE  status[lock.on] # "none"
    BY <1>6 DEF BeginAlternative, RecordRun, MayRun, RecordOutcome, Recorded
  <1>7. ASSUME \/ BeginAlternative \/ RecordRun
               \/ \E o \in {"COMPLETED", "UNKNOWN_OUTCOME"} : RecordOutcome(o)
        PROVE  FALSE
    BY <1>6, <1>7 DEF BeginAlternative, RecordRun, RecordOutcome
  <1>8. CASE \/ \E f \in Decision : Resume(f)
             \/ RunAlternative \/ RefuseRun \/ RunOperation \/ Crash \/ Reconcile
             \/ \E n \in 0..MaxPrint : TargetChanges(n)
             \/ UNCHANGED vars
    BY <1>8 DEF Resume, RunAlternative, RefuseRun, RunOperation, Crash, Reconcile,
                TargetChanges, vars, journal
  <1>9. QED
    BY <1>2, <1>3, <1>5, <1>7, <1>8 DEF Next

(* What has been run says so in the journal until it is known to have succeeded, so a
   request for the same finds it there. *)
THEOREM RetriesAreInformed == Spec => RetriesAreNotAskedFor
  <1>1. ASSUME TypeOK, IInv, [Next]_vars, NEW d \in Decision, NEW e \in Decision,
               status[d] = "none", status'[d] # "none",
               runs[e] > 0, status[e] # "COMPLETED"
        PROVE  ~SameRun(about'[d], about[e])
    <2>1. e \in Uncertain
      BY <1>1 DEF IInv, Untouched, Resumable, Uncertain, TypeOK
    <2>2. MayRequest(about'[d])
      BY <1>1, RecordedByRequests
    <2>3. QED
      BY <2>1, <2>2 DEF MayRequest, SameRun
  <1>2. TypeOK /\ IInv /\ [Next]_vars =>
          [\A d, e \in Decision :
             /\ status[d] = "none" /\ status'[d] # "none"
             /\ runs[e] > 0 /\ status[e] # "COMPLETED"
             => ~SameRun(about'[d], about[e])]_vars
    BY <1>1
  <1>3. QED
    BY <1>2, InvariantHolds, PTL DEF Spec, RetriesAreNotAskedFor

(* Only RunOperation executes, and only under what RecordRun looked at. *)
LEMMA RunsOnlyHere ==
  ASSUME TypeOK, [Next]_vars, NEW d \in Decision, runs'[d] # runs[d]
  PROVE  lock.at = "recorded" /\ lock.on = d
  <1> USE DEF TypeOK
  <1>1. CASE RunOperation
    BY <1>1 DEF RunOperation
  <1>2. CASE UNCHANGED runs
    BY <1>2
  <1>3. QED
    BY ZenonT(60), <1>1, <1>2 DEF Next, vars, history, journal, DecisionRequest, NativeDecision, Record,
       Resumes, NativeOutcome, Approve, Cancel, Resume, BeginAlternative, RunAlternative,
       RecordRun, RefuseRun, RecordOutcome, Crash, Reconcile, TargetChanges

(* EXECUTING is written for an answered decision by RecordRun, which has just looked at
   the target. *)
LEMMA WrittenForTheTarget ==
  ASSUME TypeOK, [Next]_vars, NEW d \in Decision,
         status[d] = "ANSWERED", status'[d] = "EXECUTING"
  PROVE  about[d].print = live
  <1> USE DEF TypeOK
  <1>1. CASE RecordRun
    BY <1>1 DEF RecordRun, MayRun, Recorded
  <1>2. CASE BeginAlternative
    BY <1>2 DEF BeginAlternative, Recorded
  <1>3. ASSUME NEW t \in Task, NEW q \in Request,
               DecisionRequest(t, q) \/ NativeDecision(t, q)
        PROVE  FALSE
    BY <1>3 DEF DecisionRequest, NativeDecision, Record, journal
  <1>4. ASSUME NEW f \in Decision,
               \/ \E o \in {"COMPLETED", "UNKNOWN_OUTCOME"} : NativeOutcome(f, o)
               \/ \E s \in {"ONCE", "TASK", "WORKSPACE_CLASS"} : Approve(f, s)
               \/ Cancel(f)
        PROVE  FALSE
    BY <1>4 DEF NativeOutcome, Approve, Cancel
  <1>5. ASSUME \E o \in {"COMPLETED", "UNKNOWN_OUTCOME"} : RecordOutcome(o)
        PROVE  FALSE
    BY <1>5 DEF RecordOutcome
  <1>6. CASE \/ \E f \in Decision : Resume(f)
             \/ RunAlternative \/ RefuseRun \/ RunOperation \/ Crash \/ Reconcile
             \/ \E n \in 0..MaxPrint : TargetChanges(n)
             \/ UNCHANGED vars
    BY <1>6 DEF Resume, RunAlternative, RefuseRun, RunOperation, Crash, Reconcile,
                TargetChanges, vars, journal
  <1>7. QED
    BY <1>1, <1>2, <1>3, <1>4, <1>5, <1>6 DEF Next

(* Every run is covered by a consent that still stands, for this operation on this
   target, which was the live one when the run was written down. *)
THEOREM ConsentPrecedesRun == Spec => RunsAreConsented
  <1>1. ASSUME TypeOK, IInv, [Next]_vars, NEW d \in Decision, runs'[d] # runs[d]
        PROVE  Covers(grantOf[d], d)
    BY <1>1, RunsOnlyHere DEF IInv, ConsentStands
  <1>2. TypeOK /\ IInv /\ [Next]_vars =>
          [\A d \in Decision :
             /\ status[d] = "ANSWERED" /\ status'[d] = "EXECUTING" => about[d].print = live
             /\ runs'[d] # runs[d] =>
                  LET g == grantOf[d] IN
                  /\ g \in Decision /\ scope[g] # "none" /\ g \notin withdrawn
                  /\ about[g].request = about[d].request /\ about[g].print = about[d].print
                  /\ (scope[g] = "WORKSPACE_CLASS" \/ about[g].task = about[d].task)
                  /\ scope[g] = "ONCE" => g = d]_vars
    BY <1>1, WrittenForTheTarget DEF Covers
  <1>3. QED
    BY <1>2, InvariantHolds, PTL DEF Spec, RunsAreConsented
=============================================================================
