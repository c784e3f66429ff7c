--------------------------- MODULE DecisionBroker ---------------------------
(* The decision broker of the quality harness
   (scripts/quality/harness/lib/autonomy.mjs and lib/execution.mjs).  An agent
   may not run a consequential operation before a person has agreed to it: the
   operation is recorded as a decision, a person answers it, and the answer is a
   consent good for one run, for a task, or for every task of the worktree.
   Decisions and consents are one journal, tasks/.logs/autonomy/workspace.json,
   and a command works on it under workspace.lock, a file it creates and
   removes also when it fails; a command that finds the lock fails at once.  A
   command writes the journal several times, and may be killed between any two
   writes; the lock then stays until a person removes it.

   A decision mints at most one consent, so consents go by the decision they
   answered.  Of an action and its continuation the model keeps which request it
   is, the effect it has and the identity of its target; the policy is fixed. *)
EXTENDS Naturals

CONSTANTS
  Task,         \* tasks of the worktree
  Request,      \* pairs of an action and a continuation
  Wide,         \* requests that ask for the scope WORKSPACE_CLASS
  Native,       \* tool calls the host asks permission for (tool_use_id)
  EffectOf,     \* what a request executes: its argv or its command
  Decision,     \* identities of decisions: bounds how many are recorded
  MaxPrint,     \* bounds the identities that the target takes, from 0
  NoDecision,
  NoRequest

ASSUME BrokerAssumption ==
  /\ Wide \subseteq Request /\ Native \subseteq Request /\ Wide \cap Native = {}
  /\ MaxPrint \in Nat
  /\ NoDecision \notin Decision
  /\ NoRequest \notin [task : Task, request : Request, print : Nat]

VARIABLES
  status,       \* of each decision; "none" until it is recorded
  about,        \* the task, the request and the target's fingerprint of each
  grantOf,      \* grant_id: the consent a decision runs under
  scope,        \* the scope of the consent a decision minted, "none" without
  consumed,     \* the consents marked consumed
  alternative,  \* the decisions marked execution: "alternative"
  lock,         \* how far the command has come that holds workspace.lock
  live,         \* the identity observeTarget finds now
  runs,         \* history: how often each decision's operation was executed
  substitutes,  \* history: how often its safer alternative was
  withdrawn     \* history: the consents a person has taken back

journal == <<status, about, grantOf, scope, consumed, alternative>>
history == <<runs, substitutes, withdrawn>>
vars == <<journal, lock, live, history>>

Free == [at |-> "free", on |-> NoDecision]

Recorded == {d \in Decision : status[d] # "none"}
Uncertain == {d \in Decision : status[d] \in {"EXECUTING", "UNKNOWN_OUTCOME"}}
Pending == {d \in Decision : status[d] \in {"WAITING_FOR_DECISION", "ANSWERED"}}

TypeOK ==
  /\ status \in [Decision -> {"none", "WAITING_FOR_DECISION", "ANSWERED", "CANCELLED",
                              "EXECUTING", "COMPLETED", "UNKNOWN_OUTCOME"}]
  /\ about \in [Decision -> [task : Task, request : Request, print : Nat] \cup {NoRequest}]
  /\ \A d \in Recorded : about[d] # NoRequest
  /\ grantOf \in [Decision -> Decision \cup {NoDecision}]
  /\ scope \in [Decision -> {"none", "ONCE", "TASK", "WORKSPACE_CLASS"}]
  /\ consumed \subseteq Decision /\ alternative \subseteq Decision
  /\ lock \in [at : {"free", "resuming", "alternative", "recorded", "ran", "replaced",
                     "stale"},
               on : Decision \cup {NoDecision}]
  /\ lock.at \in {"resuming", "alternative", "recorded", "ran", "replaced"} =>
       lock.on \in Recorded
  /\ live \in Nat
  /\ runs \in [Decision -> Nat] /\ substitutes \in [Decision -> Nat]
  /\ withdrawn \subseteq Decision

Init ==
  /\ status = [d \in Decision |-> "none"]
  /\ about = [d \in Decision |-> NoRequest]
  /\ grantOf = [d \in Decision |-> NoDecision]
  /\ scope = [d \in Decision |-> "none"]
  /\ consumed = {} /\ alternative = {}
  /\ lock = Free
  /\ live = 0
  /\ runs = [d \in Decision |-> 0] /\ substitutes = [d \in Decision |-> 0]
  /\ withdrawn = {}

-----------------------------------------------------------------------------
(* Each definition of this module named "bug" is a mistake that could be made in
   the definition after it; the specification uses none of them. *)

(* The same thing done to the same target, whoever asks and with what scope. *)
SameRun(a, b) ==
  a.print = b.print /\ EffectOf[a.request] = EffectOf[b.request]

bugOwnRequestOnly(a) == \A d \in Uncertain : about[d] # a

(* A request is refused while a run of the same effect on the same target is
   under way or of unknown outcome, in whatever task. *)
MayRequest(a) == \A d \in Uncertain : ~SameRun(about[d], a)

(* consentMatches: the consent is for this very operation and target, has not
   been consumed, and its scope covers the decision. *)
ConsentMatches(g, d, a) ==
  /\ scope[g] # "none" /\ g \notin consumed
  /\ about[g].request = a.request /\ about[g].print = a.print
  /\ scope[g] = "ONCE" => g = d
  /\ scope[g] = "TASK" => about[g].task = a.task

(* newDecision adds a decision: answered at once under a consent that covers
   it, and otherwise waiting for a person.  (The code takes the first consent
   in the journal; any of them is taken here.) *)
Record(d, a) ==
  /\ status[d] = "none"
  /\ about' = [about EXCEPT ![d] = a]
  /\ \/ \E g \in Decision :
          /\ ConsentMatches(g, d, a)
          /\ status' = [status EXCEPT ![d] = "ANSWERED"]
          /\ grantOf' = [grantOf EXCEPT ![d] = g]
          /\ lock' = [at |-> "resuming", on |-> d]
     \/ /\ \A g \in Decision : ~ConsentMatches(g, d, a)
        /\ status' = [status EXCEPT ![d] = "WAITING_FOR_DECISION"]
        /\ UNCHANGED <<grantOf, lock>>
  /\ UNCHANGED <<scope, consumed, alternative, live, history>>

bugUnknownDecision(d) ==
  /\ status[d] \in {"none", "ANSWERED", "CANCELLED"}
  /\ lock' = [at |-> "resuming", on |-> d]

(* resumeDecision has something to do for these decisions only. *)
Resumes(d) ==
  /\ status[d] \in {"ANSWERED", "CANCELLED"}
  /\ lock' = [at |-> "resuming", on |-> d]

(* quality decision request: the target is observed, and the same request of
   the same task is recorded once. *)
DecisionRequest(t, q) ==
  LET a == [task |-> t, request |-> q, print |-> live] IN
  /\ lock = Free /\ q \notin Native /\ MayRequest(a)
  /\ IF \E d \in Pending : about[d] = a
     THEN \E d \in Pending : /\ about[d] = a /\ Resumes(d)
                             /\ UNCHANGED <<journal, live, history>>
     ELSE \E d \in Decision : Record(d, a)

(* The PreToolUse hook of a tool call records it before the host asks for
   permission.  The command is its own target, so it never changes. *)
NativeDecision(t, q) ==
  LET a == [task |-> t, request |-> q, print |-> 0] IN
  /\ lock = Free /\ q \in Native /\ MayRequest(a)
  /\ \A d \in Pending : about[d] # a
  /\ \E d \in Decision : Record(d, a)

(* The PostToolUse hook reports that the call was run.  Nothing else ends a
   call that was declined, or whose report found the lock taken. *)
NativeOutcome(d, outcome) ==
  /\ lock = Free
  /\ status[d] = "WAITING_FOR_DECISION" /\ about[d].request \in Native
  /\ outcome \in {"COMPLETED", "UNKNOWN_OUTCOME"}
  /\ status' = [status EXCEPT ![d] = outcome]
  /\ UNCHANGED <<about, grantOf, scope, consumed, alternative, lock, live, history>>

(* quality decision answer --choice approve_once | approve_task: only while the
   target is the one the person was shown, and with the scope displayed.  The
   target of a tool call cannot be observed, so it is never approved here. *)
Approve(d, s) ==
  /\ lock = Free
  /\ status[d] = "WAITING_FOR_DECISION"
  /\ about[d].request \notin Native /\ about[d].print = live
  /\ s \in {"ONCE", IF about[d].request \in Wide THEN "WORKSPACE_CLASS" ELSE "TASK"}
  /\ status' = [status EXCEPT ![d] = "ANSWERED"]
  /\ grantOf' = [grantOf EXCEPT ![d] = d]
  /\ scope' = [scope EXCEPT ![d] = s]
  /\ lock' = [at |-> "resuming", on |-> d]
  /\ UNCHANGED <<about, consumed, alternative, live, history>>

bugCancelKeepsConsent(d) ==
  /\ lock = Free
  /\ status[d] \in {"WAITING_FOR_DECISION", "ANSWERED"}
  /\ status' = [status EXCEPT ![d] = "CANCELLED"]
  /\ grantOf' = [grantOf EXCEPT ![d] = NoDecision]
  /\ withdrawn' = withdrawn \cup ({grantOf[d]} \ {NoDecision})
  /\ lock' = [at |-> "resuming", on |-> d]
  /\ UNCHANGED <<about, scope, consumed, alternative, live, runs, substitutes>>

(* --choice cancel | alternative: also after an approval that has not been
   carried out; the consent the decision had is then consumed, whoever else
   runs under it. *)
Cancel(d) ==
  /\ lock = Free
  /\ status[d] \in {"WAITING_FOR_DECISION", "ANSWERED"}
  /\ status' = [status EXCEPT ![d] = "CANCELLED"]
  /\ grantOf' = [grantOf EXCEPT ![d] = NoDecision]
  /\ consumed' = consumed \cup ({grantOf[d]} \ {NoDecision})
  /\ withdrawn' = withdrawn \cup ({grantOf[d]} \ {NoDecision})
  /\ lock' = [at |-> "resuming", on |-> d]
  /\ UNCHANGED <<about, scope, alternative, live, runs, substitutes>>

(* quality decision resume *)
Resume(d) ==
  /\ lock = Free /\ Resumes(d)
  /\ UNCHANGED <<journal, live, history>>

-----------------------------------------------------------------------------
(* resumeDecision, one action for every write of the journal and every run. *)

(* A cancelled decision: EXECUTING is written before the alternative is run. *)
BeginAlternative ==
  LET d == lock.on IN
  /\ lock.at = "resuming" /\ status[d] = "CANCELLED"
  /\ status' = [status EXCEPT ![d] = "EXECUTING"]
  /\ alternative' = alternative \cup {d}
  /\ lock' = [at |-> "alternative", on |-> d]
  /\ UNCHANGED <<about, grantOf, scope, consumed, live, history>>

RunAlternative ==
  /\ lock.at = "alternative"
  /\ substitutes' = [substitutes EXCEPT ![lock.on] = @ + 1]
  /\ lock' = [at |-> "replaced", on |-> lock.on]
  /\ UNCHANGED <<journal, live, runs, withdrawn>>

MayRun(d) ==
  /\ status[d] = "ANSWERED"
  /\ about[d].print = live
  /\ grantOf[d] # NoDecision /\ ConsentMatches(grantOf[d], d, about[d])

bugEffectFirst ==
  LET d == lock.on IN
  /\ lock.at = "resuming" /\ MayRun(d)
  /\ lock' = [at |-> "recorded", on |-> d]
  /\ UNCHANGED <<journal, live, history>>

(* An answered one: identity and consent are looked at again; EXECUTING and the
   use of a consent for one run are written before the effect. *)
RecordRun ==
  LET d == lock.on IN
  /\ lock.at = "resuming" /\ MayRun(d)
  /\ consumed' = consumed \cup {g \in {grantOf[d]} : scope[g] = "ONCE"}
  /\ status' = [status EXCEPT ![d] = "EXECUTING"]
  /\ lock' = [at |-> "recorded", on |-> d]
  /\ UNCHANGED <<about, grantOf, scope, alternative, live, history>>

RefuseRun ==
  /\ lock.at = "resuming" /\ status[lock.on] = "ANSWERED" /\ ~MayRun(lock.on)
  /\ lock' = Free
  /\ UNCHANGED <<journal, live, history>>

RunOperation ==
  /\ lock.at = "recorded"
  /\ runs' = [runs EXCEPT ![lock.on] = @ + 1]
  /\ lock' = [at |-> "ran", on |-> lock.on]
  /\ UNCHANGED <<journal, live, substitutes, withdrawn>>

(* The effect succeeded, or failed and left nobody knows what. *)
RecordOutcome(outcome) ==
  /\ lock.at \in {"ran", "replaced"}
  /\ status' = [status EXCEPT ![lock.on] = outcome]
  /\ lock' = Free
  /\ UNCHANGED <<about, grantOf, scope, consumed, alternative, live, history>>

-----------------------------------------------------------------------------
(* The process is killed and its lock file stays: between two writes, or before
   the first or after the last one. *)
Crash ==
  /\ lock.at # "stale"
  /\ lock' = [at |-> "stale", on |-> NoDecision]
  /\ UNCHANGED <<journal, live, history>>

(* A person has looked at the journal and removes the lock.  (External: no
   command does.) *)
Reconcile ==
  /\ lock.at = "stale"
  /\ lock' = Free
  /\ UNCHANGED <<journal, live, history>>

(* The file or the database server is replaced under the same name; a file that
   is put back regains the identity it had. *)
TargetChanges(n) ==
  /\ n # live
  /\ live' = n
  /\ UNCHANGED <<journal, lock, history>>

Next ==
  \/ \E t \in Task, q \in Request : DecisionRequest(t, q) \/ NativeDecision(t, q)
  \/ \E d \in Decision :
       \/ \E outcome \in {"COMPLETED", "UNKNOWN_OUTCOME"} : NativeOutcome(d, outcome)
       \/ \E s \in {"ONCE", "TASK", "WORKSPACE_CLASS"} : Approve(d, s)
       \/ Cancel(d)
       \/ Resume(d)
  \/ BeginAlternative \/ RunAlternative
  \/ RecordRun \/ RefuseRun \/ RunOperation
  \/ \E outcome \in {"COMPLETED", "UNKNOWN_OUTCOME"} : RecordOutcome(outcome)
  \/ Crash \/ Reconcile
  \/ \E n \in 0..MaxPrint : TargetChanges(n)

Spec == Init /\ [][Next]_vars

-----------------------------------------------------------------------------
(* Properties *)

(* "Cancelling then resuming executes the alternative once", and an uncertain
   run is never replayed: whatever is killed, resumed, cancelled or asked for
   again, a decision is carried out at most once, by its operation or by the
   alternative and never by both, and a consent for one run covers one run. *)
CarriedOutOnce ==
  /\ \A d \in Decision : runs[d] + substitutes[d] <= 1
  /\ \A d, e \in Decision :
       /\ runs[d] > 0 /\ runs[e] > 0
       /\ grantOf[d] = grantOf[e] /\ grantOf[d] # NoDecision
       /\ scope[grantOf[d]] = "ONCE"
       => d = e

(* A decision whose operation is yet to be run, is running, or has run with an
   outcome nobody knows. *)
Open(d) == d \in Pending \cup (Uncertain \ alternative)

(* Of the decisions of one task for the very same request on the very same target
   one at most is open: whatever was answered, killed or of unknown outcome, asking
   again comes back to it, or is refused. *)
OneOpenPerRequest ==
  \A d, e \in Decision :
    Open(d) /\ Open(e) /\ about[d] = about[e] => d = e

(* "Unresolved execution requires reconciliation before a fresh request or consent
   reuse": what has in truth been run and is not known to have succeeded is never put
   to a person again, nor allowed under an old consent, for any task and with any
   scope, whatever was killed in between. *)
RetriesAreNotAskedFor ==
  [][\A d, e \in Decision :
       /\ status[d] = "none" /\ status'[d] # "none"
       /\ runs[e] > 0 /\ status[e] # "COMPLETED"
       => ~SameRun(about'[d], about[e])]_vars

(* "Interrupted effects become UNKNOWN_OUTCOME, stay waiting and require
   diagnosis/reconciliation before retry": what has been run with an unknown outcome
   is not run again under another decision. *)
NoBlindRetry ==
  [][\A d, e \in Decision :
       /\ runs'[d] # runs[d]
       /\ runs[e] > 0 /\ status[e] = "UNKNOWN_OUTCOME"
       => ~SameRun(about[d], about[e])]_vars

(* An operation is run only under a consent that a person gave for this very
   operation on this very target, that covers the task, and that nobody has
   taken back since, be it through another decision; and when it is written down
   to be run, the target is still the one that was agreed to. *)
RunsAreConsented ==
  [][\A d \in Decision :
       /\ status[d] = "ANSWERED" /\ status'[d] = "EXECUTING" => about[d].print = live
       /\ runs'[d] # runs[d] =>
            LET g == grantOf[d] IN
            /\ g \in Decision /\ scope[g] # "none" /\ g \notin withdrawn
            /\ about[g].request = about[d].request /\ about[g].print = about[d].print
            /\ (scope[g] = "WORKSPACE_CLASS" \/ about[g].task = about[d].task)
            /\ scope[g] = "ONCE" => g = d]_vars
=============================================================================
