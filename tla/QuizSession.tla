----------------------------- MODULE QuizSession -----------------------------
(***************************************************************************)
(* A learner's timed quiz: the handlers of /api/quiz/session in the Go     *)
(* API, the rows of assessment.quiz_session and quiz_answer they keep, the *)
(* administration that changes rows and questions under them, and the quiz *)
(* page of the web client in several tabs of one learner, with its         *)
(* countdown.  Time is counted in half seconds: the server reports whole   *)
(* seconds, and the difference is what the countdown lives on.             *)
(***************************************************************************)
EXTENDS Integers, FiniteSets

CONSTANTS
  Tab,            \* tabs of the learner
  Session,        \* bound: rows the learner may create
  NumQuestions,   \* questions of the template, in their display order
  AtFirst,        \* what may be published of them when it all begins
  Limit,          \* time_limit_seconds of the template
  Official,       \* TRUE: the template is official, and wants an entitlement
  AdminActs,      \* TRUE: an administrator aborts and extends sessions
  Lingers,        \* TRUE: requests outlive the page that sent them
  MaxEdits,       \* bound: questions published or archived meanwhile
  MaxFaults,      \* bound: requests that fail or lose their answer
  None            \* no session, no question

ASSUME QuizAssumption ==
  /\ NumQuestions \in Nat \ {0} /\ Limit \in Nat \ {0}
  /\ AtFirst \subseteq SUBSET (1..NumQuestions)
  /\ Official \in BOOLEAN /\ AdminActs \in BOOLEAN /\ Lingers \in BOOLEAN
  /\ MaxEdits \in Nat /\ MaxFaults \in Nat
  /\ IsFiniteSet(Session)
  /\ None \notin Session /\ None \notin Nat

VARIABLES
  row,         \* the quiz_session rows
  elapsed,     \* half seconds since started_at, as far as the limit
  answered,    \* the quiz_answer rows of each session: question and is_correct
  published,   \* questions with status published
  entitled,    \* officialQuizAllowed says yes to the learner
  progress,    \* done_count of the learner's bjt_quiz task
  page,        \* the page each tab is on
  shown,       \* the client's question state: its session and the question
  results,     \* the client's results state: the numbers on the screen
  left,        \* half seconds left of the client's countdown
  picked,      \* the question panel has an option selected
  call,        \* the request each flow of a tab is waiting for
  edits, faults

db == <<row, elapsed, answered, progress>>
screen == <<page, shown, results, left, picked>>
vars == <<row, elapsed, answered, published, entitled, progress, page, shown, results,
          left, picked, call, edits, faults>>

Question == 1..NumQuestions
HalfLimit == 2 * Limit
Off == -1                      \* no countdown runs
(* What a tab may be waiting for at a time: the effect of mounting, an answer, the
   effect of a countdown at zero, the form that starts a quiz; and what a page that
   the tab has left is still waiting for. *)
Flow == {"mount", "answer", "expire", "start", "gone"}

Row == [status : {"none", "in_progress", "completed", "abandoned"},
        total : 0..NumQuestions, current : 0..NumQuestions, correct : 0..NumQuestions]
View == [sid : Session \cup {None}, status : {"none", "active", "completed", "abandoned"},
         current : 0..NumQuestions, correct : 0..NumQuestions, remaining : 0..Limit]
Shown == [sid : Session \cup {None}, item : Question \cup {None}]
Results == [sid : Session \cup {None}, current : 0..NumQuestions, correct : 0..NumQuestions]
Call == [op : {"none", "active", "question", "answer", "results", "start"},
         at : {"idle", "sent", "reload", "expired", "loaded", "answered"},
         sid : Session \cup {None}, item : Question \cup {None}, right : BOOLEAN,
         view : View, code : {"none", "ok", "expired", "forbidden", "failed", "lost"}]

TypeOK ==
  /\ row \in [Session -> Row]
  /\ elapsed \in [Session -> 0..HalfLimit]
  /\ answered \in [Session -> SUBSET (Question \X BOOLEAN)]
  /\ published \subseteq Question
  /\ entitled \in BOOLEAN
  /\ progress \in Nat
  /\ page \in [Tab -> {"closed", "hub", "focus"}]
  /\ shown \in [Tab -> Shown]
  /\ results \in [Tab -> Results]
  /\ left \in [Tab -> 0..HalfLimit \cup {Off}]
  /\ picked \in [Tab -> BOOLEAN]
  /\ call \in [Tab \X Flow -> Call]
  /\ edits \in 0..MaxEdits /\ faults \in 0..MaxFaults

NoRow == [status |-> "none", total |-> 0, current |-> 0, correct |-> 0]
NoView == [sid |-> None, status |-> "none", current |-> 0, correct |-> 0, remaining |-> 0]
Nothing == [sid |-> None, item |-> None]
NoResults == [sid |-> None, current |-> 0, correct |-> 0]
Request(op, at, s, q, right) ==
  [op |-> op, at |-> at, sid |-> s, item |-> q, right |-> right,
   view |-> NoView, code |-> "none"]
Idle == Request("none", "idle", None, None, FALSE)

Init ==
  /\ row = [s \in Session |-> NoRow]
  /\ elapsed = [s \in Session |-> 0]
  /\ answered = [s \in Session |-> {}]
  /\ published \in AtFirst
  /\ entitled = TRUE
  /\ progress = 0
  /\ page = [t \in Tab |-> "closed"]
  /\ shown = [t \in Tab |-> Nothing]
  /\ results = [t \in Tab |-> NoResults]
  /\ left = [t \in Tab |-> Off]
  /\ picked = [t \in Tab |-> FALSE]
  /\ call = [c \in Tab \X Flow |-> Idle]
  /\ edits = 0 /\ faults = 0

-----------------------------------------------------------------------------
(* Each definition of this module named "bug" is a mistake that could be made in
   the definition after it; the specification uses none of them. *)

bugRemaining(s) == (HalfLimit - elapsed[s]) \div 2
(* The entitlement is asked for on an official test only. *)
Allowed == ~Official \/ entitled

bugRawRemaining(s) == HalfLimit - elapsed[s]
(* loadQuizSession rounds the time that is left up to whole seconds. *)
Remaining(s) == (HalfLimit - elapsed[s] + 1) \div 2

InProgress(s) == row[s].status = "in_progress"
TimeUp(s) == elapsed[s] = HalfLimit

ViewOf(s) ==
  [sid |-> s,
   status |-> IF InProgress(s) THEN "active" ELSE row[s].status,
   current |-> row[s].current, correct |-> row[s].correct, remaining |-> Remaining(s)]

Precedes(q) == {p \in published : p < q}
(* The published question at an OFFSET, None when there are not so many. *)
QuestionAt(n) ==
  IF n < Cardinality(published)
  THEN CHOOSE q \in published : Cardinality(Precedes(q)) = n
  ELSE None

Waits(c, op, at) == call[c].op = op /\ call[c].at = at
Sets(c, request) == call' = [call EXCEPT ![c] = request]
Moves(c, at, view) ==
  Sets(c, [op |-> call[c].op, at |-> at, sid |-> call[c].sid, item |-> call[c].item,
           right |-> call[c].right, view |-> view, code |-> "none"])
(* The response: its status as the client tells it apart, its session, its question. *)
Replies(c, code, view, q) ==
  Sets(c, [op |-> call[c].op, at |-> "answered", sid |-> call[c].sid, item |-> q,
           right |-> call[c].right, view |-> view, code |-> code])
Refuses(c, code) == Replies(c, code, NoView, None)

(* status = 'completed' and the learner's study task, in one transaction. *)
Completes(s) ==
  /\ row' = [row EXCEPT ![s] = [status |-> "completed", total |-> row[s].total,
                                current |-> row[s].current, correct |-> row[s].correct]]
  /\ progress' = progress + 1

-----------------------------------------------------------------------------
(* The handlers.  A step is one statement or one transaction. *)

(* POST /api/quiz/start: the questions are counted and a row is inserted; the
   learner may have other sessions in progress. *)
StartAssessmentQuiz(c) ==
  /\ Waits(c, "start", "sent")
  /\ \/ /\ published = {} \/ ~Allowed
        /\ Refuses(c, "failed")
        /\ UNCHANGED db
     \/ /\ published # {} /\ Allowed
        /\ \E s \in Session :
             /\ row[s].status = "none"
             /\ row' = [row EXCEPT ![s] =
                  [status |-> "in_progress", total |-> Cardinality(published),
                   current |-> 0, correct |-> 0]]
             /\ elapsed' = [elapsed EXCEPT ![s] = 0]
        /\ Replies(c, "ok", NoView, None)
        /\ UNCHANGED <<answered, progress>>

(* GET /active: the session in progress that was started last.  Sessions whose
   time is up are not told apart by how long it has been. *)
PickActive(c) ==
  /\ Waits(c, "active", "sent")
  /\ \/ /\ \A s \in Session : ~InProgress(s)
        /\ Replies(c, "ok", NoView, None)
     \/ \E s \in Session :
          /\ InProgress(s)
          /\ \A r \in Session : InProgress(r) => elapsed[s] <= elapsed[r]
          /\ Sets(c, Request("active", "reload", s, None, FALSE))
  /\ UNCHANGED db

Expired(view) == view.status = "active" /\ view.remaining = 0

(* loadQuizSession, a read outside any transaction: the start of the question
   handler, the second query of the active handler, what completeExpiredQuizSession
   and the answer handler return.  The question handler goes on with the view. *)
LoadQuizSession(c) ==
  LET view == ViewOf(call[c].sid) IN
  /\ Waits(c, "question", "sent") \/ call[c].at = "reload"
  /\ \/ call[c].op # "answer" /\ Expired(view) /\ Moves(c, "expired", view)
     \/ call[c].op = "question" /\ ~Expired(view) /\ Moves(c, "loaded", view)
     \/ /\ call[c].op = "answer" \/ (call[c].op = "active" /\ ~Expired(view))
        /\ Replies(c, "ok", view, None)
  /\ UNCHANGED db

bugStillOpen(s) == row[s].status # "abandoned"
(* The status under the lock, after a view that may be old. *)
StillOpen(s) == InProgress(s)

(* completeExpiredQuizSession *)
CompleteExpired(c) ==
  LET s == call[c].sid IN
  /\ call[c].at = "expired"
  /\ IF StillOpen(s) THEN Completes(s) ELSE UNCHANGED <<row, progress>>
  /\ Moves(c, "reload", NoView)
  /\ UNCHANGED <<elapsed, answered>>

(* GET /question: the question at the offset of the view, which other requests
   and the administration may have left behind. *)
ReturnQuestion(c) ==
  LET view == call[c].view
      q == QuestionAt(view.current) IN
  /\ Waits(c, "question", "loaded")
  /\ \/ view.status \notin {"active", "completed"} /\ Refuses(c, "failed")
     \/ view.status = "active" /\ ~Allowed /\ Refuses(c, "forbidden")
     \/ view.status = "completed" /\ Replies(c, "ok", view, None)
     \/ /\ view.status = "active" /\ Allowed
        /\ IF view.current >= row[view.sid].total THEN Replies(c, "ok", view, None)
           ELSE IF q = None THEN Refuses(c, "failed")
           ELSE Replies(c, "ok", view, q)
  /\ UNCHANGED db

IsCurrent(s, q) == q = QuestionAt(row[s].current)
(* The unique index on session and question. *)
IsNew(s, q) == \A right \in BOOLEAN : <<q, right>> \notin answered[s]

(* The row after an answer, completed with its last. *)
NextRow(s, right) ==
  [status |-> IF row[s].current + 1 >= row[s].total THEN "completed" ELSE "in_progress",
   total |-> row[s].total, current |-> row[s].current + 1,
   correct |-> row[s].correct + IF right THEN 1 ELSE 0]

bugOpenForAnswer(s) == row[s].status # "none"
OpenForAnswer(s) == InProgress(s)

(* POST /answer: one transaction under the row's lock. *)
RefuseAnswer(c) ==
  LET s == call[c].sid  q == call[c].item IN
  /\ Waits(c, "answer", "sent")
  /\ \/ /\ \/ ~OpenForAnswer(s)
           \/ ~TimeUp(s) /\ Allowed /\ ~(IsCurrent(s, q) /\ IsNew(s, q))
        /\ Refuses(c, "failed")
     \/ OpenForAnswer(s) /\ ~TimeUp(s) /\ ~Allowed /\ Refuses(c, "forbidden")
  /\ UNCHANGED db

bugExpireOnAnswer(c) ==
  /\ Waits(c, "answer", "sent")
  /\ OpenForAnswer(call[c].sid) /\ TimeUp(call[c].sid)
  /\ Refuses(c, "expired")
  /\ UNCHANGED db

ExpireOnAnswer(c) ==
  /\ Waits(c, "answer", "sent")
  /\ OpenForAnswer(call[c].sid) /\ TimeUp(call[c].sid)
  /\ Completes(call[c].sid)
  /\ Refuses(c, "expired")
  /\ UNCHANGED <<elapsed, answered>>

RecordAnswer(c) ==
  LET s == call[c].sid  q == call[c].item  next == NextRow(s, call[c].right) IN
  /\ Waits(c, "answer", "sent")
  /\ OpenForAnswer(s) /\ ~TimeUp(s) /\ Allowed
  /\ IsCurrent(s, q) /\ IsNew(s, q)
  /\ answered' = [answered EXCEPT ![s] = answered[s] \cup {<<q, call[c].right>>}]
  /\ row' = [row EXCEPT ![s] = next]
  /\ progress' = IF next.status = "completed" THEN progress + 1 ELSE progress
  /\ Moves(c, "reload", NoView)
  /\ UNCHANGED elapsed

bugIsOver(view) == view.status # "none"
IsOver(view) == view.status = "completed"

(* GET /results: only of a completed session. *)
ReturnResults(c) ==
  LET view == ViewOf(call[c].sid) IN
  /\ Waits(c, "results", "sent")
  /\ IF IsOver(view) THEN Replies(c, "ok", view, None) ELSE Refuses(c, "failed")
  /\ UNCHANGED db

Serve(c) ==
  /\ \/ StartAssessmentQuiz(c) \/ PickActive(c) \/ LoadQuizSession(c)
     \/ CompleteExpired(c) \/ ReturnQuestion(c)
     \/ RefuseAnswer(c) \/ ExpireOnAnswer(c) \/ RecordAnswer(c) \/ ReturnResults(c)
  /\ UNCHANGED <<published, entitled, edits, faults>> /\ UNCHANGED screen

(* A request fails before it did anything, or its response is lost. *)
Fault(c) ==
  /\ faults < MaxFaults
  /\ \/ call[c].at = "sent" /\ \E code \in {"failed", "lost"} : Refuses(c, code)
     \/ call[c].at = "answered" /\ call[c].code # "lost" /\ Refuses(c, "lost")
  /\ faults' = faults + 1
  /\ UNCHANGED <<published, entitled, edits>> /\ UNCHANGED db /\ UNCHANGED screen

-----------------------------------------------------------------------------
(* The administration *)

AbortSession(s) ==
  /\ AdminActs /\ InProgress(s)
  /\ row' = [row EXCEPT ![s] = [status |-> "abandoned", total |-> row[s].total,
                                current |-> row[s].current, correct |-> row[s].correct]]
  /\ UNCHANGED <<elapsed, answered, progress, published, entitled, edits, faults, call>>
  /\ UNCHANGED screen

(* Extending by a second: started_at moves a second into the past. *)
ExtendTime(s) ==
  /\ AdminActs /\ InProgress(s)
  /\ elapsed' = [elapsed EXCEPT ![s] =
       IF elapsed[s] + 2 <= HalfLimit THEN elapsed[s] + 2 ELSE HalfLimit]
  /\ UNCHANGED <<row, answered, progress, published, entitled, edits, faults, call>>
  /\ UNCHANGED screen

(* The learner's subscription lapses, or the feature is switched off. *)
LoseEntitlement ==
  /\ Official /\ entitled
  /\ entitled' = FALSE
  /\ UNCHANGED <<published, edits, faults, call>> /\ UNCHANGED db /\ UNCHANGED screen

(* A question is published, or archived. *)
EditBank(q) ==
  /\ edits < MaxEdits
  /\ published' = IF q \in published THEN published \ {q} ELSE published \cup {q}
  /\ edits' = edits + 1
  /\ UNCHANGED <<entitled, faults, call>> /\ UNCHANGED db /\ UNCHANGED screen

-----------------------------------------------------------------------------
(* The page.  Its state is lost when the tab goes to the other page or is loaded
   again. *)

OnlyCall(t, f, request) == Sets(<<t, f>>, request)
Done(t, f) == OnlyCall(t, f, Idle)
Heard(t, f, op) == Waits(<<t, f>>, op, "answered")
CodeOf(t, f) == call[<<t, f>>].code
ReplyOf(t, f) == call[<<t, f>>].view

Mounts(t, p, kept) ==
  /\ page' = [page EXCEPT ![t] = p]
  /\ shown' = [shown EXCEPT ![t] = Nothing]
  /\ results' = [results EXCEPT ![t] = NoResults]
  /\ left' = [left EXCEPT ![t] = Off]
  /\ picked' = [picked EXCEPT ![t] = FALSE]
  /\ call' = [c \in Tab \X Flow |->
       IF c[1] # t THEN call[c]
       ELSE IF c[2] = "mount" THEN Request("active", "sent", None, None, FALSE)
       ELSE IF c[2] = "gone" THEN kept ELSE Idle]

(* A request that still does something when nobody sees what it brings: the other
   ones read, and are forgotten.  (Without Lingers all are: they failed.) *)
Matters(k) ==
  /\ Lingers /\ k.op \notin {"none", "results"}
  /\ k.op = "question" => k.at # "answered"

(* router.replace and links unmount the page and abort none of its requests: the
   server carries them out, and the code that waits for them goes on, for nobody.
   Bound: of the requests left behind by a tab, one is followed. *)
Navigates(t, p, waiting) ==
  LET behind == {call[<<t, f>>] : f \in waiting} IN
  \E kept \in behind \cup {Idle} :
    /\ IF \E k \in behind : Matters(k) THEN Matters(kept) ELSE kept = Idle
    /\ Mounts(t, p, kept)

(* setResults(view); setQuestion(null) *)
ShowsResults(t, view) ==
  /\ results' = [results EXCEPT ![t] =
       [sid |-> view.sid, current |-> view.current, correct |-> view.correct]]
  /\ shown' = [shown EXCEPT ![t] = Nothing]
  /\ picked' = [picked EXCEPT ![t] = FALSE]

(* setQuestion: the panel forgets its selection when the question is another one. *)
ShowsQuestion(t, s, q) ==
  /\ shown' = [shown EXCEPT ![t] = [sid |-> s, item |-> q]]
  /\ picked' = [picked EXCEPT ![t] = picked[t] /\ shown[t].item = q]
  /\ UNCHANGED results

KeepsScreen == UNCHANGED <<shown, results, picked>>
StopTimer(t) == left' = [left EXCEPT ![t] = Off]

(* The learner opens the quiz, or loads the page again: the browser drops the
   connections, and the server stops working for them. *)
Load(t, p) == Mounts(t, p, Idle)

(* The learner follows a link to the quiz or goes back to it. *)
Follow(t, p) ==
  /\ page[t] # "closed"
  /\ Navigates(t, p, Flow)

(* The effect of mounting: the focused page resumes the active session, the hub
   goes to it; without one the focused page goes to the hub. *)
ApplyActive(t) ==
  LET view == ReplyOf(t, "mount")
      found == CodeOf(t, "mount") = "ok" /\ view.sid # None IN
  /\ Heard(t, "mount", "active")
  /\ \/ /\ found /\ page[t] = "focus"
        /\ OnlyCall(t, "mount", Request("question", "sent", view.sid, None, FALSE))
        /\ UNCHANGED screen
     \/ found /\ page[t] = "hub" /\ Navigates(t, "focus", Flow \ {"mount"})
     \/ ~found /\ page[t] = "focus" /\ Navigates(t, "hub", Flow \ {"mount"})
     \/ ~found /\ page[t] = "hub" /\ Done(t, "mount") /\ UNCHANGED screen

(* resumeSession *)
ApplyResume(t) ==
  LET view == ReplyOf(t, "mount") IN
  /\ Heard(t, "mount", "question")
  /\ \/ CodeOf(t, "mount") # "ok" /\ KeepsScreen /\ UNCHANGED left
     \/ /\ CodeOf(t, "mount") = "ok" /\ view.status = "completed"
        /\ results' = [results EXCEPT ![t] =
             [sid |-> view.sid, current |-> view.current, correct |-> view.correct]]
        /\ UNCHANGED <<shown, picked, left>>
     \/ /\ CodeOf(t, "mount") = "ok" /\ view.status # "completed"
        /\ ShowsQuestion(t, view.sid, call[<<t, "mount">>].item)
        /\ left' = [left EXCEPT ![t] =
             IF view.remaining > 0 THEN 2 * view.remaining ELSE left[t]]
  /\ Done(t, "mount")
  /\ UNCHANGED page

(* !inQuestion && !results && !resuming *)
ShowsHub(t) ==
  /\ page[t] # "closed"
  /\ shown[t].item = None
  /\ results[t] = NoResults
  /\ call[<<t, "mount">>].op # "question"

(* Bound: a learner starts a quiz while a row is left for it. *)
Start(t) ==
  /\ ShowsHub(t)
  /\ call[<<t, "start">>] = Idle
  /\ Cardinality({s \in Session : row[s].status = "none"}) >
       Cardinality({c \in Tab \X Flow : Waits(c, "start", "sent")})
  /\ StopTimer(t)
  /\ OnlyCall(t, "start", Request("start", "sent", None, None, FALSE))
  /\ UNCHANGED <<page, shown, results, picked>>

(* router.replace to the focused page mounts it, unless the tab is on it already. *)
ApplyStart(t) ==
  /\ Heard(t, "start", "start")
  /\ IF CodeOf(t, "start") = "ok" /\ page[t] = "hub"
     THEN Navigates(t, "focus", Flow \ {"start"})
     ELSE Done(t, "start") /\ UNCHANGED screen

(* QuizQuestionPanel: an option is selected and sent, with the question that was on
   the screen at the click. *)
Pick(t, right) ==
  /\ shown[t].item # None /\ ~picked[t]
  /\ call[<<t, "answer">>] = Idle
  /\ picked' = [picked EXCEPT ![t] = TRUE]
  /\ OnlyCall(t, "answer", Request("answer", "sent", shown[t].sid, shown[t].item, right))
  /\ UNCHANGED <<page, shown, results, left>>

IsQuizAnswerExpired(code) == code \in {"expired", "forbidden"}

ApplyAnswer(t) ==
  LET view == ReplyOf(t, "answer")
      code == CodeOf(t, "answer") IN
  /\ Heard(t, "answer", "answer")
  /\ \/ /\ code = "ok" /\ view.status = "completed"
        /\ ShowsResults(t, view) /\ StopTimer(t) /\ Done(t, "answer")
     \/ /\ code = "ok" /\ view.status # "completed"
        /\ OnlyCall(t, "answer", Request("question", "sent", view.sid, None, FALSE))
        /\ KeepsScreen /\ UNCHANGED left
     \/ /\ IsQuizAnswerExpired(code)
        /\ OnlyCall(t, "answer", Request("results", "sent", call[<<t, "answer">>].sid, None, FALSE))
        /\ StopTimer(t) /\ KeepsScreen
     \/ /\ code # "ok" /\ ~IsQuizAnswerExpired(code)
        /\ Done(t, "answer") /\ KeepsScreen /\ UNCHANGED left
  /\ UNCHANGED page

(* The next question is shown whatever the status of the response: a refusal has
   neither a session nor a question. *)
ApplyNext(t) ==
  /\ Heard(t, "answer", "question")
  /\ \/ CodeOf(t, "answer") = "lost" /\ KeepsScreen
     \/ /\ CodeOf(t, "answer") # "lost"
        /\ ShowsQuestion(t, ReplyOf(t, "answer").sid, call[<<t, "answer">>].item)
  /\ Done(t, "answer")
  /\ UNCHANGED <<page, left>>

OnScreen(t) == shown[t].sid # None

(* The countdown is at zero and a session is on the screen, with a question or not. *)
CountdownEnds(t) ==
  /\ left[t] = 0 /\ OnScreen(t)
  /\ StopTimer(t)
  /\ OnlyCall(t, "expire", Request("question", "sent", shown[t].sid, None, FALSE))
  /\ UNCHANGED <<page, shown, results, picked>>

ShowsAsOver(view) == view.status = "completed"
ApplyExpiry(t) ==
  LET code == CodeOf(t, "expire") IN
  /\ Heard(t, "expire", "question")
  /\ \/ /\ code = "ok" /\ ShowsAsOver(ReplyOf(t, "expire"))
        /\ ShowsResults(t, ReplyOf(t, "expire")) /\ Done(t, "expire")
     \/ /\ code = "lost" \/ (code = "ok" /\ ~ShowsAsOver(ReplyOf(t, "expire")))
        /\ KeepsScreen /\ Done(t, "expire")
     \/ /\ code \in {"forbidden", "failed"}
        /\ OnlyCall(t, "expire", Request("results", "sent", call[<<t, "expire">>].sid, None, FALSE))
        /\ KeepsScreen
  /\ UNCHANGED <<page, left>>

(* The results that an expired answer or countdown asked for. *)
ApplyResults(t, f) ==
  /\ Heard(t, f, "results")
  /\ IF CodeOf(t, f) = "ok" THEN ShowsResults(t, ReplyOf(t, f)) ELSE KeepsScreen
  /\ Done(t, f)
  /\ UNCHANGED <<page, left>>

(* resetToHub, from the results *)
ResetToHub(t) ==
  /\ results[t] # NoResults
  /\ Navigates(t, "hub", Flow)

(* The code of a page that the tab has left goes on with the response: it may ask for
   a question, or send the tab to the other page, but what it shows is not seen.
   (Whether the hub or the focused page had looked for an active session is not
   kept.) *)
ApplyGone(t) ==
  LET op == call[<<t, "gone">>].op
      view == ReplyOf(t, "gone")
      ok == CodeOf(t, "gone") = "ok"
      found == ok /\ view.sid # None
      asks == op = "answer" /\ ok /\ view.status # "completed"
      starts == op = "start" /\ ok /\ page[t] = "hub"
      others == Flow \ {"gone"} IN
  /\ call[<<t, "gone">>].at = "answered"
  /\ \/ /\ asks \/ (op = "active" /\ found)
        /\ OnlyCall(t, "gone", Request("question", "sent", view.sid, None, FALSE))
        /\ UNCHANGED screen
     \/ /\ starts \/ (op = "active" /\ found /\ page[t] = "hub")
        /\ Navigates(t, "focus", others)
     \/ op = "active" /\ ~found /\ page[t] = "focus" /\ Navigates(t, "hub", others)
     \/ ~asks /\ ~starts /\ Done(t, "gone") /\ UNCHANGED screen

Acts(t) ==
  \/ \E p \in {"hub", "focus"} : Load(t, p) \/ Follow(t, p)
  \/ Start(t) \/ ResetToHub(t) \/ \E right \in BOOLEAN : Pick(t, right)
Reacts(t) ==
  \/ ApplyActive(t) \/ ApplyResume(t) \/ ApplyStart(t)
  \/ ApplyAnswer(t) \/ ApplyNext(t) \/ CountdownEnds(t) \/ ApplyExpiry(t)
  \/ \E f \in {"answer", "expire"} : ApplyResults(t, f)
  \/ ApplyGone(t)
Client(t) ==
  /\ Acts(t) \/ Reacts(t)
  /\ UNCHANGED <<published, entitled, edits, faults>> /\ UNCHANGED db

bugCountDown(n) == IF n > 1 THEN n - 1 ELSE n
(* The interval of a countdown stops at zero. *)
CountDown(n) == IF n > 0 THEN n - 1 ELSE n

(* Half a second passes, for the rows and for the countdowns that run. *)
Tick ==
  /\ elapsed' = [s \in Session |->
       IF row[s].status # "none" /\ ~TimeUp(s) THEN elapsed[s] + 1 ELSE elapsed[s]]
  /\ left' = [t \in Tab |-> CountDown(left[t])]
  /\ UNCHANGED <<row, answered, published, entitled, progress, page, shown, results, picked,
                 call, edits, faults>>

Next ==
  \/ \E c \in Tab \X Flow : Serve(c) \/ Fault(c)
  \/ \E s \in Session : AbortSession(s) \/ ExtendTime(s)
  \/ LoseEntitlement
  \/ \E q \in Question : EditBank(q)
  \/ \E t \in Tab : Client(t)
  \/ Tick

Spec == Init /\ [][Next]_vars

(* Fairness: time passes, the server answers, and a browser runs its timers and
   the code that waits for an answer.  The learner owes nothing, nor does the
   administration. *)
FairSpec ==
  /\ Spec
  /\ WF_vars(Tick)
  /\ \A c \in Tab \X Flow : WF_vars(Serve(c))
  /\ \A t \in Tab : WF_vars(Reacts(t) /\ UNCHANGED <<published, entitled, edits, faults, db>>)

-----------------------------------------------------------------------------
(* Properties *)

(* A completed session counts for the learner's study plan exactly once, whoever
   completed it: its last answer, an answer that came too late, or any of the
   requests of several tabs that noticed the end of its time from an old view. *)
ProgressCountedOnce ==
  progress = Cardinality({s \in Session : row[s].status = "completed"})

(* The numbers of a session are those of its answers, whatever was answered twice,
   from two tabs, or after questions were published and archived under it. *)
TallyMatchesAnswers ==
  \A s \in Session :
    /\ row[s].current = Cardinality(answered[s])
    /\ row[s].correct = Cardinality({a \in answered[s] : a[2]})
    /\ row[s].current <= row[s].total

(* What the server counts is what happened, for the learner and in the session. *)
CountsAgree == ProgressCountedOnce /\ TallyMatchesAnswers

(* A learner who sees results sees those of a session that is over, and what the
   server has stored. *)
ResultsAreStored ==
  \A t \in Tab :
    results[t].sid # None =>
      /\ row[results[t].sid].status = "completed"
      /\ results[t].current = row[results[t].sid].current
      /\ results[t].correct = row[results[t].sid].correct

(* When a countdown is at zero the server agrees that the time is up: the question
   it asks for then completes the session, and no learner is left on a question
   whose clock has stopped. *)
ZeroMeansOver ==
  \A t \in Tab :
    left[t] = 0 /\ shown[t].sid # None => TimeUp(shown[t].sid)

(* What was decided stays: a session that is completed or abandoned keeps its row
   and its answers. *)
DecidedIsFinal ==
  [][\A s \in Session :
       row[s].status \in {"completed", "abandoned"} =>
         row'[s] = row[s] /\ answered'[s] = answered[s]]_vars

(* What is not promised under: a request failed, the entitlement lapsed, or a session
   was aborted. *)
Disturbed ==
  faults > 0 \/ ~entitled \/ \E s \in Session : row[s].status = "abandoned"

(* A countdown ends in the results of the session, unless the learner leaves the
   page before, or the next question was archived; the race of a late answer with the
   end of the time included. *)
CountdownShowsResults ==
  \A t \in Tab :
    left[t] # Off ~>
      \/ results[t] # NoResults
      \/ call[<<t, "mount">>] # Idle \/ call[<<t, "start">>] # Idle
      \/ Disturbed \/ edits > 0

(* No learner is left on a question that nothing takes away: its countdown runs, or a
   request is under way that ends in another question or in results, or the results
   are on the page beside it; whatever was answered late, by another tab or by a page
   that was left, and whatever became of the question meanwhile. *)
LearnerCanGoOn ==
  \A t \in Tab :
    shown[t].item # None /\ ~Disturbed =>
      \/ left[t] # Off
      \/ call[<<t, "answer">>] # Idle \/ call[<<t, "expire">>] # Idle
      \/ results[t] # NoResults
=============================================================================
