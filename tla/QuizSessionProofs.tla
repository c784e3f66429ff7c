-------------------------- MODULE QuizSessionProofs --------------------------
(***************************************************************************)
(* What QuizSession promises for every number of tabs, sessions, questions *)
(* and seconds.  The argument has two halves: what the rows are, whatever  *)
(* the handlers and the administration do to them, and what a tab may      *)
(* still believe of them, since nothing it has heard can become wrong in   *)
(* the direction that matters: a session stays known, its time only        *)
(* passes, and what was decided stays decided.  A third part shows what    *)
(* the requests of a tab lead to, so that no learner is left on a question *)
(* that nothing takes away.                                                *)
(***************************************************************************)
EXTENDS QuizSession, FiniteSetTheorems, TLAPS

(* The row of a session and its answers. *)
RowFits(s) ==
  /\ row[s].status = "none" => answered[s] = {} /\ row[s].current = 0
  /\ InProgress(s) => row[s].current < row[s].total
  /\ row[s].current <= row[s].total
  /\ row[s].current = Cardinality(answered[s])
  /\ row[s].correct = Cardinality({a \in answered[s] : a[2]})

Completed == {s \in Session : row[s].status = "completed"}
RowsFit == (\A s \in Session : RowFits(s)) /\ progress = Cardinality(Completed)

Known(s) == s \in Session /\ row[s].status # "none"

(* What a request or a tab says of a session that is over. *)
Stored(s, n, k) ==
  Known(s) /\ row[s].status = "completed" /\ row[s].current = n /\ row[s].correct = k

(* What a view says may be old, but has not become wrong. *)
ViewFits(v) ==
  /\ v.sid = None => v.status = "none"
  /\ v.sid # None => Known(v.sid) /\ 2 * v.remaining + elapsed[v.sid] >= HalfLimit
  /\ v.status = "completed" => Stored(v.sid, v.current, v.correct)

CallFits(k) ==
  /\ k.sid # None => Known(k.sid)
  /\ k.op \in {"question", "answer", "results"} \/ k.at \in {"reload", "expired", "loaded"} =>
       k.sid # None
  /\ k.at = "loaded" => k.view.sid # None
  /\ k.view.sid # None => k.view.sid = k.sid
  /\ k.op = "answer" /\ k.at = "sent" => k.item \in Question
  /\ k.at = "answered" =>
       /\ k.item # None => k.view.sid # None
       /\ k.code = "ok" /\ k.op \in {"question", "answer", "results"} => k.view.sid # None
       /\ k.code = "ok" /\ k.op = "results" => k.view.status = "completed"
  /\ ViewFits(k.view)

CallsFit == \A c \in Tab \X Flow : CallFits(call[c])

(* A tab with a countdown knows of one session only. *)
TabFits(t) ==
  /\ shown[t].sid # None => Known(shown[t].sid)
  /\ shown[t].item # None => shown[t].sid # None
  /\ results[t].sid # None => Stored(results[t].sid, results[t].current, results[t].correct)
  /\ call[<<t, "answer">>].op \in {"none", "answer", "question", "results"}
  /\ call[<<t, "mount">>].op # "none" =>
       /\ left[t] = Off /\ shown[t].item = None
       /\ call[<<t, "answer">>].op = "none" /\ call[<<t, "expire">>].op = "none"
  /\ call[<<t, "expire">>].op # "none" => left[t] = Off
  /\ left[t] # Off /\ call[<<t, "answer">>].op # "none" =>
       call[<<t, "answer">>].sid = shown[t].sid
  /\ left[t] # Off /\ shown[t].sid # None => left[t] + elapsed[shown[t].sid] >= HalfLimit

TabsFit == \A t \in Tab : TabFits(t)

IInv == RowsFit /\ CallsFit /\ TabsFit

-----------------------------------------------------------------------------
(* Shapes *)

LEMMA Constants ==
  /\ NumQuestions \in Nat \ {0} /\ Limit \in Nat \ {0} /\ HalfLimit \in Nat
  /\ IsFiniteSet(Session) /\ None \notin Session /\ None \notin Question
  /\ IsFiniteSet(Question) /\ Cardinality(Question) = NumQuestions
  BY QuizAssumption, FS_Interval DEF HalfLimit, Question

LEMMA NoViewTyped == NoView \in View
  BY Constants DEF NoView, View

LEMMA ViewsAreTyped ==
  ASSUME TypeOK, NEW s \in Session
  PROVE  ViewOf(s) \in View /\ ViewOf(s).sid = s
  <1>1. Remaining(s) \in 0..Limit
    BY Constants DEF TypeOK, Remaining, HalfLimit
  <1>2. row[s] \in Row
    BY DEF TypeOK
  <1>3. QED
    BY <1>1, <1>2 DEF ViewOf, View, Row, InProgress

Op == {"none", "active", "question", "answer", "results", "start"}
At == {"idle", "sent", "reload", "expired", "loaded", "answered"}
Code == {"none", "ok", "expired", "forbidden", "failed", "lost"}
Sid == Session \cup {None}
Item == Question \cup {None}

LEMMA RequestTyped ==
  ASSUME NEW op \in Op, NEW at \in At, NEW s \in Sid, NEW q \in Item, NEW right \in BOOLEAN
  PROVE  Request(op, at, s, q, right) \in Call
  BY NoViewTyped DEF Request, Call, Op, At, Sid, Item

LEMMA IdleTyped == Idle \in Call
  BY RequestTyped DEF Idle, Op, At, Sid, Item

(* A request that goes on keeps what it is about. *)
LEMMA SetsTyped ==
  ASSUME TypeOK, NEW c \in Tab \X Flow, NEW k \in Call, Sets(c, k)
  PROVE  call' \in [Tab \X Flow -> Call] /\ call'[c] = k
         /\ \A d \in Tab \X Flow : d # c => call'[d] = call[d]
  BY DEF TypeOK, Sets

LEMMA MovesTyped ==
  ASSUME TypeOK, NEW c \in Tab \X Flow, NEW at \in At, NEW v \in View, Moves(c, at, v)
  PROVE  /\ call' \in [Tab \X Flow -> Call]
         /\ call'[c] = [op |-> call[c].op, at |-> at, sid |-> call[c].sid,
                        item |-> call[c].item, right |-> call[c].right,
                        view |-> v, code |-> "none"]
         /\ \A d \in Tab \X Flow : d # c => call'[d] = call[d]
  <1>1. call[c] \in Call
    BY DEF TypeOK
  <1>2. [op |-> call[c].op, at |-> at, sid |-> call[c].sid, item |-> call[c].item,
         right |-> call[c].right, view |-> v, code |-> "none"] \in Call
    BY <1>1 DEF Call, At
  <1>3. QED
    BY <1>2, SetsTyped DEF Moves

-----------------------------------------------------------------------------
(* The question at an offset: the published questions fill the offsets from 0. *)

LEMMA OffsetsAreFilled ==
  ASSUME published \subseteq Question, NEW n \in Nat, n < Cardinality(published)
  PROVE  \E q \in published : Cardinality(Precedes(q)) = n
  <1> DEFINE place == [q \in published |-> Cardinality(Precedes(q))]
             offsets == 0 .. Cardinality(published) - 1
  <1>1. IsFiniteSet(published) /\ Cardinality(published) \in Nat
    BY Constants, FS_Subset, FS_CardinalityType
  <1>2. \A q \in published : IsFiniteSet(Precedes(q)) /\ Cardinality(Precedes(q)) \in Nat
    BY <1>1, FS_Subset, FS_CardinalityType DEF Precedes
  <1>3. ASSUME NEW p \in published, NEW q \in published, p < q
        PROVE  Cardinality(Precedes(p)) < Cardinality(Precedes(q))
    <2>1. p \in Int /\ q \in Int /\ published \subseteq Int
      BY DEF Question
    <2>2. Precedes(p) \subseteq Precedes(q)
      <3>1. SUFFICES ASSUME NEW r \in published, r < p PROVE r < q
        BY DEF Precedes
      <3>2. r \in Int /\ p \in Int /\ q \in Int
        BY <2>1
      <3>3. QED
        BY <1>3, <3>1, <3>2
    <2>3. p \in Precedes(q)
      BY <1>3 DEF Precedes
    <2>4. ~(p < p)
      BY <2>1
    <2>5. p \notin Precedes(p)
      BY <2>4 DEF Precedes
    <2>6. QED
      BY <1>2, <2>2, <2>3, <2>5, FS_Subset
  <1>4. \A q \in published : Cardinality(Precedes(q)) < Cardinality(published)
    <2>1. TAKE q \in published
    <2>2. q \in Int /\ Precedes(q) \subseteq published /\ q \notin Precedes(q)
      BY DEF Precedes, Question
    <2>3. QED
      BY <1>1, <1>2, <2>2, FS_Subset
  <1>5. place \in Injection(published, offsets)
    <2>1. place \in [published -> offsets]
      BY <1>1, <1>2, <1>4
    <2>2. \A p, q \in published : place[p] = place[q] => p = q
      <3>1. SUFFICES ASSUME NEW p \in published, NEW q \in published, place[p] = place[q],
                            p # q
                     PROVE  FALSE
        OBVIOUS
      <3>2. p < q \/ q < p
        BY <3>1 DEF Question
      <3>3. QED
        BY <3>1, <3>2, <1>2, <1>3
    <2>3. QED
      BY <2>1, <2>2 DEF Injection, IsInjective
  <1>6. IsFiniteSet(offsets) /\ Cardinality(offsets) = Cardinality(published)
    <2>1. PICK m \in Nat : m = Cardinality(published)
      BY <1>1
    <2>2. IsFiniteSet(0 .. m - 1) /\ Cardinality(0 .. m - 1) = m
      BY FS_Interval
    <2>3. QED
      BY <2>1, <2>2
  <1>7. place \in Surjection(published, offsets)
    BY <1>1, <1>5, <1>6, FS_Injection
  <1>8. n \in offsets
    BY <1>1
  <1>9. QED
    BY <1>7, <1>8 DEF Surjection

-----------------------------------------------------------------------------
(* The rows *)

(* A session stays known, its time only passes, and what was decided stays. *)
Grows ==
  \A s \in Session :
    /\ row[s].status # "none" => row'[s].status # "none" /\ elapsed'[s] >= elapsed[s]
    /\ row[s].status \in {"completed", "abandoned"} =>
         row'[s] = row[s] /\ answered'[s] = answered[s]

RowsTyped ==
  /\ row \in [Session -> Row] /\ elapsed \in [Session -> 0..HalfLimit]
  /\ answered \in [Session -> SUBSET (Question \X BOOLEAN)] /\ progress \in Nat

RowsStep == RowsTyped' /\ RowsFit' /\ Grows

LEMMA AnswersAreFinite ==
  ASSUME TypeOK, NEW s \in Session
  PROVE  /\ IsFiniteSet(answered[s]) /\ IsFiniteSet({a \in answered[s] : a[2]})
         /\ Cardinality(answered[s]) \in Nat
  <1>1. IsFiniteSet({TRUE, FALSE})
    <2>1. IsFiniteSet({TRUE})
      BY FS_Singleton
    <2>2. IsFiniteSet({TRUE} \cup {FALSE})
      BY <2>1, FS_AddElement
    <2>3. {TRUE} \cup {FALSE} = {TRUE, FALSE}
      OBVIOUS
    <2>4. QED
      BY <2>2, <2>3
  <1>2. BOOLEAN = {TRUE, FALSE}
    OBVIOUS
  <1>3. IsFiniteSet(Question \X BOOLEAN)
    BY <1>1, <1>2, Constants, FS_Product
  <1>4. answered[s] \subseteq Question \X BOOLEAN
    BY DEF TypeOK
  <1>5. QED
    BY <1>3, <1>4, FS_Subset, FS_CardinalityType

(* One row changes that was not completed, and the learner's progress with it. *)
LEMMA OneRow ==
  ASSUME TypeOK, RowsFit, NEW s \in Session, NEW r \in Row,
         row' = [row EXCEPT ![s] = r],
         answered' \in [Session -> SUBSET (Question \X BOOLEAN)],
         \A u \in Session : u # s => answered'[u] = answered[u],
         row[s].status # "completed", r.status # "none",
         r.status = "in_progress" => r.current < r.total,
         r.current <= r.total,
         r.current = Cardinality(answered'[s]),
         r.correct = Cardinality({a \in answered'[s] : a[2]}),
         progress' = IF r.status = "completed" THEN progress + 1 ELSE progress
  PROVE  row' \in [Session -> Row] /\ progress' \in Nat /\ RowsFit'
  <1>1. row' \in [Session -> Row] /\ progress' \in Nat
    BY DEF TypeOK
  <1>2. row'[s] = r /\ \A u \in Session : u # s => row'[u] = row[u]
    BY DEF TypeOK
  <1>3. \A u \in Session : RowFits(u)'
    <2>1. TAKE u \in Session
    <2>2. CASE u = s
      BY <1>2, <2>2 DEF RowFits, InProgress
    <2>3. CASE u # s
      BY <1>2, <2>3 DEF RowsFit, RowFits, InProgress
    <2>4. QED
      BY <2>2, <2>3
  <1>4. IsFiniteSet(Completed) /\ s \notin Completed
    BY Constants, FS_Subset DEF Completed
  <1>5. Completed' = IF r.status = "completed" THEN Completed \cup {s} ELSE Completed
    BY <1>2 DEF Completed
  <1>6. progress' = Cardinality(Completed')
    BY <1>4, <1>5, FS_AddElement DEF RowsFit
  <1>7. QED
    BY <1>1, <1>3, <1>6 DEF RowsFit

(* A session in progress is completed as it stands. *)
LEMMA CompletesFits ==
  ASSUME TypeOK, RowsFit, NEW s \in Session, InProgress(s), Completes(s),
         UNCHANGED <<elapsed, answered>>
  PROVE  RowsStep
  <1> DEFINE r == [status |-> "completed", total |-> row[s].total,
                   current |-> row[s].current, correct |-> row[s].correct]
  <1>1. r \in Row
    BY DEF TypeOK, Row
  <1>2. RowFits(s)
    BY DEF RowsFit
  <1>3. row' \in [Session -> Row] /\ progress' \in Nat /\ RowsFit'
    <2>1. row' = [row EXCEPT ![s] = r] /\ progress' = progress + 1
      BY DEF Completes
    <2>2. /\ row[s].status # "completed" /\ r.status = "completed"
          /\ r.current <= r.total /\ r.current = Cardinality(answered'[s])
          /\ r.correct = Cardinality({a \in answered'[s] : a[2]})
      BY <1>2 DEF InProgress, RowFits
    <2>3. answered' \in [Session -> SUBSET (Question \X BOOLEAN)]
      BY DEF TypeOK
    <2> HIDE DEF r
    <2>4. QED
      BY <1>1, <2>1, <2>2, <2>3, OneRow
  <1>4. Grows
    BY DEF Grows, Completes, InProgress, TypeOK
  <1>5. QED
    BY <1>3, <1>4 DEF RowsStep, RowsTyped, TypeOK

LEMMA AbortFits ==
  ASSUME TypeOK, RowsFit, NEW s \in Session, AbortSession(s)
  PROVE  RowsStep
  <1> DEFINE r == [status |-> "abandoned", total |-> row[s].total,
                   current |-> row[s].current, correct |-> row[s].correct]
  <1>1. r \in Row /\ InProgress(s)
    BY DEF TypeOK, Row, AbortSession
  <1>2. RowFits(s)
    BY DEF RowsFit
  <1>3. row' \in [Session -> Row] /\ progress' \in Nat /\ RowsFit'
    <2>1. row' = [row EXCEPT ![s] = r] /\ progress' = progress /\ answered' = answered
      BY DEF AbortSession
    <2>2. /\ row[s].status # "completed" /\ r.status = "abandoned"
          /\ r.current <= r.total /\ r.current = Cardinality(answered'[s])
          /\ r.correct = Cardinality({a \in answered'[s] : a[2]})
      BY <1>1, <1>2, <2>1 DEF InProgress, RowFits
    <2>3. answered' \in [Session -> SUBSET (Question \X BOOLEAN)]
      BY <2>1 DEF TypeOK
    <2> HIDE DEF r
    <2>4. QED
      BY <1>1, <2>1, <2>2, <2>3, OneRow
  <1>4. Grows
    BY DEF Grows, AbortSession, InProgress, TypeOK
  <1>5. QED
    BY <1>3, <1>4 DEF RowsStep, RowsTyped, TypeOK, AbortSession

(* A new row: it had no answers, and takes as many as are published. *)
LEMMA StartFits ==
  ASSUME TypeOK, RowsFit, NEW s \in Session, row[s].status = "none", published # {},
         row' = [row EXCEPT ![s] = [status |-> "in_progress", total |-> Cardinality(published),
                                    current |-> 0, correct |-> 0]],
         elapsed' = [elapsed EXCEPT ![s] = 0], UNCHANGED <<answered, progress>>
  PROVE  RowsStep
  <1> DEFINE r == [status |-> "in_progress", total |-> Cardinality(published),
                   current |-> 0, correct |-> 0]
  <1>1. Cardinality(published) \in 1..NumQuestions
    <2>1. IsFiniteSet(published) /\ Cardinality(published) <= NumQuestions
      BY Constants, FS_Subset DEF TypeOK
    <2>2. QED
      BY <2>1, Constants, FS_CardinalityType, FS_EmptySet
  <1>2. r \in Row
    BY <1>1, Constants DEF Row
  <1>3. RowFits(s)
    BY DEF RowsFit
  <1>4. row' \in [Session -> Row] /\ progress' \in Nat /\ RowsFit'
    <2>1. answered[s] = {} /\ {a \in answered'[s] : a[2]} = {}
      BY <1>3 DEF RowFits
    <2>2. /\ r.status = "in_progress" /\ r.current < r.total /\ r.current <= r.total
          /\ r.current = Cardinality(answered'[s])
          /\ r.correct = Cardinality({a \in answered'[s] : a[2]})
      BY <1>1, <2>1, FS_EmptySet
    <2>3. answered' \in [Session -> SUBSET (Question \X BOOLEAN)]
      BY DEF TypeOK
    <2> HIDE DEF r
    <2>4. QED
      BY <1>2, <2>2, <2>3, OneRow DEF r
  <1>5. elapsed' \in [Session -> 0..HalfLimit]
    BY Constants DEF TypeOK
  <1>6. Grows
    BY DEF Grows, TypeOK
  <1>7. QED
    BY <1>4, <1>5, <1>6 DEF RowsStep, RowsTyped, TypeOK

LEMMA OneMoreAnswer ==
  ASSUME NEW A, NEW q, NEW right \in BOOLEAN, <<q, right>> \notin A,
         IsFiniteSet({a \in A : a[2]})
  PROVE  Cardinality({a \in A \cup {<<q, right>>} : a[2]}) =
           Cardinality({a \in A : a[2]}) + IF right THEN 1 ELSE 0
  <1> DEFINE good == {a \in A : a[2]}
             added == {a \in A \cup {<<q, right>>} : a[2]}
  <1>1. <<q, right>>[2] = right
    OBVIOUS
  <1>2. CASE right = TRUE
    <2>1. added = good \cup {<<q, right>>}
      BY <1>1, <1>2, Zenon
    <2>2. <<q, right>> \notin good
      OBVIOUS
    <2>3. Cardinality(good \cup {<<q, right>>}) = Cardinality(good) + 1
      BY <2>2, FS_AddElement
    <2>4. (IF right THEN 1 ELSE 0) = 1
      BY <1>2
    <2>5. QED
      BY <2>1, <2>3, <2>4
  <1>3. CASE right = FALSE
    <2>1. added = good
      BY <1>1, <1>3, Zenon
    <2>2. Cardinality(good) \in Nat
      BY FS_CardinalityType
    <2>3. (IF right THEN 1 ELSE 0) = 0
      BY <1>3
    <2> HIDE DEF good, added
    <2>4. Cardinality(added) = Cardinality(good) + IF right THEN 1 ELSE 0
      BY <2>1, <2>2, <2>3
    <2>5. QED
      BY <2>4 DEF good, added
  <1>4. QED
    BY <1>2, <1>3

(* An answer to the current question, which had none. *)
LEMMA RecordAnswerFits ==
  ASSUME TypeOK, RowsFit, NEW c \in Tab \X Flow, call[c].sid \in Session,
         call[c].item \in Question, RecordAnswer(c)
  PROVE  RowsStep
  <1> DEFINE s == call[c].sid
             q == call[c].item
             right == call[c].right
             r == NextRow(s, right)
  <1>1. s \in Session /\ q \in Question /\ right \in BOOLEAN
    BY DEF TypeOK, Call
  <1>2. /\ InProgress(s) /\ IsNew(s, q)
        /\ answered' = [answered EXCEPT ![s] = answered[s] \cup {<<q, right>>}]
        /\ row' = [row EXCEPT ![s] = r]
        /\ progress' = IF r.status = "completed" THEN progress + 1 ELSE progress
        /\ UNCHANGED elapsed
    BY DEF RecordAnswer, OpenForAnswer
  <1>3. RowFits(s) /\ row[s].current < row[s].total /\ row[s] \in Row
    BY <1>1, <1>2 DEF RowsFit, RowFits, TypeOK
  <1>4. /\ r.status \in {"completed", "in_progress"} /\ r.total = row[s].total
        /\ r.status = "in_progress" => r.current < r.total
        /\ r.current = row[s].current + 1 /\ r.current <= r.total
        /\ r.correct = row[s].correct + IF right THEN 1 ELSE 0
    BY <1>3, Constants DEF NextRow, Row
  <1>5. <<q, right>> \notin answered[s]
    BY <1>1, <1>2 DEF IsNew
  <1> DEFINE goodOnes == {a \in answered[s] : a[2]}
  <1>6. answered'[s] = answered[s] \cup {<<q, right>>}
    BY <1>1, <1>2 DEF TypeOK
  <1>7. Cardinality(answered'[s]) = Cardinality(answered[s]) + 1
    BY <1>1, <1>5, <1>6, AnswersAreFinite, FS_AddElement
  <1>8. Cardinality({a \in answered'[s] : a[2]}) = Cardinality(goodOnes) + IF right THEN 1 ELSE 0
    <2>1. PICK A : A = answered[s]
      OBVIOUS
    <2>2. <<q, right>> \notin A /\ IsFiniteSet({a \in A : a[2]})
      BY <1>1, <1>5, <2>1, AnswersAreFinite
    <2>3. answered'[s] = A \cup {<<q, right>>}
      BY <1>6, <2>1
    <2> HIDE DEF s, q, right
    <2>4. Cardinality({a \in A \cup {<<q, right>>} : a[2]}) =
            Cardinality({a \in A : a[2]}) + IF right THEN 1 ELSE 0
      BY <1>1, <2>2, OneMoreAnswer
    <2>5. {a \in answered'[s] : a[2]} = {a \in A \cup {<<q, right>>} : a[2]}
      BY <2>3, Zenon
    <2>6. goodOnes = {a \in A : a[2]}
      BY <2>1, Zenon
    <2> HIDE DEF goodOnes
    <2>7. QED
      BY <2>4, <2>5, <2>6, Zenon
  <1>9. r.current = Cardinality(answered'[s])
        /\ r.correct = Cardinality({a \in answered'[s] : a[2]})
    BY <1>3, <1>4, <1>7, <1>8 DEF RowFits
  <1>10. goodOnes \subseteq answered[s] /\ r.correct \in Nat /\ r.correct <= r.current
    <2>1. goodOnes \subseteq answered[s]
      OBVIOUS
    <2>2. Cardinality(goodOnes) <= Cardinality(answered[s])
      BY <1>1, <2>1, AnswersAreFinite, FS_Subset
    <2>3. QED
      BY <1>3, <1>4, <2>1, <2>2, Constants DEF RowFits, Row
  <1>11. r \in Row
    BY <1>3, <1>4, <1>10, Constants DEF Row, NextRow
  <1>12. answered' \in [Session -> SUBSET (Question \X BOOLEAN)]
    BY <1>1, <1>2 DEF TypeOK
  <1>13. row' \in [Session -> Row] /\ progress' \in Nat /\ RowsFit'
    <2>1. \A u \in Session : u # s => answered'[u] = answered[u]
      BY <1>2 DEF TypeOK
    <2>2. row[s].status # "completed"
      BY <1>2 DEF InProgress
    <2> HIDE DEF r, s, right, q
    <2>3. QED
      BY <1>1, <1>2, <1>4, <1>9, <1>11, <1>12, <2>1, <2>2, OneRow
  <1>14. Grows
    BY <1>1, <1>2, <1>4 DEF Grows, TypeOK, InProgress
  <1>15. QED
    BY <1>2, <1>12, <1>13, <1>14 DEF RowsStep, RowsTyped, TypeOK
(* Nothing happens to the rows. *)
LEMMA RowsStay ==
  ASSUME TypeOK, RowsFit, UNCHANGED db
  PROVE  RowsStep
  <1>1. row' = row /\ elapsed' = elapsed /\ answered' = answered /\ progress' = progress
    BY DEF db
  <1>2. RowsTyped' /\ Grows
    BY <1>1 DEF RowsTyped, TypeOK, Grows
  <1>3. RowsFit'
    BY <1>1 DEF RowsFit, RowFits, Completed, InProgress
  <1>4. QED
    BY <1>2, <1>3 DEF RowsStep

LEMMA ExtendFits ==
  ASSUME TypeOK, RowsFit, NEW s \in Session, ExtendTime(s)
  PROVE  RowsStep
  <1>1. row' = row /\ answered' = answered /\ progress' = progress
    BY DEF ExtendTime
  <1>2. RowsTyped' /\ Grows
    BY <1>1, Constants DEF RowsTyped, TypeOK, Grows, ExtendTime
  <1>3. RowsFit'
    BY <1>1 DEF RowsFit, RowFits, Completed, InProgress
  <1>4. QED
    BY <1>2, <1>3 DEF RowsStep

LEMMA TickFits ==
  ASSUME TypeOK, RowsFit, Tick
  PROVE  RowsStep
  <1>1. row' = row /\ answered' = answered /\ progress' = progress
    BY DEF Tick
  <1>2. RowsTyped' /\ Grows
    <2>1. \A s \in Session :
            /\ elapsed[s] \in 0..HalfLimit
            /\ elapsed'[s] = IF row[s].status # "none" /\ elapsed[s] # HalfLimit
                             THEN elapsed[s] + 1 ELSE elapsed[s]
      BY DEF Tick, TimeUp, TypeOK
    <2>2. \A s \in Session : elapsed'[s] \in 0..HalfLimit /\ elapsed'[s] >= elapsed[s]
      BY <2>1, Constants
    <2>3. elapsed' \in [Session -> 0..HalfLimit]
      <3>1. \E f : elapsed' = [s \in Session |-> f[s]]
        BY DEF Tick
      <3>2. QED
        BY <2>2, <3>1
    <2>4. HalfLimit' = HalfLimit
      BY DEF HalfLimit
    <2>5. QED
      BY <1>1, <2>2, <2>3, <2>4 DEF RowsTyped, TypeOK, Grows
  <1>3. RowsFit'
    BY <1>1 DEF RowsFit, RowFits, Completed, InProgress
  <1>4. QED
    BY <1>2, <1>3 DEF RowsStep

-----------------------------------------------------------------------------
(* What was heard stays true. *)

LEMMA KnownStays ==
  ASSUME RowsStep, NEW s, Known(s)
  PROVE  Known(s)'
  BY DEF Known, RowsStep, Grows

LEMMA StoredStays ==
  ASSUME TypeOK, RowsStep, NEW s, NEW n, NEW k, Stored(s, n, k)
  PROVE  Stored(s, n, k)'
  BY DEF Stored, Known, RowsStep, Grows

LEMMA ViewsStay ==
  ASSUME TypeOK, RowsStep, NEW v \in View, ViewFits(v)
  PROVE  ViewFits(v)'
  <1>1. v.sid # None => Known(v.sid)' /\ 2 * v.remaining + elapsed'[v.sid] >= HalfLimit
    <2>1. v.remaining \in Int
      BY Constants DEF View
    <2>2. \A s \in Session : elapsed[s] \in Int /\ elapsed'[s] \in Int
      BY Constants DEF TypeOK, RowsStep, RowsTyped
    <2>3. QED
      BY <2>1, <2>2, Constants DEF ViewFits, Known, RowsStep, Grows
  <1>2. v.status = "completed" => Stored(v.sid, v.current, v.correct)'
    BY StoredStays DEF ViewFits
  <1>3. HalfLimit' = HalfLimit
    BY DEF HalfLimit
  <1>4. QED
    BY <1>1, <1>2, <1>3 DEF ViewFits

LEMMA CallsStay ==
  ASSUME TypeOK, RowsStep, NEW k \in Call, CallFits(k)
  PROVE  CallFits(k)'
  <1>1. k.view \in View
    BY DEF Call
  <1>2. ViewFits(k.view)'
    BY <1>1, ViewsStay DEF CallFits
  <1>3. k.sid # None => Known(k.sid)'
    BY DEF CallFits, Known, RowsStep, Grows
  <1>4. QED
    BY <1>2, <1>3 DEF CallFits, Question

LEMMA FreshView ==
  ASSUME TypeOK, NEW s, Known(s)
  PROVE  ViewOf(s) \in View /\ ViewOf(s).sid = s /\ ViewFits(ViewOf(s))
  <1>1. s \in Session
    BY DEF Known
  <1>2. ViewOf(s) \in View /\ ViewOf(s).sid = s
    BY <1>1, ViewsAreTyped
  <1>3. 2 * Remaining(s) + elapsed[s] >= HalfLimit
    <2>1. elapsed[s] \in 0..HalfLimit
      BY <1>1 DEF TypeOK
    <2>2. QED
      BY <2>1, Constants DEF Remaining
  <1>4. s # None
    BY <1>1, Constants
  <1>5. ViewOf(s).remaining = Remaining(s) /\ ViewOf(s).current = row[s].current
        /\ ViewOf(s).correct = row[s].correct
        /\ (ViewOf(s).status = "completed" => row[s].status = "completed")
    BY DEF ViewOf, InProgress
  <1>6. QED
    BY <1>2, <1>3, <1>4, <1>5 DEF ViewFits, Stored

LEMMA NoViewFits == ViewFits(NoView) /\ ViewFits(NoView)' /\ NoView.sid = None
  BY DEF ViewFits, NoView

-----------------------------------------------------------------------------
(* The requests *)

CallsStep == call' \in [Tab \X Flow -> Call] /\ CallsFit'

(* A request stays what it is, and about the session it is about. *)
Keeps(d) ==
  /\ call'[d].op = call[d].op
  /\ call[d].op # "active" => call'[d].sid = call[d].sid

LEMMA OneCall ==
  ASSUME TypeOK, CallsFit, RowsStep, NEW c \in Tab \X Flow, NEW k \in Call,
         Sets(c, k), CallFits(k)'
  PROVE  CallsStep
  <1>1. /\ call' \in [Tab \X Flow -> Call] /\ call'[c] = k
        /\ \A d \in Tab \X Flow : d # c => call'[d] = call[d]
    BY SetsTyped
  <1>2. ASSUME NEW d \in Tab \X Flow PROVE CallFits(call[d])'
    <2>1. CASE d = c
      BY <1>1, <2>1 DEF CallFits, ViewFits, Known, Stored
    <2>2. CASE d # c
      <3>1. PICK m \in Call : m = call[d]
        BY DEF TypeOK
      <3>2. CallFits(m)'
        BY <3>1, CallsStay DEF CallsFit
      <3>3. call'[d] = m
        BY <1>1, <2>2, <3>1
      <3>4. QED
        BY <3>2, <3>3 DEF CallFits, ViewFits, Known, Stored
    <2>3. QED
      BY <2>1, <2>2
  <1>3. QED
    BY <1>1, <1>2 DEF CallsStep, CallsFit

LEMMA NoCallChanges ==
  ASSUME TypeOK, CallsFit, RowsStep, call' = call
  PROVE  CallsStep /\ \A d \in Tab \X Flow : Keeps(d)
  <1>1. ASSUME NEW d \in Tab \X Flow PROVE CallFits(call[d])'
    <2>1. PICK m \in Call : m = call[d]
      BY DEF TypeOK
    <2>2. CallFits(m)'
      BY <2>1, CallsStay DEF CallsFit
    <2>3. QED
      BY <2>1, <2>2 DEF CallFits, ViewFits, Known, Stored
  <1>2. QED
    BY <1>1 DEF CallsStep, CallsFit, TypeOK, Keeps

LEMMA Answers ==
  ASSUME TypeOK, CallsFit, RowsStep, NEW c \in Tab \X Flow, NEW code \in Code,
         NEW v \in View, NEW q \in Item, Replies(c, code, v, q), ViewFits(v)',
         v.sid # None => v.sid = call[c].sid,
         q # None => v.sid # None,
         code = "ok" /\ call[c].op \in {"question", "answer", "results"} => v.sid # None,
         code = "ok" /\ call[c].op = "results" => v.status = "completed"
  PROVE  CallsStep /\ \A d \in Tab \X Flow : Keeps(d)
  <1> DEFINE k == [op |-> call[c].op, at |-> "answered", sid |-> call[c].sid, item |-> q,
                   right |-> call[c].right, view |-> v, code |-> code]
  <1>1. Sets(c, k) /\ k \in Call
    BY DEF Replies, TypeOK, Call, Code, Item
  <1>2. /\ call' \in [Tab \X Flow -> Call] /\ call'[c] = k
        /\ \A d \in Tab \X Flow : d # c => call'[d] = call[d]
    BY <1>1, SetsTyped
  <1>3. PICK m \in Call : m = k
    BY <1>1
  <1>4. CallFits(call[c]) /\ m.sid = call[c].sid /\ m.op = call[c].op
    BY <1>3 DEF CallsFit
  <1>5. m.sid # None => Known(m.sid)'
    BY <1>4, KnownStays DEF CallFits
  <1>6. CallFits(m)'
    <2>1. m.op \in {"question", "answer", "results"} => m.sid # None
      BY <1>4 DEF CallFits
    <2>2. m.at = "answered" /\ m.view = v /\ m.item = q /\ m.code = code
      BY <1>3
    <2>3. /\ m.view.sid # None => m.view.sid = m.sid
          /\ m.item # None => m.view.sid # None
          /\ m.code = "ok" /\ m.op \in {"question", "answer", "results"} => m.view.sid # None
          /\ m.code = "ok" /\ m.op = "results" => m.view.status = "completed"
      BY <1>4, <2>2
    <2>4. ViewFits(m.view)'
      BY <2>2 DEF ViewFits, Known, Stored
    <2>5. QED
      BY <1>5, <2>1, <2>2, <2>3, <2>4 DEF CallFits
  <1>7. CallsStep
    <2>1. Sets(c, m)
      BY <1>1, <1>3
    <2> HIDE DEF k
    <2>2. QED
      BY <1>6, <2>1, OneCall
  <1>8. \A d \in Tab \X Flow : Keeps(d)
    BY <1>2 DEF Keeps
  <1>9. QED
    BY <1>7, <1>8

LEMMA Refusals ==
  ASSUME TypeOK, CallsFit, RowsStep, NEW c \in Tab \X Flow,
         NEW code \in {"expired", "forbidden", "failed", "lost"}, Refuses(c, code)
  PROVE  CallsStep /\ \A d \in Tab \X Flow : Keeps(d)
  <1>1. NoView \in View /\ None \in Item /\ code \in Code
    BY NoViewTyped DEF Item, Code
  <1>2. Replies(c, code, NoView, None) /\ code # "ok"
    BY DEF Refuses
  <1>3. QED
    BY <1>1, <1>2, NoViewFits, Answers

LEMMA GoesOn ==
  ASSUME TypeOK, CallsFit, RowsStep, NEW c \in Tab \X Flow,
         NEW at \in {"reload", "expired", "loaded"}, NEW v \in View, Moves(c, at, v),
         ViewFits(v)', call[c].sid # None, v.sid # None => v.sid = call[c].sid,
         at = "loaded" => v.sid # None
  PROVE  CallsStep /\ \A d \in Tab \X Flow : Keeps(d)
  <1> DEFINE k == [op |-> call[c].op, at |-> at, sid |-> call[c].sid,
                   item |-> call[c].item, right |-> call[c].right,
                   view |-> v, code |-> "none"]
  <1>1. /\ call' \in [Tab \X Flow -> Call] /\ call'[c] = k
        /\ \A d \in Tab \X Flow : d # c => call'[d] = call[d]
    <2>1. at \in At
      BY DEF At
    <2>2. QED
      BY <2>1, MovesTyped
  <1>2. k \in Call /\ Sets(c, k)
    BY <1>1 DEF Moves, TypeOK
  <1>3. PICK m \in Call : m = k
    BY <1>2
  <1>4. CallFits(call[c]) /\ m.sid = call[c].sid
    BY <1>3 DEF CallsFit
  <1>5. m.sid # None /\ Known(m.sid)'
    BY <1>4, KnownStays DEF CallFits
  <1>6. CallFits(m)'
    <2>1. m.at = at /\ m.view = v /\ m.at # "answered" /\ m.at # "sent"
      BY <1>3
    <2>2. m.at = "loaded" => m.view.sid # None
      BY <2>1
    <2>3. m.view.sid # None => m.view.sid = m.sid
      BY <1>4, <2>1
    <2>4. ViewFits(m.view)'
      BY <2>1 DEF ViewFits, Known, Stored
    <2>5. QED
      BY <1>5, <2>1, <2>2, <2>3, <2>4 DEF CallFits
  <1>7. CallsStep
    <2>1. Sets(c, m)
      BY <1>2, <1>3
    <2> HIDE DEF k
    <2>2. QED
      BY <1>6, <2>1, OneCall
  <1>8. \A d \in Tab \X Flow : Keeps(d)
    BY <1>1 DEF Keeps
  <1>9. QED
    BY <1>7, <1>8
-----------------------------------------------------------------------------
(* The server's steps *)

ServerStep == RowsStep /\ CallsStep /\ \A d \in Tab \X Flow : Keeps(d)

LEMMA QuestionIsThere ==
  ASSUME TypeOK, NEW n \in Nat
  PROVE  QuestionAt(n) \in Item
  <1>1. published \subseteq Question
    BY DEF TypeOK
  <1>2. CASE n < Cardinality(published)
    <2>1. \E q \in published : Cardinality(Precedes(q)) = n
      BY <1>1, <1>2, OffsetsAreFilled
    <2>2. (CHOOSE q \in published : Cardinality(Precedes(q)) = n) \in published
      BY <2>1
    <2>3. QED
      BY <1>1, <1>2, <2>2 DEF QuestionAt, Item
  <1>3. CASE ~(n < Cardinality(published))
    BY <1>3 DEF QuestionAt, Item
  <1>4. QED
    BY <1>2, <1>3

LEMMA StartServed ==
  ASSUME TypeOK, RowsFit, CallsFit, NEW c \in Tab \X Flow, StartAssessmentQuiz(c)
  PROVE  ServerStep
  <1>1. CASE Refuses(c, "failed") /\ UNCHANGED db
    <2>1. RowsStep
      BY <1>1, RowsStay
    <2>2. QED
      BY <1>1, <2>1, Refusals DEF ServerStep
  <1>2. ASSUME NEW s \in Session, published # {}, row[s].status = "none",
               row' = [row EXCEPT ![s] = [status |-> "in_progress",
                         total |-> Cardinality(published), current |-> 0, correct |-> 0]],
               elapsed' = [elapsed EXCEPT ![s] = 0],
               Replies(c, "ok", NoView, None), UNCHANGED <<answered, progress>>,
               call[c].op = "start"
        PROVE  ServerStep
    <2>1. RowsStep
      BY <1>2, StartFits
    <2>2. NoView \in View /\ None \in Item /\ "ok" \in Code
      BY NoViewTyped DEF Item, Code
    <2>3. call[c].op \notin {"question", "answer", "results"}
      BY <1>2
    <2>4. QED
      BY <1>2, <2>1, <2>2, <2>3, NoViewFits, Answers DEF ServerStep
  <1>3. QED
    BY <1>1, <1>2 DEF StartAssessmentQuiz, Waits

LEMMA ActiveServed ==
  ASSUME TypeOK, RowsFit, CallsFit, NEW c \in Tab \X Flow, PickActive(c)
  PROVE  ServerStep
  <1>1. RowsStep /\ call[c].op = "active"
    BY RowsStay DEF PickActive, Waits
  <1>2. CASE Replies(c, "ok", NoView, None)
    <2>1. NoView \in View /\ None \in Item /\ "ok" \in Code
      BY NoViewTyped DEF Item, Code
    <2>2. call[c].op \notin {"question", "answer", "results"}
      BY <1>1
    <2>3. QED
      BY <1>1, <1>2, <2>1, <2>2, NoViewFits, Answers DEF ServerStep
  <1>3. ASSUME NEW s \in Session, InProgress(s),
               Sets(c, Request("active", "reload", s, None, FALSE))
        PROVE  ServerStep
    <2>1. PICK k \in Call : k = Request("active", "reload", s, None, FALSE)
      BY RequestTyped DEF Op, At, Sid, Item
    <2>2. Known(s)' /\ s # None
      BY <1>1, <1>3, KnownStays, Constants DEF Known, InProgress
    <2>3. k.op = "active" /\ k.at = "reload" /\ k.sid = s /\ k.view = NoView
      BY <2>1 DEF Request
    <2>4. ViewFits(k.view)' /\ k.view.sid = None
      BY <2>3, NoViewFits DEF ViewFits, Known, Stored
    <2>5. CallFits(k)'
      BY <2>2, <2>3, <2>4 DEF CallFits, Known
    <2>6. Sets(c, k)
      BY <1>3, <2>1
    <2>7. CallsStep
      BY <1>1, <2>5, <2>6, OneCall
    <2>8. call'[c] = k /\ \A d \in Tab \X Flow : d # c => call'[d] = call[d]
      BY <2>6, SetsTyped
    <2>9. \A d \in Tab \X Flow : Keeps(d)
      BY <1>1, <2>3, <2>8 DEF Keeps
    <2>10. QED
      BY <1>1, <2>7, <2>9 DEF ServerStep
  <1>4. QED
    BY <1>2, <1>3 DEF PickActive

LEMMA LoadServed ==
  ASSUME TypeOK, RowsFit, CallsFit, NEW c \in Tab \X Flow, LoadQuizSession(c)
  PROVE  ServerStep
  <1>1. RowsStep
    BY RowsStay DEF LoadQuizSession
  <1>2. PICK s : s = call[c].sid
    OBVIOUS
  <1>3. Known(s) /\ s # None
    BY <1>2 DEF LoadQuizSession, Waits, CallsFit, CallFits
  <1>4. PICK v \in View : v = ViewOf(s)
    BY <1>3, FreshView
  <1>5. v.sid = s /\ ViewFits(v)
    BY <1>3, <1>4, FreshView
  <1>6. ViewFits(v)'
    BY <1>1, <1>5, ViewsStay
  <1>7. \/ Moves(c, "expired", v) \/ Moves(c, "loaded", v)
        \/ Replies(c, "ok", v, None) /\ call[c].op # "results"
    BY <1>2, <1>4 DEF LoadQuizSession
  <1>8. CASE Moves(c, "expired", v)
    BY <1>1, <1>2, <1>3, <1>5, <1>6, <1>8, GoesOn DEF ServerStep
  <1>9. CASE Moves(c, "loaded", v)
    BY <1>1, <1>2, <1>3, <1>5, <1>6, <1>9, GoesOn DEF ServerStep
  <1>10. CASE Replies(c, "ok", v, None) /\ call[c].op # "results"
    <2>1. None \in Item /\ "ok" \in Code
      BY DEF Item, Code
    <2>2. QED
      BY <1>1, <1>2, <1>3, <1>5, <1>6, <1>10, <2>1, Answers DEF ServerStep
  <1>11. QED
    BY <1>7, <1>8, <1>9, <1>10

LEMMA ExpiryServed ==
  ASSUME TypeOK, RowsFit, CallsFit, NEW c \in Tab \X Flow, CompleteExpired(c)
  PROVE  ServerStep
  <1>1. PICK s : s = call[c].sid
    OBVIOUS
  <1>2. s \in Session /\ s # None
    BY <1>1 DEF CompleteExpired, CallsFit, CallFits, Known
  <1>3. RowsStep
    <2>1. CASE InProgress(s)
      <3>1. Completes(s) /\ UNCHANGED <<elapsed, answered>>
        BY <1>1, <2>1 DEF CompleteExpired, StillOpen
      <3>2. QED
        BY <1>2, <2>1, <3>1, CompletesFits
    <2>2. CASE ~InProgress(s)
      <3>1. UNCHANGED db
        BY <1>1, <2>2 DEF CompleteExpired, StillOpen, db
      <3>2. QED
        BY <3>1, RowsStay
    <2>3. QED
      BY <2>1, <2>2
  <1>4. Moves(c, "reload", NoView)
    BY DEF CompleteExpired
  <1>5. QED
    BY <1>1, <1>2, <1>3, <1>4, NoViewFits, NoViewTyped, GoesOn DEF ServerStep

LEMMA QuestionServed ==
  ASSUME TypeOK, RowsFit, CallsFit, NEW c \in Tab \X Flow, ReturnQuestion(c)
  PROVE  ServerStep
  <1>1. RowsStep
    BY RowsStay DEF ReturnQuestion
  <1>2. CallFits(call[c]) /\ call[c].at = "loaded" /\ call[c] \in Call
        /\ call[c].op = "question"
    BY DEF CallsFit, ReturnQuestion, Waits, TypeOK
  <1>3. PICK v \in View : v = call[c].view
    BY <1>2 DEF Call
  <1>4. v.sid # None /\ v.sid = call[c].sid /\ ViewFits(v)
    BY <1>2, <1>3 DEF CallFits
  <1>5. ViewFits(v)'
    BY <1>1, <1>4, ViewsStay
  <1>6. PICK q \in Item : q = QuestionAt(v.current)
    BY QuestionIsThere, Constants DEF View
  <1>7. \/ Refuses(c, "failed") \/ Refuses(c, "forbidden")
        \/ Replies(c, "ok", v, None) \/ Replies(c, "ok", v, q)
    BY <1>3, <1>6 DEF ReturnQuestion
  <1>8. CASE Refuses(c, "failed") \/ Refuses(c, "forbidden")
    BY <1>1, <1>8, Refusals DEF ServerStep
  <1>9. ASSUME NEW p \in Item, Replies(c, "ok", v, p) PROVE ServerStep
    <2>1. "ok" \in Code
      BY DEF Code
    <2>2. QED
      BY <1>1, <1>2, <1>4, <1>5, <1>9, <2>1, Answers DEF ServerStep
  <1>10. None \in Item
    BY DEF Item
  <1>11. QED
    BY <1>7, <1>8, <1>9, <1>10

LEMMA AnswerServed ==
  ASSUME TypeOK, RowsFit, CallsFit, NEW c \in Tab \X Flow,
         RefuseAnswer(c) \/ ExpireOnAnswer(c) \/ RecordAnswer(c)
  PROVE  ServerStep
  <1>1. CallFits(call[c]) /\ call[c].op = "answer" /\ call[c].at = "sent"
    BY DEF CallsFit, RefuseAnswer, ExpireOnAnswer, RecordAnswer, Waits
  <1>2. call[c].sid \in Session /\ call[c].item \in Question /\ call[c].sid # None
    BY <1>1 DEF CallFits, Known
  <1>3. CASE RefuseAnswer(c)
    <2>1. RowsStep
      BY <1>3, RowsStay DEF RefuseAnswer
    <2>2. Refuses(c, "failed") \/ Refuses(c, "forbidden")
      BY <1>3 DEF RefuseAnswer
    <2>3. QED
      BY <2>1, <2>2, Refusals DEF ServerStep
  <1>4. CASE ExpireOnAnswer(c)
    <2>1. /\ InProgress(call[c].sid) /\ Completes(call[c].sid)
          /\ UNCHANGED <<elapsed, answered>> /\ Refuses(c, "expired")
      BY <1>4 DEF ExpireOnAnswer, OpenForAnswer
    <2>2. RowsStep
      BY <1>2, <2>1, CompletesFits
    <2>3. QED
      BY <2>1, <2>2, Refusals DEF ServerStep
  <1>5. CASE RecordAnswer(c)
    <2>1. RowsStep
      BY <1>2, <1>5, RecordAnswerFits
    <2>2. Moves(c, "reload", NoView)
      BY <1>5 DEF RecordAnswer
    <2>3. QED
      BY <1>2, <2>1, <2>2, NoViewFits, NoViewTyped, GoesOn DEF ServerStep
  <1>6. QED
    BY <1>3, <1>4, <1>5

LEMMA ResultsServed ==
  ASSUME TypeOK, RowsFit, CallsFit, NEW c \in Tab \X Flow, ReturnResults(c)
  PROVE  ServerStep
  <1>1. RowsStep
    BY RowsStay DEF ReturnResults
  <1>2. PICK s : s = call[c].sid
    OBVIOUS
  <1>3. Known(s) /\ s # None
    BY <1>2 DEF ReturnResults, Waits, CallsFit, CallFits
  <1>4. PICK v \in View : v = ViewOf(s)
    BY <1>3, FreshView
  <1>5. v.sid = s /\ ViewFits(v)'
    BY <1>1, <1>3, <1>4, FreshView, ViewsStay
  <1>6. (Replies(c, "ok", v, None) /\ v.status = "completed") \/ Refuses(c, "failed")
    BY <1>2, <1>4 DEF ReturnResults, IsOver
  <1>7. CASE Refuses(c, "failed")
    BY <1>1, <1>7, Refusals DEF ServerStep
  <1>8. CASE Replies(c, "ok", v, None) /\ v.status = "completed"
    <2>1. None \in Item /\ "ok" \in Code
      BY DEF Item, Code
    <2>2. QED
      BY <1>1, <1>2, <1>3, <1>5, <1>8, <2>1, Answers DEF ServerStep
  <1>9. QED
    BY <1>6, <1>7, <1>8

LEMMA Served ==
  ASSUME TypeOK, RowsFit, CallsFit, NEW c \in Tab \X Flow, Serve(c) \/ Fault(c)
  PROVE  ServerStep
  <1>1. CASE Serve(c)
    BY <1>1, StartServed, ActiveServed, LoadServed, ExpiryServed, QuestionServed,
       AnswerServed, ResultsServed DEF Serve
  <1>2. CASE Fault(c)
    <2>1. RowsStep
      BY <1>2, RowsStay DEF Fault
    <2>2. Refuses(c, "failed") \/ Refuses(c, "lost")
      BY <1>2 DEF Fault
    <2>3. QED
      BY <2>1, <2>2, Refusals DEF ServerStep
  <1>3. QED
    BY <1>1, <1>2
-----------------------------------------------------------------------------
(* The tabs *)

LEMMA FlowsAreFive ==
  /\ "mount" \in Flow /\ "answer" \in Flow /\ "expire" \in Flow /\ "start" \in Flow
  /\ "gone" \in Flow
  BY DEF Flow

(* A tab that keeps its screen, and whose requests go on or end. *)
LEMMA TabStays ==
  ASSUME TypeOK, TabsFit, RowsStep, NEW t \in Tab,
         shown'[t] = shown[t], results'[t] = results[t], left'[t] = left[t],
         call'[<<t, "answer">>].op \in {"none", call[<<t, "answer">>].op},
         call'[<<t, "answer">>].op # "none" =>
           call'[<<t, "answer">>].sid = call[<<t, "answer">>].sid,
         call'[<<t, "expire">>].op # "none" => call[<<t, "expire">>].op # "none",
         call'[<<t, "mount">>].op # "none" => call[<<t, "mount">>].op # "none"
  PROVE  TabFits(t)'
  <1>1. TabFits(t)
    BY DEF TabsFit
  <1>2. shown[t].sid # None =>
          Known(shown[t].sid)' /\ elapsed'[shown[t].sid] >= elapsed[shown[t].sid]
          /\ elapsed[shown[t].sid] \in Int /\ elapsed'[shown[t].sid] \in Int
    <2>1. PICK s : s = shown[t].sid
      OBVIOUS
    <2>2. s # None => Known(s)' /\ elapsed'[s] >= elapsed[s]
                      /\ elapsed[s] \in Int /\ elapsed'[s] \in Int
      BY <1>1, <2>1, Constants, KnownStays
         DEF TabFits, Known, RowsStep, Grows, TypeOK, RowsTyped
    <2>3. shown'[t].sid = s
      BY <2>1
    <2>4. QED
      BY <2>1, <2>2, <2>3 DEF Known
  <1>3. results[t].sid # None =>
          (Stored(results[t].sid, results[t].current, results[t].correct))'
    <2>1. PICK r : r = results[t]
      OBVIOUS
    <2>2. r.sid # None => Stored(r.sid, r.current, r.correct)'
      BY <1>1, <2>1, StoredStays DEF TabFits
    <2>3. results'[t] = r
      BY <2>1
    <2>4. QED
      BY <2>1, <2>2, <2>3 DEF Stored, Known
  <1>4. left[t] \in Int /\ HalfLimit' = HalfLimit /\ HalfLimit \in Int
    BY Constants DEF TypeOK, HalfLimit, Off
  <1>5. /\ shown'[t].sid # None => Known(shown[t].sid)'
        /\ shown'[t].item # None => shown'[t].sid # None
        /\ results'[t].sid # None =>
             (Stored(results[t].sid, results[t].current, results[t].correct))'
    BY <1>1, <1>2, <1>3 DEF TabFits, Known
  <1>6. /\ call'[<<t, "answer">>].op \in {"none", "answer", "question", "results"}
        /\ call'[<<t, "mount">>].op # "none" =>
             /\ left'[t] = Off /\ shown'[t].item = None
             /\ call'[<<t, "answer">>].op = "none" /\ call'[<<t, "expire">>].op = "none"
        /\ call'[<<t, "expire">>].op # "none" => left'[t] = Off
        /\ left'[t] # Off /\ call'[<<t, "answer">>].op # "none" =>
             call'[<<t, "answer">>].sid = shown'[t].sid
    BY <1>1 DEF TabFits
  <1>7. left'[t] # Off /\ shown'[t].sid # None =>
          left'[t] + elapsed'[shown'[t].sid] >= HalfLimit
    BY <1>1, <1>2, <1>4 DEF TabFits
  <1>8. QED
    BY <1>4, <1>5, <1>6, <1>7 DEF TabFits, Off

TypesStep ==
  /\ published' \subseteq Question /\ entitled' \in BOOLEAN
  /\ page' \in [Tab -> {"closed", "hub", "focus"}]
  /\ shown' \in [Tab -> Shown] /\ results' \in [Tab -> Results]
  /\ left' \in [Tab -> 0..HalfLimit \cup {Off}] /\ picked' \in [Tab -> BOOLEAN]
  /\ edits' \in 0..MaxEdits /\ faults' \in 0..MaxFaults

LEMMA Together ==
  ASSUME TypesStep, RowsStep, CallsStep, TabsFit'
  PROVE  TypeOK' /\ IInv'
  BY DEF TypesStep, RowsStep, RowsTyped, CallsStep, TypeOK, IInv, Question, Row, Shown,
         Results, Call, View, Off, HalfLimit

LEMMA ServeKeeps ==
  ASSUME TypeOK, IInv, NEW c \in Tab \X Flow, Serve(c) \/ Fault(c)
  PROVE  TypeOK' /\ IInv'
  <1>1. RowsStep /\ CallsStep /\ \A d \in Tab \X Flow : Keeps(d)
    BY Served DEF IInv, ServerStep
  <1>2. UNCHANGED <<published, entitled, edits>> /\ UNCHANGED screen
        /\ faults' \in 0..MaxFaults
    <2>1. CASE Serve(c)
      BY <2>1 DEF Serve, TypeOK
    <2>2. CASE Fault(c)
      BY <2>2, QuizAssumption DEF Fault, TypeOK
    <2>3. QED
      BY <2>1, <2>2
  <1>3. TypesStep
    BY <1>2 DEF TypesStep, TypeOK, screen
  <1>4. ASSUME NEW t \in Tab PROVE TabFits(t)'
    <2>1. TabFits(t) /\ TabsFit
      BY DEF IInv, TabsFit
    <2>2. Keeps(<<t, "answer">>) /\ Keeps(<<t, "mount">>) /\ Keeps(<<t, "expire">>)
      BY <1>1, FlowsAreFive
    <2>3. call[<<t, "answer">>].op # "active"
      BY <2>1 DEF TabFits
    <2>4. /\ call'[<<t, "answer">>].op = call[<<t, "answer">>].op
          /\ call'[<<t, "answer">>].sid = call[<<t, "answer">>].sid
          /\ call'[<<t, "mount">>].op = call[<<t, "mount">>].op
          /\ call'[<<t, "expire">>].op = call[<<t, "expire">>].op
      BY <2>2, <2>3 DEF Keeps
    <2>5. shown'[t] = shown[t] /\ results'[t] = results[t] /\ left'[t] = left[t]
      BY <1>2 DEF screen
    <2>6. QED
      BY <1>1, <2>1, <2>4, <2>5, TabStays
  <1>5. QED
    BY <1>1, <1>3, <1>4, Together DEF TabsFit

(* The rows and the questions change, and no tab hears of it. *)
LEMMA UnheardKeeps ==
  ASSUME TypeOK, IInv, RowsStep, call' = call, UNCHANGED screen,
         published' \subseteq Question, entitled' \in BOOLEAN,
         edits' \in 0..MaxEdits, faults' \in 0..MaxFaults
  PROVE  TypeOK' /\ IInv'
  <1>1. CallsStep
    BY NoCallChanges DEF IInv
  <1>2. TypesStep
    BY DEF TypesStep, TypeOK, screen
  <1>3. ASSUME NEW t \in Tab PROVE TabFits(t)'
    <2>1. TabsFit
      BY DEF IInv
    <2>2. shown'[t] = shown[t] /\ results'[t] = results[t] /\ left'[t] = left[t]
      BY DEF screen
    <2>3. QED
      BY <2>1, <2>2, TabStays
  <1>4. QED
    BY <1>1, <1>2, <1>3, Together DEF TabsFit

LEMMA TickKeeps ==
  ASSUME TypeOK, IInv, Tick
  PROVE  TypeOK' /\ IInv'
  <1>1. RowsStep
    BY TickFits DEF IInv
  <1>2. CallsStep
    BY <1>1, NoCallChanges DEF IInv, Tick
  <1>3. \A t \in Tab :
          /\ left[t] \in 0..HalfLimit \cup {Off}
          /\ left'[t] = IF left[t] > 0 THEN left[t] - 1 ELSE left[t]
    BY DEF Tick, CountDown, TypeOK
  <1>4. TypesStep
    <2>1. \A t \in Tab : left'[t] \in 0..HalfLimit \cup {Off}
      BY <1>3, Constants DEF Off
    <2>2. \E f : left' = [t \in Tab |-> f[t]]
      BY DEF Tick
    <2>3. left' \in [Tab -> 0..HalfLimit \cup {Off}]
      BY <2>1, <2>2
    <2>4. QED
      BY <2>3 DEF TypesStep, TypeOK, Tick
  <1>5. ASSUME NEW t \in Tab PROVE TabFits(t)'
    <2>1. TabFits(t)
      BY DEF IInv, TabsFit
    <2>2. shown' = shown /\ results' = results /\ call' = call /\ row' = row
      BY DEF Tick
    <2>3. left'[t] = Off <=> left[t] = Off
      BY <1>3, Constants DEF Off
    <2>4. shown[t].sid # None /\ left[t] # Off =>
            left'[t] + elapsed'[shown[t].sid] >= HalfLimit
      <3>1. SUFFICES ASSUME shown[t].sid # None, left[t] # Off
                     PROVE  left'[t] + elapsed'[shown[t].sid] >= HalfLimit
        OBVIOUS
      <3>2. PICK s \in Session : s = shown[t].sid /\ row[s].status # "none"
        BY <2>1, <3>1 DEF TabFits, Known
      <3>3. elapsed[s] \in 0..HalfLimit
            /\ elapsed'[s] = IF elapsed[s] # HalfLimit THEN elapsed[s] + 1 ELSE elapsed[s]
        BY <3>2 DEF Tick, TimeUp, TypeOK
      <3>4. left[t] + elapsed[s] >= HalfLimit
        BY <2>1, <3>1, <3>2 DEF TabFits
      <3>5. left'[t] + elapsed'[s] >= HalfLimit
        BY <1>3, <3>1, <3>3, <3>4, Constants DEF Off
      <3>6. QED
        BY <3>2, <3>5
    <2>5. HalfLimit' = HalfLimit /\ Off' = Off
      BY DEF HalfLimit, Off
    <2>6. QED
      BY <2>1, <2>2, <2>3, <2>4, <2>5 DEF TabFits, Known, Stored
  <1>6. QED
    BY <1>1, <1>2, <1>4, <1>5, Together DEF TabsFit
-----------------------------------------------------------------------------
(* The client's steps *)

TabTyped ==
  /\ page' \in [Tab -> {"closed", "hub", "focus"}]
  /\ shown' \in [Tab -> Shown] /\ results' \in [Tab -> Results]
  /\ left' \in [Tab -> 0..HalfLimit \cup {Off}] /\ picked' \in [Tab -> BOOLEAN]

(* The other tabs. *)
Apart(t) ==
  \A u \in Tab : u # t =>
    /\ shown'[u] = shown[u] /\ results'[u] = results[u] /\ left'[u] = left[u]
    /\ \A f \in Flow : call'[<<u, f>>] = call[<<u, f>>]

ClientStep(t) == TabTyped /\ CallsStep /\ Apart(t) /\ TabFits(t)'

LEMMA ClientStepKeeps ==
  ASSUME TypeOK, IInv, RowsStep, NEW t \in Tab, ClientStep(t),
         UNCHANGED <<published, entitled, edits, faults>>
  PROVE  TypeOK' /\ IInv'
  <1>1. TypesStep
    BY DEF TypesStep, ClientStep, TabTyped, TypeOK
  <1>2. ASSUME NEW u \in Tab, u # t PROVE TabFits(u)'
    <2>1. TabsFit
      BY DEF IInv
    <2>2. /\ shown'[u] = shown[u] /\ results'[u] = results[u] /\ left'[u] = left[u]
          /\ call'[<<u, "answer">>] = call[<<u, "answer">>]
          /\ call'[<<u, "mount">>] = call[<<u, "mount">>]
          /\ call'[<<u, "expire">>] = call[<<u, "expire">>]
      BY <1>2, FlowsAreFive DEF ClientStep, Apart
    <2>3. QED
      BY <2>1, <2>2, TabStays
  <1>3. TabsFit'
    <2>1. TabFits(t)'
      BY DEF ClientStep
    <2>2. ASSUME NEW u \in Tab PROVE TabFits(u)'
      <3>1. CASE u = t
        BY <2>1, <3>1 DEF TabFits, Known, Stored
      <3>2. CASE u # t
        BY <1>2, <3>2
      <3>3. QED
        BY <3>1, <3>2
    <2>3. QED
      BY <2>2 DEF TabsFit
  <1>4. QED
    BY <1>1, <1>3, Together DEF ClientStep

(* One flow of a tab goes on to another request, or is done. *)
LEMMA OneFlow ==
  ASSUME TypeOK, IInv, RowsStep, NEW t \in Tab, NEW f \in Flow,
         NEW op \in Op, NEW s \in Sid, NEW q \in Item, NEW right \in BOOLEAN, NEW at \in At,
         OnlyCall(t, f, Request(op, at, s, q, right)),
         at \in {"idle", "sent"},
         s # None => Known(s), op \in {"question", "answer", "results"} => s # None,
         op = "answer" => q \in Question
  PROVE  /\ CallsStep
         /\ call'[<<t, f>>] = Request(op, at, s, q, right)
         /\ \A g \in Flow : g # f => call'[<<t, g>>] = call[<<t, g>>]
         /\ \A u \in Tab : u # t => \A g \in Flow : call'[<<u, g>>] = call[<<u, g>>]
  <1>1. PICK k \in Call : k = Request(op, at, s, q, right)
    BY RequestTyped
  <1>2. <<t, f>> \in Tab \X Flow /\ Sets(<<t, f>>, k)
    BY <1>1 DEF OnlyCall
  <1>3. k.op = op /\ k.at = at /\ k.sid = s /\ k.item = q /\ k.view = NoView
    BY <1>1 DEF Request
  <1>4. ViewFits(k.view)' /\ k.view.sid = None
    BY <1>3, NoViewFits DEF ViewFits, Known, Stored
  <1>5. s # None => Known(s)'
    BY KnownStays
  <1>6. CallFits(k)'
    BY <1>3, <1>4, <1>5 DEF CallFits, Known, Question
  <1>7. CallsStep
    BY <1>2, <1>6, OneCall DEF IInv
  <1>8. call'[<<t, f>>] = k /\ \A d \in Tab \X Flow : d # <<t, f>> => call'[d] = call[d]
    BY <1>2, SetsTyped
  <1>9. QED
    BY <1>1, <1>7, <1>8

LEMMA OneFlowDone ==
  ASSUME TypeOK, IInv, RowsStep, NEW t \in Tab, NEW f \in Flow, Done(t, f)
  PROVE  /\ CallsStep
         /\ call'[<<t, f>>] = Idle
         /\ \A g \in Flow : g # f => call'[<<t, g>>] = call[<<t, g>>]
         /\ \A u \in Tab : u # t => \A g \in Flow : call'[<<u, g>>] = call[<<u, g>>]
  <1>1. OnlyCall(t, f, Request("none", "idle", None, None, FALSE))
    BY DEF Done, Idle
  <1>2. "none" \in Op /\ "idle" \in At /\ None \in Sid /\ None \in Item /\ FALSE \in BOOLEAN
    BY DEF Op, At, Sid, Item
  <1>3. QED
    BY <1>1, <1>2, OneFlow DEF Idle

LEMMA MountsStep ==
  ASSUME TypeOK, IInv, RowsStep, NEW t \in Tab, NEW p \in {"hub", "focus"}, NEW kept \in Call,
         CallFits(kept), Mounts(t, p, kept)
  PROVE  ClientStep(t)
  <1>1. Nothing \in Shown /\ NoResults \in Results
    BY Constants DEF Nothing, Shown, NoResults, Results
  <1>2. TabTyped
    <2>1. /\ page' = [page EXCEPT ![t] = p] /\ shown' = [shown EXCEPT ![t] = Nothing]
          /\ results' = [results EXCEPT ![t] = NoResults]
          /\ left' = [left EXCEPT ![t] = Off] /\ picked' = [picked EXCEPT ![t] = FALSE]
      BY DEF Mounts
    <2>2. QED
      BY <1>1, <2>1 DEF TabTyped, TypeOK
  <1>3. PICK k \in Call : k = Request("active", "sent", None, None, FALSE)
    BY RequestTyped DEF Op, At, Sid, Item
  <1>4. \A d \in Tab \X Flow :
          call'[d] = IF d[1] # t THEN call[d] ELSE IF d[2] = "mount" THEN k
                     ELSE IF d[2] = "gone" THEN kept ELSE Idle
    BY <1>3 DEF Mounts
  <1>5. call' \in [Tab \X Flow -> Call]
    <2>1. \A d \in Tab \X Flow : call'[d] \in Call
      BY <1>4, IdleTyped DEF TypeOK
    <2>2. call' = [d \in Tab \X Flow |-> call'[d]]
      BY Zenon DEF Mounts
    <2>3. QED
      BY <2>1, <2>2
  <1>6. PICK i \in Call : i = Idle
    BY IdleTyped
  <1>7. k.op = "active" /\ k.at = "sent" /\ k.sid = None /\ k.view = NoView
        /\ i.op = "none" /\ i.at = "idle" /\ i.sid = None /\ i.view = NoView
    BY <1>3, <1>6 DEF Request, Idle
  <1>8. CallFits(k)' /\ CallFits(i)' /\ CallFits(kept)'
    <2>1. ViewFits(k.view)' /\ k.view.sid = None /\ ViewFits(i.view)' /\ i.view.sid = None
      BY <1>7, NoViewFits DEF ViewFits, Known, Stored
    <2>2. CallFits(kept)'
      BY CallsStay
    <2>3. QED
      BY <1>7, <2>1, <2>2 DEF CallFits
  <1>9. ASSUME NEW d \in Tab \X Flow PROVE CallFits(call[d])'
    <2>1. PICK m \in Call : m = call[d]
      BY DEF TypeOK
    <2>2. CallFits(m)'
      BY <2>1, CallsStay DEF CallsFit, IInv
    <2>3. call'[d] = m \/ call'[d] = k \/ call'[d] = i \/ call'[d] = kept
      BY <1>4, <1>6, <2>1
    <2>4. QED
      BY <1>8, <2>2, <2>3 DEF CallFits, ViewFits, Known, Stored
  <1>10. CallsStep
    BY <1>5, <1>9 DEF CallsStep, CallsFit
  <1>11. shown'[t] = Nothing /\ results'[t] = NoResults /\ left'[t] = Off
    BY DEF Mounts, TypeOK
  <1>12. /\ call'[<<t, "answer">>] = i /\ call'[<<t, "mount">>] = k
         /\ call'[<<t, "expire">>] = i
    BY <1>4, <1>6, FlowsAreFive
  <1>13. TabFits(t)'
    BY <1>7, <1>11, <1>12 DEF TabFits, Nothing, NoResults, Off
  <1>14. Apart(t)
    BY <1>4 DEF Apart, Mounts, TypeOK
  <1>15. QED
    BY <1>2, <1>10, <1>13, <1>14 DEF ClientStep

(* A page that is left: what is followed of its requests is one of them, or nothing. *)
LEMMA NavigatesStep ==
  ASSUME TypeOK, IInv, RowsStep, NEW t \in Tab, NEW p \in {"hub", "focus"},
         NEW waiting \in SUBSET Flow, Navigates(t, p, waiting)
  PROVE  ClientStep(t)
  <1>1. PICK kept \in {call[<<t, f>>] : f \in waiting} \cup {Idle} : Mounts(t, p, kept)
    BY Zenon DEF Navigates
  <1>2. kept \in Call /\ CallFits(kept)
    <2>1. CASE kept = Idle
      <3>1. ViewFits(NoView) /\ NoView.sid = None
        BY NoViewFits
      <3>2. QED
        BY <2>1, <3>1, IdleTyped DEF Idle, Request, CallFits
    <2>2. ASSUME NEW f \in waiting, kept = call[<<t, f>>] PROVE kept \in Call /\ CallFits(kept)
      BY <2>2 DEF IInv, CallsFit, TypeOK
    <2>3. QED
      BY <1>1, <2>1, <2>2
  <1>3. QED
    BY <1>1, <1>2, MountsStep
(* A request of the tab is replaced, and nothing else is asked for. *)
Only(t, f, k) ==
  /\ CallsStep /\ call'[<<t, f>>] = k
  /\ \A g \in Flow : g # f => call'[<<t, g>>] = call[<<t, g>>]
  /\ \A u \in Tab : u # t => \A g \in Flow : call'[<<u, g>>] = call[<<u, g>>]

(* The four parts of TabFits. *)
ShownFits(t) ==
  /\ shown[t].sid # None => Known(shown[t].sid)
  /\ shown[t].item # None => shown[t].sid # None
ResultsFit(t) ==
  results[t].sid # None => Stored(results[t].sid, results[t].current, results[t].correct)
FlowsFit(t) ==
  /\ call[<<t, "answer">>].op \in {"none", "answer", "question", "results"}
  /\ call[<<t, "mount">>].op # "none" =>
       /\ left[t] = Off /\ shown[t].item = None
       /\ call[<<t, "answer">>].op = "none" /\ call[<<t, "expire">>].op = "none"
  /\ call[<<t, "expire">>].op # "none" => left[t] = Off
  /\ left[t] # Off /\ call[<<t, "answer">>].op # "none" =>
       call[<<t, "answer">>].sid = shown[t].sid
LeftFits(t) ==
  left[t] # Off /\ shown[t].sid # None => left[t] + elapsed[shown[t].sid] >= HalfLimit

(* What one tab may do to its screen. *)
Screen(t, x, y, z) ==
  /\ page' = page
  /\ shown' = [shown EXCEPT ![t] = x] /\ results' = [results EXCEPT ![t] = y]
  /\ left' = [left EXCEPT ![t] = z]
  /\ \E w \in BOOLEAN : picked' = [picked EXCEPT ![t] = w]

LEMMA ScreenStep ==
  ASSUME TypeOK, IInv, RowsStep, NEW t \in Tab, NEW f \in Flow, NEW k \in Call, Only(t, f, k),
         NEW x \in Shown, NEW y \in Results, NEW z \in 0..HalfLimit \cup {Off},
         Screen(t, x, y, z),
         ShownFits(t)', ResultsFit(t)', FlowsFit(t)', LeftFits(t)'
  PROVE  ClientStep(t)
  <1>1. TabTyped
    BY DEF TabTyped, Screen, TypeOK
  <1>2. Apart(t)
    BY DEF Apart, Only, Screen, TypeOK
  <1>3. TabFits(t)'
    BY DEF ShownFits, ResultsFit, FlowsFit, LeftFits, TabFits
  <1>4. QED
    BY <1>1, <1>2, <1>3 DEF ClientStep, Only

LEMMA ScreenIs ==
  ASSUME TypeOK, NEW t \in Tab, NEW x, NEW y, NEW z, Screen(t, x, y, z)
  PROVE  shown'[t] = x /\ results'[t] = y /\ left'[t] = z
  BY DEF Screen, TypeOK

(* The screen of a tab that keeps it. *)
LEMMA ScreenNow ==
  ASSUME TypeOK, NEW t \in Tab
  PROVE  /\ shown[t] \in Shown /\ results[t] \in Results /\ picked[t] \in BOOLEAN
         /\ left[t] \in 0..HalfLimit \cup {Off} /\ Off \in 0..HalfLimit \cup {Off}
         /\ shown = [shown EXCEPT ![t] = shown[t]]
         /\ results = [results EXCEPT ![t] = results[t]]
         /\ left = [left EXCEPT ![t] = left[t]]
         /\ picked = [picked EXCEPT ![t] = picked[t]]
  BY DEF TypeOK

LEMMA ResultsStay ==
  ASSUME TypeOK, IInv, RowsStep, NEW t \in Tab, results'[t] = results[t]
  PROVE  ResultsFit(t)'
  <1>1. PICK r : r = results[t]
    OBVIOUS
  <1>2. r.sid # None => Stored(r.sid, r.current, r.correct)'
    BY <1>1, StoredStays DEF IInv, TabsFit, TabFits
  <1>3. results'[t] = r
    BY <1>1
  <1>4. QED
    BY <1>2, <1>3 DEF ResultsFit, Stored, Known

LEMMA ShownStays ==
  ASSUME TypeOK, IInv, RowsStep, NEW t \in Tab, shown'[t] = shown[t]
  PROVE  ShownFits(t)'
  <1>1. PICK x : x = shown[t]
    OBVIOUS
  <1>2. x.sid # None => Known(x.sid)'
    BY <1>1, KnownStays DEF IInv, TabsFit, TabFits
  <1>3. x.item # None => x.sid # None
    BY <1>1 DEF IInv, TabsFit, TabFits
  <1>4. shown'[t] = x
    BY <1>1
  <1>5. QED
    BY <1>2, <1>3, <1>4 DEF ShownFits, Known

(* The countdown runs on or is stopped, for the session it was for. *)
LEMMA LeftStays ==
  ASSUME TypeOK, IInv, RowsStep, NEW t \in Tab,
         left'[t] \in {left[t], Off}, shown'[t].sid \in {None, shown[t].sid}
  PROVE  LeftFits(t)'
  <1>1. PICK s, n : s = shown[t].sid /\ n = left[t]
    OBVIOUS
  <1>2. s # None => elapsed'[s] >= elapsed[s] /\ elapsed[s] \in Int /\ elapsed'[s] \in Int
    <2>1. s # None => Known(s)
      BY <1>1 DEF IInv, TabsFit, TabFits
    <2>2. Known(s) => elapsed'[s] >= elapsed[s]
      BY DEF Known, RowsStep, Grows
    <2>3. Known(s) => elapsed[s] \in 0..HalfLimit /\ elapsed'[s] \in 0..HalfLimit'
      BY DEF Known, RowsStep, RowsTyped, TypeOK
    <2>4. HalfLimit' = HalfLimit
      BY DEF HalfLimit
    <2>5. QED
      BY <2>1, <2>2, <2>3, <2>4, Constants
  <1>3. s # None /\ n # Off => n + elapsed[s] >= HalfLimit
    BY <1>1 DEF IInv, TabsFit, TabFits
  <1>4. n \in Int /\ HalfLimit \in Int /\ HalfLimit' = HalfLimit /\ Off' = Off
    BY <1>1, Constants DEF TypeOK, HalfLimit, Off
  <1>5. s # None /\ n # Off => n + elapsed'[s] >= HalfLimit
    BY <1>2, <1>3, <1>4
  <1>6. left'[t] \in {n, Off} /\ shown'[t].sid \in {None, s}
    BY <1>1
  <1>7. QED
    BY <1>4, <1>5, <1>6 DEF LeftFits

(* A tab that shows the same, its countdown running on or stopped. *)
LEMMA SameScreen ==
  ASSUME TypeOK, IInv, RowsStep, NEW t \in Tab, NEW f \in Flow, NEW k \in Call, Only(t, f, k),
         NEW z \in {left[t], Off}, Screen(t, shown[t], results[t], z), FlowsFit(t)'
  PROVE  ClientStep(t)
  <1>1. shown'[t] = shown[t] /\ results'[t] = results[t] /\ left'[t] = z
    BY ScreenIs
  <1>2. ShownFits(t)' /\ ResultsFit(t)' /\ LeftFits(t)'
    BY <1>1, ShownStays, ResultsStay, LeftStays
  <1>3. PICK x \in Shown, y \in Results, n \in 0..HalfLimit \cup {Off} :
          x = shown[t] /\ y = results[t] /\ n = z
    BY ScreenNow
  <1>4. Screen(t, x, y, n)
    BY <1>3 DEF Screen
  <1>5. QED
    BY <1>2, <1>4, ScreenStep
(* A tab goes to the results of a session that is over. *)
LEMMA ResultsScreen ==
  ASSUME TypeOK, IInv, RowsStep, NEW t \in Tab, NEW f \in Flow, NEW k \in Call, Only(t, f, k),
         NEW v \in View, ViewFits(v), v.status = "completed",
         NEW x \in {Nothing, shown[t]}, NEW z \in {left[t], Off},
         Screen(t, x, [sid |-> v.sid, current |-> v.current, correct |-> v.correct], z),
         FlowsFit(t)'
  PROVE  ClientStep(t)
  <1> DEFINE r == [sid |-> v.sid, current |-> v.current, correct |-> v.correct]
  <1>1. shown'[t] = x /\ results'[t] = r /\ left'[t] = z
    BY ScreenIs
  <1>2. PICK y \in Results : y = r
    BY DEF View, Results
  <1>3. PICK u \in Shown, n \in 0..HalfLimit \cup {Off} : u = x /\ n = z
    <2>1. Nothing \in Shown
      BY Constants DEF Nothing, Shown
    <2>2. QED
      BY <2>1, ScreenNow
  <1>4. ResultsFit(t)'
    <2>1. Stored(y.sid, y.current, y.correct)'
      BY <1>2, StoredStays DEF ViewFits
    <2>2. results'[t] = y
      BY <1>1, <1>2
    <2>3. QED
      BY <2>1, <2>2 DEF ResultsFit, Stored, Known
  <1>5. Nothing.sid = None /\ Nothing.item = None
    BY DEF Nothing
  <1>6. ShownFits(t)'
    <2>1. CASE x = Nothing
      BY <1>1, <1>5, <2>1 DEF ShownFits
    <2>2. CASE x = shown[t]
      BY <1>1, <2>2, ShownStays
    <2>3. QED
      BY <2>1, <2>2
  <1>7. LeftFits(t)'
    BY <1>1, <1>5, LeftStays
  <1>8. Screen(t, u, y, n)
    BY <1>2, <1>3 DEF Screen
  <1>9. QED
    BY <1>4, <1>6, <1>7, <1>8, ScreenStep

(* What the tab knows of a request before it acts on the answer. *)
LEMMA HeardOf ==
  ASSUME TypeOK, IInv, NEW t \in Tab, NEW f \in Flow
  PROVE  /\ TabFits(t) /\ CallFits(call[<<t, f>>]) /\ call[<<t, f>>] \in Call
         /\ call[<<t, f>>].view \in View
  <1>1. <<t, f>> \in Tab \X Flow
    OBVIOUS
  <1>2. QED
    BY <1>1 DEF IInv, TabsFit, CallsFit, TypeOK, Call

(* The request that takes the place of another. *)
LEMMA OnlyThis ==
  ASSUME TypeOK, IInv, RowsStep, NEW t \in Tab, NEW f \in Flow,
         NEW op \in Op, NEW s \in Sid, NEW q \in Item, NEW right \in BOOLEAN,
         OnlyCall(t, f, Request(op, "sent", s, q, right)),
         s # None => Known(s), op \in {"question", "answer", "results"} => s # None,
         op = "answer" => q \in Question
  PROVE  \E k \in Call : Only(t, f, k) /\ k.op = op /\ k.sid = s
  <1>1. "sent" \in At
    BY DEF At
  <1>2. PICK k \in Call : k = Request(op, "sent", s, q, right)
    BY <1>1, RequestTyped
  <1>3. Only(t, f, k)
    BY <1>1, <1>2, OneFlow DEF Only
  <1>4. QED
    BY <1>2, <1>3 DEF Request

Asks(t, f, op, s) == \E k \in Call : Only(t, f, k) /\ k.op = op /\ k.sid = s

LEMMA AsksAgain ==
  ASSUME TypeOK, IInv, RowsStep, NEW t \in Tab, NEW f \in Flow,
         NEW op \in {"question", "results"}, NEW s \in Sid, s # None, Known(s),
         OnlyCall(t, f, Request(op, "sent", s, None, FALSE))
  PROVE  Asks(t, f, op, s)
  <1>1. op \in Op /\ None \in Item /\ FALSE \in BOOLEAN /\ "sent" \in At /\ op # "answer"
    BY DEF Op, Item, At
  <1>2. PICK k \in Call : k = Request(op, "sent", s, None, FALSE)
    BY <1>1, RequestTyped
  <1>3. Only(t, f, k)
    BY ZenonT(60), <1>1, <1>2, OneFlow DEF Only
  <1>4. QED
    BY <1>2, <1>3 DEF Request, Asks

LEMMA OnlyDone ==
  ASSUME TypeOK, IInv, RowsStep, NEW t \in Tab, NEW f \in Flow, Done(t, f)
  PROVE  \E k \in Call : Only(t, f, k) /\ k.op = "none"
  <1>1. PICK k \in Call : k = Idle
    BY IdleTyped
  <1>2. Only(t, f, k)
    BY <1>1, OneFlowDone DEF Only
  <1>3. QED
    BY <1>1, <1>2 DEF Idle, Request

LEMMA ScreenKept ==
  ASSUME TypeOK, NEW t \in Tab, UNCHANGED page, KeepsScreen, NEW z, left' = [left EXCEPT ![t] = z]
  PROVE  Screen(t, shown[t], results[t], z)
  BY ScreenNow DEF Screen, KeepsScreen

LEMMA ScreenUnchanged ==
  ASSUME TypeOK, NEW t \in Tab, UNCHANGED screen
  PROVE  Screen(t, shown[t], results[t], left[t])
  BY ScreenNow DEF Screen, screen

LEMMA StartStep ==
  ASSUME TypeOK, IInv, RowsStep, NEW t \in Tab, Start(t)
  PROVE  ClientStep(t)
  <1>1. "start" \in Op /\ None \in Sid /\ None \in Item
    BY DEF Op, Sid, Item
  <1>2. OnlyCall(t, "start", Request("start", "sent", None, None, FALSE))
    BY DEF Start
  <1>3. PICK k \in Call : Only(t, "start", k)
    BY <1>1, <1>2, FlowsAreFive, OnlyThis
  <1>4. Screen(t, shown[t], results[t], Off)
    <2>1. UNCHANGED page /\ KeepsScreen /\ left' = [left EXCEPT ![t] = Off]
      BY DEF Start, StopTimer, KeepsScreen
    <2>2. QED
      BY <2>1, ScreenKept
  <1>5. shown'[t] = shown[t] /\ left'[t] = Off
    BY <1>4, ScreenIs
  <1>6. /\ call'[<<t, "answer">>] = call[<<t, "answer">>]
        /\ call'[<<t, "mount">>] = call[<<t, "mount">>]
        /\ call'[<<t, "expire">>] = call[<<t, "expire">>]
    BY <1>3, FlowsAreFive DEF Only
  <1>7. TabFits(t)
    BY DEF IInv, TabsFit
  <1>8. FlowsFit(t)'
    BY <1>5, <1>6, <1>7 DEF FlowsFit, TabFits, Off
  <1>9. QED
    BY <1>3, <1>4, <1>8, FlowsAreFive, SameScreen

LEMMA ApplyStartStep ==
  ASSUME TypeOK, IInv, RowsStep, NEW t \in Tab, ApplyStart(t)
  PROVE  ClientStep(t)
  <1>1. CASE Navigates(t, "focus", Flow \ {"start"})
    BY <1>1, NavigatesStep
  <1>2. CASE Done(t, "start") /\ UNCHANGED screen
    <2>1. PICK k \in Call : Only(t, "start", k)
      BY <1>2, FlowsAreFive, OnlyDone
    <2>2. Screen(t, shown[t], results[t], left[t])
      BY <1>2, ScreenUnchanged
    <2>3. shown'[t] = shown[t] /\ left'[t] = left[t]
      BY <2>2, ScreenIs
    <2>4. /\ call'[<<t, "answer">>] = call[<<t, "answer">>]
          /\ call'[<<t, "mount">>] = call[<<t, "mount">>]
          /\ call'[<<t, "expire">>] = call[<<t, "expire">>]
      BY <2>1, FlowsAreFive DEF Only
    <2>5. TabFits(t)
      BY DEF IInv, TabsFit
    <2>6. FlowsFit(t)'
      BY <2>3, <2>4, <2>5 DEF FlowsFit, TabFits, Off
    <2>7. QED
      BY <2>1, <2>2, <2>6, FlowsAreFive, SameScreen
  <1>3. QED
    BY <1>1, <1>2 DEF ApplyStart

LEMMA PickStep ==
  ASSUME TypeOK, IInv, RowsStep, NEW t \in Tab, NEW right \in BOOLEAN, Pick(t, right)
  PROVE  ClientStep(t)
  <1>1. TabFits(t) /\ shown[t] \in Shown
    BY ScreenNow DEF IInv, TabsFit
  <1>2. PICK s \in Sid, q \in Item : s = shown[t].sid /\ q = shown[t].item
    BY <1>1 DEF Shown, Sid, Item
  <1>3. q \in Question /\ s # None /\ Known(s)
    BY <1>1, <1>2 DEF Pick, TabFits, Item
  <1>4. OnlyCall(t, "answer", Request("answer", "sent", s, q, right)) /\ "answer" \in Op
    BY <1>2 DEF Pick, Op
  <1>5. PICK k \in Call : Only(t, "answer", k) /\ k.op = "answer" /\ k.sid = s
    BY <1>3, <1>4, FlowsAreFive, OnlyThis
  <1>6. Screen(t, shown[t], results[t], left[t])
    BY ScreenNow DEF Pick, Screen
  <1>7. shown'[t] = shown[t] /\ left'[t] = left[t]
    BY <1>6, ScreenIs
  <1>8. /\ call'[<<t, "answer">>] = k
        /\ call'[<<t, "mount">>] = call[<<t, "mount">>]
        /\ call'[<<t, "expire">>] = call[<<t, "expire">>]
    BY <1>5, FlowsAreFive DEF Only
  <1>9. call[<<t, "mount">>].op = "none" /\ (call[<<t, "expire">>].op # "none" => left[t] = Off)
    BY <1>1, <1>2, <1>3, Constants DEF TabFits
  <1>10. FlowsFit(t)'
    BY <1>2, <1>5, <1>7, <1>8, <1>9 DEF FlowsFit, Off
  <1>11. QED
    BY <1>5, <1>6, <1>10, FlowsAreFive, SameScreen
LEMMA ApplyActiveStep ==
  ASSUME TypeOK, IInv, RowsStep, NEW t \in Tab, ApplyActive(t)
  PROVE  ClientStep(t)
  <1>1. /\ TabFits(t) /\ CallFits(call[<<t, "mount">>])
        /\ call[<<t, "mount">>].op = "active"
        /\ call[<<t, "mount">>].view \in View
    BY HeardOf, FlowsAreFive DEF ApplyActive, Heard, Waits
  <1>2. PICK v \in View : v = call[<<t, "mount">>].view
    BY <1>1
  <1>3. /\ left[t] = Off /\ shown[t].item = None
        /\ call[<<t, "answer">>].op = "none" /\ call[<<t, "expire">>].op = "none"
    BY <1>1 DEF TabFits
  <1>4. ASSUME NEW k \in Call, Only(t, "mount", k), UNCHANGED screen
        PROVE  ClientStep(t)
    <2>1. Screen(t, shown[t], results[t], left[t])
      BY <1>4, ScreenUnchanged
    <2>2. shown'[t] = shown[t] /\ left'[t] = left[t]
      BY <2>1, ScreenIs
    <2>3. /\ call'[<<t, "answer">>] = call[<<t, "answer">>]
          /\ call'[<<t, "expire">>] = call[<<t, "expire">>]
      BY <1>4, FlowsAreFive DEF Only
    <2>4. FlowsFit(t)'
      BY <1>3, <2>2, <2>3 DEF FlowsFit, Off
    <2>5. QED
      BY <1>4, <2>1, <2>4, FlowsAreFive, SameScreen
  <1>5. CASE /\ v.sid # None /\ UNCHANGED screen
             /\ OnlyCall(t, "mount", Request("question", "sent", v.sid, None, FALSE))
    <2>1. PICK s \in Sid : s = v.sid
      BY DEF View, Sid
    <2>2. Known(s) /\ s # None
      BY <1>1, <1>2, <1>5, <2>1 DEF CallFits, ViewFits
    <2>3. OnlyCall(t, "mount", Request("question", "sent", s, None, FALSE))
      BY <1>5, <2>1
    <2>4. "question" \in Op /\ None \in Item
      BY DEF Op, Item
    <2>5. PICK k \in Call : Only(t, "mount", k)
      BY ZenonT(60), <2>2, <2>3, <2>4, FlowsAreFive, OnlyThis
    <2>6. QED
      BY <1>4, <1>5, <2>5
  <1>6. CASE Done(t, "mount") /\ UNCHANGED screen
    <2>1. PICK k \in Call : Only(t, "mount", k)
      BY <1>6, FlowsAreFive, OnlyDone
    <2>2. QED
      BY <1>4, <1>6, <2>1
  <1>7. CASE Navigates(t, "focus", Flow \ {"mount"}) \/ Navigates(t, "hub", Flow \ {"mount"})
    BY <1>7, NavigatesStep
  <1>8. QED
    BY <1>2, <1>5, <1>6, <1>7 DEF ApplyActive, ReplyOf

LEMMA ApplyGoneStep ==
  ASSUME TypeOK, IInv, RowsStep, NEW t \in Tab, ApplyGone(t)
  PROVE  ClientStep(t)
  <1>1. /\ TabFits(t) /\ CallFits(call[<<t, "gone">>])
        /\ call[<<t, "gone">>].at = "answered"
        /\ call[<<t, "gone">>].view \in View
    BY HeardOf, FlowsAreFive DEF ApplyGone
  <1>2. PICK v \in View : v = call[<<t, "gone">>].view
    BY <1>1
  <1>3. ASSUME NEW k \in Call, Only(t, "gone", k), UNCHANGED screen
        PROVE  ClientStep(t)
    <2>1. Screen(t, shown[t], results[t], left[t])
      BY <1>3, ScreenUnchanged
    <2>2. shown'[t] = shown[t] /\ left'[t] = left[t]
      BY <2>1, ScreenIs
    <2>3. /\ call'[<<t, "answer">>] = call[<<t, "answer">>]
          /\ call'[<<t, "mount">>] = call[<<t, "mount">>]
          /\ call'[<<t, "expire">>] = call[<<t, "expire">>]
      BY <1>3, FlowsAreFive DEF Only
    <2>4. FlowsFit(t)'
      BY <1>1, <2>2, <2>3 DEF FlowsFit, TabFits, Off
    <2>5. QED
      BY <1>3, <2>1, <2>4, FlowsAreFive, SameScreen
  <1>4. CASE /\ v.sid # None /\ UNCHANGED screen
             /\ OnlyCall(t, "gone", Request("question", "sent", v.sid, None, FALSE))
    <2>1. PICK s \in Sid : s = v.sid
      BY DEF View, Sid
    <2>2. Known(s) /\ s # None
      BY <1>1, <1>2, <1>4, <2>1 DEF CallFits, ViewFits
    <2>3. OnlyCall(t, "gone", Request("question", "sent", s, None, FALSE))
      BY <1>4, <2>1
    <2>4. PICK k \in Call : Only(t, "gone", k)
      BY <2>2, <2>3, FlowsAreFive, AsksAgain DEF Asks
    <2>5. QED
      BY <1>3, <1>4, <2>4
  <1>5. CASE Done(t, "gone") /\ UNCHANGED screen
    <2>1. PICK k \in Call : Only(t, "gone", k)
      BY <1>5, FlowsAreFive, OnlyDone
    <2>2. QED
      BY <1>3, <1>5, <2>1
  <1>6. CASE \E p \in {"hub", "focus"} : Navigates(t, p, Flow \ {"gone"})
    BY <1>6, NavigatesStep
  <1>7. ASSUME call[<<t, "gone">>].op = "answer", call[<<t, "gone">>].code = "ok"
        PROVE  v.sid # None
    BY <1>1, <1>2, <1>7 DEF CallFits
  <1>8. QED
    BY <1>2, <1>4, <1>5, <1>6, <1>7 DEF ApplyGone, ReplyOf, CodeOf

LEMMA ApplyResumeStep ==
  ASSUME TypeOK, IInv, RowsStep, NEW t \in Tab, ApplyResume(t)
  PROVE  ClientStep(t)
  <1>1. /\ TabFits(t) /\ CallFits(call[<<t, "mount">>]) /\ call[<<t, "mount">>] \in Call
        /\ call[<<t, "mount">>].op = "question" /\ call[<<t, "mount">>].at = "answered"
        /\ call[<<t, "mount">>].view \in View
    BY HeardOf, FlowsAreFive DEF ApplyResume, Heard, Waits
  <1>2. PICK v \in View : v = call[<<t, "mount">>].view
    BY <1>1
  <1>3. left[t] = Off /\ call[<<t, "answer">>].op = "none" /\ call[<<t, "expire">>].op = "none"
    BY <1>1 DEF TabFits
  <1>4. ViewFits(v)
    BY <1>1, <1>2 DEF CallFits
  <1>5. PICK k \in Call : Only(t, "mount", k) /\ k.op = "none"
    BY FlowsAreFive, OnlyDone DEF ApplyResume
  <1>6. /\ call'[<<t, "answer">>] = call[<<t, "answer">>] /\ call'[<<t, "mount">>] = k
        /\ call'[<<t, "expire">>] = call[<<t, "expire">>]
    BY <1>5, FlowsAreFive DEF Only
  <1>7. FlowsFit(t)'
    BY <1>3, <1>5, <1>6 DEF FlowsFit
  <1>8. CASE KeepsScreen /\ UNCHANGED left
    <2>1. Screen(t, shown[t], results[t], left[t])
      BY <1>8, ScreenNow, ScreenKept DEF ApplyResume
    <2>2. QED
      BY <1>5, <1>7, <2>1, FlowsAreFive, SameScreen
  <1>9. CASE /\ v.status = "completed"
             /\ results' = [results EXCEPT ![t] =
                  [sid |-> v.sid, current |-> v.current, correct |-> v.correct]]
             /\ UNCHANGED <<shown, picked, left>>
    <2>1. Screen(t, shown[t],
                 [sid |-> v.sid, current |-> v.current, correct |-> v.correct], left[t])
      BY <1>9, ScreenNow DEF Screen, ApplyResume
    <2>2. QED
      BY <1>4, <1>5, <1>7, <1>9, <2>1, FlowsAreFive, ResultsScreen
  <1>10. CASE /\ call[<<t, "mount">>].code = "ok"
              /\ ShowsQuestion(t, v.sid, call[<<t, "mount">>].item)
              /\ left' = [left EXCEPT ![t] =
                   IF v.remaining > 0 THEN 2 * v.remaining ELSE left[t]]
    <2>1. PICK n : n = IF v.remaining > 0 THEN 2 * v.remaining ELSE left[t]
      OBVIOUS
    <2>2. n \in 0..HalfLimit \cup {Off}
      <3>1. v.remaining \in 0..Limit
        BY DEF View
      <3>2. QED
        BY <2>1, <3>1, ScreenNow, Constants DEF HalfLimit
    <2>3. PICK q \in Item : q = call[<<t, "mount">>].item
      BY <1>1 DEF Call, Item
    <2>4. PICK x \in Shown : x = [sid |-> v.sid, item |-> q]
      BY DEF View, Shown, Item
    <2>5. Screen(t, x, results[t], n)
      <3>1. shown' = [shown EXCEPT ![t] = x] /\ results' = results
            /\ picked' = [picked EXCEPT ![t] = picked[t] /\ shown[t].item = q]
        BY <1>10, <2>3, <2>4 DEF ShowsQuestion
      <3>2. (picked[t] /\ shown[t].item = q) \in BOOLEAN
        BY ScreenNow
      <3>3. left' = [left EXCEPT ![t] = n]
        BY <1>10, <2>1
      <3>4. page' = page
        BY DEF ApplyResume
      <3>5. results' = [results EXCEPT ![t] = results[t]]
        BY <3>1, ScreenNow
      <3>6. \E w \in BOOLEAN : picked' = [picked EXCEPT ![t] = w]
        BY <3>1, <3>2
      <3>7. QED
        BY <3>1, <3>3, <3>4, <3>5, <3>6 DEF Screen
    <2>6. shown'[t] = x /\ results'[t] = results[t] /\ left'[t] = n
      BY <2>5, ScreenIs
    <2>7. v.sid # None /\ Known(v.sid) /\ 2 * v.remaining + elapsed[v.sid] >= HalfLimit
      BY <1>1, <1>2, <1>4, <1>10 DEF CallFits, ViewFits
    <2>8. PICK s : s = v.sid
      OBVIOUS
    <2>9. Known(s)' /\ s \in Session
      BY <2>7, <2>8, KnownStays DEF Known
    <2>10. ShownFits(t)'
      BY <2>4, <2>6, <2>7, <2>8, <2>9 DEF ShownFits, Known
    <2>11. ViewFits(v)'
      BY <1>4, ViewsStay
    <2>12. LeftFits(t)'
      <3>1. n # Off => n = 2 * v.remaining
        BY <1>3, <2>1
      <3>2. 2 * v.remaining + elapsed'[s] >= HalfLimit'
        BY <2>7, <2>8, <2>11 DEF ViewFits, HalfLimit
      <3>3. shown'[t].sid = s
        BY <2>4, <2>6, <2>8
      <3>4. Off' = Off
        BY DEF Off
      <3>5. QED
        BY <2>6, <3>1, <3>2, <3>3, <3>4 DEF LeftFits
    <2>13. ResultsFit(t)'
      BY <2>6, ResultsStay
    <2>14. PICK y \in Results : y = results[t]
      BY ScreenNow
    <2>15. Screen(t, x, y, n)
      BY <2>5, <2>14
    <2>16. QED
      BY <1>5, <1>7, <2>2, <2>10, <2>12, <2>13, <2>15, FlowsAreFive, ScreenStep
  <1>11. QED
    BY <1>2, <1>8, <1>9, <1>10 DEF ApplyResume, CodeOf, ReplyOf

(* A tab whose countdown ran for the session of an answer. *)
LEMMA ApplyAnswerStep ==
  ASSUME TypeOK, IInv, RowsStep, NEW t \in Tab, ApplyAnswer(t)
  PROVE  ClientStep(t)
  <1>1. /\ TabFits(t) /\ CallFits(call[<<t, "answer">>]) /\ call[<<t, "answer">>] \in Call
        /\ call[<<t, "answer">>].op = "answer" /\ call[<<t, "answer">>].at = "answered"
        /\ call[<<t, "answer">>].view \in View
    BY HeardOf, FlowsAreFive DEF ApplyAnswer, Heard, Waits
  <1>2. PICK v \in View : v = call[<<t, "answer">>].view
    BY <1>1
  <1>3. ViewFits(v)
    BY <1>1, <1>2 DEF CallFits
  <1>4. PICK s \in Sid : s = call[<<t, "answer">>].sid
    BY <1>1 DEF Call, Sid
  <1>5. s # None /\ Known(s) /\ (left[t] # Off => s = shown[t].sid)
    BY <1>1, <1>4 DEF CallFits, TabFits
  <1>6. call[<<t, "mount">>].op = "none" /\ (call[<<t, "expire">>].op # "none" => left[t] = Off)
    BY <1>1 DEF TabFits
  <1>7. UNCHANGED page
    BY DEF ApplyAnswer
  <1>8. ASSUME NEW k \in Call, Only(t, "answer", k),
               k.op = "none" \/ (k.op \in {"question", "results"} /\ k.sid = s),
               NEW z \in {left[t], Off}, left' = [left EXCEPT ![t] = z],
               KeepsScreen
        PROVE  ClientStep(t)
    <2>1. Screen(t, shown[t], results[t], z)
      BY <1>7, <1>8, ScreenKept
    <2>2. shown'[t] = shown[t] /\ left'[t] = z
      BY <2>1, ScreenIs
    <2>3. /\ call'[<<t, "answer">>] = k /\ call'[<<t, "mount">>] = call[<<t, "mount">>]
          /\ call'[<<t, "expire">>] = call[<<t, "expire">>]
      BY <1>8, FlowsAreFive DEF Only
    <2>4. FlowsFit(t)'
      BY <1>5, <1>6, <1>8, <2>2, <2>3 DEF FlowsFit, Off
    <2>5. QED
      BY <1>8, <2>1, <2>4, FlowsAreFive, SameScreen
  <1>9. CASE /\ v.status = "completed"
             /\ ShowsResults(t, v) /\ StopTimer(t) /\ Done(t, "answer")
    <2>1. PICK k \in Call : Only(t, "answer", k) /\ k.op = "none"
      BY <1>9, FlowsAreFive, OnlyDone
    <2>2. Screen(t, Nothing,
                 [sid |-> v.sid, current |-> v.current, correct |-> v.correct], Off)
      BY <1>7, <1>9 DEF ShowsResults, StopTimer, Screen
    <2>3. /\ call'[<<t, "answer">>] = k /\ call'[<<t, "mount">>] = call[<<t, "mount">>]
          /\ call'[<<t, "expire">>] = call[<<t, "expire">>]
      BY <2>1, FlowsAreFive DEF Only
    <2>4. left'[t] = Off
      BY <2>2, ScreenIs
    <2>5. FlowsFit(t)'
      BY <1>6, <2>1, <2>3, <2>4 DEF FlowsFit, Off
    <2>6. QED
      BY <1>3, <1>9, <2>1, <2>2, <2>5, FlowsAreFive, ResultsScreen
  <1>10. CASE /\ call[<<t, "answer">>].code = "ok"
              /\ OnlyCall(t, "answer", Request("question", "sent", v.sid, None, FALSE))
              /\ KeepsScreen /\ UNCHANGED left
    <2>1. v.sid = s
      BY <1>1, <1>2, <1>4, <1>10 DEF CallFits
    <2>2. OnlyCall(t, "answer", Request("question", "sent", s, None, FALSE))
      BY <1>10, <2>1
    <2>3. PICK k \in Call : Only(t, "answer", k) /\ k.op = "question" /\ k.sid = s
      <3>1. Asks(t, "answer", "question", s)
        BY <1>5, <2>2, FlowsAreFive, AsksAgain
      <3>2. QED
        BY <3>1 DEF Asks
    <2>4. left' = [left EXCEPT ![t] = left[t]]
      BY <1>10, ScreenNow
    <2>5. QED
      BY <1>8, <1>10, <2>3, <2>4
  <1>11. CASE /\ OnlyCall(t, "answer", Request("results", "sent",
                            call[<<t, "answer">>].sid, None, FALSE))
              /\ StopTimer(t) /\ KeepsScreen
    <2>1. OnlyCall(t, "answer", Request("results", "sent", s, None, FALSE))
      BY <1>4, <1>11
    <2>2. PICK k \in Call : Only(t, "answer", k) /\ k.op = "results" /\ k.sid = s
      <3>1. Asks(t, "answer", "results", s)
        BY <1>5, <2>1, FlowsAreFive, AsksAgain
      <3>2. QED
        BY <3>1 DEF Asks
    <2>3. left' = [left EXCEPT ![t] = Off]
      BY <1>11 DEF StopTimer
    <2>4. QED
      BY <1>8, <1>11, <2>2, <2>3
  <1>12. CASE Done(t, "answer") /\ KeepsScreen /\ UNCHANGED left
    <2>1. PICK k \in Call : Only(t, "answer", k) /\ k.op = "none"
      BY <1>12, FlowsAreFive, OnlyDone
    <2>2. left' = [left EXCEPT ![t] = left[t]]
      BY <1>12, ScreenNow
    <2>3. QED
      BY <1>8, <1>12, <2>1, <2>2
  <1>13. QED
    BY <1>2, <1>9, <1>10, <1>11, <1>12 DEF ApplyAnswer, CodeOf, ReplyOf
LEMMA ApplyNextStep ==
  ASSUME TypeOK, IInv, RowsStep, NEW t \in Tab, ApplyNext(t)
  PROVE  ClientStep(t)
  <1>1. /\ TabFits(t) /\ CallFits(call[<<t, "answer">>]) /\ call[<<t, "answer">>] \in Call
        /\ call[<<t, "answer">>].op = "question" /\ call[<<t, "answer">>].at = "answered"
        /\ call[<<t, "answer">>].view \in View
    BY HeardOf, FlowsAreFive DEF ApplyNext, Heard, Waits
  <1>2. PICK v \in View : v = call[<<t, "answer">>].view
    BY <1>1
  <1>3. PICK q \in Item : q = call[<<t, "answer">>].item
    BY <1>1 DEF Call, Item
  <1>4. ViewFits(v) /\ (q # None => v.sid # None)
    BY <1>1, <1>2, <1>3 DEF CallFits
  <1>5. left[t] # Off => v.sid \in {None, shown[t].sid}
    BY <1>1, <1>2 DEF CallFits, TabFits
  <1>6. PICK k \in Call : Only(t, "answer", k) /\ k.op = "none"
    BY FlowsAreFive, OnlyDone DEF ApplyNext
  <1>7. /\ call'[<<t, "answer">>] = k /\ call'[<<t, "mount">>] = call[<<t, "mount">>]
        /\ call'[<<t, "expire">>] = call[<<t, "expire">>] /\ call[<<t, "mount">>].op = "none"
        /\ (call[<<t, "expire">>].op # "none" => left[t] = Off)
    BY <1>1, <1>6, FlowsAreFive DEF Only, TabFits
  <1>8. left' = [left EXCEPT ![t] = left[t]] /\ UNCHANGED page /\ left'[t] = left[t]
    BY ScreenNow DEF ApplyNext
  <1>9. FlowsFit(t)'
    BY <1>6, <1>7, <1>8 DEF FlowsFit, Off
  <1>10. CASE KeepsScreen
    <2>1. Screen(t, shown[t], results[t], left[t])
      BY <1>8, <1>10, ScreenKept
    <2>2. QED
      BY <1>6, <1>9, <2>1, FlowsAreFive, SameScreen
  <1>11. CASE ShowsQuestion(t, v.sid, q)
    <2>1. PICK x \in Shown : x = [sid |-> v.sid, item |-> q]
      BY DEF View, Shown, Item
    <2>2. Screen(t, x, results[t], left[t])
      <3>1. shown' = [shown EXCEPT ![t] = x] /\ results' = results
            /\ picked' = [picked EXCEPT ![t] = picked[t] /\ shown[t].item = q]
        BY <1>11, <2>1 DEF ShowsQuestion
      <3>2. (picked[t] /\ shown[t].item = q) \in BOOLEAN
        BY ScreenNow
      <3>3. results' = [results EXCEPT ![t] = results[t]]
        BY <3>1, ScreenNow
      <3>4. \E w \in BOOLEAN : picked' = [picked EXCEPT ![t] = w]
        BY <3>1, <3>2
      <3>5. QED
        BY <1>8, <3>1, <3>3, <3>4 DEF Screen
    <2>3. shown'[t] = x /\ results'[t] = results[t] /\ left'[t] = left[t]
      BY <2>2, ScreenIs
    <2>4. x.sid # None => Known(x.sid)'
      BY <1>4, <2>1, KnownStays DEF ViewFits
    <2>5. ShownFits(t)'
      BY <1>4, <2>1, <2>3, <2>4 DEF ShownFits, Known
    <2>6. ResultsFit(t)'
      BY <2>3, ResultsStay
    <2>7. LeftFits(t)'
      <3>1. CASE left[t] = Off
        BY <2>3, <3>1 DEF LeftFits, Off
      <3>2. CASE left[t] # Off
        BY <1>5, <2>1, <2>3, <3>2, LeftStays
      <3>3. QED
        BY <3>1, <3>2
    <2>8. PICK y \in Results, n \in 0..HalfLimit \cup {Off} : y = results[t] /\ n = left[t]
      BY ScreenNow
    <2>9. Screen(t, x, y, n)
      BY <2>2, <2>8
    <2>10. QED
      BY <1>6, <1>9, <2>5, <2>6, <2>7, <2>9, FlowsAreFive, ScreenStep
  <1>12. QED
    BY <1>2, <1>3, <1>10, <1>11 DEF ApplyNext, CodeOf, ReplyOf

(* The flow of a countdown: none runs while it asks. *)
LEMMA ExpiryFlows ==
  ASSUME TypeOK, IInv, NEW t \in Tab, NEW k, Only(t, "expire", k), left'[t] = Off,
         call[<<t, "mount">>].op = "none"
  PROVE  FlowsFit(t)'
  <1>1. TabFits(t)
    BY DEF IInv, TabsFit
  <1>2. /\ call'[<<t, "answer">>] = call[<<t, "answer">>]
        /\ call'[<<t, "mount">>] = call[<<t, "mount">>]
    BY FlowsAreFive DEF Only
  <1>3. QED
    BY <1>1, <1>2 DEF FlowsFit, TabFits, Off

LEMMA CountdownEndsStep ==
  ASSUME TypeOK, IInv, RowsStep, NEW t \in Tab, CountdownEnds(t)
  PROVE  ClientStep(t)
  <1>1. TabFits(t) /\ shown[t] \in Shown
    BY ScreenNow DEF IInv, TabsFit
  <1>2. PICK s \in Sid : s = shown[t].sid
    BY <1>1 DEF Shown, Sid
  <1>3. s # None /\ Known(s)
    BY <1>1, <1>2 DEF CountdownEnds, OnScreen, TabFits
  <1>4. OnlyCall(t, "expire", Request("question", "sent", s, None, FALSE))
    BY <1>2 DEF CountdownEnds
  <1>5. PICK k \in Call : Only(t, "expire", k)
    BY <1>3, <1>4, FlowsAreFive, AsksAgain DEF Asks
  <1>6. Screen(t, shown[t], results[t], Off)
    <2>1. UNCHANGED page /\ KeepsScreen /\ left' = [left EXCEPT ![t] = Off]
      BY DEF CountdownEnds, StopTimer, KeepsScreen
    <2>2. QED
      BY <2>1, ScreenKept
  <1>7. left'[t] = Off /\ call[<<t, "mount">>].op = "none"
    <2>1. left[t] # Off
      BY DEF CountdownEnds, Off
    <2>2. QED
      BY <1>1, <1>6, <2>1, ScreenIs DEF TabFits
  <1>8. FlowsFit(t)'
    BY <1>5, <1>7, ExpiryFlows
  <1>9. QED
    BY <1>5, <1>6, <1>8, FlowsAreFive, SameScreen
LEMMA ApplyExpiryStep ==
  ASSUME TypeOK, IInv, RowsStep, NEW t \in Tab, ApplyExpiry(t)
  PROVE  ClientStep(t)
  <1>1. /\ TabFits(t) /\ CallFits(call[<<t, "expire">>]) /\ call[<<t, "expire">>] \in Call
        /\ call[<<t, "expire">>].op = "question"
        /\ call[<<t, "expire">>].view \in View
    BY HeardOf, FlowsAreFive DEF ApplyExpiry, Heard, Waits
  <1>2. PICK v \in View : v = call[<<t, "expire">>].view
    BY <1>1
  <1>3. PICK s \in Sid : s = call[<<t, "expire">>].sid
    BY <1>1 DEF Call, Sid
  <1>4. ViewFits(v) /\ s # None /\ Known(s)
    BY <1>1, <1>2, <1>3 DEF CallFits
  <1>5. /\ left' = [left EXCEPT ![t] = left[t]] /\ UNCHANGED page
        /\ left[t] = Off /\ call[<<t, "mount">>].op = "none"
    BY <1>1, ScreenNow DEF ApplyExpiry, TabFits
  <1>6. ASSUME NEW k \in Call, Only(t, "expire", k), KeepsScreen
        PROVE  ClientStep(t)
    <2>1. Screen(t, shown[t], results[t], left[t])
      BY <1>5, <1>6, ScreenKept
    <2>2. left'[t] = Off
      BY <1>5, <2>1, ScreenIs
    <2>3. FlowsFit(t)'
      BY <1>5, <1>6, <2>2, ExpiryFlows
    <2>4. QED
      BY <1>6, <2>1, <2>3, FlowsAreFive, SameScreen
  <1>7. CASE v.status = "completed" /\ ShowsResults(t, v) /\ Done(t, "expire")
    <2>1. PICK k \in Call : Only(t, "expire", k)
      BY <1>7, FlowsAreFive, OnlyDone
    <2>2. Screen(t, Nothing,
                 [sid |-> v.sid, current |-> v.current, correct |-> v.correct], left[t])
      BY <1>5, <1>7 DEF ShowsResults, Screen
    <2>3. left'[t] = Off
      BY <1>5, <2>2, ScreenIs
    <2>4. FlowsFit(t)'
      BY <1>5, <2>1, <2>3, ExpiryFlows
    <2>5. QED
      BY <1>4, <1>7, <2>1, <2>2, <2>4, FlowsAreFive, ResultsScreen
  <1>8. CASE KeepsScreen /\ Done(t, "expire")
    <2>1. PICK k \in Call : Only(t, "expire", k)
      BY <1>8, FlowsAreFive, OnlyDone
    <2>2. QED
      BY <1>6, <1>8, <2>1
  <1>9. CASE /\ OnlyCall(t, "expire", Request("results", "sent",
                           call[<<t, "expire">>].sid, None, FALSE))
             /\ KeepsScreen
    <2>1. OnlyCall(t, "expire", Request("results", "sent", s, None, FALSE))
      BY <1>3, <1>9
    <2>2. Asks(t, "expire", "results", s)
      BY <1>4, <2>1, FlowsAreFive, AsksAgain
    <2>3. PICK k \in Call : Only(t, "expire", k)
      BY <2>2 DEF Asks
    <2>4. QED
      BY <1>6, <1>9, <2>3
  <1>10. QED
    BY <1>2, <1>7, <1>8, <1>9 DEF ApplyExpiry, CodeOf, ReplyOf, ShowsAsOver

(* The results that an answer or a countdown asked for. *)
LEMMA ApplyResultsStep ==
  ASSUME TypeOK, IInv, RowsStep, NEW t \in Tab, NEW f \in {"answer", "expire"},
         ApplyResults(t, f)
  PROVE  ClientStep(t)
  <1>1. f \in Flow
    BY DEF Flow
  <1>2. /\ TabFits(t) /\ CallFits(call[<<t, f>>])
        /\ call[<<t, f>>].op = "results" /\ call[<<t, f>>].at = "answered"
        /\ call[<<t, f>>].view \in View
    BY <1>1, HeardOf DEF ApplyResults, Heard, Waits
  <1>3. PICK v \in View : v = call[<<t, f>>].view
    BY <1>2
  <1>4. left' = [left EXCEPT ![t] = left[t]] /\ UNCHANGED page
    BY ScreenNow DEF ApplyResults
  <1>5. PICK k \in Call : Only(t, f, k) /\ k.op = "none"
    BY <1>1, OnlyDone DEF ApplyResults
  <1>6. call[<<t, "mount">>].op = "none" /\ (call[<<t, "expire">>].op # "none" => left[t] = Off)
    BY <1>2 DEF TabFits
  <1>7. call'[<<t, "mount">>].op = "none"
    BY <1>5, <1>6, FlowsAreFive DEF Only
  <1>8. ASSUME left'[t] = left[t]
        PROVE  FlowsFit(t)'
    <2>1. CASE f = "answer"
      <3>1. call'[<<t, "answer">>].op = "none" /\ call'[<<t, "expire">>] = call[<<t, "expire">>]
        BY <1>5, <2>1, FlowsAreFive DEF Only
      <3>2. QED
        BY <1>6, <1>7, <1>8, <3>1 DEF FlowsFit, Off
    <2>2. CASE f = "expire"
      <3>1. left'[t] = Off
        BY <1>2, <1>6, <1>8, <2>2
      <3>2. QED
        BY <1>5, <1>6, <2>2, <3>1, ExpiryFlows
    <2>3. QED
      BY <2>1, <2>2
  <1>9. CASE KeepsScreen
    <2>1. Screen(t, shown[t], results[t], left[t])
      BY <1>4, <1>9, ScreenKept
    <2>2. FlowsFit(t)'
      BY <1>8, <2>1, ScreenIs
    <2>3. QED
      BY <1>1, <1>5, <2>1, <2>2, SameScreen
  <1>10. CASE call[<<t, f>>].code = "ok" /\ ShowsResults(t, v)
    <2>1. ViewFits(v) /\ v.status = "completed"
      BY <1>2, <1>3, <1>10 DEF CallFits
    <2>2. Screen(t, Nothing,
                 [sid |-> v.sid, current |-> v.current, correct |-> v.correct], left[t])
      BY <1>4, <1>10 DEF ShowsResults, Screen
    <2>3. FlowsFit(t)'
      BY <1>2, <1>8, <2>2, ScreenIs
    <2>4. QED
      BY <1>1, <1>5, <2>1, <2>2, <2>3, ResultsScreen
  <1>11. QED
    BY <1>3, <1>9, <1>10 DEF ApplyResults, CodeOf, ReplyOf
LEMMA ClientApart ==
  ASSUME TypeOK, IInv, NEW t \in Tab, Client(t)
  PROVE  ClientStep(t)
  <1>1. RowsStep
    BY RowsStay DEF Client, IInv
  <1>2. CASE Acts(t)
    <2>1. ASSUME NEW p \in {"hub", "focus"}, Load(t, p) PROVE ClientStep(t)
      <3>1. Idle \in Call /\ CallFits(Idle)
        <4>1. ViewFits(NoView) /\ NoView.sid = None
          BY NoViewFits
        <4>2. QED
          BY <4>1, IdleTyped DEF Idle, Request, CallFits
      <3>2. QED
        BY <1>1, <2>1, <3>1, MountsStep DEF Load
    <2>2. CASE Start(t)
      BY <1>1, <2>2, StartStep
    <2>3. CASE ResetToHub(t)
      BY <1>1, <2>3, NavigatesStep DEF ResetToHub
    <2>4. ASSUME NEW right \in BOOLEAN, Pick(t, right) PROVE ClientStep(t)
      BY <1>1, <2>4, PickStep
    <2>5. ASSUME NEW p \in {"hub", "focus"}, Follow(t, p) PROVE ClientStep(t)
      BY <1>1, <2>5, NavigatesStep DEF Follow
    <2>6. QED
      BY <1>2, <2>1, <2>2, <2>3, <2>4, <2>5 DEF Acts
  <1>3. CASE Reacts(t)
    BY <1>1, <1>3, ApplyActiveStep, ApplyResumeStep, ApplyStartStep, ApplyAnswerStep,
       ApplyNextStep, CountdownEndsStep, ApplyExpiryStep, ApplyResultsStep, ApplyGoneStep
       DEF Reacts
  <1>4. QED
    BY <1>2, <1>3 DEF Client

LEMMA ClientKeeps ==
  ASSUME TypeOK, IInv, NEW t \in Tab, Client(t)
  PROVE  TypeOK' /\ IInv'
  <1>1. UNCHANGED <<published, entitled, edits, faults>> /\ UNCHANGED db
    BY DEF Client
  <1>2. RowsStep
    BY <1>1, RowsStay DEF IInv
  <1>3. ClientStep(t)
    BY ClientApart
  <1>4. QED
    BY <1>1, <1>2, <1>3, ClientStepKeeps

-----------------------------------------------------------------------------
(* The specification *)

LEMMA InitFits == Init => TypeOK /\ IInv
  <1> SUFFICES ASSUME Init PROVE TypeOK /\ IInv
    OBVIOUS
  <1>1. NoRow \in Row /\ Nothing \in Shown /\ NoResults \in Results
    BY Constants DEF NoRow, Row, Nothing, Shown, NoResults, Results
  <1>2. TypeOK
    BY <1>1, IdleTyped, Constants, QuizAssumption DEF Init, TypeOK, Question, Off
  <1>3. RowsFit
    <2>1. ASSUME NEW s \in Session PROVE RowFits(s)
      <3>1. row[s] = NoRow /\ answered[s] = {}
        BY DEF Init
      <3>2. {a \in answered[s] : a[2]} = {} /\ Cardinality({}) = 0
        BY <3>1, FS_EmptySet
      <3>3. QED
        BY <3>1, <3>2 DEF RowFits, NoRow, InProgress
    <2>2. Completed = {} /\ progress = 0
      BY DEF Completed, Init, NoRow
    <2>3. QED
      BY <2>1, <2>2, FS_EmptySet DEF RowsFit
  <1>4. CallsFit
    <2>1. ASSUME NEW c \in Tab \X Flow PROVE CallFits(call[c])
      <3>1. call[c] = Idle /\ ViewFits(NoView) /\ NoView.sid = None
        BY NoViewFits DEF Init
      <3>2. QED
        BY <3>1 DEF Idle, Request, CallFits
    <2>2. QED
      BY <2>1 DEF CallsFit
  <1>5. TabsFit
    <2>1. ASSUME NEW t \in Tab PROVE TabFits(t)
      <3>1. /\ shown[t] = Nothing /\ results[t] = NoResults /\ left[t] = Off
            /\ call[<<t, "answer">>] = Idle /\ call[<<t, "mount">>] = Idle
            /\ call[<<t, "expire">>] = Idle
        BY FlowsAreFive DEF Init
      <3>2. QED
        BY <3>1 DEF TabFits, Nothing, NoResults, Idle, Request
    <2>2. QED
      BY <2>1 DEF TabsFit
  <1>6. QED
    BY <1>2, <1>3, <1>4, <1>5 DEF IInv

LEMMA NextKeeps ==
  ASSUME TypeOK, IInv, [Next]_vars
  PROVE  TypeOK' /\ IInv'
  <1>1. RowsFit
    BY DEF IInv
  <1>2. ASSUME NEW c \in Tab \X Flow, Serve(c) \/ Fault(c) PROVE TypeOK' /\ IInv'
    BY <1>2, ServeKeeps
  <1>3. ASSUME NEW s \in Session, AbortSession(s) PROVE TypeOK' /\ IInv'
    <2>1. RowsStep
      BY <1>1, <1>3, AbortFits
    <2>2. UNCHANGED <<published, entitled, edits, faults, call>> /\ UNCHANGED screen
      BY <1>3 DEF AbortSession
    <2>3. QED
      BY <2>1, <2>2, UnheardKeeps DEF TypeOK
  <1>4. ASSUME NEW s \in Session, ExtendTime(s) PROVE TypeOK' /\ IInv'
    <2>1. RowsStep
      BY <1>1, <1>4, ExtendFits
    <2>2. UNCHANGED <<published, entitled, edits, faults, call>> /\ UNCHANGED screen
      BY <1>4 DEF ExtendTime
    <2>3. QED
      BY <2>1, <2>2, UnheardKeeps DEF TypeOK
  <1>5. CASE LoseEntitlement
    <2>1. RowsStep
      BY <1>1, <1>5, RowsStay DEF LoseEntitlement
    <2>2. /\ UNCHANGED <<published, edits, faults, call>> /\ UNCHANGED screen
          /\ entitled' = FALSE
      BY <1>5 DEF LoseEntitlement
    <2>3. QED
      BY <2>1, <2>2, UnheardKeeps DEF TypeOK
  <1>6. ASSUME NEW q \in Question, EditBank(q) PROVE TypeOK' /\ IInv'
    <2>1. RowsStep
      BY <1>1, <1>6, RowsStay DEF EditBank
    <2>2. /\ UNCHANGED <<entitled, faults, call>> /\ UNCHANGED screen
          /\ published' \subseteq Question /\ edits' \in 0..MaxEdits
      BY <1>6, QuizAssumption DEF EditBank, TypeOK
    <2>3. QED
      BY <2>1, <2>2, UnheardKeeps DEF TypeOK
  <1>7. ASSUME NEW t \in Tab, Client(t) PROVE TypeOK' /\ IInv'
    BY <1>7, ClientKeeps
  <1>8. CASE Tick
    BY <1>8, TickKeeps
  <1>9. CASE UNCHANGED vars
    <2>1. /\ UNCHANGED <<published, entitled, edits, faults, call>>
          /\ UNCHANGED db /\ UNCHANGED screen
      BY <1>9 DEF vars, db, screen
    <2>2. RowsStep
      BY <1>1, <2>1, RowsStay
    <2>3. QED
      BY <2>1, <2>2, UnheardKeeps DEF TypeOK
  <1>10. QED
    BY <1>2, <1>3, <1>4, <1>5, <1>6, <1>7, <1>8, <1>9 DEF Next

(* Nothing the handlers, the administration, a fault or a tab does breaks what the
   rows are and what a tab may believe of them. *)
THEOREM Inductive == Spec => [](TypeOK /\ IInv)
  <1>1. TypeOK /\ IInv /\ [Next]_vars => (TypeOK /\ IInv)'
    BY NextKeeps
  <1>2. QED
    BY InitFits, <1>1, PTL DEF Spec

(* The rows, the screens and the requests keep their shapes, whatever is asked,
   lost or administered, for any number of tabs, sessions and questions. *)
THEOREM TypeCorrect == Spec => []TypeOK
  BY Inductive, PTL

(* The study plan counts every completed session once, and a row counts its answers,
   however many tabs answer it or notice the end of its time. *)
THEOREM CountsHold == Spec => []CountsAgree
  <1>1. TypeOK /\ IInv => CountsAgree
    <2>1. SUFFICES ASSUME IInv PROVE CountsAgree
      OBVIOUS
    <2>2. RowsFit
      BY <2>1 DEF IInv
    <2>3. QED
      BY <2>2 DEF RowsFit, RowFits, Completed, CountsAgree, ProgressCountedOnce,
                  TallyMatchesAnswers
  <1>2. QED
    BY Inductive, <1>1, PTL

(* The results on a screen are of a session that is over and the server's own. *)
THEOREM ResultsShownAreStored == Spec => []ResultsAreStored
  <1>1. TypeOK /\ IInv => ResultsAreStored
    BY DEF IInv, TabsFit, TabFits, Stored, ResultsAreStored
  <1>2. QED
    BY Inductive, <1>1, PTL

LEMMA ZeroFits ==
  ASSUME TypeOK, IInv
  PROVE  ZeroMeansOver
  <1>1. SUFFICES ASSUME NEW t \in Tab, left[t] = 0, shown[t].sid # None
                 PROVE  TimeUp(shown[t].sid)
    BY DEF ZeroMeansOver
  <1>2. PICK s \in Session : s = shown[t].sid
    BY <1>1 DEF IInv, TabsFit, TabFits, Known
  <1>3. left[t] + elapsed[s] >= HalfLimit /\ elapsed[s] \in 0..HalfLimit
    <2>1. TabFits(t) /\ left[t] # Off
      BY <1>1 DEF IInv, TabsFit, Off
    <2>2. left[t] + elapsed[s] >= HalfLimit
      BY <1>1, <1>2, <2>1 DEF TabFits
    <2>3. elapsed[s] \in 0..HalfLimit
      BY DEF TypeOK
    <2>4. QED
      BY <2>2, <2>3
  <1>4. elapsed[s] = HalfLimit
    BY <1>1, <1>3, Constants
  <1>5. QED
    BY <1>2, <1>4 DEF TimeUp

(* A countdown at zero never runs ahead of the server's clock, for every limit: the
   server rounds what is left up and the countdown starts no later than the answer. *)
THEOREM ZeroIsOver == Spec => []ZeroMeansOver
  BY Inductive, ZeroFits, PTL

LEMMA RowsGrow ==
  ASSUME TypeOK, IInv, [Next]_vars
  PROVE  RowsStep
  <1>1. RowsFit
    BY DEF IInv
  <1>2. ASSUME NEW c \in Tab \X Flow, Serve(c) \/ Fault(c) PROVE RowsStep
    BY <1>2, Served DEF IInv, ServerStep
  <1>3. ASSUME NEW s \in Session, AbortSession(s) \/ ExtendTime(s) PROVE RowsStep
    BY <1>1, <1>3, AbortFits, ExtendFits
  <1>4. CASE LoseEntitlement \/ (\E q \in Question : EditBank(q)) \/ UNCHANGED vars
    <2>1. UNCHANGED db
      BY <1>4 DEF LoseEntitlement, EditBank, vars, db
    <2>2. QED
      BY <1>1, <2>1, RowsStay
  <1>5. ASSUME NEW t \in Tab, Client(t) PROVE RowsStep
    BY <1>1, <1>5, RowsStay DEF Client
  <1>6. CASE Tick
    BY <1>1, <1>6, TickFits
  <1>7. QED
    BY <1>2, <1>3, <1>4, <1>5, <1>6 DEF Next

(* A session that was completed or aborted keeps its row and its answers, whatever
   requests were still under way when it was decided. *)
THEOREM DecidedStays == Spec => DecidedIsFinal
  <1>1. TypeOK /\ IInv /\ [Next]_vars =>
          [\A s \in Session :
             row[s].status \in {"completed", "abandoned"} =>
               row'[s] = row[s] /\ answered'[s] = answered[s]]_vars
    <2>1. SUFFICES ASSUME TypeOK, IInv, [Next]_vars
                   PROVE  \A s \in Session :
                            row[s].status \in {"completed", "abandoned"} =>
                              row'[s] = row[s] /\ answered'[s] = answered[s]
      OBVIOUS
    <2>2. RowsStep
      BY <2>1, RowsGrow
    <2>3. QED
      BY <2>2 DEF RowsStep, Grows
  <1>2. QED
    BY Inductive, <1>1, PTL DEF Spec, DecidedIsFinal
-----------------------------------------------------------------------------
(* No learner is left behind.  As long as nothing disturbs the learner's sessions,
   the requests of a tab lead on (LeadsOn): what a countdown at zero asks for ends in
   results, so do the results a late answer asks for, and what mounting brings has
   time left.  A tab with a question on the screen therefore has a countdown, or a
   request of one of those kinds under way (Goes).  None of it depends on what other
   tabs, left pages or the editors of the questions do. *)

(* A countdown at zero: the session's time is up, so its end is found or made. *)
ExpiryFits(k) ==
  k.op # "none" =>
    /\ k.op = "question" /\ TimeUp(k.sid)
    /\ k.at = "loaded" => k.view.status = "completed"
    /\ k.at = "answered" => k.code = "ok" /\ k.view.status = "completed"

(* Mounting: a question comes with time left. *)
ResumeFits(k) ==
  k.op = "question" =>
    /\ k.at = "loaded" => ~Expired(k.view)
    /\ k.at = "answered" /\ k.item # None => k.view.status = "active" /\ k.view.remaining > 0

(* An answer that came too late: its session is over. *)
LateFits(k) ==
  k.op = "answer" /\ k.at = "answered" =>
    k.code # "forbidden" /\ (k.code = "expired" => row[k.sid].status = "completed")

ResultFits(k) ==
  k.op = "results" =>
    /\ row[k.sid].status = "completed"
    /\ k.at = "answered" => k.code = "ok"

LeadsOn(f, k) ==
  /\ f = "expire" => ExpiryFits(k)
  /\ f = "mount" => ResumeFits(k)
  /\ f = "answer" => LateFits(k) /\ ResultFits(k)

Goes(t) == left[t] # Off \/ call[<<t, "expire">>].op # "none" \/ results[t].sid # None
Going(t) ==
  LET a == call[<<t, "answer">>] IN
  /\ shown[t].item # None \/ a.op \in {"answer", "question"} => Goes(t) \/ a.op = "results"
  /\ a.op \in {"answer", "question"} => shown[t].item # None \/ results[t].sid # None

AllLeadOn(t) == \A f \in Flow : LeadsOn(f, call[<<t, f>>])
KInv == ~Disturbed => \A t \in Tab : AllLeadOn(t) /\ Going(t)

LEMMA DisturbedStays ==
  ASSUME TypeOK, IInv, [Next]_vars, Disturbed
  PROVE  Disturbed'
  <1>1. RowsStep
    BY RowsGrow
  <1>2. (\E s \in Session : row[s].status = "abandoned") =>
          \E s \in Session : row'[s].status = "abandoned"
    BY <1>1 DEF RowsStep, Grows
  <1>3. (faults > 0 => faults' > 0) /\ (~entitled => ~entitled')
    <2>1. faults' = faults \/ faults' = faults + 1
      BY DEF Next, Serve, Fault, AbortSession, ExtendTime, LoseEntitlement, EditBank, Client,
             Tick, vars
    <2>2. entitled' = entitled \/ entitled' = FALSE
      BY DEF Next, Serve, Fault, AbortSession, ExtendTime, LoseEntitlement, EditBank, Client,
             Tick, vars
    <2>3. faults \in Int
      BY DEF TypeOK
    <2>4. QED
      BY <2>1, <2>2, <2>3
  <1>4. QED
    BY <1>2, <1>3 DEF Disturbed

LEMMA TimeUpStays ==
  ASSUME TypeOK, RowsStep, NEW s, Known(s), TimeUp(s)
  PROVE  TimeUp(s)'
  <1>1. s \in Session /\ elapsed'[s] >= elapsed[s]
    BY DEF Known, RowsStep, Grows
  <1>2. HalfLimit' = HalfLimit /\ HalfLimit \in Nat
    BY Constants DEF HalfLimit
  <1>3. elapsed'[s] \in 0..HalfLimit /\ elapsed[s] = HalfLimit
    BY <1>1, <1>2 DEF RowsStep, RowsTyped, TimeUp
  <1>4. elapsed'[s] = HalfLimit
    BY <1>1, <1>2, <1>3
  <1>5. QED
    BY <1>2, <1>4 DEF TimeUp

(* What a request leads to does not change while the request waits. *)
LEMMA LeadsOnStays ==
  ASSUME TypeOK, RowsStep, NEW f \in Flow, NEW k, CallFits(k), LeadsOn(f, k)
  PROVE  LeadsOn(f, k)'
  <1>1. ExpiryFits(k) => ExpiryFits(k)'
    <2>1. SUFFICES ASSUME ExpiryFits(k), k.op # "none" PROVE ExpiryFits(k)'
      BY DEF ExpiryFits
    <2>2. Known(k.sid) /\ TimeUp(k.sid)
      BY <2>1 DEF ExpiryFits, CallFits
    <2>3. TimeUp(k.sid)'
      BY <2>2, TimeUpStays
    <2>4. QED
      BY <2>1, <2>3 DEF ExpiryFits
  <1>2. ResumeFits(k) => ResumeFits(k)'
    BY DEF ResumeFits, Expired
  <1>3. k.op \in {"answer", "results"} => Known(k.sid)
    BY DEF CallFits
  <1>4. k.op \in {"answer", "results"} /\ row[k.sid].status = "completed" =>
          row'[k.sid].status = "completed"
    BY <1>3 DEF Known, RowsStep, Grows
  <1>5. (LateFits(k) => LateFits(k)') /\ (ResultFits(k) => ResultFits(k)')
    BY <1>4 DEF LateFits, ResultFits
  <1>6. QED
    BY <1>1, <1>2, <1>5 DEF LeadsOn

(* All requests of a tab lead on when all but one stay and the other one does. *)
LEMMA AllStay ==
  ASSUME TypeOK, IInv, RowsStep, NEW t \in Tab, AllLeadOn(t), NEW f \in Flow,
         \A g \in Flow : g # f => call'[<<t, g>>] = call[<<t, g>>],
         LeadsOn(f, call[<<t, f>>])'
  PROVE  AllLeadOn(t)'
  <1>1. SUFFICES ASSUME NEW g \in Flow PROVE LeadsOn(g, call[<<t, g>>])'
    BY DEF AllLeadOn, Flow
  <1>2. CASE g = f
    BY <1>2 DEF LeadsOn, ExpiryFits, ResumeFits, LateFits, ResultFits, TimeUp, Expired
  <1>3. CASE g # f
    <2>1. PICK k : k = call[<<t, g>>]
      OBVIOUS
    <2>2. CallFits(k) /\ LeadsOn(g, k)
      BY <2>1, HeardOf DEF AllLeadOn
    <2>3. LeadsOn(g, k)'
      BY <2>2, LeadsOnStays
    <2>4. call'[<<t, g>>] = k
      BY <1>3, <2>1
    <2>5. QED
      BY <2>3, <2>4 DEF LeadsOn, ExpiryFits, ResumeFits, LateFits, ResultFits, TimeUp, Expired
  <1>4. QED
    BY <1>2, <1>3

LEMMA ServeKeepsCalls ==
  ASSUME TypeOK, NEW c \in Tab \X Flow, Serve(c)
  PROVE  /\ \A d \in Tab \X Flow : d # c => call'[d] = call[d]
         /\ call[c].at # "idle"
         /\ UNCHANGED <<published, entitled, edits, faults>> /\ UNCHANGED screen
  <1>1. \E k : Sets(c, k)
    BY DEF Serve, StartAssessmentQuiz, PickActive, LoadQuizSession, CompleteExpired,
           ReturnQuestion, RefuseAnswer, ExpireOnAnswer, RecordAnswer, ReturnResults,
           Replies, Refuses, Moves
  <1>2. \A d \in Tab \X Flow : d # c => call'[d] = call[d]
    BY <1>1 DEF Sets, TypeOK
  <1>3. call[c].at # "idle"
    BY DEF Serve, StartAssessmentQuiz, PickActive, LoadQuizSession, CompleteExpired,
           ReturnQuestion, RefuseAnswer, ExpireOnAnswer, RecordAnswer, ReturnResults, Waits
  <1>4. QED
    BY <1>2, <1>3 DEF Serve

LEMMA ReplyIs ==
  ASSUME TypeOK, NEW c \in Tab \X Flow, NEW code, NEW v, NEW q, Replies(c, code, v, q)
  PROVE  /\ call'[c].op = call[c].op /\ call'[c].sid = call[c].sid
         /\ call'[c].at = "answered" /\ call'[c].item = q /\ call'[c].view = v
         /\ call'[c].code = code
  BY DEF Replies, Sets, TypeOK

LEMMA MoveIs ==
  ASSUME TypeOK, NEW c \in Tab \X Flow, NEW at, NEW v, Moves(c, at, v)
  PROVE  /\ call'[c].op = call[c].op /\ call'[c].sid = call[c].sid
         /\ call'[c].at = at /\ call'[c].item = call[c].item /\ call'[c].view = v
         /\ call'[c].code = "none"
  BY DEF Moves, Sets, TypeOK

(* What a view says of a session that is known. *)
LEMMA ViewSays ==
  ASSUME TypeOK, ~Disturbed, NEW s, Known(s)
  PROVE  /\ ViewOf(s).sid = s /\ ViewOf(s).current = row[s].current
         /\ ViewOf(s).status \in {"active", "completed"}
         /\ ViewOf(s).status = "active" <=> InProgress(s)
         /\ ViewOf(s).status = "completed" <=> row[s].status = "completed"
         /\ TimeUp(s) => ViewOf(s).remaining = 0
  <1>1. s \in Session /\ row[s] \in Row /\ row[s].status \notin {"none", "abandoned"}
    BY DEF Known, Disturbed, TypeOK
  <1>2. row[s].status \in {"in_progress", "completed"}
    BY <1>1 DEF Row
  <1>3. TimeUp(s) => Remaining(s) = 0
    <2>1. (0 + 1) \div 2 = 0
      OBVIOUS
    <2>2. HalfLimit \in Int
      BY Constants
    <2>3. QED
      BY <2>1, <2>2 DEF TimeUp, Remaining
  <1>4. QED
    BY <1>2, <1>3 DEF ViewOf, InProgress

(* A countdown at zero: its session is found over, or ended. *)
LEMMA ExpiryGoesOn ==
  ASSUME TypeOK, CallsFit, RowsStep, NEW c \in Tab \X Flow, Serve(c), ~Disturbed,
         call[c].op # "none", ExpiryFits(call[c])
  PROVE  ExpiryFits(call[c])'
  <1>1. PICK s : s = call[c].sid
    OBVIOUS
  <1>2. call[c].op = "question" /\ TimeUp(s)
    BY <1>1 DEF ExpiryFits
  <1>3. Known(s) /\ CallFits(call[c]) /\ TimeUp(s)'
    BY <1>1, <1>2, TimeUpStays DEF CallsFit, CallFits
  <1>4. LoadQuizSession(c) \/ CompleteExpired(c) \/ ReturnQuestion(c)
    BY <1>2 DEF Serve, StartAssessmentQuiz, PickActive, RefuseAnswer, ExpireOnAnswer,
                RecordAnswer, ReturnResults, Waits
  <1>5. /\ call'[c].op = "question" /\ call'[c].sid = s
        /\ call'[c].at = "loaded" => call'[c].view.status = "completed"
        /\ call'[c].at = "answered" => call'[c].code = "ok" /\ call'[c].view.status = "completed"
    <2>1. CASE LoadQuizSession(c)
      <3>1. /\ Expired(ViewOf(s)) \/ ViewOf(s).status = "completed"
            /\ ViewOf(s).status = "completed" => ~Expired(ViewOf(s))
        BY <1>2, <1>3, ViewSays DEF Expired
      <3>2. \/ Moves(c, "expired", ViewOf(s))
            \/ Moves(c, "loaded", ViewOf(s)) /\ ViewOf(s).status = "completed"
        BY <1>1, <1>2, <2>1, <3>1 DEF LoadQuizSession
      <3>3. QED
        BY <1>1, <1>2, <3>2, MoveIs
    <2>2. CASE CompleteExpired(c)
      <3>1. Moves(c, "reload", NoView)
        BY <2>2 DEF CompleteExpired
      <3>2. QED
        BY <1>1, <1>2, <3>1, MoveIs
    <2>3. CASE ReturnQuestion(c)
      <3>1. PICK v : v = call[c].view
        OBVIOUS
      <3>2. v.status = "completed"
        BY <1>2, <2>3, <3>1 DEF ReturnQuestion, Waits, ExpiryFits
      <3>3. Replies(c, "ok", v, None)
        BY <2>3, <3>1, <3>2 DEF ReturnQuestion
      <3>4. QED
        BY <1>1, <1>2, <3>2, <3>3, ReplyIs
    <2>4. QED
      BY <1>4, <2>1, <2>2, <2>3
  <1>6. QED
    BY <1>3, <1>5 DEF ExpiryFits, TimeUp

LEMMA ResultGoesOn ==
  ASSUME TypeOK, CallsFit, NEW c \in Tab \X Flow, Serve(c), ~Disturbed,
         call[c].op = "results", ResultFits(call[c])
  PROVE  ResultFits(call[c])'
  <1>1. PICK s : s = call[c].sid
    OBVIOUS
  <1>2. Known(s) /\ row[s].status = "completed"
    BY <1>1 DEF CallsFit, CallFits, ResultFits
  <1>3. LoadQuizSession(c) \/ CompleteExpired(c) \/ ReturnResults(c)
    BY DEF Serve, StartAssessmentQuiz, PickActive, RefuseAnswer, ExpireOnAnswer, RecordAnswer,
           ReturnQuestion, Waits
  <1>4. row' = row
    BY <1>1, <1>2, <1>3 DEF LoadQuizSession, CompleteExpired, ReturnResults, db, StillOpen,
                            InProgress
  <1>5. /\ call'[c].sid = s
        /\ call'[c].at = "answered" => call'[c].code = "ok"
    <2>1. CASE LoadQuizSession(c) \/ CompleteExpired(c)
      <3>1. \E v : Replies(c, "ok", v, None) \/ Moves(c, "reload", v) \/ Moves(c, "expired", v)
        BY <2>1 DEF LoadQuizSession, CompleteExpired
      <3>2. QED
        BY <1>1, <3>1, ReplyIs, MoveIs
    <2>2. CASE ReturnResults(c)
      <3>1. IsOver(ViewOf(s))
        BY <1>2, ViewSays DEF IsOver
      <3>2. Replies(c, "ok", ViewOf(s), None)
        BY <1>1, <2>2, <3>1 DEF ReturnResults
      <3>3. QED
        BY <1>1, <3>2, ReplyIs
    <2>3. QED
      BY <1>3, <2>1, <2>2
  <1>6. QED
    BY <1>2, <1>4, <1>5 DEF ResultFits

(* Mounting: only a view with time left is gone on with. *)
LEMMA ResumeGoesOn ==
  ASSUME TypeOK, CallsFit, NEW c \in Tab \X Flow, Serve(c),
         call[c].op = "question", ResumeFits(call[c])
  PROVE  ResumeFits(call[c])'
  <1>1. PICK v : v = ViewOf(call[c].sid)
    OBVIOUS
  <1>2. LoadQuizSession(c) \/ CompleteExpired(c) \/ ReturnQuestion(c)
    BY DEF Serve, StartAssessmentQuiz, PickActive, RefuseAnswer, ExpireOnAnswer,
           RecordAnswer, ReturnResults, Waits
  <1>3. CASE LoadQuizSession(c)
    <2>1. Moves(c, "expired", v) \/ (Moves(c, "loaded", v) /\ ~Expired(v))
      BY <1>1, <1>3 DEF LoadQuizSession
    <2>2. QED
      BY <2>1, MoveIs DEF ResumeFits, Expired
  <1>4. CASE CompleteExpired(c)
    <2>1. Moves(c, "reload", NoView)
      BY <1>4 DEF CompleteExpired
    <2>2. QED
      BY <2>1, MoveIs DEF ResumeFits
  <1>5. CASE ReturnQuestion(c)
    <2>1. PICK w : w = call[c].view
      OBVIOUS
    <2>2. call[c].at = "loaded" /\ CallFits(call[c]) /\ w \in View
      BY <1>5, <2>1 DEF ReturnQuestion, Waits, CallsFit, TypeOK, Call
    <2>3. ~Expired(w) /\ w.remaining \in Nat
      BY <2>1, <2>2, Constants DEF ResumeFits, View
    <2>4. \/ \E code, u : Replies(c, code, u, None)
          \/ \E q : Replies(c, "ok", w, q) /\ w.status = "active"
      BY <1>5, <2>1 DEF ReturnQuestion, Refuses
    <2>5. QED
      BY <2>3, <2>4, ReplyIs DEF ResumeFits, Expired
  <1>6. QED
    BY <1>2, <1>3, <1>4, <1>5

(* A late answer is refused in the transaction that ends its session. *)
LEMMA LateGoesOn ==
  ASSUME TypeOK, CallsFit, NEW c \in Tab \X Flow, Serve(c), ~Disturbed,
         call[c].op = "answer"
  PROVE  LateFits(call[c])'
  <1>1. PICK s : s = call[c].sid
    OBVIOUS
  <1>2. LoadQuizSession(c) \/ CompleteExpired(c) \/ RefuseAnswer(c) \/ ExpireOnAnswer(c)
          \/ RecordAnswer(c)
    BY DEF Serve, StartAssessmentQuiz, PickActive, ReturnQuestion, ReturnResults, Waits
  <1>3. CASE LoadQuizSession(c) \/ CompleteExpired(c) \/ RecordAnswer(c)
    <2>1. \E v : \/ Replies(c, "ok", v, None) \/ Moves(c, "reload", v)
                 \/ Moves(c, "expired", v) \/ Moves(c, "loaded", v)
      BY <1>3 DEF LoadQuizSession, CompleteExpired, RecordAnswer
    <2>2. QED
      BY <2>1, ReplyIs, MoveIs DEF LateFits
  <1>4. CASE RefuseAnswer(c)
    <2>1. Refuses(c, "failed")
      BY <1>4 DEF RefuseAnswer, Allowed, Disturbed
    <2>2. QED
      BY <2>1, ReplyIs DEF LateFits, Refuses
  <1>5. CASE ExpireOnAnswer(c)
    <2>1. Refuses(c, "expired") /\ Completes(s)
      BY <1>1, <1>5 DEF ExpireOnAnswer
    <2>2. s \in Session
      BY <1>1 DEF CallsFit, CallFits, Known
    <2>3. row'[s].status = "completed"
      BY <2>1, <2>2 DEF Completes, TypeOK
    <2>4. call'[c].sid = s /\ call'[c].code = "expired"
      BY <1>1, <2>1, ReplyIs DEF Refuses
    <2>5. QED
      BY <2>3, <2>4 DEF LateFits
  <1>6. QED
    BY <1>2, <1>3, <1>4, <1>5

LEMMA ServeGoesOn ==
  ASSUME TypeOK, IInv, KInv, NEW t \in Tab, NEW f \in Flow, Serve(<<t, f>>)
  PROVE  KInv'
  <1> DEFINE c == <<t, f>>
  <1>1. c \in Tab \X Flow /\ CallsFit /\ RowsFit
    BY DEF IInv
  <1>2. ServerStep /\ RowsStep
    BY <1>1, Served DEF ServerStep
  <1>3. /\ \A d \in Tab \X Flow : d # c => call'[d] = call[d]
        /\ UNCHANGED <<shown, results, left>>
    BY <1>1, ServeKeepsCalls DEF screen
  <1>4. SUFFICES ASSUME ~Disturbed' PROVE \A u \in Tab : AllLeadOn(u)' /\ Going(u)'
    BY DEF KInv
  <1>5. ~Disturbed
    BY <1>4, DisturbedStays DEF Next
  <1>6. \A u \in Tab : AllLeadOn(u) /\ Going(u)
    BY <1>5 DEF KInv
  <1>7. \A u \in Tab : \A g \in Flow : call'[<<u, g>>].op = call[<<u, g>>].op
    BY <1>2 DEF ServerStep, Keeps
  <1>8. LeadsOn(f, call[c])'
    <2>1. LeadsOn(f, call[c]) /\ call'[c].op = call[c].op
      BY <1>6, <1>7 DEF AllLeadOn
    <2>2. f = "expire" => ExpiryFits(call[c])'
      BY <1>1, <1>2, <1>5, <2>1, ExpiryGoesOn DEF LeadsOn, ExpiryFits
    <2>3. f = "mount" => ResumeFits(call[c])'
      BY <1>1, <2>1, ResumeGoesOn DEF LeadsOn, ResumeFits
    <2>4. f = "answer" => LateFits(call[c])'
      BY <1>1, <1>5, <2>1, LateGoesOn DEF LateFits
    <2>5. f = "answer" => ResultFits(call[c])'
      BY <1>1, <1>5, <2>1, ResultGoesOn DEF LeadsOn, ResultFits
    <2>6. QED
      BY <2>2, <2>3, <2>4, <2>5 DEF LeadsOn
  <1>9. ASSUME NEW u \in Tab PROVE AllLeadOn(u)'
    <2>1. CASE u = t
      BY <1>2, <1>3, <1>6, <1>8, <2>1, AllStay
    <2>2. CASE u # t
      <3>1. \A g \in Flow : call'[<<u, g>>] = call[<<u, g>>]
        BY <1>3, <2>2
      <3>2. LeadsOn("gone", call[<<u, "gone">>])'
        BY DEF LeadsOn
      <3>3. QED
        BY <1>2, <1>6, <3>1, <3>2, FlowsAreFive, AllStay
    <2>3. QED
      BY <2>1, <2>2
  <1>10. ASSUME NEW u \in Tab PROVE Going(u)'
    BY <1>3, <1>6, <1>7, FlowsAreFive DEF Going, Goes
  <1>11. QED
    BY <1>9, <1>10

-----------------------------------------------------------------------------
(* The steps of a tab.  Onward is what a step of the tab owes KInv. *)

Unserved == UNCHANGED db /\ UNCHANGED <<published, entitled, edits, faults>>
Onward(t) == AllLeadOn(t)' /\ Going(t)'

LEMMA FlowSets ==
  ASSUME TypeOK, NEW t \in Tab, NEW f \in Flow, NEW k, OnlyCall(t, f, k)
  PROVE  /\ call'[<<t, f>>] = k
         /\ \A g \in Flow : g # f => call'[<<t, g>>] = call[<<t, g>>]
  BY DEF TypeOK, OnlyCall, Sets

LEMMA IdleIs == Idle.op = "none" /\ Idle.at = "idle"
  BY DEF Idle, Request

LEMMA RequestIs ==
  ASSUME NEW op, NEW at, NEW s, NEW q, NEW right
  PROVE  /\ Request(op, at, s, q, right).op = op /\ Request(op, at, s, q, right).at = at
         /\ Request(op, at, s, q, right).sid = s /\ Request(op, at, s, q, right).item = q
  BY DEF Request

(* One flow of a tab goes on to another request. *)
LEMMA OnlyLeadsOn ==
  ASSUME TypeOK, IInv, RowsStep, NEW t \in Tab, AllLeadOn(t), NEW f \in Flow, NEW k,
         OnlyCall(t, f, k), LeadsOn(f, k)'
  PROVE  /\ AllLeadOn(t)' /\ call'[<<t, f>>] = k
         /\ \A g \in Flow : g # f => call'[<<t, g>>] = call[<<t, g>>]
  <1>1. call'[<<t, f>>] = k /\ \A g \in Flow : g # f => call'[<<t, g>>] = call[<<t, g>>]
    BY FlowSets
  <1>2. LeadsOn(f, call[<<t, f>>])'
    BY <1>1 DEF LeadsOn, ExpiryFits, ResumeFits, LateFits, ResultFits, TimeUp, Expired
  <1>3. QED
    BY <1>1, <1>2, AllStay

LEMMA DoneOnward ==
  ASSUME TypeOK, IInv, RowsStep, NEW t \in Tab, AllLeadOn(t), NEW f \in Flow, Done(t, f)
  PROVE  /\ AllLeadOn(t)' /\ call'[<<t, f>>] = Idle
         /\ \A g \in Flow : g # f => call'[<<t, g>>] = call[<<t, g>>]
  <1>1. PICK k : k = Idle
    OBVIOUS
  <1>2. k.op = "none"
    BY <1>1, IdleIs
  <1>3. LeadsOn(f, k)'
    BY <1>2 DEF LeadsOn, ExpiryFits, ResumeFits, LateFits, ResultFits
  <1>4. QED
    BY <1>1, <1>3, OnlyLeadsOn DEF Done

LEMMA AskedOnward ==
  ASSUME TypeOK, IInv, RowsStep, NEW t \in Tab, AllLeadOn(t), NEW f \in Flow, f # "expire",
         NEW op, op # "results", NEW s, NEW q, NEW right,
         OnlyCall(t, f, Request(op, "sent", s, q, right))
  PROVE  /\ AllLeadOn(t)' /\ call'[<<t, f>>] = Request(op, "sent", s, q, right)
         /\ \A g \in Flow : g # f => call'[<<t, g>>] = call[<<t, g>>]
  <1>1. PICK k : k = Request(op, "sent", s, q, right)
    OBVIOUS
  <1>2. k.op = op /\ k.at = "sent"
    BY <1>1, RequestIs
  <1>3. LeadsOn(f, k)'
    BY <1>2 DEF LeadsOn, ExpiryFits, ResumeFits, LateFits, ResultFits
  <1>4. QED
    BY <1>1, <1>3, OnlyLeadsOn

(* A step that leaves the screen and the answers of the tab alone. *)
LEMMA SameGoing ==
  ASSUME NEW t \in Tab, Going(t), UNCHANGED screen,
         call'[<<t, "answer">>] = call[<<t, "answer">>],
         call'[<<t, "expire">>] = call[<<t, "expire">>]
  PROVE  Going(t)'
  BY DEF Going, Goes, screen

LEMMA MountsOnward ==
  ASSUME TypeOK, NEW t \in Tab, NEW p, NEW kept, Mounts(t, p, kept)
  PROVE  Onward(t)
  <1>1. /\ call'[<<t, "mount">>] = Request("active", "sent", None, None, FALSE)
        /\ call'[<<t, "answer">>] = Idle /\ call'[<<t, "expire">>] = Idle
        /\ shown'[t] = Nothing
    BY FlowsAreFive DEF Mounts, TypeOK
  <1>2. Going(t)'
    BY <1>1, IdleIs DEF Going, Nothing
  <1>3. ASSUME NEW f \in Flow PROVE LeadsOn(f, call[<<t, f>>])'
    <2>1. CASE f = "mount"
      <3>1. call'[<<t, f>>].op = "active"
        BY <1>1, <2>1 DEF Request
      <3>2. QED
        BY <2>1, <3>1 DEF LeadsOn, ResumeFits
    <2>2. CASE f \in {"answer", "expire"}
      <3>1. call'[<<t, f>>].op = "none"
        BY <1>1, <2>2, IdleIs
      <3>2. QED
        BY <2>2, <3>1 DEF LeadsOn, ExpiryFits, LateFits, ResultFits
    <2>3. CASE f \notin {"mount", "answer", "expire"}
      BY <2>3 DEF LeadsOn
    <2>4. QED
      BY <2>1, <2>2, <2>3
  <1>4. AllLeadOn(t)'
    BY <1>3 DEF AllLeadOn, Flow
  <1>5. QED
    BY <1>2, <1>4 DEF Onward

LEMMA NavigatesOnward ==
  ASSUME TypeOK, NEW t \in Tab, NEW p, NEW waiting, Navigates(t, p, waiting)
  PROVE  Onward(t)
  BY MountsOnward, Zenon DEF Navigates

(* The hub has no question, and no answer under way. *)
LEMMA StartOnward ==
  ASSUME TypeOK, IInv, RowsStep, NEW t \in Tab, AllLeadOn(t), Going(t),
         Start(t) \/ ApplyStart(t)
  PROVE  Onward(t)
  <1>1. CASE Start(t)
    <2>1. OnlyCall(t, "start", Request("start", "sent", None, None, FALSE))
      BY <1>1 DEF Start
    <2>2. /\ AllLeadOn(t)' /\ call'[<<t, "answer">>] = call[<<t, "answer">>]
      BY <2>1, AskedOnward, FlowsAreFive
    <2>3. /\ shown' = shown /\ results' = results /\ shown[t].item = None
          /\ results[t].sid = None
      BY <1>1 DEF Start, ShowsHub, NoResults
    <2>4. Going(t)'
      BY <2>2, <2>3 DEF Going
    <2>5. QED
      BY <2>2, <2>4 DEF Onward
  <1>2. CASE \E p, waiting : Navigates(t, p, waiting)
    BY <1>2, NavigatesOnward
  <1>3. CASE Done(t, "start") /\ UNCHANGED screen
    BY <1>3, DoneOnward, FlowsAreFive, SameGoing DEF Onward
  <1>4. QED
    BY <1>1, <1>2, <1>3 DEF ApplyStart

(* An option is selected: the countdown of the question runs on. *)
LEMMA PickOnward ==
  ASSUME TypeOK, IInv, RowsStep, NEW t \in Tab, AllLeadOn(t), Going(t),
         NEW right \in BOOLEAN, Pick(t, right)
  PROVE  Onward(t)
  <1>1. PICK s, q : s = shown[t].sid /\ q = shown[t].item
    OBVIOUS
  <1>2. OnlyCall(t, "answer", Request("answer", "sent", s, q, right))
    BY <1>1 DEF Pick
  <1>3. /\ AllLeadOn(t)' /\ call'[<<t, "answer">>] = Request("answer", "sent", s, q, right)
        /\ call'[<<t, "expire">>] = call[<<t, "expire">>]
    BY <1>2, AskedOnward, FlowsAreFive
  <1>4. Goes(t) /\ shown[t].item # None
    BY IdleIs DEF Pick, Going
  <1>5. UNCHANGED <<shown, results, left>>
    BY DEF Pick
  <1>6. Going(t)'
    BY <1>3, <1>4, <1>5 DEF Going, Goes
  <1>7. QED
    BY <1>3, <1>6 DEF Onward

LEMMA ApplyActiveOnward ==
  ASSUME TypeOK, IInv, RowsStep, NEW t \in Tab, AllLeadOn(t), Going(t), ApplyActive(t)
  PROVE  Onward(t)
  <1>1. CASE \E p, waiting : Navigates(t, p, waiting)
    BY <1>1, NavigatesOnward
  <1>2. CASE UNCHANGED screen
             /\ \E s : OnlyCall(t, "mount", Request("question", "sent", s, None, FALSE))
    BY <1>2, AskedOnward, FlowsAreFive, SameGoing DEF Onward
  <1>3. CASE Done(t, "mount") /\ UNCHANGED screen
    BY <1>3, DoneOnward, FlowsAreFive, SameGoing DEF Onward
  <1>4. QED
    BY <1>1, <1>2, <1>3 DEF ApplyActive

(* A page that was left brings nothing to the screen. *)
LEMMA ApplyGoneOnward ==
  ASSUME TypeOK, IInv, RowsStep, NEW t \in Tab, AllLeadOn(t), Going(t), ApplyGone(t)
  PROVE  Onward(t)
  <1>1. CASE \E p, waiting : Navigates(t, p, waiting)
    BY <1>1, NavigatesOnward
  <1>2. CASE UNCHANGED screen
             /\ \E s : OnlyCall(t, "gone", Request("question", "sent", s, None, FALSE))
    BY <1>2, AskedOnward, FlowsAreFive, SameGoing DEF Onward
  <1>3. CASE Done(t, "gone") /\ UNCHANGED screen
    BY <1>3, DoneOnward, FlowsAreFive, SameGoing DEF Onward
  <1>4. QED
    BY <1>1, <1>2, <1>3 DEF ApplyGone

(* A question that mounting brings starts its countdown. *)
LEMMA ApplyResumeOnward ==
  ASSUME TypeOK, IInv, RowsStep, NEW t \in Tab, AllLeadOn(t), Going(t), ApplyResume(t)
  PROVE  Onward(t)
  <1>1. PICK m : m = call[<<t, "mount">>]
    OBVIOUS
  <1>2. /\ m.op = "question" /\ m.at = "answered" /\ m.view.remaining \in Nat
        /\ TabFits(t)
    BY <1>1, HeardOf, FlowsAreFive, Constants DEF ApplyResume, Heard, Waits, View
  <1>3. shown[t].item = None /\ call[<<t, "answer">>].op = "none"
    BY <1>1, <1>2 DEF TabFits
  <1>4. AllLeadOn(t)' /\ call'[<<t, "answer">>] = call[<<t, "answer">>]
    BY DoneOnward, FlowsAreFive DEF ApplyResume
  <1>5. shown'[t].item # None => left'[t] # Off
    <2>1. CASE shown' = shown
      BY <1>3, <2>1
    <2>2. CASE /\ ShowsQuestion(t, m.view.sid, m.item)
               /\ left' = [left EXCEPT ![t] =
                    IF m.view.remaining > 0 THEN 2 * m.view.remaining ELSE left[t]]
      <3>1. shown'[t].item = m.item
        BY <2>2 DEF ShowsQuestion, TypeOK
      <3>2. m.item # None => m.view.remaining > 0
        BY <1>1, <1>2, FlowsAreFive DEF AllLeadOn, LeadsOn, ResumeFits
      <3>3. m.item # None => left'[t] = 2 * m.view.remaining
        BY <2>2, <3>2 DEF TypeOK
      <3>4. QED
        BY <1>2, <3>1, <3>2, <3>3 DEF Off
    <2>3. QED
      BY <1>1, <2>1, <2>2 DEF ApplyResume, KeepsScreen, ReplyOf
  <1>6. Going(t)'
    BY <1>3, <1>4, <1>5 DEF Going, Goes
  <1>7. QED
    BY <1>4, <1>6 DEF Onward

(* A response that was heard as good is of a session. *)
LEMMA GoodIsOfASession ==
  ASSUME TypeOK, IInv, NEW t \in Tab, NEW f \in Flow, call[<<t, f>>].at = "answered",
         call[<<t, f>>].code = "ok", call[<<t, f>>].op \in {"question", "answer", "results"}
  PROVE  ReplyOf(t, f).sid # None
  BY HeardOf DEF CallFits, ReplyOf

LEMMA ShownAsResults ==
  ASSUME TypeOK, NEW t \in Tab, NEW v, v.sid # None, ShowsResults(t, v)
  PROVE  shown'[t].item = None /\ results'[t].sid # None
  BY DEF ShowsResults, Nothing, TypeOK

LEMMA ApplyAnswerOnward ==
  ASSUME TypeOK, IInv, RowsStep, Unserved, ~Disturbed, NEW t \in Tab, AllLeadOn(t), Going(t),
         ApplyAnswer(t)
  PROVE  Onward(t)
  <1>1. PICK a, v : a = call[<<t, "answer">>] /\ v = ReplyOf(t, "answer")
    OBVIOUS
  <1>2. a.op = "answer" /\ a.at = "answered" /\ Goes(t)
    BY <1>1 DEF ApplyAnswer, Heard, Waits, Going
  <1>3. shown[t].item # None \/ results[t].sid # None
    BY <1>1, <1>2 DEF Going
  <1>4. CASE a.code = "ok" /\ v.status = "completed"
    <2>1. ShowsResults(t, v) /\ Done(t, "answer") /\ v.sid # None
      BY <1>1, <1>2, <1>4, GoodIsOfASession, FlowsAreFive
         DEF ApplyAnswer, CodeOf, IsQuizAnswerExpired
    <2>2. shown'[t].item = None /\ results'[t].sid # None
      BY <2>1, ShownAsResults
    <2>3. AllLeadOn(t)' /\ call'[<<t, "answer">>] = Idle
      BY <2>1, DoneOnward, FlowsAreFive
    <2>4. QED
      BY <2>2, <2>3, IdleIs DEF Onward, Going
  <1>5. CASE a.code = "ok" /\ v.status # "completed"
    <2>1. /\ OnlyCall(t, "answer", Request("question", "sent", v.sid, None, FALSE))
          /\ shown' = shown /\ results' = results /\ left' = left
      BY <1>1, <1>5 DEF ApplyAnswer, CodeOf, IsQuizAnswerExpired, KeepsScreen
    <2>2. AllLeadOn(t)' /\ call'[<<t, "expire">>] = call[<<t, "expire">>]
      BY Zenon, <2>1, AskedOnward, FlowsAreFive
    <2>3. QED
      BY <1>2, <1>3, <2>1, <2>2 DEF Onward, Going, Goes
  <1>6. CASE IsQuizAnswerExpired(a.code)
    <2>1. PICK s, k : s = a.sid /\ k = Request("results", "sent", s, None, FALSE)
      OBVIOUS
    <2>2. k.op = "results" /\ k.at = "sent" /\ k.sid = s
      BY <2>1 DEF Request
    <2>3. OnlyCall(t, "answer", k)
      BY <1>1, <1>6, <2>1 DEF ApplyAnswer, CodeOf, IsQuizAnswerExpired
    <2>4. row[s].status = "completed"
      <3>1. LateFits(a)
        BY <1>1, FlowsAreFive DEF AllLeadOn, LeadsOn
      <3>2. QED
        BY <1>2, <1>6, <2>1, <3>1 DEF LateFits, IsQuizAnswerExpired
    <2>5. row'[s].status = "completed"
      BY <2>4 DEF Unserved, db
    <2>6. LeadsOn("answer", k)'
      BY <2>2, <2>5 DEF LeadsOn, LateFits, ResultFits
    <2>7. AllLeadOn(t)' /\ call'[<<t, "answer">>] = k
      BY <2>3, <2>6, OnlyLeadsOn, FlowsAreFive
    <2>8. QED
      BY <2>2, <2>7 DEF Onward, Going
  <1>7. CASE a.code # "ok" /\ ~IsQuizAnswerExpired(a.code)
    <2>1. Done(t, "answer") /\ shown' = shown /\ results' = results /\ left' = left
      BY <1>1, <1>7 DEF ApplyAnswer, CodeOf, KeepsScreen
    <2>2. AllLeadOn(t)' /\ call'[<<t, "answer">>] = Idle
          /\ call'[<<t, "expire">>] = call[<<t, "expire">>]
      BY <2>1, DoneOnward, FlowsAreFive
    <2>3. QED
      BY <1>2, <2>1, <2>2, IdleIs DEF Onward, Going, Goes
  <1>8. QED
    BY <1>4, <1>5, <1>6, <1>7

(* The next question comes while the countdown of the one before it runs, or its end
   was noticed. *)
LEMMA ApplyNextOnward ==
  ASSUME TypeOK, IInv, RowsStep, NEW t \in Tab, AllLeadOn(t), Going(t), ApplyNext(t)
  PROVE  Onward(t)
  <1>1. Goes(t)
    BY DEF ApplyNext, Heard, Waits, Going
  <1>2. /\ AllLeadOn(t)' /\ call'[<<t, "answer">>] = Idle
        /\ call'[<<t, "expire">>] = call[<<t, "expire">>]
    BY DoneOnward, FlowsAreFive DEF ApplyNext
  <1>3. results' = results /\ left' = left
    BY DEF ApplyNext, KeepsScreen, ShowsQuestion
  <1>4. QED
    BY <1>1, <1>2, <1>3, IdleIs DEF Onward, Going, Goes

LEMMA CountdownOnward ==
  ASSUME TypeOK, IInv, RowsStep, NEW t \in Tab, AllLeadOn(t), Going(t), CountdownEnds(t)
  PROVE  Onward(t)
  <1>1. PICK s, k : s = shown[t].sid /\ k = Request("question", "sent", s, None, FALSE)
    OBVIOUS
  <1>2. k.op = "question" /\ k.at = "sent" /\ k.sid = s
    BY <1>1 DEF Request
  <1>3. Known(s) /\ TimeUp(s)
    <2>1. TabFits(t) /\ shown[t].sid # None
      BY HeardOf, FlowsAreFive DEF CountdownEnds, OnScreen
    <2>2. QED
      BY <1>1, <2>1, ZeroFits DEF CountdownEnds, ZeroMeansOver, TabFits
  <1>4. LeadsOn("expire", k)'
    <2>1. TimeUp(s)'
      BY <1>3, TimeUpStays
    <2>2. QED
      BY <1>2, <2>1 DEF LeadsOn, ExpiryFits
  <1>5. OnlyCall(t, "expire", k)
    BY <1>1 DEF CountdownEnds
  <1>6. /\ AllLeadOn(t)' /\ call'[<<t, "expire">>] = k
        /\ call'[<<t, "answer">>] = call[<<t, "answer">>]
    BY <1>4, <1>5, OnlyLeadsOn, FlowsAreFive
  <1>7. shown' = shown /\ results' = results
    BY DEF CountdownEnds
  <1>8. QED
    BY <1>2, <1>6, <1>7 DEF Onward, Going, Goes

LEMMA ApplyExpiryOnward ==
  ASSUME TypeOK, IInv, RowsStep, NEW t \in Tab, AllLeadOn(t), Going(t), ApplyExpiry(t)
  PROVE  Onward(t)
  <1>1. PICK x, v : x = call[<<t, "expire">>] /\ v = ReplyOf(t, "expire")
    OBVIOUS
  <1>2. x.op = "question" /\ x.at = "answered"
    BY <1>1 DEF ApplyExpiry, Heard, Waits
  <1>3. x.code = "ok" /\ ShowsAsOver(v)
    <2>1. ExpiryFits(x)
      BY <1>1, FlowsAreFive DEF AllLeadOn, LeadsOn
    <2>2. QED
      BY <1>1, <1>2, <2>1 DEF ExpiryFits, ShowsAsOver, ReplyOf
  <1>4. ShowsResults(t, v) /\ Done(t, "expire") /\ v.sid # None
    BY <1>1, <1>2, <1>3, GoodIsOfASession, FlowsAreFive DEF ApplyExpiry, CodeOf
  <1>5. shown'[t].item = None /\ results'[t].sid # None
    BY <1>4, ShownAsResults
  <1>6. AllLeadOn(t)' /\ call'[<<t, "answer">>] = call[<<t, "answer">>]
    BY <1>4, DoneOnward, FlowsAreFive
  <1>7. QED
    BY <1>5, <1>6 DEF Onward, Going, Goes

LEMMA ApplyResultsOnward ==
  ASSUME TypeOK, IInv, RowsStep, NEW t \in Tab, AllLeadOn(t), Going(t),
         NEW f \in {"answer", "expire"}, ApplyResults(t, f)
  PROVE  Onward(t)
  <1>1. PICK k, v : k = call[<<t, f>>] /\ v = ReplyOf(t, f)
    OBVIOUS
  <1>2. k.op = "results" /\ k.at = "answered" /\ f \in Flow /\ LeadsOn(f, k)
    BY <1>1, FlowsAreFive DEF ApplyResults, Heard, Waits, AllLeadOn
  <1>3. f = "answer" /\ k.code = "ok"
    BY <1>2 DEF LeadsOn, ExpiryFits, ResultFits
  <1>4. ShowsResults(t, v) /\ Done(t, f) /\ v.sid # None
    BY <1>1, <1>2, <1>3, GoodIsOfASession DEF ApplyResults, CodeOf
  <1>5. shown'[t].item = None /\ results'[t].sid # None
    BY <1>4, ShownAsResults
  <1>6. AllLeadOn(t)' /\ call'[<<t, "answer">>] = Idle
    BY <1>2, <1>3, <1>4, DoneOnward
  <1>7. QED
    BY <1>5, <1>6, IdleIs DEF Onward, Going, Goes

LEMMA ClientGoesOn ==
  ASSUME TypeOK, IInv, KInv, NEW t \in Tab, Client(t)
  PROVE  KInv'
  <1>1. Unserved
    BY DEF Client, Unserved
  <1>2. RowsStep
    BY <1>1, RowsStay DEF Unserved, IInv
  <1>3. ClientStep(t)
    BY ClientApart
  <1>4. SUFFICES ASSUME ~Disturbed' PROVE \A u \in Tab : AllLeadOn(u)' /\ Going(u)'
    BY DEF KInv
  <1>5. ~Disturbed
    BY <1>1, <1>4 DEF Disturbed, Unserved, db
  <1>6. \A u \in Tab : AllLeadOn(u) /\ Going(u)
    BY <1>5 DEF KInv
  <1>7. Onward(t)
    <2>1. CASE \E p, kept : Mounts(t, p, kept)
      BY <2>1, MountsOnward
    <2>2. CASE \E p, waiting : Navigates(t, p, waiting)
      BY <2>2, NavigatesOnward
    <2>3. CASE Acts(t)
      BY <1>2, <1>6, <2>1, <2>2, <2>3, StartOnward, PickOnward
         DEF Acts, Load, Follow, ResetToHub
    <2>4. CASE Reacts(t)
      BY <1>1, <1>2, <1>5, <1>6, <2>4, ApplyActiveOnward, ApplyResumeOnward, StartOnward,
         ApplyAnswerOnward, ApplyNextOnward, CountdownOnward, ApplyExpiryOnward,
         ApplyResultsOnward, ApplyGoneOnward DEF Reacts
    <2>5. QED
      BY <2>3, <2>4 DEF Client
  <1>8. ASSUME NEW u \in Tab, u # t PROVE AllLeadOn(u)' /\ Going(u)'
    <2>1. /\ shown'[u] = shown[u] /\ results'[u] = results[u] /\ left'[u] = left[u]
          /\ \A g \in Flow : call'[<<u, g>>] = call[<<u, g>>]
      BY <1>3, <1>8 DEF ClientStep, Apart
    <2>2. LeadsOn("gone", call[<<u, "gone">>])'
      BY DEF LeadsOn
    <2>3. AllLeadOn(u)'
      BY <1>2, <1>6, <2>1, <2>2, FlowsAreFive, AllStay
    <2>4. Going(u)'
      BY <1>6, <2>1, FlowsAreFive DEF Going, Goes
    <2>5. QED
      BY <2>3, <2>4
  <1>9. ASSUME NEW u \in Tab PROVE AllLeadOn(u)' /\ Going(u)'
    <2>1. CASE u = t
      BY <1>7, <2>1 DEF Onward
    <2>2. QED
      BY <1>8, <2>1
  <1>10. QED
    BY <1>9

-----------------------------------------------------------------------------
LEMMA InitGoesOn == Init => KInv
  <1> SUFFICES ASSUME Init, NEW t \in Tab PROVE AllLeadOn(t) /\ Going(t)
    BY DEF KInv
  <1>1. \A f \in Flow : call[<<t, f>>] = Idle
    BY DEF Init
  <1>2. shown[t].item = None
    BY DEF Init, Nothing
  <1>3. QED
    BY <1>1, <1>2, IdleIs, FlowsAreFive
       DEF AllLeadOn, LeadsOn, ExpiryFits, ResumeFits, LateFits, ResultFits, Going

(* Whoever else acts, a faultless step leaves the requests and the screens alone, and
   no countdown is switched off. *)
LEMMA QuietGoesOn ==
  ASSUME TypeOK, IInv, KInv, [Next]_vars, UNCHANGED <<call, shown, results>>,
         \A t \in Tab : left[t] # Off => left'[t] # Off
  PROVE  KInv'
  <1>1. RowsStep
    BY RowsGrow
  <1>2. SUFFICES ASSUME ~Disturbed' PROVE \A u \in Tab : AllLeadOn(u)' /\ Going(u)'
    BY DEF KInv
  <1>3. \A u \in Tab : AllLeadOn(u) /\ Going(u)
    BY <1>2, DisturbedStays DEF KInv
  <1>4. ASSUME NEW u \in Tab PROVE AllLeadOn(u)'
    <2>1. LeadsOn("gone", call[<<u, "gone">>])'
      BY DEF LeadsOn
    <2>2. QED
      BY <1>1, <1>3, <2>1, FlowsAreFive, AllStay
  <1>5. ASSUME NEW u \in Tab PROVE Going(u)'
    BY <1>3 DEF Going, Goes
  <1>6. QED
    BY <1>4, <1>5

LEMMA NextGoesOn ==
  ASSUME TypeOK, IInv, KInv, [Next]_vars
  PROVE  KInv'
  <1>1. ASSUME NEW t \in Tab, NEW f \in Flow, Serve(<<t, f>>) PROVE KInv'
    BY <1>1, ServeGoesOn
  <1>2. ASSUME NEW c \in Tab \X Flow, Fault(c) PROVE KInv'
    <2>1. Disturbed'
      BY <1>2 DEF Fault, Disturbed, TypeOK
    <2>2. QED
      BY <2>1 DEF KInv
  <1>3. ASSUME NEW t \in Tab, Client(t) PROVE KInv'
    BY <1>3, ClientGoesOn
  <1>4. CASE Tick
    <2>1. \A t \in Tab : left[t] # Off => left'[t] # Off
      <3>1. \A t \in Tab : left'[t] = CountDown(left[t]) /\ left[t] \in 0..HalfLimit \cup {Off}
        BY <1>4 DEF Tick, TypeOK
      <3>2. QED
        BY <3>1, Constants DEF CountDown, Off
    <2>2. UNCHANGED <<call, shown, results>>
      BY <1>4 DEF Tick
    <2>3. QED
      BY <2>1, <2>2, QuietGoesOn
  <1>5. CASE \/ (\E s \in Session : AbortSession(s) \/ ExtendTime(s)) \/ LoseEntitlement
             \/ (\E q \in Question : EditBank(q)) \/ UNCHANGED vars
    <2>1. UNCHANGED <<call, shown, results, left>>
      BY <1>5 DEF AbortSession, ExtendTime, LoseEntitlement, EditBank, vars, screen
    <2>2. QED
      BY <2>1, QuietGoesOn
  <1>6. QED
    BY <1>1, <1>2, <1>3, <1>4, <1>5 DEF Next

(* A learner with a question on the screen is not left there, for every number of
   tabs, sessions, questions and seconds: no order of the answers, of the end of the
   time and of the requests that notice it, no other tab, no request of a page that was
   left and no edit of the questions ends both the countdown and what leads on. *)
THEOREM LearnersGoOn == Spec => []LearnerCanGoOn
  <1>1. Init => TypeOK /\ IInv /\ KInv
    BY InitFits, InitGoesOn
  <1>2. TypeOK /\ IInv /\ KInv /\ [Next]_vars => (TypeOK /\ IInv /\ KInv)'
    BY NextKeeps, NextGoesOn
  <1>3. KInv => LearnerCanGoOn
    <2>1. SUFFICES ASSUME KInv, ~Disturbed, NEW t \in Tab, shown[t].item # None
                   PROVE  \/ left[t] # Off
                          \/ call[<<t, "answer">>] # Idle \/ call[<<t, "expire">>] # Idle
                          \/ results[t] # NoResults
      BY DEF LearnerCanGoOn
    <2>2. Going(t)
      BY <2>1 DEF KInv
    <2>3. QED
      BY <2>1, <2>2, IdleIs DEF Going, Goes, NoResults
  <1>4. QED
    BY <1>1, <1>2, <1>3, PTL DEF Spec
=============================================================================
