-------------------------- MODULE BattleClientProofs --------------------------
(***************************************************************************)
(* What BattleClient promises for any number of attempts, reconnects and   *)
(* new clients: what a learner asked for is sent once and in order, what   *)
(* was given up is not sent, and an acceptance that is shown as connecting *)
(* still has the timer that ends it.                                       *)
(*                                                                         *)
(* The argument is about one line: what was sent, followed by what waits.  *)
(* It is always a part of what was made, in the order it was made, since   *)
(* a click appends to both, a flush moves the border between sent and      *)
(* waiting only, and everything else takes entries away.                   *)
(***************************************************************************)
EXTENDS BattleClient, SequenceTheorems, TLAPS

USE DEF socketVars, flowVars, history

(* Sequence s is a part of m, in the order of m. *)
Follows(s, m) ==
  /\ \A i \in 1..Len(s) : \E p \in 1..Len(m) : m[p] = s[i]
  /\ \A i, j \in 1..Len(s) : \A p, q \in 1..Len(m) :
       i < j /\ m[p] = s[i] /\ m[q] = s[j] => p < q

Once(m) == \A p, q \in 1..Len(m) : m[p] = m[q] => p = q

(* A socket that will be opened again has attempts left. *)
SocketFits == ws = "waiting" => attempts < MaxAttempts

(* What waits is waiting for the lobby. *)
LineFits ==
  /\ Once(made)
  /\ Follows(wire \o queue, made)
  /\ joined => queue = <<>>

(* Only what was made can have been given up, be timed or be shown; an acceptance
   is timed while it is shown; and what was given up waits only if its timer
   leaves the queue alone. *)
FlowFits ==
  /\ givenUp \subseteq ToSet(made) /\ expiry \subseteq ToSet(made)
  /\ status \in Accept => status \in expiry
  /\ \A i \in 1..Len(queue) : queue[i] \in givenUp => queue[i] \in Link

IInv == SocketFits /\ LineFits /\ FlowFits

-----------------------------------------------------------------------------
(* Sequences *)

LEMMA InToSet ==
  ASSUME NEW S, NEW s \in Seq(S), NEW a
  PROVE  a \in ToSet(s) <=> \E i \in 1..Len(s) : s[i] = a
  BY DEF ToSet

LEMMA ToSetOfAppend ==
  ASSUME NEW S, NEW s \in Seq(S), NEW a \in S
  PROVE  ToSet(Append(s, a)) = ToSet(s) \cup {a}
  <1>1. /\ Append(s, a) \in Seq(S) /\ Len(Append(s, a)) = Len(s) + 1
        /\ \A i \in 1..Len(s) : Append(s, a)[i] = s[i]
        /\ Append(s, a)[Len(s) + 1] = a
    BY AppendProperties
  <1>2. DOMAIN Append(s, a) = 1..Len(s) + 1 /\ DOMAIN s = 1..Len(s) /\ Len(s) \in Nat
    BY <1>1
  <1>3. ASSUME NEW b PROVE b \in ToSet(Append(s, a)) <=> b \in ToSet(s) \/ b = a
    BY <1>1, <1>2 DEF ToSet
  <1>4. QED
    BY <1>3

(* An entry is taken out: the ones before it keep their place, the others move up. *)
LEMMA RemoveAtProperties ==
  ASSUME NEW S, NEW s \in Seq(S), NEW n \in 1..Len(s)
  PROVE  /\ RemoveAt(s, n) \in Seq(S)
         /\ Len(RemoveAt(s, n)) = Len(s) - 1
         /\ \A i \in 1..Len(s) - 1 :
              RemoveAt(s, n)[i] = IF i < n THEN s[i] ELSE s[i + 1]
  <1> DEFINE before == SubSeq(s, 1, n - 1)
             after == SubSeq(s, n + 1, Len(s))
  <1>1. Len(s) \in Nat /\ n \in Nat /\ \A i \in 1..Len(s) : s[i] \in S
    OBVIOUS
  <1>2. /\ before \in Seq(S) /\ Len(before) = n - 1
        /\ \A i \in 1..n - 1 : before[i] = s[i]
    <2>1. /\ before \in Seq(S) /\ Len(before) = IF 1 <= n - 1 THEN n - 1 - 1 + 1 ELSE 0
          /\ \A i \in 1..n - 1 - 1 + 1 : before[i] = s[1 + i - 1]
      BY <1>1, SubSeqProperties
    <2> HIDE DEF before
    <2>2. QED
      BY <1>1, <2>1
  <1>3. /\ after \in Seq(S) /\ Len(after) = Len(s) - n
        /\ \A i \in 1..Len(s) - n : after[i] = s[n + i]
    <2>1. /\ after \in Seq(S)
          /\ Len(after) = IF n + 1 <= Len(s) THEN Len(s) - (n + 1) + 1 ELSE 0
          /\ \A i \in 1..Len(s) - (n + 1) + 1 : after[i] = s[n + 1 + i - 1]
      BY <1>1, SubSeqProperties
    <2> HIDE DEF after
    <2>2. QED
      BY <1>1, <2>1
  <1>4. RemoveAt(s, n) = before \o after
    BY DEF RemoveAt
  <1> HIDE DEF before, after
  <1>5. /\ before \o after \in Seq(S)
        /\ Len(before \o after) = Len(before) + Len(after)
        /\ \A i \in 1..Len(before) + Len(after) :
             (before \o after)[i] = IF i <= Len(before) THEN before[i]
                                                        ELSE after[i - Len(before)]
    BY <1>2, <1>3, ConcatProperties
  <1>6. ASSUME NEW i \in 1..Len(s) - 1
        PROVE  (before \o after)[i] = IF i < n THEN s[i] ELSE s[i + 1]
    <2>1. CASE i < n
      BY <1>1, <1>2, <1>3, <1>5, <2>1
    <2>2. CASE ~(i < n)
      <3>1. i - Len(before) \in 1..Len(s) - n /\ n + (i - Len(before)) = i + 1
        BY <1>1, <1>2, <2>2
      <3>2. (before \o after)[i] = after[i - Len(before)]
        BY <1>1, <1>2, <1>3, <1>5, <2>2
      <3>3. QED
        BY <1>3, <2>2, <3>1, <3>2
    <2>3. QED
      BY <2>1, <2>2
  <1>7. QED
    BY <1>1, <1>2, <1>3, <1>4, <1>5, <1>6

(* The places that are left when one place is skipped. *)
LEMMA SkipOne ==
  ASSUME NEW k \in Nat, NEW n \in Int
  PROVE  LET at == [i \in 1..k |-> IF i < n THEN i ELSE i + 1] IN
         /\ at \in [1..k -> 1..k + 1]
         /\ \A i \in 1..k : at[i] = IF i < n THEN i ELSE i + 1
         /\ \A i, j \in 1..k : i < j => at[i] < at[j]
  <1> DEFINE at == [i \in 1..k |-> IF i < n THEN i ELSE i + 1]
  <1>1. \A i \in 1..k : at[i] = IF i < n THEN i ELSE i + 1
    OBVIOUS
  <1>2. at \in [1..k -> 1..k + 1]
    <2>1. \A i \in 1..k : (IF i < n THEN i ELSE i + 1) \in 1..k + 1
      OBVIOUS
    <2>2. QED
      BY <2>1
  <1> HIDE DEF at
  <1>3. ASSUME NEW i \in 1..k, NEW j \in 1..k, i < j PROVE at[i] < at[j]
    BY <1>1, <1>3
  <1>4. QED
    BY <1>1, <1>2, <1>3 DEF at

LEMMA NotTheLast ==
  ASSUME NEW k \in Nat, NEW p \in 1..k + 1, p # k + 1
  PROVE  p \in 1..k
  OBVIOUS

(* The line grows with what is made. *)
LEMMA FollowsAppend ==
  ASSUME NEW S, NEW s \in Seq(S), NEW m \in Seq(S), NEW a \in S,
         a \notin ToSet(m), Follows(s, m)
  PROVE  Follows(Append(s, a), Append(m, a))
  <1>1. /\ Append(s, a) \in Seq(S) /\ Len(Append(s, a)) = Len(s) + 1
        /\ \A i \in 1..Len(s) : Append(s, a)[i] = s[i]
        /\ Append(s, a)[Len(s) + 1] = a
    BY AppendProperties
  <1>2. /\ Append(m, a) \in Seq(S) /\ Len(Append(m, a)) = Len(m) + 1
        /\ \A i \in 1..Len(m) : Append(m, a)[i] = m[i]
        /\ Append(m, a)[Len(m) + 1] = a
    BY AppendProperties
  <1>3. \A p \in 1..Len(m) : m[p] # a
    BY InToSet
  <1>4. Len(s) \in Nat /\ Len(m) \in Nat
    OBVIOUS
  <1> DEFINE s1 == Append(s, a)
             m1 == Append(m, a)
  <1> HIDE DEF s1, m1
  <1>5. ASSUME NEW i \in 1..Len(s) + 1 PROVE \E p \in 1..Len(m) + 1 : m1[p] = s1[i]
    BY <1>1, <1>2, <1>4 DEF Follows, s1, m1
  <1>6. ASSUME NEW i \in 1..Len(s) + 1, NEW j \in 1..Len(s) + 1,
               NEW p \in 1..Len(m) + 1, NEW q \in 1..Len(m) + 1,
               i < j, m1[p] = s1[i], m1[q] = s1[j]
        PROVE  p < q
    <2>1. i \in 1..Len(s) /\ s1[i] = s[i]
      BY <1>1, <1>4, <1>6 DEF s1
    <2>2. PICK r \in 1..Len(m) : m[r] = s[i]
      BY <2>1 DEF Follows
    <2>3. p \in 1..Len(m) /\ m1[p] = m[p]
      <3>1. s[i] # a
        BY <1>3, <2>2
      <3>2. p # Len(m) + 1
        BY <1>2, <1>6, <2>1, <3>1 DEF m1
      <3>3. p \in 1..Len(m)
        BY <1>4, <3>2, NotTheLast
      <3>4. QED
        BY <1>2, <3>3 DEF m1
    <2>4. CASE q = Len(m) + 1
      BY <1>4, <2>3, <2>4
    <2>5. CASE q \in 1..Len(m)
      <3>1. j \in 1..Len(s)
        BY <1>1, <1>2, <1>3, <1>4, <1>6, <2>5 DEF s1, m1
      <3>2. QED
        BY <1>1, <1>2, <1>6, <2>1, <2>3, <2>5, <3>1 DEF s1, m1, Follows
    <2>6. QED
      BY <1>4, <2>4, <2>5
  <1>7. QED
    BY <1>1, <1>2, <1>5, <1>6 DEF Follows, s1, m1

(* A line that loses entries is still in order: its entries sit at growing places
   of the old line. *)
LEMMA FollowsThinned ==
  ASSUME NEW S, NEW s \in Seq(S), NEW t \in Seq(S), NEW m \in Seq(S), Follows(s, m),
         NEW at \in [1..Len(t) -> 1..Len(s)],
         \A i \in 1..Len(t) : t[i] = s[at[i]],
         \A i, j \in 1..Len(t) : i < j => at[i] < at[j]
  PROVE  Follows(t, m)
  <1>1. ASSUME NEW i \in 1..Len(t) PROVE \E p \in 1..Len(m) : m[p] = t[i]
    BY DEF Follows
  <1>2. ASSUME NEW i \in 1..Len(t), NEW j \in 1..Len(t),
               NEW p \in 1..Len(m), NEW q \in 1..Len(m),
               i < j, m[p] = t[i], m[q] = t[j]
        PROVE  p < q
    <2>1. at[i] \in 1..Len(s) /\ at[j] \in 1..Len(s) /\ at[i] < at[j]
      BY <1>2
    <2>2. m[p] = s[at[i]] /\ m[q] = s[at[j]]
      BY <1>2
    <2>3. QED
      BY <2>1, <2>2 DEF Follows
  <1>3. QED
    BY <1>1, <1>2 DEF Follows

(* What waits is dropped, all of it or one entry. *)
LEMMA FollowsDropped ==
  ASSUME NEW S, NEW w \in Seq(S), NEW q \in Seq(S), NEW m \in Seq(S), Follows(w \o q, m)
  PROVE  /\ Follows(w \o <<>>, m)
         /\ \A n \in 1..Len(q) : Follows(w \o RemoveAt(q, n), m)
  <1>1. /\ w \o q \in Seq(S) /\ Len(w \o q) = Len(w) + Len(q)
        /\ \A i \in 1..Len(w) + Len(q) :
             (w \o q)[i] = IF i <= Len(w) THEN w[i] ELSE q[i - Len(w)]
    BY ConcatProperties
  <1>2. Len(w) \in Nat /\ Len(q) \in Nat
    OBVIOUS
  <1>3. Follows(w \o <<>>, m)
    <2>1. w \o <<>> = w
      BY ConcatEmptySeq
    <2> DEFINE at == [i \in 1..Len(w) |-> i]
    <2>2. at \in [1..Len(w) -> 1..Len(w \o q)]
      BY <1>1, <1>2
    <2>3. /\ \A i \in 1..Len(w) : w[i] = (w \o q)[at[i]]
          /\ \A i, j \in 1..Len(w) : i < j => at[i] < at[j]
      BY <1>1, <1>2
    <2> HIDE DEF at
    <2>4. Follows(w, m)
      BY <1>1, <2>2, <2>3, FollowsThinned
    <2>5. QED
      BY <2>1, <2>4
  <1>4. ASSUME NEW n \in 1..Len(q) PROVE Follows(w \o RemoveAt(q, n), m)
    <2> DEFINE r == RemoveAt(q, n)
               t == w \o r
               last == Len(w) + Len(q) - 1
               at == [i \in 1..last |-> IF i < Len(w) + n THEN i ELSE i + 1]
    <2>1. /\ r \in Seq(S) /\ Len(r) = Len(q) - 1
          /\ \A i \in 1..Len(q) - 1 : r[i] = IF i < n THEN q[i] ELSE q[i + 1]
      BY RemoveAtProperties
    <2> HIDE DEF r
    <2>2. /\ t \in Seq(S) /\ Len(t) = Len(w) + Len(r)
          /\ \A i \in 1..Len(w) + Len(r) : t[i] = IF i <= Len(w) THEN w[i] ELSE r[i - Len(w)]
      BY <2>1, ConcatProperties
    <2>3. n \in Nat /\ 1 <= n /\ n <= Len(q) /\ last \in Nat /\ Len(t) = last
      BY <1>2, <2>1, <2>2
    <2>4. /\ at \in [1..last -> 1..Len(w \o q)]
          /\ \A i \in 1..last : at[i] = IF i < Len(w) + n THEN i ELSE i + 1
          /\ \A i, j \in 1..last : i < j => at[i] < at[j]
      <3>1. last + 1 = Len(w \o q) /\ Len(w) + n \in Int
        BY <1>1, <1>2, <2>3
      <3> HIDE DEF last
      <3>2. QED
        BY <2>3, <3>1, SkipOne
    <2> HIDE DEF t, at
    <2>5. ASSUME NEW i \in 1..last PROVE t[i] = (w \o q)[at[i]]
      <3>1. CASE i <= Len(w)
        <4>1. at[i] = i
          BY <1>2, <2>3, <2>4, <3>1
        <4>2. t[i] = w[i]
          BY <2>2, <2>3, <3>1
        <4>3. QED
          BY <1>1, <1>2, <2>3, <3>1, <4>1, <4>2
      <3>2. CASE ~(i <= Len(w)) /\ i < Len(w) + n
        <4> DEFINE k == i - Len(w)
        <4>1. k \in 1..Len(q) - 1 /\ k < n
          BY <1>2, <2>3, <3>2
        <4>2. t[i] = r[k]
          BY <2>2, <2>3, <3>2
        <4>3. r[k] = q[k]
          BY <2>1, <4>1
        <4>4. at[i] = i
          BY <2>4, <3>2
        <4>5. QED
          BY <1>1, <1>2, <2>3, <3>2, <4>2, <4>3, <4>4
      <3>3. CASE ~(i < Len(w) + n)
        <4> DEFINE k == i - Len(w)
        <4>1. k \in 1..Len(q) - 1 /\ ~(k < n) /\ ~(i <= Len(w))
          BY <1>2, <2>3, <3>3
        <4>2. t[i] = r[k]
          BY <2>2, <2>3, <4>1
        <4>3. r[k] = q[k + 1]
          BY <2>1, <4>1
        <4>4. at[i] = i + 1
          BY <2>4, <3>3
        <4>5. i + 1 - Len(w) = k + 1 /\ ~(i + 1 <= Len(w)) /\ i + 1 \in 1..Len(w) + Len(q)
          BY <1>2, <2>3, <3>3
        <4>6. QED
          BY <1>1, <4>2, <4>3, <4>4, <4>5
      <3>4. QED
        BY <3>1, <3>2, <3>3
    <2> HIDE DEF last
    <2>6. Follows(t, m)
      <3>1. /\ at \in [1..Len(t) -> 1..Len(w \o q)]
            /\ \A i \in 1..Len(t) : t[i] = (w \o q)[at[i]]
            /\ \A i, j \in 1..Len(t) : i < j => at[i] < at[j]
        BY <2>3, <2>4, <2>5
      <3>2. t \in Seq(S) /\ w \o q \in Seq(S)
        BY <1>1, <2>2
      <3>3. QED
        BY <3>1, <3>2, FollowsThinned
    <2>7. QED
      BY <2>6 DEF t, r
  <1>5. QED
    BY <1>3, <1>4

(* What is in a line that follows was made, and it is there once. *)
LEMMA FollowsOnce ==
  ASSUME NEW S, NEW s \in Seq(S), NEW m \in Seq(S), Follows(s, m)
  PROVE  /\ \A i \in 1..Len(s) : s[i] \in ToSet(m)
         /\ \A i, j \in 1..Len(s) : s[i] = s[j] => i = j
  <1>1. ASSUME NEW i \in 1..Len(s) PROVE s[i] \in ToSet(m)
    BY InToSet DEF Follows
  <1>2. ASSUME NEW i \in 1..Len(s), NEW j \in 1..Len(s), s[i] = s[j], i < j PROVE FALSE
    <2>1. PICK p \in 1..Len(m) : m[p] = s[i]
      BY DEF Follows
    <2>2. p < p
      BY <1>2, <2>1 DEF Follows
    <2>3. QED
      BY <2>2
  <1>3. QED
    BY <1>1, <1>2

-----------------------------------------------------------------------------
(* Types *)

LEMMA Constants ==
  /\ MaxAttempts \in Nat /\ MaxResets \in Nat
  /\ NoAttempt \notin Attempt
  /\ Bot \cup Accept = Attempt \ Invite /\ Bot \cap Accept = {}
  /\ Banner \subseteq Accept /\ Link \subseteq Accept /\ Accept \ Banner \subseteq Link
  /\ Invite \subseteq Attempt
  BY ClientAssumption DEF Attempt, Accept

(* What a click does to the line. *)
LEMMA MakeTyped ==
  ASSUME TypeOK, NEW a \in Attempt, Make(a)
  PROVE  /\ made' = Append(made, a) /\ made' \in Seq(Attempt)
         /\ queue' \in Seq(Attempt) /\ wire' \in Seq(Attempt)
         /\ ws # "none"
         /\ UNCHANGED <<ws, attempts, stable, joined, resets, givenUp>>
  <1>1. made \in Seq(Attempt) /\ wire \in Seq(Attempt) /\ queue \in Seq(Attempt)
    BY DEF TypeOK
  <1>2. /\ Append(made, a) \in Seq(Attempt) /\ Append(wire, a) \in Seq(Attempt)
        /\ Append(queue, a) \in Seq(Attempt)
    BY <1>1, AppendProperties
  <1>3. queue' \in Seq(Attempt) /\ wire' \in Seq(Attempt)
    <2>1. CASE ws = "open" /\ joined
      BY <1>1, <1>2, <2>1 DEF Make, RunWhenLobbyReady
    <2>2. CASE ~(ws = "open" /\ joined)
      BY <1>1, <1>2, <2>2 DEF Make, RunWhenLobbyReady
    <2>3. QED
      BY <2>1, <2>2
  <1>4. QED
    BY <1>2, <1>3 DEF Make

LEMMA NextTyped ==
  ASSUME TypeOK, SocketFits, [Next]_vars
  PROVE  TypeOK'
  <1> USE Constants
  <1>1. CASE UNCHANGED vars
    BY <1>1 DEF vars, TypeOK
  <1>2. CASE Opens \/ Closes \/ Reconnects \/ StableTimerFires
    <2>1. CASE Opens
      BY <2>1 DEF Opens, TypeOK
    <2>2. CASE Closes
      BY <2>2 DEF Closes, TypeOK
    <2>3. CASE Reconnects
      BY <2>3 DEF Reconnects, TypeOK, SocketFits
    <2>4. CASE StableTimerFires
      <3>1. attempts' \in 0..MaxAttempts
        BY <2>4 DEF StableTimerFires
      <3>2. QED
        BY <2>4, <3>1 DEF StableTimerFires, TypeOK
    <2>5. QED
      BY <1>2, <2>1, <2>2, <2>3, <2>4
  <1>3. ASSUME NEW signedIn \in BOOLEAN, Reset(signedIn) PROVE TypeOK'
    <2>1. givenUp' \subseteq Attempt
      BY <1>3 DEF Reset, TypeOK, ToSet
    <2>2. queue' = <<>> /\ queue' \in Seq(Attempt)
      BY <1>3, EmptySeq DEF Reset
    <2>3. attempts' \in 0..MaxAttempts /\ resets' \in 0..MaxResets
      BY <1>3 DEF Reset, TypeOK
    <2>4. QED
      BY <1>3, <2>1, <2>2, <2>3 DEF Reset, TypeOK
  <1>4. ASSUME NEW a \in Attempt, ConnectAndStart(a) PROVE TypeOK'
    BY <1>4, MakeTyped DEF ConnectAndStart, TypeOK
  <1>5. ASSUME NEW a \in Attempt, AcceptPvpChallenge(a) \/ AcceptChallenge(a) PROVE TypeOK'
    <2>1. a \in Accept /\ AcceptWith(a)
      BY <1>5 DEF AcceptPvpChallenge, AcceptChallenge, Accept
    <2>2. QED
      BY <2>1, MakeTyped DEF AcceptWith, TypeOK
  <1>6. ASSUME NEW a \in Attempt, ChallengeUser(a) PROVE TypeOK'
    BY <1>6, MakeTyped DEF ChallengeUser, TypeOK
  <1>7. ASSUME NEW a \in Attempt, ChallengeReceived(a) PROVE TypeOK'
    BY <1>7 DEF ChallengeReceived, TypeOK
  <1>8. ASSUME NEW a \in Attempt, LobbyTimeout(a) PROVE TypeOK'
    <2>1. queue' \in Seq(Attempt) /\ ws # "none"
      <3>1. PICK i \in 1..Len(queue) : queue' = RemoveAt(queue, i)
        BY <1>8 DEF LobbyTimeout
      <3>2. queue' \in Seq(Attempt)
        BY <3>1, RemoveAtProperties DEF TypeOK
      <3>3. queue # <<>>
        BY <3>1
      <3>4. QED
        BY <3>2, <3>3 DEF TypeOK
    <2>2. QED
      BY <1>8, <2>1 DEF LobbyTimeout, TypeOK
  <1>9. ASSUME NEW a \in Attempt, AcceptTimeout(a) PROVE TypeOK'
    <2>1. givenUp' \subseteq Attempt
      BY <1>9 DEF AcceptTimeout, TypeOK, ToSet
    <2>2. queue' \in Seq(Attempt) /\ (ws = "none" => queue' = <<>>)
      BY <1>9, EmptySeq DEF AcceptTimeout, TypeOK
    <2>3. QED
      BY <1>9, <2>1, <2>2 DEF AcceptTimeout, TypeOK
  <1>10. CASE DeclinePvpChallenge \/ MatchFound \/ Settled \/ ChallengeGone
    BY <1>10 DEF DeclinePvpChallenge, MatchFound, Settled, ChallengeGone, TypeOK
  <1>11. CASE GoToLobby
    <2>1. givenUp' \subseteq Attempt
      BY <1>11 DEF GoToLobby, TypeOK, ToSet
    <2>2. QED
      BY <1>11, <2>1, EmptySeq DEF GoToLobby, TypeOK
  <1>12. CASE LobbyJoined
    <2>1. wire' \in Seq(Attempt) /\ queue' \in Seq(Attempt)
      BY <1>12, EmptySeq, ConcatProperties DEF LobbyJoined, TypeOK
    <2>2. QED
      BY <1>12, <2>1 DEF LobbyJoined, TypeOK
  <1>13. QED
    BY <1>1, <1>2, <1>3, <1>4, <1>5, <1>6, <1>7, <1>8, <1>9, <1>10, <1>11, <1>12 DEF Next

-----------------------------------------------------------------------------
(* The line *)

(* A click appends to what was made and to the line. *)
LEMMA MakeKeepsLine ==
  ASSUME TypeOK, LineFits, NEW a \in Attempt, Make(a)
  PROVE  LineFits'
  <1>1. made \in Seq(Attempt) /\ wire \in Seq(Attempt) /\ queue \in Seq(Attempt)
    BY DEF TypeOK
  <1>2. wire \o queue \in Seq(Attempt)
    BY <1>1, ConcatProperties
  <1>3. a \notin ToSet(made) /\ made' = Append(made, a) /\ joined' = joined
    BY DEF Make
  <1>4. Once(made')
    <2>1. \A p \in 1..Len(made) : made[p] # a
      BY <1>1, <1>3, InToSet
    <2>2. QED
      BY <1>1, <1>3, <2>1, AppendProperties DEF LineFits, Once
  <1>5. wire' \o queue' = Append(wire \o queue, a) /\ (joined' => queue' = <<>>)
    <2>1. CASE ws = "open" /\ joined
      <3>1. queue = <<>> /\ wire' = Append(wire, a) /\ queue' = <<>>
        BY <2>1 DEF LineFits, Make, RunWhenLobbyReady
      <3>2. Append(wire, a) \in Seq(Attempt)
        BY <1>1, AppendProperties
      <3>3. wire' \o queue' = Append(wire, a) /\ wire \o queue = wire
        BY <1>1, <3>1, <3>2, ConcatEmptySeq
      <3>4. QED
        BY <3>1, <3>3
    <2>2. CASE ~(ws = "open" /\ joined)
      <3>1. wire' = wire /\ queue' = Append(queue, a) /\ ~joined
        BY <2>2 DEF Make, RunWhenLobbyReady, TypeOK
      <3>2. <<a>> \in Seq(Attempt) /\ Append(queue, a) = queue \o <<a>>
            /\ Append(wire \o queue, a) = (wire \o queue) \o <<a>>
        BY <1>1, <1>2, AppendIsConcat
      <3>3. (wire \o queue) \o <<a>> = wire \o (queue \o <<a>>)
        BY <1>1, <3>2, ConcatAssociative
      <3>4. QED
        BY <1>3, <3>1, <3>2, <3>3
    <2>3. QED
      BY <2>1, <2>2
  <1>6. Follows(wire' \o queue', made')
    BY <1>1, <1>2, <1>3, <1>5, FollowsAppend DEF LineFits
  <1>7. QED
    BY <1>4, <1>5, <1>6 DEF LineFits

(* What waits may be dropped. *)
LEMMA DropKeepsLine ==
  ASSUME TypeOK, LineFits, UNCHANGED <<made, wire>>, joined' \in {joined, FALSE},
         \/ queue' \in {queue, <<>>}
         \/ \E n \in 1..Len(queue) : queue' = RemoveAt(queue, n)
  PROVE  LineFits'
  <1>1. made \in Seq(Attempt) /\ wire \in Seq(Attempt) /\ queue \in Seq(Attempt)
    BY DEF TypeOK
  <1>2. Once(made) /\ Follows(wire \o queue, made)
    BY DEF LineFits
  <1>3. Follows(wire \o queue', made)
    BY <1>1, <1>2, FollowsDropped
  <1>4. joined' => queue' = <<>>
    <2>1. joined => queue = <<>>
      BY DEF LineFits, TypeOK
    <2>2. queue = <<>> => 1..Len(queue) = {}
      OBVIOUS
    <2>3. joined \in BOOLEAN
      BY DEF TypeOK
    <2>4. QED
      BY <2>1, <2>2, <2>3
  <1>5. QED
    BY <1>2, <1>3, <1>4 DEF LineFits

LEMMA NextKeepsLine ==
  ASSUME TypeOK, LineFits, [Next]_vars
  PROVE  LineFits'
  <1>1. CASE UNCHANGED vars \/ Opens \/ Closes \/ Reconnects \/ StableTimerFires
             \/ DeclinePvpChallenge \/ MatchFound \/ Settled \/ ChallengeGone
             \/ GoToLobby \/ (\E signedIn \in BOOLEAN : Reset(signedIn))
    <2>1. /\ UNCHANGED <<made, wire>> /\ joined' \in {joined, FALSE}
          /\ queue' \in {queue, <<>>}
      BY <1>1
         DEF vars, Opens, Closes, Reconnects, StableTimerFires, DeclinePvpChallenge,
             MatchFound, Settled, ChallengeGone, GoToLobby, Reset
    <2>2. QED
      BY <2>1, DropKeepsLine
  <1>2. ASSUME NEW a \in Attempt, ConnectAndStart(a) \/ AcceptPvpChallenge(a)
                                  \/ AcceptChallenge(a) \/ ChallengeUser(a)
        PROVE  LineFits'
    BY <1>2, MakeKeepsLine
       DEF ConnectAndStart, AcceptPvpChallenge, AcceptChallenge, AcceptWith, ChallengeUser
  <1>3. ASSUME NEW a \in Attempt,
               ChallengeReceived(a) \/ LobbyTimeout(a) \/ AcceptTimeout(a)
        PROVE  LineFits'
    BY <1>3, DropKeepsLine DEF ChallengeReceived, LobbyTimeout, AcceptTimeout
  <1>4. CASE LobbyJoined
    <2>1. wire \o queue \in Seq(Attempt)
      BY ConcatProperties DEF TypeOK
    <2>2. wire' \o queue' = wire \o queue
      BY <1>4, <2>1, ConcatEmptySeq DEF LobbyJoined
    <2>3. QED
      BY <1>4, <2>2 DEF LobbyJoined, LineFits
  <1>5. QED
    BY <1>1, <1>2, <1>3, <1>4 DEF Next

-----------------------------------------------------------------------------
(* The flows *)

LEMMA WaitingWasMade ==
  ASSUME TypeOK, LineFits
  PROVE  /\ ToSet(queue) \subseteq ToSet(made)
         /\ \A i, j \in 1..Len(queue) : queue[i] = queue[j] => i = j
  <1>1. made \in Seq(Attempt) /\ wire \in Seq(Attempt) /\ queue \in Seq(Attempt)
    BY DEF TypeOK
  <1>2. /\ wire \o queue \in Seq(Attempt)
        /\ Len(wire \o queue) = Len(wire) + Len(queue)
        /\ \A i \in 1..Len(wire) + Len(queue) :
             (wire \o queue)[i] = IF i <= Len(wire) THEN wire[i] ELSE queue[i - Len(wire)]
    BY <1>1, ConcatProperties
  <1> DEFINE line == wire \o queue
  <1>3. /\ \A i \in 1..Len(line) : line[i] \in ToSet(made)
        /\ \A i, j \in 1..Len(line) : line[i] = line[j] => i = j
    BY <1>1, <1>2, FollowsOnce DEF LineFits
  <1>4. Len(wire) \in Nat /\ Len(queue) \in Nat
    BY <1>1
  <1>5. ASSUME NEW i \in 1..Len(queue)
        PROVE  Len(wire) + i \in 1..Len(line) /\ line[Len(wire) + i] = queue[i]
    <2>1. /\ Len(wire) + i \in 1..Len(wire) + Len(queue)
          /\ ~(Len(wire) + i <= Len(wire)) /\ Len(wire) + i - Len(wire) = i
      BY <1>4
    <2>2. QED
      BY <1>2, <2>1
  <1> HIDE DEF line
  <1>6. ASSUME NEW i \in 1..Len(queue), NEW j \in 1..Len(queue), queue[i] = queue[j]
        PROVE  i = j
    <2>1. Len(wire) + i = Len(wire) + j
      BY <1>3, <1>5, <1>6
    <2>2. QED
      BY <1>4, <2>1
  <1>7. ASSUME NEW a \in ToSet(queue) PROVE a \in ToSet(made)
    <2>1. PICK i \in 1..Len(queue) : queue[i] = a
      BY <1>1, InToSet
    <2>2. QED
      BY <1>3, <1>5, <2>1
  <1>8. QED
    BY <1>6, <1>7

(* A click asks for something new, so for nothing that was given up. *)
LEMMA MakeKeepsFlow ==
  ASSUME TypeOK, FlowFits, NEW a \in Attempt, Make(a)
  PROVE  /\ ToSet(made') = ToSet(made) \cup {a}
         /\ \A i \in 1..Len(queue') : queue'[i] \in givenUp' => queue'[i] \in Link
  <1>1. made \in Seq(Attempt) /\ queue \in Seq(Attempt)
    BY DEF TypeOK
  <1>2. /\ made' = Append(made, a) /\ givenUp' = givenUp /\ a \notin givenUp
        /\ queue' \in {queue, Append(queue, a)}
    BY DEF Make, RunWhenLobbyReady, FlowFits
  <1>3. ToSet(made') = ToSet(made) \cup {a}
    BY <1>1, <1>2, ToSetOfAppend
  <1>4. /\ Len(Append(queue, a)) = Len(queue) + 1
        /\ \A i \in 1..Len(queue) : Append(queue, a)[i] = queue[i]
        /\ Append(queue, a)[Len(queue) + 1] = a
    BY <1>1, AppendProperties
  <1>5. ASSUME NEW i \in 1..Len(queue'), queue'[i] \in givenUp'
        PROVE  queue'[i] \in Link
    <2>1. CASE queue' = queue
      BY <1>2, <1>5, <2>1 DEF FlowFits
    <2>2. CASE queue' = Append(queue, a)
      <3>1. i # Len(queue) + 1
        BY <1>2, <1>4, <1>5, <2>2
      <3>2. i \in 1..Len(queue)
        BY <1>1, <1>4, <2>2, <3>1, NotTheLast
      <3>3. QED
        BY <1>2, <1>4, <1>5, <2>2, <3>2 DEF FlowFits
    <2>3. QED
      BY <1>2, <2>1, <2>2
  <1>6. QED
    BY <1>3, <1>5

LEMMA NextKeepsFlow ==
  ASSUME TypeOK, LineFits, FlowFits, [Next]_vars
  PROVE  FlowFits'
  <1> USE Constants
  <1>1. ToSet(queue) \subseteq ToSet(made)
    BY WaitingWasMade
  <1>2. CASE UNCHANGED vars \/ Opens \/ Closes \/ Reconnects \/ StableTimerFires
             \/ DeclinePvpChallenge \/ ChallengeGone
             \/ (\E a \in Attempt : ChallengeReceived(a))
    <2>1. UNCHANGED <<made, givenUp, queue, status, expiry>>
      BY <1>2 DEF vars, Opens, Closes, Reconnects, StableTimerFires, DeclinePvpChallenge,
                  ChallengeGone, ChallengeReceived
    <2>2. QED
      BY <2>1 DEF FlowFits
  <1>3. CASE GoToLobby \/ (\E signedIn \in BOOLEAN : Reset(signedIn))
    <2>1. /\ UNCHANGED <<made, expiry>> /\ givenUp' = givenUp \cup ToSet(queue)
          /\ queue' = <<>> /\ status' \in {status, NoAttempt}
      BY <1>3 DEF GoToLobby, Reset
    <2>2. \A i \in 1..Len(queue') : FALSE
      BY <2>1
    <2>3. QED
      BY <1>1, <2>1, <2>2 DEF FlowFits
  <1>4. ASSUME NEW a \in Attempt, ConnectAndStart(a) \/ ChallengeUser(a)
        PROVE  FlowFits'
    <2>1. /\ Make(a) /\ expiry' = expiry /\ givenUp' = givenUp
          /\ status' = status \/ (status' = a /\ a \in Bot)
      BY <1>4 DEF ConnectAndStart, ChallengeUser, Make
    <2>2. QED
      BY <2>1, MakeKeepsFlow DEF FlowFits
  <1>5. ASSUME NEW a \in Attempt, AcceptPvpChallenge(a) \/ AcceptChallenge(a)
        PROVE  FlowFits'
    <2>1. /\ Make(a) /\ expiry' = expiry \cup {a} /\ givenUp' = givenUp /\ status' = a
      BY <1>5 DEF AcceptPvpChallenge, AcceptChallenge, AcceptWith, Make
    <2>2. QED
      BY <2>1, MakeKeepsFlow DEF FlowFits
  <1>6. ASSUME NEW a \in Attempt, LobbyTimeout(a) PROVE FlowFits'
    <2>1. PICK n \in 1..Len(queue) : queue[n] = a /\ queue' = RemoveAt(queue, n)
      BY <1>6 DEF LobbyTimeout
    <2>2. queue \in Seq(Attempt)
      BY DEF TypeOK
    <2>3. a \in ToSet(queue)
      BY <2>1, <2>2, InToSet
    <2>4. /\ UNCHANGED <<made, expiry>> /\ givenUp' = givenUp \cup {a}
          /\ status' = NoAttempt
      BY <1>6 DEF LobbyTimeout
    <2>5. ASSUME NEW i \in 1..Len(queue'), queue'[i] \in givenUp'
          PROVE  queue'[i] \in Link
      <3>1. /\ Len(queue') = Len(queue) - 1
            /\ queue'[i] = IF i < n THEN queue[i] ELSE queue[i + 1]
        BY <2>1, <2>2, RemoveAtProperties
      <3>2. PICK k \in 1..Len(queue) : k # n /\ queue'[i] = queue[k]
        <4>1. i \in 1..Len(queue) - 1 /\ Len(queue) \in Nat /\ n \in Nat
          BY <2>2, <3>1
        <4>2. CASE i < n
          BY <3>1, <4>1, <4>2
        <4>3. CASE ~(i < n)
          <5>1. i + 1 \in 1..Len(queue) /\ i + 1 # n
            BY <4>1, <4>3
          <5>2. QED
            BY <3>1, <4>3, <5>1
        <4>4. QED
          BY <4>2, <4>3
      <3>3. queue[k] # a
        BY <2>1, <3>2, WaitingWasMade
      <3>4. QED
        BY <2>4, <2>5, <3>2, <3>3 DEF FlowFits
    <2>6. QED
      BY <1>1, <2>3, <2>4, <2>5 DEF FlowFits
  <1>7. ASSUME NEW a \in Attempt, AcceptTimeout(a) PROVE FlowFits'
    <2>1. a \in Accept /\ a \in ToSet(made)
      BY <1>7 DEF AcceptTimeout, TypeOK, FlowFits
    <2>2. /\ made' = made /\ expiry' = expiry \ {a} /\ status' = NoAttempt
          /\ givenUp' \subseteq givenUp \cup ToSet(queue) \cup {a}
      BY <1>7 DEF AcceptTimeout
    <2>3. ASSUME NEW i \in 1..Len(queue'), queue'[i] \in givenUp'
          PROVE  queue'[i] \in Link
      <3>1. CASE a \in Banner
        <4>1. queue' = <<>>
          BY <1>7, <3>1 DEF AcceptTimeout
        <4>2. QED
          BY <4>1
      <3>2. CASE a \notin Banner
        <4>1. a \in Link /\ queue' = queue /\ givenUp' \subseteq givenUp \cup {a}
          BY <1>7, <2>1, <3>2 DEF AcceptTimeout
        <4>2. QED
          BY <2>3, <4>1 DEF FlowFits
      <3>3. QED
        BY <3>1, <3>2
    <2>4. QED
      BY <1>1, <2>1, <2>2, <2>3 DEF FlowFits
  <1>8. CASE LobbyJoined
    <2>1. UNCHANGED <<made, givenUp, expiry, status>> /\ queue' = <<>>
      BY <1>8 DEF LobbyJoined
    <2>2. \A i \in 1..Len(queue') : FALSE
      BY <2>1
    <2>3. QED
      BY <2>1, <2>2 DEF FlowFits
  <1>9. CASE MatchFound \/ Settled
    <2>1. /\ UNCHANGED <<made, givenUp, queue>> /\ status' = NoAttempt
          /\ expiry' \subseteq expiry
      BY <1>9 DEF MatchFound, Settled
    <2>2. QED
      BY <2>1 DEF FlowFits
  <1>10. QED
    BY <1>2, <1>3, <1>4, <1>5, <1>6, <1>7, <1>8, <1>9 DEF Next

LEMMA NextKeepsSocket ==
  ASSUME TypeOK, SocketFits, [Next]_vars
  PROVE  SocketFits'
  <1>1. CASE Opens \/ Closes \/ Reconnects
    BY <1>1 DEF Opens, Closes, Reconnects, SocketFits
  <1>2. CASE StableTimerFires
    BY <1>2 DEF StableTimerFires, SocketFits, TypeOK
  <1>3. ASSUME NEW signedIn \in BOOLEAN, Reset(signedIn) PROVE SocketFits'
    BY <1>3 DEF Reset, SocketFits
  <1>4. CASE UNCHANGED socketVars
    BY <1>4 DEF SocketFits
  <1>5. ASSUME NEW a \in Attempt,
               \/ ConnectAndStart(a) \/ AcceptPvpChallenge(a) \/ AcceptChallenge(a)
               \/ ChallengeUser(a) \/ ChallengeReceived(a)
               \/ LobbyTimeout(a) \/ AcceptTimeout(a)
        PROVE  UNCHANGED socketVars
    BY <1>5 DEF ConnectAndStart, AcceptPvpChallenge, AcceptChallenge, AcceptWith,
                ChallengeUser, Make, ChallengeReceived, LobbyTimeout, AcceptTimeout
  <1>6. ASSUME \/ DeclinePvpChallenge \/ GoToLobby \/ LobbyJoined \/ MatchFound
               \/ Settled \/ ChallengeGone \/ UNCHANGED vars
        PROVE  UNCHANGED socketVars
    BY <1>6 DEF DeclinePvpChallenge, GoToLobby, LobbyJoined, MatchFound, Settled,
                ChallengeGone, vars
  <1>7. QED
    BY <1>1, <1>2, <1>3, <1>4, <1>5, <1>6 DEF Next

-----------------------------------------------------------------------------
(* The theorems *)

LEMMA InitFits == Init => TypeOK /\ IInv
  <1> SUFFICES ASSUME Init PROVE TypeOK /\ IInv
    OBVIOUS
  <1>1. /\ <<>> \in Seq(Attempt) /\ Len(<<>>) = 0 /\ <<>> \o <<>> = <<>>
        /\ 1..0 = {}
    BY EmptySeq, ConcatEmptySeq
  <1>2. TypeOK
    <2>1. attempts \in 0..MaxAttempts /\ resets \in 0..MaxResets
      BY Constants DEF Init
    <2>2. QED
      BY <1>1, <2>1 DEF Init, TypeOK
  <1>3. SocketFits /\ LineFits
    BY <1>1 DEF Init, SocketFits, LineFits, Follows, Once
  <1>4. FlowFits
    BY <1>1, Constants DEF Init, FlowFits
  <1>5. QED
    BY <1>2, <1>3, <1>4 DEF IInv

LEMMA NextFits == TypeOK /\ IInv /\ [Next]_vars => (TypeOK /\ IInv)'
  BY NextTyped, NextKeepsSocket, NextKeepsLine, NextKeepsFlow DEF IInv

LEMMA Inductive == Spec => [](TypeOK /\ IInv)
  BY InitFits, NextFits, PTL DEF Spec

(* The variables keep their types: the socket's states, bounded reconnects, a
   lobby joined on an open socket only, and nothing that waits without a client. *)
THEOREM TypeCorrect == Spec => []TypeOK
  BY Inductive, PTL

LEMMA InOrder ==
  ASSUME TypeOK, LineFits
  PROVE  SentOnceInOrder
  <1>1. made \in Seq(Attempt) /\ wire \in Seq(Attempt) /\ queue \in Seq(Attempt)
    BY DEF TypeOK
  <1> DEFINE line == wire \o queue
             place(a) == CHOOSE i \in 1..Len(made) : made[i] = a
  <1>2. ASSUME NEW i \in 1..Len(line)
        PROVE  place(line[i]) \in 1..Len(made) /\ made[place(line[i])] = line[i]
    BY DEF LineFits, Follows
  <1>3. ASSUME NEW i \in 1..Len(line), NEW j \in 1..Len(line), i < j
        PROVE  place(line[i]) < place(line[j])
    <2> DEFINE p == place(line[i])
               q == place(line[j])
    <2>1. p \in 1..Len(made) /\ made[p] = line[i] /\ q \in 1..Len(made) /\ made[q] = line[j]
      BY <1>2
    <2> HIDE DEF p, q
    <2>2. p < q
      BY <1>3, <2>1 DEF LineFits, Follows
    <2>3. QED
      BY <2>2 DEF p, q
  <1>4. QED
    BY <1>3 DEF SentOnceInOrder

(* runWhenLobbyReady "runs queued actions once, in order": however the connection
   is lost, the client replaced and timers fire, nothing is sent twice or
   overtakes what was asked for before it. *)
THEOREM SentOnce == Spec => []SentOnceInOrder
  BY Inductive, InOrder, PTL DEF IInv

(* What is sent in a step was waiting, or is the click itself. *)
LEMMA SentIsNotGivenUp ==
  ASSUME TypeOK, IInv, [Next]_vars,
         NEW i \in Len(wire) + 1 .. Len(wire')
  PROVE  wire'[i] \notin givenUp \ Link
  <1>1. made \in Seq(Attempt) /\ wire \in Seq(Attempt) /\ queue \in Seq(Attempt)
    BY DEF TypeOK
  <1>2. CASE wire' = wire
    BY <1>1, <1>2
  <1>3. ASSUME NEW a \in Attempt, Make(a) PROVE wire'[i] \notin givenUp \ Link
    <2>1. CASE wire' = Append(wire, a)
      <3>1. Len(Append(wire, a)) = Len(wire) + 1 /\ Append(wire, a)[Len(wire) + 1] = a
        BY <1>1, AppendProperties
      <3>2. i = Len(wire) + 1
        BY <1>1, <2>1, <3>1
      <3>3. a \notin givenUp
        BY <1>3 DEF Make, IInv, FlowFits
      <3>4. QED
        BY <2>1, <3>1, <3>2, <3>3
    <2>2. QED
      BY <1>2, <1>3, <2>1 DEF Make, RunWhenLobbyReady
  <1>4. CASE LobbyJoined
    <2>1. /\ Len(wire \o queue) = Len(wire) + Len(queue)
          /\ \A k \in 1..Len(wire) + Len(queue) :
               (wire \o queue)[k] = IF k <= Len(wire) THEN wire[k] ELSE queue[k - Len(wire)]
      BY <1>1, ConcatProperties
    <2>2. wire' = wire \o queue
      BY <1>4 DEF LobbyJoined
    <2>3. /\ i \in 1..Len(wire) + Len(queue) /\ ~(i <= Len(wire))
          /\ i - Len(wire) \in 1..Len(queue)
      BY <1>1, <2>1, <2>2
    <2>4. wire'[i] = queue[i - Len(wire)]
      BY <2>1, <2>2, <2>3
    <2>5. QED
      BY <2>3, <2>4 DEF IInv, FlowFits
  <1>5. ASSUME NEW a \in Attempt, ConnectAndStart(a) \/ AcceptPvpChallenge(a)
                                  \/ AcceptChallenge(a) \/ ChallengeUser(a)
        PROVE  Make(a)
    BY <1>5 DEF ConnectAndStart, AcceptPvpChallenge, AcceptChallenge, AcceptWith, ChallengeUser
  <1>6. ASSUME NEW a \in Attempt,
               ChallengeReceived(a) \/ LobbyTimeout(a) \/ AcceptTimeout(a)
        PROVE  wire' = wire
    BY <1>6 DEF ChallengeReceived, LobbyTimeout, AcceptTimeout
  <1>7. ASSUME \/ Opens \/ Closes \/ Reconnects \/ StableTimerFires
               \/ \E signedIn \in BOOLEAN : Reset(signedIn)
               \/ DeclinePvpChallenge \/ GoToLobby \/ MatchFound \/ Settled
               \/ ChallengeGone \/ UNCHANGED vars
        PROVE  wire' = wire
    BY <1>7 DEF Opens, Closes, Reconnects, StableTimerFires, Reset, DeclinePvpChallenge,
                GoToLobby, MatchFound, Settled, ChallengeGone, vars
  <1>8. QED
    BY <1>2, <1>3, <1>4, <1>5, <1>6, <1>7 DEF Next

(* "The UI reports the challenge as expired, so it must not be sent afterwards":
   no lobby joined later sends what the page's own timers gave up, what was dropped
   with its client or what was left behind, but for the acceptances of links. *)
THEOREM NotSentAfterwards == Spec => GivenUpIsNotSent
  <1>1. TypeOK /\ IInv /\ [Next]_vars
          => [\A i \in Len(wire) + 1 .. Len(wire') : wire'[i] \notin givenUp \ Link]_vars
    BY SentIsNotGivenUp
  <1>2. QED
    BY <1>1, Inductive, PTL DEF Spec, GivenUpIsNotSent

(* An acceptance that is shown as connecting has its timer still: neither a lost
   connection nor a new client takes it away (the safety part of AcceptanceEnds). *)
ShownIsTimed == \A a \in Accept : status = a => a \in expiry

THEOREM AcceptanceIsTimed == Spec => []ShownIsTimed
  <1>1. IInv => ShownIsTimed
    BY DEF IInv, FlowFits, ShownIsTimed
  <1>2. QED
    BY <1>1, Inductive, PTL
=============================================================================
