---------------------------- MODULE BattleClient ----------------------------
(* A battle page in a learner's browser, up to the moment a match begins: the
   socket with its bounded reconnects (lib/go-realtime-client.ts), the queue of
   actions that wait for the lobby (lib/lobby-action-queue.ts) and the flows of
   battle-runtime-provider.tsx that use both.  The server is whatever may answer
   on an open socket; a connection may open or fail at any moment and timers
   fire in any order, but for a timer of 8 seconds and one of 10 that were set
   by the same click.

   An attempt is one click, or one link followed, that asks the server for
   something: a match with a bot, the acceptance of a challenge from the banner
   or from a link, or a challenge of one's own. *)
EXTENDS Integers, SequencesExt

CONSTANTS
  Bot, Banner, Link, Invite,  \* attempts of each kind, bound how many are made
  MaxAttempts,  \* reconnects in a row (3 in the code)
  MaxResets,    \* bounds how often the page starts over with a new client
  NoAttempt

Attempt == Bot \cup Banner \cup Link \cup Invite
Accept == Banner \cup Link

ASSUME ClientAssumption ==
  /\ MaxAttempts \in Nat /\ MaxResets \in Nat
  /\ NoAttempt \notin Attempt
  /\ Bot \cap Accept = {} /\ Invite \cap (Bot \cup Accept) = {}

VARIABLES
  ws,         \* the socket: "waiting" for a reconnect, "given_up" after too many
  attempts, stable,  \* reconnects in a row, and whether stableTimer is set
  joined,     \* lobbyJoinedRef
  queue,      \* pendingLobbyActionsRef, each entry with a timer of 10 seconds
  status,     \* the attempt the page shows as connecting
  challenge,  \* pvpChallenge: the challenge in the banner
  expiry,     \* the acceptances whose timer of 8 seconds is set
  cleanups,   \* those whose timer the present socket's events would clear
  resets,
  made,       \* history: the attempts in the order they were made
  wire,       \* history: those that were sent
  givenUp     \* history: those reported as failed, or left behind by the learner

socketVars == <<ws, attempts, stable>>
flowVars == <<queue, status, challenge, expiry, cleanups>>
history == <<made, wire, givenUp>>
vars == <<socketVars, joined, flowVars, resets, history>>

TypeOK ==
  /\ ws \in {"none", "connecting", "open", "waiting", "given_up"}
  /\ attempts \in 0..MaxAttempts /\ stable \in BOOLEAN /\ joined \in BOOLEAN
  /\ stable \/ joined => ws = "open"
  /\ queue \in Seq(Attempt) /\ (ws = "none" => queue = <<>>)
  /\ status \in (Attempt \ Invite) \cup {NoAttempt}
  /\ challenge \in Banner \cup {NoAttempt}
  /\ expiry \subseteq Accept /\ cleanups \subseteq Accept
  /\ resets \in 0..MaxResets
  /\ made \in Seq(Attempt) /\ wire \in Seq(Attempt) /\ givenUp \subseteq Attempt

Init ==
  /\ ws = "connecting" /\ attempts = 0 /\ stable = FALSE /\ joined = FALSE
  /\ queue = <<>> /\ status = NoAttempt /\ challenge = NoAttempt
  /\ expiry = {} /\ cleanups = {} /\ resets = 0
  /\ made = <<>> /\ wire = <<>> /\ givenUp = {}

-----------------------------------------------------------------------------
(* Each definition of this module named "bug" is a mistake that could be made in
   the definition after it; the specification uses none of them. *)

(* createGoRealtimeClient *)

(* "open": the provider's listener asks to join the lobby. *)
Opens ==
  /\ ws = "connecting" /\ ws' = "open"
  /\ stable' = TRUE /\ joined' = FALSE
  /\ UNCHANGED <<attempts, flowVars, resets, history>>

bugStaysJoined ==
  /\ ws \in {"connecting", "open"}
  /\ ws' = IF attempts < MaxAttempts THEN "waiting" ELSE "given_up"
  /\ stable' = FALSE
  /\ UNCHANGED <<attempts, joined, flowVars, resets, history>>

(* "close", of a connection or of an attempt to connect. *)
Closes ==
  /\ ws \in {"connecting", "open"}
  /\ ws' = IF attempts < MaxAttempts THEN "waiting" ELSE "given_up"
  /\ stable' = FALSE /\ joined' = FALSE
  /\ UNCHANGED <<attempts, flowVars, resets, history>>

Reconnects ==
  /\ ws = "waiting" /\ ws' = "connecting" /\ attempts' = attempts + 1
  /\ UNCHANGED <<stable, joined, flowVars, resets, history>>

(* A minute on an open socket earns new reconnects. *)
StableTimerFires ==
  /\ stable /\ stable' = FALSE /\ attempts' = 0
  /\ UNCHANGED <<ws, joined, flowVars, resets, history>>

bugTimersGoToo(signedIn) ==
  /\ resets < MaxResets /\ resets' = resets + 1
  /\ ws' = IF signedIn THEN "connecting" ELSE "none"
  /\ attempts' = 0 /\ stable' = FALSE /\ joined' = FALSE
  /\ queue' = <<>> /\ cleanups' = {} /\ expiry' = expiry \ cleanups
  /\ givenUp' = givenUp \cup ToSet(queue)
  /\ UNCHANGED <<status, challenge, made, wire>>

(* clearSocket, and ensureSocket when somebody is signed in: the effect of the
   provider runs again whenever the session or the learner's name changes. *)
Reset(signedIn) ==
  /\ resets < MaxResets /\ resets' = resets + 1
  /\ ws' = IF signedIn THEN "connecting" ELSE "none"
  /\ attempts' = 0 /\ stable' = FALSE /\ joined' = FALSE
  /\ queue' = <<>> /\ cleanups' = {}
  /\ givenUp' = givenUp \cup ToSet(queue)
  /\ UNCHANGED <<status, challenge, expiry, made, wire>>

-----------------------------------------------------------------------------
(* runWhenLobbyReady *)
bugSendWhenOpen(a) ==
  IF ws = "open"
  THEN wire' = Append(wire, a) /\ UNCHANGED queue
  ELSE queue' = Append(queue, a) /\ UNCHANGED wire

RunWhenLobbyReady(a) ==
  IF ws = "open" /\ joined
  THEN wire' = Append(wire, a) /\ UNCHANGED queue
  ELSE queue' = Append(queue, a) /\ UNCHANGED wire

Make(a) ==
  /\ ws # "none" /\ a \notin ToSet(made)
  /\ made' = Append(made, a)
  /\ RunWhenLobbyReady(a)
  /\ UNCHANGED <<socketVars, joined, resets, givenUp>>

(* connectAndStart; the buttons are disabled while the page is connecting. *)
ConnectAndStart(a) ==
  /\ a \in Bot /\ status = NoAttempt
  /\ Make(a)
  /\ status' = a
  /\ UNCHANGED <<challenge, expiry, cleanups>>

AcceptWith(a) ==
  /\ Make(a)
  /\ challenge' = NoAttempt /\ status' = a
  /\ expiry' = expiry \cup {a} /\ cleanups' = cleanups \cup {a}

(* The banner is accepted (acceptPvpChallenge), or a link of a notification
   (acceptChallenge); both possible while the page is connecting. *)
AcceptPvpChallenge(a) == a \in Banner /\ challenge = a /\ AcceptWith(a)
AcceptChallenge(a) == a \in Link /\ AcceptWith(a)

(* challengeUser, which shows nothing on its own. *)
ChallengeUser(a) ==
  /\ a \in Invite
  /\ Make(a)
  /\ UNCHANGED <<status, challenge, expiry, cleanups>>

(* declinePvpChallenge: told to the server if the socket happens to be open. *)
DeclinePvpChallenge ==
  /\ ws # "none" /\ challenge # NoAttempt
  /\ challenge' = NoAttempt
  /\ UNCHANGED <<socketVars, joined, queue, status, expiry, cleanups, resets, history>>

(* goToLobby and cancelCountdown, before there is a match to forfeit. *)
GoToLobby ==
  /\ ws # "none"
  /\ queue' = <<>> /\ status' = NoAttempt
  /\ givenUp' = givenUp \cup ToSet(queue)
  /\ UNCHANGED <<socketVars, joined, challenge, expiry, cleanups, resets, made, wire>>

-----------------------------------------------------------------------------
(* What the server says. *)

(* battle:lobby_joined flushes the queue. *)
LobbyJoined ==
  /\ ws = "open" /\ ~joined
  /\ joined' = TRUE
  /\ wire' = wire \o queue
  /\ queue' = <<>>
  /\ UNCHANGED <<socketVars, status, challenge, expiry, cleanups, resets, made, givenUp>>

(* battle:user_challenge_received *)
ChallengeReceived(a) ==
  /\ ws = "open" /\ a \in Banner /\ a \notin ToSet(made)
  /\ challenge' = a
  /\ UNCHANGED <<socketVars, joined, queue, status, expiry, cleanups, resets, history>>

(* battle:challenge_expired, battle:challenge_declined *)
ChallengeGone ==
  /\ ws = "open" /\ challenge # NoAttempt
  /\ challenge' = NoAttempt
  /\ UNCHANGED <<socketVars, joined, queue, status, expiry, cleanups, resets, history>>

(* battle:match_found and battle:pvp_resync: a match is shown. *)
MatchFound ==
  /\ ws = "open"
  /\ status' = NoAttempt /\ challenge' \in {challenge, NoAttempt}
  /\ UNCHANGED <<socketVars, joined, queue, expiry, cleanups, resets, history>>

(* battle:pvp_match_found, battle:lobby_error and battle:error: acceptances made
   on this socket have been answered, or so the page takes it. *)
Settled ==
  /\ ws = "open"
  /\ status' = NoAttempt /\ challenge' \in {challenge, NoAttempt}
  /\ expiry' = expiry \ cleanups
  /\ UNCHANGED <<socketVars, joined, queue, cleanups, resets, history>>

-----------------------------------------------------------------------------
(* The timers of the flows. *)

(* Ten seconds in the queue: the entry is dropped and lobby_timeout is shown,
   whatever the page is showing. *)
LobbyTimeout(a) ==
  /\ a \notin expiry
  /\ \E i \in 1..Len(queue) : queue[i] = a /\ queue' = RemoveAt(queue, i)
  /\ status' = NoAttempt
  /\ givenUp' = givenUp \cup {a}
  /\ UNCHANGED <<socketVars, joined, challenge, expiry, cleanups, resets, made, wire>>

bugExpireOnly(a) ==
  /\ a \in expiry
  /\ expiry' = expiry \ {a}
  /\ status' = NoAttempt
  /\ givenUp' = IF status = NoAttempt THEN givenUp ELSE givenUp \cup {a}
  /\ UNCHANGED <<socketVars, joined, queue, challenge, cleanups, resets, made, wire>>

(* Eight seconds after an acceptance: the challenge is shown as expired if the
   page is connecting, to whatever.  Only the banner's timer clears the queue,
   and it clears all of it. *)
AcceptTimeout(a) ==
  /\ a \in expiry
  /\ expiry' = expiry \ {a}
  /\ status' = NoAttempt
  /\ queue' = IF a \in Banner THEN <<>> ELSE queue
  /\ givenUp' = givenUp \cup (IF a \in Banner THEN ToSet(queue) ELSE {})
                        \cup (IF status = NoAttempt THEN {} ELSE {a})
  /\ UNCHANGED <<socketVars, joined, challenge, cleanups, resets, made, wire>>

Next ==
  \/ Opens \/ Closes \/ Reconnects \/ StableTimerFires
  \/ \E signedIn \in BOOLEAN : Reset(signedIn)
  \/ \E a \in Attempt :
       \/ ConnectAndStart(a) \/ AcceptPvpChallenge(a) \/ AcceptChallenge(a)
       \/ ChallengeUser(a)
       \/ ChallengeReceived(a)
       \/ LobbyTimeout(a) \/ AcceptTimeout(a)
  \/ DeclinePvpChallenge \/ GoToLobby
  \/ LobbyJoined \/ MatchFound \/ Settled \/ ChallengeGone

Spec == Init /\ [][Next]_vars

(* Timers fire; nothing is assumed of networks, servers and learners. *)
FairSpec == /\ Spec
            /\ \A a \in Accept : WF_vars(AcceptTimeout(a))
            /\ WF_vars(Reconnects)

-----------------------------------------------------------------------------
(* Properties *)

(* "Runs queued actions once, in order": over every loss of the connection, new
   client and timer, what the learner asked for reaches the server at most
   once, and never overtakes what was asked for earlier; what still waits is
   younger than all that was sent. *)
SentOnceInOrder ==
  LET line == wire \o queue
      place(a) == CHOOSE i \in 1..Len(made) : made[i] = a
  IN \A i, j \in 1..Len(line) : i < j => place(line[i]) < place(line[j])

(* "The UI reports the challenge as expired, so it must not be sent afterwards":
   what the page's own timers gave up, what was dropped with its client and what
   was left behind for the lobby is not sent by a lobby joined later.  (Not so for
   links, whose timer leaves the queue alone.  A failure that the server reports
   leaves the queue alone too, and is not counted as given up.) *)
GivenUpIsNotSent ==
  [][\A i \in Len(wire) + 1 .. Len(wire') : wire'[i] \notin givenUp \ Link]_vars

(* Whatever the socket, the server and the learner do, an acceptance does not
   stay on "connecting": the timer that ends it is not lost with the socket
   whose events would have cleared it. *)
AcceptanceEnds == \A a \in Accept : status = a ~> status # a
=============================================================================
