------------------------------ MODULE LoginPoll ------------------------------
(***************************************************************************)
(* The login poll of internal/auth/poll.go over the registry of pending.go *)
(* and the account it ends in (provider.go:83-143).  A call of Poll looks  *)
(* its attempt up, asks Cursor, and then counts a network error, removes   *)
(* the attempt, clears the counter, or several of these.  The registry and *)
(* the counters have a lock each and no lock spans two steps, so polls of  *)
(* one attempt and of different attempts interleave between them.          *)
(*                                                                         *)
(* External: Cursor's poll endpoint may answer 404 at any time, and once   *)
(* the user has logged in may answer one poll or several with the tokens;  *)
(* the host polls when it likes, and may stop.                             *)
(***************************************************************************)
EXTENDS Naturals, Sequences

CONSTANTS
  Attempts,     \* ids of login attempts
  Polls,        \* calls of Poll; also the accounts they create
  MaxErrors,    \* maxConsecutiveNetworkErrors
  MaxPollTime,  \* maxPollDuration
  MaxTime,      \* bound on the clock
  None

ASSUME AttemptsAssumption == None \notin Attempts \cup Polls
ASSUME MaxErrorsAssumption == MaxErrors \in Nat \ {0}
ASSUME TimesAssumption == MaxPollTime \in Nat /\ MaxTime \in Nat

VARIABLES
  started,   \* the attempts ever started
  pending,   \* pendingLoginStore.byID: the attempts registered
  deadline,  \* their deadlines
  errors,    \* consecutiveNetworkErrors, 0 for an id without an entry
  loggedIn,  \* the attempts whose user has logged in
  now,       \* the clock
  pc,        \* where each poll stands
  attempt,   \* the attempt it polls
  status,    \* what it returns, with the kind of an error
  accounts,  \* the polls whose account is in the store
  trips      \* history: how the polls of an attempt fared, in counter order

vars == <<started, pending, deadline, errors, loggedIn, now, pc, attempt, status,
          accounts, trips>>

\* The answers that end an attempt, and the one for an attempt that is over.
Ending == {"success", "rejected", "timeout", "networkError"}
Statuses == Ending \cup {"pending", "unknown", "none"}

TypeOK ==
  /\ started \subseteq Attempts
  /\ pending \subseteq started
  /\ deadline \in [Attempts -> Nat]
  /\ errors \in [Attempts -> Nat]
  /\ loggedIn \subseteq started
  /\ now \in 0..MaxTime
  /\ pc \in [Polls -> {"idle", "found", "asking", "counting", "removing", "clearing",
                       "recording", "done"}]
  /\ attempt \in [Polls -> Attempts \cup {None}]
  /\ status \in [Polls -> Statuses]
  /\ accounts \subseteq Polls
  /\ trips \in [Attempts -> Seq({"ok", "failed"})]

Init ==
  /\ started = {}
  /\ pending = {}
  /\ deadline = [a \in Attempts |-> 0]
  /\ errors = [a \in Attempts |-> 0]
  /\ loggedIn = {}
  /\ now = 0
  /\ pc = [p \in Polls |-> "idle"]
  /\ attempt = [p \in Polls |-> None]
  /\ status = [p \in Polls |-> "none"]
  /\ accounts = {}
  /\ trips = [a \in Attempts |-> <<>>]

Goto(p, state) == pc' = [pc EXCEPT ![p] = state]
-----------------------------------------------------------------------------
StartLogin(a) ==
  /\ a \notin started
  /\ started' = started \cup {a}
  /\ pending' = pending \cup {a}
  /\ deadline' = [deadline EXCEPT ![a] = now + MaxPollTime]
  /\ UNCHANGED <<errors, loggedIn, now, pc, attempt, status, accounts, trips>>

UserLogsIn(a) ==
  /\ a \in started \ loggedIn
  /\ loggedIn' = loggedIn \cup {a}
  /\ UNCHANGED <<started, pending, deadline, errors, now, pc, attempt, status,
                 accounts, trips>>

Tick ==
  /\ now < MaxTime
  /\ now' = now + 1
  /\ UNCHANGED <<started, pending, deadline, errors, loggedIn, pc, attempt, status,
                 accounts, trips>>
-----------------------------------------------------------------------------
(* Poll.                                                                   *)

AfterLookupTakes(a) == pending \ {a}
\* The lookup leaves the attempt registered.
AfterLookup(a) == pending

LooksUp(p, a) ==
  /\ pc[p] = "idle"
  /\ a \in started
  /\ attempt' = [attempt EXCEPT ![p] = a]
  /\ pending' = AfterLookup(a)
  /\ IF a \in pending
       THEN Goto(p, "found") /\ UNCHANGED status
       ELSE Goto(p, "done") /\ status' = [status EXCEPT ![p] = "unknown"]
  /\ UNCHANGED <<started, deadline, errors, loggedIn, now, accounts, trips>>

\* The deadline of the copy it got, which another poll may have removed since.
\* The request that follows is always built: its URL is a constant with a uuid
\* and a base64url verifier in it.
ChecksDeadline(p) ==
  /\ pc[p] = "found"
  /\ IF now > deadline[attempt[p]]
       THEN Goto(p, "removing") /\ status' = [status EXCEPT ![p] = "timeout"]
       ELSE Goto(p, "asking") /\ UNCHANGED status
  /\ UNCHANGED <<started, pending, deadline, errors, loggedIn, now, attempt, accounts, trips>>

Answered(p, state, how) ==
  /\ pc[p] = "asking"
  /\ Goto(p, state)
  /\ status' = [status EXCEPT ![p] = how]
  /\ UNCHANGED <<started, pending, deadline, errors, loggedIn, now, attempt, accounts,
                 trips>>

\* 404: the user has not finished.
NotYet(p) == Answered(p, "clearing", "pending")

\* No answer, or a body that cannot be read.
NoAnswer(p) == Answered(p, "counting", "none")

\* Another status, or a body that does not parse or holds no access token.
Rejects(p) == Answered(p, "removing", "rejected")

\* The tokens.
Tokens(p) == attempt[p] \in loggedIn /\ Answered(p, "removing", "success")

CounterShared(p) == CHOOSE a \in Attempts : TRUE
\* The counter of a poll's attempt.
Counter(p) == attempt[p]

\* handleNetworkError: the increment and its reading are one locked step.
CountsError(p) ==
  /\ pc[p] = "counting"
  /\ errors' = [errors EXCEPT ![Counter(p)] = @ + 1]
  /\ trips' = [trips EXCEPT ![attempt[p]] = Append(@, "failed")]
  /\ IF errors'[Counter(p)] >= MaxErrors
       THEN Goto(p, "removing") /\ status' = [status EXCEPT ![p] = "networkError"]
       ELSE Goto(p, "done") /\ status' = [status EXCEPT ![p] = "pending"]
  /\ UNCHANGED <<started, pending, deadline, loggedIn, now, attempt, accounts>>

AfterRemovalForgetful(p) ==
  IF status[p] = "rejected" THEN pending ELSE pending \ {attempt[p]}
AfterRemoval(p) == pending \ {attempt[p]}

Removes(p) ==
  /\ pc[p] = "removing"
  /\ pending' = AfterRemoval(p)
  /\ Goto(p, "clearing")
  /\ UNCHANGED <<started, deadline, errors, loggedIn, now, attempt, status, accounts,
                 trips>>

AfterClear(p) == IF status[p] = "success" THEN "recording" ELSE "done"

\* clearNetworkErrors; after a success PollLogin goes on to the store.
Clears(p) ==
  /\ pc[p] = "clearing"
  /\ errors' = [errors EXCEPT ![Counter(p)] = 0]
  /\ trips' = IF status[p] = "pending"
                THEN [trips EXCEPT ![attempt[p]] = Append(@, "ok")] ELSE trips
  /\ Goto(p, AfterClear(p))
  /\ UNCHANGED <<started, pending, deadline, loggedIn, now, attempt, status, accounts>>

\* The account of a successful poll gets an id of its own.
Records(p) ==
  /\ pc[p] = "recording"
  /\ accounts' = accounts \cup {p}
  /\ Goto(p, "done")
  /\ UNCHANGED <<started, pending, deadline, errors, loggedIn, now, attempt, status, trips>>

Next ==
  \/ \E a \in Attempts : \/ StartLogin(a) \/ UserLogsIn(a)
                         \/ \E p \in Polls : LooksUp(p, a)
  \/ \E p \in Polls : \/ ChecksDeadline(p) \/ NotYet(p) \/ NoAnswer(p) \/ Rejects(p) \/ Tokens(p)
                      \/ CountsError(p) \/ Removes(p) \/ Clears(p) \/ Records(p)
  \/ Tick

Spec == Init /\ [][Next]_vars
-----------------------------------------------------------------------------
(* Properties.                                                             *)

Returned(p) == pc[p] = "done"

\* No attempt is lost: one that is no longer registered ended for a poll,
\* which tells the host so.  A host that only hears "pending" has not lost
\* its login (poll.go:92-97).
NoAttemptLost ==
  \A a \in started \ pending :
    \E p \in Polls : attempt[p] = a /\ status[p] \in Ending

\* A network failure ends an attempt only as the last of MaxErrors failures
\* of polls of that very attempt, with no successful round trip among them
\* (poll.go:45-51, 120-123).
ThreeStrikes ==
  [][\A p \in Polls : status[p] # "networkError" /\ status'[p] = "networkError" =>
       LET t == trips'[attempt[p]] IN
         /\ Len(t) >= MaxErrors
         /\ \A k \in (Len(t) - MaxErrors + 1)..Len(t) : t[k] = "failed"]_vars

\* An attempt that has ended for one poll is over: no poll that begins then
\* finds it and asks Cursor about it again, so a host that polls one call at a
\* time gets one account from a login at most.
EndedIsOver ==
  [][\A p \in Polls : pc[p] = "idle" /\ pc'[p] = "found" =>
       ~\E q \in Polls : attempt[q] = attempt'[p] /\ Returned(q) /\ status[q] \in Ending]_vars
=============================================================================
