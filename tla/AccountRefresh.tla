--------------------------- MODULE AccountRefresh ---------------------------
(***************************************************************************)
(* The life of a Cursor account: the account store (internal/account), the *)
(* provider that is its only writer (internal/auth/provider.go), and the   *)
(* token refresh that concurrent calls for one account share through       *)
(* singleflight (internal/auth/refresh.go).  A call of RefreshAuth is five *)
(* steps: the host calls it with the stored auth it has, it joins or       *)
(* starts the flight of its account, the flight meets Cursor's server, the *)
(* call wakes up with the flight's result, and it writes the store.  Other *)
(* calls run between any two of them.                                      *)
(*                                                                         *)
(* External, modelled from how the code uses them: Cursor's token server,  *)
(* which may or may not rotate the credential it is shown, and the host,   *)
(* which persists what the calls return and may restart the plugin.        *)
(***************************************************************************)
EXTENDS Naturals

CONSTANTS
  Accounts,     \* auth ids
  Calls,        \* calls of RefreshAuth
  MaxRestarts,  \* bound on the restarts of the plugin process
  None

ASSUME AccountsAssumption == None \notin Accounts \cup Calls
ASSUME MaxRestartsAssumption == MaxRestarts \in Nat

VARIABLES
  store,     \* account.Store
  file,      \* the StorageJSON the host holds for each account
  issued,    \* how many access tokens the server issued to each account
  accepted,  \* the credentials the server accepts for a refresh
  pc,        \* where each call stands
  acct,      \* the account of each call
  shown,     \* the stored tokens the host passed to it
  start,     \* history: the access token in the store when it joined
  leader,    \* the call that runs its flight
  reply,     \* the server's answer to the flight a call leads
  result,    \* what that flight returned
  restarts

storeVars == <<store, file>>
serverVars == <<issued, accepted>>
callVars == <<pc, acct, shown, start, leader, reply, result>>
vars == <<storeVars, serverVars, callVars, restarts>>

\* A credential is an access token, a refresh token, or missing.
NoCred == <<"none", 0>>
Credential == ({"access", "refresh"} \X Nat) \cup {NoCred}

\* What is issued together, and the account it was issued to.
Tokens == [owner : Accounts \cup {None}, access : Nat, refresh : Credential]
NoTokens == [owner |-> None, access |-> 0, refresh |-> NoCred]

Unanswered == [kind |-> "none", tokens |-> NoTokens]
Rejected == [kind |-> "rejected", tokens |-> NoTokens]
Transient == [kind |-> "transient", tokens |-> NoTokens]
Ok(tokens) == [kind |-> "ok", tokens |-> tokens]
Answers == [kind : {"none", "ok", "rejected", "transient"}, tokens : Tokens]

Statuses == {"active", "degraded", "needs_reauth"}
States == [status : Statuses \cup {"absent"}, tokens : Tokens]
Absent == [status |-> "absent", tokens |-> NoTokens]

TypeOK ==
  /\ store \in [Accounts -> States]
  /\ file \in [Accounts -> Tokens]
  /\ issued \in [Accounts -> Nat]
  /\ accepted \in [Accounts -> SUBSET Credential]
  /\ pc \in [Calls -> {"idle", "called", "upstream", "answered", "waiting", "got",
                       "done", "saved"}]
  /\ acct \in [Calls -> Accounts \cup {None}]
  /\ shown \in [Calls -> Tokens]
  /\ start \in [Calls -> Nat]
  /\ leader \in [Calls -> Calls \cup {None}]
  /\ reply \in [Calls -> Answers]
  /\ result \in [Calls -> Answers]
  /\ restarts \in 0..MaxRestarts

Init ==
  /\ store = [a \in Accounts |-> Absent]
  /\ file = [a \in Accounts |-> NoTokens]
  /\ issued = [a \in Accounts |-> 0]
  /\ accepted = [a \in Accounts |-> {}]
  /\ pc = [c \in Calls |-> "idle"]
  /\ acct = [c \in Calls |-> None]
  /\ shown = [c \in Calls |-> NoTokens]
  /\ start = [c \in Calls |-> 0]
  /\ leader = [c \in Calls |-> None]
  /\ reply = [c \in Calls |-> Unanswered]
  /\ result = [c \in Calls |-> Unanswered]
  /\ restarts = 0
-----------------------------------------------------------------------------
(* The store's writers.                                                    *)

Set(a, tokens) == store' = [store EXCEPT ![a] = [status |-> "active", tokens |-> tokens]]

\* The last known tokens stay; an unknown account gets a record without any.
MarkDegraded(a, status) ==
  store' = [store EXCEPT ![a].status = status]

\* PollLogin's success: a fresh account id, a file of its own that the host
\* writes as the call returns.  Cursor may
\* leave out the refresh token, and the access token then serves as one.
LoginSucceeds(a, refreshable) ==
  /\ issued[a] = 0
  /\ LET cred == <<IF refreshable THEN "refresh" ELSE "access", 1>>
         tokens == [owner |-> a, access |-> 1,
                    refresh |-> IF refreshable THEN cred ELSE NoCred]
     IN /\ accepted' = [accepted EXCEPT ![a] = {cred}]
        /\ file' = [file EXCEPT ![a] = tokens]
        /\ Set(a, tokens)
  /\ issued' = [issued EXCEPT ![a] = 1]
  /\ UNCHANGED <<callVars, restarts>>

\* The host parses the file again: at a restart, or when it changes.
ParseAuth(a) ==
  /\ file[a] # NoTokens
  /\ Set(a, file[a])
  /\ UNCHANGED <<file, serverVars, callVars, restarts>>
-----------------------------------------------------------------------------
(* RefreshAuth.                                                            *)

HostCalls(c, a) ==
  /\ pc[c] = "idle"
  /\ file[a] # NoTokens
  /\ pc' = [pc EXCEPT ![c] = "called"]
  /\ acct' = [acct EXCEPT ![c] = a]
  /\ shown' = [shown EXCEPT ![c] = file[a]]
  /\ UNCHANGED <<storeVars, serverVars, start, leader, reply, result, restarts>>

\* The StorageJSON does not parse.
BadStorage(c) ==
  /\ pc[c] = "called"
  /\ MarkDegraded(acct[c], "needs_reauth")
  /\ pc' = [pc EXCEPT ![c] = "done"]
  /\ UNCHANGED <<file, serverVars, acct, shown, start, leader, reply, result, restarts>>

\* The credential of stored tokens: an account without a refresh token is
\* refreshed with its access token.
TokenToRefresh(tokens) ==
  IF tokens.refresh # NoCred THEN tokens.refresh ELSE <<"access", tokens.access>>

KeyShared(c) == "cursor"
\* The key of the singleflight group.
Key(c) == acct[c]

OpenForever(d) == leader[d] = d
OpenNever(d) == FALSE
\* The flight of d can be joined until its function has returned.
Open(d) == pc[d] \in {"upstream", "answered"}

Joinable(c) == {d \in Calls \ {c} : Open(d) /\ Key(d) = Key(c)}

Join(c) ==
  /\ pc[c] = "called"
  /\ start' = [start EXCEPT ![c] = store[acct[c]].tokens.access]
  /\ IF Joinable(c) = {}
       THEN /\ leader' = [leader EXCEPT ![c] = c]
            /\ pc' = [pc EXCEPT ![c] = "upstream"]
       ELSE \E d \in Joinable(c) :
              /\ leader' = [leader EXCEPT ![c] = d]
              /\ pc' = [pc EXCEPT ![c] = "waiting"]
  /\ UNCHANGED <<storeVars, serverVars, acct, shown, reply, result, restarts>>

NewRefreshTokenEmpty(rotates, n, cred) == IF rotates THEN <<"refresh", n>> ELSE NoCred
\* Cursor may omit a rotated refresh token: the one shown is kept.
NewRefreshToken(rotates, n, cred) == IF rotates THEN <<"refresh", n>> ELSE cred

\* The server takes the credential of the call that leads the flight.
ServerIssues(c, rotates) ==
  /\ pc[c] = "upstream"
  /\ LET a == acct[c]
         n == issued[a] + 1
         cred == TokenToRefresh(shown[c])
     IN /\ cred \in accepted[a]
        /\ issued' = [issued EXCEPT ![a] = n]
        /\ accepted' = [accepted EXCEPT
             ![a] = IF rotates THEN (@ \ {cred}) \cup {<<"refresh", n>>} ELSE @]
        /\ reply' = [reply EXCEPT ![c] =
             Ok([owner |-> a, access |-> n, refresh |-> NewRefreshToken(rotates, n, cred)])]
  /\ pc' = [pc EXCEPT ![c] = "answered"]
  /\ UNCHANGED <<storeVars, acct, shown, start, leader, result, restarts>>

ServerRejects(c) ==
  /\ pc[c] = "upstream"
  /\ TokenToRefresh(shown[c]) \notin accepted[acct[c]]
  /\ reply' = [reply EXCEPT ![c] = Rejected]
  /\ pc' = [pc EXCEPT ![c] = "answered"]
  /\ UNCHANGED <<storeVars, serverVars, acct, shown, start, leader, result, restarts>>

\* The user ends the session elsewhere: nothing is accepted any more.
Revoke(a) ==
  /\ accepted[a] # {}
  /\ accepted' = [accepted EXCEPT ![a] = {}]
  /\ UNCHANGED <<storeVars, issued, callVars, restarts>>

FlightReturns(c, how) ==
  /\ result' = [result EXCEPT ![c] = how]
  /\ pc' = [pc EXCEPT ![c] = "got"]
  /\ UNCHANGED <<storeVars, serverVars, acct, shown, start, leader, reply, restarts>>

FlightSucceeds(c) == pc[c] = "answered" /\ FlightReturns(c, reply[c])

\* No connection, a lost or unreadable answer, another status, the timeout
\* of the HTTP client; the caller's own context plays no part.
FlightFails(c) == pc[c] \in {"upstream", "answered"} /\ FlightReturns(c, Transient)

FlightOverOk(d) == result[d].kind = "ok"
FlightOver(d) == result[d] # Unanswered

Wake(c) ==
  /\ pc[c] = "waiting"
  /\ FlightOver(leader[c])
  /\ pc' = [pc EXCEPT ![c] = "got"]
  /\ UNCHANGED <<storeVars, serverVars, acct, shown, start, leader, reply, result, restarts>>

\* The outcome a call has woken up with.
Outcome(c) == IF leader[c] = None THEN Unanswered ELSE result[leader[c]]

Record(c) ==
  /\ pc[c] = "got"
  /\ IF Outcome(c).kind = "ok"
       THEN Set(acct[c], Outcome(c).tokens)
       ELSE MarkDegraded(acct[c], "needs_reauth")
  /\ pc' = [pc EXCEPT ![c] = "done"]
  /\ UNCHANGED <<file, serverVars, acct, shown, start, leader, reply, result, restarts>>

\* The host persists what a successful call returned.
HostSaves(c) ==
  /\ pc[c] = "done"
  /\ Outcome(c).kind = "ok"
  /\ file' = [file EXCEPT ![acct[c]] = Outcome(c).tokens]
  /\ pc' = [pc EXCEPT ![c] = "saved"]
  /\ UNCHANGED <<store, serverVars, acct, shown, start, leader, reply, result, restarts>>

\* The store is in memory only, and the calls under way are gone.
Restart ==
  /\ restarts < MaxRestarts
  /\ restarts' = restarts + 1
  /\ store' = [a \in Accounts |-> Absent]
  /\ pc' = [c \in Calls |-> IF pc[c] = "idle" THEN "idle" ELSE "saved"]
  /\ acct' = [c \in Calls |-> None]
  /\ shown' = [c \in Calls |-> NoTokens]
  /\ start' = [c \in Calls |-> 0]
  /\ leader' = [c \in Calls |-> None]
  /\ reply' = [c \in Calls |-> Unanswered]
  /\ result' = [c \in Calls |-> Unanswered]
  /\ UNCHANGED <<file, serverVars>>

Next ==
  \/ \E a \in Accounts : \/ \E refreshable \in BOOLEAN : LoginSucceeds(a, refreshable)
                         \/ ParseAuth(a)
                         \/ Revoke(a)
                         \/ \E c \in Calls : HostCalls(c, a)
  \/ \E c \in Calls : \/ BadStorage(c) \/ Join(c)
                      \/ \E rotates \in BOOLEAN : ServerIssues(c, rotates)
                      \/ ServerRejects(c) \/ FlightSucceeds(c) \/ FlightFails(c)
                      \/ Wake(c) \/ Record(c) \/ HostSaves(c)
  \/ Restart

(***************************************************************************)
(* The goroutines of the calls run, and the 30 second timeout of the HTTP  *)
(* client ends a flight.                                                   *)
(***************************************************************************)
Fairness == \A c \in Calls : /\ WF_vars(BadStorage(c) \/ Join(c))
                             /\ WF_vars(FlightFails(c))
                             /\ WF_vars(Wake(c))
                             /\ WF_vars(Record(c))

Spec == Init /\ [][Next]_vars /\ Fairness
-----------------------------------------------------------------------------
(* Properties.                                                             *)

\* "two near-simultaneous refresh triggers coalesce into one upstream call"
\* (refresh.go:49-51): the plugin never has two requests for one account under
\* way.  (After a time-out of the client Cursor may still be busy with the last.)
OneFlightPerAccount ==
  \A c, d \in Calls :
    pc[c] \in {"upstream", "answered"} /\ pc[d] \in {"upstream", "answered"} /\ c # d =>
      acct[c] # acct[d]

\* "multiple Cursor accounts can be parsed and tracked independently instead
\* of colliding" (provider.go:51-55): an account is active only with tokens
\* Cursor issued to that very account, whichever flights its calls joined.
ActiveWithOwnTokens ==
  \A a \in Accounts : store[a].status = "active" =>
    /\ store[a].tokens.owner = a
    /\ store[a].tokens.access \in 1..issued[a]

\* A refresh never sets an account back behind what it had when the refresh
\* began, however long the call sleeps before it writes the store.
RefreshNeverRegresses ==
  \A c \in Calls :
    Outcome(c).kind = "ok" => Outcome(c).tokens.access > start[c]

\* A refresh leaves an account that can be refreshed again: the credential
\* in its result is one the server accepts, until the server issues newer
\* tokens or the session is revoked (refresh.go:101-106).
RefreshableAgain ==
  \A c \in Calls :
    LET a == acct[c] IN
      Outcome(c).kind = "ok" /\ issued[a] = Outcome(c).tokens.access /\ accepted[a] # {} =>
        TokenToRefresh(Outcome(c).tokens) \in accepted[a]

\* Every call returns, those that share the flight of another included.
CallsReturn == \A c \in Calls : pc[c] = "called" ~> pc[c] \in {"done", "saved"}
=============================================================================
