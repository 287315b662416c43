------------------------- MODULE AccountRefreshProofs -------------------------
(***************************************************************************)
(* Theorems about AccountRefresh for any accounts, any number of           *)
(* concurrent calls and any number of restarts: types, one flight for each *)
(* account, tokens that stay with the account they were issued to, and     *)
(* refreshes that never set an account back nor end its session.           *)
(***************************************************************************)
EXTENDS AccountRefresh, TLAPS

USE DEF storeVars, serverVars, callVars

LEMMA TokensAreTokens ==
  /\ NoCred \in Credential
  /\ NoTokens \in Tokens
  /\ \A n \in Nat : <<"access", n>> \in Credential /\ <<"refresh", n>> \in Credential
BY DEF NoCred, Credential, NoTokens, Tokens

LEMMA AnswersAreAnswers ==
  /\ Unanswered \in Answers
  /\ Rejected \in Answers
  /\ Transient \in Answers
  /\ \A tokens \in Tokens : Ok(tokens) \in Answers
BY TokensAreTokens DEF Unanswered, Rejected, Transient, Ok, Answers

LEMMA AccountsAreActive ==
  /\ Absent \in States
  /\ \A tokens \in Tokens : [status |-> "active", tokens |-> tokens] \in States
BY TokensAreTokens DEF Absent, States, Statuses

LEMMA SetType ==
  ASSUME store \in [Accounts -> States], NEW a \in Accounts, NEW tokens \in Tokens,
         Set(a, tokens)
  PROVE  store' \in [Accounts -> States]
BY AccountsAreActive DEF Set

LEMMA MarkDegradedType ==
  ASSUME store \in [Accounts -> States], NEW a, MarkDegraded(a, "needs_reauth")
  PROVE  store' \in [Accounts -> States]
<1> DEFINE s == [store[a] EXCEPT !.status = "needs_reauth"]
<1>1. a \in Accounts => s \in States
  BY DEF States, Statuses
<1>2. store' = [store EXCEPT ![a] = s]
  BY DEF MarkDegraded
<1> QED
  BY <1>1, <1>2

\* What the calls that are under way rely on: their account, the flight they
\* lead or have joined, and no result before it is over.
CallsPlaced ==
  \A c \in Calls :
    /\ pc[c] \notin {"idle", "saved"} => acct[c] \in Accounts
    /\ reply[c].kind = "ok" \/ result[c].kind = "ok" => acct[c] \in Accounts
    /\ pc[c] \in {"upstream", "answered"} => leader[c] = c /\ result[c] = Unanswered
    /\ leader[c] # None => /\ acct[c] \in Accounts
                           /\ acct[leader[c]] = acct[c]
                           /\ pc[leader[c]] \notin {"idle", "called", "waiting"}
    /\ pc[c] \in {"waiting", "got"} => leader[c] # None
    /\ pc[c] \in {"idle", "called"} =>
         leader[c] = None /\ reply[c] = Unanswered /\ result[c] = Unanswered

LEMMA OutcomeType ==
  ASSUME TypeOK, NEW c \in Calls
  PROVE  Outcome(c) \in Answers
BY AnswersAreAnswers, AccountsAssumption DEF TypeOK, Outcome

LEMMA InitTypes == Init => TypeOK /\ CallsPlaced
<1> SUFFICES ASSUME Init PROVE TypeOK /\ CallsPlaced
  OBVIOUS
<1>1. TypeOK
  BY TokensAreTokens, AnswersAreAnswers, AccountsAreActive, MaxRestartsAssumption
     DEF Init, TypeOK
<1>2. CallsPlaced
  BY DEF Init, CallsPlaced, Unanswered
<1> QED
  BY <1>1, <1>2

LEMMA TypeStep == TypeOK /\ CallsPlaced /\ [Next]_vars => TypeOK'
<1> SUFFICES ASSUME TypeOK, CallsPlaced, [Next]_vars PROVE TypeOK'
  OBVIOUS
<1> USE TokensAreTokens, AnswersAreAnswers DEF TypeOK
<1>1. ASSUME NEW a \in Accounts, NEW refreshable \in BOOLEAN, LoginSucceeds(a, refreshable)
      PROVE  TypeOK'
  <2> DEFINE cred == <<IF refreshable THEN "refresh" ELSE "access", 1>>
             tokens == [owner |-> a, access |-> 1,
                        refresh |-> IF refreshable THEN cred ELSE NoCred]
  <2>1. cred \in Credential
    OBVIOUS
  <2>2. tokens \in Tokens
    BY <2>1 DEF Tokens
  <2>3. store' \in [Accounts -> States]
    BY <1>1, <2>2, SetType DEF LoginSucceeds
  <2>4. accepted' = [accepted EXCEPT ![a] = {cred}] /\ file' = [file EXCEPT ![a] = tokens]
    BY <1>1 DEF LoginSucceeds
  <2>5. issued' = [issued EXCEPT ![a] = 1] /\ UNCHANGED <<callVars, restarts>>
    BY <1>1 DEF LoginSucceeds
  <2> HIDE DEF cred, tokens
  <2>6. accepted' \in [Accounts -> SUBSET Credential] /\ file' \in [Accounts -> Tokens]
    BY <2>1, <2>2, <2>4
  <2> QED
    BY <2>3, <2>5, <2>6
<1>2. ASSUME NEW a \in Accounts, ParseAuth(a) PROVE TypeOK'
  <2>1. store' \in [Accounts -> States]
    BY <1>2, SetType DEF ParseAuth
  <2> QED
    BY <1>2, <2>1 DEF ParseAuth
<1>3. ASSUME NEW a \in Accounts, Revoke(a) PROVE TypeOK'
  BY <1>3 DEF Revoke
<1>4. ASSUME NEW a \in Accounts, NEW c \in Calls, HostCalls(c, a) PROVE TypeOK'
  BY <1>4 DEF HostCalls
<1>5. ASSUME NEW c \in Calls, BadStorage(c) PROVE TypeOK'
  <2>1. store' \in [Accounts -> States]
    BY <1>5, MarkDegradedType DEF BadStorage
  <2> QED
    BY <1>5, <2>1 DEF BadStorage
<1>6. ASSUME NEW c \in Calls, Join(c) PROVE TypeOK'
  <2>1. store[acct[c]].tokens.access \in Nat
    BY <1>6 DEF Join, CallsPlaced, States, Tokens
  <2>2. Joinable(c) \subseteq Calls
    BY DEF Joinable
  <2> QED
    BY <1>6, <2>1, <2>2 DEF Join
<1>7. ASSUME NEW c \in Calls, NEW rotates \in BOOLEAN, ServerIssues(c, rotates) PROVE TypeOK'
  <2> DEFINE a == acct[c]
             n == issued[a] + 1
             cred == TokenToRefresh(shown[c])
             new == [owner |-> a, access |-> n, refresh |-> NewRefreshToken(rotates, n, cred)]
  <2>1. a \in Accounts /\ n \in Nat
    BY <1>7 DEF ServerIssues, CallsPlaced
  <2>2. cred \in Credential
    BY <1>7, <2>1 DEF ServerIssues
  <2>3. new \in Tokens
    BY <2>1, <2>2 DEF Tokens, NewRefreshToken
  <2>4. /\ issued' = [issued EXCEPT ![a] = n]
        /\ reply' = [reply EXCEPT ![c] = Ok(new)]
        /\ accepted' = [accepted EXCEPT
             ![a] = IF rotates THEN (@ \ {cred}) \cup {<<"refresh", n>>} ELSE @]
    BY <1>7 DEF ServerIssues
  <2>5. accepted' \in [Accounts -> SUBSET Credential]
    <3> DEFINE kept == IF rotates THEN (accepted[a] \ {cred}) \cup {<<"refresh", n>>}
                                  ELSE accepted[a]
    <3>1. <<"refresh", n>> \in Credential
      BY <2>1 DEF Credential
    <3>2. kept \in SUBSET Credential
      BY <2>1, <3>1
    <3>3. accepted' = [accepted EXCEPT ![a] = kept]
      BY <2>4
    <3> HIDE DEF kept, a
    <3> QED
      BY <3>2, <3>3
  <2> QED
    BY <1>7, <2>1, <2>3, <2>4, <2>5 DEF ServerIssues
<1>8. ASSUME NEW c \in Calls, ServerRejects(c) PROVE TypeOK'
  BY <1>8 DEF ServerRejects
<1>9. ASSUME NEW c \in Calls, FlightSucceeds(c) \/ FlightFails(c) PROVE TypeOK'
  BY <1>9 DEF FlightSucceeds, FlightFails, FlightReturns
<1>10. ASSUME NEW c \in Calls, Wake(c) PROVE TypeOK'
  BY <1>10 DEF Wake
<1>11. ASSUME NEW c \in Calls, Record(c) PROVE TypeOK'
  <2>1. acct[c] \in Accounts /\ Outcome(c).tokens \in Tokens
    BY <1>11, OutcomeType DEF Record, CallsPlaced, Answers
  <2>2. store' \in [Accounts -> States]
    BY <1>11, <2>1, SetType, MarkDegradedType DEF Record
  <2> QED
    BY <1>11, <2>2 DEF Record
<1>12. ASSUME NEW c \in Calls, HostSaves(c) PROVE TypeOK'
  <2>1. Outcome(c).tokens \in Tokens
    BY OutcomeType DEF Answers
  <2> QED
    BY <1>12, <2>1 DEF HostSaves
<1>13. CASE Restart
  <2>1. restarts' \in 0..MaxRestarts
    BY <1>13, MaxRestartsAssumption DEF Restart
  <2> QED
    BY <1>13, <2>1, AccountsAreActive DEF Restart
<1>14. CASE UNCHANGED vars
  BY <1>14 DEF vars
<1> QED
  BY <1>1, <1>2, <1>3, <1>4, <1>5, <1>6, <1>7, <1>8, <1>9, <1>10, <1>11, <1>12, <1>13,
     <1>14 DEF Next

LEMMA CallsPlacedStep == TypeOK /\ CallsPlaced /\ [Next]_vars => CallsPlaced'
<1> SUFFICES ASSUME TypeOK, CallsPlaced, [Next]_vars PROVE CallsPlaced'
  OBVIOUS
<1> USE AccountsAssumption DEF TypeOK, CallsPlaced
<1>1. ASSUME NEW a \in Accounts, NEW refreshable \in BOOLEAN, LoginSucceeds(a, refreshable)
      PROVE  CallsPlaced'
  BY <1>1 DEF LoginSucceeds
<1>2. ASSUME NEW a \in Accounts, ParseAuth(a) \/ Revoke(a) PROVE CallsPlaced'
  BY <1>2 DEF ParseAuth, Revoke
<1>3. ASSUME NEW a \in Accounts, NEW c \in Calls, HostCalls(c, a) PROVE CallsPlaced'
  BY <1>3 DEF HostCalls
<1>4. ASSUME NEW c \in Calls, BadStorage(c) PROVE CallsPlaced'
  BY <1>4 DEF BadStorage
<1>5. ASSUME NEW c \in Calls, Join(c) PROVE CallsPlaced'
  BY <1>5 DEF Join, Joinable, Open, Key
<1>6. ASSUME NEW c \in Calls, NEW rotates \in BOOLEAN, ServerIssues(c, rotates)
      PROVE  CallsPlaced'
  BY <1>6 DEF ServerIssues
<1>7. ASSUME NEW c \in Calls, ServerRejects(c) PROVE CallsPlaced'
  BY <1>7 DEF ServerRejects
<1>8. ASSUME NEW c \in Calls, FlightSucceeds(c) \/ FlightFails(c) PROVE CallsPlaced'
  BY <1>8 DEF FlightSucceeds, FlightFails, FlightReturns, Transient
<1>9. ASSUME NEW c \in Calls, Wake(c) PROVE CallsPlaced'
  BY <1>9 DEF Wake
<1>10. ASSUME NEW c \in Calls, Record(c) PROVE CallsPlaced'
  BY <1>10 DEF Record
<1>11. ASSUME NEW c \in Calls, HostSaves(c) PROVE CallsPlaced'
  BY <1>11 DEF HostSaves
<1>12. CASE Restart
  BY <1>12 DEF Restart, Unanswered
<1>13. CASE UNCHANGED vars
  BY <1>13 DEF vars
<1> QED
  BY <1>1, <1>2, <1>3, <1>4, <1>5, <1>6, <1>7, <1>8, <1>9, <1>10, <1>11, <1>12, <1>13
     DEF Next

LEMMA Placed == Spec => [](TypeOK /\ CallsPlaced)
BY InitTypes, TypeStep, CallsPlacedStep, PTL DEF Spec

\* Every variable keeps its type, for every instance of the constants.
THEOREM TypeCorrect == Spec => []TypeOK
BY Placed, PTL
-----------------------------------------------------------------------------
(* One flight for each account.                                            *)

InFlight(c) == pc[c] \in {"upstream", "answered"}

LEMMA OneFlightStep ==
  TypeOK /\ CallsPlaced /\ OneFlightPerAccount /\ [Next]_vars => OneFlightPerAccount'
<1> SUFFICES ASSUME TypeOK, CallsPlaced, OneFlightPerAccount, [Next]_vars
             PROVE  OneFlightPerAccount'
  OBVIOUS
<1> USE DEF TypeOK, OneFlightPerAccount
<1>1. ASSUME NEW a \in Accounts, NEW refreshable \in BOOLEAN, LoginSucceeds(a, refreshable)
      PROVE  OneFlightPerAccount'
  BY <1>1 DEF LoginSucceeds
<1>2. ASSUME NEW a \in Accounts, ParseAuth(a) \/ Revoke(a) PROVE OneFlightPerAccount'
  BY <1>2 DEF ParseAuth, Revoke
<1>3. ASSUME NEW a \in Accounts, NEW c \in Calls, HostCalls(c, a) PROVE OneFlightPerAccount'
  BY <1>3 DEF HostCalls
<1>4. ASSUME NEW c \in Calls, BadStorage(c) PROVE OneFlightPerAccount'
  BY <1>4 DEF BadStorage
<1>5. ASSUME NEW c \in Calls, Join(c) PROVE OneFlightPerAccount'
  <2>1. CASE Joinable(c) = {}
    <3>1. \A d \in Calls : d # c /\ InFlight(d) => acct[d] # acct[c]
      BY <2>1 DEF Joinable, Open, Key, InFlight
    <3>2. pc' = [pc EXCEPT ![c] = "upstream"] /\ acct' = acct
      BY <1>5, <2>1 DEF Join
    <3> QED
      BY <3>1, <3>2 DEF InFlight
  <2>2. CASE Joinable(c) # {}
    <3>1. pc' = [pc EXCEPT ![c] = "waiting"] /\ acct' = acct
      BY <1>5, <2>2 DEF Join
    <3> QED
      BY <3>1
  <2> QED
    BY <2>1, <2>2
<1>6. ASSUME NEW c \in Calls, NEW rotates \in BOOLEAN, ServerIssues(c, rotates)
      PROVE  OneFlightPerAccount'
  BY <1>6 DEF ServerIssues
<1>7. ASSUME NEW c \in Calls, ServerRejects(c) PROVE OneFlightPerAccount'
  BY <1>7 DEF ServerRejects
<1>8. ASSUME NEW c \in Calls, FlightSucceeds(c) \/ FlightFails(c) PROVE OneFlightPerAccount'
  BY <1>8 DEF FlightSucceeds, FlightFails, FlightReturns
<1>9. ASSUME NEW c \in Calls, Wake(c) \/ Record(c) \/ HostSaves(c)
      PROVE  OneFlightPerAccount'
  BY <1>9 DEF Wake, Record, HostSaves
<1>10. CASE Restart
  BY <1>10 DEF Restart
<1>11. CASE UNCHANGED vars
  BY <1>11 DEF vars
<1> QED
  BY <1>1, <1>2, <1>3, <1>4, <1>5, <1>6, <1>7, <1>8, <1>9, <1>10, <1>11 DEF Next

\* The plugin never has two requests of one account under way.
THEOREM FlightsAreShared == Spec => []OneFlightPerAccount
<1>1. Init => OneFlightPerAccount
  BY DEF Init, OneFlightPerAccount
<1> QED
  BY <1>1, Placed, OneFlightStep, PTL DEF Spec
-----------------------------------------------------------------------------
(* Whose tokens, and how fresh.                                            *)

IsOwn(tokens, a) == tokens.owner = a /\ tokens.access \in 1..issued[a]

\* Tokens are only where the account is that they were issued to.
OwnTokens ==
  /\ \A a \in Accounts : store[a].tokens = NoTokens \/ IsOwn(store[a].tokens, a)
  /\ \A a \in Accounts : store[a].status = "active" => IsOwn(store[a].tokens, a)
  /\ \A a \in Accounts : file[a] = NoTokens \/ IsOwn(file[a], a)
  /\ \A c \in Calls : reply[c].kind = "ok" => IsOwn(reply[c].tokens, acct[c])
  /\ \A c \in Calls : result[c].kind = "ok" => IsOwn(result[c].tokens, acct[c])

\* The tokens n of an answer that is on its way are newer than whatever the
\* plugin and the host have of account a.
NewerThanAll(n, a) ==
  /\ store[a].tokens.access < n
  /\ file[a].access < n
  /\ \A c \in Calls : acct[c] = a /\ result[c].kind = "ok" => result[c].tokens.access < n

AnswersAreFresh ==
  \A d \in Calls :
    pc[d] = "answered" /\ reply[d].kind = "ok" => NewerThanAll(reply[d].tokens.access, acct[d])

\* A call began with tokens older than those its flight brings.
StartsAreOlder ==
  \A c \in Calls : leader[c] # None =>
    /\ start[c] <= issued[acct[c]]
    /\ pc[leader[c]] = "answered" /\ reply[leader[c]].kind = "ok" =>
         start[c] < reply[leader[c]].tokens.access
    /\ result[leader[c]].kind = "ok" => start[c] < result[leader[c]].tokens.access

LEMMA OutcomeIsOwn ==
  ASSUME TypeOK, CallsPlaced, OwnTokens, NEW c \in Calls, Outcome(c).kind = "ok"
  PROVE  acct[c] \in Accounts /\ IsOwn(Outcome(c).tokens, acct[c])
BY AccountsAssumption DEF TypeOK, CallsPlaced, OwnTokens, Outcome, Unanswered

LEMMA OwnTokensStep == TypeOK /\ CallsPlaced /\ OwnTokens /\ [Next]_vars => OwnTokens'
<1> SUFFICES ASSUME TypeOK, CallsPlaced, OwnTokens, [Next]_vars PROVE OwnTokens'
  OBVIOUS
<1>a. /\ store \in [Accounts -> States] /\ file \in [Accounts -> Tokens]
      /\ issued \in [Accounts -> Nat]
  BY DEF TypeOK
<1>b. /\ reply \in [Calls -> Answers] /\ result \in [Calls -> Answers]
      /\ acct \in [Calls -> Accounts \cup {None}]
  BY DEF TypeOK
<1>1. ASSUME NEW a \in Accounts, NEW refreshable \in BOOLEAN, LoginSucceeds(a, refreshable)
      PROVE  OwnTokens'
  <2>1. PICK tokens \in Tokens :
          /\ tokens.owner = a
          /\ tokens.access = 1
          /\ file' = [file EXCEPT ![a] = tokens]
          /\ store' = [store EXCEPT ![a] = [status |-> "active", tokens |-> tokens]]
    <3> DEFINE cred == <<IF refreshable THEN "refresh" ELSE "access", 1>>
               tokens == [owner |-> a, access |-> 1,
                          refresh |-> IF refreshable THEN cred ELSE NoCred]
    <3>1. cred \in Credential
      BY TokensAreTokens
    <3>2. tokens \in Tokens
      BY <3>1, TokensAreTokens DEF Tokens
    <3> QED
      BY <1>1, <3>2 DEF LoginSucceeds, Set
  <2>2. issued[a] = 0 /\ issued' = [issued EXCEPT ![a] = 1] /\ UNCHANGED callVars
    BY <1>1 DEF LoginSucceeds
  <2>3. \A tokens2 : ~IsOwn(tokens2, a)
    BY <2>2 DEF IsOwn
  <2>4. \A b \in Accounts \ {a} : issued'[b] = issued[b]
    BY <2>2, <1>a
  <2>5. \A tokens2, b : b \in Accounts \ {a} => (IsOwn(tokens2, b) <=> IsOwn(tokens2, b)')
    BY <2>4 DEF IsOwn
  <2>6. IsOwn(tokens, a)'
    BY <2>1, <2>2, <1>a DEF IsOwn
  <2>7. \A b \in Accounts :
           /\ store'[b].tokens = NoTokens \/ IsOwn(store[b].tokens, b)'
           /\ store'[b].status = "active" => IsOwn(store[b].tokens, b)'
           /\ file'[b] = NoTokens \/ IsOwn(file[b], b)'
    BY <2>1, <2>4, <2>5, <2>6, <1>a DEF OwnTokens, IsOwn
  <2>8. \A c \in Calls :
           /\ reply'[c].kind = "ok" => IsOwn(reply[c].tokens, acct[c])'
           /\ result'[c].kind = "ok" => IsOwn(result[c].tokens, acct[c])'
    BY <2>2, <2>3, <2>4, <1>a DEF OwnTokens, CallsPlaced, IsOwn
  <2> QED
    BY <2>7, <2>8 DEF OwnTokens
<1>2. ASSUME NEW a \in Accounts, ParseAuth(a) PROVE OwnTokens'
  BY <1>2, <1>a DEF ParseAuth, Set, OwnTokens, IsOwn
<1>3. ASSUME NEW a \in Accounts, Revoke(a) PROVE OwnTokens'
  BY <1>3 DEF Revoke, OwnTokens, IsOwn
<1>4. ASSUME NEW a \in Accounts, NEW c \in Calls, HostCalls(c, a) PROVE OwnTokens'
  <2>1. result[c].kind # "ok" /\ reply[c].kind # "ok"
    BY <1>4 DEF HostCalls, CallsPlaced, Unanswered
  <2> QED
    BY <1>4, <1>b, <2>1 DEF HostCalls, OwnTokens, IsOwn
<1>5. ASSUME NEW c \in Calls, BadStorage(c) PROVE OwnTokens'
  <2>1. store' = [store EXCEPT ![acct[c]].status = "needs_reauth"]
    BY <1>5 DEF BadStorage, MarkDegraded
  <2>2. acct[c] \in Accounts
    BY <1>5 DEF BadStorage, CallsPlaced
  <2> QED
    BY <1>5, <1>a, <2>1, <2>2 DEF BadStorage, OwnTokens, States, IsOwn
<1>6. ASSUME NEW c \in Calls, Join(c) PROVE OwnTokens'
  BY <1>6 DEF Join, OwnTokens, IsOwn
<1>7. ASSUME NEW c \in Calls, NEW rotates \in BOOLEAN, ServerIssues(c, rotates)
      PROVE  OwnTokens'
  <2> DEFINE a == acct[c]
             n == issued[a] + 1
             new == [owner |-> a, access |-> n,
                     refresh |-> NewRefreshToken(rotates, n, TokenToRefresh(shown[c]))]
  <2>1. a \in Accounts /\ n \in Nat
    BY <1>7, <1>a DEF ServerIssues, CallsPlaced
  <2>2. new.owner = a /\ new.access = n
    OBVIOUS
  <2>3. reply' = [reply EXCEPT ![c] = Ok(new)]
    BY <1>7 DEF ServerIssues
  <2>4. issued' = [issued EXCEPT ![a] = n] /\ UNCHANGED <<storeVars, acct, result>>
    BY <1>7 DEF ServerIssues
  <2> HIDE DEF new
  <2>5. issued'[a] = n /\ reply'[c] = Ok(new)
    BY <2>1, <2>3, <2>4, <1>a, <1>b
  <2>6. \A b \in Accounts : issued[b] \in Nat /\ issued'[b] \in Nat /\ issued[b] <= issued'[b]
    BY <2>1, <2>4, <1>a
  <2>7. \A b \in Accounts : 1..issued[b] \subseteq 1..issued'[b]
    BY <2>6
  <2>8. Ok(new).tokens = new /\ n \in 1..n
    BY <1>a, <2>1 DEF Ok
  <2>9. IsOwn(reply[c].tokens, acct[c])'
    BY <2>1, <2>2, <2>4, <2>5, <2>8 DEF IsOwn
  <2>10. \A b \in Accounts :
           /\ store'[b].tokens = NoTokens \/ IsOwn(store[b].tokens, b)'
           /\ store'[b].status = "active" => IsOwn(store[b].tokens, b)'
           /\ file'[b] = NoTokens \/ IsOwn(file[b], b)'
    BY <2>4, <2>7 DEF OwnTokens, IsOwn
  <2>11. \A d \in Calls : d # c => (reply'[d].kind = "ok" => IsOwn(reply[d].tokens, acct[d])')
    BY <2>3, <2>4, <2>7, <1>b DEF OwnTokens, CallsPlaced, IsOwn
  <2>12. \A d \in Calls : result'[d].kind = "ok" => IsOwn(result[d].tokens, acct[d])'
    BY <2>4, <2>7 DEF OwnTokens, CallsPlaced, IsOwn
  <2> QED
    BY <2>9, <2>10, <2>11, <2>12 DEF OwnTokens
<1>8. ASSUME NEW c \in Calls, ServerRejects(c) PROVE OwnTokens'
  BY <1>8, <1>b DEF ServerRejects, OwnTokens, Rejected, IsOwn
<1>9. ASSUME NEW c \in Calls, FlightSucceeds(c) \/ FlightFails(c) PROVE OwnTokens'
  BY <1>9, <1>b DEF FlightSucceeds, FlightFails, FlightReturns, OwnTokens, Transient, IsOwn
<1>10. ASSUME NEW c \in Calls, Wake(c) PROVE OwnTokens'
  BY <1>10 DEF Wake, OwnTokens, IsOwn
<1>11. ASSUME NEW c \in Calls, Record(c) PROVE OwnTokens'
  <2>1. acct[c] \in Accounts
    BY <1>11 DEF Record, CallsPlaced
  <2>2. UNCHANGED <<file, issued, acct, reply, result>>
    BY <1>11 DEF Record
  <2>3. CASE Outcome(c).kind = "ok"
    <3>1. store' = [store EXCEPT ![acct[c]] =
                      [status |-> "active", tokens |-> Outcome(c).tokens]]
      BY <1>11, <2>3 DEF Record, Set
    <3>2. IsOwn(Outcome(c).tokens, acct[c])
      BY <2>3, OutcomeIsOwn
    <3> QED
      BY <1>a, <2>1, <2>2, <3>1, <3>2 DEF OwnTokens, IsOwn
  <2>4. CASE Outcome(c).kind # "ok"
    <3>1. store' = [store EXCEPT ![acct[c]].status = "needs_reauth"]
      BY <1>11, <2>4 DEF Record, MarkDegraded
    <3> QED
      BY <1>a, <2>1, <2>2, <3>1 DEF OwnTokens, States, IsOwn
  <2> QED
    BY <2>3, <2>4
<1>12. ASSUME NEW c \in Calls, HostSaves(c) PROVE OwnTokens'
  <2>1. Outcome(c).kind = "ok" /\ file' = [file EXCEPT ![acct[c]] = Outcome(c).tokens]
    BY <1>12 DEF HostSaves
  <2>2. acct[c] \in Accounts /\ IsOwn(Outcome(c).tokens, acct[c])
    BY <2>1, OutcomeIsOwn
  <2>3. UNCHANGED <<store, issued, acct, reply, result>>
    BY <1>12 DEF HostSaves
  <2> QED
    BY <1>a, <2>1, <2>2, <2>3 DEF OwnTokens, IsOwn
<1>13. CASE Restart
  BY <1>13 DEF Restart, OwnTokens, Unanswered, Absent, IsOwn
<1>14. CASE UNCHANGED vars
  BY <1>14 DEF vars, OwnTokens, IsOwn
<1> QED
  BY <1>1, <1>2, <1>3, <1>4, <1>5, <1>6, <1>7, <1>8, <1>9, <1>10, <1>11, <1>12, <1>13,
     <1>14 DEF Next

LEMMA Owned == Spec => [](TypeOK /\ CallsPlaced /\ OwnTokens)
<1>1. Init => OwnTokens
  BY DEF Init, OwnTokens, Unanswered, Absent
<1> QED
  BY <1>1, Placed, OwnTokensStep, PTL DEF Spec

\* An account is active only with tokens issued to that very account.
THEOREM ActiveAreOwned == Spec => []ActiveWithOwnTokens
<1>1. OwnTokens => ActiveWithOwnTokens
  BY DEF OwnTokens, ActiveWithOwnTokens, IsOwn
<1> QED
  BY <1>1, Owned, PTL
-----------------------------------------------------------------------------
(* No refresh brings back tokens older than the account had as it began.   *)

LEMMA AccessIsNat ==
  ASSUME TypeOK
  PROVE  /\ \A a \in Accounts : /\ store[a].tokens.access \in Nat
                                /\ file[a].access \in Nat
                                /\ issued[a] \in Nat
         /\ \A c \in Calls : /\ reply[c].tokens.access \in Nat
                             /\ result[c].tokens.access \in Nat
                             /\ start[c] \in Nat
BY DEF TypeOK, States, Tokens, Answers

\* Whatever the plugin and the host have, the server has issued.
LEMMA NothingIsNewer ==
  ASSUME TypeOK, OwnTokens
  PROVE  /\ \A a \in Accounts : store[a].tokens.access <= issued[a] /\ file[a].access <= issued[a]
         /\ \A c \in Calls : result[c].kind = "ok" =>
              result[c].tokens.access <= issued[acct[c]]
BY AccessIsNat DEF OwnTokens, IsOwn, NoTokens, TypeOK

LEMMA OutcomeOfLeader ==
  ASSUME TypeOK, CallsPlaced, NEW c \in Calls, Outcome(c).kind = "ok"
  PROVE  /\ leader[c] \in Calls
         /\ acct[c] \in Accounts
         /\ acct[leader[c]] = acct[c]
         /\ Outcome(c) = result[leader[c]]
BY AccountsAssumption DEF TypeOK, CallsPlaced, Outcome, Unanswered

LEMMA FreshStep ==
  /\ TypeOK /\ CallsPlaced /\ OneFlightPerAccount /\ OwnTokens /\ AnswersAreFresh
  /\ [Next]_vars
  => AnswersAreFresh'
<1> SUFFICES ASSUME TypeOK, CallsPlaced, OneFlightPerAccount, OwnTokens, AnswersAreFresh,
                    [Next]_vars
             PROVE  AnswersAreFresh'
  OBVIOUS
<1>a. /\ store \in [Accounts -> States] /\ file \in [Accounts -> Tokens]
      /\ reply \in [Calls -> Answers] /\ result \in [Calls -> Answers]
      /\ acct \in [Calls -> Accounts \cup {None}]
      /\ DOMAIN pc = Calls
  BY DEF TypeOK
<1>b. \A d \in Calls : pc[d] = "answered" => acct[d] \in Accounts
  BY DEF CallsPlaced
<1> USE DEF AnswersAreFresh, NewerThanAll
<1>1. ASSUME NEW a \in Accounts, NEW refreshable \in BOOLEAN, LoginSucceeds(a, refreshable)
      PROVE  AnswersAreFresh'
  <2>1. issued[a] = 0 /\ UNCHANGED callVars
    BY <1>1 DEF LoginSucceeds
  <2>2. \A d \in Calls : reply[d].kind = "ok" => acct[d] # a
    BY <2>1 DEF OwnTokens, IsOwn
  <2>3. \A b \in Accounts \ {a} : store'[b] = store[b] /\ file'[b] = file[b]
    BY <1>1, <1>a DEF LoginSucceeds, Set
  <2> QED
    BY <1>b, <2>1, <2>2, <2>3
<1>2. ASSUME NEW a \in Accounts, ParseAuth(a) PROVE AnswersAreFresh'
  BY <1>2, <1>a, <1>b DEF ParseAuth, Set
<1>3. ASSUME NEW a \in Accounts, Revoke(a) PROVE AnswersAreFresh'
  BY <1>3 DEF Revoke
<1>4. ASSUME NEW a \in Accounts, NEW c \in Calls, HostCalls(c, a) PROVE AnswersAreFresh'
  <2>1. result[c].kind # "ok"
    BY <1>4 DEF HostCalls, CallsPlaced, Unanswered
  <2> QED
    BY <1>4, <1>a, <2>1 DEF HostCalls
<1>5. ASSUME NEW c \in Calls, BadStorage(c) PROVE AnswersAreFresh'
  <2>1. \A a \in Accounts : store'[a].tokens = store[a].tokens
    BY <1>5, <1>a DEF BadStorage, MarkDegraded, States
  <2> QED
    BY <1>5, <1>a, <1>b, <2>1 DEF BadStorage
<1>6. ASSUME NEW c \in Calls, Join(c) PROVE AnswersAreFresh'
  BY <1>6, <1>a DEF Join
<1>7. ASSUME NEW c \in Calls, NEW rotates \in BOOLEAN, ServerIssues(c, rotates)
      PROVE  AnswersAreFresh'
  <2> DEFINE n == issued[acct[c]] + 1
             new == [owner |-> acct[c], access |-> n,
                     refresh |-> NewRefreshToken(rotates, n, TokenToRefresh(shown[c]))]
  <2>1. acct[c] \in Accounts
    BY <1>7 DEF ServerIssues, CallsPlaced
  <2>2. new.access = n
    OBVIOUS
  <2>3. reply' = [reply EXCEPT ![c] = Ok(new)]
    BY <1>7 DEF ServerIssues
  <2>4. pc' = [pc EXCEPT ![c] = "answered"] /\ UNCHANGED <<storeVars, acct, result>>
    BY <1>7 DEF ServerIssues
  <2> HIDE DEF new
  <2>5. reply'[c].tokens.access = n
    BY <1>a, <2>2, <2>3 DEF Ok
  <2>6. NewerThanAll(n, acct[c])
    BY <2>1, NothingIsNewer, AccessIsNat
  <2>7. \A d \in Calls \ {c} : reply'[d] = reply[d] /\ pc'[d] = pc[d]
    BY <1>a, <2>3, <2>4
  <2> QED
    BY <2>4, <2>5, <2>6, <2>7
<1>8. ASSUME NEW c \in Calls, ServerRejects(c) PROVE AnswersAreFresh'
  BY <1>8, <1>a DEF ServerRejects, Rejected
<1>9. ASSUME NEW c \in Calls, FlightSucceeds(c) PROVE AnswersAreFresh'
  <2>1. \A d \in Calls : d # c /\ pc[d] = "answered" => acct[d] # acct[c]
    BY <1>9 DEF FlightSucceeds, OneFlightPerAccount
  <2>2. /\ result' = [result EXCEPT ![c] = reply[c]] /\ pc' = [pc EXCEPT ![c] = "got"]
        /\ UNCHANGED <<storeVars, acct, reply>>
    BY <1>9 DEF FlightSucceeds, FlightReturns
  <2> QED
    BY <1>a, <2>1, <2>2
<1>10. ASSUME NEW c \in Calls, FlightFails(c) PROVE AnswersAreFresh'
  BY <1>10, <1>a DEF FlightFails, FlightReturns, Transient
<1>11. ASSUME NEW c \in Calls, Wake(c) PROVE AnswersAreFresh'
  BY <1>11, <1>a DEF Wake
<1>12. ASSUME NEW c \in Calls, Record(c) PROVE AnswersAreFresh'
  <2>1. pc' = [pc EXCEPT ![c] = "done"] /\ UNCHANGED <<file, acct, reply, result>>
    BY <1>12 DEF Record
  <2>2. CASE Outcome(c).kind = "ok"
    <3>1. store' = [store EXCEPT ![acct[c]] =
                      [status |-> "active", tokens |-> Outcome(c).tokens]]
      BY <1>12, <2>2 DEF Record, Set
    <3> QED
      BY <1>a, <1>b, <2>1, <2>2, <3>1, OutcomeOfLeader
  <2>3. CASE Outcome(c).kind # "ok"
    <3>1. \A a \in Accounts : store'[a].tokens = store[a].tokens
      BY <1>12, <1>a, <2>3 DEF Record, MarkDegraded, States
    <3> QED
      BY <1>a, <1>b, <2>1, <3>1
  <2> QED
    BY <2>2, <2>3
<1>13. ASSUME NEW c \in Calls, HostSaves(c) PROVE AnswersAreFresh'
  <2>1. /\ Outcome(c).kind = "ok"
        /\ file' = [file EXCEPT ![acct[c]] = Outcome(c).tokens]
        /\ pc' = [pc EXCEPT ![c] = "saved"] /\ UNCHANGED <<store, acct, reply, result>>
    BY <1>13 DEF HostSaves
  <2> QED
    BY <1>a, <1>b, <2>1, OutcomeOfLeader
<1>14. CASE Restart
  BY <1>14 DEF Restart
<1>15. CASE UNCHANGED vars
  BY <1>15 DEF vars
<1> QED
  BY <1>1, <1>2, <1>3, <1>4, <1>5, <1>6, <1>7, <1>8, <1>9, <1>10, <1>11, <1>12, <1>13,
     <1>14, <1>15 DEF Next

LEMMA StartsStep ==
  /\ TypeOK /\ CallsPlaced /\ OwnTokens /\ AnswersAreFresh /\ StartsAreOlder /\ [Next]_vars
  => StartsAreOlder'
<1> SUFFICES ASSUME TypeOK, CallsPlaced, OwnTokens, AnswersAreFresh, StartsAreOlder,
                    [Next]_vars
             PROVE  StartsAreOlder'
  OBVIOUS
<1>a. /\ issued \in [Accounts -> Nat]
      /\ acct \in [Calls -> Accounts \cup {None}]
      /\ start \in [Calls -> Nat] /\ leader \in [Calls -> Calls \cup {None}]
      /\ reply \in [Calls -> Answers] /\ result \in [Calls -> Answers]
      /\ DOMAIN pc = Calls
  BY DEF TypeOK
<1>b. \A e \in Calls : leader[e] # None =>
        /\ leader[e] \in Calls
        /\ acct[e] \in Accounts
        /\ acct[leader[e]] = acct[e]
        /\ pc[leader[e]] \notin {"idle", "called", "waiting"}
  BY <1>a DEF CallsPlaced
<1> USE DEF StartsAreOlder
<1>1. ASSUME NEW a \in Accounts, NEW refreshable \in BOOLEAN, LoginSucceeds(a, refreshable)
      PROVE  StartsAreOlder'
  <2>1. issued[a] = 0 /\ issued' = [issued EXCEPT ![a] = 1] /\ UNCHANGED callVars
    BY <1>1 DEF LoginSucceeds
  <2>2. \A b \in Accounts : issued[b] \in Nat /\ issued'[b] \in Nat /\ issued[b] <= issued'[b]
    BY <1>a, <2>1
  <2> QED
    BY <1>a, <1>b, <2>1, <2>2
<1>2. ASSUME NEW a \in Accounts, ParseAuth(a) \/ Revoke(a) PROVE StartsAreOlder'
  BY <1>2 DEF ParseAuth, Revoke
<1>3. ASSUME NEW a \in Accounts, NEW c \in Calls, HostCalls(c, a) PROVE StartsAreOlder'
  <2>1. leader[c] = None /\ \A e \in Calls : leader[e] # None => leader[e] # c
    BY <1>3, <1>b DEF HostCalls, CallsPlaced
  <2>2. pc' = [pc EXCEPT ![c] = "called"] /\ acct' = [acct EXCEPT ![c] = a]
        /\ UNCHANGED <<issued, start, leader, reply, result>>
    BY <1>3 DEF HostCalls
  <2> QED
    BY <1>a, <1>b, <2>1, <2>2
<1>4. ASSUME NEW c \in Calls, BadStorage(c) PROVE StartsAreOlder'
  BY <1>4, <1>a, <1>b DEF BadStorage
<1>5. ASSUME NEW c \in Calls, Join(c) PROVE StartsAreOlder'
  <2>1. acct[c] \in Accounts /\ result[c].kind # "ok"
    BY <1>5 DEF Join, CallsPlaced, Unanswered
  <2>2. /\ start' = [start EXCEPT ![c] = store[acct[c]].tokens.access]
        /\ UNCHANGED <<store, issued, acct, reply, result>>
    BY <1>5 DEF Join
  <2>3. start'[c] <= issued[acct[c]]
    BY <1>a, <2>1, <2>2, NothingIsNewer
  <2>4. \A e \in Calls : leader[e] # None => leader[e] # c
    BY <1>5, <1>b DEF Join
  <2>5. CASE Joinable(c) = {}
    <3>1. leader' = [leader EXCEPT ![c] = c] /\ pc' = [pc EXCEPT ![c] = "upstream"]
      BY <1>5, <2>5 DEF Join
    <3> QED
      BY <1>a, <1>b, <2>1, <2>2, <2>3, <2>4, <3>1
  <2>6. CASE Joinable(c) # {}
    <3>1. PICK d \in Joinable(c) : leader' = [leader EXCEPT ![c] = d]
                                   /\ pc' = [pc EXCEPT ![c] = "waiting"]
      BY <1>5, <2>6 DEF Join
    <3>2. d \in Calls \ {c} /\ pc[d] \in {"upstream", "answered"} /\ acct[d] = acct[c]
      BY DEF Joinable, Open, Key
    <3>3. result[d].kind # "ok"
      BY <3>2 DEF CallsPlaced, Unanswered
    <3>4. pc[d] = "answered" /\ reply[d].kind = "ok" =>
            store[acct[c]].tokens.access < reply[d].tokens.access
      BY <3>2 DEF AnswersAreFresh, NewerThanAll
    <3> QED
      BY <1>a, <1>b, <2>1, <2>2, <2>3, <2>4, <3>1, <3>2, <3>3, <3>4
  <2> QED
    BY <2>5, <2>6
<1>6. ASSUME NEW c \in Calls, NEW rotates \in BOOLEAN, ServerIssues(c, rotates)
      PROVE  StartsAreOlder'
  <2> DEFINE n == issued[acct[c]] + 1
             new == [owner |-> acct[c], access |-> n,
                     refresh |-> NewRefreshToken(rotates, n, TokenToRefresh(shown[c]))]
  <2>1. acct[c] \in Accounts /\ result[c].kind # "ok"
    BY <1>6 DEF ServerIssues, CallsPlaced, Unanswered
  <2>2. new.access = n
    OBVIOUS
  <2>3. reply' = [reply EXCEPT ![c] = Ok(new)] /\ issued' = [issued EXCEPT ![acct[c]] = n]
    BY <1>6 DEF ServerIssues
  <2>4. pc' = [pc EXCEPT ![c] = "answered"] /\ UNCHANGED <<acct, start, leader, result>>
    BY <1>6 DEF ServerIssues
  <2> HIDE DEF new
  <2>5. reply'[c].tokens.access = n
    BY <1>a, <2>2, <2>3 DEF Ok
  <2>6. \A b \in Accounts : issued[b] \in Nat /\ issued'[b] \in Nat /\ issued[b] <= issued'[b]
    BY <1>a, <2>1, <2>3
  <2>7. \A d \in Calls \ {c} : reply'[d] = reply[d] /\ pc'[d] = pc[d]
    BY <1>a, <2>3, <2>4
  <2>8. \A e \in Calls : leader[e] = c => start[e] < n
    BY <1>a, <1>b, <2>1, AccountsAssumption
  <2>9. \A e \in Calls : leader[e] # None => start[e] <= issued'[acct[e]]
    BY <1>a, <1>b, <2>6
  <2> QED
    BY <1>b, <2>1, <2>4, <2>5, <2>7, <2>8, <2>9
<1>7. ASSUME NEW c \in Calls, ServerRejects(c) PROVE StartsAreOlder'
  BY <1>7, <1>a, <1>b DEF ServerRejects, Rejected
<1>8. ASSUME NEW c \in Calls, FlightSucceeds(c) PROVE StartsAreOlder'
  BY <1>8, <1>a, <1>b DEF FlightSucceeds, FlightReturns
<1>9. ASSUME NEW c \in Calls, FlightFails(c) PROVE StartsAreOlder'
  BY <1>9, <1>a, <1>b DEF FlightFails, FlightReturns, Transient
<1>10. ASSUME NEW c \in Calls, Wake(c) \/ Record(c) \/ HostSaves(c) PROVE StartsAreOlder'
  BY <1>10, <1>a, <1>b DEF Wake, Record, HostSaves
<1>11. CASE Restart
  BY <1>11 DEF Restart
<1>12. CASE UNCHANGED vars
  BY <1>12 DEF vars
<1> QED
  BY <1>1, <1>2, <1>3, <1>4, <1>5, <1>6, <1>7, <1>8, <1>9, <1>10, <1>11, <1>12 DEF Next

LEMMA Fresh == Spec => [](TypeOK /\ CallsPlaced /\ AnswersAreFresh /\ StartsAreOlder)
<1>1. Init => AnswersAreFresh /\ StartsAreOlder
  BY DEF Init, AnswersAreFresh, StartsAreOlder
<1> QED
  BY <1>1, Owned, FlightsAreShared, FreshStep, StartsStep, PTL DEF Spec

\* Whatever flight a call joined and however late it wakes up, the tokens it
\* brings are newer than those the store held when it joined.
THEOREM RefreshesAdvance == Spec => []RefreshNeverRegresses
<1>1. TypeOK /\ CallsPlaced /\ StartsAreOlder => RefreshNeverRegresses
  <2> SUFFICES ASSUME TypeOK, CallsPlaced, StartsAreOlder, NEW c \in Calls,
                      Outcome(c).kind = "ok"
               PROVE  Outcome(c).tokens.access > start[c]
    BY DEF RefreshNeverRegresses
  <2>1. leader[c] \in Calls /\ Outcome(c) = result[leader[c]]
    BY OutcomeOfLeader
  <2>2. start[c] < result[leader[c]].tokens.access
    BY <2>1, AccountsAssumption DEF StartsAreOlder
  <2> QED
    BY <2>1, <2>2, AccessIsNat
<1> QED
  BY <1>1, Fresh, PTL
-----------------------------------------------------------------------------
(* The tokens an account has can be refreshed again.                       *)

\* The credential of tokens is accepted, unless a is revoked or has newer ones.
CanRefresh(tokens, a) ==
  issued[a] = tokens.access /\ accepted[a] # {} => TokenToRefresh(tokens) \in accepted[a]

AnswersCanRefresh ==
  /\ \A c \in Calls : reply[c].kind = "ok" => CanRefresh(reply[c].tokens, acct[c])
  /\ \A c \in Calls : result[c].kind = "ok" => CanRefresh(result[c].tokens, acct[c])

LEMMA CredentialIsShown ==
  ASSUME NEW tokens PROVE TokenToRefresh(tokens) # NoCred
BY DEF TokenToRefresh, NoCred

LEMMA CanRefreshStep ==
  TypeOK /\ CallsPlaced /\ OwnTokens /\ AnswersCanRefresh /\ [Next]_vars => AnswersCanRefresh'
<1> SUFFICES ASSUME TypeOK, CallsPlaced, OwnTokens, AnswersCanRefresh, [Next]_vars
             PROVE  AnswersCanRefresh'
  OBVIOUS
<1>a. /\ issued \in [Accounts -> Nat]
      /\ accepted \in [Accounts -> SUBSET Credential]
      /\ acct \in [Calls -> Accounts \cup {None}]
      /\ reply \in [Calls -> Answers] /\ result \in [Calls -> Answers]
  BY DEF TypeOK
<1>b. \A c \in Calls : reply[c].kind = "ok" \/ result[c].kind = "ok" => acct[c] \in Accounts
  BY DEF CallsPlaced
<1> USE DEF AnswersCanRefresh, CanRefresh
<1>1. ASSUME NEW a \in Accounts, NEW refreshable \in BOOLEAN, LoginSucceeds(a, refreshable)
      PROVE  AnswersCanRefresh'
  <2>1. issued[a] = 0 /\ UNCHANGED callVars
    BY <1>1 DEF LoginSucceeds
  <2>2. \A c \in Calls : reply[c].kind = "ok" \/ result[c].kind = "ok" => acct[c] # a
    BY <2>1 DEF OwnTokens, IsOwn
  <2>3. \A b \in Accounts \ {a} : issued'[b] = issued[b] /\ accepted'[b] = accepted[b]
    BY <1>1, <1>a DEF LoginSucceeds
  <2> QED
    BY <1>b, <2>1, <2>2, <2>3
<1>2. ASSUME NEW a \in Accounts, ParseAuth(a) PROVE AnswersCanRefresh'
  BY <1>2 DEF ParseAuth
<1>3. ASSUME NEW a \in Accounts, Revoke(a) PROVE AnswersCanRefresh'
  BY <1>3, <1>a, <1>b DEF Revoke
<1>4. ASSUME NEW a \in Accounts, NEW c \in Calls, HostCalls(c, a) PROVE AnswersCanRefresh'
  <2>1. result[c].kind # "ok" /\ reply[c].kind # "ok"
    BY <1>4 DEF HostCalls, CallsPlaced, Unanswered
  <2> QED
    BY <1>4, <1>a, <2>1 DEF HostCalls
<1>5. ASSUME NEW c \in Calls, BadStorage(c) \/ Join(c) PROVE AnswersCanRefresh'
  BY <1>5 DEF BadStorage, Join
<1>6. ASSUME NEW c \in Calls, NEW rotates \in BOOLEAN, ServerIssues(c, rotates)
      PROVE  AnswersCanRefresh'
  <2> DEFINE a == acct[c]
             n == issued[a] + 1
             cred == TokenToRefresh(shown[c])
             new == [owner |-> a, access |-> n, refresh |-> NewRefreshToken(rotates, n, cred)]
  <2>1. a \in Accounts /\ n \in Nat
    BY <1>6, <1>a DEF ServerIssues, CallsPlaced
  <2>2. new.access = n /\ TokenToRefresh(new) = IF rotates THEN <<"refresh", n>> ELSE cred
    BY CredentialIsShown DEF TokenToRefresh, NewRefreshToken, NoCred
  <2>3. /\ cred \in accepted[a]
        /\ reply' = [reply EXCEPT ![c] = Ok(new)]
        /\ issued' = [issued EXCEPT ![a] = n]
        /\ accepted' = [accepted EXCEPT
             ![a] = IF rotates THEN (@ \ {cred}) \cup {<<"refresh", n>>} ELSE @]
        /\ UNCHANGED <<acct, result>>
    BY <1>6 DEF ServerIssues
  <2> HIDE DEF new, cred
  <2>4. \A d \in Calls \ {c} : reply'[d] = reply[d]
    BY <1>a, <2>3
  <2>5. \A b \in Accounts \ {a} : issued'[b] = issued[b] /\ accepted'[b] = accepted[b]
    BY <1>a, <2>3
  <2>6. issued'[a] = n /\ TokenToRefresh(new) \in accepted'[a]
    BY <1>a, <2>1, <2>2, <2>3
  <2>7. reply'[c].tokens = new
    BY <1>a, <2>3 DEF Ok
  <2>8. CanRefresh(reply[c].tokens, acct[c])'
    BY <2>3, <2>6, <2>7 DEF TokenToRefresh
  <2>9. \A d \in Calls : result[d].kind = "ok" /\ acct[d] = a => result[d].tokens.access # n
    BY <1>a, <2>1 DEF OwnTokens, IsOwn
  <2>10. \A d \in Calls : reply[d].kind = "ok" /\ acct[d] = a => reply[d].tokens.access # n
    BY <1>a, <2>1 DEF OwnTokens, IsOwn
  <2> HIDE DEF n
  <2>11. ASSUME NEW d \in Calls \ {c}, reply'[d].kind = "ok"
         PROVE  CanRefresh(reply[d].tokens, acct[d])'
    <3>1. acct[d] \in Accounts /\ acct'[d] = acct[d] /\ reply'[d] = reply[d]
      BY <1>b, <2>3, <2>4, <2>11
    <3>2. CASE acct[d] = a
      BY <2>6, <2>10, <2>11, <3>1, <3>2
    <3>3. CASE acct[d] # a
      <4>1. CanRefresh(reply[d].tokens, acct[d])
        BY <2>11, <3>1
      <4>2. issued'[acct[d]] = issued[acct[d]] /\ accepted'[acct[d]] = accepted[acct[d]]
        BY <2>5, <3>1, <3>3
      <4> QED
        BY <3>1, <4>1, <4>2 DEF TokenToRefresh
    <3> QED
      BY <3>2, <3>3
  <2>12. ASSUME NEW d \in Calls, result'[d].kind = "ok"
         PROVE  CanRefresh(result[d].tokens, acct[d])'
    <3>1. acct[d] \in Accounts /\ acct'[d] = acct[d] /\ result'[d] = result[d]
      BY <1>b, <2>3, <2>12
    <3>2. CASE acct[d] = a
      BY <2>6, <2>9, <2>12, <3>1, <3>2
    <3>3. CASE acct[d] # a
      <4>1. CanRefresh(result[d].tokens, acct[d])
        BY <2>12, <3>1
      <4>2. issued'[acct[d]] = issued[acct[d]] /\ accepted'[acct[d]] = accepted[acct[d]]
        BY <2>5, <3>1, <3>3
      <4> QED
        BY <3>1, <4>1, <4>2 DEF TokenToRefresh
    <3> QED
      BY <3>2, <3>3
  <2> QED
    BY <2>8, <2>11, <2>12
<1>7. ASSUME NEW c \in Calls, ServerRejects(c) PROVE AnswersCanRefresh'
  BY <1>7, <1>a DEF ServerRejects, Rejected
<1>8. ASSUME NEW c \in Calls, FlightSucceeds(c) \/ FlightFails(c) PROVE AnswersCanRefresh'
  BY <1>8, <1>a DEF FlightSucceeds, FlightFails, FlightReturns, Transient
<1>9. ASSUME NEW c \in Calls, Wake(c) \/ Record(c) \/ HostSaves(c) PROVE AnswersCanRefresh'
  BY <1>9 DEF Wake, Record, HostSaves
<1>10. CASE Restart
  BY <1>10 DEF Restart, Unanswered
<1>11. CASE UNCHANGED vars
  BY <1>11 DEF vars
<1> QED
  BY <1>1, <1>2, <1>3, <1>4, <1>5, <1>6, <1>7, <1>8, <1>9, <1>10, <1>11 DEF Next

\* A refresh keeps or replaces the credential it has shown, so the session
\* does not end with the first refresh.
THEOREM RefreshesGoOn == Spec => []RefreshableAgain
<1>1. Init => AnswersCanRefresh
  BY DEF Init, AnswersCanRefresh, Unanswered
<1>2. TypeOK /\ CallsPlaced /\ AnswersCanRefresh => RefreshableAgain
  <2> SUFFICES ASSUME TypeOK, CallsPlaced, AnswersCanRefresh, NEW c \in Calls,
                      Outcome(c).kind = "ok", issued[acct[c]] = Outcome(c).tokens.access,
                      accepted[acct[c]] # {}
               PROVE  TokenToRefresh(Outcome(c).tokens) \in accepted[acct[c]]
    BY DEF RefreshableAgain
  <2> QED
    BY OutcomeOfLeader DEF AnswersCanRefresh, CanRefresh
<1> QED
  BY <1>1, <1>2, Owned, CanRefreshStep, PTL DEF Spec
===============================================================================
