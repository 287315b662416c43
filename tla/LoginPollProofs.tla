--------------------------- MODULE LoginPollProofs ---------------------------
(***************************************************************************)
(* Theorems about LoginPoll for any attempts, any number of concurrent     *)
(* polls, any number of errors allowed and any times: types, no attempt    *)
(* is lost, three strikes, and an attempt that has ended is over.          *)
(***************************************************************************)
EXTENDS LoginPoll, TLAPS

\* Where a poll stands tells what it knows: its attempt once it has looked
\* it up, its answer once it has one, and that the attempt is gone once the
\* poll has removed it.
PollsPlaced ==
  \A p \in Polls :
    /\ pc[p] = "idle" => attempt[p] = None /\ status[p] = "none"
    /\ pc[p] # "idle" => attempt[p] \in started
    /\ pc[p] \in {"found", "asking", "counting"} => status[p] = "none"
    /\ pc[p] = "removing" => status[p] \in Ending
    /\ pc[p] \in {"clearing", "recording", "done"} /\ status[p] \in Ending =>
         attempt[p] \notin pending

\* The counter of an attempt counts no more than the failures its round
\* trips ended with last.
CounterIsEarned ==
  \A a \in Attempts :
    /\ errors[a] <= Len(trips[a])
    /\ \A k \in (Len(trips[a]) - errors[a] + 1)..Len(trips[a]) : trips[a][k] = "failed"

LEMMA EndingIsStatus == Ending \subseteq Statuses /\ "none" \notin Ending /\ "pending" \notin Ending
                          /\ "none" \in Statuses /\ "pending" \in Statuses
                          /\ "unknown" \in Statuses /\ "unknown" \notin Ending
BY DEF Ending, Statuses

LEMMA InitInv == Init => TypeOK /\ PollsPlaced /\ CounterIsEarned /\ NoAttemptLost
<1> SUFFICES ASSUME Init PROVE TypeOK /\ PollsPlaced /\ CounterIsEarned /\ NoAttemptLost
  OBVIOUS
<1>1. TypeOK
  BY EndingIsStatus, TimesAssumption DEF Init, TypeOK
<1>2. PollsPlaced
  BY EndingIsStatus DEF Init, PollsPlaced
<1>3. CounterIsEarned
  <2> SUFFICES ASSUME NEW a \in Attempts
               PROVE  /\ errors[a] <= Len(trips[a])
                      /\ \A k \in (Len(trips[a]) - errors[a] + 1)..Len(trips[a]) :
                           trips[a][k] = "failed"
    BY DEF CounterIsEarned
  <2>1. errors[a] = 0 /\ trips[a] = <<>>
    BY DEF Init
  <2>2. Len(trips[a]) = 0
    BY <2>1
  <2> QED
    BY <2>1, <2>2
<1>4. NoAttemptLost
  BY DEF Init, NoAttemptLost
<1> QED
  BY <1>1, <1>2, <1>3, <1>4

LEMMA TypeStep == TypeOK /\ PollsPlaced /\ [Next]_vars => TypeOK'
<1> SUFFICES ASSUME TypeOK, PollsPlaced, [Next]_vars PROVE TypeOK'
  OBVIOUS
<1> USE EndingIsStatus DEF TypeOK, Goto
<1>1. ASSUME NEW a \in Attempts, StartLogin(a) PROVE TypeOK'
  BY <1>1, TimesAssumption DEF StartLogin
<1>2. ASSUME NEW a \in Attempts, UserLogsIn(a) PROVE TypeOK'
  BY <1>2 DEF UserLogsIn
<1>3. ASSUME NEW a \in Attempts, NEW p \in Polls, LooksUp(p, a) PROVE TypeOK'
  BY <1>3 DEF LooksUp, AfterLookup, Ending, Statuses
<1>4. ASSUME NEW p \in Polls, NEW state \in {"clearing", "counting", "removing"},
             NEW how \in Statuses, Answered(p, state, how)
      PROVE  TypeOK'
  BY <1>4 DEF Answered
<1>5. ASSUME NEW p \in Polls, NotYet(p) \/ NoAnswer(p) \/ Rejects(p) \/ Tokens(p) PROVE TypeOK'
  BY <1>4, <1>5 DEF NotYet, NoAnswer, Rejects, Tokens, Statuses, Ending
<1>6. ASSUME NEW p \in Polls, CountsError(p) PROVE TypeOK'
  <2>1. attempt[p] \in Attempts
    BY <1>6 DEF CountsError, PollsPlaced
  <2>2. Append(trips[attempt[p]], "failed") \in Seq({"ok", "failed"})
    BY <2>1
  <2>3. errors[attempt[p]] + 1 \in Nat
    BY <2>1
  <2>4. errors' \in [Attempts -> Nat] /\ trips' \in [Attempts -> Seq({"ok", "failed"})]
    BY <1>6, <2>2, <2>3 DEF CountsError, Counter
  <2>5. \E state \in {"removing", "done"} : pc' = [pc EXCEPT ![p] = state]
    BY <1>6 DEF CountsError
  <2>6. \E how \in Statuses : status' = [status EXCEPT ![p] = how]
    BY <1>6 DEF CountsError, Ending, Statuses
  <2>7. status' \in [Polls -> Statuses]
    BY <2>6
  <2> QED
    BY <1>6, <2>4, <2>5, <2>7 DEF CountsError
<1>7. ASSUME NEW p \in Polls, Removes(p) PROVE TypeOK'
  BY <1>7 DEF Removes, AfterRemoval
<1>8. ASSUME NEW p \in Polls, Clears(p) PROVE TypeOK'
  <2>1. attempt[p] \in Attempts
    BY <1>8 DEF Clears, PollsPlaced
  <2>2. Append(trips[attempt[p]], "ok") \in Seq({"ok", "failed"})
    BY <2>1
  <2>3. trips' \in [Attempts -> Seq({"ok", "failed"})]
    BY <1>8, <2>2 DEF Clears
  <2> QED
    BY <1>8, <2>3 DEF Clears, Counter, AfterClear
<1>9. ASSUME NEW p \in Polls, Records(p) PROVE TypeOK'
  BY <1>9 DEF Records
<1>10. CASE Tick
  BY <1>10, TimesAssumption DEF Tick
<1>11. ASSUME NEW p \in Polls, ChecksDeadline(p) PROVE TypeOK'
  BY <1>11 DEF ChecksDeadline, Ending, Statuses
<1>12. CASE UNCHANGED vars
  BY <1>12 DEF vars
<1> QED
  BY <1>1, <1>2, <1>3, <1>5, <1>6, <1>7, <1>8, <1>9, <1>10, <1>11, <1>12 DEF Next

LEMMA PlacedStep == TypeOK /\ PollsPlaced /\ [Next]_vars => PollsPlaced'
<1> SUFFICES ASSUME TypeOK, PollsPlaced, [Next]_vars PROVE PollsPlaced'
  OBVIOUS
<1> USE EndingIsStatus DEF TypeOK, PollsPlaced, Goto
<1>1. ASSUME NEW a \in Attempts, StartLogin(a) PROVE PollsPlaced'
  BY <1>1, AttemptsAssumption DEF StartLogin
<1>2. ASSUME NEW a \in Attempts, UserLogsIn(a) PROVE PollsPlaced'
  BY <1>2 DEF UserLogsIn
<1>3. ASSUME NEW a \in Attempts, NEW p \in Polls, LooksUp(p, a) PROVE PollsPlaced'
  BY <1>3 DEF LooksUp, AfterLookup, Ending
<1>4. ASSUME NEW p \in Polls, NotYet(p) \/ NoAnswer(p) \/ Rejects(p) \/ Tokens(p)
      PROVE  PollsPlaced'
  <2>1. PICK state \in {"clearing", "counting", "removing"}, how \in Statuses :
          /\ Answered(p, state, how)
          /\ state = "clearing" => how \notin Ending
          /\ state = "counting" => how = "none"
          /\ state = "removing" => how \in Ending
    BY <1>4 DEF NotYet, NoAnswer, Rejects, Tokens, Ending, Statuses
  <2>2. /\ pc[p] = "asking" /\ pc' = [pc EXCEPT ![p] = state]
        /\ status' = [status EXCEPT ![p] = how]
        /\ UNCHANGED <<started, pending, attempt>>
    BY <2>1 DEF Answered
  <2> QED
    BY <2>1, <2>2
<1>5. ASSUME NEW p \in Polls, CountsError(p) PROVE PollsPlaced'
  <2>1. \/ /\ pc' = [pc EXCEPT ![p] = "removing"]
           /\ status' = [status EXCEPT ![p] = "networkError"]
        \/ /\ pc' = [pc EXCEPT ![p] = "done"]
           /\ status' = [status EXCEPT ![p] = "pending"]
    BY <1>5 DEF CountsError
  <2>2. pc[p] = "counting" /\ UNCHANGED <<started, pending, attempt>>
    BY <1>5 DEF CountsError
  <2>3. "networkError" \in Ending
    BY DEF Ending
  <2>4. CASE pc' = [pc EXCEPT ![p] = "removing"] /\ status' = [status EXCEPT ![p] = "networkError"]
    BY <2>2, <2>3, <2>4
  <2>5. CASE pc' = [pc EXCEPT ![p] = "done"] /\ status' = [status EXCEPT ![p] = "pending"]
    BY <2>2, <2>5
  <2> QED
    BY <2>1, <2>4, <2>5
<1>6. ASSUME NEW p \in Polls, Removes(p) PROVE PollsPlaced'
  BY <1>6 DEF Removes, AfterRemoval
<1>7. ASSUME NEW p \in Polls, Clears(p) PROVE PollsPlaced'
  BY <1>7 DEF Clears, AfterClear
<1>8. ASSUME NEW p \in Polls, Records(p) PROVE PollsPlaced'
  BY <1>8 DEF Records
<1>9. CASE Tick
  BY <1>9 DEF Tick
<1>10. CASE UNCHANGED vars
  BY <1>10 DEF vars
<1>11. ASSUME NEW p \in Polls, ChecksDeadline(p) PROVE PollsPlaced'
  <2>1. \/ pc' = [pc EXCEPT ![p] = "removing"] /\ status' = [status EXCEPT ![p] = "timeout"]
        \/ pc' = [pc EXCEPT ![p] = "asking"] /\ status' = status
    BY <1>11 DEF ChecksDeadline
  <2>2. pc[p] = "found" /\ UNCHANGED <<started, pending, attempt>>
    BY <1>11 DEF ChecksDeadline
  <2>3. "timeout" \in Ending
    BY DEF Ending
  <2>4. CASE pc' = [pc EXCEPT ![p] = "removing"] /\ status' = [status EXCEPT ![p] = "timeout"]
    BY <2>2, <2>3, <2>4
  <2>5. CASE pc' = [pc EXCEPT ![p] = "asking"] /\ status' = status
    BY <2>2, <2>5
  <2> QED
    BY <2>1, <2>4, <2>5
<1> QED
  BY <1>1, <1>2, <1>3, <1>4, <1>5, <1>6, <1>7, <1>8, <1>9, <1>10, <1>11 DEF Next

\* One more failure, or a counter that starts again.
LEMMA OneMoreFailure ==
  ASSUME NEW t \in Seq({"ok", "failed"}), NEW n \in Nat, n <= Len(t),
         \A k \in (Len(t) - n + 1)..Len(t) : t[k] = "failed"
  PROVE  LET u == Append(t, "failed") IN
           /\ n + 1 <= Len(u)
           /\ \A k \in (Len(u) - (n + 1) + 1)..Len(u) : u[k] = "failed"
OBVIOUS

LEMMA CounterStep == TypeOK /\ PollsPlaced /\ CounterIsEarned /\ [Next]_vars => CounterIsEarned'
<1> SUFFICES ASSUME TypeOK, PollsPlaced, CounterIsEarned, [Next]_vars PROVE CounterIsEarned'
  OBVIOUS
<1>1. ASSUME NEW p \in Polls, CountsError(p) PROVE CounterIsEarned'
  <2>1. attempt[p] \in Attempts
    BY <1>1 DEF CountsError, PollsPlaced, TypeOK
  <2>2. /\ errors' = [errors EXCEPT ![attempt[p]] = errors[attempt[p]] + 1]
        /\ trips' = [trips EXCEPT ![attempt[p]] = Append(trips[attempt[p]], "failed")]
    BY <1>1 DEF CountsError, Counter
  <2> SUFFICES ASSUME NEW a \in Attempts
               PROVE  /\ errors'[a] <= Len(trips'[a])
                      /\ \A k \in (Len(trips'[a]) - errors'[a] + 1)..Len(trips'[a]) :
                           trips'[a][k] = "failed"
    BY DEF CounterIsEarned
  <2>3. CASE a = attempt[p]
    <3>1. /\ trips[a] \in Seq({"ok", "failed"}) /\ errors[a] \in Nat
          /\ errors[a] <= Len(trips[a])
          /\ \A k \in (Len(trips[a]) - errors[a] + 1)..Len(trips[a]) : trips[a][k] = "failed"
      BY DEF TypeOK, CounterIsEarned
    <3>2. errors'[a] = errors[a] + 1 /\ trips'[a] = Append(trips[a], "failed")
      BY <2>2, <2>3 DEF TypeOK
    <3> QED
      BY <3>1, <3>2, OneMoreFailure
  <2>4. CASE a # attempt[p]
    <3>1. errors'[a] = errors[a] /\ trips'[a] = trips[a]
      BY <2>2, <2>4 DEF TypeOK
    <3> QED
      BY <3>1 DEF CounterIsEarned
  <2> QED
    BY <2>3, <2>4
<1>2. ASSUME NEW p \in Polls, Clears(p) PROVE CounterIsEarned'
  <2>1. attempt[p] \in Attempts /\ Append(trips[attempt[p]], "ok") \in Seq({"ok", "failed"})
    BY <1>2 DEF Clears, PollsPlaced, TypeOK
  <2>2. /\ errors' = [errors EXCEPT ![attempt[p]] = 0]
        /\ trips' \in {trips, [trips EXCEPT ![attempt[p]] = Append(trips[attempt[p]], "ok")]}
    BY <1>2 DEF Clears, Counter
  <2> SUFFICES ASSUME NEW a \in Attempts
               PROVE  /\ errors'[a] <= Len(trips'[a])
                      /\ \A k \in (Len(trips'[a]) - errors'[a] + 1)..Len(trips'[a]) :
                           trips'[a][k] = "failed"
    BY DEF CounterIsEarned
  <2>3. CASE a = attempt[p]
    <3>1. errors'[a] = 0 /\ trips'[a] \in Seq({"ok", "failed"})
      BY <2>1, <2>2, <2>3 DEF TypeOK
    <3>2. Len(trips'[a]) \in Nat
      BY <3>1
    <3> QED
      BY <3>1, <3>2
  <2>4. CASE a # attempt[p]
    <3>1. errors'[a] = errors[a] /\ trips'[a] = trips[a]
      BY <2>2, <2>4 DEF TypeOK
    <3> QED
      BY <3>1 DEF CounterIsEarned
  <2> QED
    BY <2>3, <2>4
<1>3. CASE UNCHANGED <<errors, trips>>
  BY <1>3 DEF CounterIsEarned
<1> QED
  BY <1>1, <1>2, <1>3
     DEF Next, vars, StartLogin, UserLogsIn, LooksUp, ChecksDeadline, NotYet, NoAnswer, Rejects, Tokens,
         Answered, Removes, Records, Tick

LEMMA NotLostStep ==
  TypeOK /\ PollsPlaced /\ NoAttemptLost /\ [Next]_vars => NoAttemptLost'
<1> SUFFICES ASSUME TypeOK, PollsPlaced, NoAttemptLost, [Next]_vars PROVE NoAttemptLost'
  OBVIOUS
\* An answer that ends an attempt is never taken back.
<1>1. ASSUME NEW q \in Polls, status[q] \in Ending
      PROVE  attempt'[q] = attempt[q] /\ status'[q] = status[q]
  BY <1>1, EndingIsStatus
     DEF Next, vars, StartLogin, UserLogsIn, LooksUp, ChecksDeadline, NotYet, NoAnswer, Rejects, Tokens,
         Answered, CountsError, Removes, Clears, Records, Tick, TypeOK, PollsPlaced, Goto
<1>2. ASSUME NEW p \in Polls, Removes(p) PROVE NoAttemptLost'
  <2>1. status[p] \in Ending
    BY <1>2 DEF Removes, PollsPlaced
  <2>2. pending' = pending \ {attempt[p]} /\ started' = started
    BY <1>2 DEF Removes, AfterRemoval
  <2> QED
    BY <1>1, <2>1, <2>2 DEF NoAttemptLost
<1>3. ASSUME started' \ pending' \subseteq started \ pending PROVE NoAttemptLost'
  BY <1>1, <1>3 DEF NoAttemptLost
<1> QED
  BY <1>2, <1>3
     DEF Next, vars, StartLogin, UserLogsIn, LooksUp, AfterLookup, ChecksDeadline, NotYet, NoAnswer, Rejects,
         Tokens, Answered, CountsError, Clears, Records, Tick
-----------------------------------------------------------------------------
Inv == TypeOK /\ PollsPlaced /\ CounterIsEarned /\ NoAttemptLost

LEMMA Invariance == Spec => []Inv
<1>1. Init => Inv
  BY InitInv DEF Inv
<1>2. Inv /\ [Next]_vars => Inv'
  BY TypeStep, PlacedStep, CounterStep, NotLostStep DEF Inv
<1> QED
  BY <1>1, <1>2, PTL DEF Spec

\* The registry, the counters and the polls keep their types: in particular
\* only an attempt that was started is ever registered.
THEOREM TypeCorrect == Spec => []TypeOK
<1>1. Inv => TypeOK
  BY DEF Inv
<1> QED
  BY <1>1, Invariance, PTL

\* No attempt is lost (poll.go:92-97): one that is no longer registered
\* ended for a poll, which tells the host so.
THEOREM AttemptsAreNotLost == Spec => []NoAttemptLost
<1>1. Inv => NoAttemptLost
  BY DEF Inv
<1> QED
  BY <1>1, Invariance, PTL

\* A network failure ends an attempt only as the last of MaxErrors failures
\* in a row (poll.go:45-51, 120-123), however the polls of it interleave.
THEOREM StrikesAreConsecutive == Spec => ThreeStrikes
<1> DEFINE Strike(p) ==
      status[p] # "networkError" /\ status'[p] = "networkError" =>
        LET t == trips'[attempt[p]] IN
          /\ Len(t) >= MaxErrors
          /\ \A k \in (Len(t) - MaxErrors + 1)..Len(t) : t[k] = "failed"
<1>1. ASSUME Inv, Inv', [Next]_vars, NEW p \in Polls PROVE Strike(p)
  <2> SUFFICES ASSUME status[p] # "networkError", status'[p] = "networkError" PROVE Strike(p)
    OBVIOUS
  <2>1. CountsError(p)
    <3> USE <1>1 DEF Inv, TypeOK
    <3>1. ASSUME NEW q \in Polls, NEW how \in Statuses \ {"networkError"},
                 status' = [status EXCEPT ![q] = how]
          PROVE  FALSE
      BY <3>1
    <3>2. CASE \E q \in Polls : CountsError(q)
      <4>1. PICK q \in Polls : CountsError(q)
        BY <3>2
      <4>2. \E how \in Statuses : status' = [status EXCEPT ![q] = how]
        BY <4>1 DEF CountsError, Ending, Statuses
      <4>3. q = p
        BY <4>2
      <4> QED
        BY <4>1, <4>3
    <3>3. CASE \E q \in Polls : NotYet(q) \/ NoAnswer(q) \/ Rejects(q) \/ Tokens(q)
      BY <3>1, <3>3 DEF NotYet, NoAnswer, Rejects, Tokens, Answered, Ending, Statuses
    <3>4. CASE \E q \in Polls, a \in Attempts : LooksUp(q, a)
      BY <3>1, <3>4 DEF LooksUp, Ending, Statuses
    <3>5. CASE \E q \in Polls : ChecksDeadline(q)
      BY <3>1, <3>5 DEF ChecksDeadline, Ending, Statuses
    <3>6. CASE UNCHANGED status
      BY <3>6
    <3> QED
      BY <3>2, <3>3, <3>4, <3>5, <3>6
         DEF Next, vars, StartLogin, UserLogsIn, Removes, Clears, Records, Tick
  <2>2. attempt[p] \in Attempts
    BY <1>1, <2>1 DEF CountsError, Inv, PollsPlaced, TypeOK
  <2>3. errors'[attempt[p]] >= MaxErrors
    BY <1>1, <2>1 DEF CountsError, Counter, Inv, TypeOK
  <2> DEFINE a == attempt[p]
             t == trips'[a]
  <2>4. /\ errors'[a] \in Nat /\ t \in Seq({"ok", "failed"})
        /\ errors'[a] <= Len(t)
        /\ \A k \in (Len(t) - errors'[a] + 1)..Len(t) : t[k] = "failed"
    BY <1>1, <2>2 DEF Inv, TypeOK, CounterIsEarned
  <2>5. Len(t) \in Nat
    BY <2>4
  <2> QED
    BY <2>3, <2>4, <2>5, MaxErrorsAssumption
<1>2. Inv /\ Inv' /\ [Next]_vars => [\A p \in Polls : Strike(p)]_vars
  BY <1>1
<1> QED
  BY <1>2, Invariance, PTL DEF Spec, ThreeStrikes

\* An attempt that has ended for one poll is over: no poll that begins then
\* finds it and asks Cursor about it.
THEOREM EndedAttemptsAreOver == Spec => EndedIsOver
<1> DEFINE Over(p) ==
      pc[p] = "idle" /\ pc'[p] = "found" =>
        ~\E q \in Polls : attempt[q] = attempt'[p] /\ Returned(q) /\ status[q] \in Ending
<1>1. ASSUME Inv, [Next]_vars, NEW p \in Polls PROVE Over(p)
  <2> SUFFICES ASSUME pc[p] = "idle", pc'[p] = "found" PROVE Over(p)
    OBVIOUS
  <2>1. PICK a \in Attempts : LooksUp(p, a)
    BY <1>1 DEF Inv, Next, vars, StartLogin, UserLogsIn, LooksUp, ChecksDeadline, NotYet, NoAnswer, Rejects,
                Tokens, Answered, CountsError, Removes, Clears, AfterClear, Records, Tick,
                TypeOK, Goto
  <2>2. a \in pending /\ attempt'[p] = a
    BY <1>1, <2>1 DEF LooksUp, Inv, TypeOK, Goto
  <2> QED
    BY <1>1, <2>2 DEF Inv, PollsPlaced, Returned
<1>2. Inv /\ [Next]_vars => [\A p \in Polls : Over(p)]_vars
  BY <1>1
<1> QED
  BY <1>2, Invariance, PTL DEF Spec, EndedIsOver
=============================================================================
