----------------------------- MODULE PluginCalls -----------------------------
(***************************************************************************)
(* The calls of the host (internal/dispatch/dispatch.go), which overlap    *)
(* and share the plugin's process-global state: the account store and the  *)
(* Cursor client with its version override (internal/executor/client.go).  *)
(* A reconfiguration, a model discovery, and an execution with or without  *)
(* streaming, each from HandleMethod to the one envelope it returns.       *)
(*                                                                         *)
(* What an exchange does and how logins and refreshes come about are       *)
(* modules of their own; here they end in some way and change the account. *)
(***************************************************************************)
EXTENDS Naturals, Sequences

CONSTANTS
  Calls,        \* calls of the host
  Versions,     \* values of x_cursor_client_version
  MaxAttempts,  \* maxStreamAttempts
  MaxTokens     \* bound on the tokens the account is given

ASSUME BoundsAssumption == MaxAttempts \in Nat \ {0} /\ MaxTokens \in Nat

VARIABLES
  override,  \* AgentClient.clientVersion
  account,   \* account.Store's record of the one account
  pc,        \* where each call stands
  method,    \* what it does
  token,     \* the access token it took from the store
  attempt,   \* the attempt of its exchange
  chunks,    \* the stream chunks it has made
  envelope,  \* what it returned
  asked,     \* history: the version the last whole configuration asked for
  held,      \* history: the tokens the account had, active, since a call began
  requests   \* history: the requests a call sent to Cursor

callVars == <<pc, method, token, attempt, chunks, envelope>>
history == <<asked, held, requests>>
vars == <<override, account, callVars, history>>

\* The compiled-in version goes out when there is no override.
Unset == "unset"
Default == "default"
Header(version) == IF version = Unset THEN Default ELSE version

\* What a lifecycle call may carry: no config_yaml, or one that does not
\* decode, or a whole block with a version or without.
Configs == {[whole |-> FALSE, version |-> Unset]}
             \cup [whole : {TRUE}, version : Versions \cup {Unset}]

Methods == {"reconfigure", "immediate", "models", "execute", "stream"}

Request == [version : Versions \cup {Default}, asked : Versions \cup {Default},
            token : 1..MaxTokens]

Chunk == [payload : {"none", "content", "terminal"}, err : BOOLEAN]
Content == [payload |-> "content", err |-> FALSE]
Terminal == [payload |-> "terminal", err |-> FALSE]
ErrChunk == [payload |-> "none", err |-> TRUE]

NoEnvelope == [ok |-> FALSE, error |-> FALSE, events |-> <<>>]

TypeOK ==
  /\ override \in Versions \cup {Unset} /\ asked \in Versions \cup {Unset}
  /\ account \in [token : 0..MaxTokens, active : BOOLEAN]
  /\ pc \in [Calls -> {"idle", "handle", "send", "exchange", "emit", "drain", "done"}]
  /\ method \in [Calls -> Methods]
  /\ token \in [Calls -> 0..MaxTokens]
  /\ attempt \in [Calls -> 1..MaxAttempts]
  /\ chunks \in [Calls -> Seq(Chunk)]
  /\ envelope \in [Calls -> [ok : BOOLEAN, error : BOOLEAN,
                             events : Seq({"content", "terminal", "error"})]]
  /\ held \in [Calls -> SUBSET (1..MaxTokens)]
  /\ requests \in [Calls -> SUBSET Request]
  /\ \A c \in Calls : pc[c] = "done" <=> envelope[c].ok # envelope[c].error

Init ==
  /\ override = Unset /\ asked = Unset
  /\ account = [token |-> 0, active |-> FALSE]
  /\ pc = [c \in Calls |-> "idle"]
  /\ method \in [Calls -> Methods]
  /\ token = [c \in Calls |-> 0]
  /\ attempt = [c \in Calls |-> 1]
  /\ chunks = [c \in Calls |-> <<>>]
  /\ envelope = [c \in Calls |-> NoEnvelope]
  /\ held = [c \in Calls |-> {}]
  /\ requests = [c \in Calls |-> {}]

Goto(c, state) == pc' = [pc EXCEPT ![c] = state]
-----------------------------------------------------------------------------
(* The account store's writers: a login or a refresh, and a failed refresh. *)

Active == IF account.active THEN {account.token} ELSE {}

SetAccount ==
  /\ account.token < MaxTokens
  /\ account' = [token |-> account.token + 1, active |-> TRUE]
  /\ held' = [c \in Calls |-> IF pc[c] = "idle" THEN held[c] ELSE held[c] \cup {account'.token}]
  /\ UNCHANGED <<override, callVars, asked, requests>>

MarkDegraded ==
  /\ account.active
  /\ account' = [account EXCEPT !.active = FALSE]
  /\ UNCHANGED <<override, callVars, history>>
-----------------------------------------------------------------------------
(* HandleMethod.                                                           *)

Call(c) ==
  /\ pc[c] = "idle"
  /\ Goto(c, "handle")
  /\ held' = [held EXCEPT ![c] = Active]
  /\ UNCHANGED <<override, account, method, token, attempt, chunks, envelope, asked, requests>>

\* okEnvelope or errorEnvelope, with the events of a stream.
Return(c, failed, events) ==
  /\ Goto(c, "done")
  /\ envelope' = [envelope EXCEPT ![c] = [ok |-> ~failed, error |-> failed, events |-> events]]

AppliedIfSet(config) == config.whole /\ config.version # Unset
Applied(config) == config.whole

\* applyLifecycleConfigTo.  A whole block without the version clears it.
Reconfigure(c) ==
  /\ pc[c] = "handle" /\ method[c] = "reconfigure"
  /\ \E config \in Configs :
       /\ override' = IF Applied(config) THEN config.version ELSE override
       /\ asked' = IF config.whole THEN config.version ELSE asked
  /\ Return(c, FALSE, <<>>)
  /\ UNCHANGED <<account, method, token, attempt, chunks, held, requests>>

\* The answers that need no state, and the requests that do not decode.
AnswerAtOnce(c) ==
  /\ pc[c] = "handle"
  /\ \/ method[c] = "immediate" /\ \E failed \in BOOLEAN : Return(c, failed, <<>>)
     \/ method[c] \in {"models", "execute", "stream"} /\ Return(c, TRUE, <<>>)
  /\ UNCHANGED <<override, account, method, token, attempt, chunks, history>>
-----------------------------------------------------------------------------
(* ModelsForAuth, Execute and ExecuteStream.                               *)

\* A failure is an error envelope, and on the stream an error chunk.
Fail(c) ==
  IF method[c] = "stream"
    THEN chunks' = [chunks EXCEPT ![c] = <<ErrChunk>>] /\ Goto(c, "emit") /\ UNCHANGED envelope
    ELSE Return(c, TRUE, <<>>) /\ UNCHANGED chunks

Succeed(c) ==
  IF method[c] = "stream"
    THEN chunks' = [chunks EXCEPT ![c] = <<Content, Terminal>>] /\ Goto(c, "emit") /\ UNCHANGED envelope
    ELSE Return(c, FALSE, <<>>) /\ UNCHANGED chunks

Peek == account.token # 0
Get == account.token # 0 /\ account.active

GetAccount(c) ==
  /\ pc[c] = "handle" /\ method[c] \in {"models", "execute", "stream"}
  /\ IF Get THEN /\ token' = [token EXCEPT ![c] = account.token]
                 /\ Goto(c, "send")
                 /\ UNCHANGED <<chunks, envelope>>
            ELSE Fail(c) /\ UNCHANGED token
  /\ UNCHANGED <<override, account, method, attempt, history>>

\* A chat that does not decode, or whose history does not translate.
FailsEarly(c) ==
  /\ pc[c] \in {"handle", "send"}
  /\ method[c] \in {"execute", "stream"} /\ attempt[c] = 1
  /\ Fail(c)
  /\ UNCHANGED <<override, account, method, token, attempt, history>>

\* staticHeaderTransport reads the version for each attempt; the token is the
\* one the call took.
RoundTrip(c) ==
  /\ pc[c] = "send"
  /\ requests' = [requests EXCEPT ![c] = @ \cup
       {[version |-> Header(override), asked |-> Header(asked),
         token |-> token[c]]}]
  /\ Goto(c, "exchange")
  /\ UNCHANGED <<override, account, method, token, attempt, chunks, envelope, asked, held>>

ExchangeRetries(c) ==
  /\ pc[c] = "exchange"
  /\ method[c] # "models" /\ attempt[c] < MaxAttempts
  /\ attempt' = [attempt EXCEPT ![c] = @ + 1]
  /\ Goto(c, "send")
  /\ UNCHANGED <<override, account, method, token, chunks, envelope, history>>

ExchangeEnds(c) ==
  /\ pc[c] = "exchange"
  /\ Fail(c) \/ Succeed(c)
  /\ UNCHANGED <<override, account, method, token, attempt, history>>
-----------------------------------------------------------------------------
(* ExecuteStream's channel and the loop that drains it.                    *)

CapacityOne == 1
Capacity == 4

\* Nobody reads the channel yet: it must hold all chunks.
Emit(c) ==
  /\ pc[c] = "emit"
  /\ Len(chunks[c]) <= Capacity
  /\ Goto(c, "drain")
  /\ UNCHANGED <<override, account, method, token, attempt, chunks, envelope, history>>

EventsOfPayloads(chunk) == IF chunk.payload # "none" THEN <<chunk.payload>> ELSE <<>>

\* An error cannot cross the ABI as one: it becomes a payload.
Events(chunk) ==
  (IF chunk.payload # "none" THEN <<chunk.payload>> ELSE <<>>)
    \o (IF chunk.err THEN <<"error">> ELSE <<>>)

Drain(c) ==
  /\ pc[c] = "drain"
  /\ IF chunks[c] = <<>>
       THEN Return(c, FALSE, envelope[c].events) /\ UNCHANGED chunks
       ELSE /\ envelope' = [envelope EXCEPT ![c].events = @ \o Events(Head(chunks[c]))]
            /\ chunks' = [chunks EXCEPT ![c] = Tail(@)]
            /\ UNCHANGED pc
  /\ UNCHANGED <<override, account, method, token, attempt, history>>

Handle(c) ==
  \/ Reconfigure(c) \/ AnswerAtOnce(c)
  \/ GetAccount(c) \/ FailsEarly(c) \/ RoundTrip(c)
  \/ ExchangeRetries(c) \/ ExchangeEnds(c)
  \/ Emit(c) \/ Drain(c)

Next ==
  \/ SetAccount
  \/ MarkDegraded
  \/ \E c \in Calls : Call(c) \/ Handle(c)

Spec == Init /\ [][Next]_vars
-----------------------------------------------------------------------------
(* Properties.                                                             *)

\* "otherwise a stale override from an earlier reconfigure call would survive
\* indefinitely" (dispatch.go:410-414): every request, also one of a call that
\* began before, carries the version the last whole configuration asked for.
OverrideIsLive ==
  \A c \in Calls : \A r \in requests[c] : r.version = r.asked

\* Callers of Get "fail fast instead of attempting a request with a stale or
\* rejected token" (account.go:89-93): a request, the one of a late retry
\* included, carries a token that was in good standing while its call ran.
TokenWasGood ==
  \A c \in Calls : \A r \in requests[c] : r.token \in held[c]

\* A streaming call's envelope says what became of it: all chunks in order, or
\* the error, "fail loud, never silently truncate" (dispatch.go:252-256).
StreamIsTold ==
  \A c \in Calls : envelope[c].ok /\ method[c] = "stream" =>
    envelope[c].events \in {<<"content", "terminal">>, <<"error">>}

\* A call can always go on until it has returned: the channel is filled before
\* anyone reads it, and "the buffer must hold them all or this would deadlock
\* on its own send" (executor.go:66-69).
NoCallIsStuck == \A c \in Calls : pc[c] \notin {"idle", "done"} => ENABLED Handle(c)
=============================================================================
