-------------------------- MODULE PluginCallsProofs --------------------------
(***************************************************************************)
(* Theorems about PluginCalls for any number of overlapping calls, any     *)
(* versions, attempts and tokens: types, the version override is live, a   *)
(* request carries a token that was good, and a stream is told.            *)
(***************************************************************************)
EXTENDS PluginCalls, SequenceTheorems, TLAPS

USE DEF callVars, history

\* The override is the version last asked for, the plugin reads no other.
OverrideIsAsked == override = asked

\* A call under way has seen the account's token, if the account is active,
\* and the one it took itself; one that has not begun has sent nothing.
TokensPlaced ==
  /\ account.active => account.token # 0
  /\ \A c \in Calls :
       /\ pc[c] = "idle" => requests[c] = {}
       /\ pc[c] # "idle" /\ account.active => account.token \in held[c]
       /\ pc[c] \in {"send", "exchange"} => token[c] \in held[c]

\* What a stream has told so far, and the chunks that are left.
Stages == {<<<<>>, <<ErrChunk>>>>, <<<<"error">>, <<>>>>,
           <<<<>>, <<Content, Terminal>>>>, <<<<"content">>, <<Terminal>>>>,
           <<<<"content", "terminal">>, <<>>>>}

ChunksPlaced ==
  \A c \in Calls :
    /\ pc[c] \in {"idle", "handle", "send", "exchange", "emit"} => envelope[c] = NoEnvelope
    /\ pc[c] \in {"emit", "drain"} => <<envelope[c].events, chunks[c]>> \in Stages
    /\ pc[c] = "drain" => ~envelope[c].ok /\ ~envelope[c].error

Told == {<<"content", "terminal">>, <<"error">>}

LEMMA ChunksAreChunks ==
  /\ <<ErrChunk>> \in Seq(Chunk)
  /\ <<Content, Terminal>> \in Seq(Chunk)
  /\ <<Terminal>> \in Seq(Chunk)
BY DEF ErrChunk, Content, Terminal, Chunk

LEMMA EventsAreEvents ==
  /\ Events(ErrChunk) = <<"error">>
  /\ Events(Content) = <<"content">>
  /\ Events(Terminal) = <<"terminal">>
<1>1. /\ Events(ErrChunk) = <<>> \o <<"error">>
      /\ Events(Content) = <<"content">> \o <<>>
      /\ Events(Terminal) = <<"terminal">> \o <<>>
  BY DEF Events, ErrChunk, Content, Terminal
<1>2. <<>> \o <<"error">> = <<"error">> /\ <<"content">> \o <<>> = <<"content">>
        /\ <<"terminal">> \o <<>> = <<"terminal">>
  OBVIOUS
<1> QED
  BY <1>1, <1>2

\* One chunk told leads from one stage to another.
LEMMA NextStage ==
  ASSUME NEW events, NEW left, <<events, left>> \in Stages, left # <<>>
  PROVE  <<events \o Events(Head(left)), Tail(left)>> \in Stages
<1>1. CASE events = <<>> /\ left = <<ErrChunk>>
  <2>1. Head(left) = ErrChunk /\ Tail(left) = <<>>
    BY <1>1
  <2>2. <<>> \o <<"error">> = <<"error">>
    OBVIOUS
  <2> QED
    BY <1>1, <2>1, <2>2, EventsAreEvents DEF Stages
<1>2. CASE events = <<>> /\ left = <<Content, Terminal>>
  <2>1. Head(left) = Content /\ Tail(left) = <<Terminal>>
    BY <1>2
  <2>2. <<>> \o <<"content">> = <<"content">>
    OBVIOUS
  <2> QED
    BY <1>2, <2>1, <2>2, EventsAreEvents DEF Stages
<1>3. CASE events = <<"content">> /\ left = <<Terminal>>
  <2>1. Head(left) = Terminal /\ Tail(left) = <<>>
    BY <1>3
  <2>2. <<"content">> \o <<"terminal">> = <<"content", "terminal">>
    <3> DEFINE s == <<"content">> \o <<"terminal">>
               t == <<"content", "terminal">>
    <3>1. <<"content">> \in Seq({"content", "terminal"}) /\ <<"terminal">> \in Seq({"content", "terminal"})
      OBVIOUS
    <3>2. /\ s \in Seq({"content", "terminal"}) /\ Len(s) = 2
          /\ s[1] = "content" /\ s[2] = "terminal"
      BY <3>1, ConcatProperties
    <3>3. t \in Seq({"content", "terminal"}) /\ Len(t) = 2 /\ t[1] = "content" /\ t[2] = "terminal"
      OBVIOUS
    <3> HIDE DEF s, t
    <3>4. \A i \in 1..Len(s) : s[i] = t[i]
      BY <3>2, <3>3
    <3>5. s = t
      BY <3>2, <3>3, <3>4, SeqEqual
    <3> QED
      BY <3>5 DEF s, t
  <2> QED
    BY <1>3, <2>1, <2>2, EventsAreEvents DEF Stages
<1> QED
  BY <1>1, <1>2, <1>3 DEF Stages

LEMMA StagesAreTyped ==
  ASSUME NEW events, NEW left, <<events, left>> \in Stages
  PROVE  events \in Seq({"content", "terminal", "error"}) /\ left \in Seq(Chunk)
<1>1. /\ events \in {<<>>, <<"error">>, <<"content">>, <<"content", "terminal">>}
      /\ left \in {<<>>, <<ErrChunk>>, <<Content, Terminal>>, <<Terminal>>}
  BY DEF Stages
<1>2. /\ <<>> \in Seq({"content", "terminal", "error"})
      /\ <<"error">> \in Seq({"content", "terminal", "error"})
      /\ <<"content">> \in Seq({"content", "terminal", "error"})
      /\ <<"content", "terminal">> \in Seq({"content", "terminal", "error"})
      /\ <<>> \in Seq(Chunk)
  OBVIOUS
<1>3. events \in Seq({"content", "terminal", "error"})
  BY <1>1, <1>2, Zenon
<1>4. left \in Seq(Chunk)
  BY <1>1, <1>2, ChunksAreChunks, Zenon
<1> QED
  BY <1>3, <1>4

\* The last stages tell what StreamIsTold promises.
LEMMA LastStage ==
  ASSUME NEW events, <<events, <<>>>> \in Stages
  PROVE  events \in Told
BY DEF Stages, Told

Inv == TypeOK /\ OverrideIsAsked /\ TokensPlaced /\ ChunksPlaced
         /\ OverrideIsLive /\ TokenWasGood /\ StreamIsTold

LEMMA InitInv == Init => Inv
<1> SUFFICES ASSUME Init PROVE Inv
  OBVIOUS
<1>1. TypeOK
  <2>1. <<>> \in Seq(Chunk) /\ <<>> \in Seq({"content", "terminal", "error"})
    OBVIOUS
  <2>2. NoEnvelope \in [ok : BOOLEAN, error : BOOLEAN,
                        events : Seq({"content", "terminal", "error"})]
    BY <2>1 DEF NoEnvelope
  <2>3. chunks \in [Calls -> Seq(Chunk)]
          /\ envelope \in [Calls -> [ok : BOOLEAN, error : BOOLEAN,
                                     events : Seq({"content", "terminal", "error"})]]
    BY <2>1, <2>2 DEF Init
  <2>4. \A c \in Calls : pc[c] = "idle" /\ ~envelope[c].ok /\ ~envelope[c].error
    BY DEF Init, NoEnvelope
  <2>5. account \in [token : 0..MaxTokens, active : BOOLEAN]
          /\ token \in [Calls -> 0..MaxTokens] /\ attempt \in [Calls -> 1..MaxAttempts]
    BY BoundsAssumption DEF Init
  <2> QED
    BY <2>3, <2>4, <2>5 DEF Init, TypeOK
<1>2. OverrideIsAsked /\ TokensPlaced /\ ChunksPlaced
  BY DEF Init, OverrideIsAsked, TokensPlaced, ChunksPlaced
<1>3. OverrideIsLive /\ TokenWasGood /\ StreamIsTold
  BY DEF Init, OverrideIsLive, TokenWasGood, StreamIsTold, NoEnvelope
<1> QED
  BY <1>1, <1>2, <1>3 DEF Inv

\* Everything of Inv that the ends of a call can disturb.
Ends ==
  /\ pc \in [Calls -> {"idle", "handle", "send", "exchange", "emit", "drain", "done"}]
  /\ chunks \in [Calls -> Seq(Chunk)]
  /\ envelope \in [Calls -> [ok : BOOLEAN, error : BOOLEAN,
                             events : Seq({"content", "terminal", "error"})]]
  /\ \A c \in Calls : pc[c] = "done" <=> envelope[c].ok # envelope[c].error
  /\ ChunksPlaced
  /\ StreamIsTold

\* What the two ends of a call, and the writers of its chunks, change.
LEMMA ReturnStep ==
  ASSUME TypeOK, ChunksPlaced, StreamIsTold, NEW c \in Calls, NEW failed \in BOOLEAN,
         NEW events \in Seq({"content", "terminal", "error"}),
         pc[c] # "done", failed \/ method[c] # "stream" \/ events \in Told,
         Return(c, failed, events), method' = method,
         chunks' = chunks
  PROVE  Ends'
<1>1. /\ pc' = [pc EXCEPT ![c] = "done"]
      /\ envelope' = [envelope EXCEPT ![c] = [ok |-> ~failed, error |-> failed, events |-> events]]
  BY DEF Return, Goto
<1>2. /\ pc' \in [Calls -> {"idle", "handle", "send", "exchange", "emit", "drain", "done"}]
      /\ envelope' \in [Calls -> [ok : BOOLEAN, error : BOOLEAN,
                                  events : Seq({"content", "terminal", "error"})]]
  BY <1>1 DEF TypeOK
<1>3. pc'[c] = "done" /\ envelope'[c].ok = ~failed /\ envelope'[c].error = failed
        /\ envelope'[c].events = events
  BY <1>1 DEF TypeOK
<1>4. \A d \in Calls \ {c} : pc'[d] = pc[d] /\ envelope'[d] = envelope[d]
  BY <1>1 DEF TypeOK
<1>5. \A d \in Calls : pc'[d] = "done" <=> envelope'[d].ok # envelope'[d].error
  BY <1>3, <1>4 DEF TypeOK
<1>6. ChunksPlaced'
  BY <1>3, <1>4 DEF ChunksPlaced
<1>7. StreamIsTold'
  BY <1>3, <1>4 DEF StreamIsTold, Told
<1> QED
  BY <1>2, <1>5, <1>6, <1>7 DEF Ends, TypeOK

\* A stream whose chunks are made.
LEMMA MadeStep ==
  ASSUME TypeOK, ChunksPlaced, StreamIsTold, NEW c \in Calls,
         NEW made \in {<<ErrChunk>>, <<Content, Terminal>>},
         pc[c] \in {"handle", "send", "exchange"},
         chunks' = [chunks EXCEPT ![c] = made], Goto(c, "emit"), envelope' = envelope,
         method' = method
  PROVE  Ends'
<1>1. made \in Seq(Chunk)
  BY ChunksAreChunks
<1>2. /\ pc' \in [Calls -> {"idle", "handle", "send", "exchange", "emit", "drain", "done"}]
      /\ chunks' \in [Calls -> Seq(Chunk)]
  BY <1>1 DEF TypeOK, Goto
<1>3. pc'[c] = "emit" /\ chunks'[c] = made /\ envelope'[c] = NoEnvelope
  BY DEF TypeOK, Goto, ChunksPlaced
<1>4. \A d \in Calls \ {c} : pc'[d] = pc[d] /\ chunks'[d] = chunks[d]
  BY DEF TypeOK, Goto
<1>5. <<envelope'[c].events, chunks'[c]>> \in Stages
  BY <1>3 DEF Stages, NoEnvelope
<1>6. ChunksPlaced'
  BY <1>3, <1>4, <1>5 DEF ChunksPlaced
<1>7. \A d \in Calls : pc'[d] = "done" <=> envelope'[d].ok # envelope'[d].error
  BY <1>3, <1>4 DEF TypeOK, NoEnvelope
<1>8. StreamIsTold'
  BY DEF StreamIsTold
<1> QED
  BY <1>2, <1>6, <1>7, <1>8 DEF Ends, TypeOK

LEMMA FailStep ==
  ASSUME Inv, NEW c \in Calls, pc[c] \in {"handle", "send", "exchange"}, Fail(c),
         method' = method
  PROVE  Ends'
<1>0. TypeOK /\ ChunksPlaced /\ StreamIsTold
  BY DEF Inv
<1>1. CASE method[c] = "stream"
  BY <1>0, <1>1, MadeStep DEF Fail
<1>2. CASE method[c] # "stream"
  <2>1. <<>> \in Seq({"content", "terminal", "error"})
    OBVIOUS
  <2> QED
    BY <1>0, <1>2, <2>1, ReturnStep DEF Fail
<1> QED
  BY <1>1, <1>2

LEMMA SucceedStep ==
  ASSUME Inv, NEW c \in Calls, pc[c] \in {"handle", "send", "exchange"}, Succeed(c),
         method' = method
  PROVE  Ends'
<1>0. TypeOK /\ ChunksPlaced /\ StreamIsTold
  BY DEF Inv
<1>1. CASE method[c] = "stream"
  BY <1>0, <1>1, MadeStep DEF Succeed
<1>2. CASE method[c] # "stream"
  <2>1. <<>> \in Seq({"content", "terminal", "error"})
    OBVIOUS
  <2> QED
    BY <1>0, <1>2, <2>1, ReturnStep DEF Succeed
<1> QED
  BY <1>1, <1>2

\* A step that moves a call on between two places that tell nothing.
LEMMA MovesOn ==
  ASSUME Inv, NEW c \in Calls,
         NEW to \in {"handle", "send", "exchange"},
         pc[c] \in {"idle", "handle", "send", "exchange"},
         Goto(c, to), UNCHANGED <<chunks, envelope, method>>
  PROVE  Ends'
<1>1. pc' \in [Calls -> {"idle", "handle", "send", "exchange", "emit", "drain", "done"}]
  BY DEF Inv, TypeOK, Goto
<1>2. \A d \in Calls \ {c} : pc'[d] = pc[d]
  BY DEF Inv, TypeOK, Goto
<1>3. pc'[c] = to
  BY DEF Inv, TypeOK, Goto
<1>4. ChunksPlaced'
  BY <1>2, <1>3 DEF Inv, ChunksPlaced
<1>5. \A d \in Calls : pc'[d] = "done" <=> envelope'[d].ok # envelope'[d].error
  BY <1>2, <1>3 DEF Inv, TypeOK
<1>6. StreamIsTold'
  BY DEF Inv, StreamIsTold
<1> QED
  BY <1>1, <1>4, <1>5, <1>6 DEF Ends, Inv, TypeOK

LEMMA EndsUnchanged ==
  ASSUME Inv, UNCHANGED <<pc, chunks, envelope, method>>
  PROVE  Ends'
BY DEF Inv, Ends, TypeOK, ChunksPlaced, StreamIsTold
-----------------------------------------------------------------------------
\* The stages of every call, the one that takes the step and the others.
LEMMA EndsStep == Inv /\ [Next]_vars => Ends'
<1> SUFFICES ASSUME Inv, [Next]_vars PROVE Ends'
  OBVIOUS
<1>0. TypeOK /\ ChunksPlaced /\ StreamIsTold
  BY DEF Inv
<1>1. CASE SetAccount \/ MarkDegraded
  BY <1>1, EndsUnchanged DEF SetAccount, MarkDegraded
<1>2. ASSUME NEW c \in Calls, Call(c) PROVE Ends'
  BY <1>2, MovesOn DEF Call
<1>3. ASSUME NEW c \in Calls, Reconfigure(c) PROVE Ends'
  <2>1. <<>> \in Seq({"content", "terminal", "error"})
    OBVIOUS
  <2>2. PICK failed \in BOOLEAN :
          /\ Return(c, failed, <<>>) /\ pc[c] = "handle" /\ method[c] # "stream"
          /\ UNCHANGED <<chunks, method>>
    BY <1>3 DEF Reconfigure
  <2> QED
    BY <1>0, <2>1, <2>2, ReturnStep
<1>4. ASSUME NEW c \in Calls, AnswerAtOnce(c) PROVE Ends'
  <2>1. <<>> \in Seq({"content", "terminal", "error"})
    OBVIOUS
  <2>2. PICK failed \in BOOLEAN :
          /\ Return(c, failed, <<>>) /\ pc[c] = "handle"
          /\ failed \/ method[c] # "stream"
          /\ UNCHANGED <<chunks, method>>
    BY <1>4 DEF AnswerAtOnce
  <2> QED
    BY <1>0, <2>1, <2>2, ReturnStep
<1>5. ASSUME NEW c \in Calls, GetAccount(c) PROVE Ends'
  <2>1. CASE Get
    BY <1>5, <2>1, MovesOn DEF GetAccount
  <2>2. CASE ~Get
    BY <1>5, <2>2, FailStep DEF GetAccount
  <2> QED
    BY <2>1, <2>2
<1>6. ASSUME NEW c \in Calls, FailsEarly(c) PROVE Ends'
  BY <1>6, FailStep DEF FailsEarly
<1>7. ASSUME NEW c \in Calls, RoundTrip(c) PROVE Ends'
  BY <1>7, MovesOn DEF RoundTrip
<1>8. ASSUME NEW c \in Calls, ExchangeRetries(c) PROVE Ends'
  BY <1>8, MovesOn DEF ExchangeRetries
<1>9. ASSUME NEW c \in Calls, ExchangeEnds(c) PROVE Ends'
  BY <1>9, FailStep, SucceedStep DEF ExchangeEnds
<1>10. ASSUME NEW c \in Calls, Emit(c) PROVE Ends'
  <2>1. pc' \in [Calls -> {"idle", "handle", "send", "exchange", "emit", "drain", "done"}]
    BY <1>10 DEF Emit, Goto, Inv, TypeOK
  <2>2. pc[c] = "emit" /\ pc'[c] = "drain" /\ \A d \in Calls \ {c} : pc'[d] = pc[d]
    BY <1>10 DEF Emit, Goto, Inv, TypeOK
  <2>3. UNCHANGED <<chunks, envelope, method>>
    BY <1>10 DEF Emit
  <2>4. ChunksPlaced'
    BY <2>2, <2>3 DEF Inv, ChunksPlaced, NoEnvelope
  <2>5. \A d \in Calls : pc'[d] = "done" <=> envelope'[d].ok # envelope'[d].error
    BY <2>2, <2>3 DEF Inv, TypeOK
  <2> QED
    BY <2>1, <2>3, <2>4, <2>5 DEF Ends, Inv, TypeOK, StreamIsTold
<1>11. ASSUME NEW c \in Calls, Drain(c), chunks[c] = <<>> PROVE Ends'
  <2>1. <<envelope[c].events, <<>>>> \in Stages
    BY <1>11 DEF Drain, Inv, ChunksPlaced
  <2>2. envelope[c].events \in Told
    BY <2>1, LastStage
  <2>3. envelope[c].events \in Seq({"content", "terminal", "error"})
    BY <2>1, StagesAreTyped
  <2>4. Return(c, FALSE, envelope[c].events) /\ UNCHANGED <<chunks, method>> /\ pc[c] # "done"
    BY <1>11 DEF Drain
  <2> QED
    BY <1>0, <2>2, <2>3, <2>4, ReturnStep
<1>12. ASSUME NEW c \in Calls, Drain(c), chunks[c] # <<>> PROVE Ends'
  <2> DEFINE events == envelope[c].events \o Events(Head(chunks[c]))
  <2>1. <<events, Tail(chunks[c])>> \in Stages
    BY <1>12, NextStage DEF Drain, Inv, ChunksPlaced
  <2>2. events \in Seq({"content", "terminal", "error"}) /\ Tail(chunks[c]) \in Seq(Chunk)
    BY <2>1, StagesAreTyped
  <2>3. /\ envelope' = [envelope EXCEPT ![c].events = events]
        /\ chunks' = [chunks EXCEPT ![c] = Tail(chunks[c])]
        /\ pc[c] = "drain" /\ UNCHANGED <<pc, method>>
    BY <1>12 DEF Drain
  <2> HIDE DEF events
  <2> DEFINE Envelope == [ok : BOOLEAN, error : BOOLEAN,
                          events : Seq({"content", "terminal", "error"})]
  <2>4. envelope[c] \in Envelope
    BY DEF Inv, TypeOK
  <2>5. [envelope[c] EXCEPT !.events = events] \in Envelope
    BY <2>2, <2>4
  <2>6. envelope' = [envelope EXCEPT ![c] = [envelope[c] EXCEPT !.events = events]]
    BY <2>3
  <2>7. envelope \in [Calls -> Envelope]
    BY DEF Inv, TypeOK
  <2>8. envelope' \in [Calls -> Envelope]
    <3> HIDE DEF Envelope
    <3> QED
      BY <2>5, <2>6, <2>7
  <2>9. envelope' \in [Calls -> Envelope] /\ chunks' \in [Calls -> Seq(Chunk)]
    BY <2>2, <2>3, <2>8 DEF Inv, TypeOK
  <2>10. /\ envelope'[c].events = events /\ chunks'[c] = Tail(chunks[c])
        /\ envelope'[c].ok = envelope[c].ok /\ envelope'[c].error = envelope[c].error
        /\ \A d \in Calls \ {c} : envelope'[d] = envelope[d] /\ chunks'[d] = chunks[d]
    BY <2>3 DEF Inv, TypeOK
  <2>11. ChunksPlaced'
    BY <2>1, <2>3, <2>10 DEF Inv, ChunksPlaced
  <2>12. \A d \in Calls : pc'[d] = "done" <=> envelope'[d].ok # envelope'[d].error
    BY <2>3, <2>10 DEF Inv, TypeOK
  <2>13. ~envelope'[c].ok
    BY <2>3, <2>10 DEF Inv, ChunksPlaced
  <2>14. StreamIsTold'
    BY <2>3, <2>10, <2>13 DEF Inv, StreamIsTold
  <2> QED
    BY <2>3, <2>9, <2>11, <2>12, <2>14 DEF Ends, Inv, TypeOK
<1>13. CASE UNCHANGED vars
  BY <1>13, EndsUnchanged DEF vars
<1> QED
  BY <1>1, <1>2, <1>3, <1>4, <1>5, <1>6, <1>7, <1>8, <1>9, <1>10, <1>11, <1>12, <1>13
     DEF Next, Handle

\* The rest of the types.
Rest ==
  /\ override \in Versions \cup {Unset} /\ asked \in Versions \cup {Unset}
  /\ account \in [token : 0..MaxTokens, active : BOOLEAN]
  /\ method \in [Calls -> Methods]
  /\ token \in [Calls -> 0..MaxTokens]
  /\ attempt \in [Calls -> 1..MaxAttempts]
  /\ held \in [Calls -> SUBSET (1..MaxTokens)]
  /\ requests \in [Calls -> SUBSET Request]

LEMMA RestStep == Inv /\ [Next]_vars => Rest'
<1> SUFFICES ASSUME Inv, [Next]_vars PROVE Rest'
  OBVIOUS
<1> USE BoundsAssumption DEF Inv, TypeOK, Rest
<1>1. CASE SetAccount
  BY <1>1 DEF SetAccount
<1>2. CASE MarkDegraded
  BY <1>2 DEF MarkDegraded
<1>3. ASSUME NEW c \in Calls, Call(c) PROVE Rest'
  <2>1. Active \subseteq 1..MaxTokens
    BY DEF Active, TokensPlaced
  <2> QED
    BY <1>3, <2>1 DEF Call
<1>4. ASSUME NEW c \in Calls, Reconfigure(c) PROVE Rest'
  <2>1. PICK config \in Configs :
          /\ override' = IF Applied(config) THEN config.version ELSE override
          /\ asked' = IF config.whole THEN config.version ELSE asked
    BY <1>4 DEF Reconfigure
  <2>2. config.version \in Versions \cup {Unset}
    <3>1. config = [whole |-> FALSE, version |-> Unset]
            \/ config \in [whole : {TRUE}, version : Versions \cup {Unset}]
      BY <2>1 DEF Configs
    <3>2. CASE config = [whole |-> FALSE, version |-> Unset]
      BY <3>2
    <3>3. CASE config \in [whole : {TRUE}, version : Versions \cup {Unset}]
      BY <3>3
    <3> QED
      BY <3>1, <3>2, <3>3
  <2> QED
    BY <1>4, <2>1, <2>2 DEF Reconfigure
<1>5. ASSUME NEW c \in Calls, AnswerAtOnce(c) PROVE Rest'
  BY <1>5 DEF AnswerAtOnce
<1>6. ASSUME NEW c \in Calls, GetAccount(c) PROVE Rest'
  BY <1>6 DEF GetAccount
<1>7. ASSUME NEW c \in Calls, FailsEarly(c) \/ ExchangeEnds(c) PROVE Rest'
  BY <1>7 DEF FailsEarly, ExchangeEnds
<1>8. ASSUME NEW c \in Calls, RoundTrip(c) PROVE Rest'
  <2>1. [version |-> Header(override), asked |-> Header(asked), token |-> token[c]] \in Request
    BY <1>8 DEF RoundTrip, Header, Request, TokensPlaced
  <2> QED
    BY <1>8, <2>1 DEF RoundTrip
<1>9. ASSUME NEW c \in Calls, ExchangeRetries(c) PROVE Rest'
  BY <1>9 DEF ExchangeRetries
<1>10. ASSUME NEW c \in Calls, Emit(c) \/ Drain(c) PROVE Rest'
  BY <1>10 DEF Emit, Drain
<1>11. CASE UNCHANGED vars
  BY <1>11 DEF vars
<1> QED
  BY <1>1, <1>2, <1>3, <1>4, <1>5, <1>6, <1>7, <1>8, <1>9, <1>10, <1>11 DEF Next, Handle

\* The override, and the version every request carried.
LEMMA OverrideStep == Inv /\ [Next]_vars => OverrideIsAsked' /\ OverrideIsLive'
<1> SUFFICES ASSUME Inv, [Next]_vars PROVE OverrideIsAsked' /\ OverrideIsLive'
  OBVIOUS
<1> USE DEF Inv, OverrideIsAsked
<1>1. ASSUME NEW c \in Calls, Reconfigure(c) PROVE OverrideIsAsked' /\ OverrideIsLive'
  BY <1>1 DEF Reconfigure, Applied, OverrideIsLive
<1>2. ASSUME NEW c \in Calls, RoundTrip(c) PROVE OverrideIsAsked' /\ OverrideIsLive'
  BY <1>2 DEF RoundTrip, OverrideIsLive, TypeOK
<1>3. CASE UNCHANGED <<override, asked, requests>>
  BY <1>3 DEF OverrideIsLive
<1> QED
  BY <1>1, <1>2, <1>3
     DEF Next, Handle, SetAccount, MarkDegraded, Call, AnswerAtOnce, GetAccount, FailsEarly,
         ExchangeRetries, ExchangeEnds, Emit, Drain, vars

LEMMA TokensStep == Inv /\ [Next]_vars => TokensPlaced' /\ TokenWasGood'
<1> SUFFICES ASSUME Inv, [Next]_vars PROVE TokensPlaced' /\ TokenWasGood'
  OBVIOUS
<1> USE DEF Inv, TypeOK, TokensPlaced, TokenWasGood
<1>1. CASE SetAccount
  BY <1>1 DEF SetAccount
<1>2. CASE MarkDegraded
  BY <1>2 DEF MarkDegraded
<1>3. ASSUME NEW c \in Calls, Call(c) PROVE TokensPlaced' /\ TokenWasGood'
  BY <1>3 DEF Call, Goto, Active
<1>4. ASSUME NEW c \in Calls, GetAccount(c) PROVE TokensPlaced' /\ TokenWasGood'
  BY <1>4 DEF GetAccount, Get, Fail, Return, Goto
<1>5. ASSUME NEW c \in Calls, RoundTrip(c) PROVE TokensPlaced' /\ TokenWasGood'
  BY <1>5 DEF RoundTrip, Goto
<1>6. ASSUME NEW c \in Calls, ExchangeRetries(c) PROVE TokensPlaced' /\ TokenWasGood'
  BY <1>6 DEF ExchangeRetries, Goto
<1>7. ASSUME NEW c \in Calls,
             NEW to \in {"emit", "drain", "done"}, pc[c] # "idle", Goto(c, to) \/ UNCHANGED pc,
             UNCHANGED <<account, token, held, requests>>
      PROVE  TokensPlaced' /\ TokenWasGood'
  BY <1>7 DEF Goto
<1>8. ASSUME NEW c \in Calls, Reconfigure(c) \/ AnswerAtOnce(c) \/ FailsEarly(c)
             \/ ExchangeEnds(c) \/ Emit(c) \/ Drain(c)
      PROVE  TokensPlaced' /\ TokenWasGood'
  BY <1>7, <1>8
     DEF Reconfigure, AnswerAtOnce, FailsEarly, ExchangeEnds, Emit, Drain, Fail, Succeed, Return
<1>9. CASE UNCHANGED vars
  BY <1>9 DEF vars
<1> QED
  BY <1>1, <1>2, <1>3, <1>4, <1>5, <1>6, <1>8, <1>9 DEF Next, Handle

LEMMA Invariance == Spec => []Inv
<1>1. Inv /\ [Next]_vars => Inv'
  <2> SUFFICES ASSUME Inv, [Next]_vars PROVE Inv'
    OBVIOUS
  <2>1. Ends' /\ Rest'
    BY EndsStep, RestStep
  <2>2. TypeOK' /\ ChunksPlaced' /\ StreamIsTold'
    BY <2>1 DEF Ends, Rest, TypeOK
  <2> QED
    BY <2>2, OverrideStep, TokensStep DEF Inv
<1> QED
  BY <1>1, InitInv, PTL DEF Spec
-----------------------------------------------------------------------------
\* The shared state and the calls keep their types; a call has returned
\* exactly when its envelope is one of ok and error.
THEOREM TypeCorrect == Spec => []TypeOK
<1>1. Inv => TypeOK
  BY DEF Inv
<1> QED
  BY <1>1, Invariance, PTL

\* Every request carries the version that the last whole configuration asked
\* for, a removed version included (dispatch.go:410-414).
THEOREM OverrideStaysLive == Spec => []OverrideIsLive
<1>1. Inv => OverrideIsLive
  BY DEF Inv
<1> QED
  BY <1>1, Invariance, PTL

\* Every request, that of a late retry included, carries a token that was in
\* good standing while its call ran (account.go:89-93).
THEOREM TokensWereGood == Spec => []TokenWasGood
<1>1. Inv => TokenWasGood
  BY DEF Inv
<1> QED
  BY <1>1, Invariance, PTL

\* A streaming call that returned has told all its chunks, or its error
\* (dispatch.go:252-256).
THEOREM StreamsAreTold == Spec => []StreamIsTold
<1>1. Inv => StreamIsTold
  BY DEF Inv
<1> QED
  BY <1>1, Invariance, PTL
=============================================================================
