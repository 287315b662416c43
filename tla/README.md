# A TLA+ verification of cliproxy-cursor-plugin

This directory holds TLA+ models of the Cursor provider plugin in `src/`, the
TLC configurations that check them on small instances, and proofs that hold for
every value of the constants. Line numbers refer to the files under `src/`.

## The system

The plugin lets a proxy host serve OpenAI-style chat completions from a Cursor
account. The host calls it through a small C interface (`cmd/plugin`);
`internal/dispatch` decodes the call and passes it on.

| Component | State it keeps | Operations | Hard parts |
|---|---|---|---|
| Run exchange (`executor/stream.go`, `execmessage.go`, `blobstore.go`) | the result so far, the `kvWriter`, an `io.Pipe`, two channels, a context | one bidirectional HTTP/2 request: send the run request, read messages, answer blob and exec questions, heartbeat, unwind | three goroutines, two locks, a stack of deferred steps, timeouts, a dropped connection |
| Chat turn (`executor.go`, `stream.go` retry loop, `translate_response.go`, `chatformat.go`) | the attempt, its result | repeat a dead exchange, fold the result into a response, cut it into chunks | retry against duplication, partial failure |
| Conversation cache (`conversation.go`) | entries by conversation id: blob store, checkpoint, last access | `acquire` with eviction, `storeCheckpoint` | turns that overlap, an entry evicted under a running turn, age and number limits |
| Account store and refresh (`account/account.go`, `auth/provider.go`, `auth/refresh.go`) | account states in memory, a singleflight group | `ParseAuth`, `RefreshAuth`, `MarkDegraded` | shared flights, rotated credentials, restarts |
| Login poll (`auth/poll.go`, `auth/pending.go`) | attempts, their deadlines, network-error counters | `StartLogin`, `Poll`, `PollLogin` | polls that overlap, a threshold, a deadline |
| Frame codec (`stream.go` 41-51, 452-470) | the bytes read and not yet consumed | frame, unframe | reads that split frames anywhere, a connection that breaks within one, 32-bit arithmetic |
| Tool map and tool calls (`toolmap.go`, `execmessage.go`, `translate_response.go`) | the requests captured in a turn | decline a request of Cursor, surface it as a call of the client, put call and result back into the history | aliases that coincide, conventions with exceptions, reports of declined calls |
| Request translation (`translate_request.go`) | the map of calls that wait for a result | messages to turns, root prompt, action, tool definitions, conversation id | pairing of calls and results, two encodings of one history |
| Dispatch, configuration, client, discovery (`dispatch.go`, `client.go`, `discovery.go`) | package singletons, the client version | route a call, reconfigure, list models, drain a stream into one envelope | calls that overlap, a stale override, a channel filled before it is read |
| Login start, token storage, expiry, plugin entry, probe, scripts, generated code | none that outlives a call | | data and I/O |

How they interact. `Executor.run` acquires a conversation, builds the Run
request on its checkpoint and its blob store, runs exchanges until one is not
worth repeating, and stores the last checkpoint under the conversation's id. The
exchange shares the conversation's blob store with whatever turn holds the same
entry. What Cursor asks the exchange to execute is declined at once and collected;
after the exchange it becomes tool calls of the response, and the client's next
request brings calls and results back as history. The frame codec sits below the
exchange, the dispatcher above `Executor` and the auth functions. The host calls
`RefreshAuth` on its own schedule with the auth it has stored, and persists what
it gets back; the login poll ends in the same account store. Nothing is persisted
by the plugin itself.

What makes each component correct is listed with its module below; what is hard
to test in it is listed, line by line, under `hazards` in `PROJECT.json`.

## The modules

**StreamMessages** is the vocabulary: a message of Cursor is the branch the read
loop's `switch` takes, plus a blob id for the blob handshake. It says which
messages are answered, which end the stream well or badly, and what the result
keeps of each (`Fold`). A result holds *positions* of messages, so that losing,
doubling or reordering one shows.

**StreamExchange** is the abstract specification of one exchange: a sequential
loop that takes the next message, folds it, answers it if it asks for an answer,
and ends. It has no goroutines, locks, pipe or transport.

**RunExchange** is `runCursorStreamOnce`. `pc` says where the read loop, the
writer and the heartbeat stand; `kvLock` is `kvWriter.mu`, `pipeLock` the write
lock within `io.Pipe`, `wire` what the transport has read from the pipe. A write
is two steps: enter the pipe, then either the transport takes the frame or the
pipe is closed under it. The steps after the return are the deferred calls in
LIFO order (`AfterDefer`). The transport is external: it may fail `Do`, read the
request body or not, and close it. `KeepsPromise` says that all this implements
StreamExchange; `owed` is mapped to "the loop is about to write" and `answered`
to the replies found on the wire.

**ChatTurn** is a turn around the exchange: it takes the steps of StreamExchange
(as RunExchange has been shown to do), and adds the retry loop, the end of
`Executor.run` and the chunks. `observed` is a history variable: what any attempt
received.

**ConversationCache** has entries as objects, named by the turn that created
them, since a turn keeps its pointer to an entry that the cache has dropped
(`heap`, `entry`, `cache`). `acquire` is one step because it runs under the
mutex; the reading of the checkpoint is another, because it does not.
**MCConversationCache** adds the symmetry of turns and conversations.

**AccountRefresh** has the in-memory store, the file the host keeps, the
credentials the server accepts, and calls of `RefreshAuth` cut where other calls
can run in between: joining a flight, the answer, waking up, writing the store.

**LoginPoll** has the registry, the counters and polls cut at their locks and at the
reading of the clock. (`poll.go:118-123`, a request that cannot be built, is left
out: its URL is a constant with a uuid and a base64url verifier.)
**MCLoginPoll** adds the symmetry of polls.

**FrameChannel** is what framing promises: a channel of whole messages that may be
lost only at its end. **FrameCodec** is `frameConnectMessage`, `extractFrame` and
the read loop around it. A byte is a digit of `Base` and the length takes two of
them, so that the sums which wrap at 2^32 in the code wrap at `Base * Base` here.
`Read` takes any number of bytes, `Drop` cuts the wire anywhere, and
`ImplementsChannel` says that the loop implements FrameChannel.
**MCFrameCodec** has the messages.

**ToolMap** holds the table `nativeToolAliases` and every operator that uses it;
**ExecDecline** how the answer to a request to execute is found from names.
**ToolRoundTrip** is one turn and the way back over these operators: `AskNative`,
`AskMcp`, `AskContext` and `Complete` are what the model behind Cursor may do and
how the exchange answers, `Echo` is Cursor's report of a declined call.
`EndTurn`, `Accumulate`, `AddCaptured` and `Respond` make up the response one
element at a time, as the loops over `streamResult.updates` and in
`addCapturedToolRequests` do, and `ClientReturns` rebuilds the calls for the next
request, each call by itself and its result by itself. A call carries the position
of the request it came from. `resolveCursorToolField` ranges over a Go map, in no
fixed order, and so is a set. **MCToolRoundTrip** has ten declared tools, chosen
so that names coincide in each way the table allows.

**RequestTranslation** is `buildAgentRunRequest` and `conversationIDFor` as
operators on a chat; entries of turns and prompt are positions of messages.
**RequestHistory** sends any chat, well formed or not, at any time.
**MCRequestHistory** has the messages. **AgentLoop** is a well-behaved client in
its loop: it asks, runs the tools the model calls for, and sends the grown chat.
The model behind Cursor is external, and calls for a tool as long as it cannot
read its result in the prompt.

**PluginCalls** is `HandleMethod` for calls that overlap: a reconfiguration, the
methods that answer at once, model discovery, execution and streaming. It has
the process-global state they share, the account record and the version
override, and `asked`, `held` and `requests` as history variables.
**MCPluginCalls** adds the symmetry of calls.

**RunExchangeProofs**, **AccountRefreshProofs**, **ChatTurnProofs**,
**ConversationCacheProofs**, **LoginPollProofs**, **PluginCallsProofs**,
**ToolRoundTripProofs** and **SequenceProofs** hold the theorems, each about the
module it is named after, the last about two: FrameCodec and RequestHistory (whose
specification is called `ChatSpec`, so that both can be extended). What both states
are made of is sequences put together from parts, and the lemmas about that are the
same.

Names of actions and helpers follow the functions of the source; `map` in
`PROJECT.json` gives the lines of every definition. The definitions that end no
specification and stand just before another (`AfterDeferNoKvClose` before
`AfterDefer`, for instance) are mistakes the code could plausibly have made:
each property is checked to fail when one of them takes the place of the
definition it stands before.

## The runs

| Run | Configuration | What it shows |
|---|---|---|
| `exchange_safety` | `RunExchangeSafety.cfg`: three messages of seven kinds, one blob, one tick | answers are in order, none is skipped or doubled; success only at the first clean end; the result is the fold of what was processed even when the last bytes come with an error; a stored blob is found; no write after the return |
| `exchange_live` | `RunExchangeLive.cfg`: two messages of six kinds, one tick | the call returns, no goroutine is left, StreamExchange is implemented |
| `chat_turn` | `ChatTurn.cfg`: three attempts, three messages each of twelve kinds | a retry loses and doubles nothing; no truncated answer without an error; both surfaces agree; the turn is answered |
| `conversation` | `MCConversationCache.cfg`: three turns, three conversations, two entries, clock to 3 with a TTL of 1 | size bound, who is evicted and when, progress across turns, isolation of conversations |
| `accounts` | `AccountRefresh.cfg`: two accounts, two calls, one restart | one flight per account, own tokens only, no regression, refreshable again, every call returns |
| `login` | `MCLoginPoll.cfg`: two attempts, four polls, threshold two, a deadline that passes | no attempt lost, three-strikes rule, an ended attempt is over |
| `tool_round_trip` | `MCToolRoundTrip.cfg`: any two of ten declared tools, two requests of the model among all fifteen native, two completed, a client's own by any name, and the context | every request to execute is answered once and in its own field; surfaces as one call or none; a call for a tool of Cursor's names a tool the client declared; neither call nor result goes back where it may not |
| `history` | `MCRequestHistory.cfg`: chats of up to five messages of nine shapes | the model reads every text once and in order, one instruction, a result follows the call it answers, one turn per exchange |
| `agent_loop` | `AgentLoop.cfg`: two questions, two tools, one failing exchange | every question is answered: no tool is asked for for ever |
| `frames` | `MCFrameCodec.cfg`: three messages of five, reads of one to six bytes, a break anywhere | no byte is lost or doubled; FrameChannel is implemented, so a message read whole is handled before the loop waits for more |
| `plugin_calls` | `MCPluginCalls.cfg`: three calls, a version, two tokens, two attempts | a request carries the version last configured and a token that was good while its call ran; a stream's envelope tells how it ended; no call waits for itself |
| `base_blobs` | `MCConversationBlobs.cfg`: three turns, two conversations, one entry | a counterexample, below |

The type invariants are not among the properties of the runs: they are proved
(below) for the modules that have theorems.

### Where the code and its comments differ

One run ends in a counterexample. "Every blob referenced by ID here must be
pre-registered in the shared blobStore BEFORE the Run request is sent"
(`translate_request.go:55-58`); in `base_blobs` a turn's entry is evicted and
recreated while it runs, and since `storeCheckpoint` looks the entry up by id,
its checkpoint lands in the new entry, whose store lacks the blobs it refers to.
The finding is described in `PROJECT.json`.

Reading the code for the models showed further places where a comment says more
than the code does. The models follow the code, and no property states what the
comment says:

| The comment | What the code does |
|---|---|
| the error is set on the final chunk (`chatformat.go:163-166`) | it is set on the chunk before the final one (`chatformat.go:206-233`) |
| Cursor's Connect-level errors are not retried (`stream.go:201-203`) | one whose text quotes a connection failure is (`stream.go:221`) |
| partial content is returned with the error (`executor.go:184-187`) | not if one of its tool calls does not translate (`translate_response.go:98-106`) |
| a failed initial write is recorded so that it is not silently discarded (`stream.go:474-477`) | nothing reads the record, and the exchange may still succeed |
| a frame is taken if enough bytes are available (`stream.go:454-455`) | a length within five of 2^32 wraps around in the comparison (`stream.go:463`) |
| needs_reauth means the credential was rejected (`account.go:24-27`) | every failed refresh sets it (`provider.go:166`) |
| only the failure that exceeds the threshold is terminal (`poll.go:179-182`) | the one that reaches it is (`poll.go:185`) |
| a result goes back to the Cursor variant its call came from (`translate_request.go:507-512`) | a name that two variants share, as `search` is grep's and the semantic search's, may take either, and the call and its result not even the same: each lookup walks the table in map order (`toolmap.go:115`) |
| a tool that is rebuilt in the mcp wrapper is one the client declared, the others are Cursor's (`translate_request.go:519-528`) | one a client declared as `shell_tool_call` is rebuilt as Cursor's (`translate_request.go:505`), and one nobody declared, but Cursor named, in the wrapper |
| no tool is offered in two ways (`translate_request.go:189-192`) | a client tool named write is, since write is no variant of ToolCall |
| a tool not declared again is reached through Cursor's own (`translate_request.go:192-195`) | edit is not: Cursor never asks the client to run it |
| the text of a result is not silently lost (`translate_request.go:615-617`) | that of a read result is (`translate_request.go:667-672`) |
| every reply is a step of a turn (`translate_request.go:251-253`) | one to a message without text is in no turn (`translate_request.go:271-286`) |
| tool call and result reach the model (`translate_request.go:86-88`) | neither an assistant message that only calls a tool nor a result without text does (`translate_request.go:446-454`) |
| a conversation keeps its id (`conversation.go:127-130`) | not one whose first user message has no text (`conversation.go:138`) |
| the initial message is written, then messages are read and answered (`stream.go:228-231`) | it is written by a goroutine of its own, outside the mutex of the other writers (`stream.go:315-318`); a heartbeat or an answer can be in the pipe before it, and only time keeps them from it: the model has that order too |

### The bounds

Every bound is a constant. `MaxMessages` and `MaxTicks` bound the environment:
three messages let a question be answered, another be asked, and the stream end
behind them; one tick puts the heartbeat at any point of the exchange, the
unwinding included, since a tick may come at any time. `MaxAttempts` is the
code's own 3. In the cache, two entries and three conversations are the smallest
instance in which an acquire must choose a victim, and three turns let one
overlap two others in sequence. The clock counts units of the TTL, and a turn may
run for as long as the clock does: in the code a turn whose three attempts all run
into their ten minutes, with the waits between them, is three quarters of a second
longer than the thirty minutes of the TTL. Two calls of
two accounts either share a flight, follow each other or have nothing to do with
each other. The login threshold is 2 where the code has 3, so that four polls
can count, reset and count again.

The tables of ToolMap and ExecDecline are the code's own, in full; what is
bounded is the declaration (two tools of ten, enough for one to shadow, repeat or
complement another, or to have the name of a field of Cursor's) and the turn (two requests, enough for an echo or a capture
of one to meet those of the other). Five messages of RequestHistory hold a call,
its result, a repeated id and a user message in between. The bound of 13 on the
chat of AgentLoop is above what a loop that converges needs, so only one that
does not would meet it. In FrameCodec a payload may be longer than a byte counts
and a read longer than a frame; `Base` 4 puts the wrap-around at 16, above the
frames of these messages. PluginCalls needs three calls for one to set the
version, one to remove it and one to run meanwhile.

### Fairness

RunExchange assumes that runnable goroutines run, that the deadline passes
(`context.WithTimeout`, the idle timer), and that `net/http`, once the context
of a request is done, fails `Do` and closes the request body. It assumes nothing
else of the network: the server may be silent for ever, and the transport may
never read a byte of the pipe. Separate weak fairness for `HeartbeatStops`
stands for Go's random choice among ready `select` cases. ChatTurn assumes that
every attempt ends, which is what `CallReturns` shows of RunExchange, and that
timers fire. AccountRefresh assumes the 30 second timeout of the HTTP client.
AgentLoop assumes a client that runs its tools and sends, and exchanges that end,
which is what `TurnIsAnswered` shows of ChatTurn, after a bounded number of
failures. FrameCodec assumes that the loop goes on as long as there are bytes or
an error to read. ConversationCache, LoginPoll, ToolRoundTrip, RequestHistory and
PluginCalls have only safety properties and no fairness; `NoCallIsStuck` says of
PluginCalls that a call under way can always take its next step.

The runs without deadlock checking are those of AccountRefresh, LoginPoll and
PluginCalls, where every call may have been made and nothing is left to do, and
of FrameCodec, where the stream ends.

## What is proved

For each component there is one inductive invariant in named parts, a lemma per
action, or per part where an action disturbs little, and theorems that draw the
properties from it. They hold for every value of the constants that the named
assumptions of the modules allow; fairness is used nowhere. Hardly any of the
properties is inductive alone.

### The exchange

`RunExchangeProofs` proves every property of `exchange_safety` for every
set of message kinds and blobs, every number of messages and every number of
ticks, from what RunExchange assumes of its constants (`KindsAssumption`,
`BlobsAssumption`, `MaxMessagesAssumption`, `MaxTicksAssumption`). `TypeOK` and
`OneKvWriter` are no properties of the run, only of the proofs.

| Theorem | Property | Inductive invariant, beside `TypeOK` |
|---|---|---|
| `TypeCorrect` | | |
| `KvWriterIsExclusive` | | `LocksHeld`: the mutex is held exactly by the goroutine at its write |
| `ReturnIsFinal` | `NothingWritesAfterReturn` | `LocksHeld`, `UnwindOrder`: what the deferred steps already run have achieved |
| `SuccessIsComplete` | `SuccessIsACompleteTurn` | `OutcomeDecided`: the outcome is open exactly while the loop is exchanging |
| `RepliesOrdered` | `RepliesInOrder` | `ReplyPrepared`: from its lock to the end of its write the loop holds the reply to the last message taken, and older replies are smaller |
| `QuestionsAnswered` | `NoQuestionSkipped` | the two before, since only a running loop outside its write moves past a message |
| `ResultIsFold` | `ResultIsFoldOfHandled` | `Folded` for the result; `NothingHeldBack` for what an error leaves behind |
| `BlobsAreFound` | `StoredBlobIsFound` | `BlobsKept`: what was stored is in the store, and a prepared reply was looked up after it |

`NothingWritesAfterReturn`, for instance, speaks of the returned call only; what
makes it true is that each deferred step leaves something behind that later steps
rely on: the join leaves an exited writer, the close of `kvWriter` waits for its
mutex and so leaves no heartbeat in a write and no way into one.

The proofs have one step per action. Where only the read loop's variables
matter, `StepCases` first shows that a step of anyone else is `Aside` (the loop
stands still, the stream grows at its end, the wire by a frame that is no reply)
and that a deferred step is one of `Unwinds`.

The last part of the module proves the safety half of the refinement:
`PromiseIsKept` says that `Spec` implies `Init /\ [][Next]_vars` of StreamExchange under the
mapping of `KeepsPromise`. A step of the exchange is `Take` when the loop
processes a message, `Answer` when the transport has read the reply, `Break` when
the call is refused, fails or loses an answer, `ServerSends` when the server
sends, and none otherwise; that the reply on the wire is the one owed is
`ReplyPrepared`, and that the loop does not go on after a return is
`OutcomeDecided`. That the exchange ends, the other half, needs fairness and stays
with `exchange_live`.

### The turn

`ChatTurnProofs` takes the steps of StreamExchange and the retry loop together,
for every set of kinds and blobs, every `MaxMessages` and `MaxAttempts` at least
one.

| Theorem | Property | What of the invariant it rests on |
|---|---|---|
| `TypeCorrect` | | `AttemptOK`, `TurnOK`: the types of the attempt and of the turn around it |
| `RetriesLoseNothing` | `RetryLosesNothing` | `ResultOK`: the result is the fold of what the attempt has taken, and what the turn has observed is of this attempt; `PhaseOK`: a turn waits to try again only when the attempt produced nothing |
| `NothingIsTruncated` | `NoSilentTruncation` | `ResultOK`, and `PhaseOK`: a turn is answered with `Respond` of its last result |
| `SurfacesStayInAgreement` | `SurfacesAgree` | `PhaseOK` and the type of a response: one that failed has no choices |

`ResultOK` is what the code's argument for its retries comes to: nothing the
client could have seen is thrown away, since an attempt with any update or tool
request is the last.

### The conversation cache

`ConversationCacheProofs` holds for any finite set of conversations, any turns,
any limit of at least one entry and any times.

| Theorem | Property | What of the invariant it rests on |
|---|---|---|
| `TypeCorrect` | | |
| `SizeStaysBounded` | `SizeBounded` | the eviction leaves room, by the cardinality of a finite set and of it without one member |
| `TurnsBuildOnProgress` | `BuildsOnProgress` | `Progress`: what a turn acknowledged is in its entry, or something no older, as long as the entry is cached or held by a turn that began later; `TurnsPlaced` and `CachePlaced`: a turn and the cache hold entries of their own conversation |
| `ConversationsStayApart` | `ConversationsDoNotMix` | `Owned`: whatever an entry or an acknowledged state refers to was made by turns of its conversation |
| `EvictionStaysEarned` | `EvictionIsEarned` | `Timed`: the entry of a turn in flight was used when the turn began, or later |

### Accounts

`AccountRefreshProofs` proves every invariant of `accounts` for every set of
accounts and calls and any number of restarts, from `AccountsAssumption` and
`MaxRestartsAssumption`. All of them rest on
`CallsPlaced`: a call that leads or has joined a flight shares its account with
the leader, and nothing has a result before its flight is over.

| Theorem | Property | Inductive invariant, beside `TypeOK` and `CallsPlaced` |
|---|---|---|
| `TypeCorrect` | | |
| `FlightsAreShared` | `OneFlightPerAccount` | |
| `ActiveAreOwned` | `ActiveWithOwnTokens` | `OwnTokens`: tokens in the store, the files, the answers and the results belong to the account they are filed under, and the server has issued them |
| `RefreshesAdvance` | `RefreshNeverRegresses` | `AnswersAreFresh`: an answer on its way is newer than all the plugin and the host have; `StartsAreOlder`: so a call that joins late still began with older tokens |
| `RefreshesGoOn` | `RefreshableAgain` | `AnswersCanRefresh`: the same of answers and results no call has taken yet |

`RefreshNeverRegresses` is the one that depends on the flights: the call that
joins an answered flight is safe only because no other flight of the account can
have brought newer tokens into the store meanwhile, which is
`OneFlightPerAccount`.

### Logins

`LoginPollProofs` holds for any attempts and polls, any threshold and any times.

| Theorem | Property | What of the invariant it rests on |
|---|---|---|
| `TypeCorrect` | | |
| `AttemptsAreNotLost` | `NoAttemptLost` | `PollsPlaced`: a poll past its lookup has an attempt that was started, and one that has removed it tells how it ended |
| `StrikesAreConsecutive` | `ThreeStrikes` | `CounterIsEarned`: the counter of an attempt is at most the number of failures its round trips ended with last |
| `EndedAttemptsAreOver` | `EndedIsOver` | `PollsPlaced`: only a registered attempt is looked up, and nothing registers one again |

### Calls of the host

`PluginCallsProofs` holds for any calls, versions, number of attempts and tokens.

| Theorem | Property | What of the invariant it rests on |
|---|---|---|
| `TypeCorrect` | | |
| `OverrideStaysLive` | `OverrideIsLive` | `OverrideIsAsked`: the override is the version the last whole configuration asked for |
| `TokensWereGood` | `TokenWasGood` | `TokensPlaced`: a call under way has seen the account's token whenever the account was active, and the one it took is among them |
| `StreamsAreTold` | `StreamIsTold` | `ChunksPlaced`: what a stream has told and the chunks left for it are one of five pairs (`Stages`) |

### Tools

`ToolRoundTripProofs` holds for any tools a client may declare, any number of them
and of requests, any native tools among `ExecBases` and any completed variants but
`mcp`; the tables of ToolMap and ExecDecline are the code's own, as in the run.
What it assumes of a client's tools (`ClientToolsAssumption`) is how names are
written in the model: the spelling set aside for "no tool" is none of them, and a
name marked as a field of ToolCall is one. A client may declare such a tool, and
Cursor may ask for a tool by any name, declared or not: that it keeps the name is
`CallsAreDispatchable`, and that it goes back into the wrapper of client tools is
said of tools that were offered and have no field's name, since one called
`shell_tool_call` is rebuilt as Cursor's shell (`translate_request.go:505`).

| Theorem | Property | What of the invariant it rests on |
|---|---|---|
| `Inductive` | | `TypeOK` and the five parts below |
| `Answered` | `EveryAskIsAnswered` | `AnswersPlaced`: one answer for each request to execute, none for a completed call |
| `Dispatchable` | `CallsAreDispatchable` | `CallsPlaced`: each call of the response is of an update or a captured request already gone through, with the tool that made it |
| `OneCallEach` | `EachRequestIsOneCall` | `CallsPlaced`, `UpdatesPlaced` and `CapturedPlaced`: a request is captured once, or reported with its arguments once, and never both |
| `Rebuilt` | `RebuiltAsOffered` | `RebuiltPlaced`: a rebuilt call, and its result, is one of the variants of the call's name; `NoFieldIsTried`: what a native tool resolves to has no field's name |
| `OwnNameWins` | | none: it is about `resolveClientTool` alone |

That no request becomes two calls is not inductive for the response alone: a
declined call is captured and reported back as well, and what keeps the report from
counting is that only what Cursor completed itself is reported with arguments
(`UpdatesPlaced`). `CallsAreDispatchable` needs the first match in the list of
aliases to be the first (`FirstHitIsFirst`), which in turn needs the least element
of a set of naturals; the library states well-foundedness without an operator as a
parameter (`WFMin`), and `MinIsLeast` and `MaxIsGreatest` follow from it.

### Frames

The first part of `SequenceProofs` holds for any base, any messages, any size of a read and any
number of messages.

| Theorem | Property | Assumed beside the module's assumptions |
|---|---|---|
| `Kept` | | |
| `BytesKept` | `BytesAreKept` | |
| `SlicesInBounds` | | `FramesFit` |
| `ImplementsChannelSafety` | (`ImplementsChannel`) | `FramesFit` |

`BytesAreKept` is inductive with `TypeOK`. Its hard step is `ExtractFrame`:
`FrameTaken` shows that the bytes sliced off are the frame of the message read out
of them even if a sum wrapped around, because a slice that passed both guards
cannot have a wrapped bound. That appending a message appends its frame, and that
the frames of the first messages are a prefix of those of all, are inductions over
`FlattenSeq` of the community modules; `Induction` derives them from `WFMin`,
for sets of naturals instead of predicates.

`InOrder`, the third part of the invariant, says that what was received is what was
sent first, and that the loop did not panic. It follows from the bytes: what is
pending and the frame of the next message follow the same bytes on the same
stream, so they agree (`SameBytes`), the header is the next message's, and hence so
are the length and the payload (`FrameIsNext`). `FramesFit` says that no frame is as
long as the number at which sums wrap around, 2^32 in the code; protobuf keeps
messages below 2 GiB. Without it the loop can panic (`Base` 2 and a payload of one
byte), which is why the theorems name it. `ImplementsChannelSafety` proves the
initial state and every step of FrameChannel; that messages arrive needs fairness
and stays with the run.

### Requests

The second part of `SequenceProofs` proves every invariant of `history` for chats
of any length, over any messages a client may send.

| Theorem | Property |
|---|---|
| `RequestOfTheChat` | |
| `ChatIsReadOnce` | `ModelReadsTheChat` |
| `TurnsAreThoseOfTheChat` | `TurnsAreExchanges` |
| `ResultsFollowTheirCalls` | `ResultFollowsItsCall` |

The assumption used is `ShapesAssumption` of RequestHistory, that what the client
sends are messages: one of the roles and a list of calls, as
`chatMessage.UnmarshalJSON` makes of any input.

The inductive invariant, `RequestIsOfTheChat`, says that the last request which was
built is the translation of the prefix of the chat it was sent with; it is short
because a translation depends on nothing but the chat and the tools: `State` takes
nothing of the acknowledged state into its history. The rest is about that
translation, for any chat. `Parts` says of `FlattenSeq` that its parts stand one
behind the other: the members of a part are found from its offset on, and every
member is of a part. From it follow what the prompt holds (`PositionsInOrder`,
`ReadsInOrder`) and what a turn holds (`StepsOfTurn`: the steps of a message are an
interval, as long as they should be, and those of a later message come later).

A result finds a call recorded before it, with no call or result of its id in
between (`WaitingCall`), the call's own turn is not after the result's
(`OpenersGrow`), so its step stands before the result's (`CallIsRecorded`). Two
results cannot have found one call: the later would have to look past the earlier,
which took the id out (`CallsWaitOnce`).

### Only model-checked

- Liveness, which needs fairness and `ENABLED`: `CallReturns`, `NoGoroutineLeak`,
  `TurnIsAnswered`, `CallsReturn`, `EveryQuestionIsAnswered`, the second half of
  `KeepsPromise` and of `ImplementsChannel`, and `NoCallIsStuck`, which is
  `ENABLED` itself.

## What is not modelled, and the plan

Built, in order of importance: the exchange and its abstract specification; the
turn around it; the conversation cache; accounts; logins; tools and their way
back; the history of a request and the agent loop on it; the frame codec and its
channel; the calls of the host with configuration and discovery; the proofs above.
What is left is that ChatTurn's attempts are exchanges of RunExchange: it is an
argument of two modules here, the promise kept by one and taken by the other, and a
composition of both in one module would be too large for TLC.

Not modelled:

- Login start and token storage: PKCE values are random bytes, the storage a
  JSON file format and the expiry a claim of a token. They keep no state, and
  what a model would say of them is what the encoding libraries do.
- The C entry point: who owns which buffer across the C boundary, with no state
  between calls; what is called through it is PluginCalls.
- The probe (`cmd/e2eprobe`) and the scripts: tools for developers that use
  the service and are no part of the plugin.
- The generated protocol code (`internal/cursorpb/gen`), 38780 of the 43903
  lines counted as implementation: accessors and descriptors without control flow
  of this program. What the code learns from it by reflection, the members of the
  unions it walks, is in the tables of ToolMap and ExecDecline, and mapped
  to the declarations.
- Within the components modelled: the estimate of usage, random ids, the JSON of
  chunks, and the encoding of tool parameters and arguments as protocol values.
