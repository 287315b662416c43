-------------------------- MODULE ConversationCache --------------------------
(***************************************************************************)
(* The conversation cache of internal/executor/conversation.go as the      *)
(* turns of Executor.run use it: acquire an entry under the mutex, read    *)
(* its checkpoint without it, let Cursor add blobs to the entry's store    *)
(* and acknowledge states while the exchange runs, and store the last      *)
(* acknowledged state under the conversation's id when it is over.  A turn *)
(* keeps its pointer to an entry that is evicted meanwhile, so entries     *)
(* are objects: each is named by the turn that created it.                 *)
(*                                                                         *)
(* Abstracted: an acknowledged state is the blobs it refers to.  Its       *)
(* history fields are replaced, and their blobs registered again, on every *)
(* turn (translate_request.go:122-153) and are left out; the blob of a     *)
(* turn stands for whatever Cursor stores during its exchange.             *)
(***************************************************************************)
EXTENDS Naturals, FiniteSets

CONSTANTS
  Convs,       \* conversation ids, as conversationIDFor derives them
  Turns,       \* chat-completions calls; also names entries and blobs
  MaxEntries,  \* maxCachedConversations
  TTL,         \* conversationTTL
  MaxTime,     \* bound on the clock
  None

ASSUME ConvsAssumption == IsFiniteSet(Convs) /\ None \notin Convs \cup Turns
ASSUME MaxEntriesAssumption == MaxEntries \in Nat \ {0}
ASSUME TimesAssumption == TTL \in Nat /\ MaxTime \in Nat

VARIABLES
  cache,   \* conversationCache.entries: the entry of each conversation
  heap,    \* the entries ever created, those no longer cached included
  now,     \* the clock
  pc,      \* where each turn stands
  conv,    \* the conversation of each turn
  entry,   \* the entry acquire returned to it
  began,   \* when it did
  base,    \* the acknowledged state its request was built on
  acked,   \* the last state Cursor acknowledged in its exchange
  before   \* history: the turns that were over when it began

turnVars == <<pc, conv, entry, began, base, acked, before>>
vars == <<cache, heap, now, turnVars>>

NoState == [turn |-> None, refs |-> {}]
State == [turn : Turns \cup {None}, refs : SUBSET Turns]
NewEntry(time) == [blobs |-> {}, checkpoint |-> NoState, lastAccess |-> time]
Entry == [blobs : SUBSET Turns, checkpoint : State, lastAccess : 0..MaxTime]

TypeOK ==
  /\ cache \in [Convs -> Turns \cup {None}]
  /\ heap \in [Turns -> Entry]
  /\ now \in 0..MaxTime
  /\ pc \in [Turns -> {"idle", "acquired", "running", "done"}]
  /\ conv \in [Turns -> Convs \cup {None}]
  /\ entry \in [Turns -> Turns \cup {None}]
  /\ began \in [Turns -> 0..MaxTime]
  /\ base \in [Turns -> State]
  /\ acked \in [Turns -> State]
  /\ before \in [Turns -> SUBSET Turns]

Init ==
  /\ cache = [c \in Convs |-> None]
  /\ heap = [e \in Turns |-> NewEntry(0)]
  /\ now = 0
  /\ pc = [t \in Turns |-> "idle"]
  /\ conv = [t \in Turns |-> None]
  /\ entry = [t \in Turns |-> None]
  /\ began = [t \in Turns |-> 0]
  /\ base = [t \in Turns |-> NoState]
  /\ acked = [t \in Turns |-> NoState]
  /\ before = [t \in Turns |-> {}]

Cached == {c \in Convs : cache[c] # None}
LastAccess(c) == heap[cache[c]].lastAccess
InFlight(t) == pc[t] \in {"acquired", "running"}

\* The history blobs aside, what a turn can see of an entry.
Done == {t \in Turns : pc[t] = "done"}
-----------------------------------------------------------------------------
(* acquire.                                                                *)

\* Entries idle for longer than the TTL, the acquired one excepted.
Stale(c) == {d \in Cached \ {c} : now - LastAccess(d) > TTL}

OverflowTooLate(c, S) ==
  {E \in SUBSET (S \ {c}) :
     Cardinality(E) = IF Cardinality(S) > MaxEntries + 1
                        THEN Cardinality(S) - MaxEntries ELSE 0}

\* The sets the eviction loop may drop from the entries S: as many as
\* exceed the limit, the least recently used first, never the acquired one;
\* map iteration decides between entries of the same age.
Overflow(c, S) ==
  {E \in SUBSET (S \ {c}) :
     /\ Cardinality(E) = IF Cardinality(S) > MaxEntries
                           THEN Cardinality(S) - MaxEntries ELSE 0
     /\ \A d \in E, k \in S \ (E \cup {c}) : LastAccess(d) <= LastAccess(k)}

EntryForShared(t, c) ==
  IF Cached # {} THEN cache[CHOOSE d \in Cached : TRUE] ELSE t

\* The object acquire returns: the cached one, or a new one named t.
EntryFor(t, c) == IF cache[c] # None THEN cache[c] ELSE t

TouchedUntouched(t, c) ==
  IF cache[c] # None THEN heap[cache[c]] ELSE NewEntry(now)

\* That object after acquire, with its last access renewed.
Touched(t, c) ==
  IF cache[c] # None THEN [heap[cache[c]] EXCEPT !.lastAccess = now] ELSE NewEntry(now)

Acquire(t, c) ==
  /\ pc[t] = "idle"
  /\ \E E \in Overflow(c, (Cached \ Stale(c)) \cup {c}) :
       cache' = [d \in Convs |-> IF d = c THEN EntryFor(t, c)
                                 ELSE IF d \in Stale(c) \cup E THEN None ELSE cache[d]]
  /\ heap' = [heap EXCEPT ![EntryFor(t, c)] = Touched(t, c)]
  /\ pc' = [pc EXCEPT ![t] = "acquired"]
  /\ conv' = [conv EXCEPT ![t] = c]
  /\ entry' = [entry EXCEPT ![t] = EntryFor(t, c)]
  /\ began' = [began EXCEPT ![t] = now]
  /\ before' = [before EXCEPT ![t] = Done]
  /\ UNCHANGED <<now, base, acked>>
-----------------------------------------------------------------------------
(* The turn between acquire and storeCheckpoint (executor.go:143-163).     *)

\* The checkpoint is read from the entry the turn holds, outside the mutex.
Build(t) ==
  /\ pc[t] = "acquired"
  /\ base' = [base EXCEPT ![t] = heap[entry[t]].checkpoint]
  /\ pc' = [pc EXCEPT ![t] = "running"]
  /\ UNCHANGED <<cache, heap, now, conv, entry, began, acked, before>>

\* The request cannot be built: nothing is sent and nothing stored.
BuildFails(t) ==
  /\ pc[t] = "acquired"
  /\ pc' = [pc EXCEPT ![t] = "done"]
  /\ UNCHANGED <<cache, heap, now, conv, entry, began, base, acked, before>>

\* setBlobArgs: the blob goes to the store the turn holds.
ServerSetsBlob(t) ==
  /\ pc[t] = "running"
  /\ heap' = [heap EXCEPT ![entry[t]].blobs = @ \cup {t}]
  /\ UNCHANGED <<cache, now, turnVars>>

\* What Cursor may refer to in turn t: what the base refers to and what it
\* has stored in this turn itself.
Known(t) == base[t].refs \cup (heap[entry[t]].blobs \cap {t})

\* conversation_checkpoint_update.
ServerAcks(t, refs) ==
  /\ pc[t] = "running"
  /\ refs \subseteq Known(t)
  /\ acked' = [acked EXCEPT ![t] = [turn |-> t, refs |-> refs]]
  /\ UNCHANGED <<cache, heap, now, pc, conv, entry, began, base, before>>

\* runCursorStream repeats an exchange that produced nothing: the result,
\* and the checkpoint in it, is that of the last attempt.
Retry(t) ==
  /\ pc[t] = "running"
  /\ acked[t] # NoState
  /\ acked' = [acked EXCEPT ![t] = NoState]
  /\ UNCHANGED <<cache, heap, now, pc, conv, entry, began, base, before>>

StoresNil(t) == cache[conv[t]] # None

\* storeCheckpoint does nothing without a checkpoint or without an entry.
Stores(t) == acked[t] # NoState /\ cache[conv[t]] # None

\* The stream is over, well or not: storeCheckpoint finds the entry by id.
StoreCheckpoint(t) ==
  /\ pc[t] = "running"
  /\ heap' = IF Stores(t)
               THEN [heap EXCEPT ![cache[conv[t]]].checkpoint = acked[t],
                                 ![cache[conv[t]]].lastAccess = now]
               ELSE heap
  /\ pc' = [pc EXCEPT ![t] = "done"]
  /\ UNCHANGED <<cache, now, conv, entry, began, base, acked, before>>

\* A turn may outlive the TTL: three attempts that each come close to their
\* deadline, and the pauses between them (stream.go:106, 134-150, 198).
Tick ==
  /\ now < MaxTime
  /\ now' = now + 1
  /\ UNCHANGED <<cache, heap, turnVars>>

Finished == Done = Turns /\ UNCHANGED vars

Next ==
  \/ \E t \in Turns :
       \/ \E c \in Convs : Acquire(t, c)
       \/ Build(t) \/ BuildFails(t)
       \/ ServerSetsBlob(t)
       \/ \E refs \in SUBSET Turns : ServerAcks(t, refs)
       \/ Retry(t)
       \/ StoreCheckpoint(t)
  \/ Tick
  \/ Finished

Spec == Init /\ [][Next]_vars
-----------------------------------------------------------------------------
(* Properties.                                                             *)

\* "a long running host cannot grow this cache without limit"
\* (conversation.go:37-38).
SizeBounded == Cardinality(Cached) <= MaxEntries

\* Eviction is earned: an entry leaves the cache only when it was idle for
\* longer than the TTL, or when the limit is reached by entries that were
\* all used at least as recently, a checkpoint stored counting as a use.  A
\* turn in flight loses its entry to the limit, or to the clock when it has
\* been running for longer than the TTL itself, whoever else used the entry
\* and however old it was when the turn acquired it.
EvictionIsEarned ==
  [][/\ \A c \in Cached : cache'[c] = None =>
          \/ now - LastAccess(c) > TTL
          \/ Cardinality({d \in Cached' : heap'[cache'[d]].lastAccess >= LastAccess(c)})
               >= MaxEntries
     /\ \A t \in Turns :
          InFlight(t) /\ cache[conv[t]] = entry[t] /\ cache'[conv[t]] # entry[t] =>
            Cardinality(Cached') = MaxEntries \/ now - began[t] > TTL]_vars

\* A turn builds on the progress of the turns before it, for as long as the
\* entry lives: if turn u of the same entry was over and acknowledged when t
\* began, then t builds on an acknowledged state, and not on one of a turn
\* that was over before u began ("so the next turn can build on it instead
\* of starting from scratch", conversation.go:104-105).
BuildsOnProgress ==
  \A t, u \in Turns :
    /\ pc[t] = "running"
    /\ u \in before[t]
    /\ entry[u] = entry[t]
    /\ acked[u] # NoState
    => base[t] # NoState /\ base[t].turn \notin before[u]

\* Conversations do not mix: whatever a turn can read, the blobs and the
\* checkpoint of its entry, comes from turns of its own conversation.
ConversationsDoNotMix ==
  \A t \in Turns : entry[t] # None =>
    LET e == heap[entry[t]] IN
      \A u \in e.blobs \cup e.checkpoint.refs \cup ({e.checkpoint.turn} \ {None}) :
        conv[u] = conv[t]

\* "Every blob referenced by ID here must be pre-registered in the shared
\* blobStore BEFORE the Run request is sent, so an eventual server-initiated
\* getBlobArgs for that ID can be answered immediately"
\* (translate_request.go:55-58).
BaseBlobsAvailable ==
  \A t \in Turns : pc[t] = "running" => base[t].refs \subseteq heap[entry[t]].blobs
=============================================================================
